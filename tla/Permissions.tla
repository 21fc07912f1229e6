---------------------------- MODULE Permissions ----------------------------
(***************************************************************************)
(* Who may do what (src/sbvr-api/permissions.ts): a request of Credentials *)
(* is answered as its permissions allow, addPermissions constraining it to *)
(* the rows that they are for.                                             *)
(***************************************************************************)
EXTENDS Credentials, Translations

AskKinds == {"method", "canAccess", "expand", "middleware"}

ASSUME PermissionAssumption ==
  /\ \A p \in Permissions : /\ p.scope \in Scopes
                            /\ p.cond \in {Always} \cup DOMAIN Plain \cup DOMAIN Links
                                         \cup DOMAIN Compound
                            /\ \A c \in ConditionsIn(Parsed(p.cond)) \cap DOMAIN Links :
                                 p.scope = Links[c].on
  /\ \A r \in Requests : \A ask \in Asks[r] :
       /\ ask.kind \in AskKinds
       /\ ask.kind \in {"method", "canAccess"} => ask.name \in Named[ask.version]
       /\ ask.kind = "expand" => ask.by \in DOMAIN Links
-----------------------------------------------------------------------------
(* The answer: AnswerOf. *)

\* The filter on the rows of a table of the database.
FilterOf(lookup, t) == IF t.as = Bypass THEN True ELSE Constrain(lookup, t.as, t.name)

RowsOf(t, filter) == {x \in Rows[t.name] : Admits(filter, x)}
Shown(rows) == [op |-> "rows", rows |-> rows]

\* addPermissions, and what the query comes to.
MethodAnswer(lookup, ask) ==
  LET t == TableOf(ask.name, ask.version, ask.check)
      filter == FilterOf(lookup, Base(t))
  IN IF Refused \in {filter} \cup {FilterOf(lookup, b) : b \in InnerBases(t)} THEN Refused
     ELSE Shown(RowsOf(Base(t), filter))

\* The canAccess action: a GET, with the permissions of the action it asks about,
\* that refuses to answer with nothing.
CanAccessAnswer(lookup, ask) ==
  LET answer == MethodAnswer(lookup, ask) IN IF answer = Shown({}) THEN Refused ELSE answer

\* A GET of one resource that expands another, with the relationship rewritten.
ExpandAnswer(lookup, link) ==
  LET from == TableOf(link.to, Versions, MethodCheck("GET"))
      to == TableOf(link.on, Versions,
                    IF Shortcut(lookup, link.to, link.on) THEN Bypass ELSE MethodCheck("GET"))
      filter == FilterOf(lookup, from)
      toFilter == FilterOf(lookup, to)
  IN IF Refused \in {filter, toFilter} THEN Refused
     ELSE LET rows == RowsOf(from, filter)
          IN Shown({y \in RowsOf(to, toFilter) : \E x \in rows : <<y, x>> \in link.refs})

\* checkPermissionsMiddleware, which has neither vocabulary nor resource.
MiddlewareAnswer(lookup, check) ==
  LET allowed == CheckPermissions(lookup, check, {"resource"})
  IN CASE allowed = True -> [op |-> "next"]
       [] allowed = False -> [op |-> "401"]
       [] OTHER -> [op |-> "503"]

Decision(P, ask) ==
  LET lookup == Lookup(P)
  IN CASE ask.kind = "method" -> MethodAnswer(lookup, ask)
       [] ask.kind = "canAccess" -> CanAccessAnswer(lookup, ask)
       [] ask.kind = "expand" -> ExpandAnswer(lookup, Links[ask.by])
       [] ask.kind = "middleware" -> MiddlewareAnswer(lookup, ask.check)
-----------------------------------------------------------------------------
(* What permissions should come to, said of each row and action. *)

ActionsOf(check) == IF check.op = "and" THEN {c.is : c \in check.of} ELSE {check.is}
Grants(P, action, r) ==
  {p \in P : p.scope \in {"resource", "vocabulary", r} /\ p.action \in {action, "all"}}

\* n: the circle at r has been followed n times already.
RECURSIVE Allows(_, _, _, _, _), Meets(_, _, _, _, _, _)
Allows(P, check, r, x, n) ==
  \A action \in ActionsOf(check) : \E p \in Grants(P, action, r) :
    p.cond = Always \/ Meets(P, check, r, x, n, Parsed(p.cond))

Meets(P, check, r, x, n, f) ==
  CASE f.op = "and" -> \A g \in f.of : Meets(P, check, r, x, n, g)
    [] f.op = "or" -> \E g \in f.of : Meets(P, check, r, x, n, g)
    [] f.op = "condition" /\ f.is \in DOMAIN Plain -> x \in Plain[f.is]
    [] OTHER ->
         LET to == Links[f.is].to
         IN /\ to = r => n < Links[f.is].depth
            /\ \E y \in Refs(f.is, x) : Allows(P, check, to, y, IF to = r THEN n + 1 ELSE 1)

\* The conditions for one of the actions, and the links in them.
Under(P, check, r) ==
  {Parsed(p.cond) : p \in UNION {Grants(P, action, r) : action \in ActionsOf(check)}}
Following(P, check, r) == UNION {ConditionsIn(f) : f \in Under(P, check, r)} \cap DOMAIN Links

RECURSIVE Reached(_, _, _)
Reached(P, check, S) ==
  LET more == S \cup {Links[c].to : c \in UNION {Following(P, check, r) : r \in S}}
  IN IF more = S THEN S ELSE Reached(P, check, more)

\* Nobody may do this to r, or to what its links lead to, or those form a circle.
Barred(P, check, r) == \E action \in ActionsOf(check) : Grants(P, action, r) = {}
Circular(P, check, r) ==
  \E c \in Following(P, check, r) :
    IF Links[c].to = r THEN Links[c].depth = Unlimited
    ELSE r \in Reached(P, check, {Links[c].to})
Fails(P, check, r) ==
  \E s \in Reached(P, check, {r}) : Barred(P, check, s) \/ Circular(P, check, s)
-----------------------------------------------------------------------------
\* r is decided on, asking for something of these kinds.
Decides(r, kinds) ==
  /\ req[r].at = "known" /\ req'[r].at = "done"
  /\ Ordinary(r) /\ req[r].ask.kind \in kinds

\* Of the permissions for everything, unconditional ones allow each action; and
\* 401 is for an action that none is for.
RightMiddleware(check, P, answer) ==
  LET everywhere(action) == {p \in P : p.scope = "resource" /\ p.action \in {action, "all"}}
  IN /\ answer.op = "next" <=>
          \A action \in ActionsOf(check) : \E p \in everywhere(action) : p.cond = Always
     /\ answer.op = "401" <=> \E action \in ActionsOf(check) : everywhere(action) = {}

\* The answer is what P allows in the database, no more and no less, and is
\* refused only when nothing is permitted at the end of some link.
Right(ask, P, answer) ==
  LET base == FinalName(ask.name, ask.version)
      granted == {x \in Rows[base] : Allows(P, ask.check, base, x, 0)}
  IN /\ Barred(P, ask.check, base) => answer = Refused
     /\ IF answer = Refused
        THEN \/ Fails(P, ask.check, base)
             \/ \E b \in InnerBases(TableOf(ask.name, ask.version, ask.check)) :
                  Fails(P, MethodCheck("GET"), b.name)
             \/ ask.kind = "canAccess" /\ granted = {}
        ELSE answer = Shown(granted)

\* A request for a resource of any version gets the rows that the permissions
\* on the resource of the database allow for its method, and the canAccess action
\* says so exactly when such a request would find the row.  The middleware, which
\* has no resource, lets a request on only if no row could be forbidden.
ShowsGranted ==
  [][\A r \in Requests :
       /\ Decides(r, {"method", "canAccess"}) => Right(req[r].ask, Given(r), req'[r].answer)
       /\ Decides(r, {"middleware"}) =>
            RightMiddleware(req[r].ask.check, Given(r), req'[r].answer)]_vars

\* Rows are read because of a link c: it is a condition of its own, or one
\* alternative of a condition.
Suffices(P, c, r) ==
  \E f \in Under(P, MethodCheck("GET"), r) :
    f = Condition(c) \/ (f.op = "or" /\ Condition(c) \in f.of)

\* The filter of an expand is dropped because of a link between the resources that
\* is not the relationship expanded, or that is only a part of what is asked of a row.
DroppedWrongly(P, c) ==
  /\ ~Suffices(P, c, Links[c].on)
  /\ \E d \in Following(P, MethodCheck("GET"), Links[c].on) : Links[d].to = Links[c].to

\* The rows that an expand shows may be read by themselves, those included that it
\* does not filter because of a canAccess() to the rows they are expanded from.
\* The exceptions are a filter dropped wrongly, and the rows of a row that is read
\* only because a circle is followed to its depth: from a row of another resource,
\* it is followed once less.
ExpandShowsReadable ==
  [][\A r \in Requests :
       LET link == Links[req[r].ask.by]
           Readable(s, x, n) == Allows(Given(r), MethodCheck("GET"), s, x, n)
       IN Decides(r, {"expand"}) /\ req'[r].answer # Refused
            /\ ~DroppedWrongly(Given(r), req[r].ask.by) =>
            \A y \in req'[r].answer.rows :
              \/ Readable(link.on, y, 0)
              \/ \E x \in Refs(req[r].ask.by, y) :
                   Readable(link.to, x, 0) /\ ~Readable(link.to, x, 1)]_vars
=============================================================================
