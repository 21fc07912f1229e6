------------------------- MODULE PermissionFilters -------------------------
(***************************************************************************)
(* What a set of permissions comes to (src/sbvr-api/permissions.ts): the   *)
(* lookup made of it, the check of a list of actions against the lookup,   *)
(* and the filter that the check leaves on the rows of a resource, with    *)
(* its canAccess() links expanded.                                         *)
(*                                                                         *)
(* A permission is for an action on everything, on the vocabulary or on    *)
(* one resource of it, always or under a condition.  A condition is one    *)
(* that rows meet by themselves, a canAccess() on the rows they refer to,  *)
(* or an "and" and "or" of such.  Names, the text of filters and their     *)
(* binds are abstracted.                                                   *)
(***************************************************************************)
EXTENDS Integers, Sequences

CONSTANTS
  Resources,   \* resources of the final vocabulary
  Rows,        \* the rows of each
  Plain,       \* plain conditions, each with the rows that meet it
  Links,       \* relationships, and canAccess() conditions on them: [on, to,
               \* depth, refs], refs the pairs of a row of on and the row of to
               \* that it refers to
  Compound,    \* compound conditions, each the tree of its text
  Unlimited,   \* the depth of a canAccess() without one
  Always       \* the condition of a permission that has none

Scopes == {"resource", "vocabulary"} \cup Resources
Refs(c, x) == {ref[2] : ref \in {p \in Links[c].refs : p[1] = x}}

\* Every row refers to one of another resource; of its own it may not.
ASSUME FilterAssumption ==
  /\ DOMAIN Rows = Resources
  /\ \A c \in DOMAIN Links :
       /\ {Links[c].on, Links[c].to} \subseteq Resources
       /\ Links[c].depth = Unlimited \/ Links[c].depth \in Nat \ {0}
       /\ Links[c].on # Links[c].to => \A x \in Rows[Links[c].on] : Refs(c, x) # {}
-----------------------------------------------------------------------------
(* Checks and filters: trees of "and" and "or" over actions or conditions. *)

True == [op |-> "true"]
False == [op |-> "false"]
And(S) == [op |-> "and", of |-> S]
Or(S) == [op |-> "or", of |-> S]
Action(a) == [op |-> "action", is |-> a]
Condition(c) == [op |-> "condition", is |-> c]

\* methodPermissions
MethodCheck(method) ==
  CASE method = "GET" -> Action("read")
    [] method = "PUT" -> And({Action("create"), Action("update")})
    [] method = "POST" -> Action("create")
    [] method = "PATCH" -> Action("update")
    [] method = "DELETE" -> Action("delete")
    [] method = "OPTIONS" -> Action("model")
    [] OTHER -> Action("all")

\* What nestedCheck makes of the results of an AND or OR: the one that decides
\* it, or what is left, flattened and without the wrapping of a single one.
Join(op, results) ==
  LET unit == IF op = "and" THEN True ELSE False
      decisive == IF op = "and" THEN False ELSE True
      rest == UNION {IF f.op = op THEN f.of ELSE {f} : f \in results \ {unit}}
  IN IF decisive \in results THEN decisive
     ELSE IF rest = {} THEN unit
     ELSE IF \E f \in rest : rest = {f} THEN CHOOSE f \in rest : TRUE
     ELSE [op |-> op, of |-> rest]

\* getPermissionsLookup: the conditions under which each target is permitted,
\* which an unconditional permission leaves alone.
Lookup(P) ==
  [scope \in Scopes |->
    [action \in {p.action : p \in P} |->
      LET conds == {p.cond : p \in {q \in P : q.scope = scope /\ q.action = action}}
      IN IF Always \in conds THEN {Always} ELSE conds]]

Permitted(lookup, scope, action) ==
  IF action \in DOMAIN lookup[scope] THEN lookup[scope][action] ELSE {}

\* parsePermissions
Parsed(c) == IF c \in DOMAIN Compound THEN Compound[c] ELSE Condition(c)

\* An action, with what the permissions in all of its scopes leave of it.
CheckAction(lookup, scopes, action) ==
  LET conds == UNION {Permitted(lookup, s, action) : s \in scopes}
  IN IF Always \in conds THEN True ELSE Join("or", {Parsed(c) : c \in conds})

\* nestedCheck, each action replaced by what is left of it.
RECURSIVE NestedCheck(_, _, _)
NestedCheck(check, lookup, scopes) ==
  IF check.op = "action" THEN CheckAction(lookup, scopes, check.is)
  ELSE Join(check.op, {NestedCheck(c, lookup, scopes) : c \in check.of})

\* $checkPermissions
CheckPermissions(lookup, check, scopes) ==
  NestedCheck(Or({Action("all"), check}), lookup, scopes)

Check(lookup, check, r) == CheckPermissions(lookup, check, {"resource", "vocabulary", r})
-----------------------------------------------------------------------------
(* canAccess() *)

\* A PermissionError, or an error in the links.
Refused == [op |-> "refused"]
AnyOf(c, f) == [op |-> "any", link |-> c, of |-> f]

\* An error of a part is one of the whole.
Whole(op, parts) ==
  IF Refused \in parts THEN Refused ELSE [op |-> op, of |-> parts]

InTrace(trace, r) == \E i \in DOMAIN trace : trace[i] = r
Last(trace) == trace[Len(trace)]

\* The link has been followed as often as its depth says.
TooDeep(trace, link) ==
  /\ InTrace(trace, link.to)
  /\ Len(trace) > link.depth
  /\ trace[Len(trace) - link.depth + 1] = link.to

\* generateConstrainedAbstractSql and its canAccessFunction: the filter with
\* each link replaced by the filter of the resource it leads to.  The trace has
\* the resources on the way, to follow a circle as often as its depth says.
RECURSIVE Expand(_, _, _, _)
Expand(filter, trace, lookup, check) ==
  IF filter.op \in {"and", "or"}
  THEN Whole(filter.op, {Expand(f, trace, lookup, check) : f \in filter.of})
  ELSE IF filter.op # "condition" \/ filter.is \notin DOMAIN Links THEN filter
  ELSE LET link == Links[filter.is]
           below == Check(lookup, check, link.to)
           part == Expand(below, Append(trace, link.to), lookup, check)
       IN IF InTrace(trace, link.to) /\ (Last(trace) # link.to \/ link.depth = Unlimited)
          THEN Refused
          ELSE IF TooDeep(trace, link) THEN False
          ELSE IF below = False THEN Refused
          ELSE IF below = True THEN True
          ELSE IF part = Refused THEN Refused
          ELSE AnyOf(filter.is, part)

\* The filter on r that the permissions leave of a check.
Constrain(lookup, check, r) ==
  LET filter == Check(lookup, check, r)
  IN IF filter = False THEN Refused ELSE Expand(filter, <<r>>, lookup, check)

RECURSIVE Admits(_, _)
Admits(filter, x) ==
  CASE filter.op = "true" -> TRUE
    [] filter.op = "false" -> FALSE
    [] filter.op = "and" -> \A f \in filter.of : Admits(f, x)
    [] filter.op = "or" -> \E f \in filter.of : Admits(f, x)
    [] filter.op = "condition" -> x \in Plain[filter.is]
    [] filter.op = "any" -> \E y \in Refs(filter.link, x) : Admits(filter.of, y)
-----------------------------------------------------------------------------
(* rewriteRelationship: from a row of one resource to the rows of another. *)

RECURSIVE ConditionsIn(_)
ConditionsIn(filter) ==
  IF filter.op \in {"and", "or"} THEN UNION {ConditionsIn(f) : f \in filter.of}
  ELSE IF filter.op = "condition" THEN {filter.is} ELSE {}

\* Fault: any link of the resource will do.
AnyLink(lookup, from, to) ==
  \E c \in ConditionsIn(Check(lookup, Action("read"), to)) : c \in DOMAIN Links

\* Some link in the filter of "to", wherever it stands there, leads to "from": no
\* relationship from "from" to "to" filters again.
Shortcut(lookup, from, to) ==
  \E c \in ConditionsIn(Check(lookup, Action("read"), to)) :
    c \in DOMAIN Links /\ Links[c].on = to /\ Links[c].to = from
=============================================================================
