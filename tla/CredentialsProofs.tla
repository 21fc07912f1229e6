------------------------- MODULE CredentialsProofs -------------------------
(***************************************************************************)
(* Proofs about Credentials, for any number of users, keys and requests,   *)
(* whatever they are granted and whatever their answers are.               *)
(*                                                                         *)
(* A lookup is kept by one of the two lists that it was made of.  That is  *)
(* enough as the other one never changes once it is known, and as only     *)
(* requests with the list of rootRead are served before that.              *)
(***************************************************************************)
EXTENDS Credentials, TLAPS

Answers == {None, Failed, NoKey}
           \cup {AnswerOf(P, ask) : P \in SUBSET Permissions,
                                   ask \in UNION {Asks[r] : r \in Requests}}
Records == [at : {"new", "key", "actor", "guest", "known", "done"},
            ask : (UNION {Asks[r] : r \in Requests}) \cup {None},
            by : (UNION {Callers[r] : r \in Requests}) \cup {Internal},
            own : SUBSET Permissions, all : SUBSET Permissions,
            answer : Answers]
Sessions == {None} \cup [op : {"session"}, has : SUBSET Permissions]

\* Every variable stays in its set.
Typed ==
  /\ grants \in [Holders -> SUBSET (Permissions \cup DOMAIN Roles)]
  /\ login \in [Users -> {"out", "checked", "in", "over"}]
  /\ session \in [Users -> Sessions]
  /\ guest \in [at : {"unset", "finding", "found", "set"}, has : SUBSET Permissions]
  /\ lookups \subseteq [own : SUBSET Permissions, all : SUBSET Permissions]
  /\ req \in [Requests -> Records]
  /\ revoked \in 0..MaxRevoked /\ faults \in 0..MaxFaults

\* Who is logged in has a session.
LoggedIn == \A u \in Users : session[u] # None <=> login[u] = "in"

\* A lookup has the permissions of the guest, which are there by then, unless
\* it is the one of rootRead.
Looked(own, all) == own # RootRead => guest.at = "set" /\ all = own \cup guest.has

\* A request that has not been looked up for asks with a key only if it was
\* made with one, and as rootRead only with the list of rootRead.
Caller(r) ==
  /\ req[r].at = "new" => req[r].answer = None
  /\ req[r].at # "new" => req[r].ask \in Asks[r] /\ req[r].by \in Callers[r]
  /\ req[r].at \in {"key", "actor"} => req[r].by.key # Nobody
  /\ req[r].at # "new" /\ req[r].by.root => req[r].own = RootRead
  /\ req[r].answer # None <=> req[r].at = "done"

\* What a request is decided on is what its lookup has.
Known(r) ==
  \/ req[r].at = "known"
  \/ req[r].at = "done" /\ req[r].answer \notin {Failed, NoKey}

IInv ==
  /\ Typed /\ LoggedIn
  /\ guest.at # "set" => guest.has = {}
  /\ \A l \in lookups : l.own \subseteq l.all /\ Looked(l.own, l.all)
  /\ \A r \in Requests : Caller(r) /\ (Known(r) => Looked(req[r].own, req[r].all))
-----------------------------------------------------------------------------
\* What anybody holds are permissions: those of a role, and never the role.
LEMMA HeldArePermissions ==
  ASSUME Typed, NEW h \in Holders
  PROVE  Held(h) \subseteq Permissions
BY CredentialAssumption DEF Held, Typed

\* An answer to what was asked is none of the marks.
LEMMA AnswersAreVerdicts ==
  ASSUME NEW r \in Requests, NEW ask \in Asks[r], NEW P \in SUBSET Permissions
  PROVE  /\ AnswerOf(P, ask) \in Answers
         /\ AnswerOf(P, ask) \notin {None, Failed, NoKey}
<1> DEFINE a == AnswerOf(P, ask)
<1>1. a.op \in Verdicts
  BY CredentialAssumption
<1>2. a \in {AnswerOf(Q, b) : Q \in SUBSET Permissions, b \in UNION {Asks[s] : s \in Requests}}
  OBVIOUS
<1> HIDE DEF a
<1>3. None.op = "none" /\ Failed.op = "error" /\ NoKey.op = "no key"
  BY DEF None, Failed, NoKey
<1>4. a # None /\ a # Failed /\ a # NoKey
  BY <1>1, <1>3 DEF Verdicts
<1>5. a \in Answers /\ a \notin {None, Failed, NoKey}
  BY <1>2, <1>4 DEF Answers
<1> QED BY <1>5 DEF a

LEMMA Marks == /\ None # Failed /\ None # NoKey /\ {None, Failed, NoKey} \subseteq Answers
               /\ \A P : [op |-> "session", has |-> P] # None
<1>1. None.op = "none" /\ Failed.op = "error" /\ NoKey.op = "no key"
  BY DEF None, Failed, NoKey
<1>2. None # Failed /\ None # NoKey
  BY <1>1
<1>3. {None, Failed, NoKey} \subseteq Answers
  BY DEF Answers
<1>4. ASSUME NEW P PROVE [op |-> "session", has |-> P] # None
  <2>1. [op |-> "session", has |-> P].op = "session"
    OBVIOUS
  <2> QED BY <1>1, <2>1
<1> QED BY <1>2, <1>3, <1>4

\* The lookup that is used and kept for a list, which is that of rootRead as
\* long as the permissions of the guest are not known.
LEMMA LookupIsRight ==
  ASSUME IInv, NEW own \in SUBSET Permissions, own # RootRead => guest.at = "set"
  PROVE  /\ LookupOf(own) \in [own : SUBSET Permissions, all : SUBSET Permissions]
         /\ LookupOf(own).own = own /\ own \subseteq LookupOf(own).all
         /\ Looked(own, LookupOf(own).all)
<1>1. CASE \E l \in lookups : l.own = own
  <2>1. LookupOf(own) \in lookups /\ LookupOf(own).own = own
    BY <1>1 DEF LookupOf
  <2> QED BY <2>1 DEF IInv, Typed
<1>2. CASE ~ \E l \in lookups : l.own = own
  <2>1. LookupOf(own) = [own |-> own, all |-> own \cup guest.has]
    BY <1>2 DEF LookupOf
  <2>2. guest.has \in SUBSET Permissions
    BY DEF IInv, Typed
  <2>3. /\ LookupOf(own).own = own /\ LookupOf(own).all = own \cup guest.has
        /\ LookupOf(own) \in [own : SUBSET Permissions, all : SUBSET Permissions]
    BY <2>1, <2>2
  <2> QED BY <2>3 DEF Looked
<1> QED BY <1>1, <1>2

\* What is asked with rootRead leaves the kept lookups right.
LEMMA RootReadsRight ==
  ASSUME IInv, RootReads
  PROVE  /\ lookups' \subseteq [own : SUBSET Permissions, all : SUBSET Permissions]
         /\ \A l \in lookups' : l.own \subseteq l.all /\ Looked(l.own, l.all)
<1>1. RootRead \in SUBSET Permissions
  BY CredentialAssumption
<1>2. /\ LookupOf(RootRead) \in [own : SUBSET Permissions, all : SUBSET Permissions]
      /\ LookupOf(RootRead).own = RootRead /\ RootRead \subseteq LookupOf(RootRead).all
      /\ Looked(RootRead, LookupOf(RootRead).all)
  BY <1>1, LookupIsRight
<1> HIDE DEF Looked
<1> QED BY <1>2 DEF IInv, Typed, RootReads

\* Where the permissions of the guest stay, so do those of each request.
LEMMA SameGuest ==
  ASSUME guest' = guest
  PROVE  \A own, all : Looked(own, all)' <=> Looked(own, all)
BY DEF Looked

LEMMA SameRequest ==
  ASSUME NEW r \in Requests, req'[r] = req[r]
  PROVE  (Caller(r)' <=> Caller(r)) /\ (Known(r)' <=> Known(r))
BY DEF Caller, Known
-----------------------------------------------------------------------------
LEMMA InitInv == Init => IInv
<1> SUFFICES ASSUME Init PROVE IInv
  OBVIOUS
<1>1. grants \in [Holders -> SUBSET (Permissions \cup DOMAIN Roles)]
  BY CredentialAssumption DEF Init
<1>2. NewReq \in Records
  BY Marks DEF NewReq, Records
<1>3. Typed
  <2>1. session \in [Users -> Sessions] /\ req \in [Requests -> Records]
    BY <1>2 DEF Init, Sessions
  <2>2. login \in [Users -> {"out", "checked", "in", "over"}] /\ lookups = {}
    BY DEF Init
  <2>3. guest \in [at : {"unset", "finding", "found", "set"}, has : SUBSET Permissions]
    BY DEF Init
  <2>4. revoked \in 0..MaxRevoked /\ faults \in 0..MaxFaults
    BY CredentialAssumption DEF Init
  <2> QED BY <1>1, <2>1, <2>2, <2>3, <2>4 DEF Typed
<1>4. \A r \in Requests : req[r] = NewReq
  BY DEF Init
<1>5. \A r \in Requests : Caller(r) /\ ~Known(r)
  BY <1>4 DEF Caller, Known, NewReq
<1>6. LoggedIn
  BY DEF Init, LoggedIn
<1>7. guest.at # "set" /\ guest.has = {} /\ lookups = {}
  BY DEF Init
<1> QED BY <1>3, <1>5, <1>6, <1>7 DEF IInv

\* What changes one request only: it has its type, its caller and its lookup.
LEMMA OneRequest ==
  ASSUME IInv, NEW r \in Requests, NEW q \in Records,
         req' = [req EXCEPT ![r] = q],
         UNCHANGED <<grants, login, session, guest, revoked, faults>>,
         lookups' \subseteq [own : SUBSET Permissions, all : SUBSET Permissions],
         \A l \in lookups' : l.own \subseteq l.all /\ Looked(l.own, l.all),
         Caller(r)', Known(r)' => Looked(q.own, q.all)
  PROVE  IInv'
<1>1. req' \in [Requests -> Records] /\ req'[r] = q
  BY DEF IInv, Typed
<1>2. \A s \in Requests \ {r} : req'[s] = req[s]
  BY DEF IInv, Typed
<1>3. \A own, all : Looked(own, all)' <=> Looked(own, all)
  BY SameGuest
<1>4. Typed' /\ LoggedIn' /\ (guest'.at # "set" => guest'.has = {})
  BY <1>1 DEF IInv, Typed, LoggedIn
<1>5. ASSUME NEW s \in Requests
      PROVE  Caller(s)' /\ (Known(s)' => Looked(req'[s].own, req'[s].all))
  <2>1. CASE s = r
    BY <1>1, <2>1
  <2>2. CASE s # r
    BY <1>2, <2>2, SameRequest DEF IInv
  <2> QED BY <2>1, <2>2
<1> HIDE DEF Looked, Caller, Known
<1> QED BY <1>3, <1>4, <1>5 DEF IInv

\* What changes no request, and not the permissions of the guest either.
LEMMA NoRequest ==
  ASSUME IInv, UNCHANGED <<guest, req>>,
         grants' \in [Holders -> SUBSET (Permissions \cup DOMAIN Roles)],
         login' \in [Users -> {"out", "checked", "in", "over"}],
         session' \in [Users -> Sessions],
         revoked' \in 0..MaxRevoked, faults' \in 0..MaxFaults,
         LoggedIn',
         lookups' \subseteq [own : SUBSET Permissions, all : SUBSET Permissions],
         \A l \in lookups' : l.own \subseteq l.all /\ Looked(l.own, l.all)
  PROVE  IInv'
<1>1. \A own, all : Looked(own, all)' <=> Looked(own, all)
  BY SameGuest
<1>2. Typed' /\ (guest'.at # "set" => guest'.has = {})
  BY DEF IInv, Typed
<1>3. ASSUME NEW s \in Requests
      PROVE  Caller(s)' /\ (Known(s)' => Looked(req'[s].own, req'[s].all))
  BY SameRequest DEF IInv
<1> HIDE DEF Looked, Caller, Known
<1> QED BY <1>1, <1>2, <1>3 DEF IInv
-----------------------------------------------------------------------------
LEMMA KeepsLogins ==
  ASSUME IInv, NEW u \in Users, CheckPassword(u) \/ GetUserPermissions(u) \/ Logout(u)
  PROVE  IInv'
<1>0. Typed /\ LoggedIn
  BY DEF IInv
<1>1. CASE CheckPassword(u)
  <2>1. RootReads /\ login[u] = "out" /\ session' = session
        /\ (login' = [login EXCEPT ![u] = "checked"] \/ login' = login)
        /\ UNCHANGED <<grants, guest, req, revoked, faults>>
    BY <1>1 DEF CheckPassword
  <2>2. login' \in [Users -> {"out", "checked", "in", "over"}] /\ LoggedIn'
    BY <1>0, <2>1 DEF Typed, LoggedIn
  <2> QED BY <1>0, <2>1, <2>2, RootReadsRight, NoRequest DEF Typed
<1>2. CASE GetUserPermissions(u)
  <2>1. RootReads /\ login' = [login EXCEPT ![u] = "in"]
        /\ session' = [session EXCEPT ![u] = [op |-> "session", has |-> Held(u)]]
        /\ UNCHANGED <<grants, guest, req, revoked, faults>>
    BY <1>2 DEF GetUserPermissions
  <2>2. [op |-> "session", has |-> Held(u)] \in Sessions
    BY <1>0, HeldArePermissions DEF Sessions, Holders
  <2>3. login' \in [Users -> {"out", "checked", "in", "over"}] /\ session' \in [Users -> Sessions]
    BY <1>0, <2>1, <2>2 DEF Typed
  <2>4. LoggedIn'
    BY <1>0, <2>1, Marks DEF Typed, LoggedIn
  <2> QED BY <1>0, <2>1, <2>3, <2>4, RootReadsRight, NoRequest DEF Typed
<1>3. CASE Logout(u)
  <2>1. login' = [login EXCEPT ![u] = "over"] /\ session' = [session EXCEPT ![u] = None]
        /\ UNCHANGED <<grants, guest, lookups, req, revoked, faults>>
    BY <1>3 DEF Logout
  <2>2. login' \in [Users -> {"out", "checked", "in", "over"}] /\ session' \in [Users -> Sessions]
    BY <1>0, <2>1 DEF Typed, Sessions
  <2>3. LoggedIn'
    BY <1>0, <2>1 DEF Typed, LoggedIn
  <2> HIDE DEF Looked
  <2> QED BY <1>0, <2>1, <2>2, <2>3, NoRequest DEF Typed, IInv
<1> QED BY <1>1, <1>2, <1>3

LEMMA KeepsRevoke ==
  ASSUME IInv, NEW h \in Holders, NEW g \in grants[h], Revoke(h, g)
  PROVE  IInv'
<1>0. Typed /\ LoggedIn
  BY DEF IInv
<1>1. /\ revoked < MaxRevoked /\ revoked' = revoked + 1
      /\ grants' = [grants EXCEPT ![h] = @ \ {g}]
      /\ UNCHANGED <<login, session, guest, lookups, req, faults>>
  BY DEF Revoke
<1>2. grants' \in [Holders -> SUBSET (Permissions \cup DOMAIN Roles)]
  BY <1>0, <1>1 DEF Typed
<1>3. revoked' \in 0..MaxRevoked
  BY <1>0, <1>1, CredentialAssumption DEF Typed
<1>4. LoggedIn'
  BY <1>0, <1>1 DEF LoggedIn
<1> QED BY <1>0, <1>1, <1>2, <1>3, <1>4, NoRequest DEF Typed, IInv

\* The permissions of the guest come to be known only when nobody but rootRead
\* has used a lookup.
LEMMA KeepsGuest ==
  ASSUME IInv, FindGuest \/ GuestFound \/ GetGuestPermissions
  PROVE  IInv'
<1>0. Typed /\ LoggedIn
  BY DEF IInv
<1>1. /\ guest.at # "set" /\ UNCHANGED <<grants, login, session, req, revoked, faults>>
      /\ guest' \in [at : {"unset", "finding", "found", "set"}, has : SUBSET Permissions]
      /\ guest'.at # "set" => guest'.has = {}
  <2>1. CASE FindGuest
    BY <1>0, <2>1 DEF FindGuest, IInv, Typed
  <2>2. CASE GuestFound
    BY <1>0, <2>2 DEF GuestFound, IInv, Typed
  <2>3. CASE GetGuestPermissions
    <3>1. Held(Guest) \in SUBSET Permissions
      BY <1>0, HeldArePermissions DEF Holders
    <3> QED BY <1>0, <2>3, <3>1 DEF GetGuestPermissions, Typed
  <2> QED BY <2>1, <2>2, <2>3
<1>2. /\ lookups' \subseteq [own : SUBSET Permissions, all : SUBSET Permissions]
      /\ \A l \in lookups' : l.own \subseteq l.all /\ Looked(l.own, l.all)
  <2> HIDE DEF Looked
  <2>1. CASE FindGuest
    BY <2>1 DEF FindGuest, IInv, Typed
  <2>2. CASE GuestFound \/ GetGuestPermissions
    BY <2>2, RootReadsRight DEF GuestFound, GetGuestPermissions
  <2> QED BY <2>1, <2>2
<1>3. \A own, all : Looked(own, all) => Looked(own, all)'
  BY <1>1 DEF Looked
<1>4. Typed' /\ LoggedIn'
  BY <1>0, <1>1, <1>2 DEF Typed, LoggedIn
<1>5. ASSUME NEW s \in Requests
      PROVE  Caller(s)' /\ (Known(s)' => Looked(req[s].own, req[s].all)')
  <2>1. req'[s] = req[s]
    BY <1>1
  <2>2. (Caller(s)' <=> Caller(s)) /\ (Known(s)' <=> Known(s))
    BY <2>1, SameRequest
  <2>3. Caller(s) /\ (Known(s) => Looked(req[s].own, req[s].all))
    BY DEF IInv
  <2> QED BY <1>3, <2>1, <2>2, <2>3
<1>6. req' = req
  BY <1>1
<1> HIDE DEF Looked, Caller, Known
<1> QED BY <1>1, <1>2, <1>3, <1>4, <1>5, <1>6 DEF IInv
LEMMA KeepsGuestFails == ASSUME IInv, GuestFails PROVE IInv'
<1>0. Typed /\ LoggedIn
  BY DEF IInv
<1>1. /\ guest.at # "set" /\ faults < MaxFaults /\ faults' = faults + 1
      /\ guest' = [guest EXCEPT !.at = "unset"]
      /\ req' = [r \in Requests |-> IF Awaits(r) THEN Answered(r, Failed) ELSE req[r]]
      /\ UNCHANGED <<grants, login, session, lookups, revoked>>
  BY DEF GuestFails
<1>2. guest'.at = "unset" /\ guest'.has = {} /\ guest.has = {}
      /\ guest' \in [at : {"unset", "finding", "found", "set"}, has : SUBSET Permissions]
  BY <1>0, <1>1 DEF Typed, IInv
<1>3. faults' \in 0..MaxFaults
  BY <1>0, <1>1, CredentialAssumption DEF Typed
<1>4. \A own, all : Looked(own, all) => Looked(own, all)'
  BY <1>1 DEF Looked
<1>5. ASSUME NEW s \in Requests
      PROVE  /\ req'[s] \in Records /\ Caller(s)'
             /\ Known(s)' => Looked(req[s].own, req[s].all)'
  <2>0. req[s] \in Records /\ Caller(s) /\ (Known(s) => Looked(req[s].own, req[s].all))
    BY DEF IInv, Typed
  <2>1. CASE Awaits(s)
    <3>1. req'[s] = [req[s] EXCEPT !.at = "done", !.answer = Failed]
      BY <1>1, <2>1 DEF Answered
    <3>2. /\ req'[s] \in Records /\ req'[s].at = "done" /\ req'[s].answer = Failed
          /\ req'[s].ask = req[s].ask /\ req'[s].by = req[s].by /\ req'[s].own = req[s].own
      BY <2>0, <3>1, Marks DEF Records
    <3>3. req[s].at = "guest"
      BY <2>1 DEF Awaits
    <3> QED BY <2>0, <3>2, <3>3, Marks DEF Caller, Known
  <2>2. CASE ~Awaits(s)
    <3>1. req'[s] = req[s]
      BY <1>1, <2>2
    <3>2. (Caller(s)' <=> Caller(s)) /\ (Known(s)' <=> Known(s))
      BY <3>1, SameRequest
    <3> QED BY <1>4, <2>0, <3>1, <3>2
  <2> QED BY <2>1, <2>2
<1>6. Typed' /\ LoggedIn'
  BY <1>0, <1>1, <1>2, <1>3, <1>5 DEF Typed, LoggedIn
<1>7. \A l \in lookups' : l.own \subseteq l.all /\ Looked(l.own, l.all)'
  BY <1>1, <1>4 DEF IInv
<1> HIDE DEF Looked, Caller, Known
<1> QED BY <1>2, <1>5, <1>6, <1>7 DEF IInv
-----------------------------------------------------------------------------
LEMMA KeepsArrive ==
  ASSUME IInv, NEW r \in Requests, NEW ask \in Asks[r], NEW by \in Callers[r],
         Arrive(r, ask, by)
  PROVE  IInv'
<1> DEFINE own == IF by.root THEN RootRead
                  ELSE IF by.user # Nobody THEN session[by.user].has ELSE {}
           at == IF by.key = Nobody THEN "guest" ELSE "key"
           q == [req[r] EXCEPT !.ask = ask, !.by = by, !.own = own, !.at = at]
<1>0. Typed /\ req[r] \in Records /\ Caller(r)
  BY DEF IInv, Typed
<1>1. /\ req[r].at = "new" /\ (by.user # Nobody => session[by.user] # None)
      /\ req' = [req EXCEPT ![r] = q]
      /\ UNCHANGED <<grants, login, session, guest, lookups, revoked, faults>>
  BY DEF Arrive
<1>2. by \in [user : Users \cup {Nobody}, key : Keys \cup {Nobody}, root : {FALSE}]
                \cup {Internal}
  BY CredentialAssumption
<1>3. own \in SUBSET Permissions
  <2>1. CASE by.root
    BY <2>1, CredentialAssumption
  <2>2. CASE ~by.root /\ by.user # Nobody
    <3>0. by # Internal
      BY <2>2 DEF Internal
    <3>1. by.user \in Users
      BY <1>2, <2>2, <3>0
    <3>2. session[by.user] \in [op : {"session"}, has : SUBSET Permissions]
      BY <1>0, <1>1, <2>2, <3>1 DEF Typed, Sessions
    <3> QED BY <2>2, <3>2
  <2>3. CASE ~by.root /\ by.user = Nobody
    BY <2>3
  <2> QED BY <2>1, <2>2, <2>3
<1>4. by.root => own = RootRead
  OBVIOUS
<1>5. at \in {"guest", "key"} /\ (at = "key" => by.key # Nobody)
  OBVIOUS
<1> HIDE DEF own, at
<1>6. /\ q \in Records /\ q.at = at /\ q.ask = ask /\ q.by = by /\ q.own = own
      /\ q.answer = req[r].answer
  <2>1. ask \in UNION {Asks[s] : s \in Requests} /\ by \in UNION {Callers[s] : s \in Requests}
    OBVIOUS
  <2>2. /\ ask \in (UNION {Asks[s] : s \in Requests}) \cup {None}
        /\ by \in (UNION {Callers[s] : s \in Requests}) \cup {Internal}
    BY <2>1
  <2> QED BY <1>0, <1>3, <1>5, <2>2 DEF Records
<1>7. req'[r] = q
  BY <1>0, <1>1 DEF Typed
<1>8. Caller(r)' /\ ~Known(r)'
  <2>1. req[r].answer = None
    BY <1>0, <1>1 DEF Caller
  <2> HIDE DEF q
  <2> QED BY <1>4, <1>5, <1>6, <1>7, <2>1 DEF Caller, Known
<1> HIDE DEF q, Looked, Caller, Known
<1> QED BY <1>1, <1>6, <1>8, OneRequest DEF IInv, Typed

LEMMA KeepsFindKey ==
  ASSUME IInv, NEW r \in Requests, FindKey(r)
  PROVE  IInv'
<1>0. Typed /\ req[r] \in Records /\ Caller(r)
  BY DEF IInv, Typed
<1>1. /\ req[r].at = "key" /\ RootReads
      /\ UNCHANGED <<grants, login, session, guest, revoked, faults>>
  BY DEF FindKey
<1>2. CASE req' = [req EXCEPT ![r].at = "actor"]
  <2> DEFINE q == [req[r] EXCEPT !.at = "actor"]
  <2>1. req' = [req EXCEPT ![r] = q]
    BY <1>2
  <2>2. /\ q \in Records /\ q.at = "actor" /\ q.ask = req[r].ask /\ q.by = req[r].by
        /\ q.own = req[r].own /\ q.answer = req[r].answer
    BY <1>0 DEF Records
  <2>3. req'[r] = q
    BY <1>0, <2>1 DEF Typed
  <2> HIDE DEF q
  <2>4. Caller(r)' /\ ~Known(r)'
    BY <1>0, <1>1, <2>2, <2>3 DEF Caller, Known
  <2> HIDE DEF Looked, Caller, Known
  <2> QED BY <1>1, <2>1, <2>2, <2>4, OneRequest, RootReadsRight
<1>3. CASE req' = [req EXCEPT ![r] = Answered(r, NoKey)]
  <2> DEFINE q == Answered(r, NoKey)
  <2>2. /\ q \in Records /\ q.at = "done" /\ q.ask = req[r].ask /\ q.by = req[r].by
        /\ q.own = req[r].own /\ q.answer = NoKey
    BY <1>0, Marks DEF Records, Answered
  <2>3. req'[r] = q
    BY <1>0, <1>3 DEF Typed
  <2> HIDE DEF q
  <2>4. Caller(r)' /\ ~Known(r)'
    BY <1>0, <1>1, <2>2, <2>3, Marks DEF Caller, Known
  <2>5. req' = [req EXCEPT ![r] = q]
    BY <1>3 DEF q
  <2> HIDE DEF Looked, Caller, Known
  <2> QED BY <1>1, <2>2, <2>4, <2>5, OneRequest, RootReadsRight
<1> QED BY <1>2, <1>3 DEF FindKey

LEMMA KeepsGetKeyPermissions ==
  ASSUME IInv, NEW r \in Requests, GetKeyPermissions(r)
  PROVE  IInv'
<1> DEFINE own == IF req[r].by.user = Nobody THEN Held(req[r].by.key) ELSE req[r].own
           q == [req[r] EXCEPT !.at = "guest", !.own = own]
<1>0. Typed /\ req[r] \in Records /\ Caller(r)
  BY DEF IInv, Typed
<1>1. /\ req[r].at = "actor" /\ RootReads
      /\ req' = [req EXCEPT ![r] = q]
      /\ UNCHANGED <<grants, login, session, guest, revoked, faults>>
  BY <1>0 DEF GetKeyPermissions, Typed
<1>2. /\ req[r].by \in [user : Users \cup {Nobody}, key : Keys, root : {FALSE}]
      /\ req[r].ask \in Asks[r] /\ req[r].by \in Callers[r]
  <2>1. req[r].by \in Callers[r] /\ req[r].by.key # Nobody /\ req[r].ask \in Asks[r]
    BY <1>0, <1>1 DEF Caller
  <2>2. req[r].by \in [user : Users \cup {Nobody}, key : Keys \cup {Nobody}, root : {FALSE}]
                \cup {Internal}
    BY <2>1, CredentialAssumption
  <2>3. req[r].by # Internal
    BY <2>1 DEF Internal
  <2> QED BY <2>1, <2>2, <2>3
<1>3. own \in SUBSET Permissions
  <2>1. req[r].by.key \in Holders /\ req[r].own \in SUBSET Permissions
    BY <1>0, <1>2 DEF Holders, Records
  <2>2. Held(req[r].by.key) \in SUBSET Permissions
    BY <1>0, <2>1, HeldArePermissions
  <2> QED BY <2>1, <2>2
<1> HIDE DEF own
<1>4. /\ q \in Records /\ q.at = "guest" /\ q.ask = req[r].ask /\ q.by = req[r].by
      /\ q.answer = req[r].answer
  BY <1>0, <1>3 DEF Records
<1>5. req'[r] = q
  BY <1>0, <1>1 DEF Typed
<1> HIDE DEF q
<1>6. ~req[r].by.root
  BY <1>2
<1>7. Caller(r)' /\ ~Known(r)'
  BY <1>0, <1>1, <1>2, <1>4, <1>5, <1>6 DEF Caller, Known
<1> HIDE DEF Looked, Caller, Known
<1> QED BY <1>1, <1>4, <1>7, OneRequest, RootReadsRight

\* Here a request comes to its lookup: it is not that of rootRead only if the
\* permissions of the guest are known.
LEMMA KeepsGetReqPermissions ==
  ASSUME IInv, NEW r \in Requests, GetReqPermissions(r)
  PROVE  IInv'
<1> DEFINE look == LookupOf(req[r].own)
           q == [req[r] EXCEPT !.at = "known", !.all = look.all]
<1>0. Typed /\ req[r] \in Records /\ Caller(r)
  BY DEF IInv, Typed
<1>1. /\ req[r].at = "guest" /\ GuestIsKnown(req[r].by.root)
      /\ lookups' = lookups \cup {look} /\ req' = [req EXCEPT ![r] = q]
      /\ UNCHANGED <<grants, login, session, guest, revoked, faults>>
  BY <1>0 DEF GetReqPermissions, Typed
<1>2. req[r].own \in SUBSET Permissions /\ (req[r].own # RootRead => guest.at = "set")
  BY <1>0, <1>1 DEF Caller, GuestIsKnown, Records
<1>3. /\ look \in [own : SUBSET Permissions, all : SUBSET Permissions]
      /\ look.own = req[r].own /\ req[r].own \subseteq look.all
      /\ Looked(req[r].own, look.all)
  BY <1>2, LookupIsRight
<1> HIDE DEF look, Looked
<1>4. /\ q \in Records /\ q.at = "known" /\ q.ask = req[r].ask /\ q.by = req[r].by
      /\ q.own = req[r].own /\ q.all = look.all /\ q.answer = req[r].answer
  BY <1>0, <1>3 DEF Records
<1>5. req'[r] = q
  BY <1>0, <1>1 DEF Typed
<1> HIDE DEF q
<1>6. Caller(r)'
  BY <1>0, <1>1, <1>4, <1>5 DEF Caller
<1>7. /\ lookups' \subseteq [own : SUBSET Permissions, all : SUBSET Permissions]
      /\ \A l \in lookups' : l.own \subseteq l.all /\ Looked(l.own, l.all)
  BY <1>1, <1>3 DEF IInv, Typed
<1>8. Looked(q.own, q.all)
  BY <1>3, <1>4
<1> HIDE DEF Caller, Known
<1> QED BY <1>1, <1>4, <1>6, <1>7, <1>8, OneRequest

LEMMA KeepsAnswer ==
  ASSUME IInv, NEW r \in Requests, Answer(r)
  PROVE  IInv'
<1> DEFINE a == AnswerOf(req[r].all, req[r].ask)
           q == [req[r] EXCEPT !.at = "done", !.answer = a]
<1>0. Typed /\ req[r] \in Records /\ Caller(r) /\ (Known(r) => Looked(req[r].own, req[r].all))
  BY DEF IInv, Typed
<1>1. /\ req[r].at = "known" /\ req' = [req EXCEPT ![r] = q]
      /\ UNCHANGED <<grants, login, session, guest, lookups, revoked, faults>>
  BY DEF Answer, Answered
<1>2. a \in Answers /\ a \notin {None, Failed, NoKey}
  <2>1. req[r].ask \in Asks[r] /\ req[r].all \in SUBSET Permissions
    BY <1>0, <1>1 DEF Caller, Records
  <2> QED BY <2>1, AnswersAreVerdicts
<1> HIDE DEF a, Looked
<1>3. /\ q \in Records /\ q.at = "done" /\ q.ask = req[r].ask /\ q.by = req[r].by
      /\ q.own = req[r].own /\ q.all = req[r].all /\ q.answer = a
  BY <1>0, <1>2 DEF Records
<1>4. req'[r] = q
  BY <1>0, <1>1 DEF Typed
<1> HIDE DEF q
<1>5. Caller(r)'
  BY <1>0, <1>1, <1>2, <1>3, <1>4 DEF Caller
<1>6. Looked(q.own, q.all)
  BY <1>0, <1>1, <1>3 DEF Known
<1> HIDE DEF Caller, Known
<1> QED BY <1>1, <1>3, <1>5, <1>6, OneRequest DEF IInv, Typed

LEMMA NextInv == IInv /\ [Next]_vars => IInv'
<1> SUFFICES ASSUME IInv, [Next]_vars PROVE IInv'
  OBVIOUS
<1>1. CASE UNCHANGED vars
  BY <1>1 DEF vars, IInv, Typed, LoggedIn, Looked, Caller, Known
<1> QED BY <1>1, KeepsLogins, KeepsRevoke, KeepsGuest, KeepsGuestFails, KeepsArrive, KeepsFindKey,
           KeepsGetKeyPermissions, KeepsGetReqPermissions, KeepsAnswer DEF Next, Progress

THEOREM Invariant == Spec => []IInv
<1> QED BY InitInv, NextInv, PTL DEF Spec
-----------------------------------------------------------------------------
\* Whatever is granted, and whatever the answers are, the variables only have
\* the values they should: in particular, a request is decided on with
\* permissions, never with the name of a role, and answered when it is over.
THEOREM CredentialsTypeCorrect == Spec => []TypeOK
<1>1. IInv => TypeOK
  <2> SUFFICES ASSUME IInv PROVE TypeOK
    OBVIOUS
  <2>1. \A a \in Answers : a.op \in {"none", "error", "no key"} \cup Verdicts
    <3>1. \A a \in {None, Failed, NoKey} : a.op \in {"none", "error", "no key"}
      <4>1. None.op = "none" /\ Failed.op = "error" /\ NoKey.op = "no key"
        BY DEF None, Failed, NoKey
      <4> QED BY <4>1
    <3>2. ASSUME NEW P \in SUBSET Permissions, NEW ask \in UNION {Asks[r] : r \in Requests}
          PROVE  AnswerOf(P, ask).op \in Verdicts
      <4>1. PICK r \in Requests : ask \in Asks[r]
        OBVIOUS
      <4> QED BY <4>1, CredentialAssumption
    <3>3. ASSUME NEW a \in Answers, a \notin {None, Failed, NoKey} PROVE a.op \in Verdicts
      <4>1. PICK P \in SUBSET Permissions, ask \in UNION {Asks[r] : r \in Requests} :
              a = AnswerOf(P, ask)
        BY <3>3 DEF Answers
      <4> QED BY <3>2, <4>1
    <3> QED BY <3>1, <3>3
  <2>2. ASSUME NEW r \in Requests
        PROVE  /\ req[r].at \in {"new", "key", "actor", "guest", "known", "done"}
               /\ req[r].own \subseteq Permissions /\ req[r].all \subseteq Permissions
               /\ req[r].answer.op \in {"none", "error", "no key"} \cup Verdicts
               /\ req[r].answer # None <=> req[r].at = "done"
    <3>1. req[r] \in Records /\ Caller(r)
      BY DEF IInv, Typed
    <3> QED BY <2>1, <3>1 DEF Records, Caller
  <2> QED BY <2>2 DEF TypeOK, IInv, Typed, LoggedIn
<1> QED BY <1>1, Invariant, PTL

\* Every request is decided on with the same permissions of the guest, those
\* that were read once, although getPermissionsLookup keeps its lookups by the
\* other list only: however logins, keys, revocations and failed reads come
\* between, and however many requests there are.
THEOREM SameForEveryRequest == Spec => []GuestsAgree
<1>1. IInv => GuestsAgree
  BY DEF IInv, GuestsAgree, Ordinary, Given, Known, Looked
<1> QED BY <1>1, Invariant, PTL
=============================================================================
