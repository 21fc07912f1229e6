---------------------------- MODULE Credentials ----------------------------
(***************************************************************************)
(* The permissions that a request is decided on (src/sbvr-api/             *)
(* permissions.ts): users log in and their session keeps the permissions   *)
(* of that moment, API keys are looked up by each request, and everybody   *)
(* has the permissions of the guest besides.                               *)
(*                                                                         *)
(* The permissions of the guest are read once, and the lookup made of a    *)
(* list of permissions is kept as well.  All of them are read by requests  *)
(* of the same kind, made with the permissions of rootRead.                *)
(***************************************************************************)
EXTENDS Naturals

CONSTANTS
  Permissions, \* those that anyone may be given
  Requests,    \* the HTTP requests
  Asks,        \* what each of them may ask for
  AnswerOf(_, _), \* what a list of permissions comes to for what is asked
  Callers,     \* and who may: [user, key], or rootRead
  Users, Keys, Guest,
  Holdings,    \* what each of these may have been granted at first
  Roles,       \* the permissions of each role
  Nobody,      \* no user, no key
  RootRead,    \* the permissions of rootRead
  MaxRevoked,  \* bound: grants that are revoked or expire
  MaxFaults    \* bound: reads of the permissions of the guest that fail

Holders == Users \cup Keys \cup {Guest}
Internal == [user |-> Nobody, key |-> Nobody, root |-> TRUE]

\* What an answer can be: rows or a refusal, and what the middleware answers.
Verdicts == {"refused", "rows", "next", "401", "503"}

ASSUME CredentialAssumption ==
  /\ \A h \in Holders : Holdings[h] \subseteq SUBSET (Permissions \cup DOMAIN Roles)
  /\ \A role \in DOMAIN Roles : Roles[role] \subseteq Permissions
  /\ RootRead \subseteq Permissions
  /\ \A r \in Requests :
       Callers[r] \subseteq [user : Users \cup {Nobody}, key : Keys \cup {Nobody}, root : {FALSE}]
                            \cup {Internal}
  /\ \A r \in Requests : \A ask \in Asks[r], P \in SUBSET Permissions :
       AnswerOf(P, ask).op \in Verdicts
  /\ MaxRevoked \in Nat /\ MaxFaults \in Nat

VARIABLES
  grants,   \* permissions and roles of each holder that have not expired
  login,    \* what a login of each user is at
  session,  \* the permissions in the session of each user
  guest,    \* getGuestPermissions: the promise that is kept, and its value
  lookups,  \* getPermissionsLookup: [own, all], kept by own
  req,      \* the requests
  revoked, faults

vars == <<grants, login, session, guest, lookups, req, revoked, faults>>

None == [op |-> "none"]
NewReq == [at |-> "new", ask |-> None, by |-> Internal,
           own |-> {}, all |-> {}, answer |-> None]

Init ==
  /\ grants \in {g \in [Holders -> UNION {Holdings[h] : h \in Holders}] :
                   \A h \in Holders : g[h] \in Holdings[h]}
  /\ login = [u \in Users |-> "out"] /\ session = [u \in Users |-> None]
  /\ guest = [at |-> "unset", has |-> {}]
  /\ lookups = {}
  /\ req = [r \in Requests |-> NewReq]
  /\ revoked = 0 /\ faults = 0
-----------------------------------------------------------------------------
(* The lists of permissions. *)

\* Fault: what is granted is taken for a permission, roles as well.
HeldDirectly(h) == grants[h]
\* getUserPermissionsQuery and getApiKeyPermissionsQuery
Held(h) == (grants[h] \cap Permissions)
           \cup UNION {Roles[role] : role \in grants[h] \cap DOMAIN Roles}

\* Fault: whoever asks, the permissions of the guest are awaited.
AlwaysAwaits(root) == guest.at = "set"
\* Fault: nobody awaits the permissions of the guest.
NeverAwaits(root) == TRUE
\* getReqPermissions: the permissions of the guest are there, or rootRead goes
\* without.
GuestIsKnown(root) == guest.at = "set" \/ root

\* getPermissionsLookup: whatever was made of the list before.
LookupOf(own) ==
  IF \E l \in lookups : l.own = own THEN CHOOSE l \in lookups : l.own = own
  ELSE [own |-> own, all |-> own \cup guest.has]

\* A query that permissions.ts makes itself, with rootRead.
RootReads == GuestIsKnown(TRUE) /\ lookups' = lookups \cup {LookupOf(RootRead)}
-----------------------------------------------------------------------------
(* Logging in: checkPassword and passport. *)

CheckPassword(u) ==
  /\ login[u] = "out"
  /\ RootReads
  /\ \/ login' = [login EXCEPT ![u] = "checked"]
     \/ UNCHANGED login
  /\ UNCHANGED <<grants, session, guest, req, revoked, faults>>

\* getUserPermissions, and serializeUser with them.
GetUserPermissions(u) ==
  /\ login[u] = "checked"
  /\ RootReads
  /\ login' = [login EXCEPT ![u] = "in"]
  /\ session' = [session EXCEPT ![u] = [op |-> "session", has |-> Held(u)]]
  /\ UNCHANGED <<grants, guest, req, revoked, faults>>

Logout(u) ==
  /\ login[u] = "in"
  /\ login' = [login EXCEPT ![u] = "over"]
  /\ session' = [session EXCEPT ![u] = None]
  /\ UNCHANGED <<grants, guest, lookups, req, revoked, faults>>

\* A grant is deleted or expires; or the role or permission it is for.
Revoke(h, g) ==
  /\ revoked < MaxRevoked
  /\ g \in grants[h]
  /\ revoked' = revoked + 1
  /\ grants' = [grants EXCEPT ![h] = @ \ {g}]
  /\ UNCHANGED <<login, session, guest, lookups, req, faults>>
-----------------------------------------------------------------------------
(* The permissions of the guest: getGuestPermissions. *)

Awaits(r) == req[r].at = "guest" /\ ~GuestIsKnown(req[r].by.root)

FindGuest ==
  /\ guest.at = "unset" /\ \E r \in Requests : Awaits(r)
  /\ guest' = [guest EXCEPT !.at = "finding"]
  /\ UNCHANGED <<grants, login, session, lookups, req, revoked, faults>>

GuestFound ==
  /\ guest.at = "finding"
  /\ RootReads
  /\ guest' = [guest EXCEPT !.at = "found"]
  /\ UNCHANGED <<grants, login, session, req, revoked, faults>>

GetGuestPermissions ==
  /\ guest.at = "found"
  /\ RootReads
  /\ guest' = [at |-> "set", has |-> Held(Guest)]
  /\ UNCHANGED <<grants, login, session, req, revoked, faults>>

Answered(r, answer) == [req[r] EXCEPT !.at = "done", !.answer = answer]
Failed == [op |-> "error"]
NoKey == [op |-> "no key"]

\* All who await the promise fail with it, and it is not kept.
GuestFails ==
  /\ guest.at \in {"finding", "found"} /\ faults < MaxFaults
  /\ faults' = faults + 1
  /\ guest' = [guest EXCEPT !.at = "unset"]
  /\ req' = [r \in Requests |-> IF Awaits(r) THEN Answered(r, Failed) ELSE req[r]]
  /\ UNCHANGED <<grants, login, session, lookups, revoked>>
-----------------------------------------------------------------------------
(* Requests. *)

\* A client, with the user of its session that passport.session() has found; or
\* an internal request with rootRead.
Arrive(r, ask, by) ==
  /\ req[r].at = "new"
  /\ by.user # Nobody => session[by.user] # None
  /\ req' = [req EXCEPT ![r] = [@ EXCEPT
                !.ask = ask, !.by = by,
                !.own = IF by.root THEN RootRead
                        ELSE IF by.user # Nobody THEN session[by.user].has ELSE {},
                !.at = IF by.key = Nobody THEN "guest" ELSE "key"]]
  /\ UNCHANGED <<grants, login, session, guest, lookups, revoked, faults>>

\* getApiKeyActorIdQuery, in a PREPARSE hook: an error when there is no such key.
FindKey(r) ==
  /\ req[r].at = "key"
  /\ RootReads
  /\ \/ req' = [req EXCEPT ![r].at = "actor"]
     \/ req' = [req EXCEPT ![r] = Answered(r, NoKey)]
  /\ UNCHANGED <<grants, login, session, guest, revoked, faults>>

\* getApiKeyPermissionsQuery
GetKeyPermissions(r) ==
  /\ req[r].at = "actor"
  /\ RootReads
  /\ req' = [req EXCEPT ![r].at = "guest",
                        ![r].own = IF req[r].by.user = Nobody THEN Held(req[r].by.key) ELSE @]
  /\ UNCHANGED <<grants, login, session, guest, revoked, faults>>

\* getReqPermissions
GetReqPermissions(r) ==
  /\ req[r].at = "guest" /\ GuestIsKnown(req[r].by.root)
  /\ LET l == LookupOf(req[r].own)
     IN /\ lookups' = lookups \cup {l}
        /\ req' = [req EXCEPT ![r].at = "known", ![r].all = l.all]
  /\ UNCHANGED <<grants, login, session, guest, revoked, faults>>

\* addPermissions, the canAccess action or checkPermissionsMiddleware.
Answer(r) ==
  /\ req[r].at = "known"
  /\ req' = [req EXCEPT ![r] = Answered(r, AnswerOf(req[r].all, req[r].ask))]
  /\ UNCHANGED <<grants, login, session, guest, lookups, revoked, faults>>

Progress(r) == FindKey(r) \/ GetKeyPermissions(r) \/ GetReqPermissions(r)

Next ==
  \/ \E u \in Users : CheckPassword(u) \/ GetUserPermissions(u) \/ Logout(u)
  \/ \E h \in Holders : \E g \in grants[h] : Revoke(h, g)
  \/ FindGuest \/ GuestFound \/ GetGuestPermissions \/ GuestFails
  \/ \E r \in Requests : \E ask \in Asks[r], by \in Callers[r] : Arrive(r, ask, by)
  \/ \E r \in Requests : Progress(r) \/ Answer(r)

Spec == Init /\ [][Next]_vars

\* The queries of permissions.ts end, one way or another.
FairSpec ==
  /\ Spec
  /\ WF_vars(FindGuest) /\ WF_vars(GuestFound) /\ WF_vars(GetGuestPermissions)
  /\ \A r \in Requests : WF_vars(Progress(r))
-----------------------------------------------------------------------------
\* Credentials carry permissions and never roles, and who asks for nothing has
\* been answered nothing.
TypeOK ==
  /\ \A h \in Holders : grants[h] \subseteq Permissions \cup DOMAIN Roles
  /\ login \in [Users -> {"out", "checked", "in", "over"}]
  /\ \A u \in Users : session[u] # None <=> login[u] = "in"
  /\ guest.at \in {"unset", "finding", "found", "set"}
  /\ guest.at # "set" => guest.has = {}
  /\ \A l \in lookups : l.own \subseteq l.all
  /\ \A r \in Requests :
       /\ req[r].at \in {"new", "key", "actor", "guest", "known", "done"}
       /\ req[r].own \subseteq Permissions /\ req[r].all \subseteq Permissions
       /\ req[r].answer.op \in {"none", "error", "no key"} \cup Verdicts
       /\ req[r].answer # None <=> req[r].at = "done"
  /\ revoked \in 0..MaxRevoked /\ faults \in 0..MaxFaults

\* The permissions of who asks and of the guest.  A list equal to that of
\* rootRead may come with a lookup made before those of the guest were known.
Given(r) == req[r].own \cup guest.has
Ordinary(r) == req[r].own # RootRead

\* Every request is decided on with the same permissions of the guest, those
\* that were read once, although the lookups are kept by the other list only.
GuestsAgree ==
  \A r \in Requests :
    Ordinary(r) /\ ( \/ req[r].at = "known"
                     \/ req[r].at = "done" /\ req[r].answer \notin {Failed, NoKey} )
      => guest.at = "set" /\ req[r].all = Given(r)

\* Reading the permissions of the guest, which takes requests that need some
\* themselves, never waits for itself: those of each request are known at last,
\* or it fails.
PermissionsKnown ==
  \A r \in Requests : req[r].at # "new" ~> req[r].at \in {"known", "done"}
=============================================================================
