--------------------------- MODULE MultipartUpload ---------------------------
(***************************************************************************)
(* Files that a client uploads in parts, straight to the provider          *)
(* (src/webresource-handler/actions): beginUpload tries the change of the  *)
(* row in a transaction that is always rolled back and has the provider    *)
(* prepare the upload, commitUpload has it stored and refers the row to    *)
(* it, cancelUpload gives it up.                                           *)
(*                                                                         *)
(* There is one row with one field, which other requests clear or delete   *)
(* meanwhile.  Uploads and their files are named by the request that began *)
(* them.  WebResource has the hooks of the row in detail.                  *)
(***************************************************************************)
EXTENDS Naturals, FiniteSets

CONSTANTS
  Begins, Commits, Cancels,  \* the actions that clients call
  Others,                    \* PATCHes that set the field to null, and DELETEs
  Of,                        \* the upload that each commit and cancel names
  PoolSize,                  \* connections to the database
  MaxFaults,                 \* bound: answers to COMMIT that are lost
  Old, Fake,                 \* the file the row has at first; 'fake_patch'
  Null, Gone, None

Requests == Begins \cup Commits \cup Cancels \cup Others
Files == Begins \cup {Old, Fake}

ASSUME UploadAssumption ==
  /\ Begins \cap (Commits \cup Cancels \cup Others) = {}
  /\ Commits \cap (Cancels \cup Others) = {} /\ Cancels \cap Others = {}
  /\ Of \in [Commits \cup Cancels -> Begins]
  /\ Files \cap {Null, Gone} = {} /\ Old # Fake /\ Null # Gone
  /\ Begins \cap {Old, Fake} = {} /\ None \notin Requests
  /\ PoolSize \in Nat /\ MaxFaults \in Nat

VARIABLES
  at,          \* where each request is
  todo,        \* what it has still to do of its PATCHes or its DELETE
  conns,       \* the connections it holds: <<request, transaction>>
  row,         \* the field, as committed: a file or Null; Gone with its row
  rowLock,     \* the request whose transaction has written the row
  replaced,    \* the file that each request deletes when it has committed
  status,      \* of each upload, in its record as committed
  uploadLock,  \* the request whose transaction has written the record
  provider,    \* each upload at the provider
  deleted,     \* files that have been given to deleteFiles
  faults

dbVars == <<row, rowLock, status, uploadLock>>
vars == <<at, todo, conns, dbVars, replaced, provider, deleted, faults>>

Patches == {"status", "read", "write"}

Init ==
  /\ at = [r \in Requests |-> "connect"]
  /\ todo = [r \in Requests |-> CASE r \in Commits -> Patches
                                  [] r \in Others -> {"read", "write"}
                                  [] OTHER -> {}]
  /\ conns = {}
  /\ row = Old /\ rowLock = None
  /\ replaced = [r \in Requests |-> Null]
  /\ status = [u \in Begins |-> "none"] /\ uploadLock = [u \in Begins |-> None]
  /\ provider = [u \in Begins |-> "none"]
  /\ deleted = {}
  /\ faults = 0

To(r, place) == at' = [at EXCEPT ![r] = place]
Done(r, what) == todo' = [todo EXCEPT ![r] = @ \ {what}]
Step(r, from, to) == at[r] = from /\ To(r, to)
-----------------------------------------------------------------------------
(* The pool: a transaction waits for a connection, up to                   *)
(* connectionTimeoutMillis.                                                *)

Free == Cardinality(conns) < PoolSize

First(r) == CASE r \in Begins -> "fake"
              [] r \in Commits \cup Cancels -> "find"
              [] OTHER -> "patches"

\* runAction; canRunAction asks canAccess, in the same transaction.
Connect(r) ==
  /\ Step(r, "connect", First(r)) /\ Free
  /\ conns' = conns \cup {<<r, "own">>}
  /\ UNCHANGED <<todo, dbVars, replaced, provider, deleted, faults>>

\* runFakeDbPatch takes a second one.
FakeTx(r) ==
  /\ Step(r, "fake", "patch") /\ Free
  /\ conns' = conns \cup {<<r, "fake">>}
  /\ UNCHANGED <<todo, dbVars, replaced, provider, deleted, faults>>

\* Fault: a connection is waited for for ever.
NeverGivesUp(r) == FALSE /\ UNCHANGED vars
GivesUp(r) ==
  /\ \/ Step(r, "connect", "done")
     \/ Step(r, "fake", "rollback")
  /\ UNCHANGED <<todo, conns, dbVars, replaced, provider, deleted, faults>>
-----------------------------------------------------------------------------
(* beginUpload *)

RowIsFree == rowLock = None

\* The PATCH with the href 'fake_patch' waits for the row as any other does.
FakePatch(r) ==
  /\ Step(r, "patch", "patched") /\ RowIsFree
  /\ rowLock' = IF row = Gone THEN rowLock ELSE r
  /\ UNCHANGED <<todo, conns, row, status, uploadLock, replaced, provider, deleted, faults>>

Unlocked(r) == IF rowLock = r THEN None ELSE rowLock

\* Fault: the transaction of the trial is committed.
FakeCommit(r) ==
  /\ Step(r, "patched", "begin")
  /\ conns' = conns \ {<<r, "fake">>}
  /\ row' = IF rowLock = r THEN Fake ELSE row
  /\ rowLock' = Unlocked(r)
  /\ deleted' = deleted \cup {Old}
  /\ UNCHANGED <<todo, status, uploadLock, replaced, provider, faults>>

\* The listener that the PATCH has left deletes the file that it names.
FakeRollback(r) ==
  /\ Step(r, "patched", "begin")
  /\ conns' = conns \ {<<r, "fake">>}
  /\ rowLock' = Unlocked(r)
  /\ deleted' = deleted \cup {Fake}
  /\ UNCHANGED <<todo, row, status, uploadLock, replaced, provider, faults>>

\* A constraint, a hook or a rule does not let it: rolled back all the same.
FakePatchFails(r) ==
  /\ Step(r, "patch", "rollback")
  /\ conns' = conns \ {<<r, "fake">>}
  /\ deleted' \in {deleted, deleted \cup {Fake}}
  /\ UNCHANGED <<todo, dbVars, replaced, provider, faults>>

ProviderBegin(r) ==
  /\ Step(r, "begin", "commit")
  /\ provider' = [provider EXCEPT ![r] = "begun"]
  /\ UNCHANGED <<todo, conns, dbVars, replaced, deleted, faults>>
-----------------------------------------------------------------------------
(* commitUpload and cancelUpload *)

\* getOngoingUpload
FindPending(r) ==
  /\ Step(r, "find", IF status[Of[r]] # "pending" THEN "rollback"
                     ELSE IF r \in Commits THEN "provider" ELSE "mark")
  /\ UNCHANGED <<todo, conns, dbVars, replaced, provider, deleted, faults>>

\* The provider stores, or gives up, an upload that it has open, once.
ProviderCommit(r) ==
  /\ r \in Commits /\ provider[Of[r]] = "begun"
  /\ Step(r, "provider", "patches")
  /\ provider' = [provider EXCEPT ![Of[r]] = "stored"]
  /\ UNCHANGED <<todo, conns, dbVars, replaced, deleted, faults>>

\* Fault: what the provider says to a cancel is not heeded.
ProviderCancelIgnored(r) ==
  /\ r \in Cancels
  /\ Step(r, "provider", "commit")
  /\ provider' = [provider EXCEPT ![Of[r]] = IF @ = "begun" THEN "aborted" ELSE @]
  /\ UNCHANGED <<todo, conns, dbVars, replaced, deleted, faults>>

ProviderCancel(r) ==
  /\ r \in Cancels /\ provider[Of[r]] = "begun"
  /\ Step(r, "provider", "commit")
  /\ provider' = [provider EXCEPT ![Of[r]] = "aborted"]
  /\ UNCHANGED <<todo, conns, dbVars, replaced, deleted, faults>>

ProviderRefuses(r) ==
  /\ r \in Commits \cup Cancels /\ provider[Of[r]] # "begun"
  /\ Step(r, "provider", "rollback")
  /\ UNCHANGED <<todo, conns, dbVars, replaced, provider, deleted, faults>>

\* cancelUpload: the record first.
MarkCancelled(r) ==
  /\ Step(r, "mark", "provider")
  /\ uploadLock[Of[r]] = None
  /\ uploadLock' = [uploadLock EXCEPT ![Of[r]] = r]
  /\ UNCHANGED <<todo, conns, row, rowLock, status, replaced, provider, deleted, faults>>

\* Fault: the status is patched outside of the transaction.
PatchStatusAtOnce(r) ==
  /\ at[r] = "patches" /\ "status" \in todo[r]
  /\ uploadLock[Of[r]] = None
  /\ status' = [status EXCEPT ![Of[r]] = "completed"]
  /\ Done(r, "status")
  /\ UNCHANGED <<at, conns, row, rowLock, uploadLock, replaced, provider, deleted, faults>>

\* commitUpload patches the record and the row side by side.
PatchStatus(r) ==
  /\ at[r] = "patches" /\ "status" \in todo[r]
  /\ uploadLock[Of[r]] = None
  /\ uploadLock' = [uploadLock EXCEPT ![Of[r]] = r]
  /\ Done(r, "status")
  /\ UNCHANGED <<at, conns, row, rowLock, status, replaced, provider, deleted, faults>>
-----------------------------------------------------------------------------
(* The PATCH or DELETE of the row: getRemoveWebResourceHooks, statement.   *)

NewFiles(r) == IF r \in Commits THEN {Of[r]} ELSE {}

\* The PRERUN hook; without a row the new file is deleted at once.  From here a
\* rollback deletes it.
PrepareRow(r) ==
  /\ at[r] = "patches" /\ "read" \in todo[r]
  /\ replaced' = [replaced EXCEPT ![r] = IF row = Gone THEN Null ELSE row]
  /\ deleted' = IF row = Gone THEN deleted \cup NewFiles(r) ELSE deleted
  /\ Done(r, "read")
  /\ UNCHANGED <<at, conns, dbVars, provider, faults>>

WriteRow(r) ==
  /\ at[r] = "patches" /\ todo[r] \cap {"read", "write"} = {"write"} /\ RowIsFree
  /\ rowLock' = IF row = Gone THEN rowLock ELSE r
  /\ Done(r, "write")
  /\ UNCHANGED <<at, conns, row, status, uploadLock, replaced, provider, deleted, faults>>
-----------------------------------------------------------------------------
(* The end of the transaction *)

\* The callback of the transaction has returned.
Ready(r) == at[r] = "commit" \/ (at[r] = "patches" /\ todo[r] = {})

\* Fault: the connection is kept.
ReleasesLocks(r) ==
  /\ UNCHANGED conns
  /\ rowLock' = Unlocked(r)
  /\ uploadLock' = [u \in Begins |-> IF uploadLock[u] = r THEN None ELSE uploadLock[u]]

Releases(r) ==
  /\ conns' = {c \in conns : c[1] # r}
  /\ rowLock' = Unlocked(r)
  /\ uploadLock' = [u \in Begins |-> IF uploadLock[u] = r THEN None ELSE uploadLock[u]]

\* An error, of the provider after it has obliged as well, or of a connection.
Fails(r) ==
  /\ at[r] \in {"find", "begin", "provider", "mark", "patches", "commit"}
  /\ To(r, "rollback")
  /\ UNCHANGED <<todo, conns, dbVars, replaced, provider, deleted, faults>>

RollsBack(r) ==
  /\ Step(r, "rollback", "done")
  /\ Releases(r)
  /\ deleted' = IF "read" \in todo[r] THEN deleted ELSE deleted \cup NewFiles(r)
  /\ UNCHANGED <<todo, row, status, replaced, provider, faults>>

\* What the transaction may make of the row, and makes of the records.
Written(r) ==
  IF rowLock # r THEN {row} ELSE IF r \in Others THEN {Null, Gone} ELSE {Of[r]}
Recorded(r) ==
  [u \in Begins |-> CASE u = r -> "pending"
                      [] uploadLock[u] = r /\ r \in Commits -> "completed"
                      [] uploadLock[u] = r /\ r \in Cancels -> "cancelled"
                      [] OTHER -> status[u]]

Commit(r) ==
  /\ Ready(r) /\ To(r, "done")
  /\ Releases(r)
  /\ row' \in Written(r) /\ status' = Recorded(r)
  /\ deleted' = deleted \cup ({replaced[r]} \ {Null})
  /\ UNCHANGED <<todo, replaced, provider, faults>>

\* COMMIT fails, or its answer is lost: no listener runs.
CommitFails(r) ==
  /\ Ready(r) /\ To(r, "done") /\ faults < MaxFaults
  /\ Releases(r)
  /\ faults' = faults + 1
  /\ \/ row' \in Written(r) /\ status' = Recorded(r)
     \/ UNCHANGED <<row, status>>
  /\ UNCHANGED <<todo, replaced, provider, deleted>>
-----------------------------------------------------------------------------
Waits(r) == Connect(r) \/ FakeTx(r) \/ GivesUp(r)
Runs(r) ==
  \/ FakePatch(r) \/ FakeRollback(r) \/ ProviderBegin(r)
  \/ FindPending(r) \/ MarkCancelled(r)
  \/ ProviderCommit(r) \/ ProviderCancel(r) \/ ProviderRefuses(r)
  \/ PatchStatus(r) \/ PrepareRow(r) \/ WriteRow(r)
  \/ RollsBack(r) \/ Commit(r)

Next ==
  \E r \in Requests :
    Waits(r) \/ Runs(r) \/ FakePatchFails(r) \/ Fails(r) \/ CommitFails(r)

Spec == Init /\ [][Next]_vars

\* Statements and the provider answer, and the timers of the pool run.
FairSpec ==
  /\ Spec
  /\ \A r \in Requests : WF_vars(Waits(r) \/ Runs(r))
-----------------------------------------------------------------------------
Places == {"connect", "fake", "patch", "patched", "begin", "find", "provider",
           "mark", "patches", "commit", "rollback", "done"}

TypeOK ==
  /\ at \in [Requests -> Places]
  /\ todo \in [Requests -> SUBSET Patches]
  /\ conns = {<<r, "own">> : r \in {q \in Requests : at[q] \notin {"connect", "done"}}}
             \cup {<<r, "fake">> : r \in {q \in Requests : at[q] \in {"patch", "patched"}}}
  /\ row \in Files \cup {Null, Gone}
  /\ rowLock \in Requests \cup {None}
  /\ replaced \in [Requests -> Files \cup {Null}]
  /\ status \in [Begins -> {"none", "pending", "completed", "cancelled"}]
  /\ uploadLock \in [Begins -> Commits \cup Cancels \cup {None}]
  /\ provider \in [Begins -> {"none", "begun", "stored", "aborted"}]
  /\ deleted \subseteq Files
  /\ faults \in 0..MaxFaults

\* The row refers to a file that is stored and has not been given to be
\* deleted: never to the name that beginUpload tries, nor to an upload of which
\* the commit was rolled back or lost a race.
NoDangling ==
  row \in Files => /\ row # Fake /\ row \notin deleted
                   /\ row \in Begins => provider[row] = "stored"

\* The record of an upload says nothing that the provider did not do, although
\* commit and cancel both find it pending: "The worst case scenario is having a
\* canceled upload which is marked on the DB as something else".
StatusIsTrue ==
  \A u \in Begins : /\ status[u] = "pending" => provider[u] # "none"
                    /\ status[u] = "completed" => provider[u] = "stored"
                    /\ status[u] = "cancelled" => provider[u] = "aborted"

\* An upload is completed in one step with the row that comes to refer to it,
\* unless that is gone.
Completes(u) == status[u] # "completed" /\ status'[u] = "completed"
CompletedWithItsRow ==
  [][\A u \in Begins : /\ Completes(u) => row' \in {u, Gone}
                       /\ row # u /\ row' = u => Completes(u)]_vars

\* Requests end, even those whose transactions need a second connection when
\* all are held by requests like them.
ActionsEnd == <>(\A r \in Requests : at[r] = "done")
=============================================================================
