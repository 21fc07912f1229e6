----------------------- MODULE MultipartUploadProofs -----------------------
(***************************************************************************)
(* Proofs about MultipartUpload, for any number of uploads, actions and    *)
(* connections.  The provider stores an upload once, so that one commit of *)
(* it gets past it, and what the row, its locks and the record of the      *)
(* upload may be follows from where that commit is.                        *)
(***************************************************************************)
EXTENDS MultipartUpload, TLAPS

\* The provider has stored what the commit r is for.
Past(r) == at[r] = "patches" \/ todo[r] # Patches
Active(r) == Past(r) /\ at[r] # "done"
\* The row refers to u, or did to someone who is to delete it.
Shows(u) == row = u \/ \E q \in Requests : replaced[q] = u

Roles ==
  \A r \in Requests :
    /\ at[r] \in {"fake", "patch", "patched", "begin"} => r \in Begins
    /\ at[r] \in {"find", "provider"} => r \in Commits \cup Cancels
    /\ at[r] = "mark" => r \in Cancels
    /\ at[r] = "patches" => r \in Commits \cup Others
    /\ at[r] = "commit" => r \in Begins \cup Cancels
    /\ r \in Begins \cup Cancels => replaced[r] = Null
    /\ r \notin Commits => "status" \notin todo[r]
    /\ at[r] \in {"connect", "find", "provider"} =>
         /\ r \in Commits => todo[r] = Patches
         /\ r \in Others => {"read", "write"} \subseteq todo[r]

\* What each request has had of the provider, and each file.
Provided ==
  /\ \A r \in Begins :
       /\ at[r] \in {"connect", "fake", "patch", "patched", "begin"} =>
            provider[r] = "none"
       /\ at[r] = "commit" => provider[r] # "none"
  /\ \A r \in Commits : Past(r) => provider[Of[r]] = "stored"
  /\ \A r \in Cancels : at[r] = "commit" => provider[Of[r]] = "aborted"
  /\ \A u \in Begins : Shows(u) \/ u \in deleted => provider[u] = "stored"

OneCommit == \A r, q \in Commits : Past(r) /\ Past(q) /\ Of[r] = Of[q] => r = q

\* While it goes on, nothing has come of it; its file may only have been deleted
\* for want of a row.
Unsettled ==
  \A r \in Commits : Active(r) => /\ ~Shows(Of[r]) /\ status[Of[r]] # "completed"
                                  /\ Of[r] \in deleted => row = Gone

\* Who has written the row has it locked, or it was gone.
RowLocked ==
  /\ rowLock # None => row # Gone
  /\ \A r \in Requests :
       /\ rowLock = r => /\ at[r] \in {"patched", "patches", "rollback"}
                         /\ r \in Begins => at[r] = "patched"
       /\ at[r] = "patches" /\ "write" \notin todo[r] /\ rowLock # r => row = Gone

UploadLocked ==
  /\ \A u \in Begins : uploadLock[u] # None => /\ u = Of[uploadLock[u]]
                                               /\ "status" \notin todo[uploadLock[u]]
  /\ \A r \in Commits :
       at[r] = "patches" /\ "status" \notin todo[r] => uploadLock[Of[r]] = r

NeverFake == row # Fake /\ \A q \in Requests : replaced[q] # Fake

IInv ==
  /\ TypeOK /\ NoDangling /\ StatusIsTrue /\ Roles /\ Provided /\ OneCommit
  /\ Unsettled /\ RowLocked /\ UploadLocked /\ NeverFake
-----------------------------------------------------------------------------
LEMMA Init_IInv == Init => IInv
<1> SUFFICES ASSUME Init PROVE IInv
  OBVIOUS
<1> USE UploadAssumption DEF Init, Requests, Files
<1>1. TypeOK
  BY DEF TypeOK, Places, Patches
<1>2. NoDangling /\ StatusIsTrue /\ NeverFake
  BY DEF NoDangling, StatusIsTrue, NeverFake
<1>3. Roles /\ RowLocked /\ UploadLocked
  BY DEF Roles, RowLocked, UploadLocked, Patches
<1>4. Provided /\ OneCommit /\ Unsettled
  BY DEF Provided, OneCommit, Unsettled, Past, Active, Shows
<1> QED BY <1>1, <1>2, <1>3, <1>4 DEF IInv

\* Each place is for requests of its kind, and their PATCHes begin
\* complete.
LEMMA RolesStep ==
  ASSUME TypeOK, Roles, [Next]_vars
  PROVE  Roles'
<1> USE UploadAssumption DEF TypeOK, Roles, First, Patches, To, Step, Done,
      dbVars, Requests, Files
<1>1. ASSUME NEW r \in Requests, Connect(r) PROVE Roles'
  BY <1>1 DEF Connect
<1>2. ASSUME NEW r \in Requests, FakeTx(r) PROVE Roles'
  BY <1>2 DEF FakeTx
<1>3. ASSUME NEW r \in Requests, GivesUp(r) PROVE Roles'
  BY <1>3 DEF GivesUp
<1>4. ASSUME NEW r \in Requests, FakePatch(r) PROVE Roles'
  BY <1>4 DEF FakePatch
<1>5. ASSUME NEW r \in Requests, FakeRollback(r) PROVE Roles'
  BY <1>5 DEF FakeRollback
<1>6. ASSUME NEW r \in Requests, FakePatchFails(r) PROVE Roles'
  BY <1>6 DEF FakePatchFails
<1>7. ASSUME NEW r \in Requests, ProviderBegin(r) PROVE Roles'
  BY <1>7 DEF ProviderBegin
<1>8. ASSUME NEW r \in Requests, FindPending(r) PROVE Roles'
  BY <1>8 DEF FindPending
<1>9. ASSUME NEW r \in Requests, ProviderCommit(r) PROVE Roles'
  BY <1>9 DEF ProviderCommit
<1>10. ASSUME NEW r \in Requests, ProviderCancel(r) PROVE Roles'
  BY <1>10 DEF ProviderCancel
<1>11. ASSUME NEW r \in Requests, ProviderRefuses(r) PROVE Roles'
  BY <1>11 DEF ProviderRefuses
<1>12. ASSUME NEW r \in Requests, MarkCancelled(r) PROVE Roles'
  BY <1>12 DEF MarkCancelled
<1>13. ASSUME NEW r \in Requests, PatchStatus(r) PROVE Roles'
  BY <1>13 DEF PatchStatus
<1>14. ASSUME NEW r \in Requests, PrepareRow(r) PROVE Roles'
  BY <1>14 DEF PrepareRow
<1>15. ASSUME NEW r \in Requests, WriteRow(r) PROVE Roles'
  BY <1>15 DEF WriteRow
<1>16. ASSUME NEW r \in Requests, Fails(r) PROVE Roles'
  BY <1>16 DEF Fails
<1>17. ASSUME NEW r \in Requests, RollsBack(r) PROVE Roles'
  BY <1>17 DEF RollsBack
<1>18. ASSUME NEW r \in Requests, Commit(r) PROVE Roles'
  BY <1>18 DEF Commit
<1>19. ASSUME NEW r \in Requests, CommitFails(r) PROVE Roles'
  BY <1>19 DEF CommitFails
<1>20. CASE UNCHANGED vars
  BY <1>20 DEF vars
<1> HIDE DEF TypeOK, Roles, Step, To
<1> QED BY <1>1, <1>2, <1>3, <1>4, <1>5, <1>6, <1>7, <1>8, <1>9, <1>10, <1>11,
      <1>12, <1>13, <1>14, <1>15, <1>16, <1>17, <1>18, <1>19, <1>20 DEF Next,
      Waits, Runs

\* A row that is gone is never locked again, and nobody gets a lock that
\* is held.
LEMMA RowLockStep ==
  ASSUME TypeOK, Roles, RowLocked, [Next]_vars
  PROVE  RowLocked'
<1> USE UploadAssumption DEF TypeOK, Roles, RowLocked, First, Patches, Places,
      RowIsFree, Unlocked, Releases, Written, Ready, To, Step, Done, dbVars,
      Requests, Files
<1>1. ASSUME NEW r \in Requests, Connect(r) PROVE RowLocked'
  BY <1>1 DEF Connect
<1>2. ASSUME NEW r \in Requests, FakeTx(r) PROVE RowLocked'
  BY <1>2 DEF FakeTx
<1>3. ASSUME NEW r \in Requests, GivesUp(r) PROVE RowLocked'
  BY <1>3 DEF GivesUp
<1>4. ASSUME NEW r \in Requests, FakePatch(r) PROVE RowLocked'
  BY <1>4 DEF FakePatch
<1>5. ASSUME NEW r \in Requests, FakeRollback(r) PROVE RowLocked'
  BY <1>5 DEF FakeRollback
<1>6. ASSUME NEW r \in Requests, FakePatchFails(r) PROVE RowLocked'
  BY <1>6 DEF FakePatchFails
<1>7. ASSUME NEW r \in Requests, ProviderBegin(r) PROVE RowLocked'
  BY <1>7 DEF ProviderBegin
<1>8. ASSUME NEW r \in Requests, FindPending(r) PROVE RowLocked'
  BY <1>8 DEF FindPending
<1>9. ASSUME NEW r \in Requests, ProviderCommit(r) PROVE RowLocked'
  BY <1>9 DEF ProviderCommit
<1>10. ASSUME NEW r \in Requests, ProviderCancel(r) PROVE RowLocked'
  BY <1>10 DEF ProviderCancel
<1>11. ASSUME NEW r \in Requests, ProviderRefuses(r) PROVE RowLocked'
  BY <1>11 DEF ProviderRefuses
<1>12. ASSUME NEW r \in Requests, MarkCancelled(r) PROVE RowLocked'
  BY <1>12 DEF MarkCancelled
<1>13. ASSUME NEW r \in Requests, PatchStatus(r) PROVE RowLocked'
  BY <1>13 DEF PatchStatus
<1>14. ASSUME NEW r \in Requests, PrepareRow(r) PROVE RowLocked'
  BY <1>14 DEF PrepareRow
<1>15. ASSUME NEW r \in Requests, WriteRow(r) PROVE RowLocked'
  BY <1>15 DEF WriteRow
<1>16. ASSUME NEW r \in Requests, Fails(r) PROVE RowLocked'
  BY <1>16 DEF Fails
<1>17. ASSUME NEW r \in Requests, RollsBack(r) PROVE RowLocked'
  BY <1>17 DEF RollsBack
<1>18. ASSUME NEW r \in Requests, Commit(r) PROVE RowLocked'
  BY <1>18 DEF Commit
<1>19. ASSUME NEW r \in Requests, CommitFails(r) PROVE RowLocked'
  BY <1>19 DEF CommitFails
<1>20. CASE UNCHANGED vars
  BY <1>20 DEF vars
<1> HIDE DEF TypeOK, Roles, Step, To
<1> QED BY <1>1, <1>2, <1>3, <1>4, <1>5, <1>6, <1>7, <1>8, <1>9, <1>10, <1>11,
      <1>12, <1>13, <1>14, <1>15, <1>16, <1>17, <1>18, <1>19, <1>20 DEF Next,
      Waits, Runs

\* The record of an upload is locked by its own commit or cancel.
LEMMA UploadLockStep ==
  ASSUME TypeOK, Roles, UploadLocked, [Next]_vars
  PROVE  UploadLocked'
<1> USE UploadAssumption DEF TypeOK, Roles, UploadLocked, First, Patches,
      Places, Releases, Ready, To, Step, Done, dbVars, Requests, Files
<1>1. ASSUME NEW r \in Requests, Connect(r) PROVE UploadLocked'
  BY <1>1 DEF Connect
<1>2. ASSUME NEW r \in Requests, FakeTx(r) PROVE UploadLocked'
  BY <1>2 DEF FakeTx
<1>3. ASSUME NEW r \in Requests, GivesUp(r) PROVE UploadLocked'
  BY <1>3 DEF GivesUp
<1>4. ASSUME NEW r \in Requests, FakePatch(r) PROVE UploadLocked'
  BY <1>4 DEF FakePatch
<1>5. ASSUME NEW r \in Requests, FakeRollback(r) PROVE UploadLocked'
  BY <1>5 DEF FakeRollback
<1>6. ASSUME NEW r \in Requests, FakePatchFails(r) PROVE UploadLocked'
  BY <1>6 DEF FakePatchFails
<1>7. ASSUME NEW r \in Requests, ProviderBegin(r) PROVE UploadLocked'
  BY <1>7 DEF ProviderBegin
<1>8. ASSUME NEW r \in Requests, FindPending(r) PROVE UploadLocked'
  BY <1>8 DEF FindPending
<1>9. ASSUME NEW r \in Requests, ProviderCommit(r) PROVE UploadLocked'
  BY <1>9 DEF ProviderCommit
<1>10. ASSUME NEW r \in Requests, ProviderCancel(r) PROVE UploadLocked'
  BY <1>10 DEF ProviderCancel
<1>11. ASSUME NEW r \in Requests, ProviderRefuses(r) PROVE UploadLocked'
  BY <1>11 DEF ProviderRefuses
<1>12. ASSUME NEW r \in Requests, MarkCancelled(r) PROVE UploadLocked'
  BY <1>12 DEF MarkCancelled
<1>13. ASSUME NEW r \in Requests, PatchStatus(r) PROVE UploadLocked'
  BY <1>13 DEF PatchStatus
<1>14. ASSUME NEW r \in Requests, PrepareRow(r) PROVE UploadLocked'
  BY <1>14 DEF PrepareRow
<1>15. ASSUME NEW r \in Requests, WriteRow(r) PROVE UploadLocked'
  BY <1>15 DEF WriteRow
<1>16. ASSUME NEW r \in Requests, Fails(r) PROVE UploadLocked'
  BY <1>16 DEF Fails
<1>17. ASSUME NEW r \in Requests, RollsBack(r) PROVE UploadLocked'
  BY <1>17 DEF RollsBack
<1>18. ASSUME NEW r \in Requests, Commit(r) PROVE UploadLocked'
  BY <1>18 DEF Commit
<1>19. ASSUME NEW r \in Requests, CommitFails(r) PROVE UploadLocked'
  BY <1>19 DEF CommitFails
<1>20. CASE UNCHANGED vars
  BY <1>20 DEF vars
<1> HIDE DEF TypeOK, Roles, Step, To
<1> QED BY <1>1, <1>2, <1>3, <1>4, <1>5, <1>6, <1>7, <1>8, <1>9, <1>10, <1>11,
      <1>12, <1>13, <1>14, <1>15, <1>16, <1>17, <1>18, <1>19, <1>20 DEF Next,
      Waits, Runs

\* What beginUpload tries is never committed.
LEMMA NeverFakeStep ==
  ASSUME TypeOK, Roles, RowLocked, NeverFake, [Next]_vars
  PROVE  NeverFake'
<1> USE UploadAssumption DEF TypeOK, Roles, RowLocked, NeverFake, Places,
      Written, Ready, First, To, Step, Done, dbVars, Requests, Files
<1>1. ASSUME NEW r \in Requests, Connect(r) PROVE NeverFake'
  BY <1>1 DEF Connect
<1>2. ASSUME NEW r \in Requests, FakeTx(r) PROVE NeverFake'
  BY <1>2 DEF FakeTx
<1>3. ASSUME NEW r \in Requests, GivesUp(r) PROVE NeverFake'
  BY <1>3 DEF GivesUp
<1>4. ASSUME NEW r \in Requests, FakePatch(r) PROVE NeverFake'
  BY <1>4 DEF FakePatch
<1>5. ASSUME NEW r \in Requests, FakeRollback(r) PROVE NeverFake'
  BY <1>5 DEF FakeRollback
<1>6. ASSUME NEW r \in Requests, FakePatchFails(r) PROVE NeverFake'
  BY <1>6 DEF FakePatchFails
<1>7. ASSUME NEW r \in Requests, ProviderBegin(r) PROVE NeverFake'
  BY <1>7 DEF ProviderBegin
<1>8. ASSUME NEW r \in Requests, FindPending(r) PROVE NeverFake'
  BY <1>8 DEF FindPending
<1>9. ASSUME NEW r \in Requests, ProviderCommit(r) PROVE NeverFake'
  BY <1>9 DEF ProviderCommit
<1>10. ASSUME NEW r \in Requests, ProviderCancel(r) PROVE NeverFake'
  BY <1>10 DEF ProviderCancel
<1>11. ASSUME NEW r \in Requests, ProviderRefuses(r) PROVE NeverFake'
  BY <1>11 DEF ProviderRefuses
<1>12. ASSUME NEW r \in Requests, MarkCancelled(r) PROVE NeverFake'
  BY <1>12 DEF MarkCancelled
<1>13. ASSUME NEW r \in Requests, PatchStatus(r) PROVE NeverFake'
  BY <1>13 DEF PatchStatus
<1>14. ASSUME NEW r \in Requests, PrepareRow(r) PROVE NeverFake'
  BY <1>14 DEF PrepareRow
<1>15. ASSUME NEW r \in Requests, WriteRow(r) PROVE NeverFake'
  BY <1>15 DEF WriteRow
<1>16. ASSUME NEW r \in Requests, Fails(r) PROVE NeverFake'
  BY <1>16 DEF Fails
<1>17. ASSUME NEW r \in Requests, RollsBack(r) PROVE NeverFake'
  BY <1>17 DEF RollsBack
<1>18. ASSUME NEW r \in Requests, Commit(r) PROVE NeverFake'
  BY <1>18 DEF Commit
<1>19. ASSUME NEW r \in Requests, CommitFails(r) PROVE NeverFake'
  BY <1>19 DEF CommitFails
<1>20. CASE UNCHANGED vars
  BY <1>20 DEF vars
<1> HIDE DEF TypeOK, Roles, Step, To
<1> QED BY <1>1, <1>2, <1>3, <1>4, <1>5, <1>6, <1>7, <1>8, <1>9, <1>10, <1>11,
      <1>12, <1>13, <1>14, <1>15, <1>16, <1>17, <1>18, <1>19, <1>20 DEF Next,
      Waits, Runs

\* The provider goes on from what it has begun, and files are only shown
\* or deleted when it has stored them.
LEMMA ProvidedStep ==
  ASSUME TypeOK, Roles, Provided, RowLocked, NeverFake, [Next]_vars
  PROVE  Provided'
<1> USE UploadAssumption DEF TypeOK, Roles, Provided, RowLocked, NeverFake,
      Past, Shows, First, Places, Patches, Written, Ready, NewFiles, Unlocked,
      Releases, To, Step, Done, dbVars, Requests, Files
<1>1. ASSUME NEW r \in Requests, Connect(r) PROVE Provided'
  BY <1>1 DEF Connect
<1>2. ASSUME NEW r \in Requests, FakeTx(r) PROVE Provided'
  BY <1>2 DEF FakeTx
<1>3. ASSUME NEW r \in Requests, GivesUp(r) PROVE Provided'
  BY <1>3 DEF GivesUp
<1>4. ASSUME NEW r \in Requests, FakePatch(r) PROVE Provided'
  BY <1>4 DEF FakePatch
<1>5. ASSUME NEW r \in Requests, FakeRollback(r) PROVE Provided'
  BY <1>5 DEF FakeRollback
<1>6. ASSUME NEW r \in Requests, FakePatchFails(r) PROVE Provided'
  BY <1>6 DEF FakePatchFails
<1>7. ASSUME NEW r \in Requests, ProviderBegin(r) PROVE Provided'
  BY <1>7 DEF ProviderBegin
<1>8. ASSUME NEW r \in Requests, FindPending(r) PROVE Provided'
  BY <1>8 DEF FindPending
<1>9. ASSUME NEW r \in Requests, ProviderCommit(r) PROVE Provided'
  BY <1>9 DEF ProviderCommit
<1>10. ASSUME NEW r \in Requests, ProviderCancel(r) PROVE Provided'
  BY <1>10 DEF ProviderCancel
<1>11. ASSUME NEW r \in Requests, ProviderRefuses(r) PROVE Provided'
  BY <1>11 DEF ProviderRefuses
<1>12. ASSUME NEW r \in Requests, MarkCancelled(r) PROVE Provided'
  BY <1>12 DEF MarkCancelled
<1>13. ASSUME NEW r \in Requests, PatchStatus(r) PROVE Provided'
  BY <1>13 DEF PatchStatus
<1>14. ASSUME NEW r \in Requests, PrepareRow(r) PROVE Provided'
  BY <1>14 DEF PrepareRow
<1>15. ASSUME NEW r \in Requests, WriteRow(r) PROVE Provided'
  BY <1>15 DEF WriteRow
<1>16. ASSUME NEW r \in Requests, Fails(r) PROVE Provided'
  BY <1>16 DEF Fails
<1>17. ASSUME NEW r \in Requests, RollsBack(r) PROVE Provided'
  BY <1>17 DEF RollsBack
<1>18. ASSUME NEW r \in Requests, Commit(r) PROVE Provided'
  BY <1>18 DEF Commit
<1>19. ASSUME NEW r \in Requests, CommitFails(r) PROVE Provided'
  BY <1>19 DEF CommitFails
<1>20. CASE UNCHANGED vars
  BY <1>20 DEF vars
<1> HIDE DEF TypeOK, Roles, Step, To
<1> QED BY <1>1, <1>2, <1>3, <1>4, <1>5, <1>6, <1>7, <1>8, <1>9, <1>10, <1>11,
      <1>12, <1>13, <1>14, <1>15, <1>16, <1>17, <1>18, <1>19, <1>20 DEF Next,
      Waits, Runs

\* A second commit is refused, since the upload is no longer open.
LEMMA OneCommitStep ==
  ASSUME TypeOK, Roles, Provided, OneCommit, [Next]_vars
  PROVE  OneCommit'
<1> USE UploadAssumption DEF TypeOK, Roles, Provided, OneCommit, Past, First,
      Patches, Ready, To, Step, Done, dbVars, Requests, Files
<1>1. ASSUME NEW r \in Requests, Connect(r) PROVE OneCommit'
  BY <1>1 DEF Connect
<1>2. ASSUME NEW r \in Requests, FakeTx(r) PROVE OneCommit'
  BY <1>2 DEF FakeTx
<1>3. ASSUME NEW r \in Requests, GivesUp(r) PROVE OneCommit'
  BY <1>3 DEF GivesUp
<1>4. ASSUME NEW r \in Requests, FakePatch(r) PROVE OneCommit'
  BY <1>4 DEF FakePatch
<1>5. ASSUME NEW r \in Requests, FakeRollback(r) PROVE OneCommit'
  BY <1>5 DEF FakeRollback
<1>6. ASSUME NEW r \in Requests, FakePatchFails(r) PROVE OneCommit'
  BY <1>6 DEF FakePatchFails
<1>7. ASSUME NEW r \in Requests, ProviderBegin(r) PROVE OneCommit'
  BY <1>7 DEF ProviderBegin
<1>8. ASSUME NEW r \in Requests, FindPending(r) PROVE OneCommit'
  BY <1>8 DEF FindPending
<1>9. ASSUME NEW r \in Requests, ProviderCommit(r) PROVE OneCommit'
  BY <1>9 DEF ProviderCommit
<1>10. ASSUME NEW r \in Requests, ProviderCancel(r) PROVE OneCommit'
  BY <1>10 DEF ProviderCancel
<1>11. ASSUME NEW r \in Requests, ProviderRefuses(r) PROVE OneCommit'
  BY <1>11 DEF ProviderRefuses
<1>12. ASSUME NEW r \in Requests, MarkCancelled(r) PROVE OneCommit'
  BY <1>12 DEF MarkCancelled
<1>13. ASSUME NEW r \in Requests, PatchStatus(r) PROVE OneCommit'
  BY <1>13 DEF PatchStatus
<1>14. ASSUME NEW r \in Requests, PrepareRow(r) PROVE OneCommit'
  BY <1>14 DEF PrepareRow
<1>15. ASSUME NEW r \in Requests, WriteRow(r) PROVE OneCommit'
  BY <1>15 DEF WriteRow
<1>16. ASSUME NEW r \in Requests, Fails(r) PROVE OneCommit'
  BY <1>16 DEF Fails
<1>17. ASSUME NEW r \in Requests, RollsBack(r) PROVE OneCommit'
  BY <1>17 DEF RollsBack
<1>18. ASSUME NEW r \in Requests, Commit(r) PROVE OneCommit'
  BY <1>18 DEF Commit
<1>19. ASSUME NEW r \in Requests, CommitFails(r) PROVE OneCommit'
  BY <1>19 DEF CommitFails
<1>20. CASE UNCHANGED vars
  BY <1>20 DEF vars
<1> HIDE DEF TypeOK, Roles, Step, To
<1> QED BY <1>1, <1>2, <1>3, <1>4, <1>5, <1>6, <1>7, <1>8, <1>9, <1>10, <1>11,
      <1>12, <1>13, <1>14, <1>15, <1>16, <1>17, <1>18, <1>19, <1>20 DEF Next,
      Waits, Runs

\* The row changes to the file of the commit that holds its lock, and only
\* files that are not shown are deleted.
LEMMA NoDanglingStep ==
  ASSUME IInv, [Next]_vars
  PROVE  NoDangling'
<1> USE UploadAssumption DEF IInv, TypeOK, Roles, NoDangling, Provided,
      Unsettled, RowLocked, NeverFake, Past, Active, Shows, First, Places,
      Patches, Written, Ready, NewFiles, To, Step, Done, dbVars, Requests,
      Files
<1>1. ASSUME NEW r \in Requests, Connect(r) PROVE NoDangling'
  BY <1>1 DEF Connect
<1>2. ASSUME NEW r \in Requests, FakeTx(r) PROVE NoDangling'
  BY <1>2 DEF FakeTx
<1>3. ASSUME NEW r \in Requests, GivesUp(r) PROVE NoDangling'
  BY <1>3 DEF GivesUp
<1>4. ASSUME NEW r \in Requests, FakePatch(r) PROVE NoDangling'
  BY <1>4 DEF FakePatch
<1>5. ASSUME NEW r \in Requests, FakeRollback(r) PROVE NoDangling'
  BY <1>5 DEF FakeRollback
<1>6. ASSUME NEW r \in Requests, FakePatchFails(r) PROVE NoDangling'
  BY <1>6 DEF FakePatchFails
<1>7. ASSUME NEW r \in Requests, ProviderBegin(r) PROVE NoDangling'
  BY <1>7 DEF ProviderBegin
<1>8. ASSUME NEW r \in Requests, FindPending(r) PROVE NoDangling'
  BY <1>8 DEF FindPending
<1>9. ASSUME NEW r \in Requests, ProviderCommit(r) PROVE NoDangling'
  BY <1>9 DEF ProviderCommit
<1>10. ASSUME NEW r \in Requests, ProviderCancel(r) PROVE NoDangling'
  BY <1>10 DEF ProviderCancel
<1>11. ASSUME NEW r \in Requests, ProviderRefuses(r) PROVE NoDangling'
  BY <1>11 DEF ProviderRefuses
<1>12. ASSUME NEW r \in Requests, MarkCancelled(r) PROVE NoDangling'
  BY <1>12 DEF MarkCancelled
<1>13. ASSUME NEW r \in Requests, PatchStatus(r) PROVE NoDangling'
  BY <1>13 DEF PatchStatus
<1>14. ASSUME NEW r \in Requests, PrepareRow(r) PROVE NoDangling'
  BY <1>14 DEF PrepareRow
<1>15. ASSUME NEW r \in Requests, WriteRow(r) PROVE NoDangling'
  BY <1>15 DEF WriteRow
<1>16. ASSUME NEW r \in Requests, Fails(r) PROVE NoDangling'
  BY <1>16 DEF Fails
<1>17. ASSUME NEW r \in Requests, RollsBack(r) PROVE NoDangling'
  BY <1>17 DEF RollsBack
<1>18. ASSUME NEW r \in Requests, Commit(r) PROVE NoDangling'
  BY <1>18 DEF Commit
<1>19. ASSUME NEW r \in Requests, CommitFails(r) PROVE NoDangling'
  BY <1>19 DEF CommitFails
<1>20. CASE UNCHANGED vars
  BY <1>20 DEF vars
<1> HIDE DEF IInv, TypeOK, Roles, Step, To
<1> QED BY <1>1, <1>2, <1>3, <1>4, <1>5, <1>6, <1>7, <1>8, <1>9, <1>10, <1>11,
      <1>12, <1>13, <1>14, <1>15, <1>16, <1>17, <1>18, <1>19, <1>20 DEF Next,
      Waits, Runs

\* What is recorded is what the holder of the record has had of the
\* provider.
LEMMA StatusStep ==
  ASSUME IInv, [Next]_vars
  PROVE  StatusIsTrue'
<1> USE UploadAssumption DEF IInv, TypeOK, Roles, StatusIsTrue, Provided,
      UploadLocked, Past, First, Places, Patches, Recorded, Ready, To, Step,
      Done, dbVars, Requests, Files
<1>1. ASSUME NEW r \in Requests, Connect(r) PROVE StatusIsTrue'
  BY <1>1 DEF Connect
<1>2. ASSUME NEW r \in Requests, FakeTx(r) PROVE StatusIsTrue'
  BY <1>2 DEF FakeTx
<1>3. ASSUME NEW r \in Requests, GivesUp(r) PROVE StatusIsTrue'
  BY <1>3 DEF GivesUp
<1>4. ASSUME NEW r \in Requests, FakePatch(r) PROVE StatusIsTrue'
  BY <1>4 DEF FakePatch
<1>5. ASSUME NEW r \in Requests, FakeRollback(r) PROVE StatusIsTrue'
  BY <1>5 DEF FakeRollback
<1>6. ASSUME NEW r \in Requests, FakePatchFails(r) PROVE StatusIsTrue'
  BY <1>6 DEF FakePatchFails
<1>7. ASSUME NEW r \in Requests, ProviderBegin(r) PROVE StatusIsTrue'
  BY <1>7 DEF ProviderBegin
<1>8. ASSUME NEW r \in Requests, FindPending(r) PROVE StatusIsTrue'
  BY <1>8 DEF FindPending
<1>9. ASSUME NEW r \in Requests, ProviderCommit(r) PROVE StatusIsTrue'
  BY <1>9 DEF ProviderCommit
<1>10. ASSUME NEW r \in Requests, ProviderCancel(r) PROVE StatusIsTrue'
  BY <1>10 DEF ProviderCancel
<1>11. ASSUME NEW r \in Requests, ProviderRefuses(r) PROVE StatusIsTrue'
  BY <1>11 DEF ProviderRefuses
<1>12. ASSUME NEW r \in Requests, MarkCancelled(r) PROVE StatusIsTrue'
  BY <1>12 DEF MarkCancelled
<1>13. ASSUME NEW r \in Requests, PatchStatus(r) PROVE StatusIsTrue'
  BY <1>13 DEF PatchStatus
<1>14. ASSUME NEW r \in Requests, PrepareRow(r) PROVE StatusIsTrue'
  BY <1>14 DEF PrepareRow
<1>15. ASSUME NEW r \in Requests, WriteRow(r) PROVE StatusIsTrue'
  BY <1>15 DEF WriteRow
<1>16. ASSUME NEW r \in Requests, Fails(r) PROVE StatusIsTrue'
  BY <1>16 DEF Fails
<1>17. ASSUME NEW r \in Requests, RollsBack(r) PROVE StatusIsTrue'
  BY <1>17 DEF RollsBack
<1>18. ASSUME NEW r \in Requests, Commit(r) PROVE StatusIsTrue'
  BY <1>18 DEF Commit
<1>19. ASSUME NEW r \in Requests, CommitFails(r) PROVE StatusIsTrue'
  BY <1>19 DEF CommitFails
<1>20. CASE UNCHANGED vars
  BY <1>20 DEF vars
<1> HIDE DEF IInv, TypeOK, Roles, Step, To
<1> QED BY <1>1, <1>2, <1>3, <1>4, <1>5, <1>6, <1>7, <1>8, <1>9, <1>10, <1>11,
      <1>12, <1>13, <1>14, <1>15, <1>16, <1>17, <1>18, <1>19, <1>20 DEF Next,
      Waits, Runs

\* A commit that goes on is the only one of its upload.
LEMMA UnsettledStep ==
  ASSUME IInv, [Next]_vars
  PROVE  Unsettled'
<1> USE UploadAssumption DEF IInv, TypeOK, Roles, NoDangling, StatusIsTrue,
      Provided, OneCommit, Unsettled, RowLocked, UploadLocked, NeverFake,
      Past, Active, Shows, First, Places, Patches, Written, Recorded, Ready,
      NewFiles, To, Step, Done, dbVars, Requests, Files
<1>1. ASSUME NEW r \in Requests, Connect(r) PROVE Unsettled'
  BY <1>1 DEF Connect
<1>2. ASSUME NEW r \in Requests, FakeTx(r) PROVE Unsettled'
  BY <1>2 DEF FakeTx
<1>3. ASSUME NEW r \in Requests, GivesUp(r) PROVE Unsettled'
  BY <1>3 DEF GivesUp
<1>4. ASSUME NEW r \in Requests, FakePatch(r) PROVE Unsettled'
  BY <1>4 DEF FakePatch
<1>5. ASSUME NEW r \in Requests, FakeRollback(r) PROVE Unsettled'
  BY <1>5 DEF FakeRollback
<1>6. ASSUME NEW r \in Requests, FakePatchFails(r) PROVE Unsettled'
  BY <1>6 DEF FakePatchFails
<1>7. ASSUME NEW r \in Requests, ProviderBegin(r) PROVE Unsettled'
  BY <1>7 DEF ProviderBegin
<1>8. ASSUME NEW r \in Requests, FindPending(r) PROVE Unsettled'
  BY <1>8 DEF FindPending
<1>9. ASSUME NEW r \in Requests, ProviderCommit(r) PROVE Unsettled'
  BY <1>9 DEF ProviderCommit
<1>10. ASSUME NEW r \in Requests, ProviderCancel(r) PROVE Unsettled'
  BY <1>10 DEF ProviderCancel
<1>11. ASSUME NEW r \in Requests, ProviderRefuses(r) PROVE Unsettled'
  BY <1>11 DEF ProviderRefuses
<1>12. ASSUME NEW r \in Requests, MarkCancelled(r) PROVE Unsettled'
  BY <1>12 DEF MarkCancelled
<1>13. ASSUME NEW r \in Requests, PatchStatus(r) PROVE Unsettled'
  BY <1>13 DEF PatchStatus
<1>14. ASSUME NEW r \in Requests, PrepareRow(r) PROVE Unsettled'
  BY <1>14 DEF PrepareRow
<1>15. ASSUME NEW r \in Requests, WriteRow(r) PROVE Unsettled'
  BY <1>15 DEF WriteRow
<1>16. ASSUME NEW r \in Requests, Fails(r) PROVE Unsettled'
  BY <1>16 DEF Fails
<1>17. ASSUME NEW r \in Requests, RollsBack(r) PROVE Unsettled'
  BY <1>17 DEF RollsBack
<1>18. ASSUME NEW r \in Requests, Commit(r) PROVE Unsettled'
  BY <1>18 DEF Commit
<1>19. ASSUME NEW r \in Requests, CommitFails(r) PROVE Unsettled'
  BY <1>19 DEF CommitFails
<1>20. CASE UNCHANGED vars
  BY <1>20 DEF vars
<1> HIDE DEF IInv, TypeOK, Roles, Step, To
<1> QED BY <1>1, <1>2, <1>3, <1>4, <1>5, <1>6, <1>7, <1>8, <1>9, <1>10, <1>11,
      <1>12, <1>13, <1>14, <1>15, <1>16, <1>17, <1>18, <1>19, <1>20 DEF Next,
      Waits, Runs

\* The connections held are those of the places.
LEMMA TypeStep ==
  ASSUME TypeOK, Roles, RowLocked, [Next]_vars
  PROVE  TypeOK'
<1> USE UploadAssumption DEF TypeOK, Roles, RowLocked, Places, Patches, First,
      Written, Recorded, Ready, NewFiles, Releases, Unlocked, To, Step, Done,
      dbVars, Requests, Files
<1>1. ASSUME NEW r \in Requests, Connect(r) PROVE TypeOK'
  BY <1>1 DEF Connect
<1>2. ASSUME NEW r \in Requests, FakeTx(r) PROVE TypeOK'
  BY <1>2 DEF FakeTx
<1>3. ASSUME NEW r \in Requests, GivesUp(r) PROVE TypeOK'
  BY <1>3 DEF GivesUp
<1>4. ASSUME NEW r \in Requests, FakePatch(r) PROVE TypeOK'
  BY <1>4 DEF FakePatch
<1>5. ASSUME NEW r \in Requests, FakeRollback(r) PROVE TypeOK'
  BY <1>5 DEF FakeRollback
<1>6. ASSUME NEW r \in Requests, FakePatchFails(r) PROVE TypeOK'
  BY <1>6 DEF FakePatchFails
<1>7. ASSUME NEW r \in Requests, ProviderBegin(r) PROVE TypeOK'
  BY <1>7 DEF ProviderBegin
<1>8. ASSUME NEW r \in Requests, FindPending(r) PROVE TypeOK'
  BY <1>8 DEF FindPending
<1>9. ASSUME NEW r \in Requests, ProviderCommit(r) PROVE TypeOK'
  BY <1>9 DEF ProviderCommit
<1>10. ASSUME NEW r \in Requests, ProviderCancel(r) PROVE TypeOK'
  BY <1>10 DEF ProviderCancel
<1>11. ASSUME NEW r \in Requests, ProviderRefuses(r) PROVE TypeOK'
  BY <1>11 DEF ProviderRefuses
<1>12. ASSUME NEW r \in Requests, MarkCancelled(r) PROVE TypeOK'
  BY <1>12 DEF MarkCancelled
<1>13. ASSUME NEW r \in Requests, PatchStatus(r) PROVE TypeOK'
  BY <1>13 DEF PatchStatus
<1>14. ASSUME NEW r \in Requests, PrepareRow(r) PROVE TypeOK'
  BY <1>14 DEF PrepareRow
<1>15. ASSUME NEW r \in Requests, WriteRow(r) PROVE TypeOK'
  BY <1>15 DEF WriteRow
<1>16. ASSUME NEW r \in Requests, Fails(r) PROVE TypeOK'
  BY <1>16 DEF Fails
<1>17. ASSUME NEW r \in Requests, RollsBack(r) PROVE TypeOK'
  BY <1>17 DEF RollsBack
<1>18. ASSUME NEW r \in Requests, Commit(r) PROVE TypeOK'
  BY <1>18 DEF Commit
<1>19. ASSUME NEW r \in Requests, CommitFails(r) PROVE TypeOK'
  BY <1>19 DEF CommitFails
<1>20. CASE UNCHANGED vars
  BY <1>20 DEF vars
<1> HIDE DEF Roles, Step, To
<1> QED BY <1>1, <1>2, <1>3, <1>4, <1>5, <1>6, <1>7, <1>8, <1>9, <1>10, <1>11,
      <1>12, <1>13, <1>14, <1>15, <1>16, <1>17, <1>18, <1>19, <1>20 DEF Next,
      Waits, Runs
-----------------------------------------------------------------------------
LEMMA Invariant == Spec => []IInv
<1>1. IInv /\ [Next]_vars => IInv'
  BY TypeStep, NoDanglingStep, StatusStep, RolesStep, ProvidedStep,
     OneCommitStep, UnsettledStep, RowLockStep, UploadLockStep, NeverFakeStep DEF IInv
<1> QED BY <1>1, Init_IInv, PTL DEF Spec

\* Every reachable state has its type: a request holds the connections that its
\* place says, and none when it is done.
THEOREM UploadTypeCorrect == Spec => []TypeOK
<1>1. IInv => TypeOK
  BY DEF IInv
<1> QED BY <1>1, Invariant, PTL

\* The row never refers to a file that is not stored or is given to be deleted,
\* however many uploads are begun, committed and cancelled beside each other.
THEOREM RowNeverDangles == Spec => []NoDangling
<1>1. IInv => NoDangling
  BY DEF IInv
<1> QED BY <1>1, Invariant, PTL

\* However commits and cancels race, a record says what the provider did.
THEOREM RecordsAreTrue == Spec => []StatusIsTrue
<1>1. IInv => StatusIsTrue
  BY DEF IInv
<1> QED BY <1>1, Invariant, PTL

\* When a commit is about to end, it holds the record of its upload, and the row
\* unless that is gone.
LEMMA EndOfCommit ==
  ASSUME IInv, NEW r \in Commits, Ready(r)
  PROVE  /\ Active(r) /\ uploadLock[Of[r]] = r
         /\ rowLock = r \/ row = Gone
<1>1. at[r] = "patches" /\ todo[r] = {} /\ r \in Requests
  BY UploadAssumption DEF IInv, Roles, Ready, Requests
<1> QED BY <1>1 DEF IInv, RowLocked, UploadLocked, Active, Past

\* An upload is completed together with the row that comes to refer to it, by a
\* transaction whose COMMIT is answered or not.
THEOREM CompletedTogether == Spec => CompletedWithItsRow
<1> DEFINE Together ==
      \A u \in Begins : /\ Completes(u) => row' \in {u, Gone}
                        /\ row # u /\ row' = u => Completes(u)
<1>1. IInv /\ [Next]_vars => Together
  <2> SUFFICES ASSUME IInv, [Next]_vars, NEW u \in Begins
               PROVE  /\ Completes(u) => row' \in {u, Gone}
                      /\ row # u /\ row' = u => Completes(u)
    OBVIOUS
  <2>0. /\ TypeOK /\ Unsettled /\ UploadLocked /\ Roles /\ RowLocked
        /\ u \notin {Null, Gone}
    BY UploadAssumption DEF IInv, Files
  <2>1. ASSUME row' = row, status' = status
        PROVE  /\ Completes(u) => row' \in {u, Gone}
               /\ row # u /\ row' = u => Completes(u)
    BY <2>1 DEF Completes
  <2>2. ASSUME NEW r \in Requests, Ready(r), row' \in Written(r), status' = Recorded(r)
        PROVE  /\ Completes(u) => row' \in {u, Gone}
               /\ row # u /\ row' = u => Completes(u)
    <3>1. CASE r \in Commits
      <4>1. /\ Active(r) /\ uploadLock[Of[r]] = r /\ Of[r] \in Begins
            /\ rowLock = r \/ row = Gone
        BY <2>2, <3>1, EndOfCommit, UploadAssumption
      <4>2. status[Of[r]] # "completed" /\ status'[Of[r]] = "completed"
        BY <2>0, <2>2, <3>1, <4>1, UploadAssumption DEF Unsettled, Recorded
      <4>3. u # Of[r] => status'[u] = "pending" \/ status'[u] = status[u]
        BY <2>0, <2>2, <3>1, UploadAssumption DEF UploadLocked, Recorded, TypeOK
      <4>4. row' = IF rowLock = r THEN Of[r] ELSE row
        BY <2>2, <3>1, UploadAssumption DEF Written
      <4> QED BY <2>0, <4>1, <4>2, <4>3, <4>4 DEF Completes
    <3>2. CASE r \notin Commits
      <4>1. row' \in {row, Null, Gone}
        BY <2>0, <2>2, <3>2, UploadAssumption
           DEF Written, Ready, Roles, RowLocked, Requests
      <4>2. status'[u] # "completed" \/ status'[u] = status[u]
        BY <2>2, <3>2 DEF Recorded
      <4> QED BY <2>0, <4>1, <4>2 DEF Completes
    <3> QED BY <3>1, <3>2
  <2>3. ASSUME NEW r \in Requests, Commit(r) \/ CommitFails(r)
        PROVE  /\ Completes(u) => row' \in {u, Gone}
               /\ row # u /\ row' = u => Completes(u)
    BY <2>1, <2>2, <2>3 DEF Commit, CommitFails
  <2>4. ASSUME NEW r \in Requests,
               \/ Waits(r) \/ FakePatch(r) \/ FakeRollback(r) \/ ProviderBegin(r)
               \/ FindPending(r) \/ MarkCancelled(r) \/ ProviderCommit(r)
               \/ ProviderCancel(r) \/ ProviderRefuses(r) \/ PatchStatus(r)
               \/ PrepareRow(r) \/ WriteRow(r) \/ RollsBack(r)
               \/ FakePatchFails(r) \/ Fails(r)
        PROVE  row' = row /\ status' = status
    BY <2>4 DEF Waits, Connect, FakeTx, GivesUp, FakePatch, FakeRollback,
         ProviderBegin, FindPending, MarkCancelled, ProviderCommit, ProviderCancel,
         ProviderRefuses, PatchStatus, PrepareRow, WriteRow, RollsBack,
         FakePatchFails, Fails, dbVars
  <2>5. CASE UNCHANGED vars
    BY <2>1, <2>5 DEF vars, dbVars
  <2> QED BY <2>1, <2>3, <2>4, <2>5 DEF Next, Runs
<1>2. CompletedWithItsRow <=> [][Together]_vars
  BY DEF CompletedWithItsRow
<1> HIDE DEF Together
<1> QED BY <1>1, <1>2, Invariant, PTL DEF Spec
=============================================================================
