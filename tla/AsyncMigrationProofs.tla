------------------------ MODULE AsyncMigrationProofs ------------------------
(***************************************************************************)
(* Proofs about AsyncMigration, for any number of instances, releases and  *)
(* migrations: the advisory lock has one holder at a time, whatever is     *)
(* lost or crashes, and what the migrator promises of its tables follows   *)
(* from what is read under that lock.                                      *)
(***************************************************************************)
EXTENDS AsyncMigration, TLAPS

Holding(i, k) == At(i, k, {"migrating", "recording"})

\* The lock has one holder: a runner or a process in its setup.
OneHolder ==
  /\ \A i, j \in Instances, k, l \in Keys :
       Holding(i, k) /\ Holding(j, l) => i = j /\ k = l
  /\ \A i, j \in Instances : phase[i] = "setup" /\ phase[j] = "setup" => i = j
  /\ \A i, j \in Instances, k \in Keys : ~(phase[i] = "setup" /\ Holding(j, k))

\* A batch without the lock is one whose connection was lost.
Drift ==
  /\ faults["loss"] <= MaxFaults["loss"]
  /\ \A i \in Instances, k \in Keys : At(i, k, {"adrift"}) => faults["loss"] > 0

\* A setup knows what is executed, and that is all whose sync part was run.
SetupKnows ==
  /\ \A i \in Instances : phase[i] = "setup" => seen[i] = executed
  /\ \A k \in Keys : k \notin executed => synced[k] = 0
  /\ \A k \in Keys : synced[k] <= 1

\* Unless the status was deleted, a runner knows whether it has converged.
RunnerKnows ==
  \A i \in Instances, k \in Keys :
    Holding(i, k) /\ status[k].exists
      => runner[i][k].read.converged = status[k].converged

\* With no client at work a runner knows all of the status but its age.
RunnerKnowsAll ==
  \A i \in Instances, k \in Keys \ Operated :
    Holding(i, k) => /\ status[k].exists
                     /\ runner[i][k].read.exists
                     /\ runner[i][k].read.backing = status[k].backing
                     /\ runner[i][k].read.errors = status[k].errors

IInv == TypeOK /\ OneHolder /\ Drift /\ SetupKnows /\ RunnerKnows /\ RunnerKnowsAll
-----------------------------------------------------------------------------
LEMMA StatusTypes ==
  /\ NoStatus \in Statuses
  /\ FirstStatus \in Statuses
  /\ \A at \in Stages : Runner(at) \in Runners
<1>1. 0 \in 0..(ErrorThreshold - 1) /\ 2 \in Ages
  BY MigrationAssumption DEF Ages
<1>2. NoStatus \in Statuses
  BY <1>1 DEF Statuses, NoStatus
<1>3. FirstStatus \in Statuses
  BY <1>2 DEF Statuses, FirstStatus
<1>4. \A at \in Stages : Runner(at) \in Runners
  BY <1>2 DEF Runner, Runners, Results
<1> QED BY <1>2, <1>3, <1>4

LEMMA RecordedType ==
  ASSUME NEW st \in Statuses, NEW result \in Results
  PROVE  Recorded(st, result) \in Statuses
<1>1. st.errors \in Nat /\ ErrorThreshold \in Nat \ {0}
  BY MigrationAssumption DEF Statuses
<1>2. (st.errors + 1) % ErrorThreshold \in 0..(ErrorThreshold - 1)
  BY <1>1, Z3
<1>3. 0 \in Ages
  BY DEF Ages
<1> QED BY <1>2, <1>3 DEF Recorded, Statuses

LEMMA OlderType == ASSUME NEW age \in Ages PROVE Older(age) \in Ages
BY DEF Older, Ages

LEMMA InitType == Init => TypeOK
<1> SUFFICES ASSUME Init PROVE TypeOK
  OBVIOUS
<1>1. Rows \in Nat /\ 2 \in Ages
  BY MigrationAssumption DEF Ages
<1>2. "none" \in Stages /\ "down" \in Phases
  BY DEF Stages, Phases
<1>3. Runner("none") \in Runners /\ NoStatus \in Statuses
  BY <1>2, StatusTypes
<1> QED BY <1>1, <1>2, <1>3 DEF Init, TypeOK

\* What the fault counters stay.
LEMMA FaultType ==
  ASSUME TypeOK, NEW f \in FaultKinds, Fault(f)
  PROVE  /\ faults' \in [FaultKinds -> Nat]
         /\ faults'[f] <= MaxFaults[f]
         /\ faults'[f] = faults[f] + 1
         /\ \A g \in FaultKinds \ {f} : faults'[g] = faults[g]
<1>1. faults[f] \in Nat /\ MaxFaults[f] \in Nat /\ faults[f] < MaxFaults[f]
  BY MigrationAssumption DEF TypeOK, Fault, May
<1> QED BY <1>1 DEF TypeOK, Fault

\* What a runner becomes when fields of it change.
LEMMA RunnerType ==
  ASSUME TypeOK, NEW i \in Instances, NEW k \in Keys, NEW at \in Stages
  PROVE  /\ [runner[i][k] EXCEPT !.at = at] \in Runners
         /\ \A st \in Statuses :
              [runner[i][k] EXCEPT !.at = at, !.read = st] \in Runners
         /\ \A result \in Results :
              [runner[i][k] EXCEPT !.at = at, !.result = result] \in Runners
<1> DEFINE r == runner[i][k]
<1>1. r \in [at : Stages, read : Statuses, result : Results]
  BY DEF TypeOK, Runners
<1> HIDE DEF r
<1>2. [r EXCEPT !.at = at] \in Runners
  BY <1>1 DEF Runners
<1>3. ASSUME NEW st \in Statuses
      PROVE  [r EXCEPT !.at = at, !.read = st] \in Runners
  BY <1>1 DEF Runners
<1>4. ASSUME NEW result \in Results
      PROVE  [r EXCEPT !.at = at, !.result = result] \in Runners
  BY <1>1 DEF Runners
<1> QED BY <1>2, <1>3, <1>4 DEF r

LEMMA ReportType ==
  ASSUME TypeOK, NEW i \in Instances, NEW k \in Keys, NEW result \in Results,
         Report(i, k, result)
  PROVE  /\ runner' \in [Instances -> [Keys -> Runners]]
         /\ since' \in [Keys -> Ages]
<1>1. Runner("scheduled") \in Runners
  BY StatusTypes DEF Stages
<1>2. [runner[i][k] EXCEPT !.at = "recording", !.result = result] \in Runners
  BY RunnerType DEF Stages
<1>3. 0 \in Ages
  BY DEF Ages
<1> QED BY <1>1, <1>2, <1>3 DEF TypeOK, Report

LEMMA MigratedType ==
  ASSUME TypeOK, NEW k \in Keys PROVE Migrated(k) \in [Keys -> Nat]
<1>1. todo[k] \in Nat
  BY DEF TypeOK
<1>2. (IF todo[k] = 0 THEN 0 ELSE todo[k] - 1) \in Nat
  BY <1>1
<1> QED BY <1>2 DEF TypeOK, Migrated

LEMMA NextType == TypeOK /\ [Next]_vars => TypeOK'
<1> SUFFICES ASSUME TypeOK, [Next]_vars PROVE TypeOK'
  OBVIOUS
<1> USE DEF TypeOK
<1>1. ASSUME NEW i \in Instances, Boot(i) PROVE TypeOK'
  BY <1>1 DEF Boot, Phases, tables
<1>2. ASSUME NEW i \in Instances, Lock(i) PROVE TypeOK'
  BY <1>2 DEF Lock, Phases, tables
<1>3. ASSUME NEW i \in Instances, SetUp(i) PROVE TypeOK'
  <2>1. Finalizes[i] \subseteq Keys
    BY MigrationAssumption
  <2>2. executed' \in SUBSET Keys
    BY <1>3, <2>1 DEF SetUp
  <2>3. todo' \in [Keys -> Nat] /\ synced' \in [Keys -> Nat]
    BY <1>3 DEF SetUp
  <2>4. status' \in [Keys -> Statuses]
    BY <1>3, StatusTypes DEF SetUp
  <2>5. Runner("scheduled") \in Runners /\ Runner("none") \in Runners
    BY StatusTypes DEF Stages
  <2>6. runner' \in [Instances -> [Keys -> Runners]]
    BY <1>3, <2>5 DEF SetUp
  <2>7. /\ phase' \in [Instances -> Phases] /\ seen' \in [Instances -> SUBSET Keys]
        /\ UNCHANGED <<enabled, since, faults>>
    BY <1>3 DEF SetUp, Phases
  <2> QED BY <2>2, <2>3, <2>4, <2>6, <2>7
<1>4. ASSUME NEW i \in Instances, Crash(i) PROVE TypeOK'
  <2>1. Runner("none") \in Runners
    BY StatusTypes DEF Stages
  <2>2. faults' \in [FaultKinds -> Nat]
    BY <1>4, FaultType DEF Crash, FaultKinds
  <2> QED BY <1>4, <2>1, <2>2 DEF Crash, Phases, tables
<1>5. ASSUME NEW i \in Instances, Toggle(i) PROVE TypeOK'
  BY <1>5 DEF Toggle, tables
<1>6. ASSUME NEW i \in Instances, NEW k \in Keys, Stop(i, k) PROVE TypeOK'
  <2>1. Runner("stopped") \in Runners
    BY StatusTypes DEF Stages
  <2> QED BY <1>6, <2>1 DEF Stop, tables, processVars
<1>7. ASSUME NEW i \in Instances, NEW k \in Keys, Begin(i, k) PROVE TypeOK'
  <2>1. [runner[i][k] EXCEPT !.at = "migrating", !.read = status[k]] \in Runners
    BY RunnerType DEF Stages
  <2> QED BY <1>7, <2>1 DEF Begin, tables, processVars
<1>8. ASSUME NEW i \in Instances, NEW k \in Keys, BatchCommits(i, k) PROVE TypeOK'
  <2>1. PICK result \in Results : Report(i, k, result)
    BY <1>8 DEF BatchCommits, Results
  <2> QED BY <1>8, <2>1, ReportType, MigratedType
          DEF BatchCommits, tables, processVars
<1>9. ASSUME NEW i \in Instances, NEW k \in Keys, BatchFails(i, k) PROVE TypeOK'
  <2>1. "error" \in Results /\ Report(i, k, "error")
    BY <1>9 DEF BatchFails, Results
  <2>2. faults' \in [FaultKinds -> Nat]
    BY <1>9, FaultType DEF BatchFails, FaultKinds
  <2> QED BY <1>9, <2>1, <2>2, ReportType, MigratedType
          DEF BatchFails, tables, processVars
<1>10. ASSUME NEW i \in Instances, NEW k \in Keys, Record(i, k) PROVE TypeOK'
  <2>1. Runner("scheduled") \in Runners
    BY StatusTypes DEF Stages
  <2>2. Recorded(runner[i][k].read, runner[i][k].result) \in Statuses
    BY RecordedType DEF Runners
  <2> QED BY <1>10, <2>1, <2>2 DEF Record, processVars
<1>11. ASSUME NEW i \in Instances, NEW k \in Keys, LoseLock(i, k) PROVE TypeOK'
  <2>1. Runner("scheduled") \in Runners
    BY StatusTypes DEF Stages
  <2>2. [runner[i][k] EXCEPT !.at = "adrift"] \in Runners
    BY RunnerType DEF Stages
  <2>3. faults' \in [FaultKinds -> Nat]
    BY <1>11, FaultType DEF LoseLock, FaultKinds
  <2> QED BY <1>11, <2>1, <2>2, <2>3 DEF LoseLock, tables, processVars
<1>12. ASSUME NEW k \in Keys, Operate(k) PROVE TypeOK'
  <2>1. status' \in [Keys -> Statuses]
    <3>1. ASSUME NEW n \in 0..(ErrorThreshold - 1),
                 status' = [status EXCEPT ![k].errors = n]
          PROVE  status' \in [Keys -> Statuses]
      BY <3>1 DEF Statuses
    <3>2. ASSUME status' = [status EXCEPT ![k] = NoStatus]
          PROVE  status' \in [Keys -> Statuses]
      BY <3>2, StatusTypes
    <3> QED BY <1>12, <3>1, <3>2 DEF Operate
  <2> QED BY <1>12, <2>1 DEF Operate, processVars
<1>13. ASSUME NEW k \in Keys, NewRow(k) PROVE TypeOK'
  <2>1. faults' \in [FaultKinds -> Nat]
    BY <1>13, FaultType DEF NewRow, FaultKinds
  <2>2. todo' \in [Keys -> Nat]
    BY <1>13 DEF NewRow
  <2> QED BY <1>13, <2>1, <2>2 DEF NewRow, tables, processVars
<1>14. ASSUME NEW k \in Keys, TimePasses(k) PROVE TypeOK'
  <2>1. Older(since[k]) \in Ages /\ Older(status[k].age) \in Ages
    BY OlderType DEF Statuses
  <2>2. status' \in [Keys -> Statuses]
    BY <1>14, <2>1 DEF TimePasses, Statuses
  <2>3. since' \in [Keys -> Ages]
    BY <1>14, <2>1 DEF TimePasses
  <2> QED BY <1>14, <2>2, <2>3 DEF TimePasses, processVars
<1>15. CASE UNCHANGED vars
  BY <1>15 DEF vars, processVars, tables
<1> QED BY <1>1, <1>2, <1>3, <1>4, <1>5, <1>6, <1>7, <1>8, <1>9, <1>10, <1>11,
           <1>12, <1>13, <1>14, <1>15 DEF Next, Batch
-----------------------------------------------------------------------------
\* Nobody new holds the lock.
Shrinks == /\ \A j \in Instances, l \in Keys : Holding(j, l)' => Holding(j, l)
           /\ \A j \in Instances : phase'[j] = "setup" => phase[j] = "setup"

LEMMA Shrinking == OneHolder /\ Shrinks => OneHolder'
BY DEF OneHolder, Shrinks

LEMMA FreeMeansNobody ==
  Free => /\ \A j \in Instances, l \in Keys : ~Holding(j, l)
          /\ \A j \in Instances : phase[j] # "setup"
BY DEF Free, Holding

\* A batch that ends leaves the lock to the runner that has it.
LEMMA ReportKeepsLock ==
  ASSUME TypeOK, NEW i \in Instances, NEW k \in Keys, NEW result \in Results,
         Report(i, k, result)
  PROVE  /\ \A j \in Instances, l \in Keys : Holding(j, l)' => Holding(j, l)
         /\ \A j \in Instances, l \in Keys :
              At(j, l, {"adrift"})' => At(j, l, {"adrift"})
         /\ \A j \in Instances, l \in Keys :
              Holding(j, l)' => runner'[j][l].read = runner[j][l].read
<1> DEFINE after == IF runner[i][k].at = "adrift" THEN Runner("scheduled")
                    ELSE [runner[i][k] EXCEPT !.at = "recording", !.result = result]
<1>1. runner' = [runner EXCEPT ![i][k] = after]
  BY DEF Report
<1>2. /\ after.at \in {"scheduled", "recording"}
      /\ after.at = "recording" => /\ runner[i][k].at = "migrating"
                                   /\ after.read = runner[i][k].read
  BY DEF Report, At, Runner, TypeOK, Runners
<1> HIDE DEF after
<1>3. /\ runner'[i][k] = after
      /\ \A j \in Instances, l \in Keys :
           <<j, l>> # <<i, k>> => runner'[j][l] = runner[j][l]
  BY <1>1 DEF TypeOK
<1> QED BY <1>2, <1>3 DEF Holding, At

\* The stage of a single runner changes.
LEMMA OneRunner ==
  ASSUME TypeOK, NEW i \in Instances, NEW k \in Keys, NEW r,
         runner' = [runner EXCEPT ![i][k] = r]
  PROVE  /\ runner'[i][k] = r
         /\ \A j \in Instances, l \in Keys :
              <<j, l>> # <<i, k>> => runner'[j][l] = runner[j][l]
BY DEF TypeOK

LEMMA BeginReads ==
  ASSUME TypeOK, NEW i \in Instances, NEW k \in Keys, Begin(i, k)
  PROVE  /\ runner'[i][k].at = "migrating"
         /\ runner'[i][k].read = status[k]
         /\ \A j \in Instances, l \in Keys :
              <<j, l>> # <<i, k>> => runner'[j][l] = runner[j][l]
<1>1. runner[i][k] \in [at : Stages, read : Statuses, result : Results]
  BY DEF TypeOK, Runners
<1> DEFINE r == [runner[i][k] EXCEPT !.at = "migrating", !.read = status[k]]
<1>2. r.at = "migrating" /\ r.read = status[k]
  BY <1>1
<1>3. runner' = [runner EXCEPT ![i][k] = r]
  BY DEF Begin
<1> HIDE DEF r
<1>4. /\ runner'[i][k] = r
      /\ \A j \in Instances, l \in Keys :
           <<j, l>> # <<i, k>> => runner'[j][l] = runner[j][l]
  BY <1>3 DEF TypeOK
<1> QED BY <1>2, <1>4

LEMMA LoseLockReleases ==
  ASSUME TypeOK, NEW i \in Instances, NEW k \in Keys, LoseLock(i, k)
  PROVE  /\ runner'[i][k].at \in {"adrift", "scheduled"}
         /\ \A j \in Instances, l \in Keys :
              <<j, l>> # <<i, k>> => runner'[j][l] = runner[j][l]
<1>1. runner[i][k] \in [at : Stages, read : Statuses, result : Results]
  BY DEF TypeOK, Runners
<1> DEFINE r == IF runner[i][k].at = "migrating"
                THEN [runner[i][k] EXCEPT !.at = "adrift"]
                ELSE Runner("scheduled")
<1>2. r.at \in {"adrift", "scheduled"}
  BY <1>1 DEF Runner
<1>3. runner' = [runner EXCEPT ![i][k] = r]
  BY DEF LoseLock
<1> HIDE DEF r
<1>4. /\ runner'[i][k] = r
      /\ \A j \in Instances, l \in Keys :
           <<j, l>> # <<i, k>> => runner'[j][l] = runner[j][l]
  BY <1>3 DEF TypeOK
<1> QED BY <1>2, <1>4

LEMMA InitInv == Init => IInv
<1> SUFFICES ASSUME Init PROVE IInv
  OBVIOUS
<1>1. TypeOK
  BY InitType
<1>2. \A i \in Instances, k \in Keys : runner[i][k].at = "none"
  BY DEF Init, Runner
<1>3. OneHolder /\ RunnerKnows /\ RunnerKnowsAll
  BY <1>2 DEF Init, OneHolder, RunnerKnows, RunnerKnowsAll, Holding, At
<1>4. MaxFaults["loss"] \in Nat /\ faults["loss"] = 0
  BY MigrationAssumption DEF Init, FaultKinds
<1>5. Drift
  BY <1>2, <1>4 DEF Drift, At
<1>6. SetupKnows
  BY DEF Init, SetupKnows
<1> QED BY <1>1, <1>3, <1>5, <1>6 DEF IInv

LEMMA NextHolder == TypeOK /\ OneHolder /\ [Next]_vars => OneHolder'
<1> SUFFICES ASSUME TypeOK, OneHolder, [Next]_vars PROVE OneHolder'
  OBVIOUS
<1> USE DEF Holding, At
<1>1. ASSUME NEW i \in Instances, Boot(i) PROVE Shrinks
  BY <1>1 DEF Boot, Shrinks, TypeOK
<1>2. ASSUME NEW i \in Instances, Lock(i) PROVE OneHolder'
  BY <1>2, FreeMeansNobody DEF Lock, OneHolder, TypeOK
<1>3. ASSUME NEW i \in Instances, SetUp(i) PROVE Shrinks
  <2>1. \A l \in Keys : runner'[i][l].at \in {"scheduled", "none"}
    BY <1>3 DEF SetUp, Runner, TypeOK
  <2>2. \A j \in Instances, l \in Keys : j # i => runner'[j][l] = runner[j][l]
    BY <1>3 DEF SetUp, TypeOK
  <2>3. \A j \in Instances : phase'[j] = "setup" => phase[j] = "setup"
    BY <1>3 DEF SetUp, TypeOK
  <2> QED BY <2>1, <2>2, <2>3 DEF Shrinks
<1>4. ASSUME NEW i \in Instances, Crash(i) PROVE Shrinks
  <2>1. \A l \in Keys : runner'[i][l].at = "none"
    BY <1>4 DEF Crash, Runner, TypeOK
  <2>2. \A j \in Instances, l \in Keys : j # i => runner'[j][l] = runner[j][l]
    BY <1>4 DEF Crash, TypeOK
  <2>3. \A j \in Instances : phase'[j] = "setup" => phase[j] = "setup"
    BY <1>4 DEF Crash, TypeOK
  <2> QED BY <2>1, <2>2, <2>3 DEF Shrinks
<1>5. ASSUME NEW i \in Instances, Toggle(i) PROVE Shrinks
  BY <1>5 DEF Toggle, Shrinks
<1>6. ASSUME NEW i \in Instances, NEW k \in Keys, Stop(i, k) PROVE Shrinks
  <2>1. Runner("stopped").at = "stopped"
    BY DEF Runner
  <2> QED BY <1>6, <2>1, OneRunner DEF Stop, Shrinks, processVars
<1>7. ASSUME NEW i \in Instances, NEW k \in Keys, Begin(i, k) PROVE OneHolder'
  <2>1. /\ runner'[i][k].at = "migrating"
        /\ \A j \in Instances, l \in Keys :
             <<j, l>> # <<i, k>> => runner'[j][l] = runner[j][l]
    BY <1>7, BeginReads
  <2>2. Free /\ phase' = phase
    BY <1>7 DEF Begin, CanTryLock, processVars
  <2> QED BY <2>1, <2>2, FreeMeansNobody DEF OneHolder
<1>8. ASSUME NEW i \in Instances, NEW k \in Keys, Batch(i, k) PROVE Shrinks
  <2>1. PICK result \in Results : Report(i, k, result)
    BY <1>8 DEF Batch, BatchCommits, BatchFails, Results
  <2>2. phase' = phase
    BY <1>8 DEF Batch, BatchCommits, BatchFails, processVars
  <2> QED BY <2>1, <2>2, ReportKeepsLock DEF Shrinks
<1>9. ASSUME NEW i \in Instances, NEW k \in Keys, Record(i, k) PROVE Shrinks
  <2>1. Runner("scheduled").at = "scheduled"
    BY DEF Runner
  <2> QED BY <1>9, <2>1, OneRunner DEF Record, Shrinks, processVars
<1>10. ASSUME NEW i \in Instances, NEW k \in Keys, LoseLock(i, k) PROVE Shrinks
  <2>1. /\ runner'[i][k].at \in {"adrift", "scheduled"}
        /\ \A j \in Instances, l \in Keys :
             <<j, l>> # <<i, k>> => runner'[j][l] = runner[j][l]
    BY <1>10, LoseLockReleases
  <2>2. phase' = phase
    BY <1>10 DEF LoseLock, processVars
  <2> QED BY <2>1, <2>2 DEF Shrinks
<1>11. ASSUME NEW k \in Keys, Operate(k) \/ NewRow(k) \/ TimePasses(k) PROVE Shrinks
  BY <1>11 DEF Operate, NewRow, TimePasses, Shrinks, processVars
<1>12. CASE UNCHANGED vars
  BY <1>12 DEF vars, processVars, OneHolder
<1> QED BY <1>1, <1>2, <1>3, <1>4, <1>5, <1>6, <1>7, <1>8, <1>9, <1>10, <1>11,
           <1>12, Shrinking DEF Next

LEMMA NextDrift == TypeOK /\ Drift /\ [Next]_vars => Drift'
<1> SUFFICES ASSUME TypeOK, Drift, [Next]_vars PROVE Drift'
  OBVIOUS
<1> USE DEF At
<1>1. "loss" \in FaultKinds /\ MaxFaults["loss"] \in Nat /\ faults["loss"] \in Nat
  BY MigrationAssumption DEF FaultKinds, TypeOK
<1> DEFINE Same == faults'["loss"] = faults["loss"]
           NoMore == \A j \in Instances, l \in Keys :
                       At(j, l, {"adrift"})' => At(j, l, {"adrift"})
<1>2. ASSUME Same, NoMore PROVE Drift'
  BY <1>2 DEF Drift
<1>3. ASSUME NEW i \in Instances, Boot(i) \/ Lock(i) \/ Toggle(i) PROVE Same /\ NoMore
  BY <1>3 DEF Boot, Lock, Toggle
<1>4. ASSUME NEW i \in Instances, SetUp(i) PROVE Same /\ NoMore
  <2>1. \A l \in Keys : runner'[i][l].at \in {"scheduled", "none"}
    BY <1>4 DEF SetUp, Runner, TypeOK
  <2>2. \A j \in Instances, l \in Keys : j # i => runner'[j][l] = runner[j][l]
    BY <1>4 DEF SetUp, TypeOK
  <2> QED BY <1>4, <2>1, <2>2 DEF SetUp
<1>5. ASSUME NEW i \in Instances, Crash(i) PROVE Same /\ NoMore
  <2>1. \A l \in Keys : runner'[i][l].at = "none"
    BY <1>5 DEF Crash, Runner, TypeOK
  <2>2. \A j \in Instances, l \in Keys : j # i => runner'[j][l] = runner[j][l]
    BY <1>5 DEF Crash, TypeOK
  <2>3. Same
    BY <1>5, FaultType DEF Crash, FaultKinds
  <2> QED BY <2>1, <2>2, <2>3
<1>6. ASSUME NEW i \in Instances, NEW k \in Keys, Stop(i, k) PROVE Same /\ NoMore
  <2>1. Runner("stopped").at = "stopped"
    BY DEF Runner
  <2> QED BY <1>6, <2>1, OneRunner DEF Stop
<1>7. ASSUME NEW i \in Instances, NEW k \in Keys, Begin(i, k) PROVE Same /\ NoMore
  <2>1. /\ runner'[i][k].at = "migrating"
        /\ \A j \in Instances, l \in Keys :
             <<j, l>> # <<i, k>> => runner'[j][l] = runner[j][l]
    BY <1>7, BeginReads
  <2>2. Same
    BY <1>7 DEF Begin
  <2> QED BY <2>1, <2>2
<1>8. ASSUME NEW i \in Instances, NEW k \in Keys, Batch(i, k) PROVE Same /\ NoMore
  <2>1. PICK result \in Results : Report(i, k, result)
    BY <1>8 DEF Batch, BatchCommits, BatchFails, Results
  <2>2. NoMore
    BY <2>1, ReportKeepsLock
  <2>3. Same
    BY <1>8, FaultType DEF Batch, BatchCommits, BatchFails, FaultKinds
  <2> QED BY <2>2, <2>3
<1>9. ASSUME NEW i \in Instances, NEW k \in Keys, Record(i, k) PROVE Same /\ NoMore
  <2>1. Runner("scheduled").at = "scheduled"
    BY DEF Runner
  <2> QED BY <1>9, <2>1, OneRunner DEF Record
<1>10. ASSUME NEW i \in Instances, NEW k \in Keys, LoseLock(i, k) PROVE Drift'
  <2>1. /\ faults'["loss"] <= MaxFaults["loss"]
        /\ faults'["loss"] = faults["loss"] + 1
    BY <1>10, FaultType DEF LoseLock, FaultKinds
  <2>2. faults'["loss"] > 0
    BY <2>1, <1>1
  <2> QED BY <2>1, <2>2 DEF Drift
<1>11. ASSUME NEW k \in Keys, Operate(k) \/ NewRow(k) \/ TimePasses(k)
       PROVE  Same /\ NoMore
  <2>1. Same
    BY <1>11, FaultType DEF Operate, NewRow, TimePasses, FaultKinds
  <2> QED BY <1>11, <2>1 DEF Operate, NewRow, TimePasses
<1>12. CASE UNCHANGED vars
  BY <1>12 DEF vars, Drift
<1> QED BY <1>2, <1>3, <1>4, <1>5, <1>6, <1>7, <1>8, <1>9, <1>10, <1>11, <1>12
        DEF Next

LEMMA NextSetup == TypeOK /\ OneHolder /\ SetupKnows /\ [Next]_vars => SetupKnows'
<1> SUFFICES ASSUME TypeOK, OneHolder, SetupKnows, [Next]_vars PROVE SetupKnows'
  OBVIOUS
<1> USE DEF SetupKnows
<1>1. ASSUME NEW i \in Instances, Boot(i) PROVE SetupKnows'
  BY <1>1 DEF Boot, TypeOK, tables
<1>2. ASSUME NEW i \in Instances, Lock(i) PROVE SetupKnows'
  BY <1>2 DEF Lock, TypeOK, tables
<1>3. ASSUME NEW i \in Instances, SetUp(i) PROVE SetupKnows'
  <2>1. seen[i] = executed
    BY <1>3 DEF SetUp
  <2>2. executed' = executed \cup Finalizes[i]
    BY <1>3, <2>1 DEF SetUp
  <2>3. \A k \in Keys : synced'[k] = IF k \in Finalizes[i] \ executed
                                     THEN synced[k] + 1 ELSE synced[k]
    BY <1>3, <2>1 DEF SetUp
  <2>4. \A k \in Keys : k \notin executed' => synced'[k] = 0
    BY <2>2, <2>3
  <2>5. \A k \in Keys : synced'[k] <= 1
    BY <2>3 DEF TypeOK
  <2>6. \A j \in Instances : phase'[j] # "setup"
    BY <1>3 DEF SetUp, OneHolder, TypeOK
  <2> QED BY <2>4, <2>5, <2>6
<1>4. ASSUME NEW i \in Instances, Crash(i) PROVE SetupKnows'
  BY <1>4 DEF Crash, TypeOK, tables
<1>5. ASSUME UNCHANGED <<phase, seen, executed, synced>> PROVE SetupKnows'
  BY <1>5
<1>6. ASSUME NEW i \in Instances, NEW k \in Keys,
             \/ Stop(i, k) \/ Begin(i, k) \/ Batch(i, k) \/ Record(i, k) \/ LoseLock(i, k)
      PROVE  UNCHANGED <<phase, seen, executed, synced>>
  BY <1>6 DEF Stop, Begin, Batch, BatchCommits, BatchFails, Record, LoseLock,
              processVars, tables
<1>7. ASSUME NEW k \in Keys, Operate(k) \/ NewRow(k) \/ TimePasses(k)
      PROVE  UNCHANGED <<phase, seen, executed, synced>>
  BY <1>7 DEF Operate, NewRow, TimePasses, processVars, tables
<1>8. ASSUME NEW i \in Instances, Toggle(i)
      PROVE  UNCHANGED <<phase, seen, executed, synced>>
  BY <1>8 DEF Toggle, tables
<1>9. CASE UNCHANGED vars
  BY <1>5, <1>9 DEF vars, processVars, tables
<1> QED BY <1>1, <1>2, <1>3, <1>4, <1>5, <1>6, <1>7, <1>8, <1>9 DEF Next

\* What holds of the status and of what a runner with the lock has read of it.
Agree(i, k) ==
  /\ status[k].exists => runner[i][k].read.converged = status[k].converged
  /\ k \notin Operated => /\ status[k].exists
                          /\ runner[i][k].read.exists
                          /\ runner[i][k].read.backing = status[k].backing
                          /\ runner[i][k].read.errors = status[k].errors

LEMMA Knowing ==
  RunnerKnows /\ RunnerKnowsAll
    <=> \A i \in Instances, k \in Keys : Holding(i, k) => Agree(i, k)
BY DEF RunnerKnows, RunnerKnowsAll, Agree

LEMMA NextKnows ==
  TypeOK /\ OneHolder /\ RunnerKnows /\ RunnerKnowsAll /\ [Next]_vars
    => RunnerKnows' /\ RunnerKnowsAll'
<1> SUFFICES ASSUME TypeOK, OneHolder, RunnerKnows, RunnerKnowsAll, [Next]_vars,
                    NEW j \in Instances, NEW l \in Keys, Holding(j, l)'
             PROVE  Agree(j, l)'
  BY DEF RunnerKnows, RunnerKnowsAll, Agree
<1>0. Holding(j, l) => Agree(j, l)
  BY Knowing
<1> DEFINE SameRunner == runner'[j][l] = runner[j][l]
           SameStatus == status'[l] = status[l]
<1>1. ASSUME SameRunner, SameStatus PROVE Agree(j, l)'
  <2>1. Holding(j, l)
    BY <1>1 DEF Holding, At
  <2> QED BY <1>0, <1>1, <2>1 DEF Agree
<1>2. ASSUME NEW i \in Instances, Boot(i) \/ Lock(i) \/ Toggle(i)
      PROVE  SameRunner /\ SameStatus
  BY <1>2 DEF Boot, Lock, Toggle, tables
<1>3. ASSUME NEW i \in Instances, SetUp(i) PROVE FALSE
  <2>1. \A m \in Keys : runner'[i][m].at \in {"scheduled", "none"}
    BY <1>3 DEF SetUp, Runner, TypeOK
  <2>2. j # i
    BY <2>1 DEF Holding, At
  <2>3. runner'[j][l] = runner[j][l]
    BY <1>3, <2>2 DEF SetUp, TypeOK
  <2>4. Holding(j, l) /\ phase[i] = "setup"
    BY <1>3, <2>3 DEF Holding, At, SetUp
  <2> QED BY <2>4 DEF OneHolder
<1>4. ASSUME NEW i \in Instances, Crash(i) PROVE SameRunner /\ SameStatus
  <2>1. \A m \in Keys : runner'[i][m].at = "none"
    BY <1>4 DEF Crash, Runner, TypeOK
  <2>2. j # i
    BY <2>1 DEF Holding, At
  <2> QED BY <1>4, <2>2 DEF Crash, TypeOK, tables
<1>5. ASSUME NEW i \in Instances, NEW k \in Keys, Stop(i, k)
      PROVE  SameRunner /\ SameStatus
  <2>1. Runner("stopped").at = "stopped"
    BY DEF Runner
  <2>2. <<j, l>> # <<i, k>>
    BY <1>5, <2>1 DEF Stop, TypeOK, Holding, At
  <2> QED BY <1>5, <2>2 DEF Stop, TypeOK, tables
<1>6. ASSUME NEW i \in Instances, NEW k \in Keys, Begin(i, k) PROVE Agree(j, l)'
  <2>1. /\ runner'[i][k].at = "migrating"
        /\ runner'[i][k].read = status[k]
        /\ \A m \in Instances, n \in Keys :
             <<m, n>> # <<i, k>> => runner'[m][n] = runner[m][n]
    BY <1>6, BeginReads
  <2>2. Free /\ status' = status /\ status[k].exists
    BY <1>6 DEF Begin, CanTryLock, tables
  <2>3. ~Holding(j, l)
    BY <2>2, FreeMeansNobody
  <2>4. j = i /\ l = k
    BY <2>1, <2>3 DEF Holding, At
  <2> QED BY <2>1, <2>2, <2>4 DEF Agree
<1>7. ASSUME NEW i \in Instances, NEW k \in Keys, Batch(i, k) PROVE Agree(j, l)'
  <2>1. PICK result \in Results : Report(i, k, result)
    BY <1>7 DEF Batch, BatchCommits, BatchFails, Results
  <2>2. status' = status
    BY <1>7 DEF Batch, BatchCommits, BatchFails, tables
  <2>3. Holding(j, l) /\ runner'[j][l].read = runner[j][l].read
    BY <2>1, ReportKeepsLock
  <2> QED BY <1>0, <2>2, <2>3 DEF Agree
<1>8. ASSUME NEW i \in Instances, NEW k \in Keys, Record(i, k)
      PROVE  SameRunner /\ SameStatus
  <2>1. Runner("scheduled").at = "scheduled"
    BY DEF Runner
  <2>2. <<j, l>> # <<i, k>>
    BY <1>8, <2>1 DEF Record, TypeOK, Holding, At
  <2>3. SameRunner
    BY <1>8, <2>2 DEF Record, TypeOK
  <2>4. Holding(j, l) /\ Holding(i, k)
    BY <1>8, <2>3 DEF Record, Holding, At
  <2>5. FALSE
    BY <2>2, <2>4 DEF OneHolder
  <2> QED BY <2>5
<1>9. ASSUME NEW i \in Instances, NEW k \in Keys, LoseLock(i, k)
      PROVE  SameRunner /\ SameStatus
  <2>1. /\ runner'[i][k].at \in {"adrift", "scheduled"}
        /\ \A m \in Instances, n \in Keys :
             <<m, n>> # <<i, k>> => runner'[m][n] = runner[m][n]
    BY <1>9, LoseLockReleases
  <2>2. <<j, l>> # <<i, k>>
    BY <2>1 DEF Holding, At
  <2> QED BY <1>9, <2>1, <2>2 DEF LoseLock, tables
<1>10. ASSUME NEW k \in Keys, Operate(k) PROVE Agree(j, l)'
  <2>1. runner' = runner /\ k \in Operated /\ (l # k => status'[l] = status[l])
    BY <1>10 DEF Operate, TypeOK
  <2>2. status'[l].exists => /\ status[l].exists
                             /\ status'[l].converged = status[l].converged
    <3>1. CASE status'[l] = status[l]
      BY <3>1
    <3>2. CASE l = k
      BY <1>10, <3>2 DEF Operate, TypeOK, Statuses, NoStatus
    <3> QED BY <1>10, <3>1, <3>2 DEF Operate, TypeOK
  <2>3. Holding(j, l)
    BY <2>1 DEF Holding, At
  <2> QED BY <1>0, <2>1, <2>2, <2>3 DEF Agree
<1>11. ASSUME NEW k \in Keys, NewRow(k) PROVE SameRunner /\ SameStatus
  BY <1>11 DEF NewRow, tables
<1>12. ASSUME NEW k \in Keys, TimePasses(k) PROVE Agree(j, l)'
  <2>1. runner' = runner
    BY <1>12 DEF TimePasses
  <2>2. /\ status'[l].exists = status[l].exists
        /\ status'[l].converged = status[l].converged
        /\ status'[l].backing = status[l].backing
        /\ status'[l].errors = status[l].errors
    BY <1>12 DEF TimePasses, TypeOK, Statuses
  <2>3. Holding(j, l)
    BY <2>1 DEF Holding, At
  <2> QED BY <1>0, <2>1, <2>2, <2>3 DEF Agree
<1>13. CASE UNCHANGED vars
  BY <1>1, <1>13 DEF vars, tables
<1> QED BY <1>1, <1>2, <1>3, <1>4, <1>5, <1>6, <1>7, <1>8, <1>9, <1>10, <1>11,
           <1>12, <1>13 DEF Next
-----------------------------------------------------------------------------
\* The invariant the theorems rest on.
LEMMA Invariant == Spec => []IInv
<1>1. Init => IInv
  BY InitInv
<1>2. IInv /\ [Next]_vars => IInv'
  BY NextType, NextHolder, NextDrift, NextSetup, NextKnows DEF IInv
<1> QED BY <1>1, <1>2, PTL DEF Spec

\* The tables and the runners only ever have the values they should.
THEOREM TypeCorrect == Spec => []TypeOK
<1>1. IInv => TypeOK
  BY DEF IInv
<1> QED BY <1>1, Invariant, PTL

\* However many instances start, crash and start again, the sync part of a
\* migration is run once (executeMigrations under the blocking lock).
THEOREM SyncRunsOnce == Spec => []SyncOnce
<1>1. IInv => SyncOnce
  BY DEF IInv, SetupKnows, SyncOnce
<1> QED BY <1>1, Invariant, PTL

\* Unless a management connection was lost, batches of all the migrations and
\* instances are executed one at a time.
THEOREM OneBatchAtATime == Spec => []OneBatch
<1>1. IInv => OneBatch
  <2> SUFFICES ASSUME IInv, faults["loss"] = 0 PROVE BatchesAlone
    BY DEF OneBatch
  <2>2. \A i \in Instances, k \in Keys : ~At(i, k, {"adrift"})
    BY DEF IInv, Drift
  <2>3. \A p \in Migrating : /\ p \in Instances \X Keys
                             /\ Holding(p[1], p[2])
    BY <2>2 DEF Migrating, Holding, At
  <2>4. OneHolder
    BY DEF IInv
  <2>5. \A p, q \in Migrating : p = q
    BY <2>3, <2>4 DEF OneHolder
  <2>6. \A i, j \in SettingUp : i = j
    BY <2>4 DEF OneHolder, SettingUp
  <2>7. Migrating = {} \/ SettingUp = {}
    BY <2>3, <2>4 DEF OneHolder, SettingUp
  <2> QED BY <2>5, <2>6, <2>7 DEF BatchesAlone
<1> QED BY <1>1, Invariant, PTL

\* Recorded makes the same of two statuses that differ in their age only.
LEMMA RecordedAgain ==
  ASSUME NEW r \in Statuses, NEW st \in Statuses, NEW result \in Results,
         r.exists = st.exists, r.backing = st.backing,
         r.converged = st.converged, r.errors = st.errors
  PROVE  Recorded(r, result) = Recorded(st, result)
<1> DEFINE e == (st.errors + 1) % ErrorThreshold
<1>1. r = [exists |-> r.exists, backing |-> r.backing, converged |-> r.converged,
           errors |-> r.errors, age |-> r.age]
  BY DEF Statuses
<1>2. st = [exists |-> st.exists, backing |-> st.backing,
            converged |-> st.converged, errors |-> st.errors, age |-> st.age]
  BY DEF Statuses
<1>3. CASE result = "error"
  BY <1>1, <1>2, <1>3 DEF Recorded
<1>4. CASE result # "error"
  BY <1>1, <1>2, <1>4 DEF Recorded
<1> QED BY <1>3, <1>4

\* Whatever crashes or is deleted, converged_time is set for good: a runner
\* never writes back a status from before the migration had converged.
THEOREM ConvergesOnce == Spec => ConvergedOnce
<1> DEFINE Kept == \A k \in Keys :
                     status[k].exists /\ status[k].converged /\ status'[k].exists
                       => status'[k].converged
<1>1. IInv /\ [Next]_vars => Kept
  <2> SUFFICES ASSUME IInv, [Next]_vars, NEW l \in Keys,
                      status[l].exists, status[l].converged, status'[l].exists
               PROVE  status'[l].converged
    OBVIOUS
  <2>0. TypeOK /\ RunnerKnows
    BY DEF IInv
  <2>1. ASSUME status'[l] = status[l] PROVE status'[l].converged
    BY <2>1
  <2>2. ASSUME NEW i \in Instances, Boot(i) \/ Lock(i) \/ Crash(i) \/ Toggle(i)
        PROVE  status' = status
    BY <2>2 DEF Boot, Lock, Crash, Toggle, tables
  <2>3. ASSUME NEW i \in Instances, SetUp(i) PROVE status'[l] = status[l]
    BY <2>3 DEF SetUp
  <2>4. ASSUME NEW i \in Instances, NEW k \in Keys,
               Stop(i, k) \/ Begin(i, k) \/ Batch(i, k) \/ LoseLock(i, k)
        PROVE  status' = status
    BY <2>4 DEF Stop, Begin, Batch, BatchCommits, BatchFails, LoseLock, tables
  <2>5. ASSUME NEW i \in Instances, NEW k \in Keys, Record(i, k)
        PROVE  status'[l].converged
    <3>1. CASE l # k \/ ~status[k].exists
      BY <2>0, <2>5, <3>1 DEF Record, TypeOK
    <3>2. CASE l = k /\ status[k].exists
      <4>1. Holding(i, k)
        BY <2>5 DEF Record, Holding, At
      <4>2. runner[i][k].read \in Statuses /\ runner[i][k].read.converged
        BY <2>0, <3>2, <4>1 DEF RunnerKnows, TypeOK, Runners
      <4>3. status'[k] = Recorded(runner[i][k].read, runner[i][k].result)
        BY <2>0, <2>5, <3>2 DEF Record, TypeOK
      <4> QED BY <3>2, <4>2, <4>3 DEF Recorded, Statuses
    <3> QED BY <3>1, <3>2
  <2>6. ASSUME NEW k \in Keys, Operate(k) PROVE status'[l].converged
    <3>1. CASE status' = [status EXCEPT ![k] = NoStatus]
      <4>1. l # k
        BY <2>0, <3>1 DEF TypeOK, NoStatus
      <4> QED BY <2>0, <3>1, <4>1 DEF TypeOK
    <3>2. ASSUME NEW n \in 0..(ErrorThreshold - 1),
                 status' = [status EXCEPT ![k].errors = n]
          PROVE  status'[l].converged
      <4>1. CASE l # k
        BY <2>0, <3>2, <4>1 DEF TypeOK
      <4>2. CASE l = k
        <5>1. status'[k] = [status[k] EXCEPT !.errors = n]
          BY <2>0, <3>2 DEF TypeOK
        <5>2. status[k] \in Statuses
          BY <2>0 DEF TypeOK
        <5> QED BY <4>2, <5>1, <5>2 DEF Statuses
      <4> QED BY <4>1, <4>2
    <3> QED BY <2>6, <3>1, <3>2 DEF Operate
  <2>7. ASSUME NEW k \in Keys, NewRow(k) PROVE status' = status
    BY <2>7 DEF NewRow, tables
  <2>8. ASSUME NEW k \in Keys, TimePasses(k) PROVE status'[l].converged
    BY <2>0, <2>8 DEF TimePasses, TypeOK, Statuses
  <2>9. CASE UNCHANGED vars
    BY <2>9 DEF vars, tables
  <2> QED BY <2>1, <2>2, <2>3, <2>4, <2>5, <2>6, <2>7, <2>8, <2>9 DEF Next
<1>2. ConvergedOnce <=> [][Kept]_vars
  BY DEF ConvergedOnce
<1> HIDE DEF Kept
<1> QED BY <1>1, <1>2, Invariant, PTL DEF Spec

\* No runner loses what another one recorded: while clients do not write a
\* status, each goes on from the row that is there.
THEOREM NoLostRecord == Spec => RecordIsCurrent
<1> DEFINE Current ==
      \A i \in Instances, k \in Keys \ Operated :
        Records(i, k) /\ status'[k] # status[k]
          => status'[k] = Recorded(status[k], runner[i][k].result)
<1>1. IInv /\ [Next]_vars => Current
  <2> SUFFICES ASSUME IInv, [Next]_vars,
                      NEW j \in Instances, NEW l \in Keys \ Operated,
                      Records(j, l), status'[l] # status[l]
               PROVE  status'[l] = Recorded(status[l], runner[j][l].result)
    OBVIOUS
  <2>0. TypeOK /\ OneHolder /\ RunnerKnows /\ RunnerKnowsAll
    BY DEF IInv
  <2>1. Holding(j, l) /\ runner' # runner
    BY DEF Records, Holding, At
  <2>2. ASSUME NEW i \in Instances, Boot(i) \/ Lock(i) \/ Crash(i) \/ Toggle(i)
        PROVE  FALSE
    BY <2>2 DEF Boot, Lock, Crash, Toggle, tables
  <2>3. ASSUME NEW i \in Instances, SetUp(i) PROVE FALSE
    BY <2>0, <2>1, <2>3 DEF SetUp, OneHolder
  <2>4. ASSUME NEW i \in Instances, NEW k \in Keys,
               Stop(i, k) \/ Begin(i, k) \/ Batch(i, k) \/ LoseLock(i, k)
        PROVE  FALSE
    BY <2>4 DEF Stop, Begin, Batch, BatchCommits, BatchFails, LoseLock, tables
  <2>5. ASSUME NEW i \in Instances, NEW k \in Keys, Record(i, k)
        PROVE  status'[l] = Recorded(status[l], runner[j][l].result)
    <3>1. k = l /\ status[k].exists
      BY <2>0, <2>5 DEF Record, TypeOK
    <3>2. Holding(i, k)
      BY <2>5 DEF Record, Holding, At
    <3>3. i = j
      BY <2>0, <2>1, <3>1, <3>2 DEF OneHolder
    <3>4. status'[l] = Recorded(runner[j][l].read, runner[j][l].result)
      BY <2>0, <2>5, <3>1, <3>3 DEF Record, TypeOK
    <3>5. /\ runner[j][l].read.exists /\ status[l].exists
          /\ runner[j][l].read.converged = status[l].converged
          /\ runner[j][l].read.backing = status[l].backing
          /\ runner[j][l].read.errors = status[l].errors
      BY <2>0, <2>1 DEF RunnerKnows, RunnerKnowsAll
    <3>6. /\ runner[j][l].read \in Statuses /\ status[l] \in Statuses
          /\ runner[j][l].result \in Results
      BY <2>0 DEF TypeOK, Runners
    <3>7. runner[j][l].read.exists = status[l].exists
      BY <3>5, <3>6 DEF Statuses
    <3> QED BY <3>4, <3>5, <3>6, <3>7, RecordedAgain
  <2>6. ASSUME NEW k \in Keys, Operate(k) \/ NewRow(k) \/ TimePasses(k) PROVE FALSE
    BY <2>1, <2>6 DEF Operate, NewRow, TimePasses
  <2>7. CASE UNCHANGED vars
    BY <2>1, <2>7 DEF vars
  <2> QED BY <2>2, <2>3, <2>4, <2>5, <2>6, <2>7 DEF Next
<1>2. RecordIsCurrent <=> [][Current]_vars
  BY DEF RecordIsCurrent
<1> HIDE DEF Current
<1> QED BY <1>1, <1>2, Invariant, PTL DEF Spec
-----------------------------------------------------------------------------
\* While nothing crashes and no lock is lost, the status tells how long ago
\* the last batch was, at the latest when its end is recorded; a migration
\* without a status has never had one.
Undisturbed == faults["crash"] = 0 /\ faults["loss"] = 0
AgeKnown(k) ==
  /\ ~status[k].exists => since[k] = 2
  /\ (\A i \in Instances : ~At(i, k, {"recording"})) => status[k].age <= since[k]
AgesKnown == Undisturbed => \A k \in Keys \ Operated : AgeKnown(k)

\* A fault leaves its mark on the counters.
LEMMA StaysUndisturbed ==
  TypeOK /\ Undisturbed' /\ [Next]_vars
    => /\ Undisturbed
       /\ \A i \in Instances : ~Crash(i)
       /\ \A i \in Instances, k \in Keys : ~LoseLock(i, k)
<1> SUFFICES ASSUME TypeOK, Undisturbed', [Next]_vars
             PROVE  /\ Undisturbed
                    /\ \A i \in Instances : ~Crash(i)
                    /\ \A i \in Instances, k \in Keys : ~LoseLock(i, k)
  OBVIOUS
<1>0. faults["crash"] \in Nat /\ faults["loss"] \in Nat
  BY DEF TypeOK, FaultKinds
<1>1. ASSUME NEW i \in Instances, Crash(i) PROVE FALSE
  <2>1. faults'["crash"] = faults["crash"] + 1
    BY <1>1, FaultType DEF Crash, FaultKinds
  <2> QED BY <1>0, <2>1 DEF Undisturbed
<1>2. ASSUME NEW i \in Instances, NEW k \in Keys, LoseLock(i, k) PROVE FALSE
  <2>1. faults'["loss"] = faults["loss"] + 1
    BY <1>2, FaultType DEF LoseLock, FaultKinds
  <2> QED BY <1>0, <2>1 DEF Undisturbed
<1>3. ASSUME NEW i \in Instances, NEW k \in Keys, BatchFails(i, k) PROVE Undisturbed
  <2>1. \A g \in FaultKinds \ {"failure"} : faults'[g] = faults[g]
    BY <1>3, FaultType DEF BatchFails, FaultKinds
  <2> QED BY <2>1 DEF Undisturbed, FaultKinds
<1>4. ASSUME NEW k \in Keys, NewRow(k) PROVE Undisturbed
  <2>1. \A g \in FaultKinds \ {"row"} : faults'[g] = faults[g]
    BY <1>4, FaultType DEF NewRow, FaultKinds
  <2> QED BY <2>1 DEF Undisturbed, FaultKinds
<1>5. ASSUME faults' = faults PROVE Undisturbed
  BY <1>5 DEF Undisturbed
<1>6. ASSUME NEW i \in Instances, Boot(i) \/ Lock(i) \/ SetUp(i) \/ Toggle(i)
      PROVE  faults' = faults
  BY <1>6 DEF Boot, Lock, SetUp, Toggle
<1>7. ASSUME NEW i \in Instances, NEW k \in Keys,
             Stop(i, k) \/ Begin(i, k) \/ BatchCommits(i, k) \/ Record(i, k)
      PROVE  faults' = faults
  BY <1>7 DEF Stop, Begin, BatchCommits, Record
<1>8. ASSUME NEW k \in Keys, Operate(k) \/ TimePasses(k) PROVE faults' = faults
  BY <1>8 DEF Operate, TimePasses
<1>9. ASSUME UNCHANGED vars PROVE faults' = faults
  BY <1>9 DEF vars
<1> QED BY <1>1, <1>2, <1>3, <1>4, <1>5, <1>6, <1>7, <1>8, <1>9 DEF Next, Batch

LEMMA NextAges ==
  ASSUME IInv, IInv', Undisturbed, Undisturbed', [Next]_vars,
         NEW l \in Keys \ Operated, AgeKnown(l)
  PROVE  AgeKnown(l)'
<1>0. TypeOK /\ OneHolder /\ RunnerKnowsAll /\ TypeOK'
  BY DEF IInv
<1>a. /\ status[l] \in Statuses /\ status[l].age \in 0..2 /\ since[l] \in 0..2
      /\ status'[l] \in Statuses /\ status'[l].age \in 0..2 /\ since'[l] \in 0..2
  BY <1>0 DEF TypeOK, Statuses, Ages
<1> DEFINE Same == /\ status'[l] = status[l] /\ since'[l] = since[l]
                   /\ \A i \in Instances : At(i, l, {"recording"}) => At(i, l, {"recording"})'
<1>1. Same => AgeKnown(l)'
  BY DEF AgeKnown
<1>2. ASSUME NEW i \in Instances, Boot(i) \/ Lock(i) \/ Toggle(i) PROVE Same
  BY <1>2 DEF Boot, Lock, Toggle, tables, At
<1>3. ASSUME NEW i \in Instances, SetUp(i) PROVE AgeKnown(l)'
  <2>1. \A j \in Instances : ~At(j, l, {"recording"})
    BY <1>0, <1>3 DEF SetUp, OneHolder, Holding, At
  <2>2. status[l].age <= since[l] /\ since'[l] = since[l]
    BY <1>3, <2>1 DEF AgeKnown, SetUp
  <2>3. status'[l] = status[l] \/ (~status[l].exists /\ status'[l] = FirstStatus)
    BY <1>3 DEF SetUp
  <2>4. FirstStatus.exists /\ FirstStatus.age = 2
    BY DEF FirstStatus, NoStatus
  <2> QED BY <2>2, <2>3, <2>4 DEF AgeKnown
<1>4. ASSUME NEW i \in Instances, NEW k \in Keys, Stop(i, k) \/ Begin(i, k) PROVE Same
  <2>1. \A j \in Instances, m \in Keys :
          <<j, m>> # <<i, k>> => runner'[j][m] = runner[j][m]
    <3>1. CASE Stop(i, k)
      BY <1>0, <3>1, OneRunner DEF Stop
    <3>2. CASE Begin(i, k)
      BY <1>0, <3>2, BeginReads
    <3> QED BY <1>4, <3>1, <3>2
  <2>2. /\ runner[i][k].at = "scheduled"
        /\ status' = status /\ since' = since
    BY <1>4 DEF Stop, Begin, tables, At
  <2> QED BY <2>1, <2>2 DEF At
<1>5. ASSUME NEW i \in Instances, NEW k \in Keys, Batch(i, k) PROVE AgeKnown(l)'
  <2>1. PICK result \in Results : Report(i, k, result)
    BY <1>5 DEF Batch, BatchCommits, BatchFails, Results
  <2>2. status' = status
    BY <1>5 DEF Batch, BatchCommits, BatchFails, tables
  <2>3. runner[i][k].at = "migrating"
    BY <2>1 DEF Report, At, Undisturbed, IInv, Drift
  <2>4. /\ runner'[i][k].at = "recording"
        /\ \A j \in Instances, m \in Keys :
             <<j, m>> # <<i, k>> => runner'[j][m] = runner[j][m]
    <3> DEFINE r == [runner[i][k] EXCEPT !.at = "recording", !.result = result]
    <3>0. runner[i][k] \in [at : Stages, read : Statuses, result : Results]
      BY <1>0 DEF TypeOK, Runners
    <3>1. r.at = "recording"
      BY <3>0
    <3>2. runner' = [runner EXCEPT ![i][k] = r]
      BY <2>1, <2>3 DEF Report
    <3> HIDE DEF r
    <3>3. /\ runner'[i][k] = r
          /\ \A j \in Instances, m \in Keys :
               <<j, m>> # <<i, k>> => runner'[j][m] = runner[j][m]
      BY <1>0, <3>2 DEF TypeOK
    <3> QED BY <3>1, <3>3
  <2>5. CASE l = k
    <3>1. status[l].exists
      BY <1>0, <2>3, <2>5 DEF RunnerKnowsAll, Holding, At
    <3>2. At(i, l, {"recording"})'
      BY <2>4, <2>5 DEF At
    <3> QED BY <2>2, <3>1, <3>2 DEF AgeKnown
  <2>6. CASE l # k
    <3>1. since'[l] = since[l]
      BY <1>0, <2>1, <2>6 DEF Report, TypeOK
    <3>2. Same
      BY <2>2, <2>4, <2>6, <3>1 DEF At
    <3> QED BY <1>1, <3>2
  <2> QED BY <2>5, <2>6
<1>6. ASSUME NEW i \in Instances, NEW k \in Keys, Record(i, k) PROVE AgeKnown(l)'
  <2>1. \A j \in Instances, m \in Keys :
          <<j, m>> # <<i, k>> => runner'[j][m] = runner[j][m]
    BY <1>0, <1>6, OneRunner DEF Record
  <2>2. since' = since
    BY <1>6 DEF Record
  <2>3. CASE l = k
    <3>1. runner[i][l].read.exists /\ status[l].exists
      BY <1>0, <1>6, <2>3 DEF Record, RunnerKnowsAll, Holding, At
    <3>2. status'[l] = Recorded(runner[i][l].read, runner[i][l].result)
      BY <1>0, <1>6, <2>3, <3>1 DEF Record, TypeOK
    <3>3. runner[i][l].read \in Statuses
      BY <1>0 DEF TypeOK, Runners
    <3>4. status'[l].exists /\ status'[l].age = 0
      BY <3>1, <3>2, <3>3 DEF Recorded, Statuses
    <3> QED BY <1>a, <3>4 DEF AgeKnown
  <2>4. CASE l # k
    <3>1. status'[l] = status[l]
      BY <1>0, <1>6, <2>4 DEF Record, TypeOK
    <3>2. Same
      BY <2>1, <2>2, <2>4, <3>1 DEF At
    <3> QED BY <1>1, <3>2
  <2> QED BY <2>3, <2>4
<1>7. ASSUME NEW k \in Keys, Operate(k) PROVE Same
  BY <1>0, <1>7 DEF Operate, TypeOK, At
<1>8. ASSUME NEW k \in Keys, NewRow(k) PROVE Same
  BY <1>8 DEF NewRow, tables, At
<1>9. ASSUME NEW k \in Keys, TimePasses(k) PROVE AgeKnown(l)'
  <2>1. CASE l = k
    <3>1. status'[l].exists = status[l].exists /\ status'[l].age = Older(status[l].age)
      BY <1>0, <1>9, <2>1 DEF TimePasses, TypeOK, Statuses
    <3>2. since'[l] = Older(since[l]) /\ runner' = runner
      BY <1>0, <1>9, <2>1 DEF TimePasses, TypeOK
    <3> QED BY <1>a, <3>1, <3>2 DEF AgeKnown, Older, At
  <2>2. CASE l # k
    <3>1. Same
      BY <1>0, <1>9, <2>2 DEF TimePasses, TypeOK, At
    <3> QED BY <1>1, <3>1
  <2> QED BY <2>1, <2>2
<1>10. CASE UNCHANGED vars
  <2>1. Same
    BY <1>10 DEF vars, tables, At
  <2> QED BY <1>1, <2>1
<1> HIDE DEF Same
<1> QED BY <1>0, <1>1, <1>2, <1>3, <1>4, <1>5, <1>6, <1>7, <1>8, <1>9, <1>10,
           StaysUndisturbed DEF Next

LEMMA AgesInvariant == Spec => [](IInv /\ AgesKnown)
<1>1. Init => AgesKnown
  <2> SUFFICES ASSUME Init, NEW k \in Keys PROVE AgeKnown(k)
    BY DEF AgesKnown
  <2> QED BY DEF Init, AgeKnown, NoStatus
<1>2. IInv /\ IInv' /\ AgesKnown /\ [Next]_vars => AgesKnown'
  <2> SUFFICES ASSUME IInv, IInv', AgesKnown, [Next]_vars, Undisturbed',
                      NEW k \in Keys \ Operated
               PROVE  AgeKnown(k)'
    BY DEF AgesKnown
  <2>1. Undisturbed
    BY StaysUndisturbed DEF IInv
  <2> QED BY <2>1, NextAges DEF AgesKnown
<1> QED BY <1>1, <1>2, Invariant, PTL DEF Spec

\* A batch starts delayMS or backoffDelayMS after the last one of its
\* migration at the earliest, whichever instances run the two, as long as
\* nothing keeps the end of a batch from being recorded.
THEOREM BatchesKeepDistance == Spec => IntervalKept
<1> DEFINE Kept == \A i \in Instances, k \in Keys \ Operated :
                     Starts(i, k) /\ faults["crash"] = 0 /\ faults["loss"] = 0
                       => since[k] >= Delay(status[k])
<1>1. IInv /\ AgesKnown /\ [Next]_vars => Kept
  <2> SUFFICES ASSUME IInv, AgesKnown, [Next]_vars, Undisturbed,
                      NEW j \in Instances, NEW l \in Keys \ Operated, Starts(j, l)
               PROVE  since[l] >= Delay(status[l])
    BY DEF Undisturbed
  <2>0. TypeOK
    BY DEF IInv
  <2>1. runner[j][l].at = "scheduled" /\ runner'[j][l].at = "migrating"
    BY DEF Starts, At
  <2>2. ASSUME NEW i \in Instances, NEW k \in Keys, Begin(i, k)
        PROVE  since[l] >= Delay(status[l])
    <3>1. i = j /\ k = l
      BY <2>0, <2>1, <2>2, BeginReads
    <3>2. /\ CanTryLock
          /\ status[l].age >= Delay(status[l])
      BY <2>2, <3>1 DEF Begin
    <3>3. \A m \in Instances : ~At(m, l, {"recording"})
      BY <3>2 DEF CanTryLock, Free, At
    <3>4. status[l].age <= since[l]
      BY <3>3 DEF AgesKnown, AgeKnown
    <3>5. status[l].age \in 0..2 /\ since[l] \in 0..2 /\ Delay(status[l]) \in 0..2
      BY <2>0 DEF TypeOK, Statuses, Ages, Delay
    <3> QED BY <3>2, <3>4, <3>5
  <2>3. ASSUME NEW i \in Instances, SetUp(i) PROVE FALSE
    BY <2>0, <2>1, <2>3 DEF SetUp, TypeOK, Runner
  <2>4. ASSUME NEW i \in Instances, Crash(i) PROVE FALSE
    BY <2>0, <2>1, <2>4 DEF Crash, TypeOK, Runner
  <2>5. ASSUME NEW i \in Instances, NEW k \in Keys, Stop(i, k) \/ Record(i, k)
        PROVE  FALSE
    BY <2>0, <2>1, <2>5, OneRunner DEF Stop, Record, Runner
  <2>6. ASSUME NEW i \in Instances, NEW k \in Keys, Batch(i, k) PROVE FALSE
    <3>1. PICK result \in Results : Report(i, k, result)
      BY <2>6 DEF Batch, BatchCommits, BatchFails, Results
    <3> QED BY <2>0, <2>1, <3>1, ReportKeepsLock DEF Holding, At
  <2>7. ASSUME NEW i \in Instances, NEW k \in Keys, LoseLock(i, k) PROVE FALSE
    BY <2>0, <2>1, <2>7, LoseLockReleases
  <2>8. ASSUME NEW i \in Instances, Boot(i) \/ Lock(i) \/ Toggle(i) PROVE FALSE
    BY <2>1, <2>8 DEF Boot, Lock, Toggle
  <2>9. ASSUME NEW k \in Keys, Operate(k) \/ NewRow(k) \/ TimePasses(k) PROVE FALSE
    BY <2>1, <2>9 DEF Operate, NewRow, TimePasses
  <2>10. CASE UNCHANGED vars
    BY <2>1, <2>10 DEF vars
  <2> QED BY <2>2, <2>3, <2>4, <2>5, <2>6, <2>7, <2>8, <2>9, <2>10 DEF Next
<1>2. IntervalKept <=> [][Kept]_vars
  BY DEF IntervalKept
<1> HIDE DEF Kept
<1> QED BY <1>1, <1>2, AgesInvariant, PTL DEF Spec
=============================================================================
