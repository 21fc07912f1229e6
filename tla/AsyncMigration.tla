--------------------------- MODULE AsyncMigration ---------------------------
(***************************************************************************)
(* The migrator of src/migrator on postgres: pine instances of an old and  *)
(* a new release that start, run the sync migrations of a model under the  *)
(* blocking advisory lock, and then migrate batch after batch with the     *)
(* runners of its async migrations, under the same lock taken without      *)
(* waiting.                                                                *)
(*                                                                         *)
(* A runner works in two transactions: the management transaction holds    *)
(* the lock and updates the migration status, the other one runs the batch *)
(* and commits first.  The model was executed before, so its migrations    *)
(* are not skipped, and the migration tables exist.                        *)
(***************************************************************************)
EXTENDS Naturals

CONSTANTS
  Instances,      \* pine processes that share the database
  Keys,           \* async migrations of the model
  Finalizes,      \* those that the release of an instance finalizes
  ErrorThreshold, \* errorThreshold
  Rows,           \* rows to migrate at first, a batch migrates one
  Switchable,     \* instances on which the application toggles the migrator
  Operated,       \* migrations whose status a client PATCHes or deletes
  MaxFaults       \* bound: crashes, lost connections, failures, new rows

FaultKinds == {"crash", "loss", "failure", "row"}

ASSUME MigrationAssumption ==
  /\ Finalizes \in [Instances -> SUBSET Keys]
  /\ ErrorThreshold \in Nat \ {0}
  /\ Rows \in Nat
  /\ Switchable \subseteq Instances /\ Operated \subseteq Keys
  /\ MaxFaults \in [FaultKinds -> Nat]

VARIABLES
  phase,    \* where each process is in its life
  seen,     \* the executed migrations each setup has read
  runner,   \* runner[i][k]: what the runner of each migration is doing
  enabled,  \* migrator.asyncMigrationIsEnabled of each process
  executed, \* the migration table
  status,   \* the migration status table
  todo,     \* rows each migration has still to migrate
  synced,   \* times the sync part of each was run for good (history)
  since,    \* how long ago each had its last batch (history)
  faults

processVars == <<phase, seen, enabled>>
tables == <<executed, status>>
vars == <<processVars, runner, tables, todo, synced, since, faults>>
-----------------------------------------------------------------------------
Phases == {"down", "waiting", "setup", "up"}

\* Ages of a run: delayMS has not passed since, or that has, or also
\* backoffDelayMS.  A migration that never ran is as old as can be.
Ages == 0..2
Statuses == [exists : BOOLEAN, backing : BOOLEAN, converged : BOOLEAN,
             errors : 0..(ErrorThreshold - 1), age : Ages]
NoStatus == [exists |-> FALSE, backing |-> FALSE, converged |-> FALSE,
             errors |-> 0, age |-> 2]
FirstStatus == [NoStatus EXCEPT !.exists = TRUE]

\* "adrift": the management connection was lost, and the batch still runs.
Stages == {"none", "scheduled", "migrating", "adrift", "recording", "stopped"}
Results == {"none", "some", "error"}
Runners == [at : Stages, read : Statuses, result : Results]
Runner(at) == [at |-> at, read |-> NoStatus, result |-> "none"]
At(i, k, S) == runner[i][k].at \in S

\* Fault: everyone gets the lock.
AlwaysFree == TRUE
\* The advisory lock is one for all models and migrations.
Free == /\ \A i \in Instances : phase[i] # "setup"
        /\ \A i \in Instances, k \in Keys : ~At(i, k, {"migrating", "recording"})

\* A blocking lock request that waits goes before any that does not.
CanTryLock == Free /\ \A i \in Instances : phase[i] # "waiting"

May(f) == faults[f] < MaxFaults[f]
Fault(f) == May(f) /\ faults' = [faults EXCEPT ![f] = @ + 1]
-----------------------------------------------------------------------------
Init ==
  /\ phase = [i \in Instances |-> "down"]
  /\ seen = [i \in Instances |-> {}]
  /\ runner = [i \in Instances |-> [k \in Keys |-> Runner("none")]]
  /\ enabled = [i \in Instances |-> TRUE]
  /\ executed = {}
  /\ status = [k \in Keys |-> NoStatus]
  /\ todo = [k \in Keys |-> Rows]
  /\ synced = [k \in Keys |-> 0]
  /\ since = [k \in Keys |-> 2]
  /\ faults = [f \in FaultKinds |-> 0]

Boot(i) ==
  /\ phase[i] = "down"
  /\ phase' = [phase EXCEPT ![i] = "waiting"]
  /\ UNCHANGED <<seen, enabled, runner, tables, todo, synced, since, faults>>

\* lockMigrations with blocking = true, then getExecutedMigrations.  The
\* lock is kept until the end of the transaction that sets the model up.
Lock(i) ==
  /\ phase[i] = "waiting"
  /\ Free
  /\ phase' = [phase EXCEPT ![i] = "setup"]
  /\ seen' = [seen EXCEPT ![i] = executed]
  /\ UNCHANGED <<enabled, runner, tables, todo, synced, since, faults>>

\* The transaction commits: the sync parts of the migrations to finalize were
\* run, the others have a status, and their runners start with its end.
SetUp(i) ==
  LET final == Finalizes[i] \ seen[i]
      done == IF final = {} THEN executed ELSE seen[i] \cup final
      async == Keys \ done
  IN /\ phase[i] = "setup"
     /\ phase' = [phase EXCEPT ![i] = "up"]
     /\ seen' = [seen EXCEPT ![i] = {}]
     /\ executed' = done
     /\ todo' = [k \in Keys |-> IF k \in final THEN 0 ELSE todo[k]]
     /\ synced' = [k \in Keys |-> IF k \in final THEN synced[k] + 1 ELSE synced[k]]
     /\ status' = [k \in Keys |-> IF k \in async /\ ~status[k].exists
                                  THEN FirstStatus ELSE status[k]]
     /\ runner' = [runner EXCEPT ![i] = [k \in Keys |->
                     Runner(IF k \in async THEN "scheduled" ELSE "none")]]
     /\ UNCHANGED <<enabled, since, faults>>
-----------------------------------------------------------------------------
(***************************************************************************)
(* A runner.  Its timer leaves everything as it is, and is set again, when *)
(* the migrator is disabled, when the lock is taken, and when the last run *)
(* was too short ago.                                                      *)
(***************************************************************************)
\* There is no status: the runner stops.
Stop(i, k) ==
  /\ At(i, k, {"scheduled"})
  /\ enabled[i] /\ CanTryLock
  /\ ~status[k].exists
  /\ runner' = [runner EXCEPT ![i][k] = Runner("stopped")]
  /\ UNCHANGED <<processVars, tables, todo, synced, since, faults>>

Delay(st) == IF st.backing THEN 2 ELSE 1

\* The lock is taken, the status read, and the batch starts in migrationTx.
Begin(i, k) ==
  /\ At(i, k, {"scheduled"})
  /\ enabled[i] /\ CanTryLock
  /\ status[k].exists
  /\ status[k].age >= Delay(status[k])
  /\ runner' = [runner EXCEPT ![i][k] = [@ EXCEPT !.at = "migrating",
                                                 !.read = status[k]]]
  /\ UNCHANGED <<processVars, tables, todo, synced, since, faults>>

\* Fault: the timer is not set again when the management transaction fails.
StopsOnError(i, k, result) ==
  /\ At(i, k, {"migrating", "adrift"})
  /\ runner' = [runner EXCEPT ![i][k] =
                  IF @.at = "adrift" THEN Runner("stopped")
                  ELSE [@ EXCEPT !.at = "recording", !.result = result]]
  /\ since' = [since EXCEPT ![k] = 0]

\* The batch is over.  With the lock lost the status cannot be updated: the
\* management transaction is rolled back, and the timer set again.
Report(i, k, result) ==
  /\ At(i, k, {"migrating", "adrift"})
  /\ runner' = [runner EXCEPT ![i][k] =
                  IF @.at = "adrift" THEN Runner("scheduled")
                  ELSE [@ EXCEPT !.at = "recording", !.result = result]]
  /\ since' = [since EXCEPT ![k] = 0]

Migrated(k) == [todo EXCEPT ![k] = IF @ = 0 THEN 0 ELSE @ - 1]

\* migrationTx commits.
BatchCommits(i, k) ==
  /\ Report(i, k, IF todo[k] = 0 THEN "none" ELSE "some")
  /\ todo' = Migrated(k)
  /\ UNCHANGED <<processVars, tables, synced, faults>>

\* migrationTx fails, its rows migrated all the same if it lost the answer
\* to its COMMIT; or it commits, and asyncFn did not return an integer.
BatchFails(i, k) ==
  /\ Report(i, k, "error")
  /\ todo' \in {todo, Migrated(k)}
  /\ Fault("failure")
  /\ UNCHANGED <<processVars, tables, synced>>

\* Fault: only the latest batch tells whether the migration has converged.
ForgetsConvergence(st, result) ==
  [st EXCEPT !.backing = result = "none", !.converged = result = "none", !.age = 0]

\* Fault: last_run_time is set only by a batch that migrated rows.
TimesProgressOnly(st, result) ==
  [st EXCEPT !.backing = result = "none",
             !.converged = @ \/ result = "none",
             !.age = IF result = "some" THEN 0 ELSE @]

\* The status after a batch that began with status st.
Recorded(st, result) ==
  IF result = "error"
  THEN LET errors == (st.errors + 1) % ErrorThreshold
       IN [st EXCEPT !.errors = errors,
                     !.backing = @ \/ errors = 0,
                     !.age = 0]
  ELSE [st EXCEPT !.backing = result = "none",
                  !.converged = @ \/ result = "none",
                  !.age = 0]

\* updateMigrationStatus, and the management transaction commits.
Record(i, k) ==
  /\ At(i, k, {"recording"})
  /\ status' = IF status[k].exists
               THEN [status EXCEPT ![k] = Recorded(runner[i][k].read,
                                                   runner[i][k].result)]
               ELSE status
  /\ runner' = [runner EXCEPT ![i][k] = Runner("scheduled")]
  /\ UNCHANGED <<processVars, executed, todo, synced, since, faults>>

\* The management connection breaks, and the server frees the lock.  Nobody
\* rolls back migrationTx: its statements go on.
LoseLock(i, k) ==
  /\ At(i, k, {"migrating", "recording"})
  /\ runner' = [runner EXCEPT ![i][k] =
                  IF @.at = "migrating" THEN [@ EXCEPT !.at = "adrift"]
                  ELSE Runner("scheduled")]
  /\ Fault("loss")
  /\ UNCHANGED <<processVars, tables, todo, synced, since>>

\* A process ends, in its setup or later: its transactions are rolled back.
Crash(i) ==
  /\ phase[i] # "down"
  /\ phase' = [phase EXCEPT ![i] = "down"]
  /\ seen' = [seen EXCEPT ![i] = {}]
  /\ enabled' = [enabled EXCEPT ![i] = TRUE]
  /\ runner' = [runner EXCEPT ![i] = [k \in Keys |-> Runner("none")]]
  /\ Fault("crash")
  /\ UNCHANGED <<tables, todo, synced, since>>
-----------------------------------------------------------------------------
\* The application sets migrator.asyncMigrationIsEnabled.
Toggle(i) ==
  /\ i \in Switchable /\ phase[i] = "up"
  /\ enabled' = [enabled EXCEPT ![i] = ~@]
  /\ UNCHANGED <<phase, seen, runner, tables, todo, synced, since, faults>>

\* A client PATCHes a migration status, here its error_count, or deletes it.
Operate(k) ==
  /\ k \in Operated /\ status[k].exists
  /\ \/ \E n \in 0..(ErrorThreshold - 1) : status' = [status EXCEPT ![k].errors = n]
     \/ status' = [status EXCEPT ![k] = NoStatus]
  /\ UNCHANGED <<processVars, runner, executed, todo, synced, since, faults>>

\* The application writes a row that is to be migrated.
NewRow(k) ==
  /\ todo' = [todo EXCEPT ![k] = @ + 1]
  /\ Fault("row")
  /\ UNCHANGED <<processVars, runner, tables, synced, since>>

Older(age) == IF age = 2 THEN 2 ELSE age + 1
TimePasses(k) ==
  /\ since' = [since EXCEPT ![k] = Older(@)]
  /\ status' = [status EXCEPT ![k].age = Older(@)]
  /\ UNCHANGED <<processVars, runner, executed, todo, synced, faults>>
-----------------------------------------------------------------------------
Batch(i, k) == BatchCommits(i, k) \/ BatchFails(i, k)

Next ==
  \/ \E i \in Instances : \/ Boot(i) \/ Lock(i) \/ SetUp(i) \/ Crash(i) \/ Toggle(i)
                          \/ \E k \in Keys : \/ Stop(i, k) \/ Begin(i, k)
                                             \/ Batch(i, k) \/ Record(i, k)
                                             \/ LoseLock(i, k)
  \/ \E k \in Keys : Operate(k) \/ NewRow(k) \/ TimePasses(k)

Spec == Init /\ [][Next]_vars

(***************************************************************************)
(* Processes are restarted and get the lock in the order they asked for    *)
(* it, timers fire, batches settle and time passes.  A timer that does not *)
(* get the lock changes nothing, so nothing promises a runner the lock     *)
(* when others take it again and again.                                    *)
(***************************************************************************)
Fairness ==
  /\ \A i \in Instances : WF_vars(Boot(i)) /\ WF_vars(Lock(i)) /\ WF_vars(SetUp(i))
  /\ \A i \in Instances, k \in Keys : /\ WF_vars(Begin(i, k)) /\ WF_vars(Stop(i, k))
                                      /\ WF_vars(Batch(i, k)) /\ WF_vars(Record(i, k))
  /\ \A k \in Keys : WF_vars(TimePasses(k))
FairSpec == Spec /\ Fairness
-----------------------------------------------------------------------------
(***************************************************************************)
(* Properties.                                                             *)
(***************************************************************************)

\* Every variable stays in its set.
TypeOK ==
  /\ phase \in [Instances -> Phases]
  /\ seen \in [Instances -> SUBSET Keys]
  /\ runner \in [Instances -> [Keys -> Runners]]
  /\ enabled \in [Instances -> BOOLEAN]
  /\ executed \in SUBSET Keys
  /\ status \in [Keys -> Statuses]
  /\ todo \in [Keys -> Nat]
  /\ synced \in [Keys -> Nat]
  /\ since \in [Keys -> Ages]
  /\ faults \in [FaultKinds -> Nat]

\* Only one batch that may still commit is executed at any time, and none
\* while an instance runs the sync migrations.  The lock sees to that as long
\* as its connection is not lost.
Migrating == {p \in Instances \X Keys : At(p[1], p[2], {"migrating", "adrift"})}
SettingUp == {i \in Instances : phase[i] = "setup"}
BatchesAlone ==
  /\ \A p, q \in Migrating : p = q
  /\ \A i, j \in SettingUp : i = j
  /\ Migrating = {} \/ SettingUp = {}
OneBatch == faults["loss"] = 0 => BatchesAlone

\* The sync part of a migration is run once, by whichever instances start.
SyncOnce == \A k \in Keys : synced[k] <= 1

\* A runner reads the status, and writes it all back after the batch: what
\* it writes goes on from what is then in the table, unless clients write there.
Records(i, k) == At(i, k, {"recording"}) /\ runner'[i][k].at = "scheduled"
RecordIsCurrent ==
  [][\A i \in Instances, k \in Keys \ Operated :
       Records(i, k) /\ status'[k] # status[k]
         => status'[k] = Recorded(status[k], runner[i][k].result)]_vars

\* converged_time is the first time a migration had caught up.
ConvergedOnce ==
  [][\A k \in Keys :
       status[k].exists /\ status[k].converged /\ status'[k].exists
         => status'[k].converged]_vars

\* Two batches of a migration are delayMS apart, backoffDelayMS while it
\* backs off, on whichever instances they run, as long as the end of a batch
\* is always recorded.
Starts(i, k) == At(i, k, {"scheduled"}) /\ runner'[i][k].at = "migrating"
IntervalKept ==
  [][\A i \in Instances, k \in Keys \ Operated :
       Starts(i, k) /\ faults["crash"] = 0 /\ faults["loss"] = 0
         => since[k] >= Delay(status[k])]_vars

\* Once it has started, a migration keeps running, across restarts, and when
\* all of its rows are migrated is at last recorded as converged, unless it is
\* finalized.
Runs(k) == \E i \in Instances : At(i, k, {"migrating"})
MigrationGoesOn ==
  \A k \in Keys : /\ status[k].exists ~> Runs(k) \/ k \in executed
                  /\ status[k].exists ~> status[k].converged \/ k \in executed
=============================================================================
