--------------------------- MODULE ModelExecution ---------------------------
(***************************************************************************)
(* The start of pine instances on one postgres database: init of           *)
(* src/server-glue/module.ts executes the standard models, the migrations  *)
(* model and those of the application, each group in a transaction of its  *)
(* own, and then records the migrations that could not be recorded before. *)
(*                                                                         *)
(* A model that is new skips its migrations and runs its initSql; one that *)
(* was executed before runs those that are not recorded, under the         *)
(* advisory lock.  Transactions read what is committed and what they wrote *)
(* themselves, and wait for rows and tables that others have written.      *)
(***************************************************************************)
EXTENDS Naturals

CONSTANTS
  Instances,       \* processes that start, each with the models of a release
  Dev,             \* the dev model, whose table lists the models
  Standard,        \* it and the other models of executeStandardModels
  MigrationsModel, \* the model with the tables of the migrator
  Application,     \* the models that loadApplicationConfig executes
  Release,         \* the models of the release of each instance
  Keys,            \* migrations
  Migrations,      \* those of each model in the release of each instance
  WithInit,        \* models with an initSql
  Scenarios,       \* deployments: the migrations the tables of each model have at
                   \* first, and the instances that start
  Absent,          \* no tables
  Unwritten        \* nothing written by a transaction, nothing read

Models == Standard \cup {MigrationsModel} \cup Application

\* The models of pine itself and those of the application have names of their
\* own, and the two marks are none of the values they stand beside.
ASSUME ExecutionAssumption ==
  /\ Dev \in Standard /\ WithInit \subseteq Application
  /\ Standard \cap Application = {} /\ MigrationsModel \notin Standard \cup Application
  /\ \A S \in SUBSET Keys : S # Absent /\ S # Unwritten
  /\ \A S \in SUBSET Models : S # Unwritten
  /\ Unwritten \notin Instances
  /\ Release \in [Instances -> SUBSET Models]
  /\ \A i \in Instances : Standard \cup {MigrationsModel} \subseteq Release[i]
  /\ Migrations \in [Instances -> [Models -> SUBSET Keys]]
  /\ Scenarios \subseteq [deployed : [Models -> (SUBSET Keys) \cup {Absent}],
                          starting : SUBSET Instances]
  /\ \A s \in Scenarios : \A m \in Models \ Application :
       s.deployed[m] = Absent => \A n \in Models : s.deployed[n] = Absent

VARIABLES
  phase,    \* the transaction each process is in
  at,       \* how far executeModels got with each model
  cached,   \* cachedIsModelNew of each process
  seen,     \* the executed migrations that were read under the lock
  pending,  \* models with pendingUnsetMigrations
  lock,     \* the transaction that has the advisory lock
  tables,   \* what each transaction made of the tables of each model,
  row,      \* of its row in the migration table,
  ran,      \* and the models whose initSql it ran
  shape,    \* committed: the migrations the tables of each model have,
  record,   \* the executed migrations in the migration table,
  known,    \* the models in the table of the dev model
  inits,    \* times the initSql of each was run for good (history)
  scenario, \* the one of this behaviour
  smooth    \* no process has ended so far (history)

processVars == <<phase, at, cached, seen, pending, lock>>
txVars == <<tables, row, ran>>
database == <<shape, record, known, inits>>
history == <<scenario, smooth>>
vars == <<processVars, txVars, database, history>>
-----------------------------------------------------------------------------
Phases == {"down", "standard", "migrations", "application", "post", "up"}
After(p) == CASE p = "standard" -> "migrations"
              [] p = "migrations" -> "application"
              [] p = "application" -> "post"
              [] p = "post" -> "up"
Executes(i) == CASE phase[i] = "standard" -> Standard
                 [] phase[i] = "migrations" -> {MigrationsModel}
                 [] phase[i] = "application" -> Application \cap Release[i]
                 [] OTHER -> {}

\* "locked": the migrations of a model that is not new are about to run;
\* "ran": they did, or were skipped; "created": the tables exist.
Steps == {"todo", "locked", "ran", "created", "done"}
InTx(i, m) == m \in Executes(i)

\* The dev model comes first, the others of a transaction at once.
Turn(i, m) == InTx(i, m) /\ (m = Dev \/ at[i][Dev] = "done")

\* What a statement of the transaction reads.
Shape(i, m) == IF tables[i][m] = Unwritten THEN shape[m] ELSE tables[i][m]
Record(i, m) == IF row[i][m] = Unwritten THEN record[m] ELSE row[i][m]
Knows(i) == known \cup {m \in Executes(i) : at[i][m] = "done"}

\* A row or table that another transaction has written makes its writers wait.
\* (What ends with a violated key is the end of the process, like any other.)
CanWriteRow(i, m) == \A j \in Instances \ {i} : row[j][m] = Unwritten
CanCreate(i, m) == \A j \in Instances \ {i} : tables[j][m] = Unwritten
CanUpdateModel(i, m) ==
  \A j \in Instances \ {i} : ~(InTx(j, m) /\ at[j][m] = "done")

\* Fault: the lock of one transaction does not keep others out.
LockIsShared(i) == lock' = i
TakesLock(i) == lock \in {Unwritten, i} /\ lock' = i

\* Fault: the migration tables are looked for under other names.
NeverFound(i) == FALSE
MigrationTablesExist(i) == Shape(i, MigrationsModel) # Absent

\* isModelNew reads the table of models once, in whichever transaction that
\* exists first.
Cache(i) == IF cached[i] = Unwritten /\ Shape(i, Dev) # Absent
            THEN Knows(i) ELSE cached[i]
\* Fault: whatever starts on a database takes the models for new ones.
AlwaysNew(i, m) == TRUE
IsNew(i, m) == Shape(i, Dev) # Absent => m \notin Cache(i)
-----------------------------------------------------------------------------
Init ==
  /\ phase = [i \in Instances |-> "down"]
  /\ at = [i \in Instances |-> [m \in Models |-> "todo"]]
  /\ cached = [i \in Instances |-> Unwritten]
  /\ seen = [i \in Instances |-> [m \in Models |-> {}]]
  /\ pending = [i \in Instances |-> {}]
  /\ lock = Unwritten
  /\ tables = [i \in Instances |-> [m \in Models |-> Unwritten]]
  /\ row = tables
  /\ ran = [i \in Instances |-> {}]
  /\ scenario \in Scenarios
  /\ shape = scenario.deployed
  /\ record = [m \in Models |-> IF shape[m] = Absent THEN {} ELSE shape[m]]
  /\ known = {m \in Models : shape[m] # Absent}
  /\ inits = [m \in Models |-> 0]
  /\ smooth = TRUE

Start(i) ==
  /\ phase[i] = "down" /\ i \in scenario.starting
  /\ phase' = [phase EXCEPT ![i] = "standard"]
  /\ UNCHANGED <<at, cached, seen, pending, lock, txVars, database, history>>

To(i, m, step) == at' = [at EXCEPT ![i][m] = step]
Beginning(i, m) == Turn(i, m) /\ at[i][m] = "todo"

\* syncMigrator.run of a model without migrations.
RunNothing(i, m) ==
  /\ Beginning(i, m)
  /\ Migrations[i][m] = {}
  /\ To(i, m, "ran")
  /\ UNCHANGED <<phase, cached, seen, pending, lock, txVars, database, history>>

\* A new model: its migrations are recorded, now or at the end.
SkipMigrations(i, m) ==
  /\ Beginning(i, m)
  /\ Migrations[i][m] # {} /\ IsNew(i, m)
  /\ cached' = [cached EXCEPT ![i] = Cache(i)]
  /\ IF MigrationTablesExist(i)
     THEN /\ CanWriteRow(i, m)
          /\ row' = [row EXCEPT ![i][m] = Migrations[i][m]]
          /\ UNCHANGED pending
     ELSE /\ pending' = [pending EXCEPT ![i] = @ \cup {m}]
          /\ UNCHANGED row
  /\ To(i, m, "ran")
  /\ UNCHANGED <<phase, seen, lock, tables, ran, database, history>>

\* lockMigrations, which does nothing before the migration tables exist, and
\* getExecutedMigrations.
LockMigrations(i, m) ==
  /\ Beginning(i, m)
  /\ Migrations[i][m] # {} /\ ~IsNew(i, m)
  /\ cached' = [cached EXCEPT ![i] = Cache(i)]
  /\ IF MigrationTablesExist(i)
     THEN /\ TakesLock(i)
          /\ seen' = [seen EXCEPT ![i][m] = Record(i, m)]
          /\ To(i, m, "locked")
     ELSE To(i, m, "ran") /\ UNCHANGED <<lock, seen>>
  /\ UNCHANGED <<phase, pending, txVars, database, history>>

\* Fault: only the migrations that just ran are recorded.
OnlyThese(old, new) == new
Executed(old, new) == old \cup new

\* executeMigrations and setExecutedMigrations, unless nothing is pending.
ExecuteMigrations(i, m) ==
  LET new == Migrations[i][m] \ seen[i][m]
  IN /\ at[i][m] = "locked"
     /\ IF new = {} THEN UNCHANGED <<tables, row>>
        ELSE /\ CanWriteRow(i, m) /\ CanCreate(i, m)
             /\ tables' = [tables EXCEPT ![i][m] = Shape(i, m) \cup new]
             /\ row' = [row EXCEPT ![i][m] = Executed(seen[i][m], new)]
     /\ To(i, m, "ran")
     /\ UNCHANGED <<phase, cached, seen, pending, lock, ran, database, history>>

\* The CREATE TABLE IF NOT EXISTS statements: tables of the latest shape.
CreateTables(i, m) ==
  /\ at[i][m] = "ran"
  /\ IF Shape(i, m) # Absent THEN UNCHANGED tables
     ELSE /\ CanCreate(i, m)
          /\ tables' = [tables EXCEPT ![i][m] = Migrations[i][m]]
  /\ To(i, m, "created")
  /\ UNCHANGED <<phase, cached, seen, pending, lock, row, ran, database, history>>

\* postRun, which asks again whether the model is new, and updateModel.
PostRun(i, m) ==
  /\ at[i][m] = "created"
  /\ cached' = [cached EXCEPT ![i] = IF m \in WithInit THEN Cache(i) ELSE @]
  /\ IF m \in WithInit /\ IsNew(i, m) /\ MigrationTablesExist(i)
     THEN TakesLock(i) /\ ran' = [ran EXCEPT ![i] = @ \cup {m}]
     ELSE UNCHANGED <<lock, ran>>
  /\ CanUpdateModel(i, m)
  /\ To(i, m, "done")
  /\ UNCHANGED <<phase, seen, pending, tables, row, database, history>>

\* Fault: a model that was set up without its migrations stays so.
Forgotten(i) == {}
Unset(i) == {m \in pending[i] : row[i][m] = Unwritten}

\* postExecuteModels records what was left, without the lock.
PostExecute(i, m) ==
  /\ phase[i] = "post" /\ m \in Unset(i)
  /\ CanWriteRow(i, m)
  /\ row' = [row EXCEPT ![i][m] = Migrations[i][m]]
  /\ UNCHANGED <<processVars, tables, ran, database, history>>

FreesLock(i) == lock' = IF lock = i THEN Unwritten ELSE lock
NothingWritten(i) ==
  /\ tables' = [tables EXCEPT ![i] = [m \in Models |-> Unwritten]]
  /\ row' = [row EXCEPT ![i] = [m \in Models |-> Unwritten]]
  /\ ran' = [ran EXCEPT ![i] = {}]

\* The transaction commits, and the next one begins.
Commit(i) ==
  /\ phase[i] \in Phases \ {"down", "up"}
  /\ \A m \in Executes(i) : at[i][m] = "done"
  /\ phase[i] = "post" => Unset(i) = {}
  /\ phase' = [phase EXCEPT ![i] = After(@)]
  /\ shape' = [m \in Models |-> Shape(i, m)]
  /\ record' = [m \in Models |-> Record(i, m)]
  /\ known' = known \cup Executes(i)
  /\ inits' = [m \in Models |-> IF m \in ran[i] THEN inits[m] + 1 ELSE inits[m]]
  /\ FreesLock(i)
  /\ NothingWritten(i)
  /\ UNCHANGED <<at, cached, seen, pending, history>>

\* The process ends: it crashes, a statement or a migration fails, or waits
\* for what another one then commits.  Its transaction is rolled back.
Exit(i) ==
  /\ phase[i] # "down"
  /\ phase' = [phase EXCEPT ![i] = "down"]
  /\ at' = [at EXCEPT ![i] = [m \in Models |-> "todo"]]
  /\ cached' = [cached EXCEPT ![i] = Unwritten]
  /\ seen' = [seen EXCEPT ![i] = [m \in Models |-> {}]]
  /\ pending' = [pending EXCEPT ![i] = {}]
  /\ FreesLock(i)
  /\ NothingWritten(i)
  /\ smooth' = FALSE
  /\ UNCHANGED <<database, scenario>>

Next ==
  \E i \in Instances :
    \/ Start(i) \/ Commit(i) \/ Exit(i)
    \/ \E m \in Models :
         \/ RunNothing(i, m) \/ SkipMigrations(i, m) \/ LockMigrations(i, m)
         \/ ExecuteMigrations(i, m) \/ CreateTables(i, m) \/ PostRun(i, m)
         \/ PostExecute(i, m)

Spec == Init /\ [][Next]_vars
-----------------------------------------------------------------------------
(***************************************************************************)
(* Properties.                                                             *)
(***************************************************************************)

\* Every variable stays in its set.
Written(S) == [Instances -> [Models -> S \cup {Unwritten}]]
TypeOK ==
  /\ phase \in [Instances -> Phases]
  /\ at \in [Instances -> [Models -> Steps]]
  /\ cached \in [Instances -> (SUBSET Models) \cup {Unwritten}]
  /\ seen \in [Instances -> [Models -> SUBSET Keys]]
  /\ pending \in [Instances -> SUBSET (Models \ Application)]
  /\ lock \in Instances \cup {Unwritten}
  /\ tables \in Written(SUBSET Keys) /\ row \in Written(SUBSET Keys)
  /\ ran \in [Instances -> SUBSET WithInit]
  /\ shape \in [Models -> (SUBSET Keys) \cup {Absent}]
  /\ record \in [Models -> SUBSET Keys]
  /\ known \in SUBSET Models
  /\ inits \in [Models -> Nat]
  /\ scenario \in Scenarios /\ smooth \in BOOLEAN

\* No two releases that differ in a model start while it is new.
IsFirst(m) == scenario.deployed[m] = Absent
ReleasesAgree ==
  \A i, j \in scenario.starting : \A m \in Release[i] \cap Release[j] :
    IsFirst(m) => Migrations[i][m] = Migrations[j][m]

\* A migration is recorded as executed only when the tables have it, whether
\* it ran or was skipped because the model was new.
RecordIsTrue ==
  ReleasesAgree => \A m \in Models : record[m] # {} => /\ shape[m] # Absent
                                                       /\ record[m] \subseteq shape[m]

\* An instance that serves requests finds the tables that its release needs,
\* whichever others started at the same time, with its models recorded and with
\* what the initSql of those that were new has put there.
UpIsCurrent ==
  ReleasesAgree =>
    \A i \in Instances : \A m \in Release[i] :
      phase[i] = "up" => /\ Migrations[i][m] \subseteq shape[m]
                         /\ m \in Application => Migrations[i][m] \subseteq record[m]
                         /\ m \in WithInit /\ IsFirst(m) => inits[m] >= 1

\* A migration runs only on tables that lack it: those of an application, and
\* those of pine's own models from the release on that follows the first one.
Runs(i, m) == at[i][m] = "locked" /\ at'[i][m] = "ran"
OnTablesWithout(i, m) == (Migrations[i][m] \ seen[i][m]) \cap Shape(i, m) = {}
AppliedOnce ==
  [][ReleasesAgree =>
       \A i \in Instances, m \in Models :
         Runs(i, m) /\ (m \in Application \/ ~IsFirst(m)) => OnTablesWithout(i, m)]_vars

\* Once all that started are up, the migrations that were skipped before
\* there was a table for them are recorded too, if no process has ended.
FirstRunRecorded ==
  ReleasesAgree /\ smooth /\ (\A i \in Instances : phase[i] \in {"down", "up"})
    => \A m \in known : record[m] = shape[m]
=============================================================================
