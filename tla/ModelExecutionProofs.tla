------------------------ MODULE ModelExecutionProofs ------------------------
(***************************************************************************)
(* Proofs about ModelExecution, for any number of instances, releases,     *)
(* models and migrations, and any deployment that they start on.           *)
(*                                                                         *)
(* Two arguments meet.  A model that was there before is protected by the  *)
(* advisory lock: its row and its tables are read and written under it.    *)
(* A new one is not, since the lock does nothing before there are tables   *)
(* for it; there every writer writes the same, as the releases agree.      *)
(***************************************************************************)
EXTENDS ModelExecution, TLAPS

\* The models of the transactions that a process has committed.
Passed(i) ==
  CASE phase[i] = "migrations" -> Standard
    [] phase[i] = "application" -> Standard \cup {MigrationsModel}
    [] phase[i] \in {"post", "up"} ->
         Standard \cup {MigrationsModel} \cup (Application \cap Release[i])
    [] OTHER -> {}

\* The migrations of a model are behind its execution.
Behind(i, m) == at[i][m] \in {"ran", "created", "done"}

\* A process takes the models of a transaction after those of the one before.
Placed(i, m) ==
  /\ m \in Passed(i) => at[i][m] = "done"
  /\ at[i][m] # "todo" => m \in Passed(i) \cup Executes(i)

\* The tables are there from CreateTables on, and when migrations are to run.
Built(i, m) ==
  /\ at[i][m] \in {"created", "done"} => Shape(i, m) # Absent
  /\ at[i][m] = "locked" => m \in known

\* A transaction has written the models that it executes, or is to record.
Wrote(i, m) ==
  /\ tables[i][m] # Unwritten => m \in Executes(i) /\ Behind(i, m)
  /\ row[i][m] # Unwritten => /\ Behind(i, m)
                              /\ m \in Executes(i) \/ (phase[i] = "post" /\ m \in pending[i])
  /\ m \in pending[i] => IsFirst(m) /\ Behind(i, m)

\* A model that was there before is written under the lock, its row with its
\* tables, from what the database has.
Guarded(i, m) ==
  ~IsFirst(m) =>
    /\ row[i][m] = tables[i][m]
    /\ row[i][m] # Unwritten => lock = i /\ record[m] \subseteq row[i][m]
    /\ at[i][m] = "locked" => lock = i /\ seen[i][m] = record[m]
    /\ Behind(i, m) => Migrations[i][m] \subseteq Record(i, m)

\* A new model on whose migrations the releases agree has all or none of them,
\* and one of an application is recorded with its tables.
Agreed(i, m) ==
  LET all == Migrations[i][m]
  IN ReleasesAgree /\ i \in scenario.starting /\ m \in Release[i] /\ IsFirst(m) =>
       /\ shape[m] \in {Absent, all} /\ tables[i][m] \in {Unwritten, all}
       /\ record[m] \in {{}, all} /\ row[i][m] \in {Unwritten, all}
       /\ seen[i][m] \subseteq all
       /\ Behind(i, m) => Record(i, m) = all \/ m \in pending[i] \/ m \in known
       /\ m \in Application => /\ m \in known => record[m] = all
                               /\ at[i][m] = "locked" => seen[i][m] = all
                               /\ Behind(i, m) => Record(i, m) = all

\* The initSql of a new model runs before its transaction is over.
SetsOff(i, m) ==
  m \in WithInit /\ IsFirst(m) /\ at[i][m] = "done" => m \in ran[i] \/ m \in known

Local(i, m) == /\ Placed(i, m) /\ Built(i, m) /\ Wrote(i, m)
               /\ Guarded(i, m) /\ Agreed(i, m) /\ SetsOff(i, m)

\* What the database has of a model.
Stored(m) ==
  /\ m \in known <=> shape[m] # Absent
  /\ record[m] # {} => m \in known
  /\ ~IsFirst(m) => m \in known /\ record[m] = shape[m]
  /\ m \in WithInit /\ IsFirst(m) /\ m \in known => inits[m] >= 1
  /\ ReleasesAgree /\ record[m] # {} => record[m] \subseteq shape[m]

\* The cache of a process is what was known at some time since it started.
CacheKnows(i) ==
  cached[i] # Unwritten => /\ \A m \in Models : ~IsFirst(m) => m \in cached[i]
                           /\ cached[i] \subseteq Knows(i)

Started(i) == phase[i] # "down" => i \in scenario.starting

\* A new model that is not recorded is still to be, by a process at work.
Owed(m) == \E i \in Instances : phase[i] \notin {"down", "up"} /\ m \in pending[i]
Remembered ==
  ReleasesAgree /\ smooth =>
    \A m \in known : IsFirst(m) => record[m] = shape[m] \/ Owed(m)

IInv ==
  /\ TypeOK
  /\ \A i \in Instances, m \in Models : Local(i, m)
  /\ \A m \in Models : Stored(m)
  /\ \A i \in Instances : CacheKnows(i) /\ Started(i)
  /\ Remembered
-----------------------------------------------------------------------------
\* What the phase of a process says of its transactions.
LEMMA Transactions ==
  ASSUME NEW i \in Instances
  PROVE  /\ phase[i] \in {"down", "standard"} => Passed(i) = {}
         /\ phase[i] = "migrations" => Passed(i) = Standard
         /\ phase[i] = "application" => Passed(i) = Standard \cup {MigrationsModel}
         /\ phase[i] \in {"post", "up"} =>
              Passed(i) = Standard \cup {MigrationsModel} \cup (Application \cap Release[i])
         /\ phase[i] = "standard" => Executes(i) = Standard
         /\ phase[i] = "migrations" => Executes(i) = {MigrationsModel}
         /\ phase[i] = "application" => Executes(i) = Application \cap Release[i]
         /\ phase[i] \in {"down", "post", "up"} => Executes(i) = {}
BY DEF Passed, Executes

\* All of them are in the release of the process.
LEMMA OfTheRelease ==
  ASSUME TypeOK, NEW i \in Instances
  PROVE  /\ Executes(i) \subseteq Release[i] /\ Passed(i) \subseteq Release[i]
         /\ Release[i] \subseteq Models
<1>1. phase[i] \in Phases
  BY DEF TypeOK
<1>2. Release[i] \subseteq Models /\ Standard \cup {MigrationsModel} \subseteq Release[i]
  BY ExecutionAssumption
<1> QED BY <1>1, <1>2, Transactions DEF Phases

LEMMA SameTransaction ==
  ASSUME NEW i \in Instances, phase'[i] = phase[i]
  PROVE  Executes(i)' = Executes(i) /\ Passed(i)' = Passed(i)
BY DEF Executes, Passed

\* The deployment does not change.
LEMMA SameScenario ==
  ASSUME scenario' = scenario
  PROVE  /\ ReleasesAgree' <=> ReleasesAgree
         /\ \A m \in Models : IsFirst(m)' <=> IsFirst(m)
<1>1. \A m \in Models : IsFirst(m)' <=> IsFirst(m)
  BY DEF IsFirst
<1>2. ReleasesAgree' <=> ReleasesAgree
  BY DEF ReleasesAgree, IsFirst
<1> QED BY <1>1, <1>2

\* With pine's own models, all that are deployed are new or none is.
LEMMA AllAreFirst ==
  ASSUME TypeOK, NEW n \in Standard \cup {MigrationsModel}, IsFirst(n)
  PROVE  \A m \in Models : IsFirst(m)
<1>1. n \in Models \ Application
  BY ExecutionAssumption DEF Models
<1> QED BY <1>1, ExecutionAssumption DEF TypeOK, IsFirst

\* What a statement reads.
LEMMA Reads ==
  ASSUME TypeOK, NEW i \in Instances, NEW m \in Models
  PROVE  /\ Shape(i, m) \in (SUBSET Keys) \cup {Absent}
         /\ Record(i, m) \in SUBSET Keys
         /\ tables[i][m] # Unwritten => Shape(i, m) # Absent
         /\ shape[m] # Absent => Shape(i, m) # Absent
<1> DEFINE Values == (SUBSET Keys) \cup {Unwritten}
<1>0. tables \in [Instances -> [Models -> Values]] /\ row \in [Instances -> [Models -> Values]]
  BY DEF TypeOK, Written
<1> HIDE DEF Values
<1>1. tables[i][m] \in Values /\ row[i][m] \in Values
  BY <1>0
<1>2. shape[m] \in (SUBSET Keys) \cup {Absent} /\ record[m] \in SUBSET Keys
  BY DEF TypeOK
<1>3. \A S \in SUBSET Keys : S # Absent
  BY ExecutionAssumption
<1>4. row[i][m] # Unwritten => row[i][m] \in SUBSET Keys
  BY <1>1, Zenon DEF Values
<1>5. tables[i][m] # Unwritten => tables[i][m] \in SUBSET Keys /\ tables[i][m] # Absent
  BY <1>1, <1>3, Zenon DEF Values
<1>6. Record(i, m) \in SUBSET Keys
  BY <1>2, <1>4 DEF Record
<1>7. Shape(i, m) = shape[m] \/ (Shape(i, m) = tables[i][m] /\ tables[i][m] # Unwritten)
  BY DEF Shape
<1> QED BY <1>2, <1>5, <1>6, <1>7 DEF Shape
-----------------------------------------------------------------------------
(***************************************************************************)
(* The steps of a process on one model.                                    *)
(***************************************************************************)
Moves(i, m) ==
  \/ RunNothing(i, m) \/ SkipMigrations(i, m) \/ LockMigrations(i, m)
  \/ ExecuteMigrations(i, m) \/ CreateTables(i, m) \/ PostRun(i, m)
  \/ PostExecute(i, m)

\* They leave all else as it is.
Elsewhere(i, m) ==
  /\ phase' = phase /\ shape' = shape /\ record' = record /\ known' = known
  /\ inits' = inits /\ scenario' = scenario /\ smooth' = smooth
  /\ \A j \in Instances, n \in Models :
       <<j, n>> # <<i, m>> =>
         /\ at'[j][n] = at[j][n] /\ seen'[j][n] = seen[j][n]
         /\ tables'[j][n] = tables[j][n] /\ row'[j][n] = row[j][n]
         /\ n \in pending'[j] <=> n \in pending[j]
         /\ n \in ran'[j] <=> n \in ran[j]
  /\ \A j \in Instances : /\ lock = j => lock' = j
                          /\ j # i => cached'[j] = cached[j]

LEMMA StepsOnce ==
  ASSUME TypeOK, NEW i \in Instances, NEW m \in Models, NEW step, To(i, m, step)
  PROVE  /\ at'[i][m] = step
         /\ \A j \in Instances, n \in Models :
              <<j, n>> # <<i, m>> => at'[j][n] = at[j][n]
BY DEF To, TypeOK

LEMMA RunNothingStep ==
  ASSUME TypeOK, NEW i \in Instances, NEW m \in Models, RunNothing(i, m)
  PROVE  /\ Elsewhere(i, m)
         /\ m \in Executes(i) /\ at[i][m] = "todo" /\ at'[i][m] = "ran"
         /\ Migrations[i][m] = {}
         /\ UNCHANGED <<cached, seen, pending, lock, tables, row, ran>>
<1>1. UNCHANGED <<phase, cached, seen, pending, lock, tables, row, ran, shape,
                  record, known, inits, scenario, smooth>>
  BY DEF RunNothing, txVars, database, history
<1>2. /\ at'[i][m] = "ran"
      /\ \A j \in Instances, n \in Models :
           <<j, n>> # <<i, m>> => at'[j][n] = at[j][n]
  BY StepsOnce DEF RunNothing
<1> QED BY <1>1, <1>2 DEF RunNothing, Beginning, Turn, InTx, Elsewhere

LEMMA SkipMigrationsStep ==
  ASSUME TypeOK, NEW i \in Instances, NEW m \in Models, SkipMigrations(i, m)
  PROVE  /\ Elsewhere(i, m)
         /\ m \in Executes(i) /\ at[i][m] = "todo" /\ at'[i][m] = "ran"
         /\ IsNew(i, m) /\ cached'[i] = Cache(i)
         /\ UNCHANGED <<seen, lock, tables, ran>>
         /\ \/ /\ MigrationTablesExist(i)
               /\ row'[i][m] = Migrations[i][m] /\ pending' = pending
            \/ /\ ~MigrationTablesExist(i)
               /\ row' = row /\ m \in pending'[i]
<1>1. UNCHANGED <<phase, seen, lock, tables, ran, shape, record, known, inits,
                  scenario, smooth>>
  BY DEF SkipMigrations, database, history
<1>2. /\ at'[i][m] = "ran"
      /\ \A j \in Instances, n \in Models :
           <<j, n>> # <<i, m>> => at'[j][n] = at[j][n]
  BY StepsOnce DEF SkipMigrations
<1>3. /\ cached'[i] = Cache(i)
      /\ \A j \in Instances : j # i => cached'[j] = cached[j]
  BY DEF SkipMigrations, TypeOK
<1>4. CASE MigrationTablesExist(i)
  <2>1. row' = [row EXCEPT ![i][m] = Migrations[i][m]] /\ pending' = pending
    BY <1>4 DEF SkipMigrations
  <2>2. /\ row'[i][m] = Migrations[i][m]
        /\ \A j \in Instances, n \in Models :
             <<j, n>> # <<i, m>> => row'[j][n] = row[j][n]
    BY <2>1 DEF TypeOK, Written
  <2> QED BY <1>1, <1>2, <1>3, <1>4, <2>1, <2>2
          DEF SkipMigrations, Beginning, Turn, InTx, Elsewhere
<1>5. CASE ~MigrationTablesExist(i)
  <2>1. pending' = [pending EXCEPT ![i] = @ \cup {m}] /\ row' = row
    BY <1>5 DEF SkipMigrations
  <2>2. /\ m \in pending'[i]
        /\ \A j \in Instances, n \in Models :
             <<j, n>> # <<i, m>> => (n \in pending'[j] <=> n \in pending[j])
    BY <2>1 DEF TypeOK
  <2> QED BY <1>1, <1>2, <1>3, <1>5, <2>1, <2>2
          DEF SkipMigrations, Beginning, Turn, InTx, Elsewhere
<1> QED BY <1>4, <1>5

LEMMA LockMigrationsStep ==
  ASSUME TypeOK, NEW i \in Instances, NEW m \in Models, LockMigrations(i, m)
  PROVE  /\ Elsewhere(i, m)
         /\ m \in Executes(i) /\ at[i][m] = "todo"
         /\ ~IsNew(i, m) /\ cached'[i] = Cache(i)
         /\ UNCHANGED <<pending, tables, row, ran>>
         /\ \/ /\ at'[i][m] = "locked" /\ MigrationTablesExist(i)
               /\ lock' = i /\ seen'[i][m] = Record(i, m)
            \/ /\ at'[i][m] = "ran" /\ ~MigrationTablesExist(i)
               /\ UNCHANGED <<lock, seen>>
<1>1. UNCHANGED <<phase, pending, tables, row, ran, shape, record, known, inits,
                  scenario, smooth>>
  BY DEF LockMigrations, txVars, database, history
<1>2. /\ cached'[i] = Cache(i)
      /\ \A j \in Instances : j # i => cached'[j] = cached[j]
  BY DEF LockMigrations, TypeOK
<1>3. CASE MigrationTablesExist(i)
  <2>1. /\ lock \in {Unwritten, i} /\ lock' = i
        /\ seen' = [seen EXCEPT ![i][m] = Record(i, m)]
        /\ To(i, m, "locked")
    BY <1>3 DEF LockMigrations, TakesLock
  <2>2. /\ at'[i][m] = "locked"
        /\ \A j \in Instances, n \in Models :
             <<j, n>> # <<i, m>> => at'[j][n] = at[j][n]
    BY <2>1, StepsOnce
  <2>3. /\ seen'[i][m] = Record(i, m)
        /\ \A j \in Instances, n \in Models :
             <<j, n>> # <<i, m>> => seen'[j][n] = seen[j][n]
    BY <2>1 DEF TypeOK
  <2>4. \A j \in Instances : lock = j => lock' = j
    BY <2>1, ExecutionAssumption
  <2> QED BY <1>1, <1>2, <1>3, <2>1, <2>2, <2>3, <2>4
          DEF LockMigrations, Beginning, Turn, InTx, Elsewhere
<1>4. CASE ~MigrationTablesExist(i)
  <2>1. To(i, m, "ran") /\ UNCHANGED <<lock, seen>>
    BY <1>4 DEF LockMigrations
  <2>2. /\ at'[i][m] = "ran"
        /\ \A j \in Instances, n \in Models :
             <<j, n>> # <<i, m>> => at'[j][n] = at[j][n]
    BY <2>1, StepsOnce
  <2> QED BY <1>1, <1>2, <1>4, <2>1, <2>2
          DEF LockMigrations, Beginning, Turn, InTx, Elsewhere
<1> QED BY <1>3, <1>4

LEMMA ExecuteMigrationsStep ==
  ASSUME TypeOK, NEW i \in Instances, NEW m \in Models, ExecuteMigrations(i, m)
  PROVE  /\ Elsewhere(i, m)
         /\ at[i][m] = "locked" /\ at'[i][m] = "ran"
         /\ UNCHANGED <<cached, seen, pending, lock, ran>>
         /\ \/ /\ Migrations[i][m] \subseteq seen[i][m]
               /\ UNCHANGED <<tables, row>>
            \/ /\ tables'[i][m] = Shape(i, m) \cup (Migrations[i][m] \ seen[i][m])
               /\ row'[i][m] = seen[i][m] \cup Migrations[i][m]
<1> DEFINE new == Migrations[i][m] \ seen[i][m]
<1>1. UNCHANGED <<phase, cached, seen, pending, lock, ran, shape, record, known,
                  inits, scenario, smooth>>
  BY DEF ExecuteMigrations, database, history
<1>2. /\ at'[i][m] = "ran"
      /\ \A j \in Instances, n \in Models :
           <<j, n>> # <<i, m>> => at'[j][n] = at[j][n]
  BY StepsOnce DEF ExecuteMigrations
<1>3. CASE new = {}
  <2>1. Migrations[i][m] \subseteq seen[i][m] /\ UNCHANGED <<tables, row>>
    BY <1>3 DEF ExecuteMigrations
  <2> QED BY <1>1, <1>2, <2>1 DEF ExecuteMigrations, Elsewhere
<1>4. CASE new # {}
  <2>1. /\ tables' = [tables EXCEPT ![i][m] = Shape(i, m) \cup new]
        /\ row' = [row EXCEPT ![i][m] = Executed(seen[i][m], new)]
    BY <1>4 DEF ExecuteMigrations
  <2>2. /\ tables'[i][m] = Shape(i, m) \cup new
        /\ row'[i][m] = Executed(seen[i][m], new)
        /\ \A j \in Instances, n \in Models :
             <<j, n>> # <<i, m>> => /\ tables'[j][n] = tables[j][n]
                                    /\ row'[j][n] = row[j][n]
    BY <2>1 DEF TypeOK, Written
  <2>3. Executed(seen[i][m], new) = seen[i][m] \cup Migrations[i][m]
    BY DEF Executed
  <2> QED BY <1>1, <1>2, <2>2, <2>3 DEF ExecuteMigrations, Elsewhere
<1> QED BY <1>3, <1>4

LEMMA CreateTablesStep ==
  ASSUME TypeOK, NEW i \in Instances, NEW m \in Models, CreateTables(i, m)
  PROVE  /\ Elsewhere(i, m)
         /\ at[i][m] = "ran" /\ at'[i][m] = "created"
         /\ UNCHANGED <<cached, seen, pending, lock, row, ran>>
         /\ \/ Shape(i, m) # Absent /\ tables' = tables
            \/ Shape(i, m) = Absent /\ tables'[i][m] = Migrations[i][m]
<1>1. UNCHANGED <<phase, cached, seen, pending, lock, row, ran, shape, record, known,
                  inits, scenario, smooth>>
  BY DEF CreateTables, database, history
<1>2. /\ at'[i][m] = "created"
      /\ \A j \in Instances, n \in Models :
           <<j, n>> # <<i, m>> => at'[j][n] = at[j][n]
  BY StepsOnce DEF CreateTables
<1>3. CASE Shape(i, m) # Absent
  <2>1. tables' = tables
    BY <1>3 DEF CreateTables
  <2> QED BY <1>1, <1>2, <1>3, <2>1 DEF CreateTables, Elsewhere
<1>4. CASE Shape(i, m) = Absent
  <2>1. tables' = [tables EXCEPT ![i][m] = Migrations[i][m]]
    BY <1>4 DEF CreateTables
  <2>2. /\ tables'[i][m] = Migrations[i][m]
        /\ \A j \in Instances, n \in Models :
             <<j, n>> # <<i, m>> => tables'[j][n] = tables[j][n]
    BY <2>1 DEF TypeOK, Written
  <2> QED BY <1>1, <1>2, <1>4, <2>2 DEF CreateTables, Elsewhere
<1> QED BY <1>3, <1>4

LEMMA PostRunStep ==
  ASSUME TypeOK, NEW i \in Instances, NEW m \in Models, PostRun(i, m)
  PROVE  /\ Elsewhere(i, m)
         /\ at[i][m] = "created" /\ at'[i][m] = "done"
         /\ cached'[i] \in {cached[i], Cache(i)}
         /\ UNCHANGED <<seen, pending, tables, row>>
         /\ ran'[i] \subseteq ran[i] \cup {m}
         /\ m \in WithInit => m \in ran'[i] \/ ~IsNew(i, m) \/ ~MigrationTablesExist(i)
         /\ m \notin WithInit => ran' = ran
<1>1. UNCHANGED <<phase, seen, pending, tables, row, shape, record, known, inits,
                  scenario, smooth>>
  BY DEF PostRun, database, history
<1>2. /\ at'[i][m] = "done"
      /\ \A j \in Instances, n \in Models :
           <<j, n>> # <<i, m>> => at'[j][n] = at[j][n]
  BY StepsOnce DEF PostRun
<1>3. /\ cached'[i] \in {cached[i], Cache(i)}
      /\ \A j \in Instances : j # i => cached'[j] = cached[j]
  BY DEF PostRun, TypeOK
<1>4. CASE m \in WithInit /\ IsNew(i, m) /\ MigrationTablesExist(i)
  <2>1. /\ lock \in {Unwritten, i} /\ lock' = i
        /\ ran' = [ran EXCEPT ![i] = @ \cup {m}]
    BY <1>4 DEF PostRun, TakesLock
  <2>2. /\ ran'[i] = ran[i] \cup {m}
        /\ \A j \in Instances, n \in Models :
             <<j, n>> # <<i, m>> => (n \in ran'[j] <=> n \in ran[j])
    BY <2>1 DEF TypeOK
  <2>3. \A j \in Instances : lock = j => lock' = j
    BY <2>1, ExecutionAssumption
  <2> QED BY <1>1, <1>2, <1>3, <1>4, <2>2, <2>3 DEF PostRun, Elsewhere
<1>5. CASE ~(m \in WithInit /\ IsNew(i, m) /\ MigrationTablesExist(i))
  <2>1. UNCHANGED <<lock, ran>>
    BY <1>5 DEF PostRun
  <2> QED BY <1>1, <1>2, <1>3, <1>5, <2>1 DEF PostRun, Elsewhere
<1> QED BY <1>4, <1>5

LEMMA PostExecuteStep ==
  ASSUME TypeOK, NEW i \in Instances, NEW m \in Models, PostExecute(i, m)
  PROVE  /\ Elsewhere(i, m)
         /\ phase[i] = "post" /\ m \in pending[i]
         /\ UNCHANGED <<at, cached, seen, pending, lock, tables, ran>>
         /\ row'[i][m] = Migrations[i][m]
<1>1. UNCHANGED <<phase, at, cached, seen, pending, lock, tables, ran, shape, record,
                  known, inits, scenario, smooth>>
  BY DEF PostExecute, processVars, database, history
<1>2. row' = [row EXCEPT ![i][m] = Migrations[i][m]]
  BY DEF PostExecute
<1>3. /\ row'[i][m] = Migrations[i][m]
      /\ \A j \in Instances, n \in Models :
           <<j, n>> # <<i, m>> => row'[j][n] = row[j][n]
  BY <1>2 DEF TypeOK, Written
<1> QED BY <1>1, <1>3 DEF PostExecute, Unset, Elsewhere
-----------------------------------------------------------------------------
(***************************************************************************)
(* What isModelNew and the lock can be relied on for.                      *)
(***************************************************************************)
\* The models that were there before are found in the cache as in the table.
LEMMA CacheIsSound ==
  ASSUME IInv, NEW i \in Instances, Cache(i) # Unwritten
  PROVE  /\ \A m \in Models : ~IsFirst(m) => m \in Cache(i)
         /\ Cache(i) \subseteq Knows(i)
<1>1. CacheKnows(i) /\ \A m \in Models : ~IsFirst(m) => m \in known
  BY DEF IInv, Stored
<1>2. known \subseteq Knows(i)
  BY DEF Knows
<1> QED BY <1>1, <1>2 DEF Cache, CacheKnows

\* A model that was there before is never taken for a new one.
LEMMA NewIsFirst ==
  ASSUME IInv, NEW i \in Instances, NEW m \in Models, IsNew(i, m)
  PROVE  IsFirst(m)
<1> USE DEF IInv
<1>1. Dev \in Models /\ Dev \in Standard
  BY ExecutionAssumption DEF Models
<1>2. CASE Shape(i, Dev) = Absent
  <2>1. shape[Dev] = Absent
    BY <1>1, <1>2, Reads
  <2>2. IsFirst(Dev)
    BY <1>1, <2>1 DEF Stored
  <2> QED BY <1>1, <2>2, AllAreFirst
<1>3. CASE Shape(i, Dev) # Absent
  <2>1. m \notin Cache(i)
    BY <1>3 DEF IsNew
  <2>2. Cache(i) # Unwritten
    <3>1. known \in SUBSET Models /\ Knows(i) = known \cup {n \in Executes(i) : at[i][n] = "done"}
      BY DEF TypeOK, Knows
    <3>2. Knows(i) \in SUBSET Models
      BY <3>1, OfTheRelease
    <3> QED BY <1>3, <3>2, ExecutionAssumption DEF Cache
  <2> QED BY <2>1, <2>2, CacheIsSound
<1> QED BY <1>2, <1>3

\* One that is not taken for new is known, or has just been executed.
LEMMA OldIsKnown ==
  ASSUME IInv, NEW i \in Instances, NEW m \in Models, ~IsNew(i, m),
         at[i][m] # "done"
  PROVE  m \in known
<1>1. Shape(i, Dev) # Absent /\ m \in Cache(i)
  BY DEF IsNew
<1>2. Cache(i) \subseteq Knows(i)
  <2>1. CASE cached[i] = Unwritten
    BY <1>1, <2>1 DEF Cache
  <2>2. CASE cached[i] # Unwritten
    BY <2>2 DEF Cache, IInv, CacheKnows
  <2> QED BY <2>1, <2>2
<1> QED BY <1>1, <1>2 DEF Knows

\* The migration tables exist before the models of an application are
\* executed, and whenever a model was there before.
LEMMA TablesThere ==
  ASSUME IInv, NEW i \in Instances, NEW m \in Models,
         \/ m \in Application /\ m \in Executes(i)
         \/ ~IsFirst(m)
  PROVE  MigrationTablesExist(i)
<1> USE DEF IInv
<1>1. MigrationsModel \in Models
  BY DEF Models
<1>2. CASE m \in Application /\ m \in Executes(i)
  <2>1. phase[i] \in Phases
    BY DEF TypeOK
  <2>2. phase[i] = "application"
    BY <1>2, <2>1, Transactions, ExecutionAssumption DEF Phases
  <2>3. at[i][MigrationsModel] = "done"
    BY <1>1, <2>2, Transactions DEF Local, Placed
  <2> QED BY <1>1, <2>3 DEF Local, Built, MigrationTablesExist
<1>3. CASE ~IsFirst(m)
  <2>1. ~IsFirst(MigrationsModel)
    BY <1>3, AllAreFirst
  <2>2. shape[MigrationsModel] # Absent
    BY <1>1, <2>1 DEF Stored
  <2> QED BY <1>1, <2>2, Reads DEF MigrationTablesExist
<1> QED BY <1>2, <1>3

\* Of a model that is executed, all lies ahead until its migrations ran.
LEMMA Ahead ==
  ASSUME IInv, NEW i \in Instances, NEW m \in Models, at[i][m] \in {"todo", "locked"}
  PROVE  /\ tables[i][m] = Unwritten /\ row[i][m] = Unwritten
         /\ m \notin pending[i] /\ m \notin Passed(i)
         /\ Shape(i, m) = shape[m] /\ Record(i, m) = record[m]
<1>1. Local(i, m) /\ ~Behind(i, m)
  BY DEF IInv, Behind
<1> QED BY <1>1 DEF Local, Placed, Wrote, Behind, Shape, Record
-----------------------------------------------------------------------------
(***************************************************************************)
(* The steps on a model keep what is said of the others.                   *)
(***************************************************************************)
LEMMA OthersKeep ==
  ASSUME NEW i \in Instances, NEW m \in Models, Elsewhere(i, m),
         NEW j \in Instances, NEW n \in Models, <<j, n>> # <<i, m>>, Local(j, n)
  PROVE  Local(j, n)'
<1>1. /\ phase'[j] = phase[j] /\ Executes(j)' = Executes(j) /\ Passed(j)' = Passed(j)
      /\ ReleasesAgree' <=> ReleasesAgree
      /\ IsFirst(n)' <=> IsFirst(n)
      /\ scenario' = scenario
  BY SameTransaction, SameScenario DEF Elsewhere
<1>2. /\ at'[j][n] = at[j][n] /\ seen'[j][n] = seen[j][n]
      /\ tables'[j][n] = tables[j][n] /\ row'[j][n] = row[j][n]
      /\ n \in pending'[j] <=> n \in pending[j]
      /\ n \in ran'[j] <=> n \in ran[j]
  BY DEF Elsewhere
<1>3. /\ shape'[n] = shape[n] /\ record'[n] = record[n] /\ known' = known
      /\ lock = j => lock' = j
  BY DEF Elsewhere
<1>4. /\ Shape(j, n)' = Shape(j, n) /\ Record(j, n)' = Record(j, n)
      /\ Behind(j, n)' <=> Behind(j, n)
  BY <1>2, <1>3 DEF Shape, Record, Behind
<1>5. Placed(j, n)'
  BY <1>1, <1>2 DEF Local, Placed
<1>6. Built(j, n)'
  BY <1>2, <1>3, <1>4 DEF Local, Built
<1>7. Wrote(j, n)'
  BY <1>1, <1>2, <1>4 DEF Local, Wrote
<1>8. Guarded(j, n)'
  BY <1>1, <1>2, <1>3, <1>4 DEF Local, Guarded
<1>9. Agreed(j, n)'
  BY <1>1, <1>2, <1>3, <1>4 DEF Local, Agreed
<1>10. SetsOff(j, n)'
  BY <1>1, <1>2, <1>3 DEF Local, SetsOff
<1> QED BY <1>5, <1>6, <1>7, <1>8, <1>9, <1>10 DEF Local

\* They leave the database as it is, and drop nothing that is pending.
LEMMA DatabaseKeeps ==
  ASSUME TypeOK, NEW i \in Instances, NEW m \in Models, Elsewhere(i, m),
         m \in pending[i] => m \in pending'[i]
  PROVE  /\ \A n \in Models : Stored(n) => Stored(n)'
         /\ \A j \in Instances : Started(j) => Started(j)'
         /\ Remembered => Remembered'
<1>1. /\ phase' = phase /\ shape' = shape /\ record' = record /\ known' = known
      /\ inits' = inits /\ scenario' = scenario /\ smooth' = smooth
  BY DEF Elsewhere
<1>2. /\ ReleasesAgree' <=> ReleasesAgree
      /\ \A n \in Models : IsFirst(n)' <=> IsFirst(n)
  BY <1>1, SameScenario
<1>3. \A n \in Models : Stored(n) => Stored(n)'
  BY <1>1, <1>2 DEF Stored
<1>4. \A j \in Instances : Started(j) => Started(j)'
  BY <1>1 DEF Started
<1>5. \A j \in Instances, n \in Models : n \in pending[j] => n \in pending'[j]
  BY DEF Elsewhere
<1>6. \A n \in Models : Owed(n) => Owed(n)'
  BY <1>1, <1>5 DEF Owed
<1>7. Remembered => Remembered'
  <2>1. known \subseteq Models
    BY DEF TypeOK
  <2> QED BY <1>1, <1>2, <1>6, <2>1 DEF Remembered
<1> QED BY <1>3, <1>4, <1>7

LEMMA CachesKeep ==
  ASSUME IInv, NEW i \in Instances, NEW m \in Models, Elsewhere(i, m),
         cached'[i] \in {cached[i], Cache(i)},
         at[i][m] = "done" => at'[i][m] = "done"
  PROVE  \A j \in Instances : CacheKnows(j)'
<1> SUFFICES ASSUME NEW j \in Instances PROVE CacheKnows(j)'
  OBVIOUS
<1>1. \A n \in Models : IsFirst(n)' <=> IsFirst(n)
  BY SameScenario DEF Elsewhere
<1>2. Executes(j)' = Executes(j) /\ known' = known /\ Executes(j) \subseteq Models
  BY SameTransaction, OfTheRelease DEF Elsewhere, IInv
<1>3. \A n \in Models : at[j][n] = "done" => at'[j][n] = "done"
  BY DEF Elsewhere
<1>4. Knows(j) \subseteq Knows(j)'
  BY <1>2, <1>3 DEF Knows
<1>5. cached'[j] # Unwritten
        => /\ \A n \in Models : ~IsFirst(n) => n \in cached'[j]
           /\ cached'[j] \subseteq Knows(j)
  <2>1. CASE cached'[j] = cached[j]
    BY <2>1 DEF IInv, CacheKnows
  <2>2. CASE j = i /\ cached'[i] = Cache(i)
    BY <2>2, CacheIsSound
  <2> QED BY <2>1, <2>2 DEF Elsewhere
<1> QED BY <1>1, <1>4, <1>5 DEF CacheKnows
-----------------------------------------------------------------------------
(***************************************************************************)
(* And what becomes of the model itself.                                   *)
(***************************************************************************)
LEMMA SameAround ==
  ASSUME NEW i \in Instances, NEW m \in Models, Elsewhere(i, m)
  PROVE  /\ phase'[i] = phase[i]
         /\ Executes(i)' = Executes(i) /\ Passed(i)' = Passed(i)
         /\ ReleasesAgree' <=> ReleasesAgree
         /\ IsFirst(m)' <=> IsFirst(m)
         /\ scenario' = scenario
         /\ shape'[m] = shape[m] /\ record'[m] = record[m] /\ known' = known
         /\ lock = i => lock' = i
BY SameTransaction, SameScenario DEF Elsewhere

\* What is executed is in the release, by an instance that takes part.
LEMMA TakesPart ==
  ASSUME IInv, NEW i \in Instances, NEW m \in Models, at[i][m] # "todo" \/ m \in Executes(i)
  PROVE  /\ m \in Release[i] /\ i \in scenario.starting
         /\ Migrations[i][m] \in SUBSET Keys
<1>1. m \in Passed(i) \cup Executes(i)
  BY DEF IInv, Local, Placed
<1>2. phase[i] # "down"
  BY <1>1, Transactions
<1> QED BY <1>1, <1>2, OfTheRelease, ExecutionAssumption DEF IInv, Started

LEMMA RunNothingLocal ==
  ASSUME IInv, NEW i \in Instances, NEW m \in Models, RunNothing(i, m)
  PROVE  Local(i, m)'
<1>0. TypeOK /\ Local(i, m) /\ Stored(m)
  BY DEF IInv
<1>1. /\ Elsewhere(i, m)
      /\ m \in Executes(i) /\ at[i][m] = "todo" /\ at'[i][m] = "ran"
      /\ Migrations[i][m] = {}
      /\ UNCHANGED <<cached, seen, pending, lock, tables, row, ran>>
  BY <1>0, RunNothingStep
<1>2. /\ tables[i][m] = Unwritten /\ row[i][m] = Unwritten
      /\ m \notin pending[i] /\ m \notin Passed(i)
      /\ Record(i, m) = record[m]
  BY <1>1, Ahead
<1>3. Record(i, m)' = record[m] /\ Behind(i, m)'
  BY <1>1, <1>2, SameAround DEF Record, Behind
<1>4. Placed(i, m)' /\ Built(i, m)' /\ Wrote(i, m)' /\ SetsOff(i, m)'
  BY <1>1, <1>2, SameAround DEF Placed, Built, Wrote, SetsOff
<1>5. Guarded(i, m)'
  BY <1>0, <1>1, <1>2, <1>3, SameAround DEF Local, Guarded
<1>6. Agreed(i, m)'
  BY <1>0, <1>1, <1>2, <1>3, SameAround DEF Local, Agreed
<1> QED BY <1>4, <1>5, <1>6 DEF Local

LEMMA SkipMigrationsLocal ==
  ASSUME IInv, NEW i \in Instances, NEW m \in Models, SkipMigrations(i, m)
  PROVE  Local(i, m)'
<1>0. TypeOK /\ Local(i, m) /\ Stored(m)
  BY DEF IInv
<1>1. /\ Elsewhere(i, m)
      /\ m \in Executes(i) /\ at[i][m] = "todo" /\ at'[i][m] = "ran"
      /\ IsNew(i, m)
      /\ UNCHANGED <<seen, lock, tables, ran>>
      /\ \/ row'[i][m] = Migrations[i][m] /\ pending' = pending
         \/ ~MigrationTablesExist(i) /\ row' = row /\ m \in pending'[i]
  BY <1>0, SkipMigrationsStep
<1>2. /\ tables[i][m] = Unwritten /\ row[i][m] = Unwritten
      /\ m \notin pending[i] /\ m \notin Passed(i)
      /\ Record(i, m) = record[m]
  BY <1>1, Ahead
<1>3. IsFirst(m)
  BY <1>1, NewIsFirst
<1>4. Migrations[i][m] # Unwritten
  BY <1>1, TakesPart, ExecutionAssumption
<1>5. /\ \/ Record(i, m)' = Migrations[i][m]
         \/ m \in pending'[i] /\ Record(i, m)' = record[m] /\ m \notin Application
      /\ Behind(i, m)'
  <2>1. Behind(i, m)'
    BY <1>1 DEF Behind
  <2>2. CASE row'[i][m] = Migrations[i][m]
    BY <1>4, <2>1, <2>2 DEF Record
  <2>3. CASE ~MigrationTablesExist(i) /\ row' = row /\ m \in pending'[i]
    <3>1. m \notin Application
      BY <1>1, <2>3, TablesThere
    <3> QED BY <1>2, <2>1, <2>3, <3>1, SameAround, <1>1 DEF Record
  <2> QED BY <1>1, <2>2, <2>3
<1>6. Placed(i, m)' /\ Built(i, m)' /\ SetsOff(i, m)'
  BY <1>1, <1>2, SameAround DEF Placed, Built, SetsOff
<1>7. Wrote(i, m)'
  BY <1>1, <1>2, <1>3, <1>5, SameAround DEF Wrote
<1>8. Guarded(i, m)'
  BY <1>1, <1>3, SameAround DEF Guarded
<1>9. Agreed(i, m)'
  BY <1>0, <1>1, <1>2, <1>5, SameAround DEF Local, Agreed
<1> QED BY <1>6, <1>7, <1>8, <1>9 DEF Local

LEMMA LockMigrationsLocal ==
  ASSUME IInv, NEW i \in Instances, NEW m \in Models, LockMigrations(i, m)
  PROVE  Local(i, m)'
<1>0. TypeOK /\ Local(i, m) /\ Stored(m)
  BY DEF IInv
<1>1. /\ Elsewhere(i, m)
      /\ m \in Executes(i) /\ at[i][m] = "todo" /\ ~IsNew(i, m)
      /\ UNCHANGED <<pending, tables, row, ran>>
      /\ \/ /\ at'[i][m] = "locked" /\ lock' = i /\ seen'[i][m] = Record(i, m)
         \/ /\ at'[i][m] = "ran" /\ ~MigrationTablesExist(i) /\ UNCHANGED <<lock, seen>>
  BY <1>0, LockMigrationsStep
<1>2. /\ tables[i][m] = Unwritten /\ row[i][m] = Unwritten
      /\ m \notin pending[i] /\ m \notin Passed(i)
      /\ Record(i, m) = record[m]
  BY <1>1, Ahead
<1>3. m \in known
  BY <1>1, OldIsKnown
<1>4. Record(i, m)' = record[m]
  BY <1>1, <1>2, SameAround DEF Record
<1>5. Placed(i, m)' /\ Built(i, m)' /\ Wrote(i, m)' /\ SetsOff(i, m)'
  BY <1>1, <1>2, <1>3, SameAround DEF Placed, Built, Wrote, SetsOff
<1>6. CASE at'[i][m] = "locked" /\ lock' = i /\ seen'[i][m] = record[m]
  <2>1. Guarded(i, m)'
    BY <1>1, <1>2, <1>6, SameAround DEF Guarded, Behind
  <2>2. Agreed(i, m)'
    BY <1>0, <1>1, <1>2, <1>3, <1>4, <1>6, SameAround DEF Local, Agreed, Behind
  <2> QED BY <1>5, <2>1, <2>2 DEF Local
<1>7. CASE at'[i][m] = "ran" /\ ~MigrationTablesExist(i) /\ UNCHANGED <<lock, seen>>
  <2>1. IsFirst(m) /\ m \notin Application
    BY <1>1, <1>7, TablesThere
  <2>2. Guarded(i, m)'
    BY <1>1, <2>1, SameAround DEF Guarded
  <2>3. Agreed(i, m)'
    BY <1>0, <1>1, <1>2, <1>3, <1>4, <1>7, <2>1, SameAround DEF Local, Agreed
  <2> QED BY <1>5, <2>2, <2>3 DEF Local
<1> QED BY <1>1, <1>2, <1>6, <1>7

LEMMA ExecuteMigrationsLocal ==
  ASSUME IInv, NEW i \in Instances, NEW m \in Models, ExecuteMigrations(i, m)
  PROVE  Local(i, m)'
<1> DEFINE all == Migrations[i][m]
<1>0. TypeOK /\ Local(i, m) /\ Stored(m)
  BY DEF IInv
<1>1. /\ Elsewhere(i, m)
      /\ at[i][m] = "locked" /\ at'[i][m] = "ran"
      /\ UNCHANGED <<cached, seen, pending, lock, ran>>
      /\ \/ all \subseteq seen[i][m] /\ UNCHANGED <<tables, row>>
         \/ /\ tables'[i][m] = Shape(i, m) \cup (all \ seen[i][m])
            /\ row'[i][m] = seen[i][m] \cup all
  BY <1>0, ExecuteMigrationsStep
<1>2. /\ tables[i][m] = Unwritten /\ row[i][m] = Unwritten
      /\ m \notin pending[i] /\ m \notin Passed(i)
      /\ Record(i, m) = record[m] /\ Shape(i, m) = shape[m]
  BY <1>1, Ahead
<1>3. m \in known /\ shape[m] # Absent /\ m \in Executes(i)
  BY <1>0, <1>1, <1>2 DEF Local, Built, Placed, Stored
<1>4. all \in SUBSET Keys /\ seen[i][m] \in SUBSET Keys /\ shape[m] \in SUBSET Keys
  BY <1>0, <1>1, <1>3, TakesPart DEF TypeOK
<1>5. Behind(i, m)'
  BY <1>1 DEF Behind
<1>6. Placed(i, m)' /\ Built(i, m)' /\ Wrote(i, m)' /\ SetsOff(i, m)'
  BY <1>1, <1>2, <1>3, <1>5, SameAround DEF Placed, Built, Wrote, SetsOff
<1>7. CASE all \subseteq seen[i][m] /\ UNCHANGED <<tables, row>>
  <2>1. Record(i, m)' = record[m]
    BY <1>1, <1>2, <1>7, SameAround DEF Record
  <2>2. Guarded(i, m)'
    BY <1>0, <1>1, <1>2, <1>7, <2>1, SameAround DEF Local, Guarded
  <2>3. Agreed(i, m)'
    BY <1>0, <1>1, <1>2, <1>3, <1>7, <2>1, SameAround DEF Local, Agreed
  <2> QED BY <1>6, <2>2, <2>3 DEF Local
<1>8. CASE /\ tables'[i][m] = shape[m] \cup (all \ seen[i][m])
           /\ row'[i][m] = seen[i][m] \cup all
  <2>1. row'[i][m] # Unwritten
    BY <1>4, <1>8, ExecutionAssumption
  <2>2. Record(i, m)' = seen[i][m] \cup all
    BY <1>8, <2>1 DEF Record
  <2>3. Guarded(i, m)'
    <3> SUFFICES ASSUME ~IsFirst(m) PROVE Guarded(i, m)'
      BY <1>1, SameAround DEF Guarded
    <3>1. lock = i /\ seen[i][m] = record[m] /\ record[m] = shape[m]
      BY <1>0, <1>1 DEF Local, Guarded, Stored
    <3>2. row'[i][m] = tables'[i][m] /\ record[m] \subseteq row'[i][m]
      BY <1>8, <3>1
    <3> QED BY <1>1, <1>8, <2>2, <3>1, <3>2, SameAround DEF Guarded
  <2>4. Agreed(i, m)'
    <3> SUFFICES ASSUME ReleasesAgree, i \in scenario.starting, m \in Release[i], IsFirst(m)
                 PROVE  Agreed(i, m)'
      BY <1>1, SameAround DEF Agreed
    <3>1. shape[m] = all /\ seen[i][m] \subseteq all
      BY <1>0, <1>3 DEF Local, Agreed
    <3>2. tables'[i][m] = all /\ row'[i][m] = all
      BY <1>8, <3>1
    <3> QED BY <1>0, <1>1, <2>2, <3>1, <3>2, SameAround DEF Local, Agreed
  <2> QED BY <1>6, <2>3, <2>4 DEF Local
<1> QED BY <1>1, <1>2, <1>7, <1>8

LEMMA CreateTablesLocal ==
  ASSUME IInv, NEW i \in Instances, NEW m \in Models, CreateTables(i, m)
  PROVE  Local(i, m)'
<1>0. TypeOK /\ Local(i, m) /\ Stored(m)
  BY DEF IInv
<1>1. /\ Elsewhere(i, m)
      /\ at[i][m] = "ran" /\ at'[i][m] = "created"
      /\ UNCHANGED <<cached, seen, pending, lock, row, ran>>
      /\ \/ Shape(i, m) # Absent /\ tables' = tables
         \/ Shape(i, m) = Absent /\ tables'[i][m] = Migrations[i][m]
  BY <1>0, CreateTablesStep
<1>2. m \in Executes(i) /\ m \notin Passed(i)
  BY <1>0, <1>1 DEF Local, Placed
<1>3. /\ Migrations[i][m] # Absent /\ Migrations[i][m] # Unwritten
  BY <1>1, TakesPart, ExecutionAssumption
<1>4. /\ Behind(i, m) /\ Behind(i, m)'
      /\ Record(i, m)' = Record(i, m)
  BY <1>1, SameAround DEF Behind, Record
<1>5. Shape(i, m)' # Absent
  BY <1>1, <1>3, SameAround DEF Shape
<1>6. Placed(i, m)' /\ Built(i, m)' /\ SetsOff(i, m)'
  BY <1>1, <1>2, <1>5, SameAround DEF Placed, Built, SetsOff
<1>7. Wrote(i, m)'
  BY <1>0, <1>1, <1>2, <1>4, SameAround DEF Local, Wrote
<1>8. Guarded(i, m)'
  <2> SUFFICES ASSUME ~IsFirst(m) PROVE Guarded(i, m)'
    BY <1>1, SameAround DEF Guarded
  <2>1. Shape(i, m) # Absent
    BY <1>0, Reads DEF Stored
  <2> QED BY <1>0, <1>1, <1>4, <2>1, SameAround DEF Local, Guarded
<1>9. Agreed(i, m)'
  BY <1>0, <1>1, <1>4, SameAround DEF Local, Agreed
<1> QED BY <1>6, <1>7, <1>8, <1>9 DEF Local

LEMMA PostRunLocal ==
  ASSUME IInv, NEW i \in Instances, NEW m \in Models, PostRun(i, m)
  PROVE  Local(i, m)'
<1>0. TypeOK /\ Local(i, m) /\ Stored(m)
  BY DEF IInv
<1>1. /\ Elsewhere(i, m)
      /\ at[i][m] = "created" /\ at'[i][m] = "done"
      /\ UNCHANGED <<seen, pending, tables, row>>
      /\ m \in WithInit => m \in ran'[i] \/ ~IsNew(i, m) \/ ~MigrationTablesExist(i)
  BY <1>0, PostRunStep
<1>2. m \in Executes(i) /\ m \notin Passed(i)
  BY <1>0, <1>1 DEF Local, Placed
<1>3. /\ Behind(i, m) /\ Behind(i, m)'
      /\ Record(i, m)' = Record(i, m) /\ Shape(i, m)' = Shape(i, m)
  BY <1>1, SameAround DEF Behind, Record, Shape
<1>4. Placed(i, m)' /\ Built(i, m)' /\ Wrote(i, m)'
  BY <1>0, <1>1, <1>2, <1>3, SameAround DEF Local, Placed, Built, Wrote
<1>5. Guarded(i, m)'
  BY <1>0, <1>1, <1>3, SameAround DEF Local, Guarded
<1>6. Agreed(i, m)'
  BY <1>0, <1>1, <1>3, SameAround DEF Local, Agreed
<1>7. SetsOff(i, m)'
  <2> SUFFICES ASSUME m \in WithInit PROVE m \in ran'[i] \/ m \in known
    BY <1>1, SameAround DEF SetsOff
  <2>1. MigrationTablesExist(i)
    BY <1>2, TablesThere, ExecutionAssumption
  <2>2. ~IsNew(i, m) => m \in known
    BY <1>1, OldIsKnown
  <2> QED BY <1>1, <2>1, <2>2
<1> QED BY <1>4, <1>5, <1>6, <1>7 DEF Local

LEMMA PostExecuteLocal ==
  ASSUME IInv, NEW i \in Instances, NEW m \in Models, PostExecute(i, m)
  PROVE  Local(i, m)'
<1>0. TypeOK /\ Local(i, m) /\ Stored(m)
  BY DEF IInv
<1>1. /\ Elsewhere(i, m)
      /\ phase[i] = "post" /\ m \in pending[i]
      /\ UNCHANGED <<at, cached, seen, pending, lock, tables, ran>>
      /\ row'[i][m] = Migrations[i][m]
  BY <1>0, PostExecuteStep
<1>2. IsFirst(m) /\ Behind(i, m) /\ Behind(i, m)'
  BY <1>0, <1>1 DEF Local, Wrote, Behind
<1>3. Migrations[i][m] # Unwritten
  BY <1>2, TakesPart, ExecutionAssumption DEF Behind
<1>4. Record(i, m)' = Migrations[i][m] /\ Shape(i, m)' = Shape(i, m)
  BY <1>1, <1>3, SameAround DEF Record, Shape
<1>5. Placed(i, m)' /\ Built(i, m)' /\ SetsOff(i, m)'
  BY <1>0, <1>1, <1>4, SameAround DEF Local, Placed, Built, SetsOff
<1>6. Wrote(i, m)'
  BY <1>0, <1>1, <1>2, SameAround DEF Local, Wrote
<1>7. Guarded(i, m)'
  BY <1>1, <1>2, SameAround DEF Guarded
<1>8. Agreed(i, m)'
  BY <1>0, <1>1, <1>4, SameAround DEF Local, Agreed
<1> QED BY <1>5, <1>6, <1>7, <1>8 DEF Local

LEMMA MovesLocal ==
  ASSUME IInv, NEW i \in Instances, NEW m \in Models, Moves(i, m)
  PROVE  /\ \A j \in Instances, n \in Models : Local(j, n)'
         /\ \A n \in Models : Stored(n)'
         /\ \A j \in Instances : CacheKnows(j)' /\ Started(j)'
         /\ Remembered'
<1>0. TypeOK
  BY DEF IInv
<1>1. Local(i, m)'
  BY RunNothingLocal, SkipMigrationsLocal, LockMigrationsLocal, ExecuteMigrationsLocal,
     CreateTablesLocal, PostRunLocal, PostExecuteLocal DEF Moves
<1>2. /\ Elsewhere(i, m)
      /\ cached'[i] \in {cached[i], Cache(i)}
      /\ at[i][m] = "done" => at'[i][m] = "done"
      /\ m \in pending[i] => m \in pending'[i]
  BY <1>0, RunNothingStep, SkipMigrationsStep, LockMigrationsStep, ExecuteMigrationsStep,
     CreateTablesStep, PostRunStep, PostExecuteStep DEF Moves
<1>3. \A j \in Instances, n \in Models : Local(j, n)'
  <2> SUFFICES ASSUME NEW j \in Instances, NEW n \in Models PROVE Local(j, n)'
    OBVIOUS
  <2>1. CASE <<j, n>> = <<i, m>>
    BY <1>1, <2>1
  <2>2. CASE <<j, n>> # <<i, m>>
    BY <1>2, <2>2, OthersKeep DEF IInv
  <2> QED BY <2>1, <2>2
<1>4. \A j \in Instances : CacheKnows(j)'
  BY <1>2, CachesKeep
<1> QED BY <1>0, <1>2, <1>3, <1>4, DatabaseKeeps DEF IInv
-----------------------------------------------------------------------------
(***************************************************************************)
(* A process starts, commits, or ends.                                     *)
(***************************************************************************)
LEMMA StartKeeps ==
  ASSUME IInv, NEW i \in Instances, Start(i)
  PROVE  /\ \A j \in Instances, n \in Models : Local(j, n)'
         /\ \A n \in Models : Stored(n)'
         /\ \A j \in Instances : CacheKnows(j)' /\ Started(j)'
         /\ Remembered'
<1>1. /\ phase[i] = "down" /\ phase'[i] = "standard" /\ i \in scenario.starting
      /\ \A j \in Instances : j # i => phase'[j] = phase[j]
      /\ UNCHANGED <<at, cached, seen, pending, lock, tables, row, ran, shape, record,
                     known, inits, scenario, smooth>>
  BY DEF IInv, TypeOK, Start, txVars, database, history
<1>2. /\ ReleasesAgree' <=> ReleasesAgree
      /\ \A n \in Models : IsFirst(n)' <=> IsFirst(n)
  BY <1>1, SameScenario
<1>3. \A j \in Instances, n \in Models :
        /\ Shape(j, n)' = Shape(j, n) /\ Record(j, n)' = Record(j, n)
        /\ Behind(j, n)' <=> Behind(j, n)
  BY <1>1 DEF Shape, Record, Behind
<1>4. Executes(i) = {} /\ Passed(i) = {} /\ Passed(i)' = {}
  BY <1>1 DEF Executes, Passed
<1>5. \A j \in Instances : j # i => Executes(j)' = Executes(j) /\ Passed(j)' = Passed(j)
  BY <1>1, SameTransaction
<1>6. \A n \in Models : at[i][n] = "todo"
  BY <1>4 DEF IInv, Local, Placed
<1>7. ASSUME NEW j \in Instances, NEW n \in Models PROVE Local(j, n)'
  <2>0. Local(j, n)
    BY DEF IInv
  <2>1. Built(j, n)' /\ Guarded(j, n)' /\ Agreed(j, n)' /\ SetsOff(j, n)'
    BY <1>1, <1>2, <1>3, <2>0 DEF Local, Built, Guarded, Agreed, SetsOff
  <2>2. CASE j = i
    <3>1. ~Behind(i, n)
      BY <1>6 DEF Behind
    <3> QED BY <1>1, <1>3, <1>4, <1>6, <2>0, <2>1, <2>2, <3>1 DEF Local, Placed, Wrote
  <2>3. CASE j # i
    <3>1. Placed(j, n)'
      BY <1>1, <1>5, <2>0, <2>3 DEF Local, Placed
    <3>2. Wrote(j, n)'
      BY <1>1, <1>2, <1>3, <1>5, <2>0, <2>3 DEF Local, Wrote
    <3> QED BY <2>1, <3>1, <3>2 DEF Local
  <2> QED BY <2>2, <2>3
<1>8. ASSUME NEW n \in Models PROVE Stored(n)'
  <2>1. Stored(n)
    BY DEF IInv
  <2> QED BY <1>1, <1>2, <2>1 DEF Stored
<1>9. ASSUME NEW j \in Instances PROVE CacheKnows(j)' /\ Started(j)'
  <2>1. CacheKnows(j) /\ Started(j)
    BY DEF IInv
  <2>2. Knows(j) \subseteq Knows(j)'
    BY <1>1, <1>4, <1>5 DEF Knows
  <2>3. CacheKnows(j)'
    BY <1>1, <1>2, <2>1, <2>2 DEF CacheKnows
  <2>4. Started(j)'
    BY <1>1, <2>1 DEF Started
  <2> QED BY <2>3, <2>4
<1>10. Remembered'
  <2>1. \A n \in Models : Owed(n) => Owed(n)'
    BY <1>1 DEF Owed
  <2>2. known \subseteq Models
    BY DEF IInv, TypeOK
  <2> QED BY <1>1, <1>2, <2>1, <2>2 DEF IInv, Remembered
<1> QED BY <1>7, <1>8, <1>9, <1>10

LEMMA ExitStep ==
  ASSUME TypeOK, NEW i \in Instances, Exit(i)
  PROVE  /\ phase'[i] = "down" /\ cached'[i] = Unwritten
         /\ smooth' = FALSE
         /\ UNCHANGED <<shape, record, known, inits, scenario>>
         /\ \A n \in Models : /\ at'[i][n] = "todo" /\ seen'[i][n] = {}
                              /\ tables'[i][n] = Unwritten /\ row'[i][n] = Unwritten
                              /\ n \notin pending'[i]
         /\ \A j \in Instances : j # i =>
              /\ phase'[j] = phase[j] /\ cached'[j] = cached[j]
              /\ at'[j] = at[j] /\ seen'[j] = seen[j]
              /\ tables'[j] = tables[j] /\ row'[j] = row[j]
              /\ pending'[j] = pending[j] /\ ran'[j] = ran[j]
              /\ lock = j => lock' = j
BY DEF Exit, NothingWritten, FreesLock, TypeOK, Written, database

LEMMA ExitKeeps ==
  ASSUME IInv, NEW i \in Instances, Exit(i)
  PROVE  /\ \A j \in Instances, n \in Models : Local(j, n)'
         /\ \A n \in Models : Stored(n)'
         /\ \A j \in Instances : CacheKnows(j)' /\ Started(j)'
         /\ Remembered'
<1>1. /\ phase'[i] = "down" /\ cached'[i] = Unwritten
      /\ smooth' = FALSE
      /\ UNCHANGED <<shape, record, known, inits, scenario>>
      /\ \A n \in Models : /\ at'[i][n] = "todo" /\ seen'[i][n] = {}
                           /\ tables'[i][n] = Unwritten /\ row'[i][n] = Unwritten
                           /\ n \notin pending'[i]
  BY ExitStep DEF IInv
<1>2. \A j \in Instances : j # i =>
        /\ phase'[j] = phase[j] /\ cached'[j] = cached[j]
        /\ at'[j] = at[j] /\ seen'[j] = seen[j]
        /\ tables'[j] = tables[j] /\ row'[j] = row[j]
        /\ pending'[j] = pending[j] /\ ran'[j] = ran[j]
        /\ lock = j => lock' = j
  BY ExitStep DEF IInv
<1>3. /\ ReleasesAgree' <=> ReleasesAgree
      /\ \A n \in Models : IsFirst(n)' <=> IsFirst(n)
  BY <1>1, SameScenario
<1>4. Passed(i)' = {}
  BY <1>1 DEF Passed
<1>5. ASSUME NEW n \in Models PROVE Local(i, n)'
  <2>1. ~Behind(i, n)'
    BY <1>1 DEF Behind
  <2>2. Placed(i, n)' /\ Built(i, n)' /\ Wrote(i, n)' /\ SetsOff(i, n)'
    BY <1>1, <1>4 DEF Placed, Built, Wrote, SetsOff
  <2>3. Guarded(i, n)'
    BY <1>1, <2>1 DEF Guarded
  <2>4. Agreed(i, n)
    BY DEF IInv, Local
  <2>5. Agreed(i, n)'
    BY <1>1, <1>3, <2>1, <2>4 DEF Agreed
  <2> QED BY <2>2, <2>3, <2>5 DEF Local
<1>6. ASSUME NEW j \in Instances, j # i, NEW n \in Models PROVE Local(j, n)'
  <2>0. Local(j, n)
    BY DEF IInv
  <2>1. Executes(j)' = Executes(j) /\ Passed(j)' = Passed(j) /\ phase'[j] = phase[j]
    BY <1>2, <1>6, SameTransaction
  <2>2. /\ at'[j][n] = at[j][n] /\ seen'[j][n] = seen[j][n]
        /\ tables'[j][n] = tables[j][n] /\ row'[j][n] = row[j][n]
        /\ pending'[j] = pending[j] /\ ran'[j] = ran[j]
        /\ lock = j => lock' = j
    BY <1>2, <1>6
  <2>3. /\ Shape(j, n)' = Shape(j, n) /\ Record(j, n)' = Record(j, n)
        /\ Behind(j, n)' <=> Behind(j, n)
    BY <1>1, <2>2 DEF Shape, Record, Behind
  <2>4. Placed(j, n)' /\ Built(j, n)'
    BY <1>1, <2>0, <2>1, <2>2, <2>3 DEF Local, Placed, Built
  <2>5. Wrote(j, n)' /\ SetsOff(j, n)'
    BY <1>1, <1>3, <2>0, <2>1, <2>2, <2>3 DEF Local, Wrote, SetsOff
  <2>6. Guarded(j, n)'
    BY <1>1, <1>3, <2>0, <2>2, <2>3 DEF Local, Guarded
  <2>7. Agreed(j, n)'
    BY <1>1, <1>3, <2>0, <2>2, <2>3 DEF Local, Agreed
  <2> QED BY <2>4, <2>5, <2>6, <2>7 DEF Local
<1>7. ASSUME NEW n \in Models PROVE Stored(n)'
  <2>1. Stored(n)
    BY DEF IInv
  <2> QED BY <1>1, <1>3, <2>1 DEF Stored
<1>8. ASSUME NEW j \in Instances PROVE CacheKnows(j)' /\ Started(j)'
  <2>1. CASE j = i
    BY <1>1, <2>1 DEF CacheKnows, Started
  <2>2. CASE j # i
    <3>1. CacheKnows(j) /\ Started(j)
      BY DEF IInv
    <3>2. Knows(j)' = Knows(j)
      BY <1>1, <1>2, <2>2, SameTransaction DEF Knows
    <3>3. cached'[j] = cached[j] /\ phase'[j] = phase[j] /\ scenario' = scenario
      BY <1>1, <1>2, <2>2
    <3>4. CacheKnows(j)'
      BY <1>3, <3>1, <3>2, <3>3 DEF CacheKnows
    <3>5. Started(j)'
      BY <3>1, <3>3 DEF Started
    <3> QED BY <3>4, <3>5
  <2> QED BY <2>1, <2>2
<1>9. Remembered'
  BY <1>1 DEF Remembered
<1> QED BY <1>5, <1>6, <1>7, <1>8, <1>9

LEMMA CommitStep ==
  ASSUME TypeOK, NEW i \in Instances, Commit(i)
  PROVE  /\ phase[i] \in Phases \ {"down", "up"}
         /\ \A m \in Executes(i) : at[i][m] = "done"
         /\ phase[i] = "post" => \A m \in pending[i] : row[i][m] # Unwritten
         /\ phase'[i] = After(phase[i])
         /\ \A n \in Models :
              /\ shape'[n] = Shape(i, n) /\ record'[n] = Record(i, n)
              /\ inits'[n] = IF n \in ran[i] THEN inits[n] + 1 ELSE inits[n]
              /\ tables'[i][n] = Unwritten /\ row'[i][n] = Unwritten
         /\ known' = known \cup Executes(i)
         /\ UNCHANGED <<at, cached, seen, pending, scenario, smooth>>
         /\ \A j \in Instances : j # i =>
              /\ phase'[j] = phase[j]
              /\ tables'[j] = tables[j] /\ row'[j] = row[j] /\ ran'[j] = ran[j]
              /\ lock = j => lock' = j
<1>1. phase' = [phase EXCEPT ![i] = After(@)] /\ phase \in [Instances -> Phases]
  BY DEF Commit, TypeOK
<1>2. /\ phase'[i] = After(phase[i])
      /\ \A j \in Instances : j # i => phase'[j] = phase[j]
  BY <1>1
<1>3. /\ \A n \in Models : tables'[i][n] = Unwritten /\ row'[i][n] = Unwritten
      /\ \A j \in Instances : j # i =>
           tables'[j] = tables[j] /\ row'[j] = row[j] /\ ran'[j] = ran[j]
  BY DEF Commit, NothingWritten, TypeOK, Written
<1>4. \A n \in Models :
        /\ shape'[n] = Shape(i, n) /\ record'[n] = Record(i, n)
        /\ inits'[n] = IF n \in ran[i] THEN inits[n] + 1 ELSE inits[n]
  BY DEF Commit
<1>5. \A j \in Instances : j # i => (lock = j => lock' = j)
  BY DEF Commit, FreesLock
<1>6. /\ phase[i] \in Phases \ {"down", "up"}
      /\ \A m \in Executes(i) : at[i][m] = "done"
      /\ phase[i] = "post" => \A m \in pending[i] : row[i][m] # Unwritten
  BY DEF Commit, Unset
<1>7. /\ known' = known \cup Executes(i)
      /\ UNCHANGED <<at, cached, seen, pending, scenario, smooth>>
  BY DEF Commit, history
<1> QED BY <1>2, <1>3, <1>4, <1>5, <1>6, <1>7

\* The transaction after a commit, and what it was committed of a model.
LEMMA CommitMovesOn ==
  ASSUME IInv, NEW i \in Instances, Commit(i)
  PROVE  /\ Passed(i)' = Passed(i) \cup Executes(i)
         /\ phase[i] # "post" => phase'[i] \notin {"down", "up"}
         /\ phase[i] = "post" => Executes(i) = {}
         /\ phase'[i] # "down"
<1>1. phase[i] \in Phases \ {"down", "up"} /\ phase'[i] = After(phase[i])
  BY CommitStep DEF IInv
<1>2. CASE phase[i] = "standard"
  <2>1. phase'[i] = "migrations"
    BY <1>1, <1>2 DEF After
  <2> QED BY <1>2, <2>1 DEF Passed, Executes
<1>3. CASE phase[i] = "migrations"
  <2>1. phase'[i] = "application"
    BY <1>1, <1>3 DEF After
  <2> QED BY <1>3, <2>1 DEF Passed, Executes
<1>4. CASE phase[i] = "application"
  <2>1. phase'[i] = "post"
    BY <1>1, <1>4 DEF After
  <2> QED BY <1>4, <2>1 DEF Passed, Executes
<1>5. CASE phase[i] = "post"
  <2>1. phase'[i] = "up"
    BY <1>1, <1>5 DEF After
  <2> QED BY <1>5, <2>1 DEF Passed, Executes
<1> QED BY <1>1, <1>2, <1>3, <1>4, <1>5 DEF Phases

\* All that a transaction has written is known from its commit on.
LEMMA CommitMakesKnown ==
  ASSUME IInv, NEW i \in Instances, Commit(i), NEW n \in Models
  PROVE  /\ Behind(i, n) => n \in known'
         /\ n \in known' => Shape(i, n) # Absent
         /\ n \notin known' => Shape(i, n) = Absent /\ Record(i, n) = {}
<1>1. Local(i, n) /\ Stored(n) /\ TypeOK
  BY DEF IInv
<1>2. /\ \A m \in Executes(i) : at[i][m] = "done"
      /\ known' = known \cup Executes(i)
  BY CommitStep DEF IInv
<1>3. n \in Executes(i) => n \in known' /\ Shape(i, n) # Absent
  BY <1>1, <1>2 DEF Local, Built
<1>4. n \notin Executes(i) => Shape(i, n) = shape[n]
  BY <1>1 DEF Local, Wrote, Shape
<1>5. Behind(i, n) => n \in Executes(i) \/ at[i][n] = "done"
  BY <1>1 DEF Local, Placed, Behind
<1>6. Behind(i, n) => n \in known'
  BY <1>1, <1>2, <1>3, <1>4, <1>5 DEF Local, Built, Stored
<1>7. n \in known' => Shape(i, n) # Absent
  BY <1>1, <1>2, <1>3, <1>4 DEF Stored
<1>8. n \notin known' => Shape(i, n) = Absent /\ Record(i, n) = {}
  <2> SUFFICES ASSUME n \notin known' PROVE Shape(i, n) = Absent /\ Record(i, n) = {}
    OBVIOUS
  <2>1. n \notin known /\ n \notin Executes(i) /\ ~Behind(i, n)
    BY <1>2, <1>6
  <2>2. shape[n] = Absent /\ record[n] = {} /\ row[i][n] = Unwritten
    BY <1>1, <2>1 DEF Local, Wrote, Stored
  <2> QED BY <1>4, <2>1, <2>2 DEF Record
<1> QED BY <1>6, <1>7, <1>8

\* Of a new model on which the releases agree, a commit leaves all or nothing,
\* in the eyes of any process that has it.
LEMMA CommitAgrees ==
  ASSUME IInv, NEW i \in Instances, Commit(i), NEW j \in Instances, NEW n \in Models,
         ReleasesAgree, IsFirst(n), j \in scenario.starting, n \in Release[j]
  PROVE  /\ Shape(i, n) \in {Absent, Migrations[j][n]}
         /\ Record(i, n) \in {{}, Migrations[j][n]}
         /\ record[n] = Migrations[j][n] => Record(i, n) = Migrations[j][n]
         /\ n \in known' /\ n \in Application => Record(i, n) = Migrations[j][n]
<1> DEFINE all == Migrations[j][n]
<1>1. /\ shape[n] \in {Absent, all} /\ record[n] \in {{}, all}
      /\ n \in Application /\ n \in known => record[n] = all
  BY DEF IInv, Local, Agreed
<1>2. Local(i, n) /\ Agreed(i, n)
  BY DEF IInv, Local
<1>3. ASSUME Behind(i, n)
      PROVE  /\ tables[i][n] \in {Unwritten, all} /\ row[i][n] \in {Unwritten, all}
             /\ n \in Application => Record(i, n) = all
  <2>1. n \in Release[i] /\ i \in scenario.starting
    BY <1>3, TakesPart DEF Behind
  <2>2. Migrations[i][n] = all
    BY <2>1 DEF ReleasesAgree
  <2> QED BY <1>2, <1>3, <2>1, <2>2 DEF Agreed
<1>4. ~Behind(i, n) => tables[i][n] = Unwritten /\ row[i][n] = Unwritten
  BY <1>2 DEF Local, Wrote
<1>5. Shape(i, n) \in {Absent, all}
  BY <1>1, <1>3, <1>4 DEF Shape
<1>6. Record(i, n) \in {{}, all} /\ (record[n] = all => Record(i, n) = all)
  BY <1>1, <1>3, <1>4 DEF Record
<1>7. n \in known' => n \in known \/ Behind(i, n)
  BY CommitStep DEF IInv, Behind
<1>8. n \in known' /\ n \in Application => Record(i, n) = all
  BY <1>1, <1>3, <1>6, <1>7
<1> QED BY <1>5, <1>6, <1>8

\* A model that was there before never loses a record.
LEMMA CommitGuards ==
  ASSUME IInv, NEW i \in Instances, NEW n \in Models, ~IsFirst(n)
  PROVE  /\ Record(i, n) = Shape(i, n)
         /\ record[n] \subseteq Record(i, n)
         /\ lock # i => Record(i, n) = record[n]
<1>1. Local(i, n) /\ Stored(n)
  BY DEF IInv
<1> QED BY <1>1 DEF Local, Guarded, Stored, Record, Shape

LEMMA CommitLocalOther ==
  ASSUME IInv, NEW i \in Instances, Commit(i),
         NEW j \in Instances, j # i, NEW n \in Models
  PROVE  Local(j, n)'
<1>0. Local(j, n) /\ TypeOK
  BY DEF IInv
<1>1. /\ shape'[n] = Shape(i, n) /\ record'[n] = Record(i, n)
      /\ at'[j][n] = at[j][n] /\ seen'[j][n] = seen[j][n]
      /\ tables'[j][n] = tables[j][n] /\ row'[j][n] = row[j][n]
      /\ pending' = pending /\ ran'[j] = ran[j] /\ phase'[j] = phase[j]
      /\ known \subseteq known' /\ scenario' = scenario
      /\ lock = j => lock' = j
  BY <1>0, CommitStep
<1>2. /\ Executes(j)' = Executes(j) /\ Passed(j)' = Passed(j)
      /\ ReleasesAgree' <=> ReleasesAgree
      /\ IsFirst(n)' <=> IsFirst(n)
      /\ Behind(j, n)' <=> Behind(j, n)
  BY <1>1, SameTransaction, SameScenario DEF Behind
<1>3. Placed(j, n)'
  BY <1>0, <1>1, <1>2 DEF Local, Placed
<1>4. Built(j, n)'
  <2>1. shape[n] # Absent => Shape(i, n) # Absent
    BY <1>0, Reads
  <2>2. tables[j][n] # Unwritten => tables[j][n] # Absent
    BY <1>0, Reads DEF Shape
  <2>3. Shape(j, n) # Absent => Shape(j, n)' # Absent
    BY <1>1, <2>1, <2>2 DEF Shape
  <2> QED BY <1>0, <1>1, <2>3 DEF Local, Built
<1>5. Wrote(j, n)'
  BY <1>0, <1>1, <1>2 DEF Local, Wrote
<1>6. Guarded(j, n)'
  <2> SUFFICES ASSUME ~IsFirst(n) PROVE Guarded(j, n)'
    BY <1>2 DEF Guarded
  <2>1. lock = j => record'[n] = record[n]
    BY <1>1, CommitGuards
  <2>2. Record(j, n) \subseteq Record(j, n)'
    BY <1>1, CommitGuards DEF Record
  <2> QED BY <1>0, <1>1, <1>2, <2>1, <2>2 DEF Local, Guarded
<1>7. Agreed(j, n)'
  <2> SUFFICES ASSUME ReleasesAgree, j \in scenario.starting, n \in Release[j], IsFirst(n)
               PROVE  Agreed(j, n)'
    BY <1>1, <1>2 DEF Agreed
  <2> DEFINE all == Migrations[j][n]
  <2>1. /\ shape'[n] \in {Absent, all} /\ record'[n] \in {{}, all}
        /\ record[n] = all => record'[n] = all
        /\ n \in known' /\ n \in Application => record'[n] = all
    BY <1>1, CommitAgrees
  <2>2. Record(j, n) = all => Record(j, n)' = all
    BY <1>1, <2>1 DEF Record
  <2> QED BY <1>0, <1>1, <1>2, <2>1, <2>2 DEF Local, Agreed
<1>8. SetsOff(j, n)'
  BY <1>0, <1>1, <1>2 DEF Local, SetsOff
<1> QED BY <1>3, <1>4, <1>5, <1>6, <1>7, <1>8 DEF Local

LEMMA CommitLocalOwn ==
  ASSUME IInv, NEW i \in Instances, Commit(i), NEW n \in Models
  PROVE  Local(i, n)'
<1>0. Local(i, n) /\ TypeOK
  BY DEF IInv
<1>1. /\ shape'[n] = Shape(i, n) /\ record'[n] = Record(i, n)
      /\ tables'[i][n] = Unwritten /\ row'[i][n] = Unwritten
      /\ at' = at /\ seen' = seen /\ pending' = pending
      /\ known' = known \cup Executes(i) /\ scenario' = scenario
      /\ \A m \in Executes(i) : at[i][m] = "done"
  BY <1>0, CommitStep
<1>2. /\ ReleasesAgree' <=> ReleasesAgree
      /\ IsFirst(n)' <=> IsFirst(n)
      /\ Behind(i, n)' <=> Behind(i, n)
  BY <1>1, SameScenario DEF Behind
<1>3. Passed(i)' = Passed(i) \cup Executes(i)
  BY CommitMovesOn
<1>4. Shape(i, n)' = Shape(i, n) /\ Record(i, n)' = Record(i, n)
  BY <1>1 DEF Shape, Record
<1>5. at[i][n] # "locked"
  BY <1>0, <1>1 DEF Local, Placed
<1>6. Placed(i, n)'
  BY <1>0, <1>1, <1>3 DEF Local, Placed
<1>7. Built(i, n)' /\ Wrote(i, n)'
  BY <1>0, <1>1, <1>2, <1>4, <1>5 DEF Local, Built, Wrote
<1>8. Guarded(i, n)'
  BY <1>0, <1>1, <1>2, <1>4, <1>5 DEF Local, Guarded
<1>9. Agreed(i, n)'
  <2> SUFFICES ASSUME ReleasesAgree, i \in scenario.starting, n \in Release[i], IsFirst(n)
               PROVE  Agreed(i, n)'
    BY <1>1, <1>2 DEF Agreed
  <2> DEFINE all == Migrations[i][n]
  <2>1. /\ shape'[n] \in {Absent, all} /\ record'[n] \in {{}, all}
        /\ n \in known' /\ n \in Application => record'[n] = all
    BY <1>1, CommitAgrees
  <2>2. known \subseteq known'
    BY <1>1
  <2> QED BY <1>0, <1>1, <1>2, <1>4, <1>5, <2>1, <2>2 DEF Local, Agreed
<1>10. SetsOff(i, n)'
  BY <1>1, <1>2, CommitMakesKnown DEF SetsOff, Behind
<1> QED BY <1>6, <1>7, <1>8, <1>9, <1>10 DEF Local

LEMMA CommitStored ==
  ASSUME IInv, NEW i \in Instances, Commit(i), NEW n \in Models
  PROVE  Stored(n)'
<1>0. Local(i, n) /\ Stored(n) /\ TypeOK
  BY DEF IInv
<1>1. /\ shape'[n] = Shape(i, n) /\ record'[n] = Record(i, n)
      /\ inits'[n] = IF n \in ran[i] THEN inits[n] + 1 ELSE inits[n]
      /\ known' = known \cup Executes(i) /\ scenario' = scenario
      /\ \A m \in Executes(i) : at[i][m] = "done"
  BY <1>0, CommitStep
<1>2. (ReleasesAgree' <=> ReleasesAgree) /\ (IsFirst(n)' <=> IsFirst(n))
  BY <1>1, SameScenario
<1>3. (n \in known' <=> shape'[n] # Absent) /\ (record'[n] # {} => n \in known')
  BY <1>1, CommitMakesKnown
<1>4. ~IsFirst(n) => n \in known' /\ record'[n] = shape'[n]
  BY <1>0, <1>1, CommitGuards DEF Stored
<1>5. ASSUME n \in WithInit, IsFirst(n), n \in known' PROVE inits'[n] >= 1
  <2>1. inits[n] \in Nat
    BY <1>0 DEF TypeOK
  <2>2. n \in ran[i] \/ inits[n] >= 1
    BY <1>0, <1>1, <1>5 DEF Local, SetsOff, Stored
  <2> QED BY <1>1, <2>1, <2>2
<1>6. ASSUME ReleasesAgree, record'[n] # {} PROVE record'[n] \subseteq shape'[n]
  <2>1. CASE ~IsFirst(n)
    BY <1>4, <2>1
  <2>2. CASE IsFirst(n) /\ Behind(i, n)
    <3>1. n \in Release[i] /\ i \in scenario.starting
      BY <2>2, TakesPart DEF Behind
    <3>2. /\ shape'[n] \in {Absent, Migrations[i][n]}
          /\ record'[n] \in {{}, Migrations[i][n]}
      BY <1>1, <1>6, <2>2, <3>1, CommitAgrees
    <3> QED BY <1>3, <1>6, <3>2
  <2>3. CASE ~Behind(i, n)
    <3>1. shape'[n] = shape[n] /\ record'[n] = record[n]
      BY <1>0, <1>1, <2>3 DEF Local, Wrote, Shape, Record
    <3> QED BY <1>0, <1>6, <3>1 DEF Stored
  <2> QED BY <2>1, <2>2, <2>3
<1> QED BY <1>2, <1>3, <1>4, <1>5, <1>6 DEF Stored

LEMMA CommitCaches ==
  ASSUME IInv, NEW i \in Instances, Commit(i), NEW j \in Instances
  PROVE  CacheKnows(j)' /\ Started(j)'
<1>0. CacheKnows(j) /\ Started(j) /\ TypeOK
  BY DEF IInv
<1>1. /\ known' = known \cup Executes(i) /\ scenario' = scenario
      /\ at' = at /\ cached' = cached
      /\ j # i => phase'[j] = phase[j]
  BY <1>0, CommitStep
<1>2. \A n \in Models : IsFirst(n)' <=> IsFirst(n)
  BY <1>1, SameScenario
<1>3. Knows(j) \subseteq Knows(j)'
  <2>1. CASE j = i
    BY <1>1, <2>1 DEF Knows
  <2>2. CASE j # i
    BY <1>1, <2>2, SameTransaction DEF Knows
  <2> QED BY <2>1, <2>2
<1>4. CacheKnows(j)'
  BY <1>0, <1>1, <1>2, <1>3 DEF CacheKnows
<1>5. Started(j)'
  <2>1. CASE j = i
    <3>1. phase[i] # "down"
      BY <1>0, CommitStep
    <3> QED BY <1>0, <1>1, <2>1, <3>1 DEF Started
  <2>2. CASE j # i
    BY <1>0, <1>1, <2>2 DEF Started
  <2> QED BY <2>1, <2>2
<1> QED BY <1>4, <1>5

LEMMA CommitRemembers ==
  ASSUME IInv, NEW i \in Instances, Commit(i)
  PROVE  Remembered'
<1>0. TypeOK /\ Remembered
  BY DEF IInv
<1>1. /\ known' = known \cup Executes(i) /\ scenario' = scenario /\ smooth' = smooth
      /\ pending' = pending
      /\ \A j \in Instances : j # i => phase'[j] = phase[j]
      /\ \A n \in Models : shape'[n] = Shape(i, n) /\ record'[n] = Record(i, n)
      /\ \A m \in Executes(i) : at[i][m] = "done"
      /\ phase[i] = "post" => \A m \in pending[i] : row[i][m] # Unwritten
  BY <1>0, CommitStep
<1>2. known' \subseteq Models
  BY <1>0, <1>1, OfTheRelease DEF TypeOK
<1>3. ReleasesAgree' <=> ReleasesAgree
  BY <1>1, SameScenario
<1> SUFFICES ASSUME ReleasesAgree, smooth, NEW n \in known', n \in Models, IsFirst(n)'
             PROVE  record'[n] = shape'[n] \/ Owed(n)'
  BY <1>1, <1>2, <1>3 DEF Remembered
<1>4. IsFirst(n) /\ Local(i, n) /\ Stored(n)
  BY <1>1 DEF IInv, IsFirst
<1>5. shape'[n] # Absent
  BY <1>1, CommitMakesKnown
<1>6. ASSUME NEW j \in Instances, j # i \/ phase[i] # "post",
             phase[j] \notin {"down", "up"}, n \in pending[j]
      PROVE  Owed(n)'
  <2>1. phase'[j] \notin {"down", "up"}
    BY <1>1, <1>6, CommitMovesOn
  <2> QED BY <1>1, <1>6, <2>1 DEF Owed
<1>7. CASE Behind(i, n)
  <2>1. n \in Release[i] /\ i \in scenario.starting
    BY <1>7, TakesPart DEF Behind
  <2> DEFINE all == Migrations[i][n]
  <2>2. /\ shape'[n] = all
        /\ record[n] = all => record'[n] = all
    BY <1>1, <1>4, <1>5, <2>1, CommitAgrees
  <2>3. Record(i, n) = all \/ n \in pending[i] \/ n \in known
    BY <1>4, <1>7, <2>1 DEF Local, Agreed
  <2>4. CASE Record(i, n) = all
    BY <1>1, <2>2, <2>4
  <2>5. CASE n \in pending[i]
    <3>1. CASE phase[i] = "post"
      <4>1. row[i][n] # Unwritten /\ row[i][n] \in {Unwritten, all}
        BY <1>1, <1>4, <2>1, <2>5, <3>1 DEF Local, Agreed
      <4> QED BY <1>1, <2>2, <4>1 DEF Record
    <3>2. CASE phase[i] # "post"
      BY <1>6, <2>5, <3>2, <1>0, CommitStep
    <3> QED BY <3>1, <3>2
  <2>6. CASE n \in known /\ n \notin pending[i]
    <3>1. record[n] = shape[n] \/ Owed(n)
      BY <1>0, <1>4, <2>6 DEF Remembered
    <3>2. CASE record[n] = shape[n]
      <4>1. shape[n] = all
        BY <1>4, <2>1, <2>6 DEF Local, Agreed, Stored
      <4> QED BY <2>2, <3>2, <4>1
    <3>3. CASE Owed(n)
      BY <1>6, <2>6, <3>3 DEF Owed
    <3> QED BY <3>1, <3>2, <3>3
  <2> QED BY <2>3, <2>4, <2>5, <2>6
<1>8. CASE ~Behind(i, n)
  <2>1. shape'[n] = shape[n] /\ record'[n] = record[n] /\ n \notin pending[i]
    BY <1>1, <1>4, <1>8 DEF Local, Wrote, Shape, Record
  <2>2. n \in known
    BY <1>4, <1>5, <2>1 DEF Stored
  <2>3. record[n] = shape[n] \/ Owed(n)
    BY <1>0, <1>4, <2>2 DEF Remembered
  <2> QED BY <1>6, <2>1, <2>3 DEF Owed
<1> QED BY <1>7, <1>8
-----------------------------------------------------------------------------
(***************************************************************************)
(* The values that the variables have.                                     *)
(***************************************************************************)
\* All of TypeOK but what a commit makes of the database.
LEMMA CacheType ==
  ASSUME TypeOK, NEW i \in Instances
  PROVE  [cached EXCEPT ![i] = Cache(i)] \in [Instances -> (SUBSET Models) \cup {Unwritten}]
<1>1. Knows(i) \in SUBSET Models
  BY OfTheRelease DEF TypeOK, Knows
<1>2. cached[i] \in (SUBSET Models) \cup {Unwritten}
  BY DEF TypeOK
<1>3. Cache(i) \in (SUBSET Models) \cup {Unwritten}
  BY <1>1, <1>2 DEF Cache
<1> QED BY <1>3 DEF TypeOK

LEMMA WriteType ==
  ASSUME NEW i \in Instances, NEW m \in Models, NEW S \in SUBSET Keys,
         tables \in Written(SUBSET Keys), row \in Written(SUBSET Keys)
  PROVE  /\ [tables EXCEPT ![i][m] = S] \in Written(SUBSET Keys)
         /\ [row EXCEPT ![i][m] = S] \in Written(SUBSET Keys)
<1> DEFINE Values == (SUBSET Keys) \cup {Unwritten}
<1>1. S \in Values
  OBVIOUS
<1>2. tables \in [Instances -> [Models -> Values]] /\ row \in [Instances -> [Models -> Values]]
  BY DEF Written
<1> HIDE DEF Values
<1>3. /\ [tables EXCEPT ![i][m] = S] \in [Instances -> [Models -> Values]]
      /\ [row EXCEPT ![i][m] = S] \in [Instances -> [Models -> Values]]
  BY <1>1, <1>2
<1> QED BY <1>3 DEF Values, Written

LEMMA NothingType ==
  ASSUME TypeOK, NEW i \in Instances
  PROVE  /\ [tables EXCEPT ![i] = [m \in Models |-> Unwritten]] \in Written(SUBSET Keys)
         /\ [row EXCEPT ![i] = [m \in Models |-> Unwritten]] \in Written(SUBSET Keys)
<1> DEFINE Values == (SUBSET Keys) \cup {Unwritten}
<1>1. Unwritten \in Values
  OBVIOUS
<1>2. tables \in [Instances -> [Models -> Values]] /\ row \in [Instances -> [Models -> Values]]
  BY DEF TypeOK, Written
<1> HIDE DEF Values
<1>3. /\ [tables EXCEPT ![i] = [m \in Models |-> Unwritten]] \in [Instances -> [Models -> Values]]
      /\ [row EXCEPT ![i] = [m \in Models |-> Unwritten]] \in [Instances -> [Models -> Values]]
  BY <1>1, <1>2
<1> QED BY <1>3 DEF Values, Written

LEMMA LockType ==
  ASSUME TypeOK, NEW i \in Instances, TakesLock(i) \/ FreesLock(i) \/ UNCHANGED lock
  PROVE  lock' \in Instances \cup {Unwritten}
BY DEF TypeOK, TakesLock, FreesLock

LEMMA AtType ==
  ASSUME TypeOK, NEW i \in Instances, NEW m \in Models, NEW step \in Steps, To(i, m, step)
  PROVE  at' \in [Instances -> [Models -> Steps]]
BY DEF TypeOK, To

LEMMA NextType == IInv /\ [Next]_vars => TypeOK'
<1> SUFFICES ASSUME IInv, [Next]_vars PROVE TypeOK'
  OBVIOUS
<1>0. TypeOK
  BY DEF IInv
<1>1. ASSUME NEW i \in Instances, Start(i) PROVE TypeOK'
  BY <1>0, <1>1 DEF Start, TypeOK, Phases, txVars, database, history
<1>2. ASSUME NEW i \in Instances, Exit(i) PROVE TypeOK'
  <2>1. tables' \in Written(SUBSET Keys) /\ row' \in Written(SUBSET Keys)
    BY <1>0, <1>2, NothingType DEF Exit, NothingWritten
  <2>2. lock' \in Instances \cup {Unwritten}
    BY <1>0, <1>2, LockType DEF Exit
  <2>3. /\ phase' \in [Instances -> Phases]
        /\ at' \in [Instances -> [Models -> Steps]]
        /\ cached' \in [Instances -> (SUBSET Models) \cup {Unwritten}]
        /\ seen' \in [Instances -> [Models -> SUBSET Keys]]
        /\ pending' \in [Instances -> SUBSET (Models \ Application)]
        /\ ran' \in [Instances -> SUBSET WithInit]
    BY <1>0, <1>2 DEF Exit, NothingWritten, TypeOK, Phases, Steps
  <2>4. UNCHANGED <<shape, record, known, inits, scenario>> /\ smooth' \in BOOLEAN
    BY <1>2 DEF Exit, database
  <2> QED BY <1>0, <2>1, <2>2, <2>3, <2>4 DEF TypeOK
<1>3. ASSUME NEW i \in Instances, Commit(i) PROVE TypeOK'
  <2>1. tables' \in Written(SUBSET Keys) /\ row' \in Written(SUBSET Keys)
    BY <1>0, <1>3, NothingType DEF Commit, NothingWritten
  <2>2. lock' \in Instances \cup {Unwritten}
    BY <1>0, <1>3, LockType DEF Commit
  <2>3. phase' \in [Instances -> Phases]
    <3>1. After(phase[i]) \in Phases
      BY <1>3 DEF Commit, After, Phases
    <3> QED BY <1>0, <1>3, <3>1 DEF Commit, TypeOK
  <2>4. shape' \in [Models -> (SUBSET Keys) \cup {Absent}] /\ record' \in [Models -> SUBSET Keys]
    BY <1>0, <1>3, Reads DEF Commit
  <2>5. inits' \in [Models -> Nat] /\ ran' \in [Instances -> SUBSET WithInit]
    BY <1>0, <1>3 DEF Commit, NothingWritten, TypeOK
  <2>6. known' \in SUBSET Models
    BY <1>0, <1>3, OfTheRelease DEF Commit, TypeOK
  <2>7. UNCHANGED <<at, cached, seen, pending, scenario, smooth>>
    BY <1>3 DEF Commit, history
  <2> QED BY <1>0, <2>1, <2>2, <2>3, <2>4, <2>5, <2>6, <2>7 DEF TypeOK
<1>4. ASSUME NEW i \in Instances, NEW m \in Models, RunNothing(i, m) PROVE TypeOK'
  <2>1. at' \in [Instances -> [Models -> Steps]]
    BY <1>0, <1>4, AtType DEF RunNothing, Steps
  <2> QED BY <1>0, <1>4, <2>1 DEF RunNothing, TypeOK, txVars, database, history
<1>5. ASSUME NEW i \in Instances, NEW m \in Models, SkipMigrations(i, m) PROVE TypeOK'
  <2>1. /\ at' \in [Instances -> [Models -> Steps]]
        /\ cached' \in [Instances -> (SUBSET Models) \cup {Unwritten}]
    BY <1>0, <1>5, AtType, CacheType DEF SkipMigrations, Steps
  <2>2. m \in Executes(i)
    BY <1>0, <1>5, SkipMigrationsStep
  <2>3. Migrations[i][m] \in SUBSET Keys
    BY <2>2, TakesPart
  <2>4. row' \in Written(SUBSET Keys)
    <3>0. tables \in Written(SUBSET Keys) /\ row \in Written(SUBSET Keys)
      BY <1>0 DEF TypeOK
    <3>1. row' = row \/ row' = [row EXCEPT ![i][m] = Migrations[i][m]]
      BY <1>5 DEF SkipMigrations
    <3>2. [row EXCEPT ![i][m] = Migrations[i][m]] \in Written(SUBSET Keys)
      BY <2>3, <3>0, WriteType
    <3> QED BY <3>0, <3>1, <3>2
  <2>5. pending' \in [Instances -> SUBSET (Models \ Application)]
    <3>1. CASE MigrationTablesExist(i)
      <4>1. pending' = pending
        BY <1>5, <3>1 DEF SkipMigrations
      <4> QED BY <1>0, <4>1 DEF TypeOK
    <3>2. CASE ~MigrationTablesExist(i)
      <4>1. m \notin Application
        BY <2>2, <3>2, TablesThere
      <4>2. pending' = [pending EXCEPT ![i] = @ \cup {m}]
        BY <1>5, <3>2 DEF SkipMigrations
      <4> QED BY <1>0, <4>1, <4>2 DEF TypeOK
    <3> QED BY <3>1, <3>2
  <2>6. UNCHANGED <<phase, seen, lock, tables, ran, shape, record, known, inits, scenario, smooth>>
    BY <1>5 DEF SkipMigrations, database, history
  <2> QED BY <1>0, <2>1, <2>4, <2>5, <2>6 DEF TypeOK
<1>6. ASSUME NEW i \in Instances, NEW m \in Models, LockMigrations(i, m) PROVE TypeOK'
  <2>1. /\ at' \in [Instances -> [Models -> Steps]]
        /\ cached' \in [Instances -> (SUBSET Models) \cup {Unwritten}]
    BY <1>0, <1>6, AtType, CacheType DEF LockMigrations, Steps
  <2>2. Record(i, m) \in SUBSET Keys
    BY <1>0, Reads
  <2>3. seen' \in [Instances -> [Models -> SUBSET Keys]]
    <3>1. seen' = seen \/ seen' = [seen EXCEPT ![i][m] = Record(i, m)]
      BY <1>6 DEF LockMigrations
    <3>2. seen \in [Instances -> [Models -> SUBSET Keys]]
      BY <1>0 DEF TypeOK
    <3>3. [seen EXCEPT ![i][m] = Record(i, m)] \in [Instances -> [Models -> SUBSET Keys]]
      BY <2>2, <3>2
    <3> QED BY <3>1, <3>2, <3>3
  <2>4. lock' \in Instances \cup {Unwritten}
    BY <1>0, <1>6, LockType DEF LockMigrations
  <2>5. UNCHANGED <<phase, pending, tables, row, ran, shape, record, known, inits,
                    scenario, smooth>>
    BY <1>6 DEF LockMigrations, txVars, database, history
  <2> QED BY <1>0, <2>1, <2>3, <2>4, <2>5 DEF TypeOK
<1>7. ASSUME NEW i \in Instances, NEW m \in Models, ExecuteMigrations(i, m) PROVE TypeOK'
  <2> DEFINE new == Migrations[i][m] \ seen[i][m]
  <2>1. at' \in [Instances -> [Models -> Steps]]
    BY <1>0, <1>7, AtType DEF ExecuteMigrations, Steps
  <2>2. at[i][m] = "locked" /\ m \in known
    BY <1>7 DEF ExecuteMigrations, IInv, Local, Built
  <2>3. Migrations[i][m] \in SUBSET Keys /\ seen[i][m] \in SUBSET Keys
    BY <1>0, <2>2, TakesPart DEF TypeOK
  <2>4. Shape(i, m) \in SUBSET Keys
    BY <1>0, <2>2, Reads DEF IInv, Stored
  <2>5. /\ Shape(i, m) \cup new \in SUBSET Keys
        /\ Executed(seen[i][m], new) \in SUBSET Keys
    BY <2>3, <2>4 DEF Executed
  <2>6. tables' \in Written(SUBSET Keys) /\ row' \in Written(SUBSET Keys)
    <3>0. tables \in Written(SUBSET Keys) /\ row \in Written(SUBSET Keys)
      BY <1>0 DEF TypeOK
    <3>1. \/ UNCHANGED <<tables, row>>
          \/ /\ tables' = [tables EXCEPT ![i][m] = Shape(i, m) \cup new]
             /\ row' = [row EXCEPT ![i][m] = Executed(seen[i][m], new)]
      BY <1>7 DEF ExecuteMigrations
    <3> HIDE DEF new
    <3>2. /\ [tables EXCEPT ![i][m] = Shape(i, m) \cup new] \in Written(SUBSET Keys)
          /\ [row EXCEPT ![i][m] = Executed(seen[i][m], new)] \in Written(SUBSET Keys)
      BY <2>5, <3>0, WriteType
    <3> QED BY <3>0, <3>1, <3>2
  <2>7. UNCHANGED <<phase, cached, seen, pending, lock, ran, shape, record, known, inits,
                    scenario, smooth>>
    BY <1>7 DEF ExecuteMigrations, database, history
  <2> QED BY <1>0, <2>1, <2>6, <2>7 DEF TypeOK
<1>8. ASSUME NEW i \in Instances, NEW m \in Models, CreateTables(i, m) PROVE TypeOK'
  <2>1. at' \in [Instances -> [Models -> Steps]]
    BY <1>0, <1>8, AtType DEF CreateTables, Steps
  <2>2. Migrations[i][m] \in SUBSET Keys
    BY <1>8, TakesPart DEF CreateTables
  <2>3. tables' \in Written(SUBSET Keys)
    <3>0. tables \in Written(SUBSET Keys) /\ row \in Written(SUBSET Keys)
      BY <1>0 DEF TypeOK
    <3>1. tables' = tables \/ tables' = [tables EXCEPT ![i][m] = Migrations[i][m]]
      BY <1>8 DEF CreateTables
    <3>2. [tables EXCEPT ![i][m] = Migrations[i][m]] \in Written(SUBSET Keys)
      BY <2>2, <3>0, WriteType
    <3> QED BY <3>0, <3>1, <3>2
  <2>4. UNCHANGED <<phase, cached, seen, pending, lock, row, ran, shape, record, known,
                    inits, scenario, smooth>>
    BY <1>8 DEF CreateTables, database, history
  <2> QED BY <1>0, <2>1, <2>3, <2>4 DEF TypeOK
<1>9. ASSUME NEW i \in Instances, NEW m \in Models, PostRun(i, m) PROVE TypeOK'
  <2>1. at' \in [Instances -> [Models -> Steps]]
    BY <1>0, <1>9, AtType DEF PostRun, Steps
  <2>2. cached' \in [Instances -> (SUBSET Models) \cup {Unwritten}]
    <3>1. CASE m \in WithInit
      BY <1>0, <1>9, <3>1, CacheType DEF PostRun
    <3>2. CASE m \notin WithInit
      BY <1>0, <1>9, <3>2 DEF PostRun, TypeOK
    <3> QED BY <3>1, <3>2
  <2>3. lock' \in Instances \cup {Unwritten}
    BY <1>0, <1>9, LockType DEF PostRun
  <2>4. ran' \in [Instances -> SUBSET WithInit]
    <3>1. ran' = ran \/ (m \in WithInit /\ ran' = [ran EXCEPT ![i] = @ \cup {m}])
      BY <1>9 DEF PostRun
    <3>2. ran \in [Instances -> SUBSET WithInit]
      BY <1>0 DEF TypeOK
    <3>3. m \in WithInit
            => [ran EXCEPT ![i] = @ \cup {m}] \in [Instances -> SUBSET WithInit]
      BY <3>2
    <3> QED BY <3>1, <3>2, <3>3
  <2>5. UNCHANGED <<phase, seen, pending, tables, row, shape, record, known, inits,
                    scenario, smooth>>
    BY <1>9 DEF PostRun, database, history
  <2> QED BY <1>0, <2>1, <2>2, <2>3, <2>4, <2>5 DEF TypeOK
<1>10. ASSUME NEW i \in Instances, NEW m \in Models, PostExecute(i, m) PROVE TypeOK'
  <2>1. at[i][m] # "todo"
    BY <1>0, <1>10, PostExecuteStep DEF IInv, Local, Wrote, Behind
  <2>2. Migrations[i][m] \in SUBSET Keys
    BY <2>1, TakesPart
  <2>3. row' \in Written(SUBSET Keys)
    BY <1>0, <1>10, <2>2, WriteType DEF PostExecute, TypeOK
  <2>4. UNCHANGED <<phase, at, cached, seen, pending, lock, tables, ran, shape, record,
                    known, inits,
                    scenario, smooth>>
    BY <1>10 DEF PostExecute, processVars, database, history
  <2> QED BY <1>0, <2>3, <2>4 DEF TypeOK
<1>11. CASE UNCHANGED vars
  BY <1>0, <1>11 DEF vars, processVars, txVars, database, history, TypeOK
<1> QED BY <1>1, <1>2, <1>3, <1>4, <1>5, <1>6, <1>7, <1>8, <1>9, <1>10, <1>11 DEF Next
-----------------------------------------------------------------------------
LEMMA InitInv == Init => IInv
<1> SUFFICES ASSUME Init PROVE IInv
  OBVIOUS
<1>1. /\ scenario \in Scenarios
      /\ shape = scenario.deployed /\ shape \in [Models -> (SUBSET Keys) \cup {Absent}]
  BY ExecutionAssumption DEF Init
<1>2. /\ record \in [Models -> SUBSET Keys]
      /\ \A m \in Models : record[m] = IF shape[m] = Absent THEN {} ELSE shape[m]
  BY <1>1 DEF Init
<1>3. tables \in Written(SUBSET Keys) /\ row \in Written(SUBSET Keys)
  BY DEF Init, Written
<1>4. TypeOK
  BY <1>1, <1>2, <1>3 DEF Init, TypeOK, Phases, Steps
<1>5. ASSUME NEW m \in Models PROVE Stored(m)
  BY <1>1, <1>2, <1>5 DEF Init, Stored, IsFirst
<1>6. ASSUME NEW i \in Instances, NEW m \in Models PROVE Local(i, m)
  <2>1. at[i][m] = "todo" /\ tables[i][m] = Unwritten /\ row[i][m] = Unwritten
    BY DEF Init
  <2>2. phase[i] = "down" /\ pending[i] = {} /\ seen[i][m] = {} /\ ~Behind(i, m)
    BY DEF Init, Behind
  <2>3. Placed(i, m) /\ Built(i, m) /\ Wrote(i, m) /\ SetsOff(i, m) /\ Guarded(i, m)
    BY <2>1, <2>2 DEF Placed, Passed, Built, Wrote, SetsOff, Guarded
  <2>4. Agreed(i, m)
    <3>1. IsFirst(m) => m \notin known /\ shape[m] = Absent /\ record[m] = {}
      BY <1>1, <1>2 DEF Init, IsFirst
    <3> QED BY <2>1, <2>2, <3>1 DEF Agreed
  <2> QED BY <2>3, <2>4 DEF Local
<1>7. \A i \in Instances : CacheKnows(i) /\ Started(i)
  BY DEF Init, CacheKnows, Started
<1>8. Remembered
  BY <1>1, <1>2 DEF Init, Remembered
<1> QED BY <1>4, <1>5, <1>6, <1>7, <1>8 DEF IInv

LEMMA StutterKeeps ==
  ASSUME IInv, UNCHANGED vars
  PROVE  /\ \A j \in Instances, n \in Models : Local(j, n)'
         /\ \A n \in Models : Stored(n)'
         /\ \A j \in Instances : CacheKnows(j)' /\ Started(j)'
         /\ Remembered'
<1>1. UNCHANGED <<phase, at, cached, seen, pending, lock, tables, row, ran, shape,
                  record, known, inits, scenario, smooth>>
  BY DEF vars, processVars, txVars, database, history
<1>2. /\ ReleasesAgree' <=> ReleasesAgree
      /\ \A n \in Models : IsFirst(n)' <=> IsFirst(n)
  BY <1>1, SameScenario
<1>3. \A j \in Instances : Executes(j)' = Executes(j) /\ Passed(j)' = Passed(j)
  BY <1>1, SameTransaction
<1>4. \A j \in Instances, n \in Models :
        /\ Shape(j, n)' = Shape(j, n) /\ Record(j, n)' = Record(j, n)
        /\ Behind(j, n)' <=> Behind(j, n)
  BY <1>1 DEF Shape, Record, Behind
<1>5. ASSUME NEW j \in Instances, NEW n \in Models PROVE Local(j, n)'
  <2>0. Local(j, n)
    BY DEF IInv
  <2>1. Placed(j, n)' /\ Built(j, n)' /\ Wrote(j, n)'
    BY <1>1, <1>2, <1>3, <1>4, <2>0 DEF Local, Placed, Built, Wrote
  <2>2. Guarded(j, n)' /\ Agreed(j, n)' /\ SetsOff(j, n)'
    BY <1>1, <1>2, <1>4, <2>0 DEF Local, Guarded, Agreed, SetsOff
  <2> QED BY <2>1, <2>2 DEF Local
<1>6. ASSUME NEW n \in Models PROVE Stored(n)'
  <2>1. Stored(n)
    BY DEF IInv
  <2> QED BY <1>1, <1>2, <2>1 DEF Stored
<1>7. ASSUME NEW j \in Instances PROVE CacheKnows(j)' /\ Started(j)'
  <2>1. CacheKnows(j) /\ Started(j)
    BY DEF IInv
  <2>2. Knows(j)' = Knows(j)
    BY <1>1, <1>3 DEF Knows
  <2> QED BY <1>1, <1>2, <2>1, <2>2 DEF CacheKnows, Started
<1>8. Remembered'
  <2>1. \A n \in Models : Owed(n) => Owed(n)'
    BY <1>1 DEF Owed
  <2>2. known \subseteq Models
    BY DEF IInv, TypeOK
  <2> QED BY <1>1, <1>2, <2>1, <2>2 DEF IInv, Remembered
<1> QED BY <1>5, <1>6, <1>7, <1>8

\* The invariant that the theorems rest on.
LEMMA Invariant == Spec => []IInv
<1>1. Init => IInv
  BY InitInv
<1>2. IInv /\ [Next]_vars => IInv'
  <2> SUFFICES ASSUME IInv, [Next]_vars PROVE IInv'
    OBVIOUS
  <2>1. TypeOK'
    BY NextType
  <2> DEFINE Kept == /\ \A j \in Instances, n \in Models : Local(j, n)'
                     /\ \A n \in Models : Stored(n)'
                     /\ \A j \in Instances : CacheKnows(j)' /\ Started(j)'
                     /\ Remembered'
  <2>2. ASSUME NEW i \in Instances, Start(i) PROVE Kept
    BY <2>2, StartKeeps
  <2>3. ASSUME NEW i \in Instances, Exit(i) PROVE Kept
    BY <2>3, ExitKeeps
  <2>4. ASSUME NEW i \in Instances, Commit(i) PROVE Kept
    <3>1. ASSUME NEW j \in Instances, NEW n \in Models PROVE Local(j, n)'
      <4>1. CASE j = i
        BY <2>4, <4>1, CommitLocalOwn
      <4>2. CASE j # i
        BY <2>4, <4>2, CommitLocalOther
      <4> QED BY <4>1, <4>2
    <3> QED BY <2>4, <3>1, CommitStored, CommitCaches, CommitRemembers
  <2>5. ASSUME NEW i \in Instances, NEW m \in Models, Moves(i, m) PROVE Kept
    BY <2>5, MovesLocal
  <2>6. ASSUME UNCHANGED vars PROVE Kept
    BY <2>6, StutterKeeps
  <2>7. Kept
    <3> HIDE DEF Kept
    <3> QED BY <2>2, <2>3, <2>4, <2>5, <2>6 DEF Next, Moves
  <2> QED BY <2>1, <2>7 DEF IInv
<1> QED BY <1>1, <1>2, PTL DEF Spec
-----------------------------------------------------------------------------
\* The variables only ever have the values they should: in particular, tables
\* that migrations are run on exist (executeMigrations after isModelNew), and
\* no migrations of an application are left for the end.
THEOREM TypeCorrect == Spec => []TypeOK
<1>1. IInv => TypeOK
  BY DEF IInv
<1> QED BY <1>1, Invariant, PTL

\* Whichever instances start at the same time, crash and start again, a
\* migration is recorded as executed only when the tables have it.
THEOREM RecordsTrue == Spec => []RecordIsTrue
<1>1. IInv => RecordIsTrue
  BY DEF IInv, Stored, RecordIsTrue
<1> QED BY <1>1, Invariant, PTL

\* An instance that serves requests finds the tables of its release, the
\* migrations of its application recorded, and the data of each initSql.
THEOREM ServesCurrent == Spec => []UpIsCurrent
<1>1. IInv => UpIsCurrent
  <2> SUFFICES ASSUME IInv, ReleasesAgree, NEW i \in Instances, NEW m \in Release[i],
                      phase[i] = "up"
               PROVE  /\ Migrations[i][m] \subseteq shape[m]
                      /\ m \in Application => Migrations[i][m] \subseteq record[m]
                      /\ m \in WithInit /\ IsFirst(m) => inits[m] >= 1
    BY DEF UpIsCurrent
  <2>1. m \in Models /\ i \in scenario.starting
    BY OfTheRelease DEF IInv, Started
  <2>2. Local(i, m) /\ Stored(m)
    BY <2>1 DEF IInv
  <2>3. m \in Passed(i) /\ Executes(i) = {}
    BY <2>1, Transactions DEF Models
  <2>4. at[i][m] = "done" /\ tables[i][m] = Unwritten /\ row[i][m] = Unwritten
    BY <2>2, <2>3 DEF Local, Placed, Wrote
  <2>5. shape[m] # Absent /\ m \in known /\ Behind(i, m) /\ Record(i, m) = record[m]
    BY <2>2, <2>4 DEF Local, Built, Stored, Shape, Record, Behind
  <2>6. CASE IsFirst(m)
    BY <2>1, <2>2, <2>5, <2>6 DEF Local, Agreed, Stored
  <2>7. CASE ~IsFirst(m)
    BY <2>2, <2>5, <2>7 DEF Local, Guarded, Stored
  <2> QED BY <2>6, <2>7
<1> QED BY <1>1, Invariant, PTL

\* A first run that nothing disturbs ends with all that was skipped recorded,
\* by postExecuteModels of whichever instance skipped it.
THEOREM SkippedAreRecorded == Spec => []FirstRunRecorded
<1>1. IInv => FirstRunRecorded
  <2> SUFFICES ASSUME IInv, ReleasesAgree, smooth,
                      \A i \in Instances : phase[i] \in {"down", "up"},
                      NEW m \in known
               PROVE  record[m] = shape[m]
    BY DEF FirstRunRecorded
  <2>1. m \in Models /\ Stored(m) /\ Remembered
    BY DEF IInv, TypeOK
  <2>2. ~Owed(m)
    BY DEF Owed
  <2> QED BY <2>1, <2>2 DEF Stored, Remembered
<1> QED BY <1>1, Invariant, PTL

\* No migration is run on tables that have it: an instance that waited for the
\* lock reads what the one before it has recorded.
THEOREM RunsOnTablesWithout == Spec => AppliedOnce
<1> DEFINE Once == ReleasesAgree =>
                     \A i \in Instances, m \in Models :
                       Runs(i, m) /\ (m \in Application \/ ~IsFirst(m))
                         => OnTablesWithout(i, m)
<1>1. IInv /\ [Next]_vars => Once
  <2> SUFFICES ASSUME IInv, ReleasesAgree, NEW i \in Instances, NEW m \in Models,
                      at[i][m] = "locked", m \in Application \/ ~IsFirst(m)
               PROVE  (Migrations[i][m] \ seen[i][m]) \cap Shape(i, m) = {}
    BY DEF Runs, OnTablesWithout
  <2>1. Local(i, m) /\ Stored(m) /\ Shape(i, m) = shape[m]
    BY Ahead DEF IInv
  <2>2. CASE ~IsFirst(m)
    BY <2>1, <2>2 DEF Local, Guarded, Stored
  <2>3. CASE m \in Application /\ IsFirst(m)
    <3>1. m \in Release[i] /\ i \in scenario.starting
      BY TakesPart
    <3> QED BY <2>1, <2>3, <3>1 DEF Local, Agreed
  <2> QED BY <2>2, <2>3
<1>2. AppliedOnce <=> [][Once]_vars
  BY DEF AppliedOnce
<1> HIDE DEF Once
<1> QED BY <1>1, <1>2, Invariant, PTL DEF Spec
=============================================================================
