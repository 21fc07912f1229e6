-------------------------- MODULE MCModelExecution --------------------------
(***************************************************************************)
(* Instances of ModelExecution for TLC: processes of a new release start   *)
(* on an empty database, or beside one of the release before and on its    *)
(* database, which has not got the new models.                             *)
(***************************************************************************)
EXTENDS ModelExecution, TLC

CONSTANTS Old, NewModels, Changed, Plain, dev, auth, migrations, app1, app2, k1, k2,
          old1, new1, new2

Symmetry == Permutations(Instances \ Old)

\* The new release adds k2 to the models in Changed.
MCMigrations == [i \in Instances |-> [m \in Models |->
                   IF m \in Plain THEN {}
                   ELSE IF i \notin Old /\ m \in Changed THEN {k1, k2} ELSE {k1}]]
MCRelease == [i \in Instances |-> IF i \in Old THEN Models \ NewModels ELSE Models]

FirstRun == [deployed |-> [m \in Models |-> Absent], starting |-> Instances \ Old]
Upgrade == [deployed |-> [m \in Models |-> IF m \in NewModels THEN Absent
                                           ELSE IF m \in Plain THEN {} ELSE {k1}],
            starting |-> Instances]
MCScenarios == {FirstRun, Upgrade}
=============================================================================
