-------------------------- MODULE MCAsyncMigration --------------------------
(***************************************************************************)
(* Instances of AsyncMigration for TLC: instances of an old release that   *)
(* runs the migrations, and of a new one that finalizes some of them.      *)
(***************************************************************************)
EXTENDS AsyncMigration, TLC

CONSTANTS New, Finalized, Crashes, Losses, Failures, NewRows, old1, old2, new1, new2, k1, k2

\* Instances of a release are interchangeable.
Symmetry == Permutations(New) \cup Permutations(Instances \ New)

MCFinalizes == [i \in Instances |-> IF i \in New THEN Finalized ELSE {}]
MCMaxFaults == [f \in FaultKinds |->
                  CASE f = "crash" -> Crashes [] f = "loss" -> Losses
                    [] f = "failure" -> Failures [] f = "row" -> NewRows]
=============================================================================
