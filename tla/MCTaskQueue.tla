----------------------------- MODULE MCTaskQueue -----------------------------
(***************************************************************************)
(* Instances of TaskQueue for TLC: a job, a cron task, and one or two      *)
(* pine processes with up to two pollers each.                             *)
(***************************************************************************)
EXTENDS TaskQueue, TLC

CONSTANTS Limit, i1, i2, s1, s2, job, cron

\* Processes are interchangeable, and so are the pollers of a Worker.
Symmetry == Permutations(Instances) \cup Permutations(Slots)

MCAttemptLimit == [k \in Tasks |-> Limit]
=============================================================================
