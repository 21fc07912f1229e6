------------------------------ MODULE AtomicTx ------------------------------
(***************************************************************************)
(* What src/database-layer/db.ts promises of a transaction: the writes of  *)
(* its callback become durable together or are all lost, never written     *)
(* again afterwards; 'end' listeners run only for a transaction nothing of *)
(* which is missing, 'rollback' listeners only for one nothing of which is *)
(* left, and at most one of the two runs.  The answer to a COMMIT may be   *)
(* lost with the connection, and then nobody is told.                      *)
(***************************************************************************)
CONSTANT Txs

VARIABLES
  stage,  \* what became of the writes of each transaction
  told    \* the listeners of each that ran

vars == <<stage, told>>

Stages == {"active", "written", "committed", "lost"}

Init == /\ stage = [t \in Txs |-> "active"]
        /\ told = [t \in Txs |-> {}]

Write(t) == /\ told[t] = {}
            /\ stage[t] \in {"active", "written"}
            /\ stage' = [stage EXCEPT ![t] = "written"]
            /\ UNCHANGED told

MayTell(t, what) == \/ UNCHANGED told
                    \/ told' = [told EXCEPT ![t] = {what}]

Commit(t) == /\ told[t] = {}
             /\ stage[t] \in {"active", "written"}
             /\ stage' = [stage EXCEPT ![t] = IF @ = "written"
                                              THEN "committed" ELSE @]
             /\ MayTell(t, "end")

Undo(t) == /\ told[t] = {}
           /\ stage[t] # "committed"
           /\ stage' = [stage EXCEPT ![t] = IF @ = "written" THEN "lost" ELSE @]
           /\ MayTell(t, "rollback")

Next == \E t \in Txs : Write(t) \/ Commit(t) \/ Undo(t)

Spec == Init /\ [][Next]_vars
=============================================================================
