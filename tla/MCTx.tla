-------------------------------- MODULE MCTx --------------------------------
(***************************************************************************)
(* Instances of Tx for TLC.  Timed names the transactions created with a   *)
(* timeoutMS option; the cfg files choose which kinds of transactions meet *)
(* on how few connections.                                                 *)
(***************************************************************************)
EXTENDS Tx, TLC

CONSTANTS Timed, plain, hooked, reader, c1, c2, c3

MCTimeoutMS == [t \in Txs |-> IF t \in Timed THEN 10 ELSE Unset]
=============================================================================
