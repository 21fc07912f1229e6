---------------------------- MODULE MCRequest ----------------------------
(***************************************************************************)
(* The requests that arrive in the run: of a client, a change set, a batch *)
(* that goes on after an error and one that starts with an action; and an  *)
(* internal one, alone or inside a transaction of somebody else.           *)
(***************************************************************************)
EXTENDS Request

MCRequests ==
  { [caller |-> "client", kinds |-> <<"changeset">>, goOn |-> FALSE],
    [caller |-> "client", kinds |-> <<"single", "single">>, goOn |-> TRUE],
    [caller |-> "client", kinds |-> <<"action", "single">>, goOn |-> FALSE],
    [caller |-> "api", kinds |-> <<"single">>, goOn |-> FALSE],
    [caller |-> "tx", kinds |-> <<"single">>, goOn |-> FALSE] }
==========================================================================
