--------------------------- MODULE MCWebResource ---------------------------
(***************************************************************************)
(* Requests that race on one row: a PATCH that uploads two files, one that *)
(* sets a field to null, a DELETE; and a POST beside them.                 *)
(***************************************************************************)
EXTENDS WebResource

CONSTANTS old, post, patch, reset, delete, a, b

MCTarget == [r \in Patches \cup Deletes |-> old]
MCTouches == [r \in Requests |-> IF r \in {post, reset} THEN {a} ELSE Fields]
=============================================================================
