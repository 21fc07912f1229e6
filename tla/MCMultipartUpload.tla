------------------------- MODULE MCMultipartUpload -------------------------
(***************************************************************************)
(* Two uploads for the row: one is committed and cancelled meanwhile, the  *)
(* other is committed, and the row is cleared or deleted.                  *)
(***************************************************************************)
EXTENDS MultipartUpload, TLC

CONSTANTS b1, b2, commit1, commit2, cancel1, other

MCOf == commit1 :> b1 @@ commit2 :> b2 @@ cancel1 :> b1
=============================================================================
