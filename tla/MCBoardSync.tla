----------------------------- MODULE MCBoardSync -----------------------------
(* The model-checking instance of BoardSync. *)
EXTENDS BoardSync
=============================================================================
