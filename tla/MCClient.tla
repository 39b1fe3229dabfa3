------------------------------ MODULE MCClient -------------------------------
(* Small instances of Client. *)
EXTENDS Client
=============================================================================
