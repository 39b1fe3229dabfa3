------------------------------ MODULE MCService ------------------------------
(* Small instances of Service. *)
EXTENDS Service
=============================================================================
