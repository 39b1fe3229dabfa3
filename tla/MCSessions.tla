----------------------------- MODULE MCSessions -----------------------------
(* Small instances of Sessions: handlers and session ids are               *)
(* interchangeable model values.                                           *)
EXTENDS Sessions

Symmetry == Permutations(Handlers) \cup Permutations(Sids)
=============================================================================
