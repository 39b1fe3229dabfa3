------------------------------- MODULE MCDist --------------------------------
(* Small instances of DistSample. *)
EXTENDS DistSample

MCValues == {-1, 0, 2, 3}
MCSizes  == {2, 3, 4}
=============================================================================
