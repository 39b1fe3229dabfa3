----------------------------- MODULE MCTelemetry -----------------------------
(* Small instances of Telemetry: clients are interchangeable.              *)
EXTENDS Telemetry, TLC

Symmetry == Permutations(Conns)
=============================================================================
