------------------------------- MODULE MCRelay -------------------------------
(* Small instances of Relay. *)
EXTENDS Relay

(* Every file of at most three bytes. *)
AllPackets == UNION {[1 .. k -> Bytes] : k \in 0 .. 3}
SomePackets == {<<>>, <<1>>, <<0, 2, 1>>}
=============================================================================
