------------------------------- MODULE MCRooms -------------------------------
(* Small instances of Rooms. *)
EXTENDS Rooms
CONSTANTS s1, s2

Of(s, n) == [r \in Sids |-> IF r = s THEN n ELSE 0]

(* Coverage in one session and a lost connection, or events in the other   *)
(* session and its stop.                                                   *)
SomeBounds ==
  {[coverage |-> Of(s2, 1), events |-> Of(None, 0), drops |-> 1, stops |-> {}],
   [coverage |-> Of(None, 0), events |-> Of(s1, 1), drops |-> 0, stops |-> {s1}]}

(* Coverage in both sessions, and a stop. *)
CoverageBounds ==
  {[coverage |-> [s \in Sids |-> 1], events |-> Of(None, 0), drops |-> 0, stops |-> {s1}]}
=============================================================================
