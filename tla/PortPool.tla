------------------------------ MODULE PortPool ------------------------------
(***************************************************************************)
(* What the session manager of cgcserv/__main__.py promises about the      *)
(* ports it hands out: a port has one owner at a time, only its owner      *)
(* passes it on, and a port that was dropped never comes back.             *)
(***************************************************************************)
CONSTANT Ports

VARIABLE owner  \* per port, who owns it

OwnerKinds == {"pool", "request", "session", "debugger", "nobody"}

Init == owner = [p \in Ports |-> "pool"]

Pass(p, from, to) ==
  /\ owner[p] = from
  /\ owner' = [owner EXCEPT ![p] = to]

(* A start request or a debugger gets a port that nobody else has. *)
Grant(p) == Pass(p, "pool", "request") \/ Pass(p, "pool", "debugger")

(* A started session is attached to the port of its request. *)
Attach(p) == Pass(p, "request", "session")

(* One stop request takes the port from the session. *)
Detach(p) == Pass(p, "session", "request")

(* The owner gives the port back. *)
GiveBack(p) == Pass(p, "request", "pool") \/ Pass(p, "debugger", "pool")

(* A request or a debugger that fails keeps its port from everyone. *)
Drop(p) == Pass(p, "request", "nobody") \/ Pass(p, "debugger", "nobody")

Next == \E p \in Ports : Grant(p) \/ Attach(p) \/ Detach(p) \/ GiveBack(p) \/ Drop(p)

Spec == Init /\ [][Next]_owner
=============================================================================
