---------------------------- MODULE InstanceLife ----------------------------
(***************************************************************************)
(* What cgcserv/instance.py promises a client: a thread of its own that    *)
(* keeps one process at a time.  Only that thread starts, resumes and      *)
(* reaps processes, and a process is stopped only while the thread tends   *)
(* it.  When the thread is over nothing is started or stopped any more: a  *)
(* process that it could not wait for goes on by itself to its end.        *)
(***************************************************************************)
CONSTANTS Conns, Slots

VARIABLES
  stage,    \* per client, "before", "tends" or "over"
  process   \* per process, "none", "runs", "stopped" or "ended" (a zombie)

Pids == Conns \X Slots

Init ==
  /\ stage = [c \in Conns |-> "before"]
  /\ process = [p \in Pids |-> "none"]

Becomes(p, s) == process' = [process EXCEPT ![p] = s]

(* A step of the thread on its process. *)
Tends(p, from, to) ==
  /\ stage[p[1]] = "tends"
  /\ process[p] = from
  /\ Becomes(p, to)
  /\ UNCHANGED stage

NoProcess(c) == \A k \in Slots : process[<<c, k>>] = "none"

Meet(c) ==
  /\ stage[c] = "before"
  /\ stage' = [stage EXCEPT ![c] = "tends"]
  /\ UNCHANGED process

Spawn(p)  == NoProcess(p[1]) /\ Tends(p, "none", "runs")
Stop(p)   == Tends(p, "runs", "stopped")
Resume(p) == Tends(p, "stopped", "runs")
Reap(p)   == Tends(p, "ended", "none")

(* The signal that stopped it is delivered; or it is killed, and reaped.   *)
Kill(p)   == Tends(p, "stopped", "ended") \/ Tends(p, "stopped", "none")

End(p) ==
  /\ process[p] = "runs"
  /\ Becomes(p, "ended")
  /\ UNCHANGED stage

Leave(c) ==
  /\ stage[c] = "tends" /\ NoProcess(c)
  /\ stage' = [stage EXCEPT ![c] = "over"]
  /\ UNCHANGED process

(* The thread dies with its process in its hands. *)
Abandon(p) ==
  /\ stage[p[1]] = "tends" /\ process[p] = "stopped"
  /\ stage' = [stage EXCEPT ![p[1]] = "over"]
  /\ Becomes(p, "runs") \/ Becomes(p, "ended")

Next ==
  \/ \E c \in Conns : Meet(c) \/ Leave(c)
  \/ \E p \in Pids :
       Spawn(p) \/ Stop(p) \/ Resume(p) \/ Reap(p) \/ Kill(p) \/ End(p) \/ Abandon(p)

Spec == Init /\ [][Next]_<<stage, process>>
=============================================================================
