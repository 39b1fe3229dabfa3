------------------------------ MODULE Telemetry ------------------------------
(***************************************************************************)
(* What the Instance threads of one service write together: the            *)
(* accumulated coverage (Coverage.__add__ and PyGcovRT.capture of          *)
(* cgcserv/coverage.py) and Service.events (Instance.log_event of          *)
(* cgcserv/instance.py).  The eventLock that a thread holds here is its    *)
(* own, so the threads of two clients interleave at every step: one action *)
(* is one read or one write of a shared object.                            *)
(*                                                                         *)
(* Coverage is the execution count of one source line: every line is added *)
(* in the same way.  The process itself is external: it executes the line, *)
(* stops and ends.  Its counter is read by pygcovrt and is zero in a new   *)
(* process.                                                                *)
(***************************************************************************)
EXTENDS Integers, FiniteSets, FiniteSetsExt

CONSTANTS
  Conns,     \* clients, each with its Instance thread
  MaxExec,   \* bound: executions of the line, over all processes
  MaxEvents  \* bound: events that the threads handle

ASSUME BoundsAssumption == MaxExec \in Nat /\ MaxEvents \in Nat
ASSUME ConnsAssumption == IsFiniteSet(Conns)

(* How a process stops, and the name under which that is logged: "TRAP" is *)
(* the exit breakpoint, SIGUSR1 a signal that it survives, SIGSEGV one     *)
(* after which it is replaced.  "EXIT" is every end, by a signal too.      *)
Causes == {"TRAP", "SIGUSR1", "SIGSEGV", "EXIT"}
Names  == Causes \ {"TRAP"}
Stops  == Causes \ {"EXIT"}
None   == [set |-> FALSE, count |-> 0]

VARIABLES
  coverage,  \* Coverage.coverage of the service: None, or a count
  events,    \* Service.events: per name, None or a count
  counter,   \* per process, its own count of the line
  tpc,       \* per thread, its next step
  cause,     \* per thread, the event that it handles
  newcov,    \* per thread, the local `coverage' of capture, then the sum
  old,       \* per thread, events[name] as read by +=
  executed,  \* history: executions of the line by all processes
  captured,  \* history: sum of the counts that capture has read
  logged,    \* history: per name, calls of log_event that have returned
  overlap    \* history: "coverage", and names, that two threads updated at once

shared  == <<coverage, events>>
locals  == <<tpc, cause, newcov, old>>
history == <<executed, captured, logged, overlap>>
vars    == <<shared, counter, locals, history>>

Init ==
  /\ coverage = None
  /\ events   = [n \in Names |-> None]
  /\ counter  = [c \in Conns |-> 0]
  /\ tpc      = [c \in Conns |-> "run"]
  /\ cause    = [c \in Conns |-> "EXIT"]
  /\ newcov   = [c \in Conns |-> 0]
  /\ old      = [c \in Conns |-> 0]
  /\ executed = 0
  /\ captured = 0
  /\ logged   = [n \in Names |-> 0]
  /\ overlap  = {}

Goto(c, from, to) ==
  /\ tpc[c] = from
  /\ tpc' = [tpc EXCEPT ![c] = to]

(* Threads that have begun to update the sum, or the count of an event.    *)
Summing    == {c \in Conns : tpc[c] = "store"}
Counting(n) == {c \in Conns : cause[c] = n /\ tpc[c] \in {"zero", "read", "write"}}

Begins(name, others) == overlap' = IF others = {} THEN overlap ELSE overlap \cup {name}

Handled == MapThenSumSet(LAMBDA n : logged[n], Names)
InHand  == Cardinality({c \in Conns : tpc[c] \notin {"run", "exiting"}})

-----------------------------------------------------------------------------
(* The process *)

Execute(c) ==
  /\ tpc[c] = "run"
  /\ executed < MaxExec
  /\ counter'  = [counter EXCEPT ![c] = @ + 1]
  /\ executed' = executed + 1
  /\ UNCHANGED <<shared, locals, captured, logged, overlap>>

(* The process stops, by the exit breakpoint or a signal. *)
Stop(c) ==
  \E s \in Stops :
    /\ Handled + InHand < MaxEvents
    /\ Goto(c, "run", "capture")
    /\ cause' = [cause EXCEPT ![c] = s]
    /\ UNCHANGED <<shared, counter, newcov, old, history>>

(* It ends: after its exit breakpoint, or at once, and then its counts are *)
(* in no capture.                                                          *)
Exit(c) ==
  /\ Handled + InHand < MaxEvents
  /\ tpc[c] \in {"run", "exiting"}
  /\ tpc' = [tpc EXCEPT ![c] = "log"]
  /\ cause' = [cause EXCEPT ![c] = "EXIT"]
  /\ UNCHANGED <<shared, counter, newcov, old, history>>

-----------------------------------------------------------------------------
(* PyGcovRT.capture *)

(* coverage = self.gcovrt.get_coverage(pid = pid) *)
Capture(c) ==
  /\ Goto(c, "capture", "add")
  /\ newcov' = [newcov EXCEPT ![c] = counter[c]]
  /\ UNCHANGED <<shared, counter, cause, old, history>>

Add_Twice(c) ==
  /\ Goto(c, "add", "store")
  /\ Begins("coverage", Summing)
  /\ newcov' = [newcov EXCEPT ![c] = 2 * @ + coverage.count]
  /\ UNCHANGED <<shared, counter, cause, old, executed, captured, logged>>

Add_Drop(c) ==
  /\ Goto(c, "add", "store")
  /\ Begins("coverage", Summing)
  /\ UNCHANGED <<shared, counter, cause, newcov, old, executed, captured, logged>>

(* self + coverage: with no coverage yet the new one, else the new one     *)
(* with the counts of self.coverage added in place.                        *)
Add(c) ==
  /\ Goto(c, "add", "store")
  /\ Begins("coverage", Summing)
  /\ newcov' = [newcov EXCEPT ![c] = IF coverage.set THEN @ + coverage.count ELSE @]
  /\ UNCHANGED <<shared, counter, cause, old, executed, captured, logged>>

(* The exit breakpoint stays in place. *)
Store_Again(c) ==
  /\ Goto(c, "store", IF cause[c] = "TRAP" THEN "run" ELSE "log")
  /\ coverage' = [set |-> TRUE, count |-> newcov[c]]
  /\ captured' = captured + counter[c]
  /\ UNCHANGED <<events, counter, cause, newcov, old, executed, logged, overlap>>

(* self.coverage = ...; at the exit breakpoint the process goes on, and a  *)
(* signal is logged.                                                       *)
Store(c) ==
  /\ Goto(c, "store", IF cause[c] = "TRAP" THEN "exiting" ELSE "log")
  /\ coverage' = [set |-> TRUE, count |-> newcov[c]]
  /\ captured' = captured + counter[c]
  /\ UNCHANGED <<events, counter, cause, newcov, old, executed, logged, overlap>>

-----------------------------------------------------------------------------
(* Instance.log_event *)

LogTest_NoTest(c) ==
  /\ Goto(c, "log", "zero")
  /\ Begins(cause[c], Counting(cause[c]))
  /\ UNCHANGED <<shared, counter, cause, newcov, old, executed, captured, logged>>

(* if name not in self.service.events *)
LogTest(c) ==
  /\ Goto(c, "log", IF events[cause[c]].set THEN "read" ELSE "zero")
  /\ Begins(cause[c], Counting(cause[c]))
  /\ UNCHANGED <<shared, counter, cause, newcov, old, executed, captured, logged>>

(* self.service.events[name] = 0 *)
LogZero(c) ==
  /\ Goto(c, "zero", "read")
  /\ events' = [events EXCEPT ![cause[c]] = [set |-> TRUE, count |-> 0]]
  /\ UNCHANGED <<coverage, counter, cause, newcov, old, history>>

(* self.service.events[name] += 1, its read and its write. *)
LogRead(c) ==
  /\ Goto(c, "read", "write")
  /\ old' = [old EXCEPT ![c] = events[cause[c]].count]
  /\ UNCHANGED <<shared, counter, cause, newcov, history>>

(* After a write the listeners are told, and the process goes on (a signal *)
(* it survives) or is replaced.                                            *)
Resume(c) ==
  /\ Goto(c, "write", "run")
  /\ logged' = [logged EXCEPT ![cause[c]] = @ + 1]
  /\ counter' = [counter EXCEPT ![c] = IF cause[c] = "SIGUSR1" THEN @ ELSE 0]
  /\ UNCHANGED <<coverage, cause, newcov, old, executed, captured, overlap>>

LogWrite_Old(c) ==
  /\ Resume(c)
  /\ events' = [events EXCEPT ![cause[c]] = [set |-> TRUE, count |-> old[c]]]

LogWrite_Twice(c) ==
  /\ Resume(c)
  /\ events' = [events EXCEPT ![cause[c]] = [set |-> TRUE, count |-> old[c] + 2]]

LogWrite(c) ==
  /\ Resume(c)
  /\ events' = [events EXCEPT ![cause[c]] = [set |-> TRUE, count |-> old[c] + 1]]

-----------------------------------------------------------------------------

Process(c) == Execute(c) \/ Stop(c) \/ Exit(c)

HandleEvent(c) ==
  \/ Capture(c) \/ Add(c) \/ Store(c)
  \/ LogTest(c) \/ LogZero(c) \/ LogRead(c) \/ LogWrite(c)

Next == \E c \in Conns : Process(c) \/ HandleEvent(c)

Spec == Init /\ [][Next]_vars

-----------------------------------------------------------------------------
(***************************************************************************)
(* Properties                                                              *)
(***************************************************************************)

Counts == [set : BOOLEAN, count : Nat]

TypeOK ==
  /\ coverage \in Counts
  /\ events \in [Names -> Counts]
  /\ counter \in [Conns -> Nat]
  /\ tpc \in [Conns -> {"run", "capture", "add", "store", "exiting", "log",
                        "zero", "read", "write"}]
  /\ cause \in [Conns -> Causes]
  /\ newcov \in [Conns -> Nat]
  /\ old \in [Conns -> Nat]
  /\ executed \in Nat
  /\ captured \in Nat
  /\ logged \in [Names -> Nat]
  /\ overlap \subseteq Names \cup {"coverage"}

Quiet == \A c \in Conns : tpc[c] \in {"run", "exiting"}

(* However the captures of several clients overlap, the accumulated sum    *)
(* (PyGcovRT.coverage) has no more executions than the captures have read: *)
(* nothing is added twice to it, although the addition starts from a value *)
(* that another thread may be replacing.  What get reports besides, the    *)
(* counts of the processes that live, is not in this module.               *)
NoInvention == coverage.count <= captured

(* The count of an event is never more than the number of such events.     *)
Writing(n) == {c \in Conns : cause[c] = n /\ tpc[c] = "write"}
EventsNotOver ==
  \A n \in Names : events[n].count <= logged[n] + Cardinality(Writing(n))

(* When no thread is in log_event, every name that was logged is in the    *)
(* dictionary with a count: a thread that sets a new name to zero may wipe *)
(* out another's count, but not for good.                                  *)
EventsSeen ==
  Quiet => \A n \in Names : logged[n] > 0 => events[n].count > 0

(* The coverage of all clients is their sum, and lines are lost only when  *)
(* two threads add at once: one reads the sum while another, that has read *)
(* it, has not stored its own.                                             *)
AggregatesApart == Quiet /\ "coverage" \notin overlap => coverage.count = captured

(* Every event is counted exactly, whichever threads logged it, as long as *)
(* no two of them were in log_event with the same name at once.            *)
EventsExactApart == Quiet => \A n \in Names \ overlap : events[n].count = logged[n]

(* A process that survives a signal is captured there and at its next      *)
(* stop, both times with its counts since it began; that is the only way   *)
(* to be counted again: a client whose process ends through the exit       *)
(* breakpoint, a signal or a crash adds what it has executed once.         *)
CountedAgainIfSurvived ==
  coverage.count <= executed * (1 + logged["SIGUSR1"])

(* The rest does not hold of the code: TLC finds counterexamples.          *)

(* "Coverage data is aggregated between all clients on the same session"   *)
(* (README.md): when no capture is under way, the reported count is the    *)
(* sum of what the captures of all clients have read.                      *)
Aggregates == Quiet => coverage.count = captured

(* "SIGUSR1 is sent to the process to capture GCOV data" (index.html): a   *)
(* capture adds what ran since, so that no line is reported more often     *)
(* than it ran.                                                            *)
CountedOnce == Quiet => coverage.count <= executed
=============================================================================
