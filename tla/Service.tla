------------------------------- MODULE Service -------------------------------
(***************************************************************************)
(* One running service: the accept thread of cgcserv/service.py, the       *)
(* Instance thread that cgcserv/instance.py starts for each connection and *)
(* that keeps a traced process behind it, and the request thread that      *)
(* stops the service.  An action is a step between two points where the    *)
(* interpreter may run another thread.                                     *)
(*                                                                         *)
(* The kernel is external: processes, signals, ptrace and waitpid.  A pid  *)
(* is a connection and a slot: every instance takes its pids from a few of *)
(* its own, so that it may get one back, and none gets another's.  The     *)
(* value of instances[pid] is then known from the pid, and `instances' is  *)
(* the set of its keys.  Events, cores and coverage, which handling an     *)
(* event also changes, change nothing here but for a capture that raises.  *)
(***************************************************************************)
EXTENDS Naturals, FiniteSets

CONSTANTS
  Conns,   \* connections, one for each client
  Slots    \* pids of an instance: at most one is in use, the rest are free

ASSUME SlotsAssumption == Slots # {}

Pids == Conns \X Slots
InstanceOf(p) == p[1]

(* A traced process that a signal or the exit breakpoint has stopped and   *)
(* that waitpid has not reported yet; "TERM" stands for every signal that  *)
(* the code does not name.                                                 *)
Stops   == {"TRAP", "SEGV", "TERM", "PIPE"}
(* A zombie: WIFEXITED or WIFSIGNALED. *)
Zombies == {"exit", "killed"}
(* "none": the pid is free.  "exiting": past the exit breakpoint.  "held": *)
(* stopped and reported.  "loose": runs and is traced no more.             *)
ProcStates == {"none", "run", "exiting", "held", "loose"} \cup Stops \cup Zombies

VARIABLES
  running,    \* Service.running
  listening,  \* the kernel's state of Service.sock
  svc,        \* accept thread: its next step
  conn,       \* state of each connection at the server
  gone,       \* connections whose client closed its socket
  instances,  \* keys of Service.instances
  ipc,        \* per Instance thread, its next step
  irun,       \* Instance.running
  pid,        \* Instance.pid; slot of the last process
  status,     \* the status that waitpid returned, until it is handled
  lock,       \* Instance.eventLock is held by the Instance thread
  proc,       \* state of each process
  term,       \* processes with a SIGTERM pending
  stop,       \* thread in Service.stop: its next step
  walk        \* its iteration over instances: keys at its start, keys met,
              \* the current key

accepter == <<running, listening, svc>>
thread   == <<ipc, irun, pid, status, lock>>
kernel   == <<proc, term>>
stopper  == <<stop, walk>>
vars     == <<accepter, conn, gone, instances, thread, kernel, stopper>>

Idle    == {"none", "begin"}
Ended   == {"done", "dead"}
NoKeys  == [keys |-> {}, met |-> {}, at |-> {}]

Init ==
  /\ running   = TRUE
  /\ listening = TRUE
  /\ svc       = "accept"
  /\ conn      = [c \in Conns |-> "none"]
  /\ gone      = {}
  /\ instances = {}
  /\ ipc       = [c \in Conns |-> "none"]
  /\ irun      = [c \in Conns |-> FALSE]
  /\ pid       = [c \in Conns |-> <<c, CHOOSE k \in Slots : TRUE>>]
  /\ status    = [c \in Conns |-> "none"]
  /\ lock      = [c \in Conns |-> FALSE]
  /\ proc      = [p \in Pids |-> "none"]
  /\ term      = {}
  /\ stop      = "idle"
  /\ walk      = NoKeys

-----------------------------------------------------------------------------
(* Clients *)

Connect(c) ==
  /\ listening
  /\ conn[c] = "none"
  /\ conn' = [conn EXCEPT ![c] = "queued"]
  /\ UNCHANGED <<accepter, gone, instances, thread, kernel, stopper>>

ClientClose(c) ==
  /\ conn[c] # "none"
  /\ c \notin gone
  /\ gone' = gone \cup {c}
  /\ UNCHANGED <<accepter, conn, instances, thread, kernel, stopper>>

-----------------------------------------------------------------------------
(* Service.run *)

Accept(c) ==
  /\ svc = "accept"
  /\ conn[c] = "queued"
  /\ conn' = [conn EXCEPT ![c] = "accepted"]
  /\ svc' = "create"
  /\ UNCHANGED <<running, listening, gone, instances, thread, kernel, stopper>>

(* sock.accept() raises because the socket is closed; `continue' ends the  *)
(* loop.                                                                   *)
AcceptEnds ==
  /\ svc = "accept"
  /\ ~listening
  /\ ~running
  /\ svc' = "ended"
  /\ UNCHANGED <<running, listening, conn, gone, instances, thread, kernel, stopper>>

(* createInstance: Instance.__init__ starts the thread of the connection,  *)
(* and the loop looks at `running' again.                                  *)
Create(c) ==
  /\ svc = "create"
  /\ conn[c] = "accepted"
  /\ ipc[c] = "none"
  /\ ipc' = [ipc EXCEPT ![c] = "begin"]
  /\ svc' = IF running THEN "accept" ELSE "ended"
  /\ UNCHANGED <<running, listening, conn, gone, instances, irun, pid, status,
                 lock, kernel, stopper>>

(* _get_symbol_addr raises (nm finds no __gcov_exit); nothing catches it:  *)
(* the accept thread ends, and the connection is closed with its socket    *)
(* object.                                                                 *)
CreateRaises(c) ==
  /\ svc = "create"
  /\ conn[c] = "accepted"
  /\ ipc[c] = "none"
  /\ conn' = [conn EXCEPT ![c] = "closed"]
  /\ svc' = "ended"
  /\ UNCHANGED <<running, listening, gone, instances, thread, kernel, stopper>>

-----------------------------------------------------------------------------
(* Instance.run and Instance.__spawn *)

GotoI(c, from, to) ==
  /\ ipc[c] = from
  /\ ipc' = [ipc EXCEPT ![c] = to]

SetProc(p, s) == proc' = [proc EXCEPT ![p] = s]

(* The process is gone from the table, and its pending signal with it. *)
Reap(p) ==
  /\ SetProc(p, "none")
  /\ term' = term \ {p}

Begin(c) ==
  /\ GotoI(c, "begin", "fork")
  /\ irun' = [irun EXCEPT ![c] = TRUE]
  /\ UNCHANGED <<accepter, conn, gone, instances, pid, status, lock, kernel, stopper>>

(* fork, the first trap after exec, the breakpoint at __gcov_exit and      *)
(* ptrace_cont: from here on the process runs.                             *)
Fork(c) ==
  \E k \in Slots :
    /\ GotoI(c, "fork", "insert")
    /\ proc[<<c, k>>] = "none"
    /\ pid' = [pid EXCEPT ![c] = <<c, k>>]
    /\ SetProc(<<c, k>>, "run")
    /\ UNCHANGED <<accepter, conn, gone, instances, irun, status, lock, term, stopper>>

Insert_FirstOnly(c) ==
  /\ GotoI(c, "insert", "loop")
  /\ instances' = IF lock[c] THEN instances ELSE instances \cup {pid[c]}
  /\ lock' = [lock EXCEPT ![c] = FALSE]
  /\ UNCHANGED <<accepter, conn, gone, irun, pid, status, kernel, stopper>>

(* instances[self.pid] = self ends __spawn; in a handler, the lock goes    *)
(* with it.                                                                *)
Insert(c) ==
  /\ GotoI(c, "insert", "loop")
  /\ instances' = instances \cup {pid[c]}
  /\ lock' = [lock EXCEPT ![c] = FALSE]
  /\ UNCHANGED <<accepter, conn, gone, irun, pid, status, kernel, stopper>>

(* while self.running *)
Loop(c) ==
  /\ GotoI(c, "loop", IF irun[c] THEN "wait" ELSE "done")
  /\ UNCHANGED <<accepter, conn, gone, instances, irun, pid, status, lock, kernel, stopper>>

(* os.waitpid(self.pid, 0) returns a stop, or reaps the process. *)
Wait(c) ==
  LET p == pid[c] IN
    /\ GotoI(c, "wait", "lock")
    /\ proc[p] \in Stops \cup Zombies
    /\ status' = [status EXCEPT ![c] = proc[p]]
    /\ \/ proc[p] \in Zombies /\ Reap(p)
       \/ proc[p] \in Stops /\ SetProc(p, "held") /\ UNCHANGED term
    /\ UNCHANGED <<accepter, conn, gone, instances, irun, pid, lock, stopper>>

(* ECHILD: the process has been reaped before.  The thread dies. *)
WaitRaises(c) ==
  /\ GotoI(c, "wait", "dead")
  /\ proc[pid[c]] = "none"
  /\ UNCHANGED <<accepter, conn, gone, instances, irun, pid, status, lock, kernel, stopper>>

(* `if not self.running: return' does not return: between two rounds of    *)
(* the loop nothing but the thread itself clears the flag.                 *)
Lock(c) ==
  /\ irun[c]
  /\ ~lock[c]
  /\ GotoI(c, "lock", "handle")
  /\ lock' = [lock EXCEPT ![c] = TRUE]
  /\ UNCHANGED <<accepter, conn, gone, instances, irun, pid, status, kernel, stopper>>

-----------------------------------------------------------------------------
(* Instance.__handle_event, one action for each of its branches *)

Handles(c, S) == ipc[c] = "handle" /\ status[c] \in S

HandlerReturns(c) ==
  /\ ipc'    = [ipc EXCEPT ![c] = "loop"]
  /\ status' = [status EXCEPT ![c] = "none"]
  /\ lock'   = [lock EXCEPT ![c] = FALSE]

HandleDead_Unlocked(c) ==
  /\ Handles(c, Zombies)
  /\ instances' = instances \ {pid[c]}
  /\ ipc' = [ipc EXCEPT ![c] = "fork"]
  /\ status' = [status EXCEPT ![c] = "none"]
  /\ lock' = [lock EXCEPT ![c] = FALSE]
  /\ UNCHANGED <<accepter, conn, gone, irun, pid, kernel, stopper>>

HandleDead_NoRespawn(c) ==
  /\ Handles(c, Zombies)
  /\ instances' = instances \ {pid[c]}
  /\ HandlerReturns(c)
  /\ UNCHANGED <<accepter, conn, gone, irun, pid, kernel, stopper>>

(* WIFEXITED, WIFSIGNALED: the key goes, and __spawn follows. *)
HandleDead(c) ==
  /\ Handles(c, Zombies)
  /\ instances' = instances \ {pid[c]}
  /\ ipc' = [ipc EXCEPT ![c] = "fork"]
  /\ status' = [status EXCEPT ![c] = "none"]
  /\ UNCHANGED <<accepter, conn, gone, irun, pid, lock, kernel, stopper>>

(* WIFSTOPPED: coverage.capture raises (an I/O error reading the memory of *)
(* the process).  `finally' releases the lock and the thread dies; with    *)
(* its tracer gone the process runs on, or dies of its signal.             *)
CaptureRaises(c) ==
  /\ Handles(c, Stops)
  /\ ipc' = [ipc EXCEPT ![c] = "dead"]
  /\ status' = [status EXCEPT ![c] = "none"]
  /\ lock' = [lock EXCEPT ![c] = FALSE]
  /\ \E s \in {"loose", "killed"} : SetProc(pid[c], s)
  /\ UNCHANGED <<accepter, conn, gone, instances, irun, pid, term, stopper>>

HandleTrap_NoCont(c) ==
  /\ Handles(c, {"TRAP"})
  /\ HandlerReturns(c)
  /\ UNCHANGED <<accepter, conn, gone, instances, irun, pid, kernel, stopper>>

(* The exit breakpoint: it is removed and the process goes on to exit. *)
HandleTrap(c) ==
  /\ Handles(c, {"TRAP"})
  /\ SetProc(pid[c], "exiting")
  /\ HandlerReturns(c)
  /\ UNCHANGED <<accepter, conn, gone, instances, irun, pid, term, stopper>>

HandlePipe_NoDetach(c) ==
  /\ Handles(c, {"PIPE"})
  /\ irun' = [irun EXCEPT ![c] = FALSE]
  /\ HandlerReturns(c)
  /\ UNCHANGED <<accepter, conn, gone, instances, pid, kernel, stopper>>

(* SIGPIPE: ptrace_detach without the signal, then waitpid. *)
HandlePipe(c) ==
  /\ Handles(c, {"PIPE"})
  /\ SetProc(pid[c], "loose")
  /\ ipc' = [ipc EXCEPT ![c] = "drain"]
  /\ UNCHANGED <<accepter, conn, gone, instances, irun, pid, status, lock, term, stopper>>

(* That waitpid returns, with the lock held all along. *)
Drain(c) ==
  /\ ipc[c] = "drain"
  /\ proc[pid[c]] \in Zombies
  /\ Reap(pid[c])
  /\ irun' = [irun EXCEPT ![c] = FALSE]
  /\ HandlerReturns(c)
  /\ UNCHANGED <<accepter, conn, gone, instances, pid, stopper>>

HandleSegv_NoWait(c) ==
  /\ Handles(c, {"SEGV"})
  /\ SetProc(pid[c], "killed")
  /\ ipc' = [ipc EXCEPT ![c] = "fork"]
  /\ status' = [status EXCEPT ![c] = "none"]
  /\ UNCHANGED <<accepter, conn, gone, instances, irun, pid, lock, term, stopper>>

(* SIGSEGV: __capturecore detaches, runs gcore, kills and reaps, and       *)
(* __spawn follows.  The key of the process stays in instances.            *)
HandleSegv(c) ==
  /\ Handles(c, {"SEGV"})
  /\ Reap(pid[c])
  /\ ipc' = [ipc EXCEPT ![c] = "fork"]
  /\ status' = [status EXCEPT ![c] = "none"]
  /\ UNCHANGED <<accepter, conn, gone, instances, irun, pid, lock, stopper>>

(* Any other signal is delivered by ptrace_cont: the process dies of it    *)
(* unless it handles it.                                                   *)
HandleSignal(c) ==
  /\ Handles(c, {"TERM"})
  /\ \E s \in {"run", "killed"} : SetProc(pid[c], s)
  /\ HandlerReturns(c)
  /\ UNCHANGED <<accepter, conn, gone, instances, irun, pid, term, stopper>>

-----------------------------------------------------------------------------
(* Processes *)

(* What may befall a process at any time, also in its exit handlers, which *)
(* still write to the client; a SIGPIPE takes a closed client.             *)
Mishaps(p) ==
  {"SEGV", "TERM", "exit", "killed"}
    \cup (IF InstanceOf(p) \in gone THEN {"PIPE"} ELSE {})

After(p) ==
  CASE proc[p] = "run"     -> {"TRAP"} \cup Mishaps(p)
    [] proc[p] = "exiting" -> Mishaps(p)
    [] proc[p] = "loose"   -> Zombies
    [] OTHER -> {}

ProcessMoves(p) ==
  /\ \E s \in After(p) : SetProc(p, s)
  /\ UNCHANGED <<accepter, conn, gone, instances, thread, term, stopper>>

(* A pending SIGTERM stops a traced process and kills one that is not. *)
TermArrives(p) ==
  /\ p \in term
  /\ \/ proc[p] \in {"run", "exiting"} /\ SetProc(p, "TERM")
     \/ proc[p] = "loose" /\ SetProc(p, "killed")
  /\ term' = term \ {p}
  /\ UNCHANGED <<accepter, conn, gone, instances, thread, stopper>>

-----------------------------------------------------------------------------
(* Service.stop and Instance.stop *)

GotoS(from, to) == stop = from /\ stop' = to

StopBegin ==
  /\ GotoS("idle", "shutdown")
  /\ running' = FALSE
  /\ UNCHANGED <<listening, svc, conn, gone, instances, thread, kernel, walk>>

StopShutdown_NoClose ==
  /\ GotoS("shutdown", "join")
  /\ UNCHANGED <<accepter, conn, gone, instances, thread, kernel, walk>>

(* shutdown and close; the kernel resets the connections nobody accepted. *)
StopShutdown ==
  /\ GotoS("shutdown", "join")
  /\ listening' = FALSE
  /\ conn' = [c \in Conns |-> IF conn[c] = "queued" THEN "reset" ELSE conn[c]]
  /\ UNCHANGED <<running, svc, gone, instances, thread, kernel, walk>>

(* self.join(), and the iterator over instances.items() is made. *)
StopJoin ==
  /\ GotoS("join", "next")
  /\ svc = "ended"
  /\ walk' = [keys |-> instances, met |-> {}, at |-> {}]
  /\ UNCHANGED <<accepter, conn, gone, instances, thread, kernel>>

SameSize == Cardinality(instances) = Cardinality(walk.keys)

(* The iterator returns a key that it has not returned before. *)
StopNext ==
  /\ GotoS("next", "poke")
  /\ SameSize
  /\ \E p \in instances \ walk.met :
       walk' = [keys |-> walk.keys, met |-> walk.met \cup {p}, at |-> {p}]
  /\ UNCHANGED <<accepter, conn, gone, instances, thread, kernel>>

(* RuntimeError: dictionary changed size during iteration. *)
StopRaises ==
  /\ GotoS("next", "raised")
  /\ ~SameSize
  /\ UNCHANGED <<accepter, conn, gone, instances, thread, kernel, walk>>

(* The iterator ends: it has returned every key, or keys were exchanged    *)
(* and it counts as many as there were.                                    *)
StopWalked ==
  /\ GotoS("next", "master")
  /\ SameSize
  /\ instances \subseteq walk.met \/ instances # walk.keys
  /\ UNCHANGED <<accepter, conn, gone, instances, thread, kernel, walk>>

AtInstance(c) == \E p \in walk.at : InstanceOf(p) = c

(* Instance.stop sets running to True. *)
StopPoke ==
  /\ GotoS("poke", "kill")
  /\ \E c \in Conns : AtInstance(c) /\ irun' = [irun EXCEPT ![c] = TRUE]
  /\ UNCHANGED <<accepter, conn, gone, instances, ipc, pid, status, lock, kernel, walk>>

(* With the eventLock, os.kill(self.pid, SIGTERM); the error for a process *)
(* that is gone is ignored.                                                *)
StopKill ==
  /\ GotoS("kill", "wait")
  /\ \E c \in Conns :
       /\ AtInstance(c)
       /\ ~lock[c]
       /\ term' = IF proc[pid[c]] \in Zombies \cup {"none"}
                  THEN term ELSE term \cup {pid[c]}
  /\ UNCHANGED <<accepter, conn, gone, instances, thread, proc, walk>>

StopWait_NoJoin ==
  /\ GotoS("wait", "next")
  /\ \E c \in Conns :
       AtInstance(c) /\ conn' = [conn EXCEPT ![c] = "closed"]
  /\ UNCHANGED <<accepter, gone, instances, thread, kernel, walk>>

(* self.join() and conn.close() *)
StopWait ==
  /\ GotoS("wait", "next")
  /\ \E c \in Conns :
       /\ AtInstance(c)
       /\ ipc[c] \in Ended
       /\ conn' = [conn EXCEPT ![c] = "closed"]
  /\ UNCHANGED <<accepter, gone, instances, thread, kernel, walk>>

(* master_instance.stop() kills and reaps the master, and the session      *)
(* directory goes.                                                         *)
StopMaster ==
  /\ GotoS("master", "stopped")
  /\ UNCHANGED <<accepter, conn, gone, instances, thread, kernel, walk>>

-----------------------------------------------------------------------------

Client(c) == Connect(c) \/ ClientClose(c)

ServiceRun ==
  \/ AcceptEnds
  \/ \E c \in Conns : Accept(c) \/ Create(c) \/ CreateRaises(c)

HandleEvent(c) ==
  \/ HandleDead(c) \/ CaptureRaises(c) \/ HandleTrap(c) \/ HandlePipe(c)
  \/ Drain(c) \/ HandleSegv(c) \/ HandleSignal(c)

InstanceRun(c) ==
  \/ Begin(c) \/ Fork(c) \/ Insert(c) \/ Loop(c)
  \/ Wait(c) \/ WaitRaises(c) \/ Lock(c) \/ HandleEvent(c)

ServiceStop ==
  \/ StopShutdown \/ StopJoin \/ StopNext \/ StopRaises \/ StopWalked
  \/ StopPoke \/ StopKill \/ StopWait \/ StopMaster

Next ==
  \/ \E c \in Conns : Client(c) \/ InstanceRun(c)
  \/ \E p \in Pids : ProcessMoves(p) \/ TermArrives(p)
  \/ ServiceRun \/ StopBegin \/ ServiceStop

Spec == Init /\ [][Next]_vars

(* Threads run, and the kernel delivers signals.  Nothing makes a client   *)
(* act, a process exit or crash, or anybody stop the service.              *)
Fairness ==
  /\ WF_vars(ServiceRun)
  /\ WF_vars(ServiceStop)
  /\ \A c \in Conns : WF_vars(InstanceRun(c))
  /\ \A p \in Pids : WF_vars(TermArrives(p))

FairSpec == Spec /\ Fairness

-----------------------------------------------------------------------------
(* What it implements *)

StageOf(step) ==
  CASE step = "none"  -> "before"
    [] step \in Ended -> "over"
    [] OTHER          -> "tends"

LifeOf(state) ==
  CASE state = "none"                  -> "none"
    [] state \in Stops \cup {"held"}   -> "stopped"
    [] state \in Zombies               -> "ended"
    [] OTHER                           -> "runs"

Stage == [c \in Conns |-> StageOf(ipc[c])]
Life  == [p \in Pids |-> LifeOf(proc[p])]

Lives == INSTANCE InstanceLife WITH stage <- Stage, process <- Life

-----------------------------------------------------------------------------
(***************************************************************************)
(* Properties                                                              *)
(***************************************************************************)

TypeOK ==
  /\ running \in BOOLEAN
  /\ listening \in BOOLEAN
  /\ svc \in {"accept", "create", "ended"}
  /\ conn \in [Conns -> {"none", "queued", "accepted", "reset", "closed"}]
  /\ gone \in SUBSET Conns
  /\ instances \in SUBSET Pids
  /\ ipc \in [Conns -> {"none", "begin", "fork", "insert", "loop", "wait",
                       "lock", "handle", "drain"} \cup Ended]
  /\ irun \in [Conns -> BOOLEAN]
  /\ pid \in [Conns -> Pids]
  /\ \A c \in Conns : InstanceOf(pid[c]) = c
  /\ status \in [Conns -> {"none"} \cup Stops \cup Zombies]
  /\ lock \in [Conns -> BOOLEAN]
  /\ proc \in [Pids -> ProcStates]
  /\ term \in SUBSET Pids
  /\ stop \in {"idle", "shutdown", "join", "next", "poke", "kill", "wait",
               "master", "stopped", "raised"}
  /\ walk \in [keys : SUBSET Pids, met : SUBSET Pids, at : SUBSET Pids]
  /\ \A p, q \in walk.at : p = q

(* An instance has at most one process that is not reaped: whichever way   *)
(* the last one ended (exit, signal, killed after its core was taken), it  *)
(* was waited for before __spawn forks the next.                           *)
OneProcess ==
  \A p, q \in Pids :
    /\ InstanceOf(p) = InstanceOf(q)
    /\ proc[p] # "none"
    /\ proc[q] # "none"
    => p = q

(* Whatever becomes of the processes, the clients and the service, an      *)
(* instance has the life that InstanceLife describes: one process at a     *)
(* time, started, resumed and reaped by its thread and stopped only while  *)
(* that lives, none left by a thread that ended but the one it died with.  *)
ImplementsLife == Lives!Spec

(* While its thread waits for a process, the instance is found under the   *)
(* pid of that process: dump_coverage and Service.stop reach every process *)
(* in service through the keys of instances.                               *)
ServedIsRegistered ==
  \A c \in Conns :
    ipc[c] \in {"wait", "lock"} /\ proc[pid[c]] # "none" => pid[c] \in instances

(* A process that ptrace has stopped has a thread that will resume it: no  *)
(* way out of the loop of Instance.run leaves it frozen, with the client   *)
(* still connected.                                                        *)
NoFrozenProcess ==
  \A p \in Pids :
    proc[p] \in Stops \cup {"held"} =>
      /\ p = pid[InstanceOf(p)]
      /\ ipc[InstanceOf(p)] \notin Ended \cup {"none", "begin", "fork"}

(* The SIGTERM of Instance.stop never meets an instance in the middle of   *)
(* replacing its process, when self.pid may be the old one or the new one: *)
(* the eventLock is held from the event to the end of __spawn, and the     *)
(* first __spawn, without it, is over before anyone finds the instance.    *)
KillMeetsNoSpawn ==
  stop = "kill" /\ stop' = "wait" =>
    \A c \in Conns : AtInstance(c) => ipc[c] \notin {"begin", "fork", "insert"}

KillNotMidSpawn == [][KillMeetsNoSpawn]_vars

(* Service.stop comes to the master only when it has closed the port, the  *)
(* accept thread has ended, and each instance that it met has ended and    *)
(* its connection is closed.                                               *)
StopPostcondition ==
  stop \in {"master", "stopped"} =>
    /\ ~listening
    /\ svc = "ended"
    /\ \A p \in walk.met :
         ipc[InstanceOf(p)] \in Ended /\ conn[InstanceOf(p)] = "closed"

(* "If the process exits successfully cgcserv will re-spawn the process"   *)
(* (README.md): a process that ended while its thread waits is replaced,   *)
(* whatever the other threads do, a stop of the service included.          *)
Respawns ==
  \A c \in Conns :
    ipc[c] = "wait" /\ proc[pid[c]] \in Zombies ~> ipc[c] = "insert"

(* A process that stopped under ptrace goes on or is gone in the end.      *)
StoppedIsResumed ==
  \A p \in Pids : proc[p] \in Stops \cup {"held"} ~> proc[p] \notin Stops \cup {"held"}

(* Clearing `running' and closing the socket end the accept thread: its    *)
(* join in Service.stop never hangs.                                       *)
AcceptThreadEnds == ~running ~> svc = "ended"

(* The rest does not hold of the code: TLC finds counterexamples.          *)

(* Service.stop, whose Instance.stop pokes "the process to wake up the     *)
(* event thread" (instance.py) and joins that thread, returns or raises,   *)
(* also when every client stays connected.                                 *)
StopTerminates ==
  stop # "idle" ~> stop \in {"stopped", "raised"} \/ gone # {}

(* When Service.stop has returned, no process of the service is left.      *)
NoOrphan ==
  stop = "stopped" => \A p \in Pids : proc[p] = "none"

(* "SIGPIPE: Probably means the fuzzer closed its socket. This results in  *)
(* the server closing its socket." (index.html): the connection is closed  *)
(* once the instance has ended because of it, without a stop.              *)
SigpipeCloses ==
  \A c \in Conns : ipc[c] = "done" /\ running ~> conn[c] = "closed" \/ ~running

(* The pids that dump_coverage hands to the coverage tool are processes of *)
(* the service, except while a thread handles the end of one ("This can    *)
(* occur when the pid dies while coverage is being collected", the comment *)
(* of PyGcovRT.get says of the failures it swallows).                      *)
KeysAreLive ==
  \A p \in instances : ipc[InstanceOf(p)] \in {"wait", "done"} => proc[p] # "none"
=============================================================================
