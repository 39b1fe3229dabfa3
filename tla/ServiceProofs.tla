--------------------------- MODULE ServiceProofs ---------------------------
(***************************************************************************)
(* Safety of Service, for any number of connections and slots.  Two        *)
(* invariants are inductive: ServiceInv relates the step of each Instance  *)
(* thread to the state of its process, its lock and its key, and StopInv   *)
(* the steps of Service.stop to what it has closed.                        *)
(***************************************************************************)
EXTENDS Service, TLAPS

(* A process that is not reaped is the one its instance knows as self.pid, *)
(* and the instance does not stand before a fork.                          *)
CurrentInv ==
  \A p \in Pids : proc[p] # "none" =>
    /\ p = pid[InstanceOf(p)]
    /\ ipc[InstanceOf(p)] \notin {"none", "begin", "fork"}

(* What the thread knows of the process between waitpid and the handler's  *)
(* end, and in the blocking waitpid after a SIGPIPE.                       *)
StatusInv ==
  \A c \in Conns :
    /\ ipc[c] \in {"lock", "handle"} =>
         \/ status[c] \in Zombies /\ proc[pid[c]] = "none"
         \/ status[c] \in Stops /\ proc[pid[c]] = "held"
    /\ proc[pid[c]] = "held" => ipc[c] \in {"lock", "handle"}
    /\ ipc[c] = "drain" => proc[pid[c]] \in Zombies \cup {"loose"}

(* A thread leaves its loop only when its process is reaped or runs        *)
(* untraced.                                                               *)
EndInv ==
  \A c \in Conns :
    /\ ipc[c] = "loop" /\ ~irun[c] => proc[pid[c]] = "none"
    /\ ipc[c] \in {"fork", "insert", "wait", "lock", "handle", "drain"} => irun[c]
    /\ ipc[c] \in Ended => proc[pid[c]] \in Zombies \cup {"none", "loose"}

RegisteredInv ==
  \A c \in Conns :
    ipc[c] \in {"loop", "wait", "lock", "handle"} /\ proc[pid[c]] # "none"
      => pid[c] \in instances

(* The lock is held from an event to the end of __spawn; before the first  *)
(* __spawn has ended nobody has a key of the instance.                     *)
LockInv ==
  \A c \in Conns :
    /\ lock[c] => ipc[c] \in {"handle", "drain", "fork", "insert"}
    /\ ipc[c] \in {"handle", "drain"} => lock[c]
    /\ \/ ipc[c] \in {"none", "begin"}
       \/ ipc[c] \in {"fork", "insert"} /\ ~lock[c]
       => \A p \in instances \cup walk.at : InstanceOf(p) # c

ServiceInv ==
  TypeOK /\ CurrentInv /\ StatusInv /\ EndInv /\ RegisteredInv /\ LockInv

LEMMA BeginStep ==
  ASSUME ServiceInv, NEW c \in Conns, Begin(c)
  PROVE  ServiceInv'
BY DEF ServiceInv, TypeOK, CurrentInv, StatusInv, EndInv, RegisteredInv,
  LockInv, Begin, GotoI, accepter, kernel, stopper, Stops, Zombies,
  Ended, ProcStates, Pids, InstanceOf

LEMMA ForkStep ==
  ASSUME ServiceInv, NEW c \in Conns, Fork(c)
  PROVE  ServiceInv'
<1> USE DEF ServiceInv, Fork, GotoI, SetProc, accepter, stopper, Stops, Zombies,
  Ended, ProcStates, Pids, InstanceOf
<1>1. TypeOK'
  BY DEF TypeOK
<1>2. CurrentInv'
  BY DEF TypeOK, CurrentInv, StatusInv
<1>3. StatusInv'
  BY DEF TypeOK, CurrentInv, StatusInv, EndInv
<1>4. EndInv'
  BY DEF TypeOK, CurrentInv, StatusInv, EndInv
<1>5. RegisteredInv'
  BY DEF TypeOK, CurrentInv, StatusInv, RegisteredInv
<1>6. LockInv'
  BY DEF TypeOK, LockInv
<1> QED
  BY <1>1, <1>2, <1>3, <1>4, <1>5, <1>6

LEMMA InsertStep ==
  ASSUME ServiceInv, NEW c \in Conns, Insert(c)
  PROVE  ServiceInv'
<1> USE DEF ServiceInv, Insert, GotoI, accepter, kernel, stopper, Stops, Zombies,
  Ended, ProcStates, Pids, InstanceOf
<1>1. TypeOK'
  BY DEF TypeOK
<1>2. CurrentInv'
  BY DEF TypeOK, CurrentInv, StatusInv
<1>3. StatusInv'
  BY DEF TypeOK, CurrentInv, StatusInv, EndInv
<1>4. EndInv'
  BY DEF TypeOK, CurrentInv, StatusInv, EndInv
<1>5. RegisteredInv'
  BY DEF TypeOK, CurrentInv, StatusInv, RegisteredInv
<1>6. LockInv'
  BY DEF TypeOK, LockInv
<1> QED
  BY <1>1, <1>2, <1>3, <1>4, <1>5, <1>6

LEMMA LoopStep ==
  ASSUME ServiceInv, NEW c \in Conns, Loop(c)
  PROVE  ServiceInv'
BY DEF ServiceInv, TypeOK, CurrentInv, StatusInv, EndInv, RegisteredInv,
  LockInv, Loop, GotoI, accepter, kernel, stopper, Stops, Zombies,
  Ended, ProcStates, Pids, InstanceOf

LEMMA WaitStep ==
  ASSUME ServiceInv, NEW c \in Conns, Wait(c)
  PROVE  ServiceInv'
<1> USE DEF ServiceInv, Wait, GotoI, SetProc, Reap, accepter, stopper, Stops,
  Zombies, Ended, ProcStates, Pids, InstanceOf
<1>1. TypeOK'
  BY DEF TypeOK
<1>2. CurrentInv'
  BY DEF TypeOK, CurrentInv, StatusInv
<1>3. StatusInv'
  BY DEF TypeOK, CurrentInv, StatusInv, EndInv
<1>4. EndInv'
  BY DEF TypeOK, CurrentInv, StatusInv, EndInv
<1>5. RegisteredInv'
  BY DEF TypeOK, CurrentInv, StatusInv, RegisteredInv
<1>6. LockInv'
  BY DEF TypeOK, LockInv
<1> QED
  BY <1>1, <1>2, <1>3, <1>4, <1>5, <1>6

LEMMA WaitRaisesStep ==
  ASSUME ServiceInv, NEW c \in Conns, WaitRaises(c)
  PROVE  ServiceInv'
BY DEF ServiceInv, TypeOK, CurrentInv, StatusInv, EndInv, RegisteredInv,
  LockInv, WaitRaises, GotoI, accepter, kernel, stopper, Stops, Zombies,
  Ended, ProcStates, Pids, InstanceOf

LEMMA LockStep ==
  ASSUME ServiceInv, NEW c \in Conns, Lock(c)
  PROVE  ServiceInv'
BY DEF ServiceInv, TypeOK, CurrentInv, StatusInv, EndInv, RegisteredInv,
  LockInv, Lock, GotoI, accepter, kernel, stopper, Stops, Zombies,
  Ended, ProcStates, Pids, InstanceOf

LEMMA HandleDeadStep ==
  ASSUME ServiceInv, NEW c \in Conns, HandleDead(c)
  PROVE  ServiceInv'
<1> USE DEF ServiceInv, HandleDead, Handles, accepter, kernel, stopper, Stops,
  Zombies, Ended, ProcStates, Pids, InstanceOf
<1>1. TypeOK'
  BY DEF TypeOK
<1>2. CurrentInv'
  BY DEF TypeOK, CurrentInv, StatusInv
<1>3. StatusInv'
  BY DEF TypeOK, CurrentInv, StatusInv, EndInv
<1>4. EndInv'
  BY DEF TypeOK, CurrentInv, StatusInv, EndInv
<1>5. RegisteredInv'
  BY DEF TypeOK, CurrentInv, StatusInv, RegisteredInv
<1>6. LockInv'
  BY DEF TypeOK, LockInv
<1> QED
  BY <1>1, <1>2, <1>3, <1>4, <1>5, <1>6

LEMMA CaptureRaisesStep ==
  ASSUME ServiceInv, NEW c \in Conns, CaptureRaises(c)
  PROVE  ServiceInv'
<1> USE DEF ServiceInv, CaptureRaises, SetProc, Handles, accepter, stopper, Stops,
  Zombies, Ended, ProcStates, Pids, InstanceOf
<1>1. TypeOK'
  BY DEF TypeOK
<1>2. CurrentInv'
  BY DEF TypeOK, CurrentInv, StatusInv
<1>3. StatusInv'
  BY DEF TypeOK, CurrentInv, StatusInv, EndInv
<1>4. EndInv'
  BY DEF TypeOK, CurrentInv, StatusInv, EndInv
<1>5. RegisteredInv'
  BY DEF TypeOK, CurrentInv, StatusInv, RegisteredInv
<1>6. LockInv'
  BY DEF TypeOK, LockInv
<1> QED
  BY <1>1, <1>2, <1>3, <1>4, <1>5, <1>6

LEMMA HandleTrapStep ==
  ASSUME ServiceInv, NEW c \in Conns, HandleTrap(c)
  PROVE  ServiceInv'
<1> USE DEF ServiceInv, HandleTrap, SetProc, Handles, HandlerReturns, accepter,
  stopper, Stops, Zombies, Ended, ProcStates, Pids, InstanceOf
<1>1. TypeOK'
  BY DEF TypeOK
<1>2. CurrentInv'
  BY DEF TypeOK, CurrentInv, StatusInv
<1>3. StatusInv'
  BY DEF TypeOK, CurrentInv, StatusInv
<1>4. EndInv'
  BY DEF TypeOK, CurrentInv, StatusInv, EndInv
<1>5. RegisteredInv'
  BY DEF TypeOK, CurrentInv, StatusInv, RegisteredInv
<1>6. LockInv'
  BY DEF TypeOK, LockInv
<1> QED
  BY <1>1, <1>2, <1>3, <1>4, <1>5, <1>6

LEMMA HandlePipeStep ==
  ASSUME ServiceInv, NEW c \in Conns, HandlePipe(c)
  PROVE  ServiceInv'
<1> USE DEF ServiceInv, HandlePipe, SetProc, Handles, accepter, stopper, Stops,
  Zombies, Ended, ProcStates, Pids, InstanceOf
<1>1. TypeOK'
  BY DEF TypeOK
<1>2. CurrentInv'
  BY DEF TypeOK, CurrentInv, StatusInv
<1>3. StatusInv'
  BY DEF TypeOK, CurrentInv, StatusInv
<1>4. EndInv'
  BY DEF TypeOK, CurrentInv, StatusInv, EndInv
<1>5. RegisteredInv'
  BY DEF TypeOK, CurrentInv, StatusInv, RegisteredInv
<1>6. LockInv'
  BY DEF TypeOK, LockInv
<1> QED
  BY <1>1, <1>2, <1>3, <1>4, <1>5, <1>6

LEMMA DrainStep ==
  ASSUME ServiceInv, NEW c \in Conns, Drain(c)
  PROVE  ServiceInv'
<1> USE DEF ServiceInv, Drain, Reap, HandlerReturns, accepter, stopper, SetProc,
  Stops, Zombies, Ended, ProcStates, Pids, InstanceOf
<1>1. TypeOK'
  BY DEF TypeOK
<1>2. CurrentInv'
  BY DEF TypeOK, CurrentInv, StatusInv
<1>3. StatusInv'
  BY DEF TypeOK, CurrentInv, StatusInv, EndInv
<1>4. EndInv'
  BY DEF TypeOK, CurrentInv, StatusInv, EndInv
<1>5. RegisteredInv'
  BY DEF TypeOK, CurrentInv, StatusInv, RegisteredInv
<1>6. LockInv'
  BY DEF TypeOK, LockInv
<1> QED
  BY <1>1, <1>2, <1>3, <1>4, <1>5, <1>6

LEMMA HandleSegvStep ==
  ASSUME ServiceInv, NEW c \in Conns, HandleSegv(c)
  PROVE  ServiceInv'
<1> USE DEF ServiceInv, HandleSegv, Reap, Handles, accepter, stopper, SetProc,
  Stops, Zombies, Ended, ProcStates, Pids, InstanceOf
<1>1. TypeOK'
  BY DEF TypeOK
<1>2. CurrentInv'
  BY DEF TypeOK, CurrentInv, StatusInv
<1>3. StatusInv'
  BY DEF TypeOK, CurrentInv, StatusInv, EndInv
<1>4. EndInv'
  BY DEF TypeOK, CurrentInv, StatusInv, EndInv
<1>5. RegisteredInv'
  BY DEF TypeOK, CurrentInv, StatusInv, RegisteredInv
<1>6. LockInv'
  BY DEF TypeOK, LockInv
<1> QED
  BY <1>1, <1>2, <1>3, <1>4, <1>5, <1>6

LEMMA HandleSignalStep ==
  ASSUME ServiceInv, NEW c \in Conns, HandleSignal(c)
  PROVE  ServiceInv'
<1> USE DEF ServiceInv, HandleSignal, SetProc, Handles, HandlerReturns, accepter,
  stopper, Stops, Zombies, Ended, ProcStates, Pids, InstanceOf
<1>1. TypeOK'
  BY DEF TypeOK
<1>2. CurrentInv'
  BY DEF TypeOK, CurrentInv, StatusInv
<1>3. StatusInv'
  BY DEF TypeOK, CurrentInv, StatusInv
<1>4. EndInv'
  BY DEF TypeOK, CurrentInv, StatusInv, EndInv
<1>5. RegisteredInv'
  BY DEF TypeOK, CurrentInv, StatusInv, RegisteredInv
<1>6. LockInv'
  BY DEF TypeOK, LockInv
<1> QED
  BY <1>1, <1>2, <1>3, <1>4, <1>5, <1>6

LEMMA ConnectStep ==
  ASSUME ServiceInv, NEW c \in Conns, Connect(c)
  PROVE  ServiceInv'
BY DEF ServiceInv, TypeOK, CurrentInv, StatusInv, EndInv, RegisteredInv,
  LockInv, Connect, accepter, thread, kernel, stopper, Stops, Zombies,
  Ended, ProcStates, Pids, InstanceOf

LEMMA ClientCloseStep ==
  ASSUME ServiceInv, NEW c \in Conns, ClientClose(c)
  PROVE  ServiceInv'
BY DEF ServiceInv, TypeOK, CurrentInv, StatusInv, EndInv, RegisteredInv,
  LockInv, ClientClose, accepter, thread, kernel, stopper, Stops,
  Zombies, Ended, ProcStates, Pids, InstanceOf

LEMMA AcceptStep ==
  ASSUME ServiceInv, NEW c \in Conns, Accept(c)
  PROVE  ServiceInv'
BY DEF ServiceInv, TypeOK, CurrentInv, StatusInv, EndInv, RegisteredInv,
  LockInv, Accept, thread, kernel, stopper, Stops, Zombies, Ended,
  ProcStates, Pids, InstanceOf

LEMMA CreateStep ==
  ASSUME ServiceInv, NEW c \in Conns, Create(c)
  PROVE  ServiceInv'
BY DEF ServiceInv, TypeOK, CurrentInv, StatusInv, EndInv, RegisteredInv,
  LockInv, Create, kernel, stopper, Stops, Zombies, Ended, ProcStates,
  Pids, InstanceOf

LEMMA CreateRaisesStep ==
  ASSUME ServiceInv, NEW c \in Conns, CreateRaises(c)
  PROVE  ServiceInv'
BY DEF ServiceInv, TypeOK, CurrentInv, StatusInv, EndInv, RegisteredInv,
  LockInv, CreateRaises, thread, kernel, stopper, Stops, Zombies, Ended,
  ProcStates, Pids, InstanceOf

LEMMA AcceptEndsStep ==
  ASSUME ServiceInv, AcceptEnds
  PROVE  ServiceInv'
BY DEF ServiceInv, TypeOK, CurrentInv, StatusInv, EndInv, RegisteredInv,
  LockInv, AcceptEnds, thread, kernel, stopper, Stops, Zombies, Ended,
  ProcStates, Pids, InstanceOf

LEMMA ProcessMovesStep ==
  ASSUME ServiceInv, NEW p \in Pids, ProcessMoves(p)
  PROVE  ServiceInv'
BY DEF ServiceInv, TypeOK, CurrentInv, StatusInv, EndInv, RegisteredInv,
  LockInv, ProcessMoves, SetProc, After, Mishaps, accepter, thread, stopper,
  Stops, Zombies, Ended, ProcStates, Pids, InstanceOf

LEMMA TermArrivesStep ==
  ASSUME ServiceInv, NEW p \in Pids, TermArrives(p)
  PROVE  ServiceInv'
<1> USE DEF ServiceInv, TermArrives, SetProc, accepter, thread, stopper, Stops,
  Zombies, Ended, ProcStates, Pids, InstanceOf
<1>1. TypeOK'
  <2>1. proc' \in [Pids -> ProcStates] /\ term' \in SUBSET Pids
    BY DEF TypeOK
  <2> QED
    BY <2>1 DEF TypeOK
<1>2. CurrentInv'
  BY DEF TypeOK, CurrentInv, StatusInv
<1>3. StatusInv'
  BY DEF TypeOK, CurrentInv, StatusInv
<1>4. EndInv'
  BY DEF TypeOK, CurrentInv, StatusInv, EndInv
<1>5. RegisteredInv'
  BY DEF TypeOK, CurrentInv, StatusInv, RegisteredInv
<1>6. LockInv'
  BY DEF TypeOK, LockInv
<1> QED
  BY <1>1, <1>2, <1>3, <1>4, <1>5, <1>6

LEMMA StopBeginStep ==
  ASSUME ServiceInv, StopBegin
  PROVE  ServiceInv'
<1> USE DEF ServiceInv, StopBegin, GotoS, thread, kernel, Stops, Zombies,
  Ended, ProcStates, Pids, InstanceOf
<1>1. TypeOK'
  BY DEF TypeOK
<1>2. CurrentInv'
  BY DEF CurrentInv
<1>3. StatusInv' /\ EndInv'
  BY DEF StatusInv, EndInv
<1>4. RegisteredInv'
  BY DEF RegisteredInv
<1>5. LockInv'
  BY DEF TypeOK, LockInv
<1> QED
  BY <1>1, <1>2, <1>3, <1>4, <1>5

LEMMA StopShutdownStep ==
  ASSUME ServiceInv, StopShutdown
  PROVE  ServiceInv'
<1> USE DEF ServiceInv, StopShutdown, GotoS, thread, kernel, Stops,
  Zombies, Ended, ProcStates, Pids, InstanceOf
<1>1. TypeOK'
  BY DEF TypeOK
<1>2. CurrentInv'
  BY DEF CurrentInv
<1>3. StatusInv' /\ EndInv'
  BY DEF StatusInv, EndInv
<1>4. RegisteredInv'
  BY DEF RegisteredInv
<1>5. LockInv'
  BY DEF TypeOK, LockInv
<1> QED
  BY <1>1, <1>2, <1>3, <1>4, <1>5

LEMMA StopJoinStep ==
  ASSUME ServiceInv, StopJoin
  PROVE  ServiceInv'
<1> USE DEF ServiceInv, StopJoin, GotoS, accepter, thread, kernel, Stops,
  Zombies, Ended, ProcStates, Pids, InstanceOf
<1>1. TypeOK'
  BY DEF TypeOK
<1>2. CurrentInv'
  BY DEF CurrentInv
<1>3. StatusInv' /\ EndInv'
  BY DEF StatusInv, EndInv
<1>4. RegisteredInv'
  BY DEF RegisteredInv
<1>5. LockInv'
  BY DEF TypeOK, LockInv
<1> QED
  BY <1>1, <1>2, <1>3, <1>4, <1>5

LEMMA StopNextStep ==
  ASSUME ServiceInv, StopNext
  PROVE  ServiceInv'
<1> USE DEF ServiceInv, StopNext, GotoS, accepter, thread, kernel, Stops, Zombies,
  Ended, ProcStates, Pids, InstanceOf
<1>1. TypeOK'
  <2>1. PICK p \in instances :
          walk' = [keys |-> walk.keys, met |-> walk.met \cup {p}, at |-> {p}]
    OBVIOUS
  <2>2. p \in Pids
    BY <2>1 DEF TypeOK
  <2>3. walk' \in [keys : SUBSET Pids, met : SUBSET Pids, at : SUBSET Pids]
    BY <2>1, <2>2 DEF TypeOK
  <2>4. \A q, r \in walk'.at : q = r
    BY <2>1
  <2> QED
    BY <2>3, <2>4 DEF TypeOK
<1>2. CurrentInv'
  BY DEF TypeOK, CurrentInv, StatusInv
<1>3. StatusInv'
  BY DEF TypeOK, CurrentInv, StatusInv, EndInv
<1>4. EndInv'
  BY DEF TypeOK, CurrentInv, StatusInv, EndInv
<1>5. RegisteredInv'
  BY DEF TypeOK, CurrentInv, StatusInv, RegisteredInv
<1>6. LockInv'
  BY DEF TypeOK, LockInv
<1> QED
  BY <1>1, <1>2, <1>3, <1>4, <1>5, <1>6

LEMMA StopRaisesStep ==
  ASSUME ServiceInv, StopRaises
  PROVE  ServiceInv'
BY DEF ServiceInv, TypeOK, CurrentInv, StatusInv, EndInv, RegisteredInv,
  LockInv, StopRaises, GotoS, accepter, thread, kernel, Stops, Zombies,
  Ended, ProcStates, Pids, InstanceOf

LEMMA StopWalkedStep ==
  ASSUME ServiceInv, StopWalked
  PROVE  ServiceInv'
BY DEF ServiceInv, TypeOK, CurrentInv, StatusInv, EndInv, RegisteredInv,
  LockInv, StopWalked, GotoS, accepter, thread, kernel, Stops, Zombies,
  Ended, ProcStates, Pids, InstanceOf

LEMMA StopPokeStep ==
  ASSUME ServiceInv, StopPoke
  PROVE  ServiceInv'
BY DEF ServiceInv, TypeOK, CurrentInv, StatusInv, EndInv, RegisteredInv,
  LockInv, StopPoke, GotoS, accepter, kernel, Stops, Zombies, Ended,
  ProcStates, Pids, InstanceOf

LEMMA StopKillStep ==
  ASSUME ServiceInv, StopKill
  PROVE  ServiceInv'
BY DEF ServiceInv, TypeOK, CurrentInv, StatusInv, EndInv, RegisteredInv,
  LockInv, StopKill, GotoS, accepter, thread, Stops, Zombies, Ended,
  ProcStates, Pids, InstanceOf

LEMMA StopWaitStep ==
  ASSUME ServiceInv, StopWait
  PROVE  ServiceInv'
BY DEF ServiceInv, TypeOK, CurrentInv, StatusInv, EndInv, RegisteredInv,
  LockInv, StopWait, GotoS, accepter, thread, kernel, Stops, Zombies,
  Ended, ProcStates, Pids, InstanceOf

LEMMA StopMasterStep ==
  ASSUME ServiceInv, StopMaster
  PROVE  ServiceInv'
BY DEF ServiceInv, TypeOK, CurrentInv, StatusInv, EndInv, RegisteredInv,
  LockInv, StopMaster, GotoS, accepter, thread, kernel, Stops, Zombies,
  Ended, ProcStates, Pids, InstanceOf

-----------------------------------------------------------------------------
LEMMA InitServiceInv == Init => ServiceInv
<1> SUFFICES ASSUME Init PROVE ServiceInv
  OBVIOUS
<1> USE DEF Init, Stops, Zombies, Ended, ProcStates, Pids, InstanceOf, NoKeys
<1>1. TypeOK
  BY SlotsAssumption DEF TypeOK
<1>2. CurrentInv /\ StatusInv /\ EndInv /\ RegisteredInv /\ LockInv
  BY <1>1 DEF TypeOK, CurrentInv, StatusInv, EndInv, RegisteredInv, LockInv
<1> QED
  BY <1>1, <1>2 DEF ServiceInv

LEMMA NextServiceInv ==
  ASSUME ServiceInv, [Next]_vars
  PROVE  ServiceInv'
<1>1. ASSUME NEW c \in Conns, Client(c)
      PROVE  ServiceInv'
  BY <1>1, ConnectStep, ClientCloseStep DEF Client
<1>2. ASSUME NEW c \in Conns, HandleEvent(c)
      PROVE  ServiceInv'
  BY <1>2, HandleDeadStep, CaptureRaisesStep, HandleTrapStep, HandlePipeStep,
    DrainStep, HandleSegvStep, HandleSignalStep
    DEF HandleEvent
<1>3. ASSUME NEW c \in Conns, InstanceRun(c)
      PROVE  ServiceInv'
  BY <1>2, <1>3, BeginStep, ForkStep, InsertStep, LoopStep, WaitStep,
    WaitRaisesStep, LockStep
    DEF InstanceRun
<1>4. ASSUME NEW p \in Pids, ProcessMoves(p) \/ TermArrives(p)
      PROVE  ServiceInv'
  BY <1>4, ProcessMovesStep, TermArrivesStep
<1>5. ASSUME ServiceRun
      PROVE  ServiceInv'
  BY <1>5, AcceptEndsStep, AcceptStep, CreateStep, CreateRaisesStep DEF ServiceRun
<1>6. ASSUME StopBegin \/ ServiceStop
      PROVE  ServiceInv'
  BY <1>6, StopBeginStep, StopShutdownStep, StopJoinStep, StopNextStep,
    StopRaisesStep, StopWalkedStep, StopPokeStep, StopKillStep, StopWaitStep,
    StopMasterStep
    DEF ServiceStop
<1>7. CASE UNCHANGED vars
  BY <1>7 DEF vars, accepter, thread, kernel, stopper, ServiceInv, TypeOK,
    CurrentInv, StatusInv, EndInv, RegisteredInv, LockInv
<1> QED
  BY <1>1, <1>3, <1>4, <1>5, <1>6, <1>7 DEF Next

(* The invariant holds in every state of every behaviour, for any number   *)
(* of clients.                                                             *)
THEOREM ServiceInvariance == Spec => []ServiceInv
<1>1. ServiceInv /\ [Next]_vars => ServiceInv'
  BY NextServiceInv
<1> QED
  BY <1>1, InitServiceInv, PTL DEF Spec

(* Type correctness; pids and the iterator stay in Pids.                   *)
THEOREM TypeCorrect == Spec => []TypeOK
<1>1. ServiceInv => TypeOK
  BY DEF ServiceInv
<1> QED
  BY <1>1, ServiceInvariance, PTL

(* No instance has two processes at a time: __spawn only ever runs after   *)
(* the last process was waited for.                                        *)
THEOREM SingleProcess == Spec => []OneProcess
<1>1. ServiceInv => OneProcess
  BY DEF ServiceInv, CurrentInv, OneProcess
<1> QED
  BY <1>1, ServiceInvariance, PTL

(* An instance in service is found under the pid of its process.           *)
THEOREM ServedRegistration == Spec => []ServedIsRegistered
<1>1. ServiceInv => ServedIsRegistered
  BY DEF ServiceInv, RegisteredInv, ServedIsRegistered
<1> QED
  BY <1>1, ServiceInvariance, PTL

(* No way out of Instance.run leaves a process stopped under ptrace.       *)
THEOREM NeverFrozen == Spec => []NoFrozenProcess
<1>1. ServiceInv => NoFrozenProcess
  BY DEF ServiceInv, TypeOK, CurrentInv, EndInv, NoFrozenProcess, Pids,
    InstanceOf, Stops, Zombies, Ended
<1> QED
  BY <1>1, ServiceInvariance, PTL

(* The SIGTERM of Instance.stop never meets an instance that is replacing  *)
(* its process.                                                            *)
THEOREM KillSafe == Spec => KillNotMidSpawn
<1>1. ServiceInv /\ [Next]_vars => [KillMeetsNoSpawn]_vars
  <2> SUFFICES ASSUME ServiceInv, [Next]_vars, stop = "kill", stop' = "wait",
                      NEW c \in Conns, AtInstance(c)
               PROVE  ipc[c] \notin {"begin", "fork", "insert"}
    BY DEF KillMeetsNoSpawn
  <2>1. StopKill
    BY DEF Next, Client, Connect, ClientClose, InstanceRun, HandleEvent,
      Begin, Fork, Insert, Loop, Wait, WaitRaises, Lock, HandleDead,
      CaptureRaises, HandleTrap, HandlePipe, Drain, HandleSegv, HandleSignal,
      ProcessMoves, TermArrives, ServiceRun, AcceptEnds, Accept, Create,
      CreateRaises, StopBegin, ServiceStop, StopShutdown, StopJoin, StopNext,
      StopRaises, StopWalked, StopPoke, StopWait, StopMaster, GotoS, stopper,
      vars
  <2>2. \E d \in Conns : AtInstance(d) /\ ~lock[d]
    BY <2>1 DEF StopKill
  <2> QED
    BY <2>2 DEF ServiceInv, LockInv, AtInstance, TypeOK
<1> QED
  BY <1>1, ServiceInvariance, PTL DEF Spec, KillNotMidSpawn

-----------------------------------------------------------------------------
(* What Service.stop has done by each of its steps.  A key that it has met *)
(* is closed, or it is the current one.                                    *)
Closed(p) == ipc[InstanceOf(p)] \in Ended /\ conn[InstanceOf(p)] = "closed"

StopInv ==
  /\ stop \notin {"idle", "shutdown"} => ~listening
  /\ stop \notin {"idle", "shutdown", "join"} => svc = "ended"
  /\ stop \in {"idle", "shutdown", "join"} => walk.met = {}
  /\ \A p \in walk.met :
       Closed(p) \/ (p \in walk.at /\ stop \in {"poke", "kill", "wait"})

(* Nothing but Service.stop changes what StopInv says: an ended thread     *)
(* stays ended and a closed connection closed.                             *)
LEMMA ThreadsKeepStopInv ==
  ASSUME TypeOK, StopInv, NEW c \in Conns, Client(c) \/ InstanceRun(c)
  PROVE  StopInv'
<1> USE DEF TypeOK, StopInv, Closed, Ended, Pids, InstanceOf, accepter, stopper
<1>1. CASE Client(c)
  BY <1>1 DEF Client, Connect, ClientClose, thread
<1>2. ASSUME UNCHANGED <<listening, svc, conn, stop, walk>>, ipc[c] \notin Ended,
             NEW to, ipc' = [ipc EXCEPT ![c] = to]
      PROVE  StopInv'
  BY <1>2
<1>3. CASE Begin(c) \/ Fork(c) \/ Insert(c) \/ Loop(c) \/ Wait(c) \/ WaitRaises(c) \/ Lock(c)
  <2>1. UNCHANGED <<listening, svc, conn, stop, walk>>
    BY <1>3 DEF Begin, Fork, Insert, Loop, Wait, WaitRaises, Lock
  <2>2. ipc[c] \notin Ended /\ \E to : ipc' = [ipc EXCEPT ![c] = to]
    BY <1>3 DEF Begin, Fork, Insert, Loop, Wait, WaitRaises, Lock, GotoI
  <2> QED
    BY <1>2, <2>1, <2>2
<1>4. CASE HandleEvent(c)
  BY <1>4 DEF HandleEvent, HandleDead, CaptureRaises, HandleTrap, HandlePipe,
    Drain, HandleSegv, HandleSignal, HandlerReturns, Handles
<1> QED
  BY <1>1, <1>2, <1>3, <1>4 DEF InstanceRun

LEMMA NextStopInv ==
  ASSUME TypeOK, StopInv, [Next]_vars
  PROVE  StopInv'
<1> USE DEF TypeOK, StopInv, Closed, Ended, Pids, InstanceOf
<1>1. ASSUME NEW c \in Conns, Client(c) \/ InstanceRun(c)
      PROVE  StopInv'
  BY <1>1, ThreadsKeepStopInv
<1>2. ASSUME NEW p \in Pids, ProcessMoves(p) \/ TermArrives(p)
      PROVE  StopInv'
  BY <1>2 DEF ProcessMoves, TermArrives, accepter, thread, stopper
<1>3. CASE ServiceRun
  BY <1>3 DEF ServiceRun, AcceptEnds, Accept, Create, CreateRaises, thread, stopper
<1>4. CASE StopBegin \/ StopShutdown \/ StopJoin
  BY <1>4 DEF StopBegin, StopShutdown, StopJoin, GotoS, accepter, thread
<1>5. CASE StopNext
  BY <1>5 DEF StopNext, GotoS, accepter, thread
<1>6. CASE StopRaises \/ StopWalked \/ StopMaster
  BY <1>6 DEF StopRaises, StopWalked, StopMaster, GotoS, accepter, thread
<1>7. CASE StopPoke \/ StopKill
  BY <1>7 DEF StopPoke, StopKill, GotoS, accepter, thread
<1>8. CASE StopWait
  BY <1>8 DEF StopWait, AtInstance, GotoS, accepter, thread
<1>9. CASE UNCHANGED vars
  BY <1>9 DEF vars, accepter, thread, stopper
<1> QED
  BY <1>1, <1>2, <1>3, <1>4, <1>5, <1>6, <1>7, <1>8, <1>9 DEF Next, ServiceStop

(* When Service.stop reaches the master, the port is closed, the accept    *)
(* thread has ended and so has each instance met, its connection closed.   *)
THEOREM StopCloses == Spec => []StopPostcondition
<1>1. Init => StopInv
  BY DEF Init, StopInv, NoKeys
<1>2. TypeOK /\ StopInv /\ [Next]_vars => StopInv'
  BY NextStopInv
<1>3. StopInv => StopPostcondition
  BY DEF StopInv, Closed, StopPostcondition
<1> QED
  BY <1>1, <1>2, <1>3, TypeCorrect, PTL DEF Spec

-----------------------------------------------------------------------------
(* Service implements InstanceLife under the mapping Stage, Life: a step   *)
(* of a thread or a process changes one of them in a way that InstanceLife *)
(* allows, or none.                                                        *)

Busy  == {"begin", "fork", "insert", "loop", "wait", "lock", "handle", "drain"}
Alive == {"run", "exiting", "loose"}

LEMMA StagesAre ==
  /\ StageOf("none") = "before"
  /\ \A s \in Busy : StageOf(s) = "tends"
  /\ \A s \in Ended : StageOf(s) = "over"
BY DEF StageOf, Busy, Ended

LEMMA LivesAre ==
  /\ LifeOf("none") = "none"
  /\ \A s \in Alive : LifeOf(s) = "runs"
  /\ \A s \in Stops \cup {"held"} : LifeOf(s) = "stopped"
  /\ \A s \in Zombies : LifeOf(s) = "ended"
BY DEF LifeOf, Alive, Stops, Zombies

LEMMA StageKept ==
  ASSUME TypeOK, NEW c \in Conns, NEW to, ipc' = [ipc EXCEPT ![c] = to],
         StageOf(to) = StageOf(ipc[c])
  PROVE  Stage' = Stage
BY DEF Stage, TypeOK

LEMMA StageMoves ==
  ASSUME TypeOK, NEW c \in Conns, NEW to, ipc' = [ipc EXCEPT ![c] = to]
  PROVE  /\ to = "begin" => Stage' = [Stage EXCEPT ![c] = "tends"]
         /\ to \in Ended => Stage' = [Stage EXCEPT ![c] = "over"]
<1>1. ASSUME NEW d \in Conns
      PROVE  Stage'[d] = IF d = c THEN StageOf(to) ELSE Stage[d]
  BY DEF Stage, TypeOK
<1>2. Stage \in [Conns -> {StageOf(ipc[d]) : d \in Conns}] /\ Stage' = [d \in Conns |-> Stage'[d]]
  BY DEF Stage
<1> QED
  BY <1>1, <1>2, StagesAre DEF Busy

LEMMA LifeKept ==
  ASSUME TypeOK, NEW q \in Pids, NEW v, proc' = [proc EXCEPT ![q] = v],
         LifeOf(v) = LifeOf(proc[q])
  PROVE  Life' = Life
BY DEF Life, TypeOK

LEMMA LifeMoves ==
  ASSUME TypeOK, NEW q \in Pids, NEW v, proc' = [proc EXCEPT ![q] = v]
  PROVE  Life' = [Life EXCEPT ![q] = LifeOf(v)]
BY DEF Life, TypeOK

LEMMA At ==
  ASSUME NEW c \in Conns, NEW q \in Pids
  PROVE  Stage[c] = StageOf(ipc[c]) /\ Life[q] = LifeOf(proc[q])
BY DEF Stage, Life

(* An instance whose last process was reaped has none. *)
LEMMA NoneLeft ==
  ASSUME ServiceInv, NEW c \in Conns,
         proc[pid[c]] = "none" \/ ipc[c] \in {"none", "begin", "fork"}
  PROVE  Lives!NoProcess(c)
<1> SUFFICES ASSUME NEW k \in Slots PROVE Life[<<c, k>>] = "none"
  BY DEF Lives!NoProcess
<1>1. <<c, k>> \in Pids /\ InstanceOf(<<c, k>>) = c
  BY DEF Pids, InstanceOf
<1>2. proc[<<c, k>>] = "none"
  BY <1>1 DEF ServiceInv, CurrentInv
<1> QED
  BY <1>1, <1>2, LivesAre DEF Life

(* A thread changes its process and goes on. *)
LEMMA Tended ==
  ASSUME ServiceInv, NEW c \in Conns, ipc[c] \in Busy, NEW to \in Busy, ipc' = [ipc EXCEPT ![c] = to],
         NEW q \in Pids, InstanceOf(q) = c, NEW v, proc' = [proc EXCEPT ![q] = v]
  PROVE  Lives!Tends(q, LifeOf(proc[q]), LifeOf(v))
<1>1. Stage' = Stage
  BY StagesAre, StageKept DEF ServiceInv
<1>2. Life' = [Life EXCEPT ![q] = LifeOf(v)]
  BY LifeMoves DEF ServiceInv
<1>3. Stage[q[1]] = "tends" /\ Life[q] = LifeOf(proc[q])
  BY At, StagesAre DEF InstanceOf
<1> QED
  BY <1>1, <1>2, <1>3 DEF Lives!Tends, Lives!Becomes

(* A thread that has no process ends. *)
LEMMA Left ==
  ASSUME ServiceInv, NEW c \in Conns, ipc[c] \in Busy, proc[pid[c]] = "none",
         NEW to \in Ended, ipc' = [ipc EXCEPT ![c] = to], proc' = proc
  PROVE  Lives!Leave(c)
<1>1. Stage' = [Stage EXCEPT ![c] = "over"]
  BY StagesAre, StageMoves DEF ServiceInv
<1>2. Stage[c] = "tends" /\ Life' = Life
  BY StagesAre DEF Stage, Life
<1> QED
  BY <1>1, <1>2, NoneLeft DEF Lives!Leave

LEMMA ProcessMay ==
  ASSUME NEW q \in Pids,
         \/ Lives!Spawn(q) \/ Lives!Stop(q) \/ Lives!Resume(q) \/ Lives!Reap(q)
         \/ Lives!Kill(q) \/ Lives!End(q) \/ Lives!Abandon(q)
  PROVE  Lives!Next
BY DEF Lives!Next, Lives!Pids, Pids

LEMMA ThreadMay ==
  ASSUME NEW c \in Conns, Lives!Meet(c) \/ Lives!Leave(c)
  PROVE  Lives!Next
BY DEF Lives!Next

LEMMA InstanceMaps ==
  ASSUME ServiceInv, NEW c \in Conns, InstanceRun(c)
  PROVE  [Lives!Next]_<<Stage, Life>>
<1> DEFINE q == pid[c]
<1> USE DEF Busy, Ended
<1>1. TypeOK /\ q \in Pids /\ InstanceOf(q) = c /\ Stops \cap Zombies = {}
  BY DEF ServiceInv, TypeOK, Stops, Zombies
<1>2. ASSUME ipc[c] \in Busy, NEW to \in Busy, ipc' = [ipc EXCEPT ![c] = to], proc' = proc
      PROVE  UNCHANGED <<Stage, Life>>
  BY <1>1, <1>2, StagesAre, StageKept DEF Life
<1>3. CASE Begin(c) \/ Insert(c) \/ Lock(c) \/ HandleDead(c)
  <2>1. proc' = proc
    BY <1>3 DEF Begin, Insert, Lock, HandleDead, kernel
  <2> QED
    BY <1>2, <1>3, <2>1 DEF Begin, Insert, Lock, HandleDead, GotoI, Handles
<1>4. CASE Fork(c)
  <2>1. PICK k \in Slots : /\ ipc[c] = "fork" /\ ipc' = [ipc EXCEPT ![c] = "insert"]
                           /\ proc[<<c, k>>] = "none" /\ proc' = [proc EXCEPT ![<<c, k>>] = "run"]
    BY <1>4 DEF Fork, GotoI, SetProc
  <2>2. <<c, k>> \in Pids /\ InstanceOf(<<c, k>>) = c /\ <<c, k>>[1] = c
    BY DEF Pids, InstanceOf
  <2>3. Lives!Tends(<<c, k>>, LifeOf("none"), LifeOf("run"))
    BY <2>1, <2>2, Tended
  <2>4. Lives!Spawn(<<c, k>>)
    BY <2>1, <2>2, <2>3, NoneLeft, LivesAre DEF Lives!Spawn, Alive
  <2> QED
    BY <2>2, <2>4, ProcessMay
<1>5. CASE Loop(c)
  <2>1. proc' = proc
    BY <1>5 DEF Loop, kernel
  <2>2. CASE irun[c]
    BY <1>2, <1>5, <2>1, <2>2 DEF Loop, GotoI
  <2>3. CASE ~irun[c]
    <3>1. proc[q] = "none"
      BY <1>5, <2>3 DEF Loop, GotoI, ServiceInv, EndInv
    <3> QED
      BY <1>5, <2>1, <2>3, <3>1, Left, ThreadMay DEF Loop, GotoI
  <2> QED
    BY <2>2, <2>3
<1>6. CASE Wait(c)
  <2>1. ipc[c] = "wait" /\ ipc' = [ipc EXCEPT ![c] = "lock"]
    BY <1>6 DEF Wait, GotoI
  <2>2. CASE proc[q] \in Zombies
    <3>1. proc' = [proc EXCEPT ![q] = "none"]
      BY <1>1, <1>6, <2>2 DEF Wait, Reap, SetProc
    <3>2. Lives!Tends(q, LifeOf(proc[q]), LifeOf("none"))
      BY <1>1, <2>1, <3>1, Tended
    <3> QED
      BY <1>1, <2>2, <3>2, LivesAre, ProcessMay DEF Lives!Reap
  <2>3. CASE proc[q] \in Stops
    <3>1. proc' = [proc EXCEPT ![q] = "held"]
      BY <1>1, <1>6, <2>3 DEF Wait, SetProc
    <3>2. Life' = Life
      BY <1>1, <2>3, <3>1, LivesAre, LifeKept
    <3>3. Stage' = Stage
      BY <1>1, <2>1, StagesAre, StageKept
    <3> QED
      BY <3>2, <3>3
  <2> QED
    BY <1>6, <2>2, <2>3 DEF Wait
<1>7. CASE WaitRaises(c)
  <2>1. /\ ipc[c] = "wait" /\ ipc' = [ipc EXCEPT ![c] = "dead"] /\ proc[q] = "none" /\ proc' = proc
    BY <1>7 DEF WaitRaises, GotoI, kernel
  <2> QED
    BY <2>1, Left, ThreadMay
<1>8. ASSUME Handles(c, Stops) PROVE ipc[c] = "handle" /\ LifeOf(proc[q]) = "stopped"
  <2>1. ipc[c] = "handle" /\ proc[q] = "held"
    BY <1>1, <1>8 DEF Handles, ServiceInv, StatusInv
  <2> QED
    BY <2>1, LivesAre
<1>9. CASE CaptureRaises(c)
  <2>1. Handles(c, Stops) /\ ipc' = [ipc EXCEPT ![c] = "dead"]
    BY <1>9 DEF CaptureRaises
  <2>2. PICK v \in {"loose", "killed"} : proc' = [proc EXCEPT ![q] = v]
    BY <1>9 DEF CaptureRaises, SetProc
  <2>3. Stage' = [Stage EXCEPT ![c] = "over"]
    BY <1>1, <2>1, StagesAre, StageMoves
  <2>4. Life' = [Life EXCEPT ![q] = LifeOf(v)] /\ LifeOf(v) \in {"runs", "ended"}
    BY <1>1, <2>2, LifeMoves, LivesAre DEF Alive, Zombies
  <2>5. Stage[c] = "tends" /\ Life[q] = "stopped" /\ q[1] = c
    BY <1>1, <1>8, <2>1, At, StagesAre DEF InstanceOf
  <2>6. Lives!Abandon(q)
    BY <2>3, <2>4, <2>5 DEF Lives!Abandon, Lives!Becomes
  <2> QED
    BY <1>1, <2>6, ProcessMay
<1>10. ASSUME Handles(c, Stops), NEW to \in Busy, ipc' = [ipc EXCEPT ![c] = to],
              NEW v, proc' = [proc EXCEPT ![q] = v]
       PROVE  Lives!Tends(q, "stopped", LifeOf(v))
  <2>1. ipc[c] \in Busy /\ LifeOf(proc[q]) = "stopped"
    BY <1>8, <1>10
  <2>2. Lives!Tends(q, LifeOf(proc[q]), LifeOf(v))
    BY <1>1, <1>10, <2>1, Tended
  <2> QED
    BY <2>1, <2>2
<1>11. CASE HandleTrap(c)
  <2>1. Lives!Tends(q, "stopped", LifeOf("exiting"))
    BY <1>10, <1>11 DEF HandleTrap, HandlerReturns, Handles, SetProc, Stops
  <2> QED
    BY <1>1, <2>1, LivesAre, ProcessMay DEF Lives!Resume, Alive
<1>12. CASE HandlePipe(c)
  <2>1. Lives!Tends(q, "stopped", LifeOf("loose"))
    BY <1>10, <1>12 DEF HandlePipe, Handles, SetProc, Stops
  <2> QED
    BY <1>1, <2>1, LivesAre, ProcessMay DEF Lives!Resume, Alive
<1>13. CASE Drain(c)
  <2>1. /\ ipc[c] = "drain" /\ ipc' = [ipc EXCEPT ![c] = "loop"]
        /\ proc[q] \in Zombies /\ proc' = [proc EXCEPT ![q] = "none"]
    BY <1>13 DEF Drain, HandlerReturns, Reap, SetProc
  <2>2. Lives!Tends(q, LifeOf(proc[q]), LifeOf("none"))
    BY <1>1, <2>1, Tended
  <2> QED
    BY <1>1, <2>1, <2>2, LivesAre, ProcessMay DEF Lives!Reap
<1>14. CASE HandleSegv(c)
  <2>1. Lives!Tends(q, "stopped", LifeOf("none"))
    BY <1>10, <1>14 DEF HandleSegv, Handles, Reap, SetProc, Stops
  <2> QED
    BY <1>1, <2>1, LivesAre, ProcessMay DEF Lives!Kill
<1>15. CASE HandleSignal(c)
  <2>1. PICK v \in {"run", "killed"} : proc' = [proc EXCEPT ![q] = v]
    BY <1>15 DEF HandleSignal, SetProc
  <2>2. Lives!Tends(q, "stopped", LifeOf(v))
    BY <1>10, <1>15, <2>1 DEF HandleSignal, HandlerReturns, Handles, Stops
  <2>3. LifeOf(v) \in {"runs", "ended"}
    BY <2>1, LivesAre DEF Alive, Zombies
  <2> QED
    BY <1>1, <2>2, <2>3, ProcessMay DEF Lives!Resume, Lives!Kill
<1> QED
  BY <1>3, <1>4, <1>5, <1>6, <1>7, <1>9, <1>11, <1>12, <1>13, <1>14, <1>15 DEF InstanceRun, HandleEvent

(* A process that is stopped has a thread that tends it. *)
LEMMA ProcessMaps ==
  ASSUME ServiceInv, NEW q \in Pids, ProcessMoves(q) \/ TermArrives(q)
  PROVE  [Lives!Next]_<<Stage, Life>>
<1>1. TypeOK /\ InstanceOf(q) \in Conns /\ InstanceOf(q) = q[1] /\ Stage' = Stage
  BY DEF ServiceInv, Pids, InstanceOf, ProcessMoves, TermArrives, thread, Stage
<1>2. PICK v : /\ proc' = [proc EXCEPT ![q] = v]
               /\ \/ proc[q] \in {"run", "exiting"} /\ v \in Stops \cup Zombies
                  \/ proc[q] = "loose" /\ v \in Zombies
  BY DEF ProcessMoves, TermArrives, After, Mishaps, SetProc, Stops, Zombies
<1>3. Life[q] = "runs" /\ Life' = [Life EXCEPT ![q] = LifeOf(v)]
  BY <1>1, <1>2, At, LivesAre, LifeMoves DEF Alive
<1>4. CASE v \in Zombies
  BY <1>1, <1>3, <1>4, LivesAre, ProcessMay DEF Lives!End, Lives!Becomes
<1>5. CASE v \in Stops /\ proc[q] \in {"run", "exiting"}
  <2>1. q = pid[q[1]] /\ ipc[q[1]] \notin {"none"} \cup Ended
    BY <1>1, <1>5 DEF ServiceInv, CurrentInv, EndInv, Ended, Zombies
  <2>2. Stage[q[1]] = "tends"
    BY <1>1, <2>1 DEF Stage, StageOf
  <2> QED
    BY <1>1, <1>3, <1>5, <2>2, LivesAre, ProcessMay DEF Lives!Stop, Lives!Tends, Lives!Becomes
<1> QED
  BY <1>2, <1>4, <1>5

(* Whatever its clients, its processes and the service do, an instance has *)
(* the life that InstanceLife describes, for any number of connections and *)
(* pids.                                                                   *)
THEOREM LifeImplemented == Spec => ImplementsLife
<1>1. Init => Lives!Init
  BY StagesAre, LivesAre DEF Init, Lives!Init, Lives!Pids, Pids, Stage, Life
<1>2. ServiceInv /\ [Next]_vars => [Lives!Next]_<<Stage, Life>>
  <2> SUFFICES ASSUME ServiceInv, [Next]_vars
               PROVE  [Lives!Next]_<<Stage, Life>>
    OBVIOUS
  <2>1. ASSUME NEW c \in Conns, Create(c)
        PROVE  Lives!Meet(c)
    <3>1. ipc[c] = "none" /\ ipc' = [ipc EXCEPT ![c] = "begin"] /\ proc' = proc
      BY <2>1 DEF Create, kernel
    <3>2. Stage' = [Stage EXCEPT ![c] = "tends"]
      BY <3>1, StagesAre, StageMoves DEF Busy, ServiceInv
    <3> QED
      BY <3>1, <3>2, StagesAre DEF Lives!Meet, Stage, Life
  <2>2. CASE UNCHANGED <<ipc, proc>>
    BY <2>2 DEF Stage, Life
  <2>3. ASSUME NEW c \in Conns, Client(c)
        PROVE  UNCHANGED <<ipc, proc>>
    BY <2>3 DEF Client, Connect, ClientClose, thread, kernel
  <2>4. CASE ServiceRun
    <3>1. CASE \E c \in Conns : Create(c)
      BY <2>1, <3>1, ThreadMay
    <3>2. CASE AcceptEnds \/ \E c \in Conns : Accept(c) \/ CreateRaises(c)
      <4>1. UNCHANGED <<ipc, proc>>
        BY <3>2 DEF AcceptEnds, Accept, CreateRaises, thread, kernel
      <4> QED
        BY <2>2, <4>1
    <3> QED
      BY <2>4, <3>1, <3>2 DEF ServiceRun
  <2>5. CASE StopBegin \/ ServiceStop
    <3>1. UNCHANGED <<ipc, proc>>
      BY <2>5 DEF StopBegin, ServiceStop, StopShutdown, StopJoin, StopNext, StopRaises, StopWalked,
        StopPoke, StopKill, StopWait, StopMaster, thread, kernel
    <3> QED
      BY <2>2, <3>1
  <2>6. CASE UNCHANGED vars
    BY <2>2, <2>6 DEF vars, thread, kernel
  <2> QED
    BY <2>2, <2>3, <2>4, <2>5, <2>6, InstanceMaps, ProcessMaps DEF Next
<1> QED
  BY <1>1, <1>2, ServiceInvariance, PTL DEF Spec, ImplementsLife, Lives!Spec
=============================================================================
