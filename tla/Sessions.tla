------------------------------ MODULE Sessions ------------------------------
(***************************************************************************)
(* The session manager of cgcserv/__main__.py: the module globals          *)
(* `sessions', `freeports' and `usedports', and the requests that work on  *)
(* them.  Flask-SocketIO runs with async_mode="threading", so every        *)
(* request is a thread of its own and there is no lock: one action is one  *)
(* step that the interpreter lock makes atomic (a list pop, a list append, *)
(* a dictionary pop or store) or one call into the service object.         *)
(*                                                                         *)
(* The service behind a session is seen here only through its constructor  *)
(* and Service.stop: which of their outcomes are possible is what the      *)
(* module Service works out.  The kernel is external: which ports have a   *)
(* listening socket (bound) and which still have connections of a stopped  *)
(* service (lingering; the server sets no SO_REUSEADDR, so bind refuses).  *)
(***************************************************************************)
EXTENDS Naturals, Sequences, SequencesExt, FiniteSets

CONSTANTS
  Handlers,   \* request threads, reused from one request to the next
  Sids,       \* session ids: names tempfile.mkdtemp can return, each once
  LowPort,    \* range(LowPort, HighPort) are the ports given to sessions
  HighPort,
  NoSid       \* a handler that works on no session

ASSUME PortRangeAssumption ==
  /\ LowPort \in Nat \ {0}
  /\ HighPort \in Nat
  /\ LowPort < HighPort

ASSUME NoSidAssumption == NoSid \notin Sids

Ports  == LowPort .. (HighPort - 1)
NoPort == 0

VARIABLES
  freeports,  \* list, popped and appended at its end
  usedports,  \* list, appended at its end, removed by value
  sessions,   \* sid -> port of the registered service; NoPort: not a key
  dirs,       \* state of each session directory
  bound,      \* ports with a listening socket
  lingering,  \* ports whose old connections make a bind fail
  gdb,        \* per port, the gdbgui thread that holds it
  op,         \* per handler, the request it serves
  pc,         \* per handler, its next step
  hport,      \* per handler, the local `port' or `session.port'
  hsid,       \* per handler, the sid of the service it works on
  seen,       \* per handler, the summary that update_sessions builds
  moved,      \* handlers during whose iteration `sessions' got or lost a key
  broadcast   \* the summary sent last to every client

lists      == <<freeports, usedports>>
kernel     == <<bound, lingering>>
locals     == <<op, hport, hsid, seen, moved>>
vars       == <<freeports, usedports, sessions, dirs, bound, lingering, gdb,
                op, pc, hport, hsid, seen, moved, broadcast>>

Registered == {s \in Sids : sessions[s] # NoPort}

Init ==
  /\ freeports = [i \in 1 .. (HighPort - LowPort) |-> LowPort + i - 1]
  /\ usedports = << >>
  /\ sessions  = [s \in Sids |-> NoPort]
  /\ dirs      = [s \in Sids |-> "none"]
  /\ bound     = {}
  /\ lingering = {}
  /\ gdb       = [p \in Ports |-> "none"]
  /\ op        = [t \in Handlers |-> "none"]
  /\ pc        = [t \in Handlers |-> "idle"]
  /\ hport     = [t \in Handlers |-> NoPort]
  /\ hsid      = [t \in Handlers |-> NoSid]
  /\ seen      = [t \in Handlers |-> {}]
  /\ moved     = {}
  /\ broadcast = {}

Goto(t, from, to) ==
  /\ pc[t] = from
  /\ pc' = [pc EXCEPT ![t] = to]

(* The request ends, with an answer or with an exception: its locals die. *)
Finish(t, from) ==
  /\ Goto(t, from, "idle")
  /\ op'    = [op EXCEPT ![t] = "none"]
  /\ hport' = [hport EXCEPT ![t] = NoPort]
  /\ hsid'  = [hsid EXCEPT ![t] = NoSid]
  /\ seen'  = [seen EXCEPT ![t] = {}]
  /\ moved' = moved \ {t}

(* The request ends with an exception where nothing else has changed. *)
Fails(t, from) ==
  /\ Finish(t, from)
  /\ UNCHANGED <<lists, sessions, dirs, kernel, gdb, broadcast>>

(* A key comes or goes while other requests iterate over `sessions'. *)
MovesKeys == moved' = moved \cup {t \in Handlers : pc[t] = "scan"}

PopFreePort_Peek(p) ==
  /\ freeports # << >>
  /\ p = Last(freeports)
  /\ UNCHANGED freeports

PopFreePort(p) ==
  /\ freeports # << >>
  /\ p = Last(freeports)
  /\ freeports' = Front(freeports)

-----------------------------------------------------------------------------
(* sessionStart *)

(* freeports.pop(); with an empty list the answer is "Out of ports" and    *)
(* nothing changes.                                                        *)
StartPop(t) ==
  \E p \in Ports :
    /\ PopFreePort(p)
    /\ Goto(t, "idle", "factory")
    /\ op'    = [op EXCEPT ![t] = "start"]
    /\ hport' = [hport EXCEPT ![t] = p]
    /\ UNCHANGED <<usedports, sessions, dirs, kernel, gdb, hsid, seen, moved, broadcast>>

(* serviceFactory raises "Invalid Service"; sessionStart re-raises. *)
FactoryReject(t) == Fails(t, "factory")

(* __make_session_dirs: mkdtemp makes a directory of an unused name; its   *)
(* name is the sid.                                                        *)
FactoryMakeDirs(t) ==
  \E s \in Sids :
    /\ dirs[s] = "none"
    /\ Goto(t, "factory", "bind")
    /\ dirs' = [dirs EXCEPT ![s] = "present"]
    /\ hsid' = [hsid EXCEPT ![t] = s]
    /\ UNCHANGED <<lists, sessions, kernel, gdb, op, hport, seen, moved, broadcast>>

(* __start_server: bind and listen, or OSError when the kernel refuses. *)
StartServer(t) ==
  /\ hport[t] \notin bound \cup lingering
  /\ Goto(t, "bind", "launch")
  /\ bound' = bound \cup {hport[t]}
  /\ UNCHANGED <<lists, sessions, dirs, lingering, gdb, locals, broadcast>>

BindRefused(t) ==
  /\ hport[t] \in bound \cup lingering
  /\ Fails(t, "bind")

(* _createMaster, _createCoverage and s.start(), any of which may raise    *)
(* (the build failed and there is no executable, a symbol is missing).     *)
(* The socket of the half-built object stays open until it is collected,   *)
(* which nothing can tell: its port is on no list any more.                *)
Launch(t) ==
  /\ Goto(t, "launch", "used")
  /\ UNCHANGED <<lists, sessions, dirs, kernel, gdb, locals, broadcast>>

LaunchRaises(t) == Fails(t, "launch")

MarkUsed_Skip(t) ==
  /\ Goto(t, "used", "register")
  /\ UNCHANGED <<lists, sessions, dirs, kernel, gdb, locals, broadcast>>

MarkUsed(t) ==
  /\ Goto(t, "used", "register")
  /\ usedports' = Append(usedports, hport[t])
  /\ UNCHANGED <<freeports, sessions, dirs, kernel, gdb, locals, broadcast>>

Register_SummaryFirst(t) ==
  /\ Goto(t, "register", "emit")
  /\ seen' = [seen EXCEPT ![t] = Registered]
  /\ sessions' = [sessions EXCEPT ![hsid[t]] = hport[t]]
  /\ MovesKeys
  /\ UNCHANGED <<lists, dirs, kernel, gdb, op, hport, hsid, broadcast>>

(* The listeners go on an object no other thread knows yet; storing it in  *)
(* `sessions' publishes it.                                                *)
Register(t) ==
  /\ Goto(t, "register", "summary")
  /\ sessions' = [sessions EXCEPT ![hsid[t]] = hport[t]]
  /\ MovesKeys
  /\ UNCHANGED <<lists, dirs, kernel, gdb, op, hport, hsid, seen, broadcast>>

-----------------------------------------------------------------------------
(* sessionStop *)

StopPop_Get(t) ==
  \E s \in Registered :
    /\ Goto(t, "idle", "close")
    /\ op'       = [op EXCEPT ![t] = "stop"]
    /\ hport'    = [hport EXCEPT ![t] = sessions[s]]
    /\ hsid'     = [hsid EXCEPT ![t] = s]
    /\ UNCHANGED <<lists, sessions, dirs, kernel, gdb, seen, moved, broadcast>>

StopPop_FreeFirst(t) ==
  \E s \in Registered :
    /\ Goto(t, "idle", "close")
    /\ op'        = [op EXCEPT ![t] = "stop"]
    /\ hport'     = [hport EXCEPT ![t] = sessions[s]]
    /\ hsid'      = [hsid EXCEPT ![t] = s]
    /\ sessions'  = [sessions EXCEPT ![s] = NoPort]
    /\ freeports' = Append(freeports, sessions[s])
    /\ MovesKeys
    /\ UNCHANGED <<usedports, dirs, kernel, gdb, seen, broadcast>>

(* sessions.pop(sid, None): the sid is unknown and nothing changes, or     *)
(* this handler alone has the service.                                     *)
StopPop(t) ==
  \E s \in Registered :
    /\ Goto(t, "idle", "close")
    /\ op'       = [op EXCEPT ![t] = "stop"]
    /\ hport'    = [hport EXCEPT ![t] = sessions[s]]
    /\ hsid'     = [hsid EXCEPT ![t] = s]
    /\ sessions' = [sessions EXCEPT ![s] = NoPort]
    /\ MovesKeys
    /\ UNCHANGED <<lists, dirs, kernel, gdb, seen, broadcast>>

StopClose_LeaveOpen(t) ==
  /\ Goto(t, "close", "instances")
  /\ UNCHANGED <<lists, sessions, dirs, kernel, gdb, locals, broadcast>>

(* Service.stop shuts the listening socket, closes it and joins the accept *)
(* thread.                                                                 *)
StopClose(t) ==
  /\ Goto(t, "close", "instances")
  /\ bound' = bound \ {hport[t]}
  /\ UNCHANGED <<lists, sessions, dirs, lingering, gdb, locals, broadcast>>

(* The connections to a port may outlive its listener: TIME_WAIT, or a     *)
(* process of the service that nobody stopped.                             *)
MayLinger(p) == lingering' \in {lingering, lingering \cup {p}}

(* Service.stop stops the instances and the master and removes the session *)
(* directory.  It may also never return: nothing makes this action happen. *)
StopInstances(t) ==
  /\ Goto(t, "instances", "unuse")
  /\ dirs' = [dirs EXCEPT ![hsid[t]] = "removed"]
  /\ MayLinger(hport[t])
  /\ UNCHANGED <<lists, sessions, bound, gdb, locals, broadcast>>

(* Service.stop raises: the dictionary of instances changed while it was   *)
(* iterated, or a UML service has no master.                               *)
StopRaises(t) ==
  /\ Finish(t, "instances")
  /\ MayLinger(hport[t])
  /\ UNCHANGED <<lists, sessions, dirs, bound, gdb, broadcast>>

(* usedports.remove(session.port), which raises ValueError when the port   *)
(* is not on the list; UsedAccount says that it always is.                 *)
StopUnuse(t) ==
  /\ Contains(usedports, hport[t])
  /\ Goto(t, "unuse", "free")
  /\ usedports' = RemoveFirst(usedports, hport[t])
  /\ UNCHANGED <<freeports, sessions, dirs, kernel, gdb, locals, broadcast>>

StopFree(t) ==
  /\ Goto(t, "free", "summary")
  /\ freeports' = Append(freeports, hport[t])
  /\ UNCHANGED <<usedports, sessions, dirs, kernel, gdb, locals, broadcast>>

-----------------------------------------------------------------------------
(* update_sessions, at the end of a start and a stop and on a client's     *)
(* 'sessions' message.                                                     *)

OnSessions(t) ==
  /\ Goto(t, "idle", "summary")
  /\ op' = [op EXCEPT ![t] = "sessions"]
  /\ UNCHANGED <<lists, sessions, dirs, kernel, gdb, hport, hsid, seen, moved, broadcast>>

SummaryBegin(t) ==
  /\ Goto(t, "summary", "scan")
  /\ seen' = [seen EXCEPT ![t] = Registered]
  /\ UNCHANGED <<lists, sessions, dirs, kernel, gdb, op, hport, hsid, moved, broadcast>>

(* The comprehension over sessions.items() ends.  Every step of it checks  *)
(* the size of the dictionary alone.  When keys came and went meanwhile,   *)
(* with the size of the beginning at every check, it goes on: it has met   *)
(* any of the keys, and may have passed over keys that stayed, for an      *)
(* insertion that makes the table anew moves the entries under the         *)
(* iterator.                                                               *)
SummaryEnd(t) ==
  \E S \in SUBSET (seen[t] \cup Registered) :
    /\ Cardinality(seen[t]) = Cardinality(Registered)
    /\ t \notin moved => S = Registered
    /\ Goto(t, "scan", "emit")
    /\ seen' = [seen EXCEPT ![t] = S]
    /\ UNCHANGED <<lists, sessions, dirs, kernel, gdb, op, hport, hsid, moved, broadcast>>

(* RuntimeError: the dictionary changed during the iteration. *)
SummaryRaises(t) ==
  /\ t \in moved
  /\ Fails(t, "scan")

Emit(t) ==
  /\ Finish(t, "emit")
  /\ broadcast' = seen[t]
  /\ UNCHANGED <<lists, sessions, dirs, kernel, gdb>>

-----------------------------------------------------------------------------
(* session_gdb, its gdbgui_thread, and the kernel *)

(* The request pops a port for a registered session and starts the thread. *)
SessionGdb(t) ==
  \E s \in Registered, p \in Ports :
    /\ pc[t] = "idle"
    /\ PopFreePort(p)
    /\ gdb' = [gdb EXCEPT ![p] = "launch"]
    /\ UNCHANGED <<usedports, sessions, dirs, kernel, pc, locals, broadcast>>

(* Popen starts gdbgui, which listens on the port. *)
GdbListens(p) ==
  /\ gdb[p] = "launch"
  /\ p \notin bound \cup lingering
  /\ gdb'   = [gdb EXCEPT ![p] = "run"]
  /\ bound' = bound \cup {p}
  /\ UNCHANGED <<lists, sessions, dirs, lingering, locals, pc, broadcast>>

(* gdbgui fails at once (the kernel refuses the port, no such core), or    *)
(* Popen raises (no gdbgui here) and the thread dies with the port.        *)
GdbFails(p) ==
  /\ gdb[p] = "launch"
  /\ \E to \in {"exited", "none"} : gdb' = [gdb EXCEPT ![p] = to]
  /\ UNCHANGED <<lists, sessions, dirs, kernel, locals, pc, broadcast>>

(* gdbgui exits: the kernel closes its socket and proc.wait() returns. *)
GdbExit(p) ==
  /\ gdb[p] = "run"
  /\ gdb'   = [gdb EXCEPT ![p] = "exited"]
  /\ bound' = bound \ {p}
  /\ MayLinger(p)
  /\ UNCHANGED <<lists, sessions, dirs, locals, pc, broadcast>>

GdbReturn(p) ==
  /\ gdb[p] = "exited"
  /\ gdb' = [gdb EXCEPT ![p] = "none"]
  /\ freeports' = Append(freeports, p)
  /\ UNCHANGED <<usedports, sessions, dirs, kernel, locals, pc, broadcast>>

LingerExpire(p) ==
  /\ p \in lingering
  /\ lingering' = lingering \ {p}
  /\ UNCHANGED <<lists, sessions, dirs, bound, gdb, locals, pc, broadcast>>

-----------------------------------------------------------------------------

SessionStart(t) ==
  \/ StartPop(t) \/ FactoryReject(t) \/ FactoryMakeDirs(t)
  \/ StartServer(t) \/ BindRefused(t) \/ Launch(t) \/ LaunchRaises(t)
  \/ MarkUsed(t) \/ Register(t)

SessionStop(t) ==
  \/ StopPop(t) \/ StopClose(t) \/ StopInstances(t) \/ StopRaises(t)
  \/ StopUnuse(t) \/ StopFree(t)

UpdateSessions(t) ==
  \/ OnSessions(t) \/ SummaryBegin(t) \/ SummaryEnd(t) \/ SummaryRaises(t)
  \/ Emit(t)

Gdb(p) == GdbListens(p) \/ GdbFails(p) \/ GdbExit(p) \/ GdbReturn(p)

Next ==
  \/ \E t \in Handlers :
       SessionStart(t) \/ SessionStop(t) \/ UpdateSessions(t) \/ SessionGdb(t)
  \/ \E p \in Ports : Gdb(p) \/ LingerExpire(p)

Spec == Init /\ [][Next]_vars
-----------------------------------------------------------------------------
(* Who has a port *)

(* From freeports.pop() to sessions[s.sid] = s in a start, from            *)
(* sessions.pop to freeports.append in a stop.                             *)
HoldsPort(t) ==
  pc[t] \in {"factory", "bind", "launch", "used", "register",
            "close", "instances", "unuse", "free"}

IsFree(p)  == Contains(freeports, p)
IsHeld(p)  == \E t \in Handlers : HoldsPort(t) /\ hport[t] = p
Serves(p)  == \E s \in Registered : sessions[s] = p
Debugs(p)  == gdb[p] # "none"

Owner ==
  [p \in Ports |->
     IF IsFree(p) THEN "pool"
     ELSE IF IsHeld(p) THEN "request"
     ELSE IF Serves(p) THEN "session"
     ELSE IF Debugs(p) THEN "debugger"
     ELSE "nobody"]

Pool == INSTANCE PortPool WITH owner <- Owner

(***************************************************************************)
(* Properties                                                              *)
(***************************************************************************)

TypeOK ==
  /\ freeports \in Seq(Ports)
  /\ usedports \in Seq(Ports)
  /\ sessions \in [Sids -> Ports \cup {NoPort}]
  /\ dirs \in [Sids -> {"none", "present", "removed"}]
  /\ bound \in SUBSET Ports
  /\ lingering \in SUBSET Ports
  /\ gdb \in [Ports -> {"none", "launch", "run", "exited"}]
  /\ op \in [Handlers -> {"none", "start", "stop", "sessions"}]
  /\ pc \in [Handlers -> {"idle", "factory", "bind", "launch", "used",
                         "register", "summary", "scan", "emit",
                         "close", "instances", "unuse", "free"}]
  /\ hport \in [Handlers -> Ports \cup {NoPort}]
  /\ hsid \in [Handlers -> Sids \cup {NoSid}]
  /\ seen \in [Handlers -> SUBSET Sids]
  /\ moved \in SUBSET Handlers
  /\ broadcast \in SUBSET Sids

(* A port on the free list is on it once, and nobody works with it. *)
FreeAlone ==
  /\ IsInjective(freeports)
  /\ \A p \in Ports : IsFree(p) => ~IsHeld(p) /\ ~Serves(p) /\ ~Debugs(p)

(* A port that a request works with belongs to no other request, to no     *)
(* registered session and to no debugger.                                  *)
RequestAlone ==
  \A t \in Handlers : HoldsPort(t) =>
    /\ ~Serves(hport[t])
    /\ ~Debugs(hport[t])
    /\ \A u \in Handlers : HoldsPort(u) /\ hport[u] = hport[t] => u = t

(* Two registered sessions never share a port ("a single service attached  *)
(* to a unique port", README.md), nor does a session with a debugger.      *)
SessionAlone ==
  \A s \in Registered :
    /\ ~Debugs(sessions[s])
    /\ \A r \in Registered : sessions[r] = sessions[s] => r = s

(* Whatever the starts, stops and debuggers that run at the same time, a   *)
(* port of the range has at most one owner, although the lists of          *)
(* cgcserv/__main__.py are changed without a lock.                         *)
PortsExclusive == FreeAlone /\ RequestAlone /\ SessionAlone

(* A port that the next freeports.pop() can return has no listening        *)
(* socket: neither a stop nor a debugger gives a port back before its      *)
(* socket is closed.                                                       *)
FreeNotBound == \A p \in Ports : IsFree(p) => p \notin bound

(* usedports.remove(session.port) of a stop never raises ValueError: the   *)
(* port was appended before the session could be found, no other stop      *)
(* takes it out, and no port is on the list twice.                         *)
UsedAccount ==
  /\ IsInjective(usedports)
  /\ \A s \in Registered : Contains(usedports, sessions[s])
  /\ \A t \in Handlers :
       pc[t] \in {"register", "close", "instances", "unuse"} =>
         Contains(usedports, hport[t])

(* A session that clients can find accepts connections on its port and has *)
(* its directory: it is registered after both are made and unregistered    *)
(* before either goes.                                                     *)
SessionLive ==
  \A s \in Registered : sessions[s] \in bound /\ dirs[s] = "present"

(* What a request broadcasts tells of its own change: a stop never         *)
(* announces the session it took away, not even from a table whose entries *)
(* move while it is read; a start announces its session, unless another    *)
(* request stopped it meanwhile or keys came and went while it read.       *)
AnnouncesOwnChange ==
  [][\A t \in Handlers :
       pc[t] = "emit" /\ pc'[t] = "idle" =>
         /\ op[t] = "start" /\ hsid[t] \in Registered /\ t \notin moved => hsid[t] \in broadcast'
         /\ op[t] = "stop" => hsid[t] \notin broadcast']_vars

(* The session manager hands ports out as the port pool promises: only the *)
(* owner of a port passes it on, one port at a time.                       *)
ImplementsPool == Pool!Spec

(* The rest does not hold of the code: TLC finds counterexamples.          *)

(* A request is answered "Out of ports" only when every port is in use by  *)
(* a session, a debugger or another request.                               *)
OutOfPorts ==
  freeports = << >> => \A p \in Ports : IsHeld(p) \/ Serves(p) \/ Debugs(p)
=============================================================================
