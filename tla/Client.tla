------------------------------- MODULE Client --------------------------------
(***************************************************************************)
(* The demo client demos/socketio/cgcclient.py: it connects, starts a      *)
(* session, joins it, and stops it after ten seconds; with the handlers of *)
(* cgcserv/__main__.py that answer it.  Its socket library runs the        *)
(* handlers in a thread of their own beside main, and connects again when  *)
(* the connection is lost; messages that are under way are lost with it.   *)
(*                                                                         *)
(* How sessions start and stop is the module Sessions: here a start ends   *)
(* with a session or without, a stop ends, and both with an answer or with *)
(* an exception, whatever the server's other clients make of its table of  *)
(* sessions meanwhile.  A start takes as long as it takes (the service may *)
(* have to be built).                                                      *)
(***************************************************************************)
EXTENDS Integers, FiniteSets, Sequences, SequencesExt

CONSTANTS
  MaxSessions,  \* bound: sessions that are started
  MaxDrops      \* bound: connections that are lost

ASSUME ClientAssumption == {MaxSessions, MaxDrops} \subseteq Nat

Ids   == 1 .. MaxSessions
NoSid == 0

VARIABLES
  pc,         \* the next step of main
  connected,
  greet,      \* on_connect is still to run
  sid,        \* client.sid
  toServer, toClient, \* messages under way
  sessions,   \* sessions of the server
  starting,   \* per start that is served, the connection that asked for it
  stopping,   \* sessions that a request stops, with the connection that asked
  started,    \* number of sessions started
  drops,      \* connections lost; the number of the present one
  claim,      \* history: the client has said "already stopped"
  lost,       \* history: a connection was lost after the client's stop
  silent      \* history: a stop ended without an answer

server == <<sessions, starting, stopping, started>>
wires  == <<toServer, toClient>>
history == <<claim, lost, silent>>
vars   == <<pc, connected, greet, sid, wires, server, drops, history>>

Init ==
  /\ pc = "start" /\ connected = FALSE /\ greet = FALSE /\ sid = NoSid
  /\ toServer = <<>> /\ toClient = <<>>
  /\ sessions = {} /\ starting = <<>> /\ stopping = {} /\ started = 0
  /\ drops = 0 /\ claim = FALSE /\ lost = FALSE /\ silent = FALSE

Message(op, s) == [op |-> op, sid |-> s]
Receives(queue, op) == queue # <<>> /\ Head(queue).op = op

-----------------------------------------------------------------------------
(* main *)

(* start: the service is started when the connection is made. *)
Start ==
  /\ pc = "start" /\ sid = NoSid
  /\ connected' = TRUE /\ greet' = TRUE
  /\ pc' = "sleep"
  /\ UNCHANGED <<sid, wires, server, drops, history>>

(* time.sleep(10) is over, whatever has come by then. *)
Wake ==
  /\ pc = "sleep"
  /\ pc' = "stop"
  /\ UNCHANGED <<connected, greet, sid, wires, server, drops, history>>

(* stop: an emit without a connection is an exception, which ends main. *)
Stop ==
  /\ pc = "stop"
  /\ pc' = "done"
  /\ claim' = (sid = NoSid)
  /\ toServer' = IF sid # NoSid /\ connected THEN Append(toServer, Message("stop", sid)) ELSE toServer
  /\ UNCHANGED <<connected, greet, sid, toClient, server, drops, lost, silent>>

-----------------------------------------------------------------------------
(* CGC_Event_Handler *)

OnConnect ==
  /\ greet /\ connected
  /\ greet' = FALSE
  /\ toServer' = Append(toServer, Message("start", NoSid))
  /\ UNCHANGED <<pc, connected, sid, toClient, server, drops, history>>

(* An answer without an id is an error, and passed over. *)
OnStart ==
  /\ Receives(toClient, "start")
  /\ LET s == Head(toClient).sid IN
     /\ sid' = IF s = NoSid THEN sid ELSE s
     /\ toServer' = IF s = NoSid THEN toServer ELSE Append(toServer, Message("join", s))
  /\ toClient' = Tail(toClient)
  /\ UNCHANGED <<pc, connected, greet, server, drops, history>>

OnStop_Stay ==
  /\ Receives(toClient, "stop")
  /\ sid' = NoSid
  /\ toClient' = Tail(toClient)
  /\ UNCHANGED <<pc, connected, greet, toServer, server, drops, history>>

OnStop ==
  /\ Receives(toClient, "stop")
  /\ sid' = NoSid
  /\ connected' = FALSE
  /\ toClient' = <<>>
  /\ UNCHANGED <<pc, greet, toServer, server, drops, history>>

(* on_events keeps the first events, that nobody reads. *)
OnEvents ==
  /\ Receives(toClient, "events")
  /\ toClient' = Tail(toClient)
  /\ UNCHANGED <<pc, connected, greet, sid, toServer, server, drops, history>>

(* The library: the connection is lost, and made again. *)
Reconnect ==
  /\ connected /\ drops < MaxDrops
  /\ drops' = drops + 1
  /\ greet' = TRUE
  /\ toServer' = <<>> /\ toClient' = <<>>
  /\ lost' = (pc = "done")
  /\ UNCHANGED <<pc, connected, sid, server, claim, silent>>

-----------------------------------------------------------------------------
(* The server *)

Answer(to, op, s) ==
  toClient' = IF connected /\ to = drops THEN Append(toClient, Message(op, s)) ELSE toClient

(* on_start *)
ServeStart ==
  /\ Receives(toServer, "start")
  /\ toServer' = Tail(toServer)
  /\ starting' = Append(starting, drops)
  /\ UNCHANGED <<pc, connected, greet, sid, toClient, sessions, stopping, started, drops, history>>

Served(i) == starting' = RemoveAt(starting, i)

SessionStart(i) ==
  /\ started < MaxSessions
  /\ started' = started + 1
  /\ sessions' = sessions \cup {started + 1}
  /\ Answer(starting[i], "start", started + 1)
  /\ Served(i)
  /\ UNCHANGED <<pc, connected, greet, sid, toServer, stopping, drops, history>>

(* "Out of ports". *)
SessionError(i) ==
  /\ Answer(starting[i], "start", NoSid)
  /\ Served(i)
  /\ UNCHANGED <<pc, connected, greet, sid, toServer, sessions, stopping, started, drops, history>>

(* update_sessions raises at the end of sessionStart: the session is       *)
(* there, and nobody is told of it.                                        *)
SessionUntold(i) ==
  /\ started < MaxSessions
  /\ started' = started + 1
  /\ sessions' = sessions \cup {started + 1}
  /\ Served(i)
  /\ UNCHANGED <<pc, connected, greet, sid, wires, stopping, drops, history>>

(* sessionStart raises before there is a session: nobody answers. *)
SessionRaises(i) ==
  /\ Served(i)
  /\ UNCHANGED <<pc, connected, greet, sid, wires, sessions, stopping, started, drops, history>>

(* on_join: the events of the session. *)
ServeJoin ==
  /\ Receives(toServer, "join")
  /\ toServer' = Tail(toServer)
  /\ Answer(drops, "events", Head(toServer).sid)
  /\ UNCHANGED <<pc, connected, greet, sid, server, drops, history>>

ServeStop_Keep ==
  /\ Receives(toServer, "stop")
  /\ toServer' = Tail(toServer)
  /\ stopping' = stopping \cup {<<s, drops>> : s \in {Head(toServer).sid} \cap sessions}
  /\ UNCHANGED <<pc, connected, greet, sid, toClient, sessions, starting, started, drops, history>>

(* on_stop: sessionStop takes the session out and stops it. *)
ServeStop ==
  /\ Receives(toServer, "stop")
  /\ toServer' = Tail(toServer)
  /\ stopping' = stopping \cup {<<s, drops>> : s \in {Head(toServer).sid} \cap sessions}
  /\ sessions' = sessions \ {Head(toServer).sid}
  /\ UNCHANGED <<pc, connected, greet, sid, toClient, starting, started, drops, history>>

(* sessionStop returns. *)
SessionStopped(s, to) ==
  /\ <<s, to>> \in stopping
  /\ stopping' = stopping \ {<<s, to>>}
  /\ Answer(to, "stop", s)
  /\ UNCHANGED <<pc, connected, greet, sid, toServer, sessions, starting, started, drops, history>>

(* session.stop() or update_sessions raises: the session is out, and       *)
(* on_stop emits nothing.                                                  *)
SessionStopRaises(s, to) ==
  /\ <<s, to>> \in stopping
  /\ stopping' = stopping \ {<<s, to>>}
  /\ silent' = TRUE
  /\ UNCHANGED <<pc, connected, greet, sid, wires, sessions, starting, started, drops, claim, lost>>

-----------------------------------------------------------------------------

Main    == Start \/ Wake \/ Stop
Handler == OnConnect \/ OnStart \/ OnStop \/ OnEvents
Server  ==
  \/ ServeStart \/ ServeJoin \/ ServeStop
  \/ \E i \in DOMAIN starting :
       SessionStart(i) \/ SessionUntold(i) \/ SessionError(i) \/ SessionRaises(i)
  \/ \E s \in Ids, to \in 0 .. MaxDrops : SessionStopped(s, to) \/ SessionStopRaises(s, to)

Next == Main \/ Handler \/ Server \/ Reconnect

Spec == Init /\ [][Next]_vars

(* The threads run, and a session of which nobody is a client stops.       *)
FairSpec == Spec /\ WF_vars(Main) /\ WF_vars(Handler) /\ WF_vars(Server)

-----------------------------------------------------------------------------
(***************************************************************************)
(* Properties                                                              *)
(***************************************************************************)

(* A client that has sent its stop gets its session taken out, whatever    *)
(* connections it lost before and however the answers to its starts still  *)
(* come in, and leaves if the stop is answered; unless it loses the        *)
(* connection after that.                                                  *)
StopsItsSession ==
  \A s \in Ids :
    Message("stop", s) \in ToSet(toServer) ~> lost \/ (s \notin sessions /\ (~connected \/ silent))

(* A client that never lost its connection leaves no session behind when   *)
(* it disconnects, and none that is still to start.                        *)
LeavesNone ==
  pc = "done" /\ ~connected /\ drops = 0 => sessions = {} /\ starting = <<>>

(* The rest does not hold of the code: TLC finds counterexamples.          *)

(* "service {} stopped" (cgcclient.py), and the client disconnects: the    *)
(* service that it started runs no more.                                   *)
ServiceStopped == pc = "done" /\ ~connected => sessions = {}

(* "**ERROR** already stopped." (cgcclient.py): there is nothing to stop.  *)
AlreadyStopped == claim => sessions = {} /\ starting = <<>>
=============================================================================
