----------------------------- MODULE ClientProofs -----------------------------
(***************************************************************************)
(* Proofs about the two clients of the server.                             *)
(***************************************************************************)
EXTENDS Client, Display, SumTheorems, SequenceTheorems, TLAPS

-----------------------------------------------------------------------------
(* The demo client *)

LEMMA OneQueued ==
  ASSUME NEW a
  PROVE  Head(<<a>>) = a /\ Tail(<<a>>) = <<>> /\ Append(<<>>, a) = <<a>> /\ <<a>> # <<>>
OBVIOUS

LEMMA TwoQueued ==
  ASSUME NEW a, NEW b
  PROVE  Head(<<a, b>>) = a /\ Tail(<<a, b>>) = <<b>> /\ Append(<<a>>, b) = <<a, b>> /\ <<a, b>> # <<>>
<1>1. Head(<<a, b>>) = a /\ <<a, b>> # <<>>
  OBVIOUS
<1>2. Append(<<a>>, b) = <<a, b>>
  <2> DEFINE S == {a, b}
  <2>1. <<a>> \in Seq(S) /\ <<a, b>> \in Seq(S)
    OBVIOUS
  <2>2. Append(<<a>>, b) \in Seq(S) /\ Len(Append(<<a>>, b)) = 2 /\ Len(<<a, b>>) = 2
    BY <2>1
  <2>3. Append(<<a>>, b)[1] = a /\ Append(<<a>>, b)[2] = b
    BY <2>1
  <2>4. \A i \in 1 .. 2 : Append(<<a>>, b)[i] = <<a, b>>[i]
    BY <2>3
  <2> HIDE DEF S
  <2> QED
    BY <2>1, <2>2, <2>4, SeqEqual
<1>3. Tail(<<a, b>>) = <<b>>
  OBVIOUS
<1> QED
  BY <1>1, <1>2, <1>3

LEMMA LastServed ==
  ASSUME NEW d, NEW i \in DOMAIN <<d>>
  PROVE  i = 1 /\ <<d>>[i] = d /\ RemoveAt(<<d>>, i) = <<>>
BY DEF RemoveAt

(* A client that has not lost its connection starts one session; the       *)
(* phases of that session, by what is under way.                           *)
Idle == toServer = <<>> /\ toClient = <<>> /\ sessions = {} /\ starting = <<>> /\ stopping = {}

NotStarted == pc = "start" /\ ~connected /\ ~greet /\ sid = NoSid /\ Idle

Asking ==
  /\ pc # "start" /\ connected /\ sid = NoSid
  /\ \/ greet /\ Idle
     \/ /\ ~greet /\ toServer = <<Message("start", NoSid)>>
        /\ toClient = <<>> /\ sessions = {} /\ starting = <<>> /\ stopping = {}
     \/ /\ ~greet /\ starting = << 0 >>
        /\ toServer = <<>> /\ toClient = <<>> /\ sessions = {} /\ stopping = {}

(* The start failed: nothing more will come. *)
Refused ==
  /\ pc # "start" /\ connected /\ ~greet /\ sid = NoSid
  /\ toServer = <<>> /\ toClient \in {<<>>, <<Message("start", NoSid)>>}
  /\ sessions = {} /\ starting = <<>> /\ stopping = {}

Answered ==
  /\ pc # "start" /\ connected /\ ~greet /\ sid = NoSid
  /\ toServer = <<>> /\ starting = <<>> /\ stopping = {}
  /\ \E s \in Nat \ {NoSid} : sessions = {s} /\ toClient = <<Message("start", s)>>

(* There is a session, and nobody will hear of it. *)
Untold ==
  /\ pc # "start" /\ connected /\ ~greet /\ sid = NoSid
  /\ toServer = <<>> /\ toClient = <<>> /\ starting = <<>> /\ stopping = {}

Playing ==
  /\ pc # "start" /\ connected /\ ~greet /\ sid \in Nat \ {NoSid}
  /\ sessions = {sid} /\ starting = <<>> /\ stopping = {}
  /\ \/ toServer = <<Message("join", sid)>> /\ toClient = <<>>
     \/ pc = "done" /\ toServer = <<Message("join", sid), Message("stop", sid)>> /\ toClient = <<>>
     \/ toServer = <<>> /\ toClient \in {<<>>, <<Message("events", sid)>>}
     \/ pc = "done" /\ toServer = <<Message("stop", sid)>> /\ toClient \in {<<>>, <<Message("events", sid)>>}

Stopping ==
  /\ pc = "done" /\ connected /\ ~greet /\ sid \in Nat \ {NoSid}
  /\ toServer = <<>> /\ sessions = {} /\ starting = <<>>
  /\ \/ stopping = {<<sid, 0>>} /\ toClient \in {<<>>, <<Message("events", sid)>>}
     \/ stopping = {} /\ toClient \in {<<Message("stop", sid)>>, <<Message("events", sid), Message("stop", sid)>>}
     \/ stopping = {} /\ silent /\ toClient \in {<<>>, <<Message("events", sid)>>}

Gone == pc = "done" /\ ~connected /\ ~greet /\ sid = NoSid /\ Idle

Phases == NotStarted \/ Asking \/ Refused \/ Answered \/ Untold \/ Playing \/ Stopping \/ Gone

ClientInv == drops \in Nat /\ started \in Nat /\ (drops = 0 => Phases)

LEMMA Messages ==
  ASSUME NEW op, NEW s
  PROVE  Message(op, s).op = op /\ Message(op, s).sid = s
BY DEF Message

LEMMA OnlyReceives ==
  ASSUME NEW queue, NEW op, NEW s, NEW other, other # op, queue \in {<<>>, <<Message(op, s)>>}
  PROVE  ~Receives(queue, other)
BY OneQueued, Messages DEF Receives

LEMMA NotStartedNext ==
  ASSUME NotStarted, drops = 0, Main \/ Handler \/ Server
  PROVE  Phases'
BY DEF NotStarted, Idle, Phases, Asking, Main, Start, Wake, Stop, Handler, OnConnect, OnStart, OnStop, OnEvents,
       Server, ServeStart, ServeJoin, ServeStop, SessionStart, SessionError, SessionUntold, SessionRaises, SessionStopped, SessionStopRaises,
       Receives, NoSid, wires, server

LEMMA AskingNext ==
  ASSUME Asking, drops = 0, started \in Nat, Main \/ Handler \/ Server
  PROVE  Phases'
<1>1. CASE Main
  BY <1>1 DEF Main, Start, Wake, Stop, Asking, Idle, Phases, wires, server
<1>2. CASE Handler
  BY <1>2, OneQueued DEF Handler, OnConnect, OnStart, OnStop, OnEvents, Receives, Asking, Idle, Phases, wires, server
<1>3. CASE Server
  <2>1. CASE ServeStart
    BY <2>1, OneQueued DEF ServeStart, Asking, Idle, Phases, Receives
  <2>2. CASE ServeJoin \/ ServeStop \/ \E s \in Ids, to \in 0 .. MaxDrops : SessionStopped(s, to) \/ SessionStopRaises(s, to)
    <3>1. toServer \in {<<>>, <<Message("start", NoSid)>>} /\ stopping = {}
      BY DEF Asking, Idle
    <3>2. ~Receives(toServer, "join") /\ ~Receives(toServer, "stop")
      BY <3>1, OnlyReceives
    <3> QED
      BY <2>2, <3>1, <3>2 DEF ServeJoin, ServeStop, SessionStopped, SessionStopRaises
  <2>3. ASSUME NEW i \in DOMAIN starting, SessionStart(i) \/ SessionUntold(i) \/ SessionError(i) \/ SessionRaises(i) PROVE Phases'
    <3>1. /\ ~greet /\ toServer = <<>> /\ toClient = <<>> /\ sessions = {} /\ stopping = {}
          /\ starting = << 0 >> /\ pc # "start" /\ connected /\ sid = NoSid
      BY <2>3 DEF Asking, Idle
    <3>2. starting[i] = 0 /\ RemoveAt(starting, i) = <<>>
      BY <3>1, LastServed
    <3>3. CASE SessionStart(i)
      <4>1. sessions' = {started + 1} /\ toClient' = <<Message("start", started + 1)>> /\ started + 1 \in Nat \ {NoSid}
        BY <3>1, <3>2, <3>3, OneQueued DEF SessionStart, Answer, NoSid
      <4>2. Answered'
        BY <3>1, <3>2, <3>3, <4>1 DEF Answered, SessionStart, Served
      <4> QED
        BY <4>2 DEF Phases
    <3>4. CASE SessionError(i)
      <4>1. toClient' = <<Message("start", NoSid)>>
        BY <3>1, <3>2, <3>4, OneQueued DEF SessionError, Answer
      <4>2. Refused'
        BY <3>1, <3>2, <3>4, <4>1 DEF SessionError, Refused, Served
      <4> QED
        BY <4>2 DEF Phases
    <3>5. CASE SessionRaises(i)
      <4>1. Refused'
        BY <3>1, <3>2, <3>5 DEF SessionRaises, Refused, Served, wires
      <4> QED
        BY <4>1 DEF Phases
    <3>6. CASE SessionUntold(i)
      <4>1. Untold'
        BY <3>1, <3>2, <3>6 DEF SessionUntold, Untold, Served, wires
      <4> QED
        BY <4>1 DEF Phases
    <3> QED
      BY <2>3, <3>3, <3>4, <3>5, <3>6
  <2> QED
    BY <1>3, <2>1, <2>2, <2>3 DEF Server
<1> QED
  BY <1>1, <1>2, <1>3

LEMMA RefusedNext ==
  ASSUME Refused, drops = 0, Main \/ Handler \/ Server
  PROVE  Phases'
<1>1. /\ \A op : op # "start" => ~Receives(toClient, op)
      /\ toServer = <<>> /\ starting = <<>> /\ stopping = {} /\ ~greet
  BY OnlyReceives DEF Refused
<1>2. CASE Main
  BY <1>2 DEF Main, Start, Wake, Stop, Refused, Phases, wires, server
<1>3. CASE OnStart
  <2>1. toClient = <<Message("start", NoSid)>>
    BY <1>3 DEF OnStart, Receives, Refused
  <2>2. sid' = NoSid /\ toServer' = <<>> /\ toClient' = <<>>
    BY <1>3, <2>1, OneQueued, Messages DEF OnStart, Refused
  <2> QED
    BY <1>3, <2>2 DEF OnStart, Refused, Phases, server
<1>4. ~(OnConnect \/ OnStop \/ OnEvents)
  BY <1>1 DEF OnConnect, OnStop, OnEvents
<1>5. ~Server
  BY <1>1 DEF Server, ServeStart, ServeJoin, ServeStop, Receives, SessionStopped, SessionStopRaises
<1> QED
  BY <1>2, <1>3, <1>4, <1>5 DEF Handler

LEMMA AnsweredNext ==
  ASSUME Answered, drops = 0, Main \/ Handler \/ Server
  PROVE  Phases'
<1>1. PICK s \in Nat \ {NoSid} : sessions = {s} /\ toClient = <<Message("start", s)>>
  BY DEF Answered
<1>2. CASE Main
  BY <1>2 DEF Main, Start, Wake, Stop, Answered, Phases, wires, server
<1>3. CASE OnStart
  <2>1. sid' = s /\ toServer' = <<Message("join", s)>> /\ toClient' = <<>>
    BY <1>1, <1>3, OneQueued, Messages DEF OnStart, Answered
  <2>2. Playing'
    BY <1>1, <1>3, <2>1 DEF OnStart, Answered, Playing, server
  <2> QED
    BY <2>2 DEF Phases
<1>4. ~(OnConnect \/ OnStop \/ OnEvents)
  <2>1. ~Receives(toClient, "stop") /\ ~Receives(toClient, "events")
    BY <1>1, OnlyReceives
  <2> QED
    BY <2>1 DEF OnConnect, OnStop, OnEvents, Answered
<1>5. ~Server
  BY DEF Server, ServeStart, ServeJoin, ServeStop, Receives, SessionStopped, SessionStopRaises, Answered
<1> QED
  BY <1>2, <1>3, <1>4, <1>5 DEF Handler

LEMMA UntoldNext ==
  ASSUME Untold, drops = 0, Main \/ Handler \/ Server
  PROVE  Phases'
<1>1. CASE Main
  BY <1>1 DEF Main, Start, Wake, Stop, Untold, Phases, wires, server
<1>2. ~Handler
  BY DEF Handler, OnConnect, OnStart, OnStop, OnEvents, Receives, Untold
<1>3. ~Server
  BY DEF Server, ServeStart, ServeJoin, ServeStop, Receives, SessionStopped, SessionStopRaises, Untold
<1> QED
  BY <1>1, <1>2, <1>3

LEMMA PlayingNext ==
  ASSUME Playing, drops = 0, Main \/ Handler \/ Server
  PROVE  Phases'
<1> DEFINE joins == Message("join", sid)
           stops == Message("stop", sid)
           tells == Message("events", sid)
<1>1. \/ Head(toServer) = joins /\ Tail(toServer) \in {<<>>, <<stops>>} /\ toServer # <<>> /\ toClient = <<>>
      \/ toServer \in {<<>>, <<stops>>} /\ toClient \in {<<>>, <<tells>>}
  <2>1. \/ toServer \in {<<joins>>, <<joins, stops>>} /\ toClient = <<>>
        \/ toServer \in {<<>>, <<stops>>} /\ toClient \in {<<>>, <<tells>>}
    BY DEF Playing
  <2>2. /\ Head(<<joins>>) = joins /\ Tail(<<joins>>) = <<>> /\ <<joins>> # <<>>
        /\ Head(<<joins, stops>>) = joins /\ Tail(<<joins, stops>>) = <<stops>> /\ <<joins, stops>> # <<>>
    BY OneQueued, TwoQueued
  <2> HIDE DEF joins, stops, tells
  <2> QED
    BY <2>1, <2>2
<1>2. \A op : op # "events" => ~Receives(toClient, op)
  BY <1>1, OnlyReceives DEF Receives
<1>3. CASE Wake
  BY <1>3 DEF Wake, Playing, Phases, wires, server
<1>4. CASE Stop
  <2>1. /\ pc # "done" /\ pc' = "done" /\ toServer' = Append(toServer, stops)
        /\ UNCHANGED <<connected, greet, sid, toClient, sessions, starting, stopping>>
    BY <1>4 DEF Stop, Playing, server
  <2>2. \/ toServer = <<joins>> /\ toServer' = <<joins, stops>> /\ toClient = <<>>
        \/ toServer = <<>> /\ toServer' = <<stops>> /\ toClient \in {<<>>, <<tells>>}
    BY <2>1, OneQueued, TwoQueued DEF Playing
  <2>3. Playing'
    BY <2>1, <2>2 DEF Playing
  <2> QED
    BY <2>3 DEF Phases
<1>5. CASE OnEvents
  <2>1. toServer \in {<<>>, <<stops>>} /\ toClient = <<tells>>
    BY <1>1, <1>5 DEF OnEvents, Receives
  <2>2. toClient' = <<>> /\ UNCHANGED <<pc, connected, greet, sid, toServer, sessions, starting, stopping>>
    BY <1>5, <2>1, OneQueued DEF OnEvents, server
  <2>3. Playing'
    BY <2>1, <2>2 DEF Playing
  <2> QED
    BY <2>3 DEF Phases
<1>6. CASE ServeJoin
  <2>1. toServer # <<>> /\ Head(toServer).op = "join"
    BY <1>6 DEF ServeJoin, Receives
  <2>2. toServer \notin {<<>>, <<stops>>}
    BY <2>1, OneQueued, Messages
  <2>3. toClient = <<>> /\ Head(toServer) = joins /\ Head(toServer).sid = sid
    BY <1>1, <2>2, Messages
  <2>4. /\ toServer' = Tail(toServer) /\ toClient' = <<tells>>
        /\ UNCHANGED <<pc, connected, greet, sid, sessions, starting, stopping>>
    BY <1>6, <2>3, OneQueued DEF ServeJoin, Answer, Playing, server
  <2>5. toServer' = <<>> \/ (pc = "done" /\ toServer' = <<stops>>)
    <3>1. toServer = <<joins>> \/ (pc = "done" /\ toServer = <<joins, stops>>)
      <4>1. \/ toServer = <<joins>> \/ toServer \in {<<>>, <<stops>>}
            \/ pc = "done" /\ toServer = <<joins, stops>>
        BY DEF Playing
      <4> QED
        BY <2>2, <4>1
    <3>2. Tail(<<joins>>) = <<>> /\ Tail(<<joins, stops>>) = <<stops>>
      BY OneQueued, TwoQueued
    <3> HIDE DEF joins, stops, tells
    <3> QED
      BY <2>4, <3>1, <3>2
  <2>6. Playing'
    BY <2>4, <2>5 DEF Playing
  <2> QED
    BY <2>6 DEF Phases
<1>7. CASE ServeStop
  <2>1. toServer # <<>> /\ Head(toServer).op = "stop"
    BY <1>7 DEF ServeStop, Receives
  <2>2. toServer = <<stops>> /\ toClient \in {<<>>, <<tells>>}
    BY <1>1, <2>1, Messages
  <2>3. Head(toServer).sid = sid /\ Tail(toServer) = <<>> /\ pc = "done"
    BY <2>1, <2>2, OneQueued, TwoQueued, Messages DEF Playing
  <2>4. stopping' = {<<sid, 0>>} /\ sessions' = {}
    BY <1>7, <2>3 DEF ServeStop, Playing
  <2>5. Stopping'
    BY <1>7, <2>2, <2>3, <2>4 DEF ServeStop, Playing, Stopping
  <2> QED
    BY <2>5 DEF Phases
<1>8. ~(Start \/ OnConnect \/ OnStart \/ OnStop \/ ServeStart)
  <2>1. ~Receives(toServer, "start")
    BY <1>1, OneQueued, Messages DEF Receives
  <2> QED
    BY <1>2, <2>1 DEF Start, OnConnect, OnStart, OnStop, ServeStart, Playing
<1>9. DOMAIN starting = {} /\ \A s, to : ~SessionStopped(s, to) /\ ~SessionStopRaises(s, to)
  BY DEF SessionStopped, SessionStopRaises, Playing
<1> QED
  BY <1>3, <1>4, <1>5, <1>6, <1>7, <1>8, <1>9 DEF Main, Handler, Server

LEMMA StoppingNext ==
  ASSUME Stopping, drops = 0, Main \/ Handler \/ Server
  PROVE  Phases'
<1> DEFINE stops == Message("stop", sid)
           tells == Message("events", sid)
<1>1. CASE OnEvents
  <2>1. toClient # <<>> /\ Head(toClient).op = "events"
    BY <1>1 DEF OnEvents, Receives
  <2>2. \/ toClient = <<tells>> /\ (stopping = {<<sid, 0>>} \/ (stopping = {} /\ silent))
        \/ toClient = <<tells, stops>> /\ stopping = {}
    BY <2>1, OneQueued, Messages DEF Stopping
  <2>3. \/ Tail(toClient) = <<>> /\ (stopping = {<<sid, 0>>} \/ (stopping = {} /\ silent))
        \/ Tail(toClient) = <<stops>> /\ stopping = {}
    <3>1. Tail(<<tells>>) = <<>> /\ Tail(<<tells, stops>>) = <<stops>>
      BY OneQueued, TwoQueued
    <3> QED
      BY <2>2, <3>1
  <2>4. Stopping'
    BY <1>1, <2>3 DEF OnEvents, Stopping, server, history
  <2> QED
    BY <2>4 DEF Phases
<1>2. CASE OnStop
  <2>1. toClient # <<>> /\ Head(toClient).op = "stop"
    BY <1>2 DEF OnStop, Receives
  <2>2. toClient = <<stops>> /\ stopping = {}
    BY <2>1, OneQueued, TwoQueued, Messages DEF Stopping
  <2>3. Gone'
    BY <1>2, <2>2 DEF OnStop, Stopping, Gone, Idle, server
  <2> QED
    BY <2>3 DEF Phases
<1>3. ASSUME NEW s \in Ids, NEW to \in 0 .. MaxDrops, SessionStopped(s, to) PROVE Phases'
  <2>1. s = sid /\ to = 0 /\ stopping = {<<sid, 0>>} /\ toClient \in {<<>>, <<tells>>}
    BY <1>3 DEF SessionStopped, Stopping
  <2>2. toClient' \in {<<stops>>, <<tells, stops>>}
    <3>1. toClient' = Append(toClient, stops)
      BY <1>3, <2>1 DEF SessionStopped, Answer, Stopping
    <3>2. Append(<<>>, stops) = <<stops>> /\ Append(<<tells>>, stops) = <<tells, stops>>
      BY OneQueued, TwoQueued
    <3> QED
      BY <2>1, <3>1, <3>2
  <2>3. stopping' = {}
    BY <1>3, <2>1 DEF SessionStopped
  <2>4. Stopping'
    BY <1>3, <2>2, <2>3 DEF SessionStopped, Stopping
  <2> QED
    BY <2>4 DEF Phases
<1>7. ASSUME NEW s \in Ids, NEW to \in 0 .. MaxDrops, SessionStopRaises(s, to) PROVE Phases'
  <2>1. stopping' = {} /\ silent' /\ toClient \in {<<>>, <<tells>>}
    BY <1>7 DEF SessionStopRaises, Stopping
  <2>2. Stopping'
    BY <1>7, <2>1 DEF SessionStopRaises, Stopping, wires
  <2> QED
    BY <2>2 DEF Phases
<1>4. ~(Main \/ OnConnect)
  BY DEF Main, Start, Wake, Stop, OnConnect, Stopping
<1>5. ~OnStart
  <2>1. toClient # <<>> => Head(toClient).op \in {"events", "stop"}
    BY OneQueued, TwoQueued, Messages DEF Stopping
  <2> QED
    BY <2>1 DEF OnStart, Receives
<1>6. ~(ServeStart \/ ServeJoin \/ ServeStop) /\ DOMAIN starting = {}
  BY DEF ServeStart, ServeJoin, ServeStop, Receives, Stopping
<1> QED
  BY <1>1, <1>2, <1>3, <1>4, <1>5, <1>6, <1>7 DEF Handler, Server

LEMMA GoneNext ==
  ASSUME Gone, drops = 0, Main \/ Handler \/ Server
  PROVE  FALSE
BY DEF Gone, Idle, Main, Start, Wake, Stop, Handler, OnConnect, OnStart, OnStop, OnEvents,
       Server, ServeStart, ServeJoin, ServeStop, SessionStopped, SessionStopRaises, Receives

(* A client that keeps its connection ends with no session of its own. *)
THEOREM NoneLeft == Spec => []LeavesNone
<1>1. Init => ClientInv
  BY DEF Init, ClientInv, Phases, NotStarted, Idle
<1>2. ClientInv /\ [Next]_vars => ClientInv'
  <2> SUFFICES ASSUME ClientInv, [Next]_vars PROVE ClientInv'
    OBVIOUS
  <2>1. CASE UNCHANGED vars
    BY <2>1 DEF vars, wires, server, history, ClientInv, Phases, NotStarted, Asking, Refused, Answered, Untold, Playing, Stopping, Gone, Idle
  <2>2. CASE Reconnect
    BY <2>2 DEF Reconnect, ClientInv, server
  <2>3. CASE Main \/ Handler \/ Server
    <3>1. drops' = drops /\ started' \in {started, started + 1}
      BY <2>3 DEF Main, Start, Wake, Stop, Handler, OnConnect, OnStart, OnStop, OnEvents,
             Server, ServeStart, ServeJoin, ServeStop, SessionStart, SessionError, SessionUntold, SessionRaises, SessionStopped, SessionStopRaises, server
    <3>2. drops = 0 => Phases'
      BY <2>3, NotStartedNext, AskingNext, RefusedNext, AnsweredNext, UntoldNext, PlayingNext, StoppingNext, GoneNext DEF ClientInv, Phases
    <3> QED
      BY <3>1, <3>2 DEF ClientInv
  <2> QED
    BY <2>1, <2>2, <2>3 DEF Next
<1>3. ClientInv => LeavesNone
  BY DEF ClientInv, LeavesNone, Phases, NotStarted, Asking, Refused, Answered, Untold, Playing, Stopping, Gone, Idle
<1> QED
  BY <1>1, <1>2, <1>3, PTL DEF Spec

-----------------------------------------------------------------------------
(* The source view of the web page *)

(* Of a file of coverage, the counts of its lines. *)
Lined(f) == coverage[f].lines \in Seq(Nat) /\ Len(coverage[f].lines) = Size[f]

SourceType ==
  /\ currentSession \in Sids \cup {None}
  /\ DOMAIN coverage \subseteq AllFiles /\ \A f \in DOMAIN coverage : Lined(f)
  /\ content \in AllFiles \cup {Nothing}
  /\ content = Nothing => count = <<>>
  /\ content # Nothing => count \in [1 .. Size[content] -> Int]
  /\ requests \in [AllFiles -> Nat]

(* What is shown of the file that was clicked last is what was sent last,  *)
(* unless it is under way.                                                 *)
CountsInv ==
  content = file /\ file \in DOMAIN coverage /\ requests[file] = 0 /\ ~failed
    => count = coverage[file].lines

SourceInv == SourceType /\ CountsInv

LEMMA Sent ==
  ASSUME NEW s \in Sids, NEW c \in Counts(s)
  PROVE  LET cov == coveragetogcov(c) IN
         /\ DOMAIN cov \subseteq AllFiles
         /\ \A f \in DOMAIN cov : cov[f].lines \in Seq(Nat) /\ Len(cov[f].lines) = Size[f]
<1> DEFINE cov == coveragetogcov(c)
<1>1. DOMAIN cov = FilesOf[s] /\ FilesOf[s] \subseteq AllFiles
  BY DEF Counts, coveragetogcov, AllFiles
<1>2. ASSUME NEW f \in FilesOf[s] PROVE c[f] \in Seq(Nat) /\ Len(c[f]) = Size[f]
  <2>1. PICK g \in FilesOf[s] : c[f] \in [1 .. Size[g] -> 0 .. MaxCount]
    BY DEF Counts
  <2>2. DOMAIN c[f] = 1 .. Size[f]
    BY DEF Counts
  <2>3. c[f] \in [1 .. Size[f] -> Nat]
    <3>1. c[f] = [l \in 1 .. Size[f] |-> c[f][l]] /\ \A l \in 1 .. Size[f] : c[f][l] \in 0 .. MaxCount
      BY <2>1, <2>2
    <3>2. 0 .. MaxCount \subseteq Nat
      BY DisplayAssumption
    <3> QED
      BY <3>1, <3>2
  <2>4. Size[f] \in Nat
    BY <1>1, DisplayAssumption
  <2>5. c[f] \in Seq(Nat)
    BY <2>3, <2>4, SeqDef
  <2>6. Len(c[f]) \in Nat /\ DOMAIN c[f] = 1 .. Len(c[f])
    BY <2>5, LenProperties
  <2> QED
    BY <2>2, <2>4, <2>5, <2>6
<1>3. \A f \in DOMAIN cov : cov[f].lines = c[f]
  BY DEF coveragetogcov, Counts
<1> QED
  BY <1>1, <1>2, <1>3

(* Lines that are counted beside the file they are of get its counts. *)
LEMMA CountedAll ==
  ASSUME NEW cov, NEW shown, NEW f \in AllFiles, shown \in [1 .. Size[f] -> Int],
         \A g \in DOMAIN cov : cov[g].lines \in Seq(Nat) /\ Len(cov[g].lines) = Size[g]
  PROVE  /\ Counted(cov, shown) \in [1 .. Size[f] -> Int]
         /\ file = f /\ f \in DOMAIN cov => Counted(cov, shown) = cov[f].lines
<1>1. DOMAIN shown = 1 .. Size[f]
  OBVIOUS
<1>2. ASSUME NEW l \in 1 .. Size[f], file \in DOMAIN cov, l <= Len(cov[file].lines)
      PROVE  cov[file].lines[l] \in Int
  <2>1. Size[f] \in Nat /\ cov[file].lines \in Seq(Nat)
    BY <1>2, DisplayAssumption
  <2>2. l \in 1 .. Len(cov[file].lines)
    BY <1>2, <2>1
  <2>3. cov[file].lines[l] \in Nat
    BY <2>1, <2>2, ElementOfSeq
  <2> QED
    BY <2>3
<1>3. Counted(cov, shown) \in [1 .. Size[f] -> Int]
  BY <1>1, <1>2 DEF Counted
<1>4. ASSUME file = f, f \in DOMAIN cov PROVE Counted(cov, shown) = cov[f].lines
  <2>1. cov[f].lines \in [1 .. Size[f] -> Nat]
    BY <1>4, LenProperties
  <2>2. Counted(cov, shown) = [l \in 1 .. Size[f] |-> cov[f].lines[l]]
    BY <1>1, <1>4 DEF Counted
  <2> QED
    BY <2>1, <2>2
<1> QED
  BY <1>3, <1>4

LEMMA NextSource ==
  ASSUME SourceInv, [DisplayNext]_displayvars
  PROVE  SourceInv'
<1> USE DEF SourceInv, SourceType
<1>0. Nothing \notin AllFiles
  BY DisplayAssumption DEF Nothing
<1>1. CASE UNCHANGED displayvars
  BY <1>1 DEF displayvars, source, CountsInv, Lined
<1>2. ASSUME NEW s \in Sids, joinSession(s) PROVE SourceInv'
  BY <1>2 DEF joinSession, source, CountsInv, Lined
<1>3. CASE CoverageArrives
  <2>1. PICK c \in Counts(currentSession) : coverage' = coveragetogcov(c) /\ count' = Counted(coveragetogcov(c), count)
    BY <1>3 DEF CoverageArrives
  <2>2. currentSession \in Sids /\ UNCHANGED <<currentSession, file, content, requests>>
    BY <1>3 DEF CoverageArrives
  <2>3. DOMAIN coverage' \subseteq AllFiles /\ \A f \in DOMAIN coverage' : Lined(f)'
    BY <2>1, <2>2, Sent DEF Lined
  <2>4. CASE content = Nothing
    <3>1. count' = <<>>
      BY <2>1, <2>4 DEF Counted
    <3> QED
      BY <1>0, <2>2, <2>3, <2>4, <3>1 DEF CountsInv
  <2>5. CASE content # Nothing
    <3>1. content \in AllFiles /\ count \in [1 .. Size[content] -> Int]
      BY <2>5
    <3>2. /\ count' \in [1 .. Size[content] -> Int]
          /\ file = content /\ content \in DOMAIN coverage' => count' = coverage'[content].lines
      BY <2>1, <2>3, <3>1, CountedAll DEF Lined
    <3>3. SourceType'
      BY <2>2, <2>3, <3>2, <2>5
    <3>4. CountsInv'
      BY <2>2, <3>2 DEF CountsInv
    <3> QED
      BY <3>3, <3>4
  <2> QED
    BY <2>4, <2>5
<1>4. ASSUME NEW f \in AllFiles, Click(f) PROVE SourceInv'
  <2>1. /\ file' = f /\ requests' = [requests EXCEPT ![f] = @ + 1]
        /\ UNCHANGED <<currentSession, coverage, content, count, failed>>
    BY <1>4 DEF Click
  <2>2. requests' \in [AllFiles -> Nat] /\ requests'[f] # 0
    BY <2>1
  <2> QED
    BY <2>1, <2>2 DEF CountsInv, Lined
<1>5. ASSUME NEW f \in AllFiles, Success(f) PROVE SourceInv'
  <2> DEFINE blank == [l \in 1 .. Size[f] |-> Blank]
  <2>1. blank \in [1 .. Size[f] -> Int] /\ f # Nothing
    BY <1>0 DEF Blank
  <2>2. /\ count' = Counted(coverage, blank) /\ content' = f /\ requests' \in [AllFiles -> Nat]
        /\ UNCHANGED <<currentSession, coverage, file, failed>>
    BY <1>5 DEF Success, Received
  <2>3. /\ count' \in [1 .. Size[f] -> Int]
        /\ file = f /\ f \in DOMAIN coverage => count' = coverage[f].lines
    BY <2>1, <2>2, CountedAll DEF Lined
  <2> QED
    BY <2>1, <2>2, <2>3 DEF CountsInv, Lined
<1>6. ASSUME NEW f \in AllFiles, Error(f) PROVE SourceInv'
  BY <1>6 DEF Error, CountsInv, Lined
<1> QED
  BY <1>1, <1>2, <1>3, <1>4, <1>5, <1>6 DEF DisplayNext

(* However clicks, answers and messages follow each other, the counts that *)
(* are shown of the file that was clicked are those of the last message.   *)
THEOREM CountsShown == DisplaySpec => []CountsExact
<1>1. DisplayInit => SourceInv
  BY DEF DisplayInit, SourceInv, SourceType, CountsInv, Lined, Nothing
<1>2. SourceInv => CountsExact
  BY DEF SourceInv, SourceType, CountsInv, CountsExact
<1> QED
  BY <1>1, <1>2, NextSource, PTL DEF DisplaySpec

-----------------------------------------------------------------------------
(* The coverage tree of the web page, when the sessions are of one service *)

SameService == \A s, t \in Sids : FilesOf[s] = FilesOf[t]

Path == Seq(STRING)

LEMMA Prefix ==
  ASSUME NEW s \in Path, NEW t \in Path
  PROVE  IsPrefix(s, t) <=> Len(s) <= Len(t) /\ \A i \in 1 .. Len(s) : s[i] = t[i]
<1>1. Len(s) \in Nat /\ Len(t) \in Nat /\ SubSeq(s, 1, Len(s)) = s
  BY LenProperties, SubSeqFull DEF Path
<1>2. SUFFICES ASSUME Len(s) <= Len(t)
      PROVE  s = SubSeq(t, 1, Len(s)) <=> \A i \in 1 .. Len(s) : s[i] = t[i]
  BY <1>1 DEF IsPrefix
<1>3. \A i \in 1 .. Len(s) : i \in 1 .. Len(t) /\ t[i] \in STRING
  BY <1>1, <1>2, ElementOfSeq DEF Path
<1> DEFINE u == SubSeq(t, 1, Len(s))
<1>4. u \in Path /\ Len(u) = Len(s) /\ \A i \in 1 .. Len(s) : u[i] = t[i]
  <2>1. /\ u \in Path
        /\ Len(u) = IF 1 <= Len(s) THEN Len(s) - 1 + 1 ELSE 0
        /\ \A i \in 1 .. Len(s) - 1 + 1 : u[i] = t[1 + i - 1]
    BY <1>1, <1>3, SubSeqProperties DEF Path
  <2> HIDE DEF u
  <2>2. Len(s) - 1 + 1 = Len(s) /\ \A i \in 1 .. Len(s) : 1 + i - 1 = i
    BY <1>1
  <2> QED
    BY <1>1, <2>1, <2>2
<1> HIDE DEF u
<1>5. ASSUME \A i \in 1 .. Len(s) : s[i] = t[i] PROVE s = u
  BY <1>4, <1>5, SeqEqual DEF Path
<1> QED
  BY <1>4, <1>5 DEF u

(* A path cut off behind k names. *)
LEMMA CutOff ==
  ASSUME NEW t \in Path, NEW k \in 0 .. Len(t)
  PROVE  /\ SubSeq(t, 1, k) \in Path /\ Len(SubSeq(t, 1, k)) = k
         /\ \A i \in 1 .. k : SubSeq(t, 1, k)[i] = t[i]
         /\ IsPrefix(SubSeq(t, 1, k), t)
<1>1. Len(t) \in Nat /\ k \in Nat /\ k <= Len(t)
  BY LenProperties DEF Path
<1>2. \A i \in 1 .. k : i \in 1 .. Len(t) /\ t[i] \in STRING
  BY <1>1, ElementOfSeq DEF Path
<1> DEFINE u == SubSeq(t, 1, k)
<1>3. /\ u \in Path
      /\ Len(u) = IF 1 <= k THEN k - 1 + 1 ELSE 0
      /\ \A i \in 1 .. k - 1 + 1 : u[i] = t[1 + i - 1]
  BY <1>1, <1>2, SubSeqProperties DEF Path
<1>4. k - 1 + 1 = k /\ \A i \in 1 .. k : 1 + i - 1 = i
  BY <1>1
<1> HIDE DEF u
<1>5. u \in Path /\ Len(u) = k /\ \A i \in 1 .. k : u[i] = t[i]
  BY <1>1, <1>3, <1>4
<1>6. IsPrefix(u, t)
  BY <1>1, <1>5, Prefix
<1> QED
  BY <1>5, <1>6 DEF u

LEMMA SamePath ==
  ASSUME NEW s \in Path, NEW t \in Path, NEW u \in Path,
         IsPrefix(s, u), IsPrefix(t, u), Len(s) <= Len(t)
  PROVE  IsPrefix(s, t) /\ (Len(s) = Len(t) => s = t)
<1>1. Len(s) \in Nat /\ Len(t) \in Nat
  BY LenProperties DEF Path
<1>2. \A i \in 1 .. Len(s) : i \in 1 .. Len(t) /\ s[i] = u[i] /\ t[i] = u[i]
  BY <1>1, Prefix
<1>3. IsPrefix(s, t)
  BY <1>2, Prefix
<1>4. ASSUME Len(s) = Len(t) PROVE s = t
  BY <1>2, <1>4, SeqEqual DEF Path
<1> QED
  BY <1>3, <1>4

LEMMA PrefixOfPrefix ==
  ASSUME NEW s \in Path, NEW t \in Path, NEW u \in Path,
         IsPrefix(s, t), IsPrefix(t, u)
  PROVE  IsPrefix(s, u)
<1>1. Len(s) \in Nat /\ Len(t) \in Nat /\ Len(u) \in Nat
  BY LenProperties DEF Path
<1>2. Len(s) <= Len(t) /\ Len(t) <= Len(u)
  BY Prefix
<1>3. \A i \in 1 .. Len(s) : i \in 1 .. Len(t) /\ s[i] = t[i] /\ t[i] = u[i]
  BY <1>1, <1>2, Prefix
<1> QED
  BY <1>1, <1>2, <1>3, Prefix

(* The tree of a service, and the files below a node of it. *)
Nodes == UNION {PathTo(f) : f \in AllFiles}
Leaves(n) == {f \in AllFiles : IsPrefix(n, f)}

LEMMA NodeIs ==
  ASSUME NEW n
  PROVE  n \in Nodes <=> n \in Path /\ Len(n) > 0 /\ \E f \in AllFiles : IsPrefix(n, f)
<1>0. AllFiles \subseteq Path
  BY DisplayAssumption DEF Path
<1>1. ASSUME n \in Nodes PROVE n \in Path /\ Len(n) > 0 /\ \E f \in AllFiles : IsPrefix(n, f)
  <2>1. PICK f \in AllFiles : \E k \in 1 .. Len(f) : n = SubSeq(f, 1, k)
    BY <1>1 DEF Nodes, PathTo
  <2>2. PICK k \in 1 .. Len(f) : n = SubSeq(f, 1, k)
    BY <2>1
  <2>3. f \in Path /\ k \in 0 .. Len(f) /\ k > 0
    BY <1>0, LenProperties DEF Path
  <2> QED
    BY <2>2, <2>3, CutOff
<1>2. ASSUME n \in Path, Len(n) > 0, NEW f \in AllFiles, IsPrefix(n, f) PROVE n \in Nodes
  <2>1. f \in Path /\ Len(n) \in Nat /\ Len(n) <= Len(f) /\ Len(f) \in Nat
    BY <1>0, <1>2, Prefix, LenProperties DEF Path
  <2>2. n = SubSeq(f, 1, Len(n))
    BY <1>2, SubSeqFull DEF IsPrefix, Path
  <2>3. Len(n) \in 1 .. Len(f)
    BY <1>2, <2>1
  <2>4. n \in PathTo(f)
    <3> DEFINE k == Len(n)
    <3>1. k \in 1 .. Len(f) /\ n = SubSeq(f, 1, k)
      BY <2>2, <2>3
    <3> HIDE DEF k
    <3> QED
      BY <3>1 DEF PathTo
  <2> QED
    BY <2>4 DEF Nodes
<1> QED
  BY <1>1, <1>2

LEMMA FileIsNode ==
  ASSUME NEW f \in AllFiles
  PROVE  f \in Nodes /\ Leaves(f) = {f}
<1>1. f \in Path /\ f # <<>>
  BY DisplayAssumption DEF Path
<1>2. Len(f) \in Nat /\ Len(f) > 0
  <2>1. Len(f) \in Nat \ {0}
    BY <1>1, EmptySeq DEF Path
  <2> QED
    BY <2>1
<1>3. IsPrefix(f, f)
  BY <1>1, <1>2, Prefix
<1>4. \A g \in AllFiles : IsPrefix(f, g) => f = g
  BY DisplayAssumption
<1> QED
  BY <1>1, <1>2, <1>3, <1>4, NodeIs DEF Leaves

LEMMA NodesFinite == IsFiniteSet(Nodes)
<1> DEFINE paths == [f \in AllFiles |-> PathTo(f)]
           All == {PathTo(f) : f \in AllFiles}
<1>1. IsFiniteSet(All)
  <2>1. paths \in Surjection(AllFiles, All)
    BY DEF Surjection
  <2>2. IsFiniteSet(AllFiles)
    BY DisplayAssumption
  <2> HIDE DEF paths, All
  <2> QED
    BY <2>1, <2>2, FS_Surjection
<1>2. ASSUME NEW f \in AllFiles PROVE IsFiniteSet(PathTo(f))
  <2> DEFINE cut == [k \in 1 .. Len(f) |-> SubSeq(f, 1, k)]
  <2>1. cut \in Surjection(1 .. Len(f), PathTo(f))
    BY DEF Surjection, PathTo
  <2>2. PICK one \in Int : one = 1
    OBVIOUS
  <2>3. Len(f) \in Int
    <3>1. f \in Seq(STRING)
      BY DisplayAssumption
    <3> QED
      BY <3>1, LenProperties
  <2>4. IsFiniteSet(1 .. Len(f))
    BY <2>2, <2>3, FS_Interval
  <2> HIDE DEF cut
  <2> QED
    BY <2>1, <2>4, FS_Surjection
<1>3. IsFiniteSet(UNION All)
  <2>1. \A T \in All : IsFiniteSet(T)
    BY <1>2
  <2> HIDE DEF All
  <2> QED
    BY <1>1, <2>1, FS_UNION
<1> QED
  BY <1>3 DEF Nodes

(* A node hangs on its directory. *)
LEMMA HangsOn ==
  ASSUME NEW n \in Nodes, Len(n) > 1
  PROVE  Front(n) \in Nodes
<1>1. PICK f \in AllFiles : n \in Path /\ IsPrefix(n, f)
  BY NodeIs
<1>2. f \in Path /\ Len(n) \in Nat
  BY <1>1, DisplayAssumption, LenProperties DEF Path
<1>3. Front(n) \in Path /\ Len(Front(n)) > 0 /\ IsPrefix(Front(n), n)
  <2>1. Len(n) - 1 \in 0 .. Len(n) /\ Len(n) - 1 > 0
    BY <1>2
  <2> QED
    BY <1>1, <2>1, CutOff DEF Front
<1> QED
  BY <1>1, <1>2, <1>3, PrefixOfPrefix, NodeIs

(* The files below a directory are those below its children, and each is   *)
(* below one of them.                                                      *)
LEMMA Split ==
  ASSUME NEW n \in Nodes, n \notin AllFiles
  PROVE  /\ Leaves(n) = UNION {Leaves(m) : m \in Children(n, Nodes)}
         /\ \A a, b \in Children(n, Nodes) : a # b => Leaves(a) \cap Leaves(b) = {}
<1>0. n \in Path /\ AllFiles \subseteq Path /\ Nodes \subseteq Path /\ Len(n) \in Nat
  BY NodeIs, DisplayAssumption, LenProperties DEF Path
<1>1. ASSUME NEW f \in Leaves(n) PROVE \E m \in Children(n, Nodes) : f \in Leaves(m)
  <2>1. f \in Path /\ f \in AllFiles /\ IsPrefix(n, f) /\ n # f
    BY <1>0 DEF Leaves
  <2>2. Len(f) \in Nat /\ Len(n) <= Len(f) /\ \A i \in 1 .. Len(n) : n[i] = f[i]
    BY <1>0, <2>1, Prefix, LenProperties DEF Path
  <2>3. Len(n) < Len(f)
    <3>1. ASSUME Len(n) = Len(f) PROVE FALSE
      BY <1>0, <2>1, <2>2, <3>1, SeqEqual DEF Path
    <3> QED
      BY <1>0, <2>2, <3>1
  <2> DEFINE m == SubSeq(f, 1, Len(n) + 1)
  <2>4. Len(n) + 1 \in 0 .. Len(f)
    BY <1>0, <2>2, <2>3
  <2>5. m \in Path /\ Len(m) = Len(n) + 1 /\ IsPrefix(m, f)
    BY <2>1, <2>4, CutOff
  <2> HIDE DEF m
  <2>6. IsPrefix(n, m)
    BY <1>0, <2>1, <2>5, SamePath
  <2>7. m \in Nodes
    BY <1>0, <2>1, <2>5, NodeIs
  <2> QED
    BY <2>1, <2>5, <2>6, <2>7 DEF Children, Leaves
<1>2. ASSUME NEW m \in Children(n, Nodes), NEW f \in Leaves(m) PROVE f \in Leaves(n)
  <2>1. m \in Path /\ IsPrefix(n, m) /\ f \in AllFiles /\ f \in Path /\ IsPrefix(m, f)
    BY <1>0 DEF Children, Leaves
  <2>2. IsPrefix(n, f)
    BY <1>0, <2>1, PrefixOfPrefix
  <2> QED
    BY <2>1, <2>2 DEF Leaves
<1>3. ASSUME NEW a \in Children(n, Nodes), NEW b \in Children(n, Nodes),
             NEW f \in Leaves(a) \cap Leaves(b)
      PROVE  a = b
  <2>1. /\ a \in Path /\ b \in Path /\ Len(a) = Len(b) /\ Len(a) = Len(n) + 1
        /\ f \in Path /\ IsPrefix(a, f) /\ IsPrefix(b, f)
    BY <1>0 DEF Children, Leaves
  <2>2. Len(a) <= Len(b)
    BY <1>0, <2>1
  <2> QED
    BY <2>1, <2>2, SamePath
<1>4. \A f : f \in Leaves(n) <=> f \in UNION {Leaves(m) : m \in Children(n, Nodes)}
  BY <1>1, <1>2
<1> QED
  BY <1>3, <1>4

-----------------------------------------------------------------------------
(* The recursion over the tree has one solution, and it is the exact one.  *)

Complete(cov) ==
  /\ DOMAIN cov = AllFiles
  /\ \A f \in AllFiles : cov[f].executed \in Nat /\ cov[f].total = Size[f]

ExecutedOf(cov) == [f \in DOMAIN cov |-> cov[f].executed]
TotalOf(cov)    == [f \in DOMAIN cov |-> cov[f].total]

ExactTotals(cov) ==
  [n \in Nodes |-> [executed |-> SumOf(ExecutedOf(cov), Leaves(n)),
                    total    |-> SumOf(TotalOf(cov), Leaves(n))]]

LEMMA SumUpIs ==
  ASSUME NEW w, NEW S
  PROVE  SumUp(w, S) = SumOf(w, S)
BY DEF SumUp, SumOf

LEMMA LeavesFinite ==
  ASSUME NEW n
  PROVE  IsFiniteSet(Leaves(n)) /\ Leaves(n) \subseteq AllFiles
<1>1. Leaves(n) \subseteq AllFiles
  BY DEF Leaves
<1> QED
  BY <1>1, FS_Subset, DisplayAssumption

(* The sum of a directory is the sum of what its children sum up to. *)
LEMMA Directory ==
  ASSUME NEW n \in Nodes, n \notin AllFiles, NEW w, \A f \in AllFiles : w[f] \in Int,
         NEW v, \A m \in Children(n, Nodes) : v[m] = SumOf(w, Leaves(m))
  PROVE  SumUp(v, Children(n, Nodes)) = SumOf(w, Leaves(n))
<1> DEFINE C == Children(n, Nodes)
           P == [m \in C |-> Leaves(m)]
<1>1. IsFiniteSet(C)
  BY NodesFinite, FS_Subset DEF Children
<1>2. Leaves(n) = UNION {P[m] : m \in C}
  BY Split
<1>3. \A a, b \in C : a # b => P[a] \cap P[b] = {}
  BY Split
<1>4. \A m \in C : v[m] = SumOf(w, P[m]) /\ IsFiniteSet(P[m]) /\ \A f \in P[m] : w[f] \in Int
  BY LeavesFinite
<1>5. SumUp(v, C) = SumOf(v, C)
  BY SumUpIs
<1> HIDE DEF C, P
<1>6. SumOf(v, C) = SumOf(w, UNION {P[m] : m \in C})
  BY <1>1, <1>3, <1>4, SumGroups
<1> QED
  BY <1>2, <1>5, <1>6 DEF C

LEMMA ExactIsFixed ==
  ASSUME NEW cov, Complete(cov), NEW n \in Nodes
  PROVE  NodeTotals(n, cov, Nodes, ExactTotals(cov)) = ExactTotals(cov)[n]
<1> DEFINE E == ExactTotals(cov)
           C == Children(n, Nodes)
           x == ExecutedOf(cov)
           t == TotalOf(cov)
<1>1. C \subseteq Nodes
  BY DEF Children
<1>2. \A m \in Nodes : E[m].executed = SumOf(x, Leaves(m)) /\ E[m].total = SumOf(t, Leaves(m))
  BY DEF ExactTotals
<1>3. E[n] = [executed |-> SumOf(x, Leaves(n)), total |-> SumOf(t, Leaves(n))]
  BY DEF ExactTotals
<1>4. \A f \in AllFiles : x[f] = cov[f].executed /\ t[f] = cov[f].total /\ x[f] \in Int /\ t[f] \in Int
  BY DisplayAssumption DEF Complete, ExecutedOf, TotalOf
<1> HIDE DEF E, x, t
<1>5. CASE n \in AllFiles
  <2>1. SumOf(x, {n}) = x[n] /\ SumOf(t, {n}) = t[n]
    BY <1>4, <1>5, SumOne
  <2>2. NodeTotals(n, cov, Nodes, E) = [executed |-> cov[n].executed, total |-> cov[n].total]
    BY <1>5 DEF NodeTotals, Complete
  <2>3. Leaves(n) = {n}
    BY <1>5, FileIsNode
  <2> QED
    BY <1>3, <1>4, <1>5, <2>1, <2>2, <2>3 DEF E
<1>6. CASE n \notin AllFiles
  <2> DEFINE u == [m \in C |-> E[m].executed]
             v == [m \in C |-> E[m].total]
  <2>1. NodeTotals(n, cov, Nodes, E) = [executed |-> SumUp(u, C), total |-> SumUp(v, C)]
    BY <1>6 DEF NodeTotals, Complete
  <2>2. \A m \in C : u[m] = SumOf(x, Leaves(m)) /\ v[m] = SumOf(t, Leaves(m))
    BY <1>1, <1>2
  <2> HIDE DEF u, v
  <2>3. SumUp(u, C) = SumOf(x, Leaves(n)) /\ SumUp(v, C) = SumOf(t, Leaves(n))
    BY <1>4, <1>6, <2>2, Directory
  <2> QED
    BY <1>3, <2>1, <2>3 DEF E
<1> QED
  BY <1>5, <1>6

LEMMA Longest ==
  ASSUME NEW S, IsFiniteSet(S), S # {}, \A s \in S : Len(s) \in Nat
  PROVE  \E s \in S : \A t \in S : Len(t) <= Len(s)
<1> DEFINE G == {T \in SUBSET S : T # {} => \E s \in T : \A t \in T : Len(t) <= Len(s)}
<1>1. {} \in G
  OBVIOUS
<1>2. ASSUME NEW T \in SUBSET S, NEW x \in S \ T, T \in G
      PROVE  T \cup {x} \in G
  <2>1. CASE T = {}
    BY <2>1
  <2>2. CASE T # {}
    <3>1. PICK s \in T : \A t \in T : Len(t) <= Len(s)
      BY <1>2, <2>2
    <3>2. CASE Len(x) <= Len(s)
      BY <3>1, <3>2
    <3>3. CASE Len(s) <= Len(x)
      <4>1. \A t \in T \cup {x} : Len(t) <= Len(x)
        BY <3>1, <3>3
      <4> QED
        BY <4>1
    <3>4. Len(x) <= Len(s) \/ Len(s) <= Len(x)
      <4>1. Len(x) \in Nat /\ Len(s) \in Nat
        OBVIOUS
      <4> QED
        BY <4>1
    <3> HIDE DEF G
    <3> QED
      BY <3>2, <3>3, <3>4
  <2> QED
    BY <2>1, <2>2
<1> HIDE DEF G
<1>3. S \in G
  BY <1>1, <1>2, SubsetInduction
<1> QED
  BY <1>3 DEF G

LEMMA OneSolution ==
  ASSUME NEW cov, Complete(cov),
         NEW g, g = [n \in Nodes |-> NodeTotals(n, cov, Nodes, g)],
         NEW h, h = [n \in Nodes |-> NodeTotals(n, cov, Nodes, h)]
  PROVE  g = h
<1> DEFINE D == {n \in Nodes : g[n] # h[n]}
<1>1. SUFFICES ASSUME D # {} PROVE FALSE
  <2>1. g = [n \in Nodes |-> g[n]] /\ h = [n \in Nodes |-> h[n]]
    OBVIOUS
  <2> QED
    BY <1>1, <2>1
<1>2. PICK n \in D : \A m \in D : Len(m) <= Len(n)
  <2>1. IsFiniteSet(D)
    BY NodesFinite, FS_Subset
  <2>2. \A m \in D : Len(m) \in Nat
    BY NodeIs, LenProperties DEF Path
  <2> HIDE DEF D
  <2> QED
    BY <1>1, <2>1, <2>2, Longest
<1> DEFINE C == Children(n, Nodes)
<1>3. \A m \in C : g[m] = h[m]
  <2>1. \A m \in C : m \in Nodes /\ Len(m) = Len(n) + 1
    BY DEF Children
  <2>2. Len(n) \in Nat
    BY NodeIs, LenProperties DEF Path
  <2>3. \A m \in C : ~(Len(m) <= Len(n))
    BY <2>1, <2>2
  <2> QED
    BY <1>2, <2>1, <2>3
<1>4. /\ [m \in C |-> g[m].executed] = [m \in C |-> h[m].executed]
      /\ [m \in C |-> g[m].total] = [m \in C |-> h[m].total]
  BY <1>3
<1>5. NodeTotals(n, cov, Nodes, g) = NodeTotals(n, cov, Nodes, h)
  BY <1>4, Zenon DEF NodeTotals
<1>6. n \in Nodes /\ g[n] = NodeTotals(n, cov, Nodes, g) /\ h[n] = NodeTotals(n, cov, Nodes, h)
  OBVIOUS
<1> QED
  BY <1>2, <1>5, <1>6

(* What update_totals computes. *)
LEMMA TotalsAreExact ==
  ASSUME NEW cov, Complete(cov)
  PROVE  Totals(cov, Nodes) = ExactTotals(cov)
<1> DEFINE Fixed(g) == g = [n \in Nodes |-> NodeTotals(n, cov, Nodes, g)]
           E == ExactTotals(cov)
<1>1. Totals(cov, Nodes) = CHOOSE g : Fixed(g)
  BY DEF Totals
<1>2. Fixed(E)
  <2>1. E = [n \in Nodes |-> E[n]]
    BY DEF ExactTotals
  <2>2. \A n \in Nodes : E[n] = NodeTotals(n, cov, Nodes, E)
    BY ExactIsFixed
  <2> HIDE DEF E
  <2> QED
    BY <2>1, <2>2
<1>3. \A g : Fixed(g) => g = E
  <2> HIDE DEF E
  <2> QED
    BY <1>2, OneSolution
<1> HIDE DEF E, Fixed
<1> QED
  BY <1>1, <1>2, <1>3 DEF E

-----------------------------------------------------------------------------
(* Once coverage has arrived the tree is that of the service, its counts   *)
(* are the exact ones and its bars show them.  The totals never change, as *)
(* a file has the lines it has: a bar that is drawn anew only when the     *)
(* executed lines change is not left behind.                               *)
Drawn ==
  /\ Complete(coverage)
  /\ node = [n \in Nodes |->
               LET exact == ExactTotals(coverage)[n] IN
               [executed |-> exact.executed, total |-> exact.total,
                bar      |-> <<exact.executed, exact.total>>]]

TreeInv == DOMAIN node = {} \/ Drawn

LEMMA ExactIs ==
  ASSUME Complete(coverage), NEW n \in Nodes
  PROVE  Exact(n) = <<ExactTotals(coverage)[n].executed, ExactTotals(coverage)[n].total>>
<1>1. Below(n) = Leaves(n)
  BY DEF Below, Leaves, Complete
<1>2. /\ ExactTotals(coverage)[n].executed = SumOf(ExecutedOf(coverage), Leaves(n))
      /\ ExactTotals(coverage)[n].total = SumOf(TotalOf(coverage), Leaves(n))
  BY DEF ExactTotals
<1>3. Exact(n) = <<SumUp(ExecutedOf(coverage), Below(n)), SumUp(TotalOf(coverage), Below(n))>>
  BY DEF Exact, ExecutedOf, TotalOf
<1> QED
  BY <1>1, <1>2, <1>3, SumUpIs

LEMMA SameTotals ==
  ASSUME NEW c, Complete(c), NEW d, Complete(d), NEW n \in Nodes
  PROVE  ExactTotals(c)[n].total = ExactTotals(d)[n].total
<1>1. TotalOf(c) = TotalOf(d)
  BY DEF Complete, TotalOf
<1> QED
  BY <1>1 DEF ExactTotals

LEMMA SentIsComplete ==
  ASSUME SameService, NEW s \in Sids, NEW c \in Counts(s)
  PROVE  Complete(coveragetogcov(c))
<1> DEFINE cov == coveragetogcov(c)
<1>1. DOMAIN c = FilesOf[s] /\ FilesOf[s] = AllFiles
  BY DEF Counts, AllFiles, SameService
<1>2. DOMAIN cov = AllFiles
  BY <1>1 DEF coveragetogcov
<1>3. ASSUME NEW f \in AllFiles PROVE cov[f].executed \in Nat /\ cov[f].total = Size[f]
  <2>1. /\ cov[f].lines = c[f] /\ cov[f].total = Len(c[f])
        /\ cov[f].executed = Cardinality({l \in DOMAIN c[f] : c[f][l] > 0})
    BY <1>1 DEF coveragetogcov
  <2>2. Len(c[f]) = Size[f]
    <3>1. Len(cov[f].lines) = Size[f]
      BY <1>2, Sent
    <3> QED
      BY <2>1, <3>1
  <2>3. IsFiniteSet(DOMAIN c[f])
    <3>1. DOMAIN c[f] = 1 .. Size[f]
      BY <1>1 DEF Counts
    <3>2. PICK one \in Int : one = 1
      OBVIOUS
    <3>3. Size[f] \in Int
      BY DisplayAssumption
    <3> QED
      BY <3>1, <3>2, <3>3, FS_Interval
  <2>4. Cardinality({l \in DOMAIN c[f] : c[f][l] > 0}) \in Nat
    BY <2>3, FS_Subset, FS_CardinalityType
  <2> QED
    BY <2>1, <2>2, <2>4
<1> QED
  BY <1>2, <1>3 DEF Complete

LEMMA NextTree ==
  ASSUME SameService, SourceInv, TreeInv, [DisplayNext]_displayvars
  PROVE  TreeInv'
<1>1. CASE UNCHANGED <<node, coverage>>
  BY <1>1 DEF TreeInv, Drawn
<1>2. CASE CoverageArrives
  <2>1. PICK c \in Counts(currentSession) : UpdateTree(coveragetogcov(c)) /\ coverage' = coveragetogcov(c)
    BY <1>2 DEF CoverageArrives
  <2> DEFINE cov == coveragetogcov(c)
             E == ExactTotals(cov)
  <2>2. currentSession \in Sids
    BY <1>2 DEF CoverageArrives, SourceInv, SourceType
  <2>3. Complete(cov)
    BY <2>2, SentIsComplete
  <2>4. Tree(DOMAIN cov) = Nodes
    BY <2>3 DEF Tree, Nodes, Complete, TreeInv, Drawn
  <2>5. Totals(cov, Nodes) = E
    BY <2>3, TotalsAreExact
  <2> HIDE DEF cov
  <2>6. node' = [n \in Nodes |-> [executed |-> E[n].executed, total |-> E[n].total, bar |-> Bar(n, E[n])]]
    <3>1. node' = [n \in Tree(DOMAIN cov) |->
                     [executed |-> Totals(cov, Tree(DOMAIN cov))[n].executed,
                      total    |-> Totals(cov, Tree(DOMAIN cov))[n].total,
                      bar      |-> Bar(n, Totals(cov, Tree(DOMAIN cov))[n])]]
      BY <2>1 DEF UpdateTree, cov
    <3> QED
      BY <2>4, <2>5, <3>1
  <2>7. ASSUME NEW n \in Nodes PROVE Bar(n, E[n]) = <<E[n].executed, E[n].total>>
    <3>1. CASE n \in AllFiles \/ n \notin DOMAIN node \/ node[n].executed # E[n].executed
      BY <3>1 DEF Bar
    <3>2. CASE n \notin AllFiles /\ n \in DOMAIN node /\ node[n].executed = E[n].executed
      <4>1. Drawn
        BY <3>2 DEF TreeInv
      <4>2. /\ node[n].bar = <<ExactTotals(coverage)[n].executed, ExactTotals(coverage)[n].total>>
            /\ node[n].executed = ExactTotals(coverage)[n].executed
        BY <3>2, <4>1 DEF Drawn
      <4>3. ExactTotals(coverage)[n].total = E[n].total
        BY <2>3, <4>1, SameTotals DEF Drawn
      <4>4. Bar(n, E[n]) = node[n].bar
        BY <3>2 DEF Bar
      <4> QED
        BY <3>2, <4>2, <4>3, <4>4
    <3> QED
      BY <3>1, <3>2
  <2>8. coverage' = cov
    BY <2>1 DEF cov
  <2>9. node' = [n \in Nodes |-> [executed |-> E[n].executed, total |-> E[n].total,
                                  bar |-> <<E[n].executed, E[n].total>>]]
    BY <2>6, <2>7
  <2> QED
    BY <2>3, <2>8, <2>9 DEF TreeInv, Drawn
<1>3. ASSUME NEW s \in Sids, joinSession(s) PROVE UNCHANGED <<node, coverage>>
  BY <1>3 DEF joinSession, source
<1>4. ASSUME NEW f \in AllFiles, Click(f) \/ Success(f) \/ Error(f)
      PROVE  UNCHANGED <<node, coverage>>
  <2>1. CASE Click(f)
    BY <2>1 DEF Click, tree
  <2>2. CASE Success(f)
    BY <2>2 DEF Success, Received, tree
  <2>3. CASE Error(f)
    BY <2>3 DEF Error, tree
  <2> QED
    BY <1>4, <2>1, <2>2, <2>3
<1>5. CASE UNCHANGED displayvars
  BY <1>1, <1>5 DEF displayvars, tree, source
<1> QED
  BY <1>1, <1>2, <1>3, <1>4, <1>5 DEF DisplayNext

(* When the sessions are of one service each bar of the tree is exact: of  *)
(* a directory, the sum over all the files below it, however deep; and     *)
(* each hangs on its directory.                                            *)
THEOREM BarsShown ==
  ASSUME SameService
  PROVE  DisplaySpec => []BarsExact
<1>1. DisplayInit => SourceInv /\ TreeInv
  BY DEF DisplayInit, SourceInv, SourceType, CountsInv, Lined, TreeInv, Nothing
<1>2. SourceInv /\ TreeInv /\ [DisplayNext]_displayvars => SourceInv' /\ TreeInv'
  BY NextSource, NextTree
<1>3. TreeInv => BarsExact
  <2>1. ASSUME Drawn, NEW n \in Nodes
        PROVE  node[n].bar = Exact(n) /\ (Len(n) > 1 => Front(n) \in Nodes)
    BY <2>1, HangsOn, ExactIs DEF Drawn
  <2> QED
    BY <2>1 DEF TreeInv, BarsExact, Drawn
<1> QED
  BY <1>1, <1>2, <1>3, PTL DEF DisplaySpec
=============================================================================
