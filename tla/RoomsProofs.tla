----------------------------- MODULE RoomsProofs -----------------------------
(***************************************************************************)
(* Proofs about Rooms, for any pages, sessions and threads and without     *)
(* regard to the bounds.                                                   *)
(***************************************************************************)
EXTENDS Rooms, SequenceTheorems, TLAPS

Shown == [coverage : Snapshots, events : Snapshots]
Posts == [kind : {"coverage", "events"}, sid : Sids, value : Values]

(* The parts of a step that the proofs name. *)
PageStep(b)    == Deliver(b) \/ Reconnect(b) \/ \E s \in Sids : Click(b, s)
Serves(r)      == OnJoin(r) \/ OnLeave(r)
SessionStep(s) == SessionStop(s) \/ Covers(s) \/ Tick(s) \/ NotifyChange(s)
ThreadStep(t)  == SessionEvent(t) \/ EmitEvent(t) \/ \E s \in Sids : LogEvent(t, s)

LEMMA NextCases ==
  ASSUME Next
  PROVE  \/ \E b \in Browsers : PageStep(b)
         \/ \E r \in requests : Serves(r)
         \/ \E s \in Sids : SessionStep(s)
         \/ \E t \in Threads : ThreadStep(t)
BY DEF Next, PageStep, Serves, SessionStep, ThreadStep

-----------------------------------------------------------------------------
(* Type correctness *)

Typed ==
  /\ bound \in Bounds
  /\ sessions \subseteq Sids
  /\ coverage \in [Sids -> Nat]
  /\ events \in [Sids -> Nat]
  /\ members \in [Sids -> SUBSET Browsers]
  /\ requests \subseteq Requests
  /\ notifier \in [Sids -> [pc : {"sleep", "emit"}, value : Values]]
  /\ thread \in [Threads -> [sid : Sids \cup {None}, pc : {"idle", "fire", "emit"}, value : Nat]]
  /\ inbox \in [Browsers -> Seq(Posts)]
  /\ current \in [Browsers -> Sids \cup {None}]
  /\ shown \in [Browsers -> Shown]
  /\ clicks \in [Browsers -> Nat]
  /\ drops \in [Browsers -> Nat]
  /\ overlap \subseteq Sids
  /\ crossed \subseteq Browsers \X (Sids \cup {None})
  /\ mixed \subseteq Browsers
  /\ \A t \in Threads : thread[t].pc # "idle" => thread[t].sid \in Sids
  /\ \A r \in requests : drops[r.page] = 0 => r.conn = 0

Pcs == {"check", "enter", "exit", "read_events", "emit_events", "read_coverage", "emit_coverage"}

LEMMA InitTyped == Init => Typed
BY RoomsAssumption DEF Init, Typed, Values, Posts, Shown, Snapshots, Nothing, Idle

(* What a request becomes is a request. *)
LEMMA RequestTyped ==
  ASSUME NEW r \in Requests, NEW pc \in Pcs, NEW v \in Values
  PROVE  /\ [r EXCEPT !.pc = pc] \in Requests /\ [r EXCEPT !.pc = pc, !.value = v] \in Requests
         /\ [r EXCEPT !.pc = pc].conn = r.conn /\ [r EXCEPT !.pc = pc, !.value = v].conn = r.conn
         /\ [r EXCEPT !.pc = pc].page = r.page /\ [r EXCEPT !.pc = pc, !.value = v].page = r.page
         /\ [r EXCEPT !.pc = pc].sid = r.sid /\ [r EXCEPT !.pc = pc, !.value = v].sid = r.sid
         /\ [r EXCEPT !.pc = pc].op = r.op /\ [r EXCEPT !.pc = pc, !.value = v].op = r.op
         /\ [r EXCEPT !.pc = pc].pc = pc /\ [r EXCEPT !.pc = pc, !.value = v].pc = pc
         /\ [r EXCEPT !.pc = pc].value = r.value /\ [r EXCEPT !.pc = pc, !.value = v].value = v
BY DEF Requests, Pcs

LEMMA EmitTyped ==
  ASSUME inbox \in [Browsers -> Seq(Posts)], members \in [Sids -> SUBSET Browsers],
         mixed \subseteq Browsers, NEW kind \in {"coverage", "events"}, NEW s \in Sids,
         NEW v \in Values, Emit(kind, s, v)
  PROVE  inbox' \in [Browsers -> Seq(Posts)] /\ mixed' \subseteq Browsers
<1>1. Message(kind, s, v) \in Posts
  BY DEF Message, Posts
<1> QED
  BY <1>1 DEF Emit

LEMMA PageTyped ==
  ASSUME Typed, NEW b \in Browsers, PageStep(b)
  PROVE  Typed'
<1> USE RoomsAssumption DEF Typed, rooms, threads, page, counted, history
<1>1. CASE Deliver(b)
  <2>1. inbox[b] \in Seq(Posts) /\ inbox[b] # <<>>
    BY <1>1 DEF Deliver
  <2>2. Head(inbox[b]) \in Posts /\ Tail(inbox[b]) \in Seq(Posts)
    BY <2>1
  <2>3. inbox' \in [Browsers -> Seq(Posts)]
    BY <1>1, <2>2 DEF Deliver
  <2> DEFINE m == Head(inbox[b])
             v == [sid |-> m.sid, value |-> m.value]
  <2>4. shown' \in [Browsers -> Shown]
    <3>1. v \in Snapshots /\ m.kind \in {"coverage", "events"}
      BY <2>2 DEF Posts, Snapshots
    <3>2. [shown[b] EXCEPT !.coverage = v] \in Shown /\ [shown[b] EXCEPT !.events = v] \in Shown
      BY <3>1 DEF Shown
    <3>3. shown' = shown \/ shown' = [shown EXCEPT ![b] = [@ EXCEPT ![m.kind] = v]]
      BY <1>1 DEF Deliver
    <3> HIDE DEF v
    <3>4. CASE m.kind = "coverage"
      <4>1. shown' = shown \/ shown' = [shown EXCEPT ![b] = [@ EXCEPT !.coverage = v]]
        BY <3>3, <3>4
      <4> QED
        BY <3>2, <4>1
    <3>5. CASE m.kind = "events"
      <4>1. shown' = shown \/ shown' = [shown EXCEPT ![b] = [@ EXCEPT !.events = v]]
        BY <3>3, <3>5
      <4> QED
        BY <3>2, <4>1
    <3> QED
      BY <3>1, <3>4, <3>5
  <2> QED
    BY <1>1, <2>3, <2>4 DEF Deliver
<1>2. CASE Reconnect(b)
  <2>1. requests' \subseteq requests /\ drops' = [drops EXCEPT ![b] = @ + 1]
    BY <1>2 DEF Reconnect
  <2>2. drops' \in [Browsers -> Nat] /\ \A a \in Browsers : drops'[a] = 0 => drops[a] = 0
    BY <2>1
  <2>3. \A r \in requests' : r.page \in Browsers /\ (drops'[r.page] = 0 => r.conn = 0)
    BY <2>1, <2>2 DEF Requests
  <2>4. UNCHANGED <<sessions, coverage, events, notifier, thread, current, shown, clicks, bound,
                    overlap, crossed, mixed>>
    BY <1>2 DEF Reconnect
  <2>5. members' \in [Sids -> SUBSET Browsers] /\ inbox' \in [Browsers -> Seq(Posts)]
    BY <1>2 DEF Reconnect
  <2> QED
    BY <2>1, <2>2, <2>3, <2>4, <2>5
<1>3. ASSUME NEW s \in Sids, Click(b, s)
      PROVE  Typed'
  <2>1. \A r \in Sent(b, s) : r \in Requests /\ r.page = b /\ r.conn = drops[b]
    BY DEF Sent, Request, Requests, Values
  <2>2. requests' \subseteq Requests /\ \A r \in requests' : drops[r.page] = 0 => r.conn = 0
    BY <1>3, <2>1 DEF Click
  <2>3. shown' \in [Browsers -> Shown]
    <3>1. Nothing \in Snapshots
      BY DEF Nothing, Values, Snapshots
    <3>2. [shown[b] EXCEPT !.events = Nothing] \in Shown
      BY <3>1 DEF Shown
    <3>3. shown' = [shown EXCEPT ![b] = [@ EXCEPT !.events = Nothing]]
      BY <1>3 DEF Click
    <3> QED
      BY <3>2, <3>3
  <2>4. current' \in [Browsers -> Sids \cup {None}] /\ clicks' \in [Browsers -> Nat]
    BY <1>3 DEF Click
  <2>5. crossed' \subseteq Browsers \X (Sids \cup {None}) /\ mixed' \subseteq Browsers
    BY <1>3 DEF Click
  <2> QED
    BY <1>3, <2>2, <2>3, <2>4, <2>5 DEF Click
<1> QED
  BY <1>1, <1>2, <1>3 DEF PageStep

(* What the step of a request leaves of the requests. *)
LEMMA RequestsTyped ==
  ASSUME Typed, NEW r \in requests, drops' = drops,
         \/ Done(r)
         \/ \E pc \in Pcs : Goto(r, pc)
         \/ \E pc \in Pcs, v \in Values : Got(r, pc, v)
  PROVE  requests' \subseteq Requests /\ \A q \in requests' : drops'[q.page] = 0 => q.conn = 0
<1>1. r \in Requests /\ requests \subseteq Requests
  BY DEF Typed
<1>2. ASSUME NEW q \in Requests, q.conn = r.conn, q.page = r.page, Becomes(r, q)
      PROVE  requests' \subseteq Requests /\ \A x \in requests' : drops'[x.page] = 0 => x.conn = 0
  BY <1>1, <1>2 DEF Typed, Becomes
<1>3. CASE Done(r)
  BY <1>1, <1>3 DEF Typed, Done
<1>4. ASSUME NEW pc \in Pcs, Goto(r, pc)
      PROVE  requests' \subseteq Requests /\ \A x \in requests' : drops'[x.page] = 0 => x.conn = 0
  <2>1. None \in Values
    BY DEF Values
  <2> QED
    BY <1>1, <1>2, <1>4, <2>1, RequestTyped DEF Goto
<1>5. ASSUME NEW pc \in Pcs, NEW v \in Values, Got(r, pc, v)
      PROVE  requests' \subseteq Requests /\ \A x \in requests' : drops'[x.page] = 0 => x.conn = 0
  <2> DEFINE q == [r EXCEPT !.pc = pc, !.value = v]
  <2>1. q \in Requests /\ q.conn = r.conn /\ q.page = r.page
    BY <1>1 DEF Requests, Pcs
  <2>2. Becomes(r, q)
    BY <1>5 DEF Got
  <2> HIDE DEF q
  <2> QED
    BY <1>2, <2>1, <2>2
<1> QED
  BY <1>3, <1>4, <1>5

LEMMA ServedTyped ==
  ASSUME Typed, NEW r \in requests, Serves(r)
  PROVE  Typed'
<1>1. r.sid \in Sids /\ r.page \in Browsers /\ r.value \in Values
  BY DEF Typed, Requests
<1>2. Nat \subseteq Values /\ None \in Values
  BY DEF Values
<1> USE DEF rooms, threads, page, counted, history
<1>3. /\ UNCHANGED <<sessions, coverage, events, notifier, thread, current, shown, clicks, drops,
                     bound, crossed>>
  BY DEF Serves, OnJoin, OnLeave, JoinCheck, JoinRoom, JoinReadEvents, JoinEmitEvents,
         JoinReadCoverage, JoinEmitCoverage, LeaveCheck, LeaveRoom
<1>4. /\ members' \in [Sids -> SUBSET Browsers] /\ overlap' \subseteq Sids
      /\ inbox' \in [Browsers -> Seq(Posts)] /\ mixed' \subseteq Browsers
  <2>1. members \in [Sids -> SUBSET Browsers] /\ overlap \subseteq Sids
        /\ inbox \in [Browsers -> Seq(Posts)] /\ mixed \subseteq Browsers
    BY DEF Typed
  <2>2. CASE JoinEmitEvents(r)
    BY <1>1, <2>1, <2>2, EmitTyped DEF JoinEmitEvents
  <2>3. CASE JoinEmitCoverage(r)
    BY <1>1, <2>1, <2>3, EmitTyped DEF JoinEmitCoverage
  <2>4. CASE JoinReadEvents(r)
    BY <1>1, <2>1, <2>4 DEF JoinReadEvents, ReadsEvents
  <2>5. CASE JoinCheck(r) \/ JoinReadCoverage(r) \/ LeaveCheck(r)
    BY <2>1, <2>5 DEF JoinCheck, JoinReadCoverage, LeaveCheck
  <2>6. CASE JoinRoom(r)
    BY <1>1, <2>1, <2>6 DEF JoinRoom
  <2>7. CASE LeaveRoom(r)
    BY <1>1, <2>1, <2>7 DEF LeaveRoom
  <2> QED
    BY <2>2, <2>3, <2>4, <2>5, <2>6, <2>7 DEF Serves, OnJoin, OnLeave
<1>5. \/ Done(r)
      \/ \E pc \in Pcs : Goto(r, pc)
      \/ \E pc \in Pcs, v \in Values : Got(r, pc, v)
  <2> USE DEF Pcs
  <2>1. events[r.sid] \in Values /\ Dumps(r.sid) \subseteq Values /\ 0 \in Values
    BY <1>1, <1>2 DEF Typed, Dumps
  <2>2. CASE JoinReadEvents(r)
    BY <2>1, <2>2 DEF JoinReadEvents
  <2>3. CASE JoinReadCoverage(r)
    BY <2>1, <2>3 DEF JoinReadCoverage
  <2>4. CASE JoinEmitEvents(r)
    BY <2>1, <2>4 DEF JoinEmitEvents
  <2> QED
    BY <2>2, <2>3, <2>4 DEF Serves, OnJoin, OnLeave, JoinCheck, JoinRoom, JoinEmitCoverage, LeaveCheck,
         LeaveRoom
<1>6. requests' \subseteq Requests /\ \A q \in requests' : drops'[q.page] = 0 => q.conn = 0
  BY <1>3, <1>5, RequestsTyped
<1> QED
  BY <1>3, <1>4, <1>6 DEF Typed

LEMMA SessionTyped ==
  ASSUME Typed, NEW s \in Sids, SessionStep(s)
  PROVE  Typed'
<1> USE RoomsAssumption DEF Typed, rooms, threads, page, counted, history
<1>1. CASE SessionStop(s)
  BY <1>1 DEF SessionStop
<1>2. CASE Covers(s)
  <2>1. coverage' \in [Sids -> Nat]
    BY <1>2 DEF Covers
  <2> QED
    BY <1>2, <2>1 DEF Covers
<1>3. CASE Tick(s)
  <2>1. Dumps(s) \subseteq Values
    BY DEF Dumps, Values
  <2>2. PICK v \in Dumps(s) : notifier' = [notifier EXCEPT ![s] = [pc |-> "emit", value |-> v]]
    BY <1>3 DEF Tick
  <2>3. notifier' \in [Sids -> [pc : {"sleep", "emit"}, value : Values]]
    BY <2>1, <2>2
  <2> QED
    BY <1>3, <2>3 DEF Tick
<1>4. CASE NotifyChange(s)
  <2>1. inbox' \in [Browsers -> Seq(Posts)] /\ mixed' \subseteq Browsers
    BY <1>4, EmitTyped DEF NotifyChange
  <2>2. notifier' \in [Sids -> [pc : {"sleep", "emit"}, value : Values]]
    <3>1. notifier[s] \in [pc : {"sleep", "emit"}, value : Values]
      OBVIOUS
    <3>2. [notifier[s] EXCEPT !.pc = "sleep"] \in [pc : {"sleep", "emit"}, value : Values]
      BY <3>1
    <3>3. notifier' = [notifier EXCEPT ![s] = [@ EXCEPT !.pc = "sleep"]]
      BY <1>4 DEF NotifyChange
    <3> QED
      BY <3>2, <3>3
  <2> QED
    BY <1>4, <2>1, <2>2 DEF NotifyChange
<1> QED
  BY <1>1, <1>2, <1>3, <1>4 DEF SessionStep

LEMMA ThreadTyped ==
  ASSUME Typed, NEW t \in Threads, ThreadStep(t)
  PROVE  Typed'
<1> USE RoomsAssumption DEF Typed, rooms, threads, page, counted, history
<1>1. CASE SessionEvent(t)
  <2> DEFINE Announced == [sid : Sids \cup {None}, pc : {"idle", "fire", "emit"}, value : Nat]
  <2>1. thread[t] \in Announced /\ thread[t].sid \in Sids
    BY <1>1 DEF SessionEvent
  <2>2. events[thread[t].sid] \in Nat
    BY <2>1
  <2>3. [thread[t] EXCEPT !.pc = "emit", !.value = events[thread[t].sid]] \in Announced
    BY <2>1, <2>2
  <2>4. /\ thread' \in [Threads -> Announced]
        /\ \A u \in Threads : thread'[u].sid = thread[u].sid /\ (u # t => thread'[u] = thread[u])
    BY <1>1, <2>1, <2>3 DEF SessionEvent
  <2>5. overlap' \subseteq Sids
    BY <1>1, <2>1 DEF SessionEvent, ReadsEvents
  <2>6. \A u \in Threads : thread'[u].pc # "idle" => thread'[u].sid \in Sids
    BY <2>1, <2>4
  <2> QED
    BY <1>1, <2>4, <2>5, <2>6 DEF SessionEvent
<1>2. CASE EmitEvent(t)
  <2>0. thread[t].sid \in Sids /\ thread[t].value \in Values
    BY <1>2 DEF EmitEvent, Values
  <2>1. inbox' \in [Browsers -> Seq(Posts)] /\ mixed' \subseteq Browsers
    BY <1>2, <2>0, EmitTyped DEF EmitEvent
  <2> QED
    BY <1>2, <2>1 DEF EmitEvent, Idle
<1>3. ASSUME NEW s \in Sids, LogEvent(t, s)
      PROVE  Typed'
  BY <1>3 DEF LogEvent
<1> QED
  BY <1>1, <1>2, <1>3 DEF ThreadStep

LEMMA StepTyped == Typed /\ [Next]_vars => Typed'
<1> SUFFICES ASSUME Typed, [Next]_vars
             PROVE  Typed'
  OBVIOUS
<1>1. CASE Next
  BY <1>1, NextCases, PageTyped, ServedTyped, SessionTyped, ThreadTyped
<1>2. CASE UNCHANGED vars
  BY <1>2 DEF Typed, vars, rooms, threads, page, counted, history
<1> QED
  BY <1>1, <1>2

(* Requests, messages and announcements keep their forms: among other      *)
(* things nothing is ever emitted for a session that was never there.      *)
THEOREM TypeCorrect == Spec => []TypeOK
<1>1. Typed /\ [Next]_vars => Typed'
  BY StepTyped
<1>2. Typed => TypeOK
  BY DEF Typed, TypeOK, Posts, Shown
<1> QED
  BY <1>1, <1>2, InitTyped, PTL DEF Spec

-----------------------------------------------------------------------------
(* Pages are in the rooms they ask for                                     *)

(* The room of s, which lives: if the last request of b for it met no      *)
(* other, at most one has still to touch the room, a join if s is the      *)
(* session of b and a leave if not; when there is none, b is in the room   *)
(* just if s is its session.                                               *)
Follows(b, s) ==
  /\ \A q, r \in requests : Pending(q, b, s) /\ Pending(r, b, s) => q = r
  /\ \A r \in requests : Pending(r, b, s) => (r.op = "join" <=> s = current[b])
  /\ (\A r \in requests : ~Pending(r, b, s)) => (b \in members[s] <=> s = current[b])

AllFollow ==
  \A b \in Browsers, s \in sessions : drops[b] = 0 /\ <<b, s>> \notin crossed => Follows(b, s)

LEMMA InitFollows == Init => AllFollow
BY RoomsAssumption DEF Init, AllFollow, Follows

(* A click: the session it leaves has a leave pending and no other request,*)
(* or is excepted; the one it joins has a join; others are as before.      *)
LEMMA ClickFollows ==
  ASSUME Typed, AllFollow, NEW b \in Browsers, NEW n \in Sids, Click(b, n)
  PROVE  AllFollow'
<1> USE DEF rooms
<1> DEFINE c == current[b]
           J == Request(b, "join", n, clicks[b], drops[b])
           L == Request(b, "leave", c, clicks[b], drops[b])
<1>1. /\ UNCHANGED <<sessions, members, drops>> /\ n # c /\ n # None
      /\ requests' = requests \cup Sent(b, n)
      /\ current'[b] = n /\ \A a \in Browsers \ {b} : current'[a] = current[a]
      /\ Sent(b, n) = {J} \cup (IF c = None THEN {} ELSE {L})
  BY RoomsAssumption DEF Click, Typed, Sent
<1>2. /\ J.page = b /\ J.sid = n /\ J.pc = "check" /\ J.op = "join"
      /\ L.page = b /\ L.sid = c /\ L.pc = "check" /\ L.op = "leave"
  BY DEF Request
<1>3. /\ \A a \in Browsers \ {b} : \A s : <<a, s>> \in crossed => <<a, s>> \in crossed'
      /\ \A s : s # n /\ s # c /\ <<b, s>> \in crossed => <<b, s>> \in crossed'
      /\ \A s : (s = n \/ s = c) /\ (\E r \in requests : Pending(r, b, s)) => <<b, s>> \in crossed'
  BY DEF Click
<1> HIDE DEF J, L
<1>4. ASSUME NEW a \in Browsers, NEW s \in sessions, drops[a] = 0, <<a, s>> \notin crossed', a # b
      PROVE  Follows(a, s)'
  <2>1. Follows(a, s) /\ current'[a] = current[a]
    BY <1>1, <1>3, <1>4 DEF AllFollow
  <2>2. \A r \in Sent(b, n) : ~Pending(r, a, s)
    BY <1>1, <1>2, <1>4 DEF Pending
  <2>3. \A r : Pending(r, a, s)' <=> Pending(r, a, s)
    BY DEF Pending
  <2> QED
    BY <1>1, <2>1, <2>2, <2>3 DEF Follows
<1>5. ASSUME NEW s \in sessions, drops[b] = 0, <<b, s>> \notin crossed'
      PROVE  Follows(b, s)'
  <2>0. s \in Sids /\ s # None /\ \A r : Pending(r, b, s)' <=> Pending(r, b, s)
    BY RoomsAssumption DEF Typed, Pending
  <2>1. CASE s = n
    <3>1. (\A r \in requests : ~Pending(r, b, s)) /\ Pending(J, b, s)
      BY <1>2, <1>3, <1>5, <2>1 DEF Pending
    <3>2. \A r \in requests' : Pending(r, b, s) => r = J
      BY <1>1, <1>2, <2>1, <3>1 DEF Pending
    <3>3. J \in requests'
      BY <1>1
    <3> QED
      BY <1>1, <1>2, <2>0, <2>1, <3>1, <3>2, <3>3 DEF Follows
  <2>2. CASE s = c
    <3>1. (\A r \in requests : ~Pending(r, b, s)) /\ Pending(L, b, s)
      BY <1>2, <1>3, <1>5, <2>2 DEF Pending
    <3>2. \A r \in requests' : Pending(r, b, s) => r = L
      BY <1>1, <1>2, <2>2, <3>1 DEF Pending
    <3>3. L \in requests'
      BY <1>1, <2>0, <2>2
    <3> QED
      BY <1>1, <1>2, <2>0, <2>2, <3>1, <3>2, <3>3 DEF Follows
  <2>3. CASE s # n /\ s # c
    <3>1. \A r \in Sent(b, n) : ~Pending(r, b, s)
      BY <1>1, <1>2, <2>3 DEF Pending
    <3>2. Follows(b, s)
      BY <1>3, <1>5, <2>3 DEF AllFollow
    <3> QED
      BY <1>1, <2>0, <2>3, <3>1, <3>2 DEF Follows
  <2> QED
    BY <2>1, <2>2, <2>3
<1> QED
  BY <1>1, <1>4, <1>5 DEF AllFollow

LEMMA PageFollows ==
  ASSUME Typed, AllFollow, NEW b \in Browsers, PageStep(b)
  PROVE  AllFollow'
<1> USE DEF rooms, threads, page, counted, history
<1>1. CASE Deliver(b)
  BY <1>1 DEF Deliver, AllFollow, Follows, Pending
<1>2. CASE Reconnect(b)
  <2>1. /\ UNCHANGED <<sessions, current, crossed>> /\ drops'[b] # 0
        /\ \A a \in Browsers \ {b} : /\ drops'[a] = drops[a]
                                     /\ \A s \in Sids : a \in members'[s] <=> a \in members[s]
        /\ \A r : r.page # b => (r \in requests' <=> r \in requests)
    BY <1>2 DEF Reconnect, Typed
  <2>2. ASSUME NEW a \in Browsers, NEW s \in sessions, drops'[a] = 0, <<a, s>> \notin crossed
        PROVE  Follows(a, s)'
    <3>1. a # b /\ Follows(a, s) /\ s \in Sids
      BY <2>1, <2>2 DEF AllFollow, Typed
    <3>2. \A r : Pending(r, a, s) => r.page # b
      BY <3>1 DEF Pending
    <3>3. \A r : Pending(r, a, s)' <=> Pending(r, a, s)
      BY DEF Pending
    <3> QED
      BY <2>1, <3>1, <3>2, <3>3 DEF Follows
  <2> QED
    BY <2>1, <2>2 DEF AllFollow
<1>3. ASSUME NEW n \in Sids, Click(b, n)
      PROVE  AllFollow'
  BY <1>3, ClickFollows
<1> QED
  BY <1>1, <1>2, <1>3 DEF PageStep

(* What a step of the request r may do: go on, or end, without touching    *)
(* the room of a session that lives; or enter or leave its room.           *)
Early == {"check", "enter", "exit"}

Steps(r) ==
  /\ members' = members
  /\ \E q : /\ q.page = r.page /\ q.op = r.op /\ q.sid = r.sid /\ (q.pc \in Early <=> r.pc \in Early)
            /\ Becomes(r, q)

Ends(r) ==
  /\ members' = members /\ Done(r)
  /\ r.sid \notin sessions \/ r.pc \notin Early \/ drops[r.page] # 0

Enters(r) ==
  /\ r.op = "join" /\ r.pc \in Early
  /\ members' = [members EXCEPT ![r.sid] = @ \cup {r.page}] \/ (drops[r.page] # 0 /\ members' = members)
  /\ \E q : q.page = r.page /\ q.op = r.op /\ q.sid = r.sid /\ q.pc \notin Early /\ Becomes(r, q)

Exits(r) ==
  /\ r.op = "leave" /\ r.pc \in Early
  /\ members' = [members EXCEPT ![r.sid] = @ \ {r.page}] \/ (drops[r.page] # 0 /\ members' = members)
  /\ Done(r)

LEMMA Outcomes ==
  ASSUME Typed, NEW r \in requests, Serves(r)
  PROVE  Steps(r) \/ Ends(r) \/ Enters(r) \/ Exits(r)
<1> USE DEF rooms, threads, page, counted, history, Early, At
<1>0. /\ r \in Requests /\ 0 \in Values /\ events[r.sid] \in Values /\ Dumps(r.sid) \subseteq Values
      /\ drops[r.page] = 0 => Connected(r)
  BY DEF Typed, Requests, Values, Dumps, Connected
<1>1. ASSUME NEW pc \in Pcs, Goto(r, pc), r.pc \in Early <=> pc \in Early, members' = members
      PROVE  Steps(r)
  <2> DEFINE q == [r EXCEPT !.pc = pc]
  <2>1. q.page = r.page /\ q.op = r.op /\ q.sid = r.sid /\ q.pc = pc
    BY <1>0 DEF Requests
  <2>2. Becomes(r, q)
    BY <1>1 DEF Goto
  <2> HIDE DEF q
  <2> QED
    BY <1>1, <2>1, <2>2 DEF Steps
<1>2. ASSUME NEW pc \in Pcs, NEW v, Got(r, pc, v), r.pc \notin Early, pc \notin Early, members' = members
      PROVE  Steps(r)
  <2> DEFINE q == [r EXCEPT !.pc = pc, !.value = v]
  <2>1. q.page = r.page /\ q.op = r.op /\ q.sid = r.sid /\ q.pc = pc
    BY <1>0 DEF Requests
  <2>2. Becomes(r, q)
    BY <1>2 DEF Got
  <2> HIDE DEF q
  <2> QED
    BY <1>2, <2>1, <2>2 DEF Steps
<1> USE DEF Pcs
<1>3. CASE JoinCheck(r)
  BY <1>1, <1>3 DEF JoinCheck, Ends
<1>4. CASE JoinRoom(r)
  <2> DEFINE q == [r EXCEPT !.pc = "read_events"]
  <2>1. q.page = r.page /\ q.op = r.op /\ q.sid = r.sid /\ q.pc = "read_events"
    BY <1>0 DEF Requests
  <2>2. Goto(r, "read_events") => Becomes(r, q)
    BY DEF Goto
  <2> HIDE DEF q
  <2>3. r.op = "join" /\ r.pc = "enter"
    BY <1>4 DEF JoinRoom
  <2>4. CASE Done(r)
    BY <1>0, <1>4, <2>4, <2>2, <2>1, <2>3 DEF JoinRoom, Ends, Enters
  <2>5. CASE ~Done(r)
    BY <1>0, <1>4, <2>1, <2>2, <2>3, <2>5 DEF JoinRoom, Enters
  <2> QED
    BY <2>4, <2>5
<1>5. CASE JoinReadEvents(r)
  BY <1>2, <1>5 DEF JoinReadEvents, Ends
<1>6. CASE JoinEmitEvents(r)
  BY <1>2, <1>6 DEF JoinEmitEvents
<1>7. CASE JoinReadCoverage(r)
  BY <1>2, <1>7 DEF JoinReadCoverage, Ends
<1>8. CASE JoinEmitCoverage(r)
  BY <1>8 DEF JoinEmitCoverage, Ends
<1>9. CASE LeaveCheck(r)
  BY <1>1, <1>9 DEF LeaveCheck, Ends
<1>10. CASE LeaveRoom(r)
  BY <1>0, <1>10 DEF LeaveRoom, Exits
<1> QED
  BY <1>3, <1>4, <1>5, <1>6, <1>7, <1>8, <1>9, <1>10 DEF Serves, OnJoin, OnLeave

(* A step of a request. *)
LEMMA ServedFollows ==
  ASSUME Typed, AllFollow, NEW r \in requests, Serves(r)
  PROVE  AllFollow'
<1>1. UNCHANGED <<sessions, current, drops, crossed>>
  BY DEF rooms, threads, page, counted, history, Serves, OnJoin, OnLeave, JoinCheck, JoinRoom,
         JoinReadEvents, JoinEmitEvents, JoinReadCoverage, JoinEmitCoverage, LeaveCheck, LeaveRoom
<1>2. Steps(r) \/ Ends(r) \/ Enters(r) \/ Exits(r)
  BY Outcomes
<1> SUFFICES ASSUME NEW b \in Browsers, NEW s \in sessions, drops[b] = 0, <<b, s>> \notin crossed
             PROVE  Follows(b, s)'
  BY <1>1 DEF AllFollow
<1>3. Follows(b, s) /\ s \in Sids /\ members \in [Sids -> SUBSET Browsers]
  BY DEF AllFollow, Typed
<1>4. \A q : Pending(q, b, s)' <=> Pending(q, b, s)
  BY DEF Pending
(* The request is for another room, or past it. *)
<1>5. CASE ~Pending(r, b, s)
  <2>1. b \in members'[s] <=> b \in members[s]
    <3>1. CASE members' = members
      BY <3>1
    <3>2. CASE members' # members
      <4>1. \/ members' = [members EXCEPT ![r.sid] = @ \cup {r.page}]
            \/ members' = [members EXCEPT ![r.sid] = @ \ {r.page}]
        BY <1>2, <3>2 DEF Steps, Ends, Enters, Exits
      <4>2. r.pc \in Early
        BY <1>2, <3>2 DEF Steps, Ends, Enters, Exits
      <4>3. r.page # b \/ r.sid # s
        BY <1>5, <4>2 DEF Pending, Early
      <4> QED
        BY <1>3, <4>1, <4>3
    <3> QED
      BY <3>1, <3>2
  <2>2. \A q \in requests' : Pending(q, b, s) => q \in requests
    <3>1. CASE Done(r)
      BY <3>1 DEF Done
    <3>2. ASSUME NEW q, q.page = r.page, q.sid = r.sid, q.pc \in Early => r.pc \in Early, Becomes(r, q)
          PROVE  \A x \in requests' : Pending(x, b, s) => x \in requests
      BY <1>5, <3>2 DEF Becomes, Pending, Early
    <3> QED
      BY <1>2, <3>1, <3>2 DEF Steps, Ends, Enters, Exits
  <2>3. \A q \in requests : Pending(q, b, s) => q \in requests'
    BY <1>2, <1>5 DEF Steps, Ends, Enters, Exits, Done, Becomes
  <2> QED
    BY <1>1, <1>3, <1>4, <2>1, <2>2, <2>3 DEF Follows
(* It is the one request for the room of s that is pending. *)
<1>6. CASE Pending(r, b, s)
  <2>1. r.page = b /\ r.sid = s /\ r.pc \in Early /\ (r.op = "join" <=> s = current[b])
        /\ \A q \in requests : Pending(q, b, s) => q = r
    BY <1>3, <1>6 DEF Follows, Pending, Early
  <2>2. CASE Steps(r)
    <3> PICK q : /\ q.page = r.page /\ q.op = r.op /\ q.sid = r.sid /\ (q.pc \in Early <=> r.pc \in Early)
                 /\ Becomes(r, q)
      BY <2>2 DEF Steps
    <3>1. Pending(q, b, s) /\ q \in requests' /\ \A x \in requests' : Pending(x, b, s) => x = q
      BY <2>1 DEF Becomes, Pending, Early
    <3> QED
      BY <1>1, <1>4, <2>1, <3>1 DEF Follows
  <2>3. CASE Ends(r)
    BY <2>1, <2>3 DEF Ends
  <2>4. CASE Enters(r)
    <3>1. b \in members'[s] /\ s = current[b]
      BY <1>3, <2>1, <2>4 DEF Enters
    <3>2. \A x \in requests' : ~Pending(x, b, s)
      BY <2>1, <2>4 DEF Enters, Becomes, Pending, Early
    <3> QED
      BY <1>1, <1>4, <3>1, <3>2 DEF Follows
  <2>5. CASE Exits(r)
    <3>1. b \notin members'[s] /\ s # current[b]
      BY <1>3, <2>1, <2>5 DEF Exits
    <3>2. \A x \in requests' : ~Pending(x, b, s)
      BY <2>1, <2>5 DEF Exits, Done
    <3> QED
      BY <1>1, <1>4, <3>1, <3>2 DEF Follows
  <2> QED
    BY <1>2, <2>2, <2>3, <2>4, <2>5
<1> QED
  BY <1>5, <1>6

(* Sessions and threads touch neither the requests nor the rooms.          *)
LEMMA OthersFollow ==
  ASSUME Typed, AllFollow,
         (\E s \in Sids : SessionStep(s)) \/ \E t \in Threads : ThreadStep(t)
  PROVE  AllFollow'
<1>1. /\ UNCHANGED <<requests, members, current, drops, crossed>> /\ sessions' \subseteq sessions
  BY DEF SessionStep, ThreadStep, SessionStop, Covers, Tick, NotifyChange, SessionEvent, EmitEvent,
         LogEvent, rooms, threads, page, counted, history
<1> QED
  BY <1>1 DEF AllFollow, Follows, Pending

LEMMA StepFollowed == Typed /\ AllFollow /\ [Next]_vars => AllFollow'
<1> SUFFICES ASSUME Typed, AllFollow, [Next]_vars
             PROVE  AllFollow'
  OBVIOUS
<1>1. CASE Next
  BY <1>1, NextCases, PageFollows, ServedFollows, OthersFollow
<1>2. CASE UNCHANGED vars
  BY <1>2 DEF AllFollow, Follows, Pending, vars, rooms, threads, page, counted, history
<1> QED
  BY <1>1, <1>2

(* In whatever order its requests are served, a page that kept its         *)
(* connection is, when they are, in the room of its session and in that of *)
(* no other session that lives, except for rooms whose last request met    *)
(* another one; for any pages, sessions and clicks.                        *)
THEOREM RoomsFollowPages == Spec => []RoomFollowsPage
<1>1. Typed /\ AllFollow /\ [Next]_vars => Typed' /\ AllFollow'
  BY StepTyped, StepFollowed
<1>2. Typed /\ AllFollow => RoomFollowsPage
  <2> SUFFICES ASSUME Typed, AllFollow, NEW b \in Browsers, Served(b), drops[b] = 0,
                      NEW s \in sessions, <<b, s>> \notin crossed
               PROVE  b \in members[s] <=> s = current[b]
    BY DEF RoomFollowsPage
  <2>1. Follows(b, s)
    BY DEF AllFollow
  <2>2. \A r \in requests : ~Pending(r, b, s)
    BY DEF Served, Pending
  <2> QED
    BY <2>1, <2>2 DEF Follows
<1> QED
  BY <1>1, <1>2, InitTyped, InitFollows, PTL DEF Spec

-----------------------------------------------------------------------------
(* No event is missed                                                      *)

(* A thread has logged an event of s and not read them, or not sent them.  *)
Fires(s) == \E t \in Threads : thread[t].sid = s /\ thread[t].pc = "fire"
Emits(s) == \E t \in Threads : thread[t].sid = s /\ thread[t].pc = "emit"

(* A join of b has still to send the events of s. *)
Comes(r, b, s) ==
  r.page = b /\ r.sid = s /\ r.op = "join" /\ r.pc \in {"check", "enter", "read_events", "emit_events"}
Coming(b, s) == \E r \in requests : Comes(r, b, s)

(* The last events on their way, or those shown (e) if none are, are v of s*)
Newest(q, e, s, v) ==
  \/ \E i \in DOMAIN q :
       q[i] = Message("events", s, v) /\ \A j \in DOMAIN q : j > i => q[j].kind # "events"
  \/ (\A i \in DOMAIN q : q[i].kind # "events") /\ e = [sid |-> s, value |-> v]

(* Unless announcements overlapped, what is announced is up to date, or a  *)
(* thread is going to read again.                                          *)
UpToDate(s) ==
  /\ \A t \in Threads : thread[t].pc = "emit" /\ thread[t].sid = s => thread[t].value = events[s]
  /\ \A r \in requests : r.pc = "emit_events" /\ r.sid = s => r.value = events[s]

Fresh == \A s \in Sids \ overlap : Fires(s) \/ UpToDate(s)

(* The page b is in the room of its session s and was sent no events of    *)
(* another one.                                                            *)
Listens(b, s) ==
  /\ drops[b] = 0 /\ b \notin mixed
  /\ s = current[b] /\ s \in sessions \ overlap /\ b \in members[s]

(* It shows the events of s, or will: they are on their way, or somebody   *)
(* is about to read or to send them.                                       *)
Hears(b, s) ==
  Fires(s) \/ Emits(s) \/ Coming(b, s) \/ Newest(inbox[b], shown[b].events, s, events[s])

AllHear == \A b \in Browsers, s \in Sids : Listens(b, s) => Hears(b, s)

NewsInv == Fresh /\ AllHear

LEMMA NewestAppended ==
  ASSUME NEW q \in Seq(Posts), NEW e, NEW s, NEW v, NEW m \in Posts
  PROVE  /\ m = Message("events", s, v) => Newest(Append(q, m), e, s, v)
         /\ m.kind = "coverage" /\ Newest(q, e, s, v) => Newest(Append(q, m), e, s, v)
<1> DEFINE t == Append(q, m)
<1>1. /\ Len(q) \in Nat /\ DOMAIN q = 1 .. Len(q) /\ DOMAIN t = 1 .. Len(q) + 1
      /\ t[Len(q) + 1] = m /\ \A i \in 1 .. Len(q) : t[i] = q[i]
  OBVIOUS
<1> HIDE DEF t
<1>2. ASSUME m = Message("events", s, v) PROVE Newest(t, e, s, v)
  BY <1>1, <1>2 DEF Newest
<1>3. ASSUME m.kind = "coverage", Newest(q, e, s, v) PROVE Newest(t, e, s, v)
  <2>1. m.kind # "events" /\ \A j \in DOMAIN t : j \in DOMAIN q \/ j = Len(q) + 1
    BY <1>1, <1>3
  <2>2. ASSUME NEW i \in DOMAIN q, q[i] = Message("events", s, v),
               \A j \in DOMAIN q : j > i => q[j].kind # "events"
        PROVE  Newest(t, e, s, v)
    <3>1. i \in DOMAIN t /\ t[i] = Message("events", s, v)
      BY <1>1, <2>2
    <3>2. \A j \in DOMAIN t : j > i => t[j].kind # "events"
      BY <1>1, <2>1, <2>2
    <3> QED
      BY <3>1, <3>2 DEF Newest
  <2>3. ASSUME \A i \in DOMAIN q : q[i].kind # "events", e = [sid |-> s, value |-> v]
        PROVE  Newest(t, e, s, v)
    BY <1>1, <2>1, <2>3 DEF Newest
  <2> QED
    BY <1>3, <2>2, <2>3 DEF Newest
<1> QED
  BY <1>2, <1>3 DEF t

LEMMA NewestDelivered ==
  ASSUME NEW q \in Seq(Posts), q # <<>>, NEW e, NEW s, NEW v, Newest(q, e, s, v)
  PROVE  Newest(Tail(q), IF Head(q).kind = "events"
                         THEN [sid |-> Head(q).sid, value |-> Head(q).value] ELSE e, s, v)
<1> DEFINE t == Tail(q)
           h == Head(q)
           f == IF h.kind = "events" THEN [sid |-> h.sid, value |-> h.value] ELSE e
<1>1. /\ Len(q) \in Nat \ {0} /\ DOMAIN q = 1 .. Len(q) /\ DOMAIN t = 1 .. Len(q) - 1
      /\ h = q[1] /\ \A i \in DOMAIN t : t[i] = q[i + 1]
  OBVIOUS
<1> HIDE DEF t, h
<1>2. \A j \in DOMAIN t : j + 1 \in DOMAIN q /\ j + 1 > 1
  BY <1>1
<1>3. ASSUME NEW i \in DOMAIN q, q[i] = Message("events", s, v),
             \A j \in DOMAIN q : j > i => q[j].kind # "events"
      PROVE  Newest(t, f, s, v)
  <2>1. CASE i = 1
    <3>1. \A j \in DOMAIN t : t[j].kind # "events"
      BY <1>1, <1>2, <1>3, <2>1
    <3>2. h = Message("events", s, v)
      BY <1>1, <1>3, <2>1
    <3>3. f = [sid |-> s, value |-> v]
      BY <3>2 DEF Message
    <3> QED
      BY <3>1, <3>3 DEF Newest
  <2>2. CASE i # 1
    <3>1. i - 1 \in DOMAIN t /\ t[i - 1] = Message("events", s, v)
      BY <1>1, <1>3, <2>2
    <3>2. \A j \in DOMAIN t : j > i - 1 => t[j].kind # "events"
      <4> TAKE j \in DOMAIN t
      <4>1. j > i - 1 => j + 1 > i
        BY <1>1
      <4> QED
        BY <1>1, <1>2, <1>3, <4>1
    <3> QED
      BY <3>1, <3>2 DEF Newest
  <2> QED
    BY <2>1, <2>2
<1>4. ASSUME \A i \in DOMAIN q : q[i].kind # "events", e = [sid |-> s, value |-> v]
      PROVE  Newest(t, f, s, v)
  <2>1. \A j \in DOMAIN t : t[j].kind # "events"
    BY <1>1, <1>2, <1>4
  <2>2. h.kind # "events"
    BY <1>1, <1>4
  <2>3. f = e
    BY <2>2
  <2> QED
    BY <1>4, <2>1, <2>3 DEF Newest
<1> QED
  BY <1>3, <1>4 DEF Newest, t, h


LEMMA InitNews == Init => NewsInv
BY RoomsAssumption DEF Init, NewsInv, Fresh, UpToDate, AllHear, Listens, Idle

(* What an emission brings to the page a, to whose session s nothing but   *)
(* up to date events is announced.                                         *)
LEMMA EmitHeard ==
  ASSUME Typed, NEW kind \in {"coverage", "events"}, NEW r \in Sids, NEW v \in Values,
         Emit(kind, r, v), NEW a \in Browsers, a \notin mixed', NEW s \in Sids, s = current[a],
         NEW e, NEW k
  PROVE  /\ Newest(inbox[a], e, s, k) /\ (kind = "events" /\ r = s => v = k) => Newest(inbox'[a], e, s, k)
         /\ kind = "events" /\ r = s /\ a \in members[s] => Newest(inbox'[a], e, s, v)
<1>1. inbox[a] \in Seq(Posts)
  BY DEF Typed
<1>2. /\ Message(kind, r, v) \in Posts /\ Message(kind, r, v).kind = kind
      /\ inbox'[a] = IF a \in members[r] THEN Append(inbox[a], Message(kind, r, v)) ELSE inbox[a]
  BY DEF Emit, Message, Posts
<1>3. kind = "events" /\ a \in members[r] => r = s
  BY DEF Emit
<1>4. CASE a \notin members[r]
  BY <1>2, <1>4
<1>5. CASE a \in members[r] /\ kind = "events"
  BY <1>1, <1>2, <1>3, <1>5, NewestAppended
<1>6. CASE a \in members[r] /\ kind = "coverage"
  BY <1>1, <1>2, <1>6, NewestAppended
<1> QED
  BY <1>4, <1>5, <1>6

LEMMA PageNews ==
  ASSUME Typed, NewsInv, NEW b \in Browsers, PageStep(b)
  PROVE  NewsInv'
<1> USE DEF NewsInv, rooms, threads, page, counted, history
<1>1. CASE Deliver(b)
  <2>1. /\ UNCHANGED <<sessions, members, events, requests, thread, current, drops, overlap, mixed>>
        /\ inbox[b] # <<>>
    BY <1>1 DEF Deliver
  <2>2. Fresh'
    BY <2>1 DEF Fresh, UpToDate, Fires
  <2>3. \A a \in Browsers \ {b} : inbox'[a] = inbox[a] /\ shown'[a] = shown[a]
    BY <1>1 DEF Deliver, Typed
  <2> DEFINE m == Head(inbox[b])
             v == [sid |-> m.sid, value |-> m.value]
  <2>4. inbox'[b] = Tail(inbox[b]) /\ inbox[b] \in Seq(Posts)
    BY <1>1 DEF Deliver, Typed
  <2>5. shown'[b].events = IF m.kind = "events" THEN v ELSE shown[b].events
    <3>0. m \in Posts /\ shown[b] \in Shown
      BY <2>1, <2>4 DEF Typed
    <3>1. m.kind \in {"coverage", "events"} /\ shown[b] \in Shown
      BY <3>0 DEF Posts
    <3>2. \/ m.kind = "coverage" /\ shown' = shown
          \/ shown' = [shown EXCEPT ![b] = [@ EXCEPT ![m.kind] = v]]
      BY <1>1 DEF Deliver
    <3> HIDE DEF v
    <3>3. CASE m.kind = "coverage"
      <4>1. shown' = shown \/ shown' = [shown EXCEPT ![b] = [@ EXCEPT !.coverage = v]]
        BY <3>2, <3>3
      <4> QED
        BY <3>1, <3>3, <4>1 DEF Typed, Shown
    <3>4. CASE m.kind = "events"
      <4>1. shown' = [shown EXCEPT ![b] = [@ EXCEPT !.events = v]]
        BY <3>2, <3>4
      <4> QED
        BY <3>1, <3>4, <4>1 DEF Typed, Shown
    <3> QED
      BY <3>1, <3>3, <3>4
  <2>6. ASSUME NEW s, NEW k, Newest(inbox[b], shown[b].events, s, k)
        PROVE  Newest(inbox'[b], shown'[b].events, s, k)
    BY <2>1, <2>4, <2>5, <2>6, NewestDelivered
  <2> HIDE DEF m, v
  <2>7. ASSUME NEW a \in Browsers, NEW s \in Sids, Listens(a, s)'
        PROVE  Hears(a, s)'
    <3>1. Listens(a, s)
      BY <2>1, <2>7 DEF Listens
    <3>2. Hears(a, s)
      BY <3>1 DEF AllHear
    <3> QED
      BY <2>1, <2>3, <2>6, <3>2 DEF Hears, Fires, Emits, Coming, Comes
  <2> QED
    BY <2>2, <2>7 DEF AllHear
<1>2. CASE Reconnect(b)
  <2>1. /\ UNCHANGED <<sessions, events, thread, current, shown, overlap, mixed>>
        /\ drops'[b] # 0 /\ requests' \subseteq requests
        /\ \A r \in requests : r.page # b => r \in requests'
        /\ \A a \in Browsers \ {b} : /\ inbox'[a] = inbox[a] /\ drops'[a] = drops[a]
                                     /\ \A s \in Sids : a \in members'[s] <=> a \in members[s]
    BY <1>2 DEF Reconnect, Typed
  <2>2. Fresh'
    BY <2>1 DEF Fresh, UpToDate, Fires
  <2>3. ASSUME NEW a \in Browsers, NEW s \in Sids, Listens(a, s)'
        PROVE  Hears(a, s)'
    <3>1. a # b
      BY <2>1, <2>3 DEF Listens
    <3>2. Listens(a, s)
      BY <2>1, <2>3, <3>1 DEF Listens
    <3>3. Hears(a, s)
      BY <3>2 DEF AllHear
    <3>4. Coming(a, s) => Coming(a, s)'
      BY <2>1, <3>1 DEF Coming, Comes
    <3> QED
      BY <2>1, <3>1, <3>3, <3>4 DEF Hears, Fires, Emits
  <2> QED
    BY <2>2, <2>3 DEF AllHear
<1>3. ASSUME NEW n \in Sids, Click(b, n)
      PROVE  NewsInv'
  <2>1. /\ UNCHANGED <<sessions, members, events, thread, inbox, drops, overlap>>
        /\ requests' = requests \cup Sent(b, n)
        /\ current'[b] = n
        /\ \A a \in Browsers \ {b} : /\ current'[a] = current[a] /\ shown'[a] = shown[a]
                                     /\ (a \in mixed' <=> a \in mixed)
    BY <1>3 DEF Click, Typed
  <2>2. \A r \in Sent(b, n) : r.pc = "check"
    BY DEF Sent, Request
  <2>3. Fresh'
    BY <2>1, <2>2 DEF Fresh, UpToDate, Fires
  <2>4. Coming(b, n)'
    <3>1. Request(b, "join", n, clicks[b], drops[b]) \in requests'
      BY <2>1 DEF Sent
    <3>2. Comes(Request(b, "join", n, clicks[b], drops[b]), b, n)
      BY DEF Comes, Request
    <3> QED
      BY <3>1, <3>2 DEF Coming, Comes
  <2>5. ASSUME NEW a \in Browsers, NEW s \in Sids, Listens(a, s)'
        PROVE  Hears(a, s)'
    <3>1. CASE a = b
      BY <2>1, <2>4, <2>5, <3>1 DEF Listens, Hears
    <3>2. CASE a # b
      <4>1. Listens(a, s)
        BY <2>1, <2>5, <3>2 DEF Listens
      <4>2. Hears(a, s)
        BY <4>1 DEF AllHear
      <4> QED
        BY <2>1, <3>2, <4>2 DEF Hears, Fires, Emits, Coming, Comes
    <3> QED
      BY <3>1, <3>2
  <2> QED
    BY <2>3, <2>5 DEF AllHear
<1> QED
  BY <1>1, <1>2, <1>3 DEF PageStep

(* What sessions do: a session that stops listens no more. *)
LEMMA SessionNews ==
  ASSUME Typed, NewsInv, NEW s \in Sids, SessionStep(s)
  PROVE  NewsInv'
<1> USE DEF NewsInv, rooms, threads, page, counted, history
<1>1. /\ UNCHANGED <<members, events, requests, thread, current, shown, drops, overlap>>
      /\ sessions' \subseteq sessions
      /\ (inbox' = inbox /\ mixed' = mixed) \/ Emit("coverage", s, notifier[s].value)
  BY DEF SessionStep, SessionStop, Covers, Tick, NotifyChange
<1>2. notifier[s].value \in Values /\ mixed' = mixed
  BY <1>1 DEF Typed, Emit
<1>3. Fresh'
  BY <1>1 DEF Fresh, UpToDate, Fires
<1>4. ASSUME NEW a \in Browsers, NEW r \in Sids, Listens(a, r)'
      PROVE  Hears(a, r)'
  <2>1. Listens(a, r)
    BY <1>1, <1>2, <1>4 DEF Listens
  <2>2. Hears(a, r)
    BY <2>1 DEF AllHear
  <2>3. Newest(inbox[a], shown[a].events, r, events[r]) => Newest(inbox'[a], shown[a].events, r, events[r])
    BY <1>1, <1>2, <2>1, EmitHeard DEF Listens
  <2> QED
    BY <1>1, <2>2, <2>3 DEF Hears, Fires, Emits, Coming, Comes
<1> QED
  BY <1>3, <1>4 DEF AllHear

LEMMA ThreadNews ==
  ASSUME Typed, NewsInv, NEW t \in Threads, ThreadStep(t)
  PROVE  NewsInv'
<1> USE DEF NewsInv, rooms, threads, page, counted, history
<1>0. /\ UNCHANGED <<sessions, members, requests, current, shown, drops>>
      /\ \A u \in Threads \ {t} : thread'[u] = thread[u]
      /\ mixed \subseteq mixed'
      /\ \A a, s : Coming(a, s)' <=> Coming(a, s)
  BY DEF ThreadStep, SessionEvent, EmitEvent, LogEvent, Typed, Emit, Coming, Comes
<1>1. ASSUME NEW s \in Sids, LogEvent(t, s)
      PROVE  NewsInv'
  <2>1. /\ UNCHANGED <<inbox, overlap, mixed>> /\ thread[t].pc = "idle"
        /\ thread'[t].sid = s /\ thread'[t].pc = "fire"
        /\ \A r \in Sids \ {s} : events'[r] = events[r]
    BY <1>1 DEF LogEvent, Idle, Typed
  <2>2. Fires(s)' /\ \A r : (Fires(r) => Fires(r)') /\ (Emits(r) => Emits(r)')
    BY <1>0, <2>1 DEF Fires, Emits
  <2>3. Fresh'
    <3> SUFFICES ASSUME NEW r \in Sids \ overlap, r # s, ~Fires(r)
                 PROVE  UpToDate(r)'
      BY <2>1, <2>2 DEF Fresh
    <3>1. UpToDate(r)
      BY DEF Fresh
    <3> QED
      BY <1>0, <2>1, <3>1 DEF UpToDate
  <2>4. ASSUME NEW a \in Browsers, NEW r \in Sids, Listens(a, r)'
        PROVE  Hears(a, r)'
    <3>1. Hears(a, r)
      BY <1>0, <2>1, <2>4 DEF Listens, AllHear
    <3> QED
      BY <1>0, <2>1, <2>2, <3>1 DEF Hears
  <2> QED
    BY <2>3, <2>4 DEF AllHear
<1>2. CASE SessionEvent(t)
  <2>0. thread[t].sid \in Sids
    BY <1>2 DEF SessionEvent, Typed
  <2> PICK s \in Sids : s = thread[t].sid
    BY <2>0
  <2>1. /\ UNCHANGED <<inbox, events, mixed>> /\ thread[t].pc = "fire"
        /\ overlap \subseteq overlap' /\ (Announcing(s) => s \in overlap')
    BY <1>2 DEF SessionEvent, ReadsEvents, Typed
  <2>2. thread'[t].sid = s /\ thread'[t].pc = "emit" /\ thread'[t].value = events[s]
    BY <1>2, <2>1 DEF SessionEvent, Typed
  <2>3. Emits(s)' /\ \A r : (r # s /\ Fires(r) => Fires(r)') /\ (Emits(r) => Emits(r)')
    BY <1>0, <2>1, <2>2 DEF Fires, Emits
  <2>4. s \notin overlap' => ~Announcing(s)
    BY <2>1
  <2>5. Fresh'
    <3>1. ASSUME NEW r \in Sids \ overlap', r # s
          PROVE  Fires(r)' \/ UpToDate(r)'
      <4>1. Fires(r) \/ UpToDate(r)
        BY <2>1 DEF Fresh
      <4> QED
        BY <1>0, <2>1, <2>2, <2>3, <3>1, <4>1 DEF UpToDate
    <3>2. s \notin overlap' => UpToDate(s)'
      BY <1>0, <2>1, <2>2, <2>4 DEF UpToDate, Announcing
    <3> QED
      BY <3>1, <3>2 DEF Fresh
  <2>6. ASSUME NEW a \in Browsers, NEW r \in Sids, Listens(a, r)'
        PROVE  Hears(a, r)'
    <3>1. Hears(a, r)
      BY <1>0, <2>1, <2>6 DEF Listens, AllHear
    <3> QED
      BY <1>0, <2>1, <2>3, <3>1 DEF Hears
  <2> QED
    BY <2>5, <2>6 DEF AllHear
<1>3. CASE EmitEvent(t)
  <2> DEFINE s == thread[t].sid
             v == thread[t].value
  <2>1. /\ UNCHANGED <<events, overlap>> /\ thread[t].pc = "emit" /\ s \in Sids /\ v \in Values
        /\ Emit("events", s, v) /\ thread'[t].pc = "idle"
    BY <1>3 DEF EmitEvent, Typed, Idle, Values
  <2>2. s \notin overlap => v = events[s] \/ Fires(s)
    BY <2>1 DEF Fresh, UpToDate
  <2>3. \A r : (Fires(r) => Fires(r)') /\ (r # s /\ Emits(r) => Emits(r)')
    BY <1>0, <2>1 DEF Fires, Emits
  <2> HIDE DEF s, v
  <2>4. Fresh'
    <3>1. \A u \in Threads : thread'[u].pc = "emit" => thread'[u] = thread[u]
      BY <1>0, <2>1
    <3> QED
      BY <1>0, <2>1, <2>3, <3>1 DEF Fresh, UpToDate
  <2>5. ASSUME NEW a \in Browsers, NEW r \in Sids, Listens(a, r)'
        PROVE  Hears(a, r)'
    <3>1. Listens(a, r) /\ a \notin mixed' /\ r = current[a] /\ a \in members[r]
      BY <1>0, <2>1, <2>5 DEF Listens
    <3>2. Hears(a, r)
      BY <3>1 DEF AllHear
    <3>3. CASE r = s
      <4>1. v = events[s] \/ Fires(s)
        BY <2>2, <3>1, <3>3 DEF Listens
      <4>2. Newest(inbox'[a], shown[a].events, r, v)
        BY <2>1, <3>1, <3>3, EmitHeard
      <4> QED
        BY <1>0, <2>1, <2>3, <3>3, <4>1, <4>2 DEF Hears
    <3>4. CASE r # s
      <4>1. Newest(inbox[a], shown[a].events, r, events[r]) => Newest(inbox'[a], shown[a].events, r, events[r])
        BY <2>1, <3>1, <3>4, EmitHeard
      <4> QED
        BY <1>0, <2>1, <2>3, <3>2, <3>4, <4>1 DEF Hears
    <3> QED
      BY <3>3, <3>4
  <2> QED
    BY <2>4, <2>5 DEF AllHear
<1> QED
  BY <1>1, <1>2, <1>3 DEF ThreadStep

(* A page hears what is emitted in the step of a request. *)
Carries ==
  \A a \in Browsers, s \in Sids \ overlap :
    /\ a \notin mixed' /\ s = current[a]
    /\ Newest(inbox[a], shown[a].events, s, events[s])
    => Fires(s) \/ Newest(inbox'[a], shown[a].events, s, events[s])

(* The request r still comes after the step, or has sent what it read.     *)
Tells(r) ==
  \A b \in Browsers, s \in sessions \ overlap :
    /\ Comes(r, b, s) /\ drops[b] = 0 /\ b \notin mixed' /\ s = current[b] /\ b \in members[s]
    => Coming(b, s)' \/ Fires(s) \/ Newest(inbox'[b], shown[b].events, s, events[s])

(* Whoever enters a room comes. *)
EntersComing ==
  \A b \in Browsers, s \in Sids : b \in members'[s] => b \in members[s] \/ Coming(b, s)'

LEMMA ServedStep ==
  ASSUME Typed, NewsInv, NEW r \in requests, Serves(r)
  PROVE  /\ \A q \in requests' : q \in requests \/ (q.pc = "emit_events" => q.value = events[q.sid])
         /\ \A q \in requests : q # r => q \in requests'
         /\ Carries /\ Tells(r) /\ EntersComing
<1> USE DEF rooms, threads, page, counted, history, At
<1>1. /\ r \in Requests /\ r.sid \in Sids /\ r.page \in Browsers /\ r.value \in Values
      /\ drops[r.page] = 0 => Connected(r)
      /\ members \in [Sids -> SUBSET Browsers]
  BY DEF Typed, Requests, Connected
<1>2. \A pc, v : LET q == [r EXCEPT !.pc = pc] IN
                 /\ q.page = r.page /\ q.sid = r.sid /\ q.op = r.op /\ q.pc = pc /\ q.value = r.value
  BY <1>1 DEF Requests
<1>3. \A pc, v : LET q == [r EXCEPT !.pc = pc, !.value = v] IN
                 /\ q.page = r.page /\ q.sid = r.sid /\ q.op = r.op /\ q.pc = pc /\ q.value = v
  BY <1>1 DEF Requests
<1>4. Done(r) => /\ \A q \in requests' : q \in requests
                 /\ \A q \in requests : q # r => q \in requests'
  BY DEF Done
<1>5. ASSUME NEW pc, Goto(r, pc)
      PROVE  /\ pc # "emit_events" =>
                  \A q \in requests' : q \in requests \/ (q.pc = "emit_events" => q.value = events[q.sid])
             /\ \A q \in requests : q # r => q \in requests'
             /\ r.op = "join" /\ pc \in {"enter", "read_events"} => Coming(r.page, r.sid)'
  <2> DEFINE x == [r EXCEPT !.pc = pc]
  <2>1. x.page = r.page /\ x.sid = r.sid /\ x.op = r.op /\ x.pc = pc
    BY <1>2
  <2>2. Becomes(r, x)
    BY <1>5 DEF Goto
  <2> HIDE DEF x
  <2> QED
    BY <2>1, <2>2 DEF Becomes, Coming, Comes
<1>6. ASSUME NEW pc, NEW v, Got(r, pc, v)
      PROVE  /\ pc # "emit_events" \/ v = events[r.sid] =>
                  \A q \in requests' : q \in requests \/ (q.pc = "emit_events" => q.value = events[q.sid])
             /\ \A q \in requests : q # r => q \in requests'
             /\ r.op = "join" /\ pc = "emit_events" => Coming(r.page, r.sid)'
  <2> DEFINE x == [r EXCEPT !.pc = pc, !.value = v]
  <2>1. x.page = r.page /\ x.sid = r.sid /\ x.op = r.op /\ x.pc = pc /\ x.value = v
    BY <1>3
  <2>2. Becomes(r, x)
    BY <1>6 DEF Got
  <2> HIDE DEF x
  <2> QED
    BY <2>1, <2>2 DEF Becomes, Coming, Comes
<1>7. inbox' = inbox => Carries
  BY DEF Carries
<1>8. members' = members => EntersComing
  BY DEF EntersComing
<1>9. Coming(r.page, r.sid)' => Tells(r)
  BY DEF Tells, Comes
<1>10. (r.sid \in sessions => r.op # "join" \/ r.pc \in {"read_coverage", "emit_coverage"}) => Tells(r)
  BY DEF Tells, Comes
<1>11. CASE JoinCheck(r)
  BY <1>4, <1>5, <1>7, <1>8, <1>9, <1>10, <1>11 DEF JoinCheck
<1>12. CASE JoinRoom(r)
  <2>1. /\ inbox' = inbox /\ r.op = "join"
        /\ Goto(r, "read_events") \/ (Done(r) /\ ~Connected(r))
        /\ \/ members' = members
           \/ Goto(r, "read_events") /\ members' = [members EXCEPT ![r.sid] = @ \cup {r.page}]
    BY <1>12 DEF JoinRoom
  <2>2. EntersComing
    BY <1>1, <1>5, <2>1 DEF EntersComing
  <2>3. Tells(r)
    <3>1. CASE Goto(r, "read_events")
      BY <1>5, <1>9, <2>1, <3>1
    <3>2. CASE Done(r) /\ ~Connected(r)
      BY <1>1, <3>2 DEF Tells, Comes
    <3> QED
      BY <2>1, <3>1, <3>2
  <2> QED
    BY <1>4, <1>5, <1>7, <2>1, <2>2, <2>3
<1>13. CASE JoinReadEvents(r)
  BY <1>4, <1>6, <1>7, <1>8, <1>9, <1>10, <1>13 DEF JoinReadEvents
<1>14. CASE JoinEmitEvents(r)
  <2>1. /\ r.pc = "emit_events" /\ Emit("events", r.sid, r.value) /\ Got(r, "read_coverage", 0)
        /\ members' = members
    BY <1>14 DEF JoinEmitEvents
  <2>2. r.sid \notin overlap => Fires(r.sid) \/ r.value = events[r.sid]
    BY <1>1, <2>1 DEF NewsInv, Fresh, UpToDate
  <2>3. Carries
    <3> SUFFICES ASSUME NEW a \in Browsers, NEW s \in Sids \ overlap, ~Fires(s),
                        a \notin mixed', s = current[a],
                        Newest(inbox[a], shown[a].events, s, events[s])
                 PROVE  Newest(inbox'[a], shown[a].events, s, events[s])
      BY DEF Carries
    <3> QED
      BY <1>1, <2>1, <2>2, EmitHeard
  <2>4. Tells(r)
    <3> SUFFICES ASSUME NEW b \in Browsers, NEW s \in sessions \ overlap, Comes(r, b, s), b \notin mixed',
                        s = current[b], b \in members[s], ~Fires(s)
                 PROVE  Newest(inbox'[b], shown[b].events, s, events[s])
      BY DEF Tells
    <3>1. r.sid = s /\ r.value = events[s]
      BY <2>2 DEF Comes
    <3> QED
      BY <1>1, <2>1, <3>1, EmitHeard
  <2> QED
    BY <1>6, <1>8, <2>1, <2>3, <2>4
<1>15. CASE JoinReadCoverage(r)
  BY <1>4, <1>6, <1>7, <1>8, <1>10, <1>15 DEF JoinReadCoverage
<1>16. CASE JoinEmitCoverage(r)
  <2>1. r.pc = "emit_coverage" /\ Emit("coverage", r.sid, r.value) /\ Done(r) /\ members' = members
    BY <1>16 DEF JoinEmitCoverage
  <2>2. Carries
    BY <1>1, <2>1, EmitHeard DEF Carries
  <2> QED
    BY <1>4, <1>8, <1>10, <2>1, <2>2
<1>17. CASE LeaveCheck(r)
  BY <1>4, <1>5, <1>7, <1>8, <1>10, <1>17 DEF LeaveCheck
<1>18. CASE LeaveRoom(r)
  <2>1. EntersComing
    BY <1>1, <1>18 DEF LeaveRoom, EntersComing
  <2> QED
    BY <1>4, <1>7, <1>10, <1>18, <2>1 DEF LeaveRoom
<1> QED
  BY <1>11, <1>12, <1>13, <1>14, <1>15, <1>16, <1>17, <1>18 DEF Serves, OnJoin, OnLeave

LEMMA ServedNews ==
  ASSUME Typed, NewsInv, NEW r \in requests, Serves(r)
  PROVE  NewsInv'
<1>1. UNCHANGED <<sessions, events, thread, current, shown, drops>>
      /\ overlap \subseteq overlap' /\ mixed \subseteq mixed'
  BY DEF rooms, threads, page, counted, history, Serves, OnJoin, OnLeave, JoinCheck, JoinRoom,
         JoinReadEvents, JoinEmitEvents, JoinReadCoverage, JoinEmitCoverage, LeaveCheck, LeaveRoom,
         ReadsEvents, Emit
<1>2. /\ \A q \in requests' : q \in requests \/ (q.pc = "emit_events" => q.value = events[q.sid])
      /\ \A q \in requests : q # r => q \in requests'
      /\ Carries /\ Tells(r) /\ EntersComing
  BY ServedStep
<1>3. \A s : (Fires(s) => Fires(s)') /\ (Emits(s) => Emits(s)')
  BY <1>1 DEF Fires, Emits
<1>4. Fresh'
  <2> SUFFICES ASSUME NEW s \in Sids \ overlap', ~Fires(s)
               PROVE  UpToDate(s)'
    BY <1>3 DEF Fresh
  <2>1. UpToDate(s)
    BY <1>1 DEF NewsInv, Fresh
  <2> QED
    BY <1>1, <1>2, <2>1 DEF UpToDate
<1>5. ASSUME NEW b \in Browsers, NEW s \in Sids, Listens(b, s)'
      PROVE  Hears(b, s)'
  <2>1. /\ drops[b] = 0 /\ b \notin mixed /\ b \notin mixed' /\ s = current[b]
        /\ s \in sessions \ overlap /\ b \in members'[s]
    BY <1>1, <1>5 DEF Listens
  <2>2. CASE b \notin members[s]
    BY <1>2, <2>1, <2>2 DEF EntersComing, Hears
  <2>3. CASE b \in members[s]
    <3>1. Hears(b, s)
      BY <2>1, <2>3 DEF NewsInv, AllHear, Listens
    <3>2. CASE Fires(s) \/ Emits(s)
      BY <1>3, <3>2 DEF Hears
    <3>3. CASE Coming(b, s)
      <4>1. PICK q \in requests : Comes(q, b, s)
        BY <3>3 DEF Coming
      <4>2. CASE q = r
        BY <1>1, <1>2, <1>3, <2>1, <2>3, <4>1, <4>2 DEF Tells, Hears
      <4>3. CASE q # r
        BY <1>2, <4>1, <4>3 DEF Hears, Coming, Comes
      <4> QED
        BY <4>2, <4>3
    <3>4. CASE Newest(inbox[b], shown[b].events, s, events[s])
      BY <1>1, <1>2, <1>3, <2>1, <3>4 DEF Carries, Hears
    <3> QED
      BY <3>1, <3>2, <3>3, <3>4 DEF Hears
  <2> QED
    BY <2>2, <2>3
<1> QED
  BY <1>4, <1>5 DEF NewsInv, AllHear

(* In whatever order its requests are served, a page that kept its         *)
(* connection and is in the room of its session shows the events of that   *)
(* session once nothing is on its way, for any pages, threads and          *)
(* sessions, unless announcements of events overlapped or the page was     *)
(* sent events of another session.                                         *)
THEOREM EventsReachPages == Spec => []EventsShown
<1>1. Typed /\ NewsInv /\ [Next]_vars => NewsInv'
  <2> SUFFICES ASSUME Typed, NewsInv, [Next]_vars
               PROVE  NewsInv'
    OBVIOUS
  <2>1. CASE Next
    BY <2>1, NextCases, PageNews, ServedNews, SessionNews, ThreadNews
  <2>2. CASE UNCHANGED vars
    BY <2>2 DEF NewsInv, Fresh, UpToDate, AllHear, Listens, Hears, Fires, Emits, Coming, Comes,
      vars, rooms, threads, page, counted, history
  <2> QED
    BY <2>1, <2>2
<1>2. Typed /\ NewsInv => EventsShown
  <2> SUFFICES ASSUME Typed, NewsInv, NEW b \in Browsers, NEW s, s = current[b], Quiet(b), drops[b] = 0,
                      b \notin mixed, s \in sessions \ overlap, b \in members[s]
               PROVE  shown[b].events.value = events[s] /\ shown[b].events.sid = s
    BY DEF EventsShown
  <2>1. /\ \A r \in requests : r.page # b
        /\ inbox[b] = <<>> /\ \A t \in Threads : thread[t].pc = "idle"
    BY DEF Quiet, Served, Idle
  <2>2. Listens(b, s) /\ s \in Sids
    BY DEF Listens, Typed
  <2>3. Hears(b, s)
    BY <2>2 DEF NewsInv, AllHear
  <2>4. ~Fires(s) /\ ~Emits(s) /\ ~Coming(b, s)
    BY <2>1 DEF Fires, Emits, Coming, Comes
  <2>5. shown[b].events = [sid |-> s, value |-> events[s]]
    BY <2>1, <2>3, <2>4 DEF Hears, Newest
  <2> QED
    BY <2>5
<1> QED
  BY <1>1, <1>2, StepTyped, InitTyped, InitNews, PTL DEF Spec
=============================================================================
