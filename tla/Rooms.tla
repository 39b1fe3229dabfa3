-------------------------------- MODULE Rooms --------------------------------
(***************************************************************************)
(* What browsers see: the rooms of cgcserv/__main__.py (on_join, on_leave, *)
(* sessionEvent, sessionCoverageChange), the notifier thread of            *)
(* cgcserv/coverage.py and the page cgcserv/templates/index.html.          *)
(*                                                                         *)
(* A room is named by a session id; what is emitted to it is put in the    *)
(* inbox of every member at that moment, and each inbox is delivered in    *)
(* order.  The socket library starts a thread per request: the requests of *)
(* a page are served in any order, and interleaved.                        *)
(*                                                                         *)
(* The coverage and the events of a session are counters of their changes. *)
(* Sessions exist from the beginning, and may be stopped.                  *)
(***************************************************************************)
EXTENDS Integers, FiniteSets, Sequences

CONSTANTS
  Browsers, Sids, None,   \* None: no session, no coverage
  Threads,     \* instance threads that log events
  Bounds,      \* bound: what may happen in a behaviour, one of these: how often the
               \* coverage of a session changes (notified if at all), how many events it
               \* has, how many connections a page loses, which sessions may be stopped
  MaxClicks,   \* bound: clicks on sessions, per page
  MaxInbox     \* bound: messages on their way to a page

ASSUME RoomsAssumption ==
  /\ None \notin Sids
  /\ \A c \in Bounds : /\ \A s \in Sids : c.coverage[s] \in Nat /\ c.events[s] \in Nat
                       /\ c.drops \in Nat /\ c.stops \subseteq Sids
  /\ MaxClicks \in Nat /\ MaxInbox \in Nat \ {0}

VARIABLES
  bound,     \* which of Bounds
  sessions,  \* keys of the dictionary
  coverage,  \* per session, what dump_coverage returns
  events,    \* per session, Service.events
  members,   \* per room
  requests,  \* the requests of the pages that are under way
  notifier,  \* per session, the coverage that its notifier has read
  thread,    \* per instance thread, the event it announces
  inbox,     \* per page, the messages on their way to it
  current,   \* per page, currentSession
  shown,     \* per page and kind, the session and value shown last
  clicks, drops, \* per page, how often
  overlap,   \* history: sessions with two announcements of events at once
  crossed,   \* history: page and session whose last request met another one
  mixed      \* history: pages sent events of another session since their click

rooms   == <<sessions, members>>
threads == <<notifier, thread>>
page    == <<current, shown>>
counted == <<clicks, drops, bound>>
history == <<overlap, crossed, mixed>>
vars == <<rooms, coverage, events, requests, threads, inbox, page, counted, history>>

Nothing == [sid |-> None, value |-> 0]
Idle    == [sid |-> None, pc |-> "idle", value |-> 0]

Init ==
  /\ bound \in Bounds
  /\ sessions = Sids
  /\ coverage = [s \in Sids |-> 0]
  /\ events   = [s \in Sids |-> 0]
  /\ members  = [s \in Sids |-> {}]
  /\ requests = {}
  /\ notifier = [s \in Sids |-> [pc |-> "sleep", value |-> 0]]
  /\ thread   = [t \in Threads |-> Idle]
  /\ inbox    = [b \in Browsers |-> <<>>]
  /\ current  = [b \in Browsers |-> None]
  /\ shown    = [b \in Browsers |-> [coverage |-> Nothing, events |-> Nothing]]
  /\ clicks   = [b \in Browsers |-> 0]
  /\ drops    = [b \in Browsers |-> 0]
  /\ overlap = {} /\ crossed = {} /\ mixed = {}

Message(kind, s, v) == [kind |-> kind, sid |-> s, value |-> v]

(* socketio.emit(..., room = s) *)
Emit(kind, s, v) ==
  /\ \A b \in members[s] : Len(inbox[b]) < MaxInbox
  /\ inbox' = [b \in Browsers |-> IF b \in members[s] THEN Append(inbox[b], Message(kind, s, v))
                                                      ELSE inbox[b]]
  /\ mixed' = IF kind = "events" THEN mixed \cup {b \in members[s] : current[b] # s} ELSE mixed

(* Somebody has read the events of s and not sent them yet. *)
Announcing(s) ==
  \/ \E t \in Threads : thread[t].sid = s /\ thread[t].pc = "emit"
  \/ \E r \in requests : r.sid = s /\ r.pc = "emit_events"
ReadsEvents(s) == overlap' = IF Announcing(s) THEN overlap \cup {s} ELSE overlap

-----------------------------------------------------------------------------
(* The page *)

(* A request: of the page b, with its n-th click and over its k-th         *)
(* connection.                                                             *)
Request(b, op, s, n, k) ==
  [page |-> b, op |-> op, sid |-> s, click |-> n, conn |-> k, pc |-> "check", value |-> 0]

(* A request of b has still to touch the room of s. *)
Pending(r, b, s) == r.page = b /\ r.sid = s /\ r.pc \in {"check", "enter", "exit"}

(* What a click on s sends: both at once. *)
Sent(b, s) ==
  {Request(b, "join", s, clicks[b], drops[b])} \cup
  (IF current[b] = None THEN {} ELSE {Request(b, "leave", current[b], clicks[b], drops[b])})

(* joinSession *)
Click(b, s) ==
  /\ clicks[b] < MaxClicks
  /\ current[b] # s
  /\ requests' = requests \cup Sent(b, s)
  /\ current' = [current EXCEPT ![b] = s]
  /\ shown'   = [shown EXCEPT ![b].events = Nothing]
  /\ clicks'  = [clicks EXCEPT ![b] = @ + 1]
  /\ LET about == {<<b, s>>, <<b, current[b]>>}
         meets == {p \in about : \E r \in requests : Pending(r, p[1], p[2])}
     IN  crossed' = (crossed \ about) \cup meets
  /\ mixed' = mixed \ {b}
  /\ UNCHANGED <<rooms, coverage, events, threads, inbox, drops, bound, overlap>>

(* socket.on('events', ...), socket.on('coverage', ...): the session that  *)
(* the message is about is not in it.  Without a coverage the handler      *)
(* raises before it changes anything.                                      *)
Deliver(b) ==
  /\ inbox[b] # <<>>
  /\ LET m == Head(inbox[b]) IN
       shown' = IF m.kind = "coverage" /\ m.value = None
                THEN shown
                ELSE [shown EXCEPT ![b][m.kind] = [sid |-> m.sid, value |-> m.value]]
  /\ inbox' = [inbox EXCEPT ![b] = Tail(@)]
  /\ UNCHANGED <<rooms, coverage, events, requests, threads, current, counted, history>>

(* The connection is lost and made again: the library takes the page out   *)
(* of its rooms, and its `connect' handler only asks for the sessions.     *)
(* Requests that no thread serves yet may be lost; the threads go on.      *)
Reconnect(b) ==
  /\ drops[b] < bound.drops
  /\ members' = [s \in Sids |-> members[s] \ {b}]
  /\ \E lost \in SUBSET {r \in requests : r.page = b /\ r.pc = "check"} : requests' = requests \ lost
  /\ inbox'   = [inbox EXCEPT ![b] = <<>>]
  /\ drops'   = [drops EXCEPT ![b] = @ + 1]
  /\ UNCHANGED <<sessions, coverage, events, threads, page, clicks, bound, history>>

-----------------------------------------------------------------------------
(* on_join and on_leave: the thread that serves the request r *)

At(r, op, pc)  == r.op = op /\ r.pc = pc
Becomes(r, q)  == requests' = (requests \ {r}) \cup {q}
Goto(r, pc)    == Becomes(r, [r EXCEPT !.pc = pc])
Got(r, pc, v)  == Becomes(r, [r EXCEPT !.pc = pc, !.value = v])
Done(r)        == requests' = requests \ {r}
Connected(r)   == r.conn = drops[r.page]

(* if sid in sessions; else an error, that the page logs. *)
JoinCheck(r) ==
  /\ At(r, "join", "check")
  /\ IF r.sid \in sessions THEN Goto(r, "enter") ELSE Done(r)
  /\ UNCHANGED <<rooms, coverage, events, threads, inbox, page, counted, history>>

(* When its connection is gone no page enters, and the library goes on or  *)
(* raises.                                                                 *)
JoinRoom(r) ==
  /\ At(r, "join", "enter")
  /\ \/ /\ Connected(r)
        /\ members' = [members EXCEPT ![r.sid] = @ \cup {r.page}]
        /\ Goto(r, "read_events")
     \/ /\ ~Connected(r)
        /\ Goto(r, "read_events") \/ Done(r)
        /\ UNCHANGED members
  /\ UNCHANGED <<sessions, coverage, events, threads, inbox, page, counted, history>>

(* sessions[sid].events: a session stopped meanwhile is a KeyError, which  *)
(* error_handler raises again: the request ends with the page in the room. *)
JoinReadEvents(r) ==
  /\ At(r, "join", "read_events")
  /\ IF r.sid \in sessions
     THEN Got(r, "emit_events", events[r.sid]) /\ ReadsEvents(r.sid)
     ELSE Done(r) /\ UNCHANGED overlap
  /\ UNCHANGED <<rooms, coverage, events, threads, inbox, page, counted, crossed, mixed>>

JoinEmitEvents(r) ==
  /\ At(r, "join", "emit_events")
  /\ Emit("events", r.sid, r.value)
  /\ Got(r, "read_coverage", 0)
  /\ UNCHANGED <<rooms, coverage, events, threads, page, counted, overlap, crossed>>

(* dump_coverage: None when a process in `instances' is gone, which is so  *)
(* for a moment at every exit and for good after a SIGSEGV.                *)
Dumps(s) == IF bound.coverage[s] > 0 THEN {coverage[s], None} ELSE {coverage[s]}

JoinReadCoverage(r) ==
  /\ At(r, "join", "read_coverage")
  /\ IF r.sid \in sessions THEN \E v \in Dumps(r.sid) : Got(r, "emit_coverage", v) ELSE Done(r)
  /\ UNCHANGED <<rooms, coverage, events, threads, inbox, page, counted, history>>

JoinEmitCoverage(r) ==
  /\ At(r, "join", "emit_coverage")
  /\ Emit("coverage", r.sid, r.value)
  /\ Done(r)
  /\ UNCHANGED <<rooms, coverage, events, threads, page, counted, overlap, crossed>>

LeaveCheck(r) ==
  /\ At(r, "leave", "check")
  /\ IF r.sid \in sessions THEN Goto(r, "exit") ELSE Done(r)
  /\ UNCHANGED <<rooms, coverage, events, threads, inbox, page, counted, history>>

LeaveRoom_Current(r) ==
  /\ At(r, "leave", "exit")
  /\ members' = IF Connected(r) THEN [members EXCEPT ![current[r.page]] = @ \ {r.page}] ELSE members
  /\ Done(r)
  /\ UNCHANGED <<sessions, coverage, events, threads, inbox, page, counted, history>>

LeaveRoom(r) ==
  /\ At(r, "leave", "exit")
  /\ members' = IF Connected(r) THEN [members EXCEPT ![r.sid] = @ \ {r.page}] ELSE members
  /\ Done(r)
  /\ UNCHANGED <<sessions, coverage, events, threads, inbox, page, counted, history>>

OnJoin(r) ==
  \/ JoinCheck(r) \/ JoinRoom(r)
  \/ JoinReadEvents(r) \/ JoinEmitEvents(r)
  \/ JoinReadCoverage(r) \/ JoinEmitCoverage(r)

OnLeave(r) == LeaveCheck(r) \/ LeaveRoom(r)

-----------------------------------------------------------------------------
(* The session *)

(* sessions.pop; nobody tells the rooms or the notifier. *)
SessionStop(s) ==
  /\ s \in bound.stops \cap sessions
  /\ sessions' = sessions \ {s}
  /\ UNCHANGED <<members, coverage, events, requests, threads, inbox, page, counted, history>>

(* Its processes run. *)
Covers(s) ==
  /\ s \in sessions /\ coverage[s] < bound.coverage[s]
  /\ coverage' = [coverage EXCEPT ![s] = @ + 1]
  /\ UNCHANGED <<rooms, events, requests, threads, inbox, page, counted, history>>

LogEvent_FireFirst(t, s) ==
  /\ thread[t] = Idle
  /\ s \in sessions /\ events[s] < bound.events[s]
  /\ events' = [events EXCEPT ![s] = @ + 1]
  /\ thread' = [thread EXCEPT ![t] = [sid |-> s, pc |-> "emit", value |-> events[s]]]
  /\ UNCHANGED <<rooms, coverage, requests, notifier, inbox, page, counted, history>>

(* log_event; then fireEvent calls sessionEvent. *)
LogEvent(t, s) ==
  /\ thread[t] = Idle
  /\ s \in sessions /\ events[s] < bound.events[s]
  /\ events' = [events EXCEPT ![s] = @ + 1]
  /\ thread' = [thread EXCEPT ![t] = [sid |-> s, pc |-> "fire", value |-> 0]]
  /\ UNCHANGED <<rooms, coverage, requests, notifier, inbox, page, counted, history>>

SessionEvent(t) ==
  /\ thread[t].pc = "fire"
  /\ thread' = [thread EXCEPT ![t] = [@ EXCEPT !.pc = "emit", !.value = events[thread[t].sid]]]
  /\ ReadsEvents(thread[t].sid)
  /\ UNCHANGED <<rooms, coverage, events, requests, notifier, inbox, page, counted, crossed, mixed>>

EmitEvent(t) ==
  /\ thread[t].pc = "emit"
  /\ Emit("events", thread[t].sid, thread[t].value)
  /\ thread' = [thread EXCEPT ![t] = Idle]
  /\ UNCHANGED <<rooms, coverage, events, requests, notifier, page, counted, overlap, crossed>>

Tick_OnChange(s) ==
  /\ bound.coverage[s] > 0
  /\ notifier[s].pc = "sleep" /\ notifier[s].value # coverage[s]
  /\ \E v \in Dumps(s) : notifier' = [notifier EXCEPT ![s] = [pc |-> "emit", value |-> v]]
  /\ UNCHANGED <<rooms, coverage, events, requests, thread, inbox, page, counted, history>>

(* PyGcovRT.run: every half second sessionCoverageChange, for ever. *)
Tick(s) ==
  /\ bound.coverage[s] > 0
  /\ notifier[s].pc = "sleep"
  /\ \E v \in Dumps(s) : notifier' = [notifier EXCEPT ![s] = [pc |-> "emit", value |-> v]]
  /\ UNCHANGED <<rooms, coverage, events, requests, thread, inbox, page, counted, history>>

NotifyChange(s) ==
  /\ notifier[s].pc = "emit"
  /\ Emit("coverage", s, notifier[s].value)
  /\ notifier' = [notifier EXCEPT ![s].pc = "sleep"]
  /\ UNCHANGED <<rooms, coverage, events, requests, thread, page, counted, overlap, crossed>>

-----------------------------------------------------------------------------

Next ==
  \/ \E b \in Browsers :
       \/ Deliver(b) \/ Reconnect(b)
       \/ \E s \in Sids : Click(b, s)
  \/ \E r \in requests : OnJoin(r) \/ OnLeave(r)
  \/ \E s \in Sids : SessionStop(s) \/ Covers(s) \/ Tick(s) \/ NotifyChange(s)
  \/ \E t \in Threads : SessionEvent(t) \/ EmitEvent(t) \/ \E s \in Sids : LogEvent(t, s)

Spec == Init /\ [][Next]_vars

(* Threads are scheduled and messages arrive; nobody has to click, to stop *)
(* a session or to execute anything.  (Strong fairness where MaxInbox, a   *)
(* bound of the model, makes an emission wait.)                            *)
Serve(b) == \E r \in requests : r.page = b /\ (OnJoin(r) \/ OnLeave(r))

Fairness ==
  /\ \A b \in Browsers : WF_vars(Deliver(b)) /\ SF_vars(Serve(b))
  /\ \A s \in Sids : WF_vars(Tick(s)) /\ SF_vars(NotifyChange(s))
  /\ \A t \in Threads : WF_vars(SessionEvent(t)) /\ SF_vars(EmitEvent(t))

FairSpec == Spec /\ Fairness

-----------------------------------------------------------------------------
(***************************************************************************)
(* Properties                                                              *)
(***************************************************************************)

Values    == Nat \cup {None}
Snapshots == [sid : Sids \cup {None}, value : Values]
Requests  == [page : Browsers, op : {"join", "leave"}, sid : Sids, click : Nat, conn : Nat,
              pc : {"check", "enter", "exit", "read_events", "emit_events", "read_coverage",
                    "emit_coverage"}, value : Values]

TypeOK ==
  /\ bound \in Bounds
  /\ sessions \subseteq Sids
  /\ coverage \in [Sids -> Nat]
  /\ events \in [Sids -> Nat]
  /\ members \in [Sids -> SUBSET Browsers]
  /\ requests \subseteq Requests
  /\ notifier \in [Sids -> [pc : {"sleep", "emit"}, value : Values]]
  /\ thread \in [Threads -> [sid : Sids \cup {None}, pc : {"idle", "fire", "emit"}, value : Nat]]
  /\ inbox \in [Browsers -> Seq([kind : {"coverage", "events"}, sid : Sids, value : Values])]
  /\ current \in [Browsers -> Sids \cup {None}]
  /\ shown \in [Browsers -> [coverage : Snapshots, events : Snapshots]]
  /\ clicks \in [Browsers -> Nat]
  /\ drops \in [Browsers -> Nat]
  /\ overlap \subseteq Sids
  /\ crossed \subseteq Browsers \X (Sids \cup {None})
  /\ mixed \subseteq Browsers

Served(b) == \A r \in requests : r.page # b

Quiet(b) ==
  /\ Served(b) /\ inbox[b] = <<>>
  /\ \A t \in Threads : thread[t] = Idle

(* When its requests are served, in whatever order, a page that kept its   *)
(* connection is in the room of its session, if that lives, and in no room *)
(* of another session that lives, although a join and a leave look up the  *)
(* session before they touch the room.  Excepted is a room whose last      *)
(* request was sent while another one for it was under way: the two may be *)
(* served the other way round.  The next request for the room sets it      *)
(* right.                                                                  *)
RoomFollowsPage ==
  \A b \in Browsers : Served(b) /\ drops[b] = 0 =>
    \A s \in sessions : <<b, s>> \notin crossed => (b \in members[s] <=> s = current[b])

(* A page that is in the room of its session misses no event: when nothing *)
(* is on its way, it shows the events of the session, joined before, after *)
(* or while they were logged.  Excepted are announcements that overlap     *)
(* (two threads that read the events one after the other may emit them the *)
(* other way round, and nothing is emitted until the next event), and a    *)
(* page that was, since its click, sent the events of another session.     *)
EventsShown ==
  \A b \in Browsers :
    LET s == current[b] IN
    /\ Quiet(b) /\ drops[b] = 0 /\ b \notin mixed
    /\ s \in sessions \ overlap /\ b \in members[s]
    => /\ shown[b].events.value = events[s]
       /\ shown[b].events.sid = s

Watches(b, s) ==
  bound.coverage[s] > 0 /\ current[b] = s /\ s \in sessions /\ b \in members[s] /\ \A r \in Sids \ {s} : b \notin members[r]
Shows(b, s) == shown[b].coverage = [sid |-> s, value |-> coverage[s]]

(* The notifier of s can read a coverage again and again: no process of s  *)
(* had a SIGSEGV.                                                          *)
Readable(s) == []<>(notifier[s].value # None)

(* A page that stays in the room of its session, and in no other, comes to *)
(* show that session's coverage, and shows it from then on, although every *)
(* notification may be old when it is emitted, or have no coverage, and    *)
(* old ones of another session may still arrive: if the coverage can be    *)
(* read again and again.                                                   *)
CatchesUp ==
  \A b \in Browsers, s \in Sids : <>[]Watches(b, s) /\ Readable(s) => <>[]Shows(b, s)

(* The rest does not hold of the code: TLC finds counterexamples.          *)

(* "You can see live coverage results for this session by pointing your    *)
(* browser to" the server (README.md): a page that stays on a session that *)
(* lives comes to show its coverage.                                       *)
LiveCoverage ==
  \A b \in Browsers, s \in Sids :
    <>[](current[b] = s /\ s \in sessions) => <>[]Shows(b, s)

(* A page is in no room but that of its session: it cannot leave the room  *)
(* of one that is stopped, whose notifier goes on.                         *)
OneRoom ==
  \A b \in Browsers : Served(b) /\ drops[b] = 0 =>
    \A s \in Sids : <<b, s>> \notin crossed /\ b \in members[s] => s = current[b]

(* A page follows its clicks, in whatever order they are served.           *)
RoomFollowsClicks ==
  \A b \in Browsers : Served(b) /\ drops[b] = 0 => \A s \in sessions : b \in members[s] <=> s = current[b]
=============================================================================
