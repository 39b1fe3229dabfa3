# cgcserv in TLA+

A verification development of the CGC server (`cgcserv/`, `services/`,
`demos/`): TLA+ modules translated from the Python source, TLC configurations
that check them on small instances, and TLAPS proofs of their invariants for
every value of the constants.  Paths below are relative to the repository.

## 1. The system

The server starts *services* (instrumented C programs) on request.  A started
service is a *session*: it listens on a TCP port, and each client that connects
gets a process of its own, traced with ptrace, whose coverage and events
(signals, exits) are collected and shown to browsers.

| component | state it keeps | operations | talks to |
|---|---|---|---|
| session manager, `cgcserv/__main__.py` | `sessions`, `freeports`, `usedports` | start, stop, list and broadcast sessions, start a debugger; one thread per request, no lock | Service (constructor, `start`, `stop`), browsers (socketio), gdbgui |
| `Service`, `cgcserv/service.py` | `running`, `sock`, `instances`, `events`, `cores`, session directory | constructor, accept loop, `stop`, `dump_coverage`, `fireEvent` | Instance, MasterInstance, Coverage |
| `Instance`, `cgcserv/instance.py` | `pid`, `running`, `conn`, `eventLock` | event loop (`waitpid`, handle, respawn), `log_event`, `__capturecore`, `stop` | the kernel, `Service.instances` and `events`, Coverage |
| `MasterInstance`, `cgcserv/instance.py` | `pid` | creation, `stop` | the kernel |
| `Coverage`, `PyGcovRT`, `cgcserv/coverage.py` | `coverage`, `listeners` | `__add__`, `capture`, `get`, notifier thread | pygcovrt (external), browsers |
| rooms and browsers, `__main__.py`, `templates/index.html` | room members; per page `currentSession` | join, leave, emit; click, show | session manager, the threads of sessions |
| server shutdown, `__main__.py` | none | `cleanup` at exit | every session |
| UML service, `services/wifi_relay/__init__.py`, `init` | its own `coverage`, report and lock file | own spawn, watch, `update`; write a report, touch the lock | Service, inotify |
| packet relay, `relay.c`, `demos/wifi-relay/start.sh` | a length and a buffer | framing over a stream | the service's stdin |
| coverage tree and source view, `static/srccoverage.js` | a tree of directories, a table of lines | aggregate counts, fetch a source | the page, the server |
| demo fuzzers, `demos/*/dist.py`, `ptass_fuzz.py` | histograms | sample | a session's port |
| demo client, `demos/socketio/cgcclient.py` | `sid` | start, join, stop | session manager |
| `PortChooser`, `cgcserv/portchooser.py` | two lists | get, put | nobody |

What is hard about it, in the order of the hazards in PROJECT.json:

- **Requests interleave.**  Socketio runs with `async_mode="threading"`; the
  three globals are changed without a lock, and correctness rests on each list
  or dictionary operation being atomic under the interpreter lock and on their
  order.
- **A start or a stop fails half way.**  Ports, sockets, directories and the
  master process are left to nobody.
- **The accept thread, the instance threads and the stopping thread** share
  `instances`, `running` and the process table.  The stop iterates over a
  dictionary that others change, signals a pid that others replace and joins a
  thread that respawns.
- **Processes end in any way at any time**: exit through the breakpoint,
  signal, crash with a core, SIGPIPE; each has its own branch and its own way
  to reap.
- **Coverage and event counts are read, changed and written** by all the
  threads of a session, each under a lock of its own.  The threads of the UML
  service share a report file, a lock file and a parsed report as well.
- **What a browser shows is always late.**  It is read at one time, emitted at
  another and delivered at a third; pages change rooms meanwhile, lose their
  connections, and get answers in another order than they asked.
- **Formats and arithmetic**: 16-bit lengths on a stream that ends anywhere, a
  parser that sums over records, a sampler that subtracts weights, a walk that
  rewrites the lexer it walks.

What makes each part correct: a port has one owner; what is published is live;
a stop closes everything it promises to; an instance has one process, which is
always reaped, found and never left frozen; a dead process is replaced; counts
are neither invented nor lost; a page shows the session that it is on, and
comes to show what is true of it; what is sent is what arrives, and what a
message generator makes is what the parser takes.

## 2. Modules

| module | models | composed of |
|---|---|---|
| `PortPool` | abstract: who owns each port | |
| `InstanceLife` | abstract: the life of an instance and its processes | |
| `Sessions` | `__main__.py`, with the constructor of `Service` as steps | implements `PortPool` |
| `Service` | `Service.run`, `Service.stop`, `Instance`, the kernel's processes | implements `InstanceLife` |
| `Telemetry` | `capture`, `__add__`, `log_event` | |
| `Rooms` | rooms, announcements, notifier threads and pages | |
| `Display` | the coverage tree, the source view and `PyGcovRT.get` | |
| `Client` | the demo client with the server's handlers | |
| `UML` | `UMLInstance.run`, `UMLCoverage.update`, the script `init` | |
| `Relay` | `sendpkt` and `relay.c` | |
| `Lexer` | the tables of `ptass_fuzz.py` | |
| `Walk` | its loop, for any tables and any choice of arcs | |
| `Dist`, `DistSample` | the constructor and the sampling of `dist.py`, and how the walk counts the arcs it takes | `DistSample` extends `Dist` |
| `MC...` | the small instances TLC checks (constants, symmetry sets) | |
| `SessionsProofs`, `ServiceProofs`, `TelemetryProofs`, `RoomsProofs` | theorems about the module of that name | extend it |
| `FuzzerProofs` | theorems about the fuzzer | extends `Walk`, `Lexer`, `DistSample` |
| `WifiRelayProofs` | theorems about the wifi-relay service | extends `Relay`, `UML` |
| `ClientProofs` | theorems about the demo client and the page | extends `Client`, `Display` |
| `SumTheorems` | lemmas on sums over finite sets | |

Modules that are extended together name their specifications apart: `WalkSpec`
(`WalkInit`, `WalkNext`, `FairWalkSpec`), `RelaySpec`, `DisplaySpec`; the others
have `Init`, `Next`, `Spec` and, where there is fairness, `FairSpec`.

### Sessions

A request thread `t` has a program counter `pc[t]` and the locals that outlive a
step: `hport` (the popped port), `hsid` (the service it made or popped), `seen`
(the summary being built).  One action is one operation that the interpreter
lock makes atomic.  `freeports` and `usedports` are sequences, popped and
appended at the end as the lists are; `sessions[s]` is the port of the
registered service, `NoPort` when `s` is no key.

`sessionStart` is StartPop, FactoryMakeDirs, StartServer, Launch, MarkUsed,
Register and then the broadcast, with FactoryReject, BindRefused and
LaunchRaises where the code may raise.  `sessionStop` is StopPop, StopClose,
StopInstances, StopUnuse, StopFree and the broadcast, with StopRaises where
`Service.stop` raises; that it may also hang needs no action, as no fairness is
assumed.  `update_sessions` is SummaryBegin, SummaryEnd or SummaryRaises, and
Emit.  Each step of a comprehension over a dictionary checks the size alone: it
raises when another thread has changed the size, and goes on when a key came and
another went.  It then meets any of the keys, and may pass over keys that stayed,
even that of the request's own session, because an insertion may make the table
anew under the iterator; `moved` are the requests to which this happened, and
only of the others is it said what their summary contains.  `session_gdb`
and its thread are SessionGdb and Gdb.  Reading routes change nothing and have
no action.

Which ports have a socket (`bound`) and which still refuse a bind because of old
connections (`lingering`) belong to the kernel.

A session id is made once (the names of `mkdtemp` do not repeat), so their
number bounds the starts.  `Owner` maps the state to the abstract one: a port
belongs to the pool, a request, a session, a debugger or nobody.

### Service

Threads: the accept thread (`svc`), one Instance thread per connection (`ipc`),
the thread in `Service.stop` (`stop`).  `proc` is the process table: a process
runs, is in one of the ptrace stops that `waitpid` will report, is stopped and
reported (`held`), is past its exit breakpoint (`exiting`), is a zombie, or runs
detached (`loose`).  Every branch of `__handle_event` is an action.  The
`eventLock` is held from Lock to the end of the handler, over the respawn and
the blocking `waitpid` after SIGPIPE (`drain`).  `instances` holds the keys of
the dictionary; the value of a key is known from the pid.  `walk` is the
iterator of `Service.stop`: it fails when the size changed since its start, and
may end early when keys were exchanged, as Python's does.

`Stage` and `Life` map the threads and the processes to those of `InstanceLife`:
the thread tends its instance from its start to its end, a process runs (also on
its way out, and detached), is in a ptrace stop, or is a zombie.

Not modelled here: the coverage and the cores that handling an event also
writes (the first is in Telemetry), and fatal errors of `fork` and `ptrace`.

### Telemetry

Two objects that all instance threads of a session change: the accumulated
coverage, here the count of one line, and `events`.  Each read and each write
is an action.  The history variables `executed`, `captured` and `logged` record
what happened, to compare with what the service reports; `overlap` holds what
two threads have updated at the same time.

### Rooms

`sessions` are the keys of the dictionary, `members[s]` the room of a session.
A page sends `leave` and `join` with a click.  The server's
`SocketIO(app, async_mode="threading")` (`__main__.py:24`) leaves
`async_handlers` at its default, a thread per event: `requests` is a set, each
of its members goes through the steps of `on_join` or `on_leave` by itself, in
any order and interleaved.  The steps are the look-up, entering or leaving the
room, reading and emitting the events, reading and emitting the coverage.  A
look-up that fails later is the KeyError that ends the request with the page in
the room (`JoinReadEvents`).

`Reconnect` takes the page out of its rooms and may lose requests that no thread
serves yet; a thread that serves one goes on, changes no room (`Connected`), and
still emits to the room, or raises in the library.

Events and coverage are counters of their changes.  `Dumps` is what
`dump_coverage` returns: the coverage, or `None` when the counters of a process in
`instances` cannot be read (`coverage.py:88-92`), which happens for a moment when
a process exits and for good after a SIGSEGV (`instance.py:86`).  The page's
handler raises at a message without coverage before it changes anything.  A
message goes into the inbox of every member of the room at that moment.  `Tick`
is every half second of a notifier thread, also of a stopped session.  The
emission waits while an inbox is at its bound, for which the fairness is strong.

What may happen in one behaviour (how often coverage changes, how many events and
lost connections there are, which sessions may stop) is drawn from the constant
`Bounds` at the beginning, so that one run looks at several such combinations; a
session whose coverage never changes is not notified of.

Three histories say what the properties except.  `crossed`: the last request for
a room met another one for it, so that the two may be served the other way round.
`overlap`: two announcements of a session's events overlapped.  `mixed`: the page
was sent events of another session since its click, by an announcement made when
it had not left that room yet.

### Display

A node of the tree is a path (a sequence of names) with its counts and the bar
that was drawn last; a directory's bar is drawn only when its executed lines
change, as in the code.  The source view has the file that was clicked last,
the file whose lines are in the table, the count beside each line and a bag of
requests under way, answered in any order or never with success.  A message
that is null (`get` failed) raises in the page's handler before anything is
changed, and is no step.

### Client

`cgcclient.py` has two threads, main and the socket library's, and the server
answers in its own time: a start ends with a session, an error or nothing.
`drops` numbers the connections: an answer to an earlier one is lost, and so is
what was under way.  Where the code may raise nobody is answered: before there
is a session (`SessionRaises`), after it was registered, when `update_sessions`
raises (`SessionUntold`), and after it was taken out, when `Service.stop` or
`update_sessions` raises (`SessionStopRaises`, recorded in `silent`): then the
client waits for its `stop` for ever.

### UML

A report is a sequence of lines (`SF`, `DA`, `end_of_record`, or a line cut
short).  A step of a thread is one line of the report, except that a line that
names a file is looked up in one step and taken or made in another, as another
thread may reset the coverage between them; an entry that is no longer in the
dictionary is `Detached`.  Events of `inotify` queue up per thread, in
`pending`.  Assumed, and named at `Begin`: the boot of a kernel and the five
seconds that it sleeps are longer than a thread takes to add its watch and to
parse the report before.  What is visible of an unfinished report is one of its
prefixes, perhaps with a line cut short.  `apart` are the threads whose last
update met no other; it is history.

### Relay

A byte has `Radix` values, so that the 16-bit length is `Radix * Radix` and
everything that depends on the width (`Uint16`, `ntohs`) can be run over.  One
byte is one step; `fread` returns when it has all or the stream is at its end.
`len` starts with any value, as the code leaves it.

### Lexer, Walk, Dist, DistSample

`Lexer` is the table of `ptass_fuzz.py`, state by state, in the few forms its
rows have.  `Walk` is the loop over any table that satisfies `TableAssumption`
(which TLC evaluates for the real one): the arcs without failure, the accepting
states replaced by the start, CR replaced by LF.  The buffer is represented by
the state in which it leaves the lexer.  `run` uses the name `st` both for the
state of the walk and in the loops that make (`ptass_fuzz.py:583`) and print
(line 604) the histograms.  So the walk begins in the last state, 67, with an
empty buffer and not in the start state, and is put there again after each message
whose number is a multiple of `Period` (1000 in the code): `WalkInit` and
`MessageEnds`.  `begun` is the state in which the message under way was begun.

`Dist` has exact rationals where the code has floats, given as integer weights
over their sum; rounding is not modelled, nor is the conversion of a value in
[0, 1) to an index (`dist.py:69-74`): a sample is an index here. `1e-6` is
`1/Resolution`, made coarse in the runs so that it is met. `DistSample` takes
one turn of the loop of `_sample` per step. A histogram is either given, or
begins at zero and is that of a state of the walk (`fuzzing`): then `step`
counts each arc and makes a new object from the counts, up to `MaxVisits`;
`waits` are the visits since an arc was taken last. The walk itself is open to
any choice of arcs, so the two meet in what `Walk` assumes, that no arc is
avoided for ever, and `DistSample` shows (`LeavesLoops`).

## 3. Runs

| run | constants | question | states |
|---|---|---|---|
| `sessions` | 2 requests, 3 session ids, 2 ports | do ports stay exclusive, are sessions live when published, is what is announced there, and is this the abstract pool? | 325 398 |
| `out_of_ports` | 1 request, 2 ids, 2 ports | is "Out of ports" true? *no* | |
| `service` | 1 client, 2 pids | is this the abstract life of an instance? one process at a time, found, reaped and never frozen; what a stop closes; do processes respawn and go on, does the accept thread end? | 16 843 |
| `stop_terminates` | 1 client, 2 pids | does a stop return? *no* | |
| `telemetry` | 2 clients, 2 executions, 4 events | are counts ever invented, wiped out or doubled, and are they exact when updates do not overlap? | 956 910 |
| `rooms` | 1 page, 2 sessions, 1 thread, 2 clicks, requests in any order; with coverage and 1 lost connection, or with events and a session that stops | does a page end up in its room, miss no event, and come to show its session's coverage? | 316 923 |
| `display` | 2 sessions of a service with 3 lines in nested directories, counts to 2, 3 requests | are bars and counts exact? | 26 787 |
| `client` | 3 sessions, 2 lost connections | does the client stop what it started? | 1 365 |
| `uml` | 2 clients, 2 reports on two files | is what is shown the report, is the last report shown at rest, is a thread left to watch? | 3.6 million |
| `relay` | bytes of 3 values, files of up to 3 bytes, 3 frames | do the packets that go out equal the file? | 63 854 |
| `walk` | the whole lexer, 15 of its bytes, a printing at every 2nd message | which messages are accepted, and do they end? | 19 002 |
| `dist` | 2 to 4 bins, counts to 3, random numbers of 5 values, walks of 12 visits | is the sampler the inverse distribution, are arcs taken evenly and loops left? | 117 462 |

Bounds.  The races of the session manager are between two request threads, and
two ports let one be free while the other is worked with; three session ids let
both requests start or stop a session while a third was started before, and let
a port be used again.  In `service` a second pid makes a respawned process
different from the last, without which two processes of one instance could not
even be told apart.  One client is enough for what lies between an instance
thread and a stop, also for a dictionary that changes during the walk (a crashed
pid keeps its key, a respawned one gets another); the safety invariants are
proved for any number of clients.  In `telemetry`, with
four events each of two clients can log a name, be wiped out and log again.
Ids, requests and clients are interchangeable, and `sessions` and `telemetry`
use that symmetry.  Deadlock is checked in `sessions`, `out_of_ports` and
`walk`; a service that was stopped, or a module whose bounds are used up,
really stops, so the others do not check it.

In `rooms` one thread is enough for an announcement that meets a join (two that
meet each other are excepted by `EventsShown`); two clicks give a page two joins
and a leave under way at once, and with the lost connection between them old
requests, old notifications and old rooms.  A second page would share nothing with
the first but the session's announcements.  The two members of `SomeBounds` go
with the properties: coverage and a lost connection are what `CatchesUp` is about,
events and a stop what the other two are (they except a page that lost its
connection, and are proved for any bounds).  `MaxInbox` is one message, as more of
them only delay.

In `display` two sessions of one service let a page go to the other and back
while the tree, the source and the requests of the first are still there; two
files, one of them a directory deeper, make a bar of each kind.

In `relay` the files of three bytes have every length a frame may have and every
content, also one that looks like a length; the frames are three so that two
boundaries are crossed. In `uml` one report has a line with several counts and
two records of its file, the other is on another file, so that lines are summed
and files vanish. In `walk` there are the bytes that a row names by itself
(blank, line ends, period, comma, minus), two of the digits, the letters of the
commands and one that no command has; every state of the lexer is walked
through. Its `Period` is two, so that a message follows one that printed and one
that did not; nothing depends on its size but that it is more than one. In
`dist` twelve visits are six rounds of two arcs and three of four, past the
point where the coarse resolution takes the histogram for uniform.

Fairness.  Each thread takes a step when it can (the interpreter schedules its
threads), pending signals are delivered and messages arrive.  Nothing is
assumed of clients, of processes (a service may run for ever), or of anybody's
wish to click, to connect, to execute or to stop.  Respawns, StoppedIsResumed
and AcceptThreadEnds hold under that; StopTerminates fails under it.
Where a bound of the model makes a step wait (`MaxInbox`) the fairness is
strong.  `Walk` is fair only in that no state is looped at for ever, for the
reason given above.  `UML` needs none: `LastShown` speaks of the states in which
nothing is on its way.

### What the two other runs found

1. **A failed start loses its port** (`OutOfPorts`): any exception after
   `freeports.pop()`, an unknown service name included, a refused bind, or a
   stop that raises; "Out of ports" is then reported while no session exists.
2. **A stop hangs while a client is connected** (`StopTerminates`):
   `Instance.stop` sets `running = True`, so that the process it terminates is
   respawned and the join waits for a thread that goes on.

What else the code does not keep is in section 6.

## 4. Proofs

Every invariant, every action property and both refinements that a run checks
are theorems, 41 of which PROJECT.json lists.  They hold for any sets of requests,
ids, clients, pids and pages and any bounds, from the assumptions on the constants
that the modules name, which TLC evaluates in the runs:

| assumption | says | because |
|---|---|---|
| `PortRangeAssumption`, `NoSidAssumption` | a range of positive ports; a value that is no session id | `__main__.py` |
| `SlotsAssumption` | there is a pid to fork | |
| `ConnsAssumption`, `BoundsAssumption` | finitely many clients; bounds are numbers | sums and cardinalities over the clients |
| `RoomsAssumption`, `ClientAssumption` | bounds are numbers, of sessions, `None` is no session | |
| `DisplayAssumption` | finitely many files, none in the place of a directory of another | a file system |
| `UMLAssumption` | a record of a report begins with the line that names its file | `lcov` |
| `RelayAssumption` | a 16-bit length (of digits of any radix) holds the `MTU`, and a file is shorter | `relay.c` |
| `TableAssumption` | no arc leads to the start, a line end leads nowhere | theorem `TablesFit`, for the lexer of `ptass_fuzz.py` |
| `LastAssumption` | the last state is in the middle of a message and goes on with bytes that no message begins with; the fail state is never left; histograms are not printed after every message | `TablesFit`; 1000 in `ptass_fuzz.py:603` |
| `ResolutionAssumption`, `SizesAssumption`, `GrainAssumption` | positive denominators, at least two bins | `dist.py` asserts it |

Two theorems have a hypothesis of their own.  `BarsShown` is for sessions of one
service (`SameService`), a condition that section 6 shows to be needed, and
`ChoiceAlways` is about the program's own tables, whose last state is 67.
Elsewhere such a condition is in the property, as a history variable: no two
updates overlapped (`AggregatesApart`, `EventsExactApart`, `EventsShown`,
`ReportExact`, `LastShown`), no two requests for a room met (`RoomFollowsPage`), no
request moved a key during the iteration of another (`AnnouncesOwnChange`), the
message was begun in the start state (`SentIsAccepted`), the connection was kept
(`LeavesNone`).

Hardly any of the properties is inductive.  What each module's proof adds:

- `SessionsProofs`. That the port of a stop is nobody else's follows from whose
  local it was one step earlier: `IInv` adds what the locals mean at each
  program counter (`LocalsInv`), that a session id belongs to one request or to
  the registered session (`SidsInv`), which ports are bound (`BoundInv`), and
  which are on `usedports` (`UsedInv`). Three lemmas say what append, pop and
  remove do to an injective sequence; one lemma per action shows that it keeps
  `IInv`. `OwnChangeAnnounced` is an action property: its `AnnounceInv` says
  that the session of a start is no other request's and that of a stop is
  registered by nobody, up to the broadcast, and what a summary contains when no
  key was moved while it was made. `Refinement`: under the mapping `Owner` the
  session manager implements `PortPool`. Exclusive ports make the four kinds of
  owner tell themselves apart (`OwnerAt`), so a step that changes one port
  (`OnePort`) is a pool step once its owner before and after is known
  (`Passes`), and a step that changes none is a stutter (`OwnerKept`,
  `RequestGoesOn`).
- `ServiceProofs`. `ServiceInv` relates a thread's step to its process
  (`CurrentInv`, `StatusInv`, `EndInv`), to its key (`RegisteredInv`) and to its
  lock (`LockInv`); `StopInv` relates the steps of `Service.stop` to what is
  closed. `KillSafe` is an action property. `LifeImplemented`: with the
  invariant, each action is one step of `InstanceLife` or none. This is where it
  matters that only the instance's own thread starts, resumes and reaps, and
  that a thread ends only when there is nothing left to tend, or a process that
  it detached from.
- `SumTheorems`. `MapThenSumSet` is a recursive function on the subsets of a
  set. That it exists and is unique is shown by well-founded induction on the
  subsets, with a set of the good ones in the place of a predicate
  (`SubsetInduction`); then that an element can be taken out, that sums are
  added, compared, split into disjoint groups, and changed at one place.
- `TelemetryProofs`. `TelemetryInv` bounds the sum that each thread carries by
  what was captured, and counts an event that a thread is about to write. For
  `EventsSound` what each thread has read is bounded by what was logged when it
  read, and the threads that are about to write are counted (`CountInv`).
  `ApartInv` is about the one thread that may be in the middle of an update:
  while nothing overlapped, the sum it carries is the stored sum plus its own
  capture, and the count it has read is the number of events logged so far.
  `CoverageBounded` keeps an account (`DueInv`): what was captured, and what
  every process would add if it were captured now, is together at most what was
  executed, once and once again for each signal that a process survived.
- `RoomsProofs`. Requests are a set, of which any member may go on.
  `RoomsFollowPages`: for each page and each session that lives and whose last
  request met no other, `Follows` says that at most one request has still to
  touch the room, a join just if the session is the page's, and that when there
  is none the page is in the room just if it should be. What a served request
  can do is one of four things (`Outcomes`: it goes on, ends, enters, leaves),
  and only two of them touch a room. `EventsReachPages` rests on `NewsInv`: what
  is announced is up to date or a thread is going to read again (`Fresh`); and a
  page that is in the room of its session and was sent no events of another
  shows the last events, has them on their way, or somebody is about to read or
  send them (`Hears`), be it the thread that logged them or the join of the
  page.
- `FuzzerProofs`. `WalkInv` is the types with `InStep` and `SentIsAccepted`. In
  a message without errors the reader is where the walk is, if the walk began it
  in the start state; a step to the start is then one to an accepting state of
  the reader. If the walk began it in the last state, the reader fails at the
  first byte, as no message begins with a byte that the last state goes on with
  (`LastAssumption`), and does not recover. `TablesFit` and `ChoiceAlways`
  evaluate the 68 rows of the lexer for all 256 bytes. For the sampler,
  `DistInv`: in the loop what is left of the draw is the draw minus the weights
  of the bins before (`LoopInv`), from which `InverseFound` and `MethodsSample`
  follow; `StaysEven` is itself inductive with the types, because an arc of
  weight zero is not drawn while the resolution tells the counts apart; and a
  round takes every arc once (`RoundInv`), which bounds how long an arc waits
  (`LoopsAreLeft`).
- `WifiRelayProofs`. `RelayInv`: either reader and writer are in step
  (`InFrame`: what is on the connection is a run of frames that begins where the
  reader is and ends where the writer is, `Aligned`) and no byte is lost
  (`Conserved`), or the stream has ended inside a frame and nothing goes out any
  more (`Ended`). For the UML service, what a thread has still to parse is the
  end of what it opened (`RestInv`). `WatchInv`: once one thread was there, one
  is left whose next steps cannot raise, unless a report was read that was not
  done. `ExactInv`: a thread whose update met no other has in the coverage, file
  by file, the sums over the lines that it has parsed. `NewsInv`: a thread whose
  report is not the last one has a notification, or a kernel has still to touch
  the lock.
- `ClientProofs`. `ClientInv` gives the client the phases `NotStarted`,
  `Asking`, `Refused`, `Answered`, `Playing`, `Stopping` and `Gone`, with what
  is under way in each; one lemma per phase shows where its steps lead.
  `SourceInv`: the counts that are shown of the file that was clicked are the
  last ones, unless a request for it is under way or has failed. `BarsShown` has
  the recursion of `update_totals` to itself: two solutions of it agree, since a
  longest path on which they differ would have children on which they agree
  (`OneSolution`), and the sums over all files below a directory are a solution,
  because the files below it are, without overlap, those below its children
  (`Split`, `SumGroups`). A directory's bar is redrawn only when its executed
  lines change; its total is the same in every message (`SameTotals`), so the
  bar is not left behind.

`TypeCorrect` of `Sessions`, `Service`, `Telemetry` and `Rooms`, `SingleProcess`,
`ReaderInStep`, `TablesFit` and `RelayInvariance` are proved and in no run.

Only model-checked are the liveness properties `Respawns`, `StoppedIsResumed`,
`AcceptThreadEnds`, `CatchesUp`, `MessagesEnd`, `FramesArrive` and
`StopsItsSession`: they rest on fairness, whose `ENABLED` the prover does not know.

## 5. Plan

1. *Done*: every component that keeps state, with the proofs above.
2. *Done*: the abstract life of an instance.  An abstract packet channel for
   `Relay`, of which `RelaysFrames` says the part that is about safety.
3. The lists of events and core files that a page draws.
4. *Done*: every safety property of the runs is proved.

## 6. What the code does not keep

Statements of a doc, a comment or a message that the model refutes.  Each is a
definition of its module, and the configuration named with it makes TLC print a
counterexample; the hazards of PROJECT.json refer to them.  Where a weaker
statement holds it is among the runs.

| definition | configuration | the statement | what happens | what holds |
|---|---|---|---|---|
| `Service.NoOrphan` | `NoOrphan.cfg` | "Stop a session with the given session id" (`__main__.py:90`) | an instance that has not spawned yet, or is between two processes, has no key and is not met (`service.py:125-126`): its process and its connection live on | `StopPostcondition`, `ServedIsRegistered` |
| `Service.SigpipeCloses` | `SigpipeCloses.cfg` | SIGPIPE "results in the server closing its socket" (`index.html:162`) | the thread reaps the process and ends without closing `conn` (`instance.py:79-82`); only `Instance.stop` does | `NoFrozenProcess` |
| `Service.KeysAreLive` | `KeysAreLive.cfg` | a failed `get` "can occur when the pid dies while coverage is being collected on it" (`coverage.py:90-91`) | the SIGSEGV branch does not remove the old pid (`instance.py:84-86`), and every later `get` fails | `ServedIsRegistered` |
| `Telemetry.Aggregates` | `LostCoverage.cfg` | "Coverage data is aggregated between all clients on the same session" (`README.md:60`) | two threads add to the same sum, and one is lost | `AggregatesApart`, `NoInvention` |
| `Telemetry.CountedOnce` | `CountedTwice.cfg` | "SIGUSR1 is sent to the process to capture GCOV data" (`index.html:163`) | a process that survives a signal is added again with all its counts | `CountedAgainIfSurvived` |
| `Rooms.OneRoom` | `StaleRoom.cfg` | "You can see live coverage results for this session by pointing your browser to" the server (`README.md:123`) | a page cannot leave the room of a session that was stopped, whose notifier goes on (`__main__.py:56`, `coverage.py:68`): it shows two sessions in turn | `RoomFollowsPage` |
| `Rooms.RoomFollowsClicks` | `StaleRoom.cfg`, as `INVARIANTS` | the same | a `leave` is served after the `join` that was sent later (`__main__.py:42-59`): the page is in no room, or in two | `RoomFollowsPage` |
| `Rooms.LiveCoverage` | `StaleRoom.cfg`, as `PROPERTIES` | the same | no coverage can be read any more (`instance.py:86`); or a connection that is made again joins nothing (`index.html:28`); or one of the two above | `CatchesUp` |
| `Display.ShowsSession` | `OtherSession.cfg` | the same | the tree keeps the files of the last session (`index.html:112-115`) | `BarsExact` |
| `Display.CountsBesideTheirSource` | `OtherSource.cfg` | the same | counts of the file that was clicked stand beside the lines of the one shown (`srccoverage.js:226`) | `CountsExact` |
| `Client.AlreadyStopped` | `ClientSlow.cfg` | "\*\*ERROR\*\* already stopped." (`cgcclient.py:64`) | the service has not answered within ten seconds; it starts and is stopped by nobody | `LeavesNone` |
| `Client.ServiceStopped` | `ClientDropped.cfg` | "service {} stopped." (`cgcclient.py:22`) | a connection that was made again started another session, which runs on | `StopsItsSession` |
| `UML.CountsOnce` | `UMLTwo.cfg` | "aggregated between all clients" (`README.md:60`) | two threads parse a report into the same dictionary, and its lines are counted twice (`services/wifi_relay/__init__.py:89`) | `ReportExact` |
| `UML.ReadsFinished` | `UMLUnfinished.cfg` | "touch a lock file to notify cgcserv when its done" (`services/wifi_relay/init:36`) | lock file and report are shared: a thread reads one that is being written | `SomeoneWatches` |
| `Relay.EndsWithInput` | `RelayEnd.cfg` | "Failed to get length" and `exit(1)` (`relay.c:79, 90`) | `fread` never returns a negative number: the loop for the rest of a packet goes on for ever | `RelaysFrames` |
| `DistSample.SpansInterval` | `SpansInterval.cfg` | "the resulting values will span the interval implied by minVal and maxVal" (`dist.py:11-12`) | an interval that begins or ends at zero counts as none (`dist.py:36`) | |

One thing that the program does contradicts no statement of the repository but
hardly its purpose: the fuzzer's first message, and the next one after every
thousandth, begin in the middle of a command (".5" with a line end, say) and are
none, because two loops bind `st` anew (`ptass_fuzz.py:583, 604`).
`Walk.SentIsAccepted` says that these are all.

A file is run with its MC module, as in
`tlc -config StaleRoom.cfg MCRooms` (`MCService`, `MCTelemetry`, `MCRooms`,
`MCDisplay`, `MCClient`, `MCUML`, `MCRelay`, `MCDist`).

## 7. Not modelled, and why

Server shutdown: where `cleanup` runs depends on what the repository does not
fix.  `main` always sets the debug mode, in which a parent process watches the
sources and ends the server's process; whether the request threads keep the
interpreter alive, and so whether `atexit` is reached, depends on the version
of werkzeug and of the interpreter.  `PortChooser` is imported by nobody.

Of modelled components: files that do not fit the relay's buffer, a file that
changes while it is sent, the rounding of floats, the lists of events and cores
that the page draws, the page `sessions.html`, the environment and the
descriptors of forked processes, the constructor of the UML service.

The read-only HTTP routes change no state. `cgcserv.py` cannot run (it names a
service by a list and uses `atexit` without importing it), `umlservice.py` and
`gcovrt_coverage.py` are a single import, `config.py` and `run.py` are empty.
Static assets, the service table, kernel configurations, patches and build files
have no behaviour of the server. pygcovrt, gdbgui, gcore, Flask and the kernel
are external: they are modelled by how the code uses them.
