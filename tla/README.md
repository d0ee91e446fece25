# A verification of robinsen/controls in TLA+

The repository is a collection of C++ components: an epoll HTTP server with its
thread pool, timing wheel and connections (`epoll/`), a logger with a blocking
queue (`log/`, also in `epoll/`), a process pool, a reconnecting client socket,
a select/epoll demonstration server, a database thread (`TestDB/`), a leak
detector, and some data structures and design patterns.  This directory models
them in TLA+, checks the models with TLC and proves the most important
properties with TLAPS.

Contents: [the system](#the-system) · [modules](#modules) ·
[runs](#what-the-runs-check) · [fairness](#fairness) · [proofs](#what-is-proved) ·
[divergences](#where-code-and-comments-disagree) ·
[not modelled](#what-is-not-modelled) · [plan](#plan)

To check everything: `tlc -config X.cfg MCx.tla` for each run of
`PROJECT.json`, and `tlapm M.tla` for each `*Proofs.tla`.

## The system

| Component | State | Operations | What is hard | What makes it correct |
|---|---|---|---|---|
| Reactor, `epoll/webserver.cpp` | `users[]`, descriptors and their one-shot registrations, the wheel, the pool, the alarm and the signal pipe | `run()`: accept, signal, hang-up, read, write, tick, stop | descriptors are closed from three places (event, worker, timer) and reused at once; pointers to timers and requests outlive them | every open connection has its own live timer; silence is bounded; the clock never stops |
| `http_conn` | socket, read/write buffers, three parse indices, timer pointer | `init`, `read`, `process` (a worker), `write`, `close_conn` | pieces of a request in any cut; a worker running while the reactor closes and reuses the object | a request parses the same however it is cut; a response is sent whole |
| Thread pool, `epoll/threadpool.h` | list, mutex, semaphore, `m_stop` | `append`, `run`, destructor | list and semaphore are updated in different critical sections; interrupted waits | no request lost or left while workers sleep; bounded list |
| Timing wheel, `epoll/timerwheel.h` | N doubly linked lists, current slot, turns per timer | `add_timer`, `del_timer`, `adjust_timer`, `tick`, destructor | links through a long sequence of operations; freeing during the walk; delays at a multiple of N | sound lists; a timer fires on its tick, once |
| Blocking queue, `block_queue.h` | ring, size, two indices, mutex, condition | `push`, `pop`, timed `pop`, `clear`, `front`, `back` | wrap-around; shared wakeups; timeouts | a bounded FIFO; nobody sleeps beside an item |
| Log, `log/log.cpp` | file, line count, day, queue, flush thread | `init`, `write_log`, `flush`, `async_write_log`, destructor | check-then-act on the queue; two paths to the file; rotation around midnight; exit | every line once; lines of one thread in order |
| Process pool, `epoll/processpoolserver.h` | child table, pipes, signal pipes | `run_parent`, `run_child` | lost and coalesced notifications and signals; dying children | a child that is told to accept finds a connection; the parent ends with its last child and not before |
| `CProcessUser` | descriptor, two buffers | `init`, `process`, `clear` | order of reads and writes | what was read is answered in order; entries and descriptors agree |
| Client socket, `epoll/clientsocket.cpp` | descriptor, flags, thread | `start`, `stop`, `threadRun`, `sendData` | one descriptor shared by the caller and the thread; stop during a blocking read; reconnection | `stop` returns; nobody else's descriptor is closed |
| Demonstration server, `epoll/helloserver.cpp` | map of clients, lists of descriptors | `startSelect`, `startEpoll`, `readAndResponseSocket`, `closeClient` | stale descriptors in the lists | only live clients are looked up |
| Database thread, `TestDB/dbthread.cpp` | request list, `m_bStop`, mutex, condition | `stop`, `run`, `wake`, `startRun`, `addReq` | stop with a timeout, then restart | requests once and in order; the list is not torn while `stop` has waited |
| Leak detector, `memoryleak/memorydetect.cc` | list of blocks, running total | `alloc_mem`, `free_pointer`, `checkLeaks` | the total is updated outside the lock on one side | total equals the list |
| Red-black tree, `algorithm/rbtree.h` | the tree | `insert`, `remove`, searches, `destroy` | mirrored cases of the fix-ups | search order, colours, black heights, pointers that agree |
| `CVector`, `mystl/vector.h` | block and two ends | `push_back`, `insert`, `erase` | growth from zero, overlapping moves | the sequence it stands for |

How they interact: the reactor owns the wheel and calls it from one thread
only; it hands `users + fd` to the pool, whose workers call
`http_conn::process()`, which re-arms the registration of the descriptor, and
the reactor sees the answer as an `EPOLLOUT` event.  The signal handler talks to
the reactor through a socket pair.  The logger's writers hand lines to the flush
thread through the blocking queue.  A parent of the process pool tells its
children to accept, and each child serves what it accepted with a
`CProcessUser` per descriptor.  The other components stand alone.

`PROJECT.json` lists every hazard at its line, with the properties that cover
it, and every definition with the lines it models.

## Modules

**ThreadPool** (`threadpool.h`).  A critical section of `m_queuelocker` is one
action; the post after `append()`'s critical section and the `sem_wait()` before
the worker's are actions of their own.  `pc` says where a thread is
(`loop` = about to test `m_stop`, `wait`, `awake`/`spurious` = back from
`sem_wait()`, `process`).  `sem_wait()` may fail with `EINTR`
(`SemInterrupted`) when `interrupts` holds, which the initial state chooses: the
result is not looked at.  The destructor's body sets `m_stop` (`Destroy`); then
list, mutex and semaphore end and `delete` frees them with `m_stop`
(`MembersEnd`), wherever the workers are.  A worker that goes on in `run()` is
`undefined`, and nothing is claimed of it.

**TimerWheel** (`timerwheel.h`) has the lists pointer by pointer: `slots`,
`next`, `prev`, `rotation`, `time_slot`, and `live` for what is allocated.
`tick()` is a walk, `TickBegin`, then `TickPass` or `TickExpire` per timer, then
`TickEnd`; the wheel belongs to one thread, so no other operation runs during
it.  **TimerSet** says what a user may expect: timers with ticks to go.
`TicksLeft` is the refinement mapping, from turns and slots to ticks.

**BlockQueue** (`block_queue.h`) has the ring with both indices.  An operation
is one action, except the `pop()`s, which give up the mutex in `wait()`; the
timed one also reads the clock before it locks.  Spurious wakeups and time-outs
may happen at any moment.  **BoundedFifo** is what it implements; `Queue` maps
the ring to the sequence.

**WebServer** (`webserver.cpp`, `http_conn.cpp`) composes them, each by what its
own module shows: the pool is a list of requests, the wheel a set of timers with
ticks to go (`left`), and a connection's `read()`, `process()` and `write()`
have each outcome the code has.  The kernel's part is modelled as far as the
code relies on it: the lowest free descriptor is given out,
of as many as the process may open (`limit`, chosen initially), a one-shot
registration is spent by its event, `listenfd` and the signal pipe are
edge-triggered, closing ends a registration.  `epoll_wait()` returns a set
(`batch`) that is handled in any order.  `close_conn()` in a worker is two
actions (`ProcessClosesFd`, `ProcessForgetsFd`), since the reactor may accept a
connection on the descriptor between them.  Following a pointer to a freed timer
leads to `pc = "undefined"`, where nothing more is claimed; `StopServer` ends
the model because `run()` then deletes what the workers use.

**AsyncLog** (`log.cpp`, `log.h`) has its queue as an INSTANCE of
`BoundedFifo`, which the proofs about `BlockQueue` allow.  The critical sections
of `write_log()` are actions (`CountLine`, `TestFull`, `PushLine`,
`WriteDirect`, `Flush`), the clock is read in one before them (`WriteLog`).
`written` lists what `fputs()` was given, with its file; `synced` is how much of
it has left the buffer, `opened` how much was written when `m_fp` was opened, and
`late` how many lines had been counted then and were not written.
`m_fp` numbers the files of a day.  After `Exit`, a line in the
flush thread's hand goes to a closed file (`process = "undefined"`).

**HttpConn** (`http_conn.cpp`) is one entry of `users[]` down to its bytes.
WebServer lets a connection's `read()`, `process()` and `write()` have any
outcome; here the outcomes are computed.  A byte is `CR`, `LF` or the content of
a line by what the parser does with it (a request line that parses, a header it
knows, anything else).  An iteration of `process_read()`'s loop is one action,
and so is a call of `writev()`, which may take any part of what it is offered,
block or fail.  Clients send in pieces, hang up between events, and are followed
by others on the same entry (`Connect`), where all that `init()` does not set is
left over.  `Verdict` is the reference: what a request is, told from all of its
bytes at once.  `Length` gives each Content-Length header the `long` that `atol()`
makes of it, of any sign and size, and `ToInt` is its way into `m_content_length`.
`nul` is where `parse_content()` writes its NUL by that length; a sum that
overflows or a NUL in front of the buffer ends in `pc = "undefined"`.  `open()`
or `mmap()` of a file may fail: nobody looks, and `writev()` is then offered
the address MAP_FAILED (`m_file_address = "failed"`), of which it takes nothing.

**ProcessPool** (`processpoolserver.h`) has the parent, its children and the
kernel between them.  Connections and notifications are counted; `listening` and
`news` are what an edge-triggered registration has to report.  `SIGCHLD`s
coalesce in `sigs`.  Children crash at any moment, before and after they have
installed their handlers (`starting`); before the parent has installed its own,
`SIGTERM` kills it.

**EchoServers** (`processuser.cpp`, `helloserver.cpp`) has the three servers that
send back what they read, one per `mode`: they share the clients, descriptors
and most of the handling.  The select loop never empties its lists, so an event
it has handled may be handled again (`Handle`).  A write takes any part of its
messages, to a client that has gone it may kill the server by `SIGPIPE`.

**ClientSocket** (`clientsocket.cpp`) has the caller of `start()` and `stop()` and
the thread.  A section under the mutex is one action, and so is each access to
`m_socket` outside it that decides anything: in a connection attempt `connect()`,
`FD_SET()`, `select()`, `FD_ISSET()` and the second `connect()` may each find it
-1 (the results of `setBlock()` are not looked at, and it has no action).  `FD_SET()`
and `FD_ISSET()` of -1 go unnoticed or lead to `tpc = "undefined"`, where the
thread does nothing more.  The rest of the program opens and closes descriptors
(`foreign`), so that a number that is closed too late names something else
(`harm`).

**DBThread** (`dbthread.cpp`) has the caller and the thread with the mutex and the
condition; `stop()` is four steps, one of them a `wait()` that may give up.
`torn` ends the model: the list was cleared while the thread was using it.

**RBTree** (`rbtree.h`) has the tree pointer by pointer, with parents.  A mirrored
pair of halves is one definition with a side.  `insert()` and `remove()` are one
action up to their repair loop and one per iteration in it, so the invariants
say what holds *inside* the loops.  Recursion over the tree is by recursive
functions.  **KeyBag** is what it implements: a bag of items with keys, a request
(`asked`, a history variable of RBTree) and whether it is still at work on it.
`Insert` puts in the item it was asked for, `Remove` takes out one with the key it
was asked for exactly if there is one, and what remains of a request, the steps
of a repair loop, changes nothing.

Each `MC*` module gives the values for TLC, each `*Proofs` module the theorems.
Definitions called mutants, before the one they resemble, are wrong versions of
it; with one in place TLC finds the property violated that is meant to notice.

## What the runs check

| Run | Instance | States | Shows |
|---|---|---|---|
| ThreadPool | 2 workers, 2 callers, 2 requests and the null pointer, `m_max_requests` 1 | 17 755 | no lost wakeup, exact accounting without interrupts, every accepted request reaches `process()` while the pool is there |
| TimerWheel | 3 timers, 3 slots, delays of 1 to 7 ticks, one refused | 11 328 | sound links, no timer lost, and `TimerSet` is implemented |
| WebServer | 2 connections on 2 descriptors or 1, 1 worker, `TIMEOUT` 1 | 254 810 | every open connection has its own timer, silence is bounded, freed timers; silence ends in a close, data is read or its connection closed, news of `listenfd` leads to an accept |
| WebServerStaleTimer | 2 connections on 1 descriptor | – | *violated*: a stale timer closes a connection that is not silent |
| BlockQueue | 3 threads, 2 items, 2 slots | 334 152 | the ring is a FIFO, no lost wakeup, no starvation beside items |
| AsyncLog | 2 writers, 4 lines, a queue of 1, files of 2 lines, 2 days | 608 724 | with and without queue: every line in one place, durability without queue, bounds on what overtakes, on what a file gets, and on what is lost; queued lines are written |
| HttpConn | 11 streams of requests, a buffer of 14 bytes, 2 clients one after the other | 59 846 | what is answered does not depend on how the bytes were cut; responses arrive whole unless a write was torn |
| ProcessPool | 3 children, 3 connections | 90 253 | no child accepts what is not there; the parent stops with its last child and not before; `SIGTERM` ends all |
| EchoServers | 3 clients, 2 descriptors, the three servers | 339 885 | descriptors and entries agree; messages come back in order; what an accepted client sends is read |
| ClientSocket | 3 calls of `start()`, 3 descriptors, 2 ports | 497 152 | nobody else's descriptor is closed; `stop()` returns, unless the thread is in a `read()` for ever or has handed -1 to `FD_SET()` |
| DBThread | 3 requests, 2 calls of `stop()` | 1 403 | requests once and in order, the list torn only after a `stop()` that gave up, no lost wakeup |
| RBTree | 10 nodes, two with the same key | 345 727 | balance, links, searches, and `KeyBag` is implemented |

Why the bounds are enough.  *ThreadPool*: two workers and two callers give every
pairing of post and wait; the list reaches `m_max_requests + 1` and the
refusal.  `SemBound` only keeps interrupts from inflating the semaphore: the
list is bounded, so two surplus units show every case.  *TimerWheel*: three
timers make head, middle and tail of one list; 7 ticks on 3 slots are zero,
one and two turns.  *WebServer*: connections close in any order and the
second may get the first one's descriptor while the wheel, the list and the
worker still know it; with one descriptor `accept()` also fails.  The theorems
cover more connections than descriptors.  One
worker suffices for the races of worker and reactor (workers share nothing but
the list and `users[f]`).  `silent` stops at `TIMEOUT + 1`.  *BlockQueue*: a
sleeper of each kind and a pusher, on a ring that wraps after two items;
`SmallK` stands for 1000.  *AsyncLog*: `FileBound` allows a
file of two lines two and the late ones, `OvertakingBound` two lines behind a third
(one in the flush thread's hand, one in the queue), so with four lines each number
could be exceeded; with two days a writer comes second at midnight.
*HttpConn*: the streams are requests kept alive with the next one behind, with
content that holds a line end or is exceeded, with lines wrong in each way, and
with each kind of Content-Length: taken back by a second one, negative by
little and by more than the head, near `INT_MAX` (40 here) and beyond it; the
longest one fills the buffer.
*ProcessPool*: two live children beside a dead one show a turn that passes over
it; three connections are one in a pipe, one whose edge merged and one that
comes later.  *EchoServers*: more clients than descriptors make `accept()` fail and
numbers be used again; two messages make one be read with another and one be
kept.  *ClientSocket*: three descriptors are the thread's, the one `stop()`
leaks and one of the rest of the program.  *DBThread*: one request in the thread's hand,
two in the list; the second `stop()` meets a thread that outlived the first.
*RBTree*: ten nodes reach black height 3 and every case of both repair loops, on
both sides, with and without null children.  The proofs cover all other values
of every module.

Deadlock is checked for TimerWheel and BlockQueue.  The other systems really
stop: a destroyed pool, a stopped server or parent, a log whose lines are
bounded, clients that have sent what they wanted, a tree that was destroyed.

## Fairness

* *ThreadPool*: weak fairness of each worker's loop and of the post that ends an
  `append()`: the scheduler runs what can run, and `process()` returns (it does
  no blocking call but file access).  Nobody is obliged to append.
* *BlockQueue*: weak fairness of `Resume(t)`, what a thread does that already is
  inside a `pop()` and needs only the mutex, whose critical sections are short.
  Neither pushing, nor spurious wakeups, nor time-outs are fair.
* *AsyncLog*: weak fairness of the flush thread, which needs only mutexes that are
  held briefly.  Writers, the clock and the end of the process are not fair.
* *WebServer*: weak fairness of the alarm (the kernel delivers it), of the
  reactor's loop as a whole and of each worker as a whole.  No order among
  outcomes is assumed, and clients may do nothing for ever.
* *ProcessPool*: weak fairness of the parent and of each child: each is a process of
  its own.  Clients, crashes and signals from outside are not fair.
* *EchoServers*: weak fairness of the server's loop.  Clients are not fair.
* *ClientSocket*: weak fairness of what the thread does without the peer (`connect()`
  and `select()` have time limits, waiting on the condition too) and of the caller
  inside a call.  `Peer`, the end of a `read()` of an open descriptor, is not fair:
  nothing makes a peer send or close, and nothing in `stop()` wakes the thread.  So
  `StopReturns` has `<>[]Blocked` as an exception: there `stop()` never returns.
* *DBThread*: weak fairness of the thread and of a `stop()` that is under way.
* *HttpConn* and *RBTree* have no liveness properties: what they do in a call is
  bounded by the bytes and by the height.

## What is proved

All theorems hold for every value of the constants that the named assumptions
allow (`PoolAssumption` of ThreadPool and of ProcessPool, `WheelAssumption`,
`ServerAssumption`, `QueueAssumption`, `DBAssumption`, `LogAssumption`,
`HttpAssumption`, `ClientAssumption`, `EchoAssumption`, `TreeAssumption`: finite
non-empty sets where cardinalities are taken, positive sizes, distinct null
values).  Three modules of proofs are about two components each and extend both;
in the second one `Init`, `Next`, `Spec`, `TypeOK` and `vars` carry its name
(`DBSpec`, `SocketSpec`, `EchoSpec`).

*ThreadProofs*, of ThreadPool and DBThread.  ThreadPool: `TypeOK` is inductive.
`NoLostWakeup` is an inequality between the length of the list and a sum of
three counts, and becomes inductive with the types; every step moves one unit
from one summand to another, and the lemmas on cardinalities say so.
`WokenFindsWork` needs that no worker is in `spurious` when there are no
interrupts, and ends where the members do.

DBThread, in the same module.  The argument follows `Rest`, the requests taken and
listed in this order: adding appends to it, taking and processing leave it alone,
and `stop()` cuts it off behind what was taken.  `EndedInTime` says that only a
`stop()` that gave up ever meets the thread.

*TimerWheelProofs.*  `TypeOK /\ NoDangling` is not inductive: a walk that frees
a timer goes on with its successor, which must be another one.  `IInv` adds that
the lists have no cycle (a rank that grows along `next`) and that the timers the
walk has passed are closed under both links.  `ListedCorrect` then takes an
unlisted timer of least rank: its predecessor is listed, so it is too.
`Implements` maps each step to one of `TimerSet` or to a stutter; its arithmetic
is in a few lemmas on remainders.

*WebServerProofs.*  The timers of closed connections are the difficulty: they
stay in the wheel and close descriptors that belong to others by then.  `IInv`
adds to the checked invariants that descriptors in use belong to open
connections, that the backlog holds each queued connection once, that
`users[f]` only knows timers made for `f` or freed (`KnownTimers`), and that
silence is counted from the accept on.

*BlockQueueProofs.*  `RingAgrees` makes the rest inductive: with it `push()` and
`pop()` name the end and the head of the abstract queue by arithmetic modulo the
size.  `Implements` shows the ring to be a `BoundedFifo`.

*ProcessPoolProofs*, of ProcessPool and EchoServers.  That `accept()` finds a
connection depends on all the other children: one that accepts takes from a
backlog they share.  `Accounted` says it globally: the notifications in all
pipes together, and the news the parent has or is about to pass on, never
outnumber the backlog.  A connection raises the backlog before the news, the
parent turns one news into one notification, a child takes one of each, and a
death only removes.  `PipesAgree` ties the event in a child's hand to a
notification of its own, and `SilentStart` says that registering the socket late
counts nothing twice. `ParentOutlives` needs that the living are among the
children not reaped.

EchoServers, in the same module.  `ClientsAreOpen` needs `OneEach`: a client waits
in the backlog once and has one descriptor at most, so that closing one closes
nobody else's.  For `EchoInOrder`, `InLine` puts the messages of a client in three
places behind one another: what came back, what the server holds for its
descriptor, what was not read.  `read()` cuts the last and adds to the second
(`Cut`), `write()` adds a prefix of the second to the first, and `JoinedInOrder` and
`CutInOrder` say that both keep the order.  The user never clears the buffer of an
entry it takes; a descriptor without a client has an empty one there, as no
user's descriptor is closed.

*AsyncLogProofs.*  `Base` comes first: the types; `CountOK`, the count plus the
writers about to raise it is not ahead of the lines begun, which bounds it;
`PlacesOK`, a line its writer works on is nowhere else, and the lines in all
places add up to those begun; `ProcessOK`, the file is open while anybody logs.
`EachLineOnce` follows from it.  `SyncIsDurable` and `LossNeedsRival` are inductive
with it: a push that finds the queue full took no room, so another has.  For
`OvertakingBound`, `OrderOK` says that the lines of one writer wait in the order
they were begun, and `OvertakeOK` counts for each line written what it has
overtaken together with what still waits in front of it (`Ahead`): the sum is
the room of the queue and the hand at most when the line is written, and the
flush thread only moves one from the second to the first.  For `FileBound`, `FileOK` adds the
lines that went to the open file since it was opened to those that are late now,
in hands and in the queue: the sum is at most what was counted since then, one,
and what was late at the opening, whichever day and number the file has.

*ConnectionProofs*, of HttpConn and ClientSocket.  `CutsDoNotMatter` compares
the answer with `Verdict`, which looks at all bytes of a request at once, while
the parser sees a prefix: it is not inductive.  `LineOK` says what the parser
knows of its prefix: no CR or LF between `m_start_line` and `m_checked_idx`;
before it a well-formed head without an empty line (`HeaderPart`); `m_linger`
and `m_content_length` are those of the headers in it (`Seen`).  More bytes
change none of that (`HeaderPartStays`), a line extends it (`HeaderGrows`), and
three lemmas translate it into `Verdict`: `LineAwaited` and `HeadAwaited` where
the parser stops, `HeadComplete` where it answers.  `AnswerOK` says that before
a torn write `due` is `got`, or `got` and the one response that is offered.

ClientSocket, in the same module.  `OwnDescriptors` becomes inductive with
`SocketIsOwn`: while no `start()` met a running thread, `m_socket` is open and the
client's, except between `close()` and the assignment behind it in
`closeSocket()`, when it is nobody's of the client.  A `stop()` forgets one
descriptor, `createSocket()` and the thread close what they name, so the leak
grows with the calls of `stop()` only.

*RBTreeProofs.*  What is linked, sorted and balanced is defined by recursion over
the tree, and cannot be proved by an induction over it.  The inductive invariant
`IInv` says the same without recursion, by labels of the nodes that exist:

* `Placed`: each node has a place `at` among the integers and bounds `lo` and `hi`,
  and each child's bounds lie on its side of the place.  `Shape`: child and parent
  pointers agree.  A rotation keeps all places and moves the bounds of two nodes
  (`NewBound`); `insert()` doubles the places and takes the odd one beside the leaf
  (`NewAt`); `remove()` gives the place of the removed node to its successor
  (`Splice`, `Moved`), which is next to it.  `Sorted`: the order of the places is
  one of the keys.
* `Balanced`: some `H` counts the black nodes on every way down, where one
  way may be one short.  `RedRule`: no red node has a red parent, with exceptions.
  `Clean`, `Rising` and `Mending` say which for each place of the code (`Stage`): none
  between the operations, the node itself in `insertFixUp()`, and in
  `removeFixUp()` the node and its red children, while the way to it is one short.
  Each case of both loops and the ends of both, and the unlinking of a node
  with two children or fewer, has a lemma of its own.

That these labels say what the model's functions compute takes one induction over
numbers, as the least element of a set without its predecessor: `Recursion`
shows that a function defined by recursion has the values the recursion gives it
if a rank falls along it.  The width of the bounds is such a rank
(`Descends`), and against it the way up (`Climbs`).  By it `InOrder` is the list
of the nodes by their places (`Run`), which gives `WellLinked` and `Linked`, and
with `Sorted` also `Search`; `BlackHeight` is `H`, which gives `RedBlack`;
`Minimum`, `Maximum` and `Ancestor` give the next node by place (`NextTo`,
`NextAbove`), which gives `Navigation`.  The set of linked nodes is `live` without
`doomed` in every state, and `search()` in `remove()` finds a node exactly if one has
the key (`SearchIs`), so `IsKeyBag` is left to compare
`asked` with what each step links or unlinks (`BagStep`).

Proved but in no run of their own, as the invariants above rest on them: the
types, the bound of the pool's list (`CapacityBound`),
descriptors registered exactly while they are open (`ArmedIsOpen`), one alarm
or its signal while the server runs (`OneAlarm`), the agreement of the ring's
indices (`RingAgrees`) and `back()` reading the item pushed last
(`BackIsLast`).

Only model-checked: the liveness properties (`AcceptedIsServed`,
`SilentIsClosed`, `DataIsSettled`, `NewsIsAccepted`, `SleeperIsServed`,
`QueuedIsWritten`, `StopsWithLastChild`, `TerminateEndsAll`, `EverythingIsRead`,
`StopReturns`, `RequestIsServed`), which rest on fairness and are outside what
the prover handles.  Every invariant, every action property and every refinement
that a run checks is also a theorem, but the violated one.

## Where code and comments disagree

1. *Stale timers* (`webserver.cpp:185`, against the comment at 141).  A hang-up
   closes the descriptor and leaves its timer; the timer later closes whichever
   connection has the descriptor.  Proved all the same: an open connection always
   also has its own timer (`OpenIsWatched`), and a freed timer is only met in
   the batch of the tick that freed it (`FreedTimerOnlyAfterTick`).
2. *`front()`* (`block_queue.h:85`, against 76) reads the slot popped last, and
   the slot before the first before any `pop()`.
3. *Timed `pop()`* (`block_queue.h:180`, against 170): microseconds dropped,
   milliseconds taken for microseconds, so the deadline is too early.
4. *The day of the log* (`log.cpp:111`, against `log.h:55`): `m_today` goes back
   to yesterday when a writer read the clock before midnight and comes second.
5. *The lines of a file* (`log.cpp:101`, against `log.h:52` and `log.cpp:97`, which
   call `m_split_lines` the most lines of a file).  A line is counted in one critical
   section and written in a later one, so lines counted before a split go to the
   file behind it: with `m_split_lines` 2, two writers and no queue, a file gets three
   lines.  `FileBound` says how many more there may be between two openings: those
   that were late, and no others.
6. *Stopping a connected client* (`clientsocket.cpp:83`, against 331, where the caller
   may stop the thread after it has connected).  `stop()` on Linux forgets the
   descriptor and joins; a thread that is in `read()` stays there while its peer
   neither sends nor closes, and `stop()` does not return (`Blocked`).
7. *Neighbours in the tree* (`rbtree.h:293`, against 56, 58, 290 and 313, which
   promise the least greater and the greatest smaller value).  `insert()` takes equal
   keys, and `successor()` and `predecessor()` then return a node with the same key.
   They are neighbours in the list of `inOrder()`, as `Navigation` says.

Of these, 1 has a run that shows it; the others are visible in the definitions
and are stated by the properties as the code has them.

What the models had to take over that a reader of the code may not expect, each
visible in the module and, where a property would say the contrary, as its
exception:

* *ThreadPool.*  The destructor waits for nobody: the list, the mutex, the semaphore
  and `m_stop` end while workers use them.
* *HttpConn.*  A Content-Length is `atol()` into an `int`: a negative one has a request
  answered at the end of its head, with a NUL written into the head (or in front
  of the buffer), one beyond `int` is truncated, and one near `INT_MAX` overflows.
  `open()` and `mmap()` are not looked at: an address that is none is offered to
  `writev()`, which fails or stops behind the head.  Content in pieces: the loop's condition runs `parse_line()` over the
  content that is there (272) and the next call asks for all of it again from
  there (256), so such a request is answered late or never.  A wrong line is
  `LINE_BAD`, which ends the loop as an incomplete one does: no 400 is sent.  A
  buffer that is full makes `recv()` return 0, which counts as a hang-up.  The 200
  for an empty file falls into the next case, which fails: the connection is closed.
  `init()` after a response drops bytes of the next request that were read with
  the first.  A response counts as sent when half of its head is; until then every
  `writev()` starts from the beginning.  A disconnect leaves the file mapped.
* *ProcessPool.*  A notification to a child that is dead but not reaped is lost, and
  its connection waits for a later one; so does the second of two notifications
  that share an edge.
* *EchoServers.*  A `CProcessUser` whose peer closes leaves its descriptor open.
  When `accept()` fails the select loop ends for good, and the epoll loop drops the rest
  of its batch, in every round in which no descriptor is free.  After the word exit
  a user's socket is shut for writing, but what is read later is still collected.
* *ClientSocket.*  A `start()` while the thread runs joins it after `m_bStop` was
  reset: it does not return.  `stop()` on Linux leaks a descriptor if the thread does
  not close it.
* *DBThread.*  After a `stop()` that gave up, the thread goes on, and the list is
  cleared under its hands.
* *RBTree.*  `destroy()` frees one leaf.  `insert( key )` passes four arguments to a
  constructor with five parameters, and both `search( key )` lack their `return`, so these
  wrappers do not compile or do not say what they found; the model has what
  they call.

## What is not modelled

Within the modelled components: the wording of requests and responses and a
response that exceeds its buffer; `m_user_count` (it is not reduced when a timer
closes a connection and changes without a lock, so `AcceptRefused` may happen
at any time); in WebServer, descriptors other than those of connections; a log
file that cannot be opened, the text of log lines; failing allocations, failing
thread or process creation, and the program after `run()` has returned.
`MAX_EVENT_NUMBER` is more than the descriptors of an instance.  The list of
requests is a sequence whose elements are never shared with freed memory, as
`users[]` lives as long as the loop.  `CClientSocket::sendData()`,
`CHelloServer::startNoSelect()` and the Windows branches are left out.  WebServer
and HttpConn are not composed in one run: the product of their states is too
large, and the one-shot registration is what separates them.

Components: see `status` and `note` in `PROJECT.json`.  The leak detector is a
list behind one lock and wrong only in data races, whose outcome is undefined.
The binary tree's header does not compile; the vector, the string class, the
design patterns and the entry points are sequential demonstrations that print; SQL, Qt
widgets and the test client are input and output.

## Plan

Done, in the order of their importance to the system: ThreadPool; TimerWheel
with TimerSet; WebServer over both; BlockQueue with BoundedFifo; AsyncLog over
BoundedFifo; HttpConn; ProcessPool; EchoServers; ClientSocket; DBThread; RBTree
with KeyBag.

Proved, in the same order, with RBTree last: its places and heights had to be
found first.

Left is what would need a larger model: descriptors other than those of
connections in WebServer, with the second `close()` of `close_conn()`; and a
composition of WebServer with HttpConn.
