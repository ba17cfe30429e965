# TLA+ models of Networks-OS-Simulation

The repository is a collection of small, independent C++ programs about
operating systems and networks. This directory holds TLA+ models of them, the
TLC configurations that check the models on small instances, and proofs, checked
by TLAPS, that the most important properties hold for instances of every size.

Contents: [inventory](#1-inventory), [plan](#2-plan),
[the modules](#3-the-modules), [runs and bounds](#4-runs-and-bounds),
[fairness](#5-fairness), [proofs](#6-proofs),
[disagreements found](#7-where-the-code-and-its-documentation-disagree),
[what is not modelled](#8-what-is-not-modelled).

## 1. Inventory

The programs share no code and never run together; "interact" below is about the
threads, processes or parts inside one program.

| Program | State | Operations | Interaction | What is hard | What makes it correct |
|---|---|---|---|---|---|
| `MultiThreading/Restaurant.cpp` | two doors, two counters | a diner comes in, waits, goes out; main opens and waits | 2N + 1 threads, one mutex, two condition variables | waits that do not re-test, notifications that come before the wait, diners who come back at once | batches of N, exits only by the open door, no overlap of batches, the next batch gets in |
| `NetworkProtocols/OSPF.cpp` | routers, links, one table per router | create, delete, find a path, print; `updateRoutingTable` inside | calls; routers point to each other | stale queue entries, following predecessors, dangling pointers, tables read across routers | distances are shortest, tables lead to the destination, requests end |
| `NetworkProtocols/LRU.cpp` | a map and a doubly linked list | `get`, fetch and `put`, print | the map points into the list | four pointers per move, eviction, failing fetches, an in-band "-1" for a missing page, uninitialised fields | list and map agree; exactly the most recent pages are kept, in order |
| `Inter Process Communication/Online_Exam.cpp` | two message queues, the grades | ask, answer, collect, grade | a parent process and one child per student | bounded queues, answers without question numbers, failing forks | everyone is graded on their own answers; the exam ends |
| `MultiThreading/Bridge.cpp` | a mutex | create, cross, join | main and 2 * THREADS threads | order of creation, crossing and destruction | one on the bridge; all get across; the mutex outlives its users |
| `MultiThreading/Ecommerce.cpp` | per service a queue and the threads' resources | rounds of assigning requests | none (sequential) | a loop index that changes its meaning between rounds | every request handled once, in order, within the resources |
| `Inter Process Communication/Event_Reservation.cpp` | seats per event, a table of 5 active queries, a counter | enquiry, booking, cancelling | 20 threads, two mutexes, two condition variables | unlocked tests, rows taken twice, index -1, signals to the wrong thread | no row left behind, no overbooking but by a race, no deadlock of the locks |
| `NetworkProtocols/CSMA_CA_Simulation.cpp` | nodes with backoff and counters, the channel | one turn per slot | nodes share the channel and set each other's backoff | changes to other nodes during the loop, uninitialised flag, shift overflow | one transmission at a time, one collision per slot that takes in all that are ready, counters add up |
| `Inter Process Communication/pipes.cpp` | two directories, two pipes | read, send, receive, write | two child processes and their parent | error messages taken for data, a peer that died, pipe ends left open | both directories end up with all files, every process ends |
| `FTP/client.cpp`, `FTP/server.cpp` | the connection, variables kept between commands | PUT, GET, MPUT, MGET, quit | untagged messages over TCP | stale variables, a client that disappears, partial reads | both sides agree what is sent next; files change only as agreed; nobody waits for ever |
| `Network Simulation using NS-3/*.cc` | `MyApp`: packets sent, next event | start, send, schedule, stop | the NS-3 scheduler | a packet sent before the count is tested | exactly `nPackets` packets |

The hazards are listed one by one, with the line where each bites and the
properties that cover it, in `PROJECT.json`.

## 2. Plan

The order follows how much can go wrong that a test would not show.

1. `Restaurant`: condition variables without predicates. *Done, proved.*
2. `Router`, then `Ospf`, which extends it with the program around it: the
   largest program of the repository; `Forwarding` is the abstract specification
   of its paths. *Done; proved with the refinement.*
3. `LRUCache`, with `RecentPages` as the abstract specification of what a cache
   promises. *Done; proved with the refinement.*
4. `OnlineExam`, `Bridge`, `Ecommerce`. *Done, proved.*
5. `EventReservation`: table, counter and seats under 20 threads, each unlocked
   access a step of its own. *Done, proved.*
6. `CsmaCa`: one action per node and slot, random choices left open. *Done,
   proved.*
7. `DirectoryMerge` and `Ftp`: processes that exchange messages. *Done,
   proved.*

Every safety property that a run checks is proved for all values of the
constants, both refinements among them.

## 3. The modules

A module `X` is the model, `MCX` its instances for TLC, `XProofs` its theorems;
`OspfProofs` is about `Router` and `Ospf`, `MultiThreadingProofs` about `Bridge`
and `Ecommerce`, `InterProcessProofs` about `OnlineExam` and `DirectoryMerge`;
the names of the two are kept apart for that. Operators marked
"Fault" are the model of a plausible mistake in the code; no specification uses
them, they serve to show that each property can fail.

**Restaurant** (`MultiThreading/Restaurant.cpp`). All shared state is accessed
under one mutex, so the code between taking it and releasing it, at a `wait` or
at the end of the loop body, is one action. A thread's control state says in
which wait set it is, or where it goes on when it gets the mutex. The Nth diner
closes the front door, opens the back door and is the first to leave, all in
`EnterLast`. `Spurious` says whether `wait` may return without a notification,
which the C++ standard allows, and the history variable `disturbed` whether one
has. What the code promises of batches and doors depends on it: the wait of line
48 is in no loop, so after a spurious wakeup a diner walks out through the
closed back door. Those properties are therefore stated for behaviours up to the
first spurious wakeup; the head count holds beyond it. `IntMax` bounds
`diners_served`, which only spurious wakeups can drive up.

**Router** (class `Router`). A step of `updateRoutingTable` takes an entry from
the queue (`Pop`), looks at one link (`Relax`), ends the search (`EndSearch`),
makes a table entry (`DirectEntry`) or follows one predecessor (`Chase`). The
queue is a set of pairs: no pair is pushed twice, since a push follows a strict
decrease. Ties, which the code breaks by address, and the order of the links
are left open. `RouterSpec` lets any router update at any time over fixed links.
`Shortest` is the reference for the distances: it computes, without a queue, the
shortest walks of at most n links for growing n.

**Ospf** (the menu) extends `Router`. `CreateRouter` and `DeleteRouter` change
the links and leave all routers `pending`; `UpdateOne` begins the next update,
and a new request is read when all are done. The loop is over a `set<Router*>`,
ordered by address, so the next router is any one. `findPath` makes one hop per
step over the tables of the routers it passes. An unknown start gives a null
pointer, which kills the program (`Crash`, `FindSelf`). `Forwarding` says what
the user may expect without tables and updates: routers appear and vanish, and a
path goes over links that exist, passes no router twice and ends at its finish;
it is denied only at its start, when no way to the finish is shorter than
`Infinity`. The last is said by a function that bounds the lengths of all ways
from below (`OutOfReach`), so `Forwarding` computes no distances.

**LRUCache** (`NetworkProtocols/LRU.cpp`). The list is on a heap: `key`, `val`,
`prev` and `next` are functions of the node's address, and `addNode` and
`deleteNode` make the same assignments as the code. `get` answers "-1" for a URL
that is not in the map, and the loop goes by this answer alone, so a request is a
`Hit` (the page is there and is not "-1"), a `Miss`, or a `Refetch`: the page in
the cache is "-1", `get` has moved its node to the front, and the page is fetched
and put a second time. Each includes the printing that follows. `Response`
contains "-1". The variable `listed` holds the nodes on the list, from which
`new` does not take an address, and the history variable `refetched` says that a
`Refetch` has happened: from then on a node may be on the list that the map has
lost, and the map may outgrow `Cap` (section 7). `ListMatchesMap` says without
that condition that the pointers make one list which holds all pages of the map,
and up to the first `Refetch` that it holds no others and at most `Cap`. Fresh
memory holds any value of `Uninitialised`. `RecentPages` is the abstract
specification: a sequence of at most `Cap` pages, the page requested moves to the
front, a fetch drops the last.

**OnlineExam** (`Inter Process Communication/Online_Exam.cpp`). Each loop of the
parent is a value of `parent`; a child is known by how many questions it has
received and answered. `msgsnd` and `msgrcv` are atomic steps that block. The
values `correct_answer` has had and the answers sent are kept, so that the
grades can be compared with them at the end.

**Bridge** (`MultiThreading/Bridge.cpp`). The two `pthread_create` of a turn are
two steps, each of which may fail, and travellers cross between them.

**Ecommerce** (`MultiThreading/Ecommerce.cpp`). One action per turn of each loop.
A service starts with its threads in any order, since `comp_func` is no order
that `std::sort` can be relied on with. The request at the front has number
`temp_queue[1][1]`, while `wt_time` and `worker_resources` are updated with the
loop index `l`, as in the code. `executed` records what the program prints, and
`Load` adds up what a thread has been given in a round.

**EventReservation** (`Inter Process Communication/Event_Reservation.cpp`). Most
accesses to the shared table, the counter and the seats take no lock, so each is
a step; `concurrency++`, `concurrency--` and the updates of `events_arr` are a
load into `reg` and a store. `event_finder` takes the lock anew for each row
(`FindRow`). The three kinds of query run nearly the same code and share actions;
`query` says where they differ (`AfterFind`, `Blocking`, `WriteMode`). An index
of -1 writes outside the table, and two threads that use the vector `bookings` at
once may crash: both end in `status` "crashed". main joins nobody and destroys
the locks, after which nothing is defined, so `Destroy` ends the behaviour. The
history variable `raced` keeps the events that two workers updated at once, and
`asked` counts the queries begun, up to `MaxQueries`. The event and the seats of
an enquiry or a booking are chosen in one step with the test before the first
load of the counter (`Select`), since they are the thread's own; the booking to
cancel is read from the shared vector after `concurrency++`, in a step of its own
(`Pick`). The third column of the table, counted up and never read, is left
out.

**CsmaCa** (`NetworkProtocols/CSMA_CA_Simulation.cpp`). A slot begins with the
nodes that get something to send (`Arrive`). If the channel is busy the slot is
one step (`BusySlot`), since each node then only looks at itself. If it is free
the nodes take their turns in order, each a step (`Collide`, `Succeed`,
`CountDown`), because the turn of one node sets the backoff of others whose turn
comes later in the same slot. `rand()` is any value of its range. An int has
`IntBits` bits and a shift takes its distance modulo that, as x86 does, so that
the overflow of `1 << collisionCount` is part of the model. The history variable
`ready` holds the nodes that could send at the first turn of a slot.

**DirectoryMerge** (`Inter Process Communication/pipes.cpp`). The state of a
child is where it is in its code; a message in a pipe is the sequence of pairs of
words that `istringstream` takes it apart into, an error message being pairs,
too. Storing is one step per file, so the two children interleave between
files. Each fork, each of the four files and each creation may fail. The parent
keeps all ends of the pipes open until it exits, which decides whether an empty
pipe is at its end or a read blocks (`SomebodyWrites`).

**Ftp** (`FTP/client.cpp`, `FTP/server.cpp`). A step of either side goes from one
`recv` to the next, with all the `send`s on the way; the two directions of the
connection are sequences. The messages carry no type in the code. They are
tagged in the model with what the sender means, and a side takes a message only
as what it expects: `InStep` says that the two always agree, so nothing is ever
misread. The variables that live in `main` on both sides (`fileExists`,
`overwrite`, `buffer`) keep their values between commands. Two history variables
record what no variable of the code does: `agreed`, the file that the user let
the present PUT overwrite, empty again when a command is sent, and `there`, the
files the server had when it read its present command. `Killed` is the end of
the client at any moment; the server does not look at the result of `recv`, so it
goes on with what its variables hold (`Received`) until a write to the closed
connection kills it (`Dies`). A file that `open` creates with mode `644`,
decimal, is `unreadable`. `Unwritable` files are those the server may not open
for writing.

## 4. Runs and bounds

Properties are stated and explained where they are defined. Deadlock is checked
in the runs of `Router`; the other programs can end or crash, or (the restaurant)
can stop as described in section 7.

| Run | Checks | Bounds, and why they are enough |
|---|---|---|
| `restaurant_batch` | HeadCount, ServedAsBatch, ExitOnlyByOpenBackDoor, NextBatchOnlyWhenEmpty, BatchProgress | N = 3 and 2N diners as in `main`: one who closes the door, one who leaves last, one between, and a second batch waiting; spurious wakeups at any time; `diners_served` up to 6 |
| `router` | ShortestPathTree, DistancesShortest, EntriesLeadOut, DistancesSettle, UpdateReturns | every graph of a cycle of four links with a chord, weights 0 and 2, so a detour can be shorter than a link and stale entries occur: chains of predecessors of length three, cycles of length 0; Infinity = 4 is reached by two links of 2 |
| `ospf_four` | NoDanglingPointer, HopsLeadCloser, PathsServed | four routers up to renaming; at each creation at most one link of weight 1 in each direction, or one of weight 3 that leads to the new router: paths of three hops, deletion of an inner router, recreation under the same id, and a long link beside a short path, so that the last neighbor on the path is not the first and its link is on no shortest path; Infinity = 7 is reached by two long links and a short one |
| `lru_pages` | ListMatchesMap, KeepsRecentPages | capacity 3 (front, middle and back differ), four URLs and four addresses up to renaming, so that eviction and reuse of an address happen; three responses, a page, a failed fetch and "-1", so that pages are put twice and the map outgrows the capacity; fresh memory NULL or not |
| `event_rows` | RowsHaveOwners, OverbookedOnlyByRace, OwnerGoesOn | three workers and two events up to renaming, a table of two rows and as many queries at once: rows run out, are taken twice and cleared by others, the limit is reached and the counter goes wrong; one seat, so two bookings race for it; three queries in all (`MaxQueries`), so one worker can go on with a second query while another is still in its first |
| `exam_rounds` | GradesEarned, RoundsSeparate, GradesPresented | three students, three questions, two answers, queues of three messages |
| `bridge_safe` | OneOnBridge, DestroyedWhenUnused, EveryoneCrosses | three travellers per side |
| `ecommerce_services` | EveryRequestOnce, FirstRoundFits, AllServed | two services of two threads, every list of up to four requests for 1 or 2, so that there are several rounds, waiting and rejected requests, and a second service with what the first has left behind |
| `csma_slots` | OneAtATime, CollisionTakesAll, CountsAddUp, SoleSender | three nodes, so that a collision leaves one out or takes all; six slots, enough for three collisions in a row and for two transmissions of two slots each; ints of four bits, so that the third collision overflows the shift |
| `merge_files` | SuccessMeansMerged, SecondFirst, AllEnd | none: the program has two children and four files, and every failure and interleaving is covered |
| `ftp_files` | InStep, SuccessMeansStored, NoMutualWait, OneFileDestroyed, OverwriteAgreed, MenuAgain | two files, so that what is left over from one can spoil the other, and lists of two for MPUT and MGET; one of them not writable for the server; each file absent, empty or with one of two contents on either side, and any number of commands |

Weights, resources and queue limits stand for larger ones in the code (distance
100000, 163 messages, N = 10, THREADS = 20, ints of 32 bits); what matters is
that each limit is reached. Types are not checked in these runs: where a module
is proved about, its type invariant is part of the inductive invariant and proved
with it. The run that ends in a counterexample is in section 7.

## 5. Fairness

- Restaurant: weak fairness for every thread's runnable code. Each critical
  section ends with a release of the mutex and the scheduler runs every runnable
  thread; nothing is assumed of waiting threads or of spurious wakeups.
- Router: sequential code that does not block, so weak fairness of the steps of
  an update. No liveness is stated of Ospf: its updates end by `UpdateReturns`,
  and a walk by `PathsServed`, since it passes no router twice.
- OnlineExam: weak fairness of each process. A process blocked in `msgsnd` or
  `msgrcv` has no enabled step.
- Bridge: weak fairness of main and of each traveller. The order in which a
  mutex is granted is open; since each thread locks it once, weak fairness is
  enough for everybody to get it.
- Ecommerce: weak fairness of the whole program.
- LRUCache waits for input after every request; no liveness is stated.
- DirectoryMerge: weak fairness of the parent and of each child; a child blocked
  in `read` has no enabled step.
- Ftp: weak fairness of the client's steps, with the answer to a question that a
  step includes, and of the server's. The user need not choose another command
  and nothing makes a client die, so `MenuAgain` allows for both.
- CsmaCa: the loop over the slots is bounded; no liveness is stated.
- EventReservation: main ends the program at any time, so nothing has to happen
  and no liveness is stated. Within the model a worker that waits on `table_cond`
  need not be woken: a signal wakes one waiter, not the one whose row it frees.

## 6. Proofs

All theorems hold for every value of the constants that satisfies the named
assumptions of the module. Each safety theorem follows from one inductive
invariant, shown to hold initially and to be kept by each action.

- **RestaurantProofs.** `HeadCountCorrect` needs only that the counter equals
  the number of diners in the states between coming in and going out; it holds
  with spurious wakeups. `BatchesCorrect`, `ExitsCorrect` and
  `NextBatchCorrect` speak of the time up to the first spurious wakeup
  (`~disturbed`). The invariant adds, up to then, what the doors mean:
  while the back door is open the front door is closed, the diners inside have
  all been notified and, with those who left, are N. `BatchNeverStuck`: nobody
  waits in front of the open door (`DoorNoticed`), so while a door is open some
  diner is on the way through it.
- **OspfProofs.** `SearchCorrect` says that at the end of the search the
  distances solve Bellman's equations and the predecessors form tight links;
  `SettledForGood` that the greedy choice is right; `TableCorrect` that every
  entry is NULL or a neighbor no farther than the destination. The invariant:
  every router's links are relaxed, or it has an entry with its present distance
  in the queue, or it is being scanned (`Waiting`); no router settled is farther
  than any entry of the queue, stale ones included (`Frontier`); and
  predecessors are always reached and at least a link nearer (`Parents`).
  Weights are natural numbers, 0 included, and there are finitely many routers.

  `ShortestDistances`: call a function from the routers to 0 .. `Infinity` a
  potential if it is 0 at the source and grows by at most the weight over each
  link. The walks of
  `Shortest` have settled after as many rounds as there are routers, and then
  are the greatest potential (`WalksGreatest`): as long as they have not,
  each round makes one more value final (`RoundSpreads`). No
  distance ever falls below it (`LowerBound`), and by Bellman's equations the
  distances are a potential when the search ends, so they are equal.

  `UpdateAdvances` and `PredecessorsRooted` are what `UpdateReturns` rests on:
  the search cannot push entries for ever, and the walk over the predecessors of
  a router ends. With links of weight 0 the distances do not show that, since the
  routers of a circle may all be equally far. What does is that only settled
  routers are predecessors (`ParentsSettled`): the one that gets a new
  predecessor is none itself, so it can be given a rank above it.

  For the menu, `MenuInv` adds that links name live routers only, that a table
  that is up to date has an entry for every router and names live routers or
  NULL, and what of the table under construction is there; `PointersLive` and
  `ShortestInMenu` follow. `TablesLeadCloser` says that a finished entry names
  a router strictly closer to the destination (`Leading`); while predecessors are
  followed from the destination, the one reached is on a shortest way to it
  (`OnTheWay`). `ForwardingImplemented` is the refinement of
  `Forwarding`. Along a walk of `findPath` each hop is closer than all before
  (`Walking`), so none comes back (`HopForward`); an entry is NULL only when the
  shortest walk is `Infinity` long, and then `Shortest` itself is the bound that
  `OutOfReach` asks for (`DeniedRightly`); creation and deletion change exactly
  the links of the router concerned, whatever pointers the tables still hold
  (`CreateAppears`, `DeleteVanishes`); the steps of an update are invisible
  (`ServiceStep`). The last two assume
  `0 \notin Weight`, as the property does where it says closer. Without it they
  fail in the model: with links a-b both ways, a-y, b-x, x-d and y-d, all of
  weight 0, a can find d through b and b through a, if each breaks the ties its
  own way (the code breaks them by address).
- **LRUCacheProofs.** `CacheCorrect`: after every request the list is whole and
  has every page of the map, and until a page "-1" is requested again it has no
  others, for every capacity of at least 1, any responses and any contents of
  fresh memory. The invariant states the chain with any number of nodes, mapped
  or not; the lemmas say what `addNode` and `deleteNode` do to a chain of
  addresses. When an orphaned node is evicted, the entry erased is that of its
  key, whose node stays on the list; so pages leave the map early but none is
  mapped to a node that is gone. `CacheKeepsRecent` is the refinement of
  `RecentPages`: the chain from `head` to `tail` is unique, so the pages along it
  are a function of the state (`Pages`); a hit takes the node out of the chain
  (`Without`) and puts it in front (`InFront`), which moves its page to the front
  of the sequence, and a miss drops the last page when the cache is full.
- **MultiThreadingProofs.** Bridge: `BridgeExclusive` and `DestroyedSafely`. The
  invariant says which travellers main has not created yet (they are not on the
  bridge) and which it has joined (they have exited).
  Ecommerce: `RequestsOnce` and `FirstRoundSafe`, for all services, threads,
  resources and lists. The queue is what is left of the list, and there are
  enough requests in it for the turns the loop has left (`QueueIsRest`); what has
  been handled is a prefix of the list, each request of it executed once or too
  big (`Evidence`). In the first round the loop variable is one ahead of the
  requests taken, and each thread has left what its `Load` does not take
  (`FirstRound`), until a request has to wait: from then on nothing changes until
  the round ends (`Stuck`). `NobodyStarves`: in the first turn of a round all
  resources are free, so the request at the front is executed or too big for all
  threads; each round handles one request at least (`RoundsServe`).
- **EventReservationProofs.** `TypesCorrect`, `LocksCorrect` (property
  `OwnerGoesOn`), `OverbookingCorrect` and `RowsCorrect`, for all numbers of
  workers, events, seats and rows. The first invariant (`ResInv`) adds to the
  types that a worker has a query from choosing it until its last signal
  (`HasQuery`) and a row of the table wherever it uses one (`HasRow`); "no free
  row" is the state `no_row`, which ends the program. For the seats: unless an
  event is raced, at most one worker is between `check` and `store` with it
  (`OneUpdater`), and what that worker has found to fit still fits (`Fitting`).
  For the rows: while a worker looks for a row to clear, and none of those ahead
  of its scan has its event, there are already fewer rows than owners, so it may
  leave without clearing one (`SparesOK`). `concurrency_lock` keeps a second
  worker from looking for the same row at the same time.
- **InterProcessProofs.** Exam: `RoundsCorrect` and `GradesCorrect`, for every
  number of students and questions, and even for queues too small for the exam to
  end. The invariant counts the copies of the present question, those in the
  queue and those taken; it says that an answer in `recv_qid` is the one its
  student gave to the present question and has not been collected, and up to
  which question each student is graded. At the end of a round everybody has had
  the question, so that both queues are empty: the next round starts like the
  first. `ExamNeverStuck` needs that no answer gets lost (`NoneLost`) and that a
  student who owes one has none in the queue (`RoomForAnswer`); it fails with
  fewer places in a queue than students, see section 7. With `ExamAdvances` the
  exam ends. Directory merge: `MergeComplete` and `SecondIsFirst`. The invariant
  says what either pipe may hold at each stage of the reader and the writer
  (`PipesOK`), that a pair about a file carries the words of that file, so that
  only an error message can make a file of other words, and which files a child
  has and is still to store (`FirstOK`, `SecondOK`). The first child reads
  nothing before the second has stored all it will ever have (`SecondWhole`).
- **CsmaCaProofs.** `OneTransmission`, `SuccessAlone` and `CollisionsCorrect`
  (`CollisionTakesAll`). The
  invariant says what has happened so far in a slot: until a ready node has had
  its turn all of them still send; after it nobody does, for it has succeeded
  alone or given every sender a backoff that is not 0, also where the shift
  overflows (`InSlot`). With the timer of the
  transmission (`Timer`) and the age of the last success (`TimesPast`) it
  follows that successes are two slots apart. `CountsCorrect` (`CountsAddUp`) is
  inductive with the types; a collision raises the sum over the nodes by the
  number of those that collide (`SumRaised`), which are two at least.
- **FtpProofs.** `DamageLimited`: as long as the client lives nothing is garbage,
  and when the server writes garbage nothing is on its way any more, so that its
  last command, and with it the file it destroys, stays the same.
  `NeverConfused`, `OnlyWhenAgreed`, `StoredOnSuccess` and `WaitOnlyUnreadable`:
  while the client lives the two are in one of ten situations (`Situation`), each
  of which says where both are and which messages are on their way, a no of the
  user that the server has not read among them, and, for a PUT of a file that was
  there, that a yes on its way or read was given for this file (`agreed`). In an
  MGET the server runs ahead, through all files that are empty; there the
  invariant says which message may follow which (`Chain`) and counts those to
  come. After a kill only a beginning of what was sent is left, and the server
  still reads it in step (`ServerInStep`).

The sums of `CsmaCa` and `Ecommerce` are folds of the library over a finite set.
What is needed of them is proved from the definition of the fold by induction on
the size of the set (`SumsExist`, `SumOver`, `SumAdded`): the library's induction
theorems have an operator as a parameter and no instance here, so induction is
stated for sets of numbers (`SetInduction`) and follows from the well-foundedness
of `<`.

Only model-checked: the liveness properties (`BatchProgress`, `UpdateReturns`,
`GradesPresented`, `EveryoneCrosses`, `AllServed`, `AllEnd`, `MenuAgain`), since
the prover has no rules for fairness and `ENABLED`. What the prover can say of
them, for instances of every size, is that the program does not get stuck
(`BatchNeverStuck`, `ExamNeverStuck`, `NoMutualWait` of `Ftp`) and that its steps
lead somewhere (`UpdateAdvances` with `PredecessorsRooted`, `ExamAdvances`,
`NobodyStarves`).

## 7. Where the code and its documentation disagree

`restaurant_next_batch` ends in a counterexample to `NextBatchCanEnter`: main gets
the mutex only after the whole batch has left, takes the back door for not yet
opened and waits for ever, although the program has just announced the next
batch.

More are visible in the models and have no run of their own:

- the wait of line 48 of `Restaurant.cpp` is not repeated, so a spurious wakeup
  lets a diner out by the closed door, which the README excludes
  (`ExitOnlyByOpenBackDoor` without `~disturbed`);
- `print` in `LRU.cpp` goes past the tail into uninitialised memory (`status`
  becomes "crashed" when that memory is not NULL);
- line 210 of `LRU.cpp` caches the result of a fetch unchecked, so the "1" of a
  failed one is served as the page from then on (`Response` stands for both);
- a page whose content is "-1" is taken for a missing one (lines 126 and 208 of
  `LRU.cpp`): although it is in the cache it is fetched again, against the
  comments of lines 207 and 212, and put a second time. Its first node stays on
  the list without an entry in the map; with the cache full, a page more than
  needed is evicted; and when the orphan is evicted, line 132 erases the entry of
  another node, or none. In the last case the map grows beyond the capacity, and
  since line 131 tests for equality nothing is ever evicted again, although
  README.md:142 gives the cache a fixed number of pages (`ListMatchesMap` and
  `KeepsRecentPages` without `refetched`);
- two bookings of one event in `Event_Reservation.cpp` may both pass the test of
  line 119 before either adds its seats, and the event is overbooked, although
  the README gives it a capacity (`OverbookedOnlyByRace` without `e \in raced`);
- a query in that program may find no free row, since more than `MAX` queries can
  pass the unlocked test of line 178, and `event_finder` looks at the rows at
  different times; the index is then -1 and lines 84, 115 and 154 write outside
  the table (`NoRowLeft`);
- its counter `concurrency` is updated without a lock at lines 186, 191 and 204,
  loses updates for good, and can become negative;
- the next hop in `OSPF.cpp` (line 81) is the last neighbor on the shortest path
  and not the first, so that the packet may take a longer link than the shortest
  path of README.md:114 does (`HopsLeadCloser` still holds);
- with more students than messages fit in a queue (16384 / 100 = 163 by default)
  `Online_Exam.cpp` can stop for ever: the answers of the others fill the queue
  while the parent waits, at line 93, for one that cannot be sent, and no grades
  are presented (`GradesPresented` needs Capacity >= num_students);
- from the second round on `Ecommerce.cpp` takes the resources of the wrong
  request from a thread (line 137), which may get more than README.md:97 allows,
  and stores waiting times for the wrong request (line 135), so the number of
  requests "forced to wait" printed at line 182 can be wrong (`FirstRoundFits` is
  about the first round only);
- the comment of line 25 of `CSMA_CA_Simulation.cpp` says that a backoff is
  between 0 and 2^collisionCount - 1, but line 26 draws from 1 to
  2^collisionCount, which is also what the loop needs: with 0 a node could send
  again in the slot of its collision (`DrawnFromZero`, with which
  `CollisionTakesAll` fails);
- `collisionCount` in `CSMA_CA_Simulation.cpp` is never taken back after a
  success, so backoffs only grow; from the 31st collision on
  `1 << collisionCount` overflows, the limit `maxBackoff` no longer holds, and a node
  may be silent for up to 2^31 slots or, with a negative backoff, for ever. No
  property excludes that, since it happens; `CollisionTakesAll` says what the
  overflow does not break. A node may be counted as colliding with one that
  reached backoff 0 in the same slot, on its turn before;
- on a disconnection the FTP server runs the last command again: a PUT overwrites
  its file with uninitialised memory (`OneFileDestroyed`). A `write` that fails
  gives -1, which the client reports as success, and an empty file sent
  successfully as a failure (`SuccessMeansStored`). Line 58 of the client gives a
  mode of 644, decimal, which makes a new file unreadable for its owner when
  `fileExists` is left over from an earlier command; sending this file later
  stops both programs (`NoMutualWait`). After a file was refused once, the next
  new file is skipped without a question. Where `overwrite` is not 1 both sides
  close a descriptor that was never set;
- in `pipes.cpp` the words of a peer's error message are stored as files, and the
  child that did so exits with success (`SuccessMeansMerged` asks for a peer that
  did not fail).

## 8. What is not modelled

- `MyApp` of the NS-3 simulations: it sends a packet per event and has the
  scheduler call it again until `nPackets` are sent, one counter and one pending
  event in a sequential simulation. The rest of the two files only configures the
  simulator; the PDF files are assignment sheets and a report.
- FTP: files longer than one `recv` delivers (the rest is then read as the next
  command, and the contents of the file decide what happens), client and server
  in one directory, an extension that only some files have (it would only make
  the lists shorter), answers other than 1 and 2, and names longer than 20
  characters.
- Bridge: the return after a failed `pthread_join` (lines 73-77). Every thread
  that main joins was created, since main has returned otherwise, and is joined
  once, so that the call has no reason to fail.
- E-Commerce: what `std::sort` does beyond ordering. `comp_func` compares with
  `>=` (line 35), which is no strict weak order, as `std::sort` at line 93
  requires; with equal priorities the behaviour is undefined, and with more than
  16 threads of a service the usual implementation may read outside the array.
  The model takes any order of the threads as the result; other consequences are
  left out.
- Event registration: `push_back`s that meet are modelled as a booking lost, a
  booking replaced, or a crash.
- Directory merging: a second run, over directories that exist already, and
  children killed from outside.
- CSMA/CA: of the list of collisions before each success only the sum is kept.
- Printing, prompts and sleeping, except where printing reads memory (the list
  of the cache, the path from a router to itself).
- Event registration after main has destroyed the locks: what the threads do then
  is undefined.
- Inputs outside the assumptions: negative weights (the search need not end on a
  negative cycle), a capacity below 1, no worker threads, negative resources.
- Networking and URL syntax in the cache: a fetch is its result, and a URL is one
  that the program's pattern accepts.
