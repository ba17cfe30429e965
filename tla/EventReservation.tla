-------------------------- MODULE EventReservation --------------------------
(***************************************************************************)
(* Inter Process Communication/Event_Reservation.cpp: the worker threads   *)
(* enquire about, book and cancel seats.  They share the seats booked per  *)
(* event, a table with a row for each query under way, and the number of   *)
(* these queries.                                                          *)
(*                                                                         *)
(* Most accesses to the shared data take no lock.  Each is a step of its   *)
(* own here, and ++, -- and += are a load and a store.  A region under     *)
(* table_lock or concurrency_lock is one step when all it touches is       *)
(* touched only under that lock.  The third column of the table is counted *)
(* up and never read, and is left out.                                     *)
(*                                                                         *)
(* main() starts the threads and destroys the locks without waiting for    *)
(* them.  Using a destroyed lock is undefined, and the process ends with   *)
(* main() anyway: the model stops there (status "destroyed").  A thread    *)
(* that is not created yet, or never, has made no step, and one whose time *)
(* is over (finish) makes no more from "test" on.                          *)
(***************************************************************************)
EXTENDS Integers, FiniteSets

CONSTANTS
    Worker,     \* the worker threads
    Event,      \* the numbers of the events
    Seats,      \* the seats a booking may ask for
    capacity,   \* the seats of an event
    MAX,        \* rows of the table, and the limit for queries
    NULL,
    MaxQueries  \* bound on the queries begun before the time is over

ASSUME ReservationAssumption ==
    /\ IsFiniteSet(Worker)
    /\ Seats \subseteq Nat \ {0}
    /\ capacity \in Nat
    /\ MAX \in Nat \ {0}
    /\ NULL \notin Worker \cup Event
    /\ MaxQueries \in Nat

VARIABLES
    events_arr,        \* seats booked per event
    concurrency,       \* number of queries under way
    shared_table,      \* per row its event (NULL for -1), and whether it is
                       \* free (-1), only enquired about (0) or booked (1)
    bookings,          \* the events booked so far
    concurrency_lock,  \* the owner of the lock, or NULL
    table_lock,
    status,            \* "running", "crashed", or "destroyed" by main()
    pc,                \* what a worker does next
    query,             \* its query, or NULL
    i, res,            \* its loop variable and result in event_finder
    reg,               \* a value it has loaded and not yet stored
    asked,             \* queries begun, up to MaxQueries
    raced              \* history: events updated by two workers at once

shared == <<events_arr, concurrency, shared_table, bookings>>
locks == <<concurrency_lock, table_lock>>
local == <<query, i, res, reg>>
history == <<asked, raced>>
vars == <<shared, locks, status, pc, local, history>>

Row == 0 .. MAX - 1
NoRow == -1

\* Bookings that ask for seats, and the other two kinds, which do not.
Query ==
    [kind : {"book"}, event : Event, seats : Seats] \cup
    [kind : {"enquiry", "cancel"}, event : Event, seats : {0}]

Finding == {"find_event", "find_free", "find_again"}

Step ==
    {"test", "select", "count", "push", "pick", "look", "await",
     "table_cond", "no_row", "write_event", "write_mode", "check", "load",
     "store", "finish", "uncount", "clear_event", "clear_mode", "signal",
     "full", "cond"} \cup Finding

Init ==
    /\ events_arr = [e \in Event |-> 0]
    /\ concurrency = 0
    /\ shared_table = [r \in Row |-> [event |-> NULL, mode |-> -1]]
    /\ bookings = {}
    /\ concurrency_lock = NULL
    /\ table_lock = NULL
    /\ status = "running"
    /\ pc = [w \in Worker |-> "test"]
    /\ query = [w \in Worker |-> NULL]
    /\ i = [w \in Worker |-> 0]
    /\ res = [w \in Worker |-> NoRow]
    /\ reg = [w \in Worker |-> 0]
    /\ asked = 0
    /\ raced = {}

\* The process is gone, and its memory with it.
Over(how) ==
    /\ status' = how
    /\ events_arr' = [e \in Event |-> 0]
    /\ concurrency' = 0
    /\ shared_table' = [r \in Row |-> [event |-> NULL, mode |-> -1]]
    /\ bookings' = {}
    /\ concurrency_lock' = NULL
    /\ table_lock' = NULL
    /\ pc' = [w \in Worker |-> "test"]
    /\ query' = [w \in Worker |-> NULL]
    /\ i' = [w \in Worker |-> 0]
    /\ res' = [w \in Worker |-> NoRow]
    /\ reg' = [w \in Worker |-> 0]
    /\ asked' = 0
    /\ raced' = {}

Goes(w, from, to) ==
    /\ status = "running"
    /\ pc[w] = from
    /\ pc' = [pc EXCEPT ![w] = to]

-----------------------------------------------------------------------------
(* query_function: choosing a query *)

\* Test of the limit, if finish has not come; from then on the thread stays.
Test(w) ==
    /\ Goes(w, "test", IF concurrency < MAX THEN "select" ELSE "full")
    /\ UNCHANGED <<shared, locks, status, local, history>>

\* A query is chosen, and concurrency++ begins.
Select(w) ==
    /\ Goes(w, "select", "count")
    /\ asked < MaxQueries
    /\ \E q \in Query :
        /\ q.kind = "cancel" => q.event \in bookings
        /\ query' = [query EXCEPT ![w] = q]
    /\ reg' = [reg EXCEPT ![w] = concurrency]
    /\ asked' = asked + 1
    /\ UNCHANGED <<shared, locks, status, i, res, raced>>

\* "No bookings are made yet by this thread"
NothingToCancel(w) ==
    /\ bookings = {}
    /\ Goes(w, "select", "test")
    /\ UNCHANGED <<shared, locks, status, local, history>>

Count(w) ==
    /\ Goes(w, "count", CASE query[w].kind = "book" -> "push"
                          [] query[w].kind = "cancel" -> "pick"
                          [] OTHER -> "find_event")
    /\ concurrency' = reg[w] + 1
    /\ reg' = [reg EXCEPT ![w] = 0]
    /\ UNCHANGED <<events_arr, shared_table, bookings, locks, status, query,
                   i, res, history>>

Others(w, steps) == \E v \in Worker \ {w} : pc[v] \in steps

\* bookings.push_back: two at once may lose one of the bookings, ...
Push(w) ==
    /\ Goes(w, "push", "find_event")
    /\ \/ bookings' = bookings \cup {query[w].event}
       \/ Others(w, {"push"}) /\ UNCHANGED bookings
    /\ UNCHANGED <<events_arr, concurrency, shared_table, locks, status,
                   local, history>>

\* ... and moving the vector while it is in use may kill the program.
PushCrash(w) ==
    /\ status = "running"
    /\ pc[w] = "push"
    /\ Others(w, {"push", "select", "pick"})
    /\ Over("crashed")

\* The booking to cancel is only read after concurrency++, when a push_back
\* that met another may have put another event in its place.
Pick(w) ==
    /\ Goes(w, "pick", "find_event")
    /\ \E e \in bookings : query' = [query EXCEPT ![w].event = e]
    /\ UNCHANGED <<shared, locks, status, i, res, reg, history>>

-----------------------------------------------------------------------------
(* event_finder, the loop over the rows; it returns the last one found *)

\* Fault: the row of a query is not cleared.
AfterFindUncleared(w, r) ==
    CASE pc[w] = "find_event" ->
            IF r = NoRow THEN "find_free"
            ELSE IF query[w].kind = "enquiry" THEN "look" ELSE "await"
      [] pc[w] = "find_free" -> IF r = NoRow THEN "no_row" ELSE "write_event"
      [] pc[w] = "find_again" -> "signal"

\* What a worker does when event_finder has returned r.
AfterFind(w, r) ==
    CASE pc[w] = "find_event" ->
            IF r = NoRow THEN "find_free"
            ELSE IF query[w].kind = "enquiry" THEN "look" ELSE "await"
      [] pc[w] = "find_free" -> IF r = NoRow THEN "no_row" ELSE "write_event"
      [] pc[w] = "find_again" -> IF r = NoRow THEN "signal" ELSE "clear_event"

Sought(w) == IF pc[w] = "find_free" THEN NULL ELSE query[w].event

LastRow(w) == i[w] + 1 = MAX

FindRow(w) ==
    /\ pc[w] \in Finding
    /\ table_lock = NULL
    /\ LET r == IF shared_table[i[w]].event = Sought(w) THEN i[w]
                ELSE IF i[w] = 0 THEN NoRow ELSE res[w]
       IN /\ Goes(w, pc[w], IF LastRow(w) THEN AfterFind(w, r) ELSE pc[w])
          /\ res' = [res EXCEPT ![w] = r]
          /\ i' = [i EXCEPT ![w] = IF LastRow(w) THEN 0 ELSE @ + 1]
    /\ UNCHANGED <<shared, locks, status, query, reg, history>>

-----------------------------------------------------------------------------
(* enquiry, book_tickets and cancel_ticket *)

\* The row found is not used any more.
Forget(w) == res' = [res EXCEPT ![w] = NoRow]

\* enquiry looks at the row found without a lock.
Look(w) ==
    /\ pc[w] = "look"
    /\ IF shared_table[res[w]].mode # 1
       THEN Goes(w, "look", "finish") /\ Forget(w)
       ELSE Goes(w, "look", "await") /\ UNCHANGED res
    /\ UNCHANGED <<shared, locks, status, query, i, reg, history>>

\* The modes of a row that a query has to wait for.
Blocking(kind) == IF kind = "enquiry" THEN {1} ELSE {0, 1}

\* One turn of the while loop under table_lock.
Await(w) ==
    /\ pc[w] = "await"
    /\ table_lock = NULL
    /\ IF shared_table[res[w]].mode \in Blocking(query[w].kind)
       THEN Goes(w, "await", "table_cond") /\ UNCHANGED res
       ELSE /\ Goes(w, "await", IF query[w].kind = "enquiry" THEN "finish"
                                ELSE "find_free")
            /\ Forget(w)
    /\ UNCHANGED <<shared, locks, status, query, i, reg, history>>

\* Row -1 is written to, outside the table.
NoRowLeft(w) ==
    /\ status = "running"
    /\ pc[w] = "no_row"
    /\ Over("crashed")

WriteEvent(w) ==
    /\ Goes(w, "write_event", "write_mode")
    /\ shared_table' = [shared_table EXCEPT ![res[w]].event = query[w].event]
    /\ UNCHANGED <<events_arr, concurrency, bookings, locks, status, local,
                   history>>

\* Another worker is reading or updating the seats of e to change them.
Updating(w, e) ==
    \E v \in Worker \ {w} :
        pc[v] \in {"check", "load", "store"} /\ query[v].event = e

WriteMode(w) ==
    /\ Goes(w, "write_mode",
            CASE query[w].kind = "enquiry" -> "finish"
              [] query[w].kind = "book" -> "check"
              [] query[w].kind = "cancel" -> "load")
    /\ shared_table' = [shared_table EXCEPT
            ![res[w]].mode = IF query[w].kind = "enquiry" THEN 0 ELSE 1]
    /\ raced' = IF query[w].kind # "enquiry" /\ Updating(w, query[w].event)
                THEN raced \cup {query[w].event} ELSE raced
    /\ Forget(w)
    /\ UNCHANGED <<events_arr, concurrency, bookings, locks, status, query, i,
                   reg, asked>>

\* Fault: the seats asked for are not counted.
FitsBefore(q) == events_arr[q.event] <= capacity

\* events_arr[event_no] + total_seats <= capacity
Fits(q) == events_arr[q.event] + q.seats <= capacity

Check(w) ==
    /\ Goes(w, "check", IF Fits(query[w]) THEN "load" ELSE "finish")
    /\ UNCHANGED <<shared, locks, status, local, history>>

Load(w) ==
    /\ Goes(w, "load", "store")
    /\ reg' = [reg EXCEPT ![w] = events_arr[query[w].event]]
    /\ UNCHANGED <<shared, locks, status, query, i, res, history>>

Store(w) ==
    /\ Goes(w, "store", "finish")
    /\ events_arr' = [events_arr EXCEPT ![query[w].event] =
            IF query[w].kind = "book" THEN reg[w] + query[w].seats
            ELSE reg[w] - 1]
    /\ reg' = [reg EXCEPT ![w] = 0]
    /\ UNCHANGED <<concurrency, shared_table, bookings, locks, status, query,
                   i, res, history>>

-----------------------------------------------------------------------------
(* The end of a query, under concurrency_lock *)

Finish(w) ==
    /\ concurrency_lock = NULL
    /\ Goes(w, "finish", "uncount")
    /\ concurrency_lock' = w
    /\ reg' = [reg EXCEPT ![w] = concurrency]
    /\ UNCHANGED <<shared, table_lock, status, query, i, res, history>>

Uncount(w) ==
    /\ Goes(w, "uncount", "find_again")
    /\ concurrency' = reg[w] - 1
    /\ reg' = [reg EXCEPT ![w] = 0]
    /\ UNCHANGED <<events_arr, shared_table, bookings, locks, status, query,
                   i, res, history>>

\* table_default, whose lock does not keep out the writers above
ClearEvent(w) ==
    /\ table_lock = NULL
    /\ Goes(w, "clear_event", "clear_mode")
    /\ table_lock' = w
    /\ shared_table' = [shared_table EXCEPT ![res[w]].event = NULL]
    /\ UNCHANGED <<events_arr, concurrency, bookings, concurrency_lock,
                   status, local, history>>

ClearMode(w) ==
    /\ Goes(w, "clear_mode", "signal")
    /\ table_lock' = NULL
    /\ shared_table' = [shared_table EXCEPT ![res[w]].mode = -1]
    /\ Forget(w)
    /\ UNCHANGED <<events_arr, concurrency, bookings, concurrency_lock,
                   status, query, i, reg, history>>

\* Whom pthread_cond_signal may wake: one of the waiters, if there is any.
Signalled(condition) ==
    LET waiters == {w \in Worker : pc[w] = condition} IN
    IF waiters = {} THEN {{}} ELSE {{w} : w \in waiters}

\* Fault: the lock is kept.
StillLocked(w) == w

Unlocked(w) == NULL

Signal(w) ==
    /\ status = "running"
    /\ pc[w] = "signal"
    /\ \E a \in Signalled("table_cond"), b \in Signalled("cond") :
        pc' = [v \in Worker |-> IF v = w THEN "test"
                                ELSE IF v \in a THEN "await"
                                ELSE IF v \in b THEN "full" ELSE pc[v]]
    /\ concurrency_lock' = Unlocked(w)
    /\ query' = [query EXCEPT ![w] = NULL]
    /\ UNCHANGED <<shared, table_lock, status, i, res, reg, history>>

\* One turn of while (concurrency >= MAX), under concurrency_lock.
Full(w) ==
    /\ concurrency_lock = NULL
    /\ Goes(w, "full", IF concurrency >= MAX THEN "cond" ELSE "test")
    /\ UNCHANGED <<shared, locks, status, local, history>>

\* pthread_cond_wait may return without a signal.
Spurious(w) ==
    /\ \/ Goes(w, "table_cond", "await")
       \/ Goes(w, "cond", "full")
    /\ UNCHANGED <<shared, locks, status, local, history>>

-----------------------------------------------------------------------------
(* main *)

\* main() destroys the locks, prints the bookings and returns.
Destroy ==
    /\ status = "running"
    /\ Over("destroyed")

-----------------------------------------------------------------------------

QueryStep(w) ==
    \/ Test(w) \/ Select(w) \/ NothingToCancel(w) \/ Count(w) \/ Push(w)
    \/ PushCrash(w) \/ Pick(w) \/ FindRow(w) \/ Look(w) \/ Await(w)
    \/ NoRowLeft(w) \/ WriteEvent(w) \/ WriteMode(w)
    \/ Check(w) \/ Load(w) \/ Store(w)
    \/ Finish(w) \/ Uncount(w) \/ ClearEvent(w) \/ ClearMode(w) \/ Signal(w)
    \/ Full(w)

Next ==
    \/ \E w \in Worker : QueryStep(w) \/ Spurious(w)
    \/ Destroy

Spec == Init /\ [][Next]_vars

-----------------------------------------------------------------------------
(* Properties *)

EventTypeOK ==
    /\ events_arr \in [Event -> Int]
    /\ concurrency \in Int
    /\ shared_table \in
         [Row -> [event : Event \cup {NULL}, mode : {-1, 0, 1}]]
    /\ bookings \subseteq Event
    /\ {concurrency_lock, table_lock} \subseteq Worker \cup {NULL}
    /\ status \in {"running", "crashed", "destroyed"}
    /\ pc \in [Worker -> Step]
    /\ query \in [Worker -> Query \cup {NULL}]
    /\ i \in [Worker -> Row]
    /\ res \in [Worker -> Row \cup {NoRow}]
    /\ reg \in [Worker -> Int]
    /\ asked \in 0 .. MaxQueries
    /\ raced \subseteq Event

\* The workers that have put e into a row, or have found it in one and go
\* on, and have not cleared a row yet.
Owners(e) ==
    {w \in Worker :
        /\ pc[w] \in {"write_mode", "check", "load", "store", "finish",
                      "uncount", "find_again", "clear_event"}
        /\ query[w].event = e}

(***************************************************************************)
(* The rows of the table do not run out because of rows left behind:       *)
(* although rows are taken twice, overwritten and cleared by other workers *)
(* than those who took them, an event never has more rows than workers     *)
(* that have yet to clear one (lines 33-55, 83-99, 114-137, 153-168).      *)
(***************************************************************************)
RowsHaveOwners ==
    \A e \in Event :
        Cardinality({r \in Row : shared_table[r].event = e})
            <= Cardinality(Owners(e))

(***************************************************************************)
(* An event is only overbooked when two workers update its seats at the    *)
(* same time, which nothing but the table keeps them from: one after the   *)
(* other they stay within the capacity (lines 119-121 and 158).            *)
(***************************************************************************)
OverbookedOnlyByRace ==
    \A e \in Event : events_arr[e] > capacity => e \in raced

(***************************************************************************)
(* The two locks cannot deadlock, although table_lock is taken with        *)
(* concurrency_lock held: the owner of concurrency_lock is never waiting,  *)
(* and nobody else has table_lock for longer than one region (lines 92-98, *)
(* 130-136, 161-167).                                                      *)
(***************************************************************************)
Ending == {"uncount", "find_again", "clear_event", "clear_mode", "signal"}

OwnerGoesOn ==
    /\ \A w \in Worker : pc[w] \in Ending <=> concurrency_lock = w
    /\ table_lock # NULL =>
         concurrency_lock = table_lock /\ pc[table_lock] = "clear_mode"
=============================================================================
