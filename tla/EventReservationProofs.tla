----------------------- MODULE EventReservationProofs -----------------------
(***************************************************************************)
(* Proofs about EventReservation for any number of workers, events, seats  *)
(* and rows.                                                               *)
(***************************************************************************)
EXTENDS EventReservation, TLAPS, FiniteSetTheorems

(***************************************************************************)
(* The types are not inductive by themselves: a worker that uses its query *)
(* must have one, and one that uses a row must have found it.              *)
(***************************************************************************)
Querying == Step \ {"test", "select", "full", "cond"}

AtRow ==
    {"look", "await", "table_cond", "write_event", "write_mode",
     "clear_event", "clear_mode"}

HasQuery == \A w \in Worker : pc[w] \in Querying => query[w] \in Query

HasRow == \A w \in Worker : pc[w] \in AtRow => res[w] \in Row

ResInv == EventTypeOK /\ HasQuery /\ HasRow /\ OwnerGoesOn

\* What a query is made of.
LEMMA QueryFields ==
    ASSUME NEW q \in Query
    PROVE  /\ q.kind \in {"enquiry", "book", "cancel"}
           /\ q.event \in Event
           /\ q.seats \in Int
<1>a. Seats \subseteq Int
  BY ReservationAssumption
<1>1. CASE q \in [kind : {"book"}, event : Event, seats : Seats]
  BY <1>1, <1>a
<1>2. CASE q \in [kind : {"enquiry", "cancel"}, event : Event, seats : {0}]
  BY <1>2
<1>3. QED
  BY <1>1, <1>2 DEF Query

LEMMA RowZero == 0 \in Row
BY ReservationAssumption DEF Row

\* The state the program starts in, and the one that is left of it.
LEMMA ResInit == Init => ResInv
<1> SUFFICES ASSUME Init PROVE ResInv
  OBVIOUS
<1> USE ReservationAssumption, RowZero DEF Init
<1>1. EventTypeOK
  BY DEF EventTypeOK, Step, NoRow
<1>2. HasQuery /\ HasRow
  BY DEF HasQuery, HasRow, Querying, AtRow
<1>3. OwnerGoesOn
  BY DEF OwnerGoesOn, Ending
<1>4. QED
  BY <1>1, <1>2, <1>3 DEF ResInv

LEMMA OverKeeps ==
    ASSUME NEW how \in {"crashed", "destroyed"}, Over(how)
    PROVE  ResInv'
<1> USE ReservationAssumption, RowZero DEF Over
<1>1. EventTypeOK'
  BY DEF EventTypeOK, Step, NoRow
<1>2. HasQuery' /\ HasRow'
  BY DEF HasQuery, HasRow, Querying, AtRow
<1>3. OwnerGoesOn'
  BY DEF OwnerGoesOn, Ending
<1>4. QED
  BY <1>1, <1>2, <1>3 DEF ResInv

\* A write to a row of the table.
LEMMA TableKept ==
    ASSUME NEW table \in
             [Row -> [event : Event \cup {NULL}, mode : {-1, 0, 1}]],
           NEW row \in Row
    PROVE  /\ \A e \in Event \cup {NULL} :
                [table EXCEPT ![row].event = e] \in
                  [Row -> [event : Event \cup {NULL}, mode : {-1, 0, 1}]]
           /\ \A m \in {-1, 0, 1} :
                [table EXCEPT ![row].mode = m] \in
                  [Row -> [event : Event \cup {NULL}, mode : {-1, 0, 1}]]
OBVIOUS

\* A step of a worker between two regions that leaves the locks alone.
LEMMA LocksKept ==
    ASSUME ResInv, UNCHANGED locks, NEW w \in Worker, NEW to \in Step,
           pc' = [pc EXCEPT ![w] = to],
           to \in Ending <=> pc[w] \in Ending,
           pc[w] # "clear_mode"
    PROVE  OwnerGoesOn'
BY ReservationAssumption
   DEF ResInv, EventTypeOK, OwnerGoesOn, locks

LEMMA ResStep == ResInv /\ [Next]_vars => ResInv'
<1> SUFFICES ASSUME ResInv, [Next]_vars PROVE ResInv'
  OBVIOUS
<1>t. EventTypeOK /\ HasQuery /\ HasRow /\ OwnerGoesOn
  BY DEF ResInv
<1> USE <1>t, ReservationAssumption
<1>1. ASSUME NEW w \in Worker, Test(w) PROVE ResInv'
  <2>1. EventTypeOK'
    BY <1>1 DEF Test, Goes, EventTypeOK, Step, Finding, shared, locks,
       local, history
  <2>2. HasQuery' /\ HasRow'
    BY <1>1 DEF Test, Goes, HasQuery, HasRow, Querying, AtRow, Step,
       Finding, EventTypeOK, shared, local
  <2>3. OwnerGoesOn'
    BY <1>1, LocksKept DEF Test, Goes, Ending, Step, Finding, locks
  <2>4. QED
    BY <2>1, <2>2, <2>3 DEF ResInv
<1>2. ASSUME NEW w \in Worker, Select(w) PROVE ResInv'
  <2>1. EventTypeOK'
    BY <1>2 DEF Select, Goes, EventTypeOK, Step, Finding, shared, locks,
       local, history
  <2>2. HasQuery' /\ HasRow'
    BY <1>2 DEF Select, Goes, HasQuery, HasRow, Querying, AtRow, Step,
       Finding, EventTypeOK, shared, local
  <2>3. OwnerGoesOn'
    BY <1>2, LocksKept DEF Select, Goes, Ending, Step, Finding, locks
  <2>4. QED
    BY <2>1, <2>2, <2>3 DEF ResInv
<1>3. ASSUME NEW w \in Worker, NothingToCancel(w) PROVE ResInv'
  <2>1. EventTypeOK'
    BY <1>3 DEF NothingToCancel, Goes, EventTypeOK, Step, Finding, shared,
       locks,
       local, history
  <2>2. HasQuery' /\ HasRow'
    BY <1>3 DEF NothingToCancel, Goes, HasQuery, HasRow, Querying, AtRow, Step,
       Finding, EventTypeOK, shared, local
  <2>3. OwnerGoesOn'
    BY <1>3, LocksKept DEF NothingToCancel, Goes, Ending, Step, Finding, locks
  <2>4. QED
    BY <2>1, <2>2, <2>3 DEF ResInv
<1>4. ASSUME NEW w \in Worker, Count(w) PROVE ResInv'
  <2>0. /\ query[w].kind \in {"enquiry", "book", "cancel"}
        /\ query[w].event \in Event /\ query[w].seats \in Int
    BY <1>4, QueryFields
       DEF Count, Goes, HasQuery, Querying, Step, Finding, EventTypeOK
  <2>1. EventTypeOK'
    BY <2>0, <1>4 DEF Count, Goes, EventTypeOK, Step, Finding, shared, locks,
       local, history
  <2>2. HasQuery' /\ HasRow'
    BY <2>0, <1>4 DEF Count, Goes, HasQuery, HasRow, Querying, AtRow, Step,
       Finding, EventTypeOK, shared, local
  <2>3. OwnerGoesOn'
    BY <2>0, <1>4, LocksKept DEF Count, Goes, Ending, Step, Finding, locks
  <2>4. QED
    BY <2>1, <2>2, <2>3 DEF ResInv
<1>5. ASSUME NEW w \in Worker, Push(w) PROVE ResInv'
  <2>0. /\ query[w].kind \in {"enquiry", "book", "cancel"}
        /\ query[w].event \in Event /\ query[w].seats \in Int
    BY <1>5, QueryFields
       DEF Push, Goes, HasQuery, Querying, Step, Finding, EventTypeOK
  <2>1. EventTypeOK'
    BY <2>0, <1>5 DEF Push, Goes, EventTypeOK, Step, Finding, shared, locks,
       local, history
  <2>2. HasQuery' /\ HasRow'
    BY <2>0, <1>5 DEF Push, Goes, HasQuery, HasRow, Querying, AtRow, Step,
       Finding, EventTypeOK, shared, local
  <2>3. OwnerGoesOn'
    BY <2>0, <1>5, LocksKept DEF Push, Goes, Ending, Step, Finding, locks
  <2>4. QED
    BY <2>1, <2>2, <2>3 DEF ResInv
<1>25. ASSUME NEW w \in Worker, Pick(w) PROVE ResInv'
  <2>0. PICK e \in Event : query' = [query EXCEPT ![w].event = e]
    BY <1>25 DEF Pick, EventTypeOK
  <2>1. query[w] \in Query
    BY <1>25 DEF Pick, Goes, HasQuery, Querying, Step, Finding
  <2>2. [query[w] EXCEPT !.event = e] \in Query
    BY <2>1 DEF Query
  <2>3. EventTypeOK'
    BY <2>0, <2>2, <1>25 DEF Pick, Goes, EventTypeOK, Step, Finding, shared,
       locks, history
  <2>4. HasQuery' /\ HasRow'
    BY <2>0, <2>2, <1>25 DEF Pick, Goes, HasQuery, HasRow, Querying, AtRow,
       Step, Finding, EventTypeOK
  <2>5. OwnerGoesOn'
    BY <1>25, LocksKept DEF Pick, Goes, Ending, Step, Finding, locks
  <2>6. QED
    BY <2>3, <2>4, <2>5 DEF ResInv
<1>6. ASSUME NEW w \in Worker, FindRow(w) PROVE ResInv'
  <2>0. /\ query[w].kind \in {"enquiry", "book", "cancel"}
        /\ query[w].event \in Event /\ query[w].seats \in Int
    BY <1>6, QueryFields
       DEF FindRow, Goes, HasQuery, Querying, Step, Finding, EventTypeOK
  <2> DEFINE to == IF LastRow(w) THEN AfterFind(w, res'[w]) ELSE pc[w]
  <2>a. /\ pc[w] \in Finding /\ i[w] \in 0 .. MAX - 1
        /\ i' = [i EXCEPT ![w] = IF LastRow(w) THEN 0 ELSE @ + 1]
        /\ res'[w] \in Row \cup {NoRow}
        /\ res' = [res EXCEPT ![w] = res'[w]]
        /\ pc' = [pc EXCEPT ![w] = to]
    BY <1>6 DEF FindRow, Goes, EventTypeOK, Row
  <2>b. to \in Step /\ (to \in Ending <=> pc[w] \in Ending)
    <3>1. CASE LastRow(w) /\ pc[w] = "find_event"
      BY <3>1 DEF AfterFind, Step, Finding, Ending
    <3>2. CASE LastRow(w) /\ pc[w] = "find_free"
      BY <3>2 DEF AfterFind, Step, Ending
    <3>3. CASE LastRow(w) /\ pc[w] = "find_again"
      BY <3>3 DEF AfterFind, Step, Ending
    <3>4. CASE ~LastRow(w)
      BY <3>4, <2>a DEF EventTypeOK
    <3>5. pc[w] \in {"find_event", "find_free", "find_again"}
      BY <2>a DEF Finding
    <3>6. QED
      BY <3>1, <3>2, <3>3, <3>4, <3>5
  <2>c. i' \in [Worker -> Row]
    BY <2>a DEF EventTypeOK, Row, LastRow
  <2>d. pc' \in [Worker -> Step] /\ res' \in [Worker -> Row \cup {NoRow}]
    BY <2>a, <2>b DEF EventTypeOK
  <2>1. EventTypeOK'
    BY <1>6, <2>c, <2>d DEF FindRow, EventTypeOK, shared, locks, history
  <2>e. HasQuery'
    <3>1. UNCHANGED query /\ pc \in [Worker -> Step] /\ pc[w] \in Querying
      BY <1>6, <2>a DEF FindRow, Querying, Step, Finding, EventTypeOK
    <3>2. QED
      BY <2>a, <3>1 DEF HasQuery
  <2>f. HasRow'
    BY <2>0, <1>6 DEF FindRow, Goes, HasRow, AtRow,
       Finding, EventTypeOK, AfterFind, LastRow, Row
  <2>2. HasQuery' /\ HasRow'
    BY <2>e, <2>f
  <2>3. OwnerGoesOn'
    <3>1. UNCHANGED locks /\ pc[w] # "clear_mode"
      BY <1>6 DEF FindRow, Finding
    <3>2. QED
      BY <3>1, <2>a, <2>b, LocksKept
  <2>4. QED
    BY <2>1, <2>2, <2>3 DEF ResInv
<1>7. ASSUME NEW w \in Worker, Look(w) PROVE ResInv'
  <2>0. /\ query[w].kind \in {"enquiry", "book", "cancel"}
        /\ query[w].event \in Event /\ query[w].seats \in Int
    BY <1>7, QueryFields
       DEF Look, Goes, HasQuery, Querying, Step, Finding, EventTypeOK
  <2>1. EventTypeOK'
    BY <2>0, <1>7 DEF Look, Goes, EventTypeOK, Step, Finding, shared, locks,
       local, history, Forget
  <2>2. HasQuery' /\ HasRow'
    <3>1. CASE pc'[w] = "finish"
      BY <1>7, <3>1 DEF Look, Goes, HasQuery, HasRow, Querying, AtRow, Step,
         Finding, EventTypeOK, Forget
    <3>2. CASE pc'[w] = "await" /\ UNCHANGED res
      BY <1>7, <3>2 DEF Look, Goes, HasQuery, HasRow, Querying, AtRow, Step,
         Finding, EventTypeOK
    <3>3. QED
      BY <1>7, <3>1, <3>2 DEF Look, Goes, EventTypeOK
  <2>3. OwnerGoesOn'
    BY <2>0, <1>7, LocksKept DEF Look, Goes, Ending, Step, Finding, locks,
       Forget
  <2>4. QED
    BY <2>1, <2>2, <2>3 DEF ResInv
<1>8. ASSUME NEW w \in Worker, Await(w) PROVE ResInv'
  <2>0. /\ query[w].kind \in {"enquiry", "book", "cancel"}
        /\ query[w].event \in Event /\ query[w].seats \in Int
    BY <1>8, QueryFields
       DEF Await, Goes, HasQuery, Querying, Step, Finding, EventTypeOK
  <2>1. EventTypeOK'
    <3>1. /\ \E to \in Step : pc' = [pc EXCEPT ![w] = to]
          /\ UNCHANGED res \/ Forget(w)
      BY <2>0, <1>8 DEF Await, Goes, Step, Finding
    <3>2. pc' \in [Worker -> Step] /\ res' \in [Worker -> Row \cup {NoRow}]
      BY <3>1 DEF EventTypeOK, Forget
    <3>3. QED
      BY <1>8, <3>2 DEF Await, EventTypeOK, shared, locks, history
  <2>2. HasQuery' /\ HasRow'
    <3>1. pc \in [Worker -> Step] /\ res \in [Worker -> Row \cup {NoRow}]
      BY DEF EventTypeOK
    <3>2. UNCHANGED query /\ pc[w] = "await" /\ res[w] \in Row
      BY <1>8 DEF Await, Goes, HasRow, AtRow
    <3>3. CASE pc' = [pc EXCEPT ![w] = "table_cond"] /\ UNCHANGED res
      BY <3>1, <3>2, <3>3 DEF HasQuery, Querying, HasRow, AtRow, Step, Finding
    <3>4. ASSUME NEW to \in {"finish", "find_free"},
                 pc' = [pc EXCEPT ![w] = to], Forget(w)
          PROVE  HasQuery' /\ HasRow'
      BY <3>1, <3>2, <3>4
         DEF HasQuery, Querying, HasRow, AtRow, Step, Finding, Forget
    <3>5. QED
      BY <1>8, <3>3, <3>4 DEF Await, Goes
  <2>3. OwnerGoesOn'
    BY <2>0, <1>8, LocksKept DEF Await, Goes, Ending, Step, Finding, locks,
       Forget
  <2>4. QED
    BY <2>1, <2>2, <2>3 DEF ResInv
<1>9. ASSUME NEW w \in Worker, WriteEvent(w) PROVE ResInv'
  <2>0. /\ query[w].kind \in {"enquiry", "book", "cancel"}
        /\ query[w].event \in Event /\ query[w].seats \in Int
    BY <1>9, QueryFields
       DEF WriteEvent, Goes, HasQuery, Querying, Step, Finding, EventTypeOK
  <2>a. PICK row \in Row, e \in Event \cup {NULL} :
          shared_table' = [shared_table EXCEPT ![row].event = e]
    BY <2>0, <1>9 DEF WriteEvent, HasRow, AtRow, Goes
  <2>b. shared_table' \in
          [Row -> [event : Event \cup {NULL}, mode : {-1, 0, 1}]]
    BY <2>a, TableKept DEF EventTypeOK
  <2>1. EventTypeOK'
    BY <2>b, <1>9 DEF WriteEvent, Goes, EventTypeOK, Step, locks, local,
       history
  <2>2. HasQuery' /\ HasRow'
    BY <2>0, <1>9 DEF WriteEvent, Goes, HasQuery, HasRow, Querying, AtRow,
       Step,
       Finding, EventTypeOK, shared, local
  <2>3. OwnerGoesOn'
    BY <2>0, <1>9, LocksKept DEF WriteEvent, Goes, Ending, Step, Finding, locks
  <2>4. QED
    BY <2>1, <2>2, <2>3 DEF ResInv
<1>10. ASSUME NEW w \in Worker, WriteMode(w) PROVE ResInv'
  <2>0. /\ query[w].kind \in {"enquiry", "book", "cancel"}
        /\ query[w].event \in Event /\ query[w].seats \in Int
    BY <1>10, QueryFields
       DEF WriteMode, Goes, HasQuery, Querying, Step, Finding, EventTypeOK
  <2>a. pc' \in [Worker -> Step]
    BY <2>0, <1>10 DEF WriteMode, Goes, EventTypeOK, Step
  <2>b. shared_table' \in
          [Row -> [event : Event \cup {NULL}, mode : {-1, 0, 1}]]
    <3>1. PICK mode \in {-1, 0, 1} :
            shared_table' = [shared_table EXCEPT ![res[w]].mode = mode]
      BY <1>10 DEF WriteMode
    <3>2. shared_table \in
            [Row -> [event : Event \cup {NULL}, mode : {-1, 0, 1}]]
      BY DEF EventTypeOK
    <3>3. QED
      BY <3>1, <3>2
  <2>c. raced' \subseteq Event /\ res' \in [Worker -> Row \cup {NoRow}]
    BY <2>0, <1>10 DEF WriteMode, Forget, EventTypeOK
  <2>1. EventTypeOK'
    BY <1>10, <2>a, <2>b, <2>c DEF WriteMode, EventTypeOK, locks
  <2>2. HasQuery' /\ HasRow'
    BY <2>0, <1>10 DEF WriteMode, Goes, HasQuery, HasRow, Querying, AtRow,
       Step,
       Finding, EventTypeOK, shared, local, Forget
  <2>3. OwnerGoesOn'
    BY <2>0, <1>10, LocksKept DEF WriteMode, Goes, Ending, Step, Finding,
       locks, Forget
  <2>4. QED
    BY <2>1, <2>2, <2>3 DEF ResInv
<1>11. ASSUME NEW w \in Worker, Check(w) PROVE ResInv'
  <2>1. EventTypeOK'
    BY <1>11 DEF Check, Goes, EventTypeOK, Step, Finding, shared, locks,
       local, history
  <2>2. HasQuery' /\ HasRow'
    BY <1>11 DEF Check, Goes, HasQuery, HasRow, Querying, AtRow, Step,
       Finding, EventTypeOK, shared, local
  <2>3. OwnerGoesOn'
    BY <1>11, LocksKept DEF Check, Goes, Ending, Step, Finding, locks
  <2>4. QED
    BY <2>1, <2>2, <2>3 DEF ResInv
<1>12. ASSUME NEW w \in Worker, Load(w) PROVE ResInv'
  <2>0. /\ query[w].kind \in {"enquiry", "book", "cancel"}
        /\ query[w].event \in Event /\ query[w].seats \in Int
    BY <1>12, QueryFields
       DEF Load, Goes, HasQuery, Querying, Step, Finding, EventTypeOK
  <2>1. EventTypeOK'
    BY <2>0, <1>12 DEF Load, Goes, EventTypeOK, Step, Finding, shared, locks,
       local, history
  <2>2. HasQuery' /\ HasRow'
    BY <2>0, <1>12 DEF Load, Goes, HasQuery, HasRow, Querying, AtRow, Step,
       Finding, EventTypeOK, shared, local
  <2>3. OwnerGoesOn'
    BY <2>0, <1>12, LocksKept DEF Load, Goes, Ending, Step, Finding, locks
  <2>4. QED
    BY <2>1, <2>2, <2>3 DEF ResInv
<1>13. ASSUME NEW w \in Worker, Store(w) PROVE ResInv'
  <2>0. /\ query[w].kind \in {"enquiry", "book", "cancel"}
        /\ query[w].event \in Event /\ query[w].seats \in Int
    BY <1>13, QueryFields
       DEF Store, Goes, HasQuery, Querying, Step, Finding, EventTypeOK
  <2>1. EventTypeOK'
    BY <2>0, <1>13 DEF Store, Goes, EventTypeOK, Step, Finding, shared, locks,
       local, history
  <2>2. HasQuery' /\ HasRow'
    BY <2>0, <1>13 DEF Store, Goes, HasQuery, HasRow, Querying, AtRow, Step,
       Finding, EventTypeOK, shared, local
  <2>3. OwnerGoesOn'
    BY <2>0, <1>13, LocksKept DEF Store, Goes, Ending, Step, Finding, locks
  <2>4. QED
    BY <2>1, <2>2, <2>3 DEF ResInv
<1>14. ASSUME NEW w \in Worker, Finish(w) PROVE ResInv'
  <2>1. EventTypeOK'
    BY <1>14 DEF Finish, Goes, EventTypeOK, Step, Finding, shared, locks,
       local, history
  <2>2. HasQuery' /\ HasRow'
    BY <1>14 DEF Finish, Goes, HasQuery, HasRow, Querying, AtRow, Step,
       Finding, EventTypeOK, shared, local
  <2>3. OwnerGoesOn'
    BY <1>14 DEF Finish, Goes, Ending, OwnerGoesOn, EventTypeOK, Step,
       Finding, locks
  <2>4. QED
    BY <2>1, <2>2, <2>3 DEF ResInv
<1>15. ASSUME NEW w \in Worker, Uncount(w) PROVE ResInv'
  <2>1. EventTypeOK'
    BY <1>15 DEF Uncount, Goes, EventTypeOK, Step, Finding, shared, locks,
       local, history
  <2>2. HasQuery' /\ HasRow'
    BY <1>15 DEF Uncount, Goes, HasQuery, HasRow, Querying, AtRow, Step,
       Finding, EventTypeOK, shared, local
  <2>3. OwnerGoesOn'
    BY <1>15, LocksKept DEF Uncount, Goes, Ending, Step, Finding, locks
  <2>4. QED
    BY <2>1, <2>2, <2>3 DEF ResInv
<1>16. ASSUME NEW w \in Worker, ClearEvent(w) PROVE ResInv'
  <2>a. PICK row \in Row, e \in Event \cup {NULL} :
          shared_table' = [shared_table EXCEPT ![row].event = e]
    BY <1>16 DEF ClearEvent, HasRow, AtRow, Goes
  <2>b. shared_table' \in
          [Row -> [event : Event \cup {NULL}, mode : {-1, 0, 1}]]
    BY <2>a, TableKept DEF EventTypeOK
  <2>1. EventTypeOK'
    BY <2>b, <1>16 DEF ClearEvent, Goes, EventTypeOK, Step, local, history
  <2>2. HasQuery' /\ HasRow'
    BY <1>16 DEF ClearEvent, Goes, HasQuery, HasRow, Querying, AtRow, Step,
       Finding, EventTypeOK, shared, local
  <2>3. OwnerGoesOn'
    BY <1>16 DEF ClearEvent, Goes, Ending, OwnerGoesOn, EventTypeOK, Step,
       Finding, locks
  <2>4. QED
    BY <2>1, <2>2, <2>3 DEF ResInv
<1>17. ASSUME NEW w \in Worker, ClearMode(w) PROVE ResInv'
  <2>a. PICK row \in Row, mode \in {-1, 0, 1} :
          shared_table' = [shared_table EXCEPT ![row].mode = mode]
    BY <1>17 DEF ClearMode, HasRow, AtRow, Goes
  <2>b. shared_table' \in
          [Row -> [event : Event \cup {NULL}, mode : {-1, 0, 1}]]
    BY <2>a, TableKept DEF EventTypeOK
  <2>1. EventTypeOK'
    BY <2>b, <1>17 DEF ClearMode, Goes, EventTypeOK, Step, history, Forget
  <2>2. HasQuery' /\ HasRow'
    BY <1>17 DEF ClearMode, Goes, HasQuery, HasRow, Querying, AtRow, Step,
       Finding, EventTypeOK, shared, local, Forget
  <2>3. OwnerGoesOn'
    BY <1>17 DEF ClearMode, Goes, Ending, OwnerGoesOn, EventTypeOK, Step,
       Finding, locks
  <2>4. QED
    BY <2>1, <2>2, <2>3 DEF ResInv
<1>18. ASSUME NEW w \in Worker, Signal(w) PROVE ResInv'
  <2>1. EventTypeOK'
    BY <1>18 DEF Signal, Goes, EventTypeOK, Step, Finding, shared, locks,
       local, history, Signalled, Unlocked
  <2>2. HasQuery' /\ HasRow'
    BY <1>18 DEF Signal, Goes, HasQuery, HasRow, Querying, AtRow, Step,
       Finding, EventTypeOK, shared, local, Signalled
  <2>3. OwnerGoesOn'
    BY <1>18 DEF Signal, Goes, Ending, OwnerGoesOn, EventTypeOK, Step,
       Finding, locks, Signalled, Unlocked
  <2>4. QED
    BY <2>1, <2>2, <2>3 DEF ResInv
<1>19. ASSUME NEW w \in Worker, Full(w) PROVE ResInv'
  <2>1. EventTypeOK'
    BY <1>19 DEF Full, Goes, EventTypeOK, Step, Finding, shared, locks,
       local, history
  <2>2. HasQuery' /\ HasRow'
    BY <1>19 DEF Full, Goes, HasQuery, HasRow, Querying, AtRow, Step,
       Finding, EventTypeOK, shared, local
  <2>3. OwnerGoesOn'
    BY <1>19, LocksKept DEF Full, Goes, Ending, Step, Finding, locks
  <2>4. QED
    BY <2>1, <2>2, <2>3 DEF ResInv
<1>20. ASSUME NEW w \in Worker, Spurious(w) PROVE ResInv'
  <2>1. EventTypeOK'
    BY <1>20 DEF Spurious, Goes, EventTypeOK, Step, Finding, shared, locks,
       local, history
  <2>2. HasQuery' /\ HasRow'
    <3>1. UNCHANGED <<query, res>>
      BY <1>20 DEF Spurious, local
    <3>2. CASE Goes(w, "table_cond", "await")
      BY <3>1, <3>2 DEF Goes, HasQuery, HasRow, Querying, AtRow, Step,
         EventTypeOK
    <3>3. CASE Goes(w, "cond", "full")
      BY <3>1, <3>3 DEF Goes, HasQuery, HasRow, Querying, AtRow, Step,
         EventTypeOK
    <3>4. QED
      BY <1>20, <3>2, <3>3 DEF Spurious
  <2>3. OwnerGoesOn'
    BY <1>20, LocksKept DEF Spurious, Goes, Ending, Step, Finding, locks
  <2>4. QED
    BY <2>1, <2>2, <2>3 DEF ResInv
<1>21. ASSUME NEW w \in Worker, PushCrash(w) \/ NoRowLeft(w) PROVE ResInv'
  BY <1>21, OverKeeps DEF PushCrash, NoRowLeft
<1>22. CASE Destroy
  BY <1>22, OverKeeps DEF Destroy
<1>23. CASE UNCHANGED vars
  BY <1>23 DEF vars, shared, locks, local, history, ResInv, EventTypeOK,
     HasQuery,
     HasRow, OwnerGoesOn
<1>24. QED
  BY <1>1, <1>2, <1>3, <1>4, <1>5, <1>6, <1>7, <1>8, <1>9, <1>10, <1>11, <1>12,
     <1>13, <1>14, <1>15, <1>16, <1>17, <1>18, <1>19, <1>20, <1>21, <1>22,
     <1>23, <1>25 DEF Next, QueryStep

(***************************************************************************)
(* Every value keeps its type, and with it every access to the table but   *)
(* the one of a worker that has found no free row is within the table, in  *)
(* every interleaving of any number of workers.                            *)
(***************************************************************************)
THEOREM TypesCorrect == Spec => []EventTypeOK
<1>1. Spec => []ResInv
  BY ResInit, ResStep, PTL DEF Spec
<1>2. ResInv => EventTypeOK
  BY DEF ResInv
<1>3. QED
  BY <1>1, <1>2, PTL

(***************************************************************************)
(* The owner of concurrency_lock can always go on, so that the two locks   *)
(* do not deadlock.                                                        *)
(***************************************************************************)
THEOREM LocksCorrect == Spec => []OwnerGoesOn
<1>1. Spec => []ResInv
  BY ResInit, ResStep, PTL DEF Spec
<1>2. ResInv => OwnerGoesOn
  BY DEF ResInv
<1>3. QED
  BY <1>1, <1>2, PTL

-----------------------------------------------------------------------------
(***************************************************************************)
(* The seats of an event that is not raced are updated by one worker after *)
(* the other, and so what Check finds still holds in Load and Store.       *)
(***************************************************************************)
Updaters == {"check", "load", "store"}

OneUpdater ==
    \A v, w \in Worker :
        /\ v # w /\ pc[v] \in Updaters /\ pc[w] \in Updaters
        /\ query[v].event = query[w].event
        => query[w].event \in raced

Fitting ==
    \A w \in Worker :
        /\ pc[w] = "load" /\ query[w].event \notin raced => Fits(query[w])
        /\ pc[w] = "store" /\ query[w].event \notin raced =>
             reg[w] + query[w].seats <= capacity

SeatInv == OverbookedOnlyByRace /\ OneUpdater /\ Fitting

\* Steps that leave the updates of the seats alone
LEMMA SeatsKept ==
    ASSUME SeatInv, UNCHANGED <<events_arr, raced>>,
           \A v \in Worker : pc'[v] \in Updaters =>
               /\ pc'[v] = pc[v] /\ query'[v] = query[v] /\ reg'[v] = reg[v]
    PROVE  SeatInv'
<1>1. OverbookedOnlyByRace'
  BY DEF SeatInv, OverbookedOnlyByRace
<1>2. OneUpdater'
  BY DEF SeatInv, OneUpdater
<1>3. Fitting'
  BY DEF SeatInv, Fitting, Fits, Updaters
<1>4. QED
  BY <1>1, <1>2, <1>3 DEF SeatInv

LEMMA SeatsOver == ASSUME NEW how, Over(how) PROVE SeatInv'
  BY ReservationAssumption DEF Over, SeatInv, OverbookedOnlyByRace, OneUpdater,
     Fitting, Updaters

LEMMA SeatStep == ResInv /\ SeatInv /\ [Next]_vars => SeatInv'
<1> SUFFICES ASSUME ResInv, SeatInv, [Next]_vars PROVE SeatInv'
  OBVIOUS
<1>t. /\ pc \in [Worker -> Step] /\ reg \in [Worker -> Int]
      /\ query \in [Worker -> Query \cup {NULL}]
      /\ events_arr \in [Event -> Int] /\ raced \subseteq Event
      /\ HasQuery
  BY DEF ResInv, EventTypeOK
<1>c. capacity \in Int
  BY ReservationAssumption
<1> USE <1>t DEF Goes
<1>1. ASSUME NEW w \in Worker,
             \/ Test(w) \/ Select(w) \/ NothingToCancel(w) \/ Count(w)
             \/ Push(w) \/ Pick(w) \/ Look(w) \/ Await(w) \/ WriteEvent(w)
             \/ Finish(w) \/ Uncount(w) \/ ClearEvent(w) \/ ClearMode(w)
             \/ Full(w) \/ Spurious(w)
      PROVE  SeatInv'
  <2>1. UNCHANGED <<events_arr, raced>>
    BY <1>1 DEF Test, Select, NothingToCancel, Count, Push, Pick, Look,
       Await, WriteEvent, Finish, Uncount, ClearEvent, ClearMode, Full,
       Spurious, shared, history
  <2>2. \A v \in Worker \ {w} :
          pc'[v] = pc[v] /\ query'[v] = query[v] /\ reg'[v] = reg[v]
    BY <1>1 DEF Test, Select, NothingToCancel, Count, Push, Pick, Look,
       Await, WriteEvent, Finish, Uncount, ClearEvent, ClearMode, Full,
       Spurious, local
  <2>3. pc'[w] \notin Updaters
    BY <1>1 DEF Test, Select, NothingToCancel, Count, Push, Pick, Look,
       Await, WriteEvent, Finish, Uncount, ClearEvent, ClearMode, Full,
       Spurious, Updaters
  <2>4. QED
    BY <2>1, <2>2, <2>3, SeatsKept
<1>2. ASSUME NEW w \in Worker, FindRow(w) PROVE SeatInv'
  <2>1. /\ UNCHANGED <<events_arr, raced, query, reg>>
        /\ \A v \in Worker \ {w} : pc'[v] = pc[v]
    BY <1>2 DEF FindRow, shared, history
  <2>2. pc[w] \in {"find_event", "find_free", "find_again"}
    BY <1>2 DEF FindRow, Finding
  <2>3. \A r : AfterFind(w, r) \notin Updaters
    BY <2>2 DEF AfterFind, Updaters
  <2>4. pc'[w] \notin Updaters
    BY <1>2, <2>2, <2>3 DEF FindRow, Updaters
  <2>5. QED
    BY <2>1, <2>4, SeatsKept
<1>3. ASSUME NEW w \in Worker, Signal(w) PROVE SeatInv'
  <2>1. UNCHANGED <<events_arr, raced, reg>>
    BY <1>3 DEF Signal, shared, history
  <2>2. \A v \in Worker : pc'[v] \in Updaters =>
          pc'[v] = pc[v] /\ query'[v] = query[v]
    BY <1>3 DEF Signal, Updaters
  <2>3. QED
    BY <2>1, <2>2, SeatsKept
<1>4. ASSUME NEW w \in Worker, WriteMode(w) PROVE SeatInv'
  <2>1. /\ query[w] \in Query /\ query[w].event \in Event
        /\ query[w].kind \in {"enquiry", "book", "cancel"}
    BY <1>4, QueryFields DEF WriteMode, HasQuery, Querying, Step, Finding
  <2>2. /\ UNCHANGED <<events_arr, query, reg>>
        /\ \A v \in Worker \ {w} : pc'[v] = pc[v]
        /\ raced \subseteq raced'
    BY <1>4 DEF WriteMode
  <2>3. pc'[w] = CASE query[w].kind = "enquiry" -> "finish"
                   [] query[w].kind = "book" -> "check"
                   [] query[w].kind = "cancel" -> "load"
    BY <1>4 DEF WriteMode
  <2>4. OverbookedOnlyByRace'
    BY <2>2 DEF SeatInv, OverbookedOnlyByRace
  <2>5. OneUpdater'
    <3> SUFFICES ASSUME NEW v \in Worker, NEW u \in Worker, v # u,
                        pc'[v] \in Updaters, pc'[u] \in Updaters,
                        query[v].event = query[u].event
                 PROVE  query[u].event \in raced'
      BY <2>2 DEF OneUpdater
    <3>1. CASE v # w /\ u # w
      BY <2>2, <3>1 DEF SeatInv, OneUpdater
    <3>2. ASSUME v = w \/ u = w PROVE query[w].event \in raced'
      <4>1. pc'[w] \in Updaters
        BY <3>2
      <4>2. query[w].kind # "enquiry"
        BY <2>3, <4>1 DEF Updaters
      <4>3. Updating(w, query[w].event)
        BY <2>2, <3>2 DEF Updating, Updaters
      <4>4. QED
        BY <1>4, <4>2, <4>3 DEF WriteMode
    <3>3. QED
      BY <3>1, <3>2
  <2>6. Fitting'
    <3>1. ASSUME NEW v \in Worker, v # w
          PROVE  /\ pc'[v] = "load" /\ query[v].event \notin raced' =>
                      Fits(query[v])
                 /\ pc'[v] = "store" /\ query[v].event \notin raced' =>
                      reg[v] + query[v].seats <= capacity
      BY <2>2, <3>1 DEF SeatInv, Fitting
    <3>2. pc'[w] # "store"
      BY <2>1, <2>3
    <3>3. ASSUME pc'[w] = "load", query[w].event \notin raced'
          PROVE  Fits(query[w])
      <4>1. query[w].kind = "cancel"
        BY <2>1, <2>3, <3>3
      <4>2. query[w].seats = 0
        BY <2>1, <4>1 DEF Query
      <4>3. query[w].event \notin raced
        BY <2>2, <3>3
      <4>4. events_arr[query[w].event] <= capacity
        BY <1>c, <2>1, <4>3 DEF SeatInv, OverbookedOnlyByRace
      <4>5. QED
        BY <1>c, <2>1, <4>2, <4>4 DEF Fits
    <3>4. QED
      BY <2>2, <3>1, <3>2, <3>3 DEF Fitting, Fits
  <2>7. QED
    BY <2>4, <2>5, <2>6 DEF SeatInv
<1>5. ASSUME NEW w \in Worker, Check(w) \/ Load(w) PROVE SeatInv'
  <2>1. query[w] \in Query /\ query[w].event \in Event
    BY <1>5, QueryFields DEF Check, Load, HasQuery, Querying, Step, Finding
  <2>2. /\ UNCHANGED <<events_arr, query, raced>>
        /\ \A v \in Worker \ {w} : pc'[v] = pc[v] /\ reg'[v] = reg[v]
        /\ pc[w] \in Updaters
    BY <1>5 DEF Check, Load, shared, local, history, Updaters
  <2>3. OverbookedOnlyByRace' /\ OneUpdater'
    BY <2>2 DEF SeatInv, OverbookedOnlyByRace, OneUpdater
  <2>4. /\ pc'[w] = "load" => Fits(query[w])
        /\ pc'[w] = "store" =>
             pc[w] = "load" /\ reg'[w] = events_arr[query[w].event]
    BY <1>5 DEF Check, Load
  <2>5. Fitting'
    BY <2>2, <2>4 DEF SeatInv, Fitting, Fits
  <2>6. QED
    BY <2>3, <2>5 DEF SeatInv
<1>6. ASSUME NEW w \in Worker, Store(w) PROVE SeatInv'
  <2> DEFINE e == query[w].event
  <2>1. query[w] \in Query /\ e \in Event /\ query[w].seats \in Int
    BY <1>6, QueryFields DEF Store, HasQuery, Querying, Step, Finding
  <2>2. /\ UNCHANGED <<query, raced>> /\ pc[w] = "store" /\ pc'[w] = "finish"
        /\ \A v \in Worker \ {w} : pc'[v] = pc[v] /\ reg'[v] = reg[v]
        /\ events_arr' = [events_arr EXCEPT ![e] =
             IF query[w].kind = "book" THEN reg[w] + query[w].seats
             ELSE reg[w] - 1]
    BY <1>6 DEF Store, history
  <2>3. OneUpdater'
    BY <2>2 DEF SeatInv, OneUpdater, Updaters
  <2>4. ASSUME e \notin raced PROVE events_arr'[e] <= capacity
    <3>1. reg[w] + query[w].seats <= capacity
      BY <2>2, <2>4 DEF SeatInv, Fitting
    <3>2. query[w].seats >= 0
      BY <2>1, ReservationAssumption DEF Query
    <3>3. QED
      BY <1>c, <2>1, <2>2, <3>1, <3>2
  <2>5. OverbookedOnlyByRace'
    <3> SUFFICES ASSUME NEW f \in Event, f \notin raced
                 PROVE  ~ (events_arr'[f] > capacity)
      BY <2>2 DEF OverbookedOnlyByRace
    <3>1. CASE f = e
      <4>1. events_arr'[e] \in Int
        BY <2>1, <2>2
      <4>2. QED
        BY <1>c, <2>4, <3>1, <4>1
    <3>2. CASE f # e
      BY <2>1, <2>2, <3>2 DEF SeatInv, OverbookedOnlyByRace
    <3>3. QED
      BY <3>1, <3>2
  <2>6. Fitting'
    <3> SUFFICES ASSUME NEW v \in Worker, query[v].event \notin raced
                 PROVE  /\ pc'[v] = "load" => Fits(query[v])'
                        /\ pc'[v] = "store" =>
                             reg'[v] + query[v].seats <= capacity
      BY <2>2 DEF Fitting, Fits
    <3>1. CASE v = w
      BY <2>2, <3>1
    <3>2. CASE v # w
      <4>1. pc'[v] = "store" => reg'[v] + query[v].seats <= capacity
        BY <2>2, <3>2 DEF SeatInv, Fitting
      <4>2. ASSUME pc'[v] = "load" PROVE Fits(query[v])'
        <5>1. query[v].event # e
          BY <2>2, <3>2, <4>2 DEF SeatInv, OneUpdater, Updaters
        <5>2. events_arr'[query[v].event] = events_arr[query[v].event]
          BY <2>1, <2>2, <5>1
        <5>3. Fits(query[v])
          BY <2>2, <3>2, <4>2 DEF SeatInv, Fitting
        <5>4. QED
          BY <2>2, <5>2, <5>3 DEF Fits
      <4>3. QED
        BY <4>1, <4>2
    <3>3. QED
      BY <3>1, <3>2
  <2>7. QED
    BY <2>3, <2>5, <2>6 DEF SeatInv
<1>7. ASSUME NEW w \in Worker, PushCrash(w) \/ NoRowLeft(w) PROVE SeatInv'
  BY <1>7, SeatsOver DEF PushCrash, NoRowLeft
<1>8. CASE Destroy
  BY <1>8, SeatsOver DEF Destroy
<1>9. CASE UNCHANGED vars
  BY <1>9, SeatsKept DEF vars, shared, local, history
<1>10. QED
  BY <1>1, <1>2, <1>3, <1>4, <1>5, <1>6, <1>7, <1>8, <1>9 DEF Next, QueryStep

(***************************************************************************)
(* An event is only overbooked when two workers update its seats at once,  *)
(* for any number of workers and seats.                                    *)
(***************************************************************************)
THEOREM OverbookingCorrect == Spec => []OverbookedOnlyByRace
<1>1. Init => SeatInv
  BY ReservationAssumption DEF Init, SeatInv, OverbookedOnlyByRace, OneUpdater,
     Fitting, Updaters
<1>2. Spec => [](ResInv /\ SeatInv)
  BY <1>1, ResInit, ResStep, SeatStep, PTL DEF Spec
<1>3. SeatInv => OverbookedOnlyByRace
  BY DEF SeatInv
<1>4. QED
  BY <1>2, <1>3, PTL

-----------------------------------------------------------------------------
(***************************************************************************)
(* No rows are left behind.  A worker at the end of its query counts as an *)
(* owner until it has cleared a row or found none.  If none of the rows it *)
(* may still clear has its event, then there are fewer rows than owners:   *)
(* rows written behind its back have owners of their own.                  *)
(***************************************************************************)
EventRows(e) == {r \in Row : shared_table[r].event = e}

OwnerSteps ==
    {"write_mode", "check", "load", "store", "finish", "uncount",
     "find_again", "clear_event"}

\* The rows that event_finder has not come to, and the last it has found.
Ahead(w) ==
    IF pc[w] = "clear_event" THEN {res[w]}
    ELSE {r \in Row : r >= i[w] \/ r = res[w]}

Spare(w) ==
    LET e == query[w].event IN
    EventRows(e) \cap Ahead(w) = {} =>
        Cardinality(EventRows(e)) < Cardinality(Owners(e))

SparesOK ==
    \A w \in Worker : pc[w] \in {"find_again", "clear_event"} => Spare(w)

ScanAtZero == \A w \in Worker : pc[w] \notin Finding => i[w] = 0

RowInv == RowsHaveOwners /\ SparesOK /\ ScanAtZero

\* The sets that are counted are finite.
LEMMA CountedSets ==
    ASSUME NEW e
    PROVE  /\ IsFiniteSet(EventRows(e)) /\ Cardinality(EventRows(e)) \in Nat
           /\ IsFiniteSet(Owners(e)) /\ Cardinality(Owners(e)) \in Nat
<1>1. IsFiniteSet(Row)
  BY ReservationAssumption, FS_Interval DEF Row
<1>2. IsFiniteSet(EventRows(e))
  BY <1>1, FS_Subset DEF EventRows
<1>3. IsFiniteSet(Owners(e))
  BY ReservationAssumption, FS_Subset DEF Owners
<1>4. QED
  BY <1>2, <1>3, FS_CardinalityType

\* Steps that leave the events of the rows alone, and after which the owners
\* are still owners
LEMMA RowsKept ==
    ASSUME RowInv, ScanAtZero',
           \A r \in Row : shared_table'[r].event = shared_table[r].event,
           \A v \in Worker :
               /\ pc[v] \in OwnerSteps =>
                    pc'[v] \in OwnerSteps /\ query'[v] = query[v]
               /\ pc'[v] \in {"find_again", "clear_event"} =>
                    pc'[v] = pc[v] /\ i'[v] = i[v] /\ res'[v] = res[v]
    PROVE  RowInv'
<1>1. \A e : EventRows(e)' = EventRows(e)
  BY DEF EventRows
<1>2. ASSUME NEW e
      PROVE  /\ Cardinality(Owners(e)) <= Cardinality(Owners(e)')
             /\ Cardinality(Owners(e)) \in Nat
             /\ Cardinality(Owners(e)') \in Nat
             /\ Cardinality(EventRows(e)) \in Nat
  <2>1. Owners(e) \subseteq Owners(e)'
    BY DEF Owners, OwnerSteps
  <2>2. IsFiniteSet(Owners(e)')
    BY ReservationAssumption, FS_Subset DEF Owners
  <2>3. QED
    BY <2>1, <2>2, CountedSets, FS_Subset, FS_CardinalityType
<1>3. RowsHaveOwners'
  <2> SUFFICES ASSUME NEW e \in Event
               PROVE  Cardinality(EventRows(e)') <= Cardinality(Owners(e)')
    BY DEF RowsHaveOwners, EventRows
  <2>1. Cardinality(EventRows(e)) <= Cardinality(Owners(e))
    BY DEF RowInv, RowsHaveOwners, EventRows
  <2>2. QED
    BY <2>1, <1>1, <1>2
<1>4. SparesOK'
  <2> SUFFICES ASSUME NEW v \in Worker,
                      pc'[v] \in {"find_again", "clear_event"}
               PROVE  Spare(v)'
    BY DEF SparesOK
  <2>1. query'[v] = query[v] /\ Ahead(v)' = Ahead(v)
    BY DEF OwnerSteps, Ahead
  <2>2. Spare(v)
    BY DEF RowInv, SparesOK
  <2>3. PICK e : e = query[v].event
    OBVIOUS
  <2>4. SUFFICES ASSUME EventRows(e) \cap Ahead(v) = {}
                 PROVE  Cardinality(EventRows(e)) < Cardinality(Owners(e)')
    BY <2>1, <2>3, <1>1 DEF Spare
  <2>5. Cardinality(EventRows(e)) < Cardinality(Owners(e))
    BY <2>2, <2>3, <2>4 DEF Spare
  <2>6. QED
    BY <2>5, <1>2
<1>5. QED
  BY <1>3, <1>4 DEF RowInv

\* One worker at a time is clearing its row.
LEMMA OneEnds ==
    ASSUME OwnerGoesOn, NEW v \in Worker, NEW w \in Worker,
           pc[v] \in Ending, pc[w] \in Ending
    PROVE  v = w
BY DEF OwnerGoesOn

LEMMA RowsOver == ASSUME NEW how, Over(how) PROVE RowInv'
<1>1. \A e \in Event : EventRows(e)' = {}
  BY ReservationAssumption DEF Over, EventRows
<1>2. \A e \in Event : Cardinality(Owners(e)') \in Nat
  <2>1. Over(how) => \A e \in Event : Owners(e)' = {}
    BY DEF Over, Owners
  <2>2. QED
    BY <2>1, FS_EmptySet
<1>3. RowsHaveOwners'
  BY <1>1, <1>2, FS_EmptySet DEF RowsHaveOwners, EventRows
<1>4. SparesOK' /\ ScanAtZero'
  BY DEF Over, SparesOK, ScanAtZero
<1>5. QED
  BY <1>3, <1>4 DEF RowInv

LEMMA RowStep == ResInv /\ RowInv /\ [Next]_vars => RowInv'
<1> SUFFICES ASSUME ResInv, RowInv, [Next]_vars PROVE RowInv'
  OBVIOUS
<1>t. /\ pc \in [Worker -> Step] /\ i \in [Worker -> Row]
      /\ res \in [Worker -> Row \cup {NoRow}]
      /\ query \in [Worker -> Query \cup {NULL}]
      /\ shared_table \in
           [Row -> [event : Event \cup {NULL}, mode : {-1, 0, 1}]]
      /\ HasQuery /\ HasRow /\ OwnerGoesOn
  BY DEF ResInv, EventTypeOK
<1>r. RowsHaveOwners /\ SparesOK /\ ScanAtZero
  BY DEF RowInv
<1> USE <1>t DEF Goes
<1>1. ASSUME NEW w \in Worker,
             \/ Test(w) \/ Select(w) \/ NothingToCancel(w) \/ Count(w)
             \/ Push(w) \/ Pick(w) \/ Look(w) \/ Await(w) \/ WriteMode(w)
             \/ Check(w) \/ Load(w) \/ Store(w)
             \/ Finish(w) \/ ClearMode(w) \/ Full(w) \/ Spurious(w)
      PROVE  RowInv'
  <2>1. \A r \in Row : shared_table'[r].event = shared_table[r].event
    <3>1. CASE WriteMode(w) \/ ClearMode(w)
      BY <3>1 DEF WriteMode, ClearMode
    <3>2. CASE ~(WriteMode(w) \/ ClearMode(w))
      BY <1>1, <3>2 DEF Test, Select, NothingToCancel, Count, Push, Pick,
         Look, Await, Check, Load, Store, Finish, Full, Spurious, shared
    <3>3. QED
      BY <3>1, <3>2
  <2>2. i' = i
    BY <1>1 DEF Test, Select, NothingToCancel, Count, Push, Pick, Look,
       Await, WriteMode, Check, Load, Store, Finish, ClearMode, Full,
       Spurious, local
  <2>3. \A v \in Worker \ {w} :
          pc'[v] = pc[v] /\ query'[v] = query[v] /\ res'[v] = res[v]
    BY <1>1 DEF Test, Select, NothingToCancel, Count, Push, Pick, Look,
       Await, WriteMode, Check, Load, Store, Finish, ClearMode, Full,
       Spurious, local, Forget
  <2>4. /\ pc[w] \in OwnerSteps =>
             pc'[w] \in OwnerSteps /\ query'[w] = query[w]
        /\ pc'[w] \notin {"find_again", "clear_event"}
        /\ pc[w] \notin Finding
    <3>1. CASE WriteMode(w)
      <4>1. query[w].kind \in {"enquiry", "book", "cancel"}
        BY <3>1, QueryFields
           DEF WriteMode, HasQuery, Querying, Step, Finding
      <4>2. QED
        BY <3>1, <4>1 DEF WriteMode, OwnerSteps, Finding
    <3>2. CASE Check(w) \/ Load(w) \/ Store(w) \/ Finish(w) \/ ClearMode(w)
      BY <3>2 DEF Check, Load, Store, Finish, ClearMode, OwnerSteps, Finding,
         local
    <3>3. CASE Test(w) \/ Select(w) \/ NothingToCancel(w) \/ Count(w)
                 \/ Push(w) \/ Pick(w) \/ Look(w) \/ Await(w) \/ Full(w)
                 \/ Spurious(w)
      <4>1. /\ pc[w] \in {"test", "select", "count", "push", "pick", "look",
                        "await", "full", "table_cond", "cond"}
            /\ pc'[w] \in {"test", "select", "count", "push", "pick", "look",
                         "await", "full", "table_cond", "cond", "find_event",
                         "find_free", "finish"}
        BY <3>3 DEF Test, Select, NothingToCancel, Count, Push, Pick, Look,
           Await, Full, Spurious
      <4>2. QED
        BY <4>1 DEF OwnerSteps, Finding
    <3>4. QED
      BY <1>1, <3>1, <3>2, <3>3
  <2>5. ScanAtZero'
    BY <2>2, <2>3, <2>4, <1>r DEF ScanAtZero
  <2>6. QED
    BY <2>1, <2>2, <2>3, <2>4, <2>5, RowsKept
<1>2. ASSUME NEW w \in Worker, Signal(w) PROVE RowInv'
  <2>1. UNCHANGED <<shared_table, i, res>>
    BY <1>2 DEF Signal, shared
  <2>2. /\ pc[w] = "signal" /\ pc'[w] = "test"
        /\ \A v \in Worker \ {w} :
             /\ query'[v] = query[v]
             /\ pc'[v] # pc[v] =>
                  /\ pc[v] \in {"table_cond", "cond"}
                  /\ pc'[v] \in {"await", "full"}
    BY <1>2 DEF Signal, Signalled
  <2>3. ScanAtZero'
    BY <2>1, <2>2, <1>r DEF ScanAtZero, Finding
  <2>4. QED
    BY <2>1, <2>2, <2>3, RowsKept DEF OwnerSteps
<1>3. ASSUME NEW w \in Worker, FindRow(w) PROVE RowInv'
  <2> DEFINE found == IF shared_table[i[w]].event = Sought(w) THEN i[w]
                      ELSE IF i[w] = 0 THEN NoRow ELSE res[w]
             to == IF LastRow(w) THEN AfterFind(w, found) ELSE pc[w]
  <2>1. /\ UNCHANGED <<shared_table, query>> /\ pc[w] \in Finding
        /\ pc' = [pc EXCEPT ![w] = to]
        /\ res' = [res EXCEPT ![w] = found]
        /\ i' = [i EXCEPT ![w] = IF LastRow(w) THEN 0 ELSE @ + 1]
    BY <1>3 DEF FindRow, shared
  <2>2. ScanAtZero'
    BY <2>1, <1>r DEF ScanAtZero
  <2>3. \A v \in Worker \ {w} :
          pc'[v] = pc[v] /\ res'[v] = res[v] /\ i'[v] = i[v]
    BY <2>1
  <2>4. CASE pc[w] # "find_again"
    <3>1. to \notin OwnerSteps /\ pc[w] \notin OwnerSteps
      BY <2>1, <2>4 DEF AfterFind, Finding, OwnerSteps
    <3>2. pc'[w] = to
      BY <2>1
    <3>3. QED
      BY <2>1, <2>2, <2>3, <3>1, <3>2, RowsKept DEF OwnerSteps
  <2>5. CASE pc[w] = "find_again"
    <3>0. PICK e : e = query[w].event
      OBVIOUS
    <3> DEFINE S == EventRows(e)
    <3> USE <3>0
    <3>1. Sought(w) = e /\ w \in Owners(e)
      BY <2>5 DEF Sought, Owners
    <3>2. /\ i[w] \in Nat /\ i[w] < MAX /\ MAX \in Nat
          /\ LastRow(w) <=> i[w] = MAX - 1
      BY ReservationAssumption DEF Row, LastRow
    <3>3. ASSUME S \cap Ahead(w) # {}
          PROVE  \/ found \in S
                 \/ \E r \in S : r >= i[w] + 1
      <4>1. PICK r \in Row : /\ shared_table[r].event = e
                             /\ r >= i[w] \/ r = res[w]
        BY <2>5, <3>3 DEF Ahead, EventRows
      <4>2. r \in S /\ r \in Nat
        BY <4>1, ReservationAssumption DEF EventRows, Row
      <4>3. CASE shared_table[i[w]].event = e
        BY <4>3, <3>1 DEF EventRows
      <4>4. CASE shared_table[i[w]].event # e /\ r # res[w]
        <5>1. r # i[w] /\ r >= i[w]
          BY <4>1, <4>4
        <5>2. r >= i[w] + 1
          BY <5>1, <4>2, <3>2
        <5>3. QED
          BY <5>2, <4>2
      <4>5. CASE /\ shared_table[i[w]].event # e
                 /\ r = res[w] /\ i[w] # 0
        BY <4>2, <4>5, <3>1
      <4>6. CASE shared_table[i[w]].event # e /\ i[w] = 0
        BY <4>1, <4>2, <4>6, <3>2
      <4>7. QED
        BY <4>3, <4>4, <4>5, <4>6
    <3>4. ASSUME found \notin S, \A r \in S : ~ (r >= i[w] + 1)
          PROVE  Cardinality(S) < Cardinality(Owners(e))
      <4>1. S \cap Ahead(w) = {}
        BY <3>3, <3>4
      <4>2. Spare(w)
        BY <2>5, <1>r DEF SparesOK
      <4>3. QED
        BY <4>1, <4>2 DEF Spare
    <3>5. ASSUME LastRow(w) PROVE \A r \in S : ~ (r >= i[w] + 1)
      BY <3>5, <3>2 DEF EventRows, Row
    <3>6. \A f : EventRows(f)' = EventRows(f)
      BY <2>1 DEF EventRows
    <3>7. \A v \in Worker \ {w} : pc'[v] \notin {"find_again", "clear_event"}
      BY <2>3, <2>5, OneEnds DEF Ending
    <3>8. CASE LastRow(w) /\ found = NoRow
      <4>1. pc'[w] = "signal"
        BY <2>1, <2>5, <3>8 DEF AfterFind
      <4>2. NoRow \notin S
        BY ReservationAssumption DEF EventRows, Row, NoRow
      <4>3. Cardinality(S) < Cardinality(Owners(e))
        BY <3>4, <3>5, <3>8, <4>2
      <4>4. Owners(e)' = Owners(e) \ {w}
        BY <2>1, <2>3, <4>1 DEF Owners
      <4>5. Cardinality(Owners(e)') = Cardinality(Owners(e)) - 1
        BY <4>4, <3>1, CountedSets, FS_RemoveElement
      <4>6. \A f : f # e => Owners(f)' = Owners(f)
        BY <2>1, <2>3, <4>1 DEF Owners
      <4>7. RowsHaveOwners'
        <5> SUFFICES ASSUME NEW f \in Event
                     PROVE  Cardinality(EventRows(f)')
                              <= Cardinality(Owners(f)')
          BY DEF RowsHaveOwners, EventRows
        <5>1. CASE f = e
          BY <5>1, <3>6, <4>3, <4>5, CountedSets
        <5>2. CASE f # e
          BY <5>2, <3>6, <4>6, <1>r DEF RowsHaveOwners, EventRows
        <5>3. QED
          BY <5>1, <5>2
      <4>8. SparesOK'
        BY <3>7, <4>1 DEF SparesOK
      <4>9. QED
        BY <2>2, <4>7, <4>8 DEF RowInv
    <3>9. CASE ~ (LastRow(w) /\ found = NoRow)
      <4>1. /\ pc'[w] = IF LastRow(w) THEN "clear_event" ELSE "find_again"
            /\ res'[w] = found
            /\ ~ LastRow(w) => i'[w] = i[w] + 1
        BY <2>1, <2>5, <3>9 DEF AfterFind
      <4>2. \A f : Owners(f)' = Owners(f)
        BY <2>1, <2>3, <2>5, <4>1 DEF Owners
      <4>3. RowsHaveOwners'
        BY <3>6, <4>2, <1>r DEF RowsHaveOwners, EventRows
      <4>4. Spare(w)'
        <5>1. SUFFICES ASSUME S \cap Ahead(w)' = {}
                       PROVE  Cardinality(S) < Cardinality(Owners(e))
          BY <2>1, <3>6, <4>2 DEF Spare
        <5>2. found \notin S
          BY <4>1, <5>1 DEF Ahead, EventRows
        <5>3. \A r \in S : ~ (r >= i[w] + 1)
          BY <3>5, <4>1, <5>1 DEF Ahead, EventRows
        <5>4. QED
          BY <5>2, <5>3, <3>4
      <4>5. SparesOK'
        BY <3>7, <4>4 DEF SparesOK
      <4>6. QED
        BY <2>2, <4>3, <4>5 DEF RowInv
    <3>10. QED
      BY <3>8, <3>9
  <2>6. QED
    BY <2>4, <2>5
<1>4. ASSUME NEW w \in Worker, Uncount(w) PROVE RowInv'
  <2>1. /\ UNCHANGED <<shared_table, query, i, res>>
        /\ pc[w] = "uncount" /\ pc' = [pc EXCEPT ![w] = "find_again"]
    BY <1>4 DEF Uncount
  <2>2. \A f : EventRows(f)' = EventRows(f) /\ Owners(f)' = Owners(f)
    BY <2>1 DEF EventRows, Owners
  <2>3. RowsHaveOwners'
    BY <2>2, <1>r DEF RowsHaveOwners, EventRows
  <2>4. ScanAtZero'
    BY <2>1, <1>r DEF ScanAtZero, Finding
  <2>5. \A v \in Worker \ {w} : pc'[v] \notin {"find_again", "clear_event"}
    BY <2>1, OneEnds DEF Ending
  <2>6. Spare(w)'
    <3> DEFINE e == query[w].event
    <3>1. i[w] = 0
      BY <2>1, <1>r DEF ScanAtZero, Finding
    <3>2. Ahead(w)' = Row
      BY <2>1, <3>1, ReservationAssumption DEF Ahead, Row
    <3>3. w \in Owners(e)
      BY <2>1 DEF Owners
    <3>4. Cardinality(Owners(e)) # 0
      BY <3>3, CountedSets, FS_EmptySet
    <3>5. ASSUME EventRows(e) = {}
          PROVE  Cardinality(EventRows(e)) < Cardinality(Owners(e))
      BY <3>4, <3>5, CountedSets, FS_EmptySet
    <3>6. EventRows(e) \cap Row = EventRows(e)
      BY DEF EventRows
    <3>7. QED
      BY <2>1, <2>2, <3>2, <3>5, <3>6 DEF Spare
  <2>7. SparesOK'
    BY <2>5, <2>6 DEF SparesOK
  <2>8. QED
    BY <2>3, <2>4, <2>7 DEF RowInv
<1>5. ASSUME NEW w \in Worker, WriteEvent(w) PROVE RowInv'
  <2>0. query[w].event \in Event /\ res[w] \in Row
    BY <1>5, QueryFields
       DEF WriteEvent, HasQuery, HasRow, Querying, AtRow, Step, Finding
  <2>x. PICK x \in Event, row \in Row : x = query[w].event /\ row = res[w]
    BY <2>0
  <2> USE <2>x
  <2>1. /\ UNCHANGED <<query, i, res>>
        /\ pc[w] = "write_event" /\ pc' = [pc EXCEPT ![w] = "write_mode"]
        /\ shared_table' = [shared_table EXCEPT ![row].event = x]
    BY <1>5 DEF WriteEvent, local
  <2>2. EventRows(x)' = EventRows(x) \cup {row}
    BY <2>0, <2>1 DEF EventRows
  <2>3. \A f : f # x => EventRows(f)' = EventRows(f) \ {row}
    BY <2>0, <2>1 DEF EventRows
  <2>4. Owners(x)' = Owners(x) \cup {w} /\ w \notin Owners(x)
    BY <2>1 DEF Owners
  <2>5. \A f : f # x => Owners(f)' = Owners(f)
    BY <2>1 DEF Owners
  <2>6. /\ Cardinality(EventRows(x)') <= Cardinality(EventRows(x)) + 1
        /\ Cardinality(EventRows(x)') \in Nat
        /\ Cardinality(Owners(x)') = Cardinality(Owners(x)) + 1
    <3>1. Cardinality(EventRows(x)') =
            IF row \in EventRows(x) THEN Cardinality(EventRows(x))
            ELSE Cardinality(EventRows(x)) + 1
      <4>1. IsFiniteSet(EventRows(x))
        BY CountedSets
      <4>2. Cardinality(EventRows(x) \cup {row}) =
              IF row \in EventRows(x) THEN Cardinality(EventRows(x))
              ELSE Cardinality(EventRows(x)) + 1
        BY <4>1, FS_AddElement
      <4>3. QED
        BY <4>2, <2>2
    <3>2. Cardinality(Owners(x)') = Cardinality(Owners(x)) + 1
      <4>1. IsFiniteSet(Owners(x))
        BY CountedSets
      <4>2. Cardinality(Owners(x) \cup {w}) =
              IF w \in Owners(x) THEN Cardinality(Owners(x))
              ELSE Cardinality(Owners(x)) + 1
        BY <4>1, FS_AddElement
      <4>3. QED
        BY <4>2, <2>4
    <3>3. QED
      BY <3>1, <3>2, CountedSets
  <2>7. \A f : f # x =>
          Cardinality(EventRows(f)') = IF row \in EventRows(f)
                                       THEN Cardinality(EventRows(f)) - 1
                                       ELSE Cardinality(EventRows(f))
    BY <2>3, CountedSets, FS_RemoveElement
  <2>8. RowsHaveOwners'
    <3> SUFFICES ASSUME NEW f \in Event
                 PROVE  Cardinality(EventRows(f)') <= Cardinality(Owners(f)')
      BY DEF RowsHaveOwners, EventRows
    <3>1. Cardinality(EventRows(f)) <= Cardinality(Owners(f))
      BY <1>r DEF RowsHaveOwners, EventRows
    <3>2. CASE f = x
      BY <2>6, <3>1, <3>2, CountedSets
    <3>3. CASE f # x
      BY <2>5, <2>7, <3>1, <3>3, CountedSets
    <3>4. QED
      BY <3>2, <3>3
  <2>9. SparesOK'
    <3> SUFFICES ASSUME NEW v \in Worker,
                        pc'[v] \in {"find_again", "clear_event"}
                 PROVE  Spare(v)'
      BY DEF SparesOK
    <3>0. PICK e : e = query[v].event
      OBVIOUS
    <3> USE <3>0
    <3>1. pc[v] = pc'[v] /\ v # w /\ Ahead(v)' = Ahead(v) /\ Spare(v)
      BY <2>1, <1>r DEF Ahead, SparesOK
    <3>2. SUFFICES ASSUME EventRows(e)' \cap Ahead(v) = {}
                   PROVE  Cardinality(EventRows(e)') < Cardinality(Owners(e)')
      BY <2>1, <3>1 DEF Spare
    <3>3. CASE e = x
      <4>1. EventRows(e) \cap Ahead(v) = {}
        BY <2>2, <3>2, <3>3
      <4>2. Cardinality(EventRows(e)) < Cardinality(Owners(e))
        BY <3>1, <4>1 DEF Spare
      <4>3. QED
        BY <2>6, <3>3, <4>2, CountedSets
    <3>4. CASE e # x
      <4>1. Cardinality(Owners(e)') = Cardinality(Owners(e))
        BY <2>5, <3>4
      <4>2. CASE EventRows(e) \cap Ahead(v) = {}
        <5>1. Cardinality(EventRows(e)) < Cardinality(Owners(e))
          BY <3>1, <4>2 DEF Spare
        <5>2. QED
          BY <2>7, <3>4, <4>1, <5>1, CountedSets
      <4>3. CASE EventRows(e) \cap Ahead(v) # {}
        <5>1. row \in EventRows(e)
          BY <2>3, <3>2, <3>4, <4>3
        <5>2. e \in Event
          BY <3>1, QueryFields DEF HasQuery, Querying, Step, Finding
        <5>3. Cardinality(EventRows(e)) <= Cardinality(Owners(e))
          BY <5>2, <1>r DEF RowsHaveOwners, EventRows
        <5>4. QED
          BY <2>7, <3>4, <4>1, <5>1, <5>3, CountedSets
      <4>4. QED
        BY <4>2, <4>3
    <3>5. QED
      BY <3>3, <3>4
  <2>10. ScanAtZero'
    BY <2>1, <1>r DEF ScanAtZero, Finding
  <2>11. QED
    BY <2>8, <2>9, <2>10 DEF RowInv
<1>6. ASSUME NEW w \in Worker, ClearEvent(w) PROVE RowInv'
  <2>0. query[w].event \in Event /\ res[w] \in Row
    BY <1>6, QueryFields
       DEF ClearEvent, HasQuery, HasRow, Querying, AtRow, Step, Finding
  <2>x. PICK e \in Event, row \in Row : e = query[w].event /\ row = res[w]
    BY <2>0
  <2> USE <2>x
  <2>1. /\ UNCHANGED <<query, i, res>>
        /\ pc[w] = "clear_event" /\ pc' = [pc EXCEPT ![w] = "clear_mode"]
        /\ shared_table' = [shared_table EXCEPT ![row].event = NULL]
    BY <1>6 DEF ClearEvent, local
  <2>2. \A f \in Event : EventRows(f)' = EventRows(f) \ {row}
    BY <2>0, <2>1, ReservationAssumption DEF EventRows
  <2>3. \A f \in Event :
          Cardinality(EventRows(f)') = IF row \in EventRows(f)
                                       THEN Cardinality(EventRows(f)) - 1
                                       ELSE Cardinality(EventRows(f))
    BY <2>2, CountedSets, FS_RemoveElement
  <2>4. Owners(e)' = Owners(e) \ {w} /\ w \in Owners(e)
    BY <2>1 DEF Owners
  <2>5. \A f : f # e => Owners(f)' = Owners(f)
    BY <2>1 DEF Owners
  <2>6. Cardinality(Owners(e)') = Cardinality(Owners(e)) - 1
    <3>1. IsFiniteSet(Owners(e))
      BY CountedSets
    <3>2. Cardinality(Owners(e) \ {w}) =
            IF w \in Owners(e) THEN Cardinality(Owners(e)) - 1
            ELSE Cardinality(Owners(e))
      BY <3>1, FS_RemoveElement
    <3>3. QED
      BY <3>2, <2>4
  <2>7. row \notin EventRows(e) =>
          Cardinality(EventRows(e)) < Cardinality(Owners(e))
    <3>1. Spare(w)
      BY <2>1, <1>r DEF SparesOK
    <3>2. QED
      BY <2>1, <3>1 DEF Spare, Ahead
  <2>8. RowsHaveOwners'
    <3> SUFFICES ASSUME NEW f \in Event
                 PROVE  Cardinality(EventRows(f)') <= Cardinality(Owners(f)')
      BY DEF RowsHaveOwners, EventRows
    <3>1. Cardinality(EventRows(f)) <= Cardinality(Owners(f))
      BY <1>r DEF RowsHaveOwners, EventRows
    <3>2. CASE f = e
      BY <2>3, <2>6, <2>7, <3>1, <3>2, CountedSets
    <3>3. CASE f # e
      BY <2>3, <2>5, <3>1, <3>3, CountedSets
    <3>4. QED
      BY <3>2, <3>3
  <2>9. SparesOK'
    BY <2>1, OneEnds DEF SparesOK, Ending
  <2>10. ScanAtZero'
    BY <2>1, <1>r DEF ScanAtZero, Finding
  <2>11. QED
    BY <2>8, <2>9, <2>10 DEF RowInv
<1>7. ASSUME NEW w \in Worker, PushCrash(w) \/ NoRowLeft(w) PROVE RowInv'
  BY <1>7, RowsOver DEF PushCrash, NoRowLeft
<1>8. CASE Destroy
  BY <1>8, RowsOver DEF Destroy
<1>9. CASE UNCHANGED vars
  <2>1. ScanAtZero'
    BY <1>9, <1>r DEF vars, local, ScanAtZero
  <2>2. QED
    BY <1>9, <2>1, RowsKept DEF vars, shared, local
<1>10. QED
  BY <1>1, <1>2, <1>3, <1>4, <1>5, <1>6, <1>7, <1>8, <1>9 DEF Next, QueryStep

(***************************************************************************)
(* No row is left behind: an event never has more rows than workers that   *)
(* have yet to clear one, for any number of workers and rows.              *)
(***************************************************************************)
THEOREM RowsCorrect == Spec => []RowsHaveOwners
<1>1. Init => RowInv
  <2> SUFFICES ASSUME Init PROVE RowInv
    OBVIOUS
  <2>1. \A e \in Event : EventRows(e) = {} /\ Owners(e) = {}
    BY ReservationAssumption DEF Init, EventRows, Owners
  <2>2. RowsHaveOwners
    <3> SUFFICES ASSUME NEW e \in Event
                 PROVE  Cardinality(EventRows(e)) <= Cardinality(Owners(e))
      BY DEF RowsHaveOwners, EventRows
    <3>1. Cardinality(EventRows(e)) = 0 /\ Cardinality(Owners(e)) = 0
      BY <2>1, FS_EmptySet
    <3>2. QED
      BY <3>1
  <2>3. SparesOK /\ ScanAtZero
    BY DEF Init, SparesOK, ScanAtZero
  <2>4. QED
    BY <2>2, <2>3 DEF RowInv
<1>2. Spec => [](ResInv /\ RowInv)
  BY <1>1, ResInit, ResStep, RowStep, PTL DEF Spec
<1>3. RowInv => RowsHaveOwners
  BY DEF RowInv
<1>4. QED
  BY <1>2, <1>3, PTL
=============================================================================
