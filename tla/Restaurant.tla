----------------------------- MODULE Restaurant -----------------------------
(***************************************************************************)
(* MultiThreading/Restaurant.cpp: 2N diner threads and the restaurant (the *)
(* main thread) share two doors and two counters under the mutex m and     *)
(* wait on the condition variables cv_front and cv_back.                   *)
(*                                                                         *)
(* Every access to the shared state happens with m held, so the code       *)
(* between an acquisition of m and the next release (a wait on a condition *)
(* variable, or the end of the loop body) is one action.  sleep(3) keeps m *)
(* and is not a release.  A thread's control state is its place between    *)
(* two such regions: in the wait set of a condition variable, or runnable  *)
(* and about to take m.                                                    *)
(***************************************************************************)
EXTENDS Integers, FiniteSets

CONSTANTS
    N,         \* capacity of the restaurant (line 10)
    Diners,    \* the diner threads; main() starts 2N of them
    Spurious,  \* TRUE iff wait() may return without a notification
    IntMax     \* largest value of the int diners_served

ASSUME RestaurantAssumption ==
    /\ N \in Nat \ {0}
    /\ IsFiniteSet(Diners)
    /\ Spurious \in BOOLEAN
    /\ IntMax \in Nat

VARIABLES
    front,          \* the front door is open
    back,           \* the back door is open
    diners_inside,
    diners_served,
    diner,          \* control state of every diner thread
    main,           \* control state of the main thread
    disturbed       \* history: some wait() returned without a notification

vars == <<front, back, diners_inside, diners_served, diner, main, disturbed>>

(***************************************************************************)
(* "arriving": at the lock of line 25, or notified on cv_front (either way *)
(* the thread tests front next).  "leaving": notified on cv_back.          *)
(***************************************************************************)
DinerState == {"arriving", "cv_front", "cv_back", "leaving"}

(***************************************************************************)
(* The three waits of main() and the points it resumes at:                 *)
(* "opening" is line 77, "past_front" line 87, "past_back" line 91.        *)
(***************************************************************************)
MainState ==
    {"opening", "cv_front", "past_front", "cv_back1", "past_back", "cv_back2"}

Init ==
    /\ front = FALSE
    /\ back = FALSE
    /\ diners_inside = 0
    /\ diners_served = 0
    /\ diner = [d \in Diners |-> "arriving"]
    /\ main = "opening"
    /\ disturbed = FALSE

-----------------------------------------------------------------------------
(* notify_all on cv_front and on cv_back: every waiter becomes runnable.   *)

\* Fault: the notification on cv_front is lost.
WokenFrontLost(s) == s

WokenFront(s) == IF s = "cv_front" THEN "arriving" ELSE s

\* Fault: the notification on cv_back is lost.
WokenBackLost(s) == s

WokenBack(s) == IF s = "cv_back" THEN "leaving" ELSE s

MainWokenFront(s) == IF s = "cv_front" THEN "past_front" ELSE s

MainWokenBack(s) ==
    CASE s = "cv_back1" -> "past_back"
      [] s = "cv_back2" -> "opening"
      [] OTHER -> s

-----------------------------------------------------------------------------
(* diner_thread *)

\* while (!front) cv_front.wait(lock_var)
WaitAtFront(d) ==
    /\ diner[d] = "arriving"
    /\ ~front
    /\ diner' = [diner EXCEPT ![d] = "cv_front"]
    /\ UNCHANGED <<front, back, diners_inside, diners_served, main, disturbed>>

\* Fault: nobody counts to N.
EnterUncounted(d) ==
    /\ diner[d] = "arriving"
    /\ front
    /\ diners_inside' = diners_inside + 1
    /\ diner' = [diner EXCEPT ![d] = "cv_back"]
    /\ UNCHANGED <<front, back, diners_served, main, disturbed>>

\* Fault: the wait of line 48 is missing.
EnterWithoutWait(d) ==
    /\ diner[d] = "arriving"
    /\ front
    /\ diners_inside + 1 # N
    /\ diners_inside' = diners_inside + 1
    /\ diner' = [diner EXCEPT ![d] = "leaving"]
    /\ UNCHANGED <<front, back, diners_served, main, disturbed>>

\* diners_inside++ does not reach N: the diner waits on cv_back, untested.
Enter(d) ==
    /\ diner[d] = "arriving"
    /\ front
    /\ diners_inside + 1 # N
    /\ diners_inside' = diners_inside + 1
    /\ diner' = [diner EXCEPT ![d] = "cv_back"]
    /\ UNCHANGED <<front, back, diners_served, main, disturbed>>

(***************************************************************************)
(* The Nth diner closes the front door, opens the back door, notifies both *)
(* condition variables and, still holding m, is the first to leave.  When  *)
(* N = 1 it is also the last and closes the back door again.               *)
(***************************************************************************)
EnterLast(d) ==
    /\ diner[d] = "arriving"
    /\ front
    /\ diners_inside + 1 = N
    /\ diners_served < IntMax
    /\ front' = FALSE
    /\ back' = (diners_inside # 0)
    /\ diners_inside' = diners_inside
    /\ diners_served' = IF diners_inside = 0 THEN 0 ELSE diners_served + 1
    /\ diner' = [x \in Diners |-> IF x = d THEN "arriving"
                                  ELSE WokenBack(WokenFront(diner[x]))]
    /\ main' = MainWokenBack(MainWokenFront(main))
    /\ UNCHANGED disturbed

\* A notified diner goes out; the last one closes the back door.
Leave(d) ==
    /\ diner[d] = "leaving"
    /\ diners_served < IntMax
    /\ diners_inside' = diners_inside - 1
    /\ IF diners_inside - 1 = 0
       THEN /\ back' = FALSE
            /\ diners_served' = 0
            /\ diner' = [x \in Diners |-> IF x = d THEN "arriving"
                                          ELSE WokenBack(diner[x])]
            /\ main' = MainWokenBack(main)
       ELSE /\ diners_served' = diners_served + 1
            /\ diner' = [diner EXCEPT ![d] = "arriving"]
            /\ UNCHANGED <<back, main>>
    /\ UNCHANGED <<front, disturbed>>

-----------------------------------------------------------------------------
(* main *)

\* Fault: main does not wait for the diners inside.
AfterBackHasty(inside) == "opening"

\* if (diners_inside > 0) cv_back.wait(lock_var), and the loop around it
AfterBack(inside) == IF inside > 0 THEN "cv_back2" ELSE "opening"

\* if (!back) cv_back.wait(lock_var)
AfterFront(b, inside) == IF ~b THEN "cv_back1" ELSE AfterBack(inside)

\* front = true; cv_front.notify_all(); if (diners_inside < N) cv_front.wait
Open ==
    /\ main = "opening"
    /\ front' = TRUE
    /\ diner' = [d \in Diners |-> WokenFront(diner[d])]
    /\ main' = IF diners_inside < N THEN "cv_front"
               ELSE AfterFront(back, diners_inside)
    /\ UNCHANGED <<back, diners_inside, diners_served, disturbed>>

\* main resumes from cv_front (line 84) ...
ResumeFront ==
    /\ main = "past_front"
    /\ main' = AfterFront(back, diners_inside)
    /\ UNCHANGED <<front, back, diners_inside, diners_served, diner,
                   disturbed>>

\* ... and from the first wait on cv_back (line 88).
ResumeBack ==
    /\ main = "past_back"
    /\ main' = AfterBack(diners_inside)
    /\ UNCHANGED <<front, back, diners_inside, diners_served, diner,
                   disturbed>>

-----------------------------------------------------------------------------
(* The C++ standard lets wait() return without a notification. *)

SpuriousDiner(d) ==
    /\ Spurious
    /\ diner[d] \in {"cv_front", "cv_back"}
    /\ diner' = [diner EXCEPT ![d] = WokenBack(WokenFront(@))]
    /\ disturbed' = TRUE
    /\ UNCHANGED <<front, back, diners_inside, diners_served, main>>

SpuriousMain ==
    /\ Spurious
    /\ main \in {"cv_front", "cv_back1", "cv_back2"}
    /\ main' = MainWokenBack(MainWokenFront(main))
    /\ disturbed' = TRUE
    /\ UNCHANGED <<front, back, diners_inside, diners_served, diner>>

-----------------------------------------------------------------------------

DinerStep(d) == WaitAtFront(d) \/ Enter(d) \/ EnterLast(d) \/ Leave(d)

MainStep == Open \/ ResumeFront \/ ResumeBack

Next ==
    \/ \E d \in Diners : DinerStep(d) \/ SpuriousDiner(d)
    \/ MainStep
    \/ SpuriousMain

Spec == Init /\ [][Next]_vars

(***************************************************************************)
(* A runnable thread eventually gets m: each region ends with its release, *)
(* and the scheduler runs every runnable thread.  Nothing is assumed of a  *)
(* thread in a wait set, nor of spurious wakeups.                          *)
(***************************************************************************)
Fairness ==
    /\ \A d \in Diners : WF_vars(DinerStep(d))
    /\ WF_vars(MainStep)

FairSpec == Spec /\ Fairness

-----------------------------------------------------------------------------
(* Properties *)

TypeOK ==
    /\ front \in BOOLEAN
    /\ back \in BOOLEAN
    /\ diners_inside \in 0 .. N
    /\ diners_served \in 0 .. IntMax
    /\ diner \in [Diners -> DinerState]
    /\ main \in MainState
    /\ disturbed \in BOOLEAN

\* The diners that have come in and not gone out.
Inside == {d \in Diners : diner[d] \in {"cv_back", "leaving"}}

(***************************************************************************)
(* Whenever m is free the counter diners_inside is the number of diners    *)
(* really inside, and a seat is free: the Nth diner comes in and goes out  *)
(* in one critical section.  Holds with spurious wakeups too, although     *)
(* they make diners leave early and main open the door out of turn.        *)
(***************************************************************************)
HeadCount ==
    /\ diners_inside = Cardinality(Inside)
    /\ diners_inside < N

(***************************************************************************)
(* Until a wait() returns spuriously diners are served as batches of N:    *)
(* while the back door is open the diners inside and those who left add up *)
(* to N and nobody still waits for service; while it is closed nobody is   *)
(* leaving and the batch count is reset (lines 52-61).                     *)
(***************************************************************************)
BatchOfN ==
    IF back
    THEN /\ diners_inside + diners_served = N
         /\ \A d \in Diners : diner[d] # "cv_back"
    ELSE /\ diners_served = 0
         /\ \A d \in Diners : diner[d] # "leaving"

ServedAsBatch == ~disturbed => BatchOfN

(***************************************************************************)
(* README, Restaurant Problem: "The diners cannot exit until the back door *)
(* is open".  It rests on what wakes a diner: the wait of line 48 is in no *)
(* loop and does not re-test back.                                         *)
(***************************************************************************)
ExitOnlyByOpenBackDoor ==
    [][\A d \in Diners :
        ~disturbed /\ diner[d] = "leaving" /\ diner'[d] # "leaving"
            => back]_vars

(***************************************************************************)
(* README: "The restaurant cannot close the backdoor and prepare for the   *)
(* next batch until all the diners of the previous batch have left".  The  *)
(* if of line 82 and that of line 88 test what their wait needs only once. *)
(***************************************************************************)
NextBatchOnlyWhenEmpty ==
    [][~disturbed /\ ((back /\ ~back') \/ (~front /\ front'))
            => diners_inside' = 0]_vars

(***************************************************************************)
(* Once the front door is open a full batch comes in and is served, and    *)
(* once the back door is open the whole batch gets out, unless a wait()    *)
(* returns spuriously on the way.                                          *)
(***************************************************************************)
BatchProgress ==
    /\ front ~> (back \/ disturbed)
    /\ back ~> ((~back /\ diners_inside = 0) \/ disturbed)

(***************************************************************************)
(* Line 59 announces "All diners served. Next batch can enter.": after a   *)
(* batch has left, the front door opens again.                             *)
(***************************************************************************)
NextBatchCanEnter == (~front /\ ~back) ~> front

=============================================================================
