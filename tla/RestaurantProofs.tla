-------------------------- MODULE RestaurantProofs --------------------------
(***************************************************************************)
(* Proofs about Restaurant for every capacity N and every finite set of    *)
(* diner threads.                                                          *)
(***************************************************************************)
EXTENDS Restaurant, FiniteSetTheorems, TLAPS

-----------------------------------------------------------------------------
(* The head count, with or without spurious wakeups. *)

CountInv == TypeOK /\ HeadCount

\* The set Inside is finite, so its cardinality is a natural number.
LEMMA InsideFinite ==
    ASSUME TypeOK
    PROVE  IsFiniteSet(Inside) /\ Cardinality(Inside) \in Nat
<1>1. Inside \in SUBSET Diners
  BY DEF Inside
<1>2. QED
  BY <1>1, FS_Subset, FS_CardinalityType, RestaurantAssumption

LEMMA CountInit == Init => CountInv
<1> SUFFICES ASSUME Init PROVE CountInv
  OBVIOUS
<1>1. TypeOK
  <2>1. front \in BOOLEAN /\ back \in BOOLEAN /\ disturbed \in BOOLEAN
    BY Zenon DEF Init
  <2>2. /\ diners_inside \in 0 .. N /\ diners_served \in 0 .. IntMax
        /\ diner \in [Diners -> DinerState] /\ main \in MainState
    BY RestaurantAssumption DEF Init, DinerState, MainState
  <2>3. QED
    BY <2>1, <2>2, Zenon DEF TypeOK
<1>2. Inside = {}
  BY DEF Init, Inside
<1>3. QED
  BY <1>1, <1>2, FS_EmptySet, RestaurantAssumption
     DEF CountInv, HeadCount, Init

\* One step keeps the types and the head count.
LEMMA CountStep == CountInv /\ [Next]_vars => CountInv'
<1> SUFFICES ASSUME TypeOK, HeadCount, [Next]_vars
             PROVE  TypeOK' /\ HeadCount'
  BY DEF CountInv
<1> USE RestaurantAssumption DEF TypeOK, DinerState, MainState
<1>f. IsFiniteSet(Inside) /\ Cardinality(Inside) \in Nat
  BY InsideFinite
<1>0. ASSUME TypeOK', Inside' = Inside, diners_inside' = diners_inside
      PROVE  TypeOK' /\ HeadCount'
  BY <1>0 DEF HeadCount
<1>1. ASSUME NEW d \in Diners, WaitAtFront(d) PROVE TypeOK' /\ HeadCount'
  <2>1. TypeOK' /\ diners_inside' = diners_inside
    BY <1>1 DEF WaitAtFront
  <2>2. Inside' = Inside
    BY <1>1 DEF WaitAtFront, Inside
  <2>3. QED
    BY <2>1, <2>2, <1>0
<1>2. ASSUME NEW d \in Diners, Enter(d) PROVE TypeOK' /\ HeadCount'
  <2>1. diners_inside' = diners_inside + 1 /\ diners_inside' < N
    BY <1>2 DEF Enter, HeadCount
  <2>2. TypeOK'
    BY <1>2, <2>1 DEF Enter
  <2>3. Inside' = Inside \cup {d} /\ d \notin Inside
    BY <1>2 DEF Enter, Inside
  <2>4. Cardinality(Inside') = Cardinality(Inside) + 1
    BY <2>3, <1>f, FS_AddElement
  <2>5. QED
    BY <2>1, <2>2, <2>4 DEF HeadCount
<1>3. ASSUME NEW d \in Diners, EnterLast(d) PROVE TypeOK' /\ HeadCount'
  <2>1. TypeOK' /\ diners_inside' = diners_inside
    <3>1. front' \in BOOLEAN /\ back' \in BOOLEAN /\ disturbed' \in BOOLEAN
      BY <1>3, Zenon DEF EnterLast
    <3>2. /\ diners_inside' = diners_inside
          /\ diners_served' \in 0 .. IntMax
      BY <1>3 DEF EnterLast
    <3>3. diner' \in [Diners -> DinerState] /\ main' \in MainState
      BY <1>3 DEF EnterLast, WokenBack, WokenFront, MainWokenBack,
                  MainWokenFront
    <3>4. QED
      BY <3>1, <3>2, <3>3
  <2>2. Inside' = Inside
    BY <1>3 DEF EnterLast, Inside, WokenBack, WokenFront
  <2>3. QED
    BY <2>1, <2>2, <1>0
<1>4. ASSUME NEW d \in Diners, Leave(d) PROVE TypeOK' /\ HeadCount'
  <2>1. d \in Inside /\ diners_inside' = diners_inside - 1
    BY <1>4 DEF Leave, Inside
  <2>2. Inside' = Inside \ {d}
    BY <1>4 DEF Leave, Inside, WokenBack
  <2>3. /\ Cardinality(Inside \ {d}) = Cardinality(Inside) - 1
        /\ Cardinality(Inside \ {d}) \in Nat
    BY <2>1, <1>f, FS_RemoveElement, FS_CardinalityType
  <2>4. diners_inside' \in 0 .. N /\ diners_inside' < N
    BY <2>1, <2>3 DEF HeadCount
  <2>5. TypeOK'
    <3>1. front' \in BOOLEAN /\ back' \in BOOLEAN /\ disturbed' \in BOOLEAN
      BY <1>4, Zenon DEF Leave
    <3>2. diners_served' \in 0 .. IntMax
      BY <1>4 DEF Leave
    <3>3. diner' \in [Diners -> DinerState] /\ main' \in MainState
      BY <1>4 DEF Leave, WokenBack, MainWokenBack
    <3>4. QED
      BY <3>1, <3>2, <3>3, <2>4
  <2>6. QED
    BY <2>1, <2>2, <2>3, <2>4, <2>5 DEF HeadCount
<1>5. ASSUME NEW d \in Diners, SpuriousDiner(d) PROVE TypeOK' /\ HeadCount'
  <2>1. TypeOK' /\ diners_inside' = diners_inside
    BY <1>5 DEF SpuriousDiner, WokenBack, WokenFront
  <2>2. Inside' = Inside
    BY <1>5 DEF SpuriousDiner, Inside, WokenBack, WokenFront
  <2>3. QED
    BY <2>1, <2>2, <1>0
<1>6. CASE Open
  <2>1. TypeOK' /\ diners_inside' = diners_inside
    BY <1>6 DEF Open, WokenFront, AfterFront, AfterBack
  <2>2. Inside' = Inside
    BY <1>6 DEF Open, Inside, WokenFront
  <2>3. QED
    BY <2>1, <2>2, <1>0
<1>7. CASE ResumeFront \/ ResumeBack \/ SpuriousMain
  <2>1. TypeOK' /\ diners_inside' = diners_inside
    BY <1>7 DEF ResumeFront, ResumeBack, SpuriousMain, AfterFront, AfterBack,
                MainWokenFront, MainWokenBack
  <2>2. Inside' = Inside
    BY <1>7 DEF ResumeFront, ResumeBack, SpuriousMain, Inside
  <2>3. QED
    BY <2>1, <2>2, <1>0
<1>8. CASE UNCHANGED vars
  BY <1>8, <1>0 DEF vars, Inside
<1>9. QED
  BY <1>1, <1>2, <1>3, <1>4, <1>5, <1>6, <1>7, <1>8
     DEF Next, DinerStep, MainStep

(***************************************************************************)
(* diners_inside counts the diners inside and stays below N whenever m is  *)
(* free, for every N, any number of diners and any spurious wakeups.       *)
(***************************************************************************)
THEOREM HeadCountCorrect == Spec => [](TypeOK /\ HeadCount)
<1>1. Spec => []CountInv
  BY CountInit, CountStep, PTL DEF Spec
<1>2. CountInv => TypeOK /\ HeadCount
  BY DEF CountInv
<1>3. QED
  BY <1>1, <1>2, PTL

-----------------------------------------------------------------------------
(* The batch discipline, until a wait() returns without a notification.    *)

(***************************************************************************)
(* ServedAsBatch is not inductive by itself: the doors have to be related  *)
(* to the place of the main thread.  The front door is open exactly while  *)
(* main waits on cv_front; main waits the second time on cv_back only      *)
(* while the back door is open, waits the first time or is about to open   *)
(* the front door only when both are closed, when nobody is inside.        *)
(***************************************************************************)
DoorInv ==
    /\ back => ~front /\ diners_inside > 0
    /\ ~front /\ ~back => diners_inside = 0
    /\ front <=> main = "cv_front"
    /\ main \in {"opening", "cv_back1"} => ~back
    /\ main # "past_back"
    /\ main = "cv_back2" => back

BatchInv ==
    /\ TypeOK
    /\ HeadCount
    /\ ~disturbed => BatchOfN /\ DoorInv

\* With a correct head count, an empty restaurant has no diner inside.
LEMMA EmptyInside ==
    TypeOK /\ HeadCount /\ diners_inside = 0 =>
        \A d \in Diners : diner[d] \notin {"cv_back", "leaving"}
<1> SUFFICES ASSUME TypeOK, HeadCount, diners_inside = 0
             PROVE  \A d \in Diners : diner[d] \notin {"cv_back", "leaving"}
  OBVIOUS
<1>1. Inside = {}
  BY InsideFinite, FS_EmptySet DEF HeadCount
<1>2. QED
  BY <1>1 DEF Inside

LEMMA BatchInit == Init => BatchInv
<1> SUFFICES ASSUME Init PROVE BatchInv
  OBVIOUS
<1>1. TypeOK /\ HeadCount
  BY CountInit DEF CountInv
<1>2. BatchOfN
  BY DEF Init, BatchOfN
<1>3. DoorInv
  BY DEF Init, DoorInv
<1>4. QED
  BY <1>1, <1>2, <1>3 DEF BatchInv

\* A spurious wakeup is remembered for ever.
LEMMA DisturbedStays == [Next]_vars /\ ~disturbed' =>
    ~disturbed /\ ~SpuriousMain /\ \A d \in Diners : ~SpuriousDiner(d)
<1> SUFFICES ASSUME [Next]_vars, ~disturbed'
    PROVE  ~disturbed /\ ~SpuriousMain /\ \A d \in Diners : ~SpuriousDiner(d)
  OBVIOUS
<1>1. ~SpuriousMain /\ \A d \in Diners : ~SpuriousDiner(d)
  BY Zenon DEF SpuriousMain, SpuriousDiner
<1>2. ASSUME NEW d \in Diners, DinerStep(d) PROVE disturbed' = disturbed
  <2>1. ASSUME WaitAtFront(d) PROVE disturbed' = disturbed
    BY <2>1 DEF WaitAtFront
  <2>2. ASSUME Enter(d) PROVE disturbed' = disturbed
    BY <2>2 DEF Enter
  <2>3. ASSUME EnterLast(d) PROVE disturbed' = disturbed
    BY <2>3, Zenon DEF EnterLast
  <2>4. ASSUME Leave(d) PROVE disturbed' = disturbed
    BY <2>4 DEF Leave
  <2>5. QED
    BY <1>2, <2>1, <2>2, <2>3, <2>4 DEF DinerStep
<1>3. ASSUME MainStep \/ UNCHANGED vars PROVE disturbed' = disturbed
  BY <1>3 DEF MainStep, Open, ResumeFront, ResumeBack, vars
<1>4. disturbed' = disturbed
  BY <1>1, <1>2, <1>3 DEF Next
<1>5. QED
  BY <1>1, <1>4, Zenon

LEMMA BatchStep == BatchInv /\ [Next]_vars => BatchInv'
<1> SUFFICES ASSUME BatchInv, [Next]_vars, ~disturbed'
             PROVE  BatchOfN' /\ DoorInv'
  BY CountStep DEF BatchInv, CountInv
<1>d. ~disturbed /\ ~SpuriousMain /\ \A d \in Diners : ~SpuriousDiner(d)
  BY DisturbedStays
<1>t. TypeOK /\ HeadCount /\ BatchOfN /\ DoorInv
  BY <1>d DEF BatchInv
<1>c. TypeOK' /\ HeadCount'
  BY CountStep, <1>t DEF CountInv
<1>e. diners_inside' = 0 =>
        \A d \in Diners : diner'[d] \notin {"cv_back", "leaving"}
  <2>1. (TypeOK /\ HeadCount /\ diners_inside = 0 =>
           \A d \in Diners : diner[d] \notin {"cv_back", "leaving"})'
    BY EmptyInside, PTL
  <2>2. QED
    BY <2>1, <1>c
<1> USE RestaurantAssumption, <1>t DEF TypeOK, DinerState, MainState
<1>1. ASSUME NEW d \in Diners, WaitAtFront(d)
      PROVE  BatchOfN' /\ DoorInv'
  BY <1>1 DEF WaitAtFront, BatchOfN, DoorInv
<1>2. ASSUME NEW d \in Diners, Enter(d)
      PROVE  BatchOfN' /\ DoorInv'
  BY <1>2 DEF Enter, BatchOfN, DoorInv, HeadCount
<1>3. ASSUME NEW d \in Diners, EnterLast(d)
      PROVE  BatchOfN' /\ DoorInv'
  <2>1. /\ front /\ ~back /\ main = "cv_front" /\ diners_served = 0
        /\ \A x \in Diners : diner[x] # "leaving"
    BY <1>3 DEF EnterLast, DoorInv, BatchOfN
  <2>2. /\ ~front' /\ main' = "past_front"
        /\ diners_inside' = diners_inside /\ diners_inside + 1 = N
        /\ back' <=> diners_inside # 0
        /\ \A x \in Diners : diner'[x] # "cv_back"
    BY <1>3, <2>1 DEF EnterLast, MainWokenFront, MainWokenBack, WokenFront,
                      WokenBack
  <2>3. diners_served' = IF diners_inside = 0 THEN 0 ELSE 1
    BY <1>3, <2>1 DEF EnterLast
  <2>4. DoorInv'
    BY <2>2 DEF DoorInv
  <2>5. ASSUME diners_inside = 0 PROVE BatchOfN'
    <3>1. ~back' /\ diners_served' = 0
      BY <2>5, <2>2, <2>3
    <3>2. \A x \in Diners : diner'[x] # "leaving"
      BY <2>5, <2>2, <1>e
    <3>3. QED
      BY <3>1, <3>2 DEF BatchOfN
  <2>6. ASSUME diners_inside # 0 PROVE BatchOfN'
    <3>1. back' /\ diners_inside' + diners_served' = N
      BY <2>6, <2>2, <2>3
    <3>2. QED
      BY <3>1, <2>2 DEF BatchOfN
  <2>7. QED
    BY <2>4, <2>5, <2>6
<1>4. ASSUME NEW d \in Diners, Leave(d)
      PROVE  BatchOfN' /\ DoorInv'
  <2>1. /\ back /\ ~front /\ diners_inside > 0
        /\ diners_inside + diners_served = N
        /\ \A x \in Diners : diner[x] # "cv_back"
    BY <1>4 DEF Leave, BatchOfN, DoorInv
  <2>2. CASE diners_inside - 1 = 0
    <3>1. /\ ~back' /\ ~front' /\ diners_served' = 0 /\ diners_inside' = 0
          /\ main' = MainWokenBack(main)
      BY <1>4, <2>1, <2>2 DEF Leave
    <3>2. \A x \in Diners : diner'[x] # "leaving"
      BY <3>1, <1>e
    <3>s. BatchOfN'
      BY <3>1, <3>2 DEF BatchOfN
    <3>3. DoorInv'
      BY <3>1, <2>1 DEF DoorInv, MainWokenBack
    <3>4. QED
      BY <3>s, <3>3
  <2>3. CASE diners_inside - 1 # 0
    BY <1>4, <2>1, <2>3 DEF Leave, BatchOfN, DoorInv
  <2>4. QED
    BY <2>2, <2>3
<1>5. CASE Open
  <2>1. ~front /\ ~back /\ diners_inside = 0
    BY <1>5 DEF Open, DoorInv
  <2>2. front' /\ ~back' /\ diners_inside' = 0 /\ main' = "cv_front"
    BY <1>5, <2>1 DEF Open
  <2>3. diners_served' = 0
    BY <1>5, <2>1 DEF Open, BatchOfN
  <2>4. QED
    BY <2>2, <2>3, <1>e DEF BatchOfN, DoorInv
<1>6. CASE ResumeFront
  BY <1>6 DEF ResumeFront, AfterFront, AfterBack, BatchOfN, DoorInv
<1>7. CASE ResumeBack
  BY <1>7 DEF ResumeBack, DoorInv
<1>8. CASE UNCHANGED vars
  BY <1>8 DEF vars, BatchOfN, DoorInv
<1>9. QED
  BY <1>1, <1>2, <1>3, <1>4, <1>5, <1>6, <1>7, <1>8, <1>d
     DEF Next, DinerStep, MainStep

(***************************************************************************)
(* As long as every wait() returned because of a notification the diners   *)
(* are served in batches of N, for every N and every number of threads.    *)
(***************************************************************************)
THEOREM BatchesCorrect == Spec => []ServedAsBatch
<1>1. Spec => []BatchInv
  BY BatchInit, BatchStep, PTL DEF Spec
<1>2. BatchInv => ServedAsBatch
  BY DEF BatchInv, ServedAsBatch
<1>3. QED
  BY <1>1, <1>2, PTL

(***************************************************************************)
(* As long as every wait() returned because of a notification no diner     *)
(* exits through a closed back door, as the README requires.               *)
(***************************************************************************)
THEOREM ExitsCorrect == Spec => ExitOnlyByOpenBackDoor
<1>1. BatchInv /\ [Next]_vars =>
        [\A d \in Diners :
            ~disturbed /\ diner[d] = "leaving" /\ diner'[d] # "leaving"
                => back]_vars
  BY DEF BatchInv, BatchOfN
<1>2. Spec => []BatchInv
  BY BatchInit, BatchStep, PTL DEF Spec
<1>3. QED
  BY <1>1, <1>2, PTL DEF Spec, ExitOnlyByOpenBackDoor

(***************************************************************************)
(* As long as every wait() returned because of a notification the back     *)
(* door closes and the front door opens only when the restaurant is empty, *)
(* as the README requires.                                                 *)
(***************************************************************************)
THEOREM NextBatchCorrect == Spec => NextBatchOnlyWhenEmpty
<1>1. BatchInv /\ [Next]_vars =>
        [~disturbed /\ ((back /\ ~back') \/ (~front /\ front'))
            => diners_inside' = 0]_vars
  <2> SUFFICES ASSUME BatchInv, [Next]_vars, ~disturbed,
                      (back /\ ~back') \/ (~front /\ front')
               PROVE  diners_inside' = 0
    OBVIOUS
  <2> TypeOK /\ BatchOfN /\ DoorInv
    BY DEF BatchInv
  <2>1. ASSUME NEW d \in Diners, Enter(d) \/ WaitAtFront(d) PROVE FALSE
    BY <2>1 DEF Enter, WaitAtFront, TypeOK
  <2>2. ASSUME NEW d \in Diners, EnterLast(d) PROVE FALSE
    BY <2>2 DEF EnterLast, DoorInv, TypeOK
  <2>3. ASSUME NEW d \in Diners, Leave(d) PROVE diners_inside' = 0
    BY <2>3 DEF Leave, DoorInv, TypeOK
  <2>4. CASE Open
    BY <2>4 DEF Open, DoorInv, TypeOK
  <2>5. CASE ResumeFront \/ ResumeBack \/ SpuriousMain \/ UNCHANGED vars
    BY <2>5 DEF ResumeFront, ResumeBack, SpuriousMain, vars, TypeOK
  <2>6. ASSUME NEW d \in Diners, SpuriousDiner(d) PROVE FALSE
    BY <2>6 DEF SpuriousDiner
  <2>7. QED
    BY <2>1, <2>2, <2>3, <2>4, <2>5, <2>6 DEF Next, DinerStep, MainStep
<1>2. Spec => []BatchInv
  BY BatchInit, BatchStep, PTL DEF Spec
<1>3. QED
  BY <1>1, <1>2, PTL DEF Spec, NextBatchOnlyWhenEmpty

-----------------------------------------------------------------------------
(* No wakeup is lost. *)

\* Nobody waits in front of the open door.
DoorNoticed == front => \A d \in Diners : diner[d] # "cv_front"

\* While the front door is open somebody is on the way in, and while the back
\* door is open somebody is on the way out, who is not in a wait set.
SomebodyMoves ==
    /\ front => \E d \in Diners : diner[d] = "arriving"
    /\ back /\ ~disturbed => \E d \in Diners : diner[d] = "leaving"

LEMMA NoticedStep == TypeOK /\ DoorNoticed /\ [Next]_vars => DoorNoticed'
<1> SUFFICES ASSUME TypeOK, DoorNoticed, [Next]_vars, front',
                    NEW e \in Diners
             PROVE  diner'[e] # "cv_front"
  BY DEF DoorNoticed
<1> USE DEF TypeOK
<1>0. front => diner[e] # "cv_front"
  BY DEF DoorNoticed
<1>1. ASSUME NEW d \in Diners, WaitAtFront(d) PROVE FALSE
  BY <1>1, Zenon DEF WaitAtFront
<1>2. ASSUME NEW d \in Diners, Enter(d) PROVE diner'[e] # "cv_front"
  BY <1>0, <1>2 DEF Enter
<1>3. ASSUME NEW d \in Diners, EnterLast(d) PROVE FALSE
  BY <1>3, Zenon DEF EnterLast
<1>4. ASSUME NEW d \in Diners, Leave(d) PROVE diner'[e] # "cv_front"
  <2>1. front' = front
    BY <1>4 DEF Leave
  <2>2. \/ diner' = [diner EXCEPT ![d] = "arriving"]
        \/ diner' = [x \in Diners |-> IF x = d THEN "arriving"
                                      ELSE WokenBack(diner[x])]
    BY <1>4 DEF Leave
  <2>3. diner[e] # "cv_front"
    BY <1>0, <2>1, Zenon
  <2>4. QED
    BY <2>2, <2>3 DEF WokenBack
<1>5. ASSUME NEW d \in Diners, SpuriousDiner(d) PROVE diner'[e] # "cv_front"
  <2>1. front' = front
    BY <1>5 DEF SpuriousDiner
  <2>2. diner' = [diner EXCEPT ![d] = WokenBack(WokenFront(diner[d]))]
    BY <1>5 DEF SpuriousDiner
  <2>3. diner[e] # "cv_front"
    BY <1>0, <2>1, Zenon
  <2>4. QED
    BY <2>2, <2>3 DEF WokenBack, WokenFront
<1>6. ASSUME Open PROVE diner'[e] # "cv_front"
  BY <1>6 DEF Open, WokenFront
<1>7. ASSUME ResumeFront \/ ResumeBack \/ SpuriousMain \/ UNCHANGED vars
      PROVE  diner'[e] # "cv_front"
  <2>1. front' = front /\ diner' = diner
    BY <1>7 DEF ResumeFront, ResumeBack, SpuriousMain, vars
  <2>2. QED
    BY <1>0, <2>1, Zenon
<1>8. QED
  BY <1>1, <1>2, <1>3, <1>4, <1>5, <1>6, <1>7
     DEF Next, DinerStep, MainStep

(***************************************************************************)
(* With N diner threads or more no batch is stuck half way.  While the     *)
(* front door is open, whatever wakeups were spurious, a diner outside is  *)
(* not waiting for it; and while the back door is open a diner has been    *)
(* told so.  Entering raises and leaving lowers the number of diners       *)
(* inside, so the batch is complete, or gone, after at most N such steps   *)
(* (lines 23-61).                                                          *)
(***************************************************************************)
THEOREM BatchNeverStuck ==
    ASSUME Cardinality(Diners) >= N PROVE Spec => []SomebodyMoves
<1>1. Spec => []BatchInv
  BY BatchInit, BatchStep, PTL DEF Spec
<1>2. Spec => []DoorNoticed
  <2>1. Init => DoorNoticed
    BY DEF Init, DoorNoticed
  <2>2. BatchInv => TypeOK
    BY DEF BatchInv
  <2>3. QED
    BY <1>1, <2>1, <2>2, NoticedStep, PTL DEF Spec
<1>3. ASSUME BatchInv, DoorNoticed PROVE SomebodyMoves
  <2> USE RestaurantAssumption
  <2>1. TypeOK /\ HeadCount
    BY <1>3 DEF BatchInv
  <2>2. ASSUME front PROVE \E d \in Diners : diner[d] = "arriving"
    <3>1. Inside # Diners
      BY <2>1, InsideFinite DEF HeadCount, TypeOK
    <3>2. PICK d \in Diners : d \notin Inside
      BY <3>1 DEF Inside
    <3>3. diner[d] \in DinerState /\ diner[d] \notin {"cv_back", "leaving"}
      BY <2>1, <3>2 DEF TypeOK, Inside
    <3>4. diner[d] # "cv_front"
      BY <1>3, <2>2, Zenon DEF DoorNoticed
    <3>5. QED
      BY <3>3, <3>4 DEF DinerState
  <2>3. ASSUME back, ~disturbed PROVE \E d \in Diners : diner[d] = "leaving"
    <3>1. DoorInv /\ BatchOfN
      BY <1>3, <2>3, Zenon DEF BatchInv
    <3>2. diners_inside > 0
      BY <2>3, <3>1, Zenon DEF DoorInv
    <3>3. Inside # {}
      BY <2>1, <3>2, FS_EmptySet DEF HeadCount
    <3>4. PICK d \in Diners : diner[d] \in {"cv_back", "leaving"}
      BY <3>3 DEF Inside
    <3>5. diner[d] # "cv_back"
      BY <2>3, <3>1, Zenon DEF BatchOfN
    <3>6. QED
      BY <3>4, <3>5
  <2>4. QED
    BY <2>2, <2>3, Zenon DEF SomebodyMoves
<1>4. QED
  BY <1>1, <1>2, <1>3, PTL
=============================================================================
