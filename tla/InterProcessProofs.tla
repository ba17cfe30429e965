------------------------- MODULE InterProcessProofs -------------------------
(***************************************************************************)
(* Proofs about the two programs of communicating processes, OnlineExam    *)
(* and DirectoryMerge; they share this module, not their state.            *)
(*                                                                         *)
(* OnlineExam: for every number of students and questions and every        *)
(* capacity of the queues.  The inductive invariant (ExamInv) counts the   *)
(* copies of the present question and says exactly which answers are in    *)
(* recv_qid, and up to which question each student has been graded.        *)
(*                                                                         *)
(* DirectoryMerge: the inductive invariant (MergeInv) says what either     *)
(* pipe may hold at each point of the two children, that a pair of words   *)
(* about a file always carries its contents, and what a child has or is    *)
(* about to store.                                                         *)
(***************************************************************************)
EXTENDS OnlineExam, DirectoryMerge, FiniteSetTheorems, TLAPS

-----------------------------------------------------------------------------
(* OnlineExam *)

\* How many copies of question i have been made
Copies ==
    CASE parent = "asking" -> j
      [] parent \in {"choosing", "collecting"} -> num_students
      [] OTHER -> 0

Got == {s \in Student : received[s] = i}

\* The parent has the answer of student s to question i.
Collected(s) == parent = "collecting" /\ s <= j

LoopsOK ==
    /\ parent \in {"forking", "failed"} => i = 1 /\ j = 0
    /\ parent \in {"asking", "choosing", "collecting"} => i <= num_questions
    /\ parent \in {"asking", "collecting"} => j < num_students
    /\ parent \in {"grading", "done"} => i = num_questions + 1

ChildrenOK ==
    \A s \in Student :
        /\ received[s] \in {i - 1, i}
        /\ Len(answers[s]) \in {i - 1, received[s]}
        /\ Collected(s) => Len(answers[s]) = i

QuestionsOK ==
    /\ IsFiniteSet(send_qid)
    /\ \A msg \in send_qid : msg[1] = i /\ msg[2] < Copies
    /\ Cardinality(send_qid) + Cardinality(Got) = Copies

AnswersOK ==
    /\ \A msg \in recv_qid :
         /\ Len(answers[msg[1]]) = i /\ ~Collected(msg[1])
         /\ msg[2] = i
         /\ msg[3] = answers[msg[1]][i]

\* Up to which question student s has been graded
Graded(s) == IF Collected(s) THEN i ELSE i - 1

RightUpTo(s, n) == {q \in 1 .. n : answers[s][q] = correct[q]}

GradesOK ==
    /\ Len(correct) = IF parent = "collecting" THEN i ELSE i - 1
    /\ \A s \in Student :
         grades[s] = Cardinality(RightUpTo(s, Graded(s)))

FinalOK ==
    parent = "done" =>
        \A s \in Student : final_grades[s] = FinalGrade(grades[s])

ExamInv ==
    /\ TypeOK
    /\ LoopsOK
    /\ ChildrenOK
    /\ QuestionsOK
    /\ AnswersOK
    /\ GradesOK
    /\ FinalOK
-----------------------------------------------------------------------------

LEMMA StudentsFinite ==
    /\ IsFiniteSet(Student)
    /\ Cardinality(Student) = num_students
    /\ \A S \in SUBSET Student :
         /\ IsFiniteSet(S)
         /\ Cardinality(S) \in 0 .. num_students
         /\ Cardinality(S) = num_students => S = Student
<1>1. IsFiniteSet(Student) /\ Cardinality(Student) = num_students
  BY FS_Interval, ExamAssumption DEF Student
<1>2. ASSUME NEW S \in SUBSET Student
      PROVE  /\ IsFiniteSet(S)
             /\ Cardinality(S) \in 0 .. num_students
             /\ Cardinality(S) = num_students => S = Student
  <2>1. /\ IsFiniteSet(S)
        /\ Cardinality(S) <= num_students
        /\ Cardinality(S) = num_students => S = Student
    BY <1>1, FS_Subset
  <2>2. Cardinality(S) \in Nat
    BY <2>1, FS_CardinalityType
  <2>3. QED
    BY <2>1, <2>2, ExamAssumption
<1>3. QED
  BY <1>1, <1>2

\* One more question is graded.
LEMMA RightGrows ==
    ASSUME NEW s \in Student, NEW n \in Nat
    PROVE  /\ IsFiniteSet(RightUpTo(s, n))
           /\ Cardinality(RightUpTo(s, n)) \in Nat
           /\ Cardinality(RightUpTo(s, n + 1)) =
                IF answers[s][n + 1] = correct[n + 1]
                THEN Cardinality(RightUpTo(s, n)) + 1
                ELSE Cardinality(RightUpTo(s, n))
<1>1. IsFiniteSet(1 .. n)
  BY FS_Interval
<1>2. IsFiniteSet(RightUpTo(s, n))
  <2>1. RightUpTo(s, n) \in SUBSET (1 .. n)
    BY DEF RightUpTo
  <2>2. QED
    BY <1>1, <2>1, FS_Subset
<1>3. Cardinality(RightUpTo(s, n)) \in Nat
  BY <1>2, FS_CardinalityType
<1>4. n + 1 \notin RightUpTo(s, n)
  BY DEF RightUpTo
<1>5. CASE answers[s][n + 1] = correct[n + 1]
  <2>1. RightUpTo(s, n + 1) = RightUpTo(s, n) \cup {n + 1}
    BY <1>5 DEF RightUpTo
  <2>2. QED
    BY <1>2, <1>3, <1>4, <1>5, <2>1, FS_AddElement
<1>6. CASE answers[s][n + 1] # correct[n + 1]
  <2>1. RightUpTo(s, n + 1) = RightUpTo(s, n)
    BY <1>6 DEF RightUpTo
  <2>2. QED
    BY <1>2, <1>3, <1>6, <2>1
<1>7. QED
  BY <1>5, <1>6

\* A message to the parent is determined by the student who sent it.
LEMMA MessageOf ==
    ASSUME TypeOK, AnswersOK, NEW m \in recv_qid
    PROVE  /\ m = <<m[1], i, answers[m[1]][i]>>
           /\ m[1] \in Student
BY DEF TypeOK, AnswersOK

-----------------------------------------------------------------------------

LEMMA InitInv == Init => ExamInv
<1> SUFFICES ASSUME Init PROVE ExamInv
  OBVIOUS
<1> USE ExamAssumption
<1>1. TypeOK
  BY DEF Init, TypeOK, Student, Question
<1>2. LoopsOK /\ ChildrenOK /\ AnswersOK /\ FinalOK
  BY DEF Init, LoopsOK, ChildrenOK, AnswersOK, FinalOK, Collected, Student
<1>3. QuestionsOK
  <2>1. Got = {}
    BY DEF Init, Got
  <2>2. QED
    BY <2>1, FS_EmptySet DEF Init, QuestionsOK, Copies
<1>4. GradesOK
  <2>1. ASSUME NEW s \in Student PROVE RightUpTo(s, Graded(s)) = {}
    BY DEF Init, RightUpTo, Graded, Collected
  <2>2. /\ Len(correct) = i - 1 /\ parent # "collecting"
        /\ \A s \in Student : grades[s] = 0
    BY DEF Init
  <2>3. Cardinality({}) = 0
    BY FS_EmptySet
  <2>4. QED
    BY <2>1, <2>2, <2>3 DEF GradesOK
<1>5. QED
  BY <1>1, <1>2, <1>3, <1>4 DEF ExamInv

\* A child that receives a question is a copy less and a student more.
LEMMA ReceiveInv ==
    ASSUME ExamInv, NEW s \in Student, Receive(s)
    PROVE  ExamInv'
<1> USE ExamAssumption DEF ExamInv
<1>1. PICK msg \in send_qid :
         /\ msg[1] = received[s] + 1
         /\ send_qid' = send_qid \ {msg}
  BY DEF Receive, NextQuestion
<1>2. /\ received[s] = i - 1 /\ Len(answers[s]) = i - 1
      /\ received[s] < num_questions
      /\ received' = [received EXCEPT ![s] = i]
  <2>1. msg[1] = i /\ i \in Nat
    BY <1>1 DEF QuestionsOK, TypeOK
  <2>2. /\ received[s] \in Nat /\ received[s] = Len(answers[s])
        /\ received[s] < num_questions
        /\ received' = [received EXCEPT ![s] = received[s] + 1]
    BY DEF Receive, TypeOK
  <2>3. received[s] + 1 = i
    BY <1>1, <2>1
  <2>4. received[s] = i - 1 /\ Len(answers[s]) = i - 1
    BY <2>1, <2>2, <2>3
  <2>5. QED
    BY <2>2, <2>3, <2>4
<1>3. UNCHANGED <<parentVars, answers, recv_qid>>
  BY DEF Receive
<1>4. TypeOK'
  <2>1. i \in 0 .. num_questions
    BY <1>2 DEF TypeOK
  <2>2. QED
    BY <1>1, <1>2, <1>3, <2>1 DEF TypeOK, parentVars
<1>5. LoopsOK' /\ FinalOK'
  BY <1>3 DEF LoopsOK, FinalOK, parentVars
<1>6. ChildrenOK'
  BY <1>2, <1>3 DEF ChildrenOK, Collected, TypeOK, parentVars
<1>7. QuestionsOK'
  <2>1. Got' = Got \cup {s} /\ s \notin Got
    BY <1>2, <1>3 DEF Got, TypeOK, parentVars
  <2>2. IsFiniteSet(Got)
    BY StudentsFinite DEF Got
  <2>3. Cardinality(Got') = Cardinality(Got) + 1 /\ Cardinality(Got) \in Nat
    BY <2>1, <2>2, FS_AddElement, FS_CardinalityType
  <2>4. /\ IsFiniteSet(send_qid')
        /\ Cardinality(send_qid') = Cardinality(send_qid) - 1
        /\ Cardinality(send_qid) \in Nat
    BY <1>1, FS_RemoveElement, FS_CardinalityType DEF QuestionsOK
  <2>5. Copies' = Copies
    BY <1>3 DEF Copies, parentVars
  <2>6. QED
    BY <1>1, <1>3, <2>3, <2>4, <2>5 DEF QuestionsOK, parentVars
<1>8. AnswersOK'
  BY <1>3 DEF AnswersOK, Collected, parentVars
<1>9. GradesOK'
  BY <1>3 DEF GradesOK, Graded, Collected, RightUpTo, parentVars
<1>10. QED
  BY <1>4, <1>5, <1>6, <1>7, <1>8, <1>9

\* An answer sent is one to question i, and not yet collected.
LEMMA RespondInv ==
    ASSUME ExamInv, NEW s \in Student, Respond(s)
    PROVE  ExamInv'
<1> USE ExamAssumption DEF ExamInv
<1>1. PICK a \in Answer :
         /\ answers' = [answers EXCEPT ![s] = Append(@, a)]
         /\ recv_qid' = recv_qid \cup {<<s, received[s], a>>}
  BY DEF Respond
<1>2. UNCHANGED <<parentVars, received, send_qid>>
  BY DEF Respond
<1>3. /\ i \in Nat /\ received[s] = i /\ i \in Question
      /\ Len(answers[s]) = i - 1 /\ answers[s] \in Seq(Answer)
  BY DEF Respond, TypeOK, ChildrenOK, Question
<1>4. ~Collected(s)
  BY <1>3 DEF ChildrenOK
<1>5. /\ answers'[s] \in Seq(Answer)
      /\ Len(answers'[s]) = i /\ answers'[s][i] = a
      /\ \A q \in 1 .. i - 1 : answers'[s][q] = answers[s][q]
      /\ \A o \in Student \ {s} : answers'[o] = answers[o]
  BY <1>1, <1>3 DEF TypeOK
<1>6. TypeOK'
  BY <1>1, <1>2, <1>3 DEF TypeOK, parentVars
<1>7. LoopsOK' /\ FinalOK'
  BY <1>2 DEF LoopsOK, FinalOK, parentVars
<1>8. ChildrenOK'
  BY <1>2, <1>3, <1>4, <1>5 DEF ChildrenOK, Collected, parentVars
<1>9. QuestionsOK'
  BY <1>2 DEF QuestionsOK, Copies, Got, parentVars
<1>10. AnswersOK'
  <2> SUFFICES ASSUME NEW m \in recv_qid'
               PROVE  /\ Len(answers'[m[1]]) = i /\ ~Collected(m[1])
                      /\ m[2] = i
                      /\ m[3] = answers'[m[1]][i]
    BY <1>2 DEF AnswersOK, Collected, parentVars
  <2>1. CASE m \in recv_qid
    <3>1. m[1] # s /\ m[1] \in Student
      BY <2>1, <1>3, MessageOf DEF AnswersOK
    <3>2. QED
      BY <2>1, <3>1, <1>5 DEF AnswersOK
  <2>2. CASE m = <<s, i, a>>
    BY <2>2, <1>4, <1>5
  <2>3. QED
    BY <1>1, <1>3, <2>1, <2>2
<1>11. GradesOK'
  <2>1. ASSUME NEW o \in Student
        PROVE  RightUpTo(o, Graded(o))' = RightUpTo(o, Graded(o))
    <3>1. Graded(o)' = Graded(o) /\ correct' = correct
      BY <1>2 DEF Graded, Collected, parentVars
    <3>2. CASE o = s
      <4>1. Graded(o) = i - 1
        BY <3>2, <1>4 DEF Graded
      <4>2. QED
        BY <3>1, <3>2, <4>1, <1>5 DEF RightUpTo
    <3>3. CASE o # s
      BY <3>1, <3>3, <1>5 DEF RightUpTo
    <3>4. QED
      BY <3>2, <3>3
  <2>2. QED
    BY <2>1, <1>2 DEF GradesOK, parentVars
<1>12. QED
  BY <1>6, <1>7, <1>8, <1>9, <1>10, <1>11
-----------------------------------------------------------------------------

LEMMA ForkInv == ASSUME ExamInv, Fork \/ ForkFails PROVE ExamInv'
<1> USE ExamAssumption DEF ExamInv
<1>1. /\ parent = "forking" /\ parent' \in {"forking", "asking", "failed"}
      /\ UNCHANGED <<i, j, correct, grades, final_grades, childVars, queues>>
  BY DEF Fork, ForkFails
<1>2. forked' \in 0 .. num_students
  BY DEF Fork, ForkFails, TypeOK
<1>3. i = 1 /\ j = 0 /\ i <= num_questions /\ j < num_students
  BY <1>1 DEF LoopsOK
<1>4. TypeOK'
  BY <1>1, <1>2 DEF TypeOK, childVars, queues
<1>5. LoopsOK' /\ FinalOK'
  BY <1>1, <1>3 DEF LoopsOK, FinalOK
<1>6. ChildrenOK' /\ AnswersOK' /\ GradesOK'
  BY <1>1 DEF ChildrenOK, AnswersOK, GradesOK, Graded, Collected, RightUpTo,
              childVars, queues
<1>7. QuestionsOK'
  <2>1. Copies' = Copies
    BY <1>1, <1>3 DEF Copies
  <2>2. QED
    BY <1>1, <2>1 DEF QuestionsOK, Got, childVars, queues
<1>8. QED
  BY <1>4, <1>5, <1>6, <1>7

\* The copy sent is a new message.
LEMMA AskInv == ASSUME ExamInv, Ask PROVE ExamInv'
<1> USE ExamAssumption DEF ExamInv
<1>1. /\ parent = "asking"
      /\ send_qid' = send_qid \cup {<<i, j>>}
      /\ j' = j + 1
      /\ parent' = IF j + 1 = num_students THEN "choosing" ELSE "asking"
      /\ UNCHANGED <<forked, i, correct, grades, final_grades, childVars,
                     recv_qid>>
  BY DEF Ask
<1>2. /\ j \in Nat /\ j < num_students /\ j + 1 \in 0 .. num_students
      /\ i \in Question /\ j \in 0 .. num_students - 1
  BY <1>1 DEF LoopsOK, TypeOK, Question
<1>3. TypeOK'
  BY <1>1, <1>2 DEF TypeOK, childVars
<1>4. LoopsOK' /\ FinalOK'
  BY <1>1, <1>2 DEF LoopsOK, FinalOK
<1>5. ChildrenOK' /\ AnswersOK' /\ GradesOK'
  BY <1>1 DEF ChildrenOK, AnswersOK, GradesOK, Graded, Collected, RightUpTo,
              childVars
<1>6. QuestionsOK'
  <2>1. Copies = j /\ Copies' = j + 1
    BY <1>1, <1>2 DEF Copies
  <2>2. <<i, j>> \notin send_qid
    BY <1>2, <2>1 DEF QuestionsOK
  <2>3. /\ IsFiniteSet(send_qid')
        /\ Cardinality(send_qid') = Cardinality(send_qid) + 1
        /\ Cardinality(send_qid) \in Nat
    BY <1>1, <2>2, FS_AddElement, FS_CardinalityType DEF QuestionsOK
  <2>4. Got' = Got /\ Cardinality(Got) \in Nat
    BY <1>1, StudentsFinite DEF Got, childVars
  <2>5. \A msg \in send_qid' : msg[1] = i /\ msg[2] < j + 1
    <3>1. ASSUME NEW msg \in send_qid PROVE msg[1] = i /\ msg[2] < j + 1
      <4>1. msg[2] \in Int
        BY DEF TypeOK
      <4>2. QED
        BY <1>2, <2>1, <4>1 DEF QuestionsOK
    <3>2. QED
      BY <1>1, <1>2, <3>1
  <2>6. QED
    BY <1>1, <1>2, <2>1, <2>3, <2>4, <2>5 DEF QuestionsOK
<1>7. QED
  BY <1>3, <1>4, <1>5, <1>6

LEMMA ChooseInv == ASSUME ExamInv, ChooseAnswer PROVE ExamInv'
<1> USE ExamAssumption DEF ExamInv
<1>1. PICK a \in Answer : correct' = Append(correct, a)
  BY DEF ChooseAnswer
<1>2. /\ parent = "choosing" /\ parent' = "collecting" /\ j' = 0
      /\ UNCHANGED <<forked, i, grades, final_grades, childVars, queues>>
  BY DEF ChooseAnswer
<1>3. /\ i \in Nat /\ i <= num_questions
      /\ correct \in Seq(Answer) /\ Len(correct) = i - 1
  BY <1>2 DEF LoopsOK, GradesOK, TypeOK
<1>4. /\ correct' \in Seq(Answer) /\ Len(correct') = i
      /\ \A q \in 1 .. i - 1 : correct'[q] = correct[q]
  BY <1>1, <1>3
<1>5. \A s \in Student : ~Collected(s) /\ ~Collected(s)'
  BY <1>2 DEF Collected, Student
<1>6. TypeOK'
  BY <1>2, <1>4 DEF TypeOK, childVars, queues
<1>7. LoopsOK' /\ FinalOK'
  BY <1>2, <1>3 DEF LoopsOK, FinalOK
<1>8. ChildrenOK'
  BY <1>2, <1>5 DEF ChildrenOK, childVars
<1>9. QuestionsOK'
  BY <1>2 DEF QuestionsOK, Copies, Got, childVars, queues
<1>10. AnswersOK'
  <2>1. \A m \in recv_qid : m[1] \in Student
    BY DEF TypeOK
  <2>2. QED
    BY <1>2, <1>5, <2>1 DEF AnswersOK, childVars, queues
<1>11. GradesOK'
  <2>1. ASSUME NEW s \in Student
        PROVE  RightUpTo(s, Graded(s))' = RightUpTo(s, Graded(s))
    <3>1. Graded(s) = i - 1 /\ Graded(s)' = i - 1
      BY <1>2, <1>5 DEF Graded
    <3>2. answers' = answers
      BY <1>2 DEF childVars
    <3>3. QED
      BY <1>4, <3>1, <3>2 DEF RightUpTo
  <2>2. QED
    BY <1>2, <1>4, <2>1 DEF GradesOK
<1>12. QED
  BY <1>6, <1>7, <1>8, <1>9, <1>10, <1>11
-----------------------------------------------------------------------------

\* What is true of every answer collected: it is graded as one to question i.
LEMMA CollectFacts ==
    ASSUME ExamInv, Collect
    PROVE  /\ parent = "collecting" /\ j < num_students /\ j + 1 \in Student
           /\ i \in Question /\ Len(answers[j + 1]) = i
           /\ recv_qid' = recv_qid \ {<<j + 1, i, answers[j + 1][i]>>}
           /\ grades' = [grades EXCEPT ![j + 1] =
                IF answers[j + 1][i] = correct[i] THEN @ + 1 ELSE @]
           /\ grades' \in [Student -> Nat]
           /\ \A m \in recv_qid' : m[1] \in Student /\ m[1] > j + 1
           /\ UNCHANGED <<forked, correct, final_grades, childVars, send_qid>>
<1> USE ExamAssumption DEF ExamInv
<1>1. PICK msg \in recv_qid :
         /\ msg[1] = j + 1
         /\ recv_qid' = recv_qid \ {msg}
         /\ grades' = [grades EXCEPT ![j + 1] =
                        IF msg[3] = correct[i] THEN @ + 1 ELSE @]
  BY DEF Collect, NextAnswer
<1>2. /\ parent = "collecting"
      /\ UNCHANGED <<forked, correct, final_grades, childVars, send_qid>>
  BY DEF Collect
<1>3. /\ msg = <<j + 1, i, answers[j + 1][i]>> /\ j + 1 \in Student
      /\ msg[3] = answers[j + 1][i]
  BY <1>1, MessageOf DEF AnswersOK
<1>4. i \in Question /\ j < num_students /\ j \in Nat
  BY <1>2 DEF LoopsOK, TypeOK, Question
<1>5. Len(answers[j + 1]) = i
  BY <1>1, <1>3 DEF AnswersOK
<1>6. ASSUME NEW m \in recv_qid'
      PROVE  m[1] \in Student /\ m[1] > j + 1
  <2>1. m \in recv_qid /\ m # msg
    BY <1>1
  <2>2. m = <<m[1], i, answers[m[1]][i]>> /\ m[1] \in Student
    BY <2>1, MessageOf
  <2>3. m[1] > j
    BY <2>1, <2>2, <1>2, <1>4 DEF AnswersOK, Collected, Student
  <2>4. m[1] # j + 1
    BY <2>1, <2>2, <1>3
  <2>5. QED
    BY <2>2, <2>3, <2>4, <1>4 DEF Student
<1>7. grades' \in [Student -> Nat]
  <2>1. grades \in [Student -> Nat] /\ grades[j + 1] \in Nat
    BY <1>3 DEF TypeOK
  <2>2. CASE msg[3] = correct[i]
    <3>1. grades' = [grades EXCEPT ![j + 1] = grades[j + 1] + 1]
      BY <1>1, <2>2
    <3>2. grades[j + 1] + 1 \in Nat
      BY <2>1
    <3>3. QED
      BY <2>1, <3>1, <3>2
  <2>3. CASE msg[3] # correct[i]
    BY <1>1, <2>1, <2>3
  <2>4. QED
    BY <2>2, <2>3
<1>8. QED
  BY <1>1, <1>2, <1>3, <1>4, <1>5, <1>6, <1>7

\* Up to where each student is graded after an answer was collected
LEMMA CollectGrades ==
    ASSUME ExamInv, Collect,
           parent' = "collecting" => i' = i /\ j' = j + 1,
           parent' # "collecting" => i' = i + 1 /\ j + 1 = num_students
    PROVE  GradesOK'
<1> USE ExamAssumption DEF ExamInv
<1>1. /\ parent = "collecting" /\ j < num_students /\ j + 1 \in Student
      /\ i \in Question
      /\ grades' = [grades EXCEPT ![j + 1] =
            IF answers[j + 1][i] = correct[i] THEN @ + 1 ELSE @]
      /\ answers' = answers /\ correct' = correct
  BY CollectFacts DEF childVars
<1>2. i \in Nat \ {0} /\ j \in Nat
  BY <1>1 DEF Question, TypeOK
<1>3. Len(correct') = IF parent' = "collecting" THEN i' ELSE i' - 1
  BY <1>1, <1>2 DEF GradesOK
<1>4. ASSUME NEW s \in Student
      PROVE  grades'[s] = Cardinality(RightUpTo(s, Graded(s)))'
  <2>1. RightUpTo(s, Graded(s))' = RightUpTo(s, Graded(s)')
    BY <1>1 DEF RightUpTo
  <2>2. CASE s = j + 1
    <3>1. Graded(s) = i - 1 /\ Graded(s)' = i
      BY <1>1, <1>2, <2>2 DEF Graded, Collected
    <3>2. grades[s] = Cardinality(RightUpTo(s, i - 1))
      BY <3>1 DEF GradesOK
    <3>3. i - 1 \in Nat /\ i - 1 + 1 = i
      BY <1>2
    <3>4. Cardinality(RightUpTo(s, i)) =
             IF answers[s][i] = correct[i] THEN grades[s] + 1 ELSE grades[s]
      BY <3>2, <3>3, RightGrows
    <3>5. grades'[s] =
             IF answers[s][i] = correct[i] THEN grades[s] + 1 ELSE grades[s]
      BY <1>1, <2>2 DEF TypeOK
    <3>6. QED
      BY <2>1, <3>1, <3>4, <3>5
  <2>3. CASE s # j + 1
    <3>1. Graded(s)' = Graded(s)
      BY <1>1, <1>2, <2>3 DEF Graded, Collected, Student
    <3>2. grades'[s] = grades[s]
      BY <1>1, <2>3 DEF TypeOK
    <3>3. QED
      BY <2>1, <3>1, <3>2 DEF GradesOK
  <2>4. QED
    BY <2>2, <2>3
<1>5. QED
  BY <1>3, <1>4 DEF GradesOK

\* An answer in the middle of a round
LEMMA CollectMoreInv ==
    ASSUME ExamInv, Collect, j + 1 < num_students PROVE ExamInv'
<1> USE ExamAssumption DEF ExamInv
<1>1. /\ parent = "collecting" /\ j + 1 \in Student
      /\ i \in Question /\ Len(answers[j + 1]) = i
      /\ recv_qid' = recv_qid \ {<<j + 1, i, answers[j + 1][i]>>}
      /\ \A m \in recv_qid' : m[1] \in Student /\ m[1] > j + 1
      /\ UNCHANGED <<forked, correct, final_grades, childVars, send_qid>>
  BY CollectFacts
<1>2. parent' = parent /\ i' = i /\ j' = j + 1
  BY DEF Collect
<1>3. i \in Nat /\ j \in Nat
  BY DEF TypeOK
<1>4. GradesOK'
  BY <1>1, <1>2, CollectGrades
<1>5. TypeOK'
  <2>1. grades' \in [Student -> Nat]
    BY CollectFacts
  <2>2. QED
    BY <1>1, <1>2, <1>3, <2>1 DEF TypeOK, childVars
<1>6. LoopsOK' /\ FinalOK'
  BY <1>1, <1>2, <1>3 DEF LoopsOK, FinalOK
<1>7. ChildrenOK'
  BY <1>1, <1>2, <1>3 DEF ChildrenOK, Collected, Student, childVars
<1>8. QuestionsOK'
  BY <1>1, <1>2 DEF QuestionsOK, Copies, Got, childVars
<1>9. AnswersOK'
  BY <1>1, <1>2, <1>3 DEF AnswersOK, Collected, Student, childVars
<1>10. QED
  BY <1>4, <1>5, <1>6, <1>7, <1>8, <1>9

\* The last answer of a round: everybody has had the question, and both
\* queues are empty.
LEMMA CollectLastInv ==
    ASSUME ExamInv, Collect, ~(j + 1 < num_students) PROVE ExamInv'
<1> USE ExamAssumption DEF ExamInv
<1>1. /\ parent = "collecting" /\ j < num_students /\ j + 1 \in Student
      /\ i \in Question /\ Len(answers[j + 1]) = i
      /\ \A m \in recv_qid' : m[1] \in Student /\ m[1] > j + 1
      /\ UNCHANGED <<forked, correct, final_grades, childVars, send_qid>>
  BY CollectFacts
<1>2. /\ i' = i + 1 /\ j' = 0
      /\ parent' = IF i < num_questions THEN "asking" ELSE "grading"
  BY DEF Collect
<1>3. i \in Nat /\ j \in Nat /\ i <= num_questions /\ j + 1 = num_students
  BY <1>1 DEF TypeOK, Question
<1>4. recv_qid' = {}
  BY <1>1, <1>3 DEF Student
<1>5. \A s \in Student : Len(answers[s]) = i /\ received[s] = i
  <2>1. ASSUME NEW s \in Student PROVE Len(answers[s]) = i
    BY <1>1, <1>3 DEF ChildrenOK, Collected, Student
  <2>2. ASSUME NEW s \in Student PROVE received[s] = i
    BY <1>3, <2>1 DEF ChildrenOK
  <2>3. QED
    BY <2>1, <2>2
<1>6. send_qid = {}
  <2>1. Got = Student
    BY <1>5 DEF Got
  <2>2. Cardinality(send_qid) + num_students = num_students
    BY <1>1, <2>1, StudentsFinite DEF QuestionsOK, Copies
  <2>3. Cardinality(send_qid) \in Nat
    BY FS_CardinalityType DEF QuestionsOK
  <2>4. Cardinality(send_qid) = 0
    BY <2>2, <2>3
  <2>5. QED
    BY <2>4, FS_EmptySet DEF QuestionsOK
<1>7. GradesOK'
  BY <1>2, <1>3, CollectGrades
<1>8. TypeOK'
  <2>1. grades' \in [Student -> Nat]
    BY CollectFacts
  <2>2. i' \in 1 .. num_questions + 1 /\ j' \in 0 .. num_students
    BY <1>2, <1>3
  <2>3. recv_qid' \subseteq Student \X Question \X Answer
    BY <1>4
  <2>4. QED
    BY <1>1, <1>2, <2>1, <2>2, <2>3 DEF TypeOK, childVars
<1>9. LoopsOK' /\ FinalOK'
  BY <1>2, <1>3 DEF LoopsOK, FinalOK
<1>10. ChildrenOK'
  BY <1>1, <1>2, <1>3, <1>5 DEF ChildrenOK, Collected, childVars
<1>11. QuestionsOK'
  <2>1. Got' = {}
    BY <1>1, <1>2, <1>3, <1>5 DEF Got, childVars
  <2>2. Copies' = 0
    BY <1>2 DEF Copies
  <2>3. QED
    BY <1>1, <1>6, <2>1, <2>2, FS_EmptySet DEF QuestionsOK
<1>12. AnswersOK'
  BY <1>4 DEF AnswersOK
<1>13. QED
  BY <1>7, <1>8, <1>9, <1>10, <1>11, <1>12

LEMMA GradeInv == ASSUME ExamInv, Grade PROVE ExamInv'
<1> USE DEF ExamInv
<1>1. /\ parent = "grading" /\ parent' = "done"
      /\ final_grades' = [s \in Student |-> FinalGrade(grades[s])]
      /\ UNCHANGED <<forked, i, j, correct, grades, childVars, queues>>
  BY DEF Grade
<1>2. TypeOK'
  <2>1. \A g : FinalGrade(g) \in {"A", "B", "C", "D", "F"}
    BY DEF FinalGrade
  <2>2. QED
    BY <1>1, <2>1 DEF TypeOK, childVars, queues
<1>3. LoopsOK'
  BY <1>1 DEF LoopsOK
<1>4. ChildrenOK' /\ AnswersOK' /\ GradesOK'
  BY <1>1 DEF ChildrenOK, AnswersOK, GradesOK, Graded, Collected, RightUpTo,
              childVars, queues
<1>5. QuestionsOK'
  BY <1>1 DEF QuestionsOK, Copies, Got, childVars, queues
<1>6. FinalOK'
  BY <1>1 DEF FinalOK
<1>7. QED
  BY <1>2, <1>3, <1>4, <1>5, <1>6

LEMMA StutterInv == ASSUME ExamInv, UNCHANGED vars PROVE ExamInv'
BY DEF ExamInv, TypeOK, LoopsOK, ChildrenOK, QuestionsOK, AnswersOK, GradesOK,
       FinalOK, Collected, Copies, Got, Graded, RightUpTo, vars, parentVars,
       childVars, queues

LEMMA ExamInvariant == Spec => []ExamInv
<1>1. ASSUME ExamInv, [Next]_vars PROVE ExamInv'
  <2>1. CASE Fork \/ ForkFails
    BY <1>1, <2>1, ForkInv
  <2>2. CASE Ask
    BY <1>1, <2>2, AskInv
  <2>3. CASE ChooseAnswer
    BY <1>1, <2>3, ChooseInv
  <2>4. CASE Collect
    BY <1>1, <2>4, CollectMoreInv, CollectLastInv
  <2>5. CASE Grade
    BY <1>1, <2>5, GradeInv
  <2>6. CASE \E s \in Student : Child(s)
    BY <1>1, <2>6, ReceiveInv, RespondInv DEF Child
  <2>7. CASE UNCHANGED vars
    BY <1>1, <2>7, StutterInv
  <2>8. QED
    BY <1>1, <2>1, <2>2, <2>3, <2>4, <2>5, <2>6, <2>7 DEF Next, Parent
<1>2. QED
  BY InitInv, <1>1, PTL DEF Spec

-----------------------------------------------------------------------------

(***************************************************************************)
(* The rounds never overlap, for any number of students and questions:     *)
(* however small the queues are and however the processes are scheduled.   *)
(***************************************************************************)
THEOREM RoundsCorrect == Spec => []RoundsSeparate
<1>1. ASSUME ExamInv PROVE RoundsSeparate
  BY <1>1 DEF ExamInv, RoundsSeparate, ChildrenOK, QuestionsOK, AnswersOK,
              Copies, Got
<1>2. QED
  BY <1>1, ExamInvariant, PTL

(***************************************************************************)
(* Every student gets the grade of the right answers that this student     *)
(* gave, each to its own question.                                         *)
(***************************************************************************)
THEOREM GradesCorrect == Spec => []GradesEarned
<1>1. ASSUME ExamInv PROVE GradesEarned
  <2> SUFFICES ASSUME parent = "done", NEW s \in Student
               PROVE  final_grades[s] = FinalGrade(Cardinality(Right(s)))
    BY DEF GradesEarned
  <2>1. i = num_questions + 1 /\ num_questions \in Nat
    BY <1>1, ExamAssumption DEF ExamInv, LoopsOK
  <2>2. Len(correct) = num_questions /\ correct \in Seq(Answer)
    BY <1>1, <2>1 DEF ExamInv, GradesOK, TypeOK
  <2>3. Len(answers[s]) = num_questions /\ answers[s] \in Seq(Answer)
    <3>1. received[s] \in 0 .. num_questions /\ answers[s] \in Seq(Answer)
      BY <1>1 DEF ExamInv, TypeOK
    <3>2. received[s] = num_questions
      BY <1>1, <2>1, <3>1 DEF ExamInv, ChildrenOK
    <3>3. QED
      BY <1>1, <2>1, <3>1, <3>2 DEF ExamInv, ChildrenOK
  <2>4. Right(s) = RightUpTo(s, num_questions)
    BY <2>1, <2>2, <2>3 DEF Right, RightUpTo
  <2>5. Graded(s) = num_questions
    BY <2>1 DEF Graded, Collected
  <2>6. QED
    BY <1>1, <2>4, <2>5 DEF ExamInv, GradesOK, FinalOK
<1>2. QED
  BY <1>1, ExamInvariant, PTL

-----------------------------------------------------------------------------

(* That the exam does not get stuck                                        *)

ParentCanGoOn ==
    \/ parent \in {"forking", "choosing", "grading"}
    \/ parent = "asking" /\ HasRoom(send_qid)
    \/ parent = "collecting" /\ \E msg \in recv_qid : msg[1] = j + 1

\* Child s has a question to receive, or an answer to send and room for it.
ChildCanGoOn(s) ==
    \/ /\ s <= forked
       /\ received[s] = Len(answers[s]) /\ received[s] < num_questions
       /\ \E msg \in send_qid : msg[1] = received[s] + 1
    \/ received[s] > Len(answers[s]) /\ HasRoom(recv_qid)

GoesOn ==
    parent \notin {"done", "failed"} =>
        ParentCanGoOn \/ \E s \in Student : ChildCanGoOn(s)

AllForked == parent \notin {"forking", "failed"} => forked = num_students

\* An answer that has been sent and not collected is in the queue.
NoneLost ==
    \A s \in Student :
        Len(answers[s]) = i /\ ~Collected(s) =>
            \E msg \in recv_qid : msg[1] = s

LEMMA NothingLost == Spec => [](AllForked /\ NoneLost)
<1>1. Init => AllForked /\ NoneLost
  BY DEF Init, AllForked, NoneLost
<1>2. ASSUME ExamInv, AllForked, NoneLost, [Next]_vars
      PROVE  AllForked' /\ NoneLost'
  <2> USE ExamAssumption
  <2>1. CASE Fork \/ ForkFails
    <3>1. parent = "forking" /\ UNCHANGED <<i, j, childVars, queues>>
      BY <2>1 DEF Fork, ForkFails
    <3>2. parent' # "collecting"
      BY <2>1 DEF Fork, ForkFails
    <3>3. AllForked'
      BY <2>1 DEF Fork, ForkFails, AllForked
    <3>4. QED
      BY <1>2, <3>1, <3>2, <3>3 DEF NoneLost, Collected, childVars, queues
  <2>2. CASE Ask \/ ChooseAnswer
    <3>1. /\ parent \in {"asking", "choosing"}
          /\ parent' \in {"asking", "choosing", "collecting"}
          /\ parent' = "collecting" => j' = 0
          /\ UNCHANGED <<forked, i, childVars, recv_qid>>
      BY <2>2 DEF Ask, ChooseAnswer, queues
    <3>2. \A s \in Student : ~Collected(s) /\ ~Collected(s)'
      BY <3>1 DEF Collected, Student
    <3>3. QED
      BY <1>2, <3>1, <3>2 DEF AllForked, NoneLost, childVars
  <2>3. CASE Collect
    <3>1. /\ parent = "collecting" /\ i \in Nat /\ j \in Nat
          /\ UNCHANGED <<forked, childVars>>
          /\ recv_qid' = recv_qid \ {<<j + 1, i, answers[j + 1][i]>>}
      BY <1>2, <2>3, CollectFacts DEF ExamInv, TypeOK
    <3>2. \/ parent' = parent /\ i' = i /\ j' = j + 1
          \/ parent' \in {"asking", "grading"} /\ i' = i + 1
      BY <2>3, <3>1 DEF Collect
    <3>3. AllForked'
      BY <1>2, <3>1, <3>2 DEF AllForked
    <3>4. ASSUME NEW s \in Student, Len(answers'[s]) = i', ~Collected(s)'
          PROVE  \E msg \in recv_qid' : msg[1] = s
      <4>1. i' = i /\ parent' = parent /\ j' = j + 1
        <5>1. Len(answers[s]) <= i
          BY <1>2, <3>1 DEF ExamInv, ChildrenOK
        <5>2. answers' = answers
          BY <3>1 DEF childVars
        <5>3. i' # i + 1
          BY <3>1, <3>4, <5>1, <5>2
        <5>4. QED
          BY <3>2, <5>3
      <4>2. s # j + 1 /\ ~Collected(s)
        BY <3>1, <3>4, <4>1 DEF Collected, Student
      <4>3. PICK msg \in recv_qid : msg[1] = s
        BY <1>2, <3>1, <3>4, <4>1, <4>2 DEF NoneLost, childVars
      <4>4. QED
        BY <3>1, <4>2, <4>3
    <3>5. QED
      BY <3>3, <3>4 DEF NoneLost
  <2>4. CASE Grade
    <3>1. /\ parent = "grading" /\ parent' = "done"
          /\ UNCHANGED <<forked, i, childVars, queues>>
      BY <2>4 DEF Grade
    <3>2. QED
      BY <1>2, <3>1 DEF AllForked, NoneLost, Collected, childVars, queues
  <2>5. ASSUME NEW s \in Student, Receive(s)
        PROVE  AllForked' /\ NoneLost'
    BY <1>2, <2>5 DEF Receive, AllForked, NoneLost, Collected, parentVars
  <2>6. ASSUME NEW s \in Student, Respond(s)
        PROVE  AllForked' /\ NoneLost'
    <3>1. PICK a \in Answer :
             /\ answers' = [answers EXCEPT ![s] = Append(@, a)]
             /\ recv_qid' = recv_qid \cup {<<s, received[s], a>>}
      BY <2>6 DEF Respond
    <3>2. UNCHANGED parentVars
      BY <2>6 DEF Respond
    <3>3. \A o \in Student \ {s} : answers'[o] = answers[o]
      BY <1>2, <3>1 DEF ExamInv, TypeOK
    <3>4. ASSUME NEW o \in Student, Len(answers'[o]) = i, ~Collected(o)
          PROVE  \E msg \in recv_qid' : msg[1] = o
      <4>1. CASE o = s
        <5>1. <<o, received[o], a>> \in recv_qid'
          BY <3>1, <4>1
        <5>2. QED
          BY ONLY <5>1
      <4>2. CASE o # s
        BY <1>2, <3>1, <3>3, <3>4, <4>2 DEF NoneLost
      <4>3. QED
        BY <4>1, <4>2
    <3>5. QED
      BY <1>2, <3>2, <3>4 DEF AllForked, NoneLost, Collected, parentVars
  <2>7. CASE UNCHANGED vars
    BY <1>2, <2>7 DEF AllForked, NoneLost, Collected, vars, parentVars,
                      childVars, queues
  <2>8. QED
    BY <1>2, <2>1, <2>2, <2>3, <2>4, <2>5, <2>6, <2>7
    DEF Next, Parent, Child
<1>3. QED
  BY <1>1, <1>2, ExamInvariant, PTL DEF Spec

\* A student who owes an answer has none in the queue, which has room then.
LEMMA RoomForAnswer ==
    ASSUME ExamInv, num_students <= Capacity,
           NEW s \in Student, received[s] > Len(answers[s])
    PROVE  HasRoom(recv_qid)
<1> USE ExamAssumption DEF ExamInv
<1>1. Len(answers[s]) # i
  <2>1. /\ received[s] \in Nat /\ i \in Nat /\ received[s] \in {i - 1, i}
        /\ Len(answers[s]) \in {i - 1, received[s]}
    BY DEF TypeOK, ChildrenOK
  <2>2. QED
    BY <2>1
<1>2. DEFINE Sender == {msg[1] : msg \in recv_qid}
             Of == [o \in Sender |-> <<o, i, answers[o][i]>>]
<1>3. Sender \subseteq Student \ {s}
  BY <1>1, MessageOf DEF AnswersOK
<1>4. IsFiniteSet(Student \ {s}) /\ Cardinality(Student \ {s}) < num_students
  BY StudentsFinite, FS_RemoveElement
<1>5. IsFiniteSet(Sender) /\ Cardinality(Sender) < num_students
      /\ Cardinality(Sender) \in Nat
  <2> HIDE DEF Sender
  <2>1. /\ IsFiniteSet(Sender)
        /\ Cardinality(Sender) <= Cardinality(Student \ {s})
    BY <1>3, <1>4, FS_Subset
  <2>2. Cardinality(Sender) \in Nat /\ Cardinality(Student \ {s}) \in Nat
    BY <2>1, <1>4, FS_CardinalityType
  <2>3. QED
    BY <1>4, <2>1, <2>2
<1>6. recv_qid = {Of[o] : o \in Sender}
  BY MessageOf
<1>7. IsFiniteSet(recv_qid) /\ Cardinality(recv_qid) <= Cardinality(Sender)
  <2>1. Of \in Surjection(Sender, recv_qid)
    BY <1>6 DEF Surjection
  <2> HIDE DEF Sender, Of
  <2>2. QED
    BY <1>5, <2>1, FS_Surjection
<1>8. Cardinality(recv_qid) \in Nat
  BY <1>7, FS_CardinalityType
<1>9. QED
  BY <1>5, <1>7, <1>8 DEF HasRoom

(***************************************************************************)
(* As long as every queue holds a message per student, the exam cannot get *)
(* stuck: until the grades are presented or a fork fails, the parent or a  *)
(* child is not blocked in msgsnd or msgrcv.  For the answer the parent    *)
(* waits for is in the queue, or its sender has room for it, or has yet to *)
(* receive a question of which a copy is left (lines 49-63, 75-101).       *)
(***************************************************************************)
THEOREM ExamNeverStuck ==
    ASSUME num_students <= Capacity PROVE Spec => []GoesOn
<1>1. ASSUME ExamInv, AllForked, NoneLost PROVE GoesOn
  <2> USE ExamAssumption DEF ExamInv
  <2>1. CASE parent = "asking"
    <3>1. /\ Cardinality(send_qid) \in Nat /\ Cardinality(Got) \in Nat
          /\ Cardinality(send_qid) + Cardinality(Got) = j
      BY <1>1, <2>1, StudentsFinite, FS_CardinalityType
      DEF QuestionsOK, Copies, Got
    <3>2. j \in Nat /\ j < num_students
      BY <1>1, <2>1 DEF LoopsOK, TypeOK
    <3>3. Cardinality(send_qid) < Capacity
      BY <1>1, <3>1, <3>2
    <3>4. QED
      BY <2>1, <3>3 DEF GoesOn, ParentCanGoOn, HasRoom
  <2>2. CASE parent = "collecting"
    <3>1. /\ j \in Nat /\ j < num_students /\ j + 1 \in Student
          /\ i \in Nat /\ i <= num_questions
      BY <1>1, <2>2 DEF LoopsOK, TypeOK, Student
    <3>2. /\ received[j + 1] \in {i - 1, i} /\ received[j + 1] \in Nat
          /\ Len(answers[j + 1]) \in {i - 1, received[j + 1]}
      BY <1>1, <3>1 DEF ChildrenOK, TypeOK
    <3>3. CASE Len(answers[j + 1]) = i
      BY <1>1, <2>2, <3>1, <3>3
      DEF GoesOn, ParentCanGoOn, NoneLost, Collected
    <3>4. CASE Len(answers[j + 1]) = i - 1 /\ received[j + 1] = i
      <4>1. received[j + 1] > Len(answers[j + 1])
        BY <3>1, <3>4
      <4>2. HasRoom(recv_qid)
        BY <1>1, <3>1, <4>1, RoomForAnswer
      <4>3. QED
        BY <3>1, <4>1, <4>2 DEF GoesOn, ChildCanGoOn
    <3>5. CASE Len(answers[j + 1]) = i - 1 /\ received[j + 1] = i - 1
      <4>1. Got # Student
        BY <3>1, <3>2, <3>5 DEF Got
      <4>2. Cardinality(Got) < num_students /\ Cardinality(Got) \in Nat
        BY <4>1, StudentsFinite DEF Got
      <4>3. Cardinality(send_qid) # 0
        BY <1>1, <2>2, <4>2 DEF QuestionsOK, Copies
      <4>4. PICK msg : msg \in send_qid
        BY <4>3, FS_EmptySet
      <4>5. msg[1] = received[j + 1] + 1
        BY <1>1, <3>1, <3>5, <4>4 DEF QuestionsOK
      <4>6. j + 1 <= forked
        BY <1>1, <2>2, <3>1 DEF AllForked
      <4>7. ChildCanGoOn(j + 1)
        BY <3>1, <3>5, <4>4, <4>5, <4>6 DEF ChildCanGoOn
      <4>8. QED
        BY <3>1, <4>7 DEF GoesOn
    <3>6. QED
      BY <3>1, <3>2, <3>3, <3>4, <3>5
  <2>3. QED
    BY <1>1, <2>1, <2>2 DEF GoesOn, ParentCanGoOn, TypeOK
<1>2. QED
  BY <1>1, ExamInvariant, NothingLost, PTL

Stage ==
    CASE parent = "forking" -> 0
      [] parent = "asking" -> 1
      [] parent = "choosing" -> 2
      [] parent = "collecting" -> 3
      [] parent = "grading" -> 4
      [] OTHER -> 5

\* The parent is farther in its loops: another child, another question, a
\* later loop over the students, or another student in the same loop.
ParentAhead ==
    /\ \/ i' > i
       \/ i' = i /\ Stage' > Stage
       \/ i' = i /\ Stage' = Stage /\ (j' > j \/ forked' > forked)
    /\ UNCHANGED childVars

ChildAhead(s) ==
    /\ \/ received'[s] = received[s] + 1 /\ answers' = answers
       \/ Len(answers'[s]) = Len(answers[s]) + 1 /\ received' = received
    /\ UNCHANGED parentVars

WithinBounds ==
    /\ i \in 1 .. num_questions + 1 /\ Stage \in 0 .. 5
    /\ j \in 0 .. num_students /\ forked \in 0 .. num_students
    /\ \A s \in Student :
         /\ received[s] \in 0 .. num_questions
         /\ Len(answers[s]) \in 0 .. received[s]

(***************************************************************************)
(* No process can go on for ever without getting nearer to its end: each   *)
(* step takes the parent forward in its loops or a child forward by a      *)
(* message, and all of them have a last one.  With ExamNeverStuck the exam *)
(* ends if every process that is not blocked runs on (lines 43-145).       *)
(***************************************************************************)
THEOREM ExamAdvances ==
    Spec => /\ []WithinBounds
            /\ [][ParentAhead \/ \E s \in Student : ChildAhead(s)]_vars
<1>1. ASSUME ExamInv PROVE WithinBounds
  <2>1. /\ i \in 1 .. num_questions + 1 /\ j \in 0 .. num_students
        /\ forked \in 0 .. num_students
        /\ \A s \in Student : received[s] \in 0 .. num_questions
    BY <1>1 DEF ExamInv, TypeOK
  <2>2. \A s \in Student : Len(answers[s]) \in 0 .. received[s]
    BY <1>1, <2>1 DEF ExamInv, ChildrenOK
  <2>3. Stage \in 0 .. 5
    BY DEF Stage
  <2>4. QED
    BY <2>1, <2>2, <2>3 DEF WithinBounds
<1>2. ASSUME ExamInv, Next
      PROVE  ParentAhead \/ \E s \in Student : ChildAhead(s)
  <2> USE ExamAssumption
  <2>0. i \in Nat /\ j \in Nat /\ forked \in Nat
    BY <1>2 DEF ExamInv, TypeOK
  <2>1. CASE Fork \/ ForkFails
    BY <2>0, <2>1 DEF Fork, ForkFails, ParentAhead, Stage
  <2>2. CASE Ask \/ ChooseAnswer
    BY <2>0, <2>2 DEF Ask, ChooseAnswer, ParentAhead, Stage
  <2>3. CASE Collect \/ Grade
    BY <2>0, <2>3 DEF Collect, Grade, ParentAhead, Stage
  <2>4. ASSUME NEW s \in Student, Receive(s)
        PROVE  ChildAhead(s)
    <3>1. received'[s] = received[s] + 1
      BY <1>2, <2>4 DEF Receive, ExamInv, TypeOK
    <3>2. QED
      BY <2>4, <3>1 DEF Receive, ChildAhead
  <2>5. ASSUME NEW s \in Student, Respond(s)
        PROVE  ChildAhead(s)
    <3>1. PICK a \in Answer :
             answers' = [answers EXCEPT ![s] = Append(@, a)]
      BY <2>5 DEF Respond
    <3>2. answers[s] \in Seq(Answer) /\ answers'[s] = Append(answers[s], a)
      BY <1>2, <3>1 DEF ExamInv, TypeOK
    <3>3. Len(answers'[s]) = Len(answers[s]) + 1
      BY <3>2
    <3>4. QED
      BY <2>5, <3>3 DEF Respond, ChildAhead
  <2>6. QED
    BY <1>2, <2>1, <2>2, <2>3, <2>4, <2>5 DEF Next, Parent, Child
<1>3. QED
  BY <1>1, <1>2, ExamInvariant, PTL DEF Spec

-----------------------------------------------------------------------------
(* DirectoryMerge *)

\* The names of the files of child c
OwnFiles(c) == {Own[c][k] : k \in 1 .. 2}

\* The pairs of words of a message, in no order
Pairs(message) == {message[k] : k \in DOMAIN message}

\* What child c sends when it has all its files
Whole(c) == {<<f, Contents[f]>> : f \in OwnFiles(c)}

\* An error: none of its words at the place of a file is the name of one.
NoFiles(message) == \A p \in Pairs(message) : p[1] \notin DOMAIN Contents

Clean(c) == \A w \in Name \ DOMAIN Contents : dir[c][w] = Absent

OnlyFiles(c) ==
    /\ Clean(c)
    /\ \A p \in Pairs(todo[c]) : p[1] \in DOMAIN Contents

Has(c, f) == dir[c][f] = Contents[f]

\* Child c has the file f, or is about to store it.
WillHave(c, f) == Has(c, f) \/ <<f, Contents[f]>> \in Pairs(todo[c])

\* What may stand where the contents of a file do
Word == Name \cup {Contents[f] : f \in DOMAIN Contents}
             \cup {"failed", "in", Absent}

Message == Seq(Name \X Word)

MergeTypeOK ==
    /\ main \in {"start", "forked", "waiting", "exited", "failed"}
    /\ child \in [Children -> {"none", "sending", "receiving", "storing",
                               "succeeded", "failed"}]
    /\ pipe \in [Children -> Seq(Message)]
    /\ dir \in [Children -> [Name -> Word]]
    /\ todo \in [Children -> Message]

ForksOK ==
    /\ main = "start" => child[1] = "none"
    /\ main = "forked" => child[1] \in {"sending", "receiving", "failed"}
    /\ child[2] # "none" <=> main \in {"waiting", "exited"}
    /\ child[1] = "none" => child[2] = "none"

PipesOK ==
    /\ child[1] \in {"none", "sending"} => pipe[1] = <<>>
    /\ child[1] \in {"receiving", "storing", "succeeded"}
       /\ child[2] \in {"none", "receiving"} =>
          pipe[1] # <<>> /\ Pairs(Head(pipe[1])) = Whole(1)
    /\ \A k \in DOMAIN pipe[1] :
          NoFiles(pipe[1][k]) \/ Pairs(pipe[1][k]) = Whole(1)
    /\ child[2] \in {"none", "receiving", "storing", "sending"} =>
          pipe[2] = <<>>
    /\ child[2] = "succeeded" /\ child[1] \in {"sending", "receiving"} =>
          pipe[2] # <<>>
    /\ \A k \in DOMAIN pipe[2] :
          \/ child[2] = "failed" /\ NoFiles(pipe[2][k])
          \/ child[2] = "succeeded" /\ Pairs(pipe[2][k]) = Whole(2)

FilesOK ==
   \A c \in Children :
     /\ \A f \in DOMAIN Contents : dir[c][f] \in {Absent, Contents[f]}
     /\ \A p \in Pairs(todo[c]) :
          p[1] \in DOMAIN Contents => p[2] = Contents[p[1]]

FirstOK ==
    /\ child[1] # "storing" /\ child[1] # "failed" => todo[1] = <<>>
    /\ child[1] \in {"none", "sending", "receiving"} => Clean(1)
    /\ child[1] \in {"receiving", "storing", "succeeded"} =>
         \A f \in OwnFiles(1) : Has(1, f)
    /\ child[1] \in {"storing", "succeeded"}
       /\ child[2] \notin {"none", "failed"} =>
         /\ child[2] = "succeeded"
         /\ OnlyFiles(1)
         /\ \A f \in OwnFiles(2) : WillHave(1, f)

SecondOK ==
    /\ child[2] # "storing" /\ child[2] # "failed" => todo[2] = <<>>
    /\ child[2] \in {"none", "receiving"} => Clean(2)
    /\ child[2] \in {"storing", "sending", "succeeded"}
       /\ child[1] # "failed" =>
         OnlyFiles(2) /\ \A f \in OwnFiles(1) : WillHave(2, f)
    /\ child[2] = "succeeded" => \A f \in OwnFiles(2) : Has(2, f)

\* Something under the name f is in directory c, or about to be.
Present(c, f) == dir[c][f] # Absent \/ \E p \in Pairs(todo[c]) : p[1] = f

SecondWhole ==
    (\E f \in OwnFiles(2) : Present(1, f)) =>
       child[2] = "succeeded" /\ \A f \in DOMAIN Contents : Has(2, f)

MergeInv ==
    /\ MergeTypeOK
    /\ ForksOK
    /\ PipesOK
    /\ FilesOK
    /\ FirstOK
    /\ SecondOK
    /\ SecondWhole

-----------------------------------------------------------------------------
(* Words and messages *)

LEMMA FileNames ==
    /\ OwnFiles(1) = {"file1", "file2"}
    /\ OwnFiles(2) = {"file3", "file4"}
    /\ DOMAIN Contents = OwnFiles(1) \cup OwnFiles(2)
    /\ DOMAIN Contents \subseteq Name
    /\ OwnFiles(1) \cap OwnFiles(2) = {}
    /\ \A f \in DOMAIN Contents : Contents[f] \in Word /\ Contents[f] # Absent
<1>1. OwnFiles(1) = {"file1", "file2"}
  BY DEF OwnFiles, Own
<1>2. OwnFiles(2) = {"file3", "file4"}
  BY DEF OwnFiles, Own
<1>3. DOMAIN Contents = {"file1", "file2", "file3", "file4"}
  BY DEF Contents
<1>4. DOMAIN Contents \subseteq Name
  BY DEF Name
<1>5. \A f \in DOMAIN Contents : Contents[f] \in Word /\ Contents[f] # Absent
  <2>1. /\ Contents["file1"] = "jaya_krishna"
        /\ Contents["file2"] = "Raja_Gopal"
        /\ Contents["file3"] = "Chenna_Keshava"
        /\ Contents["file4"] = "Souhardya_Halder"
    BY DEF Contents
  <2>2. QED
    BY <1>3, <2>1 DEF Absent, Word
<1>6. QED
  BY <1>1, <1>2, <1>3, <1>4, <1>5

LEMMA ErrorWords ==
    ASSUME NEW c \in Children, NEW f \in Name
    PROVE  /\ ReadError(c, f) \in Message /\ NoFiles(ReadError(c, f))
           /\ CreateError(c, f) \in Message /\ NoFiles(CreateError(c, f))
<1>1. f \in Word
  BY DEF Word
<1>2. {"Error:", "Error", "to", "read", "create"} \subseteq Name
  BY DEF Name
<1>3. {"Error:", "Error", "to", "read", "create"} \cap DOMAIN Contents = {}
  BY DEF Contents
<1>4. ASSUME NEW v \in {"Error:", "Error", "to", "read", "create"},
             NEW w \in {"Error:", "Error", "to", "read", "create"},
             NEW x \in Word, NEW y \in Word
      PROVE  /\ <<<<v, x>>, <<w, y>>>> \in Message
             /\ NoFiles(<<<<v, x>>, <<w, y>>>>)
  <2>1. <<v, x>> \in Name \X Word /\ <<w, y>> \in Name \X Word
    BY <1>2
  <2>2. Pairs(<<<<v, x>>, <<w, y>>>>) = {<<v, x>>, <<w, y>>}
    BY DEF Pairs
  <2>3. v \notin DOMAIN Contents /\ w \notin DOMAIN Contents
    BY <1>3
  <2>4. QED
    BY <2>1, <2>2, <2>3 DEF Message, NoFiles
<1>5. "read" \in Word /\ "create" \in Word
      /\ "failed" \in Word /\ "in" \in Word
  BY DEF Word, Name
<1>6. ReadError(c, f) \in Message /\ NoFiles(ReadError(c, f))
  <2>1. CASE c = 1
    BY <1>4, <1>5, <2>1 DEF ReadError
  <2>2. CASE c # 1
    BY <1>1, <1>4, <1>5, <2>2 DEF ReadError
  <2>3. QED
    BY <2>1, <2>2
<1>7. CreateError(c, f) \in Message /\ NoFiles(CreateError(c, f))
  <2>1. CASE c = 1
    BY <1>4, <1>5, <2>1 DEF CreateError
  <2>2. CASE c # 1
    BY <1>1, <1>4, <1>5, <2>2 DEF CreateError
  <2>3. QED
    BY <2>1, <2>2
<1>8. QED
  BY <1>6, <1>7

LEMMA FirstPair ==
    ASSUME NEW s \in Message, s # <<>>
    PROVE  /\ Head(s)[1] \in Name /\ Head(s)[2] \in Word
           /\ Head(s) = <<Head(s)[1], Head(s)[2]>>
           /\ Tail(s) \in Message
           /\ Pairs(s) = {Head(s)} \cup Pairs(Tail(s))
<1>1. s \in Seq(Name \X Word) /\ Len(s) > 0 /\ Len(s) \in Nat
  BY DEF Message
<1>2. Head(s) = s[1] /\ s[1] \in Name \X Word
  BY <1>1
<1>3. Tail(s) \in Seq(Name \X Word) /\ Len(Tail(s)) = Len(s) - 1
  BY <1>1
<1>4. \A k \in 1 .. Len(s) - 1 : Tail(s)[k] = s[k + 1]
  BY <1>1
<1>5. DOMAIN s = 1 .. Len(s) /\ DOMAIN Tail(s) = 1 .. Len(s) - 1
  BY <1>1, <1>3
<1>6. Pairs(s) = {Head(s)} \cup Pairs(Tail(s))
  <2>1. ASSUME NEW k \in DOMAIN s PROVE s[k] \in {Head(s)} \cup Pairs(Tail(s))
    <3>1. CASE k = 1
      BY <1>2, <3>1
    <3>2. CASE k # 1
      <4>1. k - 1 \in DOMAIN Tail(s) /\ s[k] = Tail(s)[k - 1]
        BY <1>1, <1>4, <1>5, <3>2
      <4>2. QED
        BY <4>1 DEF Pairs
    <3>3. QED
      BY <3>1, <3>2
  <2>2. ASSUME NEW k \in DOMAIN Tail(s) PROVE Tail(s)[k] \in Pairs(s)
    <3>1. k + 1 \in DOMAIN s /\ Tail(s)[k] = s[k + 1]
      BY <1>1, <1>4, <1>5
    <3>2. QED
      BY <3>1 DEF Pairs
  <2>3. Head(s) \in Pairs(s)
    BY <1>1, <1>2, <1>5 DEF Pairs
  <2>4. \A x \in Pairs(s) : x \in {Head(s)} \cup Pairs(Tail(s))
    BY <2>1 DEF Pairs
  <2>5. \A x \in Pairs(Tail(s)) : x \in Pairs(s)
    BY <2>2 DEF Pairs
  <2>6. QED
    BY <2>3, <2>4, <2>5
<1>7. QED
  BY <1>2, <1>3, <1>6 DEF Message

LEMMA NoPairs ==
    Pairs(<<>>) = {} /\ <<>> \in Message /\ <<>> \in Seq(Message)
<1>1. \A S : <<>> \in Seq(S)
  OBVIOUS
<1>2. QED
  BY <1>1 DEF Pairs, Message

LEMMA WriteTo ==
    ASSUME NEW s \in Seq(Message), NEW m \in Message
    PROVE  /\ Append(s, m) \in Seq(Message)
           /\ Append(s, m) # <<>>
           /\ s = <<>> => Head(Append(s, m)) = m
           /\ s # <<>> => Head(Append(s, m)) = Head(s)
           /\ \A k \in DOMAIN Append(s, m) :
                \/ Append(s, m)[k] = m
                \/ k \in DOMAIN s /\ Append(s, m)[k] = s[k]
<1> DEFINE t == Append(s, m)
<1>1. t \in Seq(Message) /\ Len(t) = Len(s) + 1 /\ Len(s) \in Nat
  OBVIOUS
<1>2. /\ \A k \in 1 .. Len(s) : t[k] = s[k]
      /\ t[Len(s) + 1] = m
  OBVIOUS
<1>3. DOMAIN t = 1 .. Len(s) + 1 /\ DOMAIN s = 1 .. Len(s)
  BY <1>1
<1>4. t # <<>> /\ Head(t) = t[1]
  BY <1>1
<1>5. s = <<>> => Len(s) = 0
  OBVIOUS
<1>6. s # <<>> => Len(s) > 0 /\ Head(s) = s[1]
  OBVIOUS
<1> HIDE DEF t
<1>7. \A k \in DOMAIN t : t[k] = m \/ (k \in DOMAIN s /\ t[k] = s[k])
  BY <1>1, <1>2, <1>3
<1>8. s = <<>> => Head(t) = m
  BY <1>2, <1>4, <1>5
<1>9. s # <<>> => Head(t) = Head(s)
  BY <1>1, <1>2, <1>4, <1>6
<1>10. QED
  BY <1>1, <1>4, <1>7, <1>8, <1>9 DEF t

LEMMA Two == /\ Children = {1, 2} /\ 1 \in Children /\ 2 \in Children
             /\ Other(1) = 2 /\ Other(2) = 1
BY DEF Children, Other

\* The message of a child that has all its files
LEMMA WholeMessage ==
    ASSUME MergeTypeOK, FilesOK, NEW c \in Children, MissingFiles(c) = {}
    PROVE  LET m == [k \in 1 .. 2 |-> <<Own[c][k], dir[c][Own[c][k]]>>] IN
           /\ m \in Message
           /\ Pairs(m) = Whole(c)
           /\ \A f \in OwnFiles(c) : Has(c, f)
<1> DEFINE m == [k \in 1 .. 2 |-> <<Own[c][k], dir[c][Own[c][k]]>>]
<1>1. OwnFiles(c) \subseteq DOMAIN Contents
  BY FileNames, Two
<1>2. \A k \in 1 .. 2 : Own[c][k] \in OwnFiles(c)
  BY DEF OwnFiles
<1>3. ASSUME NEW f \in OwnFiles(c) PROVE Has(c, f)
  <2>1. PICK k \in 1 .. 2 : f = Own[c][k]
    BY DEF OwnFiles
  <2>2. dir[c][f] # Absent
    BY <2>1 DEF MissingFiles
  <2>3. QED
    BY <1>1, <2>2 DEF FilesOK, Has
<1>4. \A k \in 1 .. 2 : m[k] = <<Own[c][k], Contents[Own[c][k]]>>
  BY <1>2, <1>3 DEF Has
<1>5. \A k \in 1 .. 2 : m[k] \in Name \X Word
  BY <1>1, <1>2, <1>4, FileNames
<1>6. DOMAIN m = 1 .. 2 /\ m = [k \in 1 .. 2 |-> m[k]]
  OBVIOUS
<1> HIDE DEF m
<1>7. m \in Message
  BY <1>5, <1>6 DEF Message
<1>8. Pairs(m) = Whole(c)
  BY <1>4, <1>6 DEF Pairs, Whole, OwnFiles
<1>9. QED
  BY <1>3, <1>7, <1>8 DEF m

\* What the next pair of words does, when it can be stored
LEMMA PairStored ==
    ASSUME MergeTypeOK, FilesOK, NEW c \in Children, todo[c] # <<>>,
           dir' = [dir EXCEPT ![c][Head(todo[c])[1]] = Head(todo[c])[2]],
           todo' = [todo EXCEPT ![c] = Tail(@)]
    PROVE  /\ dir' \in [Children -> [Name -> Word]]
           /\ todo' \in [Children -> Message]
           /\ FilesOK'
           /\ OnlyFiles(c) => OnlyFiles(c)'
           /\ \A f \in DOMAIN Contents :
                /\ Has(c, f) => Has(c, f)'
                /\ WillHave(c, f) => WillHave(c, f)'
                /\ Present(c, f)' => Present(c, f)
<1> DEFINE pair == Head(todo[c])
<1>1. /\ pair[1] \in Name /\ pair[2] \in Word
      /\ pair = <<pair[1], pair[2]>>
      /\ Tail(todo[c]) \in Message
      /\ Pairs(todo[c]) = {pair} \cup Pairs(Tail(todo[c]))
  BY FirstPair DEF MergeTypeOK
<1>2. pair \in Pairs(todo[c])
  BY <1>1
<1>3. pair[1] \in DOMAIN Contents => pair[2] = Contents[pair[1]]
  BY <1>2 DEF FilesOK
<1> HIDE DEF pair
<1>4. dir' = [dir EXCEPT ![c][pair[1]] = pair[2]]
  BY DEF pair
<1>5. /\ dir \in [Children -> [Name -> Word]]
      /\ todo \in [Children -> Message]
  BY DEF MergeTypeOK
<1>6. /\ dir' \in [Children -> [Name -> Word]]
      /\ \A w \in Name :
           dir'[c][w] = IF w = pair[1] THEN pair[2] ELSE dir[c][w]
      /\ \A d \in Children \ {c} : dir'[d] = dir[d]
  <2>1. PICK files : files = [dir[c] EXCEPT ![pair[1]] = pair[2]]
    OBVIOUS
  <2>2. files \in [Name -> Word]
    BY <1>1, <1>5, <2>1
  <2>3. \A w \in Name : files[w] = IF w = pair[1] THEN pair[2] ELSE dir[c][w]
    BY <1>1, <1>5, <2>1
  <2>4. dir' = [dir EXCEPT ![c] = files]
    BY <1>4, <2>1
  <2>5. QED
    BY <1>5, <2>2, <2>3, <2>4
<1>7. /\ todo' \in [Children -> Message]
      /\ todo'[c] = Tail(todo[c])
      /\ \A d \in Children \ {c} : todo'[d] = todo[d]
  BY <1>1, <1>5
<1>8. /\ Pairs(todo'[c]) \subseteq Pairs(todo[c])
      /\ Pairs(todo[c]) = {pair} \cup Pairs(todo'[c])
  BY <1>1, <1>7
<1>9. FilesOK'
  <2>1. ASSUME NEW d \in Children
        PROVE  /\ \A f \in DOMAIN Contents :
                    dir'[d][f] \in {Absent, Contents[f]}
               /\ \A p \in Pairs(todo'[d]) :
                    p[1] \in DOMAIN Contents => p[2] = Contents[p[1]]
    <3>1. CASE d = c
      BY <1>3, <1>6, <1>8, <3>1, FileNames DEF FilesOK
    <3>2. CASE d # c
      BY <1>6, <1>7, <3>2 DEF FilesOK
    <3>3. QED
      BY <3>1, <3>2
  <2>2. QED
    BY <2>1 DEF FilesOK
<1>10. ASSUME OnlyFiles(c) PROVE OnlyFiles(c)'
  BY <1>2, <1>6, <1>8, <1>10 DEF OnlyFiles, Clean
<1>11. ASSUME NEW f \in DOMAIN Contents
       PROVE  /\ Has(c, f) => Has(c, f)'
              /\ WillHave(c, f) => WillHave(c, f)'
              /\ Present(c, f)' => Present(c, f)
  <2>1. f \in Name
    BY FileNames
  <2>2. Has(c, f) => Has(c, f)'
    BY <1>3, <1>6, <2>1 DEF Has
  <2>3. WillHave(c, f) => WillHave(c, f)'
    <3>1. CASE <<f, Contents[f]>> = pair
      <4>1. pair[1] = f /\ pair[2] = Contents[f]
        BY <3>1
      <4>2. Has(c, f)'
        BY <1>6, <2>1, <4>1 DEF Has
      <4>3. QED
        BY <4>2 DEF WillHave
    <3>2. CASE <<f, Contents[f]>> # pair
      BY <1>8, <2>2, <3>2 DEF WillHave
    <3>3. QED
      BY <3>1, <3>2
  <2>4. Present(c, f)' => Present(c, f)
    <3>1. CASE pair[1] = f
      BY <1>2, <3>1 DEF Present
    <3>2. CASE pair[1] # f
      BY <1>6, <1>8, <2>1, <3>2 DEF Present
    <3>3. QED
      BY <3>1, <3>2
  <2>5. QED
    BY <2>2, <2>3, <2>4
<1>12. QED
  BY <1>6, <1>7, <1>9, <1>10, <1>11

-----------------------------------------------------------------------------
(* The invariant of the merge *)

LEMMA InitMergeInv == MergeInit => MergeInv
<1> SUFFICES ASSUME MergeInit PROVE MergeInv
  OBVIOUS
<1> DEFINE Begin(missing) ==
             [c \in Children |-> [n \in Name |->
                 IF n \in {Own[c][1], Own[c][2]} \ missing
                 THEN Contents[n] ELSE Absent]]
<1>1. PICK missing : dir = Begin(missing)
  BY DEF MergeInit
<1>2. \A c \in Children : {Own[c][1], Own[c][2]} = OwnFiles(c)
  BY DEF OwnFiles
<1>3. /\ child[1] = "none" /\ child[2] = "none"
      /\ pipe[1] = <<>> /\ pipe[2] = <<>>
      /\ todo[1] = <<>> /\ todo[2] = <<>>
      /\ main = "start"
  BY DEF MergeInit
<1>4. ASSUME NEW c \in Children, NEW n \in Name
      PROVE  dir[c][n] = IF n \in OwnFiles(c) \ missing
                         THEN Contents[n] ELSE Absent
  BY <1>1, <1>2
<1>5. OwnFiles(1) \cup OwnFiles(2) \subseteq DOMAIN Contents
  BY FileNames
<1>6. MergeTypeOK
  <2>1. child \in [Children -> {"none", "sending", "receiving", "storing",
                                "succeeded", "failed"}]
    BY DEF MergeInit, Children
  <2>2. pipe \in [Children -> Seq(Message)]
    <3>1. PICK M : M = Seq(Message)
      OBVIOUS
    <3>2. <<>> \in M
      BY <3>1, NoPairs
    <3>3. pipe \in [Children -> M]
      BY <3>2 DEF MergeInit, Children
    <3>4. QED
      BY <3>1, <3>3
  <2>3. todo \in [Children -> Message]
    BY NoPairs DEF MergeInit, Children
  <2>4. dir \in [Children -> [Name -> Word]]
    <3>1. \A c \in Children : \A n \in Name : Begin(missing)[c][n] \in Word
      BY <1>2, FileNames DEF Children, Word
    <3>2. QED
      BY <1>1, <3>1
  <2>5. QED
    BY <1>3, <2>1, <2>2, <2>3, <2>4 DEF MergeTypeOK
<1>7. ForksOK
  BY <1>3 DEF ForksOK
<1>8. PipesOK
  BY <1>3 DEF PipesOK
<1>9. FilesOK
  BY <1>3, <1>4, FileNames, NoPairs, Two DEF FilesOK
<1>10. Clean(1) /\ Clean(2)
  BY <1>4, <1>5, Two DEF Clean
<1>11. FirstOK /\ SecondOK
  BY <1>3, <1>10 DEF FirstOK, SecondOK
<1>12. SecondWhole
  BY <1>3, <1>4, FileNames, NoPairs, Two DEF SecondWhole, Present
<1>13. QED
  BY <1>6, <1>7, <1>8, <1>9, <1>11, <1>12 DEF MergeInv

LEMMA SameFiles ==
    ASSUME NEW c \in Children, dir'[c] = dir[c], todo'[c] = todo[c]
    PROVE  /\ Clean(c)' = Clean(c) /\ OnlyFiles(c)' = OnlyFiles(c)
           /\ \A f \in DOMAIN Contents :
                /\ Has(c, f)' = Has(c, f)
                /\ WillHave(c, f)' = WillHave(c, f)
                /\ Present(c, f)' = Present(c, f)
BY DEF Clean, OnlyFiles, Has, WillHave, Present

LEMMA OwnIsFile ==
    OwnFiles(1) \cup OwnFiles(2) \subseteq DOMAIN Contents
BY FileNames

\* Child c goes on, the other stays where it is.
LEMMA Becomes ==
    ASSUME MergeTypeOK, NEW c \in Children, NEW pc, Become(c, pc)
    PROVE  /\ child'[c] = pc
           /\ \A d \in Children \ {c} : child'[d] = child[d]
BY DEF Become, MergeTypeOK

LEMMA ChildType ==
    ASSUME MergeTypeOK, NEW c \in Children,
           NEW pc \in {"none", "sending", "receiving", "storing", "succeeded",
                       "failed"},
           Become(c, pc)
    PROVE  child' \in [Children -> {"none", "sending", "receiving", "storing",
                                    "succeeded", "failed"}]
BY DEF Become, MergeTypeOK

\* Child c sends an error or all its files.
LEMMA Writes ==
    ASSUME MergeTypeOK, NEW c \in Children, NEW m \in Message, Write(c, m)
    PROVE  /\ pipe' \in [Children -> Seq(Message)]
           /\ pipe'[c] # <<>>
           /\ pipe[c] = <<>> => Head(pipe'[c]) = m
           /\ pipe[c] # <<>> => Head(pipe'[c]) = Head(pipe[c])
           /\ \A k \in DOMAIN pipe'[c] :
                \/ pipe'[c][k] = m
                \/ k \in DOMAIN pipe[c] /\ pipe'[c][k] = pipe[c][k]
           /\ \A d \in Children \ {c} : pipe'[d] = pipe[d]
<1> PICK M : M = Seq(Message)
  OBVIOUS
<1>1. pipe \in [Children -> M]
  BY DEF MergeTypeOK
<1>2. pipe[c] \in Seq(Message)
  BY <1>1
<1> PICK s : s = Append(pipe[c], m)
  OBVIOUS
<1>3. /\ s \in M /\ s # <<>>
      /\ pipe[c] = <<>> => Head(s) = m
      /\ pipe[c] # <<>> => Head(s) = Head(pipe[c])
      /\ \A k \in DOMAIN s :
           s[k] = m \/ (k \in DOMAIN pipe[c] /\ s[k] = pipe[c][k])
  BY <1>2, WriteTo
<1>4. pipe' = [pipe EXCEPT ![c] = s]
  BY DEF Write
<1>5. pipe'[c] = s /\ pipe' \in [Children -> M]
      /\ \A d \in Children \ {c} : pipe'[d] = pipe[d]
  BY <1>1, <1>3, <1>4
<1>6. QED
  BY <1>3, <1>5

-----------------------------------------------------------------------------
(* The steps *)

LEMMA ParentSteps ==
    ASSUME MergeInv, ForkFirst \/ ForkSecond \/ WaitForBoth
    PROVE  MergeInv'
<1> USE DEF MergeInv
<1>1. UNCHANGED <<pipe, dir, todo>>
  BY DEF ForkFirst, ForkSecond, WaitForBoth
<1>2. FilesOK'
  BY <1>1 DEF FilesOK
<1>3. \A c \in Children :
        /\ Clean(c)' = Clean(c) /\ OnlyFiles(c)' = OnlyFiles(c)
        /\ \A f \in DOMAIN Contents :
             /\ Has(c, f)' = Has(c, f)
             /\ WillHave(c, f)' = WillHave(c, f)
             /\ Present(c, f)' = Present(c, f)
  BY <1>1, SameFiles
<1>4. OwnFiles(1) \cup OwnFiles(2) \subseteq DOMAIN Contents
  BY OwnIsFile
<1>5. ASSUME ForkFirst PROVE MergeInv'
  <2>1. child[1] = "none" /\ child[2] = "none"
    BY <1>5 DEF ForkFirst, ForksOK
  <2>2. child'[1] \in {"none", "sending"} /\ child'[2] = "none"
    BY <1>5, <2>1 DEF ForkFirst, MergeTypeOK, Children
  <2>3. MergeTypeOK'
    BY <1>1, <1>5 DEF ForkFirst, MergeTypeOK, Children
  <2>4. ForksOK'
    BY <1>5, <2>1, <2>2 DEF ForkFirst, ForksOK, MergeTypeOK, Children
  <2>5. PipesOK'
    BY <1>1, <2>1, <2>2 DEF PipesOK
  <2>6. FirstOK' /\ SecondOK'
    BY <1>1, <1>3, <2>1, <2>2, Two DEF FirstOK, SecondOK
  <2>7. SecondWhole'
    BY <1>3, <1>4, <2>1, <2>2, Two DEF SecondWhole
  <2>8. QED
    BY <1>2, <2>3, <2>4, <2>5, <2>6, <2>7
<1>6. ASSUME ForkSecond PROVE MergeInv'
  <2>1. child[1] # "none" /\ child[2] = "none"
    BY <1>6 DEF ForkSecond, ForksOK, MergeTypeOK, Children
  <2>2. child'[1] = child[1] /\ child'[2] \in {"none", "receiving"}
    BY <1>6, <2>1 DEF ForkSecond, MergeTypeOK, Children
  <2>3. MergeTypeOK'
    BY <1>1, <1>6 DEF ForkSecond, MergeTypeOK, Children
  <2>4. ForksOK'
    BY <1>6, <2>1, <2>2 DEF ForkSecond, ForksOK, MergeTypeOK, Children
  <2>5. PipesOK'
    BY <1>1, <2>1, <2>2 DEF PipesOK
  <2>6. FirstOK'
    BY <1>1, <1>3, <1>4, <1>6, <2>1, <2>2, Two
    DEF FirstOK, ForksOK, ForkSecond
  <2>7. SecondOK'
    BY <1>1, <1>3, <1>4, <2>1, <2>2, Two DEF SecondOK
  <2>8. SecondWhole'
    BY <1>3, <1>4, <2>1, <2>2, Two DEF SecondWhole
  <2>9. QED
    BY <1>2, <2>3, <2>4, <2>5, <2>6, <2>7, <2>8
<1>7. ASSUME WaitForBoth PROVE MergeInv'
  <2>1. child' = child
    BY <1>7 DEF WaitForBoth
  <2>2. MergeTypeOK' /\ ForksOK'
    BY <1>1, <1>7 DEF WaitForBoth, MergeTypeOK, ForksOK
  <2>3. PipesOK' /\ FirstOK' /\ SecondOK' /\ SecondWhole'
    BY <1>1, <2>1 DEF PipesOK, FirstOK, SecondOK, SecondWhole,
                      Clean, OnlyFiles, Has, WillHave, Present
  <2>4. QED
    BY <1>2, <2>2, <2>3
<1>8. QED
  BY <1>5, <1>6, <1>7

LEMMA SendOutcome ==
    ASSUME MergeInv, NEW c \in Children, Send(c)
    PROVE  /\ UNCHANGED <<main, dir, todo>>
           /\ child[c] = "sending"
           /\ \/ Become(c, "failed") /\ UNCHANGED pipe
              \/ \E m \in Message :
                   /\ Write(c, m)
                   /\ Pairs(m) = Whole(c)
                   /\ Become(c, After(c, "sending"))
                   /\ \A f \in OwnFiles(c) : Has(c, f)
              \/ \E m \in Message :
                   Write(c, m) /\ NoFiles(m) /\ Become(c, "failed")
<1> USE DEF MergeInv
<1>1. UNCHANGED <<main, dir, todo>> /\ child[c] = "sending"
  BY DEF Send
<1>2. CASE Become(c, "failed") /\ UNCHANGED pipe
  BY <1>1, <1>2
<1>3. CASE /\ MissingFiles(c) = {}
           /\ Write(c, [k \in 1 .. 2 |-> <<Own[c][k], dir[c][Own[c][k]]>>])
           /\ Become(c, After(c, "sending"))
  BY <1>1, <1>3, WholeMessage
<1>4. ASSUME NEW k \in MissingFiles(c), Fail(c, ReadError(c, Own[c][k]))
      PROVE  \E m \in Message :
                   Write(c, m) /\ NoFiles(m) /\ Become(c, "failed")
  <2>1. Own[c][k] \in OwnFiles(c)
    BY DEF MissingFiles, OwnFiles
  <2>2. Own[c][k] \in Name
    BY <2>1, FileNames, Two
  <2>3. QED
    BY <1>4, <2>2, ErrorWords DEF Fail
<1>5. QED
  BY <1>1, <1>2, <1>3, <1>4 DEF Send

LEMMA SendFirst ==
    ASSUME MergeInv, Send(1)
    PROVE  MergeInv'
<1> USE DEF MergeInv
<1>1. /\ UNCHANGED <<main, dir, todo>>
      /\ child[1] = "sending"
      /\ pipe[1] = <<>>
  BY SendOutcome, Two DEF PipesOK
<1>2. FilesOK'
  BY <1>1 DEF FilesOK
<1>3. \A c \in Children :
        /\ Clean(c)' = Clean(c) /\ OnlyFiles(c)' = OnlyFiles(c)
        /\ \A f \in DOMAIN Contents :
             /\ Has(c, f)' = Has(c, f)
             /\ WillHave(c, f)' = WillHave(c, f)
             /\ Present(c, f)' = Present(c, f)
  BY <1>1, SameFiles
<1>4. ASSUME child'[2] = child[2], child'[1] \in {"receiving", "failed"},
             child'[1] = "receiving" => \A f \in OwnFiles(1) : Has(1, f)
      PROVE  ForksOK' /\ FirstOK' /\ SecondOK' /\ SecondWhole'
  <2>1. ForksOK'
    BY <1>1, <1>4 DEF ForksOK
  <2>2. FirstOK'
    BY <1>1, <1>3, <1>4, OwnIsFile, Two DEF FirstOK
  <2>3. SecondOK'
    BY <1>1, <1>3, <1>4, OwnIsFile, Two DEF SecondOK
  <2>4. SecondWhole'
    BY <1>1, <1>3, <1>4, OwnIsFile, Two DEF SecondWhole
  <2>5. QED
    BY <2>1, <2>2, <2>3, <2>4
<1>5. CASE Become(1, "failed") /\ UNCHANGED pipe
  <2>1. child'[1] = "failed" /\ child'[2] = child[2]
    BY <1>5, Becomes, Two
  <2>2. MergeTypeOK'
    BY <1>1, <1>5, ChildType, Two DEF MergeTypeOK
  <2>3. PipesOK'
    BY <1>1, <1>5, <2>1 DEF PipesOK
  <2>4. QED
    BY <1>2, <1>4, <2>1, <2>2, <2>3
<1>6. ASSUME NEW m \in Message, Write(1, m),
             \/ /\ Pairs(m) = Whole(1)
                /\ Become(1, "receiving")
                /\ \A f \in OwnFiles(1) : Has(1, f)
             \/ NoFiles(m) /\ Become(1, "failed")
      PROVE  MergeInv'
  <2>1. /\ child'[2] = child[2]
        /\ \/ /\ child'[1] = "receiving" /\ Pairs(m) = Whole(1)
              /\ \A f \in OwnFiles(1) : Has(1, f)
           \/ child'[1] = "failed" /\ NoFiles(m)
    BY <1>6, Becomes, Two
  <2>2. /\ pipe' \in [Children -> Seq(Message)]
        /\ pipe'[1] # <<>> /\ Head(pipe'[1]) = m
        /\ \A k \in DOMAIN pipe'[1] :
             \/ pipe'[1][k] = m
             \/ k \in DOMAIN pipe[1] /\ pipe'[1][k] = pipe[1][k]
        /\ pipe'[2] = pipe[2]
    BY <1>1, <1>6, Writes, Two
  <2>3. MergeTypeOK'
    BY <1>1, <1>6, <2>2, ChildType, Two DEF MergeTypeOK
  <2>4. PipesOK'
    BY <1>1, <2>1, <2>2 DEF PipesOK
  <2>5. QED
    BY <1>2, <1>4, <2>1, <2>3, <2>4
<1>7. QED
  BY <1>5, <1>6, SendOutcome, Two DEF After

LEMMA SendSecond ==
    ASSUME MergeInv, Send(2)
    PROVE  MergeInv'
<1> USE DEF MergeInv
<1>1. /\ UNCHANGED <<main, dir, todo>>
      /\ child[2] = "sending"
      /\ pipe[2] = <<>>
      /\ child[1] \notin {"none", "storing", "succeeded"}
  BY SendOutcome, Two DEF PipesOK, FirstOK, ForksOK
<1>2. FilesOK'
  BY <1>1 DEF FilesOK
<1>3. \A c \in Children :
        /\ Clean(c)' = Clean(c) /\ OnlyFiles(c)' = OnlyFiles(c)
        /\ \A f \in DOMAIN Contents :
             /\ Has(c, f)' = Has(c, f)
             /\ WillHave(c, f)' = WillHave(c, f)
             /\ Present(c, f)' = Present(c, f)
  BY <1>1, SameFiles
<1>4. ASSUME child'[1] = child[1], child'[2] \in {"succeeded", "failed"},
             child'[2] = "succeeded" => \A f \in OwnFiles(2) : Has(2, f)
      PROVE  ForksOK' /\ FirstOK' /\ SecondOK' /\ SecondWhole'
  <2>1. ForksOK'
    BY <1>1, <1>4 DEF ForksOK
  <2>2. FirstOK'
    BY <1>1, <1>3, <1>4, OwnIsFile, Two DEF FirstOK
  <2>3. SecondOK'
    BY <1>1, <1>3, <1>4, OwnIsFile, Two DEF SecondOK
  <2>4. SecondWhole'
    BY <1>1, <1>3, <1>4, OwnIsFile, Two DEF SecondWhole
  <2>5. QED
    BY <2>1, <2>2, <2>3, <2>4
<1>5. CASE Become(2, "failed") /\ UNCHANGED pipe
  <2>1. child'[2] = "failed" /\ child'[1] = child[1]
    BY <1>5, Becomes, Two
  <2>2. MergeTypeOK'
    BY <1>1, <1>5, ChildType, Two DEF MergeTypeOK
  <2>3. PipesOK'
    BY <1>1, <1>5, <2>1 DEF PipesOK
  <2>4. QED
    BY <1>2, <1>4, <2>1, <2>2, <2>3
<1>6. ASSUME NEW m \in Message, Write(2, m),
             \/ /\ Pairs(m) = Whole(2)
                /\ Become(2, "succeeded")
                /\ \A f \in OwnFiles(2) : Has(2, f)
             \/ NoFiles(m) /\ Become(2, "failed")
      PROVE  MergeInv'
  <2>1. /\ child'[1] = child[1]
        /\ \/ /\ child'[2] = "succeeded" /\ Pairs(m) = Whole(2)
              /\ \A f \in OwnFiles(2) : Has(2, f)
           \/ child'[2] = "failed" /\ NoFiles(m)
    BY <1>6, Becomes, Two
  <2>2. /\ pipe' \in [Children -> Seq(Message)]
        /\ pipe'[2] # <<>>
        /\ \A k \in DOMAIN pipe'[2] :
             \/ pipe'[2][k] = m
             \/ k \in DOMAIN pipe[2] /\ pipe'[2][k] = pipe[2][k]
        /\ pipe'[1] = pipe[1]
    BY <1>1, <1>6, Writes, Two
  <2>3. MergeTypeOK'
    BY <1>1, <1>6, <2>2, ChildType, Two DEF MergeTypeOK
  <2>4. PipesOK'
    BY <1>1, <2>1, <2>2 DEF PipesOK
  <2>5. QED
    BY <1>2, <1>4, <2>1, <2>3, <2>4
<1>7. QED
  BY <1>5, <1>6, SendOutcome, Two DEF After

LEMMA ReadOutcome ==
    ASSUME MergeInv, NEW c \in Children, NEW o \in Children, o = Other(c),
           Read(c)
    PROVE  /\ UNCHANGED <<main, dir>>
           /\ child[c] = "receiving" /\ Become(c, "storing")
           /\ MergeTypeOK'
           /\ \A d \in Children \ {c} :
                todo'[d] = todo[d] /\ pipe'[c] = pipe[c]
           /\ \/ /\ pipe[o] # <<>> /\ pipe'[o] = <<>>
                 /\ todo'[c] = Head(pipe[o])
                 /\ Head(pipe[o]) = pipe[o][1] /\ 1 \in DOMAIN pipe[o]
              \/ /\ pipe[o] = <<>> /\ ~SomebodyWrites(o)
                 /\ UNCHANGED <<todo, pipe>>
<1> USE DEF MergeInv
<1>1. /\ UNCHANGED <<main, dir>>
      /\ child[c] = "receiving" /\ Become(c, "storing")
  BY DEF Read, After
<1> PICK M : M = Seq(Message)
  OBVIOUS
<1>2. pipe \in [Children -> M] /\ <<>> \in M
  BY NoPairs DEF MergeTypeOK
<1>3. o # c
  BY Two
<1>4. CASE pipe[o] # <<>>
  <2>1. /\ todo' = [todo EXCEPT ![c] = Head(pipe[o])]
        /\ pipe' = [pipe EXCEPT ![o] = <<>>]
    BY <1>4 DEF Read
  <2>2. pipe[o] \in Seq(Message)
    BY <1>2
  <2>3. /\ Head(pipe[o]) \in Message
        /\ Head(pipe[o]) = pipe[o][1] /\ 1 \in DOMAIN pipe[o]
    BY <1>4, <2>2
  <2>4. /\ pipe' \in [Children -> M] /\ pipe'[o] = <<>>
        /\ pipe'[c] = pipe[c]
    BY <1>2, <1>3, <2>1
  <2>5. /\ todo' \in [Children -> Message]
        /\ todo'[c] = Head(pipe[o])
        /\ \A d \in Children \ {c} : todo'[d] = todo[d]
    BY <2>1, <2>3 DEF MergeTypeOK
  <2>6. MergeTypeOK'
    BY <1>1, <2>4, <2>5, ChildType DEF MergeTypeOK
  <2>7. QED
    BY <1>1, <1>4, <2>3, <2>4, <2>5, <2>6
<1>5. CASE pipe[o] = <<>>
  <2>1. ~SomebodyWrites(o) /\ UNCHANGED <<todo, pipe>>
    BY <1>5 DEF Read
  <2>2. MergeTypeOK'
    BY <1>1, <2>1, ChildType DEF MergeTypeOK
  <2>3. QED
    BY <1>1, <1>5, <2>1, <2>2
<1>6. QED
  BY <1>4, <1>5

\* A message read breaks nothing that holds of the pairs to be stored.
LEMMA ReadFiles ==
    ASSUME FilesOK, NEW c \in Children, NEW m,
           NoFiles(m) \/ Pairs(m) = Whole(1) \/ Pairs(m) = Whole(2),
           UNCHANGED dir, todo'[c] = m,
           \A d \in Children \ {c} : todo'[d] = todo[d]
    PROVE  FilesOK'
<1>1. ASSUME NEW p \in Pairs(m), p[1] \in DOMAIN Contents
      PROVE  p[2] = Contents[p[1]]
  BY <1>1 DEF NoFiles, Whole
<1>2. QED
  BY <1>1 DEF FilesOK

LEMMA WholePairs ==
    ASSUME NEW c \in Children, NEW m, Pairs(m) = Whole(c)
    PROVE  /\ \A p \in Pairs(m) : p[1] \in OwnFiles(c)
           /\ \A f \in OwnFiles(c) : <<f, Contents[f]>> \in Pairs(m)
BY DEF Whole

LEMMA ReadFirst ==
    ASSUME MergeInv, Read(1)
    PROVE  MergeInv'
<1> USE DEF MergeInv
<1>1. /\ UNCHANGED <<main, dir>> /\ MergeTypeOK'
      /\ child[1] = "receiving"
      /\ child'[1] = "storing" /\ child'[2] = child[2]
      /\ todo'[2] = todo[2] /\ pipe'[1] = pipe[1]
  BY ReadOutcome, Becomes, Two
<1>2. /\ Clean(1)' = Clean(1)
      /\ Clean(2)' = Clean(2) /\ OnlyFiles(2)' = OnlyFiles(2)
      /\ \A f \in DOMAIN Contents :
           /\ Has(1, f)' = Has(1, f) /\ Has(2, f)' = Has(2, f)
           /\ WillHave(2, f)' = WillHave(2, f)
  BY <1>1 DEF Clean, OnlyFiles, Has, WillHave
<1>3. SecondOK'
  BY <1>1, <1>2, OwnIsFile DEF SecondOK
<1>4. ASSUME pipe[2] # <<>>, pipe'[2] = <<>>, 1 \in DOMAIN pipe[2],
             todo'[1] = pipe[2][1]
      PROVE  MergeInv'
  <2>1. \/ child[2] = "failed" /\ NoFiles(todo'[1])
        \/ child[2] = "succeeded" /\ Pairs(todo'[1]) = Whole(2)
    BY <1>4 DEF PipesOK
  <2>2. FilesOK'
    BY <1>1, <1>4, <2>1, ReadFiles, Two
  <2>3. ForksOK'
    BY <1>1, <2>1 DEF ForksOK
  <2>4. PipesOK'
    BY <1>1, <1>4 DEF PipesOK
  <2>5. Clean(1) /\ \A f \in OwnFiles(1) : Has(1, f)
    BY <1>1 DEF FirstOK
  <2>6. ASSUME child[2] = "succeeded"
        PROVE  /\ OnlyFiles(1)'
               /\ \A f \in OwnFiles(2) : WillHave(1, f)'
               /\ \A f \in DOMAIN Contents : Has(2, f)
    <3>1. Pairs(todo'[1]) = Whole(2)
      BY <2>1, <2>6
    <3>2. OnlyFiles(1)'
      BY <1>2, <2>5, <3>1, WholePairs, OwnIsFile, Two DEF OnlyFiles
    <3>3. \A f \in OwnFiles(2) : WillHave(1, f)'
      BY <3>1, WholePairs, Two DEF WillHave
    <3>4. \A f \in OwnFiles(1) : WillHave(2, f) /\ todo[2] = <<>>
      BY <1>1, <2>6 DEF SecondOK
    <3>5. \A f \in OwnFiles(1) : Has(2, f)
      BY <3>4, NoPairs DEF WillHave
    <3>6. \A f \in OwnFiles(2) : Has(2, f)
      BY <2>6 DEF SecondOK
    <3>7. QED
      BY <3>2, <3>3, <3>5, <3>6, FileNames
  <2>7. FirstOK'
    BY <1>1, <1>2, <2>1, <2>5, <2>6, OwnIsFile DEF FirstOK
  <2>8. SecondWhole'
    <3>1. ASSUME NEW f \in OwnFiles(2), Present(1, f)', child[2] # "succeeded"
          PROVE  Present(1, f)
      BY <1>1, <2>1, <3>1, OwnIsFile DEF Present, NoFiles
    <3>2. QED
      BY <1>1, <1>2, <2>6, <3>1 DEF SecondWhole
  <2>9. QED
    BY <1>1, <1>3, <2>2, <2>3, <2>4, <2>7, <2>8
<1>5. ASSUME pipe[2] = <<>>, ~SomebodyWrites(2), UNCHANGED <<todo, pipe>>
      PROVE  MergeInv'
  <2>1. /\ main \notin {"start", "forked", "waiting"}
        /\ child[2] \in {"none", "failed"}
    <3>1. child[2] \in {"none", "sending", "receiving", "storing",
                        "succeeded", "failed"}
      BY Two DEF MergeTypeOK
    <3>2. child[2] # "succeeded"
      BY <1>1, <1>5 DEF PipesOK
    <3>3. QED
      BY <1>5, <3>1, <3>2 DEF SomebodyWrites, ParentRuns, Running
  <2>2. FilesOK'
    BY <1>1, <1>5 DEF FilesOK
  <2>3. ForksOK'
    BY <1>1, <2>1 DEF ForksOK
  <2>4. PipesOK'
    BY <1>1, <1>5, <2>1 DEF PipesOK
  <2>5. FirstOK'
    BY <1>1, <1>2, <2>1, OwnIsFile DEF FirstOK
  <2>6. SecondWhole'
    BY <1>1, <1>2, <1>5 DEF SecondWhole, Present
  <2>7. QED
    BY <1>1, <1>3, <2>2, <2>3, <2>4, <2>5, <2>6
<1>6. QED
  BY <1>4, <1>5, ReadOutcome, Two

LEMMA ReadSecond ==
    ASSUME MergeInv, Read(2)
    PROVE  MergeInv'
<1> USE DEF MergeInv
<1>1. /\ UNCHANGED <<main, dir>> /\ MergeTypeOK'
      /\ child[2] = "receiving"
      /\ child'[2] = "storing" /\ child'[1] = child[1]
      /\ todo'[1] = todo[1] /\ pipe'[2] = pipe[2]
  BY ReadOutcome, Becomes, Two
<1>2. /\ Clean(2)' = Clean(2)
      /\ Clean(1)' = Clean(1) /\ OnlyFiles(1)' = OnlyFiles(1)
      /\ \A f \in DOMAIN Contents :
           /\ Has(1, f)' = Has(1, f) /\ Has(2, f)' = Has(2, f)
           /\ WillHave(1, f)' = WillHave(1, f)
           /\ Present(1, f)' = Present(1, f)
  BY <1>1 DEF Clean, OnlyFiles, Has, WillHave, Present
<1>3. FirstOK'
  BY <1>1, <1>2, OwnIsFile DEF FirstOK
<1>4. SecondWhole'
  BY <1>1, <1>2, OwnIsFile DEF SecondWhole
<1>5. ForksOK'
  BY <1>1 DEF ForksOK
<1>6. ASSUME pipe[1] # <<>>, pipe'[1] = <<>>, 1 \in DOMAIN pipe[1],
             Head(pipe[1]) = pipe[1][1], todo'[2] = pipe[1][1]
      PROVE  MergeInv'
  <2>1. NoFiles(todo'[2]) \/ Pairs(todo'[2]) = Whole(1)
    BY <1>6 DEF PipesOK
  <2>2. FilesOK'
    BY <1>1, <1>6, <2>1, ReadFiles, Two
  <2>3. PipesOK'
    BY <1>1, <1>6 DEF PipesOK
  <2>4. ASSUME child[1] # "failed"
        PROVE  OnlyFiles(2)' /\ \A f \in OwnFiles(1) : WillHave(2, f)'
    <3>1. child[1] \in {"receiving", "storing", "succeeded"}
      <4>1. child[1] \in {"none", "sending", "receiving", "storing",
                          "succeeded", "failed"}
        BY Two DEF MergeTypeOK
      <4>2. QED
        BY <1>6, <2>4, <4>1 DEF PipesOK
    <3>2. Pairs(todo'[2]) = Whole(1)
      BY <1>1, <1>6, <3>1 DEF PipesOK
    <3>3. OnlyFiles(2)'
      BY <1>1, <1>2, <3>2, WholePairs, OwnIsFile, Two DEF OnlyFiles, SecondOK
    <3>4. \A f \in OwnFiles(1) : WillHave(2, f)'
      BY <3>2, WholePairs, Two DEF WillHave
    <3>5. QED
      BY <3>3, <3>4
  <2>5. SecondOK'
    BY <1>1, <2>4 DEF SecondOK
  <2>6. QED
    BY <1>1, <1>3, <1>4, <1>5, <2>2, <2>3, <2>5
<1>7. ASSUME pipe[1] = <<>>, ~SomebodyWrites(1), UNCHANGED <<todo, pipe>>
      PROVE  MergeInv'
  <2>1. child[1] = "failed"
    <3>1. child[1] \in {"none", "sending", "receiving", "storing",
                        "succeeded", "failed"}
      BY Two DEF MergeTypeOK
    <3>2. child[1] # "succeeded"
      BY <1>1, <1>7 DEF PipesOK
    <3>3. child[1] # "none"
      BY <1>1 DEF ForksOK
    <3>4. QED
      BY <1>7, <3>1, <3>2, <3>3 DEF SomebodyWrites, Running
  <2>2. FilesOK'
    BY <1>1, <1>7 DEF FilesOK
  <2>3. PipesOK'
    BY <1>1, <1>7, <2>1 DEF PipesOK
  <2>4. SecondOK'
    BY <1>1, <2>1 DEF SecondOK
  <2>5. QED
    BY <1>1, <1>3, <1>4, <1>5, <2>2, <2>3, <2>4
<1>8. QED
  BY <1>6, <1>7, ReadOutcome, Two

\* A pair is stored, or the file for it cannot be created.
LEMMA StoreOutcome ==
    ASSUME MergeInv, NEW c \in Children, Store(c)
    PROVE  /\ UNCHANGED main /\ child[c] = "storing"
           /\ MergeTypeOK' /\ FilesOK'
           /\ \A d \in Children \ {c} :
                /\ dir'[d] = dir[d] /\ todo'[d] = todo[d]
                /\ pipe'[d] = pipe[d] /\ child'[d] = child[d]
           /\ \/ /\ UNCHANGED <<child, pipe>>
                 /\ OnlyFiles(c) => OnlyFiles(c)'
                 /\ \A f \in DOMAIN Contents :
                      /\ Has(c, f) => Has(c, f)'
                      /\ WillHave(c, f) => WillHave(c, f)'
                      /\ Present(c, f)' => Present(c, f)
              \/ /\ UNCHANGED <<dir, todo>> /\ child'[c] = "failed"
                 /\ \E m \in Message : NoFiles(m) /\ Write(c, m)
<1> USE DEF MergeInv
<1>1. /\ UNCHANGED main /\ child[c] = "storing" /\ todo[c] # <<>>
  BY DEF Store
<1>2. CASE /\ dir' = [dir EXCEPT ![c][Head(todo[c])[1]] = Head(todo[c])[2]]
           /\ todo' = [todo EXCEPT ![c] = Tail(@)]
           /\ UNCHANGED <<child, pipe>>
  <2>1. /\ dir' \in [Children -> [Name -> Word]]
        /\ todo' \in [Children -> Message]
        /\ FilesOK'
        /\ OnlyFiles(c) => OnlyFiles(c)'
        /\ \A f \in DOMAIN Contents :
             /\ Has(c, f) => Has(c, f)'
             /\ WillHave(c, f) => WillHave(c, f)'
             /\ Present(c, f)' => Present(c, f)
    BY <1>1, <1>2, PairStored
  <2>2. MergeTypeOK'
    BY <1>1, <1>2, <2>1 DEF MergeTypeOK
  <2>3. \A d \in Children \ {c} :
          /\ dir'[d] = dir[d] /\ todo'[d] = todo[d]
          /\ pipe'[d] = pipe[d] /\ child'[d] = child[d]
    BY <1>2 DEF MergeTypeOK
  <2>4. QED
    BY <1>1, <1>2, <2>1, <2>2, <2>3
<1>3. CASE /\ Fail(c, CreateError(c, Head(todo[c])[1]))
           /\ UNCHANGED <<dir, todo>>
  <2>1. Head(todo[c])[1] \in Name
    BY <1>1, FirstPair DEF MergeTypeOK
  <2>2. PICK m : m = CreateError(c, Head(todo[c])[1])
    OBVIOUS
  <2>3. m \in Message /\ NoFiles(m) /\ Write(c, m) /\ Become(c, "failed")
    BY <1>3, <2>1, <2>2, ErrorWords DEF Fail
  <2>4. MergeTypeOK'
    BY <1>1, <1>3, <2>3, Writes, ChildType DEF MergeTypeOK
  <2>5. /\ child'[c] = "failed"
        /\ \A d \in Children \ {c} : child'[d] = child[d]
    BY <2>3, Becomes
  <2>6. \A d \in Children \ {c} : pipe'[d] = pipe[d]
    BY <2>3, Writes
  <2>7. FilesOK'
    BY <1>3 DEF FilesOK
  <2>8. QED
    BY <1>1, <1>3, <2>3, <2>4, <2>5, <2>6, <2>7
<1>4. QED
  BY <1>2, <1>3 DEF Store

LEMMA StoreFirst ==
    ASSUME MergeInv, Store(1)
    PROVE  MergeInv'
<1> USE DEF MergeInv
<1>1. /\ UNCHANGED main /\ child[1] = "storing" /\ MergeTypeOK' /\ FilesOK'
      /\ dir'[2] = dir[2] /\ todo'[2] = todo[2]
      /\ pipe'[2] = pipe[2] /\ child'[2] = child[2]
  BY StoreOutcome, Two
<1>2. /\ Clean(2)' = Clean(2) /\ OnlyFiles(2)' = OnlyFiles(2)
      /\ \A f \in DOMAIN Contents :
           Has(2, f)' = Has(2, f) /\ WillHave(2, f)' = WillHave(2, f)
  BY <1>1 DEF Clean, OnlyFiles, Has, WillHave
<1>3. ASSUME UNCHANGED <<child, pipe>>,
             OnlyFiles(1) => OnlyFiles(1)',
             \A f \in DOMAIN Contents :
               /\ Has(1, f) => Has(1, f)'
               /\ WillHave(1, f) => WillHave(1, f)'
               /\ Present(1, f)' => Present(1, f)
      PROVE  MergeInv'
  <2>1. ForksOK' /\ PipesOK'
    BY <1>1, <1>3 DEF ForksOK, PipesOK
  <2>2. FirstOK'
    BY <1>1, <1>3, OwnIsFile DEF FirstOK
  <2>3. SecondOK'
    BY <1>1, <1>2, <1>3, OwnIsFile DEF SecondOK
  <2>4. SecondWhole'
    BY <1>1, <1>2, <1>3, OwnIsFile DEF SecondWhole
  <2>5. QED
    BY <1>1, <2>1, <2>2, <2>3, <2>4
<1>4. ASSUME UNCHANGED <<dir, todo>>, child'[1] = "failed",
             NEW m \in Message, NoFiles(m), Write(1, m)
      PROVE  MergeInv'
  <2>1. /\ \A k \in DOMAIN pipe'[1] :
             \/ pipe'[1][k] = m
             \/ k \in DOMAIN pipe[1] /\ pipe'[1][k] = pipe[1][k]
    BY <1>4, Writes, Two
  <2>2. ForksOK'
    BY <1>1, <1>4 DEF ForksOK
  <2>3. PipesOK'
    BY <1>1, <1>4, <2>1 DEF PipesOK
  <2>4. FirstOK'
    BY <1>1, <1>4 DEF FirstOK
  <2>5. SecondOK'
    BY <1>1, <1>2, <1>4, OwnIsFile DEF SecondOK
  <2>6. SecondWhole'
    BY <1>1, <1>2, <1>4, OwnIsFile DEF SecondWhole, Present
  <2>7. QED
    BY <1>1, <2>2, <2>3, <2>4, <2>5, <2>6
<1>5. QED
  BY <1>3, <1>4, StoreOutcome, Two

LEMMA StoreSecond ==
    ASSUME MergeInv, Store(2)
    PROVE  MergeInv'
<1> USE DEF MergeInv
<1>1. /\ UNCHANGED main /\ child[2] = "storing" /\ MergeTypeOK' /\ FilesOK'
      /\ dir'[1] = dir[1] /\ todo'[1] = todo[1]
      /\ pipe'[1] = pipe[1] /\ child'[1] = child[1]
  BY StoreOutcome, Two
<1>2. /\ Clean(1)' = Clean(1) /\ OnlyFiles(1)' = OnlyFiles(1)
      /\ \A f \in DOMAIN Contents :
           /\ Has(1, f)' = Has(1, f) /\ WillHave(1, f)' = WillHave(1, f)
           /\ Present(1, f)' = Present(1, f)
  BY <1>1 DEF Clean, OnlyFiles, Has, WillHave, Present
<1>3. child'[2] # "succeeded" => SecondWhole'
  BY <1>1, <1>2, OwnIsFile DEF SecondWhole
<1>4. ASSUME UNCHANGED <<child, pipe>>,
             OnlyFiles(2) => OnlyFiles(2)',
             \A f \in DOMAIN Contents :
               /\ Has(2, f) => Has(2, f)'
               /\ WillHave(2, f) => WillHave(2, f)'
      PROVE  MergeInv'
  <2>1. ForksOK' /\ PipesOK'
    BY <1>1, <1>4 DEF ForksOK, PipesOK
  <2>2. FirstOK'
    BY <1>1, <1>2, <1>4, OwnIsFile DEF FirstOK
  <2>3. SecondOK'
    BY <1>1, <1>4, OwnIsFile DEF SecondOK
  <2>4. QED
    BY <1>1, <1>3, <1>4, <2>1, <2>2, <2>3
<1>5. ASSUME UNCHANGED <<dir, todo>>, child'[2] = "failed",
             NEW m \in Message, NoFiles(m), Write(2, m)
      PROVE  MergeInv'
  <2>1. \A k \in DOMAIN pipe'[2] :
             \/ pipe'[2][k] = m
             \/ k \in DOMAIN pipe[2] /\ pipe'[2][k] = pipe[2][k]
    BY <1>5, Writes, Two
  <2>2. ForksOK'
    BY <1>1, <1>5 DEF ForksOK
  <2>3. PipesOK'
    BY <1>1, <1>5, <2>1 DEF PipesOK
  <2>4. FirstOK'
    BY <1>1, <1>2, <1>5, OwnIsFile DEF FirstOK
  <2>5. SecondOK'
    BY <1>1, <1>5 DEF SecondOK
  <2>6. QED
    BY <1>1, <1>3, <1>5, <2>2, <2>3, <2>4, <2>5
<1>6. QED
  BY <1>4, <1>5, StoreOutcome, Two

LEMMA StoredInv ==
    ASSUME MergeInv, NEW c \in Children, Stored(c)
    PROVE  MergeInv'
<1> USE DEF MergeInv
<1>1. /\ UNCHANGED <<main, pipe, dir, todo>>
      /\ child[c] = "storing" /\ todo[c] = <<>>
      /\ Become(c, IF c = 1 THEN "succeeded" ELSE "sending")
  BY DEF Stored, After
<1>2. /\ child'[c] = IF c = 1 THEN "succeeded" ELSE "sending"
      /\ \A d \in Children \ {c} : child'[d] = child[d]
  BY <1>1, Becomes
<1>3. MergeTypeOK'
  BY <1>1, ChildType DEF MergeTypeOK
<1>4. FilesOK'
  BY <1>1 DEF FilesOK
<1>5. \A d \in Children :
        /\ Clean(d)' = Clean(d) /\ OnlyFiles(d)' = OnlyFiles(d)
        /\ \A f \in DOMAIN Contents :
             /\ Has(d, f)' = Has(d, f)
             /\ WillHave(d, f)' = WillHave(d, f)
             /\ Present(d, f)' = Present(d, f)
  BY <1>1, SameFiles
<1>6. CASE c = 1
  <2>1. /\ child[1] = "storing" /\ todo[1] = <<>>
        /\ child'[1] = "succeeded" /\ child'[2] = child[2]
    BY <1>1, <1>2, <1>6, Two
  <2>2. ForksOK' /\ PipesOK'
    BY <1>1, <2>1 DEF ForksOK, PipesOK
  <2>3. FirstOK'
    BY <1>1, <1>5, <2>1, OwnIsFile, Two DEF FirstOK
  <2>4. SecondOK'
    BY <1>1, <1>5, <2>1, OwnIsFile, Two DEF SecondOK
  <2>5. SecondWhole'
    BY <1>5, <2>1, OwnIsFile, Two DEF SecondWhole
  <2>6. QED
    BY <1>3, <1>4, <2>2, <2>3, <2>4, <2>5
<1>7. CASE c = 2
  <2>1. /\ child[2] = "storing" /\ todo[2] = <<>>
        /\ child'[2] = "sending" /\ child'[1] = child[1]
    BY <1>1, <1>2, <1>7, Two
  <2>2. ForksOK' /\ PipesOK'
    BY <1>1, <2>1 DEF ForksOK, PipesOK
  <2>3. FirstOK'
    BY <1>1, <1>5, <2>1, OwnIsFile, Two DEF FirstOK
  <2>4. SecondOK'
    BY <1>1, <1>5, <2>1, OwnIsFile, Two DEF SecondOK
  <2>5. SecondWhole'
    BY <1>5, <2>1, OwnIsFile, Two DEF SecondWhole
  <2>6. QED
    BY <1>3, <1>4, <2>2, <2>3, <2>4, <2>5
<1>8. QED
  BY <1>6, <1>7, Two

LEMMA MergeInvStep == MergeInv /\ [MergeNext]_mergeVars => MergeInv'
<1> SUFFICES ASSUME MergeInv, [MergeNext]_mergeVars PROVE MergeInv'
  OBVIOUS
<1>1. CASE ForkFirst \/ ForkSecond \/ WaitForBoth
  BY <1>1, ParentSteps
<1>2. ASSUME NEW c \in Children, ChildStep(c) PROVE MergeInv'
  <2>1. CASE c = 1
    BY <1>2, <2>1, SendFirst, ReadFirst, StoreFirst, StoredInv DEF ChildStep
  <2>2. CASE c = 2
    BY <1>2, <2>2, SendSecond, ReadSecond, StoreSecond, StoredInv
    DEF ChildStep
  <2>3. QED
    BY <2>1, <2>2, Two
<1>3. CASE UNCHANGED mergeVars
  <2>1. UNCHANGED <<main, child, pipe, dir, todo>>
    BY <1>3 DEF mergeVars
  <2>2. QED
    BY <2>1 DEF MergeInv, MergeTypeOK, ForksOK, PipesOK, FilesOK, FirstOK,
                SecondOK, SecondWhole, Clean, OnlyFiles, Has, WillHave, Present
<1>4. QED
  BY <1>1, <1>2, <1>3 DEF MergeNext

LEMMA MergeInvariant == MergeSpec => []MergeInv
BY InitMergeInv, MergeInvStep, PTL DEF MergeSpec

-----------------------------------------------------------------------------
(* What the merge promises *)

LEMMA AllOf ==
    ASSUME NEW c \in Children, NEW o \in Children,
           \A f \in OwnFiles(o) : Has(c, f)
    PROVE  HasAllOf(c, o)
BY DEF HasAllOf, Has, OwnFiles

(***************************************************************************)
(* A child that exits with success, and whose peer did not give up, has    *)
(* all four files with their contents and no other: the words of an error  *)
(* are never stored beside a merge that counts as complete (pipes.cpp,     *)
(* lines 75-91, 120-157).                                                  *)
(***************************************************************************)
THEOREM MergeComplete == MergeSpec => []SuccessMeansMerged
<1>1. MergeInv => SuccessMeansMerged
  <2> SUFFICES ASSUME MergeInv, NEW c \in Children, child[c] = "succeeded",
                      child[Other(c)] \notin {"none", "failed"}
               PROVE  /\ \A o \in Children : HasAllOf(c, o)
                      /\ \A w \in Name \ DOMAIN Contents : dir[c][w] = Absent
    BY DEF SuccessMeansMerged
  <2>1. CASE c = 1
    <3>1. /\ OnlyFiles(1) /\ todo[1] = <<>>
          /\ \A f \in OwnFiles(1) : Has(1, f)
          /\ \A f \in OwnFiles(2) : WillHave(1, f)
      BY <2>1, Two DEF MergeInv, FirstOK
    <3>2. \A f \in OwnFiles(2) : Has(1, f)
      BY <3>1, NoPairs DEF WillHave
    <3>3. HasAllOf(1, 1) /\ HasAllOf(1, 2)
      BY <3>1, <3>2, AllOf, Two
    <3>4. QED
      BY <2>1, <3>1, <3>3, Two DEF OnlyFiles, Clean
  <2>2. CASE c = 2
    <3>1. /\ OnlyFiles(2) /\ todo[2] = <<>>
          /\ \A f \in OwnFiles(2) : Has(2, f)
          /\ \A f \in OwnFiles(1) : WillHave(2, f)
      BY <2>2, Two DEF MergeInv, SecondOK
    <3>2. \A f \in OwnFiles(1) : Has(2, f)
      BY <3>1, NoPairs DEF WillHave
    <3>3. HasAllOf(2, 1) /\ HasAllOf(2, 2)
      BY <3>1, <3>2, AllOf, Two
    <3>4. QED
      BY <2>2, <3>1, <3>3, Two DEF OnlyFiles, Clean
  <2>3. QED
    BY <2>1, <2>2, Two
<1>2. QED
  BY <1>1, MergeInvariant, PTL

(***************************************************************************)
(* Before a file of the second directory shows up in the first one, the    *)
(* second has all four, whatever fails afterwards (pipes.cpp, lines 62-89, *)
(* 113-156).                                                               *)
(***************************************************************************)
THEOREM SecondIsFirst == MergeSpec => []SecondFirst
<1>1. MergeInv => SecondFirst
  <2> SUFFICES ASSUME MergeInv, NEW k \in 1 .. 2, dir[1][Own[2][k]] # Absent
               PROVE  \A o \in Children : HasAllOf(2, o)
    BY DEF SecondFirst
  <2>1. Own[2][k] \in OwnFiles(2) /\ Present(1, Own[2][k])
    BY DEF OwnFiles, Present
  <2>2. \A f \in DOMAIN Contents : Has(2, f)
    BY <2>1 DEF MergeInv, SecondWhole
  <2>3. QED
    BY <2>2, AllOf, OwnIsFile, Two
<1>2. QED
  BY <1>1, MergeInvariant, PTL
=============================================================================
