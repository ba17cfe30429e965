----------------------------- MODULE OnlineExam -----------------------------
(***************************************************************************)
(* Inter Process Communication/Online_Exam.cpp: the parent process asks    *)
(* every question of every student, a child process each, over one System  *)
(* V message queue, and collects and grades the answers over another.      *)
(*                                                                         *)
(* A queue is the set of its messages.  Messages of the same type are told *)
(* apart by the order they were sent in, which is the order msgrcv takes   *)
(* them in: the copies of a question by the loop variable j, the answers   *)
(* of a student by the number of the question.  msgsnd blocks while the    *)
(* queue holds Capacity messages, msgrcv while it holds none of the type.  *)
(***************************************************************************)
EXTENDS Integers, Sequences, FiniteSets

CONSTANTS
    num_students,
    num_questions,
    Answer,      \* what generate_answer may return
    Capacity     \* messages that fit in a queue: msg_qbytes / 100 in Linux

ASSUME ExamAssumption ==
    /\ num_students \in Nat \ {0}
    /\ num_questions \in Nat \ {0}
    /\ Answer # {}
    /\ Capacity \in Nat \ {0}

Student == 1 .. num_students
Question == 1 .. num_questions

VARIABLES
    parent,          \* the loop the parent process is in
    forked,          \* the child processes started
    i,               \* the question being asked or graded
    j,               \* copies sent, or answers received, of question i
    correct,         \* the values correct_answer has had
    send_qid,        \* messages <<question, copy>>
    recv_qid,        \* messages <<student, question, answer>>
    received,        \* per student, the questions received
    answers,         \* per student, the answers sent
    grades,
    final_grades

parentVars == <<parent, forked, i, j, correct, grades, final_grades>>
childVars == <<received, answers>>
queues == <<send_qid, recv_qid>>
vars == <<parentVars, childVars, queues>>

Init ==
    /\ parent = "forking"
    /\ forked = 0
    /\ i = 1
    /\ j = 0
    /\ correct = <<>>
    /\ send_qid = {}
    /\ recv_qid = {}
    /\ received = [s \in Student |-> 0]
    /\ answers = [s \in Student |-> <<>>]
    /\ grades = [s \in Student |-> 0]
    /\ final_grades = [s \in Student |-> "F"]

HasRoom(q) == Cardinality(q) < Capacity

-----------------------------------------------------------------------------
(* The parent process *)

Fork ==
    /\ parent = "forking"
    /\ forked < num_students
    /\ forked' = forked + 1
    /\ parent' = IF forked + 1 = num_students THEN "asking" ELSE "forking"
    /\ UNCHANGED <<i, j, correct, grades, final_grades, childVars, queues>>

\* fork fails: the parent exits, the children started stay.
ForkFails ==
    /\ parent = "forking"
    /\ parent' = "failed"
    /\ UNCHANGED <<forked, i, j, correct, grades, final_grades, childVars,
                   queues>>

\* Fault: one copy too many is sent.
AskTwice ==
    /\ parent = "asking"
    /\ HasRoom(send_qid)
    /\ send_qid' = send_qid \cup {<<i, j>>}
    /\ j' = j + 1
    /\ parent' = IF j = num_students THEN "choosing" ELSE "asking"
    /\ UNCHANGED <<forked, i, correct, grades, final_grades, childVars,
                   recv_qid>>

\* msgsnd of the next copy of question i
Ask ==
    /\ parent = "asking"
    /\ HasRoom(send_qid)
    /\ send_qid' = send_qid \cup {<<i, j>>}
    /\ j' = j + 1
    /\ parent' = IF j + 1 = num_students THEN "choosing" ELSE "asking"
    /\ UNCHANGED <<forked, i, correct, grades, final_grades, childVars,
                   recv_qid>>

ChooseAnswer ==
    /\ parent = "choosing"
    /\ \E a \in Answer : correct' = Append(correct, a)
    /\ j' = 0
    /\ parent' = "collecting"
    /\ UNCHANGED <<forked, i, grades, final_grades, childVars, queues>>

\* Fault: an answer of any student is taken for that of student j + 1.
AnyAnswer(msg) == TRUE

\* msgrcv takes the oldest message of type j + 1.
NextAnswer(msg) ==
    /\ msg[1] = j + 1
    /\ \A other \in recv_qid : other[1] = j + 1 => msg[2] <= other[2]

\* After the last answer to a question comes the next question, or grading.
Collect ==
    /\ parent = "collecting"
    /\ \E msg \in recv_qid :
        /\ NextAnswer(msg)
        /\ recv_qid' = recv_qid \ {msg}
        /\ grades' = [grades EXCEPT ![j + 1] =
                        IF msg[3] = correct[i] THEN @ + 1 ELSE @]
    /\ IF j + 1 < num_students
       THEN /\ j' = j + 1
            /\ UNCHANGED <<parent, i>>
       ELSE /\ j' = 0
            /\ i' = i + 1
            /\ parent' = IF i < num_questions THEN "asking" ELSE "grading"
    /\ UNCHANGED <<forked, correct, final_grades, childVars, send_qid>>

\* g answers of num_questions are right; nothing is said of 49.5 per cent.
FinalGrade(g) ==
    LET Between(low, high) == /\ 100 * g >= low * num_questions
                              /\ 100 * g <= high * num_questions IN
    CASE 100 * g >= 50 * num_questions -> "A"
      [] Between(40, 49) -> "B"
      [] Between(30, 39) -> "C"
      [] Between(20, 29) -> "D"
      [] OTHER -> "F"

\* All grades are computed and printed, and the process ends.
Grade ==
    /\ parent = "grading"
    /\ final_grades' = [s \in Student |-> FinalGrade(grades[s])]
    /\ parent' = "done"
    /\ UNCHANGED <<forked, i, j, correct, grades, childVars, queues>>

-----------------------------------------------------------------------------
(* The child process of student s *)

\* msgrcv takes the oldest message of the type of the next question.
NextQuestion(s, msg) ==
    /\ msg[1] = received[s] + 1
    /\ \A other \in send_qid : other[1] = msg[1] => msg[2] <= other[2]

Receive(s) ==
    /\ s <= forked
    /\ received[s] = Len(answers[s])
    /\ received[s] < num_questions
    /\ \E msg \in send_qid :
        NextQuestion(s, msg) /\ send_qid' = send_qid \ {msg}
    /\ received' = [received EXCEPT ![s] = @ + 1]
    /\ UNCHANGED <<parentVars, answers, recv_qid>>

\* Fault: the answer goes out under the question's type.
RespondMistyped(s) ==
    /\ received[s] > Len(answers[s])
    /\ HasRoom(recv_qid)
    /\ \E a \in Answer :
        /\ answers' = [answers EXCEPT ![s] = Append(@, a)]
        /\ recv_qid' = recv_qid \cup {<<received[s], received[s], a>>}
    /\ UNCHANGED <<parentVars, received, send_qid>>

\* The child exits after its answer to the last question.
Respond(s) ==
    /\ received[s] > Len(answers[s])
    /\ HasRoom(recv_qid)
    /\ \E a \in Answer :
        /\ answers' = [answers EXCEPT ![s] = Append(@, a)]
        /\ recv_qid' = recv_qid \cup {<<s, received[s], a>>}
    /\ UNCHANGED <<parentVars, received, send_qid>>

-----------------------------------------------------------------------------

Parent == Fork \/ ForkFails \/ Ask \/ ChooseAnswer \/ Collect \/ Grade

Child(s) == Receive(s) \/ Respond(s)

Next == Parent \/ \E s \in Student : Child(s)

Spec == Init /\ [][Next]_vars

\* Every process is scheduled when it is not blocked in the kernel.
FairSpec == Spec /\ WF_vars(Parent) /\ \A s \in Student : WF_vars(Child(s))

-----------------------------------------------------------------------------
(* Properties *)

TypeOK ==
    /\ parent \in {"forking", "asking", "choosing", "collecting", "grading",
                   "done", "failed"}
    /\ forked \in 0 .. num_students
    /\ i \in 1 .. num_questions + 1
    /\ j \in 0 .. num_students
    /\ correct \in Seq(Answer)
    /\ send_qid \subseteq Question \X (0 .. num_students - 1)
    /\ recv_qid \subseteq Student \X Question \X Answer
    /\ received \in [Student -> 0 .. num_questions]
    /\ answers \in [Student -> Seq(Answer)]
    /\ grades \in [Student -> Nat]
    /\ final_grades \in [Student -> {"A", "B", "C", "D", "F"}]

\* The questions that student s answered as the parent expects.
Right(s) == {q \in DOMAIN correct \cap DOMAIN answers[s] :
                answers[s][q] = correct[q]}

(***************************************************************************)
(* The grades presented are earned: each student's grade comes from that   *)
(* student's own answers, each compared with the correct answer to the     *)
(* question it was given for, although all answers share one queue and     *)
(* carry no question number (lines 60-62, 88-100).                         *)
(***************************************************************************)
GradesEarned ==
    parent = "done" =>
        \A s \in Student :
            final_grades[s] = FinalGrade(Cardinality(Right(s)))

(***************************************************************************)
(* The rounds do not overlap: while question i is asked no child is behind *)
(* or ahead of it, what its children hold, have sent and are sent adds up  *)
(* to the copies made, and so neither queue ever holds more than one       *)
(* message per student.  This is why Capacity >= num_students is enough    *)
(* (lines 49-63, 75-101).                                                  *)
(***************************************************************************)
RoundsSeparate ==
    parent \in {"asking", "choosing", "collecting"} =>
        /\ \A s \in Student : received[s] \in {i - 1, i}
        /\ \A msg \in send_qid : msg[1] = i
        /\ \A msg \in recv_qid : msg[2] = i
        /\ Cardinality(send_qid)
              + Cardinality({s \in Student : received[s] = i})
            = IF parent = "asking" THEN j ELSE num_students

(***************************************************************************)
(* README, Online Exam System: "individual grades are presented to each    *)
(* student", unless a child process could not be started.                  *)
(***************************************************************************)
GradesPresented == <>(parent \in {"done", "failed"})
=============================================================================
