\* Three students, three questions, two answers; a queue holds a message per
\* student.
CONSTANTS
    A = A B = B
    num_students = 3
    num_questions = 3
    Answer <- TwoAnswers
    Capacity = 3
SPECIFICATION FairSpec
INVARIANT GradesEarned
INVARIANT RoundsSeparate
PROPERTY GradesPresented
\* the exam ends, or a fork fails
CHECK_DEADLOCK FALSE
