---------------------------- MODULE MCOnlineExam ----------------------------
(* Instances of OnlineExam for TLC. *)
EXTENDS OnlineExam

CONSTANTS A, B

TwoAnswers == {A, B}
=============================================================================
