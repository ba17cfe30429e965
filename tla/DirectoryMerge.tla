--------------------------- MODULE DirectoryMerge ---------------------------
(***************************************************************************)
(* Inter Process Communication/pipes.cpp: two child processes merge their  *)
(* directories.  A child writes the names and contents of its own files to *)
(* its pipe and stores what it reads from the pipe of the other; child 1   *)
(* sends first, child 2 receives first.  Forks and the creation of files   *)
(* may fail, and a child's own file may be missing.                        *)
(*                                                                         *)
(* A message is the sequence of pairs of words that it is parsed into.     *)
(***************************************************************************)
EXTENDS Integers, Sequences

VARIABLES
    main,     \* where main is
    child,    \* child[c]: where child c is, "none" before its fork
    pipe,     \* pipe[c]: the messages child c has written, not yet read
    dir,      \* dir[c]: contents of the files in the directory of child c
    todo      \* todo[c]: pairs of the message received still to be stored

mergeVars == <<main, child, pipe, dir, todo>>

Children == {1, 2}
Other(c) == 3 - c

Own == <<<<"file1", "file2">>, <<"file3", "file4">>>>

Contents == [file1 |-> "jaya_krishna", file2 |-> "Raja_Gopal",
             file3 |-> "Chenna_Keshava", file4 |-> "Souhardya_Halder"]

\* The pairs of words of the errors of a child about the file f
ReadError(c, f) ==
    IF c = 1 THEN <<<<"Error:", "failed">>, <<"to", "read">>>>
    ELSE <<<<"Error", "in">>, <<"read", f>>>>

CreateError(c, f) ==
    IF c = 1 THEN <<<<"Error:", "failed">>, <<"to", "create">>>>
    ELSE <<<<"Error", "in">>, <<"create", f>>>>

Name == DOMAIN Contents \cup {"Error:", "Error", "to", "read", "create"}
Absent == "absent"

Running(c) == child[c] \in {"sending", "receiving", "storing"}
ParentRuns == main \in {"start", "forked", "waiting"}

\* The parent never closes its ends of the pipes.
SomebodyReads(c) == ParentRuns \/ Running(Other(c))
SomebodyWrites(c) == ParentRuns \/ Running(c)

\* Any of the files written with echo may not be there.
MergeInit ==
    /\ main = "start"
    /\ child = <<"none", "none">>
    /\ pipe = <<<<>>, <<>>>>
    /\ \E missing \in SUBSET DOMAIN Contents :
         dir = [c \in Children |-> [n \in Name |->
                 IF n \in {Own[c][1], Own[c][2]} \ missing
                 THEN Contents[n] ELSE Absent]]
    /\ todo = <<<<>>, <<>>>>

-----------------------------------------------------------------------------
(* The parent *)

ForkFirst ==
    /\ main = "start"
    /\ \/ /\ child' = [child EXCEPT ![1] = "sending"]
          /\ main' = "forked"
       \/ /\ main' = "failed"
          /\ UNCHANGED child
    /\ UNCHANGED <<pipe, dir, todo>>

ForkSecond ==
    /\ main = "forked"
    /\ \/ /\ child' = [child EXCEPT ![2] = "receiving"]
          /\ main' = "waiting"
       \/ /\ main' = "failed"
          /\ UNCHANGED child
    /\ UNCHANGED <<pipe, dir, todo>>

WaitForBoth ==
    /\ main = "waiting"
    /\ \A c \in Children : ~Running(c)
    /\ main' = "exited"
    /\ UNCHANGED <<child, pipe, dir, todo>>

-----------------------------------------------------------------------------
(* The children *)

\* Fault: child 2 sends before it stores.
SendsAtOnce(c, pc) ==
    CASE pc = "sending"   -> IF c = 1 THEN "receiving" ELSE "storing"
      [] pc = "receiving" -> IF c = 1 THEN "storing" ELSE "sending"
      [] pc = "storing"   -> "succeeded"

\* What child c does after pc
After(c, pc) ==
    CASE pc = "sending"   -> IF c = 1 THEN "receiving" ELSE "succeeded"
      [] pc = "receiving" -> "storing"
      [] pc = "storing"   -> IF c = 1 THEN "succeeded" ELSE "sending"

Become(c, pc) == child' = [child EXCEPT ![c] = pc]

Write(c, message) == pipe' = [pipe EXCEPT ![c] = Append(@, message)]

\* Fault: a file is not checked after it is opened.
Unchecked(c) == {}

MissingFiles(c) == {i \in 1 .. 2 : dir[c][Own[c][i]] = Absent}

\* Fault: an error is not sent.
Silent(c, message) ==
    /\ Become(c, "failed")
    /\ UNCHANGED pipe

Fail(c, message) ==
    /\ Become(c, "failed")
    /\ Write(c, message)

\* All own files are read, then sent; with no reader left the signal kills.
Send(c) ==
    /\ child[c] = "sending"
    /\ \/ /\ ~SomebodyReads(c)
          /\ Become(c, "failed")
          /\ UNCHANGED pipe
       \/ /\ SomebodyReads(c)
          /\ MissingFiles(c) = {}
          /\ Write(c, [i \in 1 .. 2 |-> <<Own[c][i], dir[c][Own[c][i]]>>])
          /\ Become(c, After(c, "sending"))
       \/ /\ SomebodyReads(c)
          /\ \E i \in MissingFiles(c) :
               /\ \A j \in MissingFiles(c) : i <= j
               /\ Fail(c, ReadError(c, Own[c][i]))
    /\ UNCHANGED <<main, dir, todo>>

\* Of what is read, the first string counts; an empty pipe may be at its end.
Read(c) ==
    /\ child[c] = "receiving"
    /\ \/ /\ pipe[Other(c)] # <<>>
          /\ todo' = [todo EXCEPT ![c] = Head(pipe[Other(c)])]
          /\ pipe' = [pipe EXCEPT ![Other(c)] = <<>>]
       \/ /\ pipe[Other(c)] = <<>>
          /\ ~SomebodyWrites(Other(c))
          /\ UNCHANGED <<todo, pipe>>
    /\ Become(c, After(c, "receiving"))
    /\ UNCHANGED <<main, dir>>

\* The next pair of words becomes a file, if that can be created.
Store(c) ==
    /\ child[c] = "storing"
    /\ todo[c] # <<>>
    /\ LET name == Head(todo[c])[1]
           contents == Head(todo[c])[2]
       IN \/ /\ dir' = [dir EXCEPT ![c][name] = contents]
             /\ todo' = [todo EXCEPT ![c] = Tail(@)]
             /\ UNCHANGED <<child, pipe>>
          \/ /\ Fail(c, CreateError(c, name))
             /\ UNCHANGED <<dir, todo>>
    /\ UNCHANGED main

Stored(c) ==
    /\ child[c] = "storing"
    /\ todo[c] = <<>>
    /\ Become(c, After(c, "storing"))
    /\ UNCHANGED <<main, pipe, dir, todo>>

ChildStep(c) == Send(c) \/ Read(c) \/ Store(c) \/ Stored(c)

MergeNext ==
    \/ ForkFirst \/ ForkSecond \/ WaitForBoth
    \/ \E c \in Children : ChildStep(c)

MergeSpec == MergeInit /\ [][MergeNext]_mergeVars

\* Every process runs as long as it can.
MergeFairSpec ==
    /\ MergeSpec
    /\ WF_mergeVars(ForkFirst \/ ForkSecond \/ WaitForBoth)
    /\ \A c \in Children : WF_mergeVars(ChildStep(c))

-----------------------------------------------------------------------------
(* Properties *)

HasAllOf(c, o) == \A i \in 1 .. 2 : dir[c][Own[o][i]] = Contents[Own[o][i]]

(***************************************************************************)
(* A child that exits with success, and whose peer did not give up, has    *)
(* all files with their contents and nothing else, although the words of   *)
(* an error are stored as if they were files: what the diff at the end of  *)
(* the program, commented out, would show (lines 75-89, 120-135, 163-164). *)
(***************************************************************************)
SuccessMeansMerged ==
    \A c \in Children :
        child[c] = "succeeded" /\ child[Other(c)] \notin {"none", "failed"} =>
            /\ \A o \in Children : HasAllOf(c, o)
            /\ \A n \in Name \ DOMAIN Contents : dir[c][n] = Absent

(***************************************************************************)
(* The first directory gets files of the second only when the second has   *)
(* all of the first: if the merge stops half way, in whatever order the    *)
(* processes run, the second one has everything (lines 62-89, 113-156).    *)
(***************************************************************************)
SecondFirst ==
    (\E i \in 1 .. 2 : dir[1][Own[2][i]] # Absent) =>
        \A o \in Children : HasAllOf(2, o)

(***************************************************************************)
(* Whatever fails, all processes end: a child that gives up says so in its *)
(* pipe, without which the other, whose parent holds the pipe open, would  *)
(* read for ever (lines 56, 68, 113, 130, 150).                            *)
(***************************************************************************)
AllEnd == <>(~ParentRuns /\ \A c \in Children : ~Running(c))
=============================================================================
