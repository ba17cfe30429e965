----------------------------- MODULE FtpProofs -----------------------------
(***************************************************************************)
(* Proofs about Ftp.  First what a client that disappears can destroy: as  *)
(* long as the client lives nothing is garbage anywhere; when the server   *)
(* writes garbage nothing is on its way any more, so its last command      *)
(* stays.  Then that the two stay in step: while the client lives they are *)
(* in one of ten situations, each of which says what is on its way; once   *)
(* it is gone what is left for the server still is what it asks for.       *)
(***************************************************************************)
EXTENDS Ftp, SequenceTheorems, FiniteSetTheorems, TLAPS

Clean == Contents \cup {"absent", "empty"}
Actions == {"none", "put", "get", "mget", "quit"}

ToServerMessage ==
    ({"command"} \X (Actions \X File)) \cup ({"overwrite"} \X {1, 2})
        \cup ({"size"} \X {0, 1}) \cup ({"data"} \X Clean)

ToClientMessage ==
    ({"exists", "size", "status", "closed"} \X {0, 1}) \cup ({"number"} \X Nat)
        \cup ({"name"} \X File) \cup ({"data"} \X Clean)

ClientOK ==
    /\ client \in [File -> Clean]
    /\ filename \in File
    /\ lines \subseteq File
    /\ overwrite \in {1, 2}

ServerOK ==
    /\ server \in [File -> Clean \cup {"garbage"}]
    /\ files \subseteq File
    /\ buffer \in Actions \X File
    /\ there \subseteq File

MessagesOK ==
    /\ toServer \in Seq(ToServerMessage)
    /\ toClient \in Seq(ToClientMessage)

\* What the server does is what its buffer says.
Obeys ==
    /\ spc \in {"put_overwrite", "put_size", "put_data"} => buffer[1] = "put"
    /\ spc \in {"mget", "mget_overwrite"} => buffer[1] = "mget"

GarbageLast ==
    \A f \in File : server[f] = "garbage" =>
        cpc = "killed" /\ toServer = <<>> /\ buffer = <<"put", f>>

FtpInv == ClientOK /\ ServerOK /\ MessagesOK /\ Obeys /\ GarbageLast

USE FtpAssumption

-----------------------------------------------------------------------------

LEMMA GarbageNotClean == "garbage" \notin Clean
  BY DEF Clean

LEMMA InitInv == Init => FtpInv
<1> SUFFICES ASSUME Init PROVE FtpInv
  OBVIOUS
<1> USE DEF Init
<1>1. ClientOK /\ ServerOK
  BY DEF ClientOK, ServerOK, Clean, Actions
<1>2. MessagesOK
  BY EmptySeq DEF MessagesOK
<1>3. Obeys
  BY DEF Obeys
<1>4. GarbageLast
  BY GarbageNotClean DEF GarbageLast, Clean
<1>5. QED
  BY <1>1, <1>2, <1>3, <1>4 DEF FtpInv

-----------------------------------------------------------------------------
(* Sequences of messages *)

LEMMA OneMessage ==
    ASSUME NEW S, NEW x \in S
    PROVE  <<x>> \in Seq(S)
  OBVIOUS

LEMMA TwoMessages ==
    ASSUME NEW S, NEW x \in S, NEW y \in S
    PROVE  <<x, y>> \in Seq(S)
  OBVIOUS

\* What the client sends are messages to the server.
LEMMA TellOK ==
    ASSUME MessagesOK, NEW messages \in Seq(ToServerMessage), Tell(messages)
    PROVE  toServer' \in Seq(ToServerMessage)
  BY ConcatProperties DEF MessagesOK, Tell

LEMMA ReadOK ==
    ASSUME MessagesOK, toClient # <<>>, Read
    PROVE  toClient' \in Seq(ToClientMessage)
  BY HeadTailProperties DEF MessagesOK, Read

LEMMA HeardOK ==
    ASSUME MessagesOK, NEW what, Hear(what)
    PROVE  /\ what = "data" => Heard \in Clean
           /\ what = "name" => Heard \in File
<1>1. Head(toClient) \in ToClientMessage /\ Head(toClient)[1] = what
  BY HeadTailProperties DEF MessagesOK, Hear
<1>2. QED
  BY <1>1 DEF ToClientMessage, Heard

LEMMA ReplyOK ==
    ASSUME MessagesOK, NEW messages, Reply(messages),
           cpc # "killed" => messages \in Seq(ToClientMessage)
    PROVE  toClient' \in Seq(ToClientMessage)
<1>1. CASE cpc = "killed"
  BY <1>1, EmptySeq DEF Reply
<1>2. CASE cpc # "killed"
  BY <1>2, ConcatProperties DEF MessagesOK, Reply
<1>3. QED
  BY <1>1, <1>2

\* What recv gives the server, if it gives anything.
LEMMA ReceivedOK ==
    ASSUME MessagesOK, NEW what, Recv(what), ~AtEnd
    PROVE  \A old : /\ what = "data" => Received(old) \in Clean
                    /\ what = "command" => Received(old) \in Actions \X File
<1>1. toServer # <<>> /\ Head(toServer)[1] = what
  BY DEF Recv
<1>2. Head(toServer) \in ToServerMessage
  BY <1>1, HeadTailProperties DEF MessagesOK
<1>3. QED
  BY <1>1, <1>2 DEF ToServerMessage, Received

LEMMA DropOK ==
    ASSUME MessagesOK, NEW what, Recv(what), Drop
    PROVE  /\ toServer' \in Seq(ToServerMessage)
           /\ AtEnd => toServer' = <<>>
<1>1. CASE AtEnd
  BY <1>1, EmptySeq DEF Drop
<1>2. CASE ~AtEnd
  BY <1>2, HeadTailProperties DEF MessagesOK, Recv, Drop
<1>3. QED
  BY <1>1, <1>2

-----------------------------------------------------------------------------
(* Steps of the client *)

\* A step of the client keeps the invariant if it keeps its own part.
LEMMA ClientKeeps ==
    ASSUME FtpInv, cpc # "killed", UNCHANGED svars, ClientOK', MessagesOK'
    PROVE  FtpInv'
<1>1. ServerOK' /\ Obeys'
  BY DEF FtpInv, ServerOK, Obeys, svars
<1>2. GarbageLast'
  BY DEF FtpInv, GarbageLast, svars
<1>3. QED
  BY <1>1, <1>2 DEF FtpInv

LEMMA ChooseInv ==
    ASSUME FtpInv, NEW action \in Actions, NEW f \in File, NEW m, NEW pc,
           Choose(<<action, f>>, m, pc)
    PROVE  FtpInv'
<1> USE DEF Choose
<1>1. ClientOK'
  BY DEF FtpInv, ClientOK
<1>2. <<"command", <<action, f>>>> \in ToServerMessage
  BY DEF ToServerMessage
<1>3. <<<<"command", <<action, f>>>>>> \in Seq(ToServerMessage)
  BY <1>2, OneMessage
<1>4. MessagesOK'
  BY <1>3, TellOK DEF FtpInv, MessagesOK
<1>5. QED
  BY <1>1, <1>4, ClientKeeps

LEMMA UserInv == FtpInv /\ UserStep => FtpInv'
<1> SUFFICES ASSUME FtpInv, UserStep PROVE FtpInv'
  OBVIOUS
<1>1. CASE MPut
  <2>1. ClientOK' /\ MessagesOK'
    BY <1>1 DEF MPut, FtpInv, ClientOK, MessagesOK
  <2>2. QED
    BY <1>1, <2>1, ClientKeeps DEF MPut
<1>2. filename \in File
  BY DEF FtpInv, ClientOK
<1>3. {"put", "get", "mget", "quit"} \subseteq Actions
  BY DEF Actions
<1>4. CASE MGet \/ Quit
  BY <1>2, <1>3, <1>4, ChooseInv DEF MGet, Quit
<1>5. ASSUME NEW f \in File, Put(f) \/ Get(f) PROVE FtpInv'
  BY <1>3, <1>5, ChooseInv DEF Put, Get
<1>6. QED
  BY <1>1, <1>4, <1>5 DEF UserStep

\* What follows a yes to the server.
LEMMA FileMessagesOK ==
    ASSUME ClientOK, NEW f \in File
    PROVE  FileMessages(f) \in Seq(ToServerMessage)
<1>1. client[f] \in Clean
  BY DEF ClientOK
<1>2. <<"size", Size(client[f])>> \in ToServerMessage
  BY DEF ToServerMessage, Size
<1>3. <<"data", client[f]>> \in ToServerMessage
  BY <1>1 DEF ToServerMessage
<1>4. /\ <<<<"size", Size(client[f])>>>> \in Seq(ToServerMessage)
      /\ <<<<"data", client[f]>>>> \in Seq(ToServerMessage)
      /\ <<>> \in Seq(ToServerMessage)
  BY <1>2, <1>3, OneMessage, EmptySeq
<1>5. QED
  BY <1>4, ConcatProperties DEF FileMessages

LEMMA AnswerOK ==
    ASSUME ClientOK, NEW asked, NEW answer \in Answer(asked)
    PROVE  /\ answer \in {1, 2}
           /\ <<"overwrite", answer>> \in ToServerMessage
<1>1. answer \in {1, 2}
  BY DEF Answer, ClientOK
<1>2. QED
  BY <1>1 DEF ToServerMessage

LEMMA PutExistsInv == FtpInv /\ PutExists => FtpInv'
<1> SUFFICES ASSUME FtpInv, PutExists PROVE FtpInv'
  OBVIOUS
<1> USE DEF FtpInv, PutExists
<1>1. PICK answer \in {1, 2} :
        /\ Ask(Heard, answer)
        /\ Tell(<<<<"overwrite", answer>>>> \o
                IF answer = 1 THEN FileMessages(filename) ELSE <<>>)
        /\ IF answer = 1
           THEN /\ cpc' = "put_status"
                /\ overwrite' = answer
                /\ fileExists' = Heard
                /\ UNCHANGED num_files
           ELSE Done(answer, Heard)
  OBVIOUS
<1>2. answer \in {1, 2} /\ <<"overwrite", answer>> \in ToServerMessage
  BY <1>1, AnswerOK DEF Ask
<1>3. <<<<"overwrite", answer>>>> \in Seq(ToServerMessage)
  BY <1>2, OneMessage
<1>4. FileMessages(filename) \in Seq(ToServerMessage)
  BY FileMessagesOK DEF ClientOK
<1>5. <<<<"overwrite", answer>>>> \o
        (IF answer = 1 THEN FileMessages(filename) ELSE <<>>)
            \in Seq(ToServerMessage)
  BY <1>3, <1>4, EmptySeq, ConcatProperties
<1>6. MessagesOK'
  BY <1>1, <1>5, TellOK, ReadOK DEF Hear, MessagesOK
<1>7. ClientOK'
  BY <1>1, <1>2 DEF ClientOK, Done
<1>8. QED
  BY <1>6, <1>7, ClientKeeps

LEMMA GetSizeInv == FtpInv /\ GetSize => FtpInv'
<1> SUFFICES ASSUME FtpInv, GetSize PROVE FtpInv'
  OBVIOUS
<1> USE DEF FtpInv, GetSize
<1>1. toClient' \in Seq(ToClientMessage)
  BY ReadOK DEF Hear
<1>2. CASE Nothing /\ Done(overwrite, fileExists)
             /\ UNCHANGED <<client, unreadable, toServer>>
  <2>1. ClientOK' /\ MessagesOK'
    BY <1>1, <1>2 DEF ClientOK, MessagesOK, Done
  <2>2. QED
    BY <2>1, ClientKeeps
<1>3. ASSUME NEW exists, NEW answer \in Answer(Exists(client, filename)),
             Tell(<<<<"overwrite", answer>>>>),
             \/ /\ client' = [client EXCEPT ![filename] = "empty"]
                /\ overwrite' = answer
             \/ /\ Done(answer, exists)
                /\ UNCHANGED client
      PROVE  FtpInv'
  <2>1. answer \in {1, 2} /\ <<"overwrite", answer>> \in ToServerMessage
    BY <1>3, AnswerOK
  <2>2. MessagesOK'
    BY <1>1, <1>3, <2>1, OneMessage, TellOK DEF MessagesOK
  <2>3. ClientOK'
    BY <1>3, <2>1 DEF ClientOK, Done, Clean
  <2>4. QED
    BY <2>2, <2>3, ClientKeeps
<1>4. QED
  BY <1>2, <1>3

LEMMA ClientInv == FtpInv /\ ClientStep => FtpInv'
<1> SUFFICES ASSUME FtpInv, ClientStep PROVE FtpInv'
  OBVIOUS
<1> USE DEF FtpInv
<1>1. CASE MPutNext
  <2>1. CASE lines = {}
    <3>1. ClientOK' /\ MessagesOK'
      BY <1>1, <2>1 DEF MPutNext, ClientOK, MessagesOK
    <3>2. QED
      BY <1>1, <3>1, ClientKeeps DEF MPutNext
  <2>2. ASSUME NEW f \in lines, Tell(<<<<"command", <<"put", f>>>>>>),
               lines' = lines \ {f}, filename' = f
        PROVE  FtpInv'
    <3>1. f \in File
      BY <2>2 DEF ClientOK
    <3>2. <<"command", <<"put", f>>>> \in ToServerMessage
      BY <3>1 DEF ToServerMessage, Actions
    <3>3. ClientOK' /\ MessagesOK'
      BY <1>1, <2>2, <3>1, <3>2, OneMessage, TellOK
         DEF MPutNext, ClientOK, MessagesOK
    <3>4. QED
      BY <1>1, <3>3, ClientKeeps DEF MPutNext
  <2>3. QED
    BY <1>1, <2>1, <2>2 DEF MPutNext
<1>2. CASE PutStatus \/ MGetNumber \/ MGetName \/ GetData \/ Exit
  <2>1. MessagesOK'
    BY <1>2, ReadOK DEF MessagesOK, Hear, PutStatus, MGetNumber, MGetName,
       GetData, Exit
  <2>2. ClientOK'
    BY <1>2, HeardOK
       DEF ClientOK, Done, PutStatus, MGetNumber, MGetName, GetData, Exit
  <2>3. cpc # "killed" /\ UNCHANGED svars
    BY <1>2 DEF PutStatus, MGetNumber, MGetName, GetData, Exit
  <2>4. QED
    BY <2>1, <2>2, <2>3, ClientKeeps
<1>3. QED
  BY <1>1, <1>2, PutExistsInv, GetSizeInv DEF ClientStep

LEMMA KilledInv == FtpInv /\ Killed => FtpInv'
<1> SUFFICES ASSUME FtpInv, Killed PROVE FtpInv'
  OBVIOUS
<1> USE DEF FtpInv, Killed
<1>1. PICK n \in 0 .. Len(toServer) : toServer' = SubSeq(toServer, 1, n)
  OBVIOUS
<1>2. toServer \in Seq(ToServerMessage)
  BY DEF MessagesOK
<1>3. \A i \in 1 .. n : toServer[i] \in ToServerMessage
  BY <1>2, ElementOfSeq, LenProperties
<1>4. n \in Int /\ 1 \in Int
  BY <1>2, LenProperties
<1>5. toServer' \in Seq(ToServerMessage)
  BY <1>1, <1>3, <1>4, SubSeqProperties
<1>6. MessagesOK'
  BY <1>5, EmptySeq DEF MessagesOK
<1>7. ClientOK' /\ ServerOK' /\ Obeys' /\ GarbageLast'
  BY DEF ClientOK, ServerOK, Obeys, GarbageLast, svars
<1>8. QED
  BY <1>6, <1>7

-----------------------------------------------------------------------------
(* Steps of the server *)

LEMMA SizeOK == \A value : Size(value) \in {0, 1}
  BY DEF Size

LEMMA ReplyOne ==
    ASSUME MessagesOK, NEW what \in {"exists", "size", "status", "closed"},
           NEW value \in {0, 1}, Reply(<<<<what, value>>>>)
    PROVE  toClient' \in Seq(ToClientMessage)
<1>1. <<what, value>> \in ToClientMessage
  BY DEF ToClientMessage
<1>2. QED
  BY <1>1, OneMessage, ReplyOK

LEMMA CommandInv == FtpInv /\ Command => FtpInv'
<1> SUFFICES ASSUME FtpInv, Command PROVE FtpInv'
  OBVIOUS
<1> USE DEF FtpInv, Command
<1>1. ClientOK'
  BY DEF ClientOK, cvars
<1>2. buffer' \in Actions \X File
  <2>1. CASE AtEnd
    BY <2>1 DEF Received, ServerOK
  <2>2. CASE ~AtEnd
    BY <2>2, ReceivedOK
  <2>3. QED
    BY <2>1, <2>2
<1>3. Listing(server) \subseteq File
  BY DEF Listing
<1>4. ServerOK'
  BY <1>2, <1>3 DEF ServerOK
<1>5. toServer' \in Seq(ToServerMessage) /\ (AtEnd => toServer' = <<>>)
  BY DropOK
<1>6. toClient' \in Seq(ToClientMessage)
  <2>1. ListSize \in Nat
    BY <1>3, FS_Subset, FS_CardinalityType DEF ListSize
  <2>2. CASE Reply(<<<<"number", ListSize>>>>)
    <3>1. <<"number", ListSize>> \in ToClientMessage
      BY <2>1 DEF ToClientMessage
    <3>2. QED
      BY <2>2, <3>1, OneMessage, ReplyOK
  <2>3. \A f : ExistsHere(f) \in {0, 1}
    BY DEF ExistsHere
  <2>4. CASE UNCHANGED toClient
    BY <2>4 DEF MessagesOK
  <2>5. QED
    BY <2>2, <2>3, <2>4, SizeOK, ReplyOne
<1>7. MessagesOK'
  BY <1>5, <1>6 DEF MessagesOK
<1>8. Obeys'
  BY DEF Obeys
<1>9. GarbageLast'
  BY <1>5 DEF GarbageLast, AtEnd, Received, cvars
<1>10. QED
  BY <1>1, <1>4, <1>7, <1>8, <1>9

\* Writing something clean destroys nothing.
LEMMA WrittenClean ==
    ASSUME ServerOK, GarbageLast, NEW value \in Clean,
           UNCHANGED <<cpc, buffer>>,
           server' = Written(buffer[2], value),
           toServer = <<>> => toServer' = <<>>
    PROVE  /\ server' \in [File -> Clean \cup {"garbage"}]
           /\ GarbageLast'
<1>1. buffer[2] \in File
  BY DEF ServerOK
<1>2. server' \in [File -> Clean \cup {"garbage"}]
  BY <1>1 DEF ServerOK, Written
<1>3. \A f \in File : server'[f] = "garbage" => server[f] = "garbage"
  BY <1>1, GarbageNotClean DEF ServerOK, Written
<1>4. QED
  BY <1>2, <1>3 DEF GarbageLast

LEMMA PutOverwriteInv == FtpInv /\ PutOverwrite => FtpInv'
<1> SUFFICES ASSUME FtpInv, PutOverwrite PROVE FtpInv'
  OBVIOUS
<1> USE DEF FtpInv, PutOverwrite
<1>1. ClientOK' /\ UNCHANGED <<cpc, buffer>>
  BY DEF ClientOK, cvars
<1>2. MessagesOK'
  BY DropOK DEF MessagesOK
<1>3. toServer = <<>> => toServer' = <<>>
  BY DEF Recv, AtEnd, Drop
<1>4. server' \in [File -> Clean \cup {"garbage"}] /\ GarbageLast'
  <2>1. CASE server' = Written(buffer[2], "empty")
    BY <1>1, <1>3, <2>1, WrittenClean DEF Clean
  <2>2. CASE UNCHANGED server
    BY <1>1, <1>3, <2>2 DEF ServerOK, GarbageLast
  <2>3. QED
    BY <2>1, <2>2
<1>5. ServerOK' /\ Obeys'
  BY <1>4 DEF ServerOK, Obeys
<1>6. QED
  BY <1>1, <1>2, <1>4, <1>5

LEMMA PutSizeInv == FtpInv /\ PutSize => FtpInv'
<1> SUFFICES ASSUME FtpInv, PutSize PROVE FtpInv'
  OBVIOUS
<1> USE DEF FtpInv, PutSize
<1>1. ClientOK' /\ ServerOK' /\ Obeys'
  BY DEF ClientOK, ServerOK, Obeys, cvars
<1>2. toClient' \in Seq(ToClientMessage)
  BY ReplyOne DEF MessagesOK
<1>3. MessagesOK'
  BY <1>2, DropOK DEF MessagesOK
<1>4. GarbageLast'
  BY DEF GarbageLast, Recv, AtEnd, Drop, cvars
<1>5. QED
  BY <1>1, <1>3, <1>4

LEMMA PutDataInv == FtpInv /\ PutData => FtpInv'
<1> SUFFICES ASSUME FtpInv, PutData PROVE FtpInv'
  OBVIOUS
<1> USE DEF FtpInv, PutData
<1>1. ClientOK' /\ UNCHANGED <<cpc, buffer>>
  BY DEF ClientOK, cvars
<1>2. MessagesOK'
  BY ReplyOne, DropOK DEF MessagesOK
<1>3. server' \in [File -> Clean \cup {"garbage"}] /\ GarbageLast'
  <2>1. CASE AtEnd
    <3>1. server' = Written(buffer[2], "garbage")
      BY <2>1 DEF Received
    <3>2. buffer = <<"put", buffer[2]>> /\ buffer[2] \in File
      BY DEF Obeys, ServerOK
    <3>3. toServer' = <<>> /\ cpc = "killed"
      BY <2>1, DropOK DEF AtEnd
    <3>4. server' \in [File -> Clean \cup {"garbage"}]
      BY <3>1, <3>2 DEF Written, ServerOK
    <3>5. \A f \in File :
            server'[f] = "garbage" => server[f] = "garbage" \/ f = buffer[2]
      BY <3>1, <3>2 DEF Written, ServerOK
    <3>6. QED
      BY <1>1, <3>2, <3>3, <3>4, <3>5 DEF GarbageLast
  <2>2. CASE ~AtEnd
    <3>1. Received("garbage") \in Clean
      BY <2>2, ReceivedOK
    <3>2. toServer = <<>> => toServer' = <<>>
      BY <2>2 DEF Recv
    <3>3. QED
      BY <1>1, <3>1, <3>2, WrittenClean
  <2>3. QED
    BY <2>1, <2>2
<1>4. ServerOK' /\ Obeys'
  BY <1>3 DEF ServerOK, Obeys
<1>5. QED
  BY <1>1, <1>2, <1>3, <1>4

LEMMA SendFileInv == FtpInv /\ SendFile => FtpInv'
<1> SUFFICES ASSUME FtpInv, SendFile PROVE FtpInv'
  OBVIOUS
<1> USE DEF FtpInv, SendFile
<1>1. ClientOK' /\ ServerOK' /\ Obeys'
  BY DEF ClientOK, ServerOK, Obeys, cvars
<1>2. cpc # "killed" => <<"data", server[buffer[2]]>> \in ToClientMessage
  BY DEF ServerOK, GarbageLast, ToClientMessage
<1>3. toClient' \in Seq(ToClientMessage)
  BY <1>2, OneMessage, EmptySeq, ReplyOK
<1>4. MessagesOK'
  BY <1>3, DropOK DEF MessagesOK
<1>5. GarbageLast'
  BY DEF GarbageLast, Recv, AtEnd, Drop, cvars
<1>6. QED
  BY <1>1, <1>4, <1>5

LEMMA MGetNextInv == FtpInv /\ MGetNext => FtpInv'
<1> SUFFICES ASSUME FtpInv, MGetNext PROVE FtpInv'
  OBVIOUS
<1> USE DEF FtpInv, MGetNext
<1>1. ClientOK' /\ UNCHANGED cpc
  BY DEF ClientOK, cvars
<1>2. \A f \in File : server[f] # "garbage"
  BY DEF GarbageLast, Obeys
<1>3. GarbageLast'
  BY <1>2 DEF GarbageLast
<1>4. CASE /\ files = {} /\ spc' = "command"
           /\ UNCHANGED <<buffer, files, toClient>>
  <2>1. ServerOK' /\ MessagesOK' /\ Obeys'
    BY <1>4 DEF ServerOK, MessagesOK, Obeys
  <2>2. QED
    BY <1>1, <1>3, <2>1
<1>5. ASSUME NEW f \in files,
             Reply(<<<<"name", f>>, <<"size", Size(server[f])>>>>),
             files' = files \ {f}, buffer' = <<"mget", f>>,
             spc' \in {"mget", "mget_overwrite"}
      PROVE  FtpInv'
  <2>1. f \in File
    BY <1>5 DEF ServerOK
  <2>2. ServerOK' /\ Obeys'
    BY <1>5, <2>1 DEF ServerOK, Obeys, Actions
  <2>3. /\ <<"name", f>> \in ToClientMessage
        /\ <<"size", Size(server[f])>> \in ToClientMessage
    BY <2>1, SizeOK DEF ToClientMessage
  <2>4. MessagesOK'
    BY <1>5, <2>3, TwoMessages, ReplyOK DEF MessagesOK
  <2>5. QED
    BY <1>1, <1>3, <2>2, <2>4
<1>6. QED
  BY <1>4, <1>5

LEMMA NextInv == FtpInv /\ [Next]_vars => FtpInv'
<1> SUFFICES ASSUME FtpInv, [Next]_vars PROVE FtpInv'
  OBVIOUS
<1>1. CASE ServerStep
  BY <1>1, CommandInv, PutOverwriteInv, PutSizeInv, PutDataInv, SendFileInv,
     MGetNextInv DEF ServerStep
<1>2. CASE Dies
  BY <1>2 DEF Dies, FtpInv, ClientOK, ServerOK, MessagesOK, Obeys, GarbageLast,
     cvars
<1>3. CASE UNCHANGED vars
  BY <1>3 DEF vars, cvars, svars, FtpInv, ClientOK, ServerOK, MessagesOK,
     Obeys, GarbageLast
<1>4. QED
  BY <1>1, <1>2, <1>3, ClientInv, UserInv, KilledInv DEF Next

(***************************************************************************)
(* For all files: garbage is only ever in the one file that the last       *)
(* command, a PUT of a client that is gone, named.                         *)
(***************************************************************************)
THEOREM DamageLimited == FairSpec => []OneFileDestroyed
<1>1. FtpInv => OneFileDestroyed
  BY DEF FtpInv, GarbageLast, OneFileDestroyed
<1>2. QED
  BY InitInv, NextInv, <1>1, PTL DEF FairSpec

-----------------------------------------------------------------------------
(***************************************************************************)
(* Where the two are in a command, as long as the client lives.  Of an     *)
(* earlier command a no that the server has not read may be left, and the  *)
(* end of its list of files.                                               *)
(***************************************************************************)
Yes == <<"overwrite", 1>>
No == <<"overwrite", 2>>

\* The server has nothing to do but to read what is in rest.
Behind(rest) ==
    \/ /\ toServer = rest
       /\ spc = "command" \/ (spc = "mget" /\ files = {})
    \/ /\ toServer = <<No>> \o rest
       /\ \/ spc \in {"put_overwrite", "get_overwrite"}
          \/ spc = "mget_overwrite" /\ files = {}

Resting ==
    /\ cpc = "menu" \/ (cpc = "mput" /\ mode # "mget")
    /\ toClient = <<>> /\ Behind(<<>>)

Awaited(action) ==
    CASE action = "put" -> "put_exists" [] action = "get" -> "get_size"
      [] action = "mget" -> "mget_number" [] action = "quit" -> "quit"

Asking(action) ==
    /\ cpc = Awaited(action)
    /\ (mode = "mget") = (action = "mget")
    /\ toClient = <<>>
    /\ Behind(<<<<"command", <<action, filename>>>>>>)

\* PUT: the server has said whether the file exists, the file or what the
\* user agreed to is on its way, the server has said how it ended.
PutAnswered ==
    /\ cpc = "put_exists" /\ mode # "mget"
    /\ spc = "put_overwrite" /\ buffer = <<"put", filename>>
    /\ toServer = <<>>
    /\ toClient = <<<<"exists", ExistsHere(filename)>>>>
    /\ filename \in there => Exists(server, filename)

\* The server may write to the file: it is new, or the user agreed.
Agreed ==
    /\ cpc = "put_status" /\ mode # "mget"
    /\ buffer = <<"put", filename>>
    /\ filename \in there => filename \in agreed

PutSending ==
    /\ Agreed /\ toClient = <<>>
    /\ \/ spc = "put_overwrite" /\ toServer = <<Yes>> \o FileMessages(filename)
       \/ spc = "put_size" /\ toServer = FileMessages(filename)
       \/ /\ spc = "put_data" /\ Size(client[filename]) = 1
          /\ toServer = IF filename \in unreadable THEN <<>>
                        ELSE <<<<"data", client[filename]>>>>

PutReported ==
    /\ cpc = "put_status" /\ mode # "mget"
    /\ spc = "command" /\ toServer = <<>>
    /\ \E success \in {0, 1} :
         /\ toClient = <<<<"status", success>>>>
         /\ success = 1 => \/ filename \in Unwritable
                           \/ server[filename] = client[filename]

\* GET: the size is on its way, the answer of the user or the contents are.
GetAnswered ==
    /\ cpc = "get_size" /\ mode # "mget" /\ toServer = <<>>
    /\ \E size \in {0, 1} :
         /\ toClient = <<<<"size", size>>>>
         /\ spc = IF size = 0 THEN "command" ELSE "get_overwrite"

GetSending ==
    /\ cpc = "get_data" /\ mode # "mget"
    /\ \/ spc = "get_overwrite" /\ toServer = <<Yes>> /\ toClient = <<>>
       \/ /\ spc = "command" /\ toServer = <<>>
          /\ \E value \in Clean : toClient = <<<<"data", value>>>>

\* MGET: which message may come after which
Follows(m, next) ==
    CASE m[1] = "name" -> next[1] = "size"
      [] m[1] = "size" -> next[1] = "name" /\ m[2] = 0
      [] OTHER -> next[1] = "name"

Chain(s) == \A k \in 1 .. Len(s) - 1 : Follows(s[k], s[k + 1])

\* The server goes on with the list until a file is not empty.
AfterLast ==
    IF toClient = <<>>
    THEN \/ toServer = <<>> /\ spc = "mget"
         \/ toServer = <<>> /\ spc = "command" /\ files = {}
         \/ toServer = <<No>> /\ spc = "mget_overwrite"
    ELSE LET last == toClient[Len(toClient)] IN
         /\ toServer = <<>>
         /\ last[1] # "name"
         /\ IF last[1] = "size" /\ last[2] = 1 THEN spc = "mget_overwrite"
            ELSE spc = "mget" \/ (spc = "command" /\ files = {})

\* The messages that the client still waits for
ToCome ==
    IF cpc = "mget_number" THEN 2 * Heard + 1
    ELSE IF cpc = "mget_name" THEN 2 * num_files ELSE 2 * num_files - 1

InList ==
    /\ mode = "mget"
    /\ cpc \in {"mget_number", "mget_name", "get_size", "get_data"}
    /\ cpc # "mget_number" => num_files \in Nat \ {0}
    /\ toClient = <<>> => cpc = "mget_name"
    /\ toClient # <<>> => Head(toClient)[1] = ClientExpects[cpc]
    /\ Chain(toClient) /\ AfterLast
    /\ Len(toClient) + 2 * Cardinality(files) = ToCome

ListSending ==
    /\ mode = "mget" /\ cpc = "get_data" /\ num_files \in Nat \ {0}
    /\ spc = "mget_overwrite" /\ toServer = <<Yes>> /\ toClient = <<>>
    /\ Cardinality(files) = num_files - 1

Quitting ==
    /\ spc = "exited" /\ toServer = <<>>
    /\ \/ cpc = "quit" /\ toClient = <<<<"closed", 1>>>>
       \/ cpc = "exited" /\ toClient = <<>>

Modes == {"one", "mput", "mget"}

Situation ==
    \/ Resting \/ PutAnswered \/ PutSending \/ PutReported
    \/ GetAnswered \/ GetSending \/ InList \/ ListSending \/ Quitting
    \/ \E action \in {"put", "get", "mget", "quit"} : Asking(action)

\* What the server has yet to read is what it will ask for, also when the
\* client is gone.
ServerFollows(m, next) ==
    \/ m = No /\ next[1] = "command"
    \/ m = Yes /\ next[1] = "size"
    \/ m = <<"size", 1>> /\ next[1] = "data"

ServerInStep ==
    /\ \A k \in 1 .. Len(toServer) - 1 :
         ServerFollows(toServer[k], toServer[k + 1])
    /\ toServer # <<>> =>
         CASE toServer[1][1] = "command" ->
                spc = "command" \/ (spc = "mget" /\ files = {})
           [] toServer[1][1] = "overwrite" ->
                /\ spc \in {"put_overwrite", "get_overwrite", "mget_overwrite"}
                /\ Len(toServer) > 1 =>
                     IF toServer[1] = Yes THEN spc = "put_overwrite"
                     ELSE spc = "mget_overwrite" => files = {}
           [] toServer[1][1] = "size" -> spc = "put_size"
           [] toServer[1][1] = "data" -> spc = "put_data"

InOrder ==
    /\ mode \in Modes
    /\ cpc = "killed" => toClient = <<>> /\ (spc = "dead" \/ ServerInStep)
    /\ cpc # "killed" => spc # "dead" /\ Situation
-----------------------------------------------------------------------------
(* Sequences *)

LEMMA Pair == \A a, b : <<a>> \o <<b>> = <<a, b>>
<1> TAKE a, b
<1>1. /\ <<a>> \in Seq({a, b}) /\ <<b>> \in Seq({a, b})
      /\ <<a, b>> \in Seq({a, b})
  OBVIOUS
<1> DEFINE t == <<a>> \o <<b>>
<1>2. /\ t \in Seq({a, b}) /\ Len(t) = 2
      /\ \A i \in 1 .. 2 : t[i] = IF i <= 1 THEN <<a>>[i] ELSE <<b>>[i - 1]
  BY <1>1, ConcatProperties
<1>3. t[1] = a /\ t[2] = b
  BY <1>2
<1> HIDE DEF t
<1>4. \A i \in 1 .. Len(t) : t[i] = <<a, b>>[i]
  BY <1>2, <1>3
<1>5. t = <<a, b>>
  BY <1>1, <1>2, <1>4, SeqEqual
<1>6. QED
  BY <1>5 DEF t

LEMMA Triple == \A a, b, c : <<a>> \o <<b, c>> = <<a, b, c>>
<1> TAKE a, b, c
<1>1. /\ <<a>> \in Seq({a, b, c}) /\ <<b, c>> \in Seq({a, b, c})
      /\ <<a, b, c>> \in Seq({a, b, c})
  OBVIOUS
<1> DEFINE t == <<a>> \o <<b, c>>
<1>2. /\ t \in Seq({a, b, c}) /\ Len(t) = 3
      /\ \A i \in 1 .. 3 :
           t[i] = IF i <= 1 THEN <<a>>[i] ELSE <<b, c>>[i - 1]
  BY <1>1, ConcatProperties
<1>3. t[1] = a /\ t[2] = b /\ t[3] = c
  BY <1>2
<1> HIDE DEF t
<1>4. \A i \in 1 .. Len(t) : t[i] = <<a, b, c>>[i]
  BY <1>2, <1>3
<1>5. t = <<a, b, c>>
  BY <1>1, <1>2, <1>4, SeqEqual
<1>6. QED
  BY <1>5 DEF t

LEMMA Cons ==
    ASSUME NEW S, NEW a \in S, NEW s \in Seq(S)
    PROVE  /\ Head(<<a>> \o s) = a /\ Tail(<<a>> \o s) = s
           /\ <<a>> \o s # <<>>
  OBVIOUS

LEMMA Single == \A a : /\ Head(<<a>>) = a /\ Tail(<<a>>) = <<>>
                       /\ Len(<<a>>) = 1 /\ <<a>>[1] = a /\ <<a>> # <<>>
                       /\ <<>> \o <<a>> = <<a>> /\ <<a>> \o <<>> = <<a>>
  OBVIOUS

LEMMA Two == \A a, b : /\ Head(<<a, b>>) = a /\ Tail(<<a, b>>) = <<b>>
                       /\ Len(<<a, b>>) = 2 /\ <<a, b>>[1] = a
                       /\ <<a, b>>[2] = b
                       /\ <<a, b>> # <<>>
  OBVIOUS

LEMMA Three == \A a, b, c : /\ Head(<<a, b, c>>) = a
                            /\ Tail(<<a, b, c>>) = <<b, c>>
                            /\ Len(<<a, b, c>>) = 3 /\ <<a, b, c>>[1] = a
                            /\ <<a, b, c>>[2] = b /\ <<a, b, c>>[3] = c
                            /\ <<a, b, c>> # <<>>
  OBVIOUS

LEMMA SeqTail ==
    ASSUME NEW S, NEW s \in Seq(S), s # <<>>
    PROVE  /\ Len(s) \in Nat \ {0} /\ Len(Tail(s)) = Len(s) - 1
           /\ Tail(s) \in Seq(S)
           /\ \A k \in 1 .. Len(s) - 1 : Tail(s)[k] = s[k + 1]
           /\ Head(s) = s[1]
           /\ Tail(s) # <<>> <=> Len(s) > 1
<1>1. Len(s) \in Nat \ {0} /\ Len(Tail(s)) = Len(s) - 1 /\ Head(s) = s[1]
  OBVIOUS
<1>2. Tail(s) \in Seq(S)
  BY HeadTailProperties
<1>3. \A k \in 1 .. Len(s) - 1 : Tail(s)[k] = s[k + 1]
  OBVIOUS
<1>4. ASSUME NEW t \in Seq(S), NEW n \in Nat \ {0}, Len(t) = n - 1
      PROVE  t # <<>> <=> n > 1
  BY <1>4, EmptySeq
<1>5. Tail(s) # <<>> <=> Len(s) > 1
  BY <1>1, <1>2, <1>4
<1>6. QED
  BY <1>1, <1>2, <1>3, <1>5

LEMMA ChainTail ==
    ASSUME NEW S, NEW s \in Seq(S), s # <<>>, Chain(s)
    PROVE  /\ Chain(Tail(s))
           /\ Tail(s) # <<>> => /\ Follows(Head(s), Head(Tail(s)))
                                /\ Tail(s)[Len(Tail(s))] = s[Len(s)]
<1>1. Chain(Tail(s))
  <2> SUFFICES ASSUME NEW k \in 1 .. Len(Tail(s)) - 1
               PROVE  Follows(Tail(s)[k], Tail(s)[k + 1])
    BY DEF Chain
  <2>1. /\ k + 1 \in 1 .. Len(s) - 1 /\ k \in 1 .. Len(s) - 1
    BY SeqTail
  <2>2. Tail(s)[k] = s[k + 1] /\ Tail(s)[k + 1] = s[k + 2]
    BY <2>1, SeqTail
  <2>3. QED
    BY <2>1, <2>2 DEF Chain
<1>2. ASSUME Tail(s) # <<>>
      PROVE  /\ Follows(Head(s), Head(Tail(s)))
             /\ Tail(s)[Len(Tail(s))] = s[Len(s)]
  <2>1. Len(s) > 1 /\ Len(s) \in Nat /\ Len(Tail(s)) = Len(s) - 1
    BY <1>2, SeqTail
  <2>2. Head(Tail(s)) = s[2] /\ Head(s) = s[1]
    BY <1>2, <2>1, SeqTail
  <2>3. Follows(s[1], s[1 + 1])
    BY <2>1 DEF Chain
  <2>4. QED
    BY <2>1, <2>2, <2>3, SeqTail
<1>3. QED
  BY <1>1, <1>2

LEMMA ChainConcat ==
    ASSUME NEW S, NEW s \in Seq(S), NEW x \in S, NEW y \in S, Chain(s),
           s # <<>> => Follows(s[Len(s)], x), Follows(x, y)
    PROVE  LET t == s \o <<x, y>> IN
           /\ Chain(t) /\ t \in Seq(S) /\ t # <<>>
           /\ Len(t) = Len(s) + 2 /\ t[Len(t)] = y
           /\ Head(t) = IF s = <<>> THEN x ELSE Head(s)
<1> DEFINE t == s \o <<x, y>>
<1>1. <<x, y>> \in Seq(S) /\ Len(<<x, y>>) = 2 /\ Len(s) \in Nat
  BY TwoMessages, LenProperties
<1>2. /\ t \in Seq(S) /\ Len(t) = Len(s) + 2
      /\ \A i \in 1 .. Len(s) + 2 :
           t[i] = IF i <= Len(s) THEN s[i] ELSE <<x, y>>[i - Len(s)]
  BY <1>1, ConcatProperties
<1>3. t[Len(s) + 1] = x /\ t[Len(s) + 2] = y
  BY <1>1, <1>2
<1>4. Chain(t)
  <2> SUFFICES ASSUME NEW k \in 1 .. Len(t) - 1
               PROVE  Follows(t[k], t[k + 1])
    BY DEF Chain
  <2>1. CASE k < Len(s)
    BY <1>1, <1>2, <2>1 DEF Chain
  <2>2. CASE k = Len(s)
    <3>1. t[k] = s[Len(s)] /\ t[k + 1] = x /\ s # <<>>
      BY <1>1, <1>2, <1>3, <2>2
    <3>2. QED
      BY <3>1
  <2>3. CASE k = Len(s) + 1
    BY <1>1, <1>3, <2>3
  <2>4. QED
    BY <1>1, <1>2, <2>1, <2>2, <2>3
<1>5. t # <<>> /\ Head(t) = t[1]
  BY <1>1, <1>2, SeqTail
<1>6. Head(t) = IF s = <<>> THEN x ELSE Head(s)
  BY <1>1, <1>2, <1>3, <1>5, SeqTail
<1>7. QED
  BY <1>2, <1>3, <1>4, <1>5, <1>6

\* A file the client sends
LEMMA FileMessagesAre ==
    ASSUME ClientOK
    PROVE  LET size == <<"size", Size(client[filename])>>
               data == <<"data", client[filename]>>
           IN FileMessages(filename) =
                IF Size(client[filename]) = 0 \/ filename \in unreadable
                THEN <<size>> ELSE <<size, data>>
  BY Pair, Single DEF FileMessages
-----------------------------------------------------------------------------
(* The situation after a step of the client *)

LEMMA BehindTell ==
    ASSUME Behind(<<>>), NEW message, Tell(<<message>>), UNCHANGED svars
    PROVE  Behind(<<message>>)'
<1>1. CASE toServer = <<>> /\ (spc = "command" \/ (spc = "mget" /\ files = {}))
  <2>1. toServer' = <<message>>
    BY <1>1, Single DEF Tell
  <2>2. QED
    BY <1>1, <2>1 DEF Behind, svars
<1>2. CASE /\ toServer = <<No>> \o <<>>
           /\ \/ spc \in {"put_overwrite", "get_overwrite"}
              \/ spc = "mget_overwrite" /\ files = {}
  <2>1. toServer' = <<No>> \o <<message>>
    BY <1>2, Single DEF Tell
  <2>2. QED
    BY <1>2, <2>1 DEF Behind, svars
<1>3. QED
  BY <1>1, <1>2 DEF Behind

LEMMA AskingNext ==
    ASSUME Resting, NEW action \in {"put", "get", "mget", "quit"},
           NEW f \in File, Tell(<<<<"command", <<action, f>>>>>>),
           filename' = f, cpc' = Awaited(action),
           (mode' = "mget") = (action = "mget"), UNCHANGED <<toClient, svars>>
    PROVE  Asking(action)'
<1>1. Behind(<<<<"command", <<action, f>>>>>>)'
  BY BehindTell DEF Resting
<1>2. QED
  BY <1>1 DEF Asking, Resting, Behind

LEMMA UserSituation ==
    ASSUME FtpInv, mode \in Modes, Resting, UserStep \/ MPutNext
    PROVE  Situation' /\ mode' \in Modes
<1> USE DEF Modes
<1>1. PICK g \in File : g = filename
  BY DEF FtpInv, ClientOK
<1>2. ASSUME NEW action \in {"put", "get", "mget", "quit"}, NEW f \in File,
             Choose(<<action, f>>, IF action = "mget" THEN "mget" ELSE "one",
                    Awaited(action))
      PROVE  Situation' /\ mode' \in Modes
  <2>1. /\ Tell(<<<<"command", <<action, f>>>>>>)
        /\ filename' = f /\ cpc' = Awaited(action)
        /\ UNCHANGED <<toClient, svars>>
        /\ mode' = IF action = "mget" THEN "mget" ELSE "one"
    BY <1>2 DEF Choose
  <2>2. (mode' = "mget") = (action = "mget")
    BY <2>1
  <2>3. Asking(action)'
    BY <2>1, <2>2, AskingNext
  <2>4. QED
    BY <2>1, <2>3 DEF Situation
<1>3. CASE MPut
  BY <1>3 DEF MPut, Resting, Situation, Behind, svars
<1>4. CASE MGet \/ Quit
  BY <1>1, <1>2, <1>4 DEF MGet, Quit, Awaited
<1>5. ASSUME NEW f \in File, Put(f) \/ Get(f)
      PROVE  Situation' /\ mode' \in Modes
  BY <1>2, <1>5 DEF Put, Get, Awaited
<1>6. CASE MPutNext
  <2>1. CASE lines = {}
    BY <1>6, <2>1 DEF MPutNext, Resting, Situation, Behind, svars
  <2>2. ASSUME NEW f \in lines, Tell(<<<<"command", <<"put", f>>>>>>),
               filename' = f, cpc' = "put_exists"
        PROVE  Situation' /\ mode' \in Modes
    <3>1. f \in File
      BY DEF FtpInv, ClientOK
    <3>2. mode' = mode /\ mode # "mget" /\ UNCHANGED <<toClient, svars>>
      BY <1>6 DEF MPutNext, Resting
    <3>3. (mode' = "mget") = ("put" = "mget")
      BY <3>2
    <3>4. Asking("put")'
      BY <2>2, <3>1, <3>2, <3>3, AskingNext DEF Awaited
    <3>5. QED
      BY <3>2, <3>4 DEF Situation
  <2>3. QED
    BY <1>6, <2>1, <2>2 DEF MPutNext
<1>7. QED
  BY <1>3, <1>4, <1>5, <1>6 DEF UserStep

\* The end of a transfer that is not part of an MGET
LEMMA RestAfter ==
    ASSUME mode \in Modes, mode # "mget", NEW answer, NEW exists,
           Done(answer, exists), UNCHANGED mode,
           toClient' = <<>>, Behind(<<>>)'
    PROVE  Situation' /\ mode' \in Modes
  BY DEF Modes, Done, Situation, Resting

LEMMA PutSituation ==
    ASSUME FtpInv, mode \in Modes, Situation, PutExists \/ PutStatus
    PROVE  Situation' /\ mode' \in Modes
<1> USE DEF Hear
<1>1. CASE PutExists
  <2> USE <1>1 DEF PutExists
  <2>1. PutAnswered
    BY DEF Situation, Resting, PutSending, PutReported, GetAnswered,
       GetSending, InList, ListSending, Quitting, Asking, Awaited, Agreed
  <2>2. toClient' = <<>> /\ Heard = ExistsHere(filename)
    BY <2>1, Single DEF PutAnswered, Read, Heard
  <2>3. PICK answer \in {1, 2} :
          /\ Ask(Heard, answer)
          /\ Tell(<<<<"overwrite", answer>>>> \o
                  IF answer = 1 THEN FileMessages(filename) ELSE <<>>)
          /\ IF answer = 1
             THEN /\ cpc' = "put_status"
                  /\ overwrite' = answer
                  /\ fileExists' = Heard
                  /\ UNCHANGED num_files
             ELSE Done(answer, Heard)
    OBVIOUS
  <2>4. answer \in {1, 2}
    BY <2>3
  <2>5. CASE answer = 1
    <3>1. FileMessages(filename)' = FileMessages(filename)
      BY DEF FileMessages
    <3>2. FileMessages(filename) \in Seq(ToServerMessage)
      BY FileMessagesOK DEF FtpInv, ClientOK
    <3>3. Yes \in ToServerMessage
      BY DEF Yes, ToServerMessage
    <3>4. toServer' = <<Yes>> \o FileMessages(filename)
      BY <2>1, <2>3, <2>5, <3>2, <3>3, OneMessage, ConcatProperties,
         ConcatEmptySeq DEF Tell, PutAnswered, Yes
    <3>5. Agreed'
      BY <2>1, <2>2, <2>3, <2>5
         DEF Agreed, PutAnswered, ExistsHere, Ask, svars
    <3>6. PutSending'
      BY <2>1, <2>2, <3>1, <3>4, <3>5 DEF PutSending, PutAnswered, svars
    <3>7. QED
      BY <3>6 DEF Situation
  <2>6. CASE answer = 2
    <3>1. Tell(<<No>> \o <<>>) /\ Done(answer, Heard)
      BY <2>3, <2>6 DEF No
    <3>2. toServer' = <<No>>
      BY <2>1, <3>1, Single DEF Tell, PutAnswered
    <3>3. Behind(<<>>)'
      BY <2>1, <3>2, Single DEF Behind, PutAnswered, svars
    <3>4. QED
      BY <2>1, <2>2, <3>1, <3>3, RestAfter DEF PutAnswered
  <2>7. QED
    BY <2>4, <2>5, <2>6
<1>2. CASE PutStatus
  <2> USE <1>2 DEF PutStatus
  <2>1. PutReported
    BY DEF Situation, Resting, PutAnswered, PutSending, GetAnswered,
       GetSending, InList, ListSending, Quitting, Asking, Awaited
  <2>2. toClient' = <<>> /\ Behind(<<>>)'
    BY <2>1, Single DEF PutReported, Read, Behind, svars
  <2>3. QED
    BY <2>1, <2>2, RestAfter DEF PutReported
<1>3. QED
  BY <1>1, <1>2

LEMMA Counts ==
    ASSUME NEW T \in SUBSET File, NEW s \in Seq(ToClientMessage)
    PROVE  /\ Cardinality(T) \in Nat /\ Len(s) \in Nat
           /\ Cardinality(T) = 0 => T = {}
           /\ Len(s) = 0 => s = <<>>
  BY FS_Subset, FS_CardinalityType, FS_EmptySet, EmptySeq, LenProperties

\* What reading a message of an MGET leaves.
LEMMA MGetRead ==
    ASSUME FtpInv, InList, toClient # <<>>, Read, UNCHANGED svars
    PROVE  /\ Len(toClient') = Len(toClient) - 1 /\ Len(toClient) \in Nat
           /\ Chain(toClient')
           /\ toClient' # <<>> =>
                /\ Follows(Head(toClient), Head(toClient'))
                /\ toServer' = toServer => AfterLast'
           /\ toClient' = <<>> =>
                /\ toServer = <<>> /\ Head(toClient)[1] # "name"
                /\ IF Head(toClient)[1] = "size" /\ Head(toClient)[2] = 1
                   THEN spc = "mget_overwrite"
                   ELSE spc = "mget" \/ (spc = "command" /\ files = {})
<1>1. toClient \in Seq(ToClientMessage) /\ toClient' = Tail(toClient)
  BY DEF FtpInv, MessagesOK, Read
<1>2. /\ Len(toClient') = Len(toClient) - 1 /\ Len(toClient) \in Nat \ {0}
      /\ toClient' # <<>> <=> Len(toClient) > 1
      /\ Head(toClient) = toClient[1]
  BY <1>1, SeqTail
<1>3. Chain(toClient) /\ AfterLast
  BY DEF InList
<1>4. /\ Chain(toClient')
      /\ toClient' # <<>> =>
           /\ Follows(Head(toClient), Head(toClient'))
           /\ toClient'[Len(toClient')] = toClient[Len(toClient)]
  BY <1>1, <1>3, ChainTail
<1>5. toClient' # <<>> /\ toServer' = toServer => AfterLast'
  BY <1>3, <1>4 DEF AfterLast, svars
<1>6. toClient' = <<>> => toClient[Len(toClient)] = Head(toClient)
  BY <1>2
<1>7. QED
  BY <1>2, <1>3, <1>4, <1>5, <1>6 DEF AfterLast

\* The end of a file of an MGET
LEMMA NextAfter ==
    ASSUME mode = "mget", num_files \in Nat \ {0}, FtpInv',
           NEW answer, NEW exists, Done(answer, exists), UNCHANGED mode,
           Chain(toClient'), AfterLast',
           toClient' # <<>> => Head(toClient')[1] = "name",
           Len(toClient') + 2 * Cardinality(files') = 2 * num_files - 2
    PROVE  Situation' /\ mode' \in Modes
<1>1. /\ Cardinality(files') \in Nat /\ Len(toClient') \in Nat
      /\ Cardinality(files') = 0 => files' = {}
      /\ Len(toClient') = 0 => toClient' = <<>>
  <2>1. toClient' \in Seq(ToClientMessage) /\ files' \subseteq File
    BY DEF FtpInv, ServerOK, MessagesOK
  <2>2. QED
    BY <2>1, Counts
<1>2. CASE num_files > 1
  <2>1. cpc' = "mget_name" /\ num_files' = num_files - 1
    BY <1>2 DEF Done
  <2>2. ToCome' = 2 * num_files - 2 /\ num_files' \in Nat \ {0}
    BY <1>2, <2>1 DEF ToCome
  <2>3. InList'
    BY <2>1, <2>2 DEF InList, ClientExpects
  <2>4. QED
    BY <2>3 DEF Situation, Modes
<1>3. CASE num_files = 1
  <2>1. cpc' = "menu"
    BY <1>3 DEF Done
  <2>2. toClient' = <<>> /\ files' = {}
    BY <1>1, <1>3
  <2>3. Behind(<<>>)'
    BY <2>2, Single DEF AfterLast, Behind
  <2>4. QED
    BY <2>1, <2>2, <2>3 DEF Situation, Resting, Modes
<1>4. QED
  BY <1>2, <1>3

LEMMA MGetSituation ==
    ASSUME FtpInv, FtpInv', mode \in Modes, Situation, MGetNumber \/ MGetName
    PROVE  Situation' /\ mode' \in Modes
<1> USE DEF Hear
<1>1. InList /\ toClient # <<>> /\ Read /\ UNCHANGED <<svars, toServer>>
  BY DEF Situation, Resting, PutAnswered, PutSending, PutReported,
     GetAnswered, GetSending, ListSending, Quitting, Asking, Awaited,
     MGetNumber, MGetName, Agreed
<1>2. /\ Len(toClient') = Len(toClient) - 1 /\ Len(toClient) \in Nat
      /\ Chain(toClient')
      /\ toClient' # <<>> =>
           Follows(Head(toClient), Head(toClient')) /\ AfterLast'
      /\ toClient' = <<>> =>
           /\ toServer = <<>> /\ Head(toClient)[1] # "name"
           /\ IF Head(toClient)[1] = "size" /\ Head(toClient)[2] = 1
              THEN spc = "mget_overwrite"
              ELSE spc = "mget" \/ (spc = "command" /\ files = {})
  BY <1>1, MGetRead
<1>3. /\ Len(toClient) + 2 * Cardinality(files) = ToCome /\ mode = "mget"
      /\ Cardinality(files) \in Nat
      /\ cpc # "mget_number" => num_files \in Nat \ {0}
  BY <1>1, Counts DEF InList, FtpInv, ServerOK, MessagesOK
<1>4. CASE MGetName
  <2>1. cpc' = "get_size" /\ cpc = "mget_name" /\ UNCHANGED <<mode, num_files>>
    BY <1>4 DEF MGetName
  <2>2. Head(toClient)[1] = "name"
    BY <1>4 DEF MGetName
  <2>3. toClient' # <<>> /\ Head(toClient')[1] = "size"
    BY <1>2, <2>2 DEF Follows
  <2>4. Len(toClient') + 2 * Cardinality(files') = ToCome'
    BY <1>1, <1>2, <1>3, <2>1 DEF ToCome, svars
  <2>5. InList'
    BY <1>1, <1>2, <2>1, <2>3, <2>4 DEF InList, ClientExpects
  <2>6. QED
    BY <1>3, <2>1, <2>5 DEF Situation, Modes
<1>5. CASE MGetNumber
  <2>1. /\ cpc = "mget_number" /\ UNCHANGED mode /\ num_files' = Heard
        /\ cpc' = IF Heard > 0 THEN "mget_name" ELSE "menu"
        /\ Head(toClient)[1] = "number" /\ Heard = Head(toClient)[2]
    BY <1>5 DEF MGetNumber, Heard
  <2>2. Head(toClient) \in ToClientMessage
    BY <1>1, HeadTailProperties DEF FtpInv, MessagesOK
  <2>3. Heard \in Nat
    BY <2>1, <2>2 DEF ToClientMessage
  <2>4. Len(toClient') + 2 * Cardinality(files) = 2 * Heard
    <3>1. ToCome = 2 * Heard + 1
      BY <2>1 DEF ToCome
    <3>2. QED
      BY <1>2, <1>3, <2>3, <3>1
  <2>5. AfterLast'
    BY <1>1, <1>2, <2>1 DEF AfterLast, svars
  <2>6. toClient' # <<>> => Head(toClient')[1] = "name"
    BY <1>2, <2>1 DEF Follows
  <2>7. CASE Heard > 0
    <3>1. InList'
      BY <1>1, <1>2, <1>3, <2>1, <2>3, <2>4, <2>5, <2>6, <2>7
         DEF InList, ClientExpects, ToCome, svars
    <3>2. QED
      BY <1>3, <2>1, <3>1 DEF Situation, Modes
  <2>8. CASE Heard = 0
    <3>1. toClient' \in Seq(ToClientMessage) /\ files \subseteq File
      BY DEF FtpInv, ServerOK, MessagesOK
    <3>2. /\ Cardinality(files) = 0 => files = {}
          /\ Len(toClient') \in Nat
          /\ Len(toClient') = 0 => toClient' = <<>>
      BY <3>1, Counts
    <3>3. files = {} /\ toClient' = <<>>
      BY <1>3, <2>4, <2>8, <3>2
    <3>4. Behind(<<>>)'
      BY <1>1, <2>5, <3>3, Single DEF AfterLast, Behind, svars
    <3>5. QED
      BY <1>3, <2>1, <2>8, <3>3, <3>4 DEF Situation, Resting, Modes
  <2>9. QED
    BY <2>3, <2>7, <2>8
<1>6. QED
  BY <1>4, <1>5

\* The user's answer to whether a file may be overwritten
LEMMA AnswerGiven ==
    ASSUME toServer = <<>>, NEW answer, answer \in {1, 2},
           Tell(<<<<"overwrite", answer>>>>)
    PROVE  toServer' = IF answer = 1 THEN <<Yes>> ELSE <<No>>
<1>1. toServer' = <<<<"overwrite", answer>>>>
  BY Single DEF Tell
<1>2. QED
  BY <1>1 DEF Yes, No

LEMMA GetSizeAlone ==
    ASSUME FtpInv, mode \in Modes, GetAnswered, GetSize
    PROVE  Situation' /\ mode' \in Modes
<1> USE DEF GetSize
<1>1. PICK size \in {0, 1} :
        /\ toClient = <<<<"size", size>>>>
        /\ spc = IF size = 0 THEN "command" ELSE "get_overwrite"
  BY DEF GetAnswered
<1>2. /\ toClient' = <<>> /\ Heard = size /\ UNCHANGED <<mode, svars>>
      /\ toServer = <<>> /\ mode # "mget"
  BY <1>1, Single DEF GetAnswered, Read, Heard
<1>3. CASE Nothing /\ Done(overwrite, fileExists) /\ UNCHANGED toServer
  <2>1. Behind(<<>>)'
    BY <1>1, <1>2, <1>3 DEF Nothing, Behind, svars
  <2>2. QED
    BY <1>2, <1>3, <2>1, RestAfter
<1>4. ASSUME NEW exists, NEW answer \in Answer(Exists(client, filename)),
             ~Nothing, Tell(<<<<"overwrite", answer>>>>),
             IF answer = 1 THEN cpc' = "get_data" ELSE Done(answer, exists)
      PROVE  Situation' /\ mode' \in Modes
  <2>1. answer \in {1, 2} /\ spc = "get_overwrite"
    BY <1>1, <1>2, <1>4, AnswerOK DEF FtpInv, Nothing
  <2>2. toServer' = IF answer = 1 THEN <<Yes>> ELSE <<No>>
    BY <1>2, <1>4, <2>1, AnswerGiven
  <2>3. CASE answer = 1
    BY <1>2, <1>4, <2>1, <2>2, <2>3 DEF GetSending, Situation, svars
  <2>4. CASE answer = 2
    <3>1. Behind(<<>>)'
      BY <1>2, <2>1, <2>2, <2>4, Single DEF Behind, svars
    <3>2. QED
      BY <1>2, <1>4, <2>4, <3>1, RestAfter
  <2>5. QED
    BY <2>1, <2>3, <2>4
<1>5. QED
  BY <1>3, <1>4

LEMMA GetSizeInList ==
    ASSUME FtpInv, FtpInv', mode \in Modes, InList, GetSize
    PROVE  Situation' /\ mode' \in Modes
<1> USE DEF GetSize, Hear
<1>1. /\ Len(toClient') = Len(toClient) - 1 /\ Len(toClient) \in Nat
      /\ Chain(toClient')
      /\ toClient' # <<>> => /\ Follows(Head(toClient), Head(toClient'))
                             /\ toServer' = toServer => AfterLast'
      /\ toClient' = <<>> =>
           /\ toServer = <<>>
           /\ IF Head(toClient)[1] = "size" /\ Head(toClient)[2] = 1
              THEN spc = "mget_overwrite"
              ELSE spc = "mget" \/ (spc = "command" /\ files = {})
  BY MGetRead
<1>2. /\ mode = "mget" /\ num_files \in Nat \ {0} /\ Cardinality(files) \in Nat
      /\ Len(toClient) + 2 * Cardinality(files) = 2 * num_files - 1
  BY Counts DEF InList, ToCome, FtpInv, ServerOK, MessagesOK
<1>3. /\ Head(toClient)[1] = "size" /\ Head(toClient)[2] \in {0, 1}
      /\ Heard = Head(toClient)[2]
  <2>1. Head(toClient) \in ToClientMessage
    BY HeadTailProperties DEF FtpInv, MessagesOK
  <2>2. QED
    BY <2>1 DEF ToClientMessage, Heard
<1>4. UNCHANGED <<mode, svars>> /\ files' = files
  BY DEF svars
<1>5. Len(toClient') + 2 * Cardinality(files') = 2 * num_files - 2
  BY <1>1, <1>2, <1>4
<1>6. CASE Nothing /\ Done(overwrite, fileExists) /\ UNCHANGED toServer
  <2>1. toClient' # <<>> => Head(toClient')[1] = "name"
    BY <1>1, <1>3 DEF Follows
  <2>2. AfterLast'
    BY <1>1, <1>3, <1>4, <1>6 DEF AfterLast, Nothing, svars
  <2>3. QED
    BY <1>1, <1>2, <1>4, <1>5, <1>6, <2>1, <2>2, NextAfter
<1>7. ASSUME NEW exists, NEW answer \in Answer(Exists(client, filename)),
             ~Nothing, Tell(<<<<"overwrite", answer>>>>),
             IF answer = 1
             THEN cpc' = "get_data" /\ UNCHANGED num_files
             ELSE Done(answer, exists)
      PROVE  Situation' /\ mode' \in Modes
  <2>1. answer \in {1, 2} /\ Head(toClient)[2] = 1
    BY <1>3, <1>7, AnswerOK DEF FtpInv, Nothing
  <2>2. toClient' = <<>> /\ toServer = <<>> /\ spc = "mget_overwrite"
    BY <1>1, <1>3, <2>1 DEF Follows
  <2>3. toServer' = IF answer = 1 THEN <<Yes>> ELSE <<No>>
    BY <1>7, <2>1, <2>2, AnswerGiven
  <2>4. CASE answer = 1
    <3>1. Len(toClient') = 0
      BY <2>2
    <3>2. Cardinality(files') = num_files - 1
      BY <1>2, <1>4, <1>5, <3>1
    <3>3. ListSending'
      BY <1>2, <1>4, <1>7, <2>2, <2>3, <2>4, <3>2 DEF ListSending, svars
    <3>4. QED
      BY <1>2, <1>4, <3>3 DEF Situation, Modes
  <2>5. CASE answer = 2
    <3>1. AfterLast'
      BY <1>4, <2>2, <2>3, <2>5 DEF AfterLast, svars
    <3>2. Done(answer, exists)
      BY <1>7, <2>5
    <3>3. QED
      BY <1>1, <1>2, <1>4, <1>5, <2>2, <3>1, <3>2, NextAfter
  <2>6. QED
    BY <2>1, <2>4, <2>5
<1>8. QED
  BY <1>6, <1>7

LEMMA GetSituation ==
    ASSUME FtpInv, FtpInv', mode \in Modes, Situation,
           GetSize \/ GetData \/ Exit
    PROVE  Situation' /\ mode' \in Modes
<1> USE DEF Hear
<1>1. CASE GetSize
  <2>1. GetAnswered \/ InList
    BY <1>1 DEF GetSize, Situation, Resting, PutAnswered, PutSending,
       PutReported, GetSending, ListSending, Quitting, Asking, Awaited, Agreed
  <2>2. QED
    BY <1>1, <2>1, GetSizeAlone, GetSizeInList
<1>2. CASE GetData
  <2> USE <1>2 DEF GetData
  <2>1. CASE GetSending
    <3>1. toClient' = <<>> /\ Behind(<<>>)'
      BY <2>1, Single DEF GetSending, Read, Behind, svars
    <3>2. QED
      BY <2>1, <3>1, RestAfter DEF GetSending
  <2>2. CASE InList
    <3>1. /\ Len(toClient') = Len(toClient) - 1 /\ Len(toClient) \in Nat
          /\ Chain(toClient')
          /\ toClient' # <<>> =>
               Follows(Head(toClient), Head(toClient')) /\ AfterLast'
          /\ toClient' = <<>> =>
               /\ toServer = <<>>
               /\ IF Head(toClient)[1] = "size" /\ Head(toClient)[2] = 1
                  THEN spc = "mget_overwrite"
                  ELSE spc = "mget" \/ (spc = "command" /\ files = {})
      BY <2>2, MGetRead
    <3>2. /\ mode = "mget" /\ num_files \in Nat \ {0}
          /\ Cardinality(files) \in Nat
          /\ Len(toClient) + 2 * Cardinality(files) = 2 * num_files - 1
      BY <2>2, Counts DEF InList, ToCome, FtpInv, ServerOK, MessagesOK
    <3>3. files' = files /\ UNCHANGED <<mode, svars, toServer>>
      BY DEF svars
    <3>4. toClient' # <<>> => Head(toClient')[1] = "name"
      BY <3>1 DEF Follows
    <3>5. AfterLast'
      BY <3>1, <3>3 DEF AfterLast, svars
    <3>6. Len(toClient') + 2 * Cardinality(files') = 2 * num_files - 2
      BY <3>1, <3>2, <3>3
    <3>7. QED
      BY <3>1, <3>2, <3>3, <3>4, <3>5, <3>6, NextAfter
  <2>3. GetSending \/ InList
    BY DEF Situation, Resting, PutAnswered, PutSending, PutReported,
       GetAnswered, ListSending, Quitting, Asking, Awaited, Agreed
  <2>4. QED
    BY <2>1, <2>2, <2>3
<1>3. CASE Exit
  <2> USE <1>3 DEF Exit
  <2>1. Quitting
    BY DEF Situation, Resting, PutAnswered, PutSending, PutReported,
       GetAnswered, GetSending, InList, ListSending, Asking, Awaited, Agreed
  <2>2. Quitting'
    BY <2>1, Single DEF Quitting, Read, svars
  <2>3. QED
    BY <2>2 DEF Situation
<1>4. QED
  BY <1>1, <1>2, <1>3

-----------------------------------------------------------------------------
(* The situation after a step of the server *)

LEMMA BehindNext ==
    ASSUME NEW command, NEW rest, rest \in {<<>>, <<<<"command", command>>>>},
           Behind(rest), toClient = <<>>, cpc # "killed", ServerStep
    PROVE  \/ Behind(rest)' /\ UNCHANGED toClient
           \/ Command /\ toServer = rest /\ rest # <<>>
<1> USE DEF Recv, AtEnd, Drop, Received
<1>1. CASE /\ toServer = rest
           /\ spc = "command" \/ (spc = "mget" /\ files = {})
  <2>1. CASE spc = "command"
    <3>1. Command
      BY <2>1 DEF ServerStep, PutOverwrite, PutSize, PutData, SendFile,
         MGetNext
    <3>2. toServer # <<>>
      BY <3>1 DEF Command
    <3>3. QED
      BY <1>1, <3>1, <3>2
  <2>2. CASE spc = "mget" /\ files = {}
    <3>1. MGetNext
      BY <2>2 DEF ServerStep, Command, PutOverwrite, PutSize, PutData, SendFile
    <3>2. QED
      BY <1>1, <2>2, <3>1 DEF MGetNext, Behind
  <2>3. QED
    BY <1>1, <2>1, <2>2
<1>2. CASE /\ toServer = <<No>> \o rest
           /\ \/ spc \in {"put_overwrite", "get_overwrite"}
              \/ spc = "mget_overwrite" /\ files = {}
  <2>1. toServer # <<>> /\ Head(toServer) = No /\ Tail(toServer) = rest
    <3>1. CASE rest = <<>>
      BY <1>2, <3>1, Single
    <3>2. CASE rest = <<<<"command", command>>>>
      <4>1. <<No>> \o rest = <<No, <<"command", command>>>>
        BY <3>2, Pair
      <4>2. QED
        BY <1>2, <3>2, <4>1, Two
    <3>3. QED
      BY <3>1, <3>2
  <2>2. PutOverwrite \/ SendFile
    BY <1>2 DEF ServerStep, Command, PutSize, PutData, MGetNext
  <2>3. toServer' = rest /\ soverwrite' = 2
    <3>1. Drop /\ soverwrite' = Received(soverwrite)
      BY <2>2 DEF PutOverwrite, SendFile
    <3>2. QED
      BY <2>1, <3>1 DEF No
  <2>4. UNCHANGED toClient
    BY <2>2, <2>3 DEF PutOverwrite, SendFile, Reply
  <2>5. /\ UNCHANGED files
        /\ spc' = IF spc = "mget_overwrite" THEN "mget" ELSE "command"
    <3>1. CASE PutOverwrite
      BY <2>3, <3>1 DEF PutOverwrite
    <3>2. CASE SendFile
      BY <1>2, <3>2 DEF SendFile
    <3>3. QED
      BY <2>2, <3>1, <3>2
  <2>6. QED
    BY <1>2, <2>3, <2>4, <2>5 DEF Behind
<1>3. QED
  BY <1>1, <1>2 DEF Behind

\* The server reads a command.
LEMMA CommandSituation ==
    ASSUME FtpInv, FtpInv', NEW action \in {"put", "get", "mget", "quit"},
           Asking(action), Command, cpc # "killed",
           toServer = <<<<"command", <<action, filename>>>>>>
    PROVE  Situation'
<1>1. /\ cpc' = Awaited(action) /\ (mode' = "mget") = (action = "mget")
      /\ filename' = filename /\ server' = server
      /\ toClient = <<>>
  BY DEF Asking, Command, cvars
<1>2. toServer' = <<>> /\ buffer' = <<action, filename>>
  BY Single DEF Command, AtEnd, Received, Drop
<1>3. \A messages : Reply(messages) => toClient' = <<>> \o messages
  BY <1>1 DEF Reply
<1>4. CASE action = "put"
  <2>1. Reply(<<<<"exists", ExistsHere(filename)>>>>) /\ spc' = "put_overwrite"
    BY <1>2, <1>4 DEF Command
  <2>2. toClient' = <<<<"exists", ExistsHere(filename)>>>>
    BY <1>3, <2>1, Single
  <2>3. ExistsHere(filename)' = ExistsHere(filename)
    BY <1>1 DEF ExistsHere, Exists
  <2>4. filename' \in there' => Exists(server', filename')
    BY <1>1 DEF Command, Listing
  <2>5. PutAnswered'
    BY <1>1, <1>2, <1>4, <2>1, <2>2, <2>3, <2>4 DEF PutAnswered, Awaited
  <2>6. QED
    BY <2>5 DEF Situation
<1>5. CASE action = "get"
  <2>1. /\ Reply(<<<<"size", Size(server[filename])>>>>)
        /\ spc' = IF Size(server[filename]) = 0 THEN "command"
                  ELSE "get_overwrite"
    BY <1>2, <1>5 DEF Command
  <2>2. toClient' = <<<<"size", Size(server[filename])>>>>
    BY <1>3, <2>1, Single
  <2>3. GetAnswered'
    BY <1>1, <1>2, <1>5, <2>1, <2>2, SizeOK DEF GetAnswered, Awaited
  <2>4. QED
    BY <2>3 DEF Situation
<1>6. CASE action = "mget"
  <2>1. /\ Reply(<<<<"number", ListSize>>>>)
        /\ files' = Listing(server) /\ spc' = "mget"
    BY <1>2, <1>6 DEF Command
  <2>2. toClient' = <<<<"number", ListSize>>>>
    BY <1>3, <2>1, Single
  <2>3. /\ Len(toClient') = 1 /\ toClient'[1] = <<"number", ListSize>>
        /\ Head(toClient') = <<"number", ListSize>> /\ toClient' # <<>>
    BY <2>2, Single
  <2>4. Chain(toClient') /\ AfterLast'
    BY <1>2, <2>1, <2>3 DEF Chain, AfterLast
  <2>5. ToCome' = 2 * ListSize + 1
    BY <1>1, <1>6, <2>3 DEF ToCome, Heard, Awaited
  <2>6. Cardinality(files') = ListSize /\ ListSize \in Nat
    BY <2>1, Counts, EmptySeq DEF ListSize, Listing
  <2>7. Len(toClient') + 2 * Cardinality(files') = ToCome'
    BY <2>3, <2>5, <2>6
  <2>8. InList'
    BY <1>1, <1>6, <2>3, <2>4, <2>7 DEF InList, Awaited, ClientExpects
  <2>9. QED
    BY <2>8 DEF Situation
<1>7. CASE action = "quit"
  <2>1. Reply(<<<<"closed", 1>>>>) /\ spc' = "exited"
    BY <1>2, <1>7 DEF Command
  <2>2. toClient' = <<<<"closed", 1>>>>
    BY <1>3, <2>1, Single
  <2>3. Quitting'
    BY <1>1, <1>2, <1>7, <2>1, <2>2 DEF Quitting, Awaited
  <2>4. QED
    BY <2>3 DEF Situation
<1>8. QED
  BY <1>4, <1>5, <1>6, <1>7

LEMMA BehindSituation ==
    ASSUME FtpInv, FtpInv', cpc # "killed", ServerStep,
           \/ Resting
           \/ \E action \in {"put", "get", "mget", "quit"} : Asking(action)
    PROVE  Situation'
<1>1. UNCHANGED <<cpc, mode, filename>>
  BY DEF ServerStep, Command, PutOverwrite, PutSize, PutData, SendFile,
     MGetNext, cvars
<1>2. CASE Resting
  <2>1. Behind(<<>>)' /\ UNCHANGED toClient
    BY <1>2, BehindNext DEF Resting
  <2>2. QED
    BY <1>1, <1>2, <2>1 DEF Resting, Situation
<1>3. ASSUME NEW action \in {"put", "get", "mget", "quit"}, Asking(action)
      PROVE  Situation'
  <2>1. PICK f \in File : f = filename
    BY DEF FtpInv, ClientOK
  <2> DEFINE rest == <<<<"command", <<action, f>>>>>>
  <2>2. toClient = <<>> /\ Behind(rest)
    BY <1>3, <2>1 DEF Asking
  <2>3. CASE Behind(rest)' /\ UNCHANGED toClient
    <3>1. Asking(action)'
      BY <1>1, <1>3, <2>1, <2>3 DEF Asking, Behind
    <3>2. QED
      BY <3>1 DEF Situation
  <2>4. CASE Command /\ toServer = rest
    BY <1>3, <2>1, <2>4, CommandSituation
  <2>5. QED
    BY <2>2, <2>3, <2>4, BehindNext
<1>4. QED
  BY <1>2, <1>3

\* A file that arrives at the server
LEMMA SendingSituation ==
    ASSUME FtpInv, PutSending, ServerStep, cpc # "killed"
    PROVE  Situation'
<1> USE DEF Recv, AtEnd, Drop, Received
<1> DEFINE size == <<"size", Size(client[filename])>>
           data == <<"data", client[filename]>>
<1>1. FileMessages(filename) =
        IF Size(client[filename]) = 0 \/ filename \in unreadable
        THEN <<size>> ELSE <<size, data>>
  BY FileMessagesAre DEF FtpInv
<1>2. UNCHANGED <<cpc, mode, filename, agreed, client, unreadable>>
  BY DEF ServerStep, Command, PutOverwrite, PutSize, PutData, SendFile,
     MGetNext, cvars
<1>3. /\ FileMessages(filename)' = FileMessages(filename)
      /\ Size(client[filename])' = Size(client[filename])
  BY <1>2 DEF FileMessages
<1>4. server \in [File -> Clean \cup {"garbage"}] /\ filename \in File
  BY DEF FtpInv, ServerOK, ClientOK
<1>5. Agreed /\ toClient = <<>> /\ buffer = <<"put", filename>>
  BY DEF PutSending, Agreed
<1>6. CASE /\ spc = "put_overwrite"
           /\ toServer = <<Yes>> \o FileMessages(filename)
  <2>1. PutOverwrite
    BY <1>6 DEF ServerStep, Command, PutSize, PutData, SendFile, MGetNext
  <2>2. /\ toServer # <<>> /\ Head(toServer) = Yes
        /\ Tail(toServer) = FileMessages(filename)
    <3>1. /\ FileMessages(filename) \in Seq(ToServerMessage)
          /\ Yes \in ToServerMessage
      BY <1>4, FileMessagesOK DEF FtpInv, ToServerMessage, Yes
    <3>2. QED
      BY <1>6, <3>1, Cons
  <2>3. /\ toServer' = FileMessages(filename)
        /\ server' = Written(filename, "empty") /\ spc' = "put_size"
        /\ UNCHANGED <<buffer, there, toClient>>
    BY <1>5, <2>1, <2>2 DEF PutOverwrite, Yes
  <2>4. Agreed'
    BY <1>2, <1>5, <2>3 DEF Agreed
  <2>5. PutSending'
    BY <1>3, <1>5, <2>3, <2>4 DEF PutSending
  <2>6. QED
    BY <2>5 DEF Situation
<1>7. CASE spc = "put_size" /\ toServer = FileMessages(filename)
  <2>1. PutSize
    BY <1>7 DEF ServerStep, Command, PutOverwrite, PutData, SendFile, MGetNext
  <2>2. /\ toServer # <<>> /\ Head(toServer) = size
        /\ Tail(toServer) =
             IF Size(client[filename]) = 0 \/ filename \in unreadable
             THEN <<>> ELSE <<data>>
    BY <1>1, <1>7, Single, Two
  <2>3. /\ toServer' = Tail(toServer) /\ UNCHANGED <<server, buffer, there>>
        /\ IF Size(client[filename]) = 0
           THEN /\ Reply(<<<<"status", IF buffer[2] \in Unwritable
                                      THEN 1 ELSE 0>>>>)
                /\ spc' = "command"
           ELSE spc' = "put_data" /\ UNCHANGED toClient
    BY <2>1, <2>2 DEF PutSize
  <2>4. CASE Size(client[filename]) = 0
    <3>1. toClient' =
            <<<<"status", IF filename \in Unwritable THEN 1 ELSE 0>>>>
      BY <1>5, <2>3, <2>4, Single DEF Reply
    <3>2. PutReported'
      BY <1>2, <1>5, <2>2, <2>3, <2>4, <3>1 DEF PutReported, Agreed
    <3>3. QED
      BY <3>2 DEF Situation
  <2>5. CASE Size(client[filename]) = 1
    <3>1. Agreed'
      BY <1>2, <1>5, <2>3 DEF Agreed
    <3>2. PutSending'
      BY <1>2, <1>3, <1>5, <2>2, <2>3, <2>5, <3>1 DEF PutSending
    <3>3. QED
      BY <3>2 DEF Situation
  <2>6. QED
    BY <2>4, <2>5, SizeOK
<1>8. CASE /\ spc = "put_data"
           /\ toServer = IF filename \in unreadable THEN <<>> ELSE <<data>>
  <2>1. PutData
    BY <1>8 DEF ServerStep, Command, PutOverwrite, PutSize, SendFile, MGetNext
  <2>2. toServer # <<>>
    BY <2>1 DEF PutData
  <2>3. Head(toServer) = data /\ Tail(toServer) = <<>>
    BY <1>8, <2>2, Single
  <2>4. /\ toServer' = <<>> /\ spc' = "command"
        /\ server' = Written(filename, client[filename])
        /\ Reply(<<<<"status", 1>>>>)
    BY <1>5, <2>1, <2>2, <2>3 DEF PutData
  <2>5. toClient' = <<<<"status", 1>>>>
    BY <1>5, <2>4, Single DEF Reply
  <2>6. filename \in Unwritable \/ server'[filename] = client[filename]
    BY <1>4, <2>4 DEF Written
  <2>7. PutReported'
    BY <1>2, <1>5, <2>4, <2>5, <2>6 DEF PutReported, Agreed
  <2>8. QED
    BY <2>7 DEF Situation
<1>9. QED
  BY <1>6, <1>7, <1>8 DEF PutSending

\* A file that the server sends
LEMMA DataSent ==
    ASSUME FtpInv, spc \in {"get_overwrite", "mget_overwrite"},
           toServer = <<Yes>>, toClient = <<>>, ServerStep, cpc # "killed"
    PROVE  /\ toServer' = <<>> /\ UNCHANGED files
           /\ spc' = IF spc = "get_overwrite" THEN "command" ELSE "mget"
           /\ \E value \in Clean : toClient' = <<<<"data", value>>>>
<1>1. SendFile
  BY DEF ServerStep, Command, PutOverwrite, PutSize, PutData, MGetNext
<1>2. toServer' = <<>> /\ soverwrite' = 1
  BY <1>1, Single DEF SendFile, Drop, Received, AtEnd, Yes
<1>3. toClient' = <<<<"data", server[buffer[2]]>>>>
  BY <1>1, <1>2, Single DEF SendFile, Reply
<1>4. server[buffer[2]] \in Clean
  BY DEF FtpInv, ServerOK, GarbageLast
<1>5. QED
  BY <1>1, <1>2, <1>3, <1>4 DEF SendFile

LEMMA ListSituation ==
    ASSUME FtpInv, InList, ServerStep, cpc # "killed"
    PROVE  Situation'
<1>1. UNCHANGED <<cpc, mode, num_files>>
  BY DEF ServerStep, Command, PutOverwrite, PutSize, PutData, SendFile,
     MGetNext, cvars
<1>2. toClient \in Seq(ToClientMessage) /\ files \subseteq File
  BY DEF FtpInv, MessagesOK, ServerOK
<1>3. CASE toServer # <<>>
  <2>1. toServer = <<No>> /\ spc = "mget_overwrite" /\ toClient = <<>>
    BY <1>3 DEF InList, AfterLast
  <2>2. SendFile
    BY <2>1 DEF ServerStep, Command, PutOverwrite, PutSize, PutData, MGetNext
  <2>3. soverwrite' = 2 /\ toServer' = <<>>
    BY <2>1, <2>2, Single DEF SendFile, Received, AtEnd, Drop, No
  <2>4. toClient' = toClient /\ files' = files /\ spc' = "mget"
    BY <2>1, <2>2, <2>3, Single DEF SendFile, Reply
  <2>5. AfterLast'
    BY <2>1, <2>3, <2>4 DEF AfterLast
  <2>6. ToCome' = ToCome
    BY <1>1, <2>4 DEF ToCome, Heard
  <2>7. InList'
    BY <1>1, <2>4, <2>5, <2>6 DEF InList
  <2>8. QED
    BY <2>7 DEF Situation
<1>4. CASE toServer = <<>>
  <2>1. MGetNext /\ toServer' = toServer
    BY <1>4 DEF ServerStep, Command, PutOverwrite, PutSize, PutData, SendFile,
       MGetNext, Recv, AtEnd
  <2>2. CASE files = {} /\ spc' = "command" /\ UNCHANGED <<files, toClient>>
    <3>1. AfterLast'
      BY <1>4, <2>1, <2>2 DEF AfterLast, MGetNext, InList
    <3>2. ToCome' = ToCome
      BY <1>1, <2>2 DEF ToCome, Heard
    <3>3. InList'
      BY <1>1, <2>2, <3>1, <3>2 DEF InList
    <3>4. QED
      BY <3>3 DEF Situation
  <2>3. ASSUME NEW f \in files,
               Reply(<<<<"name", f>>, <<"size", Size(server[f])>>>>),
               files' = files \ {f},
               spc' = IF Size(server[f]) = 0 THEN "mget" ELSE "mget_overwrite"
        PROVE  Situation'
    <3> DEFINE name == <<"name", f>>
               size == <<"size", Size(server[f])>>
    <3>1. toClient' = toClient \o <<name, size>>
      BY <2>3 DEF Reply
    <3>2. name \in ToClientMessage /\ size \in ToClientMessage
      BY <1>2, <2>3, SizeOK DEF ToClientMessage
    <3>3. toClient # <<>> => Follows(toClient[Len(toClient)], name)
      <4> SUFFICES ASSUME toClient # <<>>
                   PROVE  Follows(toClient[Len(toClient)], name)
        OBVIOUS
      <4> DEFINE last == toClient[Len(toClient)]
      <4>1. /\ last[1] # "name"
            /\ last[1] = "size" => last[2] # 1
        BY <2>1 DEF InList, AfterLast, MGetNext
      <4>2. last \in ToClientMessage
        BY <1>2, ElementOfSeq, SeqTail
      <4>3. last[1] = "size" => last[2] \in {0, 1}
        BY <4>2 DEF ToClientMessage
      <4>4. QED
        BY <4>1, <4>3 DEF Follows
    <3>4. Follows(name, size) /\ Chain(toClient)
      BY DEF Follows, InList
    <3>5. /\ Chain(toClient') /\ toClient' # <<>>
          /\ Len(toClient') = Len(toClient) + 2
          /\ toClient'[Len(toClient')] = size
          /\ Head(toClient') = IF toClient = <<>> THEN name ELSE Head(toClient)
      <4> HIDE DEF name, size
      <4> DEFINE t == toClient \o <<name, size>>
      <4>1. /\ Chain(t) /\ t # <<>> /\ Len(t) = Len(toClient) + 2
            /\ t[Len(t)] = size
            /\ Head(t) = IF toClient = <<>> THEN name ELSE Head(toClient)
        BY <1>2, <3>2, <3>3, <3>4, ChainConcat
      <4>2. QED
        BY <3>1, <4>1
    <3>6. AfterLast'
      BY <1>4, <2>1, <2>3, <3>5, SizeOK DEF AfterLast
    <3>7. /\ Cardinality(files) \in Nat /\ Cardinality(files') \in Nat
          /\ Cardinality(files') = Cardinality(files) - 1
      <4>1. IsFiniteSet(files)
        BY <1>2, FS_Subset
      <4>2. Cardinality(files \ {f}) = Cardinality(files) - 1
        BY <2>3, <4>1, FS_RemoveElement
      <4>3. files \ {f} \subseteq File
        BY <1>2
      <4>4. Cardinality(files) \in Nat /\ Cardinality(files \ {f}) \in Nat
        BY <1>2, <4>3, Counts
      <4>5. QED
        BY <2>3, <4>2, <4>4
    <3>8. Len(toClient') + 2 * Cardinality(files') =
            Len(toClient) + 2 * Cardinality(files)
      <4>1. Len(toClient) \in Nat
        BY <1>2, LenProperties
      <4>2. Len(toClient') = Len(toClient) + 2
        BY <3>5
      <4>3. \A l, c \in Nat : (l + 2) + 2 * (c - 1) = l + 2 * c
        OBVIOUS
      <4>4. QED
        BY <3>7, <4>1, <4>2, <4>3
    <3>9. ToCome' = ToCome
      BY <1>1, <3>5 DEF ToCome, Heard, InList
    <3>10. InList'
      BY <1>1, <3>5, <3>6, <3>8, <3>9 DEF InList, ClientExpects
    <3>11. QED
      BY <3>10 DEF Situation
  <2>4. QED
    BY <2>1, <2>2, <2>3 DEF MGetNext
<1>5. QED
  BY <1>3, <1>4

LEMMA ServerSituation ==
    ASSUME FtpInv, FtpInv', Situation, ServerStep, cpc # "killed"
    PROVE  Situation'
<1>1. toServer # <<>> \/ spc = "mget"
  BY DEF ServerStep, Command, PutOverwrite, PutSize, PutData, SendFile,
     MGetNext, Recv, AtEnd
<1>2. UNCHANGED <<cpc, mode, num_files>>
  BY DEF ServerStep, Command, PutOverwrite, PutSize, PutData, SendFile,
     MGetNext, cvars
<1>3. ~PutAnswered /\ ~PutReported /\ ~GetAnswered /\ ~Quitting
  BY <1>1 DEF PutAnswered, PutReported, GetAnswered, Quitting
<1>4. CASE GetSending
  <2>1. spc = "get_overwrite" /\ toServer = <<Yes>> /\ toClient = <<>>
    BY <1>1, <1>4 DEF GetSending
  <2>2. GetSending'
    BY <1>2, <1>4, <2>1, DataSent DEF GetSending
  <2>3. QED
    BY <2>2 DEF Situation
<1>5. CASE ListSending
  <2>1. /\ toServer' = <<>> /\ UNCHANGED files /\ spc' = "mget"
        /\ \E value \in Clean : toClient' = <<<<"data", value>>>>
    BY <1>5, DataSent DEF ListSending
  <2>2. PICK value \in Clean : toClient' = <<<<"data", value>>>>
    BY <2>1
  <2>3. /\ Len(toClient') = 1 /\ toClient'[1] = <<"data", value>>
        /\ Head(toClient') = <<"data", value>> /\ toClient' # <<>>
    BY <2>2, Single
  <2>4. Chain(toClient') /\ AfterLast'
    BY <2>1, <2>3 DEF Chain, AfterLast
  <2>5. Cardinality(files) \in Nat /\ Cardinality(files') = num_files - 1
    BY <1>5, <2>1, Counts, EmptySeq DEF ListSending, FtpInv, ServerOK
  <2>6. Len(toClient') + 2 * Cardinality(files') = ToCome'
    BY <1>2, <1>5, <2>3, <2>5 DEF ToCome, ListSending
  <2>7. InList'
    BY <1>2, <1>5, <2>3, <2>4, <2>6 DEF InList, ListSending, ClientExpects
  <2>8. QED
    BY <2>7 DEF Situation
<1>6. QED
  BY <1>3, <1>4, <1>5, BehindSituation, SendingSituation, ListSituation
     DEF Situation

-----------------------------------------------------------------------------
(* When the client is gone *)

LEMMA BehindInStep ==
    ASSUME FtpInv, NEW command, NEW rest,
           rest \in {<<>>, <<<<"command", command>>>>}, Behind(rest)
    PROVE  ServerInStep
<1>1. CASE toServer = <<>>
  BY <1>1 DEF ServerInStep
<1>2. CASE /\ toServer = <<<<"command", command>>>>
           /\ spc = "command" \/ (spc = "mget" /\ files = {})
  BY <1>2, Single DEF ServerInStep
<1>3. CASE /\ toServer = <<No>>
           /\ spc \in {"put_overwrite", "get_overwrite", "mget_overwrite"}
  BY <1>3, Single DEF ServerInStep, No
<1>4. CASE /\ toServer = <<No, <<"command", command>>>>
           /\ spc \in {"put_overwrite", "get_overwrite", "mget_overwrite"}
           /\ spc = "mget_overwrite" => files = {}
  <2>1. ServerFollows(No, <<"command", command>>)
    BY DEF ServerFollows
  <2>2. QED
    BY <1>4, <2>1, Two DEF ServerInStep, No, Yes
<1>5. QED
  BY <1>1, <1>2, <1>3, <1>4, Pair, Single DEF Behind

LEMMA AliveInStep ==
    ASSUME FtpInv, Situation
    PROVE  ServerInStep
<1>1. CASE toServer = <<>>
  BY <1>1 DEF ServerInStep
<1>2. CASE toServer = <<No>> /\ spc = "mget_overwrite"
  BY <1>2, Single DEF ServerInStep, No
<1>3. CASE toServer = <<Yes>> /\ spc \in {"get_overwrite", "mget_overwrite"}
  BY <1>3, Single DEF ServerInStep, Yes
<1>4. CASE Resting
  BY <1>4, BehindInStep DEF Resting
<1>5. ASSUME NEW action \in {"put", "get", "mget", "quit"}, Asking(action)
      PROVE  ServerInStep
  <2>1. PICK f \in File : f = filename
    BY DEF FtpInv, ClientOK
  <2>2. Behind(<<<<"command", <<action, f>>>>>>)
    BY <1>5, <2>1 DEF Asking
  <2>3. QED
    BY <2>2, BehindInStep
<1>6. CASE PutSending
  <2> DEFINE size == <<"size", Size(client[filename])>>
             data == <<"data", client[filename]>>
  <2>1. FileMessages(filename) =
          IF Size(client[filename]) = 0 \/ filename \in unreadable
          THEN <<size>> ELSE <<size, data>>
    BY FileMessagesAre DEF FtpInv
  <2>2. /\ ServerFollows(Yes, size)
        /\ Size(client[filename]) # 0 => ServerFollows(size, data)
    BY SizeOK DEF ServerFollows, Yes
  <2>3. CASE /\ spc = "put_overwrite"
             /\ toServer = <<Yes>> \o FileMessages(filename)
    <3> HIDE DEF size, data
    <3>0. Yes[1] = "overwrite"
      BY DEF Yes
    <3>1. CASE toServer = <<Yes, size>>
      <4>1. Len(toServer) = 2 /\ toServer[1] = Yes /\ toServer[2] = size
        BY <3>1, Two
      <4>2. \A k \in 1 .. Len(toServer) - 1 :
              ServerFollows(toServer[k], toServer[k + 1])
        BY <2>2, <4>1
      <4>3. QED
        BY <2>3, <3>0, <4>1, <4>2 DEF ServerInStep
    <3>2. CASE Size(client[filename]) # 0 /\ toServer = <<Yes, size, data>>
      <4>1. /\ Len(toServer) = 3 /\ toServer[1] = Yes
            /\ toServer[2] = size /\ toServer[3] = data
        BY <3>2, Three
      <4>2. ASSUME NEW k \in 1 .. Len(toServer) - 1
            PROVE  ServerFollows(toServer[k], toServer[k + 1])
        <5>1. k = 1 \/ k = 2
          BY <4>1
        <5>2. QED
          BY <2>2, <3>2, <4>1, <5>1
      <4>3. QED
        BY <2>3, <3>0, <4>1, <4>2 DEF ServerInStep
    <3>3. <<Yes>> \o <<size>> = <<Yes, size>>
      BY Pair
    <3>4. <<Yes>> \o <<size, data>> = <<Yes, size, data>>
      BY Triple
    <3>5. QED
      BY <2>1, <2>3, <3>1, <3>2, <3>3, <3>4
  <2>4. CASE spc = "put_size" /\ toServer = FileMessages(filename)
    <3>1. CASE toServer = <<size>>
      BY <2>4, <3>1, Single DEF ServerInStep
    <3>2. CASE Size(client[filename]) # 0 /\ toServer = <<size, data>>
      BY <2>2, <2>4, <3>2, Two DEF ServerInStep
    <3>3. QED
      BY <2>1, <2>4, <3>1, <3>2
  <2>5. CASE spc = "put_data" /\ toServer = <<data>>
    BY <2>5, Single DEF ServerInStep
  <2>6. QED
    BY <1>1, <1>6, <2>3, <2>4, <2>5 DEF PutSending
<1>7. QED
  BY <1>1, <1>2, <1>3, <1>4, <1>5, <1>6
     DEF Situation, PutAnswered, PutReported, GetAnswered, GetSending, InList,
         ListSending, Quitting, AfterLast

LEMMA CutInStep ==
    ASSUME FtpInv, ServerInStep, NEW n \in 0 .. Len(toServer),
           toServer' = SubSeq(toServer, 1, n), UNCHANGED svars
    PROVE  ServerInStep'
<1>1. toServer \in Seq(ToServerMessage) /\ Len(toServer) \in Nat
  BY LenProperties DEF FtpInv, MessagesOK
<1>2. \A i \in 1 .. n : toServer[i] \in ToServerMessage
  BY <1>1, ElementOfSeq
<1>3. /\ toServer' \in Seq(ToServerMessage) /\ Len(toServer') = n
      /\ \A i \in 1 .. n : toServer'[i] = toServer[i]
  BY <1>1, <1>2, SubSeqProperties
<1>4. ASSUME NEW k \in 1 .. n - 1
      PROVE  ServerFollows(toServer'[k], toServer'[k + 1])
  BY <1>1, <1>3 DEF ServerInStep
<1>5. toServer' # <<>> => n > 0 /\ toServer # <<>>
  BY <1>1, <1>3, EmptySeq
<1>6. n > 0 => toServer'[1] = toServer[1]
  BY <1>3
<1>7. n > 1 => Len(toServer) > 1
  BY <1>1
<1>8. /\ UNCHANGED <<spc, files>>
      /\ Len(toServer') > 1 => Len(toServer) > 1
  BY <1>3, <1>7 DEF svars
<1>9. CASE toServer' = <<>>
  BY <1>3, <1>4, <1>9 DEF ServerInStep
<1>10. CASE toServer' # <<>>
  <2>1. toServer'[1] = toServer[1] /\ toServer # <<>>
    BY <1>5, <1>6, <1>10
  <2>2. \A k \in 1 .. Len(toServer') - 1 :
          ServerFollows(toServer'[k], toServer'[k + 1])
    BY <1>3, <1>4
  <2>3. toServer[1] \in ToServerMessage
    BY <1>1, <2>1, HeadTailProperties, SeqTail
  <2> DEFINE m == toServer[1]
  <2> HIDE DEF m
  <2>4. CASE m[1] = "overwrite"
    BY <1>8, <2>1, <2>2, <2>4 DEF ServerInStep, m
  <2>5. CASE m[1] # "overwrite"
    BY <1>8, <2>1, <2>2, <2>3, <2>5 DEF ServerInStep, ToServerMessage, m
  <2>6. QED
    BY <2>4, <2>5
<1>11. QED
  BY <1>9, <1>10

LEMMA GoneInStep ==
    ASSUME FtpInv, ServerInStep, ServerStep, cpc = "killed"
    PROVE  ServerInStep'
<1>1. CASE toServer = <<>>
  <2>1. toServer' = <<>>
    BY <1>1 DEF ServerStep, Command, PutOverwrite, PutSize, PutData, SendFile,
       MGetNext, AtEnd, Drop
  <2>2. QED
    BY <2>1 DEF ServerInStep
<1>2. CASE toServer # <<>>
  <2> USE <1>2 DEF Recv, AtEnd, Drop, Received
  <2>1. /\ toServer \in Seq(ToServerMessage) /\ Head(toServer) = toServer[1]
        /\ toServer[1] \in ToServerMessage
    BY SeqTail, HeadTailProperties DEF FtpInv, MessagesOK
  <2>2. CASE MGetNext
    <3>1. toServer[1][1] = "command" /\ files = {}
      BY <2>1, <2>2 DEF MGetNext, ServerInStep, ToServerMessage
    <3>2. spc' = "command" /\ toServer' = toServer
      BY <2>2, <3>1 DEF MGetNext
    <3>3. QED
      BY <3>1, <3>2 DEF ServerInStep
  <2>3. CASE toServer' = Tail(toServer)
    <3>1. /\ Len(toServer) \in Nat \ {0} /\ Len(toServer') = Len(toServer) - 1
          /\ \A k \in 1 .. Len(toServer) - 1 : toServer'[k] = toServer[k + 1]
          /\ toServer' # <<>> <=> Len(toServer) > 1
      BY <2>1, <2>3, SeqTail
    <3>2. ASSUME NEW k \in 1 .. Len(toServer') - 1
          PROVE  ServerFollows(toServer'[k], toServer'[k + 1])
      <4>1. /\ toServer'[k] = toServer[k + 1]
            /\ toServer'[k + 1] = toServer[k + 2]
        BY <3>1
      <4>2. k + 1 \in 1 .. Len(toServer) - 1
        BY <3>1
      <4>3. QED
        BY <4>1, <4>2 DEF ServerInStep
    <3>3. CASE Len(toServer) = 1
      BY <3>1, <3>3 DEF ServerInStep
    <3>4. CASE Len(toServer) > 1
      <4>0. 1 \in 1 .. Len(toServer) - 1
        BY <3>1, <3>4
      <4>1. /\ toServer'[1] = toServer[2]
            /\ ServerFollows(toServer[1], toServer[2])
        <5>1. /\ toServer'[1] = toServer[1 + 1]
              /\ ServerFollows(toServer[1], toServer[1 + 1])
          BY <3>1, <4>0 DEF ServerInStep
        <5>2. QED
          BY <5>1
      <4>2. CASE Command \/ PutData
        BY <2>1, <4>1, <4>2 DEF Command, PutData, ServerFollows, Yes, No
      <4>3. CASE PutOverwrite
        <5>1. IF toServer[1] = Yes
              THEN toServer'[1][1] = "size" /\ spc' = "put_size"
              ELSE toServer'[1][1] = "command" /\ spc' = "command"
          BY <2>1, <4>1, <4>3 DEF PutOverwrite, ServerFollows, Yes, No
        <5>2. QED
          BY <3>2, <5>1 DEF ServerInStep
      <4>4. CASE SendFile
        <5>0. toServer[1] # Yes /\ toServer[1][1] = "overwrite"
          <6>1. toServer[1][1] = "overwrite" /\ spc # "put_overwrite"
            BY <2>1, <4>4 DEF SendFile
          <6>2. QED
            BY <3>4, <6>1 DEF ServerInStep
        <5>1. toServer[1] = No /\ toServer'[1][1] = "command"
          BY <4>1, <5>0 DEF ServerFollows
        <5>2. spc' = "command" \/ (spc' = "mget" /\ files' = {})
          BY <2>1, <3>4, <4>4, <5>1 DEF SendFile, ServerInStep, Yes, No
        <5>3. QED
          BY <3>2, <5>1, <5>2 DEF ServerInStep
      <4>5. CASE PutSize
        <5>1. toServer[1] = <<"size", 1>> /\ toServer'[1][1] = "data"
          BY <2>1, <4>1, <4>5 DEF PutSize, ServerFollows, Yes, No
        <5>2. spc' = "put_data"
          BY <2>1, <4>5, <5>1 DEF PutSize
        <5>3. QED
          BY <3>2, <5>1, <5>2 DEF ServerInStep
      <4>6. CASE MGetNext
        BY <2>2, <4>6
      <4>7. QED
        BY <4>2, <4>3, <4>4, <4>5, <4>6 DEF ServerStep
    <3>5. QED
      BY <3>1, <3>3, <3>4
  <2>4. QED
    BY <2>2, <2>3 DEF ServerStep, Command, PutOverwrite, PutSize, PutData,
       SendFile
<1>3. QED
  BY <1>1, <1>2

-----------------------------------------------------------------------------

LEMMA InitOrder == Init => InOrder
<1> SUFFICES ASSUME Init PROVE InOrder
  OBVIOUS
<1>1. Resting
  BY Single DEF Init, Resting, Behind
<1>2. QED
  BY <1>1 DEF Init, InOrder, Situation, Modes

LEMMA NextOrder == FtpInv /\ FtpInv' /\ InOrder /\ [Next]_vars => InOrder'
<1> SUFFICES ASSUME FtpInv, FtpInv', InOrder, [Next]_vars PROVE InOrder'
  OBVIOUS
<1>1. CASE UNCHANGED vars
  BY <1>1 DEF vars, cvars, svars, InOrder, Situation, Resting, Behind, Asking,
     PutAnswered, PutSending, PutReported, Agreed, ExistsHere, Exists,
     FileMessages, GetAnswered, GetSending, InList, ListSending, AfterLast,
     ToCome, Heard, Quitting, ServerInStep
<1>2. CASE ClientStep \/ UserStep
  <2>1. cpc # "killed" /\ UNCHANGED spc
    BY <1>2 DEF ClientStep, MPutNext, PutExists, PutStatus, MGetNumber,
       MGetName, GetSize, GetData, Exit, UserStep, MPut, MGet, Quit, Put, Get,
       Choose, svars
  <2>2. Situation /\ spc # "dead" /\ mode \in Modes
    BY <2>1 DEF InOrder, Modes
  <2>3. ASSUME UserStep \/ MPutNext PROVE Situation' /\ mode' \in Modes
    <3>1. Resting
      BY <2>2, <2>3 DEF UserStep, MPut, MPutNext, MGet, Quit, Put, Get,
         Choose, Situation, PutAnswered, PutSending, PutReported, GetAnswered,
         GetSending, InList, ListSending, Quitting, Asking, Awaited, Agreed
    <3>2. QED
      BY <2>2, <2>3, <3>1, UserSituation
  <2>4. ASSUME ClientStep, ~MPutNext PROVE Situation' /\ mode' \in Modes
    BY <2>2, <2>4, PutSituation, MGetSituation, GetSituation DEF ClientStep
  <2>5. Situation' /\ mode' \in Modes
    BY <1>2, <2>3, <2>4
  <2>6. cpc' # "killed"
    BY <2>5 DEF Situation, Resting, PutAnswered, PutSending, PutReported,
       Agreed, GetAnswered, GetSending, InList, ListSending, Quitting, Asking,
       Awaited
  <2>7. QED
    BY <2>1, <2>2, <2>5, <2>6 DEF InOrder, Modes
<1>3. CASE Killed
  <2>1. Situation /\ ServerInStep
    BY <1>3, AliveInStep DEF InOrder, Killed
  <2>2. ServerInStep'
    BY <1>3, <2>1, CutInStep DEF Killed
  <2>3. QED
    BY <1>3, <2>2 DEF Killed, InOrder
<1>4. CASE ServerStep
  <2>1. /\ UNCHANGED cvars /\ UNCHANGED <<cpc, mode>> /\ spc # "dead"
        /\ spc' # "dead"
    BY <1>4 DEF ServerStep, Command, PutOverwrite, PutSize, PutData, SendFile,
       MGetNext, cvars
  <2>2. CASE cpc = "killed"
    <3>1. toClient' = <<>>
      BY <1>4, <2>2 DEF ServerStep, Command, PutOverwrite, PutSize, PutData,
         SendFile, MGetNext, Reply, InOrder
    <3>2. ServerInStep'
      BY <1>4, <2>1, <2>2, GoneInStep DEF InOrder
    <3>3. QED
      BY <2>1, <2>2, <3>1, <3>2 DEF InOrder
  <2>3. CASE cpc # "killed"
    <3>1. Situation'
      BY <1>4, <2>3, ServerSituation DEF InOrder
    <3>2. QED
      BY <2>1, <2>3, <3>1 DEF InOrder
  <2>4. QED
    BY <2>2, <2>3
<1>5. CASE Dies
  BY <1>5 DEF Dies, InOrder, cvars
<1>6. QED
  BY <1>1, <1>2, <1>3, <1>4, <1>5 DEF Next

LEMMA OrderInv == FairSpec => [](FtpInv /\ InOrder)
<1>1. FtpInv /\ InOrder /\ [Next]_vars => FtpInv' /\ InOrder'
  BY NextInv, NextOrder
<1>2. QED
  BY InitInv, InitOrder, <1>1, PTL DEF FairSpec

(***************************************************************************)
(* For all files: neither side takes a message for something else.         *)
(***************************************************************************)
THEOREM NeverConfused == FairSpec => []InStep
<1>1. ASSUME FtpInv, InOrder PROVE InStep
  <2>1. toClient # <<>> => ClientExpects[cpc] = Head(toClient)[1]
    <3> SUFFICES ASSUME toClient # <<>>
                 PROVE  ClientExpects[cpc] = Head(toClient)[1]
      OBVIOUS
    <3>1. Situation
      BY <1>1 DEF InOrder
    <3>2. CASE InList
      BY <3>2 DEF InList
    <3>3. CASE GetSending
      <4>1. PICK value \in Clean : toClient = <<<<"data", value>>>>
        BY <3>3 DEF GetSending
      <4>2. QED
        BY <3>3, <4>1, Single DEF GetSending, ClientExpects
    <3>4. CASE PutAnswered
      BY <3>4, Single DEF PutAnswered, ClientExpects
    <3>5. CASE PutReported
      BY <3>5, Single DEF PutReported, ClientExpects
    <3>6. CASE GetAnswered
      BY <3>6, Single DEF GetAnswered, ClientExpects
    <3>7. CASE Quitting
      BY <3>7, Single DEF Quitting, ClientExpects
    <3>8. QED
      BY <3>1, <3>2, <3>3, <3>4, <3>5, <3>6, <3>7
         DEF Situation, Resting, PutSending, ListSending, Asking
  <2>2. toServer # <<>> => ServerExpects[spc] \in {Head(toServer)[1], "later"}
    <3> SUFFICES ASSUME toServer # <<>>
                 PROVE  ServerExpects[spc] \in {Head(toServer)[1], "later"}
      OBVIOUS
    <3>1. CASE spc = "dead"
      BY <3>1 DEF ServerExpects
    <3>2. CASE spc # "dead"
      <4>1. ServerInStep
        BY <1>1, <3>2, AliveInStep DEF InOrder
      <4>2. Head(toServer) = toServer[1] /\ Head(toServer) \in ToServerMessage
        BY <1>1, SeqTail, HeadTailProperties DEF FtpInv, MessagesOK
      <4> DEFINE m == toServer[1]
      <4>3. m[1] \in {"command", "overwrite", "size", "data"}
        BY <4>2 DEF ToServerMessage
      <4>4. /\ m[1] = "command" => spc \in {"command", "mget"}
            /\ m[1] = "overwrite" =>
                 spc \in {"put_overwrite", "get_overwrite", "mget_overwrite"}
            /\ m[1] = "size" => spc = "put_size"
            /\ m[1] = "data" => spc = "put_data"
        BY <4>1 DEF ServerInStep
      <4> HIDE DEF m
      <4>5. ServerExpects[spc] \in {m[1], "later"}
        BY <4>3, <4>4 DEF ServerExpects
      <4>6. QED
        BY <4>2, <4>5 DEF m
    <3>3. QED
      BY <3>1, <3>2
  <2>3. QED
    BY <2>1, <2>2 DEF InStep
<1>2. QED
  BY <1>1, OrderInv, PTL

(***************************************************************************)
(* For all files: a PUT reported as successful has stored the file, or the *)
(* server may not write it.                                                *)
(***************************************************************************)
THEOREM StoredOnSuccess == FairSpec => []SuccessMeansStored
<1>1. ASSUME FtpInv, InOrder PROVE SuccessMeansStored
  <2> SUFFICES ASSUME cpc = "put_status", Hear("status"), Heard = 1
               PROVE  \/ filename \in Unwritable
                      \/ server[filename] = client[filename]
    BY DEF SuccessMeansStored
  <2>1. PutReported
    BY <1>1 DEF InOrder, Hear, Situation, Resting, PutAnswered, PutSending,
       GetAnswered, GetSending, InList, ListSending, Quitting, Asking, Awaited
  <2>2. QED
    BY <2>1, Single DEF PutReported, Heard
<1>2. QED
  BY <1>1, OrderInv, PTL

(***************************************************************************)
(* For all files: the two wait for each other only when the client sends a *)
(* file that it cannot read.                                               *)
(***************************************************************************)
THEOREM WaitOnlyUnreadable == FairSpec => []NoMutualWait
<1>1. ASSUME FtpInv, InOrder PROVE NoMutualWait
  <2> SUFFICES ASSUME WaitForEachOther
               PROVE  /\ spc = "put_data" /\ cpc = "put_status"
                      /\ filename \in unreadable
    BY DEF NoMutualWait
  <2> USE DEF WaitForEachOther
  <2>1. Situation
    BY <1>1 DEF InOrder, ClientExpects
  <2>2. CASE PutSending
    <3>1. /\ FileMessages(filename) \in Seq(ToServerMessage)
          /\ Yes \in ToServerMessage
      BY <1>1, FileMessagesOK DEF FtpInv, ClientOK, ToServerMessage, Yes
    <3>2. <<Yes>> \o FileMessages(filename) # <<>>
      BY <3>1, Cons
    <3>3. ClientOK
      BY <1>1 DEF FtpInv
    <3>4. FileMessages(filename) # <<>>
      BY <3>3, FileMessagesAre, Single, Two
    <3>5. QED
      BY <2>2, <3>2, <3>4, Single DEF PutSending, Agreed
  <2>3. CASE InList
    <3>1. spc = "command" /\ files = {} /\ cpc = "mget_name"
      BY <2>3 DEF InList, AfterLast, ServerExpects
    <3>2. Cardinality(files) = 0 /\ Len(toClient) = 0
      BY <3>1, FS_EmptySet
    <3>3. QED
      BY <2>3, <3>1, <3>2 DEF InList, ToCome
  <2>4. CASE Resting \/ Quitting
    BY <2>4 DEF Resting, Quitting, ClientExpects, ServerExpects
  <2>5. /\ ~PutAnswered /\ ~PutReported
        /\ ~GetAnswered /\ ~GetSending /\ ~ListSending
    BY Single DEF PutAnswered, PutReported, GetAnswered, GetSending,
       ListSending
  <2>6. ASSUME NEW action \in {"put", "get", "mget", "quit"}, Asking(action)
        PROVE  FALSE
    <3>1. PICK f \in File : f = filename
      BY <1>1 DEF FtpInv, ClientOK
    <3>2. Behind(<<<<"command", <<action, f>>>>>>)
      BY <2>6, <3>1 DEF Asking
    <3>3. QED
      BY <3>2, Single, Pair, Two DEF Behind
  <2>7. QED
    BY <2>1, <2>2, <2>3, <2>4, <2>5, <2>6 DEF Situation
<1>2. QED
  BY <1>1, OrderInv, PTL

(***************************************************************************)
(* For all files: as long as the client lives a file that was there is     *)
(* only changed by a PUT for which the user was asked about it and agreed. *)
(***************************************************************************)
THEOREM OnlyWhenAgreed == FairSpec => OverwriteAgreed
<1> DEFINE Step ==
      cpc # "killed" =>
         \A f \in there :
            server'[f] # server[f] =>
                f \in agreed /\ filename = f /\ buffer = <<"put", f>>
<1>1. ASSUME FtpInv, InOrder, [Next]_vars PROVE [Step]_vars
  <2> SUFFICES ASSUME Next, NEW f \in there, cpc # "killed",
                      server'[f] # server[f]
               PROVE  /\ f \in agreed /\ filename = f
                      /\ buffer = <<"put", f>>
    BY <1>1 DEF vars, svars
  <2>1. PutOverwrite \/ PutData
    BY DEF Next, ClientStep, MPutNext, PutExists, PutStatus, MGetNumber,
       MGetName, GetSize, GetData, Exit, UserStep, MPut, MGet, Quit, Put, Get,
       Choose, svars, Killed, Dies, ServerStep, Command, PutSize, SendFile,
       MGetNext
  <2>2. toServer # <<>> /\ Head(toServer)[1] \in {"overwrite", "data"}
    BY <2>1 DEF PutOverwrite, PutData, Recv, AtEnd
  <2>3. Situation /\ spc \in {"put_overwrite", "put_data"}
    BY <1>1, <2>1 DEF InOrder, PutOverwrite, PutData
  <2>4. PutSending
    <3>1. ASSUME NEW command, NEW rest,
                 rest \in {<<>>, <<<<"command", command>>>>}, Behind(rest)
          PROVE  FALSE
      <4>1. spc = "put_overwrite" /\ toServer = <<No>> \o rest
        BY <2>2, <2>3, <3>1, Single DEF Behind
      <4>2. PutOverwrite /\ Head(toServer) = No
        BY <2>1, <3>1, <4>1, Single, Pair, Two DEF PutData
      <4>3. UNCHANGED server
        BY <2>2, <4>2 DEF PutOverwrite, Received, AtEnd, No
      <4>4. QED
        BY <4>3
    <3>2. ~Resting
      BY <3>1 DEF Resting
    <3>3. ASSUME NEW action \in {"put", "get", "mget", "quit"}, Asking(action)
          PROVE  FALSE
      <4>1. PICK g \in File : g = filename
        BY <1>1 DEF FtpInv, ClientOK
      <4>2. Behind(<<<<"command", <<action, g>>>>>>)
        BY <3>3, <4>1 DEF Asking
      <4>3. QED
        BY <3>1, <4>2
    <3>4. QED
      BY <2>2, <2>3, <3>2, <3>3
         DEF Situation, PutAnswered, PutReported, GetAnswered, GetSending,
             InList, ListSending, AfterLast, Quitting
  <2>5. server' = server \/ \E value : server' = Written(filename, value)
    BY <2>1, <2>4 DEF PutOverwrite, PutData, PutSending, Agreed
  <2>6. filename = f
    BY <1>1, <2>5 DEF Written, FtpInv, ServerOK
  <2>7. QED
    BY <2>4, <2>6 DEF PutSending, Agreed
<1>2. QED
  BY <1>1, OrderInv, PTL DEF FairSpec, OverwriteAgreed
=============================================================================
