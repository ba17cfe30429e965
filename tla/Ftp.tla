-------------------------------- MODULE Ftp --------------------------------
(***************************************************************************)
(* FTP/client.cpp and FTP/server.cpp: one client and one server that       *)
(* exchange files over a connection.  No message says what it is: either   *)
(* side reads the bytes it expects next, and a message is tagged here only *)
(* so that a property can say that the two stay in step.                   *)
(*                                                                         *)
(* The client may be killed at any time.  The server then goes on with     *)
(* what its variables still hold, since it does not look at what recv      *)
(* returns, until a signal ends it when it writes to the connection.       *)
(*                                                                         *)
(* All files have the extension asked for.  A file fits into one recv.     *)
(***************************************************************************)
EXTENDS Integers, Sequences, FiniteSets

CONSTANTS
    File,         \* names
    Contents,     \* contents of files that are not empty
    Unwritable    \* files that the server may not write

ASSUME FtpAssumption ==
    /\ IsFiniteSet(File)
    /\ Unwritable \subseteq File
    /\ {"absent", "empty", "garbage"} \cap Contents = {}

VARIABLES
    client, server,      \* client[f]: the file f of the client
    unreadable,          \* files of the client that it may not read
    toServer, toClient,  \* messages sent and not received, <<what, value>>
    cpc, mode,           \* where the client is, and in which choice
    filename,            \* the file the client transfers
    lines,               \* MPUT: files of the list still to be sent
    num_files,           \* MGET: files still to be received
    fileExists, overwrite,   \* variables of the client's main
    agreed,              \* history: what the user let PUT overwrite since
                         \* the present command was sent
    spc,                 \* where the server is
    buffer,              \* the command last received, <<action, file>>
    files,               \* MGET: files of the list still to be sent
    soverwrite,          \* overwrite of the server
    there                \* history: the files there were when the server
                         \* read its present command

cvars == <<client, unreadable, cpc, mode, filename, lines, num_files,
           fileExists, overwrite, agreed>>
svars == <<server, spc, buffer, files, soverwrite, there>>
vars == <<cvars, svars, toServer, toClient>>

Exists(dir, f) == dir[f] # "absent"
Size(value) == IF value \in {"absent", "empty"} THEN 0 ELSE 1

Init ==
    /\ client \in [File -> Contents \cup {"absent", "empty"}]
    /\ server \in [File -> Contents \cup {"absent", "empty"}]
    /\ unreadable = {}
    /\ toServer = <<>> /\ toClient = <<>>
    /\ cpc = "menu" /\ mode = "one"
    /\ filename \in File
    /\ lines = {} /\ num_files = 0
    /\ fileExists = 0 /\ overwrite = 1
    /\ agreed = {}
    /\ spc = "command"
    /\ buffer = <<"none", filename>>
    /\ files = {}
    /\ soverwrite = 1
    /\ there = {}

-----------------------------------------------------------------------------
(* The client *)

Tell(messages) == toServer' = toServer \o messages

Hear(what) == toClient # <<>> /\ Head(toClient)[1] = what
Heard == Head(toClient)[2]
Read == toClient' = Tail(toClient)

\* What the user enters when asked, else the variable as it is.
Answer(asked) == IF asked THEN {1, 2} ELSE {overwrite}

\* Fault: the user is not asked when an earlier answer is at hand.
AskOnce(exists, answer) == answer = overwrite /\ UNCHANGED agreed

\* PUT asks whether the file of the server may be overwritten.
Ask(exists, answer) ==
    /\ answer \in Answer(exists = 1)
    /\ agreed' = IF exists = 1 THEN {f \in {filename} : answer = 1} ELSE agreed

\* The end of a transfer: MPUT and MGET go on with the next file.
Done(answer, exists) ==
    /\ cpc' = CASE mode = "one" -> "menu"
                [] mode = "mput" -> "mput"
                [] mode = "mget" /\ num_files > 1 -> "mget_name"
                [] mode = "mget" /\ num_files <= 1 -> "menu"
    /\ num_files' = IF mode = "mget" THEN num_files - 1 ELSE num_files
    /\ overwrite' = IF mode = "one" THEN answer ELSE 1
    /\ fileExists' = IF mode = "mget" THEN 0 ELSE exists

Choose(command, m, pc) ==
    /\ cpc = "menu"
    /\ Tell(<<<<"command", command>>>>)
    /\ mode' = m
    /\ filename' = command[2]
    /\ cpc' = pc
    /\ agreed' = {}
    /\ UNCHANGED <<client, unreadable, lines, num_files, fileExists,
                   overwrite, toClient, svars>>

Put(f) == Exists(client, f) /\ Choose(<<"put", f>>, "one", "put_exists")
Get(f) == Choose(<<"get", f>>, "one", "get_size")
MGet == Choose(<<"mget", filename>>, "mget", "mget_number")
Quit == Choose(<<"quit", filename>>, "one", "quit")

MPut ==
    /\ cpc = "menu"
    /\ lines' = {f \in File : Exists(client, f)}
    /\ mode' = "mput"
    /\ cpc' = "mput"
    /\ UNCHANGED <<client, unreadable, filename, num_files, fileExists,
                   overwrite, agreed, toServer, toClient, svars>>

MPutNext ==
    /\ cpc = "mput"
    /\ \/ /\ lines = {}
          /\ cpc' = "menu"
          /\ UNCHANGED <<filename, lines, agreed, toServer>>
       \/ \E f \in lines :
            /\ Tell(<<<<"command", <<"put", f>>>>>>)
            /\ lines' = lines \ {f}
            /\ filename' = f
            /\ agreed' = {}
            /\ cpc' = "put_exists"
    /\ UNCHANGED <<client, unreadable, mode, num_files, fileExists,
                   overwrite, toClient, svars>>

\* The contents follow the size, unless the file cannot be opened.
FileMessages(f) ==
    <<<<"size", Size(client[f])>>>> \o
    IF Size(client[f]) = 0 \/ f \in unreadable THEN <<>>
    ELSE <<<<"data", client[f]>>>>

\* transferToServer up to the wait for the status
PutExists ==
    /\ cpc = "put_exists"
    /\ Hear("exists") /\ Read
    /\ \E answer \in {1, 2} :
        /\ Ask(Heard, answer)
        /\ Tell(<<<<"overwrite", answer>>>> \o
                IF answer = 1 THEN FileMessages(filename) ELSE <<>>)
        /\ IF answer = 1
           THEN /\ cpc' = "put_status"
                /\ overwrite' = answer
                /\ fileExists' = Heard
                /\ UNCHANGED num_files
           ELSE Done(answer, Heard)
    /\ UNCHANGED <<client, unreadable, mode, filename, lines, svars>>

PutStatus ==
    /\ cpc = "put_status"
    /\ Hear("status") /\ Read
    /\ Done(overwrite, fileExists)
    /\ UNCHANGED <<client, unreadable, mode, filename, lines, agreed, toServer,
                   svars>>

MGetNumber ==
    /\ cpc = "mget_number"
    /\ Hear("number") /\ Read
    /\ num_files' = Heard
    /\ cpc' = IF Heard > 0 THEN "mget_name" ELSE "menu"
    /\ UNCHANGED <<client, unreadable, mode, filename, lines, fileExists,
                   overwrite, agreed, toServer, svars>>

MGetName ==
    /\ cpc = "mget_name"
    /\ Hear("name") /\ Read
    /\ filename' = Heard
    /\ cpc' = "get_size"
    /\ UNCHANGED <<client, unreadable, mode, lines, num_files, fileExists,
                   overwrite, agreed, toServer, svars>>

\* Fault: the client goes on when the server has nothing to send.
NeverNothing == FALSE

Nothing == Heard = 0

\* getFromServer up to the wait for the contents.  The mode 644, decimal,
\* takes the right to read from a file that open creates.
GetSize ==
    /\ cpc = "get_size"
    /\ Hear("size") /\ Read
    /\ \/ /\ Nothing
          /\ Done(overwrite, fileExists)
          /\ UNCHANGED <<client, unreadable, toServer>>
       \/ /\ ~Nothing
          /\ LET exists == IF Exists(client, filename) THEN 1 ELSE fileExists
             IN \E answer \in Answer(Exists(client, filename)) :
                  /\ Tell(<<<<"overwrite", answer>>>>)
                  /\ IF answer = 1
                     THEN /\ client' = [client EXCEPT ![filename] = "empty"]
                          /\ unreadable' = unreadable \cup
                               {f \in {filename} : /\ ~Exists(client, f)
                                                   /\ exists = 1}
                          /\ cpc' = "get_data"
                          /\ overwrite' = answer
                          /\ fileExists' = exists
                          /\ UNCHANGED num_files
                     ELSE /\ Done(answer, exists)
                          /\ UNCHANGED <<client, unreadable>>
    /\ UNCHANGED <<mode, filename, lines, agreed, svars>>

GetData ==
    /\ cpc = "get_data"
    /\ Hear("data") /\ Read
    /\ client' = [client EXCEPT ![filename] = Heard]
    /\ Done(overwrite, fileExists)
    /\ UNCHANGED <<unreadable, mode, filename, lines, agreed, toServer, svars>>

Exit ==
    /\ cpc = "quit"
    /\ Hear("closed") /\ Read
    /\ cpc' = "exited"
    /\ UNCHANGED <<client, unreadable, mode, filename, lines, num_files,
                   fileExists, overwrite, agreed, toServer, svars>>

\* What was not yet received may be lost.
Killed ==
    /\ cpc \notin {"exited", "killed"}
    /\ cpc' = "killed"
    /\ toClient' = <<>>
    /\ \E n \in 0 .. Len(toServer) : toServer' = SubSeq(toServer, 1, n)
    /\ UNCHANGED <<client, unreadable, mode, filename, lines, num_files,
                   fileExists, overwrite, agreed, svars>>

ClientStep ==
    \/ MPutNext \/ PutExists \/ PutStatus \/ MGetNumber \/ MGetName
    \/ GetSize \/ GetData \/ Exit

UserStep == MPut \/ MGet \/ Quit \/ \E f \in File : Put(f) \/ Get(f)

-----------------------------------------------------------------------------
(* The server *)

\* A client that is gone reads nothing.
Reply(messages) ==
    toClient' = IF cpc = "killed" THEN <<>> ELSE toClient \o messages

\* Fault: recv does not wait.
NoWait == toServer = <<>>

\* recv gives a message, or nothing at the end of the connection.
AtEnd == toServer = <<>> /\ cpc = "killed"
Recv(what) == AtEnd \/ (toServer # <<>> /\ Head(toServer)[1] = what)
Received(old) == IF AtEnd THEN old ELSE Head(toServer)[2]
Drop == toServer' = IF AtEnd THEN <<>> ELSE Tail(toServer)

Listing(dir) == {f \in File : Exists(dir, f)}

\* Fault: the server counts one file too many.
TooMany == Cardinality(Listing(server)) + 1

ListSize == Cardinality(Listing(server))

ExistsHere(f) == IF Exists(server, f) THEN 1 ELSE 0

Command ==
    /\ spc = "command"
    /\ Recv("command") /\ Drop
    /\ buffer' = Received(buffer)
    /\ there' = Listing(server)
    /\ LET action == buffer'[1]
           f == buffer'[2]
       IN \/ /\ action = "put"
             /\ Reply(<<<<"exists", ExistsHere(f)>>>>)
             /\ spc' = "put_overwrite"
             /\ UNCHANGED files
          \/ /\ action = "get"
             /\ Reply(<<<<"size", Size(server[f])>>>>)
             /\ spc' = IF Size(server[f]) = 0 THEN "command"
                       ELSE "get_overwrite"
             /\ UNCHANGED files
          \/ /\ action = "mget"
             /\ Reply(<<<<"number", ListSize>>>>)
             /\ files' = Listing(server)
             /\ spc' = "mget"
          \/ /\ action = "quit"
             /\ Reply(<<<<"closed", 1>>>>)
             /\ spc' = "exited"
             /\ UNCHANGED files
          \/ /\ action = "none"
             /\ UNCHANGED <<spc, files, toClient>>
    /\ UNCHANGED <<server, soverwrite, cvars>>

\* Fault: a file is only written when it is new.
NewOnly(f, value) ==
    IF f \in Unwritable \/ server[f] \in Contents THEN server
    ELSE [server EXCEPT ![f] = value]

Written(f, value) ==
    IF f \in Unwritable THEN server ELSE [server EXCEPT ![f] = value]

\* The file is opened and cut off before its new contents are there.
PutOverwrite ==
    /\ spc = "put_overwrite"
    /\ Recv("overwrite") /\ Drop
    /\ soverwrite' = Received(soverwrite)
    /\ IF soverwrite' = 1
       THEN server' = Written(buffer[2], "empty") /\ spc' = "put_size"
       ELSE spc' = "command" /\ UNCHANGED server
    /\ UNCHANGED <<buffer, files, there, toClient, cvars>>

\* The size of an earlier file, or any, is used if none comes.  To write
\* nothing gives 0, and -1 without a file.
PutSize ==
    /\ spc = "put_size"
    /\ Recv("size") /\ Drop
    /\ \E size \in IF AtEnd THEN {0, 1} ELSE {Received(0)} :
         IF size = 0
         THEN /\ Reply(<<<<"status", IF buffer[2] \in Unwritable
                                    THEN 1 ELSE 0>>>>)
              /\ spc' = "command"
         ELSE spc' = "put_data" /\ UNCHANGED toClient
    /\ UNCHANGED <<server, buffer, files, soverwrite, there, cvars>>

PutData ==
    /\ spc = "put_data"
    /\ Recv("data") /\ Drop
    /\ server' = Written(buffer[2], Received("garbage"))
    /\ Reply(<<<<"status", 1>>>>)
    /\ spc' = "command"
    /\ UNCHANGED <<buffer, files, soverwrite, there, cvars>>

\* transferToClient after the size, for GET and for MGET
SendFile ==
    /\ spc \in {"get_overwrite", "mget_overwrite"}
    /\ Recv("overwrite") /\ Drop
    /\ soverwrite' = Received(soverwrite)
    /\ Reply(IF soverwrite' = 1 THEN <<<<"data", server[buffer[2]]>>>>
             ELSE <<>>)
    /\ spc' = IF spc = "get_overwrite" THEN "command" ELSE "mget"
    /\ UNCHANGED <<server, buffer, files, there, cvars>>

MGetNext ==
    /\ spc = "mget"
    /\ \/ /\ files = {}
          /\ spc' = "command"
          /\ UNCHANGED <<buffer, files, toClient>>
       \/ \E f \in files :
            /\ Reply(<<<<"name", f>>, <<"size", Size(server[f])>>>>)
            /\ files' = files \ {f}
            /\ buffer' = <<"mget", f>>  \* the file in hand
            /\ spc' = IF Size(server[f]) = 0 THEN "mget" ELSE "mget_overwrite"
    /\ UNCHANGED <<server, soverwrite, there, toServer, cvars>>

\* SIGPIPE
Dies ==
    /\ cpc = "killed"
    /\ spc \notin {"exited", "dead"}
    /\ spc' = "dead"
    /\ UNCHANGED <<server, buffer, files, soverwrite, there, toServer,
                   toClient, cvars>>

ServerStep ==
    \/ Command \/ PutOverwrite \/ PutSize \/ PutData \/ SendFile \/ MGetNext

-----------------------------------------------------------------------------

Next == ClientStep \/ UserStep \/ Killed \/ ServerStep \/ Dies

\* Processes go on as long as they can, and the user answers.
FairSpec ==
    /\ Init /\ [][Next]_vars
    /\ WF_vars(ClientStep) /\ WF_vars(ServerStep)

-----------------------------------------------------------------------------
(* Properties *)

ClientExpects ==
    [menu |-> "nothing", mput |-> "nothing", exited |-> "nothing",
     killed |-> "nothing", put_exists |-> "exists", put_status |-> "status",
     get_size |-> "size", get_data |-> "data", mget_number |-> "number",
     mget_name |-> "name", quit |-> "closed"]

ServerExpects ==
    [command |-> "command", put_overwrite |-> "overwrite",
     put_size |-> "size", put_data |-> "data", get_overwrite |-> "overwrite",
     mget_overwrite |-> "overwrite", mget |-> "later",
     exited |-> "nothing", dead |-> "later"]

(***************************************************************************)
(* Neither side ever takes a message for something else: what comes next   *)
(* is what it reads next, in any order of steps and of commands            *)
(* (client.cpp 16-73, 107-201, server.cpp 15-29, 62-149).                  *)
(***************************************************************************)
InStep ==
    /\ toClient # <<>> => ClientExpects[cpc] = Head(toClient)[1]
    /\ toServer # <<>> =>
         ServerExpects[spc] \in {Head(toServer)[1], "later"}

(***************************************************************************)
(* While the client lives, a file that was there when the server read its  *)
(* command is only cut off or changed by a PUT of this very file for which *)
(* the user was asked after the command was sent, and said yes.  The       *)
(* client sends overwrite with every PUT, asked or not, and with the value *)
(* left from before if not; the server does not look again whether the     *)
(* file exists (client.cpp 18-26, server.cpp 74-94).                       *)
(***************************************************************************)
OverwriteAgreed ==
    [][cpc # "killed" =>
         \A f \in there :
            server'[f] # server[f] =>
                f \in agreed /\ filename = f /\ buffer = <<"put", f>>]_vars

(***************************************************************************)
(* A PUT reported as successful has stored the file as it is at the        *)
(* client; with a file the server may not write, write gives -1 and that   *)
(* is reported as success, too (client.cpp 28-35, server.cpp 95-100).      *)
(***************************************************************************)
SuccessMeansStored ==
    cpc = "put_status" /\ Hear("status") /\ Heard = 1 =>
        filename \in Unwritable \/ server[filename] = client[filename]

(***************************************************************************)
(* The two wait for each other only when the client sends a file it cannot *)
(* read, and it only cannot because it once received it with a fileExists  *)
(* left over from another (client.cpp 30-31, 56-58, server.cpp 97).        *)
(***************************************************************************)
WaitForEachOther ==
    /\ toClient = <<>> /\ toServer = <<>>
    /\ ClientExpects[cpc] # "nothing"
    /\ ServerExpects[spc] \notin {"nothing", "later"}

NoMutualWait ==
    WaitForEachOther =>
        spc = "put_data" /\ cpc = "put_status" /\ filename \in unreadable

(***************************************************************************)
(* When the client is gone the server runs its last command again, and     *)
(* writes garbage into the file it names.  It is only one file, and only   *)
(* if the last command was a PUT (server.cpp 64-68, 84-101).               *)
(***************************************************************************)
OneFileDestroyed ==
    \A f \in File :
        server[f] = "garbage" => cpc = "killed" /\ buffer = <<"put", f>>

(***************************************************************************)
(* A command ends: the user gets the menu again, unless the client is      *)
(* killed or sends a file it cannot read (client.cpp 107-201).             *)
(***************************************************************************)
MenuAgain ==
    cpc # "menu" ~>
        cpc \in {"menu", "exited", "killed"} \/ filename \in unreadable
=============================================================================
