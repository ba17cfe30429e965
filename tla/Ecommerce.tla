----------------------------- MODULE Ecommerce -----------------------------
(***************************************************************************)
(* MultiThreading/Ecommerce.cpp: the requests of one service after the     *)
(* other are given to its worker threads, ordered by priority, in rounds.  *)
(* In each round the resources of all threads are free again, and the      *)
(* request at the front of the queue goes to the first thread with enough  *)
(* left, or waits for the next round and holds up those behind it.         *)
(*                                                                         *)
(* The priorities are used only to sort, so a service is the sequence of   *)
(* its threads' resources in the order that std::sort leaves them in.  Any *)
(* order is an initial state: comp_func compares with >=, no strict order, *)
(* and nothing is assumed of the result.  Services, threads and requests   *)
(* are numbered from 1.                                                    *)
(***************************************************************************)
EXTENDS Integers, Sequences, FiniteSets, Functions

CONSTANTS
    n, m,       \* services, and worker threads of each
    Resource,   \* the resources of a thread, or of a request
    MaxRequests \* bound on the requests to one service

ASSUME EcommerceAssumption ==
    /\ n \in Nat
    /\ m \in Nat \ {0}
    /\ Resource \subseteq Nat
    /\ MaxRequests \in Nat

Service == 1 .. n
Thread == 1 .. m

VARIABLES
    resources_available,   \* per service and thread
    req_arr,               \* per service, the requests
    phase,                 \* "service", "round", "requests", or "done"
    i,                     \* the service
    temp_queue,            \* its requests still to handle, <<number, size>>
    time_stamp,            \* the round
    worker_resources,      \* what the round has left of every thread
    iter_size, l,          \* the loop over the queue
    wt_time,               \* waiting times
    rejected,
    waits,
    executed               \* per request, what the program prints of it

input == <<resources_available, req_arr>>
loop == <<iter_size, l>>
results == <<wt_time, rejected, executed>>
vars == <<input, phase, i, temp_queue, time_stamp, worker_resources, loop,
          results, waits>>

RequestLists == UNION {[1 .. k -> Resource] : k \in 0 .. MaxRequests}

Init ==
    /\ resources_available \in [Service -> [Thread -> Resource]]
    /\ req_arr \in [Service -> RequestLists]
    /\ phase = "service"
    /\ i = 0
    /\ temp_queue = <<>>
    /\ time_stamp = 0
    /\ worker_resources = [k \in Thread |-> 0]
    /\ iter_size = 0
    /\ l = 1
    /\ wt_time = [s \in Service |-> [r \in DOMAIN req_arr[s] |-> 0]]
    /\ rejected = 0
    /\ waits = 0
    /\ executed = {}

-----------------------------------------------------------------------------

\* for(int i=0; i<n; i++), with the requests of service i + 1 in the queue
NextService ==
    /\ phase = "service"
    /\ i < n
    /\ i' = i + 1
    /\ time_stamp' = 0
    /\ temp_queue' = [r \in DOMAIN req_arr[i + 1] |-> <<r, req_arr[i + 1][r]>>]
    /\ phase' = "round"
    /\ UNCHANGED <<input, worker_resources, loop, results, waits>>

Report ==
    /\ phase = "service"
    /\ i = n
    /\ waits' = Cardinality({w \in Service \X (1 .. MaxRequests) :
                    w[2] \in DOMAIN wt_time[w[1]] /\ wt_time[w[1]][w[2]] > 0})
    /\ phase' = "done"
    /\ UNCHANGED <<input, i, temp_queue, time_stamp, worker_resources, loop,
                   results>>

\* Fault: the loop over the rounds does not end.
NextRoundForever ==
    /\ phase = "round"
    /\ IF temp_queue = <<>>
       THEN UNCHANGED <<phase, worker_resources, loop>>
       ELSE /\ worker_resources' = resources_available[i]
            /\ iter_size' = Len(temp_queue)
            /\ l' = 1
            /\ phase' = "requests"
    /\ UNCHANGED <<input, i, temp_queue, time_stamp, results, waits>>

\* while(temp_queue.empty() != 1)
NextRound ==
    /\ phase = "round"
    /\ IF temp_queue = <<>>
       THEN phase' = "service" /\ UNCHANGED <<worker_resources, loop>>
       ELSE /\ worker_resources' = resources_available[i]
            /\ iter_size' = Len(temp_queue)
            /\ l' = 1
            /\ phase' = "requests"
    /\ UNCHANGED <<input, i, temp_queue, time_stamp, results, waits>>

curr_res == temp_queue[1][2]

Fits(k) == curr_res <= worker_resources[k]

\* Fault: a thread is taken whether it has room or not.
find_any(k) == TRUE

\* The first thread that has room.
find_thread(k) == Fits(k) /\ \A k1 \in Thread : k1 < k => ~Fits(k1)

\* No thread of the service has that much, used or not.
Abnormal == \A k \in Thread : resources_available[i][k] < curr_res

\* Fault: the thread's resources are not taken.
ExecuteForFree ==
    /\ phase = "requests" /\ l <= iter_size
    /\ ~Abnormal
    /\ \E place \in Thread :
        /\ find_thread(place)
        /\ executed' = executed \cup
            {[service |-> i, request |-> temp_queue[1][1],
              thread |-> place, time |-> time_stamp]}
    /\ wt_time' = [wt_time EXCEPT ![i][l] = time_stamp]
    /\ temp_queue' = Tail(temp_queue)
    /\ l' = l + 1
    /\ UNCHANGED <<input, phase, i, time_stamp, worker_resources, iter_size,
                   rejected, waits>>

\* Request number temp_queue[1][1] is executed; wt_time and worker_resources
\* are updated as for request number l.
Execute ==
    /\ phase = "requests" /\ l <= iter_size
    /\ ~Abnormal
    /\ \E place \in Thread :
        /\ find_thread(place)
        /\ worker_resources' =
            [worker_resources EXCEPT ![place] = @ - req_arr[i][l]]
        /\ executed' = executed \cup
            {[service |-> i, request |-> temp_queue[1][1],
              thread |-> place, time |-> time_stamp]}
    /\ wt_time' = [wt_time EXCEPT ![i][l] = time_stamp]
    /\ temp_queue' = Tail(temp_queue)
    /\ l' = l + 1
    /\ UNCHANGED <<input, phase, i, time_stamp, iter_size, rejected, waits>>

Reject ==
    /\ phase = "requests" /\ l <= iter_size
    /\ Abnormal
    /\ wt_time' = [wt_time EXCEPT ![i][l] = -1]
    /\ temp_queue' = Tail(temp_queue)
    /\ rejected' = rejected + 1
    /\ l' = l + 1
    /\ UNCHANGED <<input, phase, i, time_stamp, worker_resources, iter_size,
                   waits, executed>>

\* No thread has enough left; the same request is tried again.
Wait ==
    /\ phase = "requests" /\ l <= iter_size
    /\ ~Abnormal
    /\ \A k \in Thread : ~Fits(k)
    /\ l' = l + 1
    /\ UNCHANGED <<input, phase, i, temp_queue, time_stamp, worker_resources,
                   iter_size, results, waits>>

EndRound ==
    /\ phase = "requests" /\ l > iter_size
    /\ time_stamp' = time_stamp + 1
    /\ phase' = "round"
    /\ UNCHANGED <<input, i, temp_queue, worker_resources, loop, results,
                   waits>>

Next ==
    \/ NextService \/ Report \/ NextRound
    \/ Execute \/ Reject \/ Wait \/ EndRound

Spec == Init /\ [][Next]_vars

\* A sequential program that does not block.
FairSpec == Spec /\ WF_vars(Next)

-----------------------------------------------------------------------------
(* Properties *)

\* The requests of service s handled so far.
Handled(s) ==
    IF s < i THEN DOMAIN req_arr[s]
    ELSE IF s > i THEN {}
    ELSE 1 .. Len(req_arr[s]) - Len(temp_queue)

\* No thread of service s could ever execute request r.
TooBig(s, r) == \A k \in Thread : resources_available[s][k] < req_arr[s][r]

(***************************************************************************)
(* Although the loop over the queue counts with l what it takes from the   *)
(* front, no request is lost or executed twice: those handled are a prefix *)
(* of the list, executed unless no thread is big enough, each by a thread  *)
(* that is, and never before one that came earlier (lines 118-150).        *)
(***************************************************************************)
EveryRequestOnce ==
    /\ \A s \in Service : \A r \in DOMAIN req_arr[s] :
         LET runs == {e \in executed : e.service = s /\ e.request = r} IN
         Cardinality(runs)
            = IF r \in Handled(s) /\ ~TooBig(s, r) THEN 1 ELSE 0
    /\ \A e \in executed :
         /\ req_arr[e.service][e.request]
                <= resources_available[e.service][e.thread]
         /\ \A f \in executed :
              e.service = f.service /\ e.request < f.request
                  => e.time <= f.time
    /\ rejected = Cardinality({w \in Service \X (1 .. MaxRequests) :
                                w[2] \in Handled(w[1]) /\ TooBig(w[1], w[2])})

\* What the requests executed by thread k of service s in round t take.
Load(s, k, t) ==
    SumFunction([e \in {x \in executed : x.service = s /\ x.thread = k
                                        /\ x.time = t}
                   |-> req_arr[s][e.request]])

(***************************************************************************)
(* In the first round, where the loop variable is the number of the        *)
(* request, no thread is given more than it has (lines 122-139).           *)
(***************************************************************************)
FirstRoundFits ==
    \A s \in Service, k \in Thread :
        Load(s, k, 0) <= resources_available[s][k]

\* Every request is handled in the end.
AllServed == <>(phase = "done")
=============================================================================
