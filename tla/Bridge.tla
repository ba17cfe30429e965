------------------------------- MODULE Bridge -------------------------------
(***************************************************************************)
(* MultiThreading/Bridge.cpp: main starts THREADS north and as many south  *)
(* travellers, each a thread that crosses the bridge while it holds        *)
(* bridge_lock; main joins them all and destroys the mutex.  When a thread *)
(* cannot be created main returns, and the process ends with every thread. *)
(***************************************************************************)
EXTENDS Integers

CONSTANTS
    THREADS,
    NULL,        \* bridge_lock when it is free
    Destroyed    \* bridge_lock after pthread_mutex_destroy

Traveller == {"north", "south"} \X (0 .. THREADS - 1)

ASSUME BridgeAssumption ==
    /\ THREADS \in Nat \ {0}
    /\ NULL # Destroyed
    /\ NULL \notin Traveller /\ Destroyed \notin Traveller

VARIABLES
    main,          \* "creating", "joining", "returned", or "failed"
    pair,          \* the loop variable of either loop
    side,          \* the half of the loop body to come
    refused,       \* a pthread_create of this turn has failed
    traveller,     \* what every thread is doing
    bridge_lock    \* the traveller that holds it, NULL, or Destroyed

bridgeVars == <<main, pair, side, refused, traveller, bridge_lock>>

BridgeInit ==
    /\ main = "creating"
    /\ pair = 0
    /\ side = "north"
    /\ refused = FALSE
    /\ traveller = [t \in Traveller |-> "none"]
    /\ bridge_lock = NULL

-----------------------------------------------------------------------------
(* main *)

\* pthread_create succeeds or not; the result is looked at after both.
CreateNorth ==
    /\ main = "creating" /\ side = "north"
    /\ \E ok \in BOOLEAN :
        /\ refused' = ~ok
        /\ traveller' =
            IF ok THEN [traveller EXCEPT ![<<"north", pair>>] = "ready"]
            ELSE traveller
    /\ side' = "south"
    /\ UNCHANGED <<main, pair, bridge_lock>>

CreateSouth ==
    /\ main = "creating" /\ side = "south"
    /\ \E ok \in BOOLEAN :
        /\ traveller' =
            IF ok THEN [traveller EXCEPT ![<<"south", pair>>] = "ready"]
            ELSE traveller
        /\ IF refused \/ ~ok
           THEN main' = "failed" /\ pair' = pair
           ELSE IF pair + 1 < THREADS
                THEN main' = main /\ pair' = pair + 1
                ELSE main' = "joining" /\ pair' = 0
    /\ side' = "north"
    /\ refused' = FALSE
    /\ UNCHANGED bridge_lock

\* Every thread that is joined was created and is joined once, so no join
\* fails, and the return after a failed one is left out.
JoinNorth ==
    /\ main = "joining" /\ side = "north"
    /\ traveller[<<"north", pair>>] = "exited"
    /\ side' = "south"
    /\ UNCHANGED <<main, pair, refused, traveller, bridge_lock>>

\* Fault: the loop stops one turn early.
JoinSouthEarly ==
    /\ main = "joining" /\ side = "south"
    /\ traveller[<<"south", pair>>] = "exited"
    /\ IF pair + 2 < THREADS
       THEN UNCHANGED <<main, bridge_lock>> /\ pair' = pair + 1
       ELSE main' = "returned" /\ bridge_lock' = Destroyed /\ pair' = pair
    /\ side' = "north"
    /\ UNCHANGED <<refused, traveller>>

\* After the last join main destroys the mutex and returns.
JoinSouth ==
    /\ main = "joining" /\ side = "south"
    /\ traveller[<<"south", pair>>] = "exited"
    /\ IF pair + 1 < THREADS
       THEN UNCHANGED <<main, bridge_lock>> /\ pair' = pair + 1
       ELSE main' = "returned" /\ bridge_lock' = Destroyed /\ pair' = pair
    /\ side' = "north"
    /\ UNCHANGED <<refused, traveller>>

-----------------------------------------------------------------------------
(* north_people and south_people *)

Alive == main \in {"creating", "joining"}

\* Fault: the mutex is not waited for.
EnterAnyway(t) ==
    /\ Alive
    /\ traveller[t] = "ready"
    /\ bridge_lock' = t
    /\ traveller' = [traveller EXCEPT ![t] = "on bridge"]
    /\ UNCHANGED <<main, pair, side, refused>>

Enter(t) ==
    /\ Alive
    /\ traveller[t] = "ready"
    /\ bridge_lock = NULL
    /\ bridge_lock' = t
    /\ traveller' = [traveller EXCEPT ![t] = "on bridge"]
    /\ UNCHANGED <<main, pair, side, refused>>

\* Fault: the mutex is not released.
LeaveLocked(t) ==
    /\ Alive
    /\ traveller[t] = "on bridge"
    /\ traveller' = [traveller EXCEPT ![t] = "exited"]
    /\ UNCHANGED <<main, pair, side, refused, bridge_lock>>

Leave(t) ==
    /\ Alive
    /\ traveller[t] = "on bridge"
    /\ bridge_lock' = NULL
    /\ traveller' = [traveller EXCEPT ![t] = "exited"]
    /\ UNCHANGED <<main, pair, side, refused>>

-----------------------------------------------------------------------------

Main == CreateNorth \/ CreateSouth \/ JoinNorth \/ JoinSouth

Travel(t) == Enter(t) \/ Leave(t)

BridgeNext == Main \/ \E t \in Traveller : Travel(t)

BridgeSpec == BridgeInit /\ [][BridgeNext]_bridgeVars

(***************************************************************************)
(* Threads are scheduled.  Nothing is assumed of the order in which a      *)
(* mutex is granted: weak fairness is enough, for no thread locks twice.   *)
(***************************************************************************)
BridgeFairSpec ==
    /\ BridgeSpec
    /\ WF_bridgeVars(Main)
    /\ \A t \in Traveller : WF_bridgeVars(Travel(t))

-----------------------------------------------------------------------------
(* Properties *)

BridgeTypeOK ==
    /\ main \in {"creating", "joining", "returned", "failed"}
    /\ pair \in 0 .. THREADS - 1
    /\ side \in {"north", "south"}
    /\ refused \in BOOLEAN
    /\ traveller \in [Traveller -> {"none", "ready", "on bridge", "exited"}]
    /\ bridge_lock \in Traveller \cup {NULL, Destroyed}

(***************************************************************************)
(* README, Bridge Problem: people from both sides on the bridge at once    *)
(* would block each other.  Only the holder of bridge_lock is on it.       *)
(***************************************************************************)
OneOnBridge ==
    \A t \in Traveller : traveller[t] = "on bridge" <=> bridge_lock = t

\* The mutex is destroyed only when no thread will use it again (line 80).
DestroyedWhenUnused ==
    bridge_lock = Destroyed => \A t \in Traveller : traveller[t] = "exited"

\* Everybody gets across and main returns, if all threads can be created.
EveryoneCrosses == <>(main \in {"returned", "failed"})
=============================================================================
