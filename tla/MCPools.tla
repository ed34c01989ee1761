------------------------------ MODULE MCPools ------------------------------
(***************************************************************************)
(* The two thread pools, the timer loop and the mutexes under them, for    *)
(* safety.  They share no state: a behaviour uses one of them, chosen at   *)
(* its beginning.                                                          *)
(***************************************************************************)
EXTENDS ThreadPool, LinkedThreadPool, TimerLoop, Mutexes

VARIABLE part

partVars == <<part, vars, linkedVars, timerVars, mutexVars>>

PartInit ==
    /\ part \in {"pool", "linked", "timer", "mutex"}
    /\ Init /\ LinkedInit /\ TimerInit /\ MutexInit
    /\ part # "mutex" => ~reentrant

PartNext ==
    /\ UNCHANGED part
    /\ \/ part = "pool" /\ Next /\ UNCHANGED <<linkedVars, timerVars, mutexVars>>
       \/ part = "linked" /\ LinkedNext /\ UNCHANGED <<vars, timerVars, mutexVars>>
       \/ part = "timer" /\ TimerNext /\ UNCHANGED <<vars, linkedVars, mutexVars>>
       \/ part = "mutex" /\ MutexNext /\ UNCHANGED <<vars, linkedVars, timerVars>>

PartSpec == PartInit /\ [][PartNext]_partVars

\* Clients are alike, and so are the threads that are not created yet.  The
\* four parts use the same model values, so that one symmetry set serves all:
\* c1 and c2 are clients, jobs and events, w1 to w3 threads and users of a mutex.
Symmetric == Permutations(Client) \cup Permutations(Worker)

=============================================================================
