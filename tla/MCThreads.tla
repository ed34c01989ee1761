------------------------------ MODULE MCThreads ------------------------------
(***************************************************************************)
(* The classes that serve their callers with threads of their own: the     *)
(* thread pool, the timer loop and the reactor.  They share no state: a    *)
(* behaviour uses one of them, chosen at its beginning.                    *)
(***************************************************************************)
EXTENDS ThreadPool, TimerLoop, Reactor

VARIABLE part

partVars == <<part, vars, timerVars, reactorVars>>

PartInit ==
    /\ part \in {"pool", "timer", "reactor"}
    /\ Init /\ TimerInit /\ ReactorInit

PartNext ==
    /\ UNCHANGED part
    /\ \/ part = "pool" /\ Next /\ UNCHANGED <<timerVars, reactorVars>>
       \/ part = "timer" /\ TimerNext /\ UNCHANGED <<vars, reactorVars>>
       \/ part = "reactor" /\ ReactorNext /\ UNCHANGED <<vars, timerVars>>

\* Fairness of each class, in the behaviours that use it.
PartFairness ==
    /\ \A w \in Worker : SF_vars(part = "pool" /\ WorkerStep(w))
    /\ \A c \in Client : SF_vars(part = "pool" /\ ClientStep(c))
    /\ SF_vars(part = "pool" /\ OwnerStep)
    /\ \A t \in Thread : WF_timerVars(part = "timer" /\ ThreadStep(t))
    /\ WF_timerVars(part = "timer" /\ Tick)
    /\ WF_reactorVars(part = "reactor" /\ LoopStep)
    /\ WF_reactorVars(part = "reactor" /\ ReactorJoin)

PartSpec == PartInit /\ [][PartNext]_partVars /\ PartFairness

=============================================================================
