---------------------------- MODULE MCLogServers ----------------------------
(***************************************************************************)
(* What a process does to get its records into files: the nodes of a       *)
(* LinkLogServer, its buffers and their way to the record file and the     *)
(* center, and the SystemLog with its scheduled thread.  They share no     *)
(* state that is modelled: a behaviour uses one of them, chosen at its     *)
(* beginning.                                                              *)
(***************************************************************************)
EXTENDS LinkLogNodes, LinkBuffers, ScheduledLog

VARIABLE part

partVars == <<part, vars, bufferVars, logVars>>

PartInit ==
    /\ part \in {"nodes", "buffers", "log"}
    /\ Init /\ BufferInit /\ LogInit

PartNext ==
    /\ UNCHANGED part
    /\ \/ part = "nodes" /\ Next /\ UNCHANGED <<bufferVars, logVars>>
       \/ part = "buffers" /\ BufferNext /\ UNCHANGED <<vars, logVars>>
       \/ part = "log" /\ LogNext /\ UNCHANGED <<vars, bufferVars>>

\* Fairness of each class, in the behaviours that use it.
PartFairness ==
    /\ \A t \in Timer : WF_vars(part = "nodes" /\ t \in timers /\ CheckTimeout(t))
    /\ \A i \in Id : WF_vars(part = "nodes" /\ CreateAsHead(i))
    /\ WF_bufferVars(part = "buffers" /\ ~undefined /\ ServerStep)
    /\ \A b \in Slot : /\ WF_bufferVars(part = "buffers" /\ ~undefined /\ WriterStep(b))
                       /\ WF_bufferVars(part = "buffers" /\ ~undefined /\ Age(b))
    /\ WF_logVars(part = "log" /\ LogThreadStep)
    /\ SF_logVars(part = "log" /\ WaitOver(FALSE))
    /\ \A l \in Log : WF_logVars(part = "log" /\ PushStep(l))

PartSpec == PartInit /\ [][PartNext]_partVars /\ PartFairness

=============================================================================
