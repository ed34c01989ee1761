----------------------------- MODULE MCRaftLive -----------------------------
(***************************************************************************)
(* A cluster whose founders have elected First in version 1, for the       *)
(* liveness properties.  From there one instance joins, one may leave, and *)
(* a second election may be held, in which First may be deposed.           *)
(***************************************************************************)
EXTENDS Raft

CONSTANT First

\* What start of every founder, one VoteToBeLeader, all votes and the first
\* heartbeats lead to.
Elected ==
    /\ phase = [n \in Node |-> IF n \in Founders THEN "running" ELSE "idle"]
    /\ state = [n \in Node |-> IF n = First THEN "Leader" ELSE "Follower"]
    /\ leader = [n \in Node |-> IF n \in Founders \ {First} THEN First ELSE NoAddr]
    /\ version = [n \in Node |-> IF n \in Founders THEN 1 ELSE 0]
    /\ votes = [n \in Node |-> 0]
    /\ peers = [n \in Node |-> InitialPeers(n)]
    /\ acked = [n \in Node |-> {}]
    /\ confirm = [n \in Node |-> 0] /\ round = [n \in Node |-> 0]
    /\ result = [n \in Node |-> "none"]
    /\ broken = [n \in Node |-> FALSE]
    /\ granted = {<<n, 1, First>> : n \in Founders}
    /\ net = {}

LiveSpec == Elected /\ [][Next]_vars /\ Fairness

=============================================================================
