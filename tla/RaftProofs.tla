----------------------------- MODULE RaftProofs -----------------------------
(***************************************************************************)
(* Proofs about VersionNumber, VersionCounter and Raft.  The wrapping      *)
(* order of versions serves a counter of any width.  For every set of      *)
(* nodes, every bound and every network Raft keeps the type invariant, one *)
(* vote per version, the order of roles, and what _peers promises to       *)
(* newcomers and to the handlers' asserts; for a cluster of fixed members  *)
(* whose votes the network does not duplicate, election safety.            *)
(***************************************************************************)
EXTENDS Raft, VersionCounter, FiniteSetTheorems, TLAPS

(* Versions *)

\* MAX is odd, so the other versions split into Half ones after and Half + 1 ones
\* before a given one (MAX_UINT / 2 in the source is rounded down).
LEMMA HalfOfMax == Half \in Nat /\ MAX \in Nat /\ MAX = 2 * Half + 1 /\ Half >= 1
BY MaxAssumption DEF Half

\* operator++ adds one modulo MAX + 1.
LEMMA SuccIsModular ==
    \A v \in Version : Succ(v) \in Version /\ Succ(v) = (v + 1) % (MAX + 1)
<1> SUFFICES ASSUME NEW v \in Version
             PROVE  Succ(v) \in Version /\ Succ(v) = (v + 1) % (MAX + 1)
    OBVIOUS
<1>1. CASE v = MAX
    BY <1>1, HalfOfMax DEF Version, Succ
<1>2. CASE v # MAX
    BY <1>2, HalfOfMax DEF Version, Succ
<1> QED BY <1>1, <1>2

\* operator+= adds its step modulo MAX + 1, in the branch that wraps too.
LEMMA PlusIsModular ==
    \A v, step \in Version :
        Plus(v, step) \in Version /\ Plus(v, step) = (v + step) % (MAX + 1)
<1> SUFFICES ASSUME NEW v \in Version, NEW step \in Version
             PROVE  /\ Plus(v, step) \in Version
                    /\ Plus(v, step) = (v + step) % (MAX + 1)
    OBVIOUS
<1>1. CASE step < MAX - v
    BY <1>1, HalfOfMax DEF Version, Plus
<1>2. CASE step = MAX - v
    BY <1>2, HalfOfMax DEF Version, Plus
<1>3. CASE step > MAX - v
    BY <1>3, HalfOfMax DEF Version, Plus
<1> QED BY <1>1, <1>2, <1>3, HalfOfMax DEF Version

\* Any two different versions are ordered by operator<, one way and not the
\* other, and operator> is operator< with its arguments exchanged.
THEOREM OrderIsTotal ==
    \A v, w \in Version :
        /\ Greater(v, w) <=> Less(w, v)
        /\ v # w => (Less(v, w) <=> ~Less(w, v))
        /\ ~Less(v, v)
BY HalfOfMax DEF Version, Greater, Less

\* The counter's distance to the copy decides how operator< orders the two.
LEMMA DistanceDecides ==
    ASSUME NEW v \in Version, NEW d \in 0 .. Half
    PROVE  LET w == (v + d) % (MAX + 1)
           IN  /\ Less(v, w) <=> d > 0
               /\ ~Less(w, v)
<1> DEFINE w == (v + d) % (MAX + 1)
<1>1. CASE v + d <= MAX
    <2>1. w = v + d
        BY <1>1, HalfOfMax DEF Version
    <2> QED BY <1>1, <2>1, HalfOfMax DEF Version, Less
<1>2. CASE v + d > MAX
    <2>1. w = v + d - (MAX + 1)
        <3>1. v + d = (v + d - (MAX + 1)) + (MAX + 1)
            BY HalfOfMax DEF Version
        <3>2. v + d - (MAX + 1) \in 0 .. MAX
            BY <1>2, HalfOfMax DEF Version
        <3> QED BY <3>1, <3>2, HalfOfMax DEF Version
    <2> QED BY <1>2, <2>1, HalfOfMax DEF Version, Less
<1> QED BY <1>1, <1>2, HalfOfMax DEF Version

\* Adding a second step to a sum that was reduced already.
LEMMA ModAddsUp ==
    ASSUME NEW s \in Version, NEW d \in 0 .. Half, NEW e \in 0 .. Half
    PROVE  (((s + d) % (MAX + 1)) + e) % (MAX + 1) = (s + (d + e)) % (MAX + 1)
<1> DEFINE r == (s + d) % (MAX + 1)
<1>1. CASE s + d <= MAX
    <2>1. r = s + d
        BY <1>1, HalfOfMax DEF Version
    <2> QED BY <2>1, HalfOfMax DEF Version
<1>2. CASE s + d > MAX
    <2>1. r = s + d - (MAX + 1)
        BY <1>2, HalfOfMax DEF Version
    <2>2. r + e \in 0 .. MAX
        BY <2>1, <1>2, HalfOfMax DEF Version
    <2>3. (r + e) % (MAX + 1) = s + (d + e) - (MAX + 1)
        BY <2>1, <2>2, HalfOfMax DEF Version
    <2>4. (s + (d + e)) % (MAX + 1) = s + (d + e) - (MAX + 1)
        <3>1. s + (d + e) \in MAX + 1 .. 2 * MAX + 1
            BY <1>2, HalfOfMax DEF Version
        <3> QED BY <3>1, HalfOfMax DEF Version
    <2> QED BY <2>3, <2>4
<1> QED BY <1>1, <1>2, HalfOfMax DEF Version

CounterInv == CounterTyped /\ MovesExactly

\* Every step keeps the counter at its distance from the copy.
LEMMA StepKeepsDistance == CounterInv /\ [CounterNext]_counterVars => CounterInv'
<1> SUFFICES ASSUME CounterInv, [CounterNext]_counterVars PROVE CounterInv'
    OBVIOUS
<1> USE HalfOfMax
<1>1. CASE Increment
    <2>1. cur' = (cur + 1) % (MAX + 1) /\ cur' \in Version
        BY <1>1, SuccIsModular DEF Increment, CounterInv, CounterTyped
    <2>2. cur' = (stamp + (ahead + 1)) % (MAX + 1)
        BY <2>1, ModAddsUp, 1 \in 0 .. Half DEF CounterInv, CounterTyped, MovesExactly
    <2> QED BY <1>1, <2>1, <2>2 DEF Increment, CounterInv, CounterTyped, MovesExactly
<1>2. ASSUME NEW step \in 1 .. Half, Advance(step) PROVE CounterInv'
    <2>1. cur' = (cur + step) % (MAX + 1) /\ cur' \in Version
        BY <1>2, PlusIsModular, step \in Version DEF Advance, CounterInv, CounterTyped, Version
    <2>2. cur' = (stamp + (ahead + step)) % (MAX + 1)
        BY <2>1, ModAddsUp, step \in 0 .. Half DEF CounterInv, CounterTyped, MovesExactly
    <2> QED BY <1>2, <2>1, <2>2 DEF Advance, CounterInv, CounterTyped, MovesExactly
<1>3. CASE Copy
    BY <1>3 DEF Copy, CounterInv, CounterTyped, MovesExactly, Version
<1>4. CASE UNCHANGED counterVars
    BY <1>4 DEF counterVars, CounterInv, CounterTyped, MovesExactly
<1> QED BY <1>1, <1>2, <1>3, <1>4 DEF CounterNext

\* For a counter of every width, ++ and += move exactly by their step and the
\* order of a copy and a counter at most Half ahead survives the wrap.
THEOREM CounterOrder == CounterSpec => [](MovesExactly /\ OrderSurvivesWrap)
<1>1. CounterInit => CounterInv
    BY HalfOfMax DEF CounterInit, CounterInv, CounterTyped, MovesExactly, Version
<1>2. CounterInv => MovesExactly /\ OrderSurvivesWrap
    <2> SUFFICES ASSUME CounterInv PROVE OrderSurvivesWrap
        BY DEF CounterInv
    <2>1. /\ Less(stamp, cur) <=> ahead > 0
          /\ ~Less(cur, stamp)
        BY DistanceDecides DEF CounterInv, CounterTyped, MovesExactly
    <2> QED BY <2>1, OrderIsTotal DEF CounterInv, CounterTyped, OrderSurvivesWrap
<1> QED BY <1>1, <1>2, StepKeepsDistance, PTL DEF CounterSpec

-----------------------------------------------------------------------------
(* Raft *)

\* Up to MaxVersion, which is at most Half, the wrapping order is the usual one.
LEMMA VersionOrder ==
    /\ MaxVersion \in Nat
    /\ \A v, w \in 0 .. MaxVersion :
          /\ Less(v, w) <=> v < w
          /\ Greater(v, w) <=> v > w
    /\ \A v \in 0 .. MaxVersion : v < MaxVersion => Succ(v) = v + 1
<1>1. MAX \in Nat /\ Half \in Nat /\ 2 * Half <= MAX
    BY MaxAssumption DEF Half
<1>2. MaxVersion \in Nat /\ MaxVersion <= Half
    BY <1>1, BoundAssumption
<1> QED BY <1>1, <1>2 DEF Less, Greater, Succ

\* What RaftMessage's initialisers build is a message.
LEMMA MessagesTyped ==
    ASSUME NEW n \in Node, NEW v \in 0 .. MaxVersion
    PROVE  /\ \A t \in MessageType, d \in Node : Msg(t, n, d, v) \in Message
           /\ \A c \in BOOLEAN, d \in Node : VoteMsg(n, d, v, c) \in Message
           /\ \A t \in MessageType, D \in SUBSET Node :
                 ToAll(t, n, D, v) \subseteq Message
<1>1. \A t \in MessageType, d \in Node : Msg(t, n, d, v) \in Message
    BY DEF Msg, Message
<1>2. \A c \in BOOLEAN, d \in Node : VoteMsg(n, d, v, c) \in Message
    BY DEF VoteMsg, Message, MessageType
<1>3. \A t \in MessageType, D \in SUBSET Node : ToAll(t, n, D, v) \subseteq Message
    BY <1>1 DEF ToAll
<1> QED BY <1>1, <1>2, <1>3

\* A datagram that is handled.
LEMMA HandledTyped ==
    ASSUME TypeOK, NEW m \in net
    PROVE  /\ m \in Message
           /\ m.type \in MessageType /\ m.src \in Node /\ m.dst \in Node
           /\ m.version \in 0 .. MaxVersion /\ m.choose \in BOOLEAN
BY DEF TypeOK, Message

\* A handler that takes a datagram and sends others keeps the network typed,
LEMMA ReceiveTyped ==
    ASSUME TypeOK, NEW m \in net, NEW M \in SUBSET Message, Receive(m, M)
    PROVE  net' \subseteq Message
BY DEF TypeOK, Receive, Taken

\* and so does one that sends only.
LEMMA SendTyped ==
    ASSUME TypeOK, NEW M \in SUBSET Message, Send(M)
    PROVE  net' \subseteq Message
BY DEF TypeOK, Send

\* The types of the peers and of the ghost flag after SeeSender.
LEMMA SeeSenderTyped ==
    ASSUME TypeOK, NEW n \in Node, NEW m \in net, SeeSender(n, m) 
    PROVE  /\ peers' \in [Node -> SUBSET Node]
           /\ broken' \in [Node -> BOOLEAN]
<1>1. PeersSeen(n, m) \in SUBSET Node
    BY HandledTyped DEF TypeOK, PeersSeen
<1>2. peers' \in [Node -> SUBSET Node]
    BY <1>1 DEF TypeOK, SeeSender
<1>3. UnknownSender(n, m) \in BOOLEAN
    BY DEF UnknownSender
<1>4. broken' \in [Node -> BOOLEAN]
    BY <1>3 DEF TypeOK, SeeSender
<1> QED BY <1>2, <1>4

\* What every handler does first keeps the types of what it changes.
LEMMA HandlesTyped ==
    ASSUME TypeOK, NEW n \in Node, NEW m \in net, Handles(n, m) 
    PROVE  /\ peers' \in [Node -> SUBSET Node]
           /\ broken' \in [Node -> BOOLEAN]
BY SeeSenderTyped DEF Handles, TypeOK

\* The loops of join_to_cluster and exit_cluster.
LEMMA LoopHeadTyped ==
    ASSUME TypeOK, NEW n \in Node, NEW ph \in {"joining", "exiting"},
           NEW i \in Nat, NEW P \in SUBSET Node, NEW A \in SUBSET Node, NEW c \in Nat,
           LoopHead(n, ph, i, P, A, c)
    PROVE  /\ phase' \in [Node -> Phase]
           /\ round' \in [Node -> 0 .. Rounds]
           /\ acked' \in [Node -> SUBSET Node]
           /\ result' \in [Node -> {"none", "ok", "failed"}]
<1>1. CASE i < Rounds /\ c < Cardinality(P)
    BY <1>1 DEF TypeOK, LoopHead, Phase, Rounds
<1>2. CASE ~(i < Rounds /\ c < Cardinality(P))
    <2>1. Ends[ph] \in Phase
        BY DEF Ends, Phase
    <2> QED BY <1>2, <2>1 DEF TypeOK, LoopHead, Rounds
<1> QED BY <1>1, <1>2

\* A round of joining or leaving sends datagrams.
LEMMA AnnounceTyped ==
    ASSUME TypeOK, NEW n \in Node, NEW ph \in {"joining", "exiting"},
           NEW i, NEW P \in SUBSET Node, NEW A, NEW c
    PROVE  Announce(n, ph, i, P, A, c) \subseteq Message
<1>1. Announces[ph] \in MessageType
    BY DEF Announces, MessageType
<1>2. version[n] \in 0 .. MaxVersion
    BY DEF TypeOK
<1> QED BY <1>1, <1>2, MessagesTyped DEF Announce

\* Changing the leader keeps the types.
LEMMA ChangeLeaderTyped ==
    ASSUME TypeOK, NEW n \in Node, NEW v \in 0 .. MaxVersion,
           NEW a \in Node \cup {NoAddr}, ChangeLeaderTo(n, v, a)
    PROVE  /\ state' \in [Node -> RoleState]
           /\ leader' \in [Node -> Node \cup {NoAddr}]
           /\ version' \in [Node -> 0 .. MaxVersion]
           /\ votes' \in [Node -> Nat]
BY DEF TypeOK, ChangeLeaderTo, RoleState

\* So does the answer to a heartbeat.
LEMMA LeaderCheckReplyTyped ==
    ASSUME TypeOK, NEW n \in Node, NEW m \in net, LeaderCheckReply(n, m)
    PROVE  net' \subseteq Message
<1>1. PICK t \in {"Request", "FollowerAck"} : Receive(m, {Msg(t, n, m.src, m.version)})
    BY DEF LeaderCheckReply
<1>2. Msg(t, n, m.src, m.version) \in Message
    BY HandledTyped, MessagesTyped DEF MessageType
<1> QED BY <1>1, <1>2, ReceiveTyped

\* Every datagram a thread handles leaves the state typed.
LEMMA HandleMessageTyped ==
    ASSUME TypeOK, NEW n \in Node, NEW m \in net, HandleMessage(n, m)
    PROVE  TypeOK'
<1> USE HandledTyped
<1> DEFINE V == version[n]
<1>0. V \in 0 .. MaxVersion /\ peers[n] \in SUBSET Node
    BY DEF TypeOK
<1>e. Receive(m, {}) => net' \subseteq Message
    BY ReceiveTyped
<1>t. \A t \in MessageType : Msg(t, n, m.src, V) \in Message
    BY <1>0, MessagesTyped
<1>1. CASE DropOutdated(n, m)
    BY <1>1, <1>e DEF DropOutdated, TypeOK, role, loop
<1>2. CASE IgnoreMessage(n, m)
    BY <1>2, <1>e, SeeSenderTyped DEF IgnoreMessage, TypeOK, role, loop
<1>3. CASE GrantVote(n, m)
    <2>1. net' \subseteq Message
        BY <1>3, ReceiveTyped, MessagesTyped DEF GrantVote
    <2>2. granted' \subseteq Node \X (0 .. MaxVersion) \X (Node \cup {NoAddr})
        BY <1>3 DEF GrantVote, TypeOK
    <2> QED BY <1>3, <2>1, <2>2, ChangeLeaderTyped, HandlesTyped
            DEF GrantVote, TypeOK, loop
<1>4. CASE RefuseCandidate(n, m)
    <2>1. \A d : d \in Node => VoteMsg(n, d, m.version, FALSE) \in Message
        BY MessagesTyped
    <2>2. \A d : Reaching({VoteMsg(n, d, m.version, FALSE)}) \subseteq Message
        BY <2>1 DEF Reaching, VoteMsg
    <2>3. \A late \in LastHeartbeat(n, m.version) : late \subseteq Message
        <3>1. "LeaderCheck" \in MessageType
            BY DEF MessageType
        <3>2. ToAll("LeaderCheck", n, peers[n], m.version) \subseteq Message
            BY <1>0, <3>1, MessagesTyped
        <3> QED BY <3>2 DEF LastHeartbeat
    <2>4. net' \subseteq Message
        <3>1. PICK to \in {m.src, NoAddr}, late \in LastHeartbeat(n, m.version) :
                  Receive(m, Reaching({VoteMsg(n, to, m.version, FALSE)}) \cup late)
            BY <1>4 DEF RefuseCandidate
        <3> DEFINE M == Reaching({VoteMsg(n, to, m.version, FALSE)}) \cup late
        <3>2. M \in SUBSET Message
            BY <2>2, <2>3
        <3>3. Receive(m, M)
            BY <3>1
        <3> HIDE DEF M
        <3> QED BY <3>2, <3>3, ReceiveTyped
    <2>5. granted' \subseteq Node \X (0 .. MaxVersion) \X (Node \cup {NoAddr})
        BY <1>4 DEF RefuseCandidate, TypeOK
    <2> QED BY <1>4, <2>4, <2>5, ChangeLeaderTyped, HandlesTyped
            DEF RefuseCandidate, TypeOK, loop
<1>5. CASE DenyVote(n, m)
    <2>1. net' \subseteq Message
        BY <1>5, <1>0, ReceiveTyped, MessagesTyped DEF DenyVote
    <2> QED BY <1>5, <2>1, HandlesTyped DEF DenyVote, TypeOK, role, loop
<1>6. CASE AcceptVote(n, m)
    <2>1. CASE state[n] = "Candidate" /\ m.choose /\ votes[n] + 1 >= Majority(n)
        <3>1. CountVote(n, m)
            BY <1>6, <2>1 DEF AcceptVote
        <3>2. net' \subseteq Message
            BY <3>1, <2>1, <1>0, ReceiveTyped, MessagesTyped DEF CountVote, MessageType
        <3> QED BY <1>6, <2>1, <3>1, <3>2, SeeSenderTyped
                DEF AcceptVote, CountVote, TypeOK, loop, RoleState
    <2>2. CASE state[n] = "Candidate" /\ m.choose /\ ~(votes[n] + 1 >= Majority(n))
        <3>1. CountVote(n, m)
            BY <1>6, <2>2 DEF AcceptVote
        <3> QED BY <1>6, <2>2, <3>1, <1>e, SeeSenderTyped
                DEF AcceptVote, CountVote, TypeOK, loop
    <2>3. CASE ~(state[n] = "Candidate" /\ m.choose)
        BY <1>6, <2>3, <1>e, SeeSenderTyped DEF AcceptVote, TypeOK, role, loop
    <2> QED BY <2>1, <2>2, <2>3
<1>7. CASE LeaderCheckFromLeader(n, m)
    <2>1. version' \in [Node -> 0 .. MaxVersion]
        BY <1>7 DEF LeaderCheckFromLeader, TypeOK
    <2> QED BY <1>7, <2>1, LeaderCheckReplyTyped, SeeSenderTyped
            DEF LeaderCheckFromLeader, TypeOK, loop
<1>8. CASE RefuteOldLeader(n, m)
    <2>1. net' \subseteq Message
        BY <1>8, <1>t, ReceiveTyped DEF RefuteOldLeader, MessageType
    <2> QED BY <1>8, <2>1, SeeSenderTyped DEF RefuteOldLeader, TypeOK, role, loop
<1>9. CASE FollowNewLeader(n, m)
    BY <1>9, LeaderCheckReplyTyped, ChangeLeaderTyped, HandlesTyped
       DEF FollowNewLeader, MayFollow, TypeOK, loop
<1>10. CASE SplitBrainExit(n, m)
    <2>1. phase' \in [Node -> Phase]
        BY <1>10 DEF SplitBrainExit, TypeOK, Phase
    <2> QED BY <1>10, <2>1, <1>e, HandlesTyped
            DEF SplitBrainExit, MayFollow, TypeOK, role
<1>11. CASE NewOneOnline(n, m)
    <2>1. net' \subseteq Message
        BY <1>11, <1>t, ReceiveTyped DEF NewOneOnline, OnlineReply, MessageType
    <2>2. peers' \in [Node -> SUBSET Node]
        BY <1>11 DEF NewOneOnline, AddPeer, TypeOK
    <2> QED BY <1>11, <2>1, <2>2 DEF NewOneOnline, AddPeer, TypeOK, role
<1>12. CASE PeerOffline(n, m)
    <2>1. net' \subseteq Message
        BY <1>12, <1>t, ReceiveTyped DEF PeerOffline, MessageType
    <2>2. /\ peers' \in [Node -> SUBSET Node]
          /\ acked' \in [Node -> SUBSET Node]
          /\ leader' \in [Node -> Node \cup {NoAddr}]
        BY <1>12 DEF PeerOffline, ErasePeer, TypeOK
    <2>3. broken' \in [Node -> BOOLEAN]
        <3>1. UnknownSender(n, m) \in BOOLEAN
            BY DEF UnknownSender
        <3> QED BY <1>12, <3>1 DEF PeerOffline, TypeOK
    <2> QED BY <1>12, <2>1, <2>2, <2>3 DEF PeerOffline, TypeOK
<1>13. CASE Confirmed(n, m)
    <2>1. phase[n] \in {"joining", "exiting"}
        BY <1>13 DEF Confirmed, Joining, Exiting
    <2>2. CASE NewlyConfirmed(n, m)
        <3>1. PICK i \in Nat : LoopHead(n, phase[n], i, peers[n],
                                    acked[n] \cup {m.src}, confirm[n] + 1)
            BY <1>13, <2>2 DEF Confirmed, TypeOK, Rounds
        <3>2. acked[n] \cup {m.src} \in SUBSET Node /\ confirm[n] + 1 \in Nat
            BY DEF TypeOK
        <3>3. confirm' \in [Node -> Nat]
            BY <1>13, <2>2 DEF Confirmed, TypeOK
        <3>4. /\ phase' \in [Node -> Phase] 
              /\ round' \in [Node -> 0 .. Rounds]
              /\ acked' \in [Node -> SUBSET Node]
              /\ result' \in [Node -> {"none", "ok", "failed"}]
            BY <1>0, <2>1, <3>1, <3>2, LoopHeadTyped
        <3> QED BY <1>13, <1>e, <3>3, <3>4 DEF Confirmed, TypeOK, role
    <2>3. CASE ~NewlyConfirmed(n, m)
        BY <1>13, <2>3, <1>e DEF Confirmed, TypeOK, role, loop
    <2> QED BY <2>2, <2>3
<1>14. CASE OnlineInLoop(n, m)
    <2>1. phase[n] \in {"joining", "exiting"}
        BY <1>14 DEF OnlineInLoop, Joining, Exiting
    <2>2. Announces[phase[n]] \in MessageType
        BY <2>1 DEF Announces, MessageType
    <2>3. net' \subseteq Message
        BY <1>14, <1>t, <2>2, ReceiveTyped DEF OnlineInLoop, OnlineReply, MessageType
    <2>4. peers' \in [Node -> SUBSET Node]
        BY <1>14 DEF OnlineInLoop, AddPeer, TypeOK
    <2> QED BY <1>14, <2>3, <2>4 DEF OnlineInLoop, AddPeer, TypeOK, role
<1>15. CASE OfflineInLoop(n, m)
    <2>1. phase[n] \in {"joining", "exiting"}
        BY <1>15 DEF OfflineInLoop, Joining, Exiting
    <2>2. Announces[phase[n]] \in MessageType
        BY <2>1 DEF Announces, MessageType
    <2>3. net' \subseteq Message
        BY <1>15, <1>t, <2>2, ReceiveTyped DEF OfflineInLoop, MessageType
    <2>4. /\ peers' \in [Node -> SUBSET Node]
          /\ leader' \in [Node -> Node \cup {NoAddr}]
        BY <1>15 DEF OfflineInLoop, TypeOK
    <2>5. PICK i \in Nat : LoopHead(n, phase[n], i, peers[n] \ {m.src},
                                acked[n] \ {m.src}, confirm[n])
        BY <1>15 DEF OfflineInLoop, TypeOK, Rounds
    <2>6. /\ acked[n] \ {m.src} \in SUBSET Node /\ confirm[n] \in Nat
          /\ peers[n] \ {m.src} \in SUBSET Node
        BY DEF TypeOK
    <2>7. /\ phase' \in [Node -> Phase] 
          /\ round' \in [Node -> 0 .. Rounds]
          /\ acked' \in [Node -> SUBSET Node]
          /\ result' \in [Node -> {"none", "ok", "failed"}]
        BY <2>1, <2>5, <2>6, LoopHeadTyped
    <2> QED BY <1>15, <2>3, <2>4, <2>7 DEF OfflineInLoop, TypeOK
<1>16. CASE IgnoreInLoop(n, m)
    BY <1>16, <1>e DEF IgnoreInLoop, TypeOK, role, loop
<1> QED BY <1>1, <1>2, <1>3, <1>4, <1>5, <1>6, <1>7, <1>8, <1>9, <1>10, <1>11,
           <1>12, <1>13, <1>14, <1>15, <1>16 DEF HandleMessage

\* Every timeout and every call of the owner leaves the state typed.
LEMMA OwnStepTyped ==
    ASSUME TypeOK, NEW n \in Node, OwnStep(n)
    PROVE  TypeOK'
<1>0. version[n] \in 0 .. MaxVersion /\ peers[n] \in SUBSET Node
    BY DEF TypeOK
<1>1. CASE VoteToBeLeader(n)
    <2>1. Succ(version[n]) \in 0 .. MaxVersion
        BY <1>0, <1>1, VersionOrder DEF VoteToBeLeader
    <2>2. net' \subseteq Message
        BY <1>0, <1>1, <2>1, MessagesTyped, SendTyped DEF VoteToBeLeader, MessageType
    <2>3. granted' \subseteq Node \X (0 .. MaxVersion) \X (Node \cup {NoAddr})
        BY <1>1, <2>1 DEF VoteToBeLeader, TypeOK
    <2> QED BY <1>1, <2>1, <2>2, <2>3 DEF VoteToBeLeader, TypeOK, RoleState, loop
<1>2. CASE LeaderTimeout(n) \/ SynchronizeLogsToFollowers(n)
    <2>1. net' \subseteq Message
        BY <1>0, <1>2, MessagesTyped, SendTyped
           DEF LeaderTimeout, SynchronizeLogsToFollowers, MessageType
    <2> QED BY <1>2, <2>1
            DEF LeaderTimeout, SynchronizeLogsToFollowers, TypeOK, role, loop
<1>3. CASE Start(n) \/ Stop(n)
    BY <1>3 DEF Start, Stop, TypeOK, RoleState, Phase, role
<1>4. ASSUME NEW ph \in {"joining", "exiting"}, EnterLoop(n, ph) PROVE TypeOK'
    <2>1. /\ phase' \in [Node -> Phase]
          /\ round' \in [Node -> 0 .. Rounds]
          /\ acked' \in [Node -> SUBSET Node]
          /\ result' \in [Node -> {"none", "ok", "failed"}]
        BY <1>0, <1>4, LoopHeadTyped DEF EnterLoop
    <2>2. net' \subseteq Message
        BY <1>0, <1>4, AnnounceTyped, SendTyped DEF EnterLoop
    <2> QED BY <1>4, <2>1, <2>2 DEF EnterLoop, TypeOK, role
<1>5. CASE LoopTimeout(n)
    <2>1. phase[n] \in {"joining", "exiting"}
        BY <1>5 DEF LoopTimeout
    <2>2. round[n] + 1 \in Nat /\ acked[n] \in SUBSET Node /\ confirm[n] \in Nat
        BY DEF TypeOK, Rounds
    <2>3. /\ phase' \in [Node -> Phase]
          /\ round' \in [Node -> 0 .. Rounds]
          /\ acked' \in [Node -> SUBSET Node]
          /\ result' \in [Node -> {"none", "ok", "failed"}]
        BY <1>0, <1>5, <2>1, <2>2, LoopHeadTyped DEF LoopTimeout
    <2>4. net' \subseteq Message
        BY <1>0, <1>5, <2>1, AnnounceTyped, SendTyped DEF LoopTimeout
    <2> QED BY <1>5, <2>3, <2>4 DEF LoopTimeout, TypeOK, role
<1> QED BY <1>1, <1>2, <1>3, <1>4, <1>5 DEF OwnStep, JoinToCluster, ExitCluster

\* Nothing changes in a stuttering step.
LEMMA StutterTyped == TypeOK /\ UNCHANGED vars => TypeOK'
BY DEF TypeOK, vars, role, loop

\* The types hold initially.
LEMMA InitTyped == Init => TypeOK
BY NodeAssumption, VersionOrder
   DEF Init, TypeOK, InitialPeers, Phase, RoleState, Rounds

\* Every step keeps the types.
LEMMA NextTyped == TypeOK /\ [Next]_vars => TypeOK'
BY HandleMessageTyped, OwnStepTyped, StutterTyped DEF Next

\* Type correctness: no handler, timeout or call of the owner takes a member out
\* of its type, for every set of nodes and every network.
THEOREM Typing == Spec => []TypeOK
BY InitTyped, NextTyped, PTL DEF Spec

-----------------------------------------------------------------------------
(* One vote per version. *)

\* Whatever datagram is copied, an instance's version never goes back, and only
\* become_candidate and vote_to decide, in a version new to the one that decides.
LEMMA VersionsAndGrants ==
    ASSUME TypeOK, [Next]_vars
    PROVE  /\ \A n \in Node : version'[n] >= version[n]
           /\ \/ granted' = granted
              \/ \E n \in Node, c \in Node \cup {NoAddr} :
                    /\ version'[n] > version[n]
                    /\ granted' = granted \cup {<<n, version'[n], c>>}
<1> DEFINE Ok == /\ \A n \in Node : version'[n] >= version[n]
                 /\ \/ granted' = granted
                    \/ \E n \in Node, c \in Node \cup {NoAddr} :
                          /\ version'[n] > version[n]
                          /\ granted' = granted \cup {<<n, version'[n], c>>}
<1>0. version \in [Node -> 0 .. MaxVersion] /\ MaxVersion \in Nat
    BY VersionOrder DEF TypeOK
<1>1. ASSUME UNCHANGED version, UNCHANGED granted PROVE Ok
    BY <1>0, <1>1
<1>2. ASSUME NEW n \in Node, OwnStep(n) PROVE Ok
    <2>1. CASE VoteToBeLeader(n)
        <3>1. version' = [version EXCEPT ![n] = version[n] + 1]
            BY <2>1, <1>0, VersionOrder DEF VoteToBeLeader
        <3>2. granted' = granted \cup {<<n, version'[n], n>>}
            BY <2>1, <1>0 DEF VoteToBeLeader
        <3> QED BY <1>0, <3>1, <3>2
    <2>2. CASE ~VoteToBeLeader(n)
        BY <1>1, <1>2, <2>2
           DEF OwnStep, LeaderTimeout, SynchronizeLogsToFollowers, Start, Stop,
               JoinToCluster, ExitCluster, EnterLoop, LoopTimeout, role
    <2> QED BY <2>1, <2>2
<1>3. ASSUME NEW n \in Node, NEW m \in net, HandleMessage(n, m) PROVE Ok
    <2>0. m.version \in 0 .. MaxVersion /\ m.src \in Node
        BY HandledTyped
    <2>1. ASSUME version' = [version EXCEPT ![n] = m.version], UNCHANGED granted,
                 ~Less(m.version, version[n])
          PROVE  Ok
        BY <1>0, <2>0, <2>1, VersionOrder
    <2>2. CASE GrantVote(n, m)
        <3>1. version' = [version EXCEPT ![n] = m.version] /\ m.version > version[n]
            BY <1>0, <2>0, <2>2, VersionOrder DEF GrantVote, AskIsNewer, ChangeLeaderTo
        <3>2. granted' = granted \cup {<<n, version'[n], m.src>>}
            BY <1>0, <2>2, <3>1 DEF GrantVote
        <3> QED BY <1>0, <2>0, <3>1, <3>2
    <2>3. CASE RefuseCandidate(n, m)
        <3>1. version' = [version EXCEPT ![n] = m.version] /\ m.version > version[n]
            BY <1>0, <2>0, <2>3, VersionOrder DEF RefuseCandidate, AskIsNewer, ChangeLeaderTo
        <3>2. granted' = granted \cup {<<n, version'[n], NoAddr>>}
            BY <1>0, <2>3, <3>1 DEF RefuseCandidate
        <3> QED BY <1>0, <2>0, <3>1, <3>2
    <2>4. CASE LeaderCheckFromLeader(n, m)
        BY <2>1, <2>4 DEF LeaderCheckFromLeader, Outdated, FromLeader
    <2>5. CASE FollowNewLeader(n, m)
        BY <2>1, <2>5 DEF FollowNewLeader, SplitBrain, ChangeLeaderTo
    <2>6. CASE AcceptVote(n, m)
        BY <1>1, <2>6 DEF AcceptVote, CountVote, role
    <2>7. CASE \/ DropOutdated(n, m) \/ IgnoreMessage(n, m) \/ DenyVote(n, m)
               \/ RefuteOldLeader(n, m) \/ SplitBrainExit(n, m)
               \/ NewOneOnline(n, m) \/ PeerOffline(n, m)
        BY <1>1, <2>7 DEF DropOutdated, IgnoreMessage, DenyVote, RefuteOldLeader,
                          SplitBrainExit, NewOneOnline, PeerOffline, role
    <2>8. CASE \/ Confirmed(n, m) \/ OnlineInLoop(n, m)
               \/ OfflineInLoop(n, m) \/ IgnoreInLoop(n, m)
        BY <1>1, <2>8 DEF Confirmed, OnlineInLoop, OfflineInLoop, IgnoreInLoop, role
    <2> QED BY <1>3, <2>2, <2>3, <2>4, <2>5, <2>6, <2>7, <2>8 DEF HandleMessage
<1>4. CASE UNCHANGED vars
    BY <1>1, <1>4 DEF vars, role
<1> QED BY <1>2, <1>3, <1>4 DEF Next

\* The version remembers every decision: that makes VoteOnce inductive.
GrantsBehind == \A g \in granted : g[2] <= version[g[1]]

VoteInv == TypeOK /\ GrantsBehind /\ VoteOnce

\* The strengthened invariant is inductive.
LEMMA NextKeepsVoteInv == VoteInv /\ [Next]_vars => VoteInv'
<1> SUFFICES ASSUME VoteInv, [Next]_vars PROVE VoteInv'
    OBVIOUS
<1>1. TypeOK /\ TypeOK'
    BY NextTyped DEF VoteInv
<1>2. \A n \in Node : version[n] \in Nat /\ version'[n] \in Nat
    BY <1>1, VersionOrder DEF TypeOK
<1>3. \A g \in granted : g[1] \in Node /\ g[2] \in Nat /\ g[2] <= version[g[1]]
    BY <1>1, VersionOrder DEF TypeOK, VoteInv, GrantsBehind
<1>4. \A n \in Node : version'[n] >= version[n]
    BY <1>1, VersionsAndGrants
<1>5. CASE granted' = granted
    BY <1>1, <1>2, <1>3, <1>4, <1>5 DEF VoteInv, GrantsBehind, VoteOnce
<1>6. CASE granted' # granted
    <2>1. PICK n \in Node, c \in Node \cup {NoAddr} :
                               /\ version'[n] > version[n]
                               /\ granted' = granted \cup {<<n, version'[n], c>>}
        BY <1>1, <1>6, VersionsAndGrants
    <2>2. \A g \in granted' : g \in granted \/ (g[1] = n /\ g[2] = version'[n] /\ g[3] = c)
        BY <2>1
    <2>3. \A g \in granted : ~(g[1] = n /\ g[2] = version'[n])
        BY <1>2, <1>3, <2>1
    <2>4. VoteOnce'
        BY <2>2, <2>3 DEF VoteInv, VoteOnce
    <2>5. GrantsBehind'
        BY <1>2, <1>3, <1>4, <2>2 DEF GrantsBehind
    <2> QED BY <1>1, <2>4, <2>5 DEF VoteInv
<1> QED BY <1>5, <1>6

\* One vote per version, for every cluster, also while members join and leave,
\* restart, and while the network loses, reorders and duplicates what it likes.
THEOREM OneVotePerVersion == Spec => []VoteOnce
<1>1. Init => VoteInv
    BY InitTyped DEF Init, VoteInv, GrantsBehind, VoteOnce
<1>2. VoteInv => VoteOnce
    BY DEF VoteInv
<1> QED BY <1>1, <1>2, NextKeepsVoteInv, PTL DEF Spec

-----------------------------------------------------------------------------
(* Election safety. *)

\* Fixed members, and a network that delivers a vote at most once.
StaticCluster == Founders = Node /\ Leavers = {} /\ "Vote" \notin DupTypes

\* A majority of all nodes has voted for c in version v.
Chosen(c, v) == 2 * Cardinality(Granters(c, v)) > Cardinality(Node)

\* Nobody changes its peers.
Members ==
    \A n \in Node : phase[n] \in {"ready", "running", "halted"} /\ peers[n] = Node \ {n}

\* What a datagram in flight says about its sender.
Sound(m) ==
    /\ m.src # m.dst
    /\ m.type \in {"LeaderCheck", "FollowerAck", "AskForVote", "Vote", "Request"}
    /\ m.type = "AskForVote" => m.version <= version[m.src]
    /\ m.type = "Vote" /\ m.choose =>
          m.version <= version[m.dst] /\ <<m.src, m.version, m.dst>> \in granted
    /\ m.type = "LeaderCheck" =>
          Chosen(m.src, m.version) \/ <<m.src, m.version, NoAddr>> \in granted

Traffic == \A m \in net : Sound(m)

\* S is the set of the voters behind c's counter: none of them has another vote
\* for this candidacy in flight.
CountedBy(c, S) ==
    /\ S \subseteq Granters(c, version[c])
    /\ votes[c] = Cardinality(S)
    /\ \A m \in net :
          m.type = "Vote" /\ m.choose /\ m.dst = c /\ m.version = version[c] =>
              m.src \notin S

Counted == \A c \in Node : state[c] = "Candidate" => \E S \in SUBSET Node : CountedBy(c, S)

Elected == \A n \in Node : state[n] = "Leader" => Chosen(n, version[n])

\* The inductive invariant.
StaticInv == VoteInv /\ Members /\ Traffic /\ Counted /\ Elected

\* Votes are never taken back, so a majority stays one.
LEMMA ChosenStays ==
    ASSUME granted \subseteq granted', NEW c, NEW v, Chosen(c, v)
    PROVE  Chosen(c, v)'
<1>1. /\ Granters(c, v) \subseteq Granters(c, v)'
      /\ Granters(c, v)' \subseteq Node
    BY DEF Granters
<1>2. IsFiniteSet(Node) /\ IsFiniteSet(Granters(c, v)')
    BY <1>1, NodeAssumption, FS_Subset
<1>3. /\ Cardinality(Granters(c, v)) <= Cardinality(Granters(c, v)')
      /\ IsFiniteSet(Granters(c, v))
    BY <1>1, <1>2, FS_Subset
<1>4. /\ Cardinality(Granters(c, v)) \in Nat
      /\ Cardinality(Granters(c, v)') \in Nat
      /\ Cardinality(Node) \in Nat
    BY <1>2, <1>3, FS_CardinalityType
<1> QED BY <1>3, <1>4 DEF Chosen

\* Datagrams that were sound stay so: only the new ones need an argument.
LEMMA TrafficStays ==
    ASSUME StaticInv, [Next]_vars, \A m \in net' \ net : Sound(m)'
    PROVE  Traffic'
<1>1. TypeOK /\ TypeOK'
    BY NextTyped DEF StaticInv, VoteInv
<1>2. /\ \A n \in Node : version'[n] >= version[n]
      /\ granted \subseteq granted'
    BY <1>1, VersionsAndGrants
<1>3. ASSUME NEW m \in net PROVE Sound(m)'
    <2>1. Sound(m)
        BY <1>3 DEF StaticInv, Traffic
    <2>2. m.src \in Node /\ m.dst \in Node /\ m.version \in Nat
        BY <1>1, <1>3, HandledTyped, VersionOrder
    <2>3. /\ version[m.src] \in Nat /\ version'[m.src] \in Nat
          /\ version[m.dst] \in Nat /\ version'[m.dst] \in Nat
        BY <1>1, <2>2, VersionOrder DEF TypeOK
    <2>4. m.type = "LeaderCheck" =>
             Chosen(m.src, m.version)' \/ <<m.src, m.version, NoAddr>> \in granted'
        BY <1>2, <2>1, ChosenStays DEF Sound
    <2> QED BY <1>2, <2>1, <2>2, <2>3, <2>4 DEF Sound
<1> QED BY <1>3 DEF Traffic

\* A step that gives no vote, counts none and starts no candidacy; it may refuse
\* a candidate.
LEMMA QuietStep ==
    ASSUME StaticInv, [Next]_vars, Members', granted \subseteq granted',
           \A g \in granted' \ granted : g[3] = NoAddr,
           \A m \in net' \ net :
              /\ m.src # m.dst
              /\ m.type \in {"LeaderCheck", "FollowerAck", "Vote", "Request"}
              /\ m.type = "LeaderCheck" =>
                    Chosen(m.src, m.version) \/ <<m.src, m.version, NoAddr>> \in granted'
              /\ m.type = "Vote" => ~m.choose,
           \A c \in Node :
              \/ state'[c] = "Follower"
              \/ /\ state'[c] = state[c]
                 /\ version'[c] = version[c] /\ votes'[c] = votes[c]
    PROVE  StaticInv'
<1>0. ASSUME NEW c \in Node, NEW v
      PROVE  {n \in Node : <<n, v, c>> \in granted'} = {n \in Node : <<n, v, c>> \in granted}
    <2>1. c # NoAddr
        BY NodeAssumption
    <2>2. \A n \in Node : <<n, v, c>> \in granted' => <<n, v, c>> \in granted
        BY <2>1
    <2> QED BY <2>2
<1>1. VoteInv'
    BY NextKeepsVoteInv DEF StaticInv
<1>2. Traffic'
    <2>1. ASSUME NEW m \in net' \ net PROVE Sound(m)'
        <3>1. m.type = "LeaderCheck" =>
                 Chosen(m.src, m.version)' \/ <<m.src, m.version, NoAddr>> \in granted'
            BY <2>1, ChosenStays
        <3> QED BY <2>1, <3>1 DEF Sound
    <2> QED BY <2>1, TrafficStays
<1>3. Counted'
    <2>1. ASSUME NEW c \in Node, state'[c] = "Candidate"
          PROVE  \E S \in SUBSET Node : CountedBy(c, S)'
        <3>1. state[c] = "Candidate" /\ version'[c] = version[c] /\ votes'[c] = votes[c]
            BY <2>1
        <3>2. PICK S \in SUBSET Node : CountedBy(c, S)
            BY <3>1 DEF StaticInv, Counted
        <3>3. Granters(c, version[c])' = Granters(c, version[c])
            BY <1>0, <3>1 DEF Granters
        <3>4. CountedBy(c, S)'
            BY <3>1, <3>2, <3>3 DEF CountedBy
        <3> QED BY <3>4
    <2> QED BY <2>1 DEF Counted
<1>4. Elected'
    <2>1. ASSUME NEW c \in Node, state'[c] = "Leader" PROVE Chosen(c, version[c])'
        <3>1. state[c] = "Leader" /\ version'[c] = version[c]
            BY <2>1
        <3>2. Chosen(c, version[c])
            BY <3>1 DEF StaticInv, Elected
        <3> QED BY <1>0, <3>1, <3>2 DEF Chosen, Granters
    <2> QED BY <2>1 DEF Elected
<1> QED BY <1>1, <1>2, <1>3, <1>4 DEF StaticInv

\* No datagram and no call of a static cluster changes the members.
LEMMA SenderKnown ==
    ASSUME StaticInv, NEW n \in Node, NEW m \in net, m.dst = n, SeeSender(n, m)
    PROVE  peers' = peers
<1>1. peers[n] = Node \ {n} /\ m.src \in Node \ {n} /\ peers \in [Node -> SUBSET Node]
    BY HandledTyped DEF StaticInv, VoteInv, Members, Traffic, Sound, TypeOK
<1>2. PeersSeen(n, m) = peers[n]
    BY <1>1 DEF PeersSeen
<1> QED BY <1>1, <1>2 DEF SeeSender

\* A running instance is the only one that handles a datagram.
LEMMA OnlyRunning ==
    ASSUME StaticInv, NEW n \in Node, NEW m \in net, Handles(n, m)
    PROVE  Running(n, m) /\ ~Outdated(n, m) /\ SeeSender(n, m) /\ peers' = peers
BY SenderKnown DEF Handles, Joining, Running, StaticInv, Members

\* Without new peers everyone knows everyone still.
LEMMA MembersStay ==
    ASSUME StaticInv, peers' = peers,
           \/ phase' = phase
           \/ \E n \in Node, ph \in {"ready", "running", "halted"} :
                 phase' = [phase EXCEPT ![n] = ph]
    PROVE  Members'
BY DEF StaticInv, VoteInv, TypeOK, Members

\* vote_to be leader: a new candidacy in a version nobody has voted for yet.
LEMMA CandidacyStep ==
    ASSUME StaticInv, [Next]_vars, NEW n \in Node, VoteToBeLeader(n)
    PROVE  StaticInv'
<1> DEFINE v == version[n] + 1
<1>0. TypeOK /\ TypeOK' /\ VoteInv'
    BY NextKeepsVoteInv, NextTyped DEF StaticInv, VoteInv
<1>1. /\ version[n] \in Nat /\ Succ(version[n]) = v
      /\ version' = [version EXCEPT ![n] = v]
      /\ granted' = granted \cup {<<n, v, n>>}
      /\ state' = [state EXCEPT ![n] = "Candidate"]
      /\ votes' = [votes EXCEPT ![n] = 1]
    <2>1. version[n] \in 0 .. MaxVersion /\ version[n] < MaxVersion
        BY <1>0 DEF VoteToBeLeader, TypeOK
    <2>2. version[n] \in Nat /\ Succ(version[n]) = v
        BY <2>1, VersionOrder
    <2> QED BY <2>2 DEF VoteToBeLeader
<1>2. Members'
    BY MembersStay DEF VoteToBeLeader, loop
<1>3. \A m \in net' \ net :
         m.type = "AskForVote" /\ m.src = n /\ m.dst \in peers[n] /\ m.version = v
    BY <1>1 DEF VoteToBeLeader, Send, ToAll, Msg
<1>4. Traffic'
    <2>1. ASSUME NEW m \in net' \ net PROVE Sound(m)'
        <3>1. m.dst # n /\ version'[n] = v
            BY <1>0, <1>1, <1>3, <2>1 DEF StaticInv, Members, TypeOK
        <3> QED BY <1>1, <1>3, <2>1, <3>1 DEF Sound
    <2> QED BY <2>1, TrafficStays
<1>5. Counted'
    <2>1. ASSUME NEW c \in Node, c # n, state'[c] = "Candidate"
          PROVE  \E S \in SUBSET Node : CountedBy(c, S)'
        <3>1. state[c] = "Candidate" /\ version'[c] = version[c] /\ votes'[c] = votes[c]
            BY <1>0, <1>1, <2>1 DEF TypeOK
        <3>2. PICK S \in SUBSET Node : CountedBy(c, S)
            BY <3>1 DEF StaticInv, Counted
        <3>3. CountedBy(c, S)'
            BY <1>1, <1>3, <3>1, <3>2 DEF CountedBy, Granters
        <3> QED BY <3>3
    <2>2. CountedBy(n, {n})'
        <3>1. {n} \subseteq Granters(n, version[n])'
            BY <1>0, <1>1 DEF Granters, TypeOK
        <3>2. votes'[n] = Cardinality({n})
            BY <1>0, <1>1, FS_Singleton DEF TypeOK
        <3>3. ASSUME NEW m \in net', m.type = "Vote", m.dst = n PROVE m.src \notin {n}
            BY <1>3, <3>3 DEF StaticInv, Traffic, Sound
        <3> QED BY <3>1, <3>2, <3>3 DEF CountedBy
    <2> QED BY <2>1, <2>2 DEF Counted
<1>6. Elected'
    <2>1. ASSUME NEW c \in Node, state'[c] = "Leader" PROVE Chosen(c, version[c])'
        <3>1. state[c] = "Leader" /\ version'[c] = version[c]
            BY <1>0, <1>1, <2>1 DEF TypeOK
        <3>2. Chosen(c, version[c])
            BY <3>1 DEF StaticInv, Elected
        <3>3. \A w : Chosen(c, w) => Chosen(c, w)'
            BY <1>1, ChosenStays
        <3> QED BY <3>1, <3>2, <3>3 DEF Chosen, Granters
    <2> QED BY <2>1 DEF Elected
<1> QED BY <1>0, <1>2, <1>4, <1>5, <1>6 DEF StaticInv

\* vote_to grants: the voter is new to the candidacy, so the counter's voters do
\* not include it.
LEMMA GrantStep ==
    ASSUME StaticInv, [Next]_vars, NEW n \in Node, NEW m \in net, GrantVote(n, m)
    PROVE  StaticInv'
<1>0. TypeOK /\ TypeOK' /\ VoteInv' /\ GrantsBehind
    BY NextKeepsVoteInv, NextTyped DEF StaticInv, VoteInv
<1>1. /\ m.src \in Node /\ m.src # n /\ m.dst = n /\ m.version \in Nat
      /\ m.version <= version[m.src] /\ m.type = "AskForVote"
    <2>1. m.dst = n /\ m.type = "AskForVote"
        BY OnlyRunning DEF GrantVote, Running
    <2>2. m.src \in Node /\ m.version \in Nat
        BY <1>0, HandledTyped, VersionOrder
    <2>3. Sound(m)
        BY DEF StaticInv, Traffic
    <2> QED BY <2>1, <2>2, <2>3 DEF Sound
<1>2. /\ m.version > version[n] /\ version[n] \in Nat
      /\ version' = [version EXCEPT ![n] = m.version]
      /\ state' = [state EXCEPT ![n] = "Follower"]
      /\ votes' = [votes EXCEPT ![n] = 0]
      /\ granted' = granted \cup {<<n, m.version, m.src>>}
    BY <1>0, HandledTyped, VersionOrder
       DEF GrantVote, AskIsNewer, ChangeLeaderTo, TypeOK
<1>3. Members'
    BY MembersStay, OnlyRunning DEF GrantVote, loop
<1>4. /\ \A k \in net' \ net : k = VoteMsg(n, m.src, m.version, TRUE)
    BY DEF GrantVote, Receive, Taken
<1>5. Traffic'
    <2>1. ASSUME NEW k \in net' \ net PROVE Sound(k)'
        <3>1. /\ k.type = "Vote" /\ k.src = n /\ k.dst = m.src /\ k.version = m.version
            BY <1>4 DEF VoteMsg
        <3>2. version'[m.src] = version[m.src]
            BY <1>0, <1>1, <1>2 DEF TypeOK
        <3> QED BY <1>1, <1>2, <3>1, <3>2 DEF Sound
    <2> QED BY <2>1, TrafficStays
<1>6. Counted'
    <2>1. ASSUME NEW c \in Node, state'[c] = "Candidate"
          PROVE  \E S \in SUBSET Node : CountedBy(c, S)'
        <3>1. /\ c # n /\ state[c] = "Candidate"
              /\ version'[c] = version[c] /\ votes'[c] = votes[c]
            BY <1>0, <1>2, <2>1 DEF TypeOK
        <3>2. PICK S \in SUBSET Node : CountedBy(c, S)
            BY <3>1 DEF StaticInv, Counted
        <3>3. ASSUME NEW k \in net' \ net, k.dst = c, k.version = version[c]
              PROVE  k.src \notin S
            <4>1. k.src = n /\ c = m.src /\ version[c] = m.version
                BY <1>4, <3>3 DEF VoteMsg
            <4>2. <<n, version[c], c>> \notin granted
                BY <1>0, <1>1, <1>2, <4>1 DEF GrantsBehind
            <4> QED BY <3>2, <4>1, <4>2 DEF CountedBy, Granters
        <3>4. S \subseteq Granters(c, version[c])'
            BY <1>2, <3>1, <3>2 DEF CountedBy, Granters
        <3>5. CountedBy(c, S)'
            BY <3>1, <3>2, <3>3, <3>4 DEF CountedBy
        <3> QED BY <3>5
    <2> QED BY <2>1 DEF Counted
<1>7. Elected'
    <2>1. ASSUME NEW c \in Node, state'[c] = "Leader" PROVE Chosen(c, version[c])'
        <3>1. state[c] = "Leader" /\ version'[c] = version[c]
            BY <1>0, <1>2, <2>1 DEF TypeOK
        <3>2. Chosen(c, version[c])
            BY <3>1 DEF StaticInv, Elected
        <3>3. \A w : Chosen(c, w) => Chosen(c, w)'
            BY <1>2, ChosenStays
        <3> QED BY <3>1, <3>2, <3>3 DEF Chosen, Granters
    <2> QED BY <2>1 DEF Elected
<1> QED BY <1>0, <1>3, <1>5, <1>6, <1>7 DEF StaticInv

\* Majority, computed from the peers, is a majority of all nodes.
LEMMA MajorityOfNodes ==
    ASSUME StaticInv, NEW n \in Node, NEW k \in Nat, k >= Majority(n)
    PROVE  2 * k > Cardinality(Node)
<1>1. peers[n] = Node \ {n}
    BY DEF StaticInv, Members
<1>2. /\ Cardinality(Node) \in Nat
      /\ Cardinality(peers[n]) = Cardinality(Node) - 1
    BY <1>1, NodeAssumption, FS_RemoveElement, FS_CardinalityType
<1> QED BY <1>2 DEF Majority

\* accept_vote counts: the voter was not counted before, and no copy of its vote
\* is left.
LEMMA CountStep ==
    ASSUME StaticInv, "Vote" \notin DupTypes, [Next]_vars,
           NEW n \in Node, NEW m \in net, AcceptVote(n, m),
           state[n] = "Candidate", m.choose
    PROVE  StaticInv'
<1>0. TypeOK /\ TypeOK' /\ VoteInv'
    BY NextKeepsVoteInv, NextTyped DEF StaticInv, VoteInv
<1>1. /\ m.type = "Vote" /\ m.dst = n /\ CountVote(n, m) /\ granted' = granted
      /\ ~Outdated(n, m) /\ SeeSender(n, m) /\ phase' = phase
    BY DEF AcceptVote, Running, loop
<1>2. /\ m.src \in Node /\ m.version = version[n]
      /\ <<m.src, version[n], n>> \in granted
    <2>1. /\ m.src \in Node /\ m.version \in 0 .. MaxVersion
          /\ version[n] \in 0 .. MaxVersion
        BY <1>0, HandledTyped DEF TypeOK
    <2>2. Sound(m)
        BY DEF StaticInv, Traffic
    <2>3. m.version <= version[n] /\ <<m.src, m.version, n>> \in granted
        BY <1>1, <2>2 DEF Sound
    <2>4. ~Less(m.version, version[n])
        BY <1>1 DEF Outdated
    <2> QED BY <2>1, <2>3, <2>4, VersionOrder
<1>3. Members'
    BY <1>1, SenderKnown, MembersStay
<1>4. PICK S \in SUBSET Node : CountedBy(n, S)
    BY DEF StaticInv, Counted
<1> DEFINE T == S \cup {m.src}
<1>5. /\ T \in SUBSET Node /\ T \subseteq Granters(n, version[n])
      /\ Cardinality(T) = votes[n] + 1 /\ votes[n] + 1 \in Nat
    <2>1. T \in SUBSET Node /\ T \subseteq Granters(n, version[n])
        BY <1>2, <1>4 DEF CountedBy, Granters
    <2>2. m.src \notin S /\ votes[n] = Cardinality(S)
        BY <1>1, <1>2, <1>4 DEF CountedBy
    <2>3. IsFiniteSet(S)
        BY NodeAssumption, FS_Subset
    <2>4. Cardinality(S) \in Nat
        BY <2>3, FS_CardinalityType
    <2>5. Cardinality(T) = Cardinality(S) + 1
        BY <2>2, <2>3, FS_AddElement
    <2> QED BY <2>1, <2>2, <2>4, <2>5
<1>6. CASE votes[n] + 1 >= Majority(n)
    <2>1. Chosen(n, version[n])
        <3>1. IsFiniteSet(Granters(n, version[n]))
            BY NodeAssumption, FS_Subset DEF Granters
        <3>2. Cardinality(T) <= Cardinality(Granters(n, version[n]))
            BY <1>5, <3>1, FS_Subset
        <3>3. 2 * Cardinality(T) > Cardinality(Node)
            BY <1>5, <1>6, MajorityOfNodes
        <3>4. /\ Cardinality(T) \in Nat /\ Cardinality(Node) \in Nat
              /\ Cardinality(Granters(n, version[n])) \in Nat
            BY <1>5, <3>1, NodeAssumption, FS_CardinalityType
        <3> QED BY <3>2, <3>3, <3>4 DEF Chosen
    <2>2. /\ state' = [state EXCEPT ![n] = "Leader"] /\ version' = version
          /\ votes' = [votes EXCEPT ![n] = 0]
          /\ \A k \in net' \ net : /\ k.type = "LeaderCheck" /\ k.src = n
                                    /\ k.dst \in peers[n] /\ k.version = version[n]
        BY <1>1, <1>6 DEF CountVote, Receive, Taken, ToAll, Msg
    <2>3. \A c, v : Chosen(c, v) => Chosen(c, v)'
        BY <1>1, ChosenStays
    <2>4. Traffic'
        <3>1. ASSUME NEW k \in net' \ net PROVE Sound(k)'
            <4>1. k.dst # n
                BY <2>2 DEF StaticInv, Members
            <4>2. Chosen(k.src, k.version)'
                BY <2>1, <2>2, <2>3
            <4> QED BY <2>2, <4>1, <4>2 DEF Sound
        <3> QED BY <3>1, TrafficStays
    <2>5. Counted'
        <3>1. ASSUME NEW c \in Node, state'[c] = "Candidate"
              PROVE  \E U \in SUBSET Node : CountedBy(c, U)'
            <4>1. /\ c # n /\ state[c] = "Candidate"
                  /\ version'[c] = version[c] /\ votes'[c] = votes[c]
                BY <1>0, <2>2, <3>1 DEF TypeOK
            <4>2. PICK U \in SUBSET Node : CountedBy(c, U)
                BY <4>1 DEF StaticInv, Counted
            <4>3. CountedBy(c, U)'
                BY <1>1, <2>2, <4>1, <4>2 DEF CountedBy, Granters
            <4> QED BY <4>3
        <3> QED BY <3>1 DEF Counted
    <2>6. Elected'
        <3>1. ASSUME NEW c \in Node, state'[c] = "Leader" PROVE Chosen(c, version[c])'
            <4>1. Chosen(c, version[c])
                BY <1>0, <2>1, <2>2, <3>1 DEF StaticInv, Elected, TypeOK
            <4> QED BY <1>1, <2>2, <4>1 DEF Chosen, Granters
        <3> QED BY <3>1 DEF Elected
    <2> QED BY <1>0, <1>3, <2>4, <2>5, <2>6 DEF StaticInv
<1>7. CASE ~(votes[n] + 1 >= Majority(n))
    <2>1. /\ state' = state /\ version' = version
          /\ votes' = [votes EXCEPT ![n] = votes[n] + 1]
          /\ net' = net \ {m}
        BY <1>1, <1>7 DEF CountVote, Receive, Taken
    <2>2. Traffic'
        BY <2>1, TrafficStays
    <2>3. Counted'
        <3>1. ASSUME NEW c \in Node, c # n, state'[c] = "Candidate"
              PROVE  \E U \in SUBSET Node : CountedBy(c, U)'
            <4>1. votes'[c] = votes[c]
                BY <1>0, <2>1, <3>1 DEF TypeOK
            <4>2. PICK U \in SUBSET Node : CountedBy(c, U)
                BY <2>1, <3>1 DEF StaticInv, Counted
            <4>3. CountedBy(c, U)'
                BY <1>1, <2>1, <4>1, <4>2 DEF CountedBy, Granters
            <4> QED BY <4>3
        <3>2. CountedBy(n, T)'
            <4>1. T \subseteq Granters(n, version[n])'
                BY <1>1, <1>5, <2>1 DEF Granters
            <4>2. votes'[n] = Cardinality(T)
                BY <1>0, <1>5, <2>1 DEF TypeOK
            <4>3. ASSUME NEW k \in net', k.type = "Vote", k.choose, k.dst = n,
                         k.version = version[n]
                  PROVE  k.src \notin T
                <5>1. k \in net /\ k # m /\ k.src \notin S
                    BY <1>4, <2>1, <4>3 DEF CountedBy
                <5>2. k \in Message /\ m \in Message
                    BY <1>0, <5>1 DEF TypeOK
                <5>3. k.src # m.src
                    BY <1>1, <1>2, <4>3, <5>1, <5>2 DEF Message
                <5> QED BY <5>1, <5>3
            <4> QED BY <2>1, <4>1, <4>2, <4>3 DEF CountedBy
        <3> QED BY <1>5, <3>1, <3>2 DEF Counted
    <2>4. Elected'
        BY <1>1, <2>1 DEF StaticInv, Elected, Chosen, Granters
    <2> QED BY <1>0, <1>3, <2>2, <2>3, <2>4 DEF StaticInv
<1> QED BY <1>6, <1>7

\* The remaining datagrams are quiet.
LEMMA HandleMessageStatic ==
    ASSUME StaticCluster, StaticInv, [Next]_vars,
           NEW n \in Node, NEW m \in net, HandleMessage(n, m)
    PROVE  StaticInv'
<1>0. TypeOK
    BY DEF StaticInv, VoteInv
<1>1. /\ m.src \in Node /\ m.version \in 0 .. MaxVersion
      /\ phase[n] \in {"ready", "running", "halted"}
      /\ m.type \in {"LeaderCheck", "FollowerAck", "AskForVote", "Vote", "Request"}
      /\ m.src # m.dst
    BY <1>0, HandledTyped DEF StaticInv, Members, Traffic, Sound
<1>3. CASE DropOutdated(n, m) \/ IgnoreMessage(n, m)
    <2>1. m.dst = n /\ net' \subseteq net /\ UNCHANGED role /\ phase' = phase
        BY <1>3 DEF DropOutdated, IgnoreMessage, Running, Receive, Taken, loop
    <2>2. peers' = peers
        BY <1>3, <2>1, SenderKnown DEF DropOutdated, IgnoreMessage
    <2>3. UNCHANGED granted
        BY <1>3 DEF DropOutdated, IgnoreMessage
    <2> QED BY <2>1, <2>2, <2>3, MembersStay, QuietStep DEF role
<1>4. CASE GrantVote(n, m)
    BY <1>4, GrantStep
<1>5. CASE RefuseCandidate(n, m)
    <2>1. /\ m.dst = n /\ peers' = peers /\ phase' = phase
          /\ granted' = granted \cup {<<n, m.version, NoAddr>>}
        BY <1>5, OnlyRunning DEF RefuseCandidate, Running, loop
    <2>2. PICK late \in LastHeartbeat(n, m.version), to \in {m.src, NoAddr} :
              net' \subseteq net \cup {VoteMsg(n, to, m.version, FALSE)} \cup late
        BY <1>5 DEF RefuseCandidate, Receive, Taken, Reaching
    <2>3. \A k \in late : /\ k.type = "LeaderCheck" /\ k.version = m.version
                           /\ k.src = n /\ k.dst \in peers[n]
        BY <2>2 DEF LastHeartbeat, ToAll, Msg
    <2>4. \A k \in net' \ net : k \in late \/ (/\ k.type = "Vote" /\ ~k.choose
                                                 /\ k.src = n /\ k.dst = to)
        BY <2>2 DEF VoteMsg
    <2>5. \A k \in net' \ net :
              /\ k.src # k.dst
              /\ k.type \in {"LeaderCheck", "FollowerAck", "Vote", "Request"}
              /\ k.type = "LeaderCheck" => <<k.src, k.version, NoAddr>> \in granted'
              /\ k.type = "Vote" => ~k.choose
        <3>1. n \notin peers[n] /\ n # m.src /\ n # NoAddr
            BY <1>1, <2>1, NodeAssumption DEF StaticInv, Members
        <3> QED BY <2>1, <2>3, <2>4, <3>1
    <2>6. \A c \in Node :
              \/ state'[c] = "Follower"
              \/ /\ state'[c] = state[c]
                 /\ version'[c] = version[c] /\ votes'[c] = votes[c]
        BY <1>0, <1>5 DEF RefuseCandidate, ChangeLeaderTo, TypeOK
    <2>7. \A g \in granted' \ granted : g[3] = NoAddr
        BY <2>1
    <2> QED BY <2>1, <2>5, <2>6, <2>7, MembersStay, QuietStep
<1>6. CASE DenyVote(n, m)
    <2>1. m.dst = n /\ peers' = peers /\ phase' = phase /\ UNCHANGED <<granted, role>>
        BY <1>6, OnlyRunning DEF DenyVote, Running, loop
    <2>2. \A k \in net' \ net : k.type = "Vote" /\ ~k.choose /\ k.src = n /\ k.dst = m.src
        BY <1>6 DEF DenyVote, Receive, Taken, VoteMsg
    <2> QED BY <1>1, <2>1, <2>2, MembersStay, QuietStep DEF role
<1>7. CASE AcceptVote(n, m)
    <2>1. CASE state[n] = "Candidate" /\ m.choose
        BY <1>7, <2>1, CountStep DEF StaticCluster
    <2>2. CASE ~(state[n] = "Candidate" /\ m.choose)
        <3>1. /\ m.dst = n /\ net' \subseteq net /\ phase' = phase /\ SeeSender(n, m)
              /\ UNCHANGED <<granted, role>>
            BY <1>7, <2>2 DEF AcceptVote, Running, Receive, Taken, loop
        <3>2. peers' = peers
            BY <3>1, SenderKnown
        <3> QED BY <3>1, <3>2, MembersStay, QuietStep DEF role
    <2> QED BY <2>1, <2>2
<1>8. ASSUME LeaderCheckReply(n, m), m.dst = n
      PROVE  \A k \in net' \ net : /\ k.type \in {"FollowerAck", "Request"}
                                    /\ k.src = n /\ k.dst = m.src
    BY <1>8 DEF LeaderCheckReply, Receive, Taken, Msg
<1>9. CASE LeaderCheckFromLeader(n, m)
    <2>1. /\ m.dst = n /\ phase' = phase /\ SeeSender(n, m) /\ LeaderCheckReply(n, m)
          /\ UNCHANGED <<granted, state, votes>> /\ state[n] = "Follower"
          /\ version' = [version EXCEPT ![n] = m.version]
        BY <1>9 DEF LeaderCheckFromLeader, Running, FromLeader, loop
    <2>2. peers' = peers
        BY <2>1, SenderKnown
    <2>3. \A c \in Node :
              \/ state'[c] = "Follower"
              \/ /\ state'[c] = state[c]
                 /\ version'[c] = version[c] /\ votes'[c] = votes[c]
        BY <1>0, <2>1 DEF TypeOK
    <2> QED BY <1>1, <1>8, <2>1, <2>2, <2>3, MembersStay, QuietStep
<1>10. CASE RefuteOldLeader(n, m)
    <2>1. /\ m.dst = n /\ phase' = phase /\ SeeSender(n, m)
          /\ UNCHANGED <<granted, role>> /\ state[n] = "Leader"
        BY <1>10 DEF RefuteOldLeader, Running, OlderLeader, loop
    <2>2. peers' = peers
        BY <2>1, SenderKnown
    <2>3. \A k \in net' \ net : /\ k.type = "LeaderCheck" /\ k.version = version[n]
                                /\ k.src = n /\ k.dst = m.src
        BY <1>10 DEF RefuteOldLeader, Receive, Taken, Msg
    <2>4. Chosen(n, version[n])
        BY <2>1 DEF StaticInv, Elected
    <2> QED BY <1>1, <2>1, <2>2, <2>3, <2>4, MembersStay, QuietStep DEF role
<1>11. CASE FollowNewLeader(n, m)
    <2>1. /\ m.dst = n /\ peers' = peers /\ phase' = phase /\ UNCHANGED granted
          /\ LeaderCheckReply(n, m)
        BY <1>11, OnlyRunning DEF FollowNewLeader, MayFollow, Running, loop
    <2>2. \A c \in Node :
              \/ state'[c] = "Follower"
              \/ /\ state'[c] = state[c]
                 /\ version'[c] = version[c] /\ votes'[c] = votes[c]
        BY <1>0, <1>11 DEF FollowNewLeader, ChangeLeaderTo, TypeOK
    <2> QED BY <1>1, <1>8, <2>1, <2>2, MembersStay, QuietStep
<1>12. CASE SplitBrainExit(n, m)
    <2>1. /\ m.dst = n /\ peers' = peers /\ phase' = [phase EXCEPT ![n] = "halted"]
          /\ UNCHANGED <<granted, role>> /\ net' \subseteq net
        BY <1>12, OnlyRunning DEF SplitBrainExit, MayFollow, Running, Receive, Taken
    <2> QED BY <2>1, MembersStay, QuietStep DEF role
<1>13. CASE \/ NewOneOnline(n, m) \/ PeerOffline(n, m) \/ Confirmed(n, m)
            \/ OnlineInLoop(n, m) \/ OfflineInLoop(n, m) \/ IgnoreInLoop(n, m)
    BY <1>1, <1>13 DEF NewOneOnline, PeerOffline, Confirmed, OnlineInLoop,
                       OfflineInLoop, IgnoreInLoop, Joining, Exiting
<1> QED BY <1>3, <1>4, <1>5, <1>6, <1>7, <1>9, <1>10, <1>11, <1>12, <1>13
        DEF HandleMessage

\* Timeouts and the owner's calls keep the invariant.
LEMMA OwnStepStatic ==
    ASSUME StaticCluster, StaticInv, [Next]_vars, NEW n \in Node, OwnStep(n)
    PROVE  StaticInv'
<1>0. TypeOK /\ phase[n] \in {"ready", "running", "halted"} /\ peers[n] = Node \ {n}
    BY DEF StaticInv, VoteInv, Members
<1>1. CASE VoteToBeLeader(n)
    BY <1>1, CandidacyStep
<1>2. CASE LeaderTimeout(n) \/ SynchronizeLogsToFollowers(n)
    <2>1. /\ phase' = phase /\ peers' = peers /\ state[n] = "Leader"
          /\ UNCHANGED <<granted, role>>
        BY <1>2 DEF LeaderTimeout, SynchronizeLogsToFollowers, loop
    <2>2. \A k \in net' \ net : /\ k.type = "LeaderCheck" /\ k.version = version[n]
                                /\ k.src = n /\ k.dst \in peers[n]
        BY <1>2 DEF LeaderTimeout, SynchronizeLogsToFollowers, Send, ToAll, Msg
    <2>3. Chosen(n, version[n])
        BY <2>1 DEF StaticInv, Elected
    <2> QED BY <1>0, <2>1, <2>2, <2>3, MembersStay, QuietStep DEF role
<1>3. CASE Start(n)
    <2>1. /\ phase' = [phase EXCEPT ![n] = "running"] /\ peers' = peers
          /\ state' = [state EXCEPT ![n] = "Follower"]
          /\ UNCHANGED <<granted, net, version, votes>>
        BY <1>3 DEF Start
    <2>2. \A c \in Node :
              \/ state'[c] = "Follower"
              \/ /\ state'[c] = state[c]
                 /\ version'[c] = version[c] /\ votes'[c] = votes[c]
        BY <1>0, <2>1 DEF TypeOK
    <2> QED BY <2>1, <2>2, MembersStay, QuietStep
<1>4. CASE Stop(n)
    <2>1. /\ phase' = [phase EXCEPT ![n] = "ready"] /\ peers' = peers
          /\ UNCHANGED <<granted, net, role>>
        BY <1>4 DEF Stop
    <2> QED BY <2>1, MembersStay, QuietStep DEF role
<1>5. CASE JoinToCluster(n) \/ ExitCluster(n) \/ LoopTimeout(n)
    BY <1>0, <1>5 DEF JoinToCluster, ExitCluster, LoopTimeout, StaticCluster
<1> QED BY <1>1, <1>2, <1>3, <1>4, <1>5 DEF OwnStep

\* So does a stuttering step.
LEMMA StutterStatic ==
    ASSUME StaticInv, UNCHANGED vars
    PROVE  StaticInv'
<1>1. UNCHANGED <<role, phase, peers, granted, net>>
    BY DEF vars, loop
<1>2. VoteInv'
    BY NextKeepsVoteInv DEF StaticInv
<1>3. Members' /\ Traffic'
    BY <1>1 DEF StaticInv, Members, Traffic, Sound, Chosen, Granters, role
<1>4. Counted' /\ Elected'
    BY <1>1 DEF StaticInv, Counted, CountedBy, Elected, Chosen, Granters, role
<1> QED BY <1>2, <1>3, <1>4 DEF StaticInv

\* Two majorities share a voter, and a voter has one vote per version.
LEMMA ChosenIsUnique ==
    ASSUME VoteOnce, NEW a \in Node, NEW b \in Node, NEW v, Chosen(a, v), Chosen(b, v)
    PROVE  a = b
<1>1. /\ Granters(a, v) \subseteq Node /\ Granters(b, v) \subseteq Node
      /\ IsFiniteSet(Node)
    BY NodeAssumption DEF Granters
<1>2. /\ Cardinality(Granters(a, v)) \in Nat /\ Cardinality(Granters(b, v)) \in Nat
      /\ Cardinality(Node) \in Nat
    BY <1>1, FS_Subset, FS_CardinalityType
<1>3. Cardinality(Granters(a, v)) + Cardinality(Granters(b, v)) > Cardinality(Node)
    BY <1>2 DEF Chosen
<1>4. PICK n : n \in Granters(a, v) /\ n \in Granters(b, v)
    BY <1>1, <1>3, FS_MajoritiesIntersect
<1> QED BY <1>4 DEF Granters, VoteOnce

\* The strengthened invariant holds in every reachable state.
LEMMA StaticInvariant ==
    ASSUME StaticCluster
    PROVE  Spec => []StaticInv
<1>1. Init => StaticInv
    <2> SUFFICES ASSUME Init PROVE StaticInv
        OBVIOUS
    <2>1. VoteInv
        BY InitTyped DEF Init, VoteInv, GrantsBehind, VoteOnce
    <2>2. Members /\ Traffic /\ Counted /\ Elected
        BY DEF Init, Members, Traffic, Counted, Elected, InitialPeers, StaticCluster
    <2> QED BY <2>1, <2>2 DEF StaticInv
<1>2. StaticInv /\ [Next]_vars => StaticInv'
    <2> SUFFICES ASSUME StaticInv, [Next]_vars PROVE StaticInv'
        OBVIOUS
    <2>1. CASE UNCHANGED vars
        BY <2>1, StutterStatic
    <2>2. ASSUME NEW n \in Node, OwnStep(n) PROVE StaticInv'
        BY <2>2, OwnStepStatic
    <2>3. ASSUME NEW n \in Node, NEW m \in net, HandleMessage(n, m) PROVE StaticInv'
        BY <2>3, HandleMessageStatic
    <2> QED BY <2>1, <2>2, <2>3 DEF Next
<1> QED BY <1>1, <1>2, PTL DEF Spec

\* Election safety: in a cluster of fixed members, of any size, no two instances
\* ever lead in the same version, and no heartbeat comes from anyone else but a
\* leader that has just refused the candidate of that version; whatever is lost, reordered or (votes apart)
\* duplicated, and however often an instance is stopped and restarted.
THEOREM AtMostOneLeader ==
    ASSUME StaticCluster
    PROVE  Spec => []ElectionSafety
<1>1. StaticInv => ElectionSafety
    <2> SUFFICES ASSUME StaticInv, NEW a \in Node, NEW b \in Node, NEW v,
                        LeadsAt(a, v), LeadsAt(b, v)
                 PROVE  a = b
        BY DEF ElectionSafety
    <2>1. \A n \in Node : LeadsAt(n, v) => Chosen(n, v)
        BY DEF LeadsAt, StaticInv, Elected, Traffic, Sound
    <2> QED BY <2>1, ChosenIsUnique DEF StaticInv, VoteInv
<1> QED BY <1>1, StaticInvariant, PTL

\* In the same clusters the bare counter votes, which does not know its voters,
\* never exceeds the number of instances that have voted for the candidacy, and
\* a leader has the votes of a majority.
THEOREM CounterCountsVoters ==
    ASSUME StaticCluster
    PROVE  Spec => []VotesAreGrants
<1>1. StaticInv => VotesAreGrants
    <2> SUFFICES ASSUME StaticInv, NEW c \in Node
                 PROVE  /\ state[c] = "Candidate" =>
                              votes[c] <= Cardinality(Granters(c, version[c]))
                        /\ state[c] = "Leader" => Chosen(c, version[c])
        BY DEF VotesAreGrants, Chosen
    <2>1. ASSUME state[c] = "Candidate"
          PROVE  votes[c] <= Cardinality(Granters(c, version[c]))
        <3>1. PICK S \in SUBSET Node : CountedBy(c, S)
            BY <2>1 DEF StaticInv, Counted
        <3>2. IsFiniteSet(Granters(c, version[c]))
            BY NodeAssumption, FS_Subset DEF Granters
        <3> QED BY <3>1, <3>2, FS_Subset DEF CountedBy
    <2>2. state[c] = "Leader" => Chosen(c, version[c])
        BY DEF StaticInv, Elected
    <2> QED BY <2>1, <2>2
<1> QED BY <1>1, StaticInvariant, PTL

-----------------------------------------------------------------------------
(* What a step may do to a role. *)

\* One node's part of RoleSteps.
RoleStep(n) ==
    /\ version'[n] >= version[n]
    /\ state[n] # "Leader" /\ state'[n] = "Leader" =>
          state[n] = "Candidate" /\ version'[n] = version[n]
    /\ state[n] = "Leader" /\ state'[n] # "Leader" =>
          version'[n] > version[n] \/ phase[n] = "ready"

\* Every step keeps the order of roles.
LEMMA NextRoleStep ==
    ASSUME TypeOK, [Next]_vars, NEW a \in Node
    PROVE  RoleStep(a)
<1>0. /\ version'[a] >= version[a]
      /\ version \in [Node -> 0 .. MaxVersion] /\ state \in [Node -> RoleState]
      /\ MaxVersion \in Nat
    BY VersionsAndGrants, VersionOrder DEF TypeOK
<1>1. CASE UNCHANGED state
    BY <1>0, <1>1 DEF RoleStep
<1>2. ASSUME NEW n \in Node, OwnStep(n) PROVE RoleStep(a)
    <2>1. CASE VoteToBeLeader(n) \/ Start(n)
        BY <1>0, <2>1 DEF VoteToBeLeader, Start, RoleStep
    <2>2. CASE ~(VoteToBeLeader(n) \/ Start(n))
        BY <1>1, <1>2, <2>2
           DEF OwnStep, LeaderTimeout, SynchronizeLogsToFollowers, Stop,
               JoinToCluster, ExitCluster, EnterLoop, LoopTimeout, role
    <2> QED BY <2>1, <2>2
<1>3. ASSUME NEW n \in Node, NEW m \in net, HandleMessage(n, m) PROVE RoleStep(a)
    <2>0. m.version \in 0 .. MaxVersion
        BY HandledTyped
    <2>1. ASSUME state' = [state EXCEPT ![n] = "Follower"],
                 version' = [version EXCEPT ![n] = m.version],
                 state[n] = "Leader" => m.version > version[n]
          PROVE  RoleStep(a)
        BY <1>0, <2>0, <2>1 DEF RoleStep
    <2>2. CASE GrantVote(n, m) \/ RefuseCandidate(n, m)
        <3>1. m.version > version[n]
            BY <1>0, <2>0, <2>2, VersionOrder DEF GrantVote, RefuseCandidate, AskIsNewer
        <3> QED BY <2>1, <2>2, <3>1 DEF GrantVote, RefuseCandidate, ChangeLeaderTo
    <2>3. CASE FollowNewLeader(n, m)
        <3>1. state[n] = "Leader" => m.version > version[n]
            BY <1>0, <2>0, <2>3, VersionOrder DEF FollowNewLeader, SplitBrain
        <3> QED BY <2>1, <2>3, <3>1 DEF FollowNewLeader, ChangeLeaderTo
    <2>4. CASE AcceptVote(n, m)
        <3>1. CASE state[n] = "Candidate" /\ m.choose /\ votes[n] + 1 >= Majority(n)
            BY <1>0, <2>4, <3>1 DEF AcceptVote, CountVote, RoleStep
        <3>2. CASE ~(state[n] = "Candidate" /\ m.choose /\ votes[n] + 1 >= Majority(n))
            BY <1>1, <2>4, <3>2 DEF AcceptVote, CountVote, role
        <3> QED BY <3>1, <3>2
    <2>5. CASE \/ DropOutdated(n, m) \/ IgnoreMessage(n, m) \/ DenyVote(n, m)
               \/ LeaderCheckFromLeader(n, m) \/ RefuteOldLeader(n, m)
               \/ SplitBrainExit(n, m) \/ NewOneOnline(n, m) \/ PeerOffline(n, m)
        BY <1>1, <2>5 DEF DropOutdated, IgnoreMessage, DenyVote, RefuteOldLeader,
                          LeaderCheckFromLeader, SplitBrainExit, NewOneOnline,
                          PeerOffline, role
    <2>6. CASE \/ Confirmed(n, m) \/ OnlineInLoop(n, m)
               \/ OfflineInLoop(n, m) \/ IgnoreInLoop(n, m)
        BY <1>1, <2>6 DEF Confirmed, OnlineInLoop, OfflineInLoop, IgnoreInLoop, role
    <2> QED BY <1>3, <2>2, <2>3, <2>4, <2>5, <2>6 DEF HandleMessage
<1>4. CASE UNCHANGED vars
    BY <1>1, <1>4 DEF vars, role
<1> QED BY <1>2, <1>3, <1>4 DEF Next

\* Versions never go back, leadership is won only by a candidate in its own
\* version, and given up only to a newer version or to a restart: for every
\* cluster and every network, members that join and leave included.
THEOREM RolesChangeInOrder == Spec => RoleSteps
<1>1. TypeOK /\ [Next]_vars => [\A n \in Node : RoleStep(n)]_vars
    BY NextRoleStep
<1> QED BY <1>1, Typing, PTL DEF Spec, RoleSteps, RoleStep

-----------------------------------------------------------------------------
(* Who is in whose _peers. *)

\* exit_cluster has begun.
Gone(n) == phase[n] \in {"exiting", "exited"}

\* Whoever has left, or failed to join, may be missing in the tables of others.
Excused(n) == Gone(n) \/ result[n] = "failed"

\* A newcomer whose join_to_cluster has not returned.
Entering(n) == n \in Joiners /\ result[n] = "none"

KnownBy(a, b) == a \in peers[b] \/ Excused(a)

PhaseOK(n) ==
    /\ phase[n] \in {"idle", "joining"} => Entering(n)
    /\ phase[n] \in {"ready", "running"} => ~Entering(n)

\* An instance is known by its own peers; while it joins, by those that confirmed.
PeersKnow ==
    \A a \in Node : \A b \in peers[a] : KnownBy(a, b) \/ (Entering(a) /\ b \notin acked[a])

\* What a datagram in flight says about its two ends: only Online comes from an
\* instance its destination may not know yet.
Known(m) ==
    /\ KnownBy(m.dst, m.src)
    /\ m.type # "Online" => KnownBy(m.src, m.dst)
    /\ m.type = "Offline" => Gone(m.src)

SendersKnown == \A m \in net : Known(m)

LeadersKnown ==
    \A n, b \in Node : leader[n] = b => KnownBy(n, b) /\ KnownBy(b, n)

BrokenExcused == (\E n \in Node : broken[n]) => \E p \in Node : Excused(p)

\* The inductive invariant.
MemberInv ==
    /\ TypeOK
    /\ \A n \in Node : PhaseOK(n)
    /\ PeersKnow /\ SendersKnown /\ LeadersKnown /\ BrokenExcused

\* What one step of instance n may do to its table, its loop, its leader, the ghost
\* flag and the network.
PeersStep(n) ==
    /\ \A x \in Node \ {n} : peers'[x] = peers[x]
    /\ \A x \in peers[n] \ peers'[n] : Gone(x)
    /\ \A x \in peers'[n] \ peers[n] : KnownBy(n, x)

LoopStep(n) ==
    /\ \A x \in Node \ {n} :
          phase'[x] = phase[x] /\ result'[x] = result[x] /\ acked'[x] = acked[x]
    /\ Gone(n) => Gone(n)'
    /\ Excused(n) => Excused(n)'
    /\ Entering(n)' => Entering(n) /\ \A x \in acked'[n] \ acked[n] : KnownBy(n, x)
    /\ Entering(n) /\ ~Entering(n)' => Excused(n)' \/ \A x \in peers'[n] : KnownBy(n, x)
    /\ PhaseOK(n)'

LeaderStep(n) ==
    /\ \A x \in Node \ {n} : leader'[x] = leader[x]
    /\ \A b \in Node :
          leader'[n] = b => leader[n] = b \/ (KnownBy(n, b) /\ KnownBy(b, n))

BrokenStep(n) ==
    /\ \A x \in Node \ {n} : broken'[x] = broken[x]
    /\ broken'[n] => broken[n] \/ \E p \in Node : Excused(p)

NewMail(n, m) ==
    /\ m.src = n
    /\ m.dst \in peers'[n] \/ Excused(m.dst)
    /\ m.type # "Online" => KnownBy(n, m.dst) \/ Gone(n)'
    /\ m.type = "Offline" => Gone(n)'

MailStep(n) == \A m \in net' \ net : NewMail(n, m)

MemberStep(n) ==
    PeersStep(n) /\ LoopStep(n) /\ LeaderStep(n) /\ BrokenStep(n) /\ MailStep(n)

\* Such a step keeps the invariant: nobody who is known is forgotten, except when
\* it leaves.
LEMMA MemberStepKeeps ==
    ASSUME MemberInv, TypeOK', NEW n \in Node, MemberStep(n)
    PROVE  MemberInv'
<1>1. /\ PeersStep(n) /\ LoopStep(n) /\ LeaderStep(n) /\ BrokenStep(n) /\ MailStep(n)
      /\ TypeOK /\ (\A x \in Node : PhaseOK(x))
      /\ PeersKnow /\ SendersKnown /\ LeadersKnown /\ BrokenExcused
    BY DEF MemberStep, MemberInv
<1>2. \A x \in Node : (Gone(x) => Gone(x)') /\ (Excused(x) => Excused(x)')
    BY <1>1 DEF LoopStep, Gone, Excused
<1>3. ASSUME NEW a \in Node, NEW b \in Node, KnownBy(a, b)
      PROVE  KnownBy(a, b)'
    <2>1. CASE Excused(a)
        BY <1>2, <2>1 DEF KnownBy
    <2>2. CASE a \in peers[b] /\ a \in peers'[b]
        BY <2>2 DEF KnownBy
    <2>3. CASE a \in peers[b] /\ a \notin peers'[b]
        <3>1. Gone(a)
            BY <1>1, <2>3 DEF PeersStep
        <3> QED BY <1>2, <3>1 DEF KnownBy, Excused
    <2> QED BY <1>3, <2>1, <2>2, <2>3 DEF KnownBy
<1>4. \A x \in Node \ {n} : PhaseOK(x)' /\ (Entering(x)' <=> Entering(x))
    BY <1>1 DEF LoopStep, PhaseOK, Entering
<1>5. \A x \in Node : PhaseOK(x)'
    BY <1>1, <1>4 DEF LoopStep
<1>6. PeersKnow'
    <2> SUFFICES ASSUME NEW a \in Node, NEW b \in peers'[a]
                 PROVE  KnownBy(a, b)' \/ (Entering(a)' /\ b \notin acked'[a])
        BY DEF PeersKnow
    <2>0. b \in Node
        BY DEF TypeOK
    <2>1. CASE a # n
        <3>1. b \in peers[a] /\ acked'[a] = acked[a] /\ (Entering(a)' <=> Entering(a))
            BY <1>1, <1>4, <2>1 DEF PeersStep, LoopStep
        <3> QED BY <1>1, <1>3, <2>0, <3>1 DEF PeersKnow
    <2>2. CASE a = n /\ b \notin peers[a]
        BY <1>1, <1>3, <2>0, <2>2 DEF PeersStep
    <2>3. CASE a = n /\ b \in peers[a] /\ ~KnownBy(a, b)
        <3>1. Entering(a) /\ b \notin acked[a]
            BY <1>1, <2>3 DEF PeersKnow
        <3>2. Entering(a)' => b \notin acked'[a]
            BY <1>1, <2>3, <3>1 DEF LoopStep
        <3>3. ~Entering(a)' => Excused(a)'
            BY <1>1, <2>3, <3>1 DEF LoopStep
        <3> QED BY <3>2, <3>3 DEF KnownBy
    <2>4. CASE KnownBy(a, b)
        BY <1>3, <2>0, <2>4
    <2> QED BY <2>1, <2>2, <2>3, <2>4
<1>7. SendersKnown'
    <2> SUFFICES ASSUME NEW m \in net' PROVE Known(m)'
        BY DEF SendersKnown
    <2>0. m.src \in Node /\ m.dst \in Node
        BY DEF TypeOK, Message
    <2>1. CASE m \in net
        <3>1. Known(m)
            BY <1>1, <2>1 DEF SendersKnown
        <3> QED BY <1>2, <1>3, <2>0, <3>1 DEF Known
    <2>2. CASE m \notin net
        <3>1. NewMail(n, m)
            BY <1>1, <2>2 DEF MailStep
        <3>2. KnownBy(m.dst, n)'
            BY <1>2, <2>0, <3>1 DEF NewMail, KnownBy
        <3>3. m.type # "Online" => KnownBy(n, m.dst)'
            <4>1. Gone(n)' => KnownBy(n, m.dst)'
                BY DEF KnownBy, Excused
            <4> QED BY <1>3, <2>0, <3>1, <4>1 DEF NewMail
        <3> QED BY <3>1, <3>2, <3>3 DEF NewMail, Known
    <2> QED BY <2>1, <2>2
<1>8. LeadersKnown'
    <2> SUFFICES ASSUME NEW x \in Node, NEW b \in Node, leader'[x] = b
                 PROVE  KnownBy(x, b)' /\ KnownBy(b, x)'
        BY DEF LeadersKnown
    <2>1. KnownBy(x, b) /\ KnownBy(b, x)
        <3>1. leader[x] = b => KnownBy(x, b) /\ KnownBy(b, x)
            BY <1>1 DEF LeadersKnown
        <3>2. CASE x = n
            BY <1>1, <3>1, <3>2 DEF LeaderStep
        <3>3. CASE x # n
            BY <1>1, <3>1, <3>3 DEF LeaderStep
        <3> QED BY <3>2, <3>3
    <2> QED BY <1>3, <2>1
<1>9. BrokenExcused'
    <2>1. (\E p \in Node : Excused(p)) => \E p \in Node : Excused(p)'
        BY <1>2
    <2>2. ASSUME NEW x \in Node, broken'[x] PROVE \E p \in Node : Excused(p)
        BY <1>1, <2>2 DEF BrokenStep, BrokenExcused
    <2> QED BY <2>1, <2>2 DEF BrokenExcused
<1> QED BY <1>5, <1>6, <1>7, <1>8, <1>9 DEF MemberInv

\* The two ends of a datagram that arrives.
LEMMA FromNet ==
    ASSUME MemberInv, NEW n \in Node, NEW m \in net, m.dst = n
    PROVE  /\ m.src \in Node
           /\ KnownBy(n, m.src)
           /\ m.type # "Online" => KnownBy(m.src, n)
           /\ m.type = "Offline" => Gone(m.src)
BY HandledTyped DEF MemberInv, SendersKnown, Known

\* What is new in the network after a step is what the step has sent.
LEMMA OnlySent ==
    ASSUME NEW R
    PROVE  /\ \A m : Receive(m, R) => net' \ net \subseteq R
           /\ Send(R) => net' \ net \subseteq R
BY DEF Receive, Taken, Send

\* Hearing a sender adds only an instance that knows this one; an assert that
\* fails has heard one that is leaving, or has failed to join.
LEMMA SeeSenderStep ==
    ASSUME MemberInv, NEW n \in Node, NEW m \in net, m.dst = n, SeeSender(n, m)
    PROVE  PeersStep(n) /\ BrokenStep(n) /\ peers[n] \subseteq peers'[n]
<1>0. /\ peers \in [Node -> SUBSET Node] /\ broken \in [Node -> BOOLEAN]
      /\ m.src \in Node /\ KnownBy(n, m.src)
      /\ m.type # "Online" => KnownBy(m.src, n)
    BY FromNet DEF MemberInv, TypeOK
<1>1. /\ peers[n] \subseteq peers'[n] /\ peers'[n] \subseteq peers[n] \cup {m.src}
      /\ \A x \in Node \ {n} : peers'[x] = peers[x]
    BY <1>0 DEF SeeSender, PeersSeen
<1>2. PeersStep(n)
    BY <1>0, <1>1 DEF PeersStep
<1>3. UnknownSender(n, m) => Excused(m.src)
    <2>1. FromLeader(n, m) => KnownBy(m.src, n)
        BY <1>0 DEF FromLeader, MemberInv, LeadersKnown
    <2> QED BY <1>0, <2>1 DEF UnknownSender, KnownBy
<1>4. /\ \A x \in Node \ {n} : broken'[x] = broken[x]
      /\ broken'[n] = (broken[n] \/ UnknownSender(n, m))
    BY <1>0 DEF SeeSender
<1>5. BrokenStep(n)
    BY <1>0, <1>3, <1>4 DEF BrokenStep
<1> QED BY <1>1, <1>2, <1>5

\* So what every handler does first adds no peer but the sender.
LEMMA HandlesStep ==
    ASSUME MemberInv, NEW n \in Node, NEW m \in net, Handles(n, m)
    PROVE  m.dst = n /\ PeersStep(n) /\ BrokenStep(n) /\ peers[n] \subseteq peers'[n]
BY SeeSenderStep DEF Handles, Running, Joining, PeersStep, BrokenStep

\* A step that leaves the loop of join_to_cluster and exit_cluster where it is.
LEMMA LoopRests ==
    ASSUME MemberInv, NEW n \in Node, UNCHANGED <<phase, result>>,
           \A x \in Node : acked'[x] \subseteq acked[x],
           \A x \in Node \ {n} : acked'[x] = acked[x]
    PROVE  LoopStep(n)
BY DEF LoopStep, MemberInv, PhaseOK, Gone, Excused, Entering

\* One turn of that loop, or its end.
LEMMA LoopHeadStep ==
    ASSUME MemberInv, NEW n \in Node, NEW ph \in {"joining", "exiting"},
           ph = "joining" => phase[n] \in {"idle", "joining"},
           ph = "exiting" => phase[n] \in {"running", "ready", "exiting"},
           NEW i, NEW P, NEW A, NEW c, LoopHead(n, ph, i, P, A, c),
           peers'[n] = P, P \subseteq peers[n],
           \A x \in A \ acked[n] : KnownBy(n, x)
    PROVE  LoopStep(n) /\ (ph = "exiting" => Gone(n)')
<1>0. /\ phase \in [Node -> Phase] /\ acked \in [Node -> SUBSET Node]
      /\ result \in [Node -> {"none", "ok", "failed"}] /\ PhaseOK(n)
    BY DEF MemberInv, TypeOK
<1>1. ph = "joining" => Entering(n)
    BY <1>0 DEF PhaseOK
<1>2. /\ \A x \in Node \ {n} :
            phase'[x] = phase[x] /\ result'[x] = result[x] /\ acked'[x] = acked[x]
      /\ \/ phase'[n] = ph /\ acked'[n] = A /\ result'[n] = result[n]
         \/ phase'[n] = Ends[ph] /\ result'[n] = IF A = P THEN "ok" ELSE "failed"
    BY <1>0 DEF LoopHead
<1>3. Ends[ph] = IF ph = "joining" THEN "ready" ELSE "exited"
    BY DEF Ends
<1>4. ph = "exiting" => Gone(n)' /\ Excused(n)'
    BY <1>2, <1>3 DEF Gone, Excused
<1>5. (Gone(n) => Gone(n)') /\ (Excused(n) => Excused(n)')
    BY <1>1, <1>4 DEF Gone, Excused, Entering
<1>6. Entering(n)' => Entering(n) /\ \A x \in acked'[n] \ acked[n] : KnownBy(n, x)
    BY <1>2 DEF Entering
<1>7. ASSUME Entering(n), ~Entering(n)'
      PROVE  Excused(n)' \/ \A x \in peers'[n] : KnownBy(n, x)
    <2>1. result'[n] = IF A = P THEN "ok" ELSE "failed"
        BY <1>2, <1>7 DEF Entering
    <2>2. ASSUME A = P, NEW x \in P PROVE KnownBy(n, x)
        <3>1. x \in acked[n] => KnownBy(n, x)
            BY <2>2 DEF MemberInv, PeersKnow
        <3> QED BY <2>2, <3>1
    <2> QED BY <2>1, <2>2 DEF Excused
<1>8. PhaseOK(n)'
    BY <1>1, <1>2, <1>3 DEF PhaseOK, Entering
<1> QED BY <1>2, <1>4, <1>5, <1>6, <1>7, <1>8 DEF LoopStep

\* An instance that runs is in the tables of all its peers.
LEMMA PeersMail ==
    ASSUME MemberInv, NEW n \in Node, phase[n] = "running",
           peers[n] \subseteq peers'[n], NEW t, t \notin {"Online", "Offline"}, NEW v
    PROVE  \A k \in ToAll(t, n, peers[n], v) : NewMail(n, k)
<1>1. \A d \in peers[n] : KnownBy(n, d)
    BY DEF MemberInv, PhaseOK, PeersKnow
<1>2. \A d \in peers[n] : NewMail(n, Msg(t, n, d, v))
    BY <1>1 DEF NewMail, Msg
<1> QED BY <1>2 DEF ToAll

\* The announcements of a loop go to the peers it has in its table.
LEMMA AnnounceMail ==
    ASSUME NEW n \in Node, NEW ph \in {"joining", "exiting"}, NEW i, NEW P, NEW A, NEW c,
           peers'[n] = P, ph = "exiting" => Gone(n)'
    PROVE  \A k \in Announce(n, ph, i, P, A, c) : NewMail(n, k)
<1>1. Announces[ph] = IF ph = "joining" THEN "Online" ELSE "Offline"
    BY DEF Announces
<1>2. \A d \in P \ A : NewMail(n, Msg(Announces[ph], n, d, version[n]))
    BY <1>1 DEF NewMail, Msg
<1> QED BY <1>2 DEF Announce, ToAll

\* Every datagram a thread handles.
LEMMA HandleMessageMembers ==
    ASSUME MemberInv, NEW n \in Node, NEW m \in net, HandleMessage(n, m)
    PROVE  MemberStep(n)
<1>0. /\ leader \in [Node -> Node \cup {NoAddr}] /\ peers \in [Node -> SUBSET Node]
      /\ acked \in [Node -> SUBSET Node] /\ NoAddr \notin Node
    BY NodeAssumption DEF MemberInv, TypeOK
<1>1. /\ m.dst = n /\ m.src \in Node /\ KnownBy(n, m.src)
      /\ m.type # "Online" => KnownBy(m.src, n)
      /\ m.type = "Offline" => Gone(m.src)
    <2>1. m.dst = n
        BY DEF HandleMessage, DropOutdated, IgnoreMessage, GrantVote, RefuseCandidate,
               DenyVote, AcceptVote, LeaderCheckFromLeader, RefuteOldLeader,
               FollowNewLeader, SplitBrainExit, MayFollow, NewOneOnline, PeerOffline,
               Confirmed, OnlineInLoop, OfflineInLoop, IgnoreInLoop,
               Handles, Running, Joining, Exiting
    <2> QED BY <2>1, FromNet
<1>p. peers' = peers => PeersStep(n) /\ peers[n] \subseteq peers'[n]
    BY DEF PeersStep
<1>l. UNCHANGED loop => LoopStep(n)
    BY LoopRests DEF loop
<1>d. UNCHANGED leader => LeaderStep(n)
    BY DEF LeaderStep
<1>f. ASSUME NEW a, leader' = [leader EXCEPT ![n] = a],
             a = NoAddr \/ (a = m.src /\ m.type # "Online")
      PROVE  LeaderStep(n)
    BY <1>0, <1>1, <1>f DEF LeaderStep
<1>b. UNCHANGED broken => BrokenStep(n)
    BY DEF BrokenStep
<1>e. Receive(m, {}) => MailStep(n)
    BY OnlySent DEF MailStep
<1>r. ASSUME NEW k, k.src = n, k.dst = m.src, k.type \notin {"Online", "Offline"},
             m.type # "Online", peers[n] \subseteq peers'[n]
      PROVE  NewMail(n, k)
    BY <1>1, <1>r DEF NewMail, KnownBy
<1>s. ASSUME LeaderCheckReply(n, m), m.type # "Online", peers[n] \subseteq peers'[n]
      PROVE  MailStep(n)
    <2>1. PICK t \in {"Request", "FollowerAck"} : Receive(m, {Msg(t, n, m.src, m.version)})
        BY <1>s DEF LeaderCheckReply
    <2>2. NewMail(n, Msg(t, n, m.src, m.version))
        BY <1>r, <1>s DEF Msg
    <2> QED BY <2>1, <2>2, OnlySent DEF MailStep
<1>2. CASE DropOutdated(n, m)
    BY <1>2, <1>p, <1>l, <1>d, <1>b, <1>e DEF DropOutdated, MemberStep, role
<1>3. CASE IgnoreMessage(n, m)
    BY <1>1, <1>3, <1>l, <1>d, <1>e, SeeSenderStep DEF IgnoreMessage, MemberStep, role
<1>4. CASE GrantVote(n, m)
    <2>1. PeersStep(n) /\ BrokenStep(n) /\ peers[n] \subseteq peers'[n]
        BY <1>4, HandlesStep DEF GrantVote
    <2>2. LeaderStep(n)
        BY <1>4, <1>f DEF GrantVote, ChangeLeaderTo
    <2>3. NewMail(n, VoteMsg(n, m.src, m.version, TRUE))
        BY <1>4, <1>r, <2>1 DEF GrantVote, VoteMsg
    <2>4. MailStep(n)
        BY <1>4, <2>3, OnlySent DEF GrantVote, MailStep
    <2> QED BY <1>4, <1>l, <2>1, <2>2, <2>4 DEF GrantVote, MemberStep
<1>5. CASE RefuseCandidate(n, m)
    <2>1. PeersStep(n) /\ BrokenStep(n) /\ peers[n] \subseteq peers'[n]
        BY <1>5, HandlesStep DEF RefuseCandidate
    <2>2. LeaderStep(n)
        BY <1>5, <1>f DEF RefuseCandidate, ChangeLeaderTo
    <2>3. PICK to \in {m.src, NoAddr}, late \in LastHeartbeat(n, m.version) :
             Receive(m, Reaching({VoteMsg(n, to, m.version, FALSE)}) \cup late)
        BY <1>5 DEF RefuseCandidate
    <2>4. \A k \in Reaching({VoteMsg(n, to, m.version, FALSE)}) : NewMail(n, k)
        BY <1>0, <1>5, <1>r, <2>1 DEF RefuseCandidate, Reaching, VoteMsg
    <2>5. \A k \in late : NewMail(n, k)
        <3>1. CASE late = {}
            BY <3>1
        <3>2. CASE late # {}
            <4>1. /\ phase[n] = "running"
                  /\ late = ToAll("LeaderCheck", n, peers[n], m.version)
                BY <2>3, <3>2 DEF LastHeartbeat
            <4> QED BY <2>1, <4>1, PeersMail
        <3> QED BY <3>1, <3>2
    <2>6. MailStep(n)
        BY <2>3, <2>4, <2>5, OnlySent DEF MailStep
    <2> QED BY <1>5, <1>l, <2>1, <2>2, <2>6 DEF RefuseCandidate, MemberStep
<1>6. CASE DenyVote(n, m)
    <2>1. PeersStep(n) /\ BrokenStep(n) /\ peers[n] \subseteq peers'[n]
        BY <1>6, HandlesStep DEF DenyVote
    <2>2. NewMail(n, VoteMsg(n, m.src, version[n], FALSE))
        BY <1>6, <1>r, <2>1 DEF DenyVote, VoteMsg
    <2>3. MailStep(n)
        BY <1>6, <2>2, OnlySent DEF DenyVote, MailStep
    <2> QED BY <1>6, <1>l, <1>d, <2>1, <2>3 DEF DenyVote, MemberStep, role
<1>7. CASE AcceptVote(n, m)
    <2>1. PeersStep(n) /\ BrokenStep(n) /\ peers[n] \subseteq peers'[n]
        BY <1>1, <1>7, SeeSenderStep DEF AcceptVote
    <2>2. CASE state[n] = "Candidate" /\ m.choose /\ votes[n] + 1 >= Majority(n)
        <3>1. /\ leader' = [leader EXCEPT ![n] = NoAddr]
              /\ Receive(m, ToAll("LeaderCheck", n, peers[n], version[n]))
            BY <1>7, <2>2 DEF AcceptVote, CountVote
        <3>2. \A k \in ToAll("LeaderCheck", n, peers[n], version[n]) : NewMail(n, k)
            BY <1>7, <2>1, PeersMail DEF AcceptVote, Running
        <3>3. MailStep(n)
            BY <3>1, <3>2, OnlySent DEF MailStep
        <3> QED BY <1>7, <1>f, <1>l, <2>1, <3>1, <3>3 DEF AcceptVote, MemberStep
    <2>3. CASE ~(state[n] = "Candidate" /\ m.choose /\ votes[n] + 1 >= Majority(n))
        <3>1. Receive(m, {}) /\ UNCHANGED leader
            BY <1>7, <2>3 DEF AcceptVote, CountVote, role
        <3> QED BY <1>7, <1>d, <1>e, <1>l, <2>1, <3>1 DEF AcceptVote, MemberStep
    <2> QED BY <2>2, <2>3
<1>8. CASE LeaderCheckFromLeader(n, m)
    <2>1. PeersStep(n) /\ BrokenStep(n) /\ peers[n] \subseteq peers'[n]
        BY <1>1, <1>8, SeeSenderStep DEF LeaderCheckFromLeader
    <2>2. MailStep(n)
        BY <1>8, <1>s, <2>1 DEF LeaderCheckFromLeader
    <2> QED BY <1>8, <1>l, <1>d, <2>1, <2>2 DEF LeaderCheckFromLeader, MemberStep
<1>9. CASE RefuteOldLeader(n, m)
    <2>1. PeersStep(n) /\ BrokenStep(n) /\ peers[n] \subseteq peers'[n]
        BY <1>1, <1>9, SeeSenderStep DEF RefuteOldLeader
    <2>2. NewMail(n, Msg("LeaderCheck", n, m.src, version[n]))
        BY <1>9, <1>r, <2>1 DEF RefuteOldLeader, Msg
    <2>3. MailStep(n)
        BY <1>9, <2>2, OnlySent DEF RefuteOldLeader, MailStep
    <2> QED BY <1>9, <1>l, <1>d, <2>1, <2>3 DEF RefuteOldLeader, MemberStep, role
<1>10. CASE FollowNewLeader(n, m)
    <2>1. /\ PeersStep(n) /\ BrokenStep(n) /\ peers[n] \subseteq peers'[n]
          /\ m.type = "LeaderCheck"
        BY <1>10, HandlesStep DEF FollowNewLeader, MayFollow
    <2>2. LeaderStep(n)
        BY <1>10, <1>f, <2>1 DEF FollowNewLeader, ChangeLeaderTo
    <2>3. MailStep(n)
        BY <1>10, <1>s, <2>1 DEF FollowNewLeader
    <2> QED BY <1>10, <1>l, <2>1, <2>2, <2>3 DEF FollowNewLeader, MemberStep
<1>11. CASE SplitBrainExit(n, m)
    <2>1. PeersStep(n) /\ BrokenStep(n) /\ phase[n] \in {"running", "joining"}
        BY <1>11, HandlesStep DEF SplitBrainExit, MayFollow, Handles, Running, Joining
    <2>2. LoopStep(n)
        BY <1>11, <2>1 DEF SplitBrainExit, LoopStep, MemberInv, TypeOK, PhaseOK,
                           Gone, Excused, Entering
    <2> QED BY <1>11, <1>d, <1>e, <2>1, <2>2 DEF SplitBrainExit, MemberStep, role
<1>12. CASE NewOneOnline(n, m)
    <2>1. PeersStep(n) /\ m.src \in peers'[n]
        BY <1>0, <1>1, <1>12 DEF NewOneOnline, AddPeer, PeersStep
    <2>2. LoopStep(n)
        BY <1>12, LoopRests DEF NewOneOnline, AddPeer
    <2>3. NewMail(n, OnlineReply(n, m.src))
        BY <1>1, <2>1 DEF NewMail, OnlineReply, Msg
    <2>4. MailStep(n)
        BY <1>12, <2>3, OnlySent DEF NewOneOnline, MailStep
    <2> QED BY <1>12, <1>d, <1>b, <2>1, <2>2, <2>4 DEF NewOneOnline, MemberStep, role
<1>13. CASE PeerOffline(n, m)
    <2>1. PeersStep(n) /\ Gone(m.src)
        BY <1>0, <1>1, <1>13 DEF PeerOffline, ErasePeer, PeersStep
    <2>2. LoopStep(n)
        BY <1>0, <1>13, LoopRests DEF PeerOffline, ErasePeer
    <2>3. LeaderStep(n)
        BY <1>0, <1>13 DEF PeerOffline, ErasePeer, LeaderStep
    <2>4. BrokenStep(n)
        <3>1. UnknownSender(n, m) \in BOOLEAN /\ broken \in [Node -> BOOLEAN]
            BY DEF UnknownSender, MemberInv, TypeOK
        <3> QED BY <1>1, <1>13, <2>1, <3>1 DEF PeerOffline, BrokenStep, Excused
    <2>5. NewMail(n, Msg("OfflineAck", n, m.src, version[n]))
        BY <1>1, <2>1 DEF NewMail, Msg, Excused
    <2>6. MailStep(n)
        BY <1>13, <2>5, OnlySent DEF PeerOffline, MailStep
    <2> QED BY <2>1, <2>2, <2>3, <2>4, <2>6 DEF MemberStep
<1>14. CASE Confirmed(n, m)
    <2>1. PeersStep(n) /\ BrokenStep(n) /\ LeaderStep(n) /\ MailStep(n)
        BY <1>14, <1>p, <1>d, <1>b, <1>e DEF Confirmed, role
    <2>2. CASE NewlyConfirmed(n, m)
        <3>1. PICK i : LoopHead(n, phase[n], i, peers[n],
                                acked[n] \cup {m.src}, confirm[n] + 1)
            BY <1>14, <2>2 DEF Confirmed
        <3>2. phase[n] \in {"joining", "exiting"} /\ peers' = peers
            BY <1>14 DEF Confirmed, Joining, Exiting
        <3>3. LoopStep(n)
            BY <1>1, <3>1, <3>2, LoopHeadStep
        <3> QED BY <2>1, <3>3 DEF MemberStep
    <2>3. CASE ~NewlyConfirmed(n, m)
        BY <1>14, <1>l, <2>1, <2>3 DEF Confirmed, MemberStep
    <2> QED BY <2>2, <2>3
<1>15. CASE OnlineInLoop(n, m)
    <2>1. PeersStep(n) /\ m.src \in peers'[n]
        BY <1>0, <1>1, <1>15 DEF OnlineInLoop, AddPeer, PeersStep
    <2>2. LoopStep(n)
        BY <1>15, LoopRests DEF OnlineInLoop, AddPeer
    <2>3. NewMail(n, OnlineReply(n, m.src))
        BY <1>1, <2>1 DEF NewMail, OnlineReply, Msg
    <2>4. \/ Announces[phase[n]] = "Online"
          \/ Announces[phase[n]] = "Offline" /\ Gone(n)'
        BY <1>15 DEF OnlineInLoop, Joining, Exiting, Announces, Gone
    <2>5. NewMail(n, Msg(Announces[phase[n]], n, m.src, version[n]))
        BY <1>1, <2>1, <2>4 DEF NewMail, Msg
    <2>6. MailStep(n)
        BY <1>15, <2>3, <2>5, OnlySent DEF OnlineInLoop, MailStep
    <2> QED BY <1>15, <1>d, <1>b, <2>1, <2>2, <2>6 DEF OnlineInLoop, MemberStep, role
<1>16. CASE OfflineInLoop(n, m)
    <2>0. phase[n] \in {"joining", "exiting"}
        BY <1>16 DEF OfflineInLoop, Joining, Exiting
    <2>1. PeersStep(n) /\ Gone(m.src) /\ peers'[n] = peers[n] \ {m.src}
        BY <1>0, <1>1, <1>16 DEF OfflineInLoop, PeersStep
    <2>2. PICK i : LoopHead(n, phase[n], i, peers[n] \ {m.src},
                            acked[n] \ {m.src}, confirm[n])
        BY <1>16 DEF OfflineInLoop
    <2>3. LoopStep(n) /\ (phase[n] = "exiting" => Gone(n)')
        BY <2>0, <2>1, <2>2, LoopHeadStep
    <2>4. LeaderStep(n)
        BY <1>0, <1>16 DEF OfflineInLoop, LeaderStep
    <2>5. NewMail(n, Msg("OfflineAck", n, m.src, version[n]))
        BY <1>1, <2>1 DEF NewMail, Msg, Excused
    <2>6. \/ Announces[phase[n]] = "Online"
          \/ Announces[phase[n]] = "Offline" /\ Gone(n)'
        BY <2>0, <2>3 DEF Announces
    <2>7. NewMail(n, Msg(Announces[phase[n]], n, m.src, version[n]))
        BY <1>1, <2>1, <2>6 DEF NewMail, Msg, Excused
    <2>8. MailStep(n)
        BY <1>16, <2>5, <2>7, OnlySent DEF OfflineInLoop, MailStep
    <2> QED BY <1>16, <1>b, <2>1, <2>3, <2>4, <2>8 DEF OfflineInLoop, MemberStep
<1>17. CASE IgnoreInLoop(n, m)
    BY <1>17, <1>p, <1>l, <1>d, <1>b, <1>e DEF IgnoreInLoop, MemberStep, role
<1> QED BY <1>2, <1>3, <1>4, <1>5, <1>6, <1>7, <1>8, <1>9, <1>10, <1>11,
           <1>12, <1>13, <1>14, <1>15, <1>16, <1>17 DEF HandleMessage

\* Every timeout and every call of the owner.
LEMMA OwnStepMembers ==
    ASSUME MemberInv, NEW n \in Node, OwnStep(n)
    PROVE  MemberStep(n)
<1>0. /\ leader \in [Node -> Node \cup {NoAddr}] /\ NoAddr \notin Node
      /\ phase \in [Node -> Phase]
    BY NodeAssumption DEF MemberInv, TypeOK
<1>1. /\ UNCHANGED peers => PeersStep(n)
      /\ UNCHANGED broken => BrokenStep(n)
      /\ UNCHANGED leader => LeaderStep(n)
    BY DEF PeersStep, BrokenStep, LeaderStep
<1>2. UNCHANGED loop => LoopStep(n)
    BY LoopRests DEF loop
<1>3. ASSUME phase[n] = "running", UNCHANGED peers, NEW t, t \notin {"Online", "Offline"},
             NEW v, Send(ToAll(t, n, peers[n], v))
      PROVE  MailStep(n)
    <2>1. \A k \in ToAll(t, n, peers[n], v) : NewMail(n, k)
        BY <1>3, PeersMail
    <2> QED BY <1>3, <2>1, OnlySent DEF MailStep
<1>4. CASE VoteToBeLeader(n)
    <2>1. LeaderStep(n)
        BY <1>0, <1>4 DEF VoteToBeLeader, LeaderStep
    <2>2. MailStep(n)
        BY <1>3, <1>4 DEF VoteToBeLeader
    <2> QED BY <1>1, <1>2, <1>4, <2>1, <2>2 DEF VoteToBeLeader, MemberStep
<1>5. CASE LeaderTimeout(n) \/ SynchronizeLogsToFollowers(n)
    <2>1. MailStep(n)
        BY <1>3, <1>5 DEF LeaderTimeout, SynchronizeLogsToFollowers
    <2> QED BY <1>1, <1>2, <1>5, <2>1
            DEF LeaderTimeout, SynchronizeLogsToFollowers, MemberStep, role
<1>6. CASE Start(n) \/ Stop(n)
    <2>1. LoopStep(n)
        BY <1>0, <1>6 DEF Start, Stop, LoopStep, MemberInv, PhaseOK, Gone, Excused, Entering
    <2>2. MailStep(n)
        BY <1>6 DEF Start, Stop, MailStep
    <2> QED BY <1>1, <1>6, <2>1, <2>2 DEF Start, Stop, MemberStep, role
<1>7. ASSUME NEW ph \in {"joining", "exiting"},
             ph = "joining" => phase[n] \in {"idle", "joining"},
             ph = "exiting" => phase[n] \in {"running", "ready", "exiting"},
             NEW i, NEW A, A \subseteq acked[n], NEW c,
             LoopHead(n, ph, i, peers[n], A, c),
             Send(Announce(n, ph, i, peers[n], A, c)),
             UNCHANGED <<role, peers, broken>>
      PROVE  MemberStep(n)
    <2>1. LoopStep(n) /\ (ph = "exiting" => Gone(n)')
        BY <1>7, LoopHeadStep
    <2>2. \A k \in Announce(n, ph, i, peers[n], A, c) : NewMail(n, k)
        BY <1>7, <2>1, AnnounceMail
    <2>3. MailStep(n)
        BY <1>7, <2>2, OnlySent DEF MailStep
    <2> QED BY <1>1, <1>7, <2>1, <2>3 DEF MemberStep, role
<1>8. CASE JoinToCluster(n)
    <2>1. {} \subseteq acked[n]
        OBVIOUS
    <2> QED BY <1>7, <1>8, <2>1 DEF JoinToCluster, EnterLoop
<1>9. CASE ExitCluster(n)
    <2>1. {} \subseteq acked[n]
        OBVIOUS
    <2> QED BY <1>7, <1>9, <2>1 DEF ExitCluster, EnterLoop
<1>10. CASE LoopTimeout(n)
    <2>1. acked[n] \subseteq acked[n]
        OBVIOUS
    <2> QED BY <1>7, <1>10, <2>1 DEF LoopTimeout
<1> QED BY <1>4, <1>5, <1>6, <1>8, <1>9, <1>10 DEF OwnStep

\* The membership invariant holds in every reachable state, of any cluster.
LEMMA MemberInvariant == Spec => []MemberInv
<1>1. Init => MemberInv
    <2> SUFFICES ASSUME Init PROVE MemberInv
        OBVIOUS
    <2>1. TypeOK
        BY InitTyped
    <2>2. \A n \in Node : PhaseOK(n)
        BY DEF Init, PhaseOK, Entering, Joiners
    <2>3. PeersKnow
        <3> SUFFICES ASSUME NEW a \in Node, NEW b \in peers[a]
                     PROVE  KnownBy(a, b) \/ (Entering(a) /\ b \notin acked[a])
            BY DEF PeersKnow
        <3>1. b \in Founders \ {a} /\ b \in Node
            BY NodeAssumption DEF Init, InitialPeers
        <3>2. a \in Founders => a \in peers[b]
            BY <3>1 DEF Init, InitialPeers
        <3>3. a \notin Founders => Entering(a) /\ b \notin acked[a]
            BY DEF Init, Entering, Joiners
        <3> QED BY <3>2, <3>3 DEF KnownBy
    <2>4. SendersKnown /\ LeadersKnown /\ BrokenExcused
        BY NodeAssumption DEF Init, SendersKnown, LeadersKnown, BrokenExcused
    <2> QED BY <2>1, <2>2, <2>3, <2>4 DEF MemberInv
<1>2. MemberInv /\ [Next]_vars => MemberInv'
    <2> SUFFICES ASSUME MemberInv, [Next]_vars PROVE MemberInv'
        OBVIOUS
    <2>1. TypeOK'
        BY NextTyped DEF MemberInv
    <2>2. CASE UNCHANGED vars
        <3>1. (\A n \in Node : PhaseOK(n)')
            BY <2>2 DEF MemberInv, PhaseOK, Entering, vars, loop
        <3>2. /\ (\A a, b : KnownBy(a, b)' <=> KnownBy(a, b))
              /\ (\A a : (Excused(a)' <=> Excused(a)) /\ (Gone(a)' <=> Gone(a)))
              /\ (\A a : Entering(a)' <=> Entering(a))
            BY <2>2 DEF KnownBy, Excused, Gone, Entering, vars, loop
        <3>3. /\ peers' = peers /\ net' = net /\ leader' = leader
              /\ broken' = broken /\ acked' = acked
            BY <2>2 DEF vars, role, loop
        <3>4. PeersKnow'
            BY <3>2, <3>3 DEF MemberInv, PeersKnow
        <3>5. SendersKnown'
            BY <3>2, <3>3 DEF MemberInv, SendersKnown, Known
        <3>6. LeadersKnown' /\ BrokenExcused'
            BY <3>2, <3>3 DEF MemberInv, LeadersKnown, BrokenExcused
        <3> QED BY <2>1, <3>1, <3>4, <3>5, <3>6 DEF MemberInv
    <2>3. ASSUME NEW n \in Node, OwnStep(n) PROVE MemberInv'
        BY <2>1, <2>3, OwnStepMembers, MemberStepKeeps
    <2>4. ASSUME NEW n \in Node, NEW m \in net, HandleMessage(n, m) PROVE MemberInv'
        BY <2>1, <2>4, HandleMessageMembers, MemberStepKeeps
    <2> QED BY <2>2, <2>3, <2>4 DEF Next
<1> QED BY <1>1, <1>2, PTL DEF Spec

\* What is known while nobody has failed to join and nobody leaves.
LEMMA MembersAreKnown == MemberInv => NewcomersKnown /\ SendersAsserted
<1> SUFFICES ASSUME MemberInv PROVE NewcomersKnown /\ SendersAsserted
    OBVIOUS
<1>1. ASSUME NEW n \in Joiners, phase[n] = "ready", result[n] = "ok", NEW p \in peers[n]
      PROVE  n \in peers[p]
    <2>1. n \in Node /\ ~Entering(n) /\ ~Excused(n)
        BY <1>1 DEF Joiners, Entering, Excused, Gone
    <2>2. KnownBy(n, p)
        BY <2>1 DEF MemberInv, PeersKnow
    <2> QED BY <2>1, <2>2 DEF KnownBy
<1>2. SendersAsserted
    BY DEF MemberInv, BrokenExcused, SendersAsserted, Excused, Gone
<1> QED BY <1>1, <1>2 DEF NewcomersKnown

\* In a cluster of any size, whose members join, fail to join, leave, stop and
\* restart at any time over a network that loses, reorders and duplicates: a
\* newcomer whose join_to_cluster returned true is in the tables of all its peers,
\* and the handlers' asserts on the sender hold until somebody leaves or fails to
\* join.
THEOREM MembershipIsKnown == Spec => [](NewcomersKnown /\ SendersAsserted)
BY MemberInvariant, MembersAreKnown, PTL

\* Where the application refuses nobody, no candidate is ever refused.
NoneRefused == \A g \in granted : g[3] # NoAddr

LEMMA NeverRefused ==
    ASSUME CanBeLeader = {TRUE}
    PROVE  Spec => []NoneRefused
<1>1. Init => NoneRefused
    BY DEF Init, NoneRefused
<1>2. TypeOK /\ NoneRefused /\ [Next]_vars => NoneRefused'
    <2> SUFFICES ASSUME TypeOK, NoneRefused, [Next]_vars, ~NoneRefused' PROVE FALSE
        OBVIOUS
    <2>0. granted' # granted /\ NoAddr \notin Node
        BY NodeAssumption DEF NoneRefused
    <2>1. PICK n \in Node : OwnStep(n) \/ \E m \in net : HandleMessage(n, m)
        BY <2>0 DEF Next, vars
    <2>2. CASE OwnStep(n)
        <3>1. VoteToBeLeader(n)
            BY <2>0, <2>2 DEF OwnStep, LeaderTimeout, SynchronizeLogsToFollowers, Start,
               Stop, JoinToCluster, ExitCluster, EnterLoop, LoopTimeout
        <3>2. granted' = granted \cup {<<n, Succ(version[n]), n>>}
            BY <3>1 DEF VoteToBeLeader
        <3> QED BY <2>0, <3>2 DEF NoneRefused
    <2>3. ASSUME NEW m \in net, HandleMessage(n, m) PROVE FALSE
        <3>1. GrantVote(n, m) \/ RefuseCandidate(n, m)
            BY <2>0, <2>3 DEF HandleMessage, DropOutdated, IgnoreMessage, DenyVote,
               AcceptVote, LeaderCheckFromLeader, RefuteOldLeader, FollowNewLeader,
               SplitBrainExit, NewOneOnline, PeerOffline, Confirmed, OnlineInLoop,
               OfflineInLoop, IgnoreInLoop
        <3>2. GrantVote(n, m)
            BY <3>1 DEF RefuseCandidate
        <3>3. granted' = granted \cup {<<n, m.version, m.src>>} /\ m.src \in Node
            BY <3>2, HandledTyped DEF GrantVote
        <3> QED BY <2>0, <3>3 DEF NoneRefused
    <2> QED BY <2>1, <2>2, <2>3
<1> QED BY <1>1, <1>2, Typing, PTL DEF Spec

\* Two leaders of one version do not exist, so assert_split_brain never ends an
\* instance of a fixed cluster whose application refuses nobody.
LEMMA NoneHalted ==
    ASSUME StaticCluster, CanBeLeader = {TRUE}
    PROVE  Spec => [](\A n \in Node : phase[n] # "halted")
<1> DEFINE Alive == \A n \in Node : phase[n] # "halted"
<1>1. Init => Alive
    BY DEF Init
<1>2. ASSUME StaticInv, NoneRefused, NEW n \in Node, NEW m \in net
      PROVE  ~SplitBrainExit(n, m)
    <2> SUFFICES ASSUME SplitBrainExit(n, m) PROVE FALSE
        OBVIOUS
    <2>0. /\ m.dst = n /\ m.src # n /\ m.src \in Node
          /\ m.type = "LeaderCheck" /\ Chosen(m.src, m.version)
          /\ phase[n] \in {"ready", "running", "halted"}
          /\ VoteOnce
        BY <1>2, HandledTyped DEF SplitBrainExit, MayFollow, Handles, Running, Joining,
           StaticInv, VoteInv, Members, Traffic, Sound, NoneRefused
    <2>1. Running(n, m) /\ ~Outdated(n, m)
        BY <2>0 DEF SplitBrainExit, MayFollow, Handles, Joining
    <2>2. ~OlderLeader(n, m)
        BY DEF SplitBrainExit, MayFollow
    <2>3. m.version = version[n] /\ state[n] = "Leader"
        BY <2>0, <2>1, <2>2 DEF SplitBrainExit, SplitBrain, Outdated, OlderLeader, Running
    <2>4. Chosen(n, m.version)
        BY <1>2, <2>3 DEF StaticInv, Elected
    <2> QED BY <2>0, <2>4, ChosenIsUnique
<1>3. StaticInv /\ NoneRefused /\ Alive /\ [Next]_vars => Alive'
    <2> SUFFICES ASSUME StaticInv, NoneRefused, Alive, [Next]_vars PROVE Alive'
        OBVIOUS
    <2>0. phase \in [Node -> Phase] /\ (\A n \in Node : phase[n] \in {"ready", "running", "halted"})
        BY DEF StaticInv, VoteInv, TypeOK, Members
    <2>1. CASE UNCHANGED vars
        BY <2>1 DEF vars, loop
    <2>2. ASSUME NEW n \in Node, OwnStep(n) PROVE Alive'
        BY <2>0, <2>2 DEF OwnStep, VoteToBeLeader, LeaderTimeout, Start, Stop,
           SynchronizeLogsToFollowers, JoinToCluster, ExitCluster, LoopTimeout,
           StaticCluster, loop
    <2>3. ASSUME NEW n \in Node, NEW m \in net, HandleMessage(n, m) PROVE Alive'
        <3>1. ~SplitBrainExit(n, m)
            BY <1>2
        <3>2. phase' = phase
            BY <2>0, <2>3, <3>1 DEF HandleMessage, DropOutdated, IgnoreMessage, GrantVote,
               RefuseCandidate, DenyVote, AcceptVote, LeaderCheckFromLeader,
               RefuteOldLeader, FollowNewLeader, NewOneOnline, PeerOffline, Confirmed,
               OnlineInLoop, OfflineInLoop, IgnoreInLoop, Joining, Exiting, loop
        <3> QED BY <3>2
    <2> QED BY <2>1, <2>2, <2>3 DEF Next
<1> QED BY <1>1, <1>3, StaticInvariant, NeverRefused, PTL DEF Spec

\* The whole membership promise: for every cluster its first two parts; the third,
\* that nobody takes emergency_exit, where the members are fixed (elsewhere it
\* claims something only if the application may refuse nobody).
THEOREM MembershipIsSound ==
    ASSUME CanBeLeader = {TRUE} => StaticCluster
    PROVE  Spec => []JoinedIsKnown
<1>1. CASE CanBeLeader = {TRUE}
    <2>1. (\A n \in Node : phase[n] # "halted") => NobodyHalts
        BY DEF NobodyHalts
    <2> QED BY <1>1, <2>1, NoneHalted, MembershipIsKnown, PTL DEF JoinedIsKnown
<1>2. CASE CanBeLeader # {TRUE}
    <2>1. NobodyHalts
        BY <1>2 DEF NobodyHalts
    <2>2. NewcomersKnown /\ SendersAsserted => JoinedIsKnown
        BY <2>1 DEF JoinedIsKnown
    <2> QED BY <2>2, MembershipIsKnown, PTL
<1> QED BY <1>1, <1>2

=============================================================================
