-------------------------------- MODULE Raft --------------------------------
(***************************************************************************)
(* Leader election and membership of Dist::RaftInstance                    *)
(* (Distributed/raft): every instance runs one thread that receives one    *)
(* UDP datagram, or times out, and handles it under _mutex.  An action is  *)
(* one such iteration.                                                     *)
(*                                                                         *)
(* The network is the set of datagrams in flight.  UDP may lose (a         *)
(* datagram nobody ever receives), reorder, and duplicate them (types in   *)
(* DupTypes stay in the set after a delivery).  The RaftStateMachine is    *)
(* the application's: its two answers that steer the protocol,             *)
(* can_be_leader and need_synchronize_from, are choices from CanBeLeader   *)
(* and NeedSync.  Clocks are abstracted: a deadline may have passed in any *)
(* state; what puts a deadline off for ever is said where fairness is.     *)
(***************************************************************************)
EXTENDS VersionNumber, FiniteSets

CONSTANTS
    Node,          \* the addresses
    NoAddr,        \* InetAddress{}, the invalid address
    Founders,      \* started with each other as add_peer'ed peers
    Leavers,       \* instances whose owner calls exit_cluster
    Stoppers,      \* instances whose owner calls stop and start again
    MaxVersion,    \* bound: no election beyond this version
    MaxInFlight,   \* bound: datagrams in flight when a timer or a call adds to them
    DupTypes,      \* the message types the network may deliver twice
    CanBeLeader,   \* what RaftStateMachine::can_be_leader may answer
    NeedSync       \* what RaftStateMachine::need_synchronize_from may answer

\* The others add_peer the founders and call join_to_cluster.
Joiners == Node \ Founders

\* The i < 3 of join_to_cluster and exit_cluster.
Rounds == 3

RoleState == {"Leader", "Candidate", "Follower"}

Phase == {"idle", "joining", "ready", "running", "exiting", "exited", "halted"}

MessageType == {"LeaderCheck", "FollowerAck", "AskForVote", "Vote", "Request",
                "Online", "OnlineAck", "Offline", "OfflineAck"}

ASSUME NodeAssumption ==
    /\ IsFiniteSet(Node)
    /\ NoAddr \notin Node
    /\ Founders \subseteq Node
    /\ Leavers \subseteq Node
    /\ Stoppers \subseteq Node

ASSUME BoundAssumption ==
    /\ MaxVersion \in 1 .. Half
    /\ MaxInFlight \in Nat
    /\ DupTypes \subseteq MessageType
    /\ CanBeLeader \subseteq BOOLEAN
    /\ NeedSync \subseteq BOOLEAN

Message == [type : MessageType, src : Node, dst : Node,
            version : 0 .. MaxVersion, choose : BOOLEAN]

VARIABLES
    phase,      \* where the owner's calls have brought the instance
    state,      \* _state
    leader,     \* _leader
    version,    \* _transmitter.version
    votes,      \* votes
    peers,      \* the keys of _peers
    acked,      \* the peers whose _peers entry is 0: they confirmed
    confirm,    \* confirm_size of join_to_cluster and exit_cluster
    round,      \* i of the same loops
    result,     \* what join_to_cluster or exit_cluster returned last
    broken,     \* ghost: a debug assert of a handler was false
    granted,    \* ghost: <<voter, version, candidate>> of every vote given, and
                \* <<node, version, NoAddr>> of every candidate it refused
    net         \* the datagrams in flight

role == <<state, leader, version, votes>>
loop == <<phase, acked, confirm, round, result>>
vars == <<role, loop, peers, broken, granted, net>>

-----------------------------------------------------------------------------
(* RaftMessage and RaftTransmitter *)

Msg(t, n, d, v) ==
    [type |-> t, src |-> n, dst |-> d, version |-> v, choose |-> FALSE]

VoteMsg(n, d, v, c) ==
    [type |-> "Vote", src |-> n, dst |-> d, version |-> v, choose |-> c]

\* The same message to every address of a set.
ToAll(t, n, D, v) == {Msg(t, n, d, v) : d \in D}

MutReachingAll(M) == M

\* sendto with the invalid address fails.
Reaching(M) == {m \in M : m.dst \in Node}

\* The datagrams left once m has been received.
Taken(m) == IF m.type \in DupTypes THEN net ELSE net \ {m}

Receive(m, replies) == net' = Taken(m) \cup replies

\* What a timer or an owner's call sends; what would exceed the bound is lost.
Send(M) ==
    net' = IF Cardinality(net \cup M) <= MaxInFlight THEN net \cup M ELSE net

-----------------------------------------------------------------------------
(* Which handler a datagram reaches: leader_thread_loop,                   *)
(* candidate_thread_loop and follower_thread_loop.                         *)

Running(n, m) == m \in net /\ m.dst = n /\ phase[n] = "running"

Joining(n, m) == m \in net /\ m.dst = n /\ phase[n] = "joining"

Exiting(n, m) == m \in net /\ m.dst = n /\ phase[n] = "exiting"

FromLeader(n, m) == state[n] = "Follower" /\ leader[n] = m.src

MutNeverOutdated(n, m) == FALSE

\* check_outdated, which only the follower and the candidate call.
Outdated(n, m) ==
    /\ state[n] # "Leader"
    /\ Less(m.version, version[n])
    /\ m.type \notin {"Online", "Offline"}

\* The asserts on the sender that open the three handlers.
UnknownSender(n, m) ==
    /\ m.src \notin peers[n]
    /\ FromLeader(n, m) \/ m.type \notin {"Online", "Offline"}

\* _peers[_leader] = now inserts the leader if it is missing.
PeersSeen(n, m) ==
    IF FromLeader(n, m) THEN peers[n] \cup {m.src} ELSE peers[n]

\* What every running handler does with the sender before the switch.
SeeSender(n, m) ==
    /\ peers' = [peers EXCEPT ![n] = PeersSeen(n, m)]
    /\ broken' = [broken EXCEPT ![n] = @ \/ UnknownSender(n, m)]

\* Either a running instance that lets m through, or a joining one.
Handles(n, m) ==
    \/ Running(n, m) /\ ~Outdated(n, m) /\ SeeSender(n, m)
    \/ Joining(n, m) /\ UNCHANGED <<peers, broken>>

DropOutdated(n, m) ==
    /\ Running(n, m)
    /\ Outdated(n, m)
    /\ Receive(m, {})
    /\ UNCHANGED <<role, loop, peers, broken, granted>>

\* Types the handler only logs: error_type, FollowerAck, and Request, whose
\* ready_to_send_to is the application's.
Uninteresting(n, m) ==
    \/ m.type \in {"FollowerAck", "Request", "OnlineAck", "OfflineAck"}
    \/ FromLeader(n, m) /\ m.type \in {"Vote", "Online"}

IgnoreMessage(n, m) ==
    /\ Running(n, m)
    /\ ~Outdated(n, m)
    /\ Uninteresting(n, m)
    /\ SeeSender(n, m)
    /\ Receive(m, {})
    /\ UNCHANGED <<role, loop, granted>>

-----------------------------------------------------------------------------
(* Elections *)

\* The condition of assert_split_brain.
SplitBrain(n, m) ==
    \/ Less(m.version, version[n])
    \/ m.version = version[n] /\ state[n] = "Leader"

MutKeepVersion(n, v, a) ==
    /\ state' = [state EXCEPT ![n] = "Follower"]
    /\ leader' = [leader EXCEPT ![n] = a]
    /\ votes' = [votes EXCEPT ![n] = 0]
    /\ UNCHANGED version

\* change_leader_to, once assert_split_brain has passed.
ChangeLeaderTo(n, v, a) ==
    /\ state' = [state EXCEPT ![n] = "Follower"]
    /\ leader' = [leader EXCEPT ![n] = a]
    /\ version' = [version EXCEPT ![n] = v]
    /\ votes' = [votes EXCEPT ![n] = 0]

\* follower and candidate timeouts: vote_to_be_leader and become_candidate.
VoteToBeLeader(n) ==
    /\ phase[n] = "running"
    /\ state[n] # "Leader"
    /\ version[n] < MaxVersion
    /\ state' = [state EXCEPT ![n] = "Candidate"]
    /\ leader' = [leader EXCEPT ![n] = NoAddr]
    /\ version' = [version EXCEPT ![n] = Succ(@)]
    /\ votes' = [votes EXCEPT ![n] = 1]
    /\ Send(ToAll("AskForVote", n, peers[n], Succ(version[n])))
    /\ granted' = granted \cup {<<n, Succ(version[n]), n>>}
    /\ UNCHANGED <<loop, peers, broken>>

MutVoteNotNewer(n, m) == ~Less(m.version, version[n])

\* message.version > instance._transmitter.version
AskIsNewer(n, m) == Greater(m.version, version[n])

\* vote_to, the candidate is newer and acceptable.
GrantVote(n, m) ==
    /\ m.type = "AskForVote"
    /\ Handles(n, m)
    /\ AskIsNewer(n, m)
    /\ TRUE \in CanBeLeader
    /\ ChangeLeaderTo(n, m.version, m.src)
    /\ granted' = granted \cup {<<n, m.version, m.src>>}
    /\ Receive(m, {VoteMsg(n, m.src, m.version, TRUE)})
    /\ UNCHANGED loop

\* The timer test behind the handler in leader_thread_loop does not look at _state
\* again.  change_leader_to with no address leaves _last_flush_time alone: if the
\* heartbeat was due, the leader that was just deposed sends one more, in the
\* version it has taken over.
LastHeartbeat(n, v) ==
    IF phase[n] = "running" /\ state[n] = "Leader"
    THEN {{}, ToAll("LeaderCheck", n, peers[n], v)}
    ELSE {{}}

\* vote_to, the application refuses the candidate: the version is taken over and
\* the leader forgotten.  In handle_messages_from_leader the address is a
\* reference to _leader, so that refusal has no destination any more.
RefuseCandidate(n, m) ==
    /\ m.type = "AskForVote"
    /\ Handles(n, m)
    /\ AskIsNewer(n, m)
    /\ FALSE \in CanBeLeader
    /\ ChangeLeaderTo(n, m.version, NoAddr)
    /\ granted' = granted \cup {<<n, m.version, NoAddr>>}
    /\ LET to == IF phase[n] = "running" /\ FromLeader(n, m) THEN NoAddr ELSE m.src
       IN  \E late \in LastHeartbeat(n, m.version) :
               Receive(m, Reaching({VoteMsg(n, to, m.version, FALSE)}) \cup late)
    /\ UNCHANGED loop

\* vote_to, the candidate is not newer.
DenyVote(n, m) ==
    /\ m.type = "AskForVote"
    /\ Handles(n, m)
    /\ ~AskIsNewer(n, m)
    /\ Receive(m, {VoteMsg(n, m.src, version[n], FALSE)})
    /\ UNCHANGED <<role, loop, granted>>

Majority(n) == (Cardinality(peers[n]) + 1) \div 2 + 1

\* accept_vote and become_leader.
CountVote(n, m) ==
    IF votes[n] + 1 >= Majority(n)
    THEN /\ state' = [state EXCEPT ![n] = "Leader"]
         /\ leader' = [leader EXCEPT ![n] = NoAddr]
         /\ votes' = [votes EXCEPT ![n] = 0]
         /\ Receive(m, ToAll("LeaderCheck", n, peers[n], version[n]))
         /\ UNCHANGED version
    ELSE /\ votes' = [votes EXCEPT ![n] = @ + 1]
         /\ Receive(m, {})
         /\ UNCHANGED <<state, leader, version>>

AcceptVote(n, m) ==
    /\ m.type = "Vote"
    /\ Running(n, m)
    /\ ~Outdated(n, m)
    /\ ~FromLeader(n, m)
    /\ SeeSender(n, m)
    /\ IF state[n] = "Candidate" /\ m.choose
       THEN CountVote(n, m)
       ELSE Receive(m, {}) /\ UNCHANGED role
    /\ UNCHANGED <<loop, granted>>

-----------------------------------------------------------------------------
(* Heartbeats *)

\* handle_leader_timeout of an instance that leads.  It may directly follow the
\* handling of a datagram, under the same lock: nothing else of this instance can
\* come in between, so that the order of the two actions is that of the code.  The
\* heartbeat of one that has stopped to lead is in RefuseCandidate: the other ways
\* to do so set _last_flush_time.
LeaderTimeout(n) ==
    /\ phase[n] = "running"
    /\ state[n] = "Leader"
    /\ Send(ToAll("LeaderCheck", n, peers[n], version[n]))
    /\ UNCHANGED <<role, loop, peers, broken, granted>>

\* respond_leader_check
LeaderCheckReply(n, m) ==
    \E sync \in NeedSync :
        Receive(m, {Msg(IF sync THEN "Request" ELSE "FollowerAck",
                        n, m.src, m.version)})

\* LeaderCheck from the leader that is followed already.
LeaderCheckFromLeader(n, m) ==
    /\ m.type = "LeaderCheck"
    /\ Running(n, m)
    /\ ~Outdated(n, m)
    /\ FromLeader(n, m)
    /\ SeeSender(n, m)
    /\ version' = [version EXCEPT ![n] = m.version]
    /\ LeaderCheckReply(n, m)
    /\ UNCHANGED <<state, leader, votes, loop, granted>>

MutReclaimAlways(n, m) == phase[n] = "running" /\ state[n] = "Leader"

\* The first test of handle_messages_from_follower's LeaderCheck case; && asks
\* can_be_leader only about an older leader.
OlderLeader(n, m) ==
    phase[n] = "running" /\ state[n] = "Leader" /\ Less(m.version, version[n])

\* A leader that hears an older one tells it who leads.
RefuteOldLeader(n, m) ==
    /\ m.type = "LeaderCheck"
    /\ Running(n, m)
    /\ OlderLeader(n, m)
    /\ TRUE \in CanBeLeader
    /\ SeeSender(n, m)
    /\ Receive(m, {Msg("LeaderCheck", n, m.src, version[n])})
    /\ UNCHANGED <<role, loop, granted>>

\* The LeaderCheck reaches change_leader_to.
MayFollow(n, m) ==
    /\ m.type = "LeaderCheck"
    /\ Handles(n, m)
    /\ phase[n] = "running" => ~FromLeader(n, m)
    /\ OlderLeader(n, m) => FALSE \in CanBeLeader

FollowNewLeader(n, m) ==
    /\ MayFollow(n, m)
    /\ ~SplitBrain(n, m)
    /\ ChangeLeaderTo(n, m.version, m.src)
    /\ LeaderCheckReply(n, m)
    /\ UNCHANGED <<loop, granted>>

\* assert_split_brain ends the process.
SplitBrainExit(n, m) ==
    /\ MayFollow(n, m)
    /\ SplitBrain(n, m)
    /\ phase' = [phase EXCEPT ![n] = "halted"]
    /\ Receive(m, {})
    /\ UNCHANGED <<role, acked, confirm, round, result, granted>>

-----------------------------------------------------------------------------
(* Membership *)

\* new_one_online: the leader answers with a heartbeat instead of an OnlineAck.
OnlineReply(n, d) ==
    Msg(IF state[n] = "Leader" THEN "LeaderCheck" ELSE "OnlineAck",
        n, d, version[n])

MutAckOnly(n, a) == UNCHANGED <<peers, acked>>

\* try_emplace: a new entry is not 0, an old one is left alone.
AddPeer(n, a) ==
    /\ peers' = [peers EXCEPT ![n] = @ \cup {a}]
    /\ UNCHANGED acked

\* peer_offline without its answer.
ErasePeer(n, a) ==
    /\ peers' = [peers EXCEPT ![n] = @ \ {a}]
    /\ acked' = [acked EXCEPT ![n] = @ \ {a}]
    /\ leader' = [leader EXCEPT ![n] = IF @ = a THEN NoAddr ELSE @]

NewOneOnline(n, m) ==
    /\ m.type = "Online"
    /\ Running(n, m)
    /\ ~FromLeader(n, m)
    /\ AddPeer(n, m.src)
    /\ Receive(m, {OnlineReply(n, m.src)})
    /\ UNCHANGED <<role, phase, confirm, round, result, broken, granted>>

PeerOffline(n, m) ==
    /\ m.type = "Offline"
    /\ Running(n, m)
    /\ ErasePeer(n, m.src)
    /\ broken' = [broken EXCEPT ![n] = @ \/ UnknownSender(n, m)]
    /\ Receive(m, {Msg("OfflineAck", n, m.src, version[n])})
    /\ UNCHANGED <<state, version, votes, phase, confirm, round, result, granted>>

-----------------------------------------------------------------------------
(* The owner's calls *)

MutStartForgets(n) ==
    /\ phase[n] = "ready"
    /\ phase' = [phase EXCEPT ![n] = "running"]
    /\ state' = [state EXCEPT ![n] = "Follower"]
    /\ version' = [version EXCEPT ![n] = 0]
    /\ UNCHANGED <<leader, votes, acked, confirm, round, result,
                   peers, broken, granted, net>>

\* start: the thread begins as a follower, everything else is kept.
Start(n) ==
    /\ phase[n] = "ready"
    /\ phase' = [phase EXCEPT ![n] = "running"]
    /\ state' = [state EXCEPT ![n] = "Follower"]
    /\ UNCHANGED <<leader, version, votes, acked, confirm, round, result,
                   peers, broken, granted, net>>

\* stop
Stop(n) ==
    /\ n \in Stoppers
    /\ phase[n] = "running"
    /\ phase' = [phase EXCEPT ![n] = "ready"]
    /\ UNCHANGED <<role, acked, confirm, round, result, peers, broken, granted, net>>

\* synchronize_logs_to_followers, from the owner's thread under _mutex;
\* update_log is the application's.
SynchronizeLogsToFollowers(n) ==
    /\ phase[n] = "running"
    /\ state[n] = "Leader"
    /\ Send(ToAll("LeaderCheck", n, peers[n], version[n]))
    /\ UNCHANGED <<role, loop, peers, broken, granted>>

\* The message type and the phases of the two loops.
Announces == [joining |-> "Online", exiting |-> "Offline"]
Ends      == [joining |-> "ready", exiting |-> "exited"]

\* The head of the for loop, or the end of it with end_status_check: P and A are
\* the peers and the confirmed ones, c is confirm_size.
LoopHead(n, ph, i, P, A, c) ==
    IF i < Rounds /\ c < Cardinality(P)
    THEN /\ phase' = [phase EXCEPT ![n] = ph]
         /\ round' = [round EXCEPT ![n] = i]
         /\ acked' = [acked EXCEPT ![n] = A]
         /\ UNCHANGED result
    ELSE /\ phase' = [phase EXCEPT ![n] = Ends[ph]]
         /\ round' = [round EXCEPT ![n] = 0]
         /\ acked' = [acked EXCEPT ![n] = {}]
         /\ result' = [result EXCEPT ![n] = IF A = P THEN "ok" ELSE "failed"]

\* The announcements of the loop's next iteration, if there is one.
Announce(n, ph, i, P, A, c) ==
    IF i < Rounds /\ c < Cardinality(P)
    THEN ToAll(Announces[ph], n, P \ A, version[n]) ELSE {}

EnterLoop(n, ph) ==
    /\ LoopHead(n, ph, 0, peers[n], {}, 0)
    /\ confirm' = [confirm EXCEPT ![n] = 0]
    /\ Send(Announce(n, ph, 0, peers[n], {}, 0))
    /\ UNCHANGED <<role, peers, broken, granted>>

\* join_to_cluster
JoinToCluster(n) == phase[n] = "idle" /\ EnterLoop(n, "joining")

\* exit_cluster, which first stops the thread
ExitCluster(n) ==
    /\ n \in Leavers
    /\ phase[n] \in {"running", "ready"}
    /\ EnterLoop(n, "exiting")

MutTimeoutKeepsRound(n) ==
    LET ph == phase[n]
    IN  /\ ph \in {"joining", "exiting"}
        /\ LoopHead(n, ph, round[n], peers[n], acked[n], confirm[n])
        /\ Send(Announce(n, ph, round[n], peers[n], acked[n], confirm[n]))
        /\ UNCHANGED <<role, confirm, peers, broken, granted>>

\* ONLINE_WAIT_TIMEOUT or OFFLINE_WAIT_TIMEOUT has passed since _last_flush_time,
\* which the loop sets, and change_leader_to too (see PutsOff).
LoopTimeout(n) ==
    LET ph == phase[n]
    IN  /\ ph \in {"joining", "exiting"}
        /\ LoopHead(n, ph, round[n] + 1, peers[n], acked[n], confirm[n])
        /\ Send(Announce(n, ph, round[n] + 1, peers[n], acked[n], confirm[n]))
        /\ UNCHANGED <<role, confirm, peers, broken, granted>>

\* accept_online_ack and accept_offline_ack
NewlyConfirmed(n, m) == m.src \in peers[n] /\ m.src \notin acked[n]

\* OnlineAck while joining, OfflineAck while exiting.
Confirmed(n, m) ==
    /\ \/ Joining(n, m) /\ m.type = "OnlineAck"
       \/ Exiting(n, m) /\ m.type = "OfflineAck"
    /\ IF NewlyConfirmed(n, m)
       THEN LET c == confirm[n] + 1
                A == acked[n] \cup {m.src}
            IN  /\ confirm' = [confirm EXCEPT ![n] = c]
                /\ LoopHead(n, phase[n],
                            IF c < Cardinality(peers[n]) THEN round[n] ELSE Rounds,
                            peers[n], A, c)
       ELSE UNCHANGED loop
    /\ Receive(m, {})
    /\ UNCHANGED <<role, peers, broken, granted>>

\* Online while joining or exiting: the newcomer is answered and told of this one.
OnlineInLoop(n, m) ==
    /\ Joining(n, m) \/ Exiting(n, m)
    /\ m.type = "Online"
    /\ AddPeer(n, m.src)
    /\ Receive(m, {OnlineReply(n, m.src),
                   Msg(Announces[phase[n]], n, m.src, version[n])})
    /\ UNCHANGED <<role, phase, confirm, round, result, broken, granted>>

\* Offline while joining or exiting; the loop may end because a peer is gone.
OfflineInLoop(n, m) ==
    /\ Joining(n, m) \/ Exiting(n, m)
    /\ m.type = "Offline"
    /\ LET P == peers[n] \ {m.src}
       IN  /\ peers' = [peers EXCEPT ![n] = P]
           /\ LoopHead(n, phase[n],
                       IF confirm[n] < Cardinality(P) THEN round[n] ELSE Rounds,
                       P, acked[n] \ {m.src}, confirm[n])
    /\ leader' = [leader EXCEPT ![n] = IF @ = m.src THEN NoAddr ELSE @]
    /\ Receive(m, {Msg("OfflineAck", n, m.src, version[n]),
                   Msg(Announces[phase[n]], n, m.src, version[n])})
    /\ UNCHANGED <<state, version, votes, confirm, broken, granted>>

\* Everything else is logged by error_type and dropped.
IgnoreInLoop(n, m) ==
    /\ \/ /\ Joining(n, m)
          /\ m.type \in {"FollowerAck", "Request", "Vote", "OfflineAck"}
       \/ /\ Exiting(n, m)
          /\ m.type \notin {"OfflineAck", "Online", "Offline"}
    /\ Receive(m, {})
    /\ UNCHANGED <<role, loop, peers, broken, granted>>

-----------------------------------------------------------------------------
InitialPeers(n) == Founders \ {n}

Init ==
    /\ phase = [n \in Node |-> IF n \in Founders THEN "ready" ELSE "idle"]
    /\ state = [n \in Node |-> "Follower"]
    /\ leader = [n \in Node |-> NoAddr]
    /\ version = [n \in Node |-> 0]
    /\ votes = [n \in Node |-> 0]
    /\ peers = [n \in Node |-> InitialPeers(n)]
    /\ acked = [n \in Node |-> {}]
    /\ confirm = [n \in Node |-> 0]
    /\ round = [n \in Node |-> 0]
    /\ result = [n \in Node |-> "none"]
    /\ broken = [n \in Node |-> FALSE]
    /\ granted = {}
    /\ net = {}

\* One iteration of the thread's loop that handles the datagram m.
HandleMessage(n, m) ==
    \/ DropOutdated(n, m)
    \/ IgnoreMessage(n, m)
    \/ GrantVote(n, m)
    \/ RefuseCandidate(n, m)
    \/ DenyVote(n, m)
    \/ AcceptVote(n, m)
    \/ LeaderCheckFromLeader(n, m)
    \/ RefuteOldLeader(n, m)
    \/ FollowNewLeader(n, m)
    \/ SplitBrainExit(n, m)
    \/ NewOneOnline(n, m)
    \/ PeerOffline(n, m)
    \/ Confirmed(n, m)
    \/ OnlineInLoop(n, m)
    \/ OfflineInLoop(n, m)
    \/ IgnoreInLoop(n, m)

OwnStep(n) ==
    \/ VoteToBeLeader(n)
    \/ LeaderTimeout(n)
    \/ SynchronizeLogsToFollowers(n)
    \/ Start(n)
    \/ Stop(n)
    \/ JoinToCluster(n)
    \/ ExitCluster(n)
    \/ LoopTimeout(n)

Next == \E n \in Node : OwnStep(n) \/ \E m \in net : HandleMessage(n, m)

Spec == Init /\ [][Next]_vars

-----------------------------------------------------------------------------
(* Properties *)

\* Every variable keeps the type of the member it models.
TypeOK ==
    /\ phase \in [Node -> Phase]
    /\ state \in [Node -> RoleState]
    /\ leader \in [Node -> Node \cup {NoAddr}]
    /\ version \in [Node -> 0 .. MaxVersion]
    /\ votes \in [Node -> Nat]
    /\ peers \in [Node -> SUBSET Node]
    /\ acked \in [Node -> SUBSET Node]
    /\ confirm \in [Node -> Nat]
    /\ round \in [Node -> 0 .. Rounds]
    /\ result \in [Node -> {"none", "ok", "failed"}]
    /\ broken \in [Node -> BOOLEAN]
    /\ granted \subseteq Node \X (0 .. MaxVersion) \X (Node \cup {NoAddr})
    /\ net \subseteq Message

\* A node that leads, or has led and still has a heartbeat on its way: a heartbeat
\* in a version that its sender refused is the late one of a deposed leader.
LeadsAt(n, v) ==
    \/ state[n] = "Leader" /\ version[n] = v
    \/ /\ \E m \in net : m.type = "LeaderCheck" /\ m.src = n /\ m.version = v
       /\ <<n, v, NoAddr>> \notin granted

\* Election safety: vote_to and accept_vote never let two instances lead in the
\* same version, not even one after the other, whatever the network reorders or
\* loses; and a heartbeat comes from the one that leads in its version, or from a
\* leader that has just refused that version's candidate.  This is what
\* assert_split_brain (RaftAgent.cpp:372) relies on.
ElectionSafety ==
    \A a, b \in Node, v \in 0 .. MaxVersion :
        LeadsAt(a, v) /\ LeadsAt(b, v) => a = b

\* vote_to and become_candidate decide at most once per version, for one candidate
\* or against it: the version is the only memory of having decided.
VoteOnce ==
    \A g, h \in granted : g[1] = h[1] /\ g[2] = h[2] => g[3] = h[3]

Granters(c, v) == {n \in Node : <<n, v, c>> \in granted}

\* votes is a bare counter: accept_vote never looks at who has voted already, nor
\* at which candidacy a vote was for.  It counts no more instances than have
\* voted for this candidacy, and whoever leads was voted for by a majority.
VotesAreGrants ==
    \A c \in Node :
        LET G == Granters(c, version[c])
        IN  /\ state[c] = "Candidate" => votes[c] <= Cardinality(G)
            /\ state[c] = "Leader" => 2 * Cardinality(G) > Cardinality(Node)

\* A true result of join_to_cluster means what its name says: every instance in
\* the newcomer's _peers has the newcomer in its own.
NewcomersKnown ==
    \A n \in Joiners :
        phase[n] = "ready" /\ result[n] = "ok" => \A p \in peers[n] : n \in peers[p]

\* The asserts on the sender that open the handlers (RaftAgent.cpp:29, 71, 107) hold
\* until an instance fails to join, or leaves: one that is not in a peer's table yet
\* sends to it only Online.
SendersAsserted ==
    (\E n \in Node : broken[n]) =>
        \E p \in Node : result[p] = "failed" \/ phase[p] \in {"exiting", "exited"}

\* Unless the application refuses somebody, no instance takes emergency_exit in
\* assert_split_brain (RaftAgent.cpp:380), except while it joins, when it votes but
\* drops nothing that is outdated.
NobodyHalts ==
    CanBeLeader = {TRUE} =>
        \A n \in Node : phase[n] = "halted" => n \in Joiners /\ result[n] = "none"

\* Membership: what _peers promises to newcomers, to the handlers' asserts and to
\* assert_split_brain.
JoinedIsKnown == NewcomersKnown /\ SendersAsserted /\ NobodyHalts

\* change_leader_to and respond_leader_check copy a version out of a datagram,
\* old or new, and the thread takes its role from it.  No step takes a version
\* back, leadership comes only out of a candidacy in the same version, and a
\* leader gives it up only to a newer version or because its owner restarts it.
RoleSteps ==
    [][\A n \in Node :
          /\ version'[n] >= version[n]
          /\ state[n] # "Leader" /\ state'[n] = "Leader" =>
                state[n] = "Candidate" /\ version'[n] = version[n]
          /\ state[n] = "Leader" /\ state'[n] # "Leader" =>
                version'[n] > version[n] \/ phase[n] = "ready"]_vars

\* change_leader_to with a valid address sets _last_flush_time, the beginning of
\* the time that the loop of join_to_cluster measures.
PutsOff(n) ==
    /\ phase[n] = "joining"
    /\ \E m \in net : FollowNewLeader(n, m) \/ GrantVote(n, m)

\* Fairness for the liveness properties: the leader's heartbeat timer, the
\* delivery of the heartbeats, and the timers of join and exit.  The timer of
\* join fires unless datagrams put it off again and again.
HeartbeatArrives(n, l) ==
    \E m \in net : m.type = "LeaderCheck" /\ m.src = l /\ HandleMessage(n, m)

Fairness ==
    /\ \A n \in Node :
          /\ WF_vars(LeaderTimeout(n))
          /\ WF_vars(phase[n] = "exiting" /\ LoopTimeout(n))
          /\ \A l \in Node : WF_vars(HeartbeatArrives(n, l))
    /\ \A n \in Joiners :
          []<><<PutsOff(n)>>_vars \/ WF_vars(phase[n] = "joining" /\ LoopTimeout(n))

FairSpec == Spec /\ Fairness

\* Two leaders of different versions do not lead side by side for ever: the
\* heartbeat of the newer one deposes the older one, which in turn cannot be
\* kept up by its own heartbeats.
OldLeaderYields ==
    \A a \in Node : \A b \in Node \ {a} :
        (/\ phase[a] = "running" /\ state[a] = "Leader"
         /\ phase[b] = "running" /\ state[b] = "Leader"
         /\ version[a] < version[b])
        ~> ~(/\ state[a] = "Leader" /\ phase[a] = "running"
             /\ state[b] = "Leader" /\ phase[b] = "running"
             /\ version[a] < version[b])

\* exit_cluster returns although newcomers may keep adding peers to wait for, and
\* so does join_to_cluster unless a leader's heartbeats or candidates' requests
\* reach it for ever: each of them makes its loop (RaftInstance.cpp:77) begin to
\* wait anew, and a leader never sends the OnlineAck that would end it.
LoopsEnd ==
    /\ \A n \in Node : phase[n] = "exiting" ~> phase[n] # "exiting"
    /\ \A n \in Joiners :
          []<><<PutsOff(n)>>_vars \/ (phase[n] = "joining" ~> phase[n] # "joining")

=============================================================================
