---------------------------- MODULE LinkLogNodes ----------------------------
(***************************************************************************)
(* The node table of LogSystem::LinkLogServer (LogSystem/linkLog): the     *)
(* nodes of one link, registered by their parents, created and closed by   *)
(* LinkLogger objects in any thread, and timed out by the server's thread. *)
(* Every operation below is one section under LinkLogServer::_mutex.       *)
(*                                                                         *)
(* A node and the timer that watches it share a bool on the heap,          *)
(* logger_timout: the first of the two to be done sets it, the second one  *)
(* deletes it, and the cell may then be allocated for another node.        *)
(* Expiry times are abstracted: a timer may expire at any time.  What the  *)
(* code does with a dangling or uninitialised iterator is undefined; the   *)
(* model records it in fault and stops there.                              *)
(***************************************************************************)
EXTENDS Integers, FiniteSets

CONSTANTS
    Id,       \* the node IDs of the link
    Heads,    \* those that are created as heads
    Kinds,    \* the kinds of child that are registered
    Flag,     \* bound: the heap cells for bools that are in use together
    Buffers,  \* the number of buffers, _buffers.size()
    None,     \* the iterator _nodes.end(), and a buf_iter not yet set
    Dangling, \* an iterator to an erased node
    Unique,   \* TRUE: users give an ID to one node only, as the README says
    Nested    \* TRUE: users keep a logger until its children are created or timed out

ASSUME LinkAssumption ==
    /\ IsFiniteSet(Id) /\ IsFiniteSet(Flag)
    /\ Heads \subseteq Id
    /\ Kinds \subseteq {"Fork", "Follow", "Decision", "RpcFork", "RpcFollow", "RpcDecision"}
    /\ None \notin Id \cup {Dangling} \cup (1 .. Buffers) /\ Dangling \notin Id
    /\ Buffers \in Nat \ {0}
    /\ Unique \in BOOLEAN /\ Nested \in BOOLEAN

LocalType == {"Fork", "Follow", "Decision"}
RpcType   == {"RpcFork", "RpcFollow", "RpcDecision"}

Buf == 1 .. Buffers

VARIABLES
    nodes,    \* _nodes: the NodeMessage of every ID in the table
    flag,     \* the shared bools
    timers,   \* _timers
    refs,     \* ref_count of every buffer
    loggers,  \* the IDs whose LinkLogger object is open
    late,     \* create_logger calls that found nothing and will create a head
    used,     \* history: the IDs given to a node, where they are given once
    fault     \* what undefined behaviour has happened

vars == <<nodes, flag, timers, refs, loggers, late, used, fault>>

Node == [type : LocalType \cup {"Head"},
         subtype : {"Invalid"} \cup LocalType \cup RpcType,
         created : BOOLEAN, decided : BOOLEAN,
         parent : Id \cup {None, Dangling}, flag : Flag, buf : Buf \cup {None}]

Timer == [id : Id, flag : Flag]

-----------------------------------------------------------------------------
Known(i) == i \in DOMAIN nodes

\* _nodes.erase: the parent_iter of the children it leaves behind dangles.
Erase(i) ==
    [j \in DOMAIN nodes \ {i} |->
        [nodes[j] EXCEPT !.parent = IF @ = i THEN Dangling ELSE @]]

\* What _nodes.try_emplace puts under a new ID
Emplaced(type, parent, created, f, b) ==
    [type |-> type, subtype |-> "Invalid", created |-> created, decided |-> FALSE,
     parent |-> parent, flag |-> f, buf |-> b]

\* The table with a message under a new ID.
Emplace(table, i, message) ==
    [j \in DOMAIN table \cup {i} |-> IF j = i THEN message ELSE table[j]]

\* NodeMessage::create and _timers.emplace
Watch(i, f) ==
    /\ flag[f] = "free"
    /\ timers' = timers \cup {[id |-> i, flag |-> f]}

MutDestroyAlways(v) == "free"

\* NodeMessage::destroy: what becomes of the bool.
Destroyed(v) == IF v = "set" THEN "free" ELSE "set"

\* get_buffer_iter: the first of the least used buffers.
LeastUsed(b) ==
    /\ \A c \in Buf : refs[b] <= refs[c]
    /\ \A c \in Buf : c < b => refs[b] < refs[c]

-----------------------------------------------------------------------------
\* create_head_logger, a new ID; a BranchHead differs from a Head in name only.
NewHead(i) ==
    /\ ~Known(i)
    /\ \E f \in Flag, b \in Buf :
          /\ Watch(i, f)
          /\ LeastUsed(b)
          /\ flag' = [flag EXCEPT ![f] = "clear"]
          /\ refs' = [refs EXCEPT ![b] = @ + 1]
          /\ nodes' = Emplace(nodes, i, Emplaced("Head", None, TRUE, f, b))
    /\ loggers' = loggers \cup {i}
    /\ UNCHANGED fault

\* create_head_logger, ConflictingNode: the error goes to the other node's buffer,
\* which a node that is only registered does not have.
HeadConflict(i) ==
    /\ Known(i)
    /\ fault' = IF nodes[i].created THEN fault ELSE fault \cup {"no buffer"}
    /\ UNCHANGED <<nodes, flag, timers, refs, loggers>>

CreateHeadLogger(i) ==
    /\ i \in Heads
    /\ Unique => i \notin used
    /\ NewHead(i) \/ HeadConflict(i)
    /\ used' = IF Unique THEN used \cup {i} ELSE used
    /\ UNCHANGED late

\* What register_logger does to the parent's subtype, also when it fails later.
Subtype(p, type) == IF nodes[p].subtype = "Invalid" THEN type ELSE nodes[p].subtype

\* The tests of register_logger: ExtraFollow, WrongType, ExtraDecision.
MayRegister(p, type) ==
    /\ nodes[p].subtype # "Follow"
    /\ Subtype(p, type) = type
    /\ type = "Decision" => ~nodes[p].decided

\* register_logger of a node of this server
RegisterNode(p, i, type) ==
    /\ MayRegister(p, type)
    /\ ~Known(i)
    /\ \E f \in Flag :
          /\ Watch(i, f)
          /\ flag' = [flag EXCEPT ![f] = "clear"]
          /\ nodes' = Emplace([nodes EXCEPT ![p].subtype = Subtype(p, type)],
                              i, Emplaced(type, p, FALSE, f, None))

\* Only the parent's subtype changes: a node of another server, ConflictingNode,
\* or nothing at all for the other errors.
RegisterElsewhere(p, i, type) ==
    /\ MayRegister(p, type) => type \in RpcType \/ Known(i)
    /\ nodes' = [nodes EXCEPT ![p].subtype = Subtype(p, type)]
    /\ UNCHANGED <<flag, timers>>

RegisterLogger(p, i, type) ==
    /\ p \in loggers
    /\ Unique => i \notin used
    /\ \/ type \in LocalType /\ RegisterNode(p, i, type)
       \/ RegisterElsewhere(p, i, type)
    /\ used' = IF Unique THEN used \cup {i} ELSE used
    /\ UNCHANGED <<refs, loggers, late, fault>>

\* complete_message: ++ref_count
Counted(b) == [refs EXCEPT ![b] = @ + 1]

\* create_logger of a registered node: it takes over its parent's buffer, gives
\* up the bool of its registration and gets a new one with a new timer.
CreateRegistered(i) ==
    LET node == nodes[i]
    IN  /\ Known(i) /\ ~node.created
        /\ node.parent # Dangling
        /\ LET p == node.parent
               b == nodes[p].buf
           IN  /\ \E f \in Flag :
                     /\ Watch(i, f)
                     /\ flag' = [flag EXCEPT ![f] = "clear",
                                             ![node.flag] = Destroyed(@)]
                     /\ nodes' = [nodes EXCEPT
                                    ![i].created = TRUE, ![i].buf = b, ![i].flag = f,
                                    ![p].decided = @ \/ node.type = "Decision"]
               /\ refs' = Counted(b)
        /\ loggers' = loggers \cup {i}
        /\ UNCHANGED <<late, fault>>

\* The parent has been closed: parent_iter dangles.
CreateOrphan(i) ==
    /\ Known(i) /\ ~nodes[i].created
    /\ nodes[i].parent = Dangling
    /\ fault' = fault \cup {"parent"}
    /\ UNCHANGED <<nodes, flag, timers, refs, loggers, late>>

MutNeverFound(i) ==
    /\ late' = late \cup {i}
    /\ UNCHANGED <<nodes, flag, timers, refs, loggers, fault>>

\* NotRegister: the error is written, then create_head_logger is called.
CreateUnknown(i) ==
    /\ ~Known(i)
    /\ late' = late \cup {i}
    /\ UNCHANGED <<nodes, flag, timers, refs, loggers, fault>>

\* create_logger; for a node that was created already it changes nothing.
CreateLogger(i) ==
    /\ Unique => i \in used \ (Heads \cup loggers \cup late)
    /\ CreateRegistered(i) \/ CreateOrphan(i) \/ CreateUnknown(i)
    /\ UNCHANGED used

CreateAsHead(i) ==
    /\ i \in late
    /\ NewHead(i) \/ HeadConflict(i)
    /\ late' = late \ {i}
    /\ UNCHANGED used

\* destroy_logger, called by the LinkLogger's close or destructor.
DestroyLogger(i) ==
    /\ i \in loggers
    /\ Nested => \A j \in DOMAIN nodes :
                    nodes[j].parent = i => nodes[j].created
    /\ refs' = [refs EXCEPT ![nodes[i].buf] = @ - 1]
    /\ flag' = [flag EXCEPT ![nodes[i].flag] = Destroyed(@)]
    /\ nodes' = Erase(i)
    /\ loggers' = loggers \ {i}
    /\ UNCHANGED <<timers, late, used, fault>>

MutReportOnly(t) ==
    /\ flag[t.flag] = "clear"
    /\ flag' = [flag EXCEPT ![t.flag] = "set"]
    /\ UNCHANGED nodes

\* check_timeout, one expired timer whose bool is still clear: the node is there.
\* A node that was never created is erased, one that was is only reported.
Expire(t) ==
    /\ flag[t.flag] = "clear"
    /\ IF nodes[t.id].created
       THEN nodes' = nodes /\ flag' = [flag EXCEPT ![t.flag] = "set"]
       ELSE nodes' = Erase(t.id) /\ flag' = [flag EXCEPT ![t.flag] = Destroyed("set")]

\* check_timeout, a timer whose node is gone.
Forget(t) ==
    /\ flag[t.flag] = "set"
    /\ flag' = [flag EXCEPT ![t.flag] = "free"]
    /\ UNCHANGED nodes

CheckTimeout(t) ==
    /\ Expire(t) \/ Forget(t)
    /\ timers' = timers \ {t}
    /\ UNCHANGED <<refs, loggers, late, used, fault>>

-----------------------------------------------------------------------------
Init ==
    /\ nodes = [i \in {} |-> None]
    /\ flag = [f \in Flag |-> "free"]
    /\ timers = {}
    /\ refs = [b \in Buf |-> 0]
    /\ loggers = {}
    /\ late = {}
    /\ used = {}
    /\ fault = {}

UserStep(i) ==
    \/ CreateHeadLogger(i)
    \/ \E p \in loggers, type \in Kinds : RegisterLogger(p, i, type)
    \/ CreateLogger(i)
    \/ CreateAsHead(i)
    \/ DestroyLogger(i)

Next == fault = {} /\ ((\E i \in Id : UserStep(i)) \/ \E t \in timers : CheckTimeout(t))

Spec == Init /\ [][Next]_vars

\* The server's thread calls check_timeout again and again, and calls return.
FairSpec ==
    /\ Spec
    /\ \A t \in Timer : WF_vars(t \in timers /\ CheckTimeout(t))
    /\ \A i \in Id : WF_vars(CreateAsHead(i))

-----------------------------------------------------------------------------
\* The two owners a bool may have.
NodeOwners(f) == {i \in DOMAIN nodes : nodes[i].flag = f}
TimerOwners(f) == {t \in timers : t.flag = f}

\* The bool that a node and its timer share is deleted once, by the last of them,
\* and never used afterwards: a clear one has both owners, for the same ID, a set
\* one has exactly one owner left, any other has none.  An open LinkLogger points at
\* a created node of the table: nothing but its own close erases it.  ref_count, by
\* which get_buffer_iter spreads the links, is the number of created nodes that
\* write to the buffer, although nodes are erased in two ways.  The children of a
\* node are of one kind, and a follower is an only child.
TableAgrees ==
    /\ \A f \in Flag :
          /\ flag[f] = "clear" =>
                \E i \in DOMAIN nodes :
                   NodeOwners(f) = {i} /\ TimerOwners(f) = {[id |-> i, flag |-> f]}
          /\ flag[f] = "set" =>
                \/ TimerOwners(f) = {} /\ \E i \in DOMAIN nodes : NodeOwners(f) = {i}
                \/ NodeOwners(f) = {} /\ \E t \in timers : TimerOwners(f) = {t}
          /\ flag[f] = "free" => NodeOwners(f) = {} /\ TimerOwners(f) = {}
    /\ loggers = {i \in DOMAIN nodes : nodes[i].created}
    /\ \A b \in Buf :
          refs[b] = Cardinality({i \in DOMAIN nodes : nodes[i].created /\ nodes[i].buf = b})
    /\ \A i, j \in DOMAIN nodes :
          nodes[i].parent = nodes[j].parent /\ nodes[i].parent \in Id =>
             /\ nodes[i].type = nodes[j].type
             /\ nodes[i].type = "Follow" => i = j

\* No operation follows a dangling iterator.
NoFault == fault = {}

\* A registered node is created, or reported and erased, in the end: IDs are
\* used once, so again and again none is left registered only.
RegisteredSettles ==
    []<>(fault # {} \/ \A i \in DOMAIN nodes : nodes[i].created)

=============================================================================
