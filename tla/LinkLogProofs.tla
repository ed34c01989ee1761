---------------------------- MODULE LinkLogProofs ----------------------------
(***************************************************************************)
(* Proofs about the parts of the log servers, for any constants.           *)
(*   LinkLogNodes, the node table: TableAgrees whatever the users do,      *)
(*   NoFault for users who give each ID to one node and keep a logger      *)
(*   until its children are created or timed out.                          *)
(*   ScheduledLog, the scheduled thread and its logs: RecordsKept.         *)
(*   LinkBuffers, the way of a record: StreamWhole and RecordsFiled.       *)
(***************************************************************************)
EXTENDS LinkLogNodes, LinkBuffers, ScheduledLog, FiniteSetTheorems, TLAPS

TableTyped ==
    /\ DOMAIN nodes \subseteq Id
    /\ nodes \in [DOMAIN nodes -> Node]
    /\ flag \in [Flag -> {"free", "clear", "set"}]
    /\ timers \subseteq Timer
    /\ refs \in [Buf -> Int]
    /\ loggers = {i \in DOMAIN nodes : nodes[i].created}
    /\ \A i \in DOMAIN nodes : nodes[i].created => nodes[i].buf \in Buf

\* Who shares which bool, one owner at a time: no cell that is free is owned, no
\* cell has two nodes or two timers, a clear one has a node and its timer, a set
\* one a node or a timer, and never both.
FlagsShared ==
    /\ \A i \in DOMAIN nodes : flag[nodes[i].flag] # "free"
    /\ \A t \in timers : flag[t.flag] # "free"
    /\ \A i, j \in DOMAIN nodes : nodes[i].flag = nodes[j].flag => i = j
    /\ \A t, u \in timers : t.flag = u.flag => t = u
    /\ \A f \in Flag : flag[f] = "clear" =>
          \E i \in DOMAIN nodes : nodes[i].flag = f /\ [id |-> i, flag |-> f] \in timers
    /\ \A f \in Flag : flag[f] = "set" =>
          (\E i \in DOMAIN nodes : nodes[i].flag = f) \/ (\E t \in timers : t.flag = f)
    /\ \A i \in DOMAIN nodes, t \in timers : nodes[i].flag = t.flag => flag[t.flag] = "clear"

\* A parent_iter that does not dangle leads to a created node, whose subtype is
\* the kind of all its children; only heads have no parent.
Family ==
    /\ \A i \in DOMAIN nodes : nodes[i].parent \in Id =>
          /\ nodes[i].parent \in DOMAIN nodes
          /\ nodes[nodes[i].parent].created
          /\ nodes[nodes[i].parent].subtype = nodes[i].type
          /\ nodes[i].type \in LocalType
    /\ \A i, j \in DOMAIN nodes :
          nodes[i].parent = nodes[j].parent /\ nodes[i].parent \in Id /\ nodes[i].type = "Follow"
             => i = j
    /\ \A i \in DOMAIN nodes : ~nodes[i].created => nodes[i].parent # None

\* The created nodes that write to a buffer
Writers(b) == {i \in DOMAIN nodes : nodes[i].created /\ nodes[i].buf = b}

Counts == \A b \in Buf : refs[b] = Cardinality(Writers(b))

TableInv == TableTyped /\ FlagsShared /\ Family /\ Counts

-----------------------------------------------------------------------------
\* One writer more or less changes the number of writers by one.
LEMMA CountsChange ==
    ASSUME NEW S, S \subseteq Id, NEW i
    PROVE  /\ Cardinality(S) \in Nat
           /\ i \notin S => Cardinality(S \cup {i}) = Cardinality(S) + 1
           /\ i \in S => Cardinality(S \ {i}) = Cardinality(S) - 1
<1>1. IsFiniteSet(S)
  BY LinkAssumption, FS_Subset
<1> QED BY <1>1, FS_CardinalityType, FS_AddElement, FS_RemoveElement

\* The fields of the records in the table and among the timers.
LEMMA FieldsTyped ==
    ASSUME TableTyped
    PROVE  /\ \A i \in DOMAIN nodes : nodes[i].flag \in Flag
           /\ \A t \in timers : t.flag \in Flag /\ t.id \in Id
BY DEF TableTyped, Node, Timer

\* What _nodes.erase leaves: the other nodes, with parent_iters that may dangle.
LEMMA Erased ==
    ASSUME TableTyped, NEW i \in Id, nodes' = Erase(i)
    PROVE  /\ nodes' \in [DOMAIN nodes \ {i} -> Node]
           /\ \A j \in DOMAIN nodes \ {i} :
                 /\ nodes'[j].created = nodes[j].created
                 /\ nodes'[j].buf = nodes[j].buf
                 /\ nodes'[j].flag = nodes[j].flag
                 /\ nodes'[j].type = nodes[j].type
                 /\ nodes'[j].subtype = nodes[j].subtype
                 /\ nodes'[j].parent = IF nodes[j].parent = i THEN Dangling ELSE nodes[j].parent
BY DEF TableTyped, Erase, Node

\* Other fields of a node have no part in this.
LEMMA FlagsKept ==
    ASSUME FlagsShared, DOMAIN nodes' = DOMAIN nodes,
           \A j \in DOMAIN nodes : nodes'[j].flag = nodes[j].flag,
           UNCHANGED <<flag, timers>>
    PROVE  FlagsShared'
<1>1. /\ \A i \in DOMAIN nodes' : flag'[nodes'[i].flag] # "free"
      /\ \A i, j \in DOMAIN nodes' : nodes'[i].flag = nodes'[j].flag => i = j
      /\ \A i \in DOMAIN nodes', t \in timers' : nodes'[i].flag = t.flag => flag'[t.flag] = "clear"
  BY DEF FlagsShared
<1>2. \A f \in Flag : flag'[f] = "clear" =>
          \E i \in DOMAIN nodes' : nodes'[i].flag = f /\ [id |-> i, flag |-> f] \in timers'
  BY DEF FlagsShared
<1>3. \A f \in Flag : flag'[f] = "set" =>
          (\E i \in DOMAIN nodes' : nodes'[i].flag = f) \/ (\E t \in timers' : t.flag = f)
  BY DEF FlagsShared
<1> QED BY <1>1, <1>2, <1>3 DEF FlagsShared

\* A node comes into the table, with a bool and a timer of its own.
LEMMA FlagsOfNew ==
    ASSUME TableTyped, FlagsShared, NEW i \in Id, NEW f \in Flag,
           i \notin DOMAIN nodes,
           DOMAIN nodes' = DOMAIN nodes \cup {i},
           \A j \in DOMAIN nodes : nodes'[j].flag = nodes[j].flag,
           nodes'[i].flag = f,
           flag[f] = "free",
           flag' = [flag EXCEPT ![f] = "clear"],
           timers' = timers \cup {[id |-> i, flag |-> f]}
    PROVE  FlagsShared'
<1> DEFINE t0 == [id |-> i, flag |-> f]
<1>0. /\ flag \in [Flag -> {"free", "clear", "set"}]
      /\ \A j \in DOMAIN nodes : nodes[j].flag \in Flag /\ nodes[j].flag # f
      /\ \A t \in timers : t.flag \in Flag /\ t.flag # f
      /\ t0.flag = f
  BY FieldsTyped DEF TableTyped, FlagsShared
<1>1. [id |-> i, flag |-> f] \in timers'
  OBVIOUS
<1>2. timers' = timers \cup {t0}
  OBVIOUS
<1> HIDE DEF t0
<1>3. \A g \in Flag : flag'[g] = "clear" =>
          \E j \in DOMAIN nodes' : nodes'[j].flag = g /\ [id |-> j, flag |-> g] \in timers'
  <2> SUFFICES ASSUME NEW g \in Flag, flag'[g] = "clear"
               PROVE  \E j \in DOMAIN nodes' : nodes'[j].flag = g /\ [id |-> j, flag |-> g] \in timers'
    OBVIOUS
  <2>1. CASE g = f
    BY <1>1, <2>1
  <2>2. CASE g # f
    <3>1. PICK j \in DOMAIN nodes : nodes[j].flag = g /\ [id |-> j, flag |-> g] \in timers
      BY <1>0, <2>2 DEF FlagsShared
    <3> QED BY <3>1
  <2> QED BY <2>1, <2>2
<1>4. \A g \in Flag : flag'[g] = "set" =>
          (\E j \in DOMAIN nodes' : nodes'[j].flag = g) \/ (\E t \in timers' : t.flag = g)
  BY <1>0 DEF FlagsShared
<1>5. /\ \A j \in DOMAIN nodes' : flag'[nodes'[j].flag] # "free"
      /\ \A j, k \in DOMAIN nodes' : nodes'[j].flag = nodes'[k].flag => j = k
  BY <1>0 DEF FlagsShared
<1>6. /\ \A t \in timers' : flag'[t.flag] # "free"
      /\ \A t, u \in timers' : t.flag = u.flag => t = u
  BY <1>0, <1>2 DEF FlagsShared
<1>7. \A j \in DOMAIN nodes', t \in timers' : nodes'[j].flag = t.flag => flag'[t.flag] = "clear"
  BY <1>0, <1>2 DEF FlagsShared
<1> QED BY <1>3, <1>4, <1>5, <1>6, <1>7 DEF FlagsShared

\* create_head_logger with a new ID.
LEMMA NewHeadKeeps ==
    ASSUME TableInv, NEW i \in Id, NewHead(i)
    PROVE  TableInv'
<1>0. PICK f \in Flag, b \in Buf :
              /\ Watch(i, f)
              /\ flag' = [flag EXCEPT ![f] = "clear"]
              /\ refs' = [refs EXCEPT ![b] = @ + 1]
              /\ nodes' = Emplace(nodes, i, Emplaced("Head", None, TRUE, f, b))
  BY DEF NewHead
<1>1. /\ nodes' \in [DOMAIN nodes \cup {i} -> Node]
      /\ i \notin DOMAIN nodes
      /\ \A j \in DOMAIN nodes : nodes'[j] = nodes[j]
      /\ nodes'[i].created /\ nodes'[i].buf = b /\ nodes'[i].flag = f
      /\ nodes'[i].type = "Head" /\ nodes'[i].parent = None
      /\ loggers' = loggers \cup {i}
  <2>1. Emplaced("Head", None, TRUE, f, b) \in Node
    BY DEF Emplaced, Node
  <2>2. nodes' = [j \in DOMAIN nodes \cup {i} |-> IF j = i THEN Emplaced("Head", None, TRUE, f, b) ELSE nodes[j]]
    BY <1>0 DEF Emplace
  <2>3. i \notin DOMAIN nodes /\ loggers' = loggers \cup {i}
    BY DEF NewHead, Known
  <2> QED BY <2>1, <2>2, <2>3 DEF TableInv, TableTyped, Emplaced
<1>2. TableTyped'
  <2>1. timers' \subseteq Timer
    BY <1>0 DEF TableInv, TableTyped, Watch, Timer
  <2>2. flag' \in [Flag -> {"free", "clear", "set"}] /\ refs' \in [Buf -> Int]
    BY <1>0 DEF TableInv, TableTyped
  <2> QED BY <1>1, <2>1, <2>2 DEF TableInv, TableTyped
<1>3. FlagsShared'
  BY <1>0, <1>1, FlagsOfNew DEF TableInv, Watch
<1>4. Family'
  BY <1>1, LinkAssumption DEF TableInv, Family, TableTyped
<1>5. Counts'
  <2>1. Writers(b)' = Writers(b) \cup {i} /\ i \notin Writers(b)
    BY <1>1 DEF Writers
  <2>2. \A c \in Buf : c # b => Writers(c)' = Writers(c)
    BY <1>1 DEF Writers
  <2>3. Writers(b) \subseteq Id
    BY DEF Writers, TableInv, TableTyped
  <2> QED BY <1>0, <2>1, <2>2, <2>3, CountsChange DEF TableInv, Counts, TableTyped
<1> QED BY <1>2, <1>3, <1>4, <1>5 DEF TableInv

\* The table once register_logger has set the parent's subtype
Marked(p, type) == [nodes EXCEPT ![p].subtype = Subtype(p, type)]

\* What register_logger does to the parent changes its subtype only, and that
\* only while the parent has no children.
LEMMA SubtypeSet ==
    ASSUME TableTyped, NEW p \in DOMAIN nodes, NEW type \in LocalType \cup RpcType
    PROVE  /\ Marked(p, type) \in [DOMAIN nodes -> Node]
           /\ \A j \in DOMAIN nodes :
                 /\ Marked(p, type)[j].created = nodes[j].created
                 /\ Marked(p, type)[j].buf = nodes[j].buf
                 /\ Marked(p, type)[j].flag = nodes[j].flag
                 /\ Marked(p, type)[j].type = nodes[j].type
                 /\ Marked(p, type)[j].parent = nodes[j].parent
                 /\ Marked(p, type)[j].subtype = IF j = p THEN Subtype(p, type) ELSE nodes[j].subtype
<1>1. Subtype(p, type) \in {"Invalid"} \cup LocalType \cup RpcType
  BY DEF Subtype, TableTyped, Node
<1> QED BY <1>1 DEF TableTyped, Node, Marked

\* register_logger of a node of another server, or one that fails.
LEMMA RegisterElsewhereKeeps ==
    ASSUME TableInv, NEW p \in loggers, NEW i \in Id, NEW type \in Kinds,
           RegisterElsewhere(p, i, type), UNCHANGED <<refs, loggers>>
    PROVE  TableInv'
<1>0. type \in LocalType \cup RpcType /\ p \in DOMAIN nodes
  BY LinkAssumption DEF TableInv, TableTyped, LocalType, RpcType
<1>1. /\ nodes' \in [DOMAIN nodes -> Node]
      /\ \A j \in DOMAIN nodes :
                 /\ nodes'[j].created = nodes[j].created
                 /\ nodes'[j].buf = nodes[j].buf
                 /\ nodes'[j].flag = nodes[j].flag
                 /\ nodes'[j].type = nodes[j].type
                 /\ nodes'[j].parent = nodes[j].parent
                 /\ nodes'[j].subtype = IF j = p THEN Subtype(p, type) ELSE nodes[j].subtype
  <2>1. nodes' = Marked(p, type)
    BY DEF RegisterElsewhere, Marked
  <2> QED BY <1>0, <2>1, SubtypeSet DEF TableInv
<1>2. UNCHANGED <<flag, timers, refs, loggers>>
  BY DEF RegisterElsewhere
<1>3. TableTyped'
  BY <1>1, <1>2 DEF TableInv, TableTyped
<1>4. FlagsShared'
  BY <1>1, <1>2, FlagsKept DEF TableInv
<1>5. Family'
  BY <1>1 DEF TableInv, Family, Subtype, LocalType
<1>6. Counts'
  <2>1. \A b \in Buf : Writers(b)' = Writers(b)
    BY <1>1 DEF Writers
  <2> QED BY <1>2, <2>1 DEF TableInv, Counts
<1> QED BY <1>3, <1>4, <1>5, <1>6 DEF TableInv

\* register_logger of a node of this server: a follower comes to a parent that
\* has no child, any other child to one whose children are of its kind.
LEMMA RegisterNodeKeeps ==
    ASSUME TableInv, NEW p \in loggers, NEW i \in Id, NEW type \in LocalType,
           RegisterNode(p, i, type), UNCHANGED <<refs, loggers>>
    PROVE  TableInv'
<1>0. PICK f \in Flag :
          /\ Watch(i, f)
          /\ flag' = [flag EXCEPT ![f] = "clear"]
          /\ nodes' = Emplace([nodes EXCEPT ![p].subtype = Subtype(p, type)],
                              i, Emplaced(type, p, FALSE, f, None))
  BY DEF RegisterNode
<1> DEFINE T == Marked(p, type)
<1>1. /\ p \in DOMAIN nodes /\ p \in Id /\ nodes[p].created
      /\ i \notin DOMAIN nodes
      /\ nodes[p].subtype # "Follow" /\ Subtype(p, type) = type
  BY DEF TableInv, TableTyped, RegisterNode, MayRegister, Known
<1>2. /\ T \in [DOMAIN nodes -> Node]
      /\ \A j \in DOMAIN nodes :
            /\ T[j].created = nodes[j].created
            /\ T[j].buf = nodes[j].buf
            /\ T[j].flag = nodes[j].flag
            /\ T[j].type = nodes[j].type
            /\ T[j].parent = nodes[j].parent
            /\ T[j].subtype = IF j = p THEN type ELSE nodes[j].subtype
  <2>1. type \in LocalType \cup RpcType
    OBVIOUS
  <2> QED BY <1>1, <2>1, SubtypeSet DEF TableInv
<1>3. nodes' = [j \in DOMAIN nodes \cup {i} |-> IF j = i THEN Emplaced(type, p, FALSE, f, None) ELSE T[j]]
  <2>1. DOMAIN T = DOMAIN nodes
    BY <1>2
  <2>2. nodes' = Emplace(T, i, Emplaced(type, p, FALSE, f, None))
    BY <1>0 DEF Marked
  <2> QED BY <2>1, <2>2 DEF Emplace
<1> HIDE DEF T
<1>4. /\ nodes' \in [DOMAIN nodes \cup {i} -> Node]
      /\ \A j \in DOMAIN nodes :
            /\ nodes'[j].created = nodes[j].created
            /\ nodes'[j].buf = nodes[j].buf
            /\ nodes'[j].flag = nodes[j].flag
            /\ nodes'[j].type = nodes[j].type
            /\ nodes'[j].parent = nodes[j].parent
            /\ nodes'[j].subtype = IF j = p THEN type ELSE nodes[j].subtype
      /\ ~nodes'[i].created /\ nodes'[i].flag = f
      /\ nodes'[i].type = type /\ nodes'[i].parent = p
  <2>1. Emplaced(type, p, FALSE, f, None) \in Node
    BY <1>1 DEF Emplaced, Node
  <2>2. \A j \in DOMAIN nodes : j # i
    BY <1>1
  <2> QED BY <1>2, <1>3, <2>1, <2>2 DEF Emplaced
<1>5. TableTyped'
  <2>1. timers' \subseteq Timer
    BY <1>0 DEF TableInv, TableTyped, Watch, Timer
  <2>2. flag' \in [Flag -> {"free", "clear", "set"}]
    BY <1>0 DEF TableInv, TableTyped
  <2> QED BY <1>1, <1>4, <2>1, <2>2 DEF TableInv, TableTyped
<1>6. FlagsShared'
  <2>1. flag[f] = "free" /\ timers' = timers \cup {[id |-> i, flag |-> f]}
    BY <1>0 DEF Watch
  <2>2. DOMAIN nodes' = DOMAIN nodes \cup {i}
    BY <1>4
  <2>3. (\A j \in DOMAIN nodes : nodes'[j].flag = nodes[j].flag) /\ nodes'[i].flag = f
    BY <1>4
  <2>4. flag' = [flag EXCEPT ![f] = "clear"] /\ i \notin DOMAIN nodes
    BY <1>0, <1>1
  <2>5. TableTyped /\ FlagsShared
    BY DEF TableInv
  <2> QED BY <2>1, <2>2, <2>3, <2>4, <2>5, FlagsOfNew
<1>7. Family'
  <2>1. nodes[p].subtype \in {"Invalid", type}
    BY <1>1 DEF Subtype
  <2>2. \A j \in DOMAIN nodes : nodes[j].parent = p => nodes[j].type = type /\ type # "Follow"
    BY <1>1, <2>1 DEF TableInv, Family, LocalType
  <2>3. \A j \in DOMAIN nodes : nodes[j].parent # i
    BY <1>1 DEF TableInv, Family
  <2> QED BY <1>1, <1>4, <2>2, <2>3, LinkAssumption DEF TableInv, Family
<1>8. Counts'
  <2>1. \A b \in Buf : Writers(b)' = Writers(b)
    BY <1>1, <1>4 DEF Writers
  <2> QED BY <2>1 DEF TableInv, Counts
<1> QED BY <1>5, <1>6, <1>7, <1>8 DEF TableInv

\* A node gives up its bool and leaves the table: NodeMessage::destroy.
LEMMA FlagsOfGone ==
    ASSUME TableTyped, FlagsShared, NEW i \in DOMAIN nodes,
           DOMAIN nodes' = DOMAIN nodes \ {i},
           \A j \in DOMAIN nodes \ {i} : nodes'[j].flag = nodes[j].flag,
           flag' = [flag EXCEPT ![nodes[i].flag] = Destroyed(@)],
           UNCHANGED timers
    PROVE  FlagsShared'
<1> DEFINE f == nodes[i].flag
<1>0. /\ flag \in [Flag -> {"free", "clear", "set"}]
      /\ f \in Flag /\ flag[f] \in {"clear", "set"}
      /\ flag' = [flag EXCEPT ![f] = IF flag[f] = "set" THEN "free" ELSE "set"]
      /\ \A j \in DOMAIN nodes \ {i} : nodes[j].flag \in Flag /\ nodes[j].flag # f
      /\ \A t \in timers : t.flag \in Flag
      /\ \A t \in timers : t.flag = f => flag[f] = "clear"
  BY FieldsTyped DEF TableTyped, FlagsShared, Destroyed
<1>1. ASSUME flag[f] = "clear" PROVE \E t \in timers : t.flag = f
  <2>1. PICK j \in DOMAIN nodes : [id |-> j, flag |-> f] \in timers
    BY <1>0, <1>1 DEF FlagsShared
  <2> WITNESS [id |-> j, flag |-> f] \in timers
  <2> QED OBVIOUS
<1> HIDE DEF f
<1>2. \A g \in Flag : flag'[g] = "clear" =>
          \E j \in DOMAIN nodes' : nodes'[j].flag = g /\ [id |-> j, flag |-> g] \in timers'
  <2> SUFFICES ASSUME NEW g \in Flag, flag'[g] = "clear"
               PROVE  \E j \in DOMAIN nodes' : nodes'[j].flag = g /\ [id |-> j, flag |-> g] \in timers'
    OBVIOUS
  <2>1. g # f /\ flag[g] = "clear"
    BY <1>0
  <2>2. PICK j \in DOMAIN nodes : nodes[j].flag = g /\ [id |-> j, flag |-> g] \in timers
    BY <2>1 DEF FlagsShared
  <2> QED BY <2>1, <2>2 DEF f
<1>3. \A g \in Flag : flag'[g] = "set" =>
          (\E j \in DOMAIN nodes' : nodes'[j].flag = g) \/ (\E t \in timers' : t.flag = g)
  <2> SUFFICES ASSUME NEW g \in Flag, flag'[g] = "set"
               PROVE  (\E j \in DOMAIN nodes' : nodes'[j].flag = g) \/ (\E t \in timers' : t.flag = g)
    OBVIOUS
  <2>1. CASE g = f
    BY <1>0, <1>1, <2>1
  <2>2. CASE g # f
    BY <1>0, <2>2 DEF FlagsShared, f
  <2> QED BY <2>1, <2>2
<1>4. /\ \A j \in DOMAIN nodes' : flag'[nodes'[j].flag] # "free"
      /\ \A j, k \in DOMAIN nodes' : nodes'[j].flag = nodes'[k].flag => j = k
  BY <1>0 DEF FlagsShared
<1>5. /\ \A t \in timers' : flag'[t.flag] # "free"
      /\ \A t, u \in timers' : t.flag = u.flag => t = u
  BY <1>0 DEF FlagsShared
<1>6. \A j \in DOMAIN nodes', t \in timers' : nodes'[j].flag = t.flag => flag'[t.flag] = "clear"
  BY <1>0 DEF FlagsShared
<1> QED BY <1>2, <1>3, <1>4, <1>5, <1>6 DEF FlagsShared

\* Without a node that has no children, or that leaves them dangling, the families
\* are as they were.
LEMMA FamilyOfGone ==
    ASSUME TableTyped, Family, NEW i \in DOMAIN nodes, nodes' = Erase(i)
    PROVE  Family'
<1>1. i \in Id
  BY DEF TableTyped
<1>2. /\ DOMAIN nodes' = DOMAIN nodes \ {i}
      /\ \A j \in DOMAIN nodes \ {i} :
            /\ nodes'[j].created = nodes[j].created
            /\ nodes'[j].type = nodes[j].type
            /\ nodes'[j].subtype = nodes[j].subtype
            /\ nodes'[j].parent = IF nodes[j].parent = i THEN Dangling ELSE nodes[j].parent
  BY <1>1, Erased
<1> QED BY <1>2, LinkAssumption DEF Family

\* destroy_logger.
LEMMA DestroyLoggerKeeps ==
    ASSUME TableInv, NEW i \in Id, DestroyLogger(i)
    PROVE  TableInv'
<1>b. PICK b \in Buf : b = nodes[i].buf
  BY DEF DestroyLogger, TableInv, TableTyped
<1>0. /\ i \in DOMAIN nodes /\ nodes[i].created /\ nodes[i].buf = b
      /\ refs' = [refs EXCEPT ![b] = @ - 1]
      /\ flag' = [flag EXCEPT ![nodes[i].flag] = Destroyed(@)]
      /\ nodes' = Erase(i) /\ loggers' = loggers \ {i} /\ UNCHANGED timers
  BY <1>b DEF DestroyLogger, TableInv, TableTyped
<1>1. /\ nodes' \in [DOMAIN nodes \ {i} -> Node]
      /\ \A j \in DOMAIN nodes \ {i} :
            /\ nodes'[j].created = nodes[j].created
            /\ nodes'[j].buf = nodes[j].buf
            /\ nodes'[j].flag = nodes[j].flag
  BY <1>0, Erased DEF TableInv
<1>2. TableTyped'
  <2>1. flag' \in [Flag -> {"free", "clear", "set"}]
    BY <1>0, FieldsTyped DEF TableInv, TableTyped, Destroyed
  <2>2. refs' \in [Buf -> Int]
    BY <1>0 DEF TableInv, TableTyped
  <2>3. loggers' = {j \in DOMAIN nodes' : nodes'[j].created}
    BY <1>0, <1>1 DEF TableInv, TableTyped
  <2> QED BY <1>0, <1>1, <2>1, <2>2, <2>3 DEF TableInv, TableTyped
<1>3. FlagsShared'
  BY <1>0, <1>1, FlagsOfGone DEF TableInv
<1>4. Family'
  BY <1>0, FamilyOfGone DEF TableInv
<1>5. Counts'
  <2>1. Writers(b)' = Writers(b) \ {i} /\ i \in Writers(b)
    BY <1>0, <1>1 DEF Writers
  <2>2. \A c \in Buf : c # b => Writers(c)' = Writers(c)
    BY <1>0, <1>1 DEF Writers
  <2>3. Writers(b) \subseteq Id
    BY DEF Writers, TableInv, TableTyped
  <2> QED BY <1>0, <2>1, <2>2, <2>3, CountsChange DEF TableInv, Counts, TableTyped
<1> QED BY <1>2, <1>3, <1>4, <1>5 DEF TableInv

\* create_logger of a registered node: it gives up the bool f0 of its
\* registration and takes a new one, f.
LEMMA FlagsOfCreated ==
    ASSUME TableTyped, FlagsShared, NEW i \in DOMAIN nodes, NEW f \in Flag, NEW f0 \in Flag,
           nodes[i].flag = f0,
           DOMAIN nodes' = DOMAIN nodes,
           \A j \in DOMAIN nodes \ {i} : nodes'[j].flag = nodes[j].flag,
           nodes'[i].flag = f,
           flag[f] = "free",
           flag' = [flag EXCEPT ![f] = "clear", ![f0] = Destroyed(@)],
           timers' = timers \cup {[id |-> i, flag |-> f]}
    PROVE  FlagsShared'
<1> DEFINE t0 == [id |-> i, flag |-> f]
<1>0. /\ flag \in [Flag -> {"free", "clear", "set"}]
      /\ f0 # f /\ flag[f0] \in {"clear", "set"}
      /\ \A j \in DOMAIN nodes : nodes[j].flag \in Flag /\ nodes[j].flag # f
      /\ \A j \in DOMAIN nodes \ {i} : nodes[j].flag # f0
      /\ \A t \in timers : t.flag \in Flag /\ t.flag # f
      /\ \A t \in timers : t.flag = f0 => flag[f0] = "clear"
      /\ t0.flag = f
  BY FieldsTyped DEF TableTyped, FlagsShared
<1>1. /\ flag'[f] = "clear"
      /\ flag'[f0] = IF flag[f0] = "set" THEN "free" ELSE "set"
      /\ \A g \in Flag \ {f, f0} : flag'[g] = flag[g]
  BY <1>0 DEF Destroyed
<1>2. ASSUME flag[f0] = "clear" PROVE \E t \in timers : t.flag = f0
  <2>1. PICK j \in DOMAIN nodes : [id |-> j, flag |-> f0] \in timers
    BY <1>2 DEF FlagsShared
  <2> WITNESS [id |-> j, flag |-> f0] \in timers
  <2> QED OBVIOUS
<1>3. timers' = timers \cup {t0} /\ [id |-> i, flag |-> f] \in timers'
  OBVIOUS
<1> HIDE DEF t0
<1>4. ASSUME NEW g \in Flag, flag'[g] = "clear"
      PROVE  \E j \in DOMAIN nodes' : nodes'[j].flag = g /\ [id |-> j, flag |-> g] \in timers'
  <2>1. CASE g = f
    BY <1>3, <2>1
  <2>2. CASE g # f
    <3>1. g # f0 /\ flag[g] = "clear"
      BY <1>0, <1>1, <1>4, <2>2
    <3>2. PICK j \in DOMAIN nodes : nodes[j].flag = g /\ [id |-> j, flag |-> g] \in timers
      BY <3>1 DEF FlagsShared
    <3> QED BY <3>1, <3>2
  <2> QED BY <2>1, <2>2
<1>5. ASSUME NEW g \in Flag, flag'[g] = "set"
      PROVE  (\E j \in DOMAIN nodes' : nodes'[j].flag = g) \/ (\E t \in timers' : t.flag = g)
  <2>1. g # f
    BY <1>1, <1>5
  <2>2. CASE g = f0
    BY <1>0, <1>1, <1>2, <1>5, <2>2
  <2>3. CASE g # f0
    <3>1. flag[g] = "set"
      BY <1>1, <1>5, <2>1, <2>3
    <3>2. CASE \E j \in DOMAIN nodes : nodes[j].flag = g
      BY <2>3, <3>2
    <3>3. CASE \E t \in timers : t.flag = g
      BY <3>3
    <3> QED BY <3>1, <3>2, <3>3 DEF FlagsShared
  <2> QED BY <2>2, <2>3
<1>6. /\ \A j \in DOMAIN nodes' : flag'[nodes'[j].flag] # "free"
      /\ \A j, k \in DOMAIN nodes' : nodes'[j].flag = nodes'[k].flag => j = k
  BY <1>0, <1>1 DEF FlagsShared
<1>7. /\ \A t \in timers' : flag'[t.flag] # "free"
      /\ \A t, u \in timers' : t.flag = u.flag => t = u
  BY <1>0, <1>1, <1>3 DEF FlagsShared
<1>8. \A j \in DOMAIN nodes', t \in timers' : nodes'[j].flag = t.flag => flag'[t.flag] = "clear"
  BY <1>0, <1>1, <1>3 DEF FlagsShared
<1> QED BY <1>4, <1>5, <1>6, <1>7, <1>8 DEF FlagsShared

\* create_logger of a registered node, whose parent is another one and open: f0 and
\* f are its old bool and its new one, b is the parent's buffer.
Creates(i, f0, f, b) ==
    /\ i \in DOMAIN nodes /\ ~nodes[i].created /\ nodes[i].flag = f0
    /\ flag[f] = "free"
    /\ timers' = timers \cup {[id |-> i, flag |-> f]}
    /\ flag' = [flag EXCEPT ![f] = "clear", ![f0] = Destroyed(@)]
    /\ refs' = [refs EXCEPT ![b] = @ + 1]
    /\ loggers' = loggers \cup {i}
    /\ nodes' \in [DOMAIN nodes -> Node]
    /\ \A j \in DOMAIN nodes :
          /\ nodes'[j].type = nodes[j].type
          /\ nodes'[j].subtype = nodes[j].subtype
          /\ nodes'[j].parent = nodes[j].parent
    /\ \A j \in DOMAIN nodes \ {i} :
          /\ nodes'[j].created = nodes[j].created
          /\ nodes'[j].buf = nodes[j].buf
          /\ nodes'[j].flag = nodes[j].flag
    /\ nodes'[i].created /\ nodes'[i].buf = b /\ nodes'[i].flag = f

\* create_logger finds such a parent: it does not dangle, so it is there and open.
LEMMA CreatedFacts ==
    ASSUME TableInv, NEW i \in Id, CreateRegistered(i)
    PROVE  \E f0 \in Flag, f \in Flag, b \in Buf : Creates(i, f0, f, b)
<1>0. PICK p \in DOMAIN nodes, f0 \in Flag, b \in Buf :
        /\ p = nodes[i].parent /\ f0 = nodes[i].flag /\ b = nodes[p].buf
        /\ i \in DOMAIN nodes /\ ~nodes[i].created
        /\ nodes[p].created /\ p # i
  <2>1. i \in DOMAIN nodes /\ ~nodes[i].created /\ nodes[i].parent # Dangling
    BY DEF CreateRegistered, Known
  <2>2. nodes[i].parent \in Id
    BY <2>1 DEF TableInv, TableTyped, Node, Family
  <2>3. nodes[i].parent \in DOMAIN nodes /\ nodes[nodes[i].parent].created
    BY <2>1, <2>2 DEF TableInv, Family
  <2> QED BY <2>1, <2>3, FieldsTyped DEF TableInv, TableTyped
<1>1. PICK f \in Flag :
        /\ Watch(i, f)
        /\ flag' = [flag EXCEPT ![f] = "clear", ![f0] = Destroyed(@)]
        /\ nodes' = [nodes EXCEPT ![i].created = TRUE, ![i].buf = b, ![i].flag = f,
                                  ![p].decided = @ \/ nodes[i].type = "Decision"]
        /\ refs' = [refs EXCEPT ![b] = @ + 1]
        /\ loggers' = loggers \cup {i}
  BY <1>0 DEF CreateRegistered, Counted
<1>2. /\ nodes' \in [DOMAIN nodes -> Node]
      /\ \A j \in DOMAIN nodes :
            /\ nodes'[j].type = nodes[j].type
            /\ nodes'[j].subtype = nodes[j].subtype
            /\ nodes'[j].parent = nodes[j].parent
      /\ \A j \in DOMAIN nodes \ {i} :
            /\ nodes'[j].created = nodes[j].created
            /\ nodes'[j].buf = nodes[j].buf
            /\ nodes'[j].flag = nodes[j].flag
      /\ nodes'[i].created /\ nodes'[i].buf = b /\ nodes'[i].flag = f
  <2>1. PICK d \in BOOLEAN : d = (nodes[p].decided \/ nodes[i].type = "Decision")
    OBVIOUS
  <2>2. nodes' = [nodes EXCEPT ![i].created = TRUE, ![i].buf = b, ![i].flag = f, ![p].decided = d]
    BY <1>0, <1>1, <2>1
  <2>3. nodes' = [j \in DOMAIN nodes |->
                    IF j = p THEN [nodes[p] EXCEPT !.decided = d]
                    ELSE IF j = i THEN [nodes[i] EXCEPT !.created = TRUE, !.buf = b, !.flag = f]
                    ELSE nodes[j]]
    BY <1>0, <2>2 DEF TableInv, TableTyped
  <2>4. nodes[i] \in Node /\ nodes[p] \in Node
    BY <1>0 DEF TableInv, TableTyped
  <2>5. /\ [nodes[p] EXCEPT !.decided = d] \in Node
        /\ [nodes[i] EXCEPT !.created = TRUE, !.buf = b, !.flag = f] \in Node
    BY <2>4, ZenonT(40) DEF Node
  <2>6. nodes' \in [DOMAIN nodes -> Node]
    BY <2>3, <2>5 DEF TableInv, TableTyped
  <2> QED BY <1>0, <2>3, <2>4, <2>6 DEF Node
<1>3. flag[f] = "free" /\ timers' = timers \cup {[id |-> i, flag |-> f]}
  BY <1>1 DEF Watch
<1>4. Creates(i, f0, f, b)
  BY <1>0, <1>1, <1>2, <1>3 DEF Creates
<1> QED BY <1>4

\* create_logger of a registered node.
LEMMA CreateRegisteredKeeps ==
    ASSUME TableInv, NEW i \in Id, CreateRegistered(i)
    PROVE  TableInv'
<1>0. PICK f0 \in Flag, f \in Flag, b \in Buf : Creates(i, f0, f, b)
  BY CreatedFacts
<1>3. TableTyped'
  <2>1. timers' \subseteq Timer
    BY <1>0 DEF TableInv, TableTyped, Creates, Timer
  <2>2. flag' \in [Flag -> {"free", "clear", "set"}] /\ refs' \in [Buf -> Int]
    BY <1>0 DEF TableInv, TableTyped, Creates, Destroyed
  <2> QED BY <1>0, <2>1, <2>2 DEF TableInv, TableTyped, Creates
<1>4. FlagsShared'
  BY <1>0, FlagsOfCreated DEF TableInv, Creates
<1>5. Family'
  BY <1>0 DEF TableInv, Family, Creates
<1>6. Counts'
  <2>1. Writers(b)' = Writers(b) \cup {i} /\ i \notin Writers(b)
    BY <1>0 DEF Writers, Creates
  <2>2. \A c \in Buf : c # b => Writers(c)' = Writers(c)
    BY <1>0 DEF Writers, Creates
  <2>3. Writers(b) \subseteq Id /\ refs' = [refs EXCEPT ![b] = @ + 1]
    BY <1>0 DEF Writers, TableInv, TableTyped, Creates
  <2> QED BY <2>1, <2>2, <2>3, CountsChange DEF TableInv, Counts, TableTyped
<1> QED BY <1>3, <1>4, <1>5, <1>6 DEF TableInv

\* What check_timeout relies on: the node of a timer whose bool is clear is there,
\* and it alone has the timer's bool.
LEMMA WatchedThere ==
    ASSUME TableTyped, FlagsShared, NEW t \in timers, flag[t.flag] = "clear"
    PROVE  t.id \in DOMAIN nodes /\ nodes[t.id].flag = t.flag
<1>1. t.flag \in Flag
  BY FieldsTyped
<1>2. PICK i \in DOMAIN nodes : nodes[i].flag = t.flag /\ [id |-> i, flag |-> t.flag] \in timers
  BY <1>1 DEF FlagsShared
<1> DEFINE u == [id |-> i, flag |-> t.flag]
<1>3. u \in timers /\ u.flag = t.flag /\ u.id = i
  BY <1>2
<1> HIDE DEF u
<1>4. u = t
  BY <1>3 DEF FlagsShared
<1> QED BY <1>2, <1>3, <1>4

\* check_timeout: the timer goes; the bool is set, or goes with its last owner.
LEMMA CheckTimeoutKeeps ==
    ASSUME TableInv, NEW t \in timers, CheckTimeout(t)
    PROVE  TableInv'
<1>0. PICK f \in Flag, k \in Id : f = t.flag /\ k = t.id
  BY FieldsTyped DEF TableInv
<1>1. /\ timers' = timers \ {t} /\ UNCHANGED <<refs, loggers>>
      /\ flag \in [Flag -> {"free", "clear", "set"}]
      /\ \A j \in DOMAIN nodes : nodes[j].flag \in Flag
      /\ \A u \in timers : u.flag \in Flag
      /\ \A u \in timers' : u \in timers /\ u # t /\ u.flag # f
  BY <1>0, FieldsTyped DEF CheckTimeout, TableInv, TableTyped, FlagsShared
<1>2. ASSUME NEW j, NEW g, [id |-> j, flag |-> g] \in timers, g # f
      PROVE  [id |-> j, flag |-> g] \in timers'
  BY <1>0, <1>1, <1>2
<1>3. ASSUME nodes' = nodes, flag' = [flag EXCEPT ![f] = "set"], flag[f] = "clear"
      PROVE  FlagsShared'
  <2>1. k \in DOMAIN nodes /\ nodes[k].flag = f
    BY <1>0, <1>3, WatchedThere DEF TableInv
  <2>2. ASSUME NEW g \in Flag, flag'[g] = "clear"
        PROVE  \E j \in DOMAIN nodes' : nodes'[j].flag = g /\ [id |-> j, flag |-> g] \in timers'
    <3>1. g # f /\ flag[g] = "clear"
      BY <1>1, <1>3, <2>2
    <3> QED BY <1>2, <1>3, <3>1 DEF TableInv, FlagsShared
  <2>3. ASSUME NEW g \in Flag, flag'[g] = "set"
        PROVE  (\E j \in DOMAIN nodes' : nodes'[j].flag = g) \/ (\E u \in timers' : u.flag = g)
    <3>1. CASE g = f
      BY <1>3, <2>1, <3>1
    <3>2. CASE g # f
      <4>1. flag[g] = "set"
        BY <1>1, <1>3, <2>3, <3>2
      <4>2. ASSUME NEW u \in timers, u.flag = g PROVE u \in timers'
        BY <1>0, <1>1, <3>2, <4>2
      <4> QED BY <1>3, <4>1, <4>2 DEF TableInv, FlagsShared
    <3> QED BY <3>1, <3>2
  <2>4. /\ \A j \in DOMAIN nodes' : flag'[nodes'[j].flag] # "free"
        /\ \A i, j \in DOMAIN nodes' : nodes'[i].flag = nodes'[j].flag => i = j
    BY <1>1, <1>3 DEF TableInv, FlagsShared
  <2>5. /\ \A u \in timers' : flag'[u.flag] # "free"
        /\ \A u, v \in timers' : u.flag = v.flag => u = v
        /\ \A j \in DOMAIN nodes', u \in timers' : nodes'[j].flag = u.flag => flag'[u.flag] = "clear"
    BY <1>1, <1>3 DEF TableInv, FlagsShared
  <2> QED BY <2>2, <2>3, <2>4, <2>5 DEF FlagsShared
<1>4. ASSUME DOMAIN nodes' \subseteq DOMAIN nodes,
             \A j \in DOMAIN nodes' : nodes'[j].flag = nodes[j].flag /\ nodes[j].flag # f,
             \A j \in DOMAIN nodes : nodes[j].flag # f => j \in DOMAIN nodes',
             flag' = [flag EXCEPT ![f] = "free"]
      PROVE  FlagsShared'
  <2>2. ASSUME NEW g \in Flag, flag'[g] = "clear"
        PROVE  \E j \in DOMAIN nodes' : nodes'[j].flag = g /\ [id |-> j, flag |-> g] \in timers'
    <3>1. g # f /\ flag[g] = "clear"
      BY <1>1, <1>4, <2>2
    <3>2. PICK j \in DOMAIN nodes : nodes[j].flag = g /\ [id |-> j, flag |-> g] \in timers
      BY <3>1 DEF TableInv, FlagsShared
    <3> QED BY <1>2, <1>4, <3>1, <3>2
  <2>3. ASSUME NEW g \in Flag, flag'[g] = "set"
        PROVE  (\E j \in DOMAIN nodes' : nodes'[j].flag = g) \/ (\E u \in timers' : u.flag = g)
    <3>1. g # f /\ flag[g] = "set"
      BY <1>1, <1>4, <2>3
    <3>2. ASSUME NEW u \in timers, u.flag = g PROVE u \in timers'
      BY <1>0, <1>1, <3>1, <3>2
    <3>3. ASSUME NEW j \in DOMAIN nodes, nodes[j].flag = g
          PROVE  j \in DOMAIN nodes' /\ nodes'[j].flag = g
      BY <1>4, <3>1, <3>3
    <3> QED BY <3>1, <3>2, <3>3 DEF TableInv, FlagsShared
  <2>4. /\ \A j \in DOMAIN nodes' : flag'[nodes'[j].flag] # "free"
        /\ \A i, j \in DOMAIN nodes' : nodes'[i].flag = nodes'[j].flag => i = j
    BY <1>1, <1>4 DEF TableInv, FlagsShared
  <2>5. /\ \A u \in timers' : flag'[u.flag] # "free"
        /\ \A u, v \in timers' : u.flag = v.flag => u = v
        /\ \A j \in DOMAIN nodes', u \in timers' : nodes'[j].flag = u.flag => flag'[u.flag] = "clear"
    BY <1>1, <1>4 DEF TableInv, FlagsShared
  <2> QED BY <2>2, <2>3, <2>4, <2>5 DEF FlagsShared
<1>5. timers' \subseteq Timer
  BY <1>1 DEF TableInv, TableTyped
<1>6. CASE nodes' = nodes /\ flag' = [flag EXCEPT ![f] = "set"] /\ flag[f] = "clear"
  <2>1. TableTyped'
    BY <1>1, <1>5, <1>6 DEF TableInv, TableTyped
  <2>2. Family'
    BY <1>6 DEF TableInv, Family
  <2>3. Counts'
    BY <1>1, <1>6 DEF TableInv, Counts, Writers
  <2> QED BY <1>3, <1>6, <2>1, <2>2, <2>3 DEF TableInv
<1>7. CASE /\ flag[f] = "clear" /\ ~nodes[k].created
           /\ nodes' = Erase(k) /\ flag' = [flag EXCEPT ![f] = "free"]
  <2>0. k \in DOMAIN nodes /\ nodes[k].flag = f
    BY <1>0, <1>7, WatchedThere DEF TableInv
  <2>1. /\ nodes' \in [DOMAIN nodes \ {k} -> Node]
        /\ \A j \in DOMAIN nodes \ {k} :
              /\ nodes'[j].created = nodes[j].created
              /\ nodes'[j].buf = nodes[j].buf
              /\ nodes'[j].flag = nodes[j].flag
    BY <1>7, Erased DEF TableInv
  <2>2. TableTyped'
    BY <1>1, <1>5, <1>7, <2>1 DEF TableInv, TableTyped
  <2>3. FlagsShared'
    <3>1. \A j \in DOMAIN nodes \ {k} : nodes[j].flag # f
      BY <2>0 DEF TableInv, FlagsShared
    <3> QED BY <1>4, <1>7, <2>0, <2>1, <3>1
  <2>4. Family'
    BY <1>7, <2>0, FamilyOfGone DEF TableInv
  <2>5. Counts'
    <3>1. \A b \in Buf : Writers(b)' = Writers(b)
      BY <1>7, <2>1 DEF Writers
    <3> QED BY <1>1, <3>1 DEF TableInv, Counts
  <2> QED BY <2>2, <2>3, <2>4, <2>5 DEF TableInv
<1>8. CASE flag[f] = "set" /\ nodes' = nodes /\ flag' = [flag EXCEPT ![f] = "free"]
  <2>1. TableTyped'
    BY <1>1, <1>5, <1>8 DEF TableInv, TableTyped
  <2>2. FlagsShared'
    <3>1. \A j \in DOMAIN nodes : nodes[j].flag # f
      BY <1>0, <1>8 DEF TableInv, FlagsShared
    <3> QED BY <1>4, <1>8, <3>1
  <2>3. Family'
    BY <1>8 DEF TableInv, Family
  <2>4. Counts'
    BY <1>1, <1>8 DEF TableInv, Counts, Writers
  <2> QED BY <2>1, <2>2, <2>3, <2>4 DEF TableInv
<1> QED BY <1>0, <1>6, <1>7, <1>8 DEF CheckTimeout, Expire, Forget, Destroyed

\* Steps that leave the table alone: errors, and calls that fail or will come back.
LEMMA TableStutters ==
    ASSUME TableInv, UNCHANGED <<nodes, flag, timers, refs, loggers>>
    PROVE  TableInv'
<1>1. TableTyped' /\ Family' /\ Counts'
  BY DEF TableInv, TableTyped, Family, Counts, Writers
<1>2. FlagsShared'
  BY FlagsKept DEF TableInv
<1> QED BY <1>1, <1>2 DEF TableInv

\* An empty table.
LEMMA TableStarts == Init => TableInv
<1> SUFFICES ASSUME Init PROVE TableInv
  OBVIOUS
<1>1. DOMAIN nodes = {}
  BY DEF Init
<1>2. \A b \in Buf : Writers(b) = {}
  BY <1>1 DEF Writers
<1>3. Counts
  BY <1>2, FS_EmptySet DEF Init, Counts
<1>4. nodes \in [DOMAIN nodes -> Node]
  BY <1>1 DEF Init
<1> QED BY <1>1, <1>3, <1>4 DEF Init, TableInv, TableTyped, FlagsShared, Family

\* Every operation and every timeout keeps the table consistent.
LEMMA TableKeeps ==
    ASSUME TableInv, [Next]_vars
    PROVE  TableInv'
<1>1. ASSUME NEW i \in Id, CreateHeadLogger(i) PROVE TableInv'
  BY <1>1, NewHeadKeeps, TableStutters DEF CreateHeadLogger, HeadConflict
<1>2. ASSUME NEW p \in loggers, NEW i \in Id, NEW type \in Kinds, RegisterLogger(p, i, type)
      PROVE  TableInv'
  BY <1>2, RegisterNodeKeeps, RegisterElsewhereKeeps DEF RegisterLogger
<1>3. ASSUME NEW i \in Id, CreateLogger(i) PROVE TableInv'
  BY <1>3, CreateRegisteredKeeps, TableStutters DEF CreateLogger, CreateOrphan, CreateUnknown
<1>4. ASSUME NEW i \in Id, CreateAsHead(i) PROVE TableInv'
  BY <1>4, NewHeadKeeps, TableStutters DEF CreateAsHead, HeadConflict
<1>5. CASE UNCHANGED vars
  BY <1>5, TableStutters DEF vars
<1> QED BY <1>1, <1>2, <1>3, <1>4, <1>5, DestroyLoggerKeeps, CheckTimeoutKeeps DEF Next, UserStep

\* The invariant in the words of TableAgrees.
LEMMA TableInvSuffices == TableInv => TableAgrees
<1> SUFFICES ASSUME TableInv PROVE TableAgrees
  OBVIOUS
<1>1. ASSUME NEW f \in Flag, flag[f] = "clear"
      PROVE  \E i \in DOMAIN nodes :
                NodeOwners(f) = {i} /\ TimerOwners(f) = {[id |-> i, flag |-> f]}
  <2>1. PICK i \in DOMAIN nodes : nodes[i].flag = f /\ [id |-> i, flag |-> f] \in timers
    BY <1>1 DEF TableInv, FlagsShared
  <2>2. NodeOwners(f) = {i}
    BY <2>1 DEF TableInv, FlagsShared, NodeOwners
  <2>3. PICK t0 \in timers : t0 = [id |-> i, flag |-> f] /\ t0.flag = f
    BY <2>1
  <2>4. TimerOwners(f) = {t0}
    BY <2>3 DEF TableInv, FlagsShared, TimerOwners
  <2> QED BY <2>2, <2>3, <2>4
<1>2. ASSUME NEW f \in Flag, flag[f] = "set"
      PROVE  \/ TimerOwners(f) = {} /\ \E i \in DOMAIN nodes : NodeOwners(f) = {i}
             \/ NodeOwners(f) = {} /\ \E t \in timers : TimerOwners(f) = {t}
  <2>1. CASE \E i \in DOMAIN nodes : nodes[i].flag = f
    <3>1. PICK i \in DOMAIN nodes : nodes[i].flag = f
      BY <2>1
    <3>2. NodeOwners(f) = {i} /\ TimerOwners(f) = {}
      BY <1>2, <3>1 DEF TableInv, FlagsShared, NodeOwners, TimerOwners
    <3> QED BY <3>2
  <2>2. CASE \E t \in timers : t.flag = f
    <3>1. PICK t \in timers : t.flag = f
      BY <2>2
    <3>2. TimerOwners(f) = {t} /\ NodeOwners(f) = {}
      BY <1>2, <3>1 DEF TableInv, FlagsShared, NodeOwners, TimerOwners
    <3> QED BY <3>2
  <2> QED BY <1>2, <2>1, <2>2 DEF TableInv, FlagsShared
<1>3. \A f \in Flag : flag[f] = "free" => NodeOwners(f) = {} /\ TimerOwners(f) = {}
  BY DEF TableInv, FlagsShared, NodeOwners, TimerOwners
<1>4. loggers = {i \in DOMAIN nodes : nodes[i].created}
  BY DEF TableInv, TableTyped
<1>5. \A b \in Buf :
         refs[b] = Cardinality({i \in DOMAIN nodes : nodes[i].created /\ nodes[i].buf = b})
  BY DEF TableInv, Counts, Writers
<1>6. \A i, j \in DOMAIN nodes :
         nodes[i].parent = nodes[j].parent /\ nodes[i].parent \in Id =>
            nodes[i].type = nodes[j].type /\ (nodes[i].type = "Follow" => i = j)
  BY DEF TableInv, Family
<1> QED BY <1>1, <1>2, <1>3, <1>4, <1>5, <1>6 DEF TableAgrees

\* The bool that a node and its timer share is deleted once, loggers point at
\* created nodes, ref_count is what get_buffer_iter takes it for, and the children
\* of a node are of one kind, whatever the users do.
THEOREM TableIsExact == Spec => []TableAgrees
<1>1. Init => TableInv
  BY TableStarts
<1>2. TableInv /\ [Next]_vars => TableInv'
  BY TableKeeps
<1>3. TableInv => TableAgrees
  BY TableInvSuffices
<1> QED BY <1>1, <1>2, <1>3, PTL DEF Spec

-----------------------------------------------------------------------------
(* Users as the README wants them: an ID names one node, and a logger is    *)
(* kept until its children are created or timed out.                        *)

\* An ID in the table was given out, one whose logger is being created after the
\* node timed out is not in it, and the parent of a node to be created is there.
Careful ==
    /\ DOMAIN nodes \subseteq used
    /\ late \subseteq used \ DOMAIN nodes
    /\ \A i \in DOMAIN nodes : ~nodes[i].created => nodes[i].parent # Dangling
    /\ fault = {}

\* A node that was not created yet has no children.
LEMMA NoEarlyChildren ==
    ASSUME TableInv, NEW i \in Id, i \in DOMAIN nodes => ~nodes[i].created
    PROVE  \A j \in DOMAIN nodes : nodes[j].parent # i
BY DEF TableInv, Family

\* Each operation such users call keeps what makes the next one safe, and a timeout
\* erases no node that has children waiting to be created.
LEMMA CarefulKeeps ==
    ASSUME Unique, Nested, TableInv, Careful, [Next]_vars
    PROVE  Careful'
<1>1. ASSUME NEW i \in Id, NewHead(i), late' \subseteq late, i \notin late',
             used' = used \cup {i}
      PROVE  Careful'
  BY <1>1, LinkAssumption DEF Careful, NewHead, Emplace, Emplaced
<1>2. ASSUME NEW i \in Id, CreateHeadLogger(i) PROVE Careful'
  <2>1. i \notin used /\ ~Known(i) /\ used' = used \cup {i} /\ UNCHANGED late
    BY <1>2 DEF CreateHeadLogger, Careful, Known
  <2> QED BY <1>1, <1>2, <2>1 DEF CreateHeadLogger, HeadConflict, Careful
<1>3. ASSUME NEW p \in loggers, NEW i \in Id, NEW type \in Kinds, RegisterLogger(p, i, type)
      PROVE  Careful'
  <2>0. /\ p \in DOMAIN nodes /\ p \in Id /\ i \notin used /\ used' = used \cup {i}
        /\ UNCHANGED <<late, fault>>
        /\ type \in LocalType \cup RpcType
    BY <1>3, LinkAssumption DEF RegisterLogger, TableInv, TableTyped, LocalType, RpcType
  <2>a. /\ DOMAIN Marked(p, type) = DOMAIN nodes
        /\ \A j \in DOMAIN nodes : /\ Marked(p, type)[j].created = nodes[j].created
                                   /\ Marked(p, type)[j].parent = nodes[j].parent
    BY <2>0, SubtypeSet DEF TableInv
  <2>1. CASE RegisterNode(p, i, type)
    <3>1. PICK f \in Flag : nodes' = Emplace(Marked(p, type), i, Emplaced(type, p, FALSE, f, None))
      BY <2>1 DEF RegisterNode, Marked
    <3>2. Emplaced(type, p, FALSE, f, None).parent = p
      BY DEF Emplaced
    <3> QED BY <2>0, <2>a, <3>1, <3>2, LinkAssumption DEF Careful, Emplace
  <2>2. CASE RegisterElsewhere(p, i, type)
    <3>1. nodes' = Marked(p, type)
      BY <2>2 DEF RegisterElsewhere, Marked
    <3> QED BY <2>0, <2>a, <3>1 DEF Careful
  <2> QED BY <1>3, <2>1, <2>2 DEF RegisterLogger
<1>4. ASSUME NEW i \in Id, CreateLogger(i) PROVE Careful'
  <2>1. CASE CreateRegistered(i)
    <3>1. /\ nodes' \in [DOMAIN nodes -> Node]
          /\ \A j \in DOMAIN nodes : /\ nodes'[j].parent = nodes[j].parent
                                     /\ nodes[j].created => nodes'[j].created
      BY <2>1, CreatedFacts DEF Creates
    <3>2. UNCHANGED <<late, used, fault>>
      BY <1>4, <2>1 DEF CreateLogger, CreateRegistered
    <3> QED BY <3>1, <3>2 DEF Careful
  <2>2. CASE CreateOrphan(i)
    BY <2>2 DEF CreateOrphan, Careful, Known
  <2>3. CASE CreateUnknown(i)
    BY <1>4, <2>3 DEF CreateLogger, CreateUnknown, Careful, Known
  <2> QED BY <1>4, <2>1, <2>2, <2>3 DEF CreateLogger
<1>5. ASSUME NEW i \in Id, CreateAsHead(i) PROVE Careful'
  <2>1. i \in late /\ i \in used /\ late' = late \ {i} /\ used' = used /\ ~Known(i)
    BY <1>5 DEF CreateAsHead, Careful, Known
  <2> QED BY <1>1, <1>5, <2>1 DEF CreateAsHead, HeadConflict
<1>6. ASSUME NEW i \in Id, nodes' = Erase(i), UNCHANGED <<late, used, fault>>,
             \A j \in DOMAIN nodes : nodes[j].parent = i => nodes[j].created
      PROVE  Careful'
  <2>1. /\ DOMAIN nodes' = DOMAIN nodes \ {i}
        /\ \A j \in DOMAIN nodes \ {i} :
              /\ nodes'[j].created = nodes[j].created
              /\ nodes'[j].parent = IF nodes[j].parent = i THEN Dangling ELSE nodes[j].parent
    BY <1>6, Erased DEF TableInv
  <2> QED BY <1>6, <2>1 DEF Careful
<1>7. ASSUME NEW i \in Id, DestroyLogger(i) PROVE Careful'
  BY <1>6, <1>7 DEF DestroyLogger
<1>8. ASSUME NEW t \in timers, CheckTimeout(t) PROVE Careful'
  <2>1. t.id \in Id /\ UNCHANGED <<late, used, fault>>
    BY <1>8, FieldsTyped DEF CheckTimeout, TableInv
  <2>2. CASE nodes' = nodes
    BY <2>1, <2>2 DEF Careful
  <2>3. CASE nodes' = Erase(t.id) /\ ~nodes[t.id].created
    BY <1>6, <2>1, <2>3, NoEarlyChildren
  <2> QED BY <1>8, <2>2, <2>3 DEF CheckTimeout, Expire, Forget
<1>9. CASE UNCHANGED vars
  BY <1>9 DEF vars, Careful
<1> QED BY <1>2, <1>3, <1>4, <1>5, <1>7, <1>8, <1>9 DEF Next, UserStep

\* For users as the README wants them no operation follows a parent_iter or a
\* buf_iter that leads nowhere, however the timeouts fall between their calls.
THEOREM CarefulUsersAreSafe ==
    ASSUME Unique, Nested
    PROVE  Spec => []NoFault
<1>1. Init => TableInv /\ Careful
  BY TableStarts DEF Init, Careful
<1>2. (TableInv /\ Careful) /\ [Next]_vars => (TableInv /\ Careful)'
  BY TableKeeps, CarefulKeeps
<1>3. TableInv /\ Careful => NoFault
  BY DEF Careful, NoFault
<1> QED BY <1>1, <1>2, <1>3, PTL DEF Spec

-----------------------------------------------------------------------------
(* The scheduled thread: sequences *)

\* The places of a sequence, and its parts.
LEMMA HeadAndTail ==
    ASSUME NEW T, NEW q \in Seq(T), q # <<>>
    PROVE  /\ Len(q) \in Nat /\ Len(q) >= 1 /\ DOMAIN q = 1 .. Len(q)
           /\ Head(q) = q[1] /\ Head(q) \in T
           /\ Tail(q) \in Seq(T) /\ Len(Tail(q)) = Len(q) - 1
           /\ DOMAIN Tail(q) = 1 .. Len(q) - 1
           /\ \A i \in 1 .. Len(q) - 1 : Tail(q)[i] = q[i + 1]
<1>1. Len(q) \in Nat /\ Len(q) >= 1 /\ DOMAIN q = 1 .. Len(q)
  OBVIOUS
<1>2. Head(q) = q[1] /\ Head(q) \in T
  BY <1>1
<1>3. Tail(q) \in Seq(T) /\ Len(Tail(q)) = Len(q) - 1
  BY <1>1
<1>4. DOMAIN Tail(q) = 1 .. Len(q) - 1
  BY <1>3
<1>5. \A i \in 1 .. Len(q) - 1 : Tail(q)[i] = q[i + 1]
  BY <1>1
<1> QED BY <1>1, <1>2, <1>3, <1>4, <1>5

LEMMA AppendedPlaces ==
    ASSUME NEW T, NEW q \in Seq(T), NEW t \in T
    PROVE  /\ Len(q) \in Nat /\ DOMAIN q = 1 .. Len(q)
           /\ Append(q, t) \in Seq(T) /\ Len(Append(q, t)) = Len(q) + 1
           /\ DOMAIN Append(q, t) = 1 .. Len(q) + 1
           /\ \A i \in 1 .. Len(q) : Append(q, t)[i] = q[i]
           /\ Append(q, t)[Len(q) + 1] = t
OBVIOUS

LEMMA JoinedPlaces ==
    ASSUME NEW T, NEW p \in Seq(T), NEW q \in Seq(T)
    PROVE  /\ Len(p) \in Nat /\ Len(q) \in Nat /\ DOMAIN p = 1 .. Len(p) /\ DOMAIN q = 1 .. Len(q)
           /\ p \o q \in Seq(T) /\ Len(p \o q) = Len(p) + Len(q)
           /\ DOMAIN (p \o q) = 1 .. Len(p) + Len(q)
           /\ \A i \in 1 .. Len(p) : (p \o q)[i] = p[i]
           /\ \A i \in 1 .. Len(q) : (p \o q)[Len(p) + i] = q[i]
           /\ \A i \in 1 .. Len(p) + Len(q) :
                 (p \o q)[i] = IF i <= Len(p) THEN p[i] ELSE q[i - Len(p)]
OBVIOUS

\* Filtered keeps the members of s that are in S, each place of one of them once.
LEMMA FilteredKeeps ==
    ASSUME NEW T, NEW s \in Seq(T), NEW S
    PROVE  /\ Filtered(s, S) \in Seq(T)
           /\ RecordsIn(Filtered(s, S)) = RecordsIn(s) \cap S
<1> DEFINE P == {i \in DOMAIN s : s[i] \in S}
           Upto(i) == {j \in P : j <= i}
           N == Cardinality(P)
           f == [i \in P |-> Cardinality(Upto(i))]
           place(n) == CHOOSE i \in P : Cardinality(Upto(i)) = n
<1>1. Len(s) \in Nat /\ DOMAIN s = 1 .. Len(s) /\ P \subseteq 1 .. Len(s) /\ P \subseteq Nat
  OBVIOUS
<1>2. IsFiniteSet(P) /\ N \in Nat
  <2>1. IsFiniteSet(1 .. Len(s))
    BY <1>1, FS_Interval
  <2>2. IsFiniteSet(P)
    BY <1>1, <2>1, FS_Subset
  <2> QED BY <2>2, FS_CardinalityType
<1>3. ASSUME NEW i \in P
      PROVE  IsFiniteSet(Upto(i)) /\ Cardinality(Upto(i)) \in 1 .. N /\ Cardinality(Upto(i)) \in Nat
  <2>1. Upto(i) \in SUBSET P /\ i \in Upto(i)
    BY <1>1
  <2>2. IsFiniteSet(Upto(i)) /\ Cardinality(Upto(i)) <= N
    BY <1>2, <2>1, FS_Subset
  <2>3. Cardinality(Upto(i)) \in Nat /\ Cardinality(Upto(i)) # 0
    BY <2>1, <2>2, FS_CardinalityType, FS_EmptySet
  <2> QED BY <1>2, <2>2, <2>3
<1>4. ASSUME NEW i \in P, NEW j \in P, i < j
      PROVE  Cardinality(Upto(i)) < Cardinality(Upto(j))
  <2>1. Upto(i) \in SUBSET Upto(j) /\ j \in Upto(j) /\ j \notin Upto(i)
    BY <1>1, <1>4
  <2>2. Cardinality(Upto(i)) <= Cardinality(Upto(j)) /\ Cardinality(Upto(i)) # Cardinality(Upto(j))
    BY <1>3, <2>1, FS_Subset
  <2>3. Cardinality(Upto(i)) \in Nat /\ Cardinality(Upto(j)) \in Nat
    <3> HIDE DEF Upto
    <3> QED BY <1>3
  <2> QED BY <2>2, <2>3
<1>5. \A i, j \in P : Cardinality(Upto(i)) = Cardinality(Upto(j)) => i = j
  <2> SUFFICES ASSUME NEW i \in P, NEW j \in P, i # j
               PROVE  Cardinality(Upto(i)) # Cardinality(Upto(j))
    OBVIOUS
  <2>1. i < j \/ j < i
    BY <1>1
  <2>2. Cardinality(Upto(i)) \in Nat /\ Cardinality(Upto(j)) \in Nat
    <3> HIDE DEF Upto
    <3> QED BY <1>3
  <2> HIDE DEF Upto, P
  <2> QED BY <1>4, <2>1, <2>2
<1>6. \A n \in 1 .. N : \E i \in P : Cardinality(Upto(i)) = n
  <2>1. f \in Injection(P, 1 .. N)
    BY <1>3, <1>5 DEF Injection, IsInjective
  <2>2. IsFiniteSet(1 .. N) /\ Cardinality(1 .. N) = N
    <3> HIDE DEF N
    <3> QED BY <1>2, FS_Interval
  <2>3. f \in Surjection(P, 1 .. N)
    <3> HIDE DEF f, P
    <3> QED BY <2>1, <2>2, FS_Injection
  <2> QED BY <2>3 DEF Surjection
<1>7. \A n \in 1 .. N : place(n) \in P /\ Cardinality(Upto(place(n))) = n
  BY <1>6
<1>8. Filtered(s, S) = [n \in 1 .. N |-> s[place(n)]]
  BY DEF Filtered
<1>9. \A i \in P : place(Cardinality(Upto(i))) = i
  <2> SUFFICES ASSUME NEW i \in P PROVE place(Cardinality(Upto(i))) = i
    OBVIOUS
  <2>1. Cardinality(Upto(i)) \in 1 .. N
    BY <1>3
  <2>2. place(Cardinality(Upto(i))) \in P
        /\ Cardinality(Upto(place(Cardinality(Upto(i))))) = Cardinality(Upto(i))
    BY <2>1, <1>7
  <2> HIDE DEF place, Upto
  <2> QED BY <2>2, <1>5
<1>10. \A i \in P : s[i] \in T /\ s[i] \in S /\ s[i] \in RecordsIn(s)
  BY <1>1 DEF RecordsIn
<1>11. \A i \in P : Cardinality(Upto(i)) \in 1 .. N
  BY <1>3
<1>12. RecordsIn(s) \cap S = {s[i] : i \in P}
  BY DEF RecordsIn
<1> HIDE DEF place, Upto, N, P, f
<1>13. Filtered(s, S) \in Seq(T)
  <2>1. \A n \in 1 .. N : s[place(n)] \in T
    BY <1>7, <1>10
  <2> QED BY <1>2, <1>8, <2>1
<1>14. RecordsIn(Filtered(s, S)) = {s[place(n)] : n \in 1 .. N}
  BY <1>8, <1>2 DEF RecordsIn
<1>15. {s[place(n)] : n \in 1 .. N} = {s[i] : i \in P}
  BY <1>7, <1>9, <1>11
<1> QED BY <1>12, <1>13, <1>14, <1>15

\* What is appended to a sequence is in it beside the rest.
LEMMA AppendedMembers ==
    ASSUME NEW T, NEW s \in Seq(T), NEW x \in T
    PROVE  RecordsIn(Append(s, x)) = RecordsIn(s) \cup {x}
<1>1. Len(s) + 1 \in 1 .. Len(s) + 1
  OBVIOUS
<1> QED BY <1>1, AppendedPlaces DEF RecordsIn

LEMMA JoinedMembers ==
    ASSUME NEW T, NEW p \in Seq(T), NEW q \in Seq(T)
    PROVE  RecordsIn(p \o q) = RecordsIn(p) \cup RecordsIn(q)
<1> DEFINE a == Len(p)
           b == Len(q)
           s == p \o q
<1>1. /\ a \in Nat /\ b \in Nat /\ DOMAIN p = 1 .. a /\ DOMAIN q = 1 .. b
      /\ DOMAIN s = 1 .. a + b
      /\ \A i \in 1 .. a : s[i] = p[i]
      /\ \A i \in 1 .. b : s[a + i] = q[i]
      /\ \A i \in 1 .. a + b : s[i] = IF i <= a THEN p[i] ELSE q[i - a]
  BY JoinedPlaces
<1> HIDE DEF a, b, s
<1>2. \A i \in DOMAIN s : s[i] \in RecordsIn(p) \cup RecordsIn(q)
  <2> SUFFICES ASSUME NEW i \in DOMAIN s PROVE s[i] \in RecordsIn(p) \cup RecordsIn(q)
    OBVIOUS
  <2>1. i \in 1 .. a \/ i - a \in 1 .. b
    BY <1>1
  <2> QED BY <1>1, <2>1 DEF RecordsIn
<1>3. \A i \in DOMAIN p : p[i] \in RecordsIn(s)
  <2> SUFFICES ASSUME NEW i \in DOMAIN p PROVE p[i] \in RecordsIn(s)
    OBVIOUS
  <2>1. i \in 1 .. a + b /\ i \in 1 .. a
    BY <1>1
  <2> QED BY <1>1, <2>1 DEF RecordsIn
<1>4. \A i \in DOMAIN q : q[i] \in RecordsIn(s)
  <2> SUFFICES ASSUME NEW i \in DOMAIN q PROVE q[i] \in RecordsIn(s)
    OBVIOUS
  <2>1. a + i \in 1 .. a + b /\ i \in 1 .. b
    BY <1>1
  <2> QED BY <1>1, <2>1 DEF RecordsIn
<1>5. RecordsIn(s) = RecordsIn(p) \cup RecordsIn(q)
  BY <1>2, <1>3, <1>4 DEF RecordsIn
<1> QED BY <1>5 DEF s

-----------------------------------------------------------------------------
(* The scheduled thread: its tasks *)

LogBuf == [room : Int, recs : Seq(Nat)]
LogTask == [log : Log, buf : LogBuf]

LEMMA TaskFields ==
    /\ \A b \in LogBuf : b.room \in Int /\ b.recs \in Seq(Nat)
    /\ \A t \in LogTask : t.log \in Log /\ t.buf \in LogBuf /\ t.buf.recs \in Seq(Nat)
    /\ NoBuffer \in LogBuf /\ NoBuffer.recs = <<>>
    /\ \A l \in Log, b \in LogBuf : /\ [log |-> l, buf |-> b] \in LogTask
                                    /\ [log |-> l, buf |-> b].log = l
                                    /\ [log |-> l, buf |-> b].buf = b
BY DEF LogBuf, LogTask, NoBuffer

\* A log's tasks are finitely many.
LEMMA TasksFinite ==
    ASSUME NEW q \in Seq(LogTask), NEW l
    PROVE  IsFiniteSet(TasksOf(q, l)) /\ Cardinality(TasksOf(q, l)) \in Nat
<1>1. Len(q) \in Nat /\ DOMAIN q = 1 .. Len(q)
  OBVIOUS
<1>2. TasksOf(q, l) \in SUBSET (1 .. Len(q))
  BY <1>1 DEF TasksOf
<1>3. IsFiniteSet(1 .. Len(q))
  BY <1>1, FS_Interval
<1> QED BY <1>2, <1>3, FS_Subset, FS_CardinalityType

\* The places of a log's tasks when the first task is taken and when one is added.
FirstTaken(q, t, l) ==
    /\ \A i \in TasksOf(t, l) :
          i \in Nat /\ i + 1 \in TasksOf(q, l) /\ i + 1 # 1 /\ t[i] = q[i + 1]
    /\ \A i \in TasksOf(q, l) \ {1} :
          i - 1 \in TasksOf(t, l) /\ i \in Nat /\ t[i - 1] = q[i]
    /\ 1 \in TasksOf(q, l) <=> q[1].log = l

LastAdded(q, a, x, l) ==
    \E k \in Nat :
        /\ TasksOf(a, l) = IF x.log = l THEN TasksOf(q, l) \cup {k} ELSE TasksOf(q, l)
        /\ \A i \in TasksOf(q, l) : i \in Nat /\ i < k /\ a[i] = q[i]
        /\ a[k] = x

LEMMA TasksAfterFirst ==
    ASSUME NEW q \in Seq(LogTask), NEW l, q # <<>>
    PROVE  FirstTaken(q, Tail(q), l)
<1> DEFINE n == Len(q)
           t == Tail(q)
<1>1. /\ n \in Nat /\ n >= 1 /\ DOMAIN q = 1 .. n
      /\ DOMAIN t = 1 .. n - 1
      /\ \A i \in 1 .. n - 1 : t[i] = q[i + 1]
  BY HeadAndTail
<1> HIDE DEF n, t
<1>3. \A i \in TasksOf(t, l) : i \in Nat /\ i + 1 \in TasksOf(q, l) /\ i + 1 # 1 /\ t[i] = q[i + 1]
  BY <1>1 DEF TasksOf
<1>4. ASSUME NEW i \in TasksOf(q, l) \ {1}
      PROVE  i - 1 \in TasksOf(t, l) /\ i \in Nat /\ t[i - 1] = q[i]
  <2>1. i \in 1 .. n /\ i # 1 /\ q[i].log = l
    BY <1>1 DEF TasksOf
  <2>2. i - 1 \in 1 .. n - 1 /\ (i - 1) + 1 = i
    BY <1>1, <2>1
  <2>3. t[i - 1] = q[i]
    BY <1>1, <2>2
  <2> QED BY <1>1, <2>1, <2>2, <2>3 DEF TasksOf
<1>5. 1 \in TasksOf(q, l) <=> q[1].log = l
  BY <1>1 DEF TasksOf
<1>6. FirstTaken(q, t, l)
  BY <1>3, <1>4, <1>5 DEF FirstTaken
<1> QED BY <1>6 DEF t

LEMMA TasksAfterLast ==
    ASSUME NEW q \in Seq(LogTask), NEW x \in LogTask, NEW l
    PROVE  LastAdded(q, Append(q, x), x, l)
<1> DEFINE n == Len(q)
           a == Append(q, x)
<1>1. /\ n \in Nat /\ DOMAIN q = 1 .. n
      /\ DOMAIN a = 1 .. n + 1
      /\ \A i \in 1 .. n : a[i] = q[i]
      /\ a[n + 1] = x
  BY AppendedPlaces
<1> HIDE DEF n, a
<1>2. 1 .. n + 1 = (1 .. n) \cup {n + 1} /\ n + 1 \notin 1 .. n /\ n + 1 \in Nat
  BY <1>1
<1>3. TasksOf(a, l) = IF x.log = l THEN TasksOf(q, l) \cup {n + 1} ELSE TasksOf(q, l)
  BY <1>1, <1>2 DEF TasksOf
<1>4. \A i \in TasksOf(q, l) : i \in Nat /\ i < n + 1 /\ a[i] = q[i]
  BY <1>1 DEF TasksOf
<1>5. LastAdded(q, a, x, l)
  BY <1>1, <1>2, <1>3, <1>4 DEF LastAdded
<1> QED BY <1>5 DEF a

\* A log has one task less when the first is taken and was its own, and one more
\* when one is added.
LEMMA FirstCounted ==
    ASSUME NEW q \in Seq(LogTask), q # <<>>, NEW l
    PROVE  Cardinality(TasksOf(Tail(q), l))
              = Cardinality(TasksOf(q, l)) - (IF Head(q).log = l THEN 1 ELSE 0)
<1> DEFINE A == TasksOf(q, l)
           B == TasksOf(Tail(q), l)
           f == [i \in A \ {1} |-> i - 1]
<1>1. /\ \A i \in B : i \in Nat /\ i + 1 \in A /\ i + 1 # 1
      /\ \A i \in A \ {1} : i - 1 \in B /\ i \in Nat
      /\ 1 \in A <=> Head(q).log = l
  <2>1. FirstTaken(q, Tail(q), l) /\ Head(q) = q[1]
    BY TasksAfterFirst, HeadAndTail
  <2> QED BY <2>1 DEF FirstTaken
<1>2. IsFiniteSet(A) /\ Cardinality(A) \in Nat
  BY TasksFinite
<1> HIDE DEF A, B
<1>3. f \in Injection(A \ {1}, B)
  <2>1. f \in [A \ {1} -> B]
    BY <1>1
  <2>2. \A i, j \in A \ {1} : f[i] = f[j] => i = j
    BY <1>1
  <2> QED BY <2>1, <2>2 DEF Injection, IsInjective
<1>4. f \in Surjection(A \ {1}, B)
  <2>1. f \in [A \ {1} -> B]
    BY <1>1
  <2>2. \A i \in B : i + 1 \in A \ {1} /\ f[i + 1] = i
    BY <1>1
  <2> QED BY <2>1, <2>2 DEF Surjection
<1>5. ExistsBijection(A \ {1}, B)
  BY <1>3, <1>4 DEF ExistsBijection, Bijection
<1>6. IsFiniteSet(A \ {1})
      /\ Cardinality(A \ {1}) = IF 1 \in A THEN Cardinality(A) - 1 ELSE Cardinality(A)
  BY <1>2, FS_RemoveElement
<1>7. Cardinality(B) = Cardinality(A \ {1})
  BY <1>5, <1>6, FS_Bijection
<1> QED BY <1>1, <1>2, <1>6, <1>7 DEF A, B

LEMMA LastCounted ==
    ASSUME NEW q \in Seq(LogTask), NEW t \in LogTask, NEW l
    PROVE  Cardinality(TasksOf(Append(q, t), l))
              = Cardinality(TasksOf(q, l)) + (IF t.log = l THEN 1 ELSE 0)
<1>1. IsFiniteSet(TasksOf(q, l)) /\ Cardinality(TasksOf(q, l)) \in Nat
  BY TasksFinite
<1>2. PICK k \in Nat :
          /\ TasksOf(Append(q, t), l) = IF t.log = l THEN TasksOf(q, l) \cup {k} ELSE TasksOf(q, l)
          /\ \A i \in TasksOf(q, l) : i \in Nat /\ i < k
  BY TasksAfterLast DEF LastAdded
<1>3. k \notin TasksOf(q, l)
  BY <1>2
<1>4. CASE t.log = l
  <2>1. TasksOf(Append(q, t), l) = TasksOf(q, l) \cup {k}
    BY <1>2, <1>4
  <2> QED BY <1>1, <1>3, <1>4, <2>1, FS_AddElement
<1>5. CASE t.log # l
  <2>1. TasksOf(Append(q, t), l) = TasksOf(q, l)
    BY <1>2, <1>5
  <2> QED BY <1>1, <1>5, <2>1
<1> QED BY <1>4, <1>5

\* The queues: taking from the first, adding to the second, changing places.
LEMMA QueueMoves ==
    ASSUME NEW p \in Seq(LogTask), NEW q \in Seq(LogTask)
    PROVE  /\ p # <<>> => Tail(p) \o q = Tail(p \o q) /\ Head(p) = Head(p \o q) /\ p \o q # <<>>
           /\ \A t \in LogTask : p \o Append(q, t) = Append(p \o q, t)
           /\ <<>> \o q = q /\ q \o <<>> = q
OBVIOUS

-----------------------------------------------------------------------------
(* The scheduled thread: records in one place each *)

Once(d) == \A i, j \in DOMAIN d : d[i] = d[j] => i = j

\* Records written behind others.
LEMMA WrittenOnce ==
    ASSUME NEW d \in Seq(Nat), NEW r \in Seq(Nat), Once(d), Ascending(r),
           RecordsIn(d) \cap RecordsIn(r) = {}
    PROVE  Once(d \o r)
<1> DEFINE a == Len(d)
           b == Len(r)
           s == d \o r
<1>1. /\ a \in Nat /\ b \in Nat /\ DOMAIN d = 1 .. a /\ DOMAIN r = 1 .. b
      /\ DOMAIN s = 1 .. a + b
      /\ \A i \in 1 .. a + b : s[i] = IF i <= a THEN d[i] ELSE r[i - a]
  BY JoinedPlaces
<1> HIDE DEF a, b, s
<1>2. \A i, j \in 1 .. b : r[i] = r[j] => i = j
  <2> SUFFICES ASSUME NEW i \in 1 .. b, NEW j \in 1 .. b, i # j PROVE r[i] # r[j]
    OBVIOUS
  <2>1. i < j \/ j < i
    OBVIOUS
  <2>2. r[i] \in Nat /\ r[j] \in Nat
    BY <1>1
  <2>3. r[i] < r[j] \/ r[j] < r[i]
    BY <1>1, <2>1 DEF Ascending
  <2> QED BY <2>2, <2>3
<1>3. \A i \in 1 .. a, j \in 1 .. b : d[i] # r[j]
  BY <1>1 DEF RecordsIn
<1>4. \A i, j \in 1 .. a : d[i] = d[j] => i = j
  BY <1>1 DEF Once
<1>5. ASSUME NEW i \in 1 .. a + b, NEW j \in 1 .. a + b, s[i] = s[j]
      PROVE  i = j
  <2>1. CASE i <= a /\ j <= a
    BY <1>1, <1>4, <1>5, <2>1
  <2>2. CASE i <= a /\ ~(j <= a)
    <3>1. i \in 1 .. a /\ j - a \in 1 .. b
      BY <1>1, <2>2
    <3> QED BY <1>1, <1>3, <1>5, <2>2, <3>1
  <2>3. CASE ~(i <= a) /\ j <= a
    <3>1. j \in 1 .. a /\ i - a \in 1 .. b
      BY <1>1, <2>3
    <3> QED BY <1>1, <1>3, <1>5, <2>3, <3>1
  <2>4. CASE ~(i <= a) /\ ~(j <= a)
    <3>1. i - a \in 1 .. b /\ j - a \in 1 .. b /\ r[i - a] = r[j - a]
      BY <1>1, <1>5, <2>4
    <3>2. i - a = j - a
      BY <1>2, <3>1
    <3> QED BY <1>1, <3>2
  <2> QED BY <2>1, <2>2, <2>3, <2>4
<1>6. Once(s)
  BY <1>1, <1>5 DEF Once
<1> QED BY <1>6 DEF s

\* The records of a log in memory, one by one.
LEMMA MemoryParts ==
    ASSUME NEW q, NEW b, NEW l
    PROVE  \A x : x \in InMemory(q, b, l) <=>
                  \/ x \in RecordsIn(b.recs)
                  \/ \E i \in TasksOf(q, l) : x \in RecordsIn(q[i].buf.recs)
BY DEF InMemory

\* One ascending sequence behind another with smaller members is ascending.
LEMMA AscendingJoined ==
    ASSUME NEW d \in Seq(Nat), NEW r \in Seq(Nat), Ascending(d), Ascending(r),
           \A x \in RecordsIn(d), y \in RecordsIn(r) : x < y
    PROVE  Ascending(d \o r)
<1> DEFINE a == Len(d)
           b == Len(r)
           s == d \o r
<1>1. /\ a \in Nat /\ b \in Nat /\ DOMAIN d = 1 .. a /\ DOMAIN r = 1 .. b
      /\ DOMAIN s = 1 .. a + b
      /\ \A i \in 1 .. a + b : s[i] = IF i <= a THEN d[i] ELSE r[i - a]
  BY JoinedPlaces
<1> HIDE DEF a, b, s
<1>2. \A i \in 1 .. a, j \in 1 .. b : d[i] < r[j]
  BY <1>1 DEF RecordsIn
<1>3. ASSUME NEW i \in 1 .. a + b, NEW j \in 1 .. a + b, i < j
      PROVE  s[i] < s[j]
  <2>1. CASE j <= a
    BY <1>1, <1>3, <2>1 DEF Ascending
  <2>2. CASE i <= a /\ ~(j <= a)
    <3>1. i \in 1 .. a /\ j - a \in 1 .. b
      BY <1>1, <2>2
    <3> QED BY <1>1, <1>2, <2>2, <3>1
  <2>3. CASE ~(i <= a)
    <3>1. i - a \in 1 .. b /\ j - a \in 1 .. b /\ i - a < j - a /\ ~(j <= a)
      BY <1>1, <1>3, <2>3
    <3> QED BY <1>1, <2>3, <3>1 DEF Ascending
  <2> QED BY <2>1, <2>2, <2>3
<1>4. Ascending(s)
  BY <1>1, <1>3 DEF Ascending
<1> QED BY <1>4 DEF s

\* A buffer with the same records, and the queue and the log's files as they were.
LEMMA SameRecords ==
    ASSUME NEW q, NEW b, NEW c, NEW d, NEW n, NEW l, NEW o,
           Accounted(q, b, d, n, l, o), c.recs = b.recs
    PROVE  Accounted(q, c, d, n, l, o)
BY DEF Accounted, InMemory, InPushOrder, InFileOrder

\* The buffer of a log becomes its last task.
LEMMA KeptBySubmit ==
    ASSUME NEW l \in Log, NEW q \in Seq(LogTask), NEW b \in LogBuf, NEW d, NEW n, NEW o,
           Accounted(q, b, d, n, l, o)
    PROVE  Accounted(Append(q, [log |-> l, buf |-> b]), NoBuffer, d, n, l, o)
<1> DEFINE t == [log |-> l, buf |-> b]
           a == Append(q, t)
<1>1. t \in LogTask /\ t.log = l /\ t.buf = b /\ NoBuffer.recs = <<>>
  BY TaskFields
<1> HIDE DEF t
<1>a. LastAdded(q, a, t, l)
  BY <1>1, TasksAfterLast
<1> HIDE DEF a
<1>2. PICK k \in Nat :
          /\ TasksOf(a, l) = TasksOf(q, l) \cup {k}
          /\ \A i \in TasksOf(q, l) : i \in Nat /\ i < k /\ a[i] = q[i]
          /\ a[k] = t
  BY <1>1, <1>a DEF LastAdded
<1>3. /\ InPushOrder(q, b, l) /\ Once(d)
      /\ RecordsIn(d) \cap InMemory(q, b, l) = {}
      /\ RecordsIn(d) \cup InMemory(q, b, l) = 1 .. n
  BY DEF Accounted, Once
<1>4. RecordsIn(<<>>) = {} /\ Ascending(<<>>) /\ \A s : Precedes(s, <<>>)
  BY DEF RecordsIn, Ascending, Precedes
<1>5. InMemory(a, NoBuffer, l) = InMemory(q, b, l)
  <2>1. \A x : x \in InMemory(a, NoBuffer, l) <=>
                  \E i \in TasksOf(q, l) \cup {k} : x \in RecordsIn(a[i].buf.recs)
    BY <1>1, <1>2, <1>4, MemoryParts
  <2>2. \A x : x \in InMemory(a, NoBuffer, l) <=> x \in InMemory(q, b, l)
    BY <1>1, <1>2, <2>1, MemoryParts
  <2> QED BY <2>2
<1>6. InPushOrder(a, NoBuffer, l)
  <2>1. ASSUME NEW i \in TasksOf(a, l)
        PROVE  Ascending(a[i].buf.recs)
    BY <1>1, <1>2, <1>3, <2>1 DEF InPushOrder
  <2>2. ASSUME NEW i \in TasksOf(a, l), NEW j \in TasksOf(a, l), i < j
        PROVE  Precedes(a[i].buf.recs, a[j].buf.recs)
    <3>1. i \in TasksOf(q, l)
      BY <1>2, <2>2
    <3>2. CASE j \in TasksOf(q, l)
      BY <1>2, <1>3, <2>2, <3>1, <3>2 DEF InPushOrder
    <3>3. CASE j = k
      BY <1>1, <1>2, <1>3, <3>1, <3>3 DEF InPushOrder
    <3> QED BY <1>2, <3>2, <3>3
  <2> QED BY <1>1, <1>4, <2>1, <2>2 DEF InPushOrder
<1>7. InFileOrder(q, b, d, l) => InFileOrder(a, NoBuffer, d, l)
  BY <1>5 DEF InFileOrder
<1>8. Accounted(a, NoBuffer, d, n, l, o)
  BY <1>3, <1>5, <1>6, <1>7 DEF Accounted, Once
<1> QED BY <1>8 DEF a, t

\* A task of another log is added.
LEMMA KeptBesideSubmit ==
    ASSUME NEW q \in Seq(LogTask), NEW t \in LogTask, NEW b, NEW d, NEW n, NEW l, NEW o,
           t.log # l, Accounted(q, b, d, n, l, o)
    PROVE  Accounted(Append(q, t), b, d, n, l, o)
<1> DEFINE a == Append(q, t)
<1>a. LastAdded(q, a, t, l)
  BY TasksAfterLast
<1> HIDE DEF a
<1>1. /\ TasksOf(a, l) = TasksOf(q, l)
      /\ \A i \in TasksOf(q, l) : a[i] = q[i]
  BY <1>a DEF LastAdded
<1>2. InMemory(a, b, l) = InMemory(q, b, l)
  <2>1. \A x : x \in InMemory(a, b, l) <=> x \in InMemory(q, b, l)
    BY <1>1, MemoryParts
  <2> QED BY <2>1
<1>3. InPushOrder(q, b, l) => InPushOrder(a, b, l)
  BY <1>1 DEF InPushOrder
<1>4. InFileOrder(q, b, d, l) => InFileOrder(a, b, d, l)
  BY <1>2 DEF InFileOrder
<1>5. Accounted(a, b, d, n, l, o)
  BY <1>2, <1>3, <1>4 DEF Accounted
<1> QED BY <1>5 DEF a

\* The first task is taken: what is left is in the order of before.
LEMMA OrderAfterFirst ==
    ASSUME NEW q \in Seq(LogTask), q # <<>>, NEW b, NEW l, InPushOrder(q, b, l)
    PROVE  InPushOrder(Tail(q), b, l)
<1> DEFINE t == Tail(q)
<1>a. FirstTaken(q, t, l)
  BY TasksAfterFirst
<1>1. \A i \in TasksOf(t, l) : i \in Nat /\ i + 1 \in TasksOf(q, l) /\ t[i] = q[i + 1]
  BY <1>a, Zenon DEF FirstTaken
<1> HIDE DEF t
<1>2. \A i, j \in TasksOf(t, l) : i < j => i + 1 < j + 1
  BY <1>1
<1>3. \A i \in TasksOf(t, l) : Ascending(t[i].buf.recs) /\ Precedes(t[i].buf.recs, b.recs)
  BY <1>1 DEF InPushOrder
<1>4. \A i, j \in TasksOf(t, l) : i < j => Precedes(t[i].buf.recs, t[j].buf.recs)
  BY <1>1, <1>2 DEF InPushOrder
<1>5. InPushOrder(t, b, l)
  BY <1>3, <1>4 DEF InPushOrder
<1> QED BY <1>5 DEF t

\* The first task is of log l: its records go behind those of the files.
LEMMA KeptByInvoke ==
    ASSUME NEW q \in Seq(LogTask), q # <<>>, NEW l, Head(q).log = l,
           NEW b \in LogBuf, NEW d \in Seq(Nat), NEW n, NEW o,
           Accounted(q, b, d, n, l, o)
    PROVE  Accounted(Tail(q), b, d \o Head(q).buf.recs, n, l, o)
<1> DEFINE t == Tail(q)
           r == Head(q).buf.recs
<1>a. FirstTaken(q, t, l) /\ Head(q) = q[1]
  BY TasksAfterFirst, HeadAndTail
<1>1. /\ \A i \in TasksOf(t, l) : i \in Nat /\ i + 1 \in TasksOf(q, l) /\ i + 1 # 1 /\ t[i] = q[i + 1]
      /\ \A i \in TasksOf(q, l) \ {1} : i - 1 \in TasksOf(t, l) /\ t[i - 1] = q[i]
      /\ 1 \in TasksOf(q, l)
  BY <1>a, Zenon DEF FirstTaken
<1>2. Head(q) = q[1] /\ Head(q) \in LogTask
  BY HeadAndTail
<1>3. r \in Seq(Nat) /\ r = q[1].buf.recs
  BY <1>2, TaskFields
<1>4. InPushOrder(t, b, l)
  BY OrderAfterFirst DEF Accounted
<1> HIDE DEF t, r
<1>5. /\ InPushOrder(q, b, l) /\ Once(d)
      /\ RecordsIn(d) \cap InMemory(q, b, l) = {}
      /\ RecordsIn(d) \cup InMemory(q, b, l) = 1 .. n
  BY DEF Accounted, Once
<1>6. InMemory(q, b, l) = RecordsIn(r) \cup InMemory(t, b, l)
  <2>1. \A x : x \in InMemory(q, b, l) => x \in RecordsIn(r) \/ x \in InMemory(t, b, l)
    BY <1>1, <1>3, MemoryParts
  <2>2. \A x : x \in RecordsIn(r) \/ x \in InMemory(t, b, l) => x \in InMemory(q, b, l)
    BY <1>1, <1>3, MemoryParts, SMTT(30)
  <2> QED BY <2>1, <2>2
<1>7. ASSUME NEW x \in RecordsIn(r), NEW y \in InMemory(t, b, l) PROVE x < y
  <2>1. PICK k \in DOMAIN r : x = r[k]
    BY DEF RecordsIn
  <2>2. CASE y \in RecordsIn(b.recs)
    <3>1. PICK m \in DOMAIN b.recs : y = b.recs[m]
      BY <2>2 DEF RecordsIn
    <3>2. r[k] < b.recs[m]
      BY <1>1, <1>3, <1>5 DEF InPushOrder, Precedes
    <3> QED BY <2>1, <3>1, <3>2
  <2>3. CASE \E i \in TasksOf(t, l) : y \in RecordsIn(t[i].buf.recs)
    <3>1. PICK i \in TasksOf(t, l) : y \in RecordsIn(t[i].buf.recs)
      BY <2>3
    <3>2. i \in Nat /\ i + 1 \in TasksOf(q, l) /\ i + 1 # 1 /\ t[i] = q[i + 1] /\ 1 < i + 1
      BY <1>1
    <3>3. PICK m \in DOMAIN t[i].buf.recs : y = t[i].buf.recs[m]
      BY <3>1 DEF RecordsIn
    <3>4. Precedes(q[1].buf.recs, q[i + 1].buf.recs)
      BY <1>1, <1>5, <3>2 DEF InPushOrder
    <3>5. r[k] < t[i].buf.recs[m]
      BY <1>3, <3>2, <3>4 DEF Precedes
    <3> QED BY <2>1, <3>3, <3>5
  <2> QED BY <2>2, <2>3, MemoryParts
<1>b. RecordsIn(r) \cap InMemory(t, b, l) = {}
  <2>1. \A x \in RecordsIn(r) : x \in Nat
    BY <1>3 DEF RecordsIn
  <2> QED BY <1>7, <2>1
<1>8. RecordsIn(d \o r) = RecordsIn(d) \cup RecordsIn(r)
  BY <1>3, JoinedMembers
<1>9. Once(d \o r)
  <2>1. Ascending(r)
    BY <1>1, <1>3, <1>5 DEF InPushOrder
  <2>2. RecordsIn(d) \cap RecordsIn(r) = {}
    BY <1>5, <1>6
  <2> QED BY <1>3, <1>5, <2>1, <2>2, WrittenOnce
<1>10. /\ RecordsIn(d \o r) \cap InMemory(t, b, l) = {}
       /\ RecordsIn(d \o r) \cup InMemory(t, b, l) = 1 .. n
  BY <1>5, <1>6, <1>b, <1>8
<1>11. ASSUME InFileOrder(q, b, d, l) PROVE InFileOrder(t, b, d \o r, l)
  <2>1. Ascending(d) /\ \A x \in RecordsIn(d), y \in InMemory(q, b, l) : x < y
    BY <1>11 DEF InFileOrder
  <2>2. Ascending(r)
    BY <1>1, <1>3, <1>5 DEF InPushOrder
  <2>3. Ascending(d \o r)
    BY <1>3, <1>6, <2>1, <2>2, AscendingJoined
  <2>4. \A x \in RecordsIn(d \o r), y \in InMemory(t, b, l) : x < y
    BY <1>6, <1>7, <1>8, <2>1
  <2> QED BY <2>3, <2>4 DEF InFileOrder
<1>12. Accounted(t, b, d \o r, n, l, o)
  BY <1>4, <1>9, <1>10, <1>11 DEF Accounted, Once
<1> QED BY <1>12 DEF t, r

\* The first task is of another log.
LEMMA KeptBesideInvoke ==
    ASSUME NEW q \in Seq(LogTask), q # <<>>, NEW l, Head(q).log # l,
           NEW b, NEW d, NEW n, NEW o, Accounted(q, b, d, n, l, o)
    PROVE  Accounted(Tail(q), b, d, n, l, o)
<1> DEFINE t == Tail(q)
<1>a. FirstTaken(q, t, l) /\ Head(q) = q[1]
  BY TasksAfterFirst, HeadAndTail
<1>1. /\ \A i \in TasksOf(t, l) : i + 1 \in TasksOf(q, l) /\ t[i] = q[i + 1]
      /\ \A i \in TasksOf(q, l) \ {1} : i - 1 \in TasksOf(t, l) /\ t[i - 1] = q[i]
      /\ 1 \notin TasksOf(q, l)
  BY <1>a, Zenon DEF FirstTaken
<1>2. InPushOrder(t, b, l)
  BY OrderAfterFirst DEF Accounted
<1> HIDE DEF t
<1>3. InMemory(t, b, l) = InMemory(q, b, l)
  <2>1. \A x : x \in InMemory(t, b, l) => x \in InMemory(q, b, l)
    BY <1>1, MemoryParts
  <2>2. \A x : x \in InMemory(q, b, l) => x \in InMemory(t, b, l)
    BY <1>1, MemoryParts
  <2> QED BY <2>1, <2>2
<1>4. InFileOrder(q, b, d, l) => InFileOrder(t, b, d, l)
  BY <1>3 DEF InFileOrder
<1>5. Accounted(t, b, d, n, l, o)
  BY <1>2, <1>3, <1>4 DEF Accounted
<1> QED BY <1>5 DEF t

\* A record is pushed into the buffer.
LEMMA KeptByPush ==
    ASSUME NEW q \in Seq(LogTask), NEW l, NEW b \in LogBuf, NEW c, NEW d \in Seq(Nat),
           NEW n \in Nat, NEW o, Accounted(q, b, d, n, l, o), c.recs = Append(b.recs, n + 1)
    PROVE  Accounted(q, c, d, n + 1, l, o)
<1>1. b.recs \in Seq(Nat)
  BY TaskFields
<1>2. /\ InPushOrder(q, b, l) /\ Once(d)
      /\ RecordsIn(d) \cap InMemory(q, b, l) = {}
      /\ RecordsIn(d) \cup InMemory(q, b, l) = 1 .. n
  BY DEF Accounted, Once
<1>3. RecordsIn(c.recs) = RecordsIn(b.recs) \cup {n + 1}
  <2>1. n + 1 \in Nat
    OBVIOUS
  <2> DEFINE m == n + 1
             e == b.recs
  <2>2. e \in Seq(Nat) /\ m \in Nat
    BY <1>1, <2>1
  <2> HIDE DEF m, e
  <2>3. RecordsIn(Append(e, m)) = RecordsIn(e) \cup {m}
    BY ONLY <2>2, AppendedMembers
  <2> QED BY <2>3 DEF m, e
<1>4. InMemory(q, c, l) = InMemory(q, b, l) \cup {n + 1}
  <2>1. \A x : x \in InMemory(q, c, l) <=> x \in InMemory(q, b, l) \/ x = n + 1
    BY <1>3, MemoryParts
  <2> QED BY <2>1
<1>5. n + 1 \notin 1 .. n /\ 1 .. n + 1 = (1 .. n) \cup {n + 1}
  OBVIOUS
<1>6. \A x \in InMemory(q, b, l) : x \in Nat /\ x < n + 1
  BY <1>2
<1>7. InPushOrder(q, c, l)
  <2> DEFINE m == Len(b.recs)
             e == b.recs
             g == c.recs
  <2>1. /\ m \in Nat /\ DOMAIN e = 1 .. m /\ DOMAIN g = 1 .. m + 1
        /\ \A i \in 1 .. m : g[i] = e[i]
        /\ g[m + 1] = n + 1
    BY <1>1, AppendedPlaces
  <2>2. Ascending(e)
    BY <1>2 DEF InPushOrder
  <2> HIDE DEF m, e, g
  <2>3. \A i \in 1 .. m : e[i] < n + 1
    <3>1. \A i \in 1 .. m : e[i] \in RecordsIn(b.recs)
      BY <2>1 DEF RecordsIn, e
    <3> QED BY <1>6, <3>1, MemoryParts
  <2>4. Ascending(g)
    <3> SUFFICES ASSUME NEW i \in 1 .. m + 1, NEW j \in 1 .. m + 1, i < j PROVE g[i] < g[j]
      BY <2>1 DEF Ascending
    <3>1. i \in 1 .. m /\ (j \in 1 .. m \/ j = m + 1)
      BY <2>1
    <3> QED BY <2>1, <2>2, <2>3, <3>1 DEF Ascending
  <2>5. ASSUME NEW i \in TasksOf(q, l)
        PROVE  Precedes(q[i].buf.recs, g)
    <3> SUFFICES ASSUME NEW k \in DOMAIN q[i].buf.recs, NEW j \in 1 .. m + 1
                 PROVE  q[i].buf.recs[k] < g[j]
      BY <2>1 DEF Precedes
    <3>1. q[i].buf.recs[k] \in InMemory(q, b, l)
      BY MemoryParts DEF RecordsIn
    <3>2. CASE j = m + 1
      BY <1>6, <2>1, <3>1, <3>2
    <3>3. CASE j \in 1 .. m
      <4>1. q[i].buf.recs[k] < e[j]
        BY <1>2, <2>1, <3>3 DEF InPushOrder, Precedes, e
      <4> QED BY <2>1, <3>3, <4>1
    <3> QED BY <2>1, <3>2, <3>3
  <2> QED BY <1>2, <2>4, <2>5 DEF InPushOrder, g
<1>8. /\ RecordsIn(d) \cap InMemory(q, c, l) = {}
      /\ RecordsIn(d) \cup InMemory(q, c, l) = 1 .. n + 1
  BY <1>2, <1>4, <1>5
<1>9. InFileOrder(q, b, d, l) => InFileOrder(q, c, d, l)
  <2>1. \A x \in RecordsIn(d) : x < n + 1
    BY <1>2
  <2> QED BY <1>4, <2>1 DEF InFileOrder
<1> QED BY <1>2, <1>7, <1>8, <1>9 DEF Accounted, Once

\* The buffer is written by a flush and emptied; p are the logs overtaken then.
LEMMA KeptByFlush ==
    ASSUME NEW q \in Seq(LogTask), NEW l, NEW b \in LogBuf, NEW c, NEW d \in Seq(Nat),
           NEW n, NEW o, NEW p, Accounted(q, b, d, n, l, o), c.recs = <<>>,
           l \in o => l \in p,
           b.recs # <<>> /\ TasksOf(q, l) # {} => l \in p
    PROVE  Accounted(q, c, d \o b.recs, n, l, p)
<1>1. b.recs \in Seq(Nat)
  BY TaskFields
<1> DEFINE r == b.recs
<1>2. /\ InPushOrder(q, b, l) /\ Once(d)
      /\ RecordsIn(d) \cap InMemory(q, b, l) = {}
      /\ RecordsIn(d) \cup InMemory(q, b, l) = 1 .. n
  BY DEF Accounted, Once
<1>3. RecordsIn(<<>>) = {} /\ Ascending(<<>>) /\ \A s : Precedes(s, <<>>)
  BY DEF RecordsIn, Ascending, Precedes
<1>4. InMemory(q, b, l) = RecordsIn(r) \cup InMemory(q, c, l)
  <2>1. \A x : x \in InMemory(q, b, l) <=> x \in RecordsIn(r) \/ x \in InMemory(q, c, l)
    BY <1>3, MemoryParts
  <2> QED BY <2>1
<1> HIDE DEF r
<1>5. RecordsIn(r) \cap InMemory(q, c, l) = {}
  <2> SUFFICES ASSUME NEW x \in RecordsIn(r), x \in InMemory(q, c, l) PROVE FALSE
    OBVIOUS
  <2>1. PICK k \in DOMAIN r : x = r[k]
    BY DEF RecordsIn
  <2>2. x \in Nat
    BY <1>1, <2>1 DEF r
  <2>3. PICK i \in TasksOf(q, l) : x \in RecordsIn(q[i].buf.recs)
    BY <1>3, MemoryParts
  <2>4. PICK m \in DOMAIN q[i].buf.recs : x = q[i].buf.recs[m]
    BY <2>3 DEF RecordsIn
  <2>5. q[i].buf.recs[m] < r[k]
    BY <1>2, <2>3, <2>4 DEF InPushOrder, Precedes, r
  <2> QED BY <2>1, <2>2, <2>4, <2>5
<1>6. RecordsIn(d \o r) = RecordsIn(d) \cup RecordsIn(r)
  BY <1>1, JoinedMembers DEF r
<1>7. Once(d \o r)
  <2>1. Ascending(r)
    BY <1>2 DEF InPushOrder, r
  <2>2. RecordsIn(d) \cap RecordsIn(r) = {}
    BY <1>2, <1>4
  <2> QED BY <1>1, <1>2, <2>1, <2>2, WrittenOnce DEF r
<1>8. InPushOrder(q, c, l)
  BY <1>2, <1>3 DEF InPushOrder
<1>9. /\ RecordsIn(d \o r) \cap InMemory(q, c, l) = {}
      /\ RecordsIn(d \o r) \cup InMemory(q, c, l) = 1 .. n
  BY <1>2, <1>4, <1>5, <1>6
<1>10. ASSUME l \notin p PROVE InFileOrder(q, c, d \o r, l)
  <2>1. Ascending(d) /\ \A x \in RecordsIn(d), y \in InMemory(q, b, l) : x < y
    BY <1>10 DEF Accounted, InFileOrder
  <2>2. Ascending(r)
    BY <1>2 DEF InPushOrder, r
  <2>3. Ascending(d \o r)
    BY <1>1, <1>4, <2>1, <2>2, AscendingJoined DEF r
  <2>4. CASE r = <<>>
    <3>1. RecordsIn(d \o r) = RecordsIn(d)
      BY <1>3, <1>6, <2>4
    <3> QED BY <1>4, <2>1, <2>3, <3>1 DEF InFileOrder
  <2>5. CASE TasksOf(q, l) = {}
    <3>1. InMemory(q, c, l) = {}
      <4>1. \A x : x \notin InMemory(q, c, l)
        BY <1>3, <2>5, MemoryParts
      <4> QED BY <4>1
    <3> QED BY <2>3, <3>1 DEF InFileOrder
  <2> QED BY <1>10, <2>4, <2>5 DEF r
<1>11. Accounted(q, c, d \o r, n, l, p)
  BY <1>7, <1>8, <1>9, <1>10 DEF Accounted, Once
<1> QED BY <1>11 DEF r

-----------------------------------------------------------------------------
(* The scheduled thread: the invariant *)

LogTyped ==
    /\ shutdown \in BOOLEAN /\ logJoined \in BOOLEAN
    /\ schedulers \in Seq(Log)
    /\ sched \in [Log -> [waiting : Nat, need : BOOLEAN, gone : BOOLEAN]]
    /\ ready \in Seq(LogTask) /\ invoking \in Seq(LogTask)
    /\ toFlush \in Seq(Log \cup {NoIter}) /\ flushSpace \in Nat
    /\ logPc \in {"top", "test", "dozing", "asleep", "napping", "invoke", "invokeLast", "invokeFlush",
                  "collect", "flush", "force", "closing", "last", "done"}
    /\ logPool \in Nat
    /\ buffer \in [Log -> LogBuf] /\ disk \in [Log -> Seq(Nat)]
    /\ userPc \in [Log -> {"none", "opening", "open", "pushing", "spinning", "gone"}]
    /\ pushed \in [Log -> Nat]
    /\ destroyed \in SUBSET Log /\ overtaken \in SUBSET Log

\* The queue that is invoked is empty elsewhere, so that the queues can change places.
ThreadPlaced ==
    /\ logPc \notin {"invoke", "invokeLast", "invokeFlush"} => invoking = <<>>
    /\ logPc \in {"closing", "last", "done"} => shutdown
    /\ logJoined => logPc = "done"
    /\ logPc = "force" => toFlush # <<>> /\ Head(toFlush) # NoIter

\* A log in use is scheduled, and so is one that waits for its tasks.
UsersPlaced ==
    \A l \in Log :
        /\ userPc[l] \in {"none", "opening", "spinning", "gone"} => buffer[l].recs = <<>>
        /\ userPc[l] # "gone" => ~sched[l].gone
        /\ ~shutdown /\ userPc[l] \notin {"none", "gone"} => l \in RecordsIn(schedulers)
        /\ ~shutdown /\ sched[l].waiting > 0 => l \in RecordsIn(schedulers)
        /\ l \in destroyed => userPc[l] = "gone"

\* Until the thread closes, waiting_tasks counts the tasks in both queues.
TasksCounted ==
    logPc \notin {"last", "done"} =>
        \A l \in Log : sched[l].waiting = Cardinality(TasksOf(Queue, l))

\* After shutdown no record of a log destroyed before is lost either.
AllAccounted ==
    \A l \in Log : ~shutdown \/ l \in destroyed =>
        Accounted(Queue, buffer[l], disk[l], pushed[l], l, overtaken)

NoneLeft == logPc = "done" => \A l \in destroyed : TasksOf(Queue, l) = {}

LogInv == LogTyped /\ ThreadPlaced /\ UsersPlaced /\ TasksCounted /\ AllAccounted /\ NoneLeft

-----------------------------------------------------------------------------
(* The scheduled thread: what steps leave alone *)

LEMMA QueueTyped == LogTyped => Queue \in Seq(LogTask)
BY DEF LogTyped, Queue

LEMMA EmptyQueue ==
    /\ <<>> \in Seq(LogTask)
    /\ \A l : TasksOf(<<>>, l) = {}
    /\ RecordsIn(<<>>) = {} /\ Ascending(<<>>) /\ \A s : Precedes(s, <<>>)
BY DEF TasksOf, RecordsIn, Ascending, Precedes

\* The records of a log without tasks.
LEMMA WithoutTasks ==
    ASSUME NEW q, NEW r, NEW b, NEW d, NEW n, NEW l, NEW o,
           TasksOf(q, l) = {}, TasksOf(r, l) = {}, Accounted(q, b, d, n, l, o)
    PROVE  Accounted(r, b, d, n, l, o)
<1>1. InMemory(q, b, l) = InMemory(r, b, l)
  <2>1. \A x : x \in InMemory(q, b, l) <=> x \in InMemory(r, b, l)
    BY MemoryParts
  <2> QED BY <2>1
<1>2. InPushOrder(q, b, l) => InPushOrder(r, b, l)
  BY DEF InPushOrder
<1> QED BY <1>1, <1>2 DEF Accounted, InFileOrder

MemoryStays ==
    /\ Queue' = Queue /\ buffer' = buffer /\ disk' = disk /\ pushed' = pushed
    /\ destroyed' = destroyed /\ overtaken' = overtaken /\ (~shutdown' => ~shutdown)

LEMMA MemoryUnmoved ==
    ASSUME AllAccounted, MemoryStays PROVE AllAccounted'
BY DEF AllAccounted, MemoryStays

LEMMA CountsUnmoved ==
    ASSUME TasksCounted, Queue' = Queue, sched' = sched,
           logPc' \notin {"last", "done"} => logPc \notin {"last", "done"}
    PROVE  TasksCounted'
BY DEF TasksCounted

LEMMA NoneLeftUnmoved ==
    ASSUME NoneLeft, Queue' = Queue, destroyed' = destroyed, logPc' = "done" => logPc = "done"
    PROVE  NoneLeft'
BY DEF NoneLeft

\* What remains of the invariant when only logPc, toFlush and flushSpace change.
LEMMA ThreadMoves ==
    ASSUME LogInv,
           UNCHANGED <<shutdown, schedulers, logJoined, userPc, pushed, destroyed,
                       sched, logPool, buffer, disk, overtaken>>,
           Queue' = Queue,
           logPc' \notin {"last", "done"}, logPc \notin {"last", "done"}
    PROVE  UsersPlaced' /\ TasksCounted' /\ AllAccounted' /\ NoneLeft'
<1>1. MemoryStays
  BY DEF MemoryStays
<1> QED BY <1>1, MemoryUnmoved, CountsUnmoved, NoneLeftUnmoved DEF LogInv, UsersPlaced

LEMMA LoopTestKeeps == ASSUME LogInv, LoopTest PROVE LogInv'
<1>1. LogTyped /\ ThreadPlaced /\ Queue' = Queue
  BY DEF LogInv, LoopTest, ThreadGoes, Queue
<1>2. LogTyped'
  BY <1>1 DEF LogTyped, LoopTest, ThreadGoes
<1>3. ThreadPlaced'
  BY <1>1 DEF ThreadPlaced, LoopTest, ThreadGoes
<1>4. UsersPlaced' /\ TasksCounted' /\ AllAccounted' /\ NoneLeft'
  BY <1>1, ThreadMoves DEF LoopTest, ThreadGoes
<1> QED BY <1>2, <1>3, <1>4 DEF LogInv

LEMMA FallAsleepKeeps == ASSUME LogInv, FallAsleep PROVE LogInv'
<1>1. LogTyped /\ ThreadPlaced /\ Queue' = Queue
  BY DEF LogInv, FallAsleep, ThreadGoes, Queue
<1>2. LogTyped'
  BY <1>1 DEF LogTyped, FallAsleep, ThreadGoes
<1>3. ThreadPlaced'
  BY <1>1 DEF ThreadPlaced, FallAsleep, ThreadGoes
<1>4. UsersPlaced' /\ TasksCounted' /\ AllAccounted' /\ NoneLeft'
  BY <1>1, ThreadMoves DEF FallAsleep, ThreadGoes
<1> QED BY <1>2, <1>3, <1>4 DEF LogInv

\* The queues change places: the one that is left is empty.
LEMMA QueuesSwap ==
    ASSUME LogTyped, invoking = <<>>, invoking' = ready, ready' = invoking
    PROVE  Queue' = Queue
BY QueueMoves DEF LogTyped, Queue

LEMMA WaitOverKeeps == ASSUME LogInv, NEW again \in BOOLEAN, WaitOver(again) PROVE LogInv'
<1>1. LogTyped /\ ThreadPlaced /\ invoking = <<>>
  BY DEF LogInv, WaitOver, ThreadPlaced
<1>2. Queue' = Queue
  BY <1>1, QueuesSwap DEF WaitOver
<1>3. LogTyped'
  BY <1>1 DEF LogTyped, WaitOver, ThreadGoes
<1>4. ThreadPlaced'
  BY <1>1 DEF ThreadPlaced, WaitOver, ThreadGoes
<1>5. UsersPlaced' /\ TasksCounted' /\ AllAccounted' /\ NoneLeft'
  BY <1>2, ThreadMoves DEF WaitOver, ThreadGoes
<1> QED BY <1>3, <1>4, <1>5 DEF LogInv

LEMMA InvokeOverKeeps == ASSUME LogInv, InvokeOver PROVE LogInv'
<1>1. LogTyped /\ ThreadPlaced /\ Queue' = Queue
  BY DEF LogInv, InvokeOver, ThreadGoes, Queue
<1>2. logPc' \in {"napping", "collect", "flush"}
  BY DEF InvokeOver, ThreadGoes
<1>3. LogTyped'
  BY <1>1, <1>2 DEF LogTyped, InvokeOver, ThreadGoes
<1>4. ThreadPlaced'
  BY <1>1, <1>2 DEF ThreadPlaced, InvokeOver, ThreadGoes
<1>5. UsersPlaced' /\ TasksCounted' /\ AllAccounted' /\ NoneLeft'
  BY <1>1, <1>2, ThreadMoves DEF InvokeOver, ThreadGoes
<1> QED BY <1>3, <1>4, <1>5 DEF LogInv

LEMMA GetNeedFlushKeeps == ASSUME LogInv, GetNeedFlush PROVE LogInv'
<1>1. LogTyped /\ ThreadPlaced /\ Queue' = Queue
  BY DEF LogInv, GetNeedFlush, ThreadGoes, Queue
<1> DEFINE T == Log \cup {NoIter}
           f == Filtered(schedulers, {l \in Log : sched[l].need})
<1>2. f \in Seq(T)
  <2>1. f \in Seq(Log)
    BY <1>1, FilteredKeeps DEF LogTyped
  <2> QED BY <2>1
<1>3. toFlush' = toFlush \o f
  BY DEF GetNeedFlush
<1>4. toFlush' \in Seq(T) /\ flushSpace' \in Nat
  <2>1. toFlush \in Seq(T) /\ flushSpace \in Nat
    BY <1>1 DEF LogTyped
  <2> HIDE DEF T, f
  <2>2. toFlush' \in Seq(T)
    BY <1>2, <1>3, <2>1
  <2>3. Len(toFlush') \in Nat
    BY <2>2
  <2> QED BY <2>1, <2>2, <2>3 DEF GetNeedFlush
<1>5. LogTyped'
  BY <1>1, <1>4 DEF LogTyped, GetNeedFlush, ThreadGoes
<1>6. ThreadPlaced'
  BY <1>1 DEF ThreadPlaced, GetNeedFlush, ThreadGoes
<1>7. UsersPlaced' /\ TasksCounted' /\ AllAccounted' /\ NoneLeft'
  BY <1>1, ThreadMoves DEF GetNeedFlush, ThreadGoes
<1> QED BY <1>5, <1>6, <1>7 DEF LogInv

LEMMA LogFlushTestKeeps == ASSUME LogInv, LogFlushTest PROVE LogInv'
<1>1. LogTyped /\ ThreadPlaced /\ invoking = <<>>
  BY DEF LogInv, LogFlushTest, ThreadPlaced
<1>2. Queue' = Queue
  BY <1>1, QueuesSwap DEF LogFlushTest, Queue
<1>3. toFlush' \in Seq(Log \cup {NoIter})
  <2> DEFINE T == Log \cup {NoIter}
  <2>1. toFlush \in Seq(T) /\ toFlush # <<>> /\ toFlush' \in {toFlush, Tail(toFlush)}
    BY <1>1 DEF LogTyped, LogFlushTest
  <2> HIDE DEF T
  <2>2. toFlush' \in Seq(T)
    BY <2>1
  <2> QED BY <2>2 DEF T
<1>4. LogTyped'
  BY <1>1, <1>3 DEF LogTyped, LogFlushTest, ThreadGoes
<1>5. ThreadPlaced'
  BY <1>1 DEF ThreadPlaced, LogFlushTest, ThreadGoes
<1>6. UsersPlaced' /\ TasksCounted' /\ AllAccounted' /\ NoneLeft'
  BY <1>2, ThreadMoves DEF LogFlushTest, ThreadGoes
<1> QED BY <1>4, <1>5, <1>6 DEF LogInv

LEMMA SetNeedFlushKeeps == ASSUME LogInv, SetNeedFlush PROVE LogInv'
<1>1. LogTyped /\ ThreadPlaced /\ UsersPlaced /\ Queue' = Queue
  BY DEF LogInv, SetNeedFlush, Queue
<1> DEFINE S == {l \in Log : StaysScheduled(l)}
<1>2. schedulers' \in Seq(Log) /\ RecordsIn(schedulers') = RecordsIn(schedulers) \cap S
  BY <1>1, FilteredKeeps DEF SetNeedFlush, LogTyped
<1>3. toFlush' \in Seq(Log \cup {NoIter})
  <2> DEFINE n == 4 * Len(schedulers)
             T == Log \cup {NoIter}
  <2>1. n \in Nat
    BY <1>1 DEF LogTyped
  <2>2. toFlush' = [i \in 1 .. n |-> NoIter] \/ toFlush' = <<>>
    BY DEF SetNeedFlush
  <2>3. NoIter \in T
    OBVIOUS
  <2> HIDE DEF n, T
  <2>4. [i \in 1 .. n |-> NoIter] \in Seq(T)
    BY <2>1, <2>3
  <2>5. <<>> \in Seq(T)
    OBVIOUS
  <2>6. toFlush' \in Seq(T)
    BY <2>2, <2>4, <2>5
  <2> QED BY <2>6 DEF T
<1>4. \A l \in Log : /\ sched'[l].waiting = sched[l].waiting /\ sched'[l].gone = sched[l].gone
                     /\ sched'[l] \in [waiting : Nat, need : BOOLEAN, gone : BOOLEAN]
  <2> SUFFICES ASSUME NEW l \in Log
               PROVE  /\ sched'[l].waiting = sched[l].waiting /\ sched'[l].gone = sched[l].gone
                      /\ sched'[l] \in [waiting : Nat, need : BOOLEAN, gone : BOOLEAN]
    OBVIOUS
  <2>1. sched[l] \in [waiting : Nat, need : BOOLEAN, gone : BOOLEAN]
    BY <1>1 DEF LogTyped
  <2>2. sched'[l] = [sched[l] EXCEPT !.need = TRUE] \/ sched'[l] = sched[l]
    BY DEF SetNeedFlush
  <2> QED BY <2>1, <2>2
<1>5. sched' \in [Log -> [waiting : Nat, need : BOOLEAN, gone : BOOLEAN]]
  BY <1>4 DEF SetNeedFlush
<1>6. LogTyped'
  BY <1>1, <1>2, <1>3, <1>5 DEF LogTyped, SetNeedFlush
<1>7. ThreadPlaced'
  BY <1>1 DEF ThreadPlaced, SetNeedFlush
<1>8. UsersPlaced'
  <2>1. \A l \in Log : ~sched[l].gone \/ sched[l].waiting > 0 => l \in S
    BY DEF StaysScheduled
  <2> HIDE DEF S
  <2> QED BY <1>1, <1>2, <1>4, <2>1 DEF UsersPlaced, SetNeedFlush
<1>9. TasksCounted'
  BY <1>1, <1>4 DEF LogInv, TasksCounted, SetNeedFlush
<1>10. AllAccounted'
  BY <1>1, MemoryUnmoved DEF LogInv, MemoryStays, SetNeedFlush
<1>11. NoneLeft'
  BY <1>1, NoneLeftUnmoved DEF LogInv, SetNeedFlush
<1> QED BY <1>6, <1>7, <1>8, <1>9, <1>10, <1>11 DEF LogInv

\* The first task t of all is written and leaves the queue.
LEMMA FirstWritten ==
    ASSUME LogTyped, AllAccounted, NEW t, Queue # <<>>, t = Head(Queue),
           Queue' = Tail(Queue), disk' = Written(disk, t.log, t.buf),
           UNCHANGED <<buffer, pushed, destroyed, overtaken, shutdown>>
    PROVE  AllAccounted' /\ t \in LogTask /\ disk' \in [Log -> Seq(Nat)]
<1>1. Queue \in Seq(LogTask)
  BY QueueTyped
<1>2. t \in LogTask /\ t.log \in Log /\ t.buf.recs \in Seq(Nat)
  <2>1. t \in LogTask
    BY <1>1, HeadAndTail
  <2> QED BY <2>1, TaskFields
<1>3. disk' \in [Log -> Seq(Nat)]
      /\ \A l \in Log : disk'[l] = IF l = t.log THEN disk[l] \o t.buf.recs ELSE disk[l]
  BY <1>2 DEF Written, LogTyped
<1>4. ASSUME NEW l \in Log, ~shutdown \/ l \in destroyed
      PROVE  Accounted(Tail(Queue), buffer[l], disk'[l], pushed[l], l, overtaken)
  <2>1. Accounted(Queue, buffer[l], disk[l], pushed[l], l, overtaken)
    BY <1>4 DEF AllAccounted
  <2>2. buffer[l] \in LogBuf /\ disk[l] \in Seq(Nat)
    BY DEF LogTyped
  <2>3. CASE l = t.log
    <3>1. Accounted(Tail(Queue), buffer[l], disk[l] \o Head(Queue).buf.recs, pushed[l], l, overtaken)
      BY <1>1, <2>1, <2>2, <2>3, KeptByInvoke
    <3> QED BY <1>3, <2>3, <3>1
  <2>4. CASE l # t.log
    <3>1. Accounted(Tail(Queue), buffer[l], disk[l], pushed[l], l, overtaken)
      BY <1>1, <2>1, <2>4, KeptBesideInvoke
    <3> QED BY <1>3, <2>4, <3>1
  <2> QED BY <2>3, <2>4
<1>5. AllAccounted'
  BY <1>4 DEF AllAccounted
<1> QED BY <1>2, <1>3, <1>5

LEMMA InvokeTaskKeeps == ASSUME LogInv, InvokeTask PROVE LogInv'
<1>1. LogTyped /\ ThreadPlaced /\ UsersPlaced /\ TasksCounted /\ AllAccounted
  BY DEF LogInv
<1> DEFINE t == Head(invoking)
<1>2. /\ Queue \in Seq(LogTask) /\ Queue # <<>> /\ t = Head(Queue)
      /\ Queue' = Tail(Queue)
  <2>1. invoking \in Seq(LogTask) /\ ready \in Seq(LogTask) /\ invoking # <<>>
        /\ invoking' = Tail(invoking) /\ ready' = ready
    BY <1>1 DEF LogTyped, InvokeTask
  <2> QED BY <2>1, QueueMoves, QueueTyped, <1>1 DEF Queue
<1>3. AllAccounted' /\ t \in LogTask /\ disk' \in [Log -> Seq(Nat)]
  BY <1>1, <1>2, FirstWritten DEF InvokeTask, ThreadGoes
<1>4. t.log \in Log /\ t.buf.room \in Int
  BY <1>3, TaskFields
<1>5. \A l \in Log : Cardinality(TasksOf(Queue, l)) \in Nat
                     /\ Cardinality(TasksOf(Tail(Queue), l)) \in Nat
                     /\ Cardinality(TasksOf(Tail(Queue), l))
                           = Cardinality(TasksOf(Queue, l)) - (IF t.log = l THEN 1 ELSE 0)
  <2>1. Tail(Queue) \in Seq(LogTask)
    BY <1>2, HeadAndTail
  <2> QED BY <1>2, <2>1, TasksFinite, FirstCounted
<1>6. \A l \in Log : sched[l].waiting = Cardinality(TasksOf(Queue, l))
  BY <1>1 DEF TasksCounted, InvokeTask
<1> DEFINE w == sched[t.log].waiting - 1
           Record == [waiting : Nat, need : BOOLEAN, gone : BOOLEAN]
<1>7. w \in Nat
  BY <1>4, <1>5, <1>6
<1>8. /\ sched' \in [Log -> Record]
      /\ \A l \in Log : /\ sched'[l].gone = sched[l].gone
                        /\ sched'[l].waiting = IF l = t.log THEN w ELSE sched[l].waiting
  <2>1. sched' = [sched EXCEPT ![t.log].waiting = w]
    BY DEF InvokeTask
  <2>2. sched \in [Log -> Record]
    BY <1>1 DEF LogTyped
  <2> HIDE DEF t, w
  <2> QED BY <1>4, <1>7, <2>1, <2>2
<1>9. LogTyped'
  <2>1. logPool' \in Nat
    BY <1>1, <1>4, SMTT(30) DEF LogTyped, InvokeTask, GivenBack
  <2>2. invoking' \in Seq(LogTask)
    BY <1>1 DEF LogTyped, InvokeTask
  <2> QED BY <1>1, <1>3, <1>8, <2>1, <2>2 DEF LogTyped, InvokeTask, ThreadGoes
<1>10. ThreadPlaced'
  BY <1>1 DEF ThreadPlaced, InvokeTask, ThreadGoes
<1>11. UsersPlaced'
  <2>1. \A l \in Log : sched'[l].waiting > 0 => sched[l].waiting > 0
    BY <1>4, <1>5, <1>6, <1>7, <1>8
  <2> HIDE DEF t, w
  <2> QED BY <1>1, <1>8, <2>1 DEF UsersPlaced, InvokeTask, ThreadGoes
<1>12. TasksCounted'
  <2>1. \A l \in Log : sched'[l].waiting = Cardinality(TasksOf(Tail(Queue), l))
    BY <1>5, <1>6, <1>8
  <2> QED BY <1>2, <2>1 DEF TasksCounted
<1>13. NoneLeft'
  BY <1>2 DEF NoneLeft, InvokeTask, ThreadGoes
<1> QED BY <1>3, <1>9, <1>10, <1>11, <1>12, <1>13 DEF LogInv

\* A step of force_invoke, of whichever thread.
LEMMA ForceInvokeKeeps ==
    ASSUME LogTyped, AllAccounted, UsersPlaced, NEW m \in Log, ForceInvoke(m), Queue' = Queue,
           UNCHANGED <<pushed, destroyed, shutdown>>
    PROVE  /\ AllAccounted'
           /\ disk' \in [Log -> Seq(Nat)] /\ buffer' \in [Log -> LogBuf]
           /\ \A l \in Log : buffer[l].recs = <<>> => buffer'[l].recs = <<>>
           /\ overtaken' \in SUBSET Log
<1>a. /\ overtaken' \in SUBSET Log
      /\ \A l : l # m => (l \in overtaken' <=> l \in overtaken)
      /\ m \in overtaken => m \in overtaken'
      /\ buffer[m].recs # <<>> /\ TasksOf(Queue, m) # {} => m \in overtaken'
  BY DEF ForceInvoke, LogTyped
<1>1. Queue \in Seq(LogTask) /\ disk \in [Log -> Seq(Nat)] /\ buffer \in [Log -> LogBuf]
  BY QueueTyped DEF LogTyped
<1> DEFINE c == [buffer[m] EXCEPT !.recs = <<>>]
<1>2. c \in LogBuf /\ c.recs = <<>> /\ buffer[m] \in LogBuf /\ buffer[m].recs \in Seq(Nat)
  <2>1. buffer[m] \in LogBuf
    BY <1>1
  <2>2. buffer[m].recs \in Seq(Nat) /\ <<>> \in Seq(Nat)
    BY <2>1, TaskFields
  <2>3. c \in LogBuf /\ c.recs = <<>>
    BY <2>1, <2>2 DEF LogBuf
  <2> QED BY <2>1, <2>2, <2>3
<1>3. buffer' = [buffer EXCEPT ![m] = c]
  BY <1>1 DEF ForceInvoke
<1> HIDE DEF c
<1>4. /\ disk' \in [Log -> Seq(Nat)] /\ buffer' \in [Log -> LogBuf]
      /\ disk'[m] = disk[m] \o buffer[m].recs /\ buffer'[m] = c
      /\ \A l \in Log : l # m => disk'[l] = disk[l] /\ buffer'[l] = buffer[l]
  <2> DEFINE r == disk[m] \o buffer[m].recs
  <2>1. disk' = [disk EXCEPT ![m] = r]
    BY DEF ForceInvoke, Written
  <2>2. r \in Seq(Nat)
    BY <1>1, <1>2
  <2> HIDE DEF r
  <2>3. disk' \in [Log -> Seq(Nat)] /\ disk'[m] = r /\ \A l \in Log : l # m => disk'[l] = disk[l]
    BY <1>1, <2>1, <2>2
  <2>4. buffer' \in [Log -> LogBuf] /\ buffer'[m] = c /\ \A l \in Log : l # m => buffer'[l] = buffer[l]
    BY <1>1, <1>2, <1>3
  <2> QED BY <2>3, <2>4 DEF r
<1>5. ASSUME NEW l \in Log, ~shutdown \/ l \in destroyed
      PROVE  Accounted(Queue, buffer'[l], disk'[l], pushed[l], l, overtaken')
  <2>1. Accounted(Queue, buffer[l], disk[l], pushed[l], l, overtaken)
    BY <1>5 DEF AllAccounted
  <2>2. CASE l = m
    <3>1. disk[m] \in Seq(Nat)
      BY <1>1
    <3>2. Accounted(Queue, c, disk[m] \o buffer[m].recs, pushed[m], m, overtaken')
      BY <1>1, <1>2, <1>a, <2>1, <2>2, <3>1, KeptByFlush
    <3> QED BY <1>4, <2>2, <3>2
  <2>3. CASE l # m
    <3>1. l \in overtaken <=> l \in overtaken'
      BY <1>a, <2>3
    <3> QED BY <1>4, <2>1, <2>3, <3>1 DEF Accounted
  <2> QED BY <2>2, <2>3
<1>6. AllAccounted'
  BY <1>5 DEF AllAccounted
<1> QED BY <1>a, <1>2, <1>4, <1>6

LEMMA FlushForceKeeps == ASSUME LogInv, FlushForce PROVE LogInv'
<1>1. LogTyped /\ ThreadPlaced /\ UsersPlaced /\ AllAccounted /\ toFlush # <<>> /\ Head(toFlush) # NoIter
  BY DEF LogInv, FlushForce, ThreadPlaced
<1> DEFINE m == Head(toFlush)
           T == Log \cup {NoIter}
<1>2. m \in Log /\ toFlush' \in Seq(T)
  <2>1. toFlush \in Seq(T)
    BY <1>1 DEF LogTyped
  <2>2. toFlush' = Tail(toFlush)
    BY DEF FlushForce
  <2> HIDE DEF T
  <2>3. Head(toFlush) \in T /\ toFlush' \in Seq(T)
    BY <1>1, <2>1, <2>2, HeadAndTail
  <2> QED BY <1>1, <2>3 DEF T
<1>3. Queue' = Queue
  BY DEF Queue, FlushForce
<1>4. /\ AllAccounted'
      /\ disk' \in [Log -> Seq(Nat)] /\ buffer' \in [Log -> LogBuf]
      /\ \A l \in Log : buffer[l].recs = <<>> => buffer'[l].recs = <<>>
      /\ overtaken' \in SUBSET Log
  BY <1>1, <1>2, <1>3, ForceInvokeKeeps DEF FlushForce, ThreadGoes
<1>5. LogTyped'
  BY <1>1, <1>2, <1>4 DEF LogTyped, FlushForce, ThreadGoes
<1>6. ThreadPlaced'
  BY <1>1 DEF ThreadPlaced, FlushForce, ThreadGoes
<1>7. UsersPlaced'
  BY <1>1, <1>4 DEF UsersPlaced, FlushForce, ThreadGoes
<1>8. TasksCounted' /\ NoneLeft'
  BY <1>3, CountsUnmoved, NoneLeftUnmoved DEF LogInv, FlushForce, ThreadGoes
<1> QED BY <1>4, <1>5, <1>6, <1>7, <1>8 DEF LogInv

LEMMA ClosingKeeps == ASSUME LogInv, Closing PROVE LogInv'
<1>1. LogTyped /\ ThreadPlaced /\ UsersPlaced /\ TasksCounted /\ AllAccounted /\ NoneLeft
      /\ invoking = <<>> /\ shutdown /\ shutdown' = shutdown
  BY DEF LogInv, Closing, ThreadPlaced, ThreadGoes
<1>2. /\ Queue = ready /\ Queue' = ready'
      /\ ready \in Seq(LogTask) /\ ready' \in Seq(LogTask)
  <2>1. ready \in Seq(LogTask) /\ ready' \in Seq(LogTask)
    <3>1. ready \in Seq(LogTask) /\ (ready' = ready \/ (ready # <<>> /\ ready' = Tail(ready)))
      BY <1>1 DEF LogTyped, Closing
    <3> QED BY <3>1, HeadAndTail
  <2> QED BY <1>1, <2>1 DEF Queue, Closing
<1>3. AllAccounted' /\ disk' \in [Log -> Seq(Nat)] /\ logPool' \in Nat
  <2>1. CASE ready = <<>>
    <3>1. MemoryStays
      BY <1>1, <1>2, <2>1 DEF MemoryStays, Closing, ThreadGoes
    <3> QED BY <1>1, <2>1, <3>1, MemoryUnmoved DEF LogTyped, Closing
  <2>2. CASE ready # <<>>
    <3> DEFINE t == Head(ready)
    <3>1. t = Head(Queue) /\ Queue # <<>> /\ Queue' = Tail(Queue)
          /\ disk' = Written(disk, t.log, t.buf) /\ logPool' = logPool + GivenBack(t.buf)
      BY <1>2, <2>2 DEF Closing
    <3>2. AllAccounted' /\ t \in LogTask /\ disk' \in [Log -> Seq(Nat)]
      <4> HIDE DEF t
      <4> QED BY <1>1, <3>1, FirstWritten DEF Closing, ThreadGoes
    <3>3. t.buf.room \in Int
      BY <3>2, TaskFields
    <3> QED BY <1>1, <3>1, <3>2, <3>3 DEF LogTyped, GivenBack
  <2> QED BY <2>1, <2>2
<1>4. LogTyped'
  BY <1>1, <1>2, <1>3 DEF LogTyped, Closing, ThreadGoes
<1>5. ThreadPlaced'
  BY <1>1 DEF ThreadPlaced, Closing, ThreadGoes
<1>6. UsersPlaced'
  BY <1>1 DEF UsersPlaced, Closing, ThreadGoes
<1>7. TasksCounted'
  BY DEF TasksCounted, Closing, ThreadGoes
<1>8. NoneLeft'
  BY <1>2, EmptyQueue DEF NoneLeft, Closing, ThreadGoes
<1> QED BY <1>3, <1>4, <1>5, <1>6, <1>7, <1>8 DEF LogInv

-----------------------------------------------------------------------------
(* The scheduled thread: the users' steps *)

\* A notification wakes the thread and does nothing else to it.
LEMMA NotifiedKeeps ==
    ASSUME LogTyped, ThreadPlaced, logPc' = Notified, UNCHANGED <<shutdown, logJoined, invoking, toFlush>>
    PROVE  /\ ThreadPlaced' /\ logPc' \in {logPc, "test"}
           /\ logPc' \in {"last", "done"} <=> logPc \in {"last", "done"}
           /\ logPc' = "done" <=> logPc = "done"
BY DEF LogTyped, ThreadPlaced, Notified

LEMMA OpenLogKeeps == ASSUME LogInv, NEW m \in Log, OpenLog(m) PROVE LogInv'
<1>1. LogTyped /\ ThreadPlaced /\ UsersPlaced /\ Queue' = Queue /\ logPc' \in {logPc, "test"}
      /\ (logPc = "done" <=> logPc' = "done") /\ (logPc' \in {"last", "done"} <=> logPc \in {"last", "done"})
  BY DEF LogInv, OpenLog, Queue, Notified
<1>2. /\ schedulers' \in Seq(Log) /\ \A l \in RecordsIn(schedulers) : l \in RecordsIn(schedulers')
      /\ ~shutdown => m \in RecordsIn(schedulers')
  <2>1. schedulers \in Seq(Log)
    BY <1>1 DEF LogTyped
  <2>2. Append(schedulers, m) \in Seq(Log)
        /\ RecordsIn(Append(schedulers, m)) = RecordsIn(schedulers) \cup {m}
    BY <2>1, AppendedMembers
  <2> QED BY <2>1, <2>2 DEF OpenLog
<1>3. LogTyped'
  BY <1>1, <1>2 DEF LogTyped, OpenLog
<1>4. ThreadPlaced'
  BY <1>1 DEF ThreadPlaced, OpenLog, Notified
<1>5. UsersPlaced'
  <2>1. userPc' = [userPc EXCEPT ![m] = "opening"] /\ userPc[m] = "none"
    BY DEF OpenLog
  <2>2. userPc'[m] = "opening" /\ \A l \in Log : l # m => userPc'[l] = userPc[l]
    BY <1>1, <2>1 DEF LogTyped
  <2>3. m \notin destroyed
    BY <1>1, <2>1 DEF UsersPlaced
  <2> QED BY <1>1, <1>2, <2>1, <2>2, <2>3 DEF UsersPlaced, OpenLog
<1>6. TasksCounted'
  BY <1>1, CountsUnmoved DEF LogInv, OpenLog
<1>7. AllAccounted'
  BY <1>1, MemoryUnmoved DEF LogInv, MemoryStays, OpenLog
<1>8. NoneLeft'
  BY <1>1, NoneLeftUnmoved DEF LogInv, OpenLog
<1> QED BY <1>3, <1>4, <1>5, <1>6, <1>7, <1>8 DEF LogInv

\* The log m gets another buffer and n records, the queue and the files stay.
LEMMA BufferChanges ==
    ASSUME LogInv, NEW m \in Log, NEW c \in LogBuf, NEW n \in Nat, NEW u,
           u \in {"open", "pushing"},
           userPc[m] \in {"opening", "open", "pushing", "spinning"},
           buffer' = [buffer EXCEPT ![m] = c], pushed' = [pushed EXCEPT ![m] = n],
           userPc' = [userPc EXCEPT ![m] = u],
           logPool' \in Nat, UNCHANGED <<threadVars, disk, destroyed, overtaken>>,
           ~shutdown => Accounted(Queue, c, disk[m], n, m, overtaken)
    PROVE  LogInv'
<1>1. LogTyped /\ ThreadPlaced /\ UsersPlaced /\ AllAccounted /\ Queue' = Queue
  BY DEF LogInv, threadVars, Queue
<1>2. /\ buffer'[m] = c /\ pushed'[m] = n /\ userPc'[m] = u /\ disk' = disk
      /\ \A l \in Log : l # m => buffer'[l] = buffer[l] /\ pushed'[l] = pushed[l] /\ userPc'[l] = userPc[l]
  BY <1>1 DEF LogTyped
<1>3. LogTyped'
  BY <1>1 DEF LogTyped, threadVars
<1>4. ThreadPlaced'
  BY <1>1 DEF ThreadPlaced, threadVars
<1>5. m \notin destroyed
  BY <1>1 DEF UsersPlaced
<1>6. UsersPlaced'
  BY <1>1, <1>2, <1>5 DEF UsersPlaced, threadVars
<1>7. TasksCounted'
  BY <1>1, CountsUnmoved DEF LogInv, threadVars
<1>8. AllAccounted'
  BY <1>1, <1>2, <1>5 DEF AllAccounted, threadVars
<1>9. NoneLeft'
  BY <1>1, NoneLeftUnmoved DEF LogInv, threadVars
<1> QED BY <1>3, <1>4, <1>6, <1>7, <1>8, <1>9 DEF LogInv

\* A buffer from the pool, or the empty one of an exhausted pool.
LEMMA FreshTyped ==
    ASSUME LogTyped
    PROVE  FreshBuffer \in LogBuf /\ FreshBuffer.recs = <<>> /\ TakenFromPool \in Nat
<1>1. BufferRoom \in Nat /\ logPool \in Nat /\ <<>> \in Seq(Nat)
  BY LogAssumption DEF LogTyped
<1> QED BY <1>1 DEF FreshBuffer, LogBuf, TakenFromPool

LEMMA OpenBufferKeeps == ASSUME LogInv, NEW m \in Log, OpenBuffer(m) PROVE LogInv'
<1>1. LogTyped /\ UsersPlaced /\ AllAccounted
  BY DEF LogInv
<1>2. FreshBuffer \in LogBuf /\ FreshBuffer.recs = <<>> /\ TakenFromPool \in Nat
  BY <1>1, FreshTyped
<1>3. buffer[m].recs = <<>> /\ pushed[m] \in Nat
  BY <1>1 DEF UsersPlaced, OpenBuffer, LogTyped
<1>4. ~shutdown => Accounted(Queue, FreshBuffer, disk[m], pushed[m], m, overtaken)
  <2>1. ~shutdown => Accounted(Queue, buffer[m], disk[m], pushed[m], m, overtaken)
    BY <1>1 DEF AllAccounted
  <2> QED BY <1>2, <1>3, <2>1, SameRecords
<1>5. pushed' = [pushed EXCEPT ![m] = pushed[m]]
  BY <1>1 DEF OpenBuffer, LogTyped
<1> QED BY <1>2, <1>3, <1>4, <1>5, BufferChanges DEF OpenBuffer

LEMMA PushBeginKeeps == ASSUME LogInv, NEW m \in Log, PushBegin(m) PROVE LogInv'
<1>1. LogTyped /\ AllAccounted
  BY DEF LogInv
<1>2. buffer[m] \in LogBuf /\ pushed[m] \in Nat /\ logPool' \in Nat
      /\ buffer' = [buffer EXCEPT ![m] = buffer[m]] /\ pushed' = [pushed EXCEPT ![m] = pushed[m]]
  BY <1>1 DEF LogTyped, PushBegin
<1>3. ~shutdown => Accounted(Queue, buffer[m], disk[m], pushed[m], m, overtaken)
  BY <1>1 DEF AllAccounted
<1> QED BY <1>2, <1>3, BufferChanges DEF PushBegin

LEMMA PushAppendKeeps == ASSUME LogInv, NEW m \in Log, PushAppend(m) PROVE LogInv'
<1>1. LogTyped /\ AllAccounted
  BY DEF LogInv
<1> DEFINE n == pushed[m] + 1
           c == [buffer[m] EXCEPT !.recs = Append(@, n)]
<1>2. buffer[m] \in LogBuf /\ buffer[m].recs \in Seq(Nat) /\ pushed[m] \in Nat /\ disk[m] \in Seq(Nat)
      /\ Queue \in Seq(LogTask)
  BY <1>1, TaskFields, QueueTyped DEF LogTyped
<1>3. c \in LogBuf /\ c.recs = Append(buffer[m].recs, pushed[m] + 1) /\ n \in Nat
  <2>1. n \in Nat
    BY <1>2
  <2> DEFINE r == Append(buffer[m].recs, n)
  <2>2. r \in Seq(Nat)
    BY <1>2, <2>1
  <2>3. c = [buffer[m] EXCEPT !.recs = r]
    OBVIOUS
  <2> HIDE DEF r, n, c
  <2>4. c \in LogBuf /\ c.recs = r
    BY <1>2, <2>2, <2>3 DEF LogBuf
  <2> QED BY <2>1, <2>4 DEF r, n
<1>4. buffer' = [buffer EXCEPT ![m] = c] /\ pushed' = [pushed EXCEPT ![m] = n]
  BY DEF PushAppend
<1>5. logPool' \in Nat
  BY <1>1 DEF LogTyped, PushAppend
<1> HIDE DEF c
<1>6. ~shutdown => Accounted(Queue, c, disk[m], n, m, overtaken)
  <2> SUFFICES ASSUME ~shutdown PROVE Accounted(Queue, c, disk[m], n, m, overtaken)
    OBVIOUS
  <2>1. Accounted(Queue, buffer[m], disk[m], pushed[m], m, overtaken)
    BY <1>1 DEF AllAccounted
  <2> QED BY <1>2, <1>3, <2>1, KeptByPush
<1> HIDE DEF n
<1> QED BY <1>3, <1>4, <1>5, <1>6, BufferChanges DEF PushAppend

LEMMA PushSpinKeeps == ASSUME LogInv, NEW m \in Log, PushSpin(m) PROVE LogInv'
<1>1. LogTyped /\ AllAccounted /\ UsersPlaced
  BY DEF LogInv
<1> DEFINE n == pushed[m] + 1
           c == [FreshBuffer EXCEPT !.recs = <<n>>]
<1>2. buffer[m] \in LogBuf /\ buffer[m].recs = <<>> /\ pushed[m] \in Nat /\ disk[m] \in Seq(Nat)
      /\ Queue \in Seq(LogTask)
  BY <1>1, QueueTyped DEF LogTyped, UsersPlaced, PushSpin
<1>3. FreshBuffer \in LogBuf /\ TakenFromPool \in Nat
  BY <1>1, FreshTyped
<1>4. c \in LogBuf /\ c.recs = Append(buffer[m].recs, pushed[m] + 1) /\ n \in Nat
  <2>1. <<n>> \in Seq(Nat) /\ n \in Nat
    BY <1>2
  <2>2. <<n>> = Append(<<>>, n)
    OBVIOUS
  <2> QED BY <1>2, <1>3, <2>1, <2>2 DEF LogBuf
<1>5. buffer' = [buffer EXCEPT ![m] = c] /\ pushed' = [pushed EXCEPT ![m] = n] /\ logPool' \in Nat
  BY <1>3 DEF PushSpin
<1> HIDE DEF c
<1>6. ~shutdown => Accounted(Queue, c, disk[m], n, m, overtaken)
  <2> SUFFICES ASSUME ~shutdown PROVE Accounted(Queue, c, disk[m], n, m, overtaken)
    OBVIOUS
  <2>1. Accounted(Queue, buffer[m], disk[m], pushed[m], m, overtaken)
    BY <1>1 DEF AllAccounted
  <2> QED BY <1>2, <1>4, <2>1, KeptByPush
<1> HIDE DEF n
<1> QED BY <1>4, <1>5, <1>6, BufferChanges DEF PushSpin

LEMMA FlushLogKeeps == ASSUME LogInv, NEW m \in Log, FlushLog(m) PROVE LogInv'
<1>1. LogTyped /\ ThreadPlaced /\ UsersPlaced /\ AllAccounted /\ Queue' = Queue
  BY DEF LogInv, FlushLog, threadVars, Queue
<1>2. /\ AllAccounted'
      /\ disk' \in [Log -> Seq(Nat)] /\ buffer' \in [Log -> LogBuf]
      /\ \A l \in Log : buffer[l].recs = <<>> => buffer'[l].recs = <<>>
      /\ overtaken' \in SUBSET Log
  BY <1>1, ForceInvokeKeeps DEF FlushLog, threadVars
<1>3. LogTyped'
  BY <1>1, <1>2 DEF LogTyped, FlushLog, threadVars
<1>4. ThreadPlaced'
  BY <1>1 DEF ThreadPlaced, FlushLog, threadVars
<1>5. UsersPlaced'
  BY <1>1, <1>2 DEF UsersPlaced, FlushLog, threadVars
<1>6. TasksCounted' /\ NoneLeft'
  BY <1>1, CountsUnmoved, NoneLeftUnmoved DEF LogInv, FlushLog, threadVars
<1> QED BY <1>2, <1>3, <1>4, <1>5, <1>6 DEF LogInv

\* The buffer of log m becomes the task t; the log goes on as u without a buffer
\* and with w as its Scheduler.
Submits(m, u, w, t) ==
    /\ u \in {"spinning", "gone"} /\ userPc[m] \in {"open", "pushing"}
    /\ t = [log |-> m, buf |-> buffer[m]]
    /\ w \in [waiting : Nat, need : BOOLEAN, gone : BOOLEAN]
    /\ w.waiting = sched[m].waiting + 1 /\ (w.gone => u = "gone") /\ (u = "gone" => ~shutdown)
    /\ ready' = Append(ready, t) /\ sched' = [sched EXCEPT ![m] = w] /\ logPc' = Notified
    /\ buffer' = [buffer EXCEPT ![m] = NoBuffer] /\ userPc' = [userPc EXCEPT ![m] = u]
    /\ destroyed' = IF u = "gone" THEN destroyed \cup {m} ELSE destroyed
    /\ UNCHANGED <<shutdown, schedulers, invoking, toFlush, flushSpace, logJoined, logPool, disk, pushed, overtaken>>

LEMMA SubmitKeeps ==
    ASSUME LogInv, NEW m \in Log, NEW u, NEW w, NEW t, Submits(m, u, w, t) PROVE LogInv'
<1> USE DEF Submits
<1>1. LogTyped /\ ThreadPlaced /\ UsersPlaced /\ TasksCounted /\ AllAccounted /\ NoneLeft
  BY DEF LogInv
<1>2. t \in LogTask /\ t.log = m /\ NoBuffer \in LogBuf /\ NoBuffer.recs = <<>> /\ buffer[m] \in LogBuf
  BY <1>1, TaskFields DEF LogTyped
<1>3. /\ Queue \in Seq(LogTask) /\ Queue' = Append(Queue, t) /\ ready' \in Seq(LogTask)
  <2>1. ready \in Seq(LogTask) /\ invoking \in Seq(LogTask)
    BY <1>1 DEF LogTyped
  <2>2. invoking \o Append(ready, t) = Append(invoking \o ready, t)
    BY <1>2, <2>1, QueueMoves
  <2>3. ready' \in Seq(LogTask)
    BY <1>2, <2>1, AppendedPlaces
  <2> QED BY <1>1, <2>2, <2>3, QueueTyped DEF Queue
<1> DEFINE Record == [waiting : Nat, need : BOOLEAN, gone : BOOLEAN]
<1>4. /\ sched' \in [Log -> Record]
      /\ sched[m].waiting \in Nat
      /\ sched'[m].waiting = sched[m].waiting + 1
      /\ sched'[m].gone = w.gone
      /\ \A l \in Log : l # m => sched'[l] = sched[l]
  <2>1. sched \in [Log -> Record]
    BY <1>1 DEF LogTyped
  <2>2. sched[m].waiting \in Nat
    BY <2>1
  <2> QED BY <2>1, <2>2
<1>5. /\ buffer'[m] = NoBuffer /\ userPc'[m] = u
      /\ \A l \in Log : l # m => buffer'[l] = buffer[l] /\ userPc'[l] = userPc[l]
  BY <1>1 DEF LogTyped
<1>6. /\ ThreadPlaced' /\ logPc' \in {logPc, "test"}
      /\ logPc' \in {"last", "done"} <=> logPc \in {"last", "done"}
      /\ logPc' = "done" <=> logPc = "done"
  BY <1>1, NotifiedKeeps
<1>7. m \notin destroyed
  BY <1>1 DEF UsersPlaced
<1>8. LogTyped'
  <2>1. buffer' \in [Log -> LogBuf]
    BY <1>1, <1>2 DEF LogTyped
  <2>2. userPc' \in [Log -> {"none", "opening", "open", "pushing", "spinning", "gone"}]
    BY <1>1 DEF LogTyped
  <2>3. destroyed' \in SUBSET Log
    BY <1>1 DEF LogTyped
  <2> QED BY <1>1, <1>3, <1>4, <1>6, <2>1, <2>2, <2>3 DEF LogTyped
<1>9. UsersPlaced'
  <2> SUFFICES ASSUME NEW l \in Log
               PROVE  /\ userPc'[l] \in {"none", "opening", "spinning", "gone"} => buffer'[l].recs = <<>>
                      /\ userPc'[l] # "gone" => ~sched'[l].gone
                      /\ ~shutdown /\ userPc'[l] \notin {"none", "gone"} => l \in RecordsIn(schedulers)
                      /\ ~shutdown /\ sched'[l].waiting > 0 => l \in RecordsIn(schedulers)
                      /\ l \in destroyed' => userPc'[l] = "gone"
    BY DEF UsersPlaced
  <2>1. CASE l = m
    BY <1>1, <1>2, <1>4, <1>5, <1>7, <2>1 DEF UsersPlaced
  <2>2. CASE l # m
    BY <1>1, <1>4, <1>5, <2>2 DEF UsersPlaced
  <2> QED BY <2>1, <2>2
<1>10. TasksCounted'
  <2> SUFFICES ASSUME logPc \notin {"last", "done"}, NEW l \in Log
               PROVE  sched'[l].waiting = Cardinality(TasksOf(Append(Queue, t), l))
    BY <1>3, <1>6 DEF TasksCounted
  <2>1. Cardinality(TasksOf(Append(Queue, t), l))
           = Cardinality(TasksOf(Queue, l)) + (IF t.log = l THEN 1 ELSE 0)
    BY <1>2, <1>3, LastCounted
  <2>2. Cardinality(TasksOf(Queue, l)) \in Nat
    BY <1>3, TasksFinite
  <2>3. sched[l].waiting = Cardinality(TasksOf(Queue, l))
    BY <1>1 DEF TasksCounted
  <2> QED BY <1>2, <1>4, <2>1, <2>2, <2>3
<1>11. AllAccounted'
  <2> SUFFICES ASSUME NEW l \in Log, ~shutdown \/ l \in destroyed'
               PROVE  Accounted(Append(Queue, t), buffer'[l], disk[l], pushed[l], l, overtaken)
    BY <1>3 DEF AllAccounted
  <2>1. Accounted(Queue, buffer[l], disk[l], pushed[l], l, overtaken)
    BY <1>1 DEF AllAccounted
  <2>2. CASE l = m
    <3>1. Accounted(Append(Queue, [log |-> m, buf |-> buffer[m]]), NoBuffer, disk[m], pushed[m], m, overtaken)
      BY <1>2, <1>3, <2>1, <2>2, KeptBySubmit
    <3> QED BY <1>5, <2>2, <3>1
  <2>3. CASE l # m
    <3>1. Accounted(Append(Queue, t), buffer[l], disk[l], pushed[l], l, overtaken)
      BY <1>2, <1>3, <2>1, <2>3, KeptBesideSubmit
    <3> QED BY <1>5, <2>3, <3>1
  <2> QED BY <2>2, <2>3
<1>12. NoneLeft'
  <2> SUFFICES ASSUME logPc = "done", NEW l \in destroyed'
               PROVE  TasksOf(Append(Queue, t), l) = {}
    BY <1>3, <1>6 DEF NoneLeft
  <2>1. l \in destroyed /\ l # m
    BY <1>1, <1>7 DEF ThreadPlaced
  <2>2. TasksOf(Queue, l) = {}
    BY <1>1, <2>1 DEF NoneLeft
  <2>3. LastAdded(Queue, Append(Queue, t), t, l)
    BY <1>2, <1>3, TasksAfterLast
  <2> QED BY <1>2, <2>1, <2>2, <2>3 DEF LastAdded
<1> QED BY <1>6, <1>8, <1>9, <1>10, <1>11, <1>12 DEF LogInv

LEMMA PushSubmitKeeps == ASSUME LogInv, NEW m \in Log, PushSubmit(m) PROVE LogInv'
<1> DEFINE t == [log |-> m, buf |-> buffer[m]]
           w == [waiting |-> sched[m].waiting + 1, need |-> FALSE, gone |-> FALSE]
<1>1. ~sched[m].gone /\ sched \in [Log -> [waiting : Nat, need : BOOLEAN, gone : BOOLEAN]]
  BY DEF LogInv, UsersPlaced, PushSubmit, LogTyped
<1>2. sched' = [sched EXCEPT ![m] = w]
  <2>1. (sched[m].gone \/ FALSE) = FALSE
    BY <1>1
  <2> QED BY <2>1 DEF PushSubmit, Submitted
<1>3. /\ ready' = Append(ready, t) /\ logPc' = Notified
      /\ UNCHANGED <<shutdown, schedulers, invoking, toFlush, flushSpace, logJoined, logPool, disk, pushed, overtaken>>
      /\ buffer' = [buffer EXCEPT ![m] = NoBuffer] /\ userPc' = [userPc EXCEPT ![m] = "spinning"]
      /\ destroyed' = destroyed /\ userPc[m] = "pushing"
  BY DEF PushSubmit, Submitted
<1>4. w \in [waiting : Nat, need : BOOLEAN, gone : BOOLEAN]
      /\ w.waiting = sched[m].waiting + 1 /\ ~w.gone
  BY <1>1
<1> DEFINE u == "spinning"
<1>5. /\ t = [log |-> m, buf |-> buffer[m]]
      /\ u \in {"spinning", "gone"} /\ u # "gone" /\ userPc' = [userPc EXCEPT ![m] = u]
      /\ destroyed' = IF u = "gone" THEN destroyed \cup {m} ELSE destroyed
      /\ userPc[m] \in {"open", "pushing"}
  BY <1>3
<1> HIDE DEF t, w, u
<1>6. Submits(m, u, w, t)
  BY <1>2, <1>3, <1>4, <1>5 DEF Submits
<1> QED BY <1>6, SubmitKeeps

LEMMA DestroyLogKeeps == ASSUME LogInv, NEW m \in Log, DestroyLog(m) PROVE LogInv'
<1>1. CASE ~shutdown
  <2> DEFINE t == [log |-> m, buf |-> buffer[m]]
             w == [waiting |-> sched[m].waiting + 1, need |-> FALSE, gone |-> TRUE]
  <2>1. sched' = [sched EXCEPT ![m] = w]
    <3>1. (sched[m].gone \/ TRUE) = TRUE
      OBVIOUS
    <3> QED BY <1>1, <3>1 DEF DestroyLog, Submitted
  <2>2. /\ ready' = Append(ready, t) /\ logPc' = Notified
        /\ UNCHANGED <<shutdown, schedulers, invoking, toFlush, flushSpace, logJoined, logPool, disk, pushed, overtaken>>
        /\ buffer' = [buffer EXCEPT ![m] = NoBuffer] /\ userPc' = [userPc EXCEPT ![m] = "gone"]
        /\ destroyed' = destroyed \cup {m} /\ userPc[m] = "open"
    BY <1>1 DEF DestroyLog, Submitted
  <2>3. w \in [waiting : Nat, need : BOOLEAN, gone : BOOLEAN]
        /\ w.waiting = sched[m].waiting + 1
    <3>1. sched \in [Log -> [waiting : Nat, need : BOOLEAN, gone : BOOLEAN]]
      BY DEF LogInv, LogTyped
    <3> QED BY <3>1
  <2> DEFINE u == "gone"
  <2>4. /\ t = [log |-> m, buf |-> buffer[m]]
        /\ u \in {"spinning", "gone"} /\ u = "gone" /\ userPc' = [userPc EXCEPT ![m] = u]
        /\ destroyed' = IF u = "gone" THEN destroyed \cup {m} ELSE destroyed
        /\ userPc[m] \in {"open", "pushing"}
    BY <2>2
  <2> HIDE DEF t, w, u
  <2>5. Submits(m, u, w, t)
    BY <1>1, <2>1, <2>2, <2>3, <2>4 DEF Submits
  <2> QED BY <2>5, SubmitKeeps
<1>2. CASE shutdown
  <2>1. LogTyped /\ ThreadPlaced /\ UsersPlaced /\ AllAccounted /\ Queue' = Queue
        /\ UNCHANGED threadVars /\ destroyed' = destroyed
    BY <1>2 DEF LogInv, DestroyLog, threadVars, Queue
  <2>2. NoBuffer \in LogBuf /\ NoBuffer.recs = <<>>
    BY TaskFields
  <2>3. /\ buffer'[m] = NoBuffer /\ userPc'[m] = "gone" /\ m \notin destroyed
        /\ \A l \in Log : l # m => buffer'[l] = buffer[l] /\ userPc'[l] = userPc[l]
    BY <2>1 DEF LogTyped, DestroyLog, UsersPlaced
  <2>4. LogTyped'
    <3>1. buffer' \in [Log -> LogBuf]
      BY <2>1, <2>2 DEF LogTyped, DestroyLog
    <3>2. userPc' \in [Log -> {"none", "opening", "open", "pushing", "spinning", "gone"}]
      BY <2>1 DEF LogTyped, DestroyLog
    <3> QED BY <2>1, <3>1, <3>2 DEF LogTyped, DestroyLog, threadVars
  <2>5. ThreadPlaced'
    BY <2>1 DEF ThreadPlaced, threadVars
  <2>6. UsersPlaced'
    BY <1>2, <2>1, <2>2, <2>3 DEF UsersPlaced, threadVars
  <2>7. TasksCounted' /\ NoneLeft'
    BY <2>1, CountsUnmoved, NoneLeftUnmoved DEF LogInv, threadVars
  <2>8. AllAccounted'
    BY <1>2, <2>1, <2>3 DEF AllAccounted, DestroyLog, threadVars
  <2> QED BY <2>4, <2>5, <2>6, <2>7, <2>8 DEF LogInv
<1> QED BY <1>1, <1>2 DEF LogInv, LogTyped

LEMMA ShutdownThreadKeeps == ASSUME LogInv, ShutdownThread PROVE LogInv'
<1>1. LogTyped /\ ThreadPlaced /\ UsersPlaced /\ Queue' = Queue
  BY DEF LogInv, ShutdownThread, Queue
<1>2. LogTyped'
  BY <1>1 DEF LogTyped, ShutdownThread, Notified
<1>3. ThreadPlaced'
  BY <1>1 DEF ThreadPlaced, ShutdownThread, Notified
<1>4. UsersPlaced'
  BY <1>1 DEF UsersPlaced, ShutdownThread
<1>5. TasksCounted' /\ NoneLeft'
  <2>1. /\ logPc' \notin {"last", "done"} => logPc \notin {"last", "done"}
        /\ logPc' = "done" => logPc = "done"
    BY DEF ShutdownThread, Notified
  <2> QED BY <1>1, <2>1, CountsUnmoved, NoneLeftUnmoved DEF LogInv, ShutdownThread
<1>6. AllAccounted'
  BY <1>1, MemoryUnmoved DEF LogInv, MemoryStays, ShutdownThread
<1> QED BY <1>2, <1>3, <1>4, <1>5, <1>6 DEF LogInv

LEMMA JoinThreadKeeps == ASSUME LogInv, JoinThread PROVE LogInv'
<1>1. LogTyped /\ ThreadPlaced /\ UsersPlaced /\ AllAccounted /\ NoneLeft
      /\ shutdown /\ logPc = "done" /\ logPc' = "done"
  BY DEF LogInv, JoinThread
<1>2. Queue' = <<>>
  BY DEF JoinThread, Queue
<1>3. LogTyped'
  BY <1>1, EmptyQueue DEF LogTyped, JoinThread
<1>4. ThreadPlaced'
  BY <1>1 DEF ThreadPlaced, JoinThread
<1>5. UsersPlaced'
  BY <1>1 DEF UsersPlaced, JoinThread
<1>6. TasksCounted' /\ NoneLeft'
  BY <1>1, <1>2, EmptyQueue DEF TasksCounted, NoneLeft
<1>7. AllAccounted'
  <2> SUFFICES ASSUME NEW l \in destroyed
               PROVE  Accounted(<<>>, buffer[l], disk[l], pushed[l], l, overtaken)
    BY <1>1, <1>2 DEF AllAccounted, JoinThread
  <2>1. TasksOf(Queue, l) = {} /\ TasksOf(<<>>, l) = {} /\ Accounted(Queue, buffer[l], disk[l], pushed[l], l, overtaken)
    BY <1>1, EmptyQueue DEF NoneLeft, AllAccounted, LogTyped
  <2> QED BY <2>1, WithoutTasks
<1> QED BY <1>3, <1>4, <1>5, <1>6, <1>7 DEF LogInv

-----------------------------------------------------------------------------
(* The scheduled thread: the theorem *)

LEMMA LogStarts == LogInit => LogInv
<1> SUFFICES ASSUME LogInit PROVE LogInv
  OBVIOUS
<1>1. Queue = <<>>
  BY DEF LogInit, Queue
<1>2. NoBuffer \in LogBuf /\ NoBuffer.recs = <<>>
  BY TaskFields
<1>3. LogTyped
  <2>1. <<>> \in Seq(Nat) /\ <<>> \in Seq(LogTask) /\ <<>> \in Seq(Log) /\ <<>> \in Seq(Log \cup {NoIter})
    OBVIOUS
  <2>2. sched \in [Log -> [waiting : Nat, need : BOOLEAN, gone : BOOLEAN]]
    BY DEF LogInit
  <2>3. buffer \in [Log -> LogBuf] /\ disk \in [Log -> Seq(Nat)] /\ pushed \in [Log -> Nat]
    BY <1>2, <2>1 DEF LogInit
  <2>4. PoolBuffers \in Nat
    BY LogAssumption
  <2> QED BY <2>1, <2>2, <2>3, <2>4 DEF LogInit, LogTyped
<1>4. ThreadPlaced /\ UsersPlaced
  BY <1>2 DEF LogInit, ThreadPlaced, UsersPlaced
<1>5. TasksCounted
  BY <1>1, EmptyQueue, FS_EmptySet DEF LogInit, TasksCounted
<1>6. AllAccounted
  <2> SUFFICES ASSUME NEW l \in Log PROVE Accounted(<<>>, NoBuffer, <<>>, 0, l, overtaken)
    BY <1>1 DEF AllAccounted, LogInit
  <2>1. InMemory(<<>>, NoBuffer, l) = {}
    <3>1. \A x : x \notin InMemory(<<>>, NoBuffer, l)
      BY <1>2, EmptyQueue, MemoryParts
    <3> QED BY <3>1
  <2>2. InPushOrder(<<>>, NoBuffer, l)
    BY <1>2, EmptyQueue DEF InPushOrder
  <2>3. 1 .. 0 = {}
    OBVIOUS
  <2>4. InFileOrder(<<>>, NoBuffer, <<>>, l)
    BY <2>1, EmptyQueue DEF InFileOrder
  <2> QED BY <2>1, <2>2, <2>3, <2>4, EmptyQueue DEF Accounted
<1>7. NoneLeft
  BY DEF LogInit, NoneLeft
<1> QED BY <1>3, <1>4, <1>5, <1>6, <1>7 DEF LogInv

LEMMA LogStutters == ASSUME LogInv, UNCHANGED logVars PROVE LogInv'
<1>1. Queue' = Queue
  BY DEF logVars, threadVars, Queue
<1>2. LogTyped'
  BY DEF LogInv, LogTyped, logVars, threadVars
<1>3. ThreadPlaced' /\ UsersPlaced'
  BY DEF LogInv, ThreadPlaced, UsersPlaced, logVars, threadVars
<1>4. TasksCounted' /\ NoneLeft'
  BY <1>1, CountsUnmoved, NoneLeftUnmoved DEF LogInv, logVars, threadVars
<1>5. AllAccounted'
  BY <1>1, MemoryUnmoved DEF LogInv, MemoryStays, logVars, threadVars
<1> QED BY <1>2, <1>3, <1>4, <1>5 DEF LogInv

LEMMA LogStep == LogInv /\ [LogNext]_logVars => LogInv'
<1> SUFFICES ASSUME LogInv, [LogNext]_logVars PROVE LogInv'
  OBVIOUS
<1>1. CASE LogUser
  <2>1. PICK l \in Log :
          OpenLog(l) \/ PushBegin(l) \/ PushStep(l) \/ FlushLog(l) \/ DestroyLog(l)
    BY <1>1 DEF LogUser
  <2>2. CASE PushStep(l)
    BY <2>2, PushAppendKeeps, PushSubmitKeeps, PushSpinKeeps, OpenBufferKeeps DEF PushStep
  <2> QED BY <2>1, <2>2, OpenLogKeeps, PushBeginKeeps, FlushLogKeeps, DestroyLogKeeps
<1>2. CASE LogThreadStep
  BY <1>2, LoopTestKeeps, FallAsleepKeeps, InvokeTaskKeeps, InvokeOverKeeps, GetNeedFlushKeeps,
     LogFlushTestKeeps, FlushForceKeeps, SetNeedFlushKeeps, ClosingKeeps DEF LogThreadStep
<1>3. CASE \E again \in BOOLEAN : WaitOver(again)
  BY <1>3, WaitOverKeeps
<1>4. CASE ShutdownThread \/ JoinThread
  BY <1>4, ShutdownThreadKeeps, JoinThreadKeeps
<1>5. CASE UNCHANGED logVars
  BY <1>5, LogStutters
<1> QED BY <1>1, <1>2, <1>3, <1>4, <1>5 DEF LogNext

\* The records are kept: before shutdown by the conjuncts of the invariant, in the
\* end because a destroyed log has neither tasks nor a buffer left.
LEMMA LogInvSuffices == LogInv => RecordsKept
<1> SUFFICES ASSUME LogInv PROVE RecordsKept
  OBVIOUS
<1>1. ASSUME ~shutdown, NEW l \in Log
      PROVE  /\ sched[l].waiting > 0 => l \in RecordsIn(schedulers)
             /\ sched[l].waiting = Cardinality(TasksOf(Queue, l))
             /\ Accounted(Queue, buffer[l], disk[l], pushed[l], l, overtaken)
  <2>1. logPc \notin {"last", "done"}
    BY <1>1 DEF LogInv, ThreadPlaced
  <2> QED BY <1>1, <2>1 DEF LogInv, UsersPlaced, TasksCounted, AllAccounted
<1>2. ASSUME logJoined, NEW l \in destroyed
      PROVE  RecordsIn(disk[l]) = 1 .. pushed[l] /\ (l \in overtaken \/ Ascending(disk[l]))
  <2>1. l \in Log /\ userPc[l] = "gone" /\ buffer[l].recs = <<>> /\ logPc = "done"
    BY <1>2 DEF LogInv, LogTyped, UsersPlaced, ThreadPlaced
  <2>2. TasksOf(Queue, l) = {} /\ Accounted(Queue, buffer[l], disk[l], pushed[l], l, overtaken)
    BY <2>1 DEF LogInv, NoneLeft, AllAccounted
  <2>3. InMemory(Queue, buffer[l], l) = {}
    <3>1. \A x : x \notin InMemory(Queue, buffer[l], l)
      BY <2>1, <2>2, EmptyQueue, MemoryParts
    <3> QED BY <3>1
  <2> QED BY <2>2, <2>3 DEF Accounted, InFileOrder
<1> QED BY <1>1, <1>2 DEF RecordsKept

\* For any number of logs, buffers and records: no record that push accepted is
\* lost or doubled, whatever the thread, the flushes and the destructors of logs do
\* at the same time; only a flush that writes a buffer while an older one is queued
\* puts records into the file in another order than they were pushed; the files of
\* the logs destroyed before shutdown are complete when shutdown_thread returns.
THEOREM RecordsAlwaysKept == LogSpec => []RecordsKept
<1>1. LogInit => LogInv
  BY LogStarts
<1>2. LogInv /\ [LogNext]_logVars => LogInv'
  BY LogStep
<1>3. LogInv => RecordsKept
  BY LogInvSuffices
<1> QED BY <1>1, <1>2, <1>3, PTL DEF LogSpec

-----------------------------------------------------------------------------
(* The buffers: halves of records *)

Rec == [slot : Slot \cup {"offline", "timeout"}, n : Nat]
HalfRec == [rec : Rec, half : {1, 2}]
MessageRecord == [type : {"ClearBuffer", "NodeOffline", "TimeOut", "ShutDownServer"},
                  rs : Seq(Rec), flushed : BOOLEAN, begin : Nat]
Message == {m \in MessageRecord : m.type \in {"NodeOffline", "TimeOut"} => Len(m.rs) = 1}

\* The halves us go on with half k + 1 of the records rs.
Cut(us, rs, k) ==
    /\ Whole(us)
    /\ IF k % 2 = 1 THEN us # <<>> /\ us[Len(us)] = Halves2(rs)[k]
       ELSE us # <<>> => us[Len(us)].half = 2

LEMMA HalfFields == \A r, k : Half(r, k).rec = r /\ Half(r, k).half = k
BY DEF Half

\* Half k of the records rs.
LEMMA HalvesAre ==
    ASSUME NEW T, NEW rs \in Seq(T)
    PROVE  /\ Len(rs) \in Nat
           /\ Halves2(rs) \in Seq([rec : T, half : {1, 2}]) /\ Len(Halves2(rs)) = 2 * Len(rs)
           /\ \A k \in 1 .. 2 * Len(rs) :
                 /\ (k + 1) \div 2 \in 1 .. Len(rs)
                 /\ Halves2(rs)[k].rec = rs[(k + 1) \div 2]
                 /\ Halves2(rs)[k].half = IF k % 2 = 1 THEN 1 ELSE 2
                 /\ Halves2(rs)[k] = Half(rs[(k + 1) \div 2], IF k % 2 = 1 THEN 1 ELSE 2)
<1> DEFINE L == Len(rs)
           N == 2 * L
<1>1. L \in Nat /\ N \in Nat
  OBVIOUS
<1>2. ASSUME NEW k \in 1 .. N PROVE (k + 1) \div 2 \in 1 .. L
  BY <1>1, <1>2
<1>3. ASSUME NEW k \in 1 .. N
      PROVE  /\ Halves2(rs)[k] = Half(rs[(k + 1) \div 2], IF k % 2 = 1 THEN 1 ELSE 2)
             /\ Halves2(rs)[k].rec = rs[(k + 1) \div 2]
             /\ Halves2(rs)[k].half = IF k % 2 = 1 THEN 1 ELSE 2
             /\ Halves2(rs)[k] \in [rec : T, half : {1, 2}]
  <2>1. rs[(k + 1) \div 2] \in T
    BY <1>2, <1>3
  <2>2. Halves2(rs)[k] = Half(rs[(k + 1) \div 2], IF k % 2 = 1 THEN 1 ELSE 2)
    BY <1>3 DEF Halves2
  <2>3. Halves2(rs)[k].rec = rs[(k + 1) \div 2] /\ Halves2(rs)[k].half = IF k % 2 = 1 THEN 1 ELSE 2
    BY <2>2, HalfFields
  <2>4. (IF k % 2 = 1 THEN 1 ELSE 2) \in {1, 2}
    OBVIOUS
  <2> QED BY <2>1, <2>2, <2>3, <2>4 DEF Half
<1>4. Halves2(rs) \in [1 .. N -> [rec : T, half : {1, 2}]]
  BY <1>3 DEF Halves2
<1>5. Halves2(rs) \in Seq([rec : T, half : {1, 2}]) /\ Len(Halves2(rs)) = N
  <2> DEFINE R == [rec : T, half : {1, 2}]
             H == Halves2(rs)
  <2>1. H \in [1 .. N -> R] /\ N \in Nat
    BY <1>1, <1>4
  <2> HIDE DEF N, R, H
  <2>2. H \in Seq(R) /\ Len(H) = N
    BY <2>1
  <2> QED BY <2>2 DEF R, H
<1> QED BY <1>1, <1>2, <1>3, <1>5

\* Of two halves in a row that are not of one record the first ends one.
LEMMA HalvesPair ==
    ASSUME NEW T, NEW rs \in Seq(T), NEW k \in 1 .. 2 * Len(rs)
    PROVE  /\ k % 2 = 1 => /\ k + 1 <= 2 * Len(rs)
                           /\ Halves2(rs)[k].half = 1
                           /\ Halves2(rs)[k + 1] = Half(Halves2(rs)[k].rec, 2)
           /\ k % 2 # 1 => /\ k > 1 /\ (k - 1) % 2 = 1
                           /\ Halves2(rs)[k].half = 2
                           /\ Halves2(rs)[k - 1] = Half(Halves2(rs)[k].rec, 1)
<1> DEFINE H == Halves2(rs)
           N == 2 * Len(rs)
           q == (k + 1) \div 2
<1>1. N \in Nat /\ k \in 1 .. N /\ q = (k + 1) \div 2
  OBVIOUS
<1>2. \A j \in 1 .. N : H[j] = Half(rs[(j + 1) \div 2], IF j % 2 = 1 THEN 1 ELSE 2)
  BY HalvesAre
<1> HIDE DEF H, q
<1>3. CASE k % 2 = 1
  <2> DEFINE j == k + 1
  <2>1. j \in 1 .. N /\ j % 2 # 1 /\ (j + 1) \div 2 = q
    BY <1>1, <1>3
  <2> HIDE DEF j, N
  <2>2. H[j] = Half(rs[q], 2) /\ H[k] = Half(rs[q], 1)
    BY <1>1, <1>2, <1>3, <2>1
  <2>3. H[k].half = 1 /\ H[j] = Half(H[k].rec, 2)
    BY <2>2, HalfFields
  <2>4. k + 1 <= N
    BY <2>1 DEF j
  <2> QED BY <1>3, <2>3, <2>4 DEF j, H, N
<1>4. CASE k % 2 # 1
  <2> DEFINE j == k - 1
  <2>1. j \in 1 .. N /\ j % 2 = 1 /\ (j + 1) \div 2 = q
    BY <1>1, <1>4
  <2> HIDE DEF j, N
  <2>2. H[j] = Half(rs[q], 1) /\ H[k] = Half(rs[q], 2)
    BY <1>1, <1>2, <1>4, <2>1
  <2>3. H[k].half = 2 /\ H[j] = Half(H[k].rec, 1)
    BY <2>2, HalfFields
  <2>4. k > 1
    BY <1>1, <2>1 DEF j
  <2> QED BY <1>4, <2>1, <2>3, <2>4 DEF j, H, N
<1> QED BY <1>3, <1>4

\* The sequence vs is us and behind it n members of s from k + 1 on.
Lengthened(vs, us, s, k, n) ==
    /\ Len(vs) = Len(us) + n
    /\ \A i \in 1 .. Len(us) : vs[i] = us[i]
    /\ \A j \in 1 .. n : vs[Len(us) + j] = s[k + j]

\* n members of s from k + 1 on
LEMMA PiecePlaces ==
    ASSUME NEW T, NEW s \in Seq(T), NEW k \in Nat, NEW n \in Nat, k + n <= Len(s)
    PROVE  LET p == SubSeq(s, k + 1, k + n)
           IN  p \in Seq(T) /\ Len(p) = n /\ \A j \in 1 .. n : p[j] = s[k + j]
<1> DEFINE p == SubSeq(s, k + 1, k + n)
<1>1. Len(s) \in Nat /\ k + n - (k + 1) + 1 = n
  OBVIOUS
<1>2. p \in Seq(T) /\ Len(p) = n
  BY <1>1
<1>3. \A j \in 1 .. n : p[j] = s[k + j]
  BY <1>1
<1> QED BY <1>2, <1>3

LEMMA PieceBehind ==
    ASSUME NEW T, NEW s \in Seq(T), NEW us \in Seq(T), NEW k \in Nat, NEW n \in Nat, k + n <= Len(s)
    PROVE  /\ us \o SubSeq(s, k + 1, k + n) \in Seq(T)
           /\ Len(us \o SubSeq(s, k + 1, k + n)) = Len(us) + n
           /\ Lengthened(us \o SubSeq(s, k + 1, k + n), us, s, k, n)
<1> DEFINE p == SubSeq(s, k + 1, k + n)
<1>1. p \in Seq(T) /\ Len(p) = n /\ \A j \in 1 .. n : p[j] = s[k + j]
  BY PiecePlaces
<1> HIDE DEF p
<1>2. us \o p \in Seq(T) /\ Len(us \o p) = Len(us) + n
  BY <1>1, JoinedPlaces
<1>3. ASSUME NEW i \in 1 .. Len(us) PROVE (us \o p)[i] = us[i]
  BY <1>1, <1>3
<1>4. ASSUME NEW j \in 1 .. n PROVE (us \o p)[Len(us) + j] = s[k + j]
  BY <1>1, <1>4
<1> QED BY <1>2, <1>3, <1>4 DEF p, Lengthened

LEMMA PieceTyped ==
    ASSUME NEW T, NEW s \in Seq(T), NEW k \in Nat, NEW n \in Nat, k + n <= Len(s)
    PROVE  SubSeq(s, k + 1, k + n) \in Seq(T) /\ Len(SubSeq(s, k + 1, k + n)) = n
<1>1. Len(s) \in Nat /\ k + n - (k + 1) + 1 = n
  OBVIOUS
<1> QED BY <1>1

LEMMA JoinTwice ==
    ASSUME NEW T, NEW p \in Seq(T), NEW q \in Seq(T), NEW s \in Seq(T)
    PROVE  p \o (q \o s) = (p \o q) \o s
OBVIOUS

\* The next n halves of rs go out.
LEMMA CutGoesOn ==
    ASSUME NEW rs \in Seq(Rec), NEW us \in Seq(HalfRec), NEW k \in Nat, NEW n \in Nat,
           k + n <= 2 * Len(rs), Cut(us, rs, k)
    PROVE  Cut(us \o SubSeq(Halves2(rs), k + 1, k + n), rs, k + n)
<1> DEFINE H == Halves2(rs)
           vs == us \o SubSeq(H, k + 1, k + n)
<1>1. Len(rs) \in Nat /\ Len(us) \in Nat /\ H \in Seq(HalfRec) /\ Len(H) = 2 * Len(rs)
  BY HalvesAre DEF HalfRec
<1>2. /\ vs \in Seq(HalfRec) /\ Len(vs) = Len(us) + n
      /\ \A i \in 1 .. Len(us) : vs[i] = us[i]
      /\ \A j \in 1 .. n : vs[Len(us) + j] = H[k + j]
  <2>1. H \in Seq(HalfRec) /\ k + n <= Len(H) /\ us \in Seq(HalfRec) /\ k \in Nat /\ n \in Nat
    BY <1>1
  <2> HIDE DEF H, vs
  <2>2. vs = us \o SubSeq(H, k + 1, k + n)
    BY DEF vs
  <2>3. /\ us \o SubSeq(H, k + 1, k + n) \in Seq(HalfRec)
        /\ Lengthened(us \o SubSeq(H, k + 1, k + n), us, H, k, n)
    BY ONLY <2>1, PieceBehind
  <2> QED BY <2>2, <2>3 DEF Lengthened
<1> HIDE DEF vs, H
<1>3. Whole(us) /\ (k % 2 = 1 => us # <<>> /\ us[Len(us)] = H[k])
      /\ (k % 2 # 1 => (us # <<>> => us[Len(us)].half = 2))
  BY DEF Cut, H
<1>4. \A j \in 1 .. n : k + j \in 1 .. 2 * Len(rs)
  BY <1>1
<1>5. \A j \in 1 .. 2 * Len(rs) :
         /\ j % 2 = 1 => j + 1 <= 2 * Len(rs) /\ H[j].half = 1 /\ H[j + 1] = Half(H[j].rec, 2)
         /\ j % 2 # 1 => j > 1 /\ (j - 1) % 2 = 1 /\ H[j].half = 2 /\ H[j - 1] = Half(H[j].rec, 1)
  BY HalvesPair DEF H
<1>6. ASSUME NEW i \in 1 .. Len(us)
      PROVE  /\ vs[i].half = 1 => i = Len(vs) \/ vs[i + 1] = Half(vs[i].rec, 2)
             /\ vs[i].half = 2 => i > 1 /\ vs[i - 1] = Half(vs[i].rec, 1)
  <2>1. /\ us[i].half = 1 => i = Len(us) \/ us[i + 1] = Half(us[i].rec, 2)
        /\ us[i].half = 2 => i > 1 /\ us[i - 1] = Half(us[i].rec, 1)
    BY <1>1, <1>3, <1>6 DEF Whole
  <2>2. vs[i] = us[i]
    BY <1>2, <1>6
  <2>3. i > 1 => vs[i - 1] = us[i - 1]
    <3>1. i > 1 => i - 1 \in 1 .. Len(us)
      BY <1>6
    <3> QED BY <1>2, <3>1
  <2>4. i < Len(us) => vs[i + 1] = us[i + 1]
    <3>1. i < Len(us) => i + 1 \in 1 .. Len(us)
      BY <1>6
    <3> QED BY <1>2, <3>1
  <2>5. CASE i # Len(us) \/ us[i].half # 1
    <3>1. i # Len(us) => i < Len(us)
      BY <1>1, <1>6
    <3> QED BY <2>1, <2>2, <2>3, <2>4, <2>5, <3>1
  <2>6. CASE i = Len(us) /\ us[i].half = 1 /\ n # 0
    <3>1. k % 2 = 1 /\ us[i] = H[k] /\ k \in 1 .. 2 * Len(rs)
      <4>1. us # <<>>
        BY <1>6
      <4>2. us[i].half # 2
        BY <2>6
      <4>3. k % 2 = 1 => k # 0
        OBVIOUS
      <4> QED BY <1>1, <1>3, <2>6, <4>1, <4>2, <4>3
    <3>2. vs[i + 1] = H[k + 1]
      <4>1. 1 \in 1 .. n
        BY <2>6
      <4> QED BY <1>2, <2>6, <4>1
    <3> QED BY <1>5, <2>2, <2>6, <3>1, <3>2
  <2>7. CASE i = Len(us) /\ us[i].half = 1 /\ n = 0
    <3>1. i = Len(vs)
      BY <1>1, <1>2, <2>7
    <3> QED BY <2>2, <2>7, <3>1
  <2> QED BY <2>5, <2>6, <2>7
<1>7. ASSUME NEW j \in 1 .. n, NEW i, i = Len(us) + j
      PROVE  /\ vs[i].half = 1 => i = Len(vs) \/ vs[i + 1] = Half(vs[i].rec, 2)
             /\ vs[i].half = 2 => i > 1 /\ vs[i - 1] = Half(vs[i].rec, 1)
  <2> DEFINE x == k + j
  <2>1. vs[i] = H[x] /\ x \in 1 .. 2 * Len(rs)
    BY <1>2, <1>4, <1>7
  <2>2. CASE x % 2 = 1
    <3>1. H[x].half = 1 /\ H[x + 1] = Half(H[x].rec, 2)
      <4> HIDE DEF x
      <4> QED BY <1>5, <2>1, <2>2
    <3>2. CASE j = n
      <4>1. i = Len(vs)
        BY <1>1, <1>2, <1>7, <3>2
      <4> QED BY <2>1, <3>1, <4>1
    <3>3. CASE j # n
      <4> DEFINE jj == j + 1
      <4>1. jj \in 1 .. n /\ Len(us) + jj = i + 1 /\ k + jj = x + 1
        BY <1>1, <1>7, <3>3
      <4> HIDE DEF jj, x
      <4>2. vs[Len(us) + jj] = H[k + jj]
        BY <1>2, <4>1
      <4>3. vs[i + 1] = H[x + 1]
        BY <4>1, <4>2
      <4> QED BY <2>1, <3>1, <4>3
    <3> QED BY <3>2, <3>3
  <2>3. CASE x % 2 # 1
    <3>1. x > 1 /\ H[x].half = 2 /\ H[x - 1] = Half(H[x].rec, 1) /\ (x - 1) % 2 = 1
      <4> HIDE DEF x
      <4> QED BY <1>5, <2>1, <2>3
    <3>2. CASE j # 1
      <4> DEFINE jj == j - 1
      <4>1. jj \in 1 .. n /\ Len(us) + jj = i - 1 /\ k + jj = x - 1 /\ i > 1
        BY <1>1, <1>7, <3>2
      <4> HIDE DEF jj, x
      <4>2. vs[i - 1] = H[x - 1]
        BY <1>2, <4>1
      <4> QED BY <2>1, <3>1, <4>1, <4>2
    <3>3. CASE j = 1
      <4>1. x - 1 = k /\ i - 1 = Len(us)
        BY <1>1, <1>7, <3>3
      <4>2. us # <<>> /\ us[Len(us)] = H[k]
        BY <1>3, <3>1, <4>1
      <4>3. Len(us) \in 1 .. Len(us)
        BY <1>1, <4>2
      <4>4. vs[i - 1] = H[x - 1] /\ i > 1
        BY <1>1, <1>2, <1>7, <3>3, <4>1, <4>2, <4>3
      <4> HIDE DEF x
      <4> QED BY <2>1, <3>1, <4>4
    <3> QED BY <3>2, <3>3
  <2> QED BY <2>2, <2>3
<1>8. Whole(vs)
  <2> SUFFICES ASSUME NEW i \in DOMAIN vs
               PROVE  /\ vs[i].half = 1 => i = Len(vs) \/ vs[i + 1] = Half(vs[i].rec, 2)
                      /\ vs[i].half = 2 => i > 1 /\ vs[i - 1] = Half(vs[i].rec, 1)
    BY DEF Whole
  <2>1. i \in 1 .. Len(us) + n
    BY <1>2
  <2>2. CASE i \in 1 .. Len(us)
    BY <1>6, <2>2
  <2>3. CASE i \notin 1 .. Len(us)
    <3> DEFINE j == i - Len(us)
    <3>1. j \in 1 .. n /\ i = Len(us) + j
      BY <1>1, <2>1, <2>3
    <3> HIDE DEF j
    <3> QED BY ONLY <1>7, <3>1
  <2> QED BY <2>2, <2>3
<1>9. CASE n = 0
  <2>1. Len(vs) = Len(us) /\ k + n = k /\ (us = <<>> <=> vs = <<>>) /\ (us # <<>> => vs[Len(vs)] = us[Len(us)])
    BY <1>1, <1>2, <1>9
  <2> QED BY <1>3, <1>8, <2>1 DEF Cut, vs, H
<1>10. CASE n > 0
  <2>1. vs # <<>> /\ vs[Len(vs)] = H[k + n] /\ k + n \in 1 .. 2 * Len(rs)
    <3>1. n \in 1 .. n
      BY <1>10
    <3> QED BY <1>1, <1>2, <1>4, <1>10, <3>1
  <2>2. (k + n) % 2 # 1 => vs[Len(vs)].half = 2
    BY <1>5, <2>1
  <2> QED BY <1>8, <2>1, <2>2 DEF Cut, vs, H
<1> QED BY <1>9, <1>10

-----------------------------------------------------------------------------
(* The buffers: types *)

\* The messages of the pipe.
PipeMessage == {m \in Message : /\ m.begin = 0 /\ m.type \in {"ClearBuffer", "ShutDownServer"}
                                /\ m.type = "ShutDownServer" => m.flushed}

\* The loggers in submit_buffer for one buffer.
Loggers == [holds : {"none", "getting", "dozing"}, asleep : Nat, woken : Nat]

BuffersTyped ==
    /\ block \in [Slot -> BOOLEAN]
    /\ recs \in [Slot -> Seq(Rec)] /\ count \in [Slot -> Nat]
    /\ writer \in [Slot -> Loggers]
    /\ pipe \in Seq(PipeMessage) /\ inbox \in Seq(PipeMessage) /\ waitQueue \in Seq(Message)
    /\ recFile \in Seq(Rec) /\ output \in Seq(HalfRec) /\ got \in Seq(HalfRec)
    /\ center \in BOOLEAN /\ faithful \in BOOLEAN /\ destroying \in BOOLEAN
    /\ links \in Nat
    /\ srvPc \in {"accept", "local", "flush", "lock", "send", "drain", "update", "close", "done"}
    /\ ending \in {"no", "noticed", "closing"} /\ toVisit \subseteq Slot

\* The messages that the loggers, the thread and the destructor make.
LEMMA MessagesMade ==
    /\ \A rs \in Seq(Rec) :
          /\ ClearMessage(rs) \in PipeMessage /\ ClearMessage(rs).rs = rs /\ ~ClearMessage(rs).flushed
          /\ ClearMessage(rs).type = "ClearBuffer" /\ ClearMessage(rs).begin = 0
    /\ ShutDownMessage \in PipeMessage /\ ShutDownMessage.type = "ShutDownServer"
    /\ ShutDownMessage.rs = <<>> /\ ShutDownMessage.flushed
    /\ OfflineMessage \in Message /\ OfflineMessage.type = "NodeOffline" /\ OfflineMessage.begin = 0
    /\ OfflineMessage.rs = <<Special("offline")>> /\ ~OfflineMessage.flushed
    /\ TimeOutMessage \in Message /\ TimeOutMessage.type = "TimeOut" /\ TimeOutMessage.begin = 0
<1>1. <<>> \in Seq(Rec) /\ <<Special("offline")>> \in Seq(Rec) /\ <<Special("timeout")>> \in Seq(Rec)
  BY DEF Special, Rec
<1>2. ASSUME NEW rs \in Seq(Rec)
      PROVE  /\ ClearMessage(rs) \in PipeMessage /\ ClearMessage(rs).rs = rs /\ ~ClearMessage(rs).flushed
             /\ ClearMessage(rs).type = "ClearBuffer" /\ ClearMessage(rs).begin = 0
  BY <1>2 DEF ClearMessage, PipeMessage, Message, MessageRecord
<1>3. Len(<<Special("offline")>>) = 1 /\ Len(<<Special("timeout")>>) = 1
  OBVIOUS
<1> QED BY <1>1, <1>2, <1>3 DEF ShutDownMessage, OfflineMessage, TimeOutMessage, PipeMessage, Message, MessageRecord

\* What clear_buffer does to a message.
LEMMA MessageFields ==
    /\ PipeMessage \subseteq Message
    /\ \A m \in Message :
          /\ m.type \in {"ClearBuffer", "NodeOffline", "TimeOut", "ShutDownServer"}
          /\ m.type \in {"NodeOffline", "TimeOut"} => Len(m.rs) = 1
          /\ m.rs \in Seq(Rec) /\ m.begin \in Nat /\ m.flushed \in BOOLEAN
          /\ Flushed(m) \in Message /\ Flushed(m).flushed
          /\ Flushed(m).rs = m.rs /\ Flushed(m).begin = m.begin /\ Flushed(m).type = m.type
          /\ \A n \in Nat : /\ Shortened(m, n) \in Message /\ Shortened(m, n).begin = m.begin + n
                            /\ Shortened(m, n).rs = m.rs /\ Shortened(m, n).flushed = m.flushed
                            /\ Shortened(m, n).type = m.type
    /\ \A m \in PipeMessage : m.begin = 0 /\ m.type \in {"ClearBuffer", "ShutDownServer"}
                              /\ (m.type = "ShutDownServer" => m.flushed)
                              /\ Flushed(m) \in PipeMessage
<1>1. /\ PipeMessage \subseteq Message
      /\ \A m \in PipeMessage : m.begin = 0 /\ m.type \in {"ClearBuffer", "ShutDownServer"}
                                /\ (m.type = "ShutDownServer" => m.flushed)
  BY DEF PipeMessage
<1>2. ASSUME NEW m \in Message
      PROVE  /\ m.type \in {"ClearBuffer", "NodeOffline", "TimeOut", "ShutDownServer"}
             /\ m.type \in {"NodeOffline", "TimeOut"} => Len(m.rs) = 1
             /\ m.rs \in Seq(Rec) /\ m.begin \in Nat /\ m.flushed \in BOOLEAN
             /\ Flushed(m) \in Message /\ Flushed(m).flushed
             /\ Flushed(m).rs = m.rs /\ Flushed(m).begin = m.begin /\ Flushed(m).type = m.type
  <2>1. m \in MessageRecord /\ (m.type \in {"NodeOffline", "TimeOut"} => Len(m.rs) = 1)
    BY <1>2 DEF Message
  <2>2. /\ Flushed(m) \in MessageRecord /\ Flushed(m).flushed
        /\ Flushed(m).rs = m.rs /\ Flushed(m).begin = m.begin /\ Flushed(m).type = m.type
    BY <2>1 DEF MessageRecord, Flushed
  <2>3. Flushed(m) \in Message
    BY <2>1, <2>2 DEF Message
  <2>4. /\ m.type \in {"ClearBuffer", "NodeOffline", "TimeOut", "ShutDownServer"}
        /\ m.rs \in Seq(Rec) /\ m.begin \in Nat /\ m.flushed \in BOOLEAN
    BY <2>1 DEF MessageRecord
  <2> QED BY <2>1, <2>2, <2>3, <2>4
<1>3. ASSUME NEW m \in Message, NEW n \in Nat
      PROVE  /\ Shortened(m, n) \in Message /\ Shortened(m, n).begin = m.begin + n
             /\ Shortened(m, n).rs = m.rs /\ Shortened(m, n).flushed = m.flushed
             /\ Shortened(m, n).type = m.type
  <2> DEFINE k == m.begin + n
  <2>1. k \in Nat
    BY <1>2, <1>3
  <2>2. Shortened(m, n) = [m EXCEPT !.begin = k]
    BY DEF Shortened
  <2> HIDE DEF k
  <2>3. m \in MessageRecord /\ (m.type \in {"NodeOffline", "TimeOut"} => Len(m.rs) = 1)
    BY <1>3 DEF Message
  <2>4. /\ Shortened(m, n) \in MessageRecord /\ Shortened(m, n).begin = k
        /\ Shortened(m, n).rs = m.rs /\ Shortened(m, n).flushed = m.flushed
        /\ Shortened(m, n).type = m.type
    BY <2>1, <2>2, <2>3 DEF MessageRecord
  <2>5. Shortened(m, n) \in Message
    BY <2>3, <2>4 DEF Message
  <2> QED BY <2>4, <2>5 DEF k
<1>4. ASSUME NEW m \in PipeMessage PROVE Flushed(m) \in PipeMessage
  BY <1>1, <1>2, <1>4 DEF PipeMessage
<1> QED BY <1>1, <1>2, <1>3, <1>4

\* The messages that go to wait_queue or the pipe, with their fields.
LEMMA FlushedClear ==
    ASSUME NEW rs \in Seq(Rec), NEW m, m = Flushed(ClearMessage(rs))
    PROVE  m \in Message /\ m \in PipeMessage /\ m.rs = rs /\ m.flushed /\ m.begin = 0 /\ m.type = "ClearBuffer"
<1>1. ClearMessage(rs) \in PipeMessage /\ ClearMessage(rs).rs = rs
      /\ ClearMessage(rs).type = "ClearBuffer" /\ ClearMessage(rs).begin = 0
  BY MessagesMade
<1> DEFINE c == ClearMessage(rs)
<1> HIDE DEF c
<1>2. c \in Message /\ c \in PipeMessage /\ c.rs = rs /\ c.type = "ClearBuffer" /\ c.begin = 0 /\ m = Flushed(c)
  BY <1>1, MessageFields DEF c
<1>3. /\ Flushed(c) \in Message /\ Flushed(c) \in PipeMessage /\ Flushed(c).flushed
      /\ Flushed(c).rs = c.rs /\ Flushed(c).begin = c.begin /\ Flushed(c).type = c.type
  BY <1>2, MessageFields
<1> QED BY <1>2, <1>3

LEMMA NewRecTyped == ASSUME BuffersTyped, NEW b \in Slot PROVE NewRec(b) \in Rec
BY DEF BuffersTyped, NewRec, Rec

\* A record is copied to a buffer.
LEMMA CopyTyped ==
    ASSUME BuffersTyped, NEW b \in Slot, NEW s \in Seq(Rec), CopyTo(b, s)
    PROVE  recs' \in [Slot -> Seq(Rec)] /\ count' \in [Slot -> Nat] /\ faithful' \in BOOLEAN
<1>1. Append(s, NewRec(b)) \in Seq(Rec)
  BY NewRecTyped
<1>2. recs' \in [Slot -> Seq(Rec)]
  BY <1>1 DEF CopyTo, BuffersTyped
<1>3. count' \in [Slot -> Nat]
  BY DEF CopyTo, BuffersTyped
<1>4. faithful' \in BOOLEAN
  BY DEF CopyTo, BuffersTyped
<1> QED BY <1>2, <1>3, <1>4

\* What the loggers do while they are in submit_buffer, and that they are there.
LEMMA LoggersMove ==
    ASSUME writer \in [Slot -> Loggers], NEW b \in Slot
    PROVE  /\ \A h \in {"none", "getting", "dozing"} :
                 [writer EXCEPT ![b].holds = h] \in [Slot -> Loggers]
           /\ WakeUp(b) => writer' \in [Slot -> Loggers] /\ writer'[b].holds = "getting"
           /\ DozeOff(b) => writer' \in [Slot -> Loggers] /\ writer'[b].asleep = writer[b].asleep + 1
           /\ Nobody \in Loggers /\ writer[b] \in Loggers
<1>1. writer[b] \in Loggers
  OBVIOUS
<1>2. Nobody \in Loggers
  BY DEF Nobody, Loggers
<1>3. ASSUME NEW h \in {"none", "getting", "dozing"} PROVE [writer EXCEPT ![b].holds = h] \in [Slot -> Loggers]
  BY <1>1, <1>3 DEF Loggers
<1>4. ASSUME WakeUp(b) PROVE writer' \in [Slot -> Loggers] /\ writer'[b].holds = "getting"
  <2> DEFINE k == writer[b].woken - 1
  <2>1. k \in Nat /\ writer' = [writer EXCEPT ![b].holds = "getting", ![b].woken = k]
    BY <1>1, <1>4 DEF WakeUp, Loggers
  <2> HIDE DEF k
  <2> QED BY <1>1, <2>1 DEF Loggers
<1>5. ASSUME DozeOff(b) PROVE writer' \in [Slot -> Loggers] /\ writer'[b].asleep = writer[b].asleep + 1
  <2> DEFINE k == writer[b].asleep + 1
  <2>1. k \in Nat /\ writer' = [writer EXCEPT ![b].holds = "none", ![b].asleep = k]
    BY <1>1, <1>5 DEF DozeOff, Loggers
  <2> HIDE DEF k
  <2>2. writer' \in [Slot -> Loggers] /\ writer'[b].asleep = k
    BY <1>1, <2>1 DEF Loggers
  <2> QED BY <2>2 DEF k
<1> QED BY <1>1, <1>2, <1>3, <1>4, <1>5

\* The part of a message that clear_buffer sends: n halves.
SentPart(m, stay, n) ==
    /\ m.begin + n <= 2 * Len(m.rs)
    /\ output' = output \o SubSeq(Halves2(m.rs), m.begin + 1, m.begin + n)
    /\ output' \in Seq(HalfRec) /\ Len(output') <= OutRoom
    /\ waitQueue' = IF m.begin + n < 2 * Len(m.rs) THEN <<Shortened(m, n)>> \o stay ELSE stay

\* clear_buffer sends as much as the output has room for.
LEMMA SendsPart ==
    ASSUME center, NEW m \in Message, NEW stay, m.begin <= 2 * Len(m.rs),
           output \in Seq(HalfRec), Len(output) <= OutRoom, SendBuffer(m, stay)
    PROVE  \E n \in Nat : SentPart(m, stay, n)
<1>1. m.rs \in Seq(Rec) /\ m.begin \in Nat
  BY MessageFields
<1> DEFINE H == Halves2(m.rs)
           k == m.begin
           L == 2 * Len(m.rs)
           rest == SubSeq(H, k + 1, L)
           n == IF Len(rest) < Room THEN Len(rest) ELSE Room
<1>2. H \in Seq(HalfRec) /\ Len(H) = L /\ L \in Nat /\ k \in Nat /\ k <= L
  <2>1. H \in Seq(HalfRec) /\ Len(H) = L /\ Len(m.rs) \in Nat
    BY <1>1, HalvesAre DEF HalfRec
  <2> QED BY <1>1, <2>1
<1>3. SendBuffer(m, stay) <=>
         IF center /\ n < Len(rest)
         THEN /\ output' = output \o SubSeq(rest, 1, n)
              /\ waitQueue' = <<Shortened(m, n)>> \o stay
              /\ UNCHANGED <<freeBlocks, writer>>
         ELSE /\ output' = IF center THEN output \o rest ELSE output
              /\ waitQueue' = stay
              /\ freeBlocks' = freeBlocks + 1
              /\ NotifyOne
  BY DEF SendBuffer
<1>4. rest = SubSeq(H, k + 1, L)
  OBVIOUS
<1> HIDE DEF H, k, L, rest
<1>5. rest \in Seq(HalfRec) /\ Len(rest) = L - k /\ \A i \in 1 .. L - k : rest[i] = H[k + i]
  <2>1. k + 1 \in Nat /\ L - (k + 1) + 1 = L - k /\ \A i \in 1 .. L - k : (k + 1) + i - 1 = k + i
    BY <1>2
  <2>2. rest \in Seq(HalfRec)
    BY <1>2, <1>4
  <2>3. Len(rest) = L - k
    BY <1>2, <1>4, <2>1
  <2>4. \A i \in 1 .. L - k : rest[i] = H[k + i]
    BY <1>2, <1>4, <2>1
  <2> QED BY <2>2, <2>3, <2>4
<1>6. Room = OutRoom - Len(output) /\ Room \in Nat /\ Len(output) \in Nat /\ OutRoom \in Nat
  BY BuffersAssumption DEF Room
<1>7. /\ n \in Nat /\ k + n <= L /\ (n < Len(rest) <=> k + n < L) /\ (n = Len(rest) => k + n = L)
      /\ n <= OutRoom - Len(output) /\ (~(n < Len(rest)) => n = Len(rest)) /\ n <= L - k
  <2> DEFINE ln == Len(rest)
             lo == Len(output)
             rm == Room
  <2>1. ln = L - k /\ L \in Nat /\ k \in Nat /\ k <= L /\ rm = OutRoom - lo /\ rm \in Nat
        /\ lo \in Nat /\ OutRoom \in Nat /\ n = IF ln < rm THEN ln ELSE rm
    BY <1>2, <1>5, <1>6
  <2> HIDE DEF ln, lo, rm, n
  <2>2. /\ n \in Nat /\ k + n <= L /\ (n < ln <=> k + n < L) /\ (n = ln => k + n = L)
        /\ n <= OutRoom - lo /\ n <= L - k
    BY <2>1
  <2>3. ~(n < ln) => n = ln
    BY <2>1, <2>2
  <2> QED BY <2>2, <2>3 DEF ln, lo
<1> HIDE DEF n
<1>8. SubSeq(rest, 1, n) = SubSeq(H, k + 1, k + n)
  <2> DEFINE p == SubSeq(rest, 1, n)
             q == SubSeq(H, k + 1, k + n)
  <2>1. p \in Seq(HalfRec) /\ Len(p) = n /\ \A i \in 1 .. n : p[i] = rest[i]
    BY <1>5, <1>7
  <2>2. q \in Seq(HalfRec) /\ Len(q) = n /\ \A i \in 1 .. n : q[i] = H[k + i]
    BY <1>2, <1>7
  <2>3. \A i \in 1 .. n : i \in 1 .. L - k
    BY <1>2, <1>7
  <2> HIDE DEF p, q
  <2>4. \A i \in 1 .. n : p[i] = q[i]
    BY <1>5, <2>1, <2>2, <2>3
  <2>5. p = q
    BY <1>7, <2>1, <2>2, <2>4
  <2> QED BY <2>5 DEF p, q
<1>9. n = Len(rest) => rest = SubSeq(H, k + 1, k + n)
  BY <1>4, <1>7
<1>10. output' = output \o SubSeq(H, k + 1, k + n)
  BY <1>3, <1>7, <1>8, <1>9
<1>11. waitQueue' = IF k + n < L THEN <<Shortened(m, n)>> \o stay ELSE stay
  BY <1>3, <1>7
<1>12. output' \in Seq(HalfRec) /\ Len(output') <= OutRoom
  <2>1. output' \in Seq(HalfRec) /\ Len(output') = Len(output) + n
    BY <1>2, <1>7, <1>10, PieceBehind
  <2> QED BY <1>6, <1>7, <2>1, BuffersAssumption
<1>13. SentPart(m, stay, n)
  BY <1>7, <1>10, <1>11, <1>12 DEF SentPart, H, k, L
<1> QED BY <1>7, <1>13

\* Without a center the message is forgotten.
LEMMA SendsNothing ==
    ASSUME NEW m, NEW stay, ~center, SendBuffer(m, stay)
    PROVE  output' = output /\ waitQueue' = stay
BY DEF SendBuffer

\* A logger that is notified is still in submit_buffer.
LEMMA NotifyTyped ==
    ASSUME writer \in [Slot -> Loggers], NotifyOne
    PROVE  /\ writer' \in [Slot -> Loggers]
           /\ \A b \in Slot : writer[b] = Nobody <=> writer'[b] = Nobody
           /\ \A b \in Slot : /\ writer'[b].holds = writer[b].holds
                              /\ writer'[b].asleep + writer'[b].woken = writer[b].asleep + writer[b].woken
<1>1. CASE writer' = writer
  BY <1>1
<1>2. ASSUME NEW c \in Slot, writer[c].asleep > 0,
             writer' = [writer EXCEPT ![c].asleep = @ - 1, ![c].woken = @ + 1]
      PROVE  /\ writer' \in [Slot -> Loggers]
             /\ \A b \in Slot : writer[b] = Nobody <=> writer'[b] = Nobody
             /\ \A b \in Slot : /\ writer'[b].holds = writer[b].holds
                                /\ writer'[b].asleep + writer'[b].woken = writer[b].asleep + writer[b].woken
  <2> DEFINE k == writer[c].asleep - 1
             n == writer[c].woken + 1
             v == [writer[c] EXCEPT !.asleep = k, !.woken = n]
  <2>1. writer[c] \in Loggers /\ k \in Nat /\ n \in Nat
    BY <1>2 DEF Loggers
  <2>2. writer' = [writer EXCEPT ![c] = v]
    BY <1>2
  <2>3. k + n = writer[c].asleep + writer[c].woken /\ n # 0
    BY <2>1 DEF Loggers
  <2>4. writer[c] # Nobody
    BY <1>2 DEF Nobody
  <2> HIDE DEF k, n
  <2>5. v \in Loggers /\ v.holds = writer[c].holds /\ v.asleep = k /\ v.woken = n
    BY <2>1 DEF Loggers
  <2>6. v # Nobody
    BY <2>3, <2>5 DEF Nobody
  <2> HIDE DEF v
  <2> QED BY <2>2, <2>3, <2>4, <2>5, <2>6
<1> QED BY <1>1, <1>2 DEF NotifyOne

LEMMA SendNotifies ==
    ASSUME NEW m, NEW stay, SendBuffer(m, stay), writer \in [Slot -> Loggers]
    PROVE  /\ writer' \in [Slot -> Loggers]
           /\ \A b \in Slot : writer[b] = Nobody <=> writer'[b] = Nobody
<1>1. NotifyOne \/ writer' = writer
  BY DEF SendBuffer
<1> QED BY <1>1, NotifyTyped

LEMMA WriteFitsTyped == ASSUME BuffersTyped, NEW b \in Slot, WriteFits(b) PROVE BuffersTyped'
<1>1. recs[b] \in Seq(Rec) /\ CopyTo(b, recs[b])
  BY DEF BuffersTyped, WriteFits
<1> QED BY <1>1, CopyTyped DEF WriteFits, BuffersTyped, threadSide

LEMMA SubmitSwapTyped == ASSUME BuffersTyped, NEW b \in Slot, SubmitSwap(b) PROVE BuffersTyped'
<1>1. recs[b] \in Seq(Rec) /\ <<>> \in Seq(Rec) /\ CopyTo(b, <<>>)
  BY DEF BuffersTyped, SubmitSwap
<1>2. ClearMessage(recs[b]) \in PipeMessage
  BY <1>1, MessagesMade
<1>3. pipe' \in Seq(PipeMessage)
  <2>1. pipe \in Seq(PipeMessage)
    BY DEF BuffersTyped
  <2> QED BY <1>2, <2>1 DEF SubmitSwap
<1> QED BY <1>1, <1>3, CopyTyped DEF SubmitSwap, BuffersTyped, threadSide

LEMMA SubmitAloneTyped == ASSUME BuffersTyped, NEW b \in Slot, SubmitAlone(b) PROVE BuffersTyped'
<1>1. recs[b] \in Seq(Rec) /\ <<>> \in Seq(Rec) /\ CopyTo(b, <<>>)
  BY DEF BuffersTyped, SubmitAlone
<1>2. recFile' \in Seq(Rec)
  BY <1>1 DEF BuffersTyped, SubmitAlone
<1> QED BY <1>1, <1>2, CopyTyped DEF SubmitAlone, BuffersTyped, threadSide

LEMMA SubmitLastTyped == ASSUME BuffersTyped, NEW b \in Slot, SubmitLast(b) PROVE BuffersTyped'
<1>1. recs[b] \in Seq(Rec) /\ <<>> \in Seq(Rec) /\ recFile \in Seq(Rec) /\ pipe \in Seq(PipeMessage)
  BY DEF BuffersTyped
<1>2. Flushed(ClearMessage(recs[b])) \in PipeMessage
  BY <1>1, FlushedClear
<1>3. pipe' \in Seq(PipeMessage) /\ recFile' \in Seq(Rec)
  BY <1>1, <1>2 DEF SubmitLast
<1>4. recs' \in [Slot -> Seq(Rec)] /\ block' \in [Slot -> BOOLEAN]
  BY <1>1 DEF SubmitLast, BuffersTyped
<1>5. writer' \in [Slot -> Loggers]
  BY LoggersMove DEF SubmitLast, Looks, BuffersTyped
<1> QED BY <1>3, <1>4, <1>5 DEF SubmitLast, BuffersTyped, centerSide, threadSide

LEMMA SubmitEmptyTyped == ASSUME BuffersTyped, NEW b \in Slot, SubmitEmpty(b) PROVE BuffersTyped'
<1>1. writer' \in [Slot -> Loggers]
  BY LoggersMove DEF SubmitEmpty, Looks, BuffersTyped
<1> QED BY <1>1 DEF SubmitEmpty, BuffersTyped, centerSide, threadSide

LEMMA GetBlockTyped == ASSUME BuffersTyped, NEW b \in Slot, GetBlock(b) PROVE BuffersTyped'
<1>1. recs[b] \in Seq(Rec) /\ CopyTo(b, recs[b])
  BY DEF BuffersTyped, GetBlock
<1>2. block' \in [Slot -> BOOLEAN]
  BY DEF GetBlock, BuffersTyped
<1>3. writer' \in [Slot -> Loggers]
  BY LoggersMove DEF GetBlock, BuffersTyped
<1> QED BY <1>1, <1>2, <1>3, CopyTyped DEF GetBlock, BuffersTyped, threadSide

LEMMA GetNoneTyped == ASSUME BuffersTyped, NEW b \in Slot, GetNone(b) PROVE BuffersTyped'
<1>1. block' \in [Slot -> BOOLEAN]
  BY DEF GetNone, BuffersTyped
<1>2. writer' \in [Slot -> Loggers]
  BY LoggersMove DEF GetNone, BuffersTyped
<1> QED BY <1>1, <1>2 DEF GetNone, BuffersTyped, centerSide, threadSide

LEMMA UndefinedTyped == ASSUME BuffersTyped, NEW b \in Slot, Overrun(b) \/ WriteNowhere(b) PROVE BuffersTyped'
BY DEF Overrun, WriteNowhere, BuffersTyped, writerVars, centerSide, threadSide

LEMMA DozeOffTyped == ASSUME BuffersTyped, NEW b \in Slot, DozeOff(b) \/ WakeUp(b) PROVE BuffersTyped'
<1>1. writer' \in [Slot -> Loggers]
  BY LoggersMove DEF BuffersTyped
<1> QED BY <1>1 DEF DozeOff, WakeUp, BuffersTyped, centerSide, threadSide

LEMMA DestroyTyped == ASSUME BuffersTyped, Destroy PROVE BuffersTyped'
<1>1. pipe' \in Seq(PipeMessage)
  <2>1. pipe \in Seq(PipeMessage) /\ ShutDownMessage \in PipeMessage
    BY MessagesMade DEF BuffersTyped
  <2> QED BY <2>1 DEF Destroy
<1> QED BY <1>1 DEF Destroy, BuffersTyped, writerVars, centerSide, threadSide

LEMMA AcceptMessageTyped == ASSUME BuffersTyped, NEW room \in BOOLEAN, AcceptMessage(room) PROVE BuffersTyped'
<1>1. inbox' \in Seq(PipeMessage) /\ pipe' \in Seq(PipeMessage)
  <2>1. inbox \in Seq(PipeMessage) /\ pipe \in Seq(PipeMessage) /\ <<>> \in Seq(PipeMessage)
    BY DEF BuffersTyped
  <2> QED BY <2>1, JoinedPlaces DEF AcceptMessage
<1>2. /\ center' \in BOOLEAN /\ faithful' \in BOOLEAN /\ links' \in Nat
      /\ output' \in Seq(HalfRec) /\ got' \in Seq(HalfRec)
  <2>1. <<>> \in Seq(HalfRec) /\ output \in Seq(HalfRec) /\ got \in Seq(HalfRec) /\ links \in Nat
        /\ center \in BOOLEAN /\ faithful \in BOOLEAN
    BY DEF BuffersTyped
  <2>2. CASE UNCHANGED <<center, output, got, links, faithful>>
    BY <2>1, <2>2
  <2>3. CASE center' = TRUE /\ links' = links + 1 /\ got' = <<>> /\ UNCHANGED <<output, faithful>>
    BY <2>1, <2>3
  <2>4. CASE CenterGone
    BY <2>1, <2>4 DEF CenterGone
  <2> QED BY <2>2, <2>3, <2>4 DEF AcceptMessage
<1>3. srvPc' \in {"send", "local"}
  BY DEF AcceptMessage
<1> QED BY <1>1, <1>2, <1>3 DEF AcceptMessage, BuffersTyped, writerVars

\* What clear_buffer leaves behind.
LEMMA SendTyped ==
    ASSUME BuffersTyped, NEW m \in Message, NEW stay \in Seq(Message), SendBuffer(m, stay),
           Len(output) <= OutRoom, m.begin <= 2 * Len(m.rs)
    PROVE  output' \in Seq(HalfRec) /\ waitQueue' \in Seq(Message)
           /\ writer' \in [Slot -> Loggers]
           /\ Len(output') <= OutRoom
<1>1. output \in Seq(HalfRec) /\ writer \in [Slot -> Loggers]
  BY DEF BuffersTyped
<1>2. CASE center
  <2>1. PICK n \in Nat : SentPart(m, stay, n)
    BY <1>1, <1>2, SendsPart
  <2>2. Shortened(m, n) \in Message
    BY MessageFields
  <2>3. <<Shortened(m, n)>> \o stay \in Seq(Message)
    BY <2>2
  <2> QED BY <1>1, <2>1, <2>3, SendNotifies DEF SentPart
<1>3. CASE ~center
  BY <1>1, <1>3, SendsNothing, SendNotifies
<1> QED BY <1>2, <1>3

-----------------------------------------------------------------------------
(* The buffers: what a center receives *)

\* How far the thread is with the first message of wait_queue: the halves sent end
\* where its begin says, all other messages wait in one piece, and no message waits
\* for a center to come.
StreamCut ==
    /\ ~center => output = <<>>
    /\ Len(output) <= OutRoom
    /\ ~center /\ srvPc \in {"accept", "update", "close"} => waitQueue = <<>>
    /\ \A i \in DOMAIN waitQueue : waitQueue[i].type # "ShutDownServer" /\ (i > 1 => waitQueue[i].begin = 0)
    /\ waitQueue # <<>> => /\ waitQueue[1].begin <= 2 * Len(waitQueue[1].rs)
                           /\ waitQueue[1].begin # 0 => waitQueue[1].type = "ClearBuffer"
                           /\ center => Cut(got \o output, waitQueue[1].rs, waitQueue[1].begin)
    /\ waitQueue = <<>> /\ center => Cut(got \o output, <<>>, 0)

\* Where no record has begun, any may follow.
LEMMA CutAnywhere ==
    ASSUME NEW us, NEW rs, NEW qs, Cut(us, rs, 0)
    PROVE  Cut(us, qs, 0)
BY DEF Cut

LEMMA CutEnds ==
    ASSUME NEW us, NEW rs \in Seq(Rec), NEW qs, Cut(us, rs, 2 * Len(rs))
    PROVE  Cut(us, qs, 0)
<1>1. (2 * Len(rs)) % 2 = 0
  OBVIOUS
<1> QED BY <1>1 DEF Cut

\* The center's side and wait_queue stay.
LEMMA StreamUnmoved ==
    ASSUME StreamCut, UNCHANGED <<center, output, got, waitQueue>>,
           ~center /\ srvPc' \in {"accept", "update", "close"} => srvPc \in {"accept", "update", "close"}
    PROVE  StreamCut'
BY DEF StreamCut

\* Messages that are in one piece wait behind the others.
LEMMA StreamWaits ==
    ASSUME BuffersTyped, StreamCut, NEW m \in Message, m.begin = 0, m.type # "ShutDownServer",
           waitQueue' = Append(waitQueue, m), UNCHANGED <<center, output, got>>,
           srvPc' \in {"accept", "update", "close"} => center
    PROVE  StreamCut'
<1>1. /\ waitQueue \in Seq(Message) /\ Len(waitQueue) \in Nat /\ DOMAIN waitQueue = 1 .. Len(waitQueue)
      /\ Len(waitQueue') = Len(waitQueue) + 1 /\ DOMAIN waitQueue' = 1 .. Len(waitQueue) + 1
      /\ \A i \in 1 .. Len(waitQueue) : waitQueue'[i] = waitQueue[i]
      /\ waitQueue'[Len(waitQueue) + 1] = m /\ waitQueue' # <<>>
  BY AppendedPlaces, SMTT(30) DEF BuffersTyped
<1>2. \A i \in DOMAIN waitQueue' : waitQueue'[i].type # "ShutDownServer" /\ (i > 1 => waitQueue'[i].begin = 0)
  <2> SUFFICES ASSUME NEW i \in 1 .. Len(waitQueue) + 1
               PROVE  waitQueue'[i].type # "ShutDownServer" /\ (i > 1 => waitQueue'[i].begin = 0)
    BY <1>1
  <2>1. i \in 1 .. Len(waitQueue) \/ i = Len(waitQueue) + 1
    BY <1>1
  <2> QED BY <1>1, <2>1 DEF StreamCut
<1>3. CASE waitQueue = <<>>
  <2>1. waitQueue'[1] = m
    BY <1>1, <1>3
  <2>2. m.rs \in Seq(Rec)
    BY MessageFields
  <2>3. center => Cut(got \o output, m.rs, 0)
    BY <1>3, CutAnywhere DEF StreamCut
  <2>4. 0 <= 2 * Len(m.rs)
    BY <2>2
  <2> QED BY <1>1, <1>2, <2>1, <2>3, <2>4 DEF StreamCut
<1>4. CASE waitQueue # <<>>
  <2>1. waitQueue'[1] = waitQueue[1]
    BY <1>1, <1>4
  <2> QED BY <1>1, <1>2, <1>4, <2>1 DEF StreamCut
<1> QED BY <1>3, <1>4

\* The first message leaves wait_queue, with or without having been sent.
LEMMA StreamDrops ==
    ASSUME BuffersTyped, StreamCut, waitQueue # <<>>, waitQueue' = Tail(waitQueue),
           ~center' => output' = <<>>, Len(output') <= OutRoom, center' = center \/ ~center',
           center' => Cut(got' \o output', <<>>, 0), srvPc' = "drain"
    PROVE  StreamCut'
<1>1. /\ waitQueue \in Seq(Message) /\ Len(waitQueue) \in Nat
      /\ DOMAIN waitQueue = 1 .. Len(waitQueue) /\ DOMAIN waitQueue' = 1 .. Len(waitQueue) - 1
      /\ \A i \in 1 .. Len(waitQueue) - 1 : waitQueue'[i] = waitQueue[i + 1]
  BY HeadAndTail DEF BuffersTyped
<1>2. ASSUME NEW i \in DOMAIN waitQueue' 
      PROVE  waitQueue'[i].begin = 0 /\ waitQueue'[i].type # "ShutDownServer" /\ waitQueue'[i] \in Message
  <2>1. i + 1 \in DOMAIN waitQueue /\ i + 1 > 1
    BY <1>1, <1>2
  <2> QED BY <1>1, <1>2, <2>1 DEF StreamCut
<1>3. waitQueue' # <<>> => 1 \in DOMAIN waitQueue'
  <2>1. waitQueue' \in Seq(Message) /\ Len(waitQueue') = Len(waitQueue) - 1
    BY HeadAndTail DEF BuffersTyped
  <2> QED BY <1>1, <2>1
<1>4. waitQueue' # <<>> => /\ waitQueue'[1].begin = 0 /\ waitQueue'[1].begin <= 2 * Len(waitQueue'[1].rs)
                           /\ center' => Cut(got' \o output', waitQueue'[1].rs, waitQueue'[1].begin)
  <2> SUFFICES ASSUME waitQueue' # <<>>
               PROVE  /\ waitQueue'[1].begin = 0 /\ waitQueue'[1].begin <= 2 * Len(waitQueue'[1].rs)
                      /\ center' => Cut(got' \o output', waitQueue'[1].rs, waitQueue'[1].begin)
    OBVIOUS
  <2>1. waitQueue'[1].begin = 0 /\ waitQueue'[1].rs \in Seq(Rec)
    BY <1>2, <1>3, MessageFields
  <2>2. 0 <= 2 * Len(waitQueue'[1].rs)
    BY <2>1
  <2>3. center' => Cut(got' \o output', waitQueue'[1].rs, 0)
    BY CutAnywhere
  <2> QED BY <2>1, <2>2, <2>3
<1> QED BY <1>2, <1>4 DEF StreamCut

\* clear_buffer, for the message m and what is behind it.
LEMMA StreamSends ==
    ASSUME BuffersTyped, StreamCut, NEW m \in Message, NEW stay \in Seq(Message), SendBuffer(m, stay),
           m.begin <= 2 * Len(m.rs), m.begin # 0 => m.type = "ClearBuffer",
           center => Cut(got \o output, m.rs, m.begin), m.type = "ClearBuffer",
           \A i \in DOMAIN stay : stay[i].begin = 0 /\ stay[i].type # "ShutDownServer", UNCHANGED <<center, got>>,
           srvPc' \in {"accept", "update", "close"} => center
    PROVE  StreamCut'
<1>1. m.rs \in Seq(Rec) /\ m.begin \in Nat /\ output \in Seq(HalfRec) /\ got \in Seq(HalfRec)
  BY MessageFields DEF BuffersTyped
<1>2. ASSUME waitQueue' = stay, ~center => output' = <<>>, Len(output') <= OutRoom,
             center => Cut(got \o output', <<>>, 0)
      PROVE  StreamCut'
  <2>1. \A i \in DOMAIN waitQueue' : waitQueue'[i].begin = 0 /\ waitQueue'[i].type # "ShutDownServer"
    BY <1>2
  <2>2. waitQueue' # <<>> => 1 \in DOMAIN waitQueue' /\ waitQueue'[1] \in Message
    BY <1>2
  <2>3. waitQueue' # <<>> => /\ waitQueue'[1].begin = 0 /\ waitQueue'[1].begin <= 2 * Len(waitQueue'[1].rs)
                             /\ center => Cut(got \o output', waitQueue'[1].rs, waitQueue'[1].begin)
    <3> SUFFICES ASSUME waitQueue' # <<>>
                 PROVE  /\ waitQueue'[1].begin = 0 /\ waitQueue'[1].begin <= 2 * Len(waitQueue'[1].rs)
                        /\ center => Cut(got \o output', waitQueue'[1].rs, waitQueue'[1].begin)
      OBVIOUS
    <3>1. waitQueue'[1].begin = 0 /\ waitQueue'[1].rs \in Seq(Rec)
      BY <2>1, <2>2, MessageFields
    <3>2. 0 <= 2 * Len(waitQueue'[1].rs)
      BY <3>1
    <3>3. center => Cut(got \o output', waitQueue'[1].rs, 0)
      BY <1>2, CutAnywhere
    <3> QED BY <3>1, <3>2, <3>3
  <2> QED BY <1>2, <2>1, <2>3 DEF StreamCut
<1>3. CASE ~center
  BY <1>2, <1>3, SendsNothing DEF StreamCut
<1>4. CASE center
  <2>1. Len(output) <= OutRoom
    BY DEF StreamCut
  <2>2. PICK n \in Nat : SentPart(m, stay, n)
    BY <1>1, <1>4, <2>1, SendsPart
  <2> DEFINE k == m.begin
             us == got \o output
             vs == us \o SubSeq(Halves2(m.rs), k + 1, k + n)
  <2>3. k + n <= 2 * Len(m.rs) /\ output' = output \o SubSeq(Halves2(m.rs), k + 1, k + n)
        /\ Len(output') <= OutRoom
        /\ waitQueue' = IF k + n < 2 * Len(m.rs) THEN <<Shortened(m, n)>> \o stay ELSE stay
    BY <2>2 DEF SentPart
  <2>4. Cut(vs, m.rs, k + n)
    <3>1. us \in Seq(HalfRec) /\ Cut(us, m.rs, k)
      BY <1>1, <1>4
    <3> HIDE DEF us, k
    <3> QED BY <1>1, <2>3, <3>1, CutGoesOn DEF k
  <2>5. got \o output' = vs
    <3>1. SubSeq(Halves2(m.rs), k + 1, k + n) \in Seq(HalfRec)
      <4>1. Halves2(m.rs) \in Seq(HalfRec) /\ Len(Halves2(m.rs)) = 2 * Len(m.rs)
        BY <1>1, HalvesAre DEF HalfRec
      <4>2. n \in Nat /\ k \in Nat /\ k + n <= Len(Halves2(m.rs))
        BY <1>1, <2>3, <4>1
      <4> QED BY <4>1, <4>2, PieceTyped
    <3> DEFINE p == SubSeq(Halves2(m.rs), k + 1, k + n)
    <3> HIDE DEF p
    <3>2. p \in Seq(HalfRec) /\ got \in Seq(HalfRec) /\ output \in Seq(HalfRec)
      BY <1>1, <3>1 DEF p
    <3>3. got \o (output \o p) = (got \o output) \o p
      BY ONLY <3>2, JoinTwice, SMTT(30)
    <3> QED BY <2>3, <3>3 DEF p
  <2> HIDE DEF vs, k
  <2>6. CASE k + n < 2 * Len(m.rs)
    <3> DEFINE c == Shortened(m, n)
    <3>1. c \in Message /\ c.begin = k + n /\ c.rs = m.rs /\ c.type = m.type
      BY MessageFields, SMTT(30) DEF k
    <3> HIDE DEF c
    <3>2. waitQueue' = <<c>> \o stay
      BY <2>3, <2>6 DEF c
    <3>3. waitQueue'[1] = c /\ waitQueue' # <<>>
      BY <3>2
    <3>4. ASSUME NEW i \in DOMAIN waitQueue'
          PROVE  waitQueue'[i].type # "ShutDownServer" /\ (i > 1 => waitQueue'[i].begin = 0)
      <4>1. i > 1 => i - 1 \in DOMAIN stay /\ waitQueue'[i] = stay[i - 1]
        BY <3>2, <3>4
      <4>2. i > 1 \/ i = 1
        BY <3>2, <3>4
      <4>3. c.type # "ShutDownServer"
        BY <3>1
      <4> QED BY <3>3, <4>1, <4>2, <4>3
    <3>5. c.begin <= 2 * Len(c.rs)
      BY <1>1, <2>3, <3>1
    <3> QED BY <1>4, <2>3, <2>4, <2>5, <3>1, <3>3, <3>4, <3>5 DEF StreamCut
  <2>7. CASE ~(k + n < 2 * Len(m.rs))
    <3>1. k + n = 2 * Len(m.rs)
      <4> DEFINE L == 2 * Len(m.rs)
      <4>1. k \in Nat
        BY <1>1 DEF k
      <4>2. L \in Nat
        BY <1>1
      <4>3. k + n <= L /\ ~(k + n < L)
        BY <2>3, <2>7
      <4> HIDE DEF L
      <4>4. k + n = L
        BY <4>1, <4>2, <4>3
      <4> QED BY <4>4 DEF L
    <3>2. Cut(vs, <<>>, 0)
      BY <1>1, <2>4, <3>1, CutEnds
    <3> QED BY <1>2, <1>4, <2>3, <2>5, <2>7, <3>2
  <2> QED BY <2>6, <2>7
<1> QED BY <1>3, <1>4

Streaming == BuffersTyped /\ StreamCut

\* The loggers, time and the destructor do not touch the center's side.
LEMMA WriterStreams ==
    ASSUME Streaming, NEW b \in Slot,
           \/ WriteFits(b) \/ WriteNowhere(b)
           \/ SubmitSwap(b) \/ SubmitAlone(b) \/ SubmitLast(b) \/ SubmitEmpty(b)
           \/ WriterStep(b) \/ Age(b)
    PROVE  Streaming'
<1>1. BuffersTyped /\ StreamCut
  BY DEF Streaming
<1>2. BuffersTyped'
  <2>1. CASE Age(b)
    BY <1>1, <2>1 DEF Age, BuffersTyped, centerSide, threadSide
  <2>2. CASE WriterStep(b)
    BY <1>1, <2>2, GetBlockTyped, GetNoneTyped, UndefinedTyped, DozeOffTyped DEF WriterStep
  <2> QED BY <1>1, <2>1, <2>2, UndefinedTyped, WriteFitsTyped, SubmitSwapTyped, SubmitAloneTyped, SubmitLastTyped,
             SubmitEmptyTyped
<1>3. UNCHANGED <<center, output, got, waitQueue, srvPc>>
  BY DEF WriteFits, WriteNowhere, SubmitSwap, SubmitAlone, SubmitLast, SubmitEmpty, WriterStep, GetBlock,
         Overrun, GetNone, DozeOff, WakeUp, Age, centerSide, threadSide
<1> QED BY <1>1, <1>2, <1>3, StreamUnmoved DEF Streaming

LEMMA DestroyStreams == ASSUME Streaming, Destroy PROVE Streaming'
<1>1. BuffersTyped /\ StreamCut /\ BuffersTyped'
  BY DestroyTyped DEF Streaming
<1>2. UNCHANGED <<center, output, got, waitQueue, srvPc>>
  BY DEF Destroy, centerSide, threadSide
<1> QED BY <1>1, <1>2, StreamUnmoved DEF Streaming

LEMMA EmptyStream == Whole(<<>>) /\ \A rs : Cut(<<>>, rs, 0)
<1>1. Whole(<<>>)
  BY DEF Whole
<1>2. 0 % 2 # 1
  OBVIOUS
<1> QED BY <1>1, <1>2 DEF Cut

\* The connection to the center ends.
LEMMA CenterGoneStreams ==
    ASSUME StreamCut, center' = FALSE, output' = <<>>, waitQueue' = waitQueue,
           srvPc' \notin {"accept", "update", "close"}
    PROVE  StreamCut'
<1>1. Len(<<>>) <= OutRoom
  BY BuffersAssumption
<1> QED BY <1>1 DEF StreamCut

LEMMA AcceptMessageStreams == ASSUME Streaming, NEW room \in BOOLEAN, AcceptMessage(room) PROVE Streaming'
<1>1. BuffersTyped /\ StreamCut /\ BuffersTyped'
  BY AcceptMessageTyped DEF Streaming
<1>2. srvPc = "accept" /\ srvPc' \in {"send", "local"} /\ waitQueue' = waitQueue
  BY DEF AcceptMessage
<1>3. CASE UNCHANGED <<center, output, got>>
  BY <1>1, <1>2, <1>3, StreamUnmoved DEF Streaming
<1>4. CASE ~center /\ center' = TRUE /\ got' = <<>> /\ output' = output
  <2>1. waitQueue = <<>> /\ output = <<>>
    BY <1>1, <1>2, <1>4 DEF StreamCut
  <2>2. got' \o output' = <<>> /\ Len(output') <= OutRoom
    BY <1>4, <2>1, BuffersAssumption
  <2>3. StreamCut'
    BY <1>2, <1>4, <2>1, <2>2, EmptyStream DEF StreamCut
  <2> QED BY <1>1, <2>3 DEF Streaming
<1>5. CASE CenterGone
  <2>1. center' = FALSE /\ output' = <<>>
    BY <1>5 DEF CenterGone
  <2> QED BY <1>1, <1>2, <2>1, CenterGoneStreams DEF Streaming
<1> QED BY <1>3, <1>4, <1>5 DEF AcceptMessage

LEMMA HandleLocalStreams == ASSUME Streaming, HandleLocal PROVE Streaming'
<1>1. BuffersTyped /\ StreamCut
  BY DEF Streaming
<1> DEFINE m == Head(inbox)
           c == Flushed(m)
<1>2. /\ inbox \in Seq(PipeMessage) /\ inbox # <<>> /\ m \in PipeMessage /\ Tail(inbox) \in Seq(PipeMessage)
      /\ inbox' = Tail(inbox)
  <2>1. inbox \in Seq(PipeMessage) /\ inbox # <<>> /\ inbox' = Tail(inbox)
    BY <1>1 DEF BuffersTyped, HandleLocal
  <2> QED BY <2>1, HeadAndTail
<1>3. /\ m \in Message /\ m.rs \in Seq(Rec) /\ m.begin = 0 /\ m.type \in {"ClearBuffer", "ShutDownServer"}
      /\ c \in Message /\ c.rs = m.rs /\ c.begin = 0 /\ c.type = m.type
  BY <1>2, MessageFields
<1>4. /\ center \in BOOLEAN /\ UNCHANGED <<block, recs, pipe, center, got, links, faithful, destroying, count>>
      /\ srvPc = "local" /\ (center' = center) /\ (got' = got)
  BY <1>1 DEF BuffersTyped, HandleLocal
<1>5. CASE m.type = "ShutDownServer"
  <2>1. UNCHANGED <<writer, output, recFile, waitQueue>> /\ srvPc' = "flush" /\ toVisit' = Slot /\ ending' = "noticed"
    BY <1>5 DEF HandleLocal
  <2>2. BuffersTyped'
    BY <1>1, <1>2, <1>4, <2>1 DEF BuffersTyped
  <2> QED BY <1>1, <1>4, <2>1, <2>2, StreamUnmoved DEF Streaming
<1>6. CASE m.type # "ShutDownServer"
  <2>1. /\ recFile' = Filed(m) /\ UNCHANGED <<srvPc, toVisit, ending>>
        /\ IF MaySend THEN SendBuffer(c, waitQueue)
           ELSE waitQueue' = Append(waitQueue, c) /\ UNCHANGED <<writer, output>>
    BY <1>6 DEF HandleLocal
  <2>2. recFile' \in Seq(Rec)
    BY <1>1, <1>3, <2>1 DEF BuffersTyped, Filed
  <2>3. waitQueue \in Seq(Message) /\ Len(output) <= OutRoom
    BY <1>1 DEF BuffersTyped, StreamCut
  <2>4. CASE MaySend
    <3>1. SendBuffer(c, waitQueue) /\ waitQueue = <<>>
      BY <2>1, <2>4 DEF MaySend
    <3>2. c.begin <= 2 * Len(c.rs) /\ c.type = "ClearBuffer"
      BY <1>3, <1>6
    <3>3. output' \in Seq(HalfRec) /\ waitQueue' \in Seq(Message)
          /\ writer' \in [Slot -> Loggers]
      BY <1>1, <1>3, <2>3, <3>1, <3>2, SendTyped
    <3>4. BuffersTyped'
      BY <1>1, <1>2, <1>4, <2>1, <2>2, <3>3 DEF BuffersTyped
    <3>5. center => Cut(got \o output, c.rs, c.begin)
      BY <1>1, <1>3, <3>1, CutAnywhere DEF StreamCut
    <3>6. \A i \in DOMAIN waitQueue : waitQueue[i].begin = 0 /\ waitQueue[i].type # "ShutDownServer"
      BY <3>1
    <3>7. srvPc' \notin {"accept", "update", "close"}
      BY <1>4, <2>1
    <3> HIDE DEF c
    <3>8. StreamCut'
      BY <1>1, <1>3, <1>4, <2>3, <3>1, <3>2, <3>5, <3>6, <3>7, StreamSends
    <3> QED BY <3>4, <3>8 DEF Streaming
  <2>5. CASE ~MaySend
    <3>1. waitQueue' = Append(waitQueue, c) /\ UNCHANGED <<writer, output>>
      BY <2>1, <2>5
    <3>2. waitQueue' \in Seq(Message)
      BY <1>3, <2>3, <3>1, AppendedPlaces
    <3>3. BuffersTyped'
      BY <1>1, <1>2, <1>4, <2>1, <2>2, <3>1, <3>2 DEF BuffersTyped
    <3>5. c.type # "ShutDownServer"
      BY <1>3, <1>6
    <3> HIDE DEF c
    <3>4. StreamCut'
      BY <1>1, <1>3, <1>4, <2>1, <3>1, <3>5, StreamWaits
    <3> QED BY <3>3, <3>4 DEF Streaming
  <2> QED BY <2>4, <2>5
<1> QED BY <1>5, <1>6

LEMMA LocalOverStreams == ASSUME Streaming, LocalOver PROVE Streaming'
<1>1. BuffersTyped /\ StreamCut /\ UNCHANGED <<center, output, got, waitQueue>> /\ srvPc' = "flush"
  BY DEF Streaming, LocalOver, centerSide
<1>2. BuffersTyped'
  BY <1>1 DEF BuffersTyped, LocalOver, writerVars, centerSide
<1> QED BY <1>1, <1>2, StreamUnmoved DEF Streaming

LEMMA FlushTestStreams == ASSUME Streaming, NEW b \in Slot, FlushTest(b) PROVE Streaming'
<1>1. BuffersTyped /\ StreamCut /\ UNCHANGED <<center, output, got, waitQueue>> /\ srvPc' \in {"flush", "lock"}
  BY DEF Streaming, FlushTest, centerSide
<1>2. BuffersTyped'
  BY <1>1 DEF BuffersTyped, FlushTest, writerVars, centerSide
<1> QED BY <1>1, <1>2, StreamUnmoved DEF Streaming

\* A buffer that is flushed or saved.
LEMMA FlushOutStreams ==
    ASSUME Streaming, NEW b \in Slot, FlushOut(b), UNCHANGED <<center, output, got>>,
           srvPc' = "flush" \/ srvPc' = srvPc
    PROVE  StreamCut' /\ waitQueue' \in Seq(Message) /\ recFile' \in Seq(Rec) /\ block' \in [Slot -> BOOLEAN]
<1>1. BuffersTyped /\ StreamCut /\ recs[b] \in Seq(Rec) /\ recFile \in Seq(Rec) /\ waitQueue \in Seq(Message)
  BY DEF Streaming, BuffersTyped
<1>2. recFile' \in Seq(Rec)
  BY <1>1, JoinedPlaces DEF FlushOut
<1>3. block' \in [Slot -> BOOLEAN]
  BY <1>1 DEF FlushOut, BuffersTyped
<1> DEFINE c == Flushed(ClearMessage(recs[b]))
<1>4. c \in Message /\ c.begin = 0 /\ c.type # "ShutDownServer"
  BY <1>1, FlushedClear
<1> HIDE DEF c
<1>5. CASE center
  <2>1. waitQueue' = Append(waitQueue, c)
    BY <1>5 DEF FlushOut, c
  <2> QED BY <1>1, <1>2, <1>3, <1>4, <1>5, <2>1, AppendedPlaces, StreamWaits
<1>6. CASE ~center
  <2>1. waitQueue' = waitQueue
    BY <1>6 DEF FlushOut
  <2> QED BY <1>1, <1>2, <1>3, <1>6, <2>1, StreamUnmoved
<1> QED BY <1>5, <1>6

LEMMA FlushSlotStreams == ASSUME Streaming, NEW b \in Slot, FlushSlot(b) PROVE Streaming'
<1>1. BuffersTyped /\ StreamCut /\ UNCHANGED <<center, output, got, links, faithful>> /\ srvPc' = "flush"
  BY DEF Streaming, FlushSlot, centerSide
<1>2. CASE block[b] /\ recs[b] # <<>>
  <2>1. FlushOut(b) /\ recs' = [recs EXCEPT ![b] = <<>>]
    BY <1>2 DEF FlushSlot
  <2>2. StreamCut' /\ waitQueue' \in Seq(Message) /\ recFile' \in Seq(Rec) /\ block' \in [Slot -> BOOLEAN]
    BY <1>1, <2>1, FlushOutStreams
  <2>3. recs' \in [Slot -> Seq(Rec)]
    BY <1>1, <2>1 DEF BuffersTyped
  <2>4. BuffersTyped'
    BY <1>1, <2>2, <2>3 DEF BuffersTyped, FlushSlot
  <2> QED BY <2>2, <2>4 DEF Streaming
<1>3. CASE ~(block[b] /\ recs[b] # <<>>)
  <2>1. UNCHANGED <<recFile, waitQueue, block, recs>>
    BY <1>3 DEF FlushSlot
  <2>2. BuffersTyped'
    BY <1>1, <2>1 DEF BuffersTyped, FlushSlot
  <2> QED BY <1>1, <2>1, <2>2, StreamUnmoved DEF Streaming
<1> QED BY <1>2, <1>3

LEMMA CheckTimeoutStreams == ASSUME Streaming, NEW due \in BOOLEAN, CheckTimeout2(due) PROVE Streaming'
<1>1. /\ BuffersTyped /\ StreamCut /\ UNCHANGED <<center, output, got, links, faithful>> /\ srvPc' = "send"
      /\ waitQueue' = waitQueue \/ waitQueue' = Append(waitQueue, TimeOutMessage)
  BY DEF Streaming, CheckTimeout2, centerSide
<1>2. TimeOutMessage \in Message /\ TimeOutMessage.begin = 0 /\ TimeOutMessage.type # "ShutDownServer"
  BY MessagesMade
<1>3. waitQueue' \in Seq(Message)
  <2>1. waitQueue \in Seq(Message)
    BY <1>1 DEF BuffersTyped
  <2> QED BY <1>1, <1>2, <2>1, AppendedPlaces
<1>4. BuffersTyped'
  BY <1>1, <1>3 DEF BuffersTyped, CheckTimeout2, writerVars
<1> QED BY <1>1, <1>2, <1>4, StreamUnmoved, StreamWaits DEF Streaming

LEMMA SaveLogStreams == ASSUME Streaming, NEW b \in Slot, SaveLog(b) PROVE Streaming'
<1>1. BuffersTyped /\ StreamCut /\ UNCHANGED <<center, output, got, links, faithful>> /\ srvPc' = srvPc
  BY DEF Streaming, SaveLog, centerSide
<1>2. CASE FlushOut(b)
  <2>1. StreamCut' /\ waitQueue' \in Seq(Message) /\ recFile' \in Seq(Rec) /\ block' \in [Slot -> BOOLEAN]
    BY <1>1, <1>2, FlushOutStreams
  <2>2. BuffersTyped'
    BY <1>1, <2>1 DEF BuffersTyped, SaveLog
  <2> QED BY <2>1, <2>2 DEF Streaming
<1>3. CASE UNCHANGED <<recFile, waitQueue, block>>
  <2>1. BuffersTyped'
    BY <1>1, <1>3 DEF BuffersTyped, SaveLog
  <2> QED BY <1>1, <1>3, <2>1, StreamUnmoved DEF Streaming
<1> QED BY <1>2, <1>3 DEF SaveLog

LEMMA CloseThreadStreams == ASSUME Streaming, CloseThread PROVE Streaming'
<1>1. /\ BuffersTyped /\ StreamCut /\ UNCHANGED <<center, output, got, links, faithful>>
      /\ srvPc = "close" /\ srvPc' = "update" /\ ending' = "closing"
      /\ IF center THEN waitQueue' = Append(waitQueue, OfflineMessage) ELSE waitQueue' = waitQueue
  BY DEF Streaming, CloseThread, centerSide
<1>2. OfflineMessage \in Message /\ OfflineMessage.begin = 0 /\ OfflineMessage.type # "ShutDownServer"
  BY MessagesMade
<1>3. waitQueue' \in Seq(Message)
  <2>1. waitQueue \in Seq(Message)
    BY <1>1 DEF BuffersTyped
  <2> QED BY <1>1, <1>2, <2>1, AppendedPlaces
<1>4. BuffersTyped'
  BY <1>1, <1>3 DEF BuffersTyped, CloseThread, writerVars
<1>5. CASE center
  BY <1>1, <1>2, <1>4, <1>5, StreamWaits DEF Streaming
<1>6. CASE ~center
  BY <1>1, <1>4, <1>6, StreamUnmoved DEF Streaming
<1> QED BY <1>5, <1>6

\* A piece of the output goes to the center.
LEMMA OutputMoves ==
    ASSUME NEW T, NEW p \in Seq(T), NEW q \in Seq(T), NEW n \in 1 .. Len(q)
    PROVE  /\ (p \o SubSeq(q, 1, n)) \o SubSeq(q, n + 1, Len(q)) = p \o q
           /\ p \o SubSeq(q, 1, n) \in Seq(T) /\ SubSeq(q, n + 1, Len(q)) \in Seq(T)
           /\ Len(SubSeq(q, n + 1, Len(q))) = Len(q) - n
<1> DEFINE a == SubSeq(q, 1, n)
           b == SubSeq(q, n + 1, Len(q))
<1>1. /\ a \in Seq(T) /\ Len(a) = n /\ b \in Seq(T) /\ Len(b) = Len(q) - n
      /\ \A i \in 1 .. n : a[i] = q[i]
      /\ \A i \in 1 .. Len(q) - n : b[i] = q[n + i]
  <2>1. Len(q) \in Nat /\ n \in Nat
    OBVIOUS
  <2> QED BY <2>1
<1> HIDE DEF a, b
<1>2. a \o b = q
  <2>1. a \o b \in Seq(T) /\ Len(a \o b) = Len(q)
    <3>1. n + (Len(q) - n) = Len(q)
      OBVIOUS
    <3> QED BY <1>1, <3>1, JoinedPlaces, ZenonT(40)
  <2>2. ASSUME NEW i \in 1 .. Len(q) PROVE (a \o b)[i] = q[i]
    <3>1. CASE i <= n
      <4>1. i \in 1 .. n
        BY <2>2, <3>1
      <4>2. (a \o b)[i] = a[i]
        BY <1>1, <4>1, JoinedPlaces
      <4> QED BY <1>1, <4>1, <4>2
    <3>2. CASE ~(i <= n)
      <4> DEFINE j == i - n
      <4>1. j \in 1 .. Len(q) - n /\ n + j = i
        BY <2>2, <3>2
      <4> HIDE DEF j
      <4>2. (a \o b)[Len(a) + j] = b[j]
        <5>1. j \in 1 .. Len(b)
          BY <1>1, <4>1
        <5> QED BY <1>1, <5>1, JoinedPlaces
      <4> QED BY <1>1, <4>1, <4>2
    <3> QED BY <3>1, <3>2
  <2> DEFINE c == a \o b
  <2>3. c \in Seq(T) /\ Len(c) = Len(q) /\ \A i \in 1 .. Len(q) : c[i] = q[i]
    BY <2>1, <2>2
  <2> HIDE DEF c
  <2>4. c = q
    BY <2>3
  <2> QED BY <2>4 DEF c
<1>3. (p \o a) \o b = p \o (a \o b)
  BY <1>1, JoinTwice, SMTT(30)
<1>4. p \o a \in Seq(T)
  BY <1>1, JoinedPlaces
<1> QED BY <1>1, <1>2, <1>3, <1>4 DEF a, b

LEMMA SendOutputStreams == ASSUME Streaming, NEW n \in 1 .. OutRoom, SendOutput(n) PROVE Streaming'
<1>1. BuffersTyped /\ StreamCut /\ waitQueue' = waitQueue /\ srvPc' = "drain"
      /\ output \in Seq(HalfRec) /\ got \in Seq(HalfRec)
  BY DEF Streaming, SendOutput, BuffersTyped
<1>2. CASE /\ n <= Len(output)
           /\ got' = got \o SubSeq(output, 1, n) /\ output' = SubSeq(output, n + 1, Len(output))
           /\ UNCHANGED <<center, watch, links, faithful>>
  <2>1. n \in 1 .. Len(output) /\ Len(output) \in Nat /\ n \in Nat
    BY <1>1, <1>2
  <2>2. /\ got' \o output' = got \o output
        /\ got' \in Seq(HalfRec) /\ output' \in Seq(HalfRec) /\ Len(output') = Len(output) - n
    <3>1. got \in Seq(HalfRec) /\ output \in Seq(HalfRec) /\ n \in 1 .. Len(output)
      BY <1>1, <2>1
    <3>2. /\ (got \o SubSeq(output, 1, n)) \o SubSeq(output, n + 1, Len(output)) = got \o output
          /\ got \o SubSeq(output, 1, n) \in Seq(HalfRec) /\ SubSeq(output, n + 1, Len(output)) \in Seq(HalfRec)
          /\ Len(SubSeq(output, n + 1, Len(output))) = Len(output) - n
      BY ONLY <3>1, OutputMoves, ZenonT(40)
    <3> QED BY <1>2, <3>2
  <2>3. Len(output') <= OutRoom /\ (output = <<>> => output' = <<>>)
    <3>1. Len(output) <= OutRoom /\ OutRoom \in Nat
      BY <1>1, BuffersAssumption DEF StreamCut
    <3> QED BY <2>1, <2>2, <3>1
  <2>4. BuffersTyped'
    BY <1>1, <1>2, <2>2 DEF BuffersTyped, SendOutput, writerVars
  <2>5. StreamCut'
    BY <1>1, <1>2, <2>2, <2>3 DEF StreamCut
  <2> QED BY <2>4, <2>5 DEF Streaming
<1>3. CASE CenterGone
  <2>1. center' = FALSE /\ output' = <<>> /\ faithful' = FALSE /\ got' \in Seq(HalfRec) /\ links' = links /\ output' \in Seq(HalfRec)
    BY <1>3 DEF CenterGone
  <2>2. BuffersTyped'
    BY <1>1, <2>1 DEF BuffersTyped, SendOutput, writerVars
  <2> QED BY <1>1, <2>1, <2>2, CenterGoneStreams DEF Streaming
<1>4. CASE UNCHANGED <<center, watch, output, got, links, faithful>>
  <2>1. BuffersTyped'
    BY <1>1, <1>4 DEF BuffersTyped, SendOutput, writerVars
  <2> QED BY <1>1, <1>4, <2>1, StreamUnmoved DEF Streaming
<1> QED BY <1>2, <1>3, <1>4 DEF SendOutput

LEMMA DrainBufferStreams == ASSUME Streaming, DrainBuffer PROVE Streaming'
<1>1. BuffersTyped /\ StreamCut /\ waitQueue # <<>> /\ waitQueue \in Seq(Message)
  BY DEF Streaming, BuffersTyped, DrainBuffer
<1> DEFINE m == Head(waitQueue)
           c == Flushed(m)
           stay == Tail(waitQueue)
<1>2. /\ m = waitQueue[1] /\ m \in Message /\ stay \in Seq(Message) /\ Len(stay) = Len(waitQueue) - 1
      /\ Len(waitQueue) \in Nat /\ DOMAIN waitQueue = 1 .. Len(waitQueue) /\ DOMAIN stay = 1 .. Len(waitQueue) - 1
      /\ \A i \in 1 .. Len(waitQueue) - 1 : stay[i] = waitQueue[i + 1]
  BY <1>1, HeadAndTail
<1>3. /\ m.rs \in Seq(Rec) /\ m.type = "ClearBuffer"
      /\ c \in Message /\ c.rs = m.rs /\ c.begin = m.begin /\ c.type = "ClearBuffer"
  BY <1>2, MessageFields DEF DrainBuffer
<1>4. /\ SendBuffer(c, stay) /\ recFile' = Filed(m)
      /\ srvPc' = IF Len(waitQueue') < Len(waitQueue) THEN "drain" ELSE "update"
      /\ UNCHANGED <<block, recs, pipe, inbox, center, got, links, faithful, toVisit, ending, destroying, count>>
  BY DEF DrainBuffer
<1>5. \A i \in DOMAIN stay : stay[i].begin = 0 /\ stay[i].type # "ShutDownServer"
  <2> SUFFICES ASSUME NEW i \in 1 .. Len(waitQueue) - 1
               PROVE  stay[i].begin = 0 /\ stay[i].type # "ShutDownServer"
    BY <1>2
  <2>1. i + 1 \in DOMAIN waitQueue /\ i + 1 > 1 /\ stay[i] = waitQueue[i + 1]
    BY <1>2
  <2> HIDE DEF stay
  <2> QED BY <1>1, <2>1 DEF StreamCut
<1>6. /\ c.begin <= 2 * Len(c.rs) /\ Len(output) <= OutRoom
      /\ center => Cut(got \o output, c.rs, c.begin)
  BY <1>1, <1>2, <1>3 DEF StreamCut
<1> HIDE DEF m, c, stay
<1>7. recFile' \in Seq(Rec)
  BY <1>1, <1>3, <1>4 DEF BuffersTyped, Filed
<1>8. /\ output' \in Seq(HalfRec) /\ waitQueue' \in Seq(Message)
      /\ writer' \in [Slot -> Loggers]
  BY <1>1, <1>2, <1>3, <1>4, <1>6, SendTyped
<1>9. BuffersTyped'
  BY <1>1, <1>4, <1>7, <1>8 DEF BuffersTyped
<1>10. srvPc' \in {"accept", "update", "close"} => center
  <2>1. ~center => waitQueue' = stay
    BY <1>4, SendsNothing
  <2> QED BY <1>2, <1>4, <2>1
<1>11. StreamCut'
  BY <1>1, <1>2, <1>3, <1>4, <1>5, <1>6, <1>10, StreamSends
<1> QED BY <1>9, <1>11 DEF Streaming

\* One record goes out as a whole, behind whole records.
LEMMA RecordOut ==
    ASSUME NEW rs \in Seq(Rec), Len(rs) = 1, center, Fits, output \in Seq(HalfRec), got \in Seq(HalfRec),
           Cut(got \o output, rs, 0)
    PROVE  /\ output \o Halves2(rs) \in Seq(HalfRec) /\ Len(output \o Halves2(rs)) <= OutRoom
           /\ Cut(got \o (output \o Halves2(rs)), <<>>, 0)
<1> DEFINE H == Halves2(rs)
           us == got \o output
           N == 2 * Len(rs)
<1>1. N = 2 /\ 0 \in Nat /\ 2 \in Nat /\ 0 + 2 <= N /\ 0 + 2 = N
  <2>1. \A k : k = 1 => 2 * k = 2
    OBVIOUS
  <2>2. N = 2
    BY <2>1
  <2> HIDE DEF N
  <2> QED BY <2>2
<1>2. H \in Seq(HalfRec) /\ Len(H) = N
  BY HalvesAre DEF HalfRec
<1>3. us \in Seq(HalfRec)
  BY JoinedPlaces
<1> HIDE DEF H, us, N
<1>4. Len(output) + 2 <= OutRoom /\ Len(output) \in Nat
  <2>1. Len(output) \in Nat /\ OutRoom \in Nat
    BY BuffersAssumption
  <2> QED BY <2>1 DEF Fits, Room
<1>5. output \o H \in Seq(HalfRec) /\ Len(output \o H) <= OutRoom
  <2>1. output \o H \in Seq(HalfRec) /\ Len(output \o H) = Len(output) + Len(H)
    BY <1>2, JoinedPlaces
  <2> QED BY <1>1, <1>2, <1>4, <2>1
<1>6. H = SubSeq(H, 0 + 1, 0 + 2)
  BY <1>1, <1>2
<1>7. Cut(us \o SubSeq(H, 0 + 1, 0 + 2), rs, 0 + 2)
  <2>1. rs \in Seq(Rec) /\ us \in Seq(HalfRec) /\ 0 \in Nat /\ 2 \in Nat /\ 0 + 2 <= 2 * Len(rs) /\ Cut(us, rs, 0)
    BY <1>1, <1>3 DEF us, N
  <2>2. Cut(us \o SubSeq(Halves2(rs), 0 + 1, 0 + 2), rs, 0 + 2)
    BY ONLY <2>1, CutGoesOn
  <2> QED BY <2>2 DEF H
<1>8. got \o (output \o H) = us \o H
  <2>1. got \in Seq(HalfRec) /\ output \in Seq(HalfRec) /\ H \in Seq(HalfRec)
    BY <1>2
  <2>2. got \o (output \o H) = (got \o output) \o H
    BY ONLY <2>1, JoinTwice
  <2> QED BY <2>2 DEF us
<1>9. Cut(got \o (output \o H), rs, 2 * Len(rs))
  BY <1>1, <1>6, <1>7, <1>8 DEF N
<1> DEFINE ws == got \o (output \o H)
<1> HIDE DEF ws
<1>10. Cut(ws, <<>>, 0)
  <2>1. Cut(ws, rs, 2 * Len(rs))
    BY <1>9 DEF ws
  <2> QED BY <2>1, CutEnds
<1> QED BY <1>5, <1>10 DEF ws, H

\* Another message takes the place of the first.
LEMMA HeadReplaced ==
    ASSUME NEW T, NEW q \in Seq(T), q # <<>>, NEW c \in T, NEW r, r = <<c>> \o Tail(q)
    PROVE  /\ r \in Seq(T) /\ r # <<>> /\ r[1] = c
           /\ Len(r) = Len(q)
           /\ \A i \in DOMAIN r : i > 1 => i \in DOMAIN q /\ r[i] = q[i]
<1>1. Tail(q) \in Seq(T) /\ Len(Tail(q)) = Len(q) - 1 /\ Len(q) \in Nat /\ DOMAIN q = 1 .. Len(q)
      /\ Len(q) >= 1 /\ \A i \in 1 .. Len(q) - 1 : Tail(q)[i] = q[i + 1]
  BY HeadAndTail
<1>2. r \in Seq(T) /\ Len(r) = Len(q) /\ DOMAIN r = 1 .. Len(q) /\ r[1] = c
      /\ \A i \in 1 .. Len(q) - 1 : r[i + 1] = Tail(q)[i]
  <2>1. <<c>> \in Seq(T) /\ Len(<<c>>) = 1 /\ <<c>>[1] = c /\ 1 \in 1 .. 1
    OBVIOUS
  <2>2. r \in Seq(T) /\ Len(r) = 1 + (Len(q) - 1) /\ DOMAIN r = 1 .. 1 + (Len(q) - 1)
        /\ r[1] = c /\ \A i \in 1 .. Len(q) - 1 : r[1 + i] = Tail(q)[i]
    BY <1>1, <2>1, JoinedPlaces
  <2>3. 1 + (Len(q) - 1) = Len(q) /\ \A i \in 1 .. Len(q) - 1 : 1 + i = i + 1
    BY <1>1
  <2> QED BY <2>2, <2>3
<1>3. ASSUME NEW i \in DOMAIN r, i > 1 PROVE i \in DOMAIN q /\ r[i] = q[i]
  <2> DEFINE j == i - 1
  <2>1. j \in 1 .. Len(q) - 1 /\ j + 1 = i
    BY <1>1, <1>2, <1>3
  <2> HIDE DEF j
  <2>2. r[j + 1] = Tail(q)[j] /\ Tail(q)[j] = q[j + 1]
    BY <1>1, <1>2, <2>1
  <2> QED BY <1>1, <1>2, <2>1, <2>2
<1> QED BY <1>1, <1>2, <1>3

\* What send_center_message does with a record of the thread's own.
LEMMA DrainRecordMoves ==
    ASSUME Streaming, DrainRecord, NEW m, m = Head(waitQueue)
    PROVE  /\ got' = got /\ faithful' = faithful /\ links' = links
           /\ UNCHANGED <<block, recs, writer, pipe, inbox, recFile, toVisit, ending, destroying, count>>
           /\ srvPc = "drain" /\ waitQueue # <<>>
           /\ m \in Message /\ m.type \in {"TimeOut", "NodeOffline"} /\ m.begin = 0
           /\ \/ /\ ~center /\ center' = center /\ output' = output
                 /\ waitQueue' = Tail(waitQueue) /\ srvPc' = "drain"
              \/ /\ center /\ m.type = "TimeOut" /\ Fits /\ center' = center
                 /\ output' = output \o Halves2(m.rs) /\ waitQueue' = Tail(waitQueue) /\ srvPc' = "drain"
              \/ /\ center /\ m.type = "TimeOut" /\ ~Fits /\ center' = center
                 /\ output' = output /\ waitQueue' = waitQueue /\ srvPc' = "update"
              \/ /\ center /\ OfflineOver(m) /\ center' = FALSE
                 /\ output' = <<>> /\ waitQueue' = Tail(waitQueue) /\ srvPc' = "drain"
              \/ /\ center /\ m.type = "NodeOffline" /\ ~OfflineOver(m) /\ center' = center
                 /\ output' = IF Fits /\ ~m.flushed THEN output \o Halves2(m.rs) ELSE output
                 /\ waitQueue' = <<IF Fits THEN Flushed(m) ELSE m>> \o Tail(waitQueue) /\ srvPc' = "update"
<1>1. /\ BuffersTyped /\ StreamCut /\ waitQueue # <<>> /\ waitQueue \in Seq(Message) /\ srvPc = "drain"
      /\ m.type # "ClearBuffer"
  BY DEF Streaming, BuffersTyped, DrainRecord
<1>2. m = waitQueue[1] /\ m \in Message /\ 1 \in DOMAIN waitQueue
  BY <1>1, HeadAndTail
<1>3. m.type \in {"TimeOut", "NodeOffline"} /\ m.begin = 0
  <2>1. m.type # "ShutDownServer" /\ m.begin = 0
    BY <1>1, <1>2 DEF StreamCut
  <2> QED BY <1>1, <1>2, <2>1, MessageFields
<1>4. UNCHANGED <<block, recs, writer, pipe, inbox, recFile, toVisit, ending, destroying, count>>
  BY DEF DrainRecord, writerVars
<1> QED BY <1>1, <1>2, <1>3, <1>4 DEF DrainRecord, OfflineOver

LEMMA DrainRecordStreams == ASSUME Streaming, DrainRecord PROVE Streaming'
<1>1. /\ BuffersTyped /\ StreamCut /\ waitQueue # <<>> /\ waitQueue \in Seq(Message) /\ srvPc = "drain"
      /\ output \in Seq(HalfRec) /\ got \in Seq(HalfRec) /\ center \in BOOLEAN
  BY DEF Streaming, BuffersTyped, DrainRecord
<1> DEFINE m == Head(waitQueue)
<1>2. m = waitQueue[1] /\ m \in Message /\ Tail(waitQueue) \in Seq(Message)
  BY <1>1, HeadAndTail
<1>3. /\ m.rs \in Seq(Rec) /\ m.type # "ClearBuffer" /\ m.begin = 0
      /\ Flushed(m) \in Message /\ Flushed(m).rs = m.rs /\ Flushed(m).begin = 0 /\ Flushed(m).type = m.type
  <2>1. m.type # "ClearBuffer" /\ m.begin = 0
    BY <1>1, <1>2 DEF DrainRecord, StreamCut
  <2> QED BY <1>2, <2>1, MessageFields
<1>4. UNCHANGED <<block, recs, writer, pipe, inbox, recFile, toVisit, ending, destroying, count>>
  BY DEF DrainRecord, writerVars
<1>5. Len(output) <= OutRoom /\ (center => Cut(got \o output, m.rs, 0)) /\ (~center => output = <<>>)
  BY <1>1, <1>2, <1>3 DEF StreamCut
<1>6. \A rs \in Seq(Rec) : center => Cut(got \o output, rs, 0)
  BY <1>5, CutAnywhere
<1> DEFINE vs == output \o Halves2(m.rs)
<1>7. center /\ Fits /\ Len(m.rs) = 1 =>
         /\ vs \in Seq(HalfRec) /\ Len(vs) <= OutRoom
         /\ Cut(got \o vs, <<>>, 0)
  BY <1>1, <1>3, <1>5, RecordOut
<1>8. m.type \in {"TimeOut", "NodeOffline"} => Len(m.rs) = 1
  BY <1>2, MessageFields
<1> HIDE DEF vs
<1>9. ASSUME center' \in BOOLEAN, got' = got, faithful' = faithful, links' = links, output' \in Seq(HalfRec),
             waitQueue' \in Seq(Message), srvPc' \in {"drain", "update"}
      PROVE  BuffersTyped'
  BY <1>1, <1>4, <1>9 DEF BuffersTyped
<1>10. m.type \in {"TimeOut", "NodeOffline"}
  <2>1. 1 \in DOMAIN waitQueue
    BY <1>1
  <2>2. m.type # "ShutDownServer"
    BY <1>1, <1>2, <2>1 DEF StreamCut
  <2> QED BY <1>2, <1>3, <2>2, MessageFields
<1> DEFINE same == got' = got /\ faithful' = faithful /\ links' = links
<1>11. CASE ~center
  <2>1. waitQueue' = Tail(waitQueue) /\ srvPc' = "drain" /\ center' = center /\ output' = output /\ same
    BY <1>11 DEF DrainRecord
  <2> QED BY <1>1, <1>2, <1>5, <1>9, <1>11, <2>1, StreamDrops DEF Streaming
<1>12. CASE center /\ m.type = "TimeOut"
  <2>1. /\ center' = center /\ same
        /\ output' = IF Fits THEN vs ELSE output
        /\ waitQueue' = IF Fits THEN Tail(waitQueue) ELSE waitQueue
        /\ srvPc' = IF Fits THEN "drain" ELSE "update"
    BY <1>12 DEF DrainRecord, OfflineOver, vs
  <2>2. CASE Fits
    BY <1>1, <1>2, <1>7, <1>8, <1>9, <1>12, <2>1, <2>2, StreamDrops DEF Streaming
  <2>3. CASE ~Fits
    BY <1>1, <1>9, <1>12, <2>1, <2>3, StreamUnmoved DEF Streaming
  <2> QED BY <2>2, <2>3
<1>13. CASE center /\ OfflineOver(m)
  <2>1. m.type = "NodeOffline"
    BY <1>13 DEF OfflineOver
  <2>2. waitQueue' = Tail(waitQueue) /\ srvPc' = "drain" /\ center' = FALSE /\ output' = <<>> /\ same
    BY <1>13, <2>1 DEF DrainRecord
  <2>3. <<>> \in Seq(HalfRec) /\ Len(<<>>) <= OutRoom
    BY BuffersAssumption
  <2> QED BY <1>1, <1>2, <1>9, <2>2, <2>3, StreamDrops DEF Streaming
<1>14. CASE center /\ m.type = "NodeOffline" /\ ~OfflineOver(m)
  <2> DEFINE c == IF Fits THEN Flushed(m) ELSE m
  <2>1. /\ center' = center /\ same
        /\ output' = IF Fits /\ ~m.flushed THEN vs ELSE output
        /\ waitQueue' = <<c>> \o Tail(waitQueue)
        /\ srvPc' = "update"
    BY <1>14 DEF DrainRecord, vs
  <2>2. c \in Message /\ c.rs = m.rs /\ c.begin = 0 /\ c.type = "NodeOffline"
    BY <1>2, <1>3, <1>14
  <2> HIDE DEF c
  <2>3. /\ output' \in Seq(HalfRec) /\ Len(output') <= OutRoom
        /\ Cut(got \o output', <<>>, 0)
    BY <1>1, <1>5, <1>6, <1>7, <1>8, <1>14, <2>1, CutAnywhere
  <2>4. waitQueue' \in Seq(Message) /\ waitQueue' # <<>> /\ waitQueue'[1] = c
        /\ \A i \in DOMAIN waitQueue' : i > 1 => i \in DOMAIN waitQueue /\ waitQueue'[i] = waitQueue[i]
    BY <1>1, <1>2, <2>1, <2>2, HeadReplaced
  <2>5. 0 <= 2 * Len(c.rs) /\ Cut(got \o output', c.rs, 0)
    <3>1. Len(c.rs) \in Nat
      BY <1>3, <2>2
    <3> QED BY <2>3, <3>1, CutAnywhere
  <2>6. StreamCut'
    BY <1>1, <1>14, <2>1, <2>2, <2>3, <2>4, <2>5 DEF StreamCut
  <2> QED BY <1>1, <1>9, <1>14, <2>1, <2>3, <2>4, <2>6 DEF Streaming
<1> QED BY <1>1, <1>10, <1>11, <1>12, <1>13, <1>14

LEMMA UpdateStateStreams == ASSUME Streaming, UpdateState PROVE Streaming'
<1>1. BuffersTyped /\ StreamCut /\ UNCHANGED <<center, output, got, waitQueue>>
      /\ srvPc' \in {"close", "done", "accept"} /\ (srvPc = "update" \/ waitQueue = <<>>)
  BY DEF Streaming, UpdateState
<1>2. BuffersTyped'
  BY <1>1 DEF BuffersTyped, UpdateState, writerVars
<1>3. StreamCut'
  BY <1>1 DEF StreamCut
<1> QED BY <1>2, <1>3 DEF Streaming

LEMMA StreamStarts == BufferInit => Streaming
<1> SUFFICES ASSUME BufferInit PROVE Streaming
  OBVIOUS
<1>1. <<>> \in Seq(Rec) /\ <<>> \in Seq(PipeMessage) /\ <<>> \in Seq(Message) /\ <<>> \in Seq(HalfRec)
  OBVIOUS
<1>2. BuffersTyped
  <2>1. Nobody \in Loggers
    BY DEF Nobody, Loggers
  <2> QED BY <1>1, <2>1 DEF BufferInit, BuffersTyped
<1>3. Len(<<>>) <= OutRoom
  BY BuffersAssumption
<1>4. StreamCut
  BY <1>3 DEF BufferInit, StreamCut
<1> QED BY <1>2, <1>4 DEF Streaming

LEMMA StreamStutters == ASSUME Streaming, UNCHANGED bufferVars PROVE Streaming'
<1>1. BuffersTyped /\ StreamCut /\ UNCHANGED <<center, output, got, waitQueue, srvPc>>
  BY DEF Streaming, bufferVars, centerSide, threadSide
<1>2. BuffersTyped'
  BY <1>1 DEF BuffersTyped, bufferVars, writerVars, centerSide, threadSide
<1> QED BY <1>1, <1>2, StreamUnmoved DEF Streaming

LEMMA StreamStep == Streaming /\ [BufferNext]_bufferVars => Streaming'
<1> SUFFICES ASSUME Streaming, [BufferNext]_bufferVars PROVE Streaming'
  OBVIOUS
<1>1. ASSUME NEW b \in Slot,
             \/ WriteFits(b) \/ WriteNowhere(b)
             \/ SubmitSwap(b) \/ SubmitAlone(b) \/ SubmitLast(b) \/ SubmitEmpty(b)
             \/ WriterStep(b) \/ Age(b)
      PROVE  Streaming'
  BY <1>1, WriterStreams
<1>2. CASE ServerStep
  <2>1. CASE \E room \in BOOLEAN : AcceptMessage(room)
    BY <2>1, AcceptMessageStreams
  <2>2. CASE \E b \in Slot : FlushTest(b) \/ FlushSlot(b) \/ SaveLog(b)
    BY <2>2, FlushTestStreams, FlushSlotStreams, SaveLogStreams
  <2>3. CASE \E due \in BOOLEAN : CheckTimeout2(due)
    BY <2>3, CheckTimeoutStreams
  <2>4. CASE \E n \in 1 .. OutRoom : SendOutput(n)
    BY <2>4, SendOutputStreams
  <2>5. CASE HandleLocal \/ LocalOver \/ DrainBuffer \/ DrainRecord \/ UpdateState \/ CloseThread
    BY <2>5, HandleLocalStreams, LocalOverStreams, DrainBufferStreams, DrainRecordStreams, UpdateStateStreams,
       CloseThreadStreams
  <2> QED BY <1>2, <2>1, <2>2, <2>3, <2>4, <2>5 DEF ServerStep
<1>3. CASE Destroy
  BY <1>3, DestroyStreams
<1>4. CASE UNCHANGED bufferVars
  BY <1>4, StreamStutters
<1> QED BY <1>1, <1>2, <1>3, <1>4 DEF BufferNext

\* A record that is cut has a message with its other half at the head of wait_queue.
LEMMA StreamSuffices == Streaming => StreamWhole
<1> SUFFICES ASSUME Streaming, center PROVE
        LET us == got \o output
        IN  /\ Whole(us)
            /\ (us # <<>> /\ us[Len(us)].half = 1) =>
                   /\ waitQueue # <<>>
                   /\ Head(waitQueue).begin > 0
                   /\ Halves2(Head(waitQueue).rs)[Head(waitQueue).begin] = us[Len(us)]
  BY DEF StreamWhole
<1> DEFINE us == got \o output
           m == Head(waitQueue)
<1>1. BuffersTyped /\ StreamCut
  BY DEF Streaming
<1>2. CASE waitQueue = <<>>
  <2>1. Cut(us, <<>>, 0) /\ 0 % 2 # 1
    BY <1>1, <1>2 DEF StreamCut
  <2> HIDE DEF us
  <2>2. Whole(us) /\ (us # <<>> => us[Len(us)].half = 2)
    BY <2>1 DEF Cut
  <2> QED BY <2>2 DEF us
<1>3. CASE waitQueue # <<>>
  <2>1. m = waitQueue[1] /\ m \in Message
    BY <1>1, <1>3, HeadAndTail DEF BuffersTyped
  <2>2. Cut(us, m.rs, m.begin) /\ m.begin \in Nat
    BY <1>1, <1>3, <2>1, MessageFields DEF StreamCut
  <2> HIDE DEF us, m
  <2>3. Whole(us) /\ (m.begin % 2 # 1 /\ us # <<>> => us[Len(us)].half = 2)
        /\ (m.begin % 2 = 1 => us[Len(us)] = Halves2(m.rs)[m.begin])
    BY <2>2 DEF Cut
  <2>4. m.begin % 2 = 1 => m.begin > 0
    BY <2>2
  <2> QED BY <1>3, <2>3, <2>4 DEF us, m
<1> QED BY <1>2, <1>3

\* For any number of buffers and any sizes of blocks, output and records, however
\* often centers come and go and however little a socket takes: what a center
\* receives are whole records, and one that is cut goes on where it was cut.
THEOREM StreamAlwaysWhole == BufferSpec => []StreamWhole
<1>1. BufferInit => Streaming
  BY StreamStarts
<1>2. Streaming /\ [BufferNext]_bufferVars => Streaming'
  BY StreamStep
<1>3. Streaming => StreamWhole
  BY StreamSuffices
<1> QED BY <1>1, <1>2, <1>3, PTL DEF BufferSpec

-----------------------------------------------------------------------------
(* The buffers: the end of the server *)

\* The last message of the pipe is the destructor's; when the thread has found it
\* no other is on its way, and no logger is left.
Ending ==
    /\ \A i \in DOMAIN Messages : Messages[i].type = "ShutDownServer" => destroying /\ i = Len(Messages)
    /\ ending # "no" => destroying /\ Messages = <<>>
    /\ destroying => \A b \in Slot : writer[b] = Nobody
    /\ ending = "noticed" => srvPc \in {"flush", "lock", "send", "drain", "update", "close"}
    /\ ending = "closing" => srvPc \in {"accept", "send", "drain", "update", "done"}
    /\ srvPc = "close" => ending = "noticed"
    /\ srvPc = "done" => ending = "closing"

LEMMA MessagesTyped == (BuffersTyped => Messages \in Seq(PipeMessage)) /\ (BuffersTyped' => Messages' \in Seq(PipeMessage))
BY JoinedPlaces DEF BuffersTyped, Messages

\* A message is put into the pipe.
LEMMA MessageSent ==
    ASSUME BuffersTyped, NEW m \in PipeMessage, pipe' = Append(pipe, m), inbox' = inbox
    PROVE  Messages' = Append(Messages, m)
<1>1. pipe \in Seq(PipeMessage) /\ inbox \in Seq(PipeMessage)
  BY DEF BuffersTyped
<1> HIDE DEF PipeMessage
<1>2. inbox \o Append(pipe, m) = Append(inbox \o pipe, m)
  BY <1>1
<1> QED BY <1>2 DEF Messages

LEMMA MessagesMoved ==
    ASSUME BuffersTyped, inbox' = inbox \o pipe, pipe' = <<>>
    PROVE  Messages' = Messages
<1>1. pipe \in Seq(PipeMessage) /\ inbox \in Seq(PipeMessage)
  BY DEF BuffersTyped
<1> HIDE DEF PipeMessage
<1>2. (inbox \o pipe) \o <<>> = inbox \o pipe
  BY <1>1
<1> QED BY <1>2 DEF Messages

\* The thread takes a message.
LEMMA MessageTaken ==
    ASSUME BuffersTyped, inbox # <<>>, inbox' = Tail(inbox), pipe' = pipe
    PROVE  Messages # <<>> /\ Messages' = Tail(Messages) /\ Head(Messages) = Head(inbox)
           /\ Messages[1] = Head(inbox)
<1>1. pipe \in Seq(PipeMessage) /\ inbox \in Seq(PipeMessage)
  BY DEF BuffersTyped
<1> HIDE DEF PipeMessage
<1>2. Tail(inbox) \o pipe = Tail(inbox \o pipe) /\ inbox \o pipe # <<>> /\ Head(inbox \o pipe) = Head(inbox)
  BY <1>1
<1>3. (inbox \o pipe)[1] = Head(inbox)
  BY <1>1
<1> QED BY <1>2, <1>3 DEF Messages

\* A step that sends and takes no message.
LEMMA EndingKept ==
    ASSUME Ending, Messages' = Messages, UNCHANGED <<destroying, ending>>,
           destroying => \A b \in Slot : writer'[b] = Nobody,
           ending = "noticed" => srvPc' \in {"flush", "lock", "send", "drain", "update", "close"},
           ending = "closing" => srvPc' \in {"accept", "send", "drain", "update", "done"},
           srvPc' = "close" => ending = "noticed", srvPc' = "done" => ending = "closing"
    PROVE  Ending'
BY DEF Ending

\* The loggers' messages come before the destructor's.
LEMMA EndingSends ==
    ASSUME BuffersTyped, Ending, ~destroying, NEW m \in PipeMessage, pipe' = Append(pipe, m), inbox' = inbox,
           UNCHANGED <<ending, srvPc>>,
           IF destroying' THEN \A b \in Slot : writer'[b] = Nobody ELSE m.type # "ShutDownServer"
    PROVE  Ending'
<1>1. Messages' = Append(Messages, m) /\ Messages \in Seq(PipeMessage)
  BY MessageSent, MessagesTyped
<1>2. /\ Len(Messages) \in Nat /\ DOMAIN Messages = 1 .. Len(Messages) /\ Len(Messages') = Len(Messages) + 1
      /\ DOMAIN Messages' = 1 .. Len(Messages) + 1
      /\ \A i \in 1 .. Len(Messages) : Messages'[i] = Messages[i]
      /\ Messages'[Len(Messages) + 1] = m
  BY <1>1, AppendedPlaces
<1>3. ending = "no" /\ srvPc # "close" /\ srvPc # "done"
      /\ \A i \in DOMAIN Messages : Messages[i].type # "ShutDownServer"
  BY DEF Ending
<1>4. ASSUME NEW i \in DOMAIN Messages', Messages'[i].type = "ShutDownServer" PROVE destroying' /\ i = Len(Messages')
  <2>1. i \in 1 .. Len(Messages) \/ i = Len(Messages) + 1
    BY <1>2, <1>4
  <2>2. i \notin 1 .. Len(Messages)
    BY <1>2, <1>3, <1>4
  <2>3. i = Len(Messages') /\ Messages'[i] = m
    BY <1>2, <2>1, <2>2
  <2> QED BY <1>4, <2>3
<1> QED BY <1>3, <1>4 DEF Ending

LEMMA WriterEnds ==
    ASSUME Streaming, Ending, NEW b \in Slot,
           \/ WriteFits(b) \/ WriteNowhere(b)
           \/ SubmitSwap(b) \/ SubmitAlone(b) \/ SubmitLast(b) \/ SubmitEmpty(b)
           \/ WriterStep(b) \/ Age(b)
    PROVE  Ending'
<1>1. BuffersTyped /\ recs[b] \in Seq(Rec)
  BY DEF Streaming, BuffersTyped
<1>2. CASE SubmitSwap(b) \/ SubmitLast(b)
  <2>1. ~destroying /\ UNCHANGED <<inbox, ending, srvPc, destroying>>
    BY <1>2 DEF SubmitSwap, SubmitLast, Enter, Comes, Full, threadSide
  <2>2. PICK m \in PipeMessage : pipe' = Append(pipe, m) /\ m.type = "ClearBuffer"
    <3>1. CASE SubmitSwap(b)
      BY <1>1, <3>1, MessagesMade DEF SubmitSwap
    <3>2. CASE SubmitLast(b)
      BY <1>1, <3>2, FlushedClear DEF SubmitLast
    <3> QED BY <1>2, <3>1, <3>2
  <2> QED BY <1>1, <2>1, <2>2, EndingSends
<1>3. CASE WriteFits(b) \/ WriteNowhere(b) \/ SubmitAlone(b) \/ SubmitEmpty(b) \/ WriterStep(b) \/ Age(b)
  <2>1. UNCHANGED <<inbox, pipe, ending, srvPc, destroying>>
    BY <1>3 DEF WriteFits, WriteNowhere, SubmitAlone, SubmitEmpty, WriterStep, GetBlock, Overrun, GetNone, DozeOff,
                WakeUp, Age, threadSide
  <2>2. Messages' = Messages
    BY <2>1 DEF Messages
  <2>3. destroying => Age(b)
    <3>1. WriterStep(b) => writer[b] # Nobody
      BY DEF WriterStep, GetBlock, Overrun, GetNone, DozeOff, WakeUp, Nobody
    <3> QED BY <1>3, <3>1 DEF WriteFits, WriteNowhere, SubmitAlone, SubmitEmpty, Enter, Comes, Ending
  <2>4. destroying => \A c \in Slot : writer'[c] = Nobody
    BY <2>3 DEF Ending, Age
  <2> QED BY <2>1, <2>2, <2>4, EndingKept DEF Ending
<1> QED BY <1>2, <1>3

LEMMA DestroyEnds == ASSUME Streaming, Ending, Destroy PROVE Ending'
<1>1. BuffersTyped /\ ShutDownMessage \in PipeMessage
  BY MessagesMade DEF Streaming
<1>2. ~destroying /\ pipe' = Append(pipe, ShutDownMessage) /\ UNCHANGED <<inbox, ending, srvPc, writer>>
      /\ \A b \in Slot : writer'[b] = Nobody
  BY DEF Destroy, writerVars, threadSide
<1>3. destroying'
  BY DEF Destroy
<1> QED BY <1>1, <1>2, <1>3, EndingSends

LEMMA HandleLocalEnds == ASSUME Streaming, Ending, HandleLocal PROVE Ending'
<1>1. BuffersTyped /\ writer \in [Slot -> Loggers]
  BY DEF Streaming, BuffersTyped
<1>2. inbox # <<>> /\ inbox' = Tail(inbox) /\ pipe' = pipe /\ srvPc = "local" /\ destroying' = destroying
  BY DEF HandleLocal
<1>3. Messages \in Seq(PipeMessage) /\ Messages # <<>> /\ Messages' = Tail(Messages) /\ Messages[1] = Head(inbox)
  BY <1>1, <1>2, MessagesTyped, MessageTaken
<1>4. /\ Len(Messages) \in Nat /\ Len(Messages) >= 1 /\ DOMAIN Messages = 1 .. Len(Messages)
      /\ Messages' \in Seq(PipeMessage) /\ Len(Messages') = Len(Messages) - 1
      /\ DOMAIN Messages' = 1 .. Len(Messages) - 1
      /\ \A i \in 1 .. Len(Messages) - 1 : Messages'[i] = Messages[i + 1]
  BY <1>3, HeadAndTail
<1>5. ending = "no"
  BY <1>2, <1>3 DEF Ending
<1>6. \A i \in DOMAIN Messages' : Messages'[i].type = "ShutDownServer" => destroying' /\ i = Len(Messages')
  <2> SUFFICES ASSUME NEW i \in 1 .. Len(Messages) - 1, Messages'[i].type = "ShutDownServer"
               PROVE  destroying' /\ i = Len(Messages')
    BY <1>4
  <2> DEFINE j == i + 1
  <2>1. j \in DOMAIN Messages /\ Messages'[i] = Messages[j]
    BY <1>4
  <2> HIDE DEF j
  <2>2. destroying /\ j = Len(Messages)
    BY <2>1 DEF Ending
  <2>3. destroying'
    BY <1>2, <2>2
  <2>4. i + 1 = Len(Messages) /\ i \in Nat
    BY <2>2 DEF j
  <2>5. i = Len(Messages')
    <3> DEFINE a == Len(Messages)
               z == Len(Messages')
    <3>1. z = a - 1 /\ a \in Nat /\ i + 1 = a /\ i \in Nat
      BY <1>4, <2>4
    <3> HIDE DEF a, z
    <3>2. i = z
      BY <3>1
    <3> QED BY <3>2 DEF z
  <2> QED BY <2>3, <2>5
<1>7. CASE Head(inbox).type = "ShutDownServer"
  <2>1. srvPc' = "flush" /\ ending' = "noticed" /\ writer' = writer
    BY <1>7 DEF HandleLocal
  <2>2. destroying /\ Len(Messages) = 1
    <3>1. 1 \in DOMAIN Messages /\ Messages[1].type = "ShutDownServer"
      BY <1>3, <1>4, <1>7
    <3> QED BY <3>1 DEF Ending
  <2>3. Messages' = <<>>
    BY <1>4, <2>2
  <2> QED BY <1>2, <1>6, <2>1, <2>2, <2>3 DEF Ending
<1>8. CASE Head(inbox).type # "ShutDownServer"
  <2>1. UNCHANGED <<srvPc, ending>> /\ (writer' = writer \/ \E m, stay : SendBuffer(m, stay))
    BY <1>8 DEF HandleLocal
  <2>2. \A b \in Slot : writer[b] = Nobody <=> writer'[b] = Nobody
    BY <1>1, <2>1, SendNotifies
  <2> QED BY <1>2, <1>5, <1>6, <2>1, <2>2 DEF Ending
<1> QED BY <1>7, <1>8

\* The other steps of the thread take no message.
LEMMA ServerEnds == ASSUME Streaming, Ending, ServerStep, ~HandleLocal PROVE Ending'
<1>1. BuffersTyped /\ writer \in [Slot -> Loggers]
      /\ ending \in {"no", "noticed", "closing"}
  BY DEF Streaming, BuffersTyped
<1>2. CASE \E room \in BOOLEAN : AcceptMessage(room)
  <2>1. /\ inbox' = inbox \o pipe /\ pipe' = <<>> /\ UNCHANGED <<destroying, ending, writer>> /\ srvPc = "accept"
        /\ srvPc' = IF ending = "closing" THEN "send" ELSE "local"
    BY <1>2 DEF AcceptMessage, writerVars
  <2>2. Messages' = Messages
    BY <1>1, <2>1, MessagesMoved
  <2> QED BY <2>1, <2>2, EndingKept DEF Ending
<1>3. CASE CloseThread
  <2>1. UNCHANGED <<inbox, pipe, destroying, writer>> /\ srvPc = "close" /\ srvPc' = "update" /\ ending' = "closing"
    BY <1>3 DEF CloseThread, writerVars
  <2>2. Messages' = Messages
    BY <2>1 DEF Messages
  <2> QED BY <2>1, <2>2 DEF Ending
<1>4. ASSUME UNCHANGED <<inbox, pipe, destroying, ending>>,
             \A b \in Slot : writer[b] = Nobody => writer'[b] = Nobody,
             \/ srvPc = "local" /\ srvPc' = "flush"
             \/ srvPc \in {"flush", "lock"} /\ srvPc' \in {"flush", "lock", "send"}
             \/ srvPc = "send" /\ srvPc' = "drain"
             \/ srvPc = "drain" /\ srvPc' \in {"drain", "update"}
             \/ srvPc \in {"drain", "update"} /\ ending = "noticed" /\ srvPc' = "close"
             \/ srvPc \in {"drain", "update"} /\ ending # "noticed" /\ srvPc' = "accept"
             \/ srvPc \in {"drain", "update"} /\ ending = "closing" /\ srvPc' = "done"
             \/ srvPc = "close" /\ srvPc' = "close"
      PROVE  Ending'
  <2>1. Messages' = Messages
    BY <1>4 DEF Messages
  <2>2. destroying => \A b \in Slot : writer'[b] = Nobody
    BY <1>4 DEF Ending
  <2>3. /\ ending = "noticed" => srvPc' \in {"flush", "lock", "send", "drain", "update", "close"}
        /\ ending = "closing" => srvPc' \in {"accept", "send", "drain", "update", "done"}
        /\ srvPc' = "close" => ending = "noticed"
        /\ srvPc' = "done" => ending = "closing"
    BY <1>4 DEF Ending
  <2> QED BY <1>4, <2>1, <2>2, <2>3, EndingKept
<1>5. CASE LocalOver
  BY <1>4, <1>5 DEF LocalOver, writerVars
<1>6. CASE \E b \in Slot : FlushTest(b) \/ FlushSlot(b) \/ SaveLog(b)
  BY <1>4, <1>6 DEF FlushTest, FlushSlot, SaveLog, writerVars
<1>7. CASE \E due \in BOOLEAN : CheckTimeout2(due)
  BY <1>4, <1>7 DEF CheckTimeout2, writerVars
<1>8. CASE \E n \in 1 .. OutRoom : SendOutput(n)
  BY <1>4, <1>8 DEF SendOutput, writerVars
<1>9. CASE DrainBuffer
  <2>1. /\ UNCHANGED <<inbox, pipe, destroying, ending>> /\ srvPc = "drain" /\ srvPc' \in {"drain", "update"}
        /\ \E m, stay : SendBuffer(m, stay)
    BY <1>9 DEF DrainBuffer
  <2>2. \A b \in Slot : writer[b] = Nobody => writer'[b] = Nobody
    BY <1>1, <2>1, SendNotifies
  <2> QED BY <1>4, <2>1, <2>2
<1>10. CASE DrainRecord
  <2>1. UNCHANGED <<inbox, pipe, destroying, ending, writer>> /\ srvPc = "drain"
    BY <1>10 DEF DrainRecord, writerVars
  <2>2. srvPc' \in {"drain", "update"}
    BY <1>10, DrainRecordMoves
  <2> QED BY <1>4, <2>1, <2>2
<1>11. CASE UpdateState
  <2>1. UNCHANGED <<inbox, pipe, destroying, ending, writer>> /\ srvPc \in {"drain", "update"}
        /\ \/ ending = "noticed" /\ srvPc' = "close"
           \/ ending # "noticed" /\ srvPc' = "accept"
           \/ ending = "closing" /\ srvPc' = "done"
    BY <1>11 DEF UpdateState, writerVars
  <2> QED BY <1>4, <2>1
<1> QED BY <1>2, <1>3, <1>5, <1>6, <1>7, <1>8, <1>9, <1>10, <1>11 DEF ServerStep

LEMMA EndingStarts == BufferInit => Ending
<1> SUFFICES ASSUME BufferInit PROVE Ending
  OBVIOUS
<1>1. Messages = <<>>
  BY DEF BufferInit, Messages
<1> QED BY <1>1 DEF BufferInit, Ending

LEMMA EndingStep == Streaming /\ Ending /\ [BufferNext]_bufferVars => Ending'
<1> SUFFICES ASSUME Streaming, Ending, [BufferNext]_bufferVars PROVE Ending'
  OBVIOUS
<1>1. ASSUME NEW b \in Slot,
             \/ WriteFits(b) \/ WriteNowhere(b)
             \/ SubmitSwap(b) \/ SubmitAlone(b) \/ SubmitLast(b) \/ SubmitEmpty(b)
             \/ WriterStep(b) \/ Age(b)
      PROVE  Ending'
  BY <1>1, WriterEnds
<1>2. CASE UNCHANGED bufferVars
  <2>1. UNCHANGED <<inbox, pipe, destroying, ending, writer, srvPc>>
    BY <1>2 DEF bufferVars, writerVars, threadSide
  <2>2. Messages' = Messages
    BY <2>1 DEF Messages
  <2> QED BY <2>1, <2>2 DEF Ending
<1> QED BY <1>1, <1>2, DestroyEnds, HandleLocalEnds, ServerEnds DEF BufferNext
-----------------------------------------------------------------------------
(* The buffers: the places of a record *)

LEMMA OneEachJoined ==
    ASSUME NEW T, NEW p \in Seq(T), NEW q \in Seq(T), OneEach(p), OneEach(q), Apart(p, q)
    PROVE  OneEach(p \o q)
<1> DEFINE s == p \o q
           a == Len(p)
           z == Len(q)
<1>1. /\ a \in Nat /\ z \in Nat /\ DOMAIN p = 1 .. a /\ DOMAIN q = 1 .. z /\ DOMAIN s = 1 .. a + z
      /\ \A i \in 1 .. a + z : s[i] = IF i <= a THEN p[i] ELSE q[i - a]
  BY JoinedPlaces
<1> HIDE DEF s, a, z
<1>2. /\ \A i, j \in 1 .. a : p[i] = p[j] => i = j
      /\ \A i, j \in 1 .. z : q[i] = q[j] => i = j
      /\ \A i \in 1 .. a, j \in 1 .. z : p[i] # q[j]
  <2>1. /\ \A i, j \in 1 .. a : p[i] = p[j] => i = j
        /\ \A i, j \in 1 .. z : q[i] = q[j] => i = j
    BY <1>1 DEF OneEach
  <2>2. ASSUME NEW i \in 1 .. a, NEW j \in 1 .. z PROVE p[i] # q[j]
    <3>1. p[i] \in RecordsIn(p) /\ q[j] \in RecordsIn(q)
      BY <1>1 DEF RecordsIn
    <3> QED BY <3>1 DEF Apart
  <2> QED BY <2>1, <2>2
<1>3. ASSUME NEW i \in 1 .. a + z, NEW j \in 1 .. a + z, s[i] = s[j] PROVE i = j
  <2>1. CASE i <= a /\ j <= a
    <3>1. i \in 1 .. a /\ j \in 1 .. a
      BY <1>1, <2>1
    <3> QED BY <1>1, <1>2, <1>3, <2>1, <3>1
  <2>2. CASE ~(i <= a) /\ ~(j <= a)
    <3> DEFINE x == i - a
               y == j - a
    <3>1. x \in 1 .. z /\ y \in 1 .. z /\ (x = y => i = j)
      BY <1>1, <2>2
    <3> HIDE DEF x, y
    <3>2. q[x] = q[y]
      BY <1>1, <1>3, <2>2 DEF x, y
    <3> QED BY <1>2, <3>1, <3>2
  <2>3. CASE i <= a /\ ~(j <= a)
    <3> DEFINE y == j - a
    <3>1. i \in 1 .. a /\ y \in 1 .. z
      BY <1>1, <2>3
    <3> HIDE DEF y
    <3>2. p[i] = q[y]
      BY <1>1, <1>3, <2>3 DEF y
    <3> QED BY <1>2, <3>1, <3>2
  <2>4. CASE ~(i <= a) /\ j <= a
    <3> DEFINE x == i - a
    <3>1. j \in 1 .. a /\ x \in 1 .. z
      BY <1>1, <2>4
    <3> HIDE DEF x
    <3>2. p[j] = q[x]
      BY <1>1, <1>3, <2>4 DEF x
    <3> QED BY <1>2, <3>1, <3>2
  <2> QED BY <2>1, <2>2, <2>3, <2>4
<1> QED BY <1>1, <1>3 DEF OneEach, s

LEMMA OneEachAppended ==
    ASSUME NEW T, NEW s \in Seq(T), NEW x \in T, OneEach(s), x \notin RecordsIn(s)
    PROVE  OneEach(Append(s, x))
<1>1. /\ Len(s) \in Nat /\ DOMAIN s = 1 .. Len(s) /\ DOMAIN Append(s, x) = 1 .. Len(s) + 1
      /\ \A i \in 1 .. Len(s) : Append(s, x)[i] = s[i]
      /\ Append(s, x)[Len(s) + 1] = x
  BY AppendedPlaces
<1>2. \A i \in 1 .. Len(s) + 1 : i \in 1 .. Len(s) \/ i = Len(s) + 1
  BY <1>1
<1> QED BY <1>1, <1>2 DEF OneEach, RecordsIn

\* The records that OncePlaced counts, one by one.
LEMMA PlacedIs ==
    ASSUME NEW d, NEW ms, NEW h, NEW r
    PROVE  r \in Placed(d, ms, h) <=> \/ r \in RecordsIn(d)
                                      \/ \E i \in Unfiled(ms) : r \in RecordsIn(ms[i].rs)
                                      \/ \E b \in Slot : r \in RecordsIn(h[b])
<1> DEFINE A == {RecordsIn(ms[i].rs) : i \in Unfiled(ms)}
           B == {RecordsIn(h[b]) : b \in Slot}
<1>1. r \in UNION A <=> \E i \in Unfiled(ms) : r \in RecordsIn(ms[i].rs)
  OBVIOUS
<1>2. r \in UNION B <=> \E b \in Slot : r \in RecordsIn(h[b])
  OBVIOUS
<1>3. Placed(d, ms, h) = RecordsIn(d) \cup (UNION A) \cup (UNION B)
  BY DEF Placed
<1> HIDE DEF A, B
<1> QED BY <1>1, <1>2, <1>3

Numbered(n) == UNION {{[slot |-> b, n |-> k] : k \in 1 .. n[b]} : b \in Slot}

LEMMA NumberedIs ==
    ASSUME NEW n, NEW r
    PROVE  r \in Numbered(n) <=> \E b \in Slot : \E k \in 1 .. n[b] : r = [slot |-> b, n |-> k]
BY DEF Numbered

LEMMA OncePlacedIs ==
    ASSUME NEW d, NEW ms, NEW h, NEW n
    PROVE  OncePlaced(d, ms, h, n) <=>
              /\ OneEach(d)
              /\ \A i \in Unfiled(ms) : OneEach(ms[i].rs) /\ RecordsIn(ms[i].rs) \cap RecordsIn(d) = {}
              /\ \A i, j \in Unfiled(ms) : i # j => RecordsIn(ms[i].rs) \cap RecordsIn(ms[j].rs) = {}
              /\ \A b \in Slot : OneEach(h[b]) /\ RecordsIn(h[b]) \cap RecordsIn(d) = {}
              /\ \A b \in Slot : \A i \in Unfiled(ms) : RecordsIn(h[b]) \cap RecordsIn(ms[i].rs) = {}
              /\ \A b, c \in Slot : b # c => RecordsIn(h[b]) \cap RecordsIn(h[c]) = {}
              /\ Placed(d, ms, h) = Numbered(n)
BY DEF OncePlaced, Apart, Numbered

\* A logger writes its next record to its buffer.
LEMMA RecordPlaced ==
    ASSUME NEW d, NEW ms, NEW h \in [Slot -> Seq(Rec)], NEW n \in [Slot -> Nat], OncePlaced(d, ms, h, n),
           NEW b \in Slot, NEW r, r = [slot |-> b, n |-> n[b] + 1],
           NEW h2, h2 = [h EXCEPT ![b] = Append(h[b], r)], NEW n2, n2 = [n EXCEPT ![b] = n[b] + 1]
    PROVE  OncePlaced(d, ms, h2, n2)
<1>1. r \in Rec
  BY DEF Rec
<1>2. r \notin Numbered(n)
  <2> SUFFICES ASSUME r \in Numbered(n) PROVE FALSE
    OBVIOUS
  <2>1. PICK c \in Slot : \E k \in 1 .. n[c] : r = [slot |-> c, n |-> k]
    BY NumberedIs
  <2>2. PICK k \in 1 .. n[c] : r = [slot |-> c, n |-> k]
    BY <2>1
  <2>3. c = b /\ k = n[b] + 1 /\ n[b] \in Nat
    BY <2>2
  <2> QED BY <2>2, <2>3
<1>3. \A x : x \in Numbered(n2) <=> x \in Numbered(n) \/ x = r
  <2> SUFFICES ASSUME NEW x PROVE x \in Numbered(n2) <=> x \in Numbered(n) \/ x = r
    OBVIOUS
  <2>1. n[b] \in Nat /\ n2[b] = n[b] + 1 /\ \A c \in Slot : c # b => n2[c] = n[c]
    OBVIOUS
  <2>2. \A k : k \in 1 .. n2[b] <=> k \in 1 .. n[b] \/ k = n[b] + 1
    BY <2>1
  <2>3. (\E c \in Slot : \E k \in 1 .. n2[c] : x = [slot |-> c, n |-> k])
        <=> (\E c \in Slot : \E k \in 1 .. n[c] : x = [slot |-> c, n |-> k]) \/ x = r
    BY <2>1, <2>2
  <2>4. x \in Numbered(n2) <=> \E c \in Slot : \E k \in 1 .. n2[c] : x = [slot |-> c, n |-> k]
    BY ONLY NumberedIs
  <2>5. x \in Numbered(n) <=> \E c \in Slot : \E k \in 1 .. n[c] : x = [slot |-> c, n |-> k]
    BY ONLY NumberedIs
  <2> QED BY <2>3, <2>4, <2>5
<1> DEFINE D == RecordsIn(d)
           M(i) == RecordsIn(ms[i].rs)
           H(c) == RecordsIn(h[c])
           H2(c) == RecordsIn(h2[c])
<1>4. /\ OneEach(d)
      /\ \A i \in Unfiled(ms) : OneEach(ms[i].rs) /\ M(i) \cap D = {}
      /\ \A i, j \in Unfiled(ms) : i # j => M(i) \cap M(j) = {}
      /\ \A c \in Slot : OneEach(h[c]) /\ H(c) \cap D = {}
      /\ \A c \in Slot : \A i \in Unfiled(ms) : H(c) \cap M(i) = {}
      /\ \A c, e \in Slot : c # e => H(c) \cap H(e) = {}
      /\ Placed(d, ms, h) = Numbered(n)
  BY OncePlacedIs
<1>5. H2(b) = H(b) \cup {r} /\ \A c \in Slot : c # b => h2[c] = h[c] /\ H2(c) = H(c)
  BY <1>1, AppendedMembers
<1>6. r \notin D /\ (\A i \in Unfiled(ms) : r \notin M(i)) /\ \A c \in Slot : r \notin H(c)
  BY <1>2, <1>4, PlacedIs
<1>7. OneEach(h2[b])
  <2>1. h[b] \in Seq(Rec) /\ OneEach(h[b]) /\ r \notin RecordsIn(h[b]) /\ h2[b] = Append(h[b], r)
    BY <1>4, <1>6
  <2> QED BY <1>1, <2>1, OneEachAppended
<1>8. Placed(d, ms, h2) = Numbered(n2)
  <2> SUFFICES ASSUME NEW x PROVE x \in Placed(d, ms, h2) <=> x \in Numbered(n2)
    OBVIOUS
  <2>1. x \in Placed(d, ms, h2) <=> x \in Placed(d, ms, h) \/ x = r
    <3>1. x \in Placed(d, ms, h) <=> x \in D \/ (\E i \in Unfiled(ms) : x \in M(i)) \/ \E c \in Slot : x \in H(c)
      BY ONLY PlacedIs
    <3>2. x \in Placed(d, ms, h2) <=> x \in D \/ (\E i \in Unfiled(ms) : x \in M(i)) \/ \E c \in Slot : x \in H2(c)
      BY ONLY PlacedIs
    <3> HIDE DEF D, M, H, H2
    <3> QED BY <1>5, <3>1, <3>2
  <2> QED BY <1>3, <1>4, <2>1
<1> HIDE DEF D, M, H, H2
<1>9. /\ \A c \in Slot : OneEach(h2[c]) /\ H2(c) \cap D = {}
      /\ \A c \in Slot : \A i \in Unfiled(ms) : H2(c) \cap M(i) = {}
      /\ \A c, e \in Slot : c # e => H2(c) \cap H2(e) = {}
  <2>1. \A c \in Slot : H2(c) \subseteq H(c) \cup {r} /\ (c # b => H2(c) = H(c))
    BY <1>5
  <2> QED BY <1>4, <1>5, <1>6, <1>7, <2>1
<1> QED BY <1>4, <1>8, <1>9, OncePlacedIs DEF D, M, H2

\* A buffer is written to the file.
LEMMA BufferFiled ==
    ASSUME NEW d \in Seq(Rec), NEW ms, NEW h \in [Slot -> Seq(Rec)], NEW n, OncePlaced(d, ms, h, n),
           NEW b \in Slot, NEW d2, d2 = d \o h[b], NEW h2, h2 = [h EXCEPT ![b] = <<>>]
    PROVE  OncePlaced(d2, ms, h2, n)
<1> DEFINE D == RecordsIn(d)
           D2 == RecordsIn(d2)
           M(i) == RecordsIn(ms[i].rs)
           H(c) == RecordsIn(h[c])
           H2(c) == RecordsIn(h2[c])
<1>1. /\ OneEach(d)
      /\ \A i \in Unfiled(ms) : OneEach(ms[i].rs) /\ M(i) \cap D = {}
      /\ \A i, j \in Unfiled(ms) : i # j => M(i) \cap M(j) = {}
      /\ \A c \in Slot : OneEach(h[c]) /\ H(c) \cap D = {}
      /\ \A c \in Slot : \A i \in Unfiled(ms) : H(c) \cap M(i) = {}
      /\ \A c, e \in Slot : c # e => H(c) \cap H(e) = {}
      /\ Placed(d, ms, h) = Numbered(n)
  BY OncePlacedIs
<1>2. D2 = D \cup H(b)
  BY JoinedMembers
<1>3. OneEach(h2[b]) /\ H2(b) = {} /\ \A c \in Slot : c # b => h2[c] = h[c] /\ H2(c) = H(c)
  <2>1. h2[b] = <<>> /\ DOMAIN <<>> = {}
    OBVIOUS
  <2> QED BY <2>1 DEF RecordsIn, OneEach
<1>4. OneEach(d2)
  <2>1. d \in Seq(Rec) /\ h[b] \in Seq(Rec) /\ OneEach(d) /\ OneEach(h[b]) /\ Apart(d, h[b])
    BY <1>1 DEF Apart
  <2>2. OneEach(d \o h[b])
    BY ONLY <2>1, OneEachJoined
  <2> QED BY <2>2
<1>5. Placed(d2, ms, h2) = Numbered(n)
  <2> SUFFICES ASSUME NEW x PROVE x \in Placed(d2, ms, h2) <=> x \in Placed(d, ms, h)
    <3>1. (\A x : x \in Placed(d2, ms, h2) <=> x \in Placed(d, ms, h)) => Placed(d2, ms, h2) = Placed(d, ms, h)
      OBVIOUS
    <3> QED BY <1>1, <3>1
  <2>1. x \in Placed(d, ms, h) <=> x \in D \/ (\E i \in Unfiled(ms) : x \in M(i)) \/ \E c \in Slot : x \in H(c)
    BY ONLY PlacedIs
  <2>2. x \in Placed(d2, ms, h2) <=> x \in D2 \/ (\E i \in Unfiled(ms) : x \in M(i)) \/ \E c \in Slot : x \in H2(c)
    BY ONLY PlacedIs
  <2> HIDE DEF D, D2, M, H, H2
  <2> QED BY <1>2, <1>3, <2>1, <2>2
<1> HIDE DEF D, D2, M, H, H2
<1>6. /\ \A i \in Unfiled(ms) : M(i) \cap D2 = {}
      /\ \A c \in Slot : OneEach(h2[c]) /\ H2(c) \cap D2 = {}
      /\ \A c \in Slot : \A i \in Unfiled(ms) : H2(c) \cap M(i) = {}
      /\ \A c, e \in Slot : c # e => H2(c) \cap H2(e) = {}
  BY <1>1, <1>2, <1>3
<1> QED BY <1>1, <1>4, <1>5, <1>6, OncePlacedIs DEF D2, M, H2

\* A buffer goes into the pipe without having been written.
LEMMA BufferSent ==
    ASSUME NEW d, NEW ms \in Seq(PipeMessage), NEW h, h \in [Slot -> Seq(Rec)], NEW n, OncePlaced(d, ms, h, n),
           NEW b \in Slot, NEW m \in PipeMessage, ~m.flushed, m.rs = h[b],
           NEW ms2, ms2 = Append(ms, m), NEW h2, h2 = [h EXCEPT ![b] = <<>>]
    PROVE  OncePlaced(d, ms2, h2, n)
<1> DEFINE D == RecordsIn(d)
           M(i) == RecordsIn(ms[i].rs)
           M2(i) == RecordsIn(ms2[i].rs)
           H(c) == RecordsIn(h[c])
           H2(c) == RecordsIn(h2[c])
           z == Len(ms) + 1
           U == Unfiled(ms)
           U2 == Unfiled(ms2)
<1>1. /\ OneEach(d)
      /\ \A i \in U : OneEach(ms[i].rs) /\ M(i) \cap D = {}
      /\ \A i, j \in U : i # j => M(i) \cap M(j) = {}
      /\ \A c \in Slot : OneEach(h[c]) /\ H(c) \cap D = {}
      /\ \A c \in Slot : \A i \in U : H(c) \cap M(i) = {}
      /\ \A c, e \in Slot : c # e => H(c) \cap H(e) = {}
      /\ Placed(d, ms, h) = Numbered(n)
  BY OncePlacedIs
<1>2. /\ Len(ms) \in Nat /\ DOMAIN ms = 1 .. Len(ms) /\ DOMAIN ms2 = 1 .. z
      /\ \A i \in 1 .. Len(ms) : ms2[i] = ms[i]
      /\ ms2[z] = m
  <2> HIDE DEF PipeMessage
  <2> QED BY AppendedPlaces
<1>3. U2 = U \cup {z} /\ z \notin U /\ (\A i \in U : ms2[i] = ms[i] /\ M2(i) = M(i)) /\ ms2[z].rs = h[b] /\ M2(z) = H(b)
  <2>1. \A i \in 1 .. z : i \in 1 .. Len(ms) \/ i = z
    BY <1>2
  <2>2. z \notin 1 .. Len(ms) /\ z \in 1 .. z /\ \A i \in 1 .. Len(ms) : i \in 1 .. z
    BY <1>2
  <2>3. ~ms2[z].flushed
    BY <1>2
  <2> QED BY <1>2, <2>1, <2>2, <2>3 DEF Unfiled
<1>4. OneEach(h2[b]) /\ H2(b) = {} /\ \A c \in Slot : c # b => h2[c] = h[c] /\ H2(c) = H(c)
  <2>1. h2[b] = <<>> /\ DOMAIN <<>> = {}
    OBVIOUS
  <2> QED BY <2>1 DEF RecordsIn, OneEach
<1>5. Placed(d, ms2, h2) = Numbered(n)
  <2> SUFFICES ASSUME NEW x PROVE x \in Placed(d, ms2, h2) <=> x \in Placed(d, ms, h)
    <3>1. (\A x : x \in Placed(d, ms2, h2) <=> x \in Placed(d, ms, h)) => Placed(d, ms2, h2) = Placed(d, ms, h)
      OBVIOUS
    <3> QED BY <1>1, <3>1
  <2>1. x \in Placed(d, ms, h) <=> x \in D \/ (\E i \in U : x \in M(i)) \/ \E c \in Slot : x \in H(c)
    BY ONLY PlacedIs
  <2>2. x \in Placed(d, ms2, h2) <=> x \in D \/ (\E i \in U2 : x \in M2(i)) \/ \E c \in Slot : x \in H2(c)
    BY ONLY PlacedIs
  <2> HIDE DEF D, M, M2, H, H2, U, U2, z
  <2> QED BY <1>3, <1>4, <2>1, <2>2
<1> HIDE DEF D, M, M2, H, H2, U, U2, z
<1>6. \A i \in U2 : OneEach(ms2[i].rs) /\ M2(i) \cap D = {}
  BY <1>1, <1>3
<1>7. \A i, j \in U2 : i # j => M2(i) \cap M2(j) = {}
  <2>1. \A i \in U : M2(i) \cap M2(z) = {}
    BY <1>1, <1>3
  <2> QED BY <1>1, <1>3, <2>1
<1>8. /\ \A c \in Slot : OneEach(h2[c]) /\ H2(c) \cap D = {}
      /\ \A c, e \in Slot : c # e => H2(c) \cap H2(e) = {}
  BY <1>1, <1>4
<1>9. \A c \in Slot : \A i \in U2 : H2(c) \cap M2(i) = {}
  <2>1. \A c \in Slot : c # b => H2(c) \cap M2(z) = {}
    BY <1>1, <1>3, <1>4
  <2> QED BY <1>1, <1>3, <1>4, <2>1
<1> QED BY <1>1, <1>5, <1>6, <1>7, <1>8, <1>9, OncePlacedIs DEF D, M2, H2, U2

\* A message that was written goes into the pipe.
LEMMA FlushedSent ==
    ASSUME NEW d, NEW ms \in Seq(PipeMessage), NEW h, NEW n, OncePlaced(d, ms, h, n),
           NEW m \in PipeMessage, m.flushed, NEW ms2, ms2 = Append(ms, m)
    PROVE  OncePlaced(d, ms2, h, n)
<1>1. /\ Len(ms) \in Nat /\ DOMAIN ms = 1 .. Len(ms) /\ DOMAIN ms2 = 1 .. Len(ms) + 1
      /\ \A i \in 1 .. Len(ms) : ms2[i] = ms[i]
      /\ ms2[Len(ms) + 1] = m
  <2> HIDE DEF PipeMessage
  <2> QED BY AppendedPlaces
<1>2. Unfiled(ms2) = Unfiled(ms) /\ \A i \in Unfiled(ms) : ms2[i] = ms[i]
  <2>1. \A i : i \in 1 .. Len(ms) + 1 <=> i \in 1 .. Len(ms) \/ i = Len(ms) + 1
    BY <1>1
  <2> QED BY <1>1, <2>1 DEF Unfiled
<1>3. Placed(d, ms2, h) = Placed(d, ms, h)
  <2> SUFFICES ASSUME NEW x PROVE x \in Placed(d, ms2, h) <=> x \in Placed(d, ms, h)
    OBVIOUS
  <2>1. x \in Placed(d, ms, h) <=>
           x \in RecordsIn(d) \/ (\E i \in Unfiled(ms) : x \in RecordsIn(ms[i].rs)) \/ \E c \in Slot : x \in RecordsIn(h[c])
    BY ONLY PlacedIs
  <2>2. x \in Placed(d, ms2, h) <=>
           x \in RecordsIn(d) \/ (\E i \in Unfiled(ms2) : x \in RecordsIn(ms2[i].rs)) \/ \E c \in Slot : x \in RecordsIn(h[c])
    BY ONLY PlacedIs
  <2> QED BY <1>2, <2>1, <2>2
<1> QED BY <1>2, <1>3, OncePlacedIs, ZenonT(40)

\* The first message is taken, and written if it was not.
LEMMA FirstFiled ==
    ASSUME NEW d \in Seq(Rec), NEW ms \in Seq(PipeMessage), NEW h, NEW n, OncePlaced(d, ms, h, n), ms # <<>>,
           NEW d2, d2 = IF ms[1].flushed THEN d ELSE d \o ms[1].rs, NEW ms2, ms2 = Tail(ms)
    PROVE  OncePlaced(d2, ms2, h, n)
<1> DEFINE D == RecordsIn(d)
           D2 == RecordsIn(d2)
           M(i) == RecordsIn(ms[i].rs)
           M2(i) == RecordsIn(ms2[i].rs)
           H(c) == RecordsIn(h[c])
           L == Len(ms)
           U == Unfiled(ms)
           U2 == Unfiled(ms2)
           next(i) == i + 1
<1>1. /\ OneEach(d)
      /\ \A i \in U : OneEach(ms[i].rs) /\ M(i) \cap D = {}
      /\ \A i, j \in U : i # j => M(i) \cap M(j) = {}
      /\ \A c \in Slot : OneEach(h[c]) /\ H(c) \cap D = {}
      /\ \A c \in Slot : \A i \in U : H(c) \cap M(i) = {}
      /\ \A c, e \in Slot : c # e => H(c) \cap H(e) = {}
      /\ Placed(d, ms, h) = Numbered(n)
  BY OncePlacedIs
<1>2. /\ L \in Nat /\ L >= 1 /\ DOMAIN ms = 1 .. L /\ DOMAIN ms2 = 1 .. L - 1
      /\ \A i \in 1 .. L - 1 : ms2[i] = ms[i + 1]
  <2> HIDE DEF PipeMessage
  <2> QED BY HeadAndTail
<1>3. ms[1].rs \in Seq(Rec) /\ 1 \in 1 .. L
  <2>1. ms[1] \in PipeMessage
    BY <1>2
  <2> QED BY <1>2, <2>1, MessageFields
<1>4. /\ \A i \in U2 : next(i) \in U /\ next(i) # 1 /\ ms2[i] = ms[next(i)] /\ M2(i) = M(next(i))
      /\ \A i, j \in U2 : i # j => next(i) # next(j)
      /\ \A i \in U : i = 1 \/ \E j \in U2 : next(j) = i
      /\ (1 \in U <=> ~ms[1].flushed)
  <2>1. ASSUME NEW i \in U2 PROVE next(i) \in U /\ next(i) # 1 /\ ms2[i] = ms[next(i)] /\ M2(i) = M(next(i))
    <3>1. i \in 1 .. L - 1 /\ ~ms2[i].flushed
      BY <1>2, <2>1 DEF Unfiled
    <3>2. next(i) \in 1 .. L /\ next(i) # 1 /\ ms2[i] = ms[next(i)]
      BY <1>2, <3>1
    <3> HIDE DEF next
    <3> QED BY <1>2, <3>1, <3>2 DEF Unfiled
  <2>2. ASSUME NEW i \in U2, NEW j \in U2, i # j PROVE next(i) # next(j)
    <3>1. i \in 1 .. L - 1 /\ j \in 1 .. L - 1
      BY <1>2 DEF Unfiled
    <3> QED BY <2>2, <3>1
  <2>3. ASSUME NEW i \in U, i # 1 PROVE \E j \in U2 : next(j) = i
    <3> DEFINE j == i - 1
    <3>1. i \in 1 .. L /\ ~ms[i].flushed
      BY <1>2 DEF Unfiled
    <3>2. j \in 1 .. L - 1 /\ j + 1 = i
      BY <1>2, <2>3, <3>1
    <3> HIDE DEF j
    <3>3. ms2[j] = ms[i]
      BY <1>2, <3>2
    <3>4. j \in U2
      BY <1>2, <3>1, <3>2, <3>3 DEF Unfiled
    <3> QED BY <3>2, <3>4
  <2>4. 1 \in U <=> ~ms[1].flushed
    BY <1>2, <1>3 DEF Unfiled
  <2> QED BY <2>1, <2>2, <2>3, <2>4
<1>5. IF 1 \in U THEN D2 = D \cup M(1) ELSE D2 = D
  BY <1>3, <1>4, JoinedMembers
<1>6. OneEach(d2)
  <2>1. CASE 1 \in U
    <3>1. d \in Seq(Rec) /\ ms[1].rs \in Seq(Rec) /\ OneEach(d) /\ OneEach(ms[1].rs) /\ Apart(d, ms[1].rs)
      BY <1>1, <1>3, <2>1 DEF Apart
    <3>2. OneEach(d \o ms[1].rs)
      BY ONLY <3>1, OneEachJoined
    <3> QED BY <1>4, <2>1, <3>2
  <2>2. CASE 1 \notin U
    BY <1>1, <1>4, <2>2
  <2> QED BY <2>1, <2>2
<1> HIDE DEF next
<1>7. Placed(d2, ms2, h) = Numbered(n)
  <2> SUFFICES ASSUME NEW x PROVE x \in Placed(d2, ms2, h) <=> x \in Placed(d, ms, h)
    <3>1. (\A x : x \in Placed(d2, ms2, h) <=> x \in Placed(d, ms, h)) => Placed(d2, ms2, h) = Placed(d, ms, h)
      OBVIOUS
    <3> QED BY <1>1, <3>1
  <2>1. x \in Placed(d, ms, h) <=> x \in D \/ (\E i \in U : x \in M(i)) \/ \E c \in Slot : x \in H(c)
    BY ONLY PlacedIs
  <2>2. x \in Placed(d2, ms2, h) <=> x \in D2 \/ (\E i \in U2 : x \in M2(i)) \/ \E c \in Slot : x \in H(c)
    BY ONLY PlacedIs
  <2> HIDE DEF D, D2, M, M2, H, U, U2
  <2>3. x \in D2 \/ (\E i \in U2 : x \in M2(i)) <=> x \in D \/ (\E i \in U : x \in M(i))
    <3>1. x \in D2 <=> x \in D \/ (1 \in U /\ x \in M(1))
      BY <1>5
    <3>2. (\E i \in U2 : x \in M2(i)) <=> \E i \in U : i # 1 /\ x \in M(i)
      BY <1>4
    <3> QED BY <3>1, <3>2
  <2> QED BY <2>1, <2>2, <2>3
<1> HIDE DEF D, D2, M, M2, H, U, U2
<1>8. \A i \in U : i # 1 => M(i) \cap D2 = {}
  BY <1>1, <1>5
<1>9. \A c \in Slot : H(c) \cap D2 = {}
  BY <1>1, <1>5
<1>10. \A i \in U2 : OneEach(ms2[i].rs) /\ M2(i) \cap D2 = {}
  BY <1>1, <1>4, <1>8
<1>11. \A i, j \in U2 : i # j => M2(i) \cap M2(j) = {}
  BY <1>1, <1>4
<1>12. \A c \in Slot : \A i \in U2 : H(c) \cap M2(i) = {}
  BY <1>1, <1>4
<1> QED BY <1>1, <1>6, <1>7, <1>9, <1>10, <1>11, <1>12, OncePlacedIs DEF D2, M2, H, U2
-----------------------------------------------------------------------------
(* The buffers: the record file *)

\* A buffer with records has a block, unless a logger that looks for one gave it back.
Blocked == \A b \in Slot : recs[b] # <<>> => block[b] \/ Saved(b) \/ writer[b] # Nobody

\* The thread has written the buffers that wait for the center.
AllFlushed(q) == \A i \in DOMAIN q : q[i].type = "ClearBuffer" => q[i].flushed

Filing == OncePlaced(recFile, Messages, Held, count) /\ Blocked /\ AllFlushed(waitQueue)

LEMMA HeldIs ==
    /\ BuffersTyped => Held \in [Slot -> Seq(Rec)]
    /\ BuffersTyped /\ (\A b \in Slot : ~Saved(b)) => Held = recs
    /\ BuffersTyped' /\ (\A b \in Slot : ~Saved(b)') => Held' = recs'
<1>1. BuffersTyped => Held \in [Slot -> Seq(Rec)]
  BY DEF BuffersTyped, Held
<1>2. BuffersTyped /\ (\A b \in Slot : ~Saved(b)) => Held = recs
  BY DEF BuffersTyped, Held
<1>3. BuffersTyped' /\ (\A b \in Slot : ~Saved(b)') => Held' = recs'
  BY DEF BuffersTyped, Held
<1> QED BY <1>1, <1>2, <1>3

\* While loggers write no buffer is saved.
LEMMA NoneSaved ==
    ASSUME BuffersTyped, BuffersTyped', srvPc # "close", ending # "closing", UNCHANGED <<srvPc, ending>>
    PROVE  Held = recs /\ Held' = recs' /\ \A b \in Slot : ~Saved(b) /\ ~Saved(b)'
<1>1. \A b \in Slot : ~Saved(b) /\ ~Saved(b)'
  BY DEF Saved
<1> QED BY <1>1, HeldIs

LEMMA HeldKept ==
    ASSUME UNCHANGED recs, \A b \in Slot : Saved(b)' <=> Saved(b)
    PROVE  Held' = Held
BY DEF Held

\* A step of the thread that leaves the file and the pipe alone.
LEMMA FilingKept ==
    ASSUME Filing, UNCHANGED <<recFile, count, recs, block>>, Messages' = Messages,
           \A b \in Slot : Saved(b)' <=> Saved(b), \A b \in Slot : writer'[b] = Nobody => writer[b] = Nobody,
           AllFlushed(waitQueue')
    PROVE  Filing'
<1>1. Held' = Held
  BY HeldKept
<1>2. Blocked'
  BY DEF Filing, Blocked
<1> QED BY <1>1, <1>2 DEF Filing

\* The copy of a record to a buffer whose contents have gone elsewhere.
LEMMA CopyFiles ==
    ASSUME BuffersTyped, NEW b \in Slot, NEW h \in [Slot -> Seq(Rec)], NEW s, h[b] = s, CopyTo(b, s),
           \A c \in Slot : c # b => h[c] = recs[c], NEW d, NEW ms, OncePlaced(d, ms, h, count)
    PROVE  OncePlaced(d, ms, recs', count')
<1> DEFINE r == NewRec(b)
<1>1. recs \in [Slot -> Seq(Rec)] /\ count \in [Slot -> Nat]
  BY DEF BuffersTyped
<1>2. r = [slot |-> b, n |-> count[b] + 1]
  BY DEF NewRec
<1>3. recs' = [recs EXCEPT ![b] = Append(s, r)] /\ count' = [count EXCEPT ![b] = count[b] + 1]
  BY DEF CopyTo
<1> HIDE DEF r
<1>4. recs' = [h EXCEPT ![b] = Append(h[b], r)]
  BY <1>1, <1>3
<1>5. /\ h \in [Slot -> Seq(Rec)] /\ count \in [Slot -> Nat] /\ OncePlaced(d, ms, h, count) /\ b \in Slot
      /\ r = [slot |-> b, n |-> count[b] + 1] /\ recs' = [h EXCEPT ![b] = Append(h[b], r)]
      /\ count' = [count EXCEPT ![b] = count[b] + 1]
  BY <1>1, <1>2, <1>3, <1>4
<1> QED BY ONLY <1>5, RecordPlaced

LEMMA WriterFiles ==
    ASSUME Streaming, Streaming', Ending, Filing, NEW b \in Slot,
           WriteFits(b) \/ SubmitSwap(b) \/ SubmitAlone(b) \/ SubmitLast(b) \/ GetBlock(b)
    PROVE  Filing'
<1>1. BuffersTyped /\ BuffersTyped' /\ OncePlaced(recFile, Messages, Held, count) /\ Blocked /\ AllFlushed(waitQueue)
  BY DEF Streaming, Filing
<1>2. ~destroying
  <2>1. GetBlock(b) => writer[b] # Nobody
    BY DEF GetBlock, Nobody
  <2> QED BY <2>1 DEF Ending, WriteFits, SubmitSwap, SubmitAlone, SubmitLast, Enter, Comes
<1>3. UNCHANGED <<inbox, waitQueue, srvPc, ending>> /\ srvPc # "close" /\ ending # "closing"
  BY <1>2 DEF Ending, WriteFits, SubmitSwap, SubmitAlone, SubmitLast, GetBlock, threadSide
<1>4. Held = recs /\ Held' = recs' /\ \A c \in Slot : ~Saved(c) /\ ~Saved(c)'
  BY <1>1, <1>3, NoneSaved
<1>5. /\ recs \in [Slot -> Seq(Rec)] /\ count \in [Slot -> Nat] /\ recFile \in Seq(Rec) /\ recs[b] \in Seq(Rec)
      /\ Messages \in Seq(PipeMessage) /\ OncePlaced(recFile, Messages, recs, count)
  BY <1>1, <1>4, MessagesTyped DEF BuffersTyped
<1>6. AllFlushed(waitQueue')
  BY <1>1, <1>3
<1> DEFINE h == [recs EXCEPT ![b] = <<>>]
<1>7. h \in [Slot -> Seq(Rec)] /\ h[b] = <<>> /\ \A c \in Slot : c # b => h[c] = recs[c]
  <2>1. <<>> \in Seq(Rec)
    OBVIOUS
  <2> QED BY <1>5, <2>1
<1>8. CASE WriteFits(b)
  <2>1. CopyTo(b, recs[b]) /\ Messages' = Messages /\ recFile' = recFile /\ block' = block /\ block[b]
        /\ writer' = writer
    BY <1>8 DEF WriteFits, Messages
  <2>2. OncePlaced(recFile, Messages, recs', count')
    BY <1>1, <1>5, <2>1, CopyFiles
  <2>3. Blocked'
    BY <1>1, <1>4, <2>1 DEF Blocked, CopyTo, BuffersTyped
  <2> QED BY <1>4, <1>6, <2>1, <2>2, <2>3 DEF Filing
<1>9. CASE SubmitSwap(b)
  <2> DEFINE m == ClearMessage(recs[b])
  <2>1. CopyTo(b, <<>>) /\ pipe' = Append(pipe, m) /\ recFile' = recFile /\ block' = block /\ block[b]
        /\ writer' = writer
    BY <1>9 DEF SubmitSwap
  <2>2. m \in PipeMessage /\ ~m.flushed /\ m.rs = recs[b]
    BY <1>5, MessagesMade
  <2> HIDE DEF m, h
  <2>3. Messages' = Append(Messages, m)
    BY <1>1, <1>3, <2>1, <2>2, MessageSent
  <2>4. OncePlaced(recFile, Messages', h, count)
    BY <1>5, <2>2, <2>3, BufferSent DEF h
  <2>5. OncePlaced(recFile, Messages', recs', count')
    BY <1>1, <1>7, <2>1, <2>4, CopyFiles
  <2>6. Blocked'
    BY <1>1, <1>4, <2>1 DEF Blocked, CopyTo, BuffersTyped
  <2> QED BY <1>4, <1>6, <2>1, <2>5, <2>6 DEF Filing
<1>10. CASE SubmitAlone(b)
  <2>1. CopyTo(b, <<>>) /\ Messages' = Messages /\ recFile' = recFile \o recs[b] /\ block' = block /\ block[b]
        /\ writer' = writer
    BY <1>10 DEF SubmitAlone, Messages
  <2> HIDE DEF h
  <2>2. OncePlaced(recFile', Messages, h, count)
    BY <1>5, <2>1, BufferFiled DEF h
  <2>3. OncePlaced(recFile', Messages, recs', count')
    BY <1>1, <1>7, <2>1, <2>2, CopyFiles
  <2>4. Blocked'
    BY <1>1, <1>4, <2>1 DEF Blocked, CopyTo, BuffersTyped
  <2> QED BY <1>4, <1>6, <2>1, <2>3, <2>4 DEF Filing
<1>11. CASE SubmitLast(b)
  <2> DEFINE m == Flushed(ClearMessage(recs[b]))
  <2>1. /\ pipe' = Append(pipe, m) /\ recFile' = recFile \o recs[b] /\ count' = count
        /\ recs' = h /\ block' = [block EXCEPT ![b] = FALSE] /\ \A c \in Slot : c # b => writer'[c] = writer[c]
    BY <1>11 DEF SubmitLast, Looks
  <2>2. m \in PipeMessage /\ m.flushed
    BY <1>5, FlushedClear
  <2> HIDE DEF m, h
  <2>3. Messages' = Append(Messages, m)
    BY <1>1, <1>3, <2>1, <2>2, MessageSent
  <2>4. OncePlaced(recFile', Messages, h, count)
    BY <1>5, <2>1, BufferFiled DEF h
  <2>5. OncePlaced(recFile', Messages', h, count)
    BY <1>5, <2>2, <2>3, <2>4, FlushedSent
  <2>6. Blocked'
    BY <1>1, <1>4, <1>7, <2>1 DEF Blocked, BuffersTyped
  <2> QED BY <1>4, <1>6, <2>1, <2>5, <2>6 DEF Filing
<1>12. CASE GetBlock(b)
  <2>1. /\ CopyTo(b, recs[b]) /\ Messages' = Messages /\ recFile' = recFile
        /\ block' = [block EXCEPT ![b] = TRUE] /\ \A c \in Slot : c # b => writer'[c] = writer[c]
    BY <1>12 DEF GetBlock, Messages
  <2>2. OncePlaced(recFile, Messages, recs', count')
    BY <1>1, <1>5, <2>1, CopyFiles
  <2>3. Blocked'
    BY <1>1, <1>4, <2>1 DEF Blocked, CopyTo, BuffersTyped
  <2> QED BY <1>4, <1>6, <2>1, <2>2, <2>3 DEF Filing
<1> QED BY <1>8, <1>9, <1>10, <1>11, <1>12

\* A search for a block begins or goes on, time passes, or a logger writes outside a block.
Searches(b) ==
    SubmitEmpty(b) \/ GetNone(b) \/ DozeOff(b) \/ WakeUp(b) \/ Age(b) \/ Overrun(b) \/ WriteNowhere(b)

LEMMA SearchUnchanged ==
    ASSUME NEW b \in Slot, Searches(b)
    PROVE  UNCHANGED <<recs, count, recFile, inbox, pipe, waitQueue, srvPc, ending, toVisit,
                       got, output, center, links, faithful>>
BY DEF Searches, SubmitEmpty, GetNone, DozeOff, WakeUp, Age, Overrun, WriteNowhere, writerVars, threadSide, centerSide

LEMMA SearchFiles ==
    ASSUME Streaming, Streaming', Ending, Filing, NEW b \in Slot, Searches(b)
    PROVE  Filing'
<1>1. BuffersTyped /\ BuffersTyped' /\ Blocked /\ AllFlushed(waitQueue)
  BY DEF Streaming, Filing
<1>2. UNCHANGED <<recs, count, recFile, inbox, pipe, waitQueue, srvPc, ending, toVisit>>
  BY SearchUnchanged
<1>3. Held' = Held /\ Messages' = Messages /\ \A c \in Slot : Saved(c)' <=> Saved(c)
  BY <1>2 DEF Held, Messages, Saved
<1>4. \/ writer'[b] # Nobody /\ \A c \in Slot : c # b => writer'[c] = writer[c] /\ block'[c] = block[c]
      \/ UNCHANGED <<block, writer>>
  <2>1. CASE SubmitEmpty(b)
    <3>1. writer' \in [Slot -> Loggers] /\ writer' = [writer EXCEPT ![b].holds = "getting"] /\ writer[b] \in Loggers
      BY <1>1, <2>1, LoggersMove DEF SubmitEmpty, Looks, BuffersTyped
    <3>2. writer'[b] # Nobody
      BY <1>1, <3>1 DEF Nobody, Loggers, BuffersTyped
    <3> QED BY <2>1, <3>1, <3>2 DEF SubmitEmpty
  <2>2. CASE GetNone(b)
    <3>1. writer' \in [Slot -> Loggers] /\ writer' = [writer EXCEPT ![b].holds = "dozing"] /\ writer[b] \in Loggers
      BY <1>1, <2>2, LoggersMove DEF GetNone, BuffersTyped
    <3>2. writer'[b] # Nobody
      BY <1>1, <3>1 DEF Nobody, Loggers, BuffersTyped
    <3> QED BY <1>1, <2>2, <3>1, <3>2 DEF GetNone, BuffersTyped
  <2>3. CASE DozeOff(b)
    <3>1. writer'[b].asleep = writer[b].asleep + 1 /\ writer[b].asleep \in Nat
      BY <1>1, <2>3, LoggersMove DEF BuffersTyped, Loggers
    <3>2. writer'[b] # Nobody
      BY <3>1 DEF Nobody
    <3> QED BY <1>1, <2>3, <3>2 DEF DozeOff, BuffersTyped
  <2>4. CASE WakeUp(b)
    <3>1. writer'[b].holds = "getting"
      BY <1>1, <2>4, LoggersMove DEF BuffersTyped
    <3>2. writer'[b] # Nobody
      BY <3>1 DEF Nobody
    <3> QED BY <1>1, <2>4, <3>2 DEF WakeUp, BuffersTyped
  <2>5. CASE Age(b) \/ Overrun(b) \/ WriteNowhere(b)
    BY <2>5 DEF Age, Overrun, WriteNowhere, writerVars
  <2> QED BY <2>1, <2>2, <2>3, <2>4, <2>5 DEF Searches
<1>5. Blocked'
  BY <1>1, <1>2, <1>3, <1>4 DEF Blocked
<1> QED BY <1>1, <1>2, <1>3, <1>5 DEF Filing

LEMMA DestroyFiles == ASSUME Streaming, Streaming', Ending, Filing, Destroy PROVE Filing'
<1>1. BuffersTyped /\ Messages \in Seq(PipeMessage) /\ OncePlaced(recFile, Messages, Held, count)
  BY MessagesTyped DEF Streaming, Filing
<1>2. /\ UNCHANGED <<recs, block, count, recFile, inbox, waitQueue, srvPc, ending, toVisit, writer>>
      /\ pipe' = Append(pipe, ShutDownMessage)
  BY DEF Destroy, writerVars, threadSide
<1>3. Held' = Held /\ \A c \in Slot : Saved(c)' <=> Saved(c)
  BY <1>2 DEF Held, Saved
<1> DEFINE m == ShutDownMessage
<1>4. m \in PipeMessage /\ m.flushed
  BY MessagesMade
<1> HIDE DEF m
<1>5. Messages' = Append(Messages, m)
  BY <1>1, <1>2, <1>4, MessageSent DEF m
<1>6. OncePlaced(recFile, Messages', Held, count)
  BY <1>1, <1>4, <1>5, FlushedSent
<1>7. Blocked' /\ AllFlushed(waitQueue')
  BY <1>2, <1>3 DEF Filing, Blocked
<1> QED BY <1>2, <1>3, <1>6, <1>7 DEF Filing

\* The queue stays written.
LEMMA AllFlushedGrows ==
    ASSUME NEW q \in Seq(Message), AllFlushed(q), NEW m \in Message, m.type = "ClearBuffer" => m.flushed
    PROVE  AllFlushed(Append(q, m))
<1>1. /\ DOMAIN q = 1 .. Len(q) /\ DOMAIN Append(q, m) = 1 .. Len(q) + 1 /\ Len(q) \in Nat
      /\ \A i \in 1 .. Len(q) : Append(q, m)[i] = q[i]
      /\ Append(q, m)[Len(q) + 1] = m
  <2> HIDE DEF Message
  <2> QED BY AppendedPlaces
<1>2. \A i \in 1 .. Len(q) + 1 : i \in 1 .. Len(q) \/ i = Len(q) + 1
  BY <1>1
<1> QED BY <1>1, <1>2 DEF AllFlushed

LEMMA AllFlushedShrinks ==
    ASSUME NEW q \in Seq(Message), AllFlushed(q), q # <<>>
    PROVE  AllFlushed(Tail(q))
<1>1. /\ DOMAIN q = 1 .. Len(q) /\ DOMAIN Tail(q) = 1 .. Len(q) - 1 /\ Len(q) \in Nat
      /\ \A i \in 1 .. Len(q) - 1 : Tail(q)[i] = q[i + 1]
  <2> HIDE DEF Message
  <2> QED BY HeadAndTail
<1>2. \A i \in 1 .. Len(q) - 1 : i + 1 \in DOMAIN q
  BY <1>1
<1> QED BY <1>1, <1>2 DEF AllFlushed

\* A message m and the queue q behind it.
PutBefore(r, m, q) ==
    /\ Len(q) \in Nat /\ DOMAIN q = 1 .. Len(q) /\ DOMAIN r = 1 .. Len(q) + 1
    /\ Len(r) = Len(q) + 1 /\ r # <<>>
    /\ r[1] = m /\ \A j \in 1 .. Len(q) : r[j + 1] = q[j]
    /\ \A i \in DOMAIN r : i = 1 \/ \E j \in DOMAIN q : i = j + 1

LEMMA Behind ==
    ASSUME NEW T, NEW q \in Seq(T), NEW m \in T, NEW r, r = <<m>> \o q
    PROVE  r \in Seq(T) /\ PutBefore(r, m, q)
<1> DEFINE p == <<m>>
<1>1. p \in Seq(T) /\ Len(p) = 1 /\ p[1] = m /\ r = p \o q
  OBVIOUS
<1> HIDE DEF p
<1>2. /\ r \in Seq(T) /\ Len(q) \in Nat /\ DOMAIN q = 1 .. Len(q) /\ DOMAIN r = 1 .. 1 + Len(q)
      /\ r[1] = p[1] /\ \A j \in 1 .. Len(q) : r[1 + j] = q[j]
  BY <1>1, JoinedPlaces
<1>3. Len(r) = Len(q) + 1 /\ r # <<>>
  BY <1>2
<1>4. \A j \in 1 .. Len(q) : r[j + 1] = q[j]
  <2> TAKE j \in 1 .. Len(q)
  <2>1. 1 + j = j + 1
    OBVIOUS
  <2> QED BY <1>2, <2>1
<1>5. ASSUME NEW i \in DOMAIN r PROVE i = 1 \/ \E j \in DOMAIN q : i = j + 1
  <2> DEFINE j == i - 1
  <2>1. i = 1 \/ (j \in 1 .. Len(q) /\ i = j + 1)
    BY <1>2, <1>5
  <2> QED BY <1>2, <2>1
<1> QED BY <1>1, <1>2, <1>3, <1>4, <1>5 DEF PutBefore

LEMMA AllFlushedBehind ==
    ASSUME NEW q \in Seq(Message), AllFlushed(q), NEW m \in Message, m.type = "ClearBuffer" => m.flushed,
           NEW r, r = <<m>> \o q
    PROVE  AllFlushed(r)
<1>1. /\ DOMAIN q = 1 .. Len(q) /\ r[1] = m /\ \A j \in 1 .. Len(q) : r[j + 1] = q[j]
      /\ \A i \in DOMAIN r : i = 1 \/ \E j \in DOMAIN q : i = j + 1
  <2>1. q \in Seq(Message) /\ m \in Message /\ r = <<m>> \o q
    OBVIOUS
  <2>2. PutBefore(r, m, q)
    BY ONLY <2>1, Behind
  <2> QED BY <2>2 DEF PutBefore
<1>2. ASSUME NEW i \in DOMAIN r PROVE r[i] = m \/ \E j \in DOMAIN q : r[i] = q[j]
  BY <1>1
<1> QED BY <1>2 DEF AllFlushed

\* clear_buffer, for a message that is written.
LEMMA AllFlushedSends ==
    ASSUME NEW m \in Message, m.flushed, NEW stay \in Seq(Message), AllFlushed(stay), SendBuffer(m, stay),
           output \in Seq(HalfRec), Len(output) <= OutRoom, m.begin <= 2 * Len(m.rs)
    PROVE  AllFlushed(waitQueue')
<1>1. CASE center
  <2>1. PICK n \in Nat : SentPart(m, stay, n)
    BY <1>1, SendsPart
  <2>2. Shortened(m, n) \in Message /\ Shortened(m, n).flushed
    BY MessageFields
  <2> DEFINE c == Shortened(m, n)
  <2>3. c \in Message /\ c.flushed /\ (waitQueue' = stay \/ waitQueue' = <<c>> \o stay)
    BY <2>1, <2>2 DEF SentPart
  <2> HIDE DEF c
  <2> QED BY <2>3, AllFlushedBehind
<1>2. CASE ~center
  BY <1>2, SendsNothing
<1> QED BY <1>1, <1>2

LEMMA HandleLocalFiles == ASSUME Streaming, Streaming', Ending, Filing, HandleLocal PROVE Filing'
<1>1. /\ BuffersTyped /\ BuffersTyped' /\ StreamCut /\ OncePlaced(recFile, Messages, Held, count) /\ Blocked
      /\ AllFlushed(waitQueue) /\ recFile \in Seq(Rec)
  BY DEF Streaming, Filing, BuffersTyped
<1> DEFINE m == Head(inbox)
           c == Flushed(m)
<1>2. inbox # <<>> /\ inbox' = Tail(inbox) /\ pipe' = pipe /\ srvPc = "local"
      /\ UNCHANGED <<block, recs, count, destroying>>
  BY DEF HandleLocal
<1>3. /\ Messages \in Seq(PipeMessage) /\ Messages # <<>> /\ Messages' = Tail(Messages) /\ Messages[1] = m
      /\ m \in PipeMessage
  <2>1. Messages \in Seq(PipeMessage) /\ Messages # <<>> /\ Messages' = Tail(Messages) /\ Messages[1] = m
        /\ Head(Messages) = m
    BY <1>1, <1>2, MessagesTyped, MessageTaken
  <2> HIDE DEF m, PipeMessage
  <2>2. Head(Messages) \in PipeMessage
    BY <2>1, HeadAndTail
  <2> QED BY <2>1, <2>2
<1>4. ending = "no"
  BY <1>3 DEF Ending
<1>5. /\ c \in Message /\ c.flushed /\ c.begin = 0 /\ c.rs = m.rs /\ c.rs \in Seq(Rec)
      /\ m.type = "ShutDownServer" => m.flushed
  BY <1>3, MessageFields
<1>6. /\ srvPc' \in {"local", "flush"} /\ ending' \in {"no", "noticed"}
      /\ recFile' = IF m.flushed THEN recFile ELSE recFile \o m.rs
      /\ \/ UNCHANGED <<writer, waitQueue>>
         \/ waitQueue = <<>> /\ SendBuffer(c, waitQueue)
         \/ writer' = writer /\ waitQueue' = Append(waitQueue, c)
  <2>1. CASE m.type = "ShutDownServer"
    BY <1>4, <1>5, <2>1 DEF HandleLocal
  <2>2. CASE m.type # "ShutDownServer"
    BY <1>2, <1>4, <2>2 DEF HandleLocal, Filed, MaySend
  <2> QED BY <2>1, <2>2
<1> HIDE DEF m, c
<1>7. \A b \in Slot : ~Saved(b) /\ ~Saved(b)'
  BY <1>2, <1>4, <1>6 DEF Saved
<1>8. Held = recs /\ Held' = recs
  BY <1>1, <1>2, <1>7, HeldIs
<1>9. OncePlaced(recFile', Messages', recs, count)
  BY <1>1, <1>3, <1>6, <1>8, FirstFiled
<1>10. \A b \in Slot : writer'[b] = Nobody => writer[b] = Nobody
  <2>1. writer \in [Slot -> Loggers]
    BY <1>1 DEF BuffersTyped
  <2> QED BY <1>6, <2>1, SendNotifies
<1>11. Blocked'
  BY <1>1, <1>2, <1>7, <1>10 DEF Blocked
<1>12. AllFlushed(waitQueue')
  <2>1. waitQueue \in Seq(Message) /\ output \in Seq(HalfRec) /\ Len(output) <= OutRoom /\ c.begin <= 2 * Len(c.rs)
    <3>1. 0 <= 2 * Len(c.rs)
      BY <1>5
    <3> QED BY <1>1, <1>5, <3>1 DEF BuffersTyped, StreamCut
  <2> QED BY <1>1, <1>5, <1>6, <2>1, AllFlushedSends, AllFlushedGrows
<1> QED BY <1>2, <1>8, <1>9, <1>11, <1>12 DEF Filing

\* A buffer is flushed or saved: its records were in no file.
LEMMA FlushOutWritten ==
    ASSUME BuffersTyped, AllFlushed(waitQueue), NEW b \in Slot, FlushOut(b)
    PROVE  AllFlushed(waitQueue') /\ recFile' = recFile \o recs[b] /\ block' = [block EXCEPT ![b] = ~center]
<1>1. recs[b] \in Seq(Rec) /\ waitQueue \in Seq(Message)
  BY DEF BuffersTyped
<1> DEFINE c == Flushed(ClearMessage(recs[b]))
<1>2. c \in Message /\ c.flushed
  BY <1>1, FlushedClear
<1>3. waitQueue' = waitQueue \/ waitQueue' = Append(waitQueue, c)
  BY DEF FlushOut
<1> HIDE DEF c
<1>4. AllFlushed(waitQueue')
  BY <1>1, <1>2, <1>3, AllFlushedGrows
<1> QED BY <1>4 DEF FlushOut

LEMMA FlushSlotFiles == ASSUME Streaming, Streaming', Ending, Filing, NEW b \in Slot, FlushSlot(b) PROVE Filing'
<1>1. /\ BuffersTyped /\ BuffersTyped' /\ OncePlaced(recFile, Messages, Held, count) /\ Blocked
      /\ AllFlushed(waitQueue) /\ recFile \in Seq(Rec) /\ recs \in [Slot -> Seq(Rec)] /\ block \in [Slot -> BOOLEAN]
  BY DEF Streaming, Filing, BuffersTyped
<1>2. srvPc = "lock" /\ srvPc' = "flush" /\ UNCHANGED <<writer, inbox, pipe, toVisit, ending, count>>
  BY DEF FlushSlot
<1>3. \A c \in Slot : ~Saved(c) /\ ~Saved(c)'
  BY <1>2 DEF Saved, Ending
<1>4. Held = recs /\ Held' = recs' /\ Messages' = Messages
  BY <1>1, <1>2, <1>3, HeldIs DEF Messages
<1>5. CASE FlushOut(b) /\ recs' = [recs EXCEPT ![b] = <<>>]
  <2>1. AllFlushed(waitQueue') /\ recFile' = recFile \o recs[b] /\ block' = [block EXCEPT ![b] = ~center]
    BY <1>1, <1>5, FlushOutWritten
  <2>2. OncePlaced(recFile', Messages, recs', count)
    BY <1>1, <1>4, <1>5, <2>1, BufferFiled
  <2>3. Blocked'
    BY <1>1, <1>2, <1>3, <1>5, <2>1 DEF Blocked
  <2> QED BY <1>2, <1>4, <2>1, <2>2, <2>3 DEF Filing
<1>6. CASE UNCHANGED <<recFile, waitQueue, block, recs, recent>>
  <2>1. Saved(b) <=> Saved(b)'
    BY <1>3
  <2>2. Blocked'
    BY <1>1, <1>2, <1>3, <1>6 DEF Blocked
  <2> QED BY <1>1, <1>2, <1>4, <1>6, <2>2 DEF Filing
<1> QED BY <1>5, <1>6 DEF FlushSlot

LEMMA SaveLogFiles == ASSUME Streaming, Streaming', Ending, Filing, NEW b \in Slot, SaveLog(b) PROVE Filing'
<1>1. /\ BuffersTyped /\ BuffersTyped' /\ OncePlaced(recFile, Messages, Held, count) /\ Blocked
      /\ AllFlushed(waitQueue) /\ recFile \in Seq(Rec) /\ recs \in [Slot -> Seq(Rec)] /\ block \in [Slot -> BOOLEAN]
      /\ Held \in [Slot -> Seq(Rec)]
  BY HeldIs DEF Streaming, Filing, BuffersTyped
<1>2. /\ srvPc = "close" /\ UNCHANGED <<srvPc, recs, writer, inbox, pipe, ending, count>>
      /\ b \in toVisit /\ toVisit' = toVisit \ {b}
  BY DEF SaveLog
<1>3. ~Saved(b) /\ Saved(b)' /\ \A c \in Slot : c # b => (Saved(c)' <=> Saved(c))
  BY <1>2 DEF Saved, Ending
<1>4. Held' = [Held EXCEPT ![b] = <<>>] /\ Held[b] = recs[b] /\ Messages' = Messages
  BY <1>2, <1>3 DEF Held, Messages
<1>5. CASE FlushOut(b)
  <2>1. AllFlushed(waitQueue') /\ recFile' = recFile \o recs[b] /\ block' = [block EXCEPT ![b] = ~center]
    BY <1>1, <1>5, FlushOutWritten
  <2>2. OncePlaced(recFile', Messages, Held', count)
    BY <1>1, <1>4, <2>1, BufferFiled
  <2>3. Blocked'
    BY <1>1, <1>2, <1>3, <2>1 DEF Blocked
  <2> QED BY <1>2, <1>4, <2>1, <2>2, <2>3 DEF Filing
<1>6. CASE UNCHANGED <<recFile, waitQueue, block>> /\ ~(block[b] /\ recs[b] # <<>>)
  <2>1. recs[b] = <<>>
    <3>1. writer[b] = Nobody
      BY <1>2 DEF Ending
    <3> QED BY <1>1, <1>3, <1>6, <3>1 DEF Blocked
  <2>2. Held' = Held
    BY <1>1, <1>4, <2>1
  <2>3. Blocked'
    BY <1>1, <1>2, <1>3, <1>6 DEF Blocked
  <2> QED BY <1>1, <1>2, <1>4, <1>6, <2>2, <2>3 DEF Filing
<1> QED BY <1>5, <1>6 DEF SaveLog

LEMMA DrainBufferFiles == ASSUME Streaming, Streaming', Ending, Filing, DrainBuffer PROVE Filing'
<1>1. /\ BuffersTyped /\ StreamCut /\ AllFlushed(waitQueue) /\ waitQueue \in Seq(Message) /\ waitQueue # <<>>
      /\ output \in Seq(HalfRec) /\ writer \in [Slot -> Loggers]
  BY DEF Streaming, Filing, BuffersTyped, DrainBuffer
<1> DEFINE m == Head(waitQueue)
           c == Flushed(m)
           stay == Tail(waitQueue)
<1>2. m = waitQueue[1] /\ 1 \in DOMAIN waitQueue /\ m \in Message /\ stay \in Seq(Message) /\ AllFlushed(stay)
  BY <1>1, HeadAndTail, AllFlushedShrinks
<1>3. m.type = "ClearBuffer" /\ SendBuffer(c, stay) /\ recFile' = Filed(m) /\ srvPc = "drain"
      /\ srvPc' \in {"drain", "update"} /\ UNCHANGED <<block, recs, pipe, inbox, toVisit, ending, count>>
  BY DEF DrainBuffer
<1>4. m.flushed /\ recFile' = recFile
  BY <1>1, <1>2, <1>3 DEF AllFlushed, Filed
<1>5. c \in Message /\ c.flushed /\ c.begin = m.begin /\ c.rs = m.rs
  BY <1>2, MessageFields
<1>6. c.begin <= 2 * Len(c.rs) /\ Len(output) <= OutRoom
  BY <1>1, <1>2, <1>5 DEF StreamCut
<1> HIDE DEF m, c, stay
<1>7. AllFlushed(waitQueue')
  BY <1>1, <1>2, <1>3, <1>5, <1>6, AllFlushedSends
<1>8. \A b \in Slot : writer'[b] = Nobody => writer[b] = Nobody
  BY <1>1, <1>3, SendNotifies
<1>9. Messages' = Messages /\ \A b \in Slot : Saved(b)' <=> Saved(b)
  BY <1>3 DEF Messages, Saved
<1> QED BY <1>3, <1>4, <1>7, <1>8, <1>9, FilingKept

LEMMA DrainRecordFiles == ASSUME Streaming, Ending, Filing, DrainRecord PROVE Filing'
<1> DEFINE m == Head(waitQueue)
           c == IF Fits THEN Flushed(m) ELSE m
<1>1. /\ UNCHANGED <<block, recs, writer, pipe, inbox, recFile, toVisit, ending, count>>
      /\ srvPc = "drain" /\ srvPc' \in {"drain", "update"}
      /\ m \in Message /\ m.type \in {"TimeOut", "NodeOffline"} /\ waitQueue # <<>>
      /\ \/ waitQueue' = Tail(waitQueue) \/ waitQueue' = waitQueue
         \/ waitQueue' = <<c>> \o Tail(waitQueue)
  BY DrainRecordMoves
<1>2. waitQueue \in Seq(Message) /\ AllFlushed(waitQueue)
  BY DEF Streaming, BuffersTyped, Filing
<1>3. c \in Message /\ c.type # "ClearBuffer"
  BY <1>1, MessageFields
<1>4. Tail(waitQueue) \in Seq(Message) /\ AllFlushed(Tail(waitQueue))
  BY <1>1, <1>2, HeadAndTail, AllFlushedShrinks
<1> HIDE DEF c, m
<1>5. AllFlushed(waitQueue')
  BY <1>1, <1>2, <1>3, <1>4, AllFlushedBehind
<1>6. Messages' = Messages /\ \A b \in Slot : Saved(b)' <=> Saved(b)
  BY <1>1 DEF Messages, Saved
<1> QED BY <1>1, <1>5, <1>6, FilingKept

LEMMA ServerFiles == ASSUME Streaming, Streaming', Ending, Filing, ServerStep PROVE Filing'
<1>1. BuffersTyped /\ waitQueue \in Seq(Message) /\ AllFlushed(waitQueue)
  BY DEF Streaming, BuffersTyped, Filing
<1>2. CASE \E room \in BOOLEAN : AcceptMessage(room)
  <2>1. /\ inbox' = inbox \o pipe /\ pipe' = <<>> /\ UNCHANGED <<recFile, count, recs, block, writer, waitQueue, toVisit, ending>>
        /\ srvPc # "close" /\ srvPc' # "close"
    BY <1>2 DEF AcceptMessage, writerVars
  <2>2. Messages' = Messages
    BY <1>1, <2>1, MessagesMoved
  <2>3. \A b \in Slot : Saved(b)' <=> Saved(b)
    BY <2>1 DEF Saved
  <2> QED BY <1>1, <2>1, <2>2, <2>3, FilingKept
<1>3. ASSUME UNCHANGED <<inbox, pipe, recFile, count, recs, block, writer>>,
             AllFlushed(waitQueue'), \A b \in Slot : Saved(b)' <=> Saved(b)
      PROVE  Filing'
  <2>1. Messages' = Messages
    BY <1>3 DEF Messages
  <2> QED BY <1>3, <2>1, FilingKept
<1>4. CASE LocalOver
  <2>1. UNCHANGED <<inbox, pipe, recFile, count, recs, block, writer, waitQueue, ending>> /\ srvPc = "local" /\ srvPc' = "flush"
    BY <1>4 DEF LocalOver, writerVars
  <2>2. \A b \in Slot : Saved(b)' <=> Saved(b)
    BY <2>1 DEF Saved
  <2> QED BY <1>1, <1>3, <2>1, <2>2
<1>5. CASE \E b \in Slot : FlushTest(b)
  <2>1. UNCHANGED <<inbox, pipe, recFile, count, recs, block, writer, waitQueue, ending>> /\ srvPc = "flush" /\ srvPc' # "close"
    BY <1>5 DEF FlushTest, writerVars
  <2>2. \A b \in Slot : Saved(b)' <=> Saved(b)
    BY <2>1 DEF Saved
  <2> QED BY <1>1, <1>3, <2>1, <2>2
<1>6. CASE \E due \in BOOLEAN : CheckTimeout2(due)
  <2>1. /\ UNCHANGED <<inbox, pipe, recFile, count, recs, block, writer, ending>> /\ srvPc = "flush" /\ srvPc' = "send"
        /\ waitQueue' = waitQueue \/ waitQueue' = Append(waitQueue, TimeOutMessage)
    BY <1>6 DEF CheckTimeout2, writerVars
  <2>2. \A b \in Slot : Saved(b)' <=> Saved(b)
    BY <2>1 DEF Saved
  <2>3. AllFlushed(waitQueue')
    BY <1>1, <2>1, MessagesMade, AllFlushedGrows
  <2> QED BY <1>3, <2>1, <2>2, <2>3
<1>7. CASE \E n \in 1 .. OutRoom : SendOutput(n)
  <2>1. UNCHANGED <<inbox, pipe, recFile, count, recs, block, writer, waitQueue, ending>> /\ srvPc = "send" /\ srvPc' = "drain"
    BY <1>7 DEF SendOutput, writerVars
  <2>2. \A b \in Slot : Saved(b)' <=> Saved(b)
    BY <2>1 DEF Saved
  <2> QED BY <1>1, <1>3, <2>1, <2>2
<1>8. CASE UpdateState
  <2>1. /\ UNCHANGED <<inbox, pipe, recFile, count, recs, block, writer, waitQueue, ending>> /\ srvPc \in {"drain", "update"}
        /\ IF ending = "noticed" THEN srvPc' = "close" /\ toVisit' = Slot ELSE srvPc' # "close"
    BY <1>8 DEF UpdateState, writerVars
  <2>2. \A b \in Slot : Saved(b)' <=> Saved(b)
    BY <2>1 DEF Saved
  <2> QED BY <1>1, <1>3, <2>1, <2>2
<1>9. CASE CloseThread
  <2>1. /\ UNCHANGED <<inbox, pipe, recFile, count, recs, block, writer>> /\ srvPc = "close" /\ toVisit = {}
        /\ ending' = "closing" /\ (waitQueue' = waitQueue \/ waitQueue' = Append(waitQueue, OfflineMessage))
    BY <1>9 DEF CloseThread, writerVars
  <2>2. \A b \in Slot : Saved(b)' <=> Saved(b)
    BY <2>1 DEF Saved
  <2>3. AllFlushed(waitQueue')
    BY <1>1, <2>1, MessagesMade, AllFlushedGrows
  <2> QED BY <1>3, <2>1, <2>2, <2>3
<1> QED BY <1>2, <1>4, <1>5, <1>6, <1>7, <1>8, <1>9, HandleLocalFiles, FlushSlotFiles, SaveLogFiles,
           DrainBufferFiles, DrainRecordFiles DEF ServerStep

LEMMA FilingStarts == BufferInit => Filing
<1> SUFFICES ASSUME BufferInit PROVE Filing
  OBVIOUS
<1>1. DOMAIN <<>> = {}
  OBVIOUS
<1>2. Messages = <<>> /\ recFile = <<>> /\ \A b \in Slot : Held[b] = <<>> /\ recs[b] = <<>>
  BY DEF BufferInit, Messages, Held
<1>3. OneEach(<<>>) /\ RecordsIn(<<>>) = {} /\ Unfiled(<<>>) = {}
  BY <1>1 DEF OneEach, RecordsIn, Unfiled
<1>4. Placed(recFile, Messages, Held) = {}
  BY <1>2, <1>3, PlacedIs
<1>5. Numbered(count) = {}
  <2>1. \A b \in Slot : 1 .. count[b] = {}
    BY DEF BufferInit
  <2> QED BY <2>1, NumberedIs
<1>6. OncePlaced(recFile, Messages, Held, count)
  BY <1>2, <1>3, <1>4, <1>5, OncePlacedIs
<1>7. Blocked /\ AllFlushed(waitQueue)
  BY <1>1, <1>2 DEF BufferInit, Blocked, AllFlushed
<1> QED BY <1>6, <1>7 DEF Filing

LEMMA FilingStep == Streaming /\ Streaming' /\ Ending /\ Filing /\ [BufferNext]_bufferVars => Filing'
<1> SUFFICES ASSUME Streaming, Streaming', Ending, Filing, [BufferNext]_bufferVars PROVE Filing'
  OBVIOUS
<1>1. ASSUME NEW b \in Slot,
             \/ WriteFits(b) \/ WriteNowhere(b)
             \/ SubmitSwap(b) \/ SubmitAlone(b) \/ SubmitLast(b) \/ SubmitEmpty(b)
             \/ WriterStep(b) \/ Age(b)
      PROVE  Filing'
  BY <1>1, WriterFiles, SearchFiles DEF WriterStep, Searches
<1>2. CASE UNCHANGED bufferVars
  <2>1. UNCHANGED <<inbox, pipe, recFile, count, recs, block, writer, waitQueue, srvPc, ending, toVisit>>
    BY <1>2 DEF bufferVars, writerVars, threadSide
  <2>2. Messages' = Messages /\ \A b \in Slot : Saved(b)' <=> Saved(b)
    BY <2>1 DEF Messages, Saved
  <2> QED BY <2>1, <2>2, FilingKept DEF Filing
<1> QED BY <1>1, <1>2, DestroyFiles, ServerFiles DEF BufferNext

\* At the end nothing is left in a buffer or on its way.
LEMMA FilingSuffices == BuffersTyped /\ Ending /\ Filing => FileOnce
<1> SUFFICES ASSUME BuffersTyped, Ending, Filing, srvPc = "done"
             PROVE  Placed(recFile, Messages, Held) = RecordsIn(recFile)
  BY DEF FileOnce, Filing
<1>1. Messages = <<>> /\ \A b \in Slot : Held[b] = <<>>
  BY DEF Ending, Held, Saved
<1>2. DOMAIN <<>> = {}
  OBVIOUS
<1>3. RecordsIn(<<>>) = {} /\ Unfiled(<<>>) = {}
  BY <1>2 DEF RecordsIn, Unfiled
<1> SUFFICES ASSUME NEW r PROVE r \in Placed(recFile, Messages, Held) <=> r \in RecordsIn(recFile)
  OBVIOUS
<1> QED BY <1>1, <1>3, PlacedIs
-----------------------------------------------------------------------------
(* The buffers: the end of the node *)

EndsOffline(us) == us # <<>> /\ us[Len(us)].rec = Special("offline")

\* The end of the node waits behind everything else.
OfflineLast(q, e) ==
    \A i \in DOMAIN q : q[i].type = "NodeOffline" => e = "closing" /\ i = Len(q) /\ q[i].rs = <<Special("offline")>>

\* The center is told of the end of the node before the link ends.
OfflineWaits(q, us) ==
    /\ q # <<>> /\ q[Len(q)].type = "NodeOffline"
    /\ q[Len(q)].flushed => Len(q) = 1 /\ EndsOffline(us)

Parting ==
    /\ center => links > 0
    /\ OfflineLast(waitQueue, ending)
    /\ ending = "closing" /\ center => OfflineWaits(waitQueue, got \o output)
    /\ srvPc = "done" => waitQueue = <<>> /\ output = <<>>

LEMMA OfflineGrows ==
    ASSUME NEW q \in Seq(Message), NEW e, e # "closing", OfflineLast(q, e), NEW m \in Message, NEW e2,
           m.type = "NodeOffline" => e2 = "closing" /\ m.rs = <<Special("offline")>>
    PROVE  OfflineLast(Append(q, m), e2)
<1>1. /\ DOMAIN q = 1 .. Len(q) /\ DOMAIN Append(q, m) = 1 .. Len(q) + 1 /\ Len(q) \in Nat
      /\ Len(Append(q, m)) = Len(q) + 1
      /\ \A i \in 1 .. Len(q) : Append(q, m)[i] = q[i]
      /\ Append(q, m)[Len(q) + 1] = m
  <2> HIDE DEF Message
  <2> QED BY AppendedPlaces
<1>2. \A i \in 1 .. Len(q) + 1 : i \in 1 .. Len(q) \/ i = Len(q) + 1
  BY <1>1
<1> QED BY <1>1, <1>2 DEF OfflineLast

LEMMA OfflineShrinks ==
    ASSUME NEW q \in Seq(Message), NEW e, OfflineLast(q, e), q # <<>>
    PROVE  OfflineLast(Tail(q), e)
<1> DEFINE L == Len(q)
           t == Tail(q)
<1>1. /\ DOMAIN q = 1 .. L /\ DOMAIN t = 1 .. L - 1 /\ L \in Nat /\ Len(t) = L - 1
      /\ \A i \in 1 .. L - 1 : t[i] = q[i + 1]
  <2> HIDE DEF Message
  <2> QED BY HeadAndTail
<1> HIDE DEF L, t
<1>2. ASSUME NEW i \in 1 .. L - 1, t[i].type = "NodeOffline"
      PROVE  e = "closing" /\ i = L - 1 /\ t[i].rs = <<Special("offline")>>
  <2> DEFINE j == i + 1
  <2>1. j \in 1 .. L /\ t[i] = q[j] /\ (j = L => i = L - 1)
    BY <1>1
  <2> HIDE DEF j
  <2> QED BY <1>1, <1>2, <2>1 DEF OfflineLast, L
<1> QED BY <1>1, <1>2 DEF OfflineLast, t

LEMMA OfflineBehind ==
    ASSUME NEW q \in Seq(Message), NEW e, OfflineLast(q, e), NEW m \in Message, m.type # "NodeOffline",
           NEW r, r = <<m>> \o q
    PROVE  OfflineLast(r, e)
<1>1. /\ Len(q) \in Nat /\ DOMAIN q = 1 .. Len(q) /\ Len(r) = Len(q) + 1
      /\ r[1] = m /\ \A j \in 1 .. Len(q) : r[j + 1] = q[j]
      /\ \A i \in DOMAIN r : i = 1 \/ \E j \in DOMAIN q : i = j + 1
  <2>1. q \in Seq(Message) /\ m \in Message /\ r = <<m>> \o q
    OBVIOUS
  <2>2. PutBefore(r, m, q)
    BY ONLY <2>1, Behind
  <2> QED BY <2>2 DEF PutBefore
<1>2. ASSUME NEW i \in DOMAIN r, r[i].type = "NodeOffline"
      PROVE  e = "closing" /\ i = Len(r) /\ r[i].rs = <<Special("offline")>>
  <2>1. PICK j \in DOMAIN q : i = j + 1
    BY <1>1, <1>2
  <2>2. q[j].type = "NodeOffline" /\ r[i] = q[j]
    BY <1>1, <1>2, <2>1
  <2>3. e = "closing" /\ j = Len(q) /\ q[j].rs = <<Special("offline")>>
    BY <2>2 DEF OfflineLast
  <2> QED BY <1>1, <2>1, <2>2, <2>3
<1> QED BY <1>2 DEF OfflineLast

\* The first message is no end of the node: that is still behind it.
LEMMA OfflineStays ==
    ASSUME NEW q \in Seq(Message), NEW us, OfflineWaits(q, us), q[1].type # "NodeOffline",
           NEW r, NEW c \in Message, r = Tail(q) \/ r = <<c>> \o Tail(q), NEW vs
    PROVE  OfflineWaits(r, vs)
<1> DEFINE L == Len(q)
           t == Tail(q)
<1>1. /\ L \in Nat /\ L >= 1 /\ t \in Seq(Message) /\ Len(t) = L - 1
      /\ \A i \in 1 .. L - 1 : t[i] = q[i + 1]
  <2> HIDE DEF Message
  <2> QED BY HeadAndTail DEF OfflineWaits
<1>2. q[L].type = "NodeOffline" /\ ~q[L].flushed /\ L # 1
  BY DEF OfflineWaits
<1> HIDE DEF L, t
<1>3. L - 1 \in 1 .. L - 1 /\ (L - 1) + 1 = L
  BY <1>1, <1>2
<1>4. t[L - 1] = q[L] /\ t # <<>>
  <2>1. t[L - 1] = q[(L - 1) + 1]
    BY <1>1, <1>3
  <2>2. t # <<>>
    BY <1>1, <1>3
  <2> QED BY <1>3, <2>1, <2>2
<1>5. CASE r = t
  BY <1>1, <1>2, <1>4, <1>5 DEF OfflineWaits
<1>6. CASE r = <<c>> \o t
  <2>1. Len(r) = Len(t) + 1 /\ r # <<>> /\ \A j \in 1 .. Len(t) : r[j + 1] = t[j]
    <3>1. t \in Seq(Message) /\ c \in Message /\ r = <<c>> \o t
      BY <1>1, <1>6
    <3>2. PutBefore(r, c, t)
      BY ONLY <3>1, Behind
    <3> QED BY <3>2 DEF PutBefore
  <2>2. Len(r) = L /\ r[(L - 1) + 1] = t[L - 1]
    BY <1>1, <1>3, <2>1
  <2>3. r[L] = q[L]
    BY <1>3, <1>4, <2>2
  <2> QED BY <1>2, <2>1, <2>2, <2>3 DEF OfflineWaits
<1> QED BY <1>5, <1>6 DEF t
LEMMA PartingKept ==
    ASSUME Parting, UNCHANGED <<waitQueue, links, ending>>, center' => center /\ got' \o output' = got \o output,
           srvPc' = "done" => srvPc = "done" /\ output' = output
    PROVE  Parting'
BY DEF Parting

LEMMA WriterCloses ==
    ASSUME Parting, NEW b \in Slot,
           \/ WriteFits(b) \/ WriteNowhere(b)
           \/ SubmitSwap(b) \/ SubmitAlone(b) \/ SubmitLast(b) \/ SubmitEmpty(b)
           \/ WriterStep(b) \/ Age(b)
    PROVE  Parting'
<1>1. UNCHANGED <<center, output, got, links, waitQueue, srvPc, ending>>
  BY DEF WriteFits, WriteNowhere, SubmitSwap, SubmitAlone, SubmitLast, SubmitEmpty, WriterStep, GetBlock,
         Overrun, GetNone, DozeOff, WakeUp, Age, centerSide, threadSide
<1> QED BY <1>1, PartingKept

LEMMA AcceptMessageCloses == ASSUME BuffersTyped, Parting, NEW room \in BOOLEAN, AcceptMessage(room) PROVE Parting'
<1>1. srvPc' # "done" /\ UNCHANGED <<waitQueue, ending>>
  BY DEF AcceptMessage
<1>2. CASE UNCHANGED <<center, output, got, links>>
  BY <1>1, <1>2, PartingKept
<1>3. CASE ending # "closing" /\ links' = links + 1
  BY <1>1, <1>3 DEF Parting, BuffersTyped
<1>4. CASE CenterGone
  BY <1>1, <1>4, PartingKept DEF CenterGone
<1> QED BY <1>2, <1>3, <1>4 DEF AcceptMessage

\* A message that goes to wait_queue, before the end of the node.
LEMMA PartingGrows ==
    ASSUME BuffersTyped, Parting, NEW m \in Message, m.type # "NodeOffline", ending # "closing",
           waitQueue' = waitQueue \/ waitQueue' = Append(waitQueue, m), UNCHANGED <<center, links>>,
           ending' # "closing", srvPc' # "done"
    PROVE  Parting'
<1>1. waitQueue \in Seq(Message) /\ OfflineLast(waitQueue, ending)
  BY DEF BuffersTyped, Parting
<1>2. OfflineLast(waitQueue, ending')
  BY <1>1 DEF OfflineLast
<1>3. OfflineLast(waitQueue', ending')
  BY <1>1, <1>2, OfflineGrows
<1> QED BY <1>3 DEF Parting

\* clear_buffer, with the first message or instead of it.
LEMMA OfflineSends ==
    ASSUME NEW m \in Message, m.type # "NodeOffline", NEW stay \in Seq(Message), SendBuffer(m, stay),
           output \in Seq(HalfRec), Len(output) <= OutRoom, m.begin <= 2 * Len(m.rs)
    PROVE  \E c \in Message : /\ c.type # "NodeOffline"
                              /\ waitQueue' = stay \/ waitQueue' = <<c>> \o stay
<1>1. CASE center
  <2>1. PICK n \in Nat : SentPart(m, stay, n)
    BY <1>1, SendsPart
  <2>2. Shortened(m, n) \in Message /\ Shortened(m, n).type = m.type
    BY MessageFields, SMTT(30)
  <2>3. waitQueue' = stay \/ waitQueue' = <<Shortened(m, n)>> \o stay
    BY <2>1 DEF SentPart
  <2> QED BY <2>2, <2>3
<1>2. CASE ~center
  BY <1>2, SendsNothing
<1> QED BY <1>1, <1>2

LEMMA HandleLocalCloses == ASSUME Streaming, Ending, Parting, HandleLocal PROVE Parting'
<1>1. /\ BuffersTyped /\ StreamCut /\ waitQueue \in Seq(Message) /\ output \in Seq(HalfRec)
      /\ inbox \in Seq(PipeMessage) /\ inbox # <<>> /\ srvPc = "local" /\ UNCHANGED <<center, links>>
  BY DEF Streaming, BuffersTyped, HandleLocal
<1> DEFINE m == Head(inbox)
           c == Flushed(m)
<1>2. m \in PipeMessage
  BY <1>1, HeadAndTail
<1>3. c \in Message /\ c.begin = 0 /\ c.type # "NodeOffline" /\ c.rs \in Seq(Rec)
  BY <1>2, MessageFields
<1>4. ending # "closing" /\ ending' # "closing" /\ srvPc' # "done"
  BY <1>1 DEF Ending, HandleLocal
<1>5. \/ waitQueue' = waitQueue \/ waitQueue' = Append(waitQueue, c)
      \/ waitQueue = <<>> /\ SendBuffer(c, waitQueue)
  BY DEF HandleLocal, MaySend
<1> HIDE DEF m, c
<1>6. CASE waitQueue' = waitQueue \/ waitQueue' = Append(waitQueue, c)
  BY <1>1, <1>3, <1>4, <1>6, PartingGrows
<1>7. CASE waitQueue = <<>> /\ SendBuffer(c, waitQueue)
  <2>1. Len(output) <= OutRoom /\ c.begin <= 2 * Len(c.rs)
    <3>1. 0 <= 2 * Len(c.rs)
      BY <1>3
    <3> QED BY <1>1, <1>3, <3>1 DEF StreamCut
  <2>2. PICK e \in Message : e.type # "NodeOffline" /\ (waitQueue' = waitQueue \/ waitQueue' = <<e>> \o waitQueue)
    BY <1>1, <1>3, <1>7, <2>1, OfflineSends
  <2>3. <<e>> \o waitQueue = Append(waitQueue, e)
    BY <1>7
  <2> QED BY <1>1, <1>4, <2>2, <2>3, PartingGrows
<1> QED BY <1>5, <1>6, <1>7

LEMMA FlushCloses ==
    ASSUME Streaming, Ending, Parting, NEW b \in Slot, FlushTest(b) \/ FlushSlot(b) \/ SaveLog(b)
    PROVE  Parting'
<1>1. /\ BuffersTyped /\ recs[b] \in Seq(Rec) /\ UNCHANGED <<center, output, got, links, ending>>
      /\ srvPc \in {"flush", "lock", "close"} /\ srvPc' # "done"
  BY DEF Streaming, BuffersTyped, FlushTest, FlushSlot, SaveLog, centerSide
<1> DEFINE c == Flushed(ClearMessage(recs[b]))
<1>2. c \in Message /\ c.type # "NodeOffline"
  BY <1>1, FlushedClear
<1>3. waitQueue' = waitQueue \/ waitQueue' = Append(waitQueue, c)
  BY DEF FlushTest, FlushSlot, SaveLog, FlushOut
<1>4. ending # "closing"
  BY <1>1 DEF Ending
<1> HIDE DEF c
<1> QED BY <1>1, <1>2, <1>3, <1>4, PartingGrows

LEMMA CheckTimeoutCloses ==
    ASSUME Streaming, Ending, Parting, NEW due \in BOOLEAN, CheckTimeout2(due)
    PROVE  Parting'
<1>1. /\ BuffersTyped /\ UNCHANGED <<center, output, got, links, ending>> /\ srvPc = "flush" /\ srvPc' # "done"
      /\ waitQueue' = waitQueue \/ waitQueue' = Append(waitQueue, TimeOutMessage)
  BY DEF Streaming, CheckTimeout2, centerSide
<1> DEFINE c == TimeOutMessage
<1>2. c \in Message /\ c.type # "NodeOffline"
  BY MessagesMade
<1>3. ending # "closing"
  BY <1>1 DEF Ending
<1> HIDE DEF c
<1> QED BY <1>1, <1>2, <1>3, PartingGrows DEF c

LEMMA SendOutputCloses == ASSUME Streaming, Parting, NEW n \in 1 .. OutRoom, SendOutput(n) PROVE Parting'
<1>1. output \in Seq(HalfRec) /\ got \in Seq(HalfRec) /\ srvPc' # "done" /\ UNCHANGED <<waitQueue, ending>>
  BY DEF Streaming, BuffersTyped, SendOutput
<1>2. CASE n <= Len(output) /\ got' = got \o SubSeq(output, 1, n)
           /\ output' = SubSeq(output, n + 1, Len(output)) /\ UNCHANGED <<center, links>>
  <2>1. n \in 1 .. Len(output)
    BY <1>1, <1>2
  <2>2. got' \o output' = got \o output
    BY <1>1, <1>2, <2>1, OutputMoves, ZenonT(40)
  <2> QED BY <1>1, <1>2, <2>2, PartingKept
<1>3. CASE CenterGone
  BY <1>1, <1>3, PartingKept DEF CenterGone
<1>4. CASE UNCHANGED <<center, output, got, links>>
  BY <1>1, <1>4, PartingKept
<1> QED BY <1>2, <1>3, <1>4 DEF SendOutput

LEMMA DrainBufferCloses == ASSUME Streaming, Ending, Parting, DrainBuffer PROVE Parting'
<1>1. /\ BuffersTyped /\ StreamCut /\ waitQueue \in Seq(Message) /\ waitQueue # <<>> /\ output \in Seq(HalfRec)
      /\ UNCHANGED <<center, got, links, ending>> /\ srvPc' # "done"
  BY DEF Streaming, BuffersTyped, DrainBuffer
<1> DEFINE m == Head(waitQueue)
           c == Flushed(m)
           stay == Tail(waitQueue)
<1>2. m = waitQueue[1] /\ m \in Message /\ stay \in Seq(Message) /\ m.type = "ClearBuffer" /\ SendBuffer(c, stay)
  BY <1>1, HeadAndTail DEF DrainBuffer
<1>3. c \in Message /\ c.type = "ClearBuffer" /\ c.begin = m.begin /\ c.rs = m.rs
  BY <1>2, MessageFields
<1>4. c.begin <= 2 * Len(c.rs) /\ Len(output) <= OutRoom
  BY <1>1, <1>2, <1>3 DEF StreamCut
<1>5. OfflineLast(stay, ending)
  BY <1>1, OfflineShrinks DEF Parting
<1> HIDE DEF m, c
<1>6. PICK e \in Message : e.type # "NodeOffline" /\ (waitQueue' = stay \/ waitQueue' = <<e>> \o stay)
  <2> HIDE DEF stay
  <2> QED BY <1>1, <1>2, <1>3, <1>4, OfflineSends
<1>7. OfflineLast(waitQueue', ending)
  <2> HIDE DEF stay
  <2> QED BY <1>2, <1>5, <1>6, OfflineBehind
<1>8. ending = "closing" /\ center => OfflineWaits(waitQueue', got' \o output')
  BY <1>1, <1>2, <1>6, OfflineStays DEF Parting
<1> QED BY <1>1, <1>7, <1>8 DEF Parting

LEMMA DrainRecordCloses == ASSUME Streaming, Ending, Parting, DrainRecord PROVE Parting'
<1> DEFINE m == Head(waitQueue)
           c == IF Fits THEN Flushed(m) ELSE m
           stay == Tail(waitQueue)
           vs == output \o Halves2(m.rs)
<1>1. /\ BuffersTyped /\ waitQueue \in Seq(Message) /\ output \in Seq(HalfRec) /\ got \in Seq(HalfRec)
  BY DEF Streaming, BuffersTyped
<1>2. /\ UNCHANGED <<got, links, ending>> /\ srvPc' # "done" /\ waitQueue # <<>>
      /\ m \in Message /\ m.type \in {"TimeOut", "NodeOffline"}
      /\ \/ ~center /\ center' = center /\ waitQueue' = stay
         \/ center /\ m.type = "TimeOut" /\ center' = center /\ waitQueue' = stay
         \/ center' = center /\ output' = output /\ waitQueue' = waitQueue
         \/ ~center' /\ waitQueue' = stay
         \/ /\ center /\ m.type = "NodeOffline" /\ center' = center
            /\ output' = (IF Fits /\ ~m.flushed THEN vs ELSE output) /\ waitQueue' = <<c>> \o stay
  BY DrainRecordMoves
<1>3. m = waitQueue[1] /\ stay \in Seq(Message) /\ 1 \in DOMAIN waitQueue /\ Len(stay) = Len(waitQueue) - 1
  BY <1>1, <1>2, HeadAndTail
<1>4. OfflineLast(waitQueue, ending) /\ OfflineLast(stay, ending)
  BY <1>1, <1>2, OfflineShrinks DEF Parting
<1> HIDE DEF m, vs
<1>5. CASE waitQueue' = stay /\ ~center'
  BY <1>2, <1>4, <1>5 DEF Parting
<1>6. CASE center /\ m.type = "TimeOut" /\ center' = center /\ waitQueue' = stay
  <2>1. ending = "closing" => OfflineWaits(waitQueue', got' \o output')
    BY <1>2, <1>3, <1>6, OfflineStays, <1>1 DEF Parting
  <2> QED BY <1>2, <1>4, <1>6, <2>1 DEF Parting
<1>7. CASE center' = center /\ output' = output /\ waitQueue' = waitQueue
  BY <1>2, <1>7, PartingKept
<1>8. CASE center /\ m.type = "NodeOffline" /\ center' = center
           /\ output' = (IF Fits /\ ~m.flushed THEN vs ELSE output) /\ waitQueue' = <<c>> \o stay
  <2>1. ending = "closing" /\ Len(waitQueue) = 1 /\ m.rs = <<Special("offline")>>
    BY <1>3, <1>4, <1>8 DEF OfflineLast
  <2>2. stay = <<>>
    <3> HIDE DEF stay
    <3>1. stay \in Seq(Message) /\ Len(stay) = 0
      BY <1>3, <2>1
    <3> HIDE DEF Message
    <3> QED BY <3>1
  <2>3. c \in Message /\ c.type = "NodeOffline" /\ c.rs = m.rs /\ (c.flushed => m.flushed \/ Fits)
    BY <1>2, <1>8, MessageFields
  <2> HIDE DEF c, stay
  <2>4. waitQueue' = <<c>>
    BY <1>8, <2>2, <2>3
  <2>5. Len(waitQueue') = 1 /\ waitQueue'[1] = c /\ waitQueue' # <<>> /\ DOMAIN waitQueue' = 1 .. 1
    BY <2>4
  <2>6. c.flushed => EndsOffline(got' \o output')
    <3>1. CASE m.flushed
      <4>1. waitQueue[Len(waitQueue)] = m
        BY <1>3, <2>1
      <4>2. EndsOffline(got \o output)
        BY <1>8, <2>1, <3>1, <4>1 DEF Parting, OfflineWaits
      <4> QED BY <1>2, <1>8, <3>1, <4>2
    <3>2. CASE ~m.flushed /\ Fits
      <4> DEFINE H == Halves2(m.rs)
                 us == got \o output
      <4>1. m.rs \in Seq(Rec) /\ Len(m.rs) = 1 /\ m.rs[1] = Special("offline")
        <5>1. m.rs \in Seq(Rec)
          BY <1>2, MessageFields
        <5> QED BY <2>1, <5>1
      <4>2. H \in Seq(HalfRec) /\ Len(H) = 2 /\ H[2].rec = Special("offline")
        <5>1. H \in Seq(HalfRec) /\ Len(H) = 2 * Len(m.rs) /\ 2 * Len(m.rs) = 2
          <6>1. H \in Seq(HalfRec) /\ Len(H) = 2 * Len(m.rs)
            BY <4>1, HalvesAre DEF HalfRec
          <6>2. \A k : k = 1 => 2 * k = 2
            OBVIOUS
          <6>3. 2 * Len(m.rs) = 2
            BY <4>1, <6>2
          <6> QED BY <6>1, <6>3
        <5>2. 2 \in 1 .. 2 * Len(m.rs) /\ (2 + 1) \div 2 = 1
          BY <5>1
        <5>3. H[2].rec = m.rs[(2 + 1) \div 2]
          BY <4>1, <5>2, HalvesAre
        <5> QED BY <4>1, <5>1, <5>2, <5>3
      <4>3. us \in Seq(HalfRec)
        BY <1>1, JoinedPlaces
      <4>4. got' \o output' = us \o H
        <5>1. output' = output \o H /\ got' = got
          BY <1>2, <1>8, <3>2 DEF vs
        <5> HIDE DEF H
        <5>2. got \o (output \o H) = (got \o output) \o H
          <6>1. got \in Seq(HalfRec) /\ output \in Seq(HalfRec) /\ H \in Seq(HalfRec)
            BY <1>1, <4>2
          <6> QED BY ONLY <6>1, JoinTwice
        <5> QED BY <5>1, <5>2
      <4> HIDE DEF H, us
      <4>5. Len(us \o H) = Len(us) + 2 /\ (us \o H)[Len(us) + 2] = H[2] /\ us \o H # <<>>
        <5>1. 2 \in 1 .. Len(H)
          BY <4>2
        <5>2. Len(us) \in Nat /\ us \o H \in Seq(HalfRec) /\ Len(us \o H) = Len(us) + Len(H)
              /\ \A i \in 1 .. Len(H) : (us \o H)[Len(us) + i] = H[i]
          <6>1. us \in Seq(HalfRec) /\ H \in Seq(HalfRec)
            BY <4>2, <4>3
          <6>2. /\ Len(us) \in Nat /\ us \o H \in Seq(HalfRec) /\ Len(us \o H) = Len(us) + Len(H)
                /\ \A i \in 1 .. Len(H) : (us \o H)[Len(us) + i] = H[i]
            BY ONLY <6>1, JoinedPlaces
          <6> QED BY <6>2
        <5>3. (us \o H)[Len(us) + 2] = H[2]
          BY <5>1, <5>2
        <5> QED BY <4>2, <5>2, <5>3
      <4> QED BY <4>2, <4>4, <4>5 DEF EndsOffline
    <3> QED BY <2>3, <3>1, <3>2
  <2>7. OfflineLast(waitQueue', ending')
    BY <1>2, <2>1, <2>3, <2>5 DEF OfflineLast
  <2>8. OfflineWaits(waitQueue', got' \o output')
    BY <2>3, <2>5, <2>6 DEF OfflineWaits
  <2> QED BY <1>2, <1>8, <2>7, <2>8 DEF Parting
<1> QED BY <1>2, <1>5, <1>6, <1>7, <1>8

LEMMA CloseThreadCloses == ASSUME Streaming, Ending, Parting, CloseThread PROVE Parting'
<1>1. /\ BuffersTyped /\ waitQueue \in Seq(Message) /\ UNCHANGED <<center, output, got, links>>
      /\ srvPc = "close" /\ srvPc' = "update" /\ ending' = "closing"
      /\ IF center THEN waitQueue' = Append(waitQueue, OfflineMessage) ELSE waitQueue' = waitQueue
  BY DEF Streaming, BuffersTyped, CloseThread, centerSide
<1>2. ending # "closing" /\ OfflineLast(waitQueue, ending)
  BY <1>1 DEF Ending, Parting
<1> DEFINE c == OfflineMessage
<1>3. c \in Message /\ c.type = "NodeOffline" /\ c.rs = <<Special("offline")>> /\ ~c.flushed
  BY MessagesMade
<1> HIDE DEF c
<1>4. CASE ~center
  <2>1. OfflineLast(waitQueue', ending')
    BY <1>1, <1>2, <1>4 DEF OfflineLast
  <2> QED BY <1>1, <1>4, <2>1 DEF Parting
<1>5. CASE center
  <2>1. waitQueue' = Append(waitQueue, c)
    BY <1>1, <1>5 DEF c
  <2>2. OfflineLast(waitQueue', ending')
    BY <1>1, <1>2, <1>3, <2>1, OfflineGrows
  <2>3. Len(waitQueue') = Len(waitQueue) + 1 /\ waitQueue'[Len(waitQueue) + 1] = c /\ waitQueue' # <<>>
    <3> HIDE DEF Message
    <3> QED BY <1>1, <1>3, <2>1, AppendedPlaces
  <2>4. OfflineWaits(waitQueue', got' \o output')
    BY <1>3, <2>3 DEF OfflineWaits
  <2> QED BY <1>1, <1>5, <2>2, <2>4 DEF Parting
<1> QED BY <1>4, <1>5

LEMMA PartingStarts == BufferInit => Parting
<1>1. DOMAIN <<>> = {}
  OBVIOUS
<1> QED BY <1>1 DEF BufferInit, Parting, OfflineLast

LEMMA PartingStep == Streaming /\ Ending /\ Parting /\ [BufferNext]_bufferVars => Parting'
<1> SUFFICES ASSUME Streaming, Ending, Parting, [BufferNext]_bufferVars PROVE Parting'
  OBVIOUS
<1>1. BuffersTyped
  BY DEF Streaming
<1>2. ASSUME NEW b \in Slot,
             \/ WriteFits(b) \/ WriteNowhere(b)
             \/ SubmitSwap(b) \/ SubmitAlone(b) \/ SubmitLast(b) \/ SubmitEmpty(b)
             \/ WriterStep(b) \/ Age(b)
      PROVE  Parting'
  BY <1>2, WriterCloses
<1>3. CASE Destroy
  <2>1. UNCHANGED <<center, output, got, links, waitQueue, srvPc, ending>>
    BY <1>3 DEF Destroy, centerSide, threadSide
  <2> QED BY <2>1, PartingKept
<1>4. CASE ServerStep
  <2>1. CASE LocalOver
    BY <2>1, PartingKept DEF LocalOver, centerSide
  <2>2. CASE UpdateState
    <3>1. /\ UNCHANGED <<center, output, got, links, waitQueue, ending>>
          /\ srvPc' = "done" => waitQueue = <<>> /\ output = <<>>
      BY <2>2 DEF UpdateState
    <3> QED BY <3>1 DEF Parting
  <2> QED BY <1>1, <1>4, <2>1, <2>2, AcceptMessageCloses, HandleLocalCloses, FlushCloses, CheckTimeoutCloses,
             SendOutputCloses, DrainBufferCloses, DrainRecordCloses, CloseThreadCloses DEF ServerStep
<1>5. CASE UNCHANGED bufferVars
  BY <1>5, PartingKept DEF bufferVars, centerSide, threadSide
<1> QED BY <1>2, <1>3, <1>4, <1>5 DEF BufferNext
-----------------------------------------------------------------------------
(* The buffers: the way of a record to the center *)

InStream(us, r) == \E i \in DOMAIN us : us[i] = Half(r, 2)

\* A record of a message that has not all gone out.
Left(m, r) == m.type = "ClearBuffer" /\ \E k \in DOMAIN m.rs : m.rs[k] = r /\ 2 * k > m.begin

InQueue(q, r) == \E i \in DOMAIN q : Left(q[i], r)

InPipe(ms, r) == \E i \in DOMAIN ms : ms[i].type = "ClearBuffer" /\ r \in RecordsIn(ms[i].rs)

InBuffer(h, r) == \E b \in Slot : r \in RecordsIn(h[b])

\* A record has gone or goes to the center, or it waits for the thread.
Goes(r) == InStream(got \o output, r) \/ InQueue(waitQueue, r)
Waits(r) == InPipe(Messages, r) \/ InBuffer(Held, r)
OnWay(r) == Goes(r) \/ Waits(r)

LEMMA StreamGrows ==
    ASSUME NEW us \in Seq(HalfRec), NEW vs \in Seq(HalfRec), NEW r, InStream(us, r) \/ InStream(vs, r)
    PROVE  InStream(us \o vs, r)
<1>1. /\ Len(us) \in Nat /\ Len(vs) \in Nat /\ DOMAIN us = 1 .. Len(us) /\ DOMAIN vs = 1 .. Len(vs)
      /\ DOMAIN (us \o vs) = 1 .. Len(us) + Len(vs)
      /\ \A i \in 1 .. Len(us) : (us \o vs)[i] = us[i]
      /\ \A i \in 1 .. Len(vs) : (us \o vs)[Len(us) + i] = vs[i]
  BY JoinedPlaces
<1>2. /\ \A i \in 1 .. Len(us) : i \in 1 .. Len(us) + Len(vs)
      /\ \A i \in 1 .. Len(vs) : Len(us) + i \in 1 .. Len(us) + Len(vs)
  BY <1>1
<1> QED BY <1>1, <1>2 DEF InStream

LEMMA QueueGrows ==
    ASSUME NEW q \in Seq(Message), NEW m \in Message, NEW r, InQueue(q, r) \/ Left(m, r)
    PROVE  InQueue(Append(q, m), r)
<1>1. /\ Len(q) \in Nat /\ DOMAIN q = 1 .. Len(q) /\ DOMAIN Append(q, m) = 1 .. Len(q) + 1
      /\ \A i \in 1 .. Len(q) : Append(q, m)[i] = q[i]
      /\ Append(q, m)[Len(q) + 1] = m
  <2> HIDE DEF Message
  <2> QED BY AppendedPlaces
<1>2. /\ \A i \in 1 .. Len(q) : i \in 1 .. Len(q) + 1
      /\ Len(q) + 1 \in 1 .. Len(q) + 1
  BY <1>1
<1> QED BY <1>1, <1>2 DEF InQueue

LEMMA QueueShrinks ==
    ASSUME NEW q \in Seq(Message), q # <<>>, NEW r, InQueue(q, r), ~Left(q[1], r)
    PROVE  InQueue(Tail(q), r)
<1>1. /\ Len(q) \in Nat /\ DOMAIN q = 1 .. Len(q) /\ DOMAIN Tail(q) = 1 .. Len(q) - 1
      /\ \A i \in 1 .. Len(q) - 1 : Tail(q)[i] = q[i + 1]
  <2> HIDE DEF Message
  <2> QED BY HeadAndTail
<1>2. PICK i \in 1 .. Len(q) : Left(q[i], r)
  BY <1>1 DEF InQueue
<1> DEFINE j == i - 1
<1>3. j \in 1 .. Len(q) - 1 /\ j + 1 = i
  <2>1. i # 1
    BY <1>2
  <2> QED BY <1>1, <2>1
<1> HIDE DEF j
<1>4. Tail(q)[j] = q[i]
  BY <1>1, <1>3
<1> QED BY <1>1, <1>2, <1>3, <1>4 DEF InQueue

LEMMA QueueBehind ==
    ASSUME NEW q \in Seq(Message), NEW m \in Message, NEW z, z = <<m>> \o q, NEW r, InQueue(q, r) \/ Left(m, r)
    PROVE  InQueue(z, r)
<1>1. PutBefore(z, m, q)
  <2>1. q \in Seq(Message) /\ m \in Message /\ z = <<m>> \o q
    OBVIOUS
  <2> QED BY ONLY <2>1, Behind
<1>2. /\ Len(q) \in Nat /\ DOMAIN q = 1 .. Len(q) /\ DOMAIN z = 1 .. Len(q) + 1
      /\ z[1] = m /\ \A j \in 1 .. Len(q) : z[j + 1] = q[j]
  BY <1>1 DEF PutBefore
<1>3. 1 \in 1 .. Len(q) + 1 /\ \A j \in 1 .. Len(q) : j + 1 \in 1 .. Len(q) + 1
  BY <1>2
<1> QED BY <1>2, <1>3 DEF InQueue

LEMMA PipeGrows ==
    ASSUME NEW q \in Seq(PipeMessage), NEW m \in PipeMessage, NEW r,
           InPipe(q, r) \/ (m.type = "ClearBuffer" /\ r \in RecordsIn(m.rs))
    PROVE  InPipe(Append(q, m), r)
<1>1. /\ Len(q) \in Nat /\ DOMAIN q = 1 .. Len(q) /\ DOMAIN Append(q, m) = 1 .. Len(q) + 1
      /\ \A i \in 1 .. Len(q) : Append(q, m)[i] = q[i]
      /\ Append(q, m)[Len(q) + 1] = m
  <2> HIDE DEF PipeMessage
  <2> QED BY AppendedPlaces
<1>2. /\ \A i \in 1 .. Len(q) : i \in 1 .. Len(q) + 1
      /\ Len(q) + 1 \in 1 .. Len(q) + 1
  BY <1>1
<1> QED BY <1>1, <1>2 DEF InPipe

LEMMA PipeShrinks ==
    ASSUME NEW q \in Seq(PipeMessage), q # <<>>, NEW r, InPipe(q, r),
           ~(q[1].type = "ClearBuffer" /\ r \in RecordsIn(q[1].rs))
    PROVE  InPipe(Tail(q), r)
<1>1. /\ Len(q) \in Nat /\ DOMAIN q = 1 .. Len(q) /\ DOMAIN Tail(q) = 1 .. Len(q) - 1
      /\ \A i \in 1 .. Len(q) - 1 : Tail(q)[i] = q[i + 1]
  <2> HIDE DEF PipeMessage
  <2> QED BY HeadAndTail
<1>2. PICK i \in 1 .. Len(q) : q[i].type = "ClearBuffer" /\ r \in RecordsIn(q[i].rs)
  BY <1>1 DEF InPipe
<1> DEFINE j == i - 1
<1>3. j \in 1 .. Len(q) - 1 /\ j + 1 = i
  <2>1. i # 1
    BY <1>2
  <2> QED BY <1>1, <2>1
<1> HIDE DEF j
<1>4. Tail(q)[j] = q[i]
  BY <1>1, <1>3
<1> QED BY <1>1, <1>2, <1>3, <1>4 DEF InPipe

\* All records of a message that begins to go out are left.
LEMMA AllLeft ==
    ASSUME NEW m \in Message, m.type = "ClearBuffer", m.begin = 0, NEW r, r \in RecordsIn(m.rs)
    PROVE  Left(m, r)
<1>1. m.rs \in Seq(Rec)
  BY MessageFields
<1>2. PICK k \in DOMAIN m.rs : m.rs[k] = r
  BY DEF RecordsIn
<1>3. 2 * k > 0
  BY <1>1
<1> QED BY <1>2, <1>3 DEF Left

\* clear_buffer: what is left of the message either goes out or is still left.
LEMMA LeftSends ==
    ASSUME center, NEW m \in Message, NEW stay \in Seq(Message), SendBuffer(m, stay), m.begin <= 2 * Len(m.rs),
           output \in Seq(HalfRec), Len(output) <= OutRoom, got \in Seq(HalfRec),
           NEW r, InStream(got \o output, r) \/ InQueue(stay, r) \/ Left(m, r)
    PROVE  InStream(got \o output', r) \/ InQueue(waitQueue', r)
<1>1. PICK n \in Nat : SentPart(m, stay, n)
  BY SendsPart
<1>2. /\ m.rs \in Seq(Rec) /\ m.begin \in Nat
      /\ Shortened(m, n) \in Message /\ Shortened(m, n).begin = m.begin + n
      /\ Shortened(m, n).rs = m.rs /\ Shortened(m, n).type = m.type
  <2>1. m.rs \in Seq(Rec) /\ m.begin \in Nat
    BY ONLY m \in Message, MessageFields
  <2>2. Shortened(m, n) \in Message /\ Shortened(m, n).begin = m.begin + n
    BY ONLY m \in Message, n \in Nat, MessageFields
  <2>3. Shortened(m, n).rs = m.rs /\ Shortened(m, n).type = m.type
    BY ONLY m \in Message, n \in Nat, MessageFields
  <2> QED BY <2>1, <2>2, <2>3
<1>3. Halves2(m.rs) \in Seq(HalfRec) /\ Len(Halves2(m.rs)) = 2 * Len(m.rs)
      /\ \A i \in 1 .. 2 * Len(m.rs) : Halves2(m.rs)[i] = Half(m.rs[(i + 1) \div 2], IF i % 2 = 1 THEN 1 ELSE 2)
  BY <1>2, HalvesAre DEF HalfRec
<1>4. Len(m.rs) \in Nat /\ DOMAIN m.rs = 1 .. Len(m.rs)
  BY <1>2
<1> DEFINE H == Halves2(m.rs)
           k == m.begin
           p == SubSeq(H, k + 1, k + n)
           us == got \o output
           c == Shortened(m, n)
           l == Len(m.rs)
           L == 2 * l
<1>5. k + n <= L /\ output' = output \o p /\ waitQueue' = IF k + n < L THEN <<c>> \o stay ELSE stay
  BY <1>1 DEF SentPart
<1> HIDE DEF H, c, k, l
<1>6. /\ m.rs \in Seq(Rec) /\ k \in Nat /\ c \in Message /\ c.begin = k + n /\ c.rs = m.rs /\ c.type = m.type
       /\ l \in Nat /\ DOMAIN m.rs = 1 .. l
  BY <1>2, <1>4 DEF c, k, l
<1>7. /\ H \in Seq(HalfRec) /\ Len(H) = L /\ L \in Nat
       /\ \A i \in 1 .. L : H[i] = Half(m.rs[(i + 1) \div 2], IF i % 2 = 1 THEN 1 ELSE 2)
  <2>1. L \in Nat
    BY <1>6
  <2> QED BY <1>3, <2>1 DEF H, l
<1>8. p \in Seq(HalfRec) /\ Len(p) = n /\ \A i \in 1 .. n : p[i] = H[k + i]
  <2>1. n \in Nat /\ k \in Nat /\ L \in Nat /\ k + n <= L /\ H \in Seq(HalfRec) /\ Len(H) = L
    BY <1>6, <1>7, <1>5
  <2> HIDE DEF L
  <2>2. k + n <= Len(H)
    BY <2>1
  <2> QED BY ONLY <2>1, <2>2, PiecePlaces
<1> HIDE DEF p
<1>9. us \in Seq(HalfRec) /\ got \o output' = us \o p
  <2>1. got \in Seq(HalfRec) /\ output \in Seq(HalfRec) /\ p \in Seq(HalfRec)
    BY <1>8
  <2>2. got \o (output \o p) = (got \o output) \o p
    BY ONLY <2>1, JoinTwice
  <2>3. got \o output \in Seq(HalfRec)
    BY ONLY <2>1, JoinedPlaces
  <2> QED BY <1>5, <2>2, <2>3
<1> HIDE DEF us
<1>10. CASE InStream(us, r)
  BY <1>8, <1>9, <1>10, StreamGrows
<1>11. CASE InQueue(stay, r)
  BY <1>6, <1>5, <1>11, QueueBehind
<1>12. CASE Left(m, r)
  <2>1. PICK i \in 1 .. l : m.rs[i] = r /\ 2 * i > k /\ m.type = "ClearBuffer"
    BY <1>6, <1>12 DEF Left, k
  <2> DEFINE x == 2 * i
             y == x - k
  <2>2. x \in 1 .. L /\ (x + 1) \div 2 = i /\ x % 2 # 1 /\ x > k
    <3>1. i \in Nat /\ i >= 1 /\ i <= l
      BY <1>6, <2>1
    <3>2. x \in 1 .. L
      BY <1>6, <3>1
    <3>3. \A z \in Nat : (2 * z + 1) \div 2 = z /\ (2 * z) % 2 # 1
      OBVIOUS
    <3>4. (2 * i + 1) \div 2 = i /\ (2 * i) % 2 # 1
      BY <3>1, <3>3
    <3> QED BY <2>1, <3>2, <3>4
  <2>3. y \in Nat /\ y >= 1 /\ k + y = x /\ (y \in 1 .. n <=> x <= k + n) /\ (x > k + n => k + n < L)
    <3> HIDE DEF L, x
    <3> QED BY <1>6, <1>7, <2>2
  <2>4. CASE y \in 1 .. n
    <3> HIDE DEF L, y
    <3>1. p[y] = H[x]
      <4> HIDE DEF x
      <4> QED BY <1>8, <2>3, <2>4
    <3>2. H[x] = Half(r, 2)
      <4> HIDE DEF x
      <4>1. H[x] = Half(m.rs[(x + 1) \div 2], IF x % 2 = 1 THEN 1 ELSE 2)
        BY <1>7, <2>2
      <4> QED BY <2>1, <2>2, <4>1
    <3>3. y \in DOMAIN p
      BY <1>8, <2>4
    <3> HIDE DEF x
    <3>4. InStream(p, r)
      BY <3>1, <3>2, <3>3 DEF InStream
    <3> QED BY <1>8, <1>9, <3>4, StreamGrows
  <2>5. CASE y \notin 1 .. n
    <3>1. k + n < L /\ 2 * i > k + n
      <4>1. ~(x <= k + n) /\ x \in Nat /\ k + n \in Nat
        <5> HIDE DEF L, x, y
        <5> QED BY <1>6, <2>2, <2>3, <2>5
      <4>2. x > k + n
        <5> HIDE DEF x
        <5> QED BY <4>1
      <4> QED BY <2>3, <4>2
    <3>2. Left(c, r)
      <4>1. c.rs = m.rs /\ c.begin = k + n /\ c.type = "ClearBuffer" /\ i \in DOMAIN c.rs
        BY <1>6, <2>1
      <4> QED BY <2>1, <3>1, <4>1 DEF Left
    <3> QED BY <1>6, <1>5, <3>1, <3>2, QueueBehind
  <2> QED BY <2>4, <2>5
<1> QED BY <1>10, <1>11, <1>12 DEF us
-----------------------------------------------------------------------------
(* The buffers: a center that was there all the time *)

\* A center that was there at every write and never lost gets every record: none was
\* written before it came, and it goes only after the end of the node.
Sending ==
    /\ faithful /\ links = 0 => \A b \in Slot : count[b] = 0
    /\ faithful /\ links > 0 /\ ~center => ending = "closing" /\ waitQueue = <<>> /\ EndsOffline(got)
    /\ faithful /\ links > 0 => \A r \in Numbered(count) : OnWay(r)

LEMMA SendingLost == ASSUME ~faithful' PROVE Sending'
BY DEF Sending

\* A step with a center.
LEMMA SendingMoves ==
    ASSUME Sending, Parting, center, UNCHANGED <<center, links>>, faithful' => faithful,
           \A r \in Numbered(count') : r \in Numbered(count) \/ Waits(r)', \A r : OnWay(r) => OnWay(r)'
    PROVE  Sending'
<1>1. links > 0
  BY DEF Parting
<1>2. ASSUME faithful', links' > 0, NEW r \in Numbered(count') PROVE OnWay(r)'
  BY <1>1, <1>2 DEF Sending, OnWay
<1>3. links' # 0
  BY <1>1
<1> QED BY <1>2, <1>3 DEF Sending

\* A step that moves no record out of reach.
LEMMA SendingKept ==
    ASSUME Sending, UNCHANGED <<center, links, faithful, count, ending, waitQueue, got>>,
           \A r : OnWay(r) => OnWay(r)'
    PROVE  Sending'
BY DEF Sending

\* A step before the first center.
LEMMA SendingWaits ==
    ASSUME Sending, ~center, ending # "closing" \/ waitQueue # <<>>, links \in Nat,
           UNCHANGED <<links, faithful, count>>
    PROVE  Sending'
<1>1. faithful => ~(links > 0)
  BY DEF Sending
<1>2. faithful => links = 0
  BY <1>1
<1> QED BY <1>1, <1>2 DEF Sending

LEMMA WayMoves ==
    ASSUME \A r : Goes(r) => Goes(r)', \A r : Waits(r) => OnWay(r)'
    PROVE  \A r : OnWay(r) => OnWay(r)'
BY DEF OnWay

\* What is in the stream and in wait_queue stays there.
LEMMA GoesKept == ASSUME got' \o output' = got \o output, waitQueue' = waitQueue PROVE \A r : Goes(r) => Goes(r)'
BY DEF Goes

LEMMA WaitsKept == ASSUME Messages' = Messages, Held' = Held PROVE \A r : Waits(r) => Waits(r)'
BY DEF Waits

\* A message goes to the end of wait_queue.
LEMMA GoesGrows ==
    ASSUME waitQueue \in Seq(Message), NEW m \in Message, waitQueue' = Append(waitQueue, m), UNCHANGED <<got, output>>
    PROVE  /\ \A r : Goes(r) => Goes(r)'
           /\ \A r : Left(m, r) => Goes(r)'
<1>1. \A r : InQueue(waitQueue, r) \/ Left(m, r) => InQueue(waitQueue', r)
  BY QueueGrows
<1> QED BY <1>1 DEF Goes

\* The records of the buffers after one of them was emptied.
LEMMA BufferEmptied ==
    ASSUME NEW h, h \in [Slot -> Seq(Rec)], NEW b \in Slot, NEW h2, h2 = [h EXCEPT ![b] = <<>>],
           NEW r, InBuffer(h, r)
    PROVE  InBuffer(h2, r) \/ r \in RecordsIn(h[b])
BY DEF InBuffer

LEMMA CopyNumbered ==
    ASSUME BuffersTyped, NEW b \in Slot, NEW s, CopyTo(b, s), NEW r \in Numbered(count')
    PROVE  r \in Numbered(count) \/ r = NewRec(b)
<1>1. count \in [Slot -> Nat] /\ count' = [count EXCEPT ![b] = count[b] + 1]
  BY DEF BuffersTyped, CopyTo
<1>2. PICK c \in Slot : \E k \in 1 .. count'[c] : r = [slot |-> c, n |-> k]
  BY NumberedIs
<1>3. PICK k \in 1 .. count'[c] : r = [slot |-> c, n |-> k]
  BY <1>2
<1>4. CASE k \in 1 .. count[c]
  BY <1>3, <1>4, NumberedIs
<1>5. CASE k \notin 1 .. count[c]
  <2>1. c = b /\ k = count[b] + 1
    BY <1>1, <1>3, <1>5
  <2> QED BY <1>3, <2>1 DEF NewRec
<1> QED BY <1>4, <1>5

LEMMA CopyBuffers ==
    ASSUME BuffersTyped, NEW b \in Slot, NEW s \in Seq(Rec), CopyTo(b, s)
    PROVE  /\ InBuffer(recs', NewRec(b))
           /\ \A r : InBuffer(recs, r) => InBuffer(recs', r) \/ r \in RecordsIn(recs[b])
           /\ \A r \in RecordsIn(s) : InBuffer(recs', r)
<1> DEFINE x == NewRec(b)
<1>1. recs \in [Slot -> Seq(Rec)] /\ recs' = [recs EXCEPT ![b] = Append(s, x)] /\ x \in Rec
  BY NewRecTyped DEF BuffersTyped, CopyTo
<1> HIDE DEF x
<1>2. recs'[b] = Append(s, x) /\ \A c \in Slot : c # b => recs'[c] = recs[c]
  BY <1>1
<1>3. RecordsIn(recs'[b]) = RecordsIn(s) \cup {x}
  BY <1>1, <1>2, AppendedMembers
<1>4. InBuffer(recs', x) /\ \A r \in RecordsIn(s) : InBuffer(recs', r)
  BY <1>3 DEF InBuffer
<1>5. \A r : InBuffer(recs, r) => InBuffer(recs', r) \/ r \in RecordsIn(recs[b])
  BY <1>2 DEF InBuffer
<1> QED BY <1>4, <1>5 DEF x

LEMMA WriterSends ==
    ASSUME Streaming, Streaming', Ending, Filing, Parting, Sending, NEW b \in Slot,
           WriteFits(b) \/ SubmitSwap(b) \/ SubmitAlone(b) \/ SubmitLast(b) \/ GetBlock(b)
    PROVE  Sending'
<1>1. /\ BuffersTyped /\ BuffersTyped' /\ Blocked /\ recs \in [Slot -> Seq(Rec)] /\ recs[b] \in Seq(Rec)
      /\ Messages \in Seq(PipeMessage) /\ <<>> \in Seq(Rec) /\ DOMAIN <<>> = {}
  <2>1. BuffersTyped /\ BuffersTyped' /\ Blocked
    BY DEF Streaming, Filing
  <2>2. Messages \in Seq(PipeMessage) /\ recs \in [Slot -> Seq(Rec)] /\ recs[b] \in Seq(Rec)
    BY <2>1, MessagesTyped DEF BuffersTyped
  <2> QED BY <2>1, <2>2
<1>2. ~destroying
  <2>1. GetBlock(b) => writer[b] # Nobody
    BY DEF GetBlock, Nobody
  <2> QED BY <2>1 DEF Ending, WriteFits, SubmitSwap, SubmitAlone, SubmitLast, Enter, Comes
<1>3. UNCHANGED <<inbox, waitQueue, srvPc, ending, got, output, center, links>> /\ srvPc # "close" /\ ending # "closing"
  BY <1>2 DEF Ending, WriteFits, SubmitSwap, SubmitAlone, SubmitLast, GetBlock, threadSide, centerSide
<1>4. Held = recs /\ Held' = recs'
  BY <1>1, <1>3, NoneSaved
<1>5. \A r : Goes(r) => Goes(r)'
  BY <1>3, GoesKept
\* The record is written where the others stay, or leave with a message.
<1>6. ASSUME center, NEW s \in Seq(Rec), CopyTo(b, s),
             \A r : InPipe(Messages, r) => InPipe(Messages', r),
             \A r \in RecordsIn(recs[b]) : r \in RecordsIn(s) \/ InPipe(Messages', r)
      PROVE  Sending'
  <2>1. /\ InBuffer(recs', NewRec(b))
        /\ \A r : InBuffer(recs, r) => InBuffer(recs', r) \/ r \in RecordsIn(recs[b])
        /\ \A r \in RecordsIn(s) : InBuffer(recs', r)
    BY <1>1, <1>6, CopyBuffers
  <2>2. \A r : Waits(r) => Waits(r)'
    BY <1>4, <1>6, <2>1 DEF Waits
  <2>3. \A r : r = NewRec(b) => OnWay(r)'
    BY <1>4, <2>1 DEF Waits, OnWay
  <2>4. \A r : OnWay(r) => OnWay(r)'
    BY <1>5, <2>2 DEF OnWay
  <2>5. \A r \in Numbered(count') : r \in Numbered(count) \/ r = NewRec(b)
    BY <1>1, <1>6, CopyNumbered
  <2>6. \A r \in Numbered(count') : faithful' /\ links' > 0 => OnWay(r)'
    <3>1. faithful' => faithful
      BY <1>6 DEF CopyTo
    <3>2. links > 0
      BY <1>6 DEF Parting
    <3> QED BY <2>3, <2>4, <2>5, <3>1, <3>2 DEF Sending
  <2>7. center' /\ links' # 0
    <3>1. links > 0
      BY <1>6 DEF Parting
    <3> QED BY <1>3, <1>6, <3>1
  <2> QED BY <2>6, <2>7 DEF Sending
<1>7. ASSUME ~center, NEW s, CopyTo(b, s) PROVE Sending'
  BY <1>7, SendingLost DEF CopyTo
<1>8. RecordsIn(<<>>) = {}
  BY <1>1 DEF RecordsIn
<1>9. CASE WriteFits(b)
  <2>1. CopyTo(b, recs[b]) /\ Messages' = Messages
    BY <1>9 DEF WriteFits, Messages
  <2> QED BY <1>1, <1>6, <1>7, <2>1
<1>10. CASE SubmitSwap(b)
  <2> DEFINE m == ClearMessage(recs[b])
  <2>1. CopyTo(b, <<>>) /\ pipe' = Append(pipe, m)
    BY <1>10 DEF SubmitSwap
  <2>2. m \in PipeMessage /\ m.type = "ClearBuffer" /\ m.rs = recs[b]
    BY <1>1, MessagesMade
  <2> HIDE DEF m
  <2>3. Messages' = Append(Messages, m)
    BY <1>1, <1>3, <2>1, <2>2, MessageSent
  <2>4. \A r : InPipe(Messages, r) \/ r \in RecordsIn(recs[b]) => InPipe(Messages', r)
    BY <1>1, <2>2, <2>3, PipeGrows
  <2> QED BY <1>1, <1>6, <1>7, <2>1, <2>4
<1>11. CASE SubmitAlone(b)
  BY <1>7, <1>11 DEF SubmitAlone
<1>12. CASE SubmitLast(b)
  <2> DEFINE m == Flushed(ClearMessage(recs[b]))
  <2>1. /\ pipe' = Append(pipe, m) /\ count' = count /\ recs' = [recs EXCEPT ![b] = <<>>]
        /\ faithful' = faithful
    BY <1>12 DEF SubmitLast, centerSide
  <2>2. m \in PipeMessage /\ m.type = "ClearBuffer" /\ m.rs = recs[b]
    BY <1>1, FlushedClear
  <2> HIDE DEF m
  <2>3. Messages' = Append(Messages, m)
    BY <1>1, <1>3, <2>1, <2>2, MessageSent
  <2>4. \A r : InPipe(Messages, r) \/ r \in RecordsIn(recs[b]) => InPipe(Messages', r)
    BY <1>1, <2>2, <2>3, PipeGrows
  <2>5. \A r : InBuffer(recs, r) => InBuffer(recs', r) \/ r \in RecordsIn(recs[b])
    BY <1>1, <2>1, BufferEmptied
  <2>6. \A r : Waits(r) => Waits(r)'
    BY <1>4, <2>4, <2>5 DEF Waits
  <2> QED BY <1>3, <1>5, <2>1, <2>6, WayMoves, SendingKept DEF OnWay
<1>13. CASE GetBlock(b)
  <2>1. CopyTo(b, recs[b]) /\ Messages' = Messages
    BY <1>13 DEF GetBlock, Messages
  <2> QED BY <1>1, <1>6, <1>7, <2>1
<1> QED BY <1>9, <1>10, <1>11, <1>12, <1>13

LEMMA WriterSearchSends ==
    ASSUME Sending, NEW b \in Slot, Searches(b)
    PROVE  Sending'
<1>1. UNCHANGED <<recs, inbox, pipe, waitQueue, srvPc, ending, toVisit, got, output, center, links, faithful, count>>
  BY SearchUnchanged
<1>2. Messages' = Messages /\ Held' = Held
  BY <1>1 DEF Messages, Held, Saved
<1>3. \A r : OnWay(r) => OnWay(r)'
  BY <1>1, <1>2, GoesKept, WaitsKept DEF OnWay
<1> QED BY <1>1, <1>3, SendingKept

LEMMA DestroySends == ASSUME Streaming, Sending, Destroy PROVE Sending'
<1>1. /\ BuffersTyped /\ ShutDownMessage \in PipeMessage /\ pipe' = Append(pipe, ShutDownMessage)
      /\ UNCHANGED <<recs, inbox, waitQueue, srvPc, ending, toVisit, got, output, center, links, faithful, count>>
  BY MessagesMade DEF Streaming, Destroy, writerVars, threadSide, centerSide
<1> DEFINE m == ShutDownMessage
<1> HIDE DEF m
<1>2. Messages' = Append(Messages, m) /\ Messages \in Seq(PipeMessage) /\ m \in PipeMessage
  BY <1>1, MessageSent, MessagesTyped DEF m
<1>3. \A r : InPipe(Messages, r) => InPipe(Messages', r)
  BY <1>2, PipeGrows
<1>4. Held' = Held
  BY <1>1 DEF Held, Saved
<1>5. \A r : Goes(r) => Goes(r)'
  BY <1>1, GoesKept
<1>6. \A r : Waits(r) => Waits(r)'
  BY <1>3, <1>4 DEF Waits
<1>7. \A r : OnWay(r) => OnWay(r)'
  BY <1>5, <1>6 DEF OnWay
<1> QED BY <1>1, <1>7, SendingKept

LEMMA AcceptMessageSends ==
    ASSUME Streaming, Sending, NEW room \in BOOLEAN, AcceptMessage(room)
    PROVE  Sending'
<1>1. /\ BuffersTyped /\ inbox' = inbox \o pipe /\ pipe' = <<>> /\ links \in Nat
      /\ UNCHANGED <<recs, waitQueue, ending, toVisit, count>>
      /\ srvPc # "close" /\ srvPc' # "close"
  BY DEF Streaming, BuffersTyped, AcceptMessage, writerVars
<1>2. CASE UNCHANGED <<center, output, got, links, faithful>>
  <2>1. Messages' = Messages /\ Held' = Held
    <3>1. Messages' = Messages
      BY <1>1, MessagesMoved
    <3> QED BY <1>1, <3>1 DEF Held, Saved
  <2>2. \A r : OnWay(r) => OnWay(r)'
    BY <1>1, <1>2, <2>1, GoesKept, WaitsKept DEF OnWay
  <2> QED BY <1>1, <1>2, <2>2, SendingKept
<1>3. CASE ~center /\ ending # "closing" /\ center' = TRUE /\ links' = links + 1 /\ faithful' = faithful
  <2>1. faithful => links = 0
    BY <1>1, <1>3 DEF Sending
  <2>2. faithful => \A b \in Slot : count[b] = 0
    BY <2>1 DEF Sending
  <2>3. faithful => Numbered(count) = {}
    <3>1. faithful => \A b \in Slot : 1 .. count[b] = {}
      BY <2>2
    <3> QED BY <3>1, NumberedIs
  <2> QED BY <1>1, <1>3, <2>2, <2>3 DEF Sending
<1>4. CASE CenterGone
  BY <1>4, SendingLost DEF CenterGone
<1> QED BY <1>2, <1>3, <1>4 DEF AcceptMessage

LEMMA HandleLocalSends == ASSUME Streaming, Ending, Sending, HandleLocal PROVE Sending'
<1>1. /\ BuffersTyped /\ StreamCut /\ waitQueue \in Seq(Message) /\ output \in Seq(HalfRec) /\ got \in Seq(HalfRec)
      /\ inbox # <<>> /\ inbox' = Tail(inbox) /\ pipe' = pipe /\ srvPc = "local" /\ links \in Nat
      /\ UNCHANGED <<recs, center, got, links, faithful, count>>
  BY DEF Streaming, BuffersTyped, HandleLocal
<1> DEFINE m == Head(inbox)
           c == Flushed(m)
<1>2. /\ Messages \in Seq(PipeMessage) /\ Messages # <<>> /\ Messages' = Tail(Messages) /\ Messages[1] = m
      /\ m \in PipeMessage
  <2>1. Messages \in Seq(PipeMessage) /\ Messages # <<>> /\ Messages' = Tail(Messages) /\ Messages[1] = m
        /\ Head(Messages) = m
    BY <1>1, MessagesTyped, MessageTaken
  <2> HIDE DEF m, PipeMessage
  <2>2. Head(Messages) \in PipeMessage
    BY <2>1, HeadAndTail
  <2> QED BY <2>1, <2>2
<1>3. ending = "no"
  BY <1>2 DEF Ending
<1>4. /\ c \in Message /\ c.begin = 0 /\ c.rs = m.rs /\ c.rs \in Seq(Rec) /\ c.type = m.type
      /\ m.type \in {"ClearBuffer", "ShutDownServer"}
  BY <1>2, MessageFields
<1>5. /\ srvPc' # "close" /\ ending' # "closing"
      /\ \/ m.type = "ShutDownServer" /\ UNCHANGED <<output, waitQueue>>
         \/ m.type # "ShutDownServer" /\ waitQueue = <<>> /\ SendBuffer(c, waitQueue)
         \/ m.type # "ShutDownServer" /\ output' = output /\ waitQueue' = Append(waitQueue, c)
  BY <1>1, <1>3 DEF HandleLocal, MaySend
<1> HIDE DEF m, c
<1>6. CASE ~center
  BY <1>1, <1>3, <1>6, SendingWaits
<1>7. CASE center
  <2>1. Held' = Held
    BY <1>1, <1>3, <1>5 DEF Held, Saved
  <2>2. \A r : Waits(r) => Waits(r)' \/ (m.type = "ClearBuffer" /\ r \in RecordsIn(m.rs))
    <3>1. \A r : InPipe(Messages, r) => InPipe(Messages', r) \/ (m.type = "ClearBuffer" /\ r \in RecordsIn(m.rs))
      BY <1>2, PipeShrinks
    <3> QED BY <2>1, <3>1 DEF Waits
  <2>3. \A r : m.type = "ClearBuffer" /\ r \in RecordsIn(m.rs) => Left(c, r)
    BY <1>4, AllLeft
  <2>4. /\ \A r : Goes(r) => Goes(r)'
        /\ m.type = "ClearBuffer" => \A r : Left(c, r) => Goes(r)'
    <3>1. CASE m.type = "ShutDownServer" /\ UNCHANGED <<output, waitQueue>>
      <4>1. \A r : Goes(r) => Goes(r)'
        BY <1>1, <3>1, GoesKept
      <4> QED BY <3>1, <4>1
    <3>2. CASE waitQueue = <<>> /\ SendBuffer(c, waitQueue)
      <4>1. Len(output) <= OutRoom /\ c.begin <= 2 * Len(c.rs)
        <5>1. 0 <= 2 * Len(c.rs)
          BY <1>4
        <5> QED BY <1>1, <1>4, <5>1 DEF StreamCut
      <4>2. \A r : InStream(got \o output, r) \/ InQueue(waitQueue, r) \/ Left(c, r)
                   => InStream(got \o output', r) \/ InQueue(waitQueue', r)
        BY <1>1, <1>4, <1>7, <3>2, <4>1, LeftSends
      <4> QED BY <1>1, <4>2 DEF Goes
    <3>3. CASE output' = output /\ waitQueue' = Append(waitQueue, c)
      BY <1>1, <1>4, <3>3, GoesGrows
    <3> QED BY <1>5, <3>1, <3>2, <3>3
  <2>5. \A r : OnWay(r) => OnWay(r)'
    BY <2>2, <2>3, <2>4 DEF OnWay
  <2>6. center' /\ (faithful /\ links > 0 => faithful' /\ links' > 0)
    BY <1>1, <1>7
  <2> QED BY <1>1, <1>7, <2>5 DEF Sending
<1> QED BY <1>6, <1>7

\* A buffer is flushed or saved with a center.
LEMMA FlushOutSends ==
    ASSUME BuffersTyped, center, NEW b \in Slot, FlushOut(b), UNCHANGED <<got, output>>
    PROVE  /\ \A r : Goes(r) => Goes(r)'
           /\ \A r \in RecordsIn(recs[b]) : Goes(r)'
<1>1. recs[b] \in Seq(Rec) /\ waitQueue \in Seq(Message)
  BY DEF BuffersTyped
<1> DEFINE c == Flushed(ClearMessage(recs[b]))
<1>2. c \in Message /\ c.type = "ClearBuffer" /\ c.begin = 0 /\ c.rs = recs[b]
  BY <1>1, FlushedClear
<1>3. waitQueue' = Append(waitQueue, c)
  BY DEF FlushOut
<1> HIDE DEF c
<1>4. /\ \A r : Goes(r) => Goes(r)'
      /\ \A r : Left(c, r) => Goes(r)'
  BY <1>1, <1>2, <1>3, GoesGrows
<1>5. \A r \in RecordsIn(recs[b]) : Left(c, r)
  BY <1>2, AllLeft
<1> QED BY <1>4, <1>5

LEMMA FlushSends ==
    ASSUME Streaming, Streaming', Ending, Filing, Parting, Sending, NEW b \in Slot, FlushSlot(b) \/ SaveLog(b)
    PROVE  Sending'
<1>1. /\ BuffersTyped /\ BuffersTyped' /\ Blocked /\ recs \in [Slot -> Seq(Rec)] /\ Held \in [Slot -> Seq(Rec)]
      /\ block \in [Slot -> BOOLEAN] /\ links \in Nat
  BY HeldIs DEF Streaming, Filing, BuffersTyped
<1>2. /\ srvPc \in {"lock", "close"} /\ UNCHANGED <<inbox, pipe, ending, count, center, got, output, links, faithful>>
  BY DEF FlushSlot, SaveLog, centerSide
<1>3. ending # "closing" /\ Messages' = Messages
  BY <1>2 DEF Ending, Messages
<1>4. CASE ~center
  BY <1>1, <1>2, <1>3, <1>4, SendingWaits
<1>5. ASSUME center, \A r : Goes(r) => Goes(r)', \A r : InBuffer(Held, r) => InBuffer(Held', r) \/ Goes(r)'
      PROVE  Sending'
  <2>1. \A r : Waits(r) => OnWay(r)'
    BY <1>3, <1>5 DEF Waits, OnWay
  <2>2. \A r : OnWay(r) => OnWay(r)'
    BY <1>5, <2>1, WayMoves
  <2> QED BY <1>2, <1>5, <2>2, SendingMoves
<1>6. CASE center /\ FlushSlot(b)
  <2>1. srvPc = "lock" /\ srvPc' = "flush"
    BY <1>6 DEF FlushSlot
  <2>2. Held = recs /\ Held' = recs'
    <3>1. \A c \in Slot : ~Saved(c) /\ ~Saved(c)'
      BY <1>2, <1>3, <2>1 DEF Saved
    <3> QED BY <1>1, <3>1, HeldIs
  <2>3. CASE FlushOut(b) /\ recs' = [recs EXCEPT ![b] = <<>>]
    <3>1. /\ \A r : Goes(r) => Goes(r)'
          /\ \A r \in RecordsIn(recs[b]) : Goes(r)'
      BY <1>1, <1>2, <1>6, <2>3, FlushOutSends
    <3>2. \A r : InBuffer(recs, r) => InBuffer(recs', r) \/ r \in RecordsIn(recs[b])
      BY <1>1, <2>3, BufferEmptied
    <3> QED BY <1>5, <1>6, <2>2, <3>1, <3>2
  <2>4. CASE UNCHANGED <<waitQueue, recs>>
    <3>1. \A r : Goes(r) => Goes(r)'
      BY <1>2, <2>4, GoesKept
    <3> QED BY <1>5, <1>6, <2>2, <2>4, <3>1
  <2> QED BY <1>6, <2>3, <2>4 DEF FlushSlot
<1>7. CASE center /\ SaveLog(b)
  <2>1. srvPc = "close" /\ UNCHANGED <<srvPc, recs>> /\ b \in toVisit /\ toVisit' = toVisit \ {b}
    BY <1>7 DEF SaveLog
  <2>2. Held' = [Held EXCEPT ![b] = <<>>] /\ Held[b] = recs[b] /\ ~Saved(b)
    <3>1. ~Saved(b) /\ Saved(b)' /\ \A c \in Slot : c # b => (Saved(c)' <=> Saved(c))
      BY <1>2, <1>3, <2>1 DEF Saved
    <3> QED BY <2>1, <3>1 DEF Held
  <2>3. \A r : InBuffer(Held, r) => InBuffer(Held', r) \/ r \in RecordsIn(recs[b])
    BY <1>1, <2>2, BufferEmptied
  <2>4. CASE FlushOut(b)
    <3>1. /\ \A r : Goes(r) => Goes(r)'
          /\ \A r \in RecordsIn(recs[b]) : Goes(r)'
      BY <1>1, <1>2, <1>7, <2>4, FlushOutSends
    <3> QED BY <1>5, <1>7, <2>3, <3>1
  <2>5. CASE waitQueue' = waitQueue /\ ~(block[b] /\ recs[b] # <<>>)
    <3>1. writer[b] = Nobody
      BY <2>1 DEF Ending
    <3>2. recs[b] = <<>> /\ DOMAIN <<>> = {}
      BY <1>1, <2>2, <2>5, <3>1 DEF Blocked
    <3>3. RecordsIn(recs[b]) = {}
      BY <3>2 DEF RecordsIn
    <3>4. \A r : Goes(r) => Goes(r)'
      BY <1>2, <2>5, GoesKept
    <3> QED BY <1>5, <1>7, <2>3, <3>3, <3>4
  <2> QED BY <1>7, <2>4, <2>5 DEF SaveLog
<1> QED BY <1>4, <1>6, <1>7

\* The thread tells of a timeout or of the end of the node.
LEMMA TellSends ==
    ASSUME Streaming, Ending, Parting, Sending, CloseThread \/ \E due \in BOOLEAN : CheckTimeout2(due)
    PROVE  Sending'
<1>1. /\ BuffersTyped /\ waitQueue \in Seq(Message) /\ links \in Nat
      /\ UNCHANGED <<recs, inbox, pipe, center, output, got, links, faithful, count>> /\ Messages' = Messages
  BY DEF Streaming, BuffersTyped, CloseThread, CheckTimeout2, centerSide, writerVars, Messages
<1>2. ending # "closing"
  BY DEF Ending, CloseThread, CheckTimeout2
<1>3. CASE ~center
  BY <1>1, <1>2, <1>3, SendingWaits
<1>4. CASE center
  <2>1. Held' = Held
    <3>1. CASE CloseThread
      <4>1. UNCHANGED toVisit /\ srvPc = "close" /\ toVisit = {} /\ ending' = "closing"
        BY <3>1 DEF CloseThread
      <4> QED BY <1>1, <4>1 DEF Held, Saved
    <3>2. CASE \E due \in BOOLEAN : CheckTimeout2(due)
      <4>1. ending' = ending /\ srvPc = "flush" /\ srvPc' = "send"
        BY <3>2 DEF CheckTimeout2
      <4> QED BY <1>1, <4>1 DEF Held, Saved
    <3> QED BY <3>1, <3>2
  <2>2. waitQueue' = waitQueue \/ \E m \in Message : waitQueue' = Append(waitQueue, m)
    BY MessagesMade DEF CloseThread, CheckTimeout2
  <2>3. \A r : Goes(r) => Goes(r)'
    <3>1. CASE waitQueue' = waitQueue
      BY <1>1, <3>1, GoesKept
    <3>2. CASE \E m \in Message : waitQueue' = Append(waitQueue, m)
      BY <1>1, <3>2, GoesGrows
    <3> QED BY <2>2, <3>1, <3>2
  <2>4. \A r : OnWay(r) => OnWay(r)'
    BY <1>1, <2>1, <2>3, WaitsKept DEF OnWay
  <2> QED BY <1>1, <1>4, <2>4, SendingMoves
<1> QED BY <1>3, <1>4

\* Steps of the thread that take and send nothing.
LEMMA ThreadSends ==
    ASSUME Streaming, Ending, Sending, LocalOver \/ UpdateState \/ \E b \in Slot : FlushTest(b)
    PROVE  Sending'
<1>1. /\ UNCHANGED <<recs, inbox, pipe, waitQueue, center, output, got, links, faithful, count, ending>>
      /\ Messages' = Messages
  BY DEF LocalOver, UpdateState, FlushTest, centerSide, writerVars, Messages
<1>2. \A b \in Slot : Saved(b)' <=> Saved(b)
  <2>1. CASE LocalOver \/ \E b \in Slot : FlushTest(b)
    <3>1. srvPc # "close" /\ srvPc' # "close"
      BY <2>1 DEF LocalOver, FlushTest
    <3> QED BY <1>1, <3>1 DEF Saved
  <2>2. CASE UpdateState
    <3>1. srvPc # "close" /\ (srvPc' = "close" => toVisit' = Slot)
      BY <2>2 DEF UpdateState
    <3> QED BY <1>1, <3>1 DEF Saved
  <2> QED BY <2>1, <2>2
<1>3. Held' = Held
  BY <1>1, <1>2, HeldKept
<1>4. \A r : OnWay(r) => OnWay(r)'
  BY <1>1, <1>3, GoesKept, WaitsKept DEF OnWay
<1> QED BY <1>1, <1>4, SendingKept

LEMMA SendOutputSends == ASSUME Streaming, Sending, NEW n \in 1 .. OutRoom, SendOutput(n) PROVE Sending'
<1>1. /\ output \in Seq(HalfRec) /\ got \in Seq(HalfRec) /\ srvPc = "send" /\ srvPc' = "drain"
      /\ UNCHANGED <<recs, inbox, pipe, waitQueue, count, ending, links>>
  BY DEF Streaming, BuffersTyped, SendOutput, CenterGone, writerVars
<1>2. Messages' = Messages /\ Held' = Held
  BY <1>1 DEF Messages, Held, Saved
<1>3. CASE center /\ n <= Len(output) /\ got' = got \o SubSeq(output, 1, n)
           /\ output' = SubSeq(output, n + 1, Len(output)) /\ UNCHANGED <<center, faithful>>
  <2>1. n \in 1 .. Len(output)
    BY <1>1, <1>3
  <2>2. got' \o output' = got \o output
    BY <1>1, <1>3, <2>1, OutputMoves, ZenonT(40)
  <2>3. \A r : OnWay(r) => OnWay(r)'
    BY <1>1, <1>2, <2>2, GoesKept, WaitsKept DEF OnWay
  <2>4. center' /\ (faithful /\ links > 0 <=> faithful' /\ links' > 0)
        /\ (faithful /\ links = 0 <=> faithful' /\ links' = 0)
    BY <1>1, <1>3
  <2> QED BY <1>1, <2>3, <2>4 DEF Sending
<1>4. CASE CenterGone
  BY <1>4, SendingLost DEF CenterGone
<1>5. CASE UNCHANGED <<center, output, got, faithful>>
  <2>1. \A r : OnWay(r) => OnWay(r)'
    BY <1>1, <1>2, <1>5, GoesKept, WaitsKept DEF OnWay
  <2> QED BY <1>1, <1>5, <2>1, SendingKept
<1> QED BY <1>3, <1>4, <1>5 DEF SendOutput

LEMMA DrainBufferSends == ASSUME Streaming, Parting, Sending, DrainBuffer PROVE Sending'
<1>1. /\ BuffersTyped /\ StreamCut /\ waitQueue \in Seq(Message) /\ waitQueue # <<>> /\ output \in Seq(HalfRec)
      /\ got \in Seq(HalfRec) /\ links \in Nat /\ srvPc = "drain" /\ srvPc' # "close"
      /\ UNCHANGED <<recs, inbox, pipe, center, got, links, faithful, count, ending>>
  BY DEF Streaming, BuffersTyped, DrainBuffer
<1>2. Messages' = Messages /\ Held' = Held
  BY <1>1 DEF Messages, Held, Saved
<1>3. CASE ~center
  BY <1>1, <1>3, SendingWaits
<1>4. CASE center
  <2> DEFINE m == Head(waitQueue)
             c == Flushed(m)
             stay == Tail(waitQueue)
  <2>1. m = waitQueue[1] /\ m \in Message /\ stay \in Seq(Message) /\ SendBuffer(c, stay)
    BY <1>1, HeadAndTail DEF DrainBuffer
  <2>2. c \in Message /\ c.type = m.type /\ c.begin = m.begin /\ c.rs = m.rs
    BY <2>1, MessageFields
  <2>3. c.begin <= 2 * Len(c.rs) /\ Len(output) <= OutRoom
    BY <1>1, <2>1, <2>2 DEF StreamCut
  <2> HIDE DEF m, c
  <2>4. \A r : Left(m, r) => Left(c, r)
    BY <2>2 DEF Left
  <2>5. \A r : InQueue(waitQueue, r) => InQueue(stay, r) \/ Left(c, r)
    BY <1>1, <2>1, <2>4, QueueShrinks
  <2> HIDE DEF stay
  <2>6. \A r : InStream(got \o output, r) \/ InQueue(stay, r) \/ Left(c, r)
               => InStream(got \o output', r) \/ InQueue(waitQueue', r)
    BY <1>1, <1>4, <2>1, <2>2, <2>3, LeftSends
  <2>7. \A r : Goes(r) => Goes(r)'
    BY <1>1, <2>5, <2>6 DEF Goes
  <2>8. \A r : OnWay(r) => OnWay(r)'
    BY <1>2, <2>7, WaitsKept DEF OnWay
  <2> QED BY <1>1, <1>4, <2>8, SendingMoves
<1> QED BY <1>3, <1>4

LEMMA DrainRecordSends == ASSUME Streaming, Parting, Sending, DrainRecord PROVE Sending'
<1> DEFINE m == Head(waitQueue)
           c == IF Fits THEN Flushed(m) ELSE m
           stay == Tail(waitQueue)
           H == Halves2(m.rs)
<1>1. /\ BuffersTyped /\ waitQueue \in Seq(Message) /\ output \in Seq(HalfRec) /\ got \in Seq(HalfRec) /\ links \in Nat
  BY DEF Streaming, BuffersTyped
<1>2. /\ UNCHANGED <<got, faithful, links, recs, inbox, pipe, ending, count>> /\ srvPc = "drain" /\ srvPc' # "close"
      /\ waitQueue # <<>> /\ m \in Message /\ m.type \in {"TimeOut", "NodeOffline"}
      /\ \/ ~center
         \/ center /\ center' = center /\ output' = output \o H /\ waitQueue' = stay
         \/ center /\ center' = center /\ output' = output /\ waitQueue' = waitQueue
         \/ center /\ OfflineOver(m) /\ center' = FALSE /\ output' = <<>> /\ waitQueue' = stay
         \/ center /\ center' = center /\ output' \in {output, output \o H} /\ waitQueue' = <<c>> \o stay
  BY DrainRecordMoves
<1>3. m = waitQueue[1] /\ stay \in Seq(Message) /\ 1 \in DOMAIN waitQueue /\ Len(stay) = Len(waitQueue) - 1
      /\ \A r : ~Left(m, r)
  <2>1. m = waitQueue[1] /\ stay \in Seq(Message) /\ 1 \in DOMAIN waitQueue /\ Len(stay) = Len(waitQueue) - 1
    BY <1>1, <1>2, HeadAndTail
  <2>2. \A r : ~Left(m, r)
    BY <1>2 DEF Left
  <2> QED BY <2>1, <2>2
<1>4. c \in Message /\ H \in Seq(HalfRec)
  <2>1. c \in Message /\ m.rs \in Seq(Rec)
    BY <1>2, MessageFields
  <2> QED BY <2>1, HalvesAre DEF HalfRec
<1>5. Messages' = Messages /\ Held' = Held
  BY <1>2 DEF Messages, Held, Saved
<1> HIDE DEF m, c, H
<1>6. \A r : InQueue(waitQueue, r) => InQueue(stay, r)
  BY <1>1, <1>2, <1>3, QueueShrinks
<1> HIDE DEF stay
<1>7. \A r : InQueue(stay, r) => InQueue(<<c>> \o stay, r)
  BY <1>3, <1>4, QueueBehind
<1>8. \A r : InStream(got \o output, r) => InStream(got \o (output \o H), r)
  <2>1. got \in Seq(HalfRec) /\ output \in Seq(HalfRec) /\ H \in Seq(HalfRec)
    BY <1>1, <1>4
  <2>2. got \o (output \o H) = (got \o output) \o H
    BY ONLY <2>1, JoinTwice
  <2>3. got \o output \in Seq(HalfRec)
    BY ONLY <2>1, JoinedPlaces
  <2> QED BY <2>1, <2>2, <2>3, StreamGrows
<1>9. ASSUME \A r : InStream(got \o output, r) => InStream(got \o output', r),
             waitQueue' = stay \/ waitQueue' = waitQueue \/ waitQueue' = <<c>> \o stay
      PROVE  \A r : OnWay(r) => OnWay(r)'
  <2>1. \A r : InQueue(waitQueue, r) => InQueue(waitQueue', r)
    BY <1>6, <1>7, <1>9
  <2>2. \A r : Goes(r) => Goes(r)'
    BY <1>2, <1>9, <2>1 DEF Goes
  <2> QED BY <1>5, <2>2, WaitsKept DEF OnWay
<1>10. CASE ~center
  BY <1>1, <1>2, <1>10, SendingWaits
<1>11. CASE /\ center /\ center' = center /\ output' \in {output, output \o H}
            /\ waitQueue' = stay \/ waitQueue' = waitQueue \/ waitQueue' = <<c>> \o stay
  <2>1. \A r : OnWay(r) => OnWay(r)'
    BY <1>8, <1>9, <1>11
  <2> QED BY <1>2, <1>11, <2>1, SendingMoves
<1>12. CASE center /\ OfflineOver(m) /\ center' = FALSE /\ output' = <<>> /\ waitQueue' = stay
  <2>1. m.type = "NodeOffline" /\ m.flushed /\ output = <<>>
    BY <1>12 DEF OfflineOver
  <2>2. ending = "closing" /\ Len(waitQueue) = 1
    BY <1>3, <2>1 DEF Parting, OfflineLast
  <2>3. EndsOffline(got \o output)
    <3>1. waitQueue[Len(waitQueue)] = m
      BY <1>3, <2>2
    <3> QED BY <1>12, <2>1, <2>2, <3>1 DEF Parting, OfflineWaits
  <2>4. got \o output = got
    BY <1>1, <2>1
  <2>5. stay = <<>>
    <3>1. Len(stay) = 0
      BY <1>3, <2>2
    <3> HIDE DEF Message
    <3> QED BY <1>3, <3>1
  <2>6. \A r : OnWay(r) => OnWay(r)'
    BY <1>9, <1>12, <2>1
  <2> QED BY <1>2, <1>12, <2>2, <2>3, <2>4, <2>5, <2>6 DEF Sending
<1> QED BY <1>2, <1>10, <1>11, <1>12

LEMMA SendingStarts == BufferInit => Sending
<1>1. 0 > 0 <=> FALSE
  OBVIOUS
<1> QED BY <1>1 DEF BufferInit, Sending

Delivering == Streaming /\ Ending /\ Filing /\ Parting /\ Sending

LEMMA SendingStep == Delivering /\ Streaming' /\ [BufferNext]_bufferVars => Sending'
<1> SUFFICES ASSUME Streaming, Streaming', Ending, Filing, Parting, Sending, [BufferNext]_bufferVars PROVE Sending'
  BY DEF Delivering
<1>1. ASSUME NEW b \in Slot,
             \/ WriteFits(b) \/ WriteNowhere(b)
             \/ SubmitSwap(b) \/ SubmitAlone(b) \/ SubmitLast(b) \/ SubmitEmpty(b)
             \/ WriterStep(b) \/ Age(b)
      PROVE  Sending'
  BY <1>1, WriterSends, WriterSearchSends DEF WriterStep, Searches
<1>2. CASE ServerStep
  BY <1>2, AcceptMessageSends, HandleLocalSends, FlushSends, TellSends, ThreadSends, SendOutputSends,
     DrainBufferSends, DrainRecordSends DEF ServerStep
<1>3. CASE UNCHANGED bufferVars
  <2>1. /\ UNCHANGED <<recs, inbox, pipe, waitQueue, srvPc, toVisit, center, output, got, links, faithful, count, ending>>
    BY <1>3 DEF bufferVars, centerSide, writerVars, threadSide
  <2>2. Messages' = Messages /\ Held' = Held
    BY <2>1 DEF Messages, Held, Saved
  <2>3. \A r : OnWay(r) => OnWay(r)'
    BY <2>1, <2>2, GoesKept, WaitsKept DEF OnWay
  <2> QED BY <2>1, <2>3, SendingKept
<1> QED BY <1>1, <1>2, <1>3, DestroySends DEF BufferNext

-----------------------------------------------------------------------------
(* The buffers: loggers that overtake one another *)

\* How many loggers are in submit_buffer for a buffer.
Inside(b) == (IF writer[b].holds = "none" THEN 0 ELSE 1) + (writer[b].asleep + writer[b].woken)

\* Where no logger has come while another was there, at most one is there, and
\* then nothing is in the buffer.
Overtaking ==
    /\ \A b \in Slot : \A r \in RecordsIn(recs[b]) : r.slot = b
    /\ \A b \in Slot : b \notin crowded => Inside(b) <= 1 /\ (Inside(b) = 1 => recs[b] = <<>>)
    /\ \A r \in lost : r.slot \in crowded

LEMMA InsideCounts ==
    ASSUME NEW b \in Slot
    PROVE  /\ BuffersTyped => Inside(b) \in Nat /\ (writer[b] = Nobody <=> Inside(b) = 0)
           /\ BuffersTyped' => Inside(b)' \in Nat
<1>1. ASSUME NEW v \in Loggers
      PROVE  LET n == (IF v.holds = "none" THEN 0 ELSE 1) + (v.asleep + v.woken)
             IN  n \in Nat /\ (v = Nobody <=> n = 0)
  <2>1. v.asleep \in Nat /\ v.woken \in Nat /\ v.holds \in {"none", "getting", "dozing"}
        /\ v = [holds |-> v.holds, asleep |-> v.asleep, woken |-> v.woken]
    BY <1>1 DEF Loggers
  <2>2. v = Nobody <=> v.holds = "none" /\ v.asleep = 0 /\ v.woken = 0
    BY <2>1 DEF Nobody
  <2> QED BY <2>1, <2>2
<1>2. BuffersTyped => writer[b] \in Loggers
  BY DEF BuffersTyped
<1>3. BuffersTyped' => writer'[b] \in Loggers
  BY DEF BuffersTyped
<1> QED BY <1>1, <1>2, <1>3 DEF Inside

\* A logger moves at the buffer b.
LEMMA LoggerOvertakes ==
    ASSUME BuffersTyped, BuffersTyped', Overtaking, NEW b \in Slot,
           \A c \in Slot : c # b => recs'[c] = recs[c] /\ writer'[c] = writer[c],
           \A r \in RecordsIn(recs'[b]) : r.slot = b,
           crowded' = crowded \/ crowded' = crowded \cup {b},
           b \notin crowded' => Inside(b)' <= 1 /\ (Inside(b)' = 1 => recs'[b] = <<>>),
           \A r \in lost' : r \in lost \/ (r \in RecordsIn(recs[b]) /\ Inside(b) > 0)
    PROVE  Overtaking'
<1>1. \A c \in Slot : c # b => Inside(c)' = Inside(c)
  BY DEF Inside
<1>2. \A c \in Slot : \A r \in RecordsIn(recs'[c]) : r.slot = c
  BY DEF Overtaking
<1>3. \A c \in Slot : c \notin crowded' => Inside(c)' <= 1 /\ (Inside(c)' = 1 => recs'[c] = <<>>)
  BY <1>1 DEF Overtaking
<1>4. ASSUME NEW r \in lost' PROVE r.slot \in crowded'
  <2>1. CASE r \in lost
    BY <2>1 DEF Overtaking
  <2>2. CASE r \in RecordsIn(recs[b]) /\ Inside(b) > 0
    <3>1. r.slot = b /\ recs[b] # <<>>
      <4>1. DOMAIN <<>> = {}
        OBVIOUS
      <4> QED BY <2>2, <4>1 DEF Overtaking, RecordsIn
    <3>2. b \in crowded
      <4>1. Inside(b) \in Nat
        BY InsideCounts
      <4> QED BY <2>2, <3>1, <4>1 DEF Overtaking
    <3> QED BY <3>1, <3>2
  <2> QED BY <1>4, <2>1, <2>2
<1>5. \A c \in Slot : \A r \in RecordsIn(recs[c])' : r.slot = c
  BY <1>2 DEF RecordsIn
<1> QED BY <1>3, <1>4, <1>5 DEF Overtaking

\* The thread empties buffers and wakes loggers, which stay in submit_buffer.
LEMMA ThreadOvertakes ==
    ASSUME BuffersTyped, BuffersTyped', Overtaking, UNCHANGED <<crowded, lost>>,
           writer' = writer \/ NotifyOne,
           \A c \in Slot : recs'[c] = recs[c] \/ recs'[c] = <<>>
    PROVE  Overtaking'
<1>1. ASSUME NEW c \in Slot PROVE Inside(c)' = Inside(c)
  <2>1. /\ writer'[c].holds = writer[c].holds
        /\ writer'[c].asleep + writer'[c].woken = writer[c].asleep + writer[c].woken
    BY NotifyTyped DEF BuffersTyped
  <2> QED BY <2>1 DEF Inside
<1>2. ASSUME NEW c \in Slot, NEW r \in RecordsIn(recs'[c]) PROVE r.slot = c
  <2>1. DOMAIN <<>> = {}
    OBVIOUS
  <2> QED BY <1>2, <2>1 DEF Overtaking, RecordsIn
<1>3. \A c \in Slot : c \notin crowded' => Inside(c)' <= 1 /\ (Inside(c)' = 1 => recs'[c] = <<>>)
  BY <1>1 DEF Overtaking
<1>4. \A c \in Slot : \A r \in RecordsIn(recs[c])' : r.slot = c
  BY <1>2 DEF RecordsIn
<1> QED BY <1>3, <1>4 DEF Overtaking

\* A record is copied to a buffer, to which its logger may have come just now.
LEMMA CopyOvertakes ==
    ASSUME BuffersTyped, BuffersTyped', Overtaking, NEW b \in Slot, NEW s \in Seq(Rec), CopyTo(b, s),
           s = recs[b] \/ s = <<>>
    PROVE  /\ \A c \in Slot : c # b => recs'[c] = recs[c]
           /\ \A r \in RecordsIn(recs'[b]) : r.slot = b
<1>1. recs' = [recs EXCEPT ![b] = Append(s, NewRec(b))] /\ recs \in [Slot -> Seq(Rec)] /\ NewRec(b) \in Rec
      /\ NewRec(b).slot = b
  BY NewRecTyped DEF CopyTo, BuffersTyped, NewRec
<1>2. RecordsIn(recs'[b]) = RecordsIn(s) \cup {NewRec(b)}
  BY <1>1, AppendedMembers
<1>3. \A r \in RecordsIn(s) : r.slot = b
  <2>1. DOMAIN <<>> = {}
    OBVIOUS
  <2> QED BY <2>1 DEF Overtaking, RecordsIn
<1> QED BY <1>1, <1>2, <1>3

LEMMA WriterOvertakes ==
    ASSUME Streaming, Streaming', Overtaking, NEW b \in Slot,
           \/ WriteFits(b) \/ WriteNowhere(b)
           \/ SubmitSwap(b) \/ SubmitAlone(b) \/ SubmitLast(b) \/ SubmitEmpty(b)
           \/ WriterStep(b) \/ Age(b)
    PROVE  Overtaking'
<1>1. BuffersTyped /\ BuffersTyped' /\ recs[b] \in Seq(Rec) /\ <<>> \in Seq(Rec) /\ writer \in [Slot -> Loggers]
      /\ writer[b] \in Loggers /\ recs \in [Slot -> Seq(Rec)]
  <2>1. BuffersTyped /\ BuffersTyped'
    BY DEF Streaming
  <2>2. recs \in [Slot -> Seq(Rec)] /\ writer \in [Slot -> Loggers]
    BY <2>1 DEF BuffersTyped
  <2> QED BY <2>1, <2>2
<1>2. Inside(b) \in Nat /\ Inside(b)' \in Nat /\ (writer[b] = Nobody <=> Inside(b) = 0)
  BY <1>1, InsideCounts
<1>3. ASSUME Enter(b)
      PROVE  /\ writer[b].holds = "none"
             /\ crowded' = crowded \/ crowded' = crowded \cup {b}
             /\ b \notin crowded' => writer[b] = Nobody
  BY <1>3 DEF Enter, Comes, MutexFree2
\* A logger that came leaves again at once.
<1>4. ASSUME NEW s, s = recs[b] \/ s = <<>>, CopyTo(b, s), Enter(b), UNCHANGED <<writer, lost>> PROVE Overtaking'
  <2>1. b \notin crowded' => Inside(b)' = 0
    BY <1>2, <1>3, <1>4 DEF Inside
  <2>2. s \in Seq(Rec)
    BY <1>1, <1>4
  <2>3. /\ \A c \in Slot : c # b => recs'[c] = recs[c]
        /\ \A r \in RecordsIn(recs'[b]) : r.slot = b
    BY <1>1, <1>4, <2>2, CopyOvertakes
  <2> QED BY <1>1, <1>3, <1>4, <2>1, <2>3, LoggerOvertakes
<1>5. CASE WriteFits(b)
  BY <1>4, <1>5 DEF WriteFits
<1>6. CASE SubmitSwap(b)
  BY <1>4, <1>6 DEF SubmitSwap
<1>7. CASE SubmitAlone(b)
  BY <1>4, <1>7 DEF SubmitAlone
<1>8. ASSUME Enter(b), writer' = Looks(b), lost' = lost, recs'[b] = <<>>,
             \A c \in Slot : c # b => recs'[c] = recs[c]
      PROVE  Overtaking'
  <2>1. writer'[b].holds = "getting" /\ writer'[b].asleep = writer[b].asleep /\ writer'[b].woken = writer[b].woken
        /\ \A c \in Slot : c # b => writer'[c] = writer[c]
    BY <1>1, <1>8 DEF Looks, Loggers
  <2>2. b \notin crowded' => Inside(b)' = 1
    BY <1>3, <1>8, <2>1 DEF Inside, Nobody
  <2>3. \A r \in RecordsIn(recs'[b]) : r.slot = b
    <3>1. DOMAIN <<>> = {}
      OBVIOUS
    <3> QED BY <1>8, <3>1 DEF RecordsIn
  <2> QED BY <1>1, <1>3, <1>8, <2>1, <2>2, <2>3, LoggerOvertakes
<1>9. CASE SubmitLast(b)
  <2>1. recs' = [recs EXCEPT ![b] = <<>>]
    BY <1>9 DEF SubmitLast
  <2> QED BY <1>1, <1>8, <1>9, <2>1 DEF SubmitLast
<1>10. CASE SubmitEmpty(b)
  <2>1. recs[b] = <<>>
    BY <1>1, <1>10 DEF SubmitEmpty, Full
  <2> QED BY <1>8, <1>10, <2>1 DEF SubmitEmpty
<1>11. ASSUME writer[b].holds = "getting", GivesBack(b)
       PROVE  Inside(b) > 0 /\ \A r \in lost' : r \in lost \/ (r \in RecordsIn(recs[b]) /\ Inside(b) > 0)
  <2>1. Inside(b) # 0
    BY <1>2, <1>11 DEF Nobody
  <2> QED BY <1>2, <1>11, <2>1 DEF GivesBack
<1>12. \A r \in RecordsIn(recs[b]) : r.slot = b
  BY DEF Overtaking
<1>13. CASE GetBlock(b)
  <2>1. /\ CopyTo(b, recs[b]) /\ crowded' = crowded /\ writer[b].holds = "getting" /\ GivesBack(b)
        /\ writer' = [writer EXCEPT ![b].holds = "none"]
    BY <1>13 DEF GetBlock
  <2>2. Inside(b)' = Inside(b) - 1
    BY <1>1, <2>1 DEF Inside, Loggers
  <2>3. b \notin crowded' => Inside(b)' = 0
    BY <1>2, <1>11, <2>1, <2>2 DEF Overtaking
  <2>4. /\ \A c \in Slot : c # b => recs'[c] = recs[c]
        /\ \A r \in RecordsIn(recs'[b]) : r.slot = b
    BY <1>1, <2>1, CopyOvertakes
  <2>5. \A c \in Slot : c # b => writer'[c] = writer[c]
    BY <1>1, <2>1
  <2> QED BY <1>1, <1>11, <2>1, <2>3, <2>4, <2>5, LoggerOvertakes
<1>14. CASE GetNone(b)
  <2>1. /\ recs' = recs /\ crowded' = crowded /\ writer[b].holds = "getting" /\ GivesBack(b)
        /\ writer' = [writer EXCEPT ![b].holds = "dozing"]
    BY <1>14 DEF GetNone
  <2>2. Inside(b)' = Inside(b)
    BY <1>1, <2>1 DEF Inside, Loggers
  <2>3. \A c \in Slot : c # b => writer'[c] = writer[c]
    BY <1>1, <2>1
  <2>4. b \notin crowded' => Inside(b)' <= 1 /\ (Inside(b)' = 1 => recs'[b] = <<>>)
    BY <2>1, <2>2 DEF Overtaking
  <2> QED BY <1>1, <1>11, <1>12, <2>1, <2>3, <2>4, LoggerOvertakes
<1>15. CASE Overrun(b)
  <2>1. UNCHANGED <<recs, writer, crowded>> /\ writer[b].holds = "getting" /\ GivesBack(b)
    BY <1>15 DEF Overrun, writerVars
  <2>2. Inside(b)' = Inside(b)
    BY <2>1 DEF Inside
  <2>3. b \notin crowded' => Inside(b)' <= 1 /\ (Inside(b)' = 1 => recs'[b] = <<>>)
    BY <2>1, <2>2 DEF Overtaking
  <2> QED BY <1>1, <1>11, <1>12, <2>1, <2>3, LoggerOvertakes
\* A logger moves on within submit_buffer.
<1>16. ASSUME UNCHANGED <<recs, crowded, lost>>, Inside(b)' = Inside(b),
              \A c \in Slot : c # b => writer'[c] = writer[c]
       PROVE  Overtaking'
  <2>1. b \notin crowded' => Inside(b)' <= 1 /\ (Inside(b)' = 1 => recs'[b] = <<>>)
    BY <1>16 DEF Overtaking
  <2> QED BY <1>1, <1>12, <1>16, <2>1, LoggerOvertakes
<1>17. CASE DozeOff(b)
  <2>1. writer[b].holds = "dozing" /\ writer' = [writer EXCEPT ![b].holds = "none", ![b].asleep = @ + 1]
        /\ UNCHANGED <<recs, crowded, lost>>
    BY <1>17 DEF DozeOff, mishaps
  <2>2. Inside(b)' = Inside(b)
    BY <1>1, <2>1 DEF Inside, Loggers
  <2>3. \A c \in Slot : c # b => writer'[c] = writer[c]
    BY <1>1, <2>1
  <2> QED BY <1>16, <2>1, <2>2, <2>3
<1>18. CASE WakeUp(b)
  <2>1. writer[b].holds = "none" /\ writer' = [writer EXCEPT ![b].holds = "getting", ![b].woken = @ - 1]
        /\ UNCHANGED <<recs, crowded, lost>>
    BY <1>18 DEF WakeUp, MutexFree2, mishaps
  <2>2. Inside(b)' = Inside(b)
    BY <1>1, <2>1 DEF Inside, Loggers
  <2>3. \A c \in Slot : c # b => writer'[c] = writer[c]
    BY <1>1, <2>1
  <2> QED BY <1>16, <2>1, <2>2, <2>3
<1>19. CASE Age(b) \/ WriteNowhere(b)
  <2>1. UNCHANGED <<recs, writer, crowded, lost>>
    BY <1>19 DEF Age, WriteNowhere, writerVars, mishaps
  <2> QED BY <1>16, <2>1 DEF Inside
<1> QED BY <1>5, <1>6, <1>7, <1>9, <1>10, <1>13, <1>14, <1>15, <1>17, <1>18, <1>19 DEF WriterStep

LEMMA ServerOvertakes == ASSUME Streaming, Streaming', Overtaking, ServerStep \/ Destroy PROVE Overtaking'
<1>1. BuffersTyped /\ BuffersTyped' /\ recs \in [Slot -> Seq(Rec)]
  BY DEF Streaming, BuffersTyped
<1>2. UNCHANGED <<crowded, lost>>
  BY DEF ServerStep, AcceptMessage, HandleLocal, LocalOver, FlushTest, FlushSlot, SaveLog, CheckTimeout2, SendOutput,
         DrainBuffer, DrainRecord, UpdateState, CloseThread, Destroy, mishaps
<1>3. writer' = writer \/ NotifyOne
  <2>1. CASE HandleLocal
    BY <2>1 DEF HandleLocal, SendBuffer
  <2>2. CASE DrainBuffer
    BY <2>2 DEF DrainBuffer, SendBuffer
  <2> QED BY <2>1, <2>2 DEF ServerStep, AcceptMessage, LocalOver, FlushTest, FlushSlot, SaveLog, CheckTimeout2,
         SendOutput, DrainRecord, UpdateState, CloseThread, Destroy, writerVars
<1>4. ASSUME NEW c \in Slot PROVE recs'[c] = recs[c] \/ recs'[c] = <<>>
  <2>1. CASE \E b \in Slot : FlushSlot(b)
    BY <1>1, <2>1 DEF FlushSlot
  <2> QED BY <2>1 DEF ServerStep, AcceptMessage, HandleLocal, LocalOver, FlushTest, SaveLog, CheckTimeout2,
         SendOutput, DrainBuffer, DrainRecord, UpdateState, CloseThread, Destroy, writerVars
<1> QED BY <1>1, <1>2, <1>3, <1>4, ThreadOvertakes

LEMMA OvertakingStarts == BufferInit => Overtaking
<1> SUFFICES ASSUME BufferInit PROVE Overtaking
  OBVIOUS
<1>1. \A b \in Slot : recs[b] = <<>> /\ Inside(b) = 0
  BY DEF BufferInit, Nobody, Inside
<1>2. DOMAIN <<>> = {}
  OBVIOUS
<1>3. crowded = {} /\ lost = {}
  BY DEF BufferInit
<1> QED BY <1>1, <1>2, <1>3 DEF Overtaking, RecordsIn

LEMMA OvertakingStep == Streaming /\ Streaming' /\ Overtaking /\ [BufferNext]_bufferVars => Overtaking'
<1> SUFFICES ASSUME Streaming, Streaming', Overtaking, [BufferNext]_bufferVars PROVE Overtaking'
  OBVIOUS
<1>1. CASE UNCHANGED bufferVars
  <2>1. UNCHANGED <<recs, writer, crowded, lost>>
    BY <1>1 DEF bufferVars, writerVars, mishaps
  <2> QED BY <2>1 DEF Overtaking, Inside, RecordsIn
<1> QED BY <1>1, WriterOvertakes, ServerOvertakes DEF BufferNext

\* What the center has received at the end.
LEMMA DeliveringSuffices == Delivering /\ Overtaking => RecordsFiled
<1> SUFFICES ASSUME Delivering, Overtaking PROVE RecordsFiled
  OBVIOUS
<1>1. Streaming /\ BuffersTyped /\ Ending /\ Filing /\ Parting /\ Sending /\ got \in Seq(HalfRec)
  BY DEF Delivering, Streaming, BuffersTyped
<1>2. FileOnce
  BY <1>1, FilingSuffices
<1>3. ASSUME srvPc = "done", faithful, links > 0
      PROVE  /\ \A b \in Slot : \A n \in 1 .. count[b] : [slot |-> b, n |-> n] \in Sent
             /\ got # <<>> /\ got[Len(got)].rec = Special("offline")
  <2>1. ending = "closing" /\ Messages = <<>> /\ waitQueue = <<>> /\ output = <<>>
    BY <1>1, <1>3 DEF Ending, Parting
  <2>2. ~center
    BY <1>1, <2>1 DEF Parting, OfflineWaits
  <2>3. EndsOffline(got)
    BY <1>1, <1>3, <2>2 DEF Sending
  <2>4. DOMAIN <<>> = {} /\ got \o <<>> = got
    BY <1>1
  <2>5. \A b \in Slot : Held[b] = <<>>
    BY <2>1 DEF Held, Saved
  <2>6. \A r : ~Waits(r) /\ ~InQueue(waitQueue, r)
    BY <2>1, <2>4, <2>5 DEF Waits, InPipe, InBuffer, InQueue, RecordsIn
  <2>7. \A r \in Numbered(count) : InStream(got, r)
    BY <1>1, <1>3, <2>1, <2>4, <2>6 DEF Sending, OnWay, Goes
  <2>8. ASSUME NEW b \in Slot, NEW n \in 1 .. count[b] PROVE [slot |-> b, n |-> n] \in Sent
    <3> DEFINE r == [slot |-> b, n |-> n]
    <3>1. r \in Numbered(count)
      BY NumberedIs
    <3> HIDE DEF r
    <3>2. PICK i \in DOMAIN got : got[i] = Half(r, 2)
      BY <2>7, <3>1 DEF InStream
    <3>3. got[i].half = 2 /\ got[i].rec = r
      BY <3>2, HalfFields
    <3>4. r \in Sent
      BY <3>3 DEF Sent
    <3> QED BY <3>4 DEF r
  <2> QED BY <2>3, <2>8 DEF EndsOffline
<1>4. CloseComplete
  BY <1>3 DEF CloseComplete
<1>5. OnlyOvertaken
  BY DEF Overtaking, OnlyOvertaken
<1> QED BY <1>2, <1>4, <1>5 DEF RecordsFiled

\* No record's place is lost or doubled: each one is in a buffer, in a message that is not
\* flushed or once in the record file, whichever of safe_write, submit_buffer, force_flush,
\* clear_buffer and save_logs writes it; when the server is destroyed all are in the file,
\* and a center that was there all the time has received every one and then the end of the
\* node.  Only at a buffer to which a logger came while another was in submit_buffer's wait
\* can a record itself be missing in its place.
THEOREM RecordsAlwaysFiled == BufferSpec => []RecordsFiled
<1>1. BufferInit => Delivering /\ Overtaking
  BY StreamStarts, EndingStarts, FilingStarts, PartingStarts, SendingStarts, OvertakingStarts DEF Delivering
<1>2. Delivering /\ Overtaking /\ [BufferNext]_bufferVars => (Delivering /\ Overtaking)'
  <2> SUFFICES ASSUME Delivering, Overtaking, [BufferNext]_bufferVars PROVE (Delivering /\ Overtaking)'
    OBVIOUS
  <2>1. Streaming /\ Ending /\ Filing /\ Parting /\ Sending
    BY DEF Delivering
  <2>2. Streaming'
    BY <2>1, StreamStep
  <2>3. Ending' /\ Filing' /\ Parting'
    BY <2>1, <2>2, EndingStep, FilingStep, PartingStep
  <2>4. Sending' /\ Overtaking'
    BY <2>1, <2>2, SendingStep, OvertakingStep
  <2> QED BY <2>2, <2>3, <2>4 DEF Delivering
<1> QED BY <1>1, <1>2, DeliveringSuffices, PTL DEF BufferSpec

=============================================================================
