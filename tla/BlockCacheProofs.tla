-------------------------- MODULE BlockCacheProofs --------------------------
(***************************************************************************)
(* Proofs about the block cache of a B+ tree file, for any holders,        *)
(* contents and capacity: a held block stays, no change of a block is      *)
(* lost, and the queues are exact (CacheSound).                            *)
(*                                                                         *)
(* A call that loads a block first evicts another one.  The invariant is   *)
(* therefore an operator of the parts of the state, so that the state      *)
(* between the two can be named: n is _map, t, p and o are the queues, f   *)
(* is the file, c its _total_blocks, d what the holders hold and l what    *)
(* they last made of the blocks.                                           *)
(*                                                                         *)
(* After it, proofs about List and SingleList, for any nodes: a chain of   *)
(* pointers is read as a ring through NoNode, which stands before the      *)
(* first node and behind the last one, so that an end is no special case.  *)
(***************************************************************************)
EXTENDS BlockCache, Lists, FiniteSetTheorems, SequenceTheorems, TLAPS

NodeRecord == [users : Nat, dirty : BOOLEAN, old : BOOLEAN, value : Content]

Doing == {"nothing", "took", "read", "wrote"}

\* No element of a queue occurs twice.
Once(q) == \A i, j \in DOMAIN q : q[i] = q[j] => i = j

Queue(q, S) == q \in Seq(Int) /\ Once(q) /\ Queued(q) = S

\* The blocks nobody holds, by age, and those of them that have to be written.
Young(n) == {k \in DOMAIN n : n[k].users = 0 /\ ~n[k].old}
Aged(n) == {k \in DOMAIN n : n[k].users = 0 /\ n[k].old}
Changed(n) == {k \in DOMAIN n : n[k].users = 0 /\ n[k].dirty}

QueuesOK(n, t, p, o) == Queue(t, Young(n)) /\ Queue(p, Aged(n)) /\ Queue(o, Changed(n))

FileOK(f, c) == c \in Nat /\ f \in Seq(Content) /\ Len(f) <= c

NodesOK(n, c) == DOMAIN n \subseteq 0 .. c - 1 /\ n \in [DOMAIN n -> NodeRecord]

\* The objects that hold block k
Users(d, k) == {h \in Holder : d[h].key = k}

HeldOK(n, d) ==
    /\ d \in [Holder -> [key : Int, did : Doing]]
    /\ \A h \in Holder : d[h] = Nothing_ \/ (d[h].key \in DOMAIN n /\ d[h].did # "nothing")
    /\ \A k \in DOMAIN n : n[k].users = Cardinality(Users(d, k))

\* Somebody who holds block k has done one of the things in S to it.
Touched(d, k, S) == \E h \in Holder : d[h].key = k /\ d[h].did \in S

\* Where the last state of a block is: in the cache, unless somebody is about to
\* set it anew; else in the file. What is cached unchanged and not being changed
\* is as it is in the file, so that it may be evicted without writing it.
KeptOK(n, f, c, d, l) ==
    /\ DOMAIN l \subseteq 0 .. c - 1
    /\ \A k \in 0 .. c - 1 : k \in DOMAIN n \/ k < Len(f)
    /\ \A k \in DOMAIN n : ~n[k].dirty =>
          (k < Len(f) /\ n[k].value = f[k + 1]) \/ Touched(d, k, {"took", "wrote"})
    /\ \A k \in DOMAIN l :
          /\ k \in DOMAIN n => n[k].value = l[k] \/ Touched(d, k, {"took"})
          /\ k \notin DOMAIN n => f[k + 1] = l[k]

CacheOK(n, t, p, o, f, c, d, l) ==
    FileOK(f, c) /\ NodesOK(n, c) /\ QueuesOK(n, t, p, o) /\ HeldOK(n, d) /\ KeptOK(n, f, c, d, l)

CacheInv == CacheOK(node, temporary, persistent, obsolete, file, total, holds, latest)

-----------------------------------------------------------------------------
(* Queues *)

\* List::erase of a block's place in a queue removes the block and keeps the rest.
LEMMA UnqueuedRemoves ==
    ASSUME NEW S, NEW q, Queue(q, S), NEW k
    PROVE  Queue(Unqueued(q, k), S \ {k})
<1>1. CASE k \notin S
  BY <1>1 DEF Unqueued, Queue
<1>2. CASE k \in S
  <2> DEFINE i == CHOOSE j \in DOMAIN q : q[j] = k
             r == [j \in 1 .. Len(q) - 1 |-> q[IF j < i THEN j ELSE j + 1]]
  <2>0. q \in Seq(Int) /\ Len(q) \in Nat /\ DOMAIN q = 1 .. Len(q)
    BY DEF Queue
  <2>1. i \in 1 .. Len(q) /\ q[i] = k
    BY <1>2, <2>0 DEF Queue, Queued
  <2>2. Unqueued(q, k) = r
    BY <1>2 DEF Unqueued, Queue
  <2> HIDE DEF i
  <2>3. \A j \in 1 .. Len(q) : q[j] = k => j = i
    BY <2>0, <2>1 DEF Queue, Once
  <2>4. r \in Seq(Int) /\ Len(r) = Len(q) - 1 /\ DOMAIN r = 1 .. Len(q) - 1
    <3>1. \A j \in 1 .. Len(q) - 1 : r[j] \in Int
      BY <2>0, <2>1
    <3>2. Len(q) - 1 \in Nat
      BY <2>0, <2>1
    <3> QED BY <3>1, <3>2, IsASeq
  <2>5. \A j \in 1 .. Len(q) - 1 : r[j] = q[IF j < i THEN j ELSE j + 1]
    OBVIOUS
  <2> HIDE DEF r
  <2>6. Once(r)
    <3>1. SUFFICES ASSUME NEW a \in 1 .. Len(q) - 1, NEW b \in 1 .. Len(q) - 1, r[a] = r[b]
                   PROVE  a = b
      BY <2>4 DEF Once
    <3>2. PICK ma \in 1 .. Len(q) : r[a] = q[ma] /\ ma = (IF a < i THEN a ELSE a + 1)
      BY <2>0, <2>1, <2>5
    <3>3. PICK mb \in 1 .. Len(q) : r[b] = q[mb] /\ mb = (IF b < i THEN b ELSE b + 1)
      BY <2>0, <2>1, <2>5
    <3>4. ma = mb
      BY <2>0, <3>1, <3>2, <3>3 DEF Queue, Once
    <3> QED BY <2>0, <2>1, <3>2, <3>3, <3>4
  <2>7. Queued(r) = S \ {k}
    <3>1. ASSUME NEW x \in Queued(r) PROVE x \in S \ {k}
      <4>1. PICK j \in 1 .. Len(q) - 1 : x = r[j]
        BY <2>4 DEF Queued
      <4> DEFINE m == IF j < i THEN j ELSE j + 1
      <4>2. m \in 1 .. Len(q) /\ m # i /\ x = q[m]
        BY <2>0, <2>1, <2>5, <4>1
      <4> QED BY <2>0, <2>3, <4>2 DEF Queue, Queued
    <3>2. ASSUME NEW x \in S, x # k PROVE x \in Queued(r)
      <4>1. PICK m \in 1 .. Len(q) : x = q[m]
        BY <2>0 DEF Queue, Queued
      <4>2. m # i
        BY <2>1, <3>2, <4>1
      <4> DEFINE j == IF m < i THEN m ELSE m - 1
      <4>3. j \in 1 .. Len(q) - 1 /\ x = r[j]
        BY <2>0, <2>1, <2>5, <4>1, <4>2
      <4> QED BY <2>4, <4>3 DEF Queued
    <3> QED BY <3>1, <3>2
  <2> QED BY <2>2, <2>4, <2>6, <2>7 DEF Queue
<1> QED BY <1>1, <1>2

\* insert at the end.
LEMMA AppendAdds ==
    ASSUME NEW S, NEW q, Queue(q, S), NEW k \in Int, k \notin S
    PROVE  Queue(Append(q, k), S \cup {k})
<1>0. q \in Seq(Int) /\ Len(q) \in Nat /\ DOMAIN q = 1 .. Len(q)
  BY DEF Queue
<1>1. /\ Append(q, k) \in Seq(Int) /\ Len(Append(q, k)) = Len(q) + 1
      /\ DOMAIN Append(q, k) = 1 .. Len(q) + 1
      /\ \A j \in 1 .. Len(q) : Append(q, k)[j] = q[j]
      /\ Append(q, k)[Len(q) + 1] = k
  BY <1>0, AppendProperties
<1> DEFINE r == Append(q, k)
<1>2. \A j \in 1 .. Len(q) : q[j] # k
  BY <1>0 DEF Queue, Queued
<1> HIDE DEF r
<1>3. Once(r)
  BY <1>0, <1>1, <1>2 DEF r, Queue, Once
<1>4. Queued(r) = S \cup {k}
  <2>1. ASSUME NEW x \in Queued(r) PROVE x \in S \cup {k}
    BY <1>0, <1>1 DEF r, Queue, Queued
  <2>2. ASSUME NEW x \in S PROVE x \in Queued(r)
    <3>1. PICK j \in 1 .. Len(q) : x = q[j]
      BY <1>0 DEF Queue, Queued
    <3>2. j \in 1 .. Len(q) + 1 /\ r[j] = x
      BY <1>0, <1>1, <3>1 DEF r
    <3> QED BY <1>1, <3>2 DEF r, Queued
  <2>3. k \in Queued(r)
    <3>1. Len(q) + 1 \in 1 .. Len(q) + 1
      BY <1>0
    <3> QED BY <1>1, <3>1 DEF r, Queued
  <2> QED BY <2>1, <2>2, <2>3
<1> QED BY <1>1, <1>3, <1>4 DEF r, Queue

\* erase of the first one.
LEMMA TailRemoves ==
    ASSUME NEW S, NEW q, Queue(q, S), q # <<>>
    PROVE  Head(q) \in S /\ Queue(Tail(q), S \ {Head(q)})
<1>0. q \in Seq(Int) /\ Len(q) \in Nat \ {0} /\ DOMAIN q = 1 .. Len(q) /\ Head(q) = q[1]
  BY EmptySeq DEF Queue
<1>1. /\ Tail(q) \in Seq(Int) /\ Len(Tail(q)) = Len(q) - 1 /\ DOMAIN Tail(q) = 1 .. Len(q) - 1
      /\ \A j \in 1 .. Len(q) - 1 : Tail(q)[j] = q[j + 1]
  BY <1>0, HeadTailProperties
<1> DEFINE r == Tail(q)
<1> HIDE DEF r
<1>2. Once(r)
  BY <1>0, <1>1 DEF r, Queue, Once
<1>3. q[1] \in S
  <2>1. 1 \in DOMAIN q
    BY <1>0
  <2> QED BY <2>1 DEF Queue, Queued
<1>4. Queued(r) = S \ {q[1]}
  <2>1. ASSUME NEW x \in Queued(r) PROVE x \in S \ {q[1]}
    <3>1. PICK j \in 1 .. Len(q) - 1 : x = q[j + 1]
      BY <1>1 DEF r, Queued
    <3>2. j + 1 \in DOMAIN q /\ j + 1 # 1 /\ 1 \in DOMAIN q
      BY <1>0
    <3> QED BY <3>1, <3>2 DEF Queue, Once, Queued
  <2>2. ASSUME NEW x \in S, x # q[1] PROVE x \in Queued(r)
    <3>1. PICK m \in 1 .. Len(q) : x = q[m]
      BY <1>0 DEF Queue, Queued
    <3>2. m - 1 \in 1 .. Len(q) - 1 /\ r[m - 1] = x
      BY <1>0, <1>1, <2>2, <3>1 DEF r
    <3> QED BY <1>1, <3>2 DEF r, Queued
  <2> QED BY <2>1, <2>2
<1> QED BY <1>0, <1>1, <1>2, <1>3, <1>4 DEF r, Queue

-----------------------------------------------------------------------------
(* Nodes, holders and the file *)

\* The fields of a cached block's node, and its key.
LEMMA NodeTyped ==
    ASSUME NEW n, NEW c \in Nat, NodesOK(n, c), NEW k \in DOMAIN n
    PROVE  /\ k \in Nat /\ k < c
           /\ n[k].users \in Nat /\ n[k].dirty \in BOOLEAN /\ n[k].old \in BOOLEAN
           /\ n[k].value \in Content
           /\ n[k] = [users |-> n[k].users, dirty |-> n[k].dirty, old |-> n[k].old, value |-> n[k].value]
<1>1. n[k] \in NodeRecord /\ k \in 0 .. c - 1
  BY DEF NodesOK
<1> QED BY <1>1 DEF NodeRecord

\* The users of a block are finitely many.
LEMMA UsersFinite ==
    ASSUME NEW d, NEW k
    PROVE  IsFiniteSet(Users(d, k)) /\ Cardinality(Users(d, k)) \in Nat
<1>1. IsFiniteSet(Users(d, k))
  BY CacheAssumption, FS_Subset DEF CacheAssumption, Users
<1> QED BY <1>1, FS_CardinalityType

\* Nobody has done anything to a block that has no user.
LEMMA FreeUntouched ==
    ASSUME NEW n, NEW d, HeldOK(n, d), NEW k \in DOMAIN n, n[k].users = 0
    PROVE  Users(d, k) = {} /\ \A S : ~Touched(d, k, S)
<1>1. Cardinality(Users(d, k)) = 0
  BY DEF HeldOK
<1>2. Users(d, k) = {}
  BY <1>1, UsersFinite, FS_EmptySet
<1> QED BY <1>2 DEF Users, Touched

\* What a holder of block k that did w to it remembers
Holding(k, w) == [key |-> k, did |-> w]

\* What the holders remember after h's changed to r
With(d, h, r) == [d EXCEPT ![h] = r]

\* Only one holder's record changes.
LEMMA WithFacts ==
    ASSUME NEW d \in [Holder -> [key : Int, did : Doing]], NEW h \in Holder,
           NEW r \in [key : Int, did : Doing]
    PROVE  /\ With(d, h, r) \in [Holder -> [key : Int, did : Doing]]
           /\ \A g \in Holder : With(d, h, r)[g] = IF g = h THEN r ELSE d[g]
BY DEF With

\* A holder that takes, changes or puts back block k disturbs no other block.
LEMMA OthersUndisturbed ==
    ASSUME NEW d \in [Holder -> [key : Int, did : Doing]], NEW h \in Holder,
           NEW r \in [key : Int, did : Doing], NEW k,
           d[h].key \in {k, -1}, r.key \in {k, -1}, NEW j \in Nat, j # k
    PROVE  /\ Users(With(d, h, r), j) = Users(d, j)
           /\ \A S : Touched(With(d, h, r), j, S) <=> Touched(d, j, S)
<1> DEFINE e == With(d, h, r)
<1>1. d[h].key # j /\ r.key # j
  OBVIOUS
<1>2. \A g \in Holder : e[g] = IF g = h THEN r ELSE d[g]
  BY WithFacts
<1> HIDE DEF e
<1>3. \A g \in Holder : e[g].key = j <=> d[g].key = j
  BY <1>1, <1>2
<1>4. \A g \in Holder : e[g].key = j => e[g] = d[g]
  BY <1>1, <1>2
<1>5. Users(e, j) = Users(d, j)
  BY <1>3 DEF Users
<1>6. \A S : Touched(e, j, S) <=> Touched(d, j, S)
  BY <1>3, <1>4 DEF Touched
<1> QED BY <1>5, <1>6 DEF e

\* The file after an update: the blocks written are as in the cache, the others as
\* they were, and it is no longer than what the cache counts.
LEMMA UpdatedFacts ==
    ASSUME CacheInv, NEW S \in SUBSET Cached
    PROVE  /\ FileOK(Updated(S), total)
           /\ Len(Updated(S)) >= Len(file)
           /\ (\E k \in S : k >= Len(file)) => Len(Updated(S)) = total
           /\ \A k \in S : k < Len(Updated(S)) /\ Updated(S)[k + 1] = node[k].value
           /\ \A k \in Nat \ S : k < Len(file) => Updated(S)[k + 1] = file[k + 1]
<1>0. /\ total \in Nat /\ file \in Seq(Content) /\ Len(file) \in Nat /\ Len(file) <= total
      /\ NodesOK(node, total)
  BY DEF CacheInv, CacheOK, FileOK
<1>1. \A k \in S : k \in Nat /\ k < total /\ node[k].value \in Content
  BY <1>0, NodeTyped DEF Cached
<1>2. \A i \in 1 .. Len(file) : file[i] \in Content
  BY <1>0
<1> DEFINE n == IF \E k \in S : k >= Len(file) THEN total ELSE Len(file)
           b(i) == IF i - 1 \in S THEN node[i - 1].value
                   ELSE IF i <= Len(file) THEN file[i] ELSE 0
<1>3. Updated(S) = [i \in 1 .. n |-> b(i)]
  BY DEF Updated
<1>4. n \in Nat /\ n >= Len(file) /\ n <= total /\ \A k \in S : k + 1 \in 1 .. n
  BY <1>0, <1>1
<1>5. \A i \in 1 .. n : b(i) \in Content
  BY <1>1, <1>2, <1>4, CacheAssumption DEF CacheAssumption
<1>6. (\E k \in S : k >= Len(file)) => n = total
  OBVIOUS
<1>7. \A k \in S : b(k + 1) = node[k].value
  BY <1>1
<1>8. \A k \in Nat \ S : k < Len(file) => b(k + 1) = file[k + 1]
  BY <1>0
<1> HIDE DEF n, b
<1>9. Updated(S) \in Seq(Content) /\ Len(Updated(S)) = n
  BY <1>3, <1>4, <1>5, IsASeq
<1>10. \A k \in Nat : k + 1 \in 1 .. n => Updated(S)[k + 1] = b(k + 1)
  BY <1>3
<1>11. \A k \in S : k < n /\ Updated(S)[k + 1] = node[k].value
  BY <1>1, <1>4, <1>7, <1>10
<1>12. \A k \in Nat \ S : k < Len(file) => Updated(S)[k + 1] = file[k + 1]
  BY <1>0, <1>4, <1>8, <1>10
<1> QED BY <1>0, <1>4, <1>6, <1>9, <1>11, <1>12 DEF FileOK

-----------------------------------------------------------------------------
(* A block leaves the cache *)

\* The queues after a block that nobody holds has left the cache.
LEMMA QueuesWithout ==
    ASSUME NEW n, NEW t, NEW p, NEW o, QueuesOK(n, t, p, o), NEW v
    PROVE  QueuesOK(Drop(n, v), Unqueued(t, v), Unqueued(p, v), Unqueued(o, v))
<1>1. \A k \in DOMAIN n \ {v} : Drop(n, v)[k] = n[k]
  BY DEF Drop
<1>2. DOMAIN Drop(n, v) = DOMAIN n \ {v}
  BY DEF Drop
<1>3. /\ Young(Drop(n, v)) = Young(n) \ {v}
      /\ Aged(Drop(n, v)) = Aged(n) \ {v}
      /\ Changed(Drop(n, v)) = Changed(n) \ {v}
  BY <1>1, <1>2 DEF Young, Aged, Changed
<1> QED BY <1>3, UnqueuedRemoves DEF QueuesOK

\* What reserve_space and remove do to a block that nobody holds: if it was changed
\* it is written first, so the file has its last state; if not, it had it already.
LEMMA Evicted ==
    ASSUME CacheInv, NEW v \in Cached, node[v].users = 0
    PROVE  CacheOK(Drop(node, v), Unqueued(temporary, v), Unqueued(persistent, v),
                   Unqueued(obsolete, v), FileAfterEviction(v), total, holds, latest)
<1> DEFINE n == Drop(node, v)
           f == FileAfterEviction(v)
<1>0. /\ FileOK(file, total) /\ NodesOK(node, total) /\ HeldOK(node, holds)
      /\ KeptOK(node, file, total, holds, latest)
      /\ QueuesOK(node, temporary, persistent, obsolete)
      /\ total \in Nat /\ Len(file) \in Nat /\ Len(file) <= total
  BY DEF CacheInv, CacheOK, FileOK
<1>1. DOMAIN n = DOMAIN node \ {v} /\ \A k \in DOMAIN node \ {v} : n[k] = node[k]
  BY DEF Drop
<1>2. Users(holds, v) = {} /\ \A S : ~Touched(holds, v, S)
  BY <1>0, FreeUntouched DEF Cached
<1>3. v \in Nat /\ v < total /\ node[v].dirty \in BOOLEAN
  BY <1>0, NodeTyped DEF Cached
<1>4. /\ FileOK(f, total) /\ Len(f) \in Nat /\ Len(f) >= Len(file)
      /\ \A k \in Nat \ {v} : k < Len(file) => f[k + 1] = file[k + 1]
      /\ v < Len(f) /\ f[v + 1] = node[v].value
  <2>1. CASE node[v].dirty
    <3>1. f = Updated({v})
      BY <2>1 DEF FileAfterEviction
    <3>2. {v} \in SUBSET Cached
      OBVIOUS
    <3>3. /\ FileOK(Updated({v}), total) /\ Len(Updated({v})) >= Len(file)
          /\ \A k \in {v} : k < Len(Updated({v})) /\ Updated({v})[k + 1] = node[k].value
          /\ \A k \in Nat \ {v} : k < Len(file) => Updated({v})[k + 1] = file[k + 1]
      BY <3>2, UpdatedFacts
    <3>4. FileOK(f, total) /\ Len(f) >= Len(file) /\ v < Len(f) /\ f[v + 1] = node[v].value
          /\ \A k \in Nat \ {v} : k < Len(file) => f[k + 1] = file[k + 1]
      BY <3>1, <3>3
    <3> QED BY <3>4 DEF FileOK
  <2>2. CASE ~node[v].dirty
    <3>1. f = file
      BY <2>2 DEF FileAfterEviction
    <3>2. v < Len(file) /\ node[v].value = file[v + 1]
      BY <1>0, <1>2, <2>2 DEF KeptOK, Cached
    <3> QED BY <1>0, <3>1, <3>2
  <2> QED BY <2>1, <2>2
<1> HIDE DEF n, f
<1>5. NodesOK(n, total)
  <2>1. \A k \in DOMAIN n : n[k] \in NodeRecord
    BY <1>0, <1>1 DEF NodesOK
  <2>2. n = [k \in DOMAIN n |-> n[k]]
    BY DEF n, Drop
  <2> QED BY <1>0, <1>1, <2>1, <2>2 DEF NodesOK
<1>6. HeldOK(n, holds)
  <2>1. \A h \in Holder : holds[h].key # v
    BY <1>2 DEF Users
  <2> QED BY <1>0, <1>1, <2>1 DEF HeldOK
<1>7. KeptOK(n, f, total, holds, latest)
  <2>1. ASSUME NEW k \in 0 .. total - 1 PROVE k \in DOMAIN n \/ k < Len(f)
    BY <1>0, <1>1, <1>4, <2>1 DEF KeptOK
  <2>2. ASSUME NEW k \in DOMAIN n, ~n[k].dirty
        PROVE  (k < Len(f) /\ n[k].value = f[k + 1]) \/ Touched(holds, k, {"took", "wrote"})
    <3>1. k \in Nat \ {v} /\ k \in DOMAIN node /\ n[k] = node[k]
      BY <1>0, <1>1, NodeTyped
    <3>2. (k < Len(file) /\ node[k].value = file[k + 1]) \/ Touched(holds, k, {"took", "wrote"})
      BY <1>0, <2>2, <3>1 DEF KeptOK
    <3> QED BY <1>0, <1>4, <3>1, <3>2
  <2>3. ASSUME NEW k \in DOMAIN latest
        PROVE  /\ k \in DOMAIN n => n[k].value = latest[k] \/ Touched(holds, k, {"took"})
               /\ k \notin DOMAIN n => f[k + 1] = latest[k]
    <3>1. k \in 0 .. total - 1
      BY <1>0 DEF KeptOK
    <3>2. /\ k \in DOMAIN node => node[k].value = latest[k] \/ Touched(holds, k, {"took"})
          /\ k \notin DOMAIN node => file[k + 1] = latest[k]
          /\ k \notin DOMAIN node => k < Len(file)
      BY <1>0, <3>1 DEF KeptOK
    <3>3. CASE k = v
      BY <1>1, <1>2, <1>4, <3>2, <3>3 DEF Cached
    <3>4. CASE k # v
      BY <1>1, <1>4, <3>1, <3>2, <3>4
    <3> QED BY <3>3, <3>4
  <2>4. DOMAIN latest \subseteq 0 .. total - 1
    BY <1>0 DEF KeptOK
  <2> QED BY <2>1, <2>2, <2>3, <2>4 DEF KeptOK
<1>8. QueuesOK(n, Unqueued(temporary, v), Unqueued(persistent, v), Unqueued(obsolete, v))
  BY <1>0, QueuesWithout DEF n
<1> QED BY <1>4, <1>5, <1>6, <1>7, <1>8 DEF n, f, CacheOK

\* The block that reserve_space takes is cached and nobody holds it.
LEMMA VictimIsFree ==
    ASSUME CacheInv, NEW v \in Victim
    PROVE  v \in Cached /\ node[v].users = 0
<1>1. /\ Queue(temporary, Young(node)) /\ Queue(persistent, Aged(node))
  BY DEF CacheInv, CacheOK, QueuesOK
<1>2. v \in Queued(temporary) \cup Queued(persistent)
  <2>1. CASE CleanOnes # {}
    BY <2>1 DEF Victim, CleanOnes, Queued
  <2>2. CASE CleanOnes = {} /\ temporary # <<>>
    <3>1. v = Head(temporary)
      BY <2>2 DEF Victim
    <3> QED BY <1>1, <2>2, <3>1, TailRemoves DEF Queue
  <2>3. CASE CleanOnes = {} /\ temporary = <<>>
    <3>1. persistent # <<>> /\ v = Head(persistent)
      BY <2>3 DEF Victim
    <3> QED BY <1>1, <3>1, TailRemoves DEF Queue
  <2> QED BY <2>1, <2>2, <2>3
<1> QED BY <1>1, <1>2 DEF Queue, Young, Aged, Cached

-----------------------------------------------------------------------------
(* A block enters the cache *)

\* The queues do not know a block that is loaded for its first user.
LEMMA QueuesWith ==
    ASSUME NEW n, NEW t, NEW p, NEW o, QueuesOK(n, t, p, o), NEW k, k \notin DOMAIN n, NEW x
    PROVE  QueuesOK(Set(n, k, NewNode(x)), t, p, o)
<1>1. /\ DOMAIN Set(n, k, NewNode(x)) = DOMAIN n \cup {k}
      /\ Set(n, k, NewNode(x))[k].users = 1
      /\ \A j \in DOMAIN n : Set(n, k, NewNode(x))[j] = n[j]
  BY DEF Set, NewNode
<1>2. /\ Young(Set(n, k, NewNode(x))) = Young(n)
      /\ Aged(Set(n, k, NewNode(x))) = Aged(n)
      /\ Changed(Set(n, k, NewNode(x))) = Changed(n)
  BY <1>1 DEF Young, Aged, Changed
<1> QED BY <1>2 DEF QueuesOK

\* A free object takes a block that was loaded for it, read from the file or with
\* anything in its memory; the block may be a new one, behind all others.
LEMMA Added ==
    ASSUME NEW n, NEW t, NEW p, NEW o, NEW f, NEW c, NEW d, NEW l, CacheOK(n, t, p, o, f, c, d, l),
           NEW k \in Nat, k \notin DOMAIN n, NEW e \in Nat,
           (e = c /\ k < c) \/ (e = c + 1 /\ k = c),
           NEW h \in Holder, d[h] = Nothing_, NEW x \in Content, NEW w \in {"read", "took"},
           w = "read" => k < Len(f) /\ x = f[k + 1]
    PROVE  CacheOK(Set(n, k, NewNode(x)), t, p, o, f, e, With(d, h, Holding(k, w)), l)
<1> DEFINE m == Set(n, k, NewNode(x))
           g == With(d, h, Holding(k, w))
<1>0. /\ FileOK(f, c) /\ NodesOK(n, c) /\ HeldOK(n, d) /\ KeptOK(n, f, c, d, l)
      /\ QueuesOK(n, t, p, o) /\ c \in Nat /\ Len(f) \in Nat /\ Len(f) <= c
  BY DEF CacheOK, FileOK
<1>1. DOMAIN m = DOMAIN n \cup {k} /\ m[k] = NewNode(x) /\ \A j \in DOMAIN n : m[j] = n[j]
  BY DEF Set
<1>2. /\ m[k].users = 1 /\ m[k].dirty = FALSE /\ m[k].old = FALSE /\ m[k].value = x
      /\ m[k] \in NodeRecord
  <2>1. m[k].users = 1 /\ m[k].dirty = FALSE /\ m[k].old = FALSE /\ m[k].value = x
    BY <1>1 DEF NewNode
  <2>2. NewNode(x) \in NodeRecord
    BY DEF NewNode, NodeRecord
  <2>3. m[k] \in NodeRecord
    BY <1>1, <2>2
  <2> QED BY <2>1, <2>3
<1>3. d \in [Holder -> [key : Int, did : Doing]] /\ Holding(k, w) \in [key : Int, did : Doing]
  BY <1>0 DEF HeldOK, Holding, Doing
<1>4. \A j \in DOMAIN n : j \in Nat /\ j # k /\ j < c
  BY <1>0, NodeTyped
<1>5. d[h].key = -1 /\ Holding(k, w).key = k /\ Holding(k, w).did = w
  BY DEF Nothing_, Holding
<1>6. \A j \in DOMAIN n : Users(g, j) = Users(d, j) /\ \A S : Touched(g, j, S) <=> Touched(d, j, S)
  BY <1>3, <1>4, <1>5, OthersUndisturbed
<1>7. /\ g \in [Holder -> [key : Int, did : Doing]]
      /\ \A i \in Holder : g[i] = IF i = h THEN Holding(k, w) ELSE d[i]
  <2>1. PICK r, S : r = Holding(k, w) /\ S = [key : Int, did : Doing]
    OBVIOUS
  <2>2. d \in [Holder -> S] /\ r \in S /\ g = [d EXCEPT ![h] = r]
    BY <1>3, <2>1, Zenon DEF With
  <2> HIDE DEF m, g
  <2>3. g \in [Holder -> S] /\ \A i \in Holder : g[i] = IF i = h THEN r ELSE d[i]
    BY <2>2
  <2> QED BY <2>1, <2>3, Zenon
<1>8. m = [j \in DOMAIN m |-> m[j]]
  BY DEF Set
<1> HIDE DEF m, g
<1>9. Users(g, k) = {h}
  <2>1. \A i \in Holder : d[i].key # k
    BY <1>0 DEF HeldOK, Nothing_
  <2> QED BY <1>5, <1>7, <2>1 DEF Users
<1>10. FileOK(f, e)
  BY <1>0 DEF FileOK
<1>11. NodesOK(m, e)
  <2>1. \A j \in DOMAIN m : m[j] \in NodeRecord /\ j \in 0 .. e - 1
    BY <1>0, <1>1, <1>2 DEF NodesOK
  <2> QED BY <1>8, <2>1 DEF NodesOK
<1>12. HeldOK(m, g)
  <2>1. ASSUME NEW i \in Holder
        PROVE  g[i] = Nothing_ \/ (g[i].key \in DOMAIN m /\ g[i].did # "nothing")
    BY <1>0, <1>1, <1>5, <1>7 DEF HeldOK
  <2>2. ASSUME NEW j \in DOMAIN m PROVE m[j].users = Cardinality(Users(g, j))
    <3>1. CASE j = k
      BY <1>2, <1>9, <3>1, FS_Singleton
    <3>2. CASE j \in DOMAIN n
      BY <1>0, <1>1, <1>6, <3>2 DEF HeldOK
    <3> QED BY <1>1, <3>1, <3>2
  <2> QED BY <1>7, <2>1, <2>2 DEF HeldOK
<1>13. KeptOK(m, f, e, g, l)
  <2>1. w = "took" => Touched(g, k, {"took", "wrote"}) /\ Touched(g, k, {"took"})
    BY <1>5, <1>7 DEF Touched
  <2>2. ASSUME NEW j \in 0 .. e - 1 PROVE j \in DOMAIN m \/ j < Len(f)
    <3>1. j = k \/ j \in 0 .. c - 1
      BY <1>0
    <3> QED BY <1>0, <1>1, <3>1 DEF KeptOK
  <2>3. ASSUME NEW j \in DOMAIN m, ~m[j].dirty
        PROVE  (j < Len(f) /\ m[j].value = f[j + 1]) \/ Touched(g, j, {"took", "wrote"})
    <3>1. CASE j = k
      BY <1>2, <2>1, <3>1
    <3>2. CASE j \in DOMAIN n
      BY <1>0, <1>1, <1>6, <2>3, <3>2 DEF KeptOK
    <3> QED BY <1>1, <3>1, <3>2
  <2>4. ASSUME NEW j \in DOMAIN l
        PROVE  /\ j \in DOMAIN m => m[j].value = l[j] \/ Touched(g, j, {"took"})
               /\ j \notin DOMAIN m => f[j + 1] = l[j]
    <3>1. /\ j \in DOMAIN n => n[j].value = l[j] \/ Touched(d, j, {"took"})
          /\ j \notin DOMAIN n => f[j + 1] = l[j]
      BY <1>0 DEF KeptOK
    <3>2. CASE j = k
      BY <1>2, <2>1, <3>1, <3>2
    <3>3. CASE j # k
      BY <1>1, <1>6, <3>1, <3>3
    <3> QED BY <3>2, <3>3
  <2>5. DOMAIN l \subseteq 0 .. e - 1
    BY <1>0 DEF KeptOK
  <2> QED BY <2>2, <2>3, <2>4, <2>5 DEF KeptOK
<1>14. QueuesOK(m, t, p, o)
  BY <1>0, QueuesWith DEF m
<1> QED BY <1>10, <1>11, <1>12, <1>13, <1>14 DEF m, g, CacheOK

\* get of a block that is not cached, by get_block: of a block of the tree or of a
\* new one behind them.
LEMMA LoadStep ==
    ASSUME CacheInv, NEW h \in Holder, holds[h] = Nothing_, NEW k \in Nat, k \notin Cached,
           NEW read_data \in BOOLEAN, Load(k, read_data), total' \in Nat, latest' = latest,
           (total' = total /\ k < total)
             \/ (total' = total + 1 /\ k = total /\ read_data = FALSE),
           holds' = With(holds, h, Holding(k, IF read_data THEN "read" ELSE "took"))
    PROVE  CacheInv'
<1> DEFINE w == IF read_data THEN "read" ELSE "took"
<1>0. w \in {"read", "took"} /\ (w = "read" <=> read_data)
  OBVIOUS
<1> HIDE DEF w
<1>1. CASE /\ can_create
           /\ \E x \in Created(file, k, read_data) : node' = Set(node, k, NewNode(x))
           /\ UNCHANGED <<temporary, persistent, obsolete, file>>
  <2>1. PICK x \in Created(file, k, read_data) : node' = Set(node, k, NewNode(x))
    BY <1>1
  <2>2. w = "read" => k < Len(file) /\ x = file[k + 1]
    BY <1>0, <2>1 DEF Created, CacheInv, CacheOK, KeptOK, FileOK, Cached
  <2>3. x \in Content
    BY <1>0, <2>1, <2>2 DEF Created, CacheInv, CacheOK, FileOK
  <2>4. CacheOK(Set(node, k, NewNode(x)), temporary, persistent, obsolete, file, total',
                With(holds, h, Holding(k, w)), latest)
    BY <1>0, <2>2, <2>3, Added DEF CacheInv, Cached
  <2> QED BY <1>1, <2>1, <2>4 DEF CacheInv, w
<1>2. CASE /\ ~can_create
           /\ \E v \in Victim :
                 /\ file' = FileAfterEviction(v)
                 /\ \E x \in Created(file', k, read_data) :
                       node' = Set(Drop(node, v), k, NewNode(x))
                 /\ temporary' = Unqueued(temporary, v)
                 /\ persistent' = Unqueued(persistent, v)
                 /\ obsolete' = Unqueued(obsolete, v)
  <2>1. PICK v \in Victim :
           /\ file' = FileAfterEviction(v)
           /\ \E x \in Created(file', k, read_data) : node' = Set(Drop(node, v), k, NewNode(x))
           /\ temporary' = Unqueued(temporary, v)
           /\ persistent' = Unqueued(persistent, v)
           /\ obsolete' = Unqueued(obsolete, v)
    BY <1>2
  <2>2. PICK x \in Created(file', k, read_data) : node' = Set(Drop(node, v), k, NewNode(x))
    BY <2>1
  <2>3. CacheOK(Drop(node, v), temporary', persistent', obsolete', file', total, holds, latest)
    BY <2>1, VictimIsFree, Evicted
  <2>4. k \notin DOMAIN Drop(node, v)
    BY DEF Drop, Cached
  <2>5. w = "read" => k < Len(file') /\ x = file'[k + 1]
    BY <1>0, <2>2, <2>3, <2>4 DEF Created, CacheInv, CacheOK, KeptOK, FileOK
  <2>6. x \in Content
    BY <1>0, <2>2, <2>3, <2>5 DEF Created, CacheOK, FileOK
  <2>7. CacheOK(Set(Drop(node, v), k, NewNode(x)), temporary', persistent', obsolete', file', total',
                With(holds, h, Holding(k, w)), latest)
    BY <1>0, <2>3, <2>4, <2>5, <2>6, Added
  <2> QED BY <2>2, <2>7 DEF CacheInv, w
<1> QED BY <1>1, <1>2 DEF Load

-----------------------------------------------------------------------------
(* A cached block is taken, changed and put back *)

\* The node of one cached block changes.
LEMMA NodeReplaced ==
    ASSUME NEW n, NEW c, NodesOK(n, c), NEW k \in DOMAIN n, NEW r \in NodeRecord
    PROVE  /\ NodesOK([n EXCEPT ![k] = r], c)
           /\ DOMAIN [n EXCEPT ![k] = r] = DOMAIN n
           /\ \A j \in DOMAIN n : [n EXCEPT ![k] = r][j] = IF j = k THEN r ELSE n[j]
BY DEF NodesOK

\* The blocks of a node table that nobody holds, if only block k's node changed and
\* that is in use before and after.
LEMMA QueuesUnmoved ==
    ASSUME NEW n, NEW m, NEW t, NEW p, NEW o, QueuesOK(n, t, p, o), NEW k,
           DOMAIN m = DOMAIN n, \A j \in DOMAIN n : j # k => m[j] = n[j],
           k \in DOMAIN n => n[k].users # 0 /\ m[k].users # 0
    PROVE  QueuesOK(m, t, p, o)
<1>1. Young(m) = Young(n) /\ Aged(m) = Aged(n) /\ Changed(m) = Changed(n)
  BY DEF Young, Aged, Changed
<1> QED BY <1>1 DEF QueuesOK

\* get of a cached block: the first user takes it out of the queues.
LEMMA GetChangeStep ==
    ASSUME CacheInv, NEW h \in Holder, holds[h] = Nothing_, NEW k \in Cached,
           NEW w \in {"read", "took"}, GetChange(k), total' = total, latest' = latest,
           holds' = With(holds, h, Holding(k, w))
    PROVE  CacheInv'
<1>0. /\ FileOK(file, total) /\ NodesOK(node, total) /\ HeldOK(node, holds)
      /\ KeptOK(node, file, total, holds, latest)
      /\ QueuesOK(node, temporary, persistent, obsolete)
      /\ total \in Nat /\ k \in DOMAIN node
  BY DEF CacheInv, CacheOK, FileOK, Cached
<1>1. PICK u \in Nat, di \in BOOLEAN, ol \in BOOLEAN, va \in Content :
         node[k] = [users |-> u, dirty |-> di, old |-> ol, value |-> va]
  BY <1>0, NodeTyped
<1> DEFINE r == [users |-> u + 1, dirty |-> di, old |-> ol, value |-> va]
<1>2. node' = [node EXCEPT ![k] = r]
  <2>1. node' = [node EXCEPT ![k] = [node[k] EXCEPT !.users = node[k].users + 1]]
    BY DEF GetChange
  <2>2. [node[k] EXCEPT !.users = node[k].users + 1] = r
    BY <1>1
  <2> QED BY <2>1, <2>2
<1>3. r \in NodeRecord
  BY DEF NodeRecord
<1>4. /\ NodesOK(node', total) /\ DOMAIN node' = DOMAIN node
      /\ \A j \in DOMAIN node : node'[j] = IF j = k THEN r ELSE node[j]
  BY <1>0, <1>2, <1>3, NodeReplaced
<1>5. /\ node[k].users = u /\ node'[k].users = u + 1 /\ node'[k].dirty = node[k].dirty
      /\ node'[k].value = node[k].value
  BY <1>0, <1>1, <1>4
<1>6. holds \in [Holder -> [key : Int, did : Doing]] /\ Holding(k, w) \in [key : Int, did : Doing]
  BY <1>0, NodeTyped DEF HeldOK, Holding, Doing
<1>7. \A j \in DOMAIN node : j \in Nat /\ j < total
  BY <1>0, NodeTyped
<1>8. holds[h].key = -1 /\ Holding(k, w).key = k /\ Holding(k, w).did = w
  BY DEF Nothing_, Holding
<1>9. \A j \in DOMAIN node : j # k =>
          Users(holds', j) = Users(holds, j) /\ \A S : Touched(holds', j, S) <=> Touched(holds, j, S)
  BY <1>6, <1>7, <1>8, OthersUndisturbed
<1>10. /\ holds' \in [Holder -> [key : Int, did : Doing]]
       /\ \A i \in Holder : holds'[i] = IF i = h THEN Holding(k, w) ELSE holds[i]
  BY <1>6, WithFacts
<1>11. \A S : Touched(holds, k, S) => Touched(holds', k, S)
  BY <1>0, <1>7, <1>8, <1>10 DEF Touched
<1> HIDE DEF r
<1>12. HeldOK(node', holds')
  <2>1. ASSUME NEW i \in Holder
        PROVE  holds'[i] = Nothing_ \/ (holds'[i].key \in DOMAIN node' /\ holds'[i].did # "nothing")
    BY <1>0, <1>4, <1>8, <1>10 DEF HeldOK
  <2>2. node'[k].users = Cardinality(Users(holds', k))
    <3>1. h \notin Users(holds, k) /\ Users(holds', k) = Users(holds, k) \cup {h}
      BY <1>0, <1>7, <1>8, <1>10 DEF Users
    <3>2. Cardinality(Users(holds, k)) = u
      BY <1>0, <1>5 DEF HeldOK
    <3>3. Cardinality(Users(holds, k) \cup {h}) = u + 1
      BY <3>1, <3>2, UsersFinite, FS_AddElement
    <3> QED BY <1>5, <3>1, <3>3
  <2>3. ASSUME NEW j \in DOMAIN node, j # k PROVE node'[j].users = Cardinality(Users(holds', j))
    BY <1>0, <1>4, <1>9, <2>3 DEF HeldOK
  <2> QED BY <1>4, <1>10, <2>1, <2>2, <2>3 DEF HeldOK
<1>13. KeptOK(node', file, total, holds', latest)
  <2>1. \A j \in 0 .. total - 1 : j \in DOMAIN node' \/ j < Len(file)
    BY <1>0, <1>4 DEF KeptOK
  <2>2. ASSUME NEW j \in DOMAIN node', ~node'[j].dirty
        PROVE  \/ j < Len(file) /\ node'[j].value = file[j + 1]
               \/ Touched(holds', j, {"took", "wrote"})
    <3>1. j \in DOMAIN node /\ node'[j].dirty = node[j].dirty /\ node'[j].value = node[j].value
      BY <1>4, <1>5
    <3>2. (j < Len(file) /\ node[j].value = file[j + 1]) \/ Touched(holds, j, {"took", "wrote"})
      BY <1>0, <2>2, <3>1 DEF KeptOK
    <3> QED BY <1>9, <1>11, <3>1, <3>2
  <2>3. ASSUME NEW j \in DOMAIN latest
        PROVE  /\ j \in DOMAIN node' => node'[j].value = latest[j] \/ Touched(holds', j, {"took"})
               /\ j \notin DOMAIN node' => file[j + 1] = latest[j]
    <3>1. /\ j \in DOMAIN node => node[j].value = latest[j] \/ Touched(holds, j, {"took"})
          /\ j \notin DOMAIN node => file[j + 1] = latest[j]
      BY <1>0 DEF KeptOK
    <3> QED BY <1>4, <1>5, <1>9, <1>11, <3>1
  <2> QED BY <1>0, <2>1, <2>2, <2>3 DEF KeptOK
<1>14. QueuesOK(node', temporary', persistent', obsolete')
  <2>1. CASE u > 0
    <3>1. UNCHANGED <<temporary, persistent, obsolete>>
      BY <1>5, <2>1 DEF GetChange
    <3>2. QueuesOK(node', temporary, persistent, obsolete)
      BY <1>0, <1>4, <1>5, <2>1, QueuesUnmoved
    <3> QED BY <3>1, <3>2
  <2>2. CASE u = 0
    <3>1. /\ temporary' = Unqueued(temporary, k)
          /\ persistent' = Unqueued(persistent, k)
          /\ obsolete' = Unqueued(obsolete, k)
      BY <1>5, <2>2 DEF GetChange
    <3>2. /\ Young(node') = Young(node) \ {k}
          /\ Aged(node') = Aged(node) \ {k}
          /\ Changed(node') = Changed(node) \ {k}
      BY <1>4, <1>5, <2>2 DEF Young, Aged, Changed
    <3> QED BY <1>0, <3>1, <3>2, UnqueuedRemoves DEF QueuesOK
  <2> QED BY <2>1, <2>2
<1>15. file' = file
  BY DEF GetChange
<1> QED BY <1>0, <1>4, <1>12, <1>13, <1>14, <1>15 DEF CacheInv, CacheOK

\* A holder changes its block in place; it had set the whole block if it did not
\* know what is in it.
LEMMA ChangeBlockStep ==
    ASSUME CacheInv, NEW h \in Holder, NEW x \in Content, ChangeBlock(h, x)
    PROVE  CacheInv'
<1>0. /\ FileOK(file, total) /\ NodesOK(node, total) /\ HeldOK(node, holds)
      /\ KeptOK(node, file, total, holds, latest)
      /\ QueuesOK(node, temporary, persistent, obsolete) /\ total \in Nat
  BY DEF CacheInv, CacheOK, FileOK
<1> DEFINE k == holds[h].key
<1>1. holds \in [Holder -> [key : Int, did : Doing]] /\ k \in DOMAIN node /\ k \in Int
  BY <1>0 DEF ChangeBlock, HeldOK
<1>2. PICK u \in Nat, di \in BOOLEAN, ol \in BOOLEAN, va \in Content :
         node[k] = [users |-> u, dirty |-> di, old |-> ol, value |-> va]
  BY <1>0, <1>1, NodeTyped
<1> DEFINE r == [users |-> u, dirty |-> di, old |-> ol, value |-> x]
<1>3. node' = [node EXCEPT ![k] = r]
  <2>1. node' = [node EXCEPT ![k] = [node[k] EXCEPT !.value = x]]
    BY DEF ChangeBlock
  <2>2. [node[k] EXCEPT !.value = x] = r
    BY <1>2
  <2> QED BY <2>1, <2>2
<1>4. r \in NodeRecord
  BY DEF NodeRecord
<1>5. holds' = With(holds, h, Holding(k, "wrote"))
  <2>1. holds' = [holds EXCEPT ![h] = [holds[h] EXCEPT !.did = "wrote"]]
    BY DEF ChangeBlock
  <2>2. holds[h] \in [key : Int, did : Doing]
    BY <1>1
  <2>3. [holds[h] EXCEPT !.did = "wrote"] = Holding(k, "wrote")
    BY <2>2 DEF Holding
  <2> QED BY <2>1, <2>3 DEF With
<1>6. latest' = Set(latest, k, x)
  BY DEF ChangeBlock
<1>7. UNCHANGED <<temporary, persistent, obsolete, file, total>>
  BY DEF ChangeBlock
<1>8. Holding(k, "wrote") \in [key : Int, did : Doing] /\ Holding(k, "wrote").key = k
  BY <1>1 DEF Holding, Doing
<1>9. /\ NodesOK(node', total) /\ DOMAIN node' = DOMAIN node
      /\ \A j \in DOMAIN node : node'[j] = IF j = k THEN r ELSE node[j]
  BY <1>0, <1>1, <1>3, <1>4, NodeReplaced
<1>10. \A j \in DOMAIN node : j \in Nat /\ j < total
  BY <1>0, NodeTyped
<1>11. k = holds[h].key
  OBVIOUS
<1>12. \A j \in DOMAIN node : j # k =>
          Users(holds', j) = Users(holds, j) /\ \A S : Touched(holds', j, S) <=> Touched(holds, j, S)
  BY <1>1, <1>5, <1>8, <1>10, <1>11, OthersUndisturbed
<1>13. /\ holds' \in [Holder -> [key : Int, did : Doing]]
       /\ \A i \in Holder : holds'[i] = IF i = h THEN Holding(k, "wrote") ELSE holds[i]
  BY <1>1, <1>5, <1>8, WithFacts
<1>14. /\ DOMAIN latest' = DOMAIN latest \cup {k} /\ latest'[k] = x
       /\ \A j \in DOMAIN latest : j # k => latest'[j] = latest[j]
  BY <1>6 DEF Set
<1>15. /\ node[k].users = u /\ r.users = u /\ node'[k].users = u /\ node'[k].value = x
       /\ node'[k].dirty = node[k].dirty /\ node'[k].old = node[k].old
  BY <1>1, <1>2, <1>9
<1> HIDE DEF r, k
<1>16. HeldOK(node', holds')
  <2>1. ASSUME NEW i \in Holder
        PROVE  holds'[i] = Nothing_ \/ (holds'[i].key \in DOMAIN node' /\ holds'[i].did # "nothing")
    BY <1>0, <1>1, <1>8, <1>9, <1>13 DEF HeldOK, Holding
  <2>2. Users(holds', k) = Users(holds, k)
    BY <1>8, <1>11, <1>13 DEF Users
  <2>3. ASSUME NEW j \in DOMAIN node PROVE node'[j].users = Cardinality(Users(holds', j))
    <3>1. Users(holds', j) = Users(holds, j) /\ node'[j].users = node[j].users
      BY <1>9, <1>12, <1>15, <2>2
    <3> QED BY <1>0, <3>1 DEF HeldOK
  <2> QED BY <1>9, <1>13, <2>1, <2>3 DEF HeldOK
<1>17. KeptOK(node', file, total, holds', latest')
  <2>1. Touched(holds', k, {"took", "wrote"})
    BY <1>13 DEF Touched, Holding
  <2>2. \A j \in 0 .. total - 1 : j \in DOMAIN node' \/ j < Len(file)
    BY <1>0, <1>9 DEF KeptOK
  <2>3. ASSUME NEW j \in DOMAIN node', ~node'[j].dirty
        PROVE  \/ j < Len(file) /\ node'[j].value = file[j + 1]
               \/ Touched(holds', j, {"took", "wrote"})
    <3>1. CASE j = k
      BY <2>1, <3>1
    <3>2. CASE j # k
      BY <1>0, <1>9, <1>12, <2>3, <3>2 DEF KeptOK
    <3> QED BY <3>1, <3>2
  <2>4. ASSUME NEW j \in DOMAIN latest'
        PROVE  /\ j \in DOMAIN node' => node'[j].value = latest'[j] \/ Touched(holds', j, {"took"})
               /\ j \notin DOMAIN node' => file[j + 1] = latest'[j]
    <3>1. CASE j = k
      BY <1>1, <1>9, <1>14, <1>15, <3>1
    <3>2. CASE j # k
      BY <1>0, <1>9, <1>12, <1>14, <3>2 DEF KeptOK
    <3> QED BY <3>1, <3>2
  <2>5. DOMAIN latest' \subseteq 0 .. total - 1
    BY <1>0, <1>1, <1>10, <1>14 DEF KeptOK
  <2> QED BY <2>2, <2>3, <2>4, <2>5 DEF KeptOK
<1>18. QueuesOK(node', temporary, persistent, obsolete)
  <2>1. \A j \in DOMAIN node : /\ node'[j].users = node[j].users /\ node'[j].dirty = node[j].dirty
                              /\ node'[j].old = node[j].old
    BY <1>9, <1>15
  <2>2. Young(node') = Young(node) /\ Aged(node') = Aged(node) /\ Changed(node') = Changed(node)
    BY <1>9, <2>1 DEF Young, Aged, Changed
  <2> QED BY <1>0, <2>2 DEF QueuesOK
<1> QED BY <1>0, <1>7, <1>9, <1>16, <1>17, <1>18 DEF CacheInv, CacheOK

\* A holder puts its block back: the last user queues it, by its age and as changed.
LEMMA PutBlockStep ==
    ASSUME CacheInv, NEW h \in Holder, NEW late \in BOOLEAN, PutBlock(h, late)
    PROVE  CacheInv'
<1>0. /\ FileOK(file, total) /\ NodesOK(node, total) /\ HeldOK(node, holds)
      /\ KeptOK(node, file, total, holds, latest)
      /\ QueuesOK(node, temporary, persistent, obsolete) /\ total \in Nat
  BY DEF CacheInv, CacheOK, FileOK
<1> DEFINE k == holds[h].key
           wrote == holds[h].did = "wrote"
<1>1. /\ holds \in [Holder -> [key : Int, did : Doing]]
      /\ holds[h].did \in {"read", "wrote"} /\ k \in DOMAIN node /\ k \in Int
  BY <1>0 DEF PutBlock, HeldOK, Nothing_
<1>2. PICK u \in Nat, di \in BOOLEAN, ol \in BOOLEAN, va \in Content :
         node[k] = [users |-> u, dirty |-> di, old |-> ol, value |-> va]
  BY <1>0, <1>1, NodeTyped
<1>3. PICK di2 \in BOOLEAN : di2 = (di \/ wrote)
  OBVIOUS
<1>4. PICK ol2 \in BOOLEAN : ol2 = (ol \/ (late /\ u = 1))
  OBVIOUS
<1>5. u = Cardinality(Users(holds, k)) /\ h \in Users(holds, k) /\ u - 1 \in Nat
  <2>1. u = Cardinality(Users(holds, k))
    BY <1>0, <1>1, <1>2 DEF HeldOK
  <2>2. h \in Users(holds, k)
    BY DEF Users
  <2>3. u # 0
    BY <2>1, <2>2, UsersFinite, FS_EmptySet
  <2> QED BY <2>1, <2>2, <2>3
<1> DEFINE r == [users |-> u - 1, dirty |-> di2, old |-> ol2, value |-> va]
<1>6. /\ node' = [node EXCEPT ![k] = r]
      /\ IF r.users > 0 THEN UNCHANGED <<temporary, persistent, obsolete>>
         ELSE /\ persistent' = IF r.old THEN Append(persistent, k) ELSE persistent
              /\ temporary' = IF r.old THEN temporary ELSE Append(temporary, k)
              /\ obsolete' = IF r.dirty THEN Append(obsolete, k) ELSE obsolete
  <2>1. PutChange(k, wrote, late)
    BY DEF PutBlock
  <2>2. [users |-> node[k].users - 1, dirty |-> node[k].dirty \/ wrote,
         old |-> node[k].old \/ (late /\ node[k].users = 1), value |-> node[k].value] = r
    <3> HIDE DEF wrote
    <3>1. node[k].users = u /\ node[k].dirty = di /\ node[k].old = ol /\ node[k].value = va
      BY <1>2
    <3>2. (node[k].dirty \/ wrote) = di2 /\ (node[k].old \/ (late /\ node[k].users = 1)) = ol2
      BY <1>3, <1>4, <3>1
    <3> QED BY <3>1, <3>2
  <2> HIDE DEF r, wrote
  <2> QED BY <2>1, <2>2 DEF PutChange
<1>7. r \in NodeRecord /\ r.users = u - 1 /\ r.dirty = di2 /\ r.old = ol2 /\ r.value = va
  BY <1>5 DEF NodeRecord
<1>8. holds' = With(holds, h, Nothing_)
  BY DEF PutBlock, With
<1>9. UNCHANGED <<file, total, latest>>
  BY DEF PutBlock
<1>10. Nothing_ \in [key : Int, did : Doing] /\ Nothing_.key = -1
  BY DEF Nothing_, Doing
<1>11. /\ NodesOK(node', total) /\ DOMAIN node' = DOMAIN node
       /\ \A j \in DOMAIN node : node'[j] = IF j = k THEN r ELSE node[j]
  <2>1. node' = [node EXCEPT ![k] = r]
    BY <1>6
  <2> HIDE DEF r, k
  <2> QED BY <1>0, <1>1, <1>7, <2>1, NodeReplaced
<1>12. \A j \in DOMAIN node : j \in Nat /\ j < total
  BY <1>0, NodeTyped
<1>13. k = holds[h].key
  OBVIOUS
<1>14. \A j \in DOMAIN node : j # k =>
          Users(holds', j) = Users(holds, j) /\ \A S : Touched(holds', j, S) <=> Touched(holds, j, S)
  BY <1>1, <1>8, <1>10, <1>12, <1>13, OthersUndisturbed
<1>15. /\ holds' \in [Holder -> [key : Int, did : Doing]]
       /\ \A i \in Holder : holds'[i] = IF i = h THEN Nothing_ ELSE holds[i]
  BY <1>1, <1>8, <1>10, WithFacts
<1>16. /\ node[k].users = u /\ node[k].dirty = di /\ node[k].old = ol /\ node[k].value = va
       /\ node'[k] = r
  BY <1>1, <1>2, <1>11
<1>17. di2 \in BOOLEAN /\ (di2 <=> di \/ wrote) /\ (ol2 <=> ol \/ (late /\ u = 1))
  BY <1>3, <1>4
<1>18. wrote <=> holds[h].did = "wrote"
  OBVIOUS
<1> HIDE DEF r, k, wrote
<1>19. HeldOK(node', holds')
  <2>1. ASSUME NEW i \in Holder
        PROVE  holds'[i] = Nothing_ \/ (holds'[i].key \in DOMAIN node' /\ holds'[i].did # "nothing")
    BY <1>0, <1>11, <1>15 DEF HeldOK
  <2>2. node'[k].users = Cardinality(Users(holds', k))
    <3>1. Users(holds', k) = Users(holds, k) \ {h}
      BY <1>1, <1>10, <1>12, <1>15 DEF Users
    <3>2. Cardinality(Users(holds, k) \ {h}) = u - 1
      BY <1>5, UsersFinite, FS_RemoveElement
    <3> QED BY <1>7, <1>16, <3>1, <3>2
  <2>3. ASSUME NEW j \in DOMAIN node, j # k PROVE node'[j].users = Cardinality(Users(holds', j))
    BY <1>0, <1>11, <1>14, <2>3 DEF HeldOK
  <2> QED BY <1>11, <1>15, <2>1, <2>2, <2>3 DEF HeldOK
<1>20. KeptOK(node', file, total, holds', latest)
  <2>1. Touched(holds, k, {"took"}) => Touched(holds', k, {"took"})
    BY <1>1, <1>15 DEF Touched
  <2>2. Touched(holds, k, {"took", "wrote"}) /\ ~wrote => Touched(holds', k, {"took", "wrote"})
    BY <1>1, <1>15, <1>18 DEF Touched
  <2>3. \A j \in 0 .. total - 1 : j \in DOMAIN node' \/ j < Len(file)
    BY <1>0, <1>11 DEF KeptOK
  <2>4. ASSUME NEW j \in DOMAIN node', ~node'[j].dirty
        PROVE  \/ j < Len(file) /\ node'[j].value = file[j + 1]
               \/ Touched(holds', j, {"took", "wrote"})
    <3>1. CASE j = k
      <4>1. ~di /\ ~wrote
        BY <1>7, <1>16, <1>17, <2>4, <3>1
      <4>2. (k < Len(file) /\ node[k].value = file[k + 1]) \/ Touched(holds, k, {"took", "wrote"})
        BY <1>0, <1>1, <1>16, <4>1 DEF KeptOK
      <4> QED BY <1>7, <1>16, <2>2, <3>1, <4>1, <4>2
    <3>2. CASE j # k
      BY <1>0, <1>11, <1>14, <2>4, <3>2 DEF KeptOK
    <3> QED BY <3>1, <3>2
  <2>5. ASSUME NEW j \in DOMAIN latest
        PROVE  /\ j \in DOMAIN node' => node'[j].value = latest[j] \/ Touched(holds', j, {"took"})
               /\ j \notin DOMAIN node' => file[j + 1] = latest[j]
    <3>1. /\ j \in DOMAIN node => node[j].value = latest[j] \/ Touched(holds, j, {"took"})
          /\ j \notin DOMAIN node => file[j + 1] = latest[j]
      BY <1>0 DEF KeptOK
    <3>2. CASE j = k
      BY <1>7, <1>11, <1>16, <2>1, <3>1, <3>2
    <3>3. CASE j # k
      BY <1>11, <1>14, <3>1, <3>3
    <3> QED BY <3>2, <3>3
  <2> QED BY <1>0, <2>3, <2>4, <2>5 DEF KeptOK
<1>21. QueuesOK(node', temporary', persistent', obsolete')
  <2>1. CASE u - 1 > 0
    <3>1. UNCHANGED <<temporary, persistent, obsolete>>
      BY <1>6, <1>7, <2>1
    <3>2. node[k].users # 0 /\ node'[k].users # 0
      BY <1>5, <1>7, <1>16, <2>1
    <3>3. QueuesOK(node', temporary, persistent, obsolete)
      BY <1>0, <1>11, <3>2, QueuesUnmoved
    <3> QED BY <3>1, <3>3
  <2>2. CASE u - 1 = 0
    <3>1. node[k].users # 0 /\ node'[k].users = 0 /\ (node'[k].old <=> ol2) /\ (node'[k].dirty <=> di2)
      BY <1>5, <1>7, <1>16, <2>2
    <3>2. k \notin Young(node) /\ k \notin Aged(node) /\ k \notin Changed(node)
      BY <3>1 DEF Young, Aged, Changed
    <3>3. /\ persistent' = IF ol2 THEN Append(persistent, k) ELSE persistent
          /\ temporary' = IF ol2 THEN temporary ELSE Append(temporary, k)
          /\ obsolete' = IF di2 THEN Append(obsolete, k) ELSE obsolete
      BY <1>6, <1>7, <2>2
    <3>4. \A j \in DOMAIN node : j # k => node'[j] = node[j]
      BY <1>11
    <3>5. /\ Young(node') = IF ol2 THEN Young(node) ELSE Young(node) \cup {k}
          /\ Aged(node') = IF ol2 THEN Aged(node) \cup {k} ELSE Aged(node)
          /\ Changed(node') = IF di2 THEN Changed(node) \cup {k} ELSE Changed(node)
      BY <1>1, <1>11, <3>1, <3>2, <3>4 DEF Young, Aged, Changed
    <3>6. Queue(temporary', Young(node'))
      BY <1>0, <1>1, <3>2, <3>3, <3>5, AppendAdds DEF QueuesOK
    <3>7. Queue(persistent', Aged(node'))
      BY <1>0, <1>1, <3>2, <3>3, <3>5, AppendAdds DEF QueuesOK
    <3>8. Queue(obsolete', Changed(node'))
      BY <1>0, <1>1, <3>2, <3>3, <3>5, AppendAdds DEF QueuesOK
    <3> QED BY <3>6, <3>7, <3>8 DEF QueuesOK
  <2> QED BY <1>5, <2>1, <2>2
<1> QED BY <1>0, <1>9, <1>11, <1>19, <1>20, <1>21 DEF CacheInv, CacheOK

-----------------------------------------------------------------------------
(* Blocks are written *)

\* The empty queue
LEMMA NoQueue == Queue(<<>>, {})
BY EmptySeq DEF Queue, Once, Queued

\* update: changed blocks that nobody holds are written and leave _obsolete.
LEMMA FlushStep ==
    ASSUME CacheInv, NEW S \in SUBSET Changed(node), Flush(S), Queue(obsolete', Changed(node) \ S)
    PROVE  CacheInv'
<1>0. /\ FileOK(file, total) /\ NodesOK(node, total) /\ HeldOK(node, holds)
      /\ KeptOK(node, file, total, holds, latest)
      /\ QueuesOK(node, temporary, persistent, obsolete) /\ total \in Nat
      /\ Len(file) \in Nat
  BY DEF CacheInv, CacheOK, FileOK
<1>1. S \in SUBSET Cached
  BY DEF Changed, Cached
<1>2. /\ file' = Updated(S)
      /\ node' = [k \in Cached |-> [node[k] EXCEPT !.dirty = @ /\ k \notin S]]
      /\ UNCHANGED <<temporary, persistent, total, holds, latest>>
  BY DEF Flush
<1>3. /\ FileOK(file', total) /\ Len(file') >= Len(file) /\ Len(file') \in Nat
      /\ \A k \in S : k < Len(file') /\ file'[k + 1] = node[k].value
      /\ \A k \in Nat \ S : k < Len(file) => file'[k + 1] = file[k + 1]
  <2>1. /\ FileOK(file', total) /\ Len(file') >= Len(file)
        /\ \A k \in S : k < Len(file') /\ file'[k + 1] = node[k].value
        /\ \A k \in Nat \ S : k < Len(file) => file'[k + 1] = file[k + 1]
    BY <1>1, <1>2, UpdatedFacts
  <2> QED BY <2>1 DEF FileOK
<1>4. DOMAIN node' = DOMAIN node
  BY <1>2 DEF Cached
<1>5. ASSUME NEW k \in DOMAIN node
      PROVE  /\ node'[k] \in NodeRecord
             /\ node'[k].users = node[k].users /\ node'[k].value = node[k].value
             /\ node'[k].old = node[k].old
             /\ node'[k].dirty <=> node[k].dirty /\ k \notin S
  <2>1. PICK di \in BOOLEAN : di = (node[k].dirty /\ k \notin S)
    OBVIOUS
  <2>2. node[k] \in NodeRecord
    BY <1>0 DEF NodesOK
  <2>3. node'[k] = [node[k] EXCEPT !.dirty = di]
    BY <1>2, <2>1 DEF Cached
  <2>4. node'[k] \in NodeRecord
    BY <2>2, <2>3 DEF NodeRecord
  <2>5. node'[k].dirty = di
    BY <2>2, <2>3 DEF NodeRecord
  <2>6. /\ node'[k].users = node[k].users /\ node'[k].value = node[k].value
        /\ node'[k].old = node[k].old
    BY <2>2, <2>3 DEF NodeRecord
  <2> QED BY <2>1, <2>4, <2>5, <2>6
<1>6. NodesOK(node', total)
  BY <1>0, <1>2, <1>4, <1>5 DEF NodesOK, Cached
<1>7. HeldOK(node', holds)
  BY <1>0, <1>4, <1>5 DEF HeldOK
<1>8. KeptOK(node', file', total, holds, latest)
  <2>1. \A k \in 0 .. total - 1 : k \in DOMAIN node' \/ k < Len(file')
    BY <1>0, <1>3, <1>4 DEF KeptOK
  <2>2. ASSUME NEW k \in DOMAIN node', ~node'[k].dirty
        PROVE  \/ k < Len(file') /\ node'[k].value = file'[k + 1]
               \/ Touched(holds, k, {"took", "wrote"})
    <3>1. k \in DOMAIN node /\ k \in Nat
      BY <1>0, <1>4, NodeTyped
    <3>2. CASE k \in S
      BY <1>3, <1>5, <3>1, <3>2
    <3>3. CASE k \notin S
      <4>1. ~node[k].dirty
        BY <1>5, <2>2, <3>1, <3>3
      <4>2. (k < Len(file) /\ node[k].value = file[k + 1]) \/ Touched(holds, k, {"took", "wrote"})
        BY <1>0, <3>1, <4>1 DEF KeptOK
      <4> QED BY <1>3, <1>5, <3>1, <3>3, <4>2
    <3> QED BY <3>2, <3>3
  <2>3. ASSUME NEW k \in DOMAIN latest
        PROVE  /\ k \in DOMAIN node' => node'[k].value = latest[k] \/ Touched(holds, k, {"took"})
               /\ k \notin DOMAIN node' => file'[k + 1] = latest[k]
    <3>1. k \in 0 .. total - 1
      BY <1>0 DEF KeptOK
    <3>2. /\ k \in DOMAIN node => node[k].value = latest[k] \/ Touched(holds, k, {"took"})
          /\ k \notin DOMAIN node => k < Len(file) /\ file[k + 1] = latest[k]
      BY <1>0, <3>1 DEF KeptOK
    <3>3. k \notin DOMAIN node => k \notin S
      BY <1>1 DEF Cached
    <3> QED BY <1>3, <1>4, <1>5, <3>1, <3>2, <3>3
  <2> QED BY <1>0, <2>1, <2>2, <2>3 DEF KeptOK
<1>9. QueuesOK(node', temporary, persistent, obsolete')
  <2>1. Young(node') = Young(node) /\ Aged(node') = Aged(node)
    BY <1>4, <1>5 DEF Young, Aged
  <2>2. Changed(node') = Changed(node) \ S
    BY <1>4, <1>5 DEF Changed
  <2> QED BY <1>0, <2>1, <2>2 DEF QueuesOK
<1> QED BY <1>2, <1>3, <1>6, <1>7, <1>8, <1>9 DEF CacheInv, CacheOK

\* The cache is destroyed and made again for its file, which then has every block.
LEMMA ReopenStep ==
    ASSUME CacheInv, Reopen
    PROVE  CacheInv'
<1> DEFINE S == {k \in Cached : node[k].dirty}
<1>0. /\ FileOK(file, total) /\ NodesOK(node, total) /\ HeldOK(node, holds)
      /\ KeptOK(node, file, total, holds, latest) /\ total \in Nat /\ Len(file) \in Nat
      /\ Len(file) <= total
  BY DEF CacheInv, CacheOK, FileOK
<1>1. /\ \A k \in DOMAIN node : node[k].users = 0
      /\ file' = Updated(S) /\ total' = Len(file')
      /\ node' = <<>> /\ temporary' = <<>> /\ persistent' = <<>> /\ obsolete' = <<>>
      /\ UNCHANGED <<holds, latest>>
  BY DEF Reopen, Cached
<1>2. S \in SUBSET Cached
  OBVIOUS
<1>3. /\ FileOK(file', total) /\ Len(file') >= Len(file) /\ Len(file') \in Nat /\ Len(file') <= total
      /\ (\E k \in S : k >= Len(file)) => Len(file') = total
      /\ \A k \in S : k < Len(file') /\ file'[k + 1] = node[k].value
      /\ \A k \in Nat \ S : k < Len(file) => file'[k + 1] = file[k + 1]
  <2> HIDE DEF S
  <2>1. /\ FileOK(file', total) /\ Len(file') >= Len(file)
        /\ (\E k \in S : k >= Len(file)) => Len(file') = total
        /\ \A k \in S : k < Len(file') /\ file'[k + 1] = node[k].value
        /\ \A k \in Nat \ S : k < Len(file) => file'[k + 1] = file[k + 1]
    BY <1>1, <1>2, UpdatedFacts
  <2> QED BY <1>0, <2>1 DEF FileOK
<1>4. \A k \in DOMAIN node : Users(holds, k) = {} /\ \A T : ~Touched(holds, k, T)
  BY <1>0, <1>1, FreeUntouched
<1>5. \A k \in DOMAIN node : k \notin S => k < Len(file) /\ node[k].value = file[k + 1]
  BY <1>0, <1>4 DEF KeptOK, Cached
<1> HIDE DEF S
<1>6. total' = total
  <2>1. CASE Len(file) = total
    BY <1>1, <1>3, <2>1
  <2>2. CASE Len(file) < total
    <3>1. total - 1 \in 0 .. total - 1 /\ total - 1 >= Len(file)
      BY <1>0, <2>2
    <3>2. total - 1 \in DOMAIN node
      BY <1>0, <3>1 DEF KeptOK
    <3>3. total - 1 \in S
      BY <1>0, <1>5, <3>1, <3>2
    <3> QED BY <1>1, <1>3, <3>1, <3>3
  <2> QED BY <1>0, <2>1, <2>2
<1>7. DOMAIN node' = {} /\ node' \in [DOMAIN node' -> NodeRecord]
  BY <1>1
<1>8. HeldOK(node', holds')
  <2>1. \A h \in Holder : holds[h] = Nothing_
    BY <1>0, <1>4 DEF HeldOK, Users
  <2> QED BY <1>0, <1>1, <1>7, <2>1 DEF HeldOK
<1>9. KeptOK(node', file', total, holds', latest')
  <2>1. \A k \in 0 .. total - 1 : k < Len(file')
    BY <1>0, <1>1, <1>6
  <2>2. ASSUME NEW k \in DOMAIN latest PROVE file'[k + 1] = latest[k]
    <3>1. k \in 0 .. total - 1
      BY <1>0 DEF KeptOK
    <3>2. CASE k \in DOMAIN node
      <4>1. node[k].value = latest[k]
        BY <1>0, <1>4, <3>2 DEF KeptOK
      <4>2. CASE k \in S
        BY <1>3, <4>1, <4>2
      <4>3. CASE k \notin S
        BY <1>3, <1>5, <3>1, <3>2, <4>1, <4>3
      <4> QED BY <4>2, <4>3
    <3>3. CASE k \notin DOMAIN node
      <4>1. k < Len(file) /\ file[k + 1] = latest[k] /\ k \notin S
        BY <1>0, <1>2, <3>1, <3>3 DEF KeptOK, Cached
      <4> QED BY <1>3, <3>1, <4>1
    <3> QED BY <3>2, <3>3
  <2> QED BY <1>0, <1>1, <1>7, <2>1, <2>2 DEF KeptOK
<1>10. QueuesOK(node', temporary', persistent', obsolete')
  <2>1. Young(node') = {} /\ Aged(node') = {} /\ Changed(node') = {}
    BY <1>7 DEF Young, Aged, Changed
  <2> QED BY <1>1, <2>1, NoQueue DEF QueuesOK
<1>11. NodesOK(node', total)
  BY <1>7 DEF NodesOK
<1> QED BY <1>3, <1>6, <1>8, <1>9, <1>10, <1>11 DEF CacheInv, CacheOK

-----------------------------------------------------------------------------
(* The invariant *)

\* An empty cache of an empty file.
LEMMA CacheInitially == ASSUME CacheInit PROVE CacheInv
<1>1. DOMAIN node = {} /\ node \in [DOMAIN node -> NodeRecord]
  BY DEF CacheInit
<1>2. FileOK(file, total)
  BY EmptySeq DEF CacheInit, FileOK
<1>3. NodesOK(node, total)
  BY <1>1 DEF NodesOK
<1>4. HeldOK(node, holds)
  <2>1. Nothing_ \in [key : Int, did : Doing]
    BY DEF Nothing_, Doing
  <2> QED BY <1>1, <2>1 DEF HeldOK, CacheInit
<1>5. KeptOK(node, file, total, holds, latest)
  <2>1. DOMAIN latest = {} /\ total = 0
    BY DEF CacheInit
  <2> QED BY <1>1, <2>1 DEF KeptOK
<1>6. QueuesOK(node, temporary, persistent, obsolete)
  <2>1. Young(node) = {} /\ Aged(node) = {} /\ Changed(node) = {}
    BY <1>1 DEF Young, Aged, Changed
  <2> QED BY <2>1, NoQueue DEF QueuesOK, CacheInit
<1> QED BY <1>2, <1>3, <1>4, <1>5, <1>6 DEF CacheInv, CacheOK

\* get_block of a block of the tree.
LEMMA GetBlockStep ==
    ASSUME CacheInv, NEW h \in Holder, NEW k \in 0 .. MaxBlocks - 1, NEW read_data \in BOOLEAN,
           GetBlock(h, k, read_data)
    PROVE  CacheInv'
<1> DEFINE w == IF read_data THEN "read" ELSE "took"
<1>1. /\ holds[h] = Nothing_ /\ k < total /\ k \in Nat
      /\ holds' = With(holds, h, Holding(k, w)) /\ UNCHANGED <<total, latest>>
  BY CacheAssumption DEF GetBlock, With, Holding, CacheAssumption
<1>2. w \in {"read", "took"}
  OBVIOUS
<1>3. total \in Nat
  BY DEF CacheInv, CacheOK, FileOK
<1>4. CASE k \in Cached
  <2>1. GetChange(k)
    BY <1>4 DEF GetBlock
  <2> HIDE DEF w
  <2> QED BY <1>1, <1>2, <1>4, <2>1, GetChangeStep
<1>5. CASE k \notin Cached
  <2>1. Load(k, read_data)
    BY <1>5 DEF GetBlock
  <2>2. total' \in Nat /\ total' = total /\ latest' = latest
    BY <1>1, <1>3
  <2> QED BY <1>1, <1>5, <2>1, <2>2, LoadStep
<1> QED BY <1>4, <1>5

\* get_block of a new block.
LEMMA GetNewBlockStep ==
    ASSUME CacheInv, NEW h \in Holder, GetNewBlock(h)
    PROVE  CacheInv'
<1>1. total \in Nat /\ total \notin Cached
  BY DEF CacheInv, CacheOK, FileOK, NodesOK, Cached
<1>2. /\ holds[h] = Nothing_ /\ Load(total, FALSE) /\ latest' = latest
      /\ total' = total + 1 /\ total' \in Nat
      /\ holds' = With(holds, h, Holding(total, "took"))
  <2>1. holds[h] = Nothing_ /\ total' = total + 1 /\ latest' = latest
    BY DEF GetNewBlock
  <2>2. Load(total, FALSE)
    BY DEF GetNewBlock
  <2>3. holds' = With(holds, h, Holding(total, "took"))
    BY DEF GetNewBlock, With, Holding
  <2>4. total' \in Nat
    BY <1>1, <2>1
  <2> QED BY <2>1, <2>2, <2>3, <2>4
<1>3. (IF FALSE THEN "read" ELSE "took") = "took"
  OBVIOUS
<1>4. holds' = With(holds, h, Holding(total, IF FALSE THEN "read" ELSE "took"))
  BY <1>2, <1>3
<1> QED BY <1>1, <1>2, <1>4, LoadStep

\* remove of a block that nobody holds.
LEMMA RemoveStep ==
    ASSUME CacheInv, NEW k, Remove(k)
    PROVE  CacheInv'
<1>1. CacheOK(Drop(node, k), Unqueued(temporary, k), Unqueued(persistent, k), Unqueued(obsolete, k),
              FileAfterEviction(k), total, holds, latest)
  BY Evicted DEF Remove
<1> QED BY <1>1 DEF Remove, CacheInv

\* Every call keeps the invariant.
LEMMA CacheStep ==
    ASSUME CacheInv, [CacheNext]_cacheVars
    PROVE  CacheInv'
<1>1. ASSUME NEW h \in Holder, NEW k \in 0 .. MaxBlocks - 1, NEW read_data \in BOOLEAN,
             GetBlock(h, k, read_data)
      PROVE  CacheInv'
  BY <1>1, GetBlockStep
<1>2. ASSUME NEW h \in Holder, GetNewBlock(h) PROVE CacheInv'
  BY <1>2, GetNewBlockStep
<1>3. ASSUME NEW h \in Holder, NEW x \in Content, ChangeBlock(h, x) PROVE CacheInv'
  BY <1>3, ChangeBlockStep
<1>4. ASSUME NEW h \in Holder, NEW late \in BOOLEAN, PutBlock(h, late) PROVE CacheInv'
  BY <1>4, PutBlockStep
<1>5. Queue(obsolete, Changed(node))
  BY DEF CacheInv, CacheOK, QueuesOK
<1>6. ASSUME Invoke PROVE CacheInv'
  <2>1. Queued(obsolete) = Changed(node) /\ Changed(node) \ Changed(node) = {}
    BY <1>5 DEF Queue
  <2>2. Queue(obsolete', Changed(node) \ Changed(node)) /\ Flush(Changed(node))
    BY <1>6, <2>1, NoQueue DEF Invoke
  <2> QED BY <2>2, FlushStep
<1>7. ASSUME UpdateOne PROVE CacheInv'
  <2>1. Head(obsolete) \in Changed(node) /\ Queue(Tail(obsolete), Changed(node) \ {Head(obsolete)})
    BY <1>5, <1>7, TailRemoves DEF UpdateOne
  <2>2. {Head(obsolete)} \in SUBSET Changed(node)
    BY <2>1
  <2> QED BY <1>7, <2>1, <2>2, FlushStep DEF UpdateOne
<1>8. ASSUME Reopen PROVE CacheInv'
  BY <1>8, ReopenStep
<1>9. ASSUME NEW k \in 0 .. MaxBlocks - 1, Remove(k) PROVE CacheInv'
  BY <1>9, RemoveStep
<1>10. ASSUME UNCHANGED cacheVars PROVE CacheInv'
  BY <1>10 DEF cacheVars, CacheInv
<1> QED BY <1>1, <1>2, <1>3, <1>4, <1>6, <1>7, <1>8, <1>9, <1>10 DEF CacheNext

\* The invariant says what CacheSound does.
LEMMA CacheInvSound == CacheInv => CacheSound
<1> SUFFICES ASSUME CacheInv PROVE CacheSound
  OBVIOUS
<1>0. /\ FileOK(file, total) /\ NodesOK(node, total) /\ HeldOK(node, holds)
      /\ KeptOK(node, file, total, holds, latest)
      /\ QueuesOK(node, temporary, persistent, obsolete)
  BY DEF CacheInv, CacheOK
<1>1. HeldBlocksStay
  BY <1>0 DEF HeldBlocksStay, HeldOK, Users, Cached
<1>2. NoLostWrite
  <2>1. \A k : Touched(holds, k, {"took"}) => Untouched(k)
    BY <1>0 DEF HeldOK, Touched, Untouched
  <2> QED BY <1>0, <2>1 DEF NoLostWrite, KeptOK, Cached
<1>3. QueuesMatch
  <2>1. \A k \in Cached : node[k].users = 0 /\ ~node[k].dirty => k < Len(file)
    BY <1>0, FreeUntouched DEF KeptOK, Cached
  <2> QED BY <1>0, <2>1 DEF QueuesMatch, QueuesOK, Queue, Once, Young, Aged, Changed, Cached
<1> QED BY <1>1, <1>2, <1>3 DEF CacheSound

\* For any holders, contents and capacity: a block that somebody holds stays cached,
\* no change of a block is lost by eviction, writing or loading, and the queues hold
\* exactly the blocks they should (LRUCache and Impl_Scheduler).
THEOREM CacheIsSound == CacheSpec => []CacheSound
<1>1. CacheInit => CacheInv
  BY CacheInitially
<1>2. CacheInv /\ [CacheNext]_cacheVars => CacheInv'
  BY CacheStep
<1> QED BY <1>1, <1>2, CacheInvSound, PTL DEF CacheSpec

-----------------------------------------------------------------------------
(* List and SingleList *)

Place == ListNode \cup {NoNode}

\* What stands at the place i; NoNode stands before the first node and behind the last.
NodeAt(s, i) == IF i \in DOMAIN s THEN s[i] ELSE NoNode

Chain(s) == s \in Seq(ListNode) /\ \A i, j \in DOMAIN s : s[i] = s[j] => i = j

\* x leads from each place of s to the next one, y from each to the one before.
Forward(x, s) == \A i \in 0 .. Len(s) : x[NodeAt(s, i)] = NodeAt(s, i + 1)
Backward(y, s) == \A i \in 0 .. Len(s) : y[NodeAt(s, i + 1)] = NodeAt(s, i)

\* Every node has one place, and NoNode has the two ends.
LEMMA ChainPlaces ==
    ASSUME NEW s, Chain(s)
    PROVE  /\ Len(s) \in Nat
           /\ \A i \in Int : NodeAt(s, i) \in Place
           /\ \A i \in 1 .. Len(s) : NodeAt(s, i) = s[i] /\ NodeAt(s, i) \in ListNode
           /\ \A i \in Int : i \notin 1 .. Len(s) => NodeAt(s, i) = NoNode
           /\ \A i, j \in 0 .. Len(s) : NodeAt(s, i) = NodeAt(s, j) => i = j
           /\ \A i, j \in 1 .. Len(s) + 1 : NodeAt(s, i) = NodeAt(s, j) => i = j
<1>1. s \in Seq(ListNode) /\ Len(s) \in Nat /\ DOMAIN s = 1 .. Len(s)
    BY DEF Chain
<1>2. \A i \in 1 .. Len(s) : NodeAt(s, i) = s[i] /\ NodeAt(s, i) \in ListNode
    BY <1>1 DEF NodeAt
<1>3. \A i \in Int : i \notin 1 .. Len(s) => NodeAt(s, i) = NoNode
    BY <1>1 DEF NodeAt
<1>4. \A i \in Int : NodeAt(s, i) \in Place
    BY <1>2, <1>3 DEF Place
<1>5. \A i, j \in 1 .. Len(s) : s[i] = s[j] => i = j
    BY <1>1 DEF Chain
<1>6. NoNode \notin ListNode
    BY ListAssumption
<1>7. \A i, j \in 0 .. Len(s) : NodeAt(s, i) = NodeAt(s, j) => i = j
    BY <1>1, <1>2, <1>3, <1>5, <1>6
<1>8. \A i, j \in 1 .. Len(s) + 1 : NodeAt(s, i) = NodeAt(s, j) => i = j
    BY <1>1, <1>2, <1>3, <1>5, <1>6
<1> QED BY <1>1, <1>2, <1>3, <1>4, <1>7, <1>8

\* The place At finds is that of the node ...
LEMMA PlaceOf ==
    ASSUME NEW s, Chain(s), NEW n \in NodesOf(s) \cup {NoNode}
    PROVE  /\ At(s, n) \in 1 .. Len(s) + 1
           /\ NodeAt(s, At(s, n)) = n
           /\ n # NoNode => At(s, n) \in 1 .. Len(s)
<1>1. s \in Seq(ListNode) /\ Len(s) \in Nat /\ DOMAIN s = 1 .. Len(s)
    BY DEF Chain
<1>2. CASE n = NoNode
    BY <1>1, <1>2 DEF At, NodeAt
<1>3. CASE n # NoNode
    <2>1. \E i \in DOMAIN s : s[i] = n
        BY <1>3 DEF NodesOf
    <2>2. At(s, n) \in DOMAIN s /\ s[At(s, n)] = n
        BY <1>3, <2>1, Zenon DEF At
    <2> QED BY <1>1, <1>3, <2>2 DEF NodeAt
<1> QED BY <1>2, <1>3

\* ... and the only one.
LEMMA PlaceFound ==
    ASSUME NEW s, Chain(s), NEW i \in 1 .. Len(s) + 1
    PROVE  At(s, NodeAt(s, i)) = i
<1>1. NodeAt(s, i) \in NodesOf(s) \cup {NoNode}
    BY DEF NodeAt, NodesOf
<1>2. At(s, NodeAt(s, i)) \in 1 .. Len(s) + 1 /\ NodeAt(s, At(s, NodeAt(s, i))) = NodeAt(s, i)
    BY <1>1, PlaceOf
<1> QED BY <1>2, ChainPlaces

\* What stands where after an insertion ...
LEMMA InsertedAt ==
    ASSUME NEW s, Chain(s), NEW p \in 1 .. Len(s) + 1, NEW n \in NotIn(s)
    PROVE  /\ Chain(Inserted(s, p, n))
           /\ Len(Inserted(s, p, n)) = Len(s) + 1
           /\ \A i \in 0 .. Len(s) + 2 :
                 NodeAt(Inserted(s, p, n), i) =
                     IF i < p THEN NodeAt(s, i) ELSE IF i = p THEN n ELSE NodeAt(s, i - 1)
<1> DEFINE t == Inserted(s, p, n)
<1>1. s \in Seq(ListNode) /\ Len(s) \in Nat /\ DOMAIN s = 1 .. Len(s) /\ p \in Int
    BY DEF Chain
<1>2. n \in ListNode /\ \A i \in 1 .. Len(s) : s[i] # n
    BY <1>1 DEF NotIn, NodesOf
<1>3. /\ SubSeq(s, 1, p - 1) \in Seq(ListNode)
      /\ Len(SubSeq(s, 1, p - 1)) = p - 1
      /\ \A i \in 1 .. p - 1 : SubSeq(s, 1, p - 1)[i] = s[i]
    BY <1>1
<1>4. /\ SubSeq(s, p, Len(s)) \in Seq(ListNode)
      /\ Len(SubSeq(s, p, Len(s))) = Len(s) - p + 1
      /\ \A i \in 1 .. Len(s) - p + 1 : SubSeq(s, p, Len(s))[i] = s[p + i - 1]
    BY <1>1
<1> DEFINE a == SubSeq(s, 1, p - 1)
<1> DEFINE b == SubSeq(s, p, Len(s))
<1> HIDE DEF a, b
<1>a. a \in Seq(ListNode) /\ Len(a) = p - 1 /\ \A i \in 1 .. p - 1 : a[i] = s[i]
    BY <1>3 DEF a
<1>b. /\ b \in Seq(ListNode) /\ Len(b) = Len(s) - p + 1
      /\ \A i \in 1 .. Len(s) - p + 1 : b[i] = s[p + i - 1]
    BY <1>4 DEF b
<1>c. <<n>> \in Seq(ListNode) /\ Len(<<n>>) = 1 /\ <<n>>[1] = n
    BY <1>2
<1>d. /\ a \o <<n>> \in Seq(ListNode) /\ Len(a \o <<n>>) = p
      /\ \A i \in 1 .. p : (a \o <<n>>)[i] = IF i < p THEN s[i] ELSE n
    <2>1. /\ a \o <<n>> \in Seq(ListNode) /\ Len(a \o <<n>>) = Len(a) + Len(<<n>>)
          /\ \A i \in 1 .. Len(a) + Len(<<n>>) :
                (a \o <<n>>)[i] = IF i <= Len(a) THEN a[i] ELSE <<n>>[i - Len(a)]
        BY <1>a, <1>c, ConcatProperties, Zenon
    <2> QED BY <1>1, <1>a, <1>c, <2>1
<1> DEFINE c == a \o <<n>>
<1> HIDE DEF c
<1>g. c \in Seq(ListNode) /\ Len(c) = p /\ \A i \in 1 .. p : c[i] = IF i < p THEN s[i] ELSE n
    BY <1>d, Zenon DEF c
<1>e. /\ c \o b \in Seq(ListNode) /\ Len(c \o b) = Len(c) + Len(b)
      /\ \A i \in 1 .. Len(c) + Len(b) : (c \o b)[i] = IF i <= Len(c) THEN c[i] ELSE b[i - Len(c)]
    BY <1>b, <1>g, ConcatProperties, Zenon
<1>f. t = c \o b
    BY Zenon DEF c, a, b, Inserted
<1> HIDE DEF t
<1>5. t \in Seq(ListNode) /\ Len(t) = Len(s) + 1
    BY <1>1, <1>b, <1>e, <1>f, <1>g
<1>6. \A i \in 1 .. Len(s) + 1 : t[i] = IF i < p THEN s[i] ELSE IF i = p THEN n ELSE s[i - 1]
    BY <1>1, <1>b, <1>e, <1>f, <1>g
<1>7. DOMAIN t = 1 .. Len(s) + 1
    BY <1>1, <1>5
<1> HIDE DEF t
<1>8. Chain(t)
    <2>1. \A i, j \in 1 .. Len(s) : s[i] = s[j] => i = j
        BY <1>1 DEF Chain
    <2>2. \A i, j \in 1 .. Len(s) + 1 : t[i] = t[j] => i = j
        BY <1>1, <1>2, <1>6, <2>1
    <2> QED BY <1>5, <1>7, <2>2 DEF Chain
<1>9. ASSUME NEW i \in 0 .. Len(s) + 2
      PROVE  NodeAt(t, i) = IF i < p THEN NodeAt(s, i) ELSE IF i = p THEN n ELSE NodeAt(s, i - 1)
    BY <1>1, <1>6, <1>7 DEF NodeAt
<1> QED BY <1>5, <1>8, <1>9 DEF t

\* ... and after a range was cut out.
LEMMA CutOutAt ==
    ASSUME NEW s, Chain(s), NEW p \in 1 .. Len(s) + 1, NEW q \in p .. Len(s) + 1
    PROVE  /\ Chain(CutOut(s, p, q))
           /\ Len(CutOut(s, p, q)) = Len(s) - (q - p)
           /\ \A i \in 0 .. Len(s) - (q - p) + 1 :
                 NodeAt(CutOut(s, p, q), i) = IF i < p THEN NodeAt(s, i) ELSE NodeAt(s, i + (q - p))
<1> DEFINE t == CutOut(s, p, q)
<1>1. s \in Seq(ListNode) /\ Len(s) \in Nat /\ DOMAIN s = 1 .. Len(s) /\ p \in Int /\ q \in Int
    BY DEF Chain
<1>3. /\ SubSeq(s, 1, p - 1) \in Seq(ListNode)
      /\ Len(SubSeq(s, 1, p - 1)) = p - 1
      /\ \A i \in 1 .. p - 1 : SubSeq(s, 1, p - 1)[i] = s[i]
    BY <1>1
<1>4. /\ SubSeq(s, q, Len(s)) \in Seq(ListNode)
      /\ Len(SubSeq(s, q, Len(s))) = Len(s) - q + 1
      /\ \A i \in 1 .. Len(s) - q + 1 : SubSeq(s, q, Len(s))[i] = s[q + i - 1]
    BY <1>1
<1> DEFINE a == SubSeq(s, 1, p - 1)
<1> DEFINE b == SubSeq(s, q, Len(s))
<1> HIDE DEF a, b
<1>a. a \in Seq(ListNode) /\ Len(a) = p - 1 /\ \A i \in 1 .. p - 1 : a[i] = s[i]
    BY <1>3 DEF a
<1>b. /\ b \in Seq(ListNode) /\ Len(b) = Len(s) - q + 1
      /\ \A i \in 1 .. Len(s) - q + 1 : b[i] = s[q + i - 1]
    BY <1>4 DEF b
<1>c. /\ a \o b \in Seq(ListNode) /\ Len(a \o b) = Len(a) + Len(b)
      /\ \A i \in 1 .. Len(a) + Len(b) : (a \o b)[i] = IF i <= Len(a) THEN a[i] ELSE b[i - Len(a)]
    BY <1>a, <1>b, ConcatProperties, Zenon
<1>d. t = a \o b
    BY Zenon DEF a, b, CutOut
<1> HIDE DEF t
<1>5. t \in Seq(ListNode) /\ Len(t) = Len(s) - (q - p)
    BY <1>1, <1>a, <1>b, <1>c, <1>d
<1>6. \A i \in 1 .. Len(s) - (q - p) : t[i] = IF i < p THEN s[i] ELSE s[i + (q - p)]
    <2> SUFFICES ASSUME NEW i \in 1 .. Len(s) - (q - p)
                 PROVE  t[i] = IF i < p THEN s[i] ELSE s[i + (q - p)]
        OBVIOUS
    <2>1. CASE i < p
        BY <1>1, <1>a, <1>b, <1>c, <1>d, <2>1
    <2>2. CASE ~(i < p)
        <3>1. t[i] = b[i - (p - 1)] /\ i - (p - 1) \in 1 .. Len(s) - q + 1
            BY <1>1, <1>a, <1>b, <1>c, <1>d, <2>2
        <3>2. b[i - (p - 1)] = s[q + (i - (p - 1)) - 1]
            BY <1>b, <3>1
        <3>3. q + (i - (p - 1)) - 1 = i + (q - p)
            BY <1>1
        <3> QED BY <2>2, <3>1, <3>2, <3>3
    <2> QED BY <2>1, <2>2
<1>7. DOMAIN t = 1 .. Len(s) - (q - p)
    BY <1>1, <1>5
<1> HIDE DEF t
<1>8. Chain(t)
    <2>1. \A i, j \in 1 .. Len(s) : s[i] = s[j] => i = j
        BY <1>1 DEF Chain
    <2>2. \A i, j \in 1 .. Len(s) - (q - p) : t[i] = t[j] => i = j
        BY <1>1, <1>6, <2>1
    <2> QED BY <1>5, <1>7, <2>2 DEF Chain
<1>9. ASSUME NEW i \in 0 .. Len(s) - (q - p) + 1
      PROVE  NodeAt(t, i) = IF i < p THEN NodeAt(s, i) ELSE NodeAt(s, i + (q - p))
    BY <1>1, <1>6, <1>7 DEF NodeAt
<1> QED BY <1>5, <1>8, <1>9 DEF t

\* A node put at the place p: the one before leads to it, and it to the one that stood there.
LEMMA InsertForward ==
    ASSUME NEW s, Chain(s), NEW p \in 1 .. Len(s) + 1, NEW n \in NotIn(s), NEW x, NEW y, Forward(x, s),
           y[NodeAt(s, p - 1)] = n, y[n] = NodeAt(s, p),
           \A m \in Place : m # n /\ m # NodeAt(s, p - 1) => y[m] = x[m]
    PROVE  Forward(y, Inserted(s, p, n))
<1> DEFINE t == Inserted(s, p, n)
<1>1. Len(s) \in Nat /\ p \in 1 .. Len(s) + 1 /\ Len(t) = Len(s) + 1
    BY ChainPlaces, InsertedAt
<1>2. \A i \in 0 .. Len(s) + 2 :
         NodeAt(t, i) = IF i < p THEN NodeAt(s, i) ELSE IF i = p THEN n ELSE NodeAt(s, i - 1)
    BY InsertedAt
<1>3. \A i \in Int : NodeAt(s, i) \in Place /\ NodeAt(s, i) # n
    <2>1. n \in ListNode /\ n # NoNode /\ \A i \in 1 .. Len(s) : s[i] # n
        BY ListAssumption DEF NotIn, NodesOf, Chain
    <2> QED BY <2>1, ChainPlaces
<1>4. \A i, j \in 0 .. Len(s) : NodeAt(s, i) = NodeAt(s, j) => i = j
    BY ChainPlaces
<1>5. \A i \in 0 .. Len(s) : x[NodeAt(s, i)] = NodeAt(s, i + 1)
    BY DEF Forward
<1> HIDE DEF t
<1>6. ASSUME NEW i \in 0 .. Len(s) + 1
      PROVE  y[NodeAt(t, i)] = NodeAt(t, i + 1)
    <2>1. CASE i < p - 1
        <3>1. NodeAt(t, i) = NodeAt(s, i) /\ NodeAt(t, i + 1) = NodeAt(s, i + 1)
            BY <1>1, <1>2, <2>1
        <3>2. NodeAt(s, i) # NodeAt(s, p - 1)
            BY <1>1, <1>4, <2>1
        <3> QED BY <1>1, <1>3, <1>5, <2>1, <3>1, <3>2
    <2>2. CASE i = p - 1
        <3>1. NodeAt(t, i) = NodeAt(s, p - 1) /\ NodeAt(t, i + 1) = n
            BY <1>1, <1>2, <2>2
        <3> QED BY <3>1
    <2>3. CASE i = p
        <3>1. NodeAt(t, i) = n /\ NodeAt(t, i + 1) = NodeAt(s, p)
            BY <1>1, <1>2, <2>3
        <3> QED BY <3>1
    <2>4. CASE i > p
        <3>1. NodeAt(t, i) = NodeAt(s, i - 1) /\ NodeAt(t, i + 1) = NodeAt(s, i)
            BY <1>1, <1>2, <2>4
        <3>2. NodeAt(s, i - 1) # NodeAt(s, p - 1)
            BY <1>1, <1>4, <2>4
        <3>3. x[NodeAt(s, i - 1)] = NodeAt(s, i)
            BY <1>1, <1>5, <2>4
        <3> QED BY <1>1, <1>3, <2>4, <3>1, <3>2, <3>3
    <2> QED BY <1>1, <2>1, <2>2, <2>3, <2>4
<1> QED BY <1>1, <1>6 DEF Forward, t

\* The same backwards ...
LEMMA InsertBackward ==
    ASSUME NEW s, Chain(s), NEW p \in 1 .. Len(s) + 1, NEW n \in NotIn(s), NEW x, NEW y, Backward(x, s),
           y[NodeAt(s, p)] = n, y[n] = NodeAt(s, p - 1),
           \A m \in Place : m # n /\ m # NodeAt(s, p) => y[m] = x[m]
    PROVE  Backward(y, Inserted(s, p, n))
<1> DEFINE t == Inserted(s, p, n)
<1>1. Len(s) \in Nat /\ p \in 1 .. Len(s) + 1 /\ Len(t) = Len(s) + 1
    BY ChainPlaces, InsertedAt
<1>2. \A i \in 0 .. Len(s) + 2 :
         NodeAt(t, i) = IF i < p THEN NodeAt(s, i) ELSE IF i = p THEN n ELSE NodeAt(s, i - 1)
    BY InsertedAt
<1>3. \A i \in Int : NodeAt(s, i) \in Place /\ NodeAt(s, i) # n
    <2>1. n \in ListNode /\ n # NoNode /\ \A i \in 1 .. Len(s) : s[i] # n
        BY ListAssumption DEF NotIn, NodesOf, Chain
    <2> QED BY <2>1, ChainPlaces
<1>4. \A i, j \in 1 .. Len(s) + 1 : NodeAt(s, i) = NodeAt(s, j) => i = j
    BY ChainPlaces
<1>5. \A i \in 0 .. Len(s) : x[NodeAt(s, i + 1)] = NodeAt(s, i)
    BY DEF Backward
<1> HIDE DEF t
<1>6. ASSUME NEW i \in 0 .. Len(s) + 1
      PROVE  y[NodeAt(t, i + 1)] = NodeAt(t, i)
    <2>1. CASE i < p - 1
        <3>1. NodeAt(t, i) = NodeAt(s, i) /\ NodeAt(t, i + 1) = NodeAt(s, i + 1)
            BY <1>1, <1>2, <2>1
        <3>2. NodeAt(s, i + 1) # NodeAt(s, p)
            BY <1>1, <1>4, <2>1
        <3> QED BY <1>1, <1>3, <1>5, <2>1, <3>1, <3>2
    <2>2. CASE i = p - 1
        <3>1. NodeAt(t, i) = NodeAt(s, p - 1) /\ NodeAt(t, i + 1) = n
            BY <1>1, <1>2, <2>2
        <3> QED BY <3>1
    <2>3. CASE i = p
        <3>1. NodeAt(t, i) = n /\ NodeAt(t, i + 1) = NodeAt(s, p)
            BY <1>1, <1>2, <2>3
        <3> QED BY <3>1
    <2>4. CASE i > p
        <3>1. NodeAt(t, i) = NodeAt(s, i - 1) /\ NodeAt(t, i + 1) = NodeAt(s, i)
            BY <1>1, <1>2, <2>4
        <3>2. NodeAt(s, i) # NodeAt(s, p)
            BY <1>1, <1>4, <2>4
        <3>3. x[NodeAt(s, (i - 1) + 1)] = NodeAt(s, i - 1) /\ (i - 1) + 1 = i
            BY <1>1, <1>5, <2>4
        <3> QED BY <1>1, <1>3, <2>4, <3>1, <3>2, <3>3
    <2> QED BY <1>1, <2>1, <2>2, <2>3, <2>4
<1> QED BY <1>1, <1>6 DEF Backward, t

\* The places from p up to q are cut out: the one before them leads to the one behind them.
LEMMA CutForward ==
    ASSUME NEW s, Chain(s), NEW p \in 1 .. Len(s) + 1, NEW q \in p .. Len(s) + 1,
           NEW x, NEW y, Forward(x, s), y[NodeAt(s, p - 1)] = NodeAt(s, q),
           \A i \in (0 .. p - 2) \cup (q .. Len(s)) : y[NodeAt(s, i)] = x[NodeAt(s, i)]
    PROVE  Forward(y, CutOut(s, p, q))
<1> DEFINE t == CutOut(s, p, q)
<1>1. Len(s) \in Nat /\ p \in 1 .. Len(s) + 1 /\ q \in p .. Len(s) + 1 /\ Len(t) = Len(s) - (q - p)
    BY ChainPlaces, CutOutAt
<1>2. \A i \in 0 .. Len(s) - (q - p) + 1 :
         NodeAt(t, i) = IF i < p THEN NodeAt(s, i) ELSE NodeAt(s, i + (q - p))
    BY CutOutAt
<1>5. \A i \in 0 .. Len(s) : x[NodeAt(s, i)] = NodeAt(s, i + 1)
    BY DEF Forward
<1> HIDE DEF t
<1>6. ASSUME NEW i \in 0 .. Len(s) - (q - p)
      PROVE  y[NodeAt(t, i)] = NodeAt(t, i + 1)
    <2>1. CASE i < p - 1
        <3>1. NodeAt(t, i) = NodeAt(s, i) /\ NodeAt(t, i + 1) = NodeAt(s, i + 1)
            BY <1>1, <1>2, <2>1
        <3> QED BY <1>1, <1>5, <2>1, <3>1
    <2>2. CASE i = p - 1
        <3>1. NodeAt(t, i) = NodeAt(s, p - 1) /\ NodeAt(t, i + 1) = NodeAt(s, q)
            BY <1>1, <1>2, <2>2
        <3> QED BY <3>1
    <2>3. CASE i >= p
        <3>1. NodeAt(t, i) = NodeAt(s, i + (q - p)) /\ NodeAt(t, i + 1) = NodeAt(s, (i + (q - p)) + 1)
            <4>1. (i + 1) + (q - p) = (i + (q - p)) + 1
                BY <1>1
            <4> QED BY <1>1, <1>2, <2>3, <4>1
        <3>2. i + (q - p) \in q .. Len(s) /\ i + (q - p) \in 0 .. Len(s)
            BY <1>1, <2>3
        <3> QED BY <1>5, <3>1, <3>2
    <2> QED BY <1>1, <2>1, <2>2, <2>3
<1> QED BY <1>1, <1>6 DEF Forward, t

\* The same backwards ...
LEMMA CutBackward ==
    ASSUME NEW s, Chain(s), NEW p \in 1 .. Len(s) + 1, NEW q \in p .. Len(s) + 1,
           NEW x, NEW y, Backward(x, s), y[NodeAt(s, q)] = NodeAt(s, p - 1),
           \A i \in (1 .. p - 1) \cup (q + 1 .. Len(s) + 1) : y[NodeAt(s, i)] = x[NodeAt(s, i)]
    PROVE  Backward(y, CutOut(s, p, q))
<1> DEFINE t == CutOut(s, p, q)
<1>1. Len(s) \in Nat /\ p \in 1 .. Len(s) + 1 /\ q \in p .. Len(s) + 1 /\ Len(t) = Len(s) - (q - p)
    BY ChainPlaces, CutOutAt
<1>2. \A i \in 0 .. Len(s) - (q - p) + 1 :
         NodeAt(t, i) = IF i < p THEN NodeAt(s, i) ELSE NodeAt(s, i + (q - p))
    BY CutOutAt
<1>5. \A i \in 0 .. Len(s) : x[NodeAt(s, i + 1)] = NodeAt(s, i)
    BY DEF Backward
<1> HIDE DEF t
<1>6. ASSUME NEW i \in 0 .. Len(s) - (q - p)
      PROVE  y[NodeAt(t, i + 1)] = NodeAt(t, i)
    <2>1. CASE i < p - 1
        <3>1. NodeAt(t, i) = NodeAt(s, i) /\ NodeAt(t, i + 1) = NodeAt(s, i + 1)
            BY <1>1, <1>2, <2>1
        <3> QED BY <1>1, <1>5, <2>1, <3>1
    <2>2. CASE i = p - 1
        <3>1. NodeAt(t, i) = NodeAt(s, p - 1) /\ NodeAt(t, i + 1) = NodeAt(s, q)
            BY <1>1, <1>2, <2>2
        <3> QED BY <3>1
    <2>3. CASE i >= p
        <3>1. NodeAt(t, i) = NodeAt(s, i + (q - p)) /\ NodeAt(t, i + 1) = NodeAt(s, (i + (q - p)) + 1)
            <4>1. (i + 1) + (q - p) = (i + (q - p)) + 1
                BY <1>1
            <4> QED BY <1>1, <1>2, <2>3, <4>1
        <3>2. (i + (q - p)) + 1 \in q + 1 .. Len(s) + 1 /\ i + (q - p) \in 0 .. Len(s)
            BY <1>1, <2>3
        <3> QED BY <1>5, <3>1, <3>2
    <2> QED BY <1>1, <2>1, <2>2, <2>3
<1> QED BY <1>1, <1>6 DEF Backward, t

\* The nodes that are left are those that were not in the range.
LEMMA CutNodes ==
    ASSUME NEW s, Chain(s), NEW p \in 1 .. Len(s) + 1, NEW q \in p .. Len(s) + 1
    PROVE  \A m : m \in NodesOf(CutOut(s, p, q)) <=>
                      (m \in NodesOf(s) /\ \A j \in p .. q - 1 : m # NodeAt(s, j))
<1> DEFINE t == CutOut(s, p, q)
<1>1. Len(s) \in Nat /\ p \in 1 .. Len(s) + 1 /\ q \in p .. Len(s) + 1 /\ Len(t) = Len(s) - (q - p) /\ Chain(t)
    BY ChainPlaces, CutOutAt
<1>2. \A i \in 1 .. Len(t) : t[i] = IF i < p THEN s[i] ELSE s[i + (q - p)]
    <2>1. \A i \in 1 .. Len(t) : t[i] = NodeAt(t, i)
        BY <1>1, ChainPlaces
    <2>2. \A i \in 1 .. Len(t) : NodeAt(t, i) = IF i < p THEN NodeAt(s, i) ELSE NodeAt(s, i + (q - p))
        BY <1>1, CutOutAt
    <2>3. \A i \in 1 .. Len(s) : NodeAt(s, i) = s[i]
        BY ChainPlaces
    <2> HIDE DEF t
    <2> QED BY <1>1, <2>1, <2>2, <2>3
<1>3. DOMAIN s = 1 .. Len(s) /\ DOMAIN t = 1 .. Len(t)
    BY <1>1 DEF Chain
<1>4. \A i, j \in 1 .. Len(s) : s[i] = s[j] => i = j
    BY <1>3 DEF Chain
<1>5. \A i \in 1 .. Len(s) : NodeAt(s, i) = s[i]
    BY ChainPlaces
<1> HIDE DEF t
<1>6. ASSUME NEW m, m \in NodesOf(t)
      PROVE  m \in NodesOf(s) /\ \A j \in p .. q - 1 : m # NodeAt(s, j)
    <2>1. PICK i \in 1 .. Len(t) : t[i] = m
        BY <1>3, <1>6 DEF NodesOf
    <2>2. PICK k \in 1 .. Len(s) : m = s[k] /\ k \notin p .. q - 1
        <3>1. CASE i < p
            <4>1. i \in 1 .. Len(s) /\ i \notin p .. q - 1 /\ m = s[i]
                BY <1>1, <1>2, <2>1, <3>1
            <4> QED BY <4>1
        <3>2. CASE ~(i < p)
            <4>1. i + (q - p) \in 1 .. Len(s) /\ i + (q - p) \notin p .. q - 1
                BY <1>1, <2>1, <3>2
            <4>2. m = s[i + (q - p)]
                BY <1>2, <2>1, <3>2
            <4> QED BY <4>1, <4>2
        <3> QED BY <3>1, <3>2
    <2> QED BY <1>1, <1>3, <1>4, <1>5, <2>2 DEF NodesOf
<1>7. ASSUME NEW m, m \in NodesOf(s), \A j \in p .. q - 1 : m # NodeAt(s, j)
      PROVE  m \in NodesOf(t)
    <2>1. PICK k \in 1 .. Len(s) : s[k] = m
        BY <1>3, <1>7 DEF NodesOf
    <2>2. k \notin p .. q - 1
        BY <1>1, <1>5, <1>7, <2>1
    <2>3. CASE k < p
        <3>1. k \in 1 .. Len(t) /\ t[k] = m
            BY <1>1, <1>2, <2>1, <2>3
        <3> QED BY <1>3, <3>1 DEF NodesOf
    <2>4. CASE ~(k < p)
        <3>1. k - (q - p) \in 1 .. Len(t) /\ ~(k - (q - p) < p) /\ (k - (q - p)) + (q - p) = k
            BY <1>1, <2>1, <2>2, <2>4
        <3>2. t[k - (q - p)] = m
            BY <1>2, <2>1, <3>1
        <3> QED BY <1>3, <3>1, <3>2 DEF NodesOf
    <2> QED BY <2>3, <2>4
<1> QED BY <1>6, <1>7 DEF t

-----------------------------------------------------------------------------
\* The pointers as one function, with NoNode for the list itself
Onward(d) == [m \in Place |-> IF m = NoNode THEN d.head ELSE d.next[m]]
Back(d) == [m \in Place |-> IF m = NoNode THEN d.tail ELSE d.prev[m]]

ListRecord ==
    [head : Place, tail : Place, next : [ListNode -> Place], prev : [ListNode -> Place], size : Int]

\* They lead through s in both directions.
Linking(d, s) == Forward(Onward(d), s) /\ Backward(Back(d), s)

\* e is d with p and q made neighbours.
Joined(d, p, q, e) ==
    /\ e \in ListRecord /\ e.size = d.size
    /\ Onward(e)[p] = q /\ \A m \in Place : m # p => Onward(e)[m] = Onward(d)[m]
    /\ Back(e)[q] = p /\ \A m \in Place : m # q => Back(e)[m] = Back(d)[m]

\* Neighbours does that.
LEMMA NeighboursLink ==
    ASSUME NEW d, NEW p, NEW q, d \in ListRecord, p \in Place, q \in Place
    PROVE  Joined(d, p, q, Neighbours(d, p, q))
<1> DEFINE n == IF p = NoNode THEN [d EXCEPT !.head = q] ELSE [d EXCEPT !.next[p] = q]
<1> DEFINE e == IF q = NoNode THEN [n EXCEPT !.tail = p] ELSE [n EXCEPT !.prev[q] = p]
<1>1. NoNode \notin ListNode
    BY ListAssumption
<1>2. /\ n \in ListRecord /\ n.size = d.size /\ n.tail = d.tail /\ n.prev = d.prev
      /\ n.head = IF p = NoNode THEN q ELSE d.head
      /\ n.next = IF p = NoNode THEN d.next ELSE [d.next EXCEPT ![p] = q]
    <2>1. CASE p = NoNode
        BY <2>1 DEF ListRecord, Place
    <2>2. CASE p # NoNode
        BY <2>2 DEF ListRecord, Place
    <2> QED BY <2>1, <2>2
<1> HIDE DEF n
<1>3. /\ e \in ListRecord /\ e.size = n.size /\ e.head = n.head /\ e.next = n.next
      /\ e.tail = IF q = NoNode THEN p ELSE n.tail
      /\ e.prev = IF q = NoNode THEN n.prev ELSE [n.prev EXCEPT ![q] = p]
    <2>1. CASE q = NoNode
        BY <1>2, <2>1 DEF ListRecord, Place
    <2>2. CASE q # NoNode
        BY <1>2, <2>2 DEF ListRecord, Place
    <2> QED BY <2>1, <2>2
<1>4. Neighbours(d, p, q) = e
    BY Zenon DEF Neighbours, n
<1> HIDE DEF e
<1>5. d.next \in [ListNode -> Place] /\ d.prev \in [ListNode -> Place]
    BY DEF ListRecord
<1>6. \A m \in Place : Onward(e)[m] = IF m = p THEN q ELSE Onward(d)[m]
    BY <1>1, <1>2, <1>3, <1>5 DEF Onward, Place
<1>7. \A m \in Place : Back(e)[m] = IF m = q THEN p ELSE Back(d)[m]
    BY <1>1, <1>2, <1>3, <1>5 DEF Back, Place
<1> QED BY <1>2, <1>3, <1>4, <1>6, <1>7 DEF Joined

\* insert, and the second half of move_to, keep the chain in both directions ...
LEMMA InsertLinks ==
    ASSUME NEW s, Chain(s), NEW d \in ListRecord, Linking(d, s),
           NEW p \in 1 .. Len(s) + 1, NEW n \in NotIn(s)
    PROVE  /\ ChainedBefore(d, NodeAt(s, p), n) \in ListRecord
           /\ ChainedBefore(d, NodeAt(s, p), n).size = d.size
           /\ Linking(ChainedBefore(d, NodeAt(s, p), n), Inserted(s, p, n))
<1> DEFINE b == NodeAt(s, p - 1)
<1> DEFINE c == NodeAt(s, p)
<1> DEFINE d1 == Neighbours(d, b, n)
<1> DEFINE d2 == Neighbours(d1, n, c)
<1>1. Len(s) \in Nat /\ p - 1 \in 0 .. Len(s) /\ p - 1 + 1 = p /\ p \in Int /\ p - 1 \in Int
    BY ChainPlaces
<1>2. b \in Place /\ c \in Place /\ n \in Place /\ n # b /\ n # c
    <2>1. n \in ListNode /\ n # NoNode /\ \A i \in 1 .. Len(s) : s[i] # n
        BY ListAssumption DEF NotIn, NodesOf, Chain
    <2>2. \A i \in Int : NodeAt(s, i) \in Place /\ NodeAt(s, i) # n
        BY <2>1, ChainPlaces
    <2> QED BY <1>1, <2>1, <2>2 DEF Place
<1>3. Back(d)[c] = b
    BY <1>1 DEF Linking, Backward
<1>4. ChainedBefore(d, c, n) = d2
    <2>1. (IF c = NoNode THEN d.tail ELSE d.prev[c]) = b
        BY <1>2, <1>3 DEF Back
    <2> HIDE DEF b, c
    <2> QED BY <2>1, Zenon DEF ChainedBefore, d1, d2
<1> HIDE DEF b, c
<1>5. /\ d1 \in ListRecord /\ d1.size = d.size /\ Onward(d1)[b] = n /\ Back(d1)[n] = b
      /\ \A m \in Place : m # b => Onward(d1)[m] = Onward(d)[m]
      /\ \A m \in Place : m # n => Back(d1)[m] = Back(d)[m]
    <2>1. Joined(d, b, n, d1)
        BY <1>2, NeighboursLink, Zenon
    <2> HIDE DEF d1
    <2> QED BY <2>1, Zenon DEF Joined
<1> HIDE DEF d1
<1>6. /\ d2 \in ListRecord /\ d2.size = d1.size /\ Onward(d2)[n] = c /\ Back(d2)[c] = n
      /\ \A m \in Place : m # n => Onward(d2)[m] = Onward(d1)[m]
      /\ \A m \in Place : m # c => Back(d2)[m] = Back(d1)[m]
    <2>1. Joined(d1, n, c, d2)
        BY <1>2, <1>5, NeighboursLink, Zenon
    <2> HIDE DEF d2
    <2> QED BY <2>1, Zenon DEF Joined
<1> HIDE DEF d2
<1>7. Onward(d2)[b] = n /\ Back(d2)[n] = b
    BY <1>2, <1>5, <1>6
<1>8. \A m \in Place : m # n /\ m # b => Onward(d2)[m] = Onward(d)[m]
    BY <1>5, <1>6
<1>9. \A m \in Place : m # n /\ m # c => Back(d2)[m] = Back(d)[m]
    BY <1>5, <1>6
<1>10. Forward(Onward(d2), Inserted(s, p, n))
    BY <1>6, <1>7, <1>8, InsertForward DEF Linking, b, c
<1>11. Backward(Back(d2), Inserted(s, p, n))
    BY <1>6, <1>7, <1>9, InsertBackward DEF Linking, b, c
<1> QED BY <1>4, <1>5, <1>6, <1>10, <1>11 DEF Linking, c

\* ... and so does making neighbours of the two sides of a range.
LEMMA CutLinks ==
    ASSUME NEW s, Chain(s), NEW d \in ListRecord, Linking(d, s),
           NEW p \in 1 .. Len(s) + 1, NEW q \in p .. Len(s) + 1
    PROVE  /\ Neighbours(d, NodeAt(s, p - 1), NodeAt(s, q)) \in ListRecord
           /\ Neighbours(d, NodeAt(s, p - 1), NodeAt(s, q)).size = d.size
           /\ Linking(Neighbours(d, NodeAt(s, p - 1), NodeAt(s, q)), CutOut(s, p, q))
<1> DEFINE e == Neighbours(d, NodeAt(s, p - 1), NodeAt(s, q))
<1>1. Len(s) \in Nat /\ p \in Int /\ q \in Int
    BY ChainPlaces
<1>2. \A i \in Int : NodeAt(s, i) \in Place
    BY ChainPlaces
<1>3. /\ e \in ListRecord /\ e.size = d.size
      /\ Onward(e)[NodeAt(s, p - 1)] = NodeAt(s, q) /\ Back(e)[NodeAt(s, q)] = NodeAt(s, p - 1)
      /\ \A m \in Place : m # NodeAt(s, p - 1) => Onward(e)[m] = Onward(d)[m]
      /\ \A m \in Place : m # NodeAt(s, q) => Back(e)[m] = Back(d)[m]
    <2>1. NodeAt(s, p - 1) \in Place /\ NodeAt(s, q) \in Place
        BY <1>1, <1>2
    <2>2. Joined(d, NodeAt(s, p - 1), NodeAt(s, q), e)
        BY <2>1, NeighboursLink, Zenon
    <2> HIDE DEF e
    <2> QED BY <2>2, Zenon DEF Joined
<1> HIDE DEF e
<1>4. \A i \in (0 .. p - 2) \cup (q .. Len(s)) : Onward(e)[NodeAt(s, i)] = Onward(d)[NodeAt(s, i)]
    <2>1. \A i, j \in 0 .. Len(s) : NodeAt(s, i) = NodeAt(s, j) => i = j
        BY ChainPlaces
    <2> QED BY <1>1, <1>2, <1>3, <2>1
<1>5. \A i \in (1 .. p - 1) \cup (q + 1 .. Len(s) + 1) : Back(e)[NodeAt(s, i)] = Back(d)[NodeAt(s, i)]
    <2>1. \A i, j \in 1 .. Len(s) + 1 : NodeAt(s, i) = NodeAt(s, j) => i = j
        BY ChainPlaces
    <2> QED BY <1>1, <1>2, <1>3, <2>1
<1>6. Forward(Onward(e), CutOut(s, p, q))
    BY <1>3, <1>4, CutForward DEF Linking
<1>7. Backward(Back(e), CutOut(s, p, q))
    BY <1>3, <1>5, CutBackward DEF Linking
<1> QED BY <1>3, <1>6, <1>7 DEF Linking, e

\* Pointers of nodes outside the list do not matter.
LEMMA OthersFree ==
    ASSUME NEW s, Chain(s), NEW d \in ListRecord, Linking(d, s), NEW e \in ListRecord,
           e.head = d.head, e.tail = d.tail,
           \A m \in NodesOf(s) : e.next[m] = d.next[m] /\ e.prev[m] = d.prev[m]
    PROVE  Linking(e, s)
<1>1. \A i \in Int : NodeAt(s, i) \in NodesOf(s) \cup {NoNode}
    BY DEF NodeAt, NodesOf
<1>2. \A i \in Int : NodeAt(s, i) \in Place /\ Len(s) \in Nat
    BY ChainPlaces
<1>3. \A i \in Int : /\ Onward(e)[NodeAt(s, i)] = Onward(d)[NodeAt(s, i)]
                     /\ Back(e)[NodeAt(s, i)] = Back(d)[NodeAt(s, i)]
    <2> SUFFICES ASSUME NEW i \in Int
                 PROVE  /\ Onward(e)[NodeAt(s, i)] = Onward(d)[NodeAt(s, i)]
                        /\ Back(e)[NodeAt(s, i)] = Back(d)[NodeAt(s, i)]
        OBVIOUS
    <2> DEFINE m == NodeAt(s, i)
    <2>1. m \in Place /\ m \in NodesOf(s) \cup {NoNode}
        BY <1>1, <1>2
    <2> HIDE DEF m
    <2>2. Onward(e)[m] = Onward(d)[m] /\ Back(e)[m] = Back(d)[m]
        BY <2>1 DEF Onward, Back
    <2> QED BY <2>2 DEF m
<1>4. Forward(Onward(e), s)
    BY <1>2, <1>3 DEF Linking, Forward
<1>5. Backward(Back(e), s)
    BY <1>2, <1>3 DEF Linking, Backward
<1> QED BY <1>4, <1>5 DEF Linking

\* A node of the list has a place; taken out, it is outside.
LEMMA NodeOutside ==
    ASSUME NEW s, Chain(s), NEW n \in NodesOf(s)
    PROVE  /\ n \in ListNode /\ n # NoNode
           /\ At(s, n) \in 1 .. Len(s) /\ NodeAt(s, At(s, n)) = n
           /\ n \in NotIn(CutNode(s, n))
           /\ \A m : m \in NodesOf(CutNode(s, n)) <=> m \in NodesOf(s) /\ m # n
<1>1. n \in ListNode /\ n # NoNode
    BY ListAssumption DEF NodesOf, Chain
<1>2. At(s, n) \in 1 .. Len(s) /\ NodeAt(s, At(s, n)) = n /\ Len(s) \in Nat
    BY <1>1, PlaceOf, ChainPlaces
<1>3. At(s, n) \in 1 .. Len(s) + 1 /\ At(s, n) + 1 \in At(s, n) .. Len(s) + 1
    BY <1>2
<1>4. \A m : m \in NodesOf(CutNode(s, n)) <=>
                 (m \in NodesOf(s) /\ \A j \in At(s, n) .. At(s, n) + 1 - 1 : m # NodeAt(s, j))
    <2>1. CutNode(s, n) = CutOut(s, At(s, n), At(s, n) + 1)
        BY Zenon DEF CutNode
    <2> QED BY <1>3, <2>1, CutNodes
<1>5. \A j \in At(s, n) .. At(s, n) + 1 - 1 : j = At(s, n)
    BY <1>2
<1>6. At(s, n) \in At(s, n) .. At(s, n) + 1 - 1
    BY <1>2
<1>7. \A m : m \in NodesOf(CutNode(s, n)) <=> m \in NodesOf(s) /\ m # n
    BY <1>2, <1>4, <1>5, <1>6, Zenon
<1>8. n \in NotIn(CutNode(s, n))
    BY <1>1, <1>7 DEF NotIn
<1> QED BY <1>1, <1>2, <1>7, <1>8

\* move_to, erase and release find the neighbours of a node.
LEMMA UnchainedLinks ==
    ASSUME NEW s, Chain(s), NEW d \in ListRecord, Linking(d, s), NEW n \in NodesOf(s)
    PROVE  /\ Unchained(d, n) \in ListRecord /\ Unchained(d, n).size = d.size
           /\ Chain(CutNode(s, n)) /\ Len(CutNode(s, n)) = Len(s) - 1
           /\ Linking(Unchained(d, n), CutNode(s, n))
           /\ d.prev[n] = NodeAt(s, At(s, n) - 1)
           /\ d.next[n] = NodeAt(s, At(s, n) + 1)
<1> DEFINE p == At(s, n)
<1>1. n \in ListNode /\ n # NoNode /\ p \in 1 .. Len(s) /\ NodeAt(s, p) = n /\ Len(s) \in Nat
    BY NodeOutside, ChainPlaces
<1> HIDE DEF p
<1>2. p \in 1 .. Len(s) + 1 /\ p + 1 \in p .. Len(s) + 1 /\ p \in 0 .. Len(s) /\ p - 1 \in 0 .. Len(s)
      /\ (p - 1) + 1 = p /\ (p + 1) - p = 1
    BY <1>1
<1>3. d.next[n] = NodeAt(s, p + 1)
    <2>1. Onward(d)[NodeAt(s, p)] = NodeAt(s, p + 1)
        BY <1>2 DEF Linking, Forward
    <2>2. Onward(d)[n] = d.next[n]
        BY <1>1 DEF Onward, Place
    <2> QED BY <1>1, <2>1, <2>2
<1>4. d.prev[n] = NodeAt(s, p - 1)
    <2>1. Back(d)[NodeAt(s, (p - 1) + 1)] = NodeAt(s, p - 1)
        BY <1>2 DEF Linking, Backward
    <2>2. Back(d)[n] = d.prev[n]
        BY <1>1 DEF Back, Place
    <2> QED BY <1>1, <1>2, <2>1, <2>2
<1>5. Unchained(d, n) = Neighbours(d, NodeAt(s, p - 1), NodeAt(s, p + 1))
    BY <1>3, <1>4, Zenon DEF Unchained
<1>6. CutNode(s, n) = CutOut(s, p, p + 1)
    BY Zenon DEF CutNode, p
<1>7. Chain(CutOut(s, p, p + 1)) /\ Len(CutOut(s, p, p + 1)) = Len(s) - 1
    BY <1>2, CutOutAt
<1>8. /\ Neighbours(d, NodeAt(s, p - 1), NodeAt(s, p + 1)) \in ListRecord
      /\ Neighbours(d, NodeAt(s, p - 1), NodeAt(s, p + 1)).size = d.size
      /\ Linking(Neighbours(d, NodeAt(s, p - 1), NodeAt(s, p + 1)), CutOut(s, p, p + 1))
    BY <1>2, CutLinks
<1> QED BY <1>3, <1>4, <1>5, <1>6, <1>7, <1>8, Zenon DEF p

-----------------------------------------------------------------------------
\* What is known of a List d that should hold s
DoubleOK(d, s) == Chain(s) /\ d \in ListRecord /\ d.size = Len(s) /\ Linking(d, s)

\* A last touch to the size
LEMMA SizeChanged ==
    ASSUME NEW s, Chain(s), NEW d \in ListRecord, Linking(d, s), NEW e, e = [d EXCEPT !.size = Len(s)]
    PROVE  DoubleOK(e, s)
<1>1. Len(s) \in Nat
    BY ChainPlaces
<1>2. /\ e \in ListRecord /\ e.size = Len(s)
      /\ e.head = d.head /\ e.tail = d.tail /\ e.next = d.next /\ e.prev = d.prev
    BY <1>1 DEF ListRecord
<1>3. Linking(e, s)
    BY <1>2, OthersFree
<1> QED BY <1>2, <1>3 DEF DoubleOK

\* insert ...
LEMMA InsertNodeStep ==
    ASSUME DoubleOK(double, items), NEW dest \in NodesOf(items) \cup {NoNode}, NEW n \in ListNode,
           InsertNode(dest, n)
    PROVE  DoubleOK(double, items)'
<1> DEFINE p == At(items, dest)
<1> DEFINE e == ChainedBefore(double, dest, n)
<1>1. Chain(items) /\ double \in ListRecord /\ double.size = Len(items) /\ Linking(double, items)
    BY DEF DoubleOK
<1>2. p \in 1 .. Len(items) + 1 /\ NodeAt(items, p) = dest
    BY <1>1, PlaceOf
<1>3. n \in NotIn(items) /\ items' = Inserted(items, p, n) /\ double' = [e EXCEPT !.size = @ + 1]
    BY DEF InsertNode
<1> HIDE DEF p
<1>4. Chain(items') /\ Len(items') = Len(items) + 1
    BY <1>1, <1>2, <1>3, InsertedAt
<1>5. e \in ListRecord /\ e.size = double.size /\ Linking(e, items')
    BY <1>1, <1>2, <1>3, InsertLinks
<1> HIDE DEF e
<1>6. double' = [e EXCEPT !.size = Len(items')]
    BY <1>1, <1>3, <1>4, <1>5 DEF ListRecord
<1>7. DoubleOK(double', items')
    BY <1>4, <1>5, <1>6, SizeChanged
<1> QED BY <1>7 DEF DoubleOK

\* ... move_to, which finds dest again in what is left ...
LEMMA MoveToStep ==
    ASSUME DoubleOK(double, items), NEW dest \in NodesOf(items) \cup {NoNode}, NEW n \in ListNode,
           MoveTo(dest, n)
    PROVE  DoubleOK(double, items)'
<1> DEFINE p == At(items, n)
<1> DEFINE r == CutNode(items, n)
<1> DEFINE u == Unchained(double, n)
<1> DEFINE k == At(r, dest)
<1>1. Chain(items) /\ double \in ListRecord /\ double.size = Len(items) /\ Linking(double, items)
    BY DEF DoubleOK
<1>2. n \in NodesOf(items) /\ dest # n /\ items' = Inserted(r, k, n)
    BY DEF MoveTo
<1>3. /\ p \in 1 .. Len(items) /\ NodeAt(items, p) = n /\ n \in NotIn(r)
      /\ \A m : m \in NodesOf(r) <=> m \in NodesOf(items) /\ m # n
    BY <1>1, <1>2, NodeOutside
<1>4. /\ u \in ListRecord /\ u.size = double.size /\ Chain(r) /\ Len(r) = Len(items) - 1
      /\ Linking(u, r) /\ double.next[n] = NodeAt(items, p + 1)
    BY <1>1, <1>2, UnchainedLinks
<1>5. r = CutOut(items, p, p + 1)
    BY Zenon DEF CutNode
<1>6. double' = IF double.next[n] = dest THEN double ELSE ChainedBefore(u, dest, n)
    BY DEF MoveTo
<1>7. k \in 1 .. Len(r) + 1 /\ NodeAt(r, k) = dest
    <2>1. dest \in NodesOf(r) \cup {NoNode}
        BY <1>2, <1>3
    <2> HIDE DEF r
    <2> QED BY <1>4, <2>1, PlaceOf
<1> HIDE DEF p, u
<1>8. Len(items) \in Nat /\ p + 1 \in p .. Len(items) + 1 /\ p \in 1 .. Len(items) + 1 /\ (p + 1) - p = 1
    BY <1>1, <1>3, ChainPlaces
<1>9. CASE double.next[n] = dest
    <2>1. \A i \in 0 .. Len(items) - ((p + 1) - p) + 1 :
             NodeAt(r, i) = IF i < p THEN NodeAt(items, i) ELSE NodeAt(items, i + ((p + 1) - p))
        BY <1>1, <1>5, <1>8, CutOutAt
    <2> HIDE DEF r, k
    <2>2. \A i \in 0 .. Len(items) : NodeAt(r, i) = IF i < p THEN NodeAt(items, i) ELSE NodeAt(items, i + 1)
        BY <1>8, <2>1
    <2>3. NodeAt(r, p) = dest
        BY <1>3, <1>4, <1>8, <1>9, <2>2
    <2>4. k = p
        <3>1. \A i, j \in 1 .. Len(r) + 1 : NodeAt(r, i) = NodeAt(r, j) => i = j
            BY <1>4, ChainPlaces
        <3> QED BY <1>3, <1>4, <1>7, <1>8, <2>3, <3>1
    <2>5. /\ Chain(items') /\ Len(items') = Len(r) + 1
          /\ \A i \in 0 .. Len(r) + 2 :
                NodeAt(items', i) = IF i < k THEN NodeAt(r, i) ELSE IF i = k THEN n ELSE NodeAt(r, i - 1)
        BY <1>2, <1>3, <1>4, <1>7, InsertedAt
    <2>6. \A i \in 1 .. Len(items) : NodeAt(items', i) = NodeAt(items, i)
        <3> SUFFICES ASSUME NEW i \in 1 .. Len(items)
                     PROVE  NodeAt(items', i) = NodeAt(items, i)
            OBVIOUS
        <3>1. i \in 0 .. Len(r) + 2 /\ i \in 0 .. Len(items) /\ i - 1 \in 0 .. Len(items) /\ (i - 1) + 1 = i
            BY <1>4, <1>8
        <3>2. NodeAt(items', i) = IF i < p THEN NodeAt(r, i) ELSE IF i = p THEN n ELSE NodeAt(r, i - 1)
            BY <2>4, <2>5, <3>1
        <3>3. CASE i < p
            BY <2>2, <3>1, <3>2, <3>3
        <3>4. CASE i = p
            BY <1>3, <3>2, <3>4
        <3>5. CASE i > p
            <4>1. ~(i < p) /\ i # p /\ ~(i - 1 < p)
                BY <1>3, <3>5
            <4>2. NodeAt(r, i - 1) = NodeAt(items, (i - 1) + 1)
                BY <2>2, <3>1, <4>1
            <4> QED BY <3>1, <3>2, <4>1, <4>2
        <3> QED BY <1>3, <1>8, <3>3, <3>4, <3>5
    <2>7. \A i \in 1 .. Len(items) : items'[i] = items[i]
        BY <1>1, <1>4, <1>8, <2>5, <2>6, ChainPlaces
    <2>8. items' = items
        <3>1. items \in Seq(ListNode) /\ items' \in Seq(ListNode) /\ Len(items') = Len(items)
            BY <1>1, <1>4, <1>8, <2>5 DEF Chain
        <3> QED BY <2>7, <3>1, SeqEqual
    <2> QED BY <1>1, <1>6, <1>9, <2>8 DEF DoubleOK
<1>10. CASE double.next[n] # dest
    <2> DEFINE e == ChainedBefore(u, dest, n)
    <2> HIDE DEF r, k
    <2>1. e \in ListRecord /\ e.size = u.size /\ Linking(e, items')
        BY <1>2, <1>3, <1>4, <1>7, InsertLinks
    <2>2. Chain(items') /\ Len(items') = Len(r) + 1
        BY <1>2, <1>3, <1>4, <1>7, InsertedAt
    <2>3. double' = e
        BY <1>6, <1>10
    <2> HIDE DEF e
    <2>4. e.size = Len(items')
        BY <1>1, <1>4, <1>8, <2>1, <2>2
    <2> QED BY <2>1, <2>2, <2>3, <2>4 DEF DoubleOK
<1> QED BY <1>9, <1>10
\* ... erase and release ...
LEMMA EraseNodeStep ==
    ASSUME DoubleOK(double, items), NEW n \in ListNode, EraseNode(n)
    PROVE  DoubleOK(double, items)'
<1> DEFINE u == Unchained(double, n)
<1>1. Chain(items) /\ double \in ListRecord /\ double.size = Len(items) /\ Linking(double, items)
    BY DEF DoubleOK
<1>2. n \in NodesOf(items) /\ items' = CutNode(items, n)
    BY DEF EraseNode
<1>3. double' = [[u EXCEPT !.size = @ - 1] EXCEPT !.next[n] = NoNode, !.prev[n] = NoNode]
    BY Zenon DEF EraseNode, Fresh
<1>4. /\ u \in ListRecord /\ u.size = double.size /\ Linking(u, items')
      /\ Chain(items') /\ Len(items') = Len(items) - 1
    BY <1>1, <1>2, UnchainedLinks
<1>5. \A m \in NodesOf(items') : m # n
    BY <1>1, <1>2, NodeOutside
<1> HIDE DEF u
<1>6. /\ double' \in ListRecord /\ double'.size = u.size - 1
      /\ double'.head = u.head /\ double'.tail = u.tail
      /\ double'.next = [u.next EXCEPT ![n] = NoNode] /\ double'.prev = [u.prev EXCEPT ![n] = NoNode]
    <2>1. PICK v : v = [u EXCEPT !.size = @ - 1]
        OBVIOUS
    <2>2. /\ v \in ListRecord /\ v.size = u.size - 1 /\ v.head = u.head /\ v.tail = u.tail
          /\ v.next = u.next /\ v.prev = u.prev
        BY <1>4, <2>1 DEF ListRecord
    <2>3. double' = [v EXCEPT !.next[n] = NoNode, !.prev[n] = NoNode]
        BY <1>3, <2>1
    <2>4. /\ double' \in ListRecord /\ double'.size = v.size /\ double'.head = v.head /\ double'.tail = v.tail
          /\ double'.next = [v.next EXCEPT ![n] = NoNode] /\ double'.prev = [v.prev EXCEPT ![n] = NoNode]
        BY <2>2, <2>3 DEF ListRecord, Place
    <2> QED BY <2>2, <2>4
<1>7. \A m \in NodesOf(items') : double'.next[m] = u.next[m] /\ double'.prev[m] = u.prev[m]
    <2>1. u.next \in [ListNode -> Place] /\ u.prev \in [ListNode -> Place]
        BY <1>4 DEF ListRecord
    <2>2. \A m \in NodesOf(items') : m \in ListNode
        BY <1>4 DEF NodesOf, Chain
    <2> QED BY <1>5, <1>6, <2>1, <2>2
<1>8. Linking(double', items')
    BY <1>4, <1>6, <1>7, OthersFree
<1>9. double'.size = Len(items')
    BY <1>1, <1>4, <1>6
<1> QED BY <1>4, <1>6, <1>8, <1>9 DEF DoubleOK

\* What is known of a List whose node was moved before itself
LooseOK(d, s) == Chain(s) /\ d \in ListRecord /\ d.size = Len(s) + 1 /\ Linking(d, s)

\* ... move_to before the node itself ...
LEMMA MoveBeforeItselfStep ==
    ASSUME DoubleOK(double, items), NEW n \in ListNode, MoveBeforeItself(n)
    PROVE  LooseOK(double, items)'
<1> DEFINE u == Unchained(double, n)
<1>1. Chain(items) /\ double \in ListRecord /\ double.size = Len(items) /\ Linking(double, items)
    BY DEF DoubleOK
<1>2. n \in NodesOf(items) /\ items' = CutNode(items, n)
    BY DEF MoveBeforeItself
<1>3. double' = [u EXCEPT !.next[n] = n, !.prev[n] = n]
    BY Zenon DEF MoveBeforeItself
<1>4. /\ u \in ListRecord /\ u.size = double.size /\ Linking(u, items')
      /\ Chain(items') /\ Len(items') = Len(items) - 1
    BY <1>1, <1>2, UnchainedLinks
<1>5. \A m \in NodesOf(items') : m # n
    BY <1>1, <1>2, NodeOutside
<1> HIDE DEF u
<1>6. /\ double' \in ListRecord /\ double'.size = u.size /\ double'.head = u.head /\ double'.tail = u.tail
      /\ double'.next = [u.next EXCEPT ![n] = n] /\ double'.prev = [u.prev EXCEPT ![n] = n]
    BY <1>3, <1>4 DEF ListRecord, Place
<1>7. \A m \in NodesOf(items') : double'.next[m] = u.next[m] /\ double'.prev[m] = u.prev[m]
    <2>1. u.next \in [ListNode -> Place] /\ u.prev \in [ListNode -> Place]
        BY <1>4 DEF ListRecord
    <2>2. \A m \in NodesOf(items') : m \in ListNode
        BY <1>4 DEF NodesOf, Chain
    <2> QED BY <1>5, <1>6, <2>1, <2>2
<1>8. Linking(double', items')
    BY <1>4, <1>6, <1>7, OthersFree
<1>9. double'.size = Len(items') + 1
    <2>1. Len(items) \in Nat
        BY <1>1 DEF Chain
    <2> QED BY <1>1, <1>4, <1>6, <2>1
<1> QED BY <1>4, <1>6, <1>8, <1>9 DEF LooseOK

\* The nodes of a range of places
LEMMA RangeNodes ==
    ASSUME NEW s, Chain(s), NEW p \in 1 .. Len(s) + 1, NEW q \in p .. Len(s) + 1
    PROVE  /\ Len(SubSeq(s, p, q - 1)) = q - p
           /\ \A m \in NodesOf(CutOut(s, p, q)) : m \notin NodesOf(SubSeq(s, p, q - 1))
<1>1. s \in Seq(ListNode) /\ Len(s) \in Nat /\ p \in Int /\ q \in Int
    BY DEF Chain
<1>2. /\ Len(SubSeq(s, p, q - 1)) = q - p /\ SubSeq(s, p, q - 1) \in Seq(ListNode)
      /\ \A i \in 1 .. q - p : SubSeq(s, p, q - 1)[i] = s[p + i - 1]
    BY <1>1
<1>3. ASSUME NEW m \in NodesOf(SubSeq(s, p, q - 1))
      PROVE  \E j \in p .. q - 1 : m = NodeAt(s, j)
    <2>1. PICK i \in 1 .. q - p : m = SubSeq(s, p, q - 1)[i]
        <3>1. DOMAIN SubSeq(s, p, q - 1) = 1 .. q - p
            BY <1>1, <1>2
        <3> QED BY <1>3, <3>1, Zenon DEF NodesOf
    <2>2. m = s[p + i - 1]
        BY <1>2, <2>1
    <2>3. p + i - 1 \in p .. q - 1 /\ p + i - 1 \in 1 .. Len(s)
        BY <1>1, <2>1
    <2>4. NodeAt(s, p + i - 1) = s[p + i - 1]
        BY <2>3, ChainPlaces
    <2> QED BY <2>2, <2>3, <2>4
<1>4. \A m \in NodesOf(CutOut(s, p, q)) : \A j \in p .. q - 1 : m # NodeAt(s, j)
    BY CutNodes, Zenon
<1> QED BY <1>2, <1>3, <1>4, Zenon

\* ... and erase of a range keep a List right.
LEMMA EraseNodesStep ==
    ASSUME DoubleOK(double, items), NEW first \in ListNode, NEW end \in NodesOf(items) \cup {NoNode},
           EraseNodes(first, end)
    PROVE  DoubleOK(double, items)'
<1> DEFINE p == At(items, first)
<1> DEFINE q == At(items, end)
<1> DEFINE gone == SubSeq(items, p, q - 1)
<1> DEFINE d == Neighbours(double, double.prev[first], end)
<1>1. Chain(items) /\ double \in ListRecord /\ double.size = Len(items) /\ Linking(double, items)
    BY DEF DoubleOK
<1>2. first \in NodesOf(items) /\ p <= q /\ items' = CutOut(items, p, q)
    BY DEF EraseNodes
<1>3. double' = [d EXCEPT !.size = @ - Len(gone),
                          !.next = [n \in ListNode |-> IF n \in NodesOf(gone) THEN NoNode ELSE d.next[n]],
                          !.prev = [n \in ListNode |-> IF n \in NodesOf(gone) THEN NoNode ELSE d.prev[n]]]
    BY Zenon DEF EraseNodes
<1>4. p \in 1 .. Len(items) + 1 /\ q \in p .. Len(items) + 1 /\ NodeAt(items, q) = end /\ Len(items) \in Nat
    <2>1. p \in 1 .. Len(items)
        BY <1>1, <1>2, NodeOutside
    <2>2. q \in 1 .. Len(items) + 1 /\ NodeAt(items, q) = end
        BY <1>1, PlaceOf
    <2>3. Len(items) \in Nat
        BY <1>1, ChainPlaces
    <2> HIDE DEF p, q
    <2> QED BY <1>2, <2>1, <2>2, <2>3
<1>5. double.prev[first] = NodeAt(items, p - 1)
    BY <1>1, <1>2, UnchainedLinks
<1> HIDE DEF p, q
<1>6. d \in ListRecord /\ d.size = double.size /\ Linking(d, items')
    BY <1>1, <1>2, <1>4, <1>5, CutLinks
<1>7. Chain(items') /\ Len(items') = Len(items) - (q - p)
    BY <1>1, <1>2, <1>4, CutOutAt
<1>8. Len(gone) = q - p /\ \A m \in NodesOf(items') : m \notin NodesOf(gone)
    BY <1>1, <1>2, <1>4, RangeNodes
<1> HIDE DEF d, gone
<1>9. /\ double' \in ListRecord /\ double'.size = d.size - Len(gone)
      /\ double'.head = d.head /\ double'.tail = d.tail
      /\ double'.next = [n \in ListNode |-> IF n \in NodesOf(gone) THEN NoNode ELSE d.next[n]]
      /\ double'.prev = [n \in ListNode |-> IF n \in NodesOf(gone) THEN NoNode ELSE d.prev[n]]
    <2>1. Len(gone) \in Int
        BY <1>4, <1>8
    <2>2. PICK f, g, z :
                      /\ z = d.size - Len(gone)
                      /\ f = [n \in ListNode |-> IF n \in NodesOf(gone) THEN NoNode ELSE d.next[n]]
                      /\ g = [n \in ListNode |-> IF n \in NodesOf(gone) THEN NoNode ELSE d.prev[n]]
        OBVIOUS
    <2>3. f \in [ListNode -> Place] /\ g \in [ListNode -> Place] /\ z \in Int
        BY <1>6, <2>1, <2>2 DEF ListRecord, Place
    <2>4. double' = [d EXCEPT !.size = z, !.next = f, !.prev = g]
        BY <1>3, <2>2, Zenon
    <2>5. /\ double' \in ListRecord /\ double'.size = z
          /\ double'.head = d.head /\ double'.tail = d.tail /\ double'.next = f /\ double'.prev = g
        BY <1>6, <2>3, <2>4 DEF ListRecord
    <2> QED BY <2>2, <2>5, Zenon
<1>10. \A m \in NodesOf(items') : double'.next[m] = d.next[m] /\ double'.prev[m] = d.prev[m]
    <2>1. \A m \in NodesOf(items') : m \in ListNode
        BY <1>7 DEF NodesOf, Chain
    <2> QED BY <1>8, <1>9, <2>1
<1>11. Linking(double', items')
    BY <1>6, <1>7, <1>9, <1>10, OthersFree
<1>12. double'.size = Len(items')
    BY <1>1, <1>4, <1>6, <1>7, <1>8, <1>9
<1> QED BY <1>7, <1>9, <1>11, <1>12 DEF DoubleOK

SingleRecord == [head : Place, tail : Place, next : [ListNode -> Place], size : Int]

\* e is d with the pointer behind p turned to q.
Turned(d, p, q, e) ==
    /\ e \in SingleRecord /\ e.size = d.size /\ e.tail = d.tail
    /\ Onward(e)[p] = q /\ \A m \in Place : m # p => Onward(e)[m] = Onward(d)[m]

\* Linked does that.
LEMMA LinkedTurns ==
    ASSUME NEW d, NEW p, NEW q, d \in SingleRecord, p \in Place, q \in Place
    PROVE  Turned(d, p, q, Linked(d, p, q))
<1> DEFINE e == IF p = NoNode THEN [d EXCEPT !.head = q] ELSE [d EXCEPT !.next[p] = q]
<1>1. NoNode \notin ListNode
    BY ListAssumption
<1>2. /\ e \in SingleRecord /\ e.size = d.size /\ e.tail = d.tail
      /\ e.head = IF p = NoNode THEN q ELSE d.head
      /\ e.next = IF p = NoNode THEN d.next ELSE [d.next EXCEPT ![p] = q]
    <2>1. CASE p = NoNode
        BY <2>1 DEF SingleRecord, Place
    <2>2. CASE p # NoNode
        BY <2>2 DEF SingleRecord, Place
    <2> QED BY <2>1, <2>2
<1>3. Linked(d, p, q) = e
    BY Zenon DEF Linked
<1> HIDE DEF e
<1>4. d.next \in [ListNode -> Place]
    BY DEF SingleRecord
<1>5. \A m \in Place : Onward(e)[m] = IF m = p THEN q ELSE Onward(d)[m]
    BY <1>1, <1>2, <1>4 DEF Onward, Place
<1> QED BY <1>2, <1>3, <1>5 DEF Turned

\* The pointers of nodes outside do not matter here either.
LEMMA OthersFreeHere ==
    ASSUME NEW s, Chain(s), NEW d, Forward(Onward(d), s), NEW e,
           e.head = d.head, \A m \in NodesOf(s) : e.next[m] = d.next[m]
    PROVE  Forward(Onward(e), s)
<1>1. \A i \in Int : NodeAt(s, i) \in NodesOf(s) \cup {NoNode}
    BY DEF NodeAt, NodesOf
<1>2. \A i \in Int : NodeAt(s, i) \in Place /\ Len(s) \in Nat
    BY ChainPlaces
<1>3. \A i \in Int : Onward(e)[NodeAt(s, i)] = Onward(d)[NodeAt(s, i)]
    <2> SUFFICES ASSUME NEW i \in Int
                 PROVE  Onward(e)[NodeAt(s, i)] = Onward(d)[NodeAt(s, i)]
        OBVIOUS
    <2> DEFINE m == NodeAt(s, i)
    <2>1. m \in Place /\ m \in NodesOf(s) \cup {NoNode}
        BY <1>1, <1>2
    <2> HIDE DEF m
    <2>2. Onward(e)[m] = Onward(d)[m]
        BY <2>1 DEF Onward
    <2> QED BY <2>2 DEF m
<1> QED BY <1>2, <1>3 DEF Forward

\* insert_after, and the second half of next_to_after
LEMMA SingleInsert ==
    ASSUME NEW s, Chain(s), NEW d \in SingleRecord, Forward(Onward(d), s),
           NEW k \in 1 .. Len(s) + 1, NEW n \in NotIn(s), NEW p, p = NodeAt(s, k - 1),
           NEW e, e = Linked([d EXCEPT !.next[n] = Onward(d)[p]], p, n)
    PROVE  e \in SingleRecord /\ e.size = d.size /\ e.tail = d.tail /\ Forward(Onward(e), Inserted(s, k, n))
<1>1. Len(s) \in Nat /\ k - 1 \in 0 .. Len(s) /\ (k - 1) + 1 = k /\ k - 1 \in Int
    BY ChainPlaces
<1>2. p \in Place /\ n \in Place /\ n # p /\ n \in ListNode /\ n # NoNode
    <2>1. n \in ListNode /\ n # NoNode /\ \A i \in 1 .. Len(s) : s[i] # n
        BY ListAssumption DEF NotIn, NodesOf, Chain
    <2>2. \A i \in Int : NodeAt(s, i) \in Place /\ NodeAt(s, i) # n
        BY <2>1, ChainPlaces
    <2> QED BY <1>1, <2>1, <2>2 DEF Place
<1>3. Onward(d)[p] = NodeAt(s, k) /\ NodeAt(s, k) \in Place
    BY <1>1, ChainPlaces DEF Forward
<1>4. PICK c, f : c = NodeAt(s, k) /\ f = [d EXCEPT !.next[n] = c]
    OBVIOUS
<1>5. e = Linked(f, p, n)
    BY <1>3, <1>4
<1>6. Turned(d, n, c, f)
    <2>1. f = Linked(d, n, c)
        BY <1>2, <1>4, Zenon DEF Linked
    <2> QED BY <1>2, <1>3, <1>4, <2>1, LinkedTurns
<1>7. Turned(f, p, n, e)
    BY <1>2, <1>5, <1>6, LinkedTurns DEF Turned
<1>8. /\ Onward(e)[p] = n /\ Onward(e)[n] = c
      /\ \A m \in Place : m # n /\ m # p => Onward(e)[m] = Onward(d)[m]
    BY <1>2, <1>6, <1>7 DEF Turned
<1>9. Forward(Onward(e), Inserted(s, k, n))
    BY <1>4, <1>8, InsertForward
<1> QED BY <1>6, <1>7, <1>9 DEF Turned

\* erase_after, and the first half of next_to_after
LEMMA SingleCut ==
    ASSUME NEW s, Chain(s), NEW d \in SingleRecord, Forward(Onward(d), s),
           NEW k \in 1 .. Len(s) + 1, NEW q \in k .. Len(s) + 1,
           NEW e, e = Linked(d, NodeAt(s, k - 1), NodeAt(s, q))
    PROVE  e \in SingleRecord /\ e.size = d.size /\ e.tail = d.tail /\ Forward(Onward(e), CutOut(s, k, q))
<1>1. Len(s) \in Nat /\ k \in Int /\ q \in Int
    BY ChainPlaces
<1>2. \A i \in Int : NodeAt(s, i) \in Place
    BY ChainPlaces
<1>3. Turned(d, NodeAt(s, k - 1), NodeAt(s, q), e)
    <2>1. NodeAt(s, k - 1) \in Place /\ NodeAt(s, q) \in Place
        BY <1>1, <1>2
    <2> QED BY <2>1, LinkedTurns, Zenon
<1>4. \A i \in (0 .. k - 2) \cup (q .. Len(s)) : Onward(e)[NodeAt(s, i)] = Onward(d)[NodeAt(s, i)]
    <2>1. \A i, j \in 0 .. Len(s) : NodeAt(s, i) = NodeAt(s, j) => i = j
        BY ChainPlaces
    <2>2. \A i \in (0 .. k - 2) \cup (q .. Len(s)) : NodeAt(s, i) # NodeAt(s, k - 1)
        BY <1>1, <2>1
    <2> QED BY <1>1, <1>2, <1>3, <2>2 DEF Turned
<1>5. Onward(e)[NodeAt(s, k - 1)] = NodeAt(s, q)
    BY <1>3 DEF Turned
<1>6. Forward(Onward(e), CutOut(s, k, q))
    BY <1>4, <1>5, CutForward
<1> QED BY <1>3, <1>6 DEF Turned

\* The place behind p
LEMMA PlaceAfter ==
    ASSUME NEW s, Chain(s), NEW p \in NodesOf(s) \cup {NoNode},
           NEW k, k = IF p = NoNode THEN 1 ELSE At(s, p) + 1
    PROVE  k \in 1 .. Len(s) + 1 /\ NodeAt(s, k - 1) = p
<1>1. Len(s) \in Nat /\ NodeAt(s, 0) = NoNode
    BY ChainPlaces
<1>2. CASE p = NoNode
    BY <1>1, <1>2
<1>3. CASE p # NoNode
    <2>1. At(s, p) \in 1 .. Len(s) /\ NodeAt(s, At(s, p)) = p
        BY <1>3, PlaceOf
    <2>2. k = At(s, p) + 1
        BY <1>3
    <2>3. k - 1 = At(s, p)
        BY <2>1, <2>2
    <2> QED BY <1>1, <2>1, <2>2, <2>3
<1> QED BY <1>2, <1>3

\* What is known of a SingleList, and of its tail while that is kept up to date
SingleOK(d, s) ==
    /\ Chain(s) /\ d \in SingleRecord /\ d.size = Len(s) /\ Forward(Onward(d), s)
TailOK(d, s) == d.tail = NodeAt(s, Len(s))

\* Following reads the pointers the same way.
LEMMA FollowingIsOnward ==
    ASSUME SingleOK(single, entries), NEW p \in Place
    PROVE  Following(p) = Onward(single)[p]
BY Zenon DEF Following, Onward

\* A last touch to the end and the size
Finished(d, t, z) == [d EXCEPT !.tail = t, !.size = z]

LEMMA TailAndSize ==
    ASSUME NEW s, Chain(s), NEW d \in SingleRecord, Forward(Onward(d), s), NEW t \in Place,
           NEW e, e = Finished(d, t, Len(s))
    PROVE  SingleOK(e, s) /\ e.tail = t
<1>1. Len(s) \in Nat
    BY ChainPlaces
<1>2. /\ e \in SingleRecord /\ e.size = Len(s) /\ e.tail = t
      /\ e.head = d.head /\ e.next = d.next
    <2>1. PICK z : z = Len(s)
        OBVIOUS
    <2>2. e = [d EXCEPT !.tail = t, !.size = z] /\ z \in Int
        BY <1>1, <2>1 DEF Finished
    <2>3. /\ e \in SingleRecord /\ e.size = z /\ e.tail = t
          /\ e.head = d.head /\ e.next = d.next
        BY <2>2 DEF SingleRecord
    <2> QED BY <2>1, <2>3
<1>3. Forward(Onward(e), s)
    BY <1>2, OthersFreeHere
<1> QED BY <1>2, <1>3 DEF SingleOK

\* insert_after ...
LEMMA InsertAfterStep ==
    ASSUME SingleOK(single, entries), TailOK(single, entries),
           NEW p \in NodesOf(entries) \cup {NoNode}, NEW n \in ListNode, InsertAfter(p, n)
    PROVE  SingleOK(single', entries') /\ TailOK(single', entries')
<1> DEFINE k == AfterPlace(p)
<1>1. /\ Chain(entries) /\ single \in SingleRecord /\ single.size = Len(entries)
      /\ Forward(Onward(single), entries) /\ Len(entries) \in Nat
    BY ChainPlaces DEF SingleOK
<1>2. k \in 1 .. Len(entries) + 1 /\ NodeAt(entries, k - 1) = p
    <2>1. k = IF p = NoNode THEN 1 ELSE At(entries, p) + 1
        BY Zenon DEF AfterPlace
    <2> HIDE DEF k
    <2> QED BY <1>1, <2>1, PlaceAfter
<1>3. n \in NotIn(entries) /\ entries' = Inserted(entries, k, n)
    BY DEF InsertAfter
<1> HIDE DEF k
<1>4. p \in Place /\ Following(p) = Onward(single)[p]
    <2>1. p \in Place
        BY <1>1, <1>2, ChainPlaces
    <2> QED BY <2>1, FollowingIsOnward
<1>5. PICK e : e = Linked([single EXCEPT !.next[n] = Onward(single)[p]], p, n)
    OBVIOUS
<1>6. e \in SingleRecord /\ e.size = single.size /\ e.tail = single.tail /\ Forward(Onward(e), entries')
    BY <1>1, <1>2, <1>3, <1>5, SingleInsert
<1>7. /\ Chain(entries') /\ Len(entries') = Len(entries) + 1
      /\ \A i \in 0 .. Len(entries) + 2 :
            NodeAt(entries', i) = IF i < k THEN NodeAt(entries, i) ELSE IF i = k THEN n ELSE NodeAt(entries, i - 1)
    BY <1>1, <1>2, <1>3, InsertedAt
<1>8. PICK t : t = IF single.tail = p THEN n ELSE single.tail
    OBVIOUS
<1>9. t = NodeAt(entries', Len(entries'))
    <2>1. single.tail = NodeAt(entries, Len(entries))
        BY DEF TailOK
    <2>2. \A i, j \in 0 .. Len(entries) : NodeAt(entries, i) = NodeAt(entries, j) => i = j
        BY <1>1, ChainPlaces
    <2>3. CASE single.tail = p
        <3>1. k - 1 = Len(entries)
            <4>1. k - 1 \in 0 .. Len(entries) /\ Len(entries) \in 0 .. Len(entries)
                BY <1>1, <1>2
            <4>2. NodeAt(entries, k - 1) = NodeAt(entries, Len(entries))
                BY <1>2, <2>1, <2>3
            <4> QED BY <2>2, <4>1, <4>2, Zenon
        <3>2. NodeAt(entries', Len(entries')) = n
            BY <1>1, <1>2, <1>7, <3>1
        <3> QED BY <1>8, <2>3, <3>2
    <2>4. CASE single.tail # p
        <3>1. k - 1 # Len(entries)
            BY <1>2, <2>1, <2>4
        <3>2. NodeAt(entries', Len(entries')) = NodeAt(entries, (Len(entries) + 1) - 1)
            BY <1>1, <1>2, <1>7, <3>1
        <3> QED BY <1>1, <1>8, <2>1, <2>4, <3>2
    <2> QED BY <2>3, <2>4
<1>10. t \in Place
    BY <1>7, <1>9, ChainPlaces
<1>11. single' = Finished(e, t, Len(entries'))
    <2>1. single' = [e EXCEPT !.tail = IF single.tail = p THEN n ELSE @, !.size = @ + 1]
        BY <1>4, <1>5, Zenon DEF InsertAfter
    <2>2. single' = [e EXCEPT !.tail = IF single.tail = p THEN n ELSE e.tail, !.size = e.size + 1]
        BY <2>1
    <2>3. e.size + 1 = Len(entries') /\ e.tail = single.tail
        BY <1>1, <1>6, <1>7
    <2> QED BY <1>8, <2>2, <2>3, Zenon DEF Finished
<1>12. SingleOK(single', entries') /\ single'.tail = t
    <2>1. Chain(entries')
        BY <1>7
    <2>2. e \in SingleRecord /\ Forward(Onward(e), entries')
        BY <1>6
    <2> QED BY <1>10, <1>11, <2>1, <2>2, TailAndSize
<1> QED BY <1>9, <1>12 DEF TailOK

\* ... next_to_after, which may leave the end behind ...
LEMMA NextToAfterStep ==
    ASSUME SingleOK(single, entries), TailOK(single, entries), tailSound = TRUE,
           NEW p \in NodesOf(entries) \cup {NoNode}, NEW from \in NodesOf(entries) \cup {NoNode},
           NextToAfter(p, from)
    PROVE  SingleOK(single', entries') /\ (tailSound' => TailOK(single', entries'))
<1> DEFINE a == AfterPlace(from)
<1> DEFINE n == Following(from)
<1> DEFINE r == CutNode(entries, n)
<1> DEFINE k == IF p = NoNode THEN 1 ELSE At(r, p) + 1
<1> DEFINE L == Len(entries)
<1>1. /\ Chain(entries) /\ single \in SingleRecord /\ single.size = L
      /\ Forward(Onward(single), entries) /\ L \in Nat
    BY ChainPlaces DEF SingleOK
<1>2. a \in 1 .. L + 1 /\ NodeAt(entries, a - 1) = from
    <2>1. a = IF from = NoNode THEN 1 ELSE At(entries, from) + 1
        BY Zenon DEF AfterPlace
    <2> HIDE DEF a
    <2> QED BY <1>1, <2>1, PlaceAfter
<1> HIDE DEF a
<1>3. p # from /\ n # NoNode /\ n # p /\ entries' = Inserted(r, k, n)
    BY Zenon DEF NextToAfter
<1>4. n = NodeAt(entries, a) /\ from \in Place /\ p \in Place
    <2>1. from \in Place /\ p \in Place
        BY <1>1 DEF Place, NodesOf, Chain
    <2>2. n = Onward(single)[from]
        BY <2>1, FollowingIsOnward
    <2>3. Onward(single)[NodeAt(entries, a - 1)] = NodeAt(entries, (a - 1) + 1)
        BY <1>1, <1>2 DEF Forward
    <2>4. (a - 1) + 1 = a
        BY <1>1, <1>2
    <2> QED BY <1>2, <2>1, <2>2, <2>3, <2>4
<1>5. single' = [Linked([Linked(single, from, single.next[n]) EXCEPT
                            !.next[n] = IF p = NoNode THEN Linked(single, from, single.next[n]).head
                                        ELSE Linked(single, from, single.next[n]).next[p]], p, n) EXCEPT
                      !.tail = IF p = single.tail THEN n
                               ELSE IF p = NoNode /\ n = single.tail THEN from ELSE @]
    BY Zenon DEF NextToAfter
<1>6. tailSound' => p = NoNode \/ n # single.tail
    BY DEF NextToAfter
<1> HIDE DEF n
<1>7. a \in 1 .. L /\ n \in NodesOf(entries) /\ At(entries, n) = a
    <2>1. a # L + 1
        BY <1>1, <1>3, <1>4, ChainPlaces
    <2>2. At(entries, n) = a
        BY <1>1, <1>2, <1>4, PlaceFound
    <2>3. a \in 1 .. L
        BY <1>1, <1>2, <2>1
    <2>4. n \in NodesOf(entries)
        <3>1. n = entries[a] /\ DOMAIN entries = 1 .. L
            BY <1>1, <1>4, <2>3, ChainPlaces DEF Chain
        <3> QED BY <2>3, <3>1 DEF NodesOf
    <2> QED BY <2>2, <2>3, <2>4
<1>8. single.next[n] = NodeAt(entries, a + 1) /\ n \in ListNode
    <2>1. n \in ListNode
        BY <1>1, <1>7, NodeOutside
    <2>2. Onward(single)[NodeAt(entries, a)] = NodeAt(entries, a + 1)
        BY <1>1, <1>7 DEF Forward
    <2>3. Onward(single)[n] = single.next[n]
        BY <1>3, <2>1 DEF Onward, Place
    <2> QED BY <1>4, <2>1, <2>2, <2>3
<1>9. r = CutOut(entries, a, a + 1)
    BY <1>7, Zenon DEF CutNode
<1>10. a \in 1 .. L + 1 /\ a + 1 \in a .. L + 1 /\ (a + 1) - a = 1
    BY <1>1, <1>7
<1>11. PICK d : d = Linked(single, from, single.next[n])
    OBVIOUS
<1>12. d \in SingleRecord /\ d.size = single.size /\ d.tail = single.tail /\ Forward(Onward(d), r)
    <2>1. d = Linked(single, NodeAt(entries, a - 1), NodeAt(entries, a + 1))
        BY <1>2, <1>8, <1>11, Zenon
    <2> QED BY <1>1, <1>9, <1>10, <2>1, SingleCut
<1>13. /\ Chain(r) /\ Len(r) = L - 1
       /\ \A i \in 0 .. L : NodeAt(r, i) = IF i < a THEN NodeAt(entries, i) ELSE NodeAt(entries, i + 1)
    <2>1. /\ Chain(r) /\ Len(r) = L - ((a + 1) - a)
          /\ \A i \in 0 .. L - ((a + 1) - a) + 1 :
                NodeAt(r, i) = IF i < a THEN NodeAt(entries, i) ELSE NodeAt(entries, i + ((a + 1) - a))
        <3>1. /\ Chain(CutOut(entries, a, a + 1)) /\ Len(CutOut(entries, a, a + 1)) = L - ((a + 1) - a)
              /\ \A i \in 0 .. L - ((a + 1) - a) + 1 :
                    NodeAt(CutOut(entries, a, a + 1), i) =
                        IF i < a THEN NodeAt(entries, i) ELSE NodeAt(entries, i + ((a + 1) - a))
            BY <1>1, <1>10, CutOutAt
        <3> HIDE DEF r, L
        <3> QED BY <1>9, <3>1, Zenon
    <2> HIDE DEF r
    <2>2. \A i \in 0 .. L : i \in 0 .. L - ((a + 1) - a) + 1 /\ i + ((a + 1) - a) = i + 1
        BY <1>1, <1>10
    <2>3. L - ((a + 1) - a) = L - 1
        BY <1>1, <1>10
    <2> QED BY <2>1, <2>2, <2>3
<1>14. n \in NotIn(r) /\ p \in NodesOf(r) \cup {NoNode}
    BY <1>1, <1>3, <1>7, NodeOutside
<1>15. k \in 1 .. Len(r) + 1 /\ NodeAt(r, k - 1) = p
    <2>1. k = IF p = NoNode THEN 1 ELSE At(r, p) + 1
        OBVIOUS
    <2>2. Chain(r) /\ p \in NodesOf(r) \cup {NoNode}
        BY <1>13, <1>14
    <2> HIDE DEF k, r
    <2> QED BY <2>1, <2>2, PlaceAfter, Zenon
<1>16. p = NoNode => k = 1
    OBVIOUS
<1> HIDE DEF r, k
<1>17. PICK e : e = Linked([d EXCEPT !.next[n] = Onward(d)[p]], p, n)
    OBVIOUS
<1>18. e \in SingleRecord /\ e.size = d.size /\ e.tail = d.tail /\ Forward(Onward(e), entries')
    BY <1>3, <1>12, <1>13, <1>14, <1>15, <1>17, SingleInsert
<1>19. /\ Chain(entries') /\ Len(entries') = L
       /\ \A i \in 0 .. L + 1 :
             NodeAt(entries', i) = IF i < k THEN NodeAt(r, i) ELSE IF i = k THEN n ELSE NodeAt(r, i - 1)
    <2>1. /\ Chain(entries') /\ Len(entries') = Len(r) + 1
          /\ \A i \in 0 .. Len(r) + 2 :
                NodeAt(entries', i) = IF i < k THEN NodeAt(r, i) ELSE IF i = k THEN n ELSE NodeAt(r, i - 1)
        BY <1>3, <1>13, <1>14, <1>15, InsertedAt
    <2> QED BY <1>1, <1>13, <2>1
<1>20. PICK t : t = IF p = single.tail THEN n ELSE IF p = NoNode /\ n = single.tail THEN from ELSE single.tail
    OBVIOUS
<1>21. tailSound' => t = NodeAt(entries', L)
    <2>1. single.tail = NodeAt(entries, L)
        BY DEF TailOK
    <2>2. \A i, j \in 0 .. L : NodeAt(entries, i) = NodeAt(entries, j) => i = j
        BY <1>1, ChainPlaces
    <2>3. CASE p = single.tail
        <3>1. a # L
            BY <1>3, <1>4, <2>1, <2>3
        <3>2. NodeAt(r, L - 1) = p
            BY <1>1, <1>7, <1>13, <2>1, <2>3, <3>1
        <3>3. k - 1 = L - 1
            <4>1. \A i, j \in 0 .. Len(r) : NodeAt(r, i) = NodeAt(r, j) => i = j
                BY <1>13, ChainPlaces
            <4> QED BY <1>1, <1>7, <1>13, <1>15, <3>2, <4>1
        <3>4. NodeAt(entries', L) = n
            BY <1>1, <1>15, <1>19, <3>3
        <3> QED BY <1>20, <2>3, <3>4
    <2>4. CASE p # single.tail /\ n = single.tail
        <3>1. a = L
            <4>1. a \in 0 .. L /\ L \in 0 .. L
                BY <1>1, <1>7
            <4>2. NodeAt(entries, a) = NodeAt(entries, L)
                BY <1>4, <2>1, <2>4
            <4> QED BY <2>2, <4>1, <4>2, Zenon
        <3>2. CASE p = NoNode
            <4>1. from = NodeAt(entries, L - 1) /\ L - 1 # 0
                <5>1. NodeAt(entries, 0) = NoNode
                    BY <1>1, ChainPlaces
                <5> QED BY <1>2, <1>3, <3>1, <3>2, <5>1
            <4>2. NodeAt(entries', L) = NodeAt(r, L - 1)
                <5>1. L \in 0 .. L + 1 /\ ~(L < k) /\ L # k
                    BY <1>1, <1>7, <1>16, <3>2, <4>1
                <5> QED BY <1>19, <5>1
            <4>3. NodeAt(r, L - 1) = NodeAt(entries, L - 1)
                BY <1>1, <1>7, <1>13, <3>1
            <4> QED BY <1>20, <2>4, <3>2, <4>1, <4>2, <4>3
        <3>3. CASE p # NoNode
            BY <1>6, <2>4, <3>3
        <3> QED BY <3>2, <3>3
    <2>5. CASE p # single.tail /\ n # single.tail
        <3>1. a # L
            BY <1>4, <2>1, <2>5
        <3>2. NodeAt(r, L - 1) = single.tail
            BY <1>1, <1>7, <1>13, <2>1, <3>1
        <3>3. k # L
            BY <1>15, <2>5, <3>2
        <3>4. NodeAt(entries', L) = NodeAt(r, L - 1)
            BY <1>1, <1>13, <1>15, <1>19, <3>3
        <3> QED BY <1>20, <2>5, <3>2, <3>4
    <2> QED BY <2>3, <2>4, <2>5
<1>22. t \in Place
    BY <1>1, <1>4, <1>8, <1>20 DEF SingleRecord, Place
<1>23. single' = Finished(e, t, Len(entries'))
    <2>1. Onward(d)[p] = IF p = NoNode THEN d.head ELSE d.next[p]
        BY <1>4 DEF Onward
    <2>2. single' = [e EXCEPT !.tail = IF p = single.tail THEN n
                                       ELSE IF p = NoNode /\ n = single.tail THEN from ELSE @]
        BY <1>5, <1>11, <1>17, <2>1, Zenon
    <2>3. single' = [e EXCEPT !.tail = t]
        BY <1>12, <1>18, <1>20, <2>2
    <2>4. e.size = Len(entries')
        BY <1>1, <1>12, <1>18, <1>19
    <2> QED BY <1>18, <2>3, <2>4 DEF SingleRecord, Finished
<1>24. SingleOK(single', entries') /\ single'.tail = t
    <2>1. Chain(entries')
        BY <1>19
    <2>2. e \in SingleRecord /\ Forward(Onward(e), entries')
        BY <1>18
    <2> QED BY <1>22, <1>23, <2>1, <2>2, TailAndSize
<1> QED BY <1>19, <1>21, <1>24 DEF TailOK

\* ... erase_after of one node and release_after ...
LEMMA EraseAfterStep ==
    ASSUME SingleOK(single, entries), TailOK(single, entries),
           NEW p \in NodesOf(entries) \cup {NoNode}, EraseAfter(p)
    PROVE  SingleOK(single', entries') /\ TailOK(single', entries')
<1> DEFINE k == AfterPlace(p)
<1> DEFINE n == Following(p)
<1> DEFINE L == Len(entries)
<1>1. /\ Chain(entries) /\ single \in SingleRecord /\ single.size = L
      /\ Forward(Onward(single), entries) /\ L \in Nat /\ single.tail = NodeAt(entries, L)
    BY ChainPlaces DEF SingleOK, TailOK
<1>2. k \in 1 .. L + 1 /\ NodeAt(entries, k - 1) = p
    <2>1. k = IF p = NoNode THEN 1 ELSE At(entries, p) + 1
        BY Zenon DEF AfterPlace
    <2>2. Chain(entries)
        BY <1>1
    <2> HIDE DEF k
    <2> QED BY <2>1, <2>2, PlaceAfter, Zenon
<1>3. p # single.tail /\ entries' = CutNode(entries, n)
    BY Zenon DEF EraseAfter
<1>4. single' = [Linked(single, p, single.next[n]) EXCEPT
                    !.next[n] = NoNode, !.size = @ - 1, !.tail = IF n = @ THEN p ELSE @]
    BY Zenon DEF EraseAfter
<1> HIDE DEF k
<1>5. k \in 1 .. L /\ p \in Place
    <2>1. k - 1 # L
        BY <1>1, <1>2, <1>3
    <2>2. p \in Place
        BY <1>1 DEF Place, NodesOf, Chain
    <2> QED BY <1>1, <1>2, <2>1, <2>2
<1>6. n = NodeAt(entries, k)
    <2>1. n = Onward(single)[p]
        BY <1>1, <1>5, FollowingIsOnward
    <2>2. Onward(single)[NodeAt(entries, k - 1)] = NodeAt(entries, (k - 1) + 1)
        BY <1>1, <1>2 DEF Forward
    <2>3. (k - 1) + 1 = k
        BY <1>1, <1>2
    <2> QED BY <1>2, <2>1, <2>2, <2>3
<1> HIDE DEF n
<1>7. n \in NodesOf(entries) /\ At(entries, n) = k /\ n \in ListNode /\ n # NoNode
    <2>1. At(entries, n) = k
        BY <1>1, <1>2, <1>6, PlaceFound
    <2>2. n \in NodesOf(entries)
        <3>1. n = entries[k] /\ DOMAIN entries = 1 .. L
            BY <1>1, <1>5, <1>6, ChainPlaces DEF Chain
        <3> QED BY <1>5, <3>1 DEF NodesOf
    <2> QED BY <1>1, <2>1, <2>2, NodeOutside
<1>8. single.next[n] = NodeAt(entries, k + 1)
    <2>1. Onward(single)[NodeAt(entries, k)] = NodeAt(entries, k + 1)
        BY <1>1, <1>5 DEF Forward
    <2>2. Onward(single)[n] = single.next[n]
        BY <1>7 DEF Onward, Place
    <2> QED BY <1>6, <2>1, <2>2
<1>9. k \in 1 .. L + 1 /\ k + 1 \in k .. L + 1 /\ (k + 1) - k = 1
    BY <1>1, <1>5
<1>10. entries' = CutOut(entries, k, k + 1)
    BY <1>3, <1>7, Zenon DEF CutNode
<1>11. PICK d : d = Linked(single, p, single.next[n])
    OBVIOUS
<1>12. d \in SingleRecord /\ d.size = single.size /\ d.tail = single.tail /\ Forward(Onward(d), entries')
    <2>1. d = Linked(single, NodeAt(entries, k - 1), NodeAt(entries, k + 1))
        BY <1>2, <1>8, <1>11, Zenon
    <2> QED BY <1>1, <1>9, <1>10, <2>1, SingleCut
<1>13. /\ Chain(entries') /\ Len(entries') = L - 1
       /\ \A i \in 0 .. L : NodeAt(entries', i) = IF i < k THEN NodeAt(entries, i) ELSE NodeAt(entries, i + 1)
    <2>1. /\ Chain(entries') /\ Len(entries') = L - ((k + 1) - k)
          /\ \A i \in 0 .. L - ((k + 1) - k) + 1 :
                NodeAt(entries', i) = IF i < k THEN NodeAt(entries, i) ELSE NodeAt(entries, i + ((k + 1) - k))
        <3>1. /\ Chain(CutOut(entries, k, k + 1)) /\ Len(CutOut(entries, k, k + 1)) = L - ((k + 1) - k)
              /\ \A i \in 0 .. L - ((k + 1) - k) + 1 :
                    NodeAt(CutOut(entries, k, k + 1), i) =
                        IF i < k THEN NodeAt(entries, i) ELSE NodeAt(entries, i + ((k + 1) - k))
            BY <1>1, <1>9, CutOutAt
        <3> HIDE DEF L
        <3> QED BY <1>10, <3>1, Zenon
    <2>2. \A i \in 0 .. L : i \in 0 .. L - ((k + 1) - k) + 1 /\ i + ((k + 1) - k) = i + 1
        BY <1>1, <1>9
    <2>3. L - ((k + 1) - k) = L - 1
        BY <1>1, <1>9
    <2> QED BY <2>1, <2>2, <2>3
<1>14. PICK t : t = IF n = single.tail THEN p ELSE single.tail
    OBVIOUS
<1>15. t = NodeAt(entries', Len(entries'))
    <2>1. CASE k = L
        <3>1. n = single.tail
            BY <1>1, <1>6, <2>1
        <3>2. NodeAt(entries', L - 1) = NodeAt(entries, L - 1)
            BY <1>1, <1>5, <1>13, <2>1
        <3> QED BY <1>2, <1>13, <1>14, <2>1, <3>1, <3>2
    <2>2. CASE k # L
        <3>1. n # single.tail
            <4>1. \A i, j \in 0 .. L : NodeAt(entries, i) = NodeAt(entries, j) => i = j
                BY <1>1, ChainPlaces
            <4>2. k \in 0 .. L /\ L \in 0 .. L
                BY <1>1, <1>5
            <4> QED BY <1>1, <1>6, <2>2, <4>1, <4>2, Zenon
        <3>2. NodeAt(entries', L - 1) = NodeAt(entries, (L - 1) + 1) /\ (L - 1) + 1 = L
            BY <1>1, <1>5, <1>13, <2>2
        <3> QED BY <1>1, <1>13, <1>14, <3>1, <3>2
    <2> QED BY <2>1, <2>2
<1>16. t \in Place
    BY <1>1, <1>5, <1>14 DEF SingleRecord
<1>17. /\ single' \in SingleRecord /\ single'.size = Len(entries') /\ single'.tail = t
       /\ single'.head = d.head /\ single'.next = [d.next EXCEPT ![n] = NoNode]
    <2>1. PICK z : z = d.size - 1
        OBVIOUS
    <2>2. z \in Int /\ z = Len(entries')
        BY <1>1, <1>12, <1>13, <2>1
    <2>3. single' = [d EXCEPT !.next[n] = NoNode, !.size = z, !.tail = t]
        <3>1. single' = [d EXCEPT !.next[n] = NoNode, !.size = @ - 1, !.tail = IF n = @ THEN p ELSE @]
            BY <1>4, <1>11
        <3> QED BY <1>12, <1>14, <2>1, <3>1
    <2>4. /\ single' \in SingleRecord /\ single'.size = z /\ single'.tail = t
          /\ single'.head = d.head /\ single'.next = [d.next EXCEPT ![n] = NoNode]
        BY <1>12, <1>16, <2>2, <2>3 DEF SingleRecord, Place
    <2> QED BY <2>2, <2>4
<1>18. \A m \in NodesOf(entries') : single'.next[m] = d.next[m]
    <2>1. \A m \in NodesOf(entries') : m # n /\ m \in ListNode
        <3>1. \A m : m \in NodesOf(CutNode(entries, n)) <=> m \in NodesOf(entries) /\ m # n
            BY <1>1, <1>7, NodeOutside
        <3>2. \A m \in NodesOf(entries') : m # n
            BY <1>3, <3>1
        <3>3. \A m \in NodesOf(entries') : m \in ListNode
            BY <1>13 DEF NodesOf, Chain
        <3> QED BY <3>2, <3>3
    <2>2. d.next \in [ListNode -> Place]
        BY <1>12 DEF SingleRecord
    <2> QED BY <1>17, <2>1, <2>2
<1>19. Forward(Onward(single'), entries')
    BY <1>12, <1>13, <1>17, <1>18, OthersFreeHere
<1> QED BY <1>13, <1>15, <1>17, <1>19 DEF SingleOK, TailOK

\* ... and erase_after of a range keep a SingleList right.
LEMMA EraseRangeAfterStep ==
    ASSUME SingleOK(single, entries), TailOK(single, entries),
           NEW p \in NodesOf(entries) \cup {NoNode}, NEW end \in NodesOf(entries) \cup {NoNode},
           EraseRangeAfter(p, end)
    PROVE  SingleOK(single', entries') /\ TailOK(single', entries')
<1> DEFINE k == AfterPlace(p)
<1> DEFINE q == At(entries, end)
<1> DEFINE L == Len(entries)
<1> DEFINE gone == SubSeq(entries, k, q - 1)
<1>1. /\ Chain(entries) /\ single \in SingleRecord /\ single.size = L
      /\ Forward(Onward(single), entries) /\ L \in Nat /\ single.tail = NodeAt(entries, L)
    BY ChainPlaces DEF SingleOK, TailOK
<1>2. k \in 1 .. L + 1 /\ NodeAt(entries, k - 1) = p
    <2>1. k = IF p = NoNode THEN 1 ELSE At(entries, p) + 1
        BY Zenon DEF AfterPlace
    <2>2. Chain(entries)
        BY <1>1
    <2> HIDE DEF k
    <2> QED BY <2>1, <2>2, PlaceAfter, Zenon
<1>3. k <= q /\ entries' = CutOut(entries, k, q)
    BY DEF EraseRangeAfter
<1>4. single' = [Linked(single, p, end) EXCEPT
                    !.size = @ - Len(gone), !.tail = IF end = NoNode THEN p ELSE @,
                    !.next = [n \in ListNode |->
                                 IF n \in NodesOf(gone) THEN NoNode ELSE Linked(single, p, end).next[n]]]
    BY Zenon DEF EraseRangeAfter
<1>5. q \in 1 .. L + 1 /\ NodeAt(entries, q) = end
    BY <1>1, PlaceOf
<1>6. end = NoNode => q = L + 1
    BY DEF At
<1> HIDE DEF k, q
<1>7. k \in 1 .. L + 1 /\ q \in k .. L + 1
    BY <1>1, <1>2, <1>3, <1>5
<1>8. p \in Place
    BY <1>1 DEF Place, NodesOf, Chain
<1>9. PICK d : d = Linked(single, p, end)
    OBVIOUS
<1>10. d \in SingleRecord /\ d.size = single.size /\ d.tail = single.tail /\ Forward(Onward(d), entries')
    <2>1. d = Linked(single, NodeAt(entries, k - 1), NodeAt(entries, q))
        BY <1>2, <1>5, <1>9, Zenon
    <2> QED BY <1>1, <1>3, <1>7, <2>1, SingleCut
<1>11. /\ Chain(entries') /\ Len(entries') = L - (q - k)
       /\ \A i \in 0 .. L - (q - k) + 1 :
             NodeAt(entries', i) = IF i < k THEN NodeAt(entries, i) ELSE NodeAt(entries, i + (q - k))
    BY <1>1, <1>3, <1>7, CutOutAt
<1>12. Len(gone) = q - k /\ \A m \in NodesOf(entries') : m \notin NodesOf(gone)
    BY <1>1, <1>3, <1>7, RangeNodes
<1> HIDE DEF gone
<1>13. PICK t : t = IF end = NoNode THEN p ELSE single.tail
    OBVIOUS
<1>14. t = NodeAt(entries', Len(entries'))
    <2>1. CASE end = NoNode
        <3>1. Len(entries') = k - 1 /\ k - 1 \in 0 .. L - (q - k) + 1 /\ k - 1 < k
            BY <1>1, <1>6, <1>7, <1>11, <2>1
        <3>2. NodeAt(entries', k - 1) = NodeAt(entries, k - 1)
            BY <1>11, <3>1
        <3> QED BY <1>2, <1>13, <2>1, <3>1, <3>2
    <2>2. CASE end # NoNode
        <3>1. q # L + 1
            BY <1>1, <1>5, <2>2, ChainPlaces
        <3>2. /\ L - (q - k) \in 0 .. L - (q - k) + 1 /\ ~(L - (q - k) < k)
              /\ (L - (q - k)) + (q - k) = L
            BY <1>1, <1>7, <3>1
        <3>3. NodeAt(entries', L - (q - k)) = NodeAt(entries, (L - (q - k)) + (q - k))
            BY <1>11, <3>2
        <3> QED BY <1>1, <1>11, <1>13, <2>2, <3>2, <3>3
    <2> QED BY <2>1, <2>2
<1>15. t \in Place
    BY <1>1, <1>8, <1>13 DEF SingleRecord
<1>16. /\ single' \in SingleRecord /\ single'.size = Len(entries') /\ single'.tail = t
       /\ single'.head = d.head
       /\ single'.next = [n \in ListNode |-> IF n \in NodesOf(gone) THEN NoNode ELSE d.next[n]]
    <2>1. PICK z, f :
            /\ z = d.size - Len(gone)
            /\ f = [n \in ListNode |-> IF n \in NodesOf(gone) THEN NoNode ELSE d.next[n]]
        OBVIOUS
    <2>2. z \in Int /\ z = Len(entries')
        BY <1>1, <1>7, <1>10, <1>11, <1>12, <2>1
    <2>3. f \in [ListNode -> Place]
        BY <1>10, <2>1 DEF SingleRecord, Place
    <2>4. single' = [d EXCEPT !.size = z, !.tail = t, !.next = f]
        <3>1. single' = [d EXCEPT !.size = d.size - Len(gone), !.tail = IF end = NoNode THEN p ELSE d.tail,
                                  !.next = [n \in ListNode |-> IF n \in NodesOf(gone) THEN NoNode ELSE d.next[n]]]
            BY <1>4, <1>9, Zenon
        <3> QED BY <1>10, <1>13, <2>1, <3>1, Zenon
    <2>5. /\ single' \in SingleRecord /\ single'.size = z /\ single'.tail = t
          /\ single'.head = d.head /\ single'.next = f
        BY <1>10, <1>15, <2>2, <2>3, <2>4 DEF SingleRecord
    <2> QED BY <2>1, <2>2, <2>5, Zenon
<1>17. \A m \in NodesOf(entries') : single'.next[m] = d.next[m]
    <2>1. \A m \in NodesOf(entries') : m \in ListNode
        BY <1>11 DEF NodesOf, Chain
    <2> QED BY <1>12, <1>16, <2>1
<1>18. Forward(Onward(single'), entries')
    BY <1>10, <1>11, <1>16, <1>17, OthersFreeHere
<1> QED BY <1>11, <1>14, <1>16, <1>18 DEF SingleOK, TailOK

-----------------------------------------------------------------------------
\* Both lists; a SingleList knows its end until next_to_after has left it behind.
ListInv ==
    /\ loose = NoNode => DoubleOK(double, items)
    /\ loose # NoNode => LooseOK(double, items)
    /\ SingleOK(single, entries)
    /\ tailSound \in BOOLEAN
    /\ tailSound => TailOK(single, entries)

\* Two empty lists are right, ...
LEMMA ListInitially == ASSUME ListInit PROVE ListInv
<1>1. Unlinked \in [ListNode -> Place]
    BY DEF Unlinked, Place
<1>2. Chain(<<>>) /\ Len(<<>>) = 0
    BY DEF Chain
<1>3. NodeAt(<<>>, 0) = NoNode /\ NodeAt(<<>>, 1) = NoNode
    BY DEF NodeAt
<1>4. /\ double = [head |-> NoNode, tail |-> NoNode, next |-> Unlinked, prev |-> Unlinked, size |-> 0]
      /\ single = [head |-> NoNode, tail |-> NoNode, next |-> Unlinked, size |-> 0]
      /\ items = <<>> /\ entries = <<>> /\ tailSound = TRUE /\ loose = NoNode
    BY DEF ListInit
<1>5. NoNode \in Place
    BY DEF Place
<1>6. /\ double \in ListRecord /\ double.head = NoNode /\ double.tail = NoNode /\ double.size = 0
      /\ single \in SingleRecord /\ single.head = NoNode /\ single.tail = NoNode /\ single.size = 0
    BY <1>1, <1>4, <1>5 DEF ListRecord, SingleRecord
<1>7. Onward(double)[NoNode] = NoNode /\ Back(double)[NoNode] = NoNode /\ Onward(single)[NoNode] = NoNode
    BY <1>5, <1>6 DEF Onward, Back
<1>8. \A i \in 0 .. 0 : i = 0 /\ i + 1 = 1
    OBVIOUS
<1>9. Forward(Onward(double), <<>>) /\ Backward(Back(double), <<>>) /\ Forward(Onward(single), <<>>)
    BY <1>2, <1>3, <1>7, <1>8 DEF Forward, Backward
<1>10. DoubleOK(double, items)
    BY <1>2, <1>4, <1>6, <1>9 DEF DoubleOK, Linking
<1>11. SingleOK(single, entries)
    BY <1>2, <1>4, <1>6, <1>9 DEF SingleOK
<1>12. TailOK(single, entries)
    BY <1>2, <1>3, <1>4, <1>6 DEF TailOK
<1> QED BY <1>4, <1>10, <1>11, <1>12 DEF ListInv

\* ... and every step keeps them right.
LEMMA ListStep == ASSUME ListInv, [ListNext]_listVars PROVE ListInv'
<1>1. CASE UNCHANGED listVars
    BY <1>1 DEF listVars, ListInv, DoubleOK, LooseOK, SingleOK, TailOK
<1>2. CASE DoubleNext
    <2>1. DoubleOK(double, items) /\ loose = NoNode
        BY <1>2 DEF ListInv, DoubleNext
    <2>2. single' = single /\ entries' = entries /\ tailSound' = tailSound
        BY <1>2 DEF DoubleNext
    <2>3. PICK n \in ListNode :
            \/ \E d \in NodesOf(items) \cup {NoNode} : InsertNode(d, n) \/ MoveTo(d, n) \/ EraseNodes(n, d)
            \/ EraseNode(n) \/ MoveBeforeItself(n)
        BY <1>2 DEF DoubleNext
    <2>4. CASE EraseNode(n)
        <3>1. DoubleOK(double', items') /\ loose' = NoNode
            BY <2>1, <2>4, EraseNodeStep DEF DoubleOK, EraseNode
        <3> QED BY <2>2, <3>1 DEF ListInv
    <2>5. ASSUME NEW d \in NodesOf(items) \cup {NoNode}, InsertNode(d, n)
          PROVE  ListInv'
        <3>1. DoubleOK(double', items') /\ loose' = NoNode
            BY <2>1, <2>5, InsertNodeStep DEF DoubleOK, InsertNode
        <3> QED BY <2>2, <3>1 DEF ListInv
    <2>6. ASSUME NEW d \in NodesOf(items) \cup {NoNode}, MoveTo(d, n)
          PROVE  ListInv'
        <3>1. DoubleOK(double', items') /\ loose' = NoNode
            BY <2>1, <2>6, MoveToStep DEF DoubleOK, MoveTo
        <3> QED BY <2>2, <3>1 DEF ListInv
    <2>7. ASSUME NEW d \in NodesOf(items) \cup {NoNode}, EraseNodes(n, d)
          PROVE  ListInv'
        <3>1. DoubleOK(double', items') /\ loose' = NoNode
            BY <2>1, <2>7, EraseNodesStep DEF DoubleOK, EraseNodes
        <3> QED BY <2>2, <3>1 DEF ListInv
    <2>8. CASE MoveBeforeItself(n)
        <3>1. LooseOK(double', items') /\ loose' # NoNode
            BY <2>1, <2>8, MoveBeforeItselfStep, ListAssumption DEF LooseOK, MoveBeforeItself
        <3> QED BY <2>2, <3>1 DEF ListInv
    <2> QED BY <2>3, <2>4, <2>5, <2>6, <2>7, <2>8
<1>3. CASE SingleNext
    <2>1. SingleOK(single, entries) /\ tailSound = TRUE /\ TailOK(single, entries)
        BY <1>3 DEF SingleNext, ListInv
    <2>2. double' = double /\ items' = items /\ loose' = loose
        BY <1>3 DEF SingleNext
    <2>3. PICK p \in NodesOf(entries) \cup {NoNode} :
            \/ \E n \in ListNode : InsertAfter(p, n)
            \/ \E q \in NodesOf(entries) \cup {NoNode} : NextToAfter(p, q) \/ EraseRangeAfter(p, q)
            \/ EraseAfter(p)
        BY <1>3 DEF SingleNext
    <2>4. (loose' = NoNode => DoubleOK(double', items')) /\ (loose' # NoNode => LooseOK(double', items'))
        BY <2>2 DEF ListInv
    <2>5. ASSUME NEW n \in ListNode, InsertAfter(p, n) PROVE ListInv'
        <3>1. SingleOK(single', entries') /\ TailOK(single', entries')
            BY <2>1, <2>5, InsertAfterStep
        <3>2. tailSound' = tailSound
            BY <2>5 DEF InsertAfter
        <3> QED BY <2>1, <2>4, <3>1, <3>2 DEF ListInv
    <2>6. ASSUME NEW q \in NodesOf(entries) \cup {NoNode}, NextToAfter(p, q) PROVE ListInv'
        <3>1. SingleOK(single', entries') /\ (tailSound' => TailOK(single', entries'))
            BY <2>1, <2>6, NextToAfterStep
        <3>2. tailSound' \in BOOLEAN
            BY <2>6 DEF NextToAfter
        <3> QED BY <2>4, <3>1, <3>2 DEF ListInv
    <2>7. ASSUME NEW q \in NodesOf(entries) \cup {NoNode}, EraseRangeAfter(p, q) PROVE ListInv'
        <3>1. SingleOK(single', entries') /\ TailOK(single', entries')
            BY <2>1, <2>7, EraseRangeAfterStep
        <3>2. tailSound' = tailSound
            BY <2>7 DEF EraseRangeAfter
        <3> QED BY <2>1, <2>4, <3>1, <3>2 DEF ListInv
    <2>8. CASE EraseAfter(p)
        <3>1. SingleOK(single', entries') /\ TailOK(single', entries')
            BY <2>1, <2>8, EraseAfterStep
        <3>2. tailSound' = tailSound
            BY <2>8 DEF EraseAfter
        <3> QED BY <2>1, <2>4, <3>1, <3>2 DEF ListInv
    <2> QED BY <2>3, <2>5, <2>6, <2>7, <2>8
<1> QED BY <1>1, <1>2, <1>3 DEF ListNext

\* The first and the last place are what ListsAgree says of the ends.
LEMMA ForwardLeads ==
    ASSUME NEW s, Chain(s), NEW d, Forward(Onward(d), s)
    PROVE  Leads(d, s)
<1>1. /\ Len(s) \in Nat /\ s \in Seq(ListNode) /\ DOMAIN s = 1 .. Len(s) /\ NodeAt(s, 0) = NoNode
      /\ \A i \in 1 .. Len(s) : NodeAt(s, i) = s[i] /\ s[i] \in ListNode /\ s[i] # NoNode
      /\ NodeAt(s, Len(s) + 1) = NoNode
    BY ChainPlaces, ListAssumption DEF Chain
<1>2. NoNode \in Place /\ Onward(d)[NoNode] = d.head /\ \A m \in ListNode : Onward(d)[m] = d.next[m]
    BY ListAssumption DEF Onward, Place
<1>3. d.head = NodeAt(s, 1)
    <2>1. Onward(d)[NodeAt(s, 0)] = NodeAt(s, 0 + 1)
        BY <1>1 DEF Forward
    <2> QED BY <1>1, <1>2, <2>1
<1>4. d.head = IF s = <<>> THEN NoNode ELSE Head(s)
    <2>1. CASE s = <<>>
        BY <1>1, <1>3, <2>1 DEF NodeAt
    <2>2. CASE s # <<>>
        <3>1. Len(s) >= 1 /\ Head(s) = s[1]
            BY <1>1, <2>2
        <3> QED BY <1>1, <1>3, <2>2, <3>1
    <2> QED BY <2>1, <2>2
<1>5. \A i \in DOMAIN s : d.next[s[i]] = IF i = Len(s) THEN NoNode ELSE s[i + 1]
    <2> SUFFICES ASSUME NEW i \in 1 .. Len(s)
                 PROVE  d.next[s[i]] = IF i = Len(s) THEN NoNode ELSE s[i + 1]
        BY <1>1
    <2>1. Onward(d)[NodeAt(s, i)] = NodeAt(s, i + 1)
        BY <1>1 DEF Forward
    <2>2. d.next[s[i]] = NodeAt(s, i + 1)
        BY <1>1, <1>2, <2>1
    <2>3. CASE i = Len(s)
        BY <1>1, <2>2, <2>3
    <2>4. CASE i # Len(s)
        <3>1. i + 1 \in 1 .. Len(s)
            <4>1. Len(s) \in Nat
                BY <1>1
            <4> QED BY <2>4, <4>1
        <3> QED BY <1>1, <2>2, <2>4, <3>1
    <2> QED BY <2>3, <2>4
<1> QED BY <1>4, <1>5 DEF Leads

\* The last node
LEMMA LastPlace ==
    ASSUME NEW s, Chain(s)
    PROVE  NodeAt(s, Len(s)) = IF s = <<>> THEN NoNode ELSE s[Len(s)]
<1>1. Len(s) \in Nat /\ s \in Seq(ListNode) /\ DOMAIN s = 1 .. Len(s)
    BY DEF Chain
<1>2. CASE s = <<>>
    BY <1>1, <1>2 DEF NodeAt
<1>3. CASE s # <<>>
    BY <1>1, <1>3 DEF NodeAt
<1> QED BY <1>2, <1>3

\* ListsAgree is part of that.
LEMMA ListInvSound == ListInv => ListsAgree
<1> SUFFICES ASSUME ListInv PROVE ListsAgree
    OBVIOUS
<1>1. /\ Chain(items) /\ Forward(Onward(double), items)
      /\ double.size = IF loose = NoNode THEN Len(items) ELSE Len(items) + 1
      /\ Backward(Back(double), items)
      /\ Chain(entries) /\ single.size = Len(entries) /\ Forward(Onward(single), entries)
      /\ tailSound => single.tail = NodeAt(entries, Len(entries))
    BY DEF ListInv, DoubleOK, LooseOK, SingleOK, TailOK, Linking
<1>2. Leads(double, items) /\ Leads(single, entries)
    BY <1>1, ForwardLeads
<1>3. /\ Len(items) \in Nat /\ DOMAIN items = 1 .. Len(items) /\ NodeAt(items, 0) = NoNode
      /\ \A i \in 1 .. Len(items) : NodeAt(items, i) = items[i] /\ items[i] \in ListNode /\ items[i] # NoNode
      /\ NodeAt(items, Len(items) + 1) = NoNode
    BY <1>1, ChainPlaces, ListAssumption DEF Chain
<1>4. /\ NoNode \in Place /\ Back(double)[NoNode] = double.tail
      /\ \A m \in ListNode : Back(double)[m] = double.prev[m]
    BY ListAssumption DEF Back, Place
<1>5. double.tail = NodeAt(items, Len(items))
    <2>1. Back(double)[NodeAt(items, Len(items) + 1)] = NodeAt(items, Len(items))
        BY <1>1, <1>3 DEF Backward
    <2> QED BY <1>3, <1>4, <2>1
<1>6. \A i \in DOMAIN items : double.prev[items[i]] = IF i = 1 THEN NoNode ELSE items[i - 1]
    <2> SUFFICES ASSUME NEW i \in 1 .. Len(items)
                 PROVE  double.prev[items[i]] = IF i = 1 THEN NoNode ELSE items[i - 1]
        BY <1>3
    <2>1. i - 1 \in 0 .. Len(items) /\ (i - 1) + 1 = i
        BY <1>3
    <2>2. Back(double)[NodeAt(items, (i - 1) + 1)] = NodeAt(items, i - 1)
        BY <1>1, <2>1 DEF Backward
    <2>3. double.prev[items[i]] = NodeAt(items, i - 1)
        BY <1>3, <1>4, <2>1, <2>2
    <2> QED BY <1>3, <2>3
<1>7. /\ double.tail = IF items = <<>> THEN NoNode ELSE items[Len(items)]
      /\ tailSound => single.tail = IF entries = <<>> THEN NoNode ELSE entries[Len(entries)]
    BY <1>1, <1>5, LastPlace
<1> QED BY <1>1, <1>2, <1>6, <1>7 DEF ListsAgree

\* Whatever calls are made, a List leads forwards and backwards through what it should
\* hold, but for a node that move_to moved before itself: the list loses that one and
\* counts it on.  A SingleList leads forwards, and knows its end until next_to_after
\* leaves it behind.
THEOREM ListsAlwaysAgree == ListSpec => []ListsAgree
<1>1. ListInit => ListInv
    BY ListInitially
<1>2. ListInv /\ [ListNext]_listVars => ListInv'
    BY ListStep
<1>3. ListInv => ListsAgree
    BY ListInvSound
<1> QED BY <1>1, <1>2, <1>3, PTL DEF ListSpec

=============================================================================
