---------------------------- MODULE BufferProofs ----------------------------
(***************************************************************************)
(* Proofs about RingBuffer, for every size and every set of bytes: the     *)
(* pointers agree, and the ring keeps ByteTape.  And about BufferPool, for *)
(* every size and any number of users: buffers are apart, and the largest  *)
(* free block is known.                                                    *)
(*                                                                         *)
(* That the ring keeps the tape is argued in three layers: bytes of a ring *)
(* as runs of places (Ring, Put), what pops and copies do to the two runs  *)
(* that fill a ring (Popped, Pushed, Changed, Written ...), and the        *)
(* operations of the state, each of which is one of these.                 *)
(*                                                                         *)
(* The pool's tree is right if each entry is what its children make it     *)
(* (Right); then each knows the largest free block below it (Exact).  A    *)
(* block that is taken or given back changes one entry, and the loops      *)
(* (RoundsExist, RoundByRound) put its ancestors right one by one.         *)
(***************************************************************************)
EXTENDS RingBuffer, BufferPool, SequenceTheorems, WellFoundedInduction, TLAPS

\* A step of n bytes forward by the reader (read_advance).
LEMMA ReadAdvanceAgrees ==
    ASSUME PointersAgree, NEW n \in 0 .. readable, ReadAdvance(n), UNCHANGED size
    PROVE  PointersAgree'
<1>1. /\ size \in Nat /\ size' = size /\ n \in Nat /\ n <= readable
      /\ readable \in Nat /\ readable <= size /\ readable' = readable - n
      /\ read \in Nat /\ (read < size \/ read = 0)
  BY DEF PointersAgree, ReadAdvance
<1>2. read' = IF read + n >= size THEN read + n - size ELSE read + n
  BY <1>1 DEF ReadAdvance, Wrapped
<1>3. write' = IF read + readable < size THEN read + readable ELSE read + readable - size
  BY DEF PointersAgree, ReadAdvance
<1> QED
  BY <1>1, <1>2, <1>3 DEF PointersAgree

\* A step of n bytes forward by the writer (write_advance).
LEMMA WriteAdvanceAgrees ==
    ASSUME PointersAgree, NEW n \in 0 .. size - readable, WriteAdvance(n), UNCHANGED size
    PROVE  PointersAgree'
<1>1. /\ size \in Nat /\ size' = size /\ n \in Nat /\ n <= size - readable
      /\ readable \in Nat /\ readable <= size /\ readable' = readable + n
      /\ read \in Nat /\ (read < size \/ read = 0) /\ read' = read
  BY DEF PointersAgree, WriteAdvance
<1>2. write = IF read + readable < size THEN read + readable ELSE read + readable - size
  BY DEF PointersAgree
<1>3. write' = IF write + n >= size THEN write + n - size ELSE write + n
  BY <1>1, <1>2 DEF WriteAdvance, Wrapped
<1> QED
  BY <1>1, <1>2, <1>3 DEF PointersAgree

\* A copy has the length that was asked for.
LEMMA CopyOutLen ==
    ASSUME NEW p \in Int, NEW n \in Nat
    PROVE  CopyOut(p, n) \in Seq({buffer[i] : i \in Int}) /\ Len(CopyOut(p, n)) = n
BY DEF CopyOut

\* Two copies, one behind the other.
LEMMA TwoCopiesLen ==
    ASSUME NEW p \in Int, NEW q \in Int, NEW m \in Nat, NEW n \in Nat
    PROVE  Len(CopyOut(p, m) \o CopyOut(q, n)) = m + n
<1> DEFINE S == {buffer[i] : i \in Int}
           s == CopyOut(p, m)
           u == CopyOut(q, n)
<1>1. s \in Seq(S) /\ Len(s) = m
  BY CopyOutLen
<1>2. u \in Seq(S) /\ Len(u) = n
  BY CopyOutLen
<1> HIDE DEF S, s, u
<1>3. Len(s \o u) = m + n
  BY <1>1, <1>2
<1> QED
  BY <1>3 DEF s, u

\* The segments that read gives to another buffer hold the bytes asked for.
LEMMA GatherLen ==
    ASSUME PointersAgree, NEW n \in 0 .. readable
    PROVE  Len(Gather(read_array(n, 0))) \in 0 .. n
<1> DEFINE k == Least(continuously_readable, n)
<1>1. continuously_readable \in Nat
  BY DEF PointersAgree, continuously_readable, Least
<1>2. k \in 0 .. n
  BY <1>1 DEF Least
<1>3. CASE 0 >= readable
  <2>1. read_array(n, 0) = Nothing
    BY <1>3 DEF read_array, readable_len
  <2>2. Gather(Nothing) = CopyOut(0, 0) \o CopyOut(0, 0)
    BY DEF Gather, Nothing
  <2>3. Len(CopyOut(0, 0) \o CopyOut(0, 0)) = 0
    BY TwoCopiesLen
  <2> QED
    BY <2>1, <2>2, <2>3
<1>4. CASE ~(0 >= readable)
  <2>1. Least(n, readable - 0) = n
    BY DEF PointersAgree, Least
  <2>2. read_array(n, 0) = Segments(read, continuously_readable, n, 0)
    BY <1>4, <2>1 DEF read_array, readable_len
  <2>3. Segments(read, continuously_readable, n, 0) = <<<<read, k>>, <<0, n - k>>>>
    BY <1>1, <1>2 DEF Segments, Skip, PointersAgree
  <2>4. Gather(<<<<read, k>>, <<0, n - k>>>>) = CopyOut(read, k) \o CopyOut(0, n - k)
    BY DEF Gather
  <2>5. Len(CopyOut(read, k) \o CopyOut(0, n - k)) = n
    <3>1. read \in Int /\ k \in Nat /\ n - k \in Nat
      BY <1>2 DEF PointersAgree
    <3> HIDE DEF k
    <3>2. Len(CopyOut(read, k) \o CopyOut(0, n - k)) = k + (n - k)
      BY <3>1, TwoCopiesLen
    <3> QED
      BY <3>1, <3>2
  <2> HIDE DEF k
  <2>6. Len(Gather(read_array(n, 0))) = n
    BY <2>2, <2>3, <2>4, <2>5, Zenon
  <2> QED
    BY <2>6
<1> QED
  BY <1>3, <1>4

\* The segments that write fills from another buffer are as long as asked for.
LEMMA WriteArrayLen ==
    ASSUME PointersAgree, NEW n \in 0 .. size - readable
    PROVE  Length(write_array(n, 0)) \in 0 .. n
<1> DEFINE k == Least(continuously_writable, n)
<1>1. continuously_writable \in Nat
  BY DEF PointersAgree, continuously_writable
<1>2. k \in 0 .. n
  BY <1>1 DEF Least
<1>3. CASE 0 >= size - readable
  BY <1>3 DEF write_array, writable_len, Nothing, Length, PointersAgree
<1>4. CASE ~(0 >= size - readable)
  <2>1. write_array(n, 0) = Segments(write, continuously_writable, n, 0)
    BY <1>4 DEF write_array, writable_len, PointersAgree
  <2>2. Segments(write, continuously_writable, n, 0) = <<<<write, k>>, <<0, n - k>>>>
    BY <1>1, <1>2 DEF Segments, Skip, PointersAgree
  <2> QED
    BY <1>2, <2>1, <2>2 DEF Length
<1> QED
  BY <1>3, <1>4

\* The first n bytes of a chunk are n bytes.
LEMMA ChunkLen ==
    ASSUME NEW t \in Data, NEW n \in Nat, n <= Len(t)
    PROVE  Len(t) \in Nat /\ Len(SubSeq(t, 1, n)) = n
<1>1. PICK m \in 0 .. MaxSize : t \in [1 .. m -> Byte]
  BY DEF Data
<1>2. m \in Nat /\ t \in Seq(Byte)
  BY <1>1, RingAssumption
<1> QED
  BY <1>2

\* Every operation keeps the pointers and the counter in agreement.
LEMMA RingStep ==
    ASSUME PointersAgree, [RingNext]_ringVars
    PROVE  PointersAgree'
<1> USE RingAssumption
<1> DEFINE Same == UNCHANGED <<size, read, write, readable>>
<1>0. Same => PointersAgree'
  BY DEF PointersAgree
<1>t. size \in Nat /\ readable \in 0 .. size /\ read \in Nat
  BY DEF PointersAgree
<1>1. ASSUME NEW n \in 0 .. MaxSize + 1, NEW op, ReadOut(op, n)
      PROVE  PointersAgree'
  <2>1. Least(n, readable) \in 0 .. readable
    BY <1>t DEF Least
  <2>2. ReadAdvance(Least(n, readable)) /\ UNCHANGED size
    BY <1>1 DEF ReadOut, readable_len
  <2> QED
    BY <2>1, <2>2, ReadAdvanceAgrees
<1>2. ASSUME NEW n \in 0 .. MaxSize + 1, Read(n) \/ FixRead(n)
      PROVE  PointersAgree'
  <2>1. CASE \E op : ReadOut(op, n)
    BY <2>1, <1>1
  <2>2. CASE Same
    BY <2>2, <1>0
  <2> QED
    BY <1>2, <2>1, <2>2 DEF Read, FixRead
<1>3. ASSUME NEW n \in 0 .. MaxSize + 1, Advance(n)
      PROVE  PointersAgree'
  <2>1. n \in 0 .. readable /\ ReadAdvance(n) /\ UNCHANGED size
    BY <1>3, <1>t DEF Advance, readable_len
  <2> QED
    BY <2>1, ReadAdvanceAgrees
<1>4. ASSUME NEW n \in 0 .. MaxSize + 1, Publish(n)
      PROVE  PointersAgree'
  <2>1. n \in 0 .. size - readable /\ WriteAdvance(n) /\ UNCHANGED size
    BY <1>4, <1>t DEF Publish, writable_len
  <2> QED
    BY <2>1, WriteAdvanceAgrees
<1>5. ASSUME NEW n \in 0 .. MaxSize + 1, ReadBack(n)
      PROVE  PointersAgree'
  <2>1. /\ n \in Nat /\ n <= size - readable
        /\ read' = IF read - n < 0 THEN read - n + size ELSE read - n
        /\ readable' = readable + n /\ size' = size /\ write' = write
    BY <1>5, <1>t DEF ReadBack, Unwrapped, writable_len
  <2> QED
    BY <2>1, <1>t DEF PointersAgree
<1>6. ASSUME NEW n \in 0 .. MaxSize + 1, WriteBack(n)
      PROVE  PointersAgree'
  <2>1. write \in Int
    BY <1>t DEF PointersAgree
  <2>2. /\ n \in Nat /\ n <= readable
        /\ write' = IF write - n < 0 THEN write - n + size ELSE write - n
        /\ readable' = readable - n /\ size' = size /\ read' = read
    BY <1>6, <1>t, <2>1 DEF WriteBack, Unwrapped, readable_len
  <2> QED
    BY <2>2, <1>t DEF PointersAgree
<1>7. ASSUME NEW n \in 0 .. MaxSize + 1, NEW o \in 0 .. MaxSize, ReadTo(n, o)
      PROVE  PointersAgree'
  <2> DEFINE l == Len(Gather(read_array(Least(n, readable), 0)))
  <2>1. Least(n, readable) \in 0 .. readable
    BY <1>t DEF Least
  <2>2. l \in 0 .. Least(n, readable)
    BY <2>1, GatherLen
  <2>3. l \in 0 .. readable
    <3> HIDE DEF l
    <3> QED
      BY <2>1, <2>2, <1>t
  <2>4. ReadAdvance(Least(o, l)) /\ UNCHANGED size
    BY <1>7 DEF ReadTo, readable_len
  <2> HIDE DEF l
  <2>5. Least(o, l) \in 0 .. readable
    BY <2>3, <1>t DEF Least
  <2> QED
    BY <2>4, <2>5, ReadAdvanceAgrees
<1>8. ASSUME NEW n \in 0 .. MaxSize + 1, NEW o \in 0 .. MaxSize, TryRead(n, o) \/ SendSegments(n, o)
      PROVE  PointersAgree'
  BY <1>8, <1>0 DEF TryRead, SendSegments
<1>9. ASSUME NEW n \in 0 .. MaxSize, Resize(n)
      PROVE  PointersAgree'
  <2>1. /\ n \in Nat /\ readable <= n /\ read' = 0 /\ size' = n /\ readable' = readable
        /\ write' = IF readable >= n THEN readable - n ELSE readable
    BY <1>9, <1>t DEF Resize, Wrapped, readable_len
  <2> QED
    BY <2>1, <1>t DEF PointersAgree
<1>10. ASSUME NEW t \in Data, NEW op, WriteIn(op, t)
       PROVE  PointersAgree'
  <2> DEFINE k == Least(Len(t), size - readable)
  <2>1. Len(t) \in Nat
    BY ChunkLen, SMT DEF Data
  <2>2. k \in 0 .. size - readable /\ k <= Len(t)
    BY <2>1, <1>t DEF Least
  <2>3. Len(SubSeq(t, 1, k)) = k
    BY <2>2, ChunkLen
  <2>4. WriteAdvance(Len(SubSeq(t, 1, k))) /\ UNCHANGED size
    BY <1>10 DEF WriteIn, writable_len
  <2> HIDE DEF k
  <2> QED
    BY <2>2, <2>3, <2>4, WriteAdvanceAgrees
<1>11. ASSUME NEW t \in Data, Write(t) \/ FixWrite(t)
       PROVE  PointersAgree'
  <2>1. CASE \E op : WriteIn(op, t)
    BY <2>1, <1>10
  <2>2. CASE Same
    BY <2>2, <1>0
  <2> QED
    BY <1>11, <2>1, <2>2 DEF Write, FixWrite
<1>12. ASSUME NEW t \in Data, NEW n \in 0 .. MaxSize, WriteFrom(t, n)
       PROVE  PointersAgree'
  <2> DEFINE l == Length(write_array(Least(n, size - readable), 0))
  <2>1. Least(n, size - readable) \in 0 .. size - readable
    BY <1>t DEF Least
  <2>2. l \in 0 .. Least(n, size - readable)
    BY <2>1, WriteArrayLen
  <2>3. l \in 0 .. size - readable
    BY <2>1, <2>2, <1>t
  <2>4. WriteAdvance(Least(Len(t), l)) /\ UNCHANGED size
    BY <1>12 DEF WriteFrom, writable_len
  <2> HIDE DEF l
  <2>5. Len(t) \in Nat
    BY DEF Data
  <2>6. Least(Len(t), l) \in 0 .. size - readable
    BY <2>3, <2>5, <1>t DEF Least
  <2> QED
    BY <2>4, <2>6, WriteAdvanceAgrees
<1>13. ASSUME NEW t \in Data, NEW n \in 0 .. MaxSize, TryWrite(t, n) \/ ChangeWritten(n, t)
       PROVE  PointersAgree'
  BY <1>13, <1>0 DEF TryWrite, ChangeWritten
<1>14. ASSUME NEW t \in Data, NEW n \in 0 .. MaxSize, NEW o \in 0 .. MaxSize, FillAhead(t, n, o)
       PROVE  PointersAgree'
  BY <1>14, <1>0 DEF FillAhead
<1>15. CASE UNCHANGED ringVars
  BY <1>15, <1>0 DEF ringVars
<1> QED
  BY <1>2, <1>3, <1>4, <1>5, <1>6, <1>7, <1>8, <1>9, <1>11, <1>12, <1>13, <1>14, <1>15 DEF RingNext

\* Wherever the operations take them, in any order and for every size, _read, _write
\* and _readable agree and stay inside the memory: the two-piece copies never
\* reach past the end and a full buffer is never taken for an empty one.
THEOREM PointersStayInside == RingSpec => []PointersAgree
<1>1. RingInit => PointersAgree
  BY RingAssumption DEF RingInit, PointersAgree
<1>2. PointersAgree /\ [RingNext]_ringVars => PointersAgree'
  BY RingStep
<1> QED
  BY <1>1, <1>2, PTL DEF RingSpec

\* Remainders, and one turn more.
LEMMA ModWrap ==
    ASSUME NEW z \in Nat \ {0}, NEW x \in Nat
    PROVE  /\ x % z \in 0 .. z - 1
           /\ (x + z) % z = x % z
           /\ x < z => x % z = x
<1>1. x % z \in 0 .. z - 1
    OBVIOUS
<1>2. x < z => x % z = x
    OBVIOUS
<1>3. (x + z) % z = x % z
    <2>1. x = z * (x \div z) + (x % z)
        OBVIOUS
    <2>2. PICK q \in Int, r \in 0 .. z - 1 : q = x \div z /\ r = x % z
        BY <1>1
    <2>3. x + z = z * (q + 1) + r
        BY <2>1, <2>2
    <2>4. \A y \in Int : y = z * (q + 1) + r => y % z = r
        OBVIOUS
    <2> QED BY <2>2, <2>3, <2>4
<1> QED BY <1>1, <1>2, <1>3

-----------------------------------------------------------------------------
(* The n bytes from p on, in a ring b of z bytes. *)

\* Where the i-th of them is.
Spot(z, p, i) == (p + i - 1) % z

\* The run itself.
Ring(b, z, p, n) == [i \in 1 .. n |-> b[Spot(z, p, i)]]

\* What is allocated for a size.
Memory(z) == [0 .. z - 1 -> Byte]

\* Places are inside, come back after a turn, and wrap at most once.
LEMMA SpotFacts ==
    ASSUME NEW z \in Nat, NEW p \in Nat, NEW i \in 1 .. z
    PROVE  /\ Spot(z, p, i) \in 0 .. z - 1
           /\ Spot(z, p + z, i) = Spot(z, p, i)
           /\ p + i - 1 < z => Spot(z, p, i) = p + i - 1
           /\ p + i - 1 \in z .. 2 * z - 1 => Spot(z, p, i) = p + i - 1 - z
<1>1. z \in Nat \ {0} /\ p + i - 1 \in Nat /\ p + z + i - 1 = (p + i - 1) + z
    OBVIOUS
<1>2. p + i - 1 \in z .. 2 * z - 1 => p + i - 1 - z \in 0 .. z - 1 /\ p + i - 1 = (p + i - 1 - z) + z
    OBVIOUS
<1>3. p + i - 1 \in z .. 2 * z - 1 => (p + i - 1) % z = p + i - 1 - z
    <2> SUFFICES ASSUME p + i - 1 \in z .. 2 * z - 1 PROVE (p + i - 1) % z = p + i - 1 - z
        OBVIOUS
    <2>1. PICK x : x = p + i - 1 - z
        OBVIOUS
    <2>2. x \in Nat /\ x < z /\ p + i - 1 = x + z
        BY <1>2, <2>1
    <2> QED BY <1>1, <2>1, <2>2, ModWrap
<1> QED BY <1>1, <1>3, ModWrap DEF Spot

\* A step forward is an offset.
LEMMA SpotMoves ==
    ASSUME NEW z, NEW p \in Nat, NEW k \in Int, NEW i \in Int
    PROVE  Spot(z, p + k, i) = Spot(z, p, k + i)
<1>1. p + k + i - 1 = p + (k + i) - 1
    OBVIOUS
<1> QED BY <1>1, Zenon DEF Spot

\* They are a sequence of bytes.
LEMMA RingSeq ==
    ASSUME NEW z \in Nat, NEW b \in Memory(z), NEW p \in Nat, NEW n \in 0 .. z
    PROVE  /\ Ring(b, z, p, n) \in Seq(Byte)
           /\ Len(Ring(b, z, p, n)) = n
           /\ \A i \in 1 .. n : Ring(b, z, p, n)[i] = b[Spot(z, p, i)]
<1>1. \A i \in 1 .. n : Spot(z, p, i) \in 0 .. z - 1
    BY SpotFacts
<1>2. Ring(b, z, p, n) \in [1 .. n -> Byte] /\ n \in Nat
    BY <1>1 DEF Ring, Memory
<1> QED BY <1>2 DEF Ring

\* A run of bytes in two parts.
LEMMA RingSplit ==
    ASSUME NEW z \in Nat, NEW b \in Memory(z), NEW p \in Nat, NEW k \in Nat, NEW n \in Nat,
           k + n <= z
    PROVE  Ring(b, z, p, k + n) = Ring(b, z, p, k) \o Ring(b, z, p + k, n)
<1>1. PICK s : s = Ring(b, z, p, k + n)
    OBVIOUS
<1>2. PICK u, v : u = Ring(b, z, p, k) /\ v = Ring(b, z, p + k, n)
    OBVIOUS
<1>3. /\ s \in Seq(Byte) /\ Len(s) = k + n
      /\ \A i \in 1 .. k + n : s[i] = b[Spot(z, p, i)]
    BY <1>1, k + n \in 0 .. z, RingSeq
<1>4. /\ u \in Seq(Byte) /\ Len(u) = k
      /\ \A i \in 1 .. k : u[i] = b[Spot(z, p, i)]
    BY <1>2, k \in 0 .. z, RingSeq
<1>5. /\ v \in Seq(Byte) /\ Len(v) = n
      /\ \A i \in 1 .. n : v[i] = b[Spot(z, p, k + i)]
    <2>1. \A i \in 1 .. n : Spot(z, p + k, i) = Spot(z, p, k + i)
        BY SpotMoves
    <2>2. /\ v \in Seq(Byte) /\ Len(v) = n
          /\ \A i \in 1 .. n : v[i] = b[Spot(z, p + k, i)]
        BY <1>2, n \in 0 .. z, p + k \in Nat, RingSeq
    <2> QED BY <2>1, <2>2
<1>6. PICK w : w = u \o v
    OBVIOUS
<1>7. /\ w \in Seq(Byte) /\ Len(w) = k + n
      /\ \A i \in 1 .. k + n : w[i] = IF i <= k THEN u[i] ELSE v[i - k]
    <2>1. /\ w \in Seq(Byte) /\ Len(w) = Len(u) + Len(v)
          /\ \A i \in 1 .. Len(u) + Len(v) : w[i] = IF i <= Len(u) THEN u[i] ELSE v[i - Len(u)]
        BY <1>4, <1>5, <1>6, ConcatProperties
    <2>2. Len(u) = k /\ Len(v) = n
        BY <1>4, <1>5
    <2> QED BY <2>1, <2>2
<1>8. ASSUME NEW i \in 1 .. k + n PROVE w[i] = s[i]
    <2>1. CASE i <= k
        BY <1>3, <1>4, <1>7, <2>1
    <2>2. CASE i > k
        <3>1. i - k \in 1 .. n /\ k + (i - k) = i
            BY <2>2
        <3>2. v[i - k] = b[Spot(z, p, i)]
            BY <1>5, <3>1
        <3> QED BY <1>3, <1>7, <2>2, <3>2
    <2> QED BY <2>1, <2>2
<1>9. s = w
    BY <1>3, <1>7, <1>8, SeqEqual
<1> QED BY <1>1, <1>2, <1>6, <1>9

\* A part of a run.
LEMMA RingPart ==
    ASSUME NEW z \in Nat, NEW b \in Memory(z), NEW p \in Nat, NEW n \in 0 .. z,
           NEW k \in 0 .. n, NEW l \in k .. n
    PROVE  SubSeq(Ring(b, z, p, n), k + 1, l) = Ring(b, z, p + k, l - k)
<1>1. PICK s : s = Ring(b, z, p, n)
    OBVIOUS
<1>2. PICK u : u = Ring(b, z, p + k, l - k)
    OBVIOUS
<1>3. s \in Seq(Byte) /\ Len(s) = n /\ \A i \in 1 .. n : s[i] = b[Spot(z, p, i)]
    BY <1>1, RingSeq
<1>4. /\ u \in Seq(Byte) /\ Len(u) = l - k
      /\ \A i \in 1 .. l - k : u[i] = b[Spot(z, p, k + i)]
    <2>1. \A i \in 1 .. l - k : Spot(z, p + k, i) = Spot(z, p, k + i)
        BY SpotMoves
    <2>2. /\ u \in Seq(Byte) /\ Len(u) = l - k
          /\ \A i \in 1 .. l - k : u[i] = b[Spot(z, p + k, i)]
        BY <1>2, l - k \in 0 .. z, p + k \in Nat, RingSeq
    <2> QED BY <2>1, <2>2
<1>5. \A i \in k + 1 .. l : s[i] \in Byte
    BY <1>3, ElementOfSeq
<1>6. PICK v : v = SubSeq(s, k + 1, l)
    OBVIOUS
<1>7. /\ v \in Seq(Byte) /\ Len(v) = l - k
      /\ \A i \in 1 .. l - k : v[i] = s[k + i]
    <2>1. k + 1 \in Int /\ l \in Int
        OBVIOUS
    <2>2. /\ v \in Seq(Byte)
          /\ Len(v) = IF k + 1 <= l THEN l - (k + 1) + 1 ELSE 0
          /\ \A i \in 1 .. l - (k + 1) + 1 : v[i] = s[k + 1 + i - 1]
        BY <1>5, <1>6, <2>1, SubSeqProperties
    <2>3. l - (k + 1) + 1 = l - k /\ \A i \in Int : k + 1 + i - 1 = k + i
        OBVIOUS
    <2> QED BY <2>2, <2>3
<1>8. ASSUME NEW i \in 1 .. l - k PROVE v[i] = u[i]
    <2>1. k + i \in 1 .. n
        OBVIOUS
    <2> QED BY <1>3, <1>4, <1>7, <2>1
<1>9. v = u
    BY <1>4, <1>7, <1>8, SeqEqual
<1> QED BY <1>1, <1>2, <1>6, <1>9

\* Its beginning.
LEMMA RingFirst ==
    ASSUME NEW z \in Nat, NEW b \in Memory(z), NEW p \in Nat, NEW n \in 0 .. z, NEW k \in 0 .. n
    PROVE  SubSeq(Ring(b, z, p, n), 1, k) = Ring(b, z, p, k)
<1>1. 0 \in 0 .. n /\ k \in 0 .. n
    OBVIOUS
<1>2. \A i \in 0 .. n : \A l \in i .. n :
         SubSeq(Ring(b, z, p, n), i + 1, l) = Ring(b, z, p + i, l - i)
    BY RingPart
<1>3. SubSeq(Ring(b, z, p, n), 0 + 1, k) = Ring(b, z, p + 0, k - 0)
    BY <1>1, <1>2
<1>4. p + 0 = p /\ k - 0 = k /\ 0 + 1 = 1
    OBVIOUS
<1> QED BY <1>3, <1>4

\* A full turn changes nothing.
LEMMA RingTurn ==
    ASSUME NEW z \in Nat, NEW b, NEW p \in Nat, NEW n \in 0 .. z
    PROVE  Ring(b, z, p + z, n) = Ring(b, z, p, n)
<1>1. \A i \in 1 .. n : Spot(z, p + z, i) = Spot(z, p, i)
    BY SpotFacts
<1> QED BY <1>1 DEF Ring

-----------------------------------------------------------------------------
(* Copies into the ring *)

\* c is the ring b with the bytes t from the place w on.
Put(b, z, c, w, t) ==
    /\ c \in Memory(z)
    /\ \A i \in 1 .. z : c[Spot(z, w, i)] = IF i <= Len(t) THEN t[i] ELSE b[Spot(z, w, i)]

\* The bytes seen from another place p.
LEMMA PutSeenFrom ==
    ASSUME NEW z \in Nat, NEW b \in Memory(z), NEW c, NEW t \in Seq(Byte),
           NEW p \in Nat, NEW o \in Nat, NEW w \in Nat, o + Len(t) <= z,
           w = p + o \/ w + z = p + o \/ w = p + o + z, Put(b, z, c, w, t)
    PROVE  \A i \in 1 .. z :
               c[Spot(z, p, i)] = IF i - o \in 1 .. Len(t) THEN t[i - o] ELSE b[Spot(z, p, i)]
<1>1. Len(t) \in Nat
    OBVIOUS
<1>2. \A j \in 1 .. z : Spot(z, w, j) = Spot(z, p, o + j)
    <2> SUFFICES ASSUME NEW j \in 1 .. z PROVE Spot(z, w, j) = Spot(z, p, o + j)
        OBVIOUS
    <2>1. Spot(z, w, j) = Spot(z, p + o, j)
        <3>1. Spot(z, w + z, j) = Spot(z, w, j) /\ Spot(z, p + o + z, j) = Spot(z, p + o, j)
            BY SpotFacts, p + o \in Nat
        <3> QED BY <3>1
    <2> QED BY <2>1, SpotMoves
<1>3. \A j \in 1 .. z : c[Spot(z, p, o + j)] = IF j <= Len(t) THEN t[j] ELSE b[Spot(z, p, o + j)]
    BY <1>2 DEF Put
<1> SUFFICES ASSUME NEW i \in 1 .. z
             PROVE  c[Spot(z, p, i)] = IF i - o \in 1 .. Len(t) THEN t[i - o] ELSE b[Spot(z, p, i)]
    OBVIOUS
<1>4. CASE i > o
    <2>1. i - o \in 1 .. z /\ o + (i - o) = i
        BY <1>4
    <2>2. c[Spot(z, p, i)] = IF i - o <= Len(t) THEN t[i - o] ELSE b[Spot(z, p, i)]
        BY <1>3, <2>1
    <2>3. i - o <= Len(t) <=> i - o \in 1 .. Len(t)
        BY <1>1, <2>1
    <2> QED BY <2>2, <2>3
<1>5. CASE i <= o
    <2>1. i - o + z \in 1 .. z /\ o + (i - o + z) = z + i /\ i - o + z > Len(t)
        BY <1>1, <1>5
    <2>2. Spot(z, p, z + i) = Spot(z, p, i)
        <3>1. Spot(z, p + z, i) = Spot(z, p, z + i)
            BY SpotMoves
        <3> QED BY <3>1, SpotFacts
    <2>3. Spot(z, p, o + (i - o + z)) = Spot(z, p, i)
        BY <2>1, <2>2
    <2>4. ~(i - o + z <= Len(t)) /\ i - o \notin 1 .. Len(t)
        BY <1>1, <1>5, <2>1
    <2>5. c[Spot(z, p, o + (i - o + z))] = b[Spot(z, p, o + (i - o + z))]
        BY <1>3, <2>1, <2>4
    <2> QED BY <2>3, <2>4, <2>5
<1> QED BY <1>4, <1>5

\* A copy in two pieces: k bytes at p, up to the end if there are more, and the
\* others at the beginning.
LEMMA PiecesPut ==
    ASSUME NEW z \in Nat, NEW b \in Memory(z), NEW p \in Nat, NEW t \in Seq(Byte),
           Len(t) <= z, NEW k \in 0 .. Len(t), NEW q \in Nat, p <= z,
           p + k <= z, k < Len(t) => p + k = z /\ q = 0
    PROVE  Put(b, z, CopyIn(CopyIn(b, p, SubSeq(t, 1, k)), q, SubSeq(t, k + 1, Len(t))), p, t)
<1>0. Len(t) \in Nat /\ \A i \in 1 .. Len(t) : t[i] \in Byte
    BY ElementOfSeq
<1>1. PICK u : u = SubSeq(t, 1, k)
    OBVIOUS
<1>2. PICK v : v = SubSeq(t, k + 1, Len(t))
    OBVIOUS
<1>3. Len(u) = k /\ \A i \in 1 .. k : u[i] = t[i]
    <2>1. \A i \in 1 .. k : t[i] \in Byte
        BY <1>0
    <2>2. /\ Len(u) = IF 1 <= k THEN k - 1 + 1 ELSE 0
          /\ \A i \in 1 .. k - 1 + 1 : u[i] = t[1 + i - 1]
        BY <1>1, <2>1, 1 \in Int, k \in Int, SubSeqProperties
    <2>3. k - 1 + 1 = k /\ \A i \in Int : 1 + i - 1 = i
        OBVIOUS
    <2> QED BY <2>2, <2>3
<1>4. Len(v) = Len(t) - k /\ \A i \in 1 .. Len(t) - k : v[i] = t[k + i]
    <2>1. \A i \in k + 1 .. Len(t) : t[i] \in Byte
        BY <1>0
    <2>2. /\ Len(v) = IF k + 1 <= Len(t) THEN Len(t) - (k + 1) + 1 ELSE 0
          /\ \A i \in 1 .. Len(t) - (k + 1) + 1 : v[i] = t[k + 1 + i - 1]
        BY <1>0, <1>2, <2>1, k + 1 \in Int, Len(t) \in Int, SubSeqProperties
    <2>3. PICK m \in Nat : m = Len(t)
        BY <1>0
    <2>4. m - (k + 1) + 1 = m - k /\ (k + 1 <= m \/ m - k = 0)
        BY <2>3
    <2>5. \A i \in Int : k + 1 + i - 1 = k + i
        OBVIOUS
    <2>6. Len(v) = m - k
        BY <2>2, <2>3, <2>4
    <2>7. \A i \in 1 .. m - k : v[i] = t[k + i]
        BY <2>2, <2>3, <2>4, <2>5
    <2> QED BY <2>3, <2>6, <2>7
<1>5. PICK m : m = Len(t)
    OBVIOUS
<1>6. PICK d : d = CopyIn(b, p, u)
    OBVIOUS
<1>7. PICK c : c = CopyIn(d, q, v)
    OBVIOUS
<1>8. d = [j \in 0 .. z - 1 |-> IF j - p \in 0 .. k - 1 THEN u[j - p + 1] ELSE b[j]]
    BY <1>3, <1>6 DEF CopyIn, Memory
<1>9. c = [j \in 0 .. z - 1 |-> IF j - q \in 0 .. m - k - 1 THEN v[j - q + 1] ELSE d[j]]
    BY <1>4, <1>5, <1>7, <1>8 DEF CopyIn
<1>10. ASSUME NEW j \in 0 .. z - 1
       PROVE  c[j] = IF j - q \in 0 .. m - k - 1 THEN t[k + j - q + 1]
                     ELSE IF j - p \in 0 .. k - 1 THEN t[j - p + 1] ELSE b[j]
    <2>1. ASSUME j - q \in 0 .. m - k - 1
          PROVE  v[j - q + 1] = t[k + j - q + 1]
        <3>1. j - q + 1 \in 1 .. m - k /\ k + (j - q + 1) = k + j - q + 1
            BY <1>0, <1>5, <2>1
        <3> QED BY <1>4, <1>5, <3>1
    <2>2. ASSUME j - p \in 0 .. k - 1
          PROVE  u[j - p + 1] = t[j - p + 1]
        <3>1. j - p + 1 \in 1 .. k
            BY <2>2
        <3> QED BY <1>3, <3>1
    <2>3. d[j] = IF j - p \in 0 .. k - 1 THEN t[j - p + 1] ELSE b[j]
        BY <1>8, <2>2
    <2> QED BY <1>9, <2>1, <2>3
<1>11. c \in Memory(z)
    <2> SUFFICES ASSUME NEW j \in 0 .. z - 1 PROVE c[j] \in Byte
        BY <1>9 DEF Memory
    <2>1. b[j] \in Byte
        BY DEF Memory
    <2>2. j - q \in 0 .. m - k - 1 => k + j - q + 1 \in 1 .. m
        BY <1>0, <1>5
    <2>3. j - p \in 0 .. k - 1 => j - p + 1 \in 1 .. m
        BY <1>0, <1>5
    <2> QED BY <1>0, <1>5, <1>10, <2>1, <2>2, <2>3
<1>12. ASSUME NEW i \in 1 .. z
       PROVE  c[Spot(z, p, i)] = IF i <= m THEN t[i] ELSE b[Spot(z, p, i)]
    <2>0. m \in Nat /\ m <= z /\ k <= m /\ (k < m => p + k = z /\ q = 0)
        BY <1>0, <1>5
    <2>1. PICK j \in 0 .. z - 1 : j = Spot(z, p, i)
        BY SpotFacts
    <2>2. CASE p + i - 1 < z
        <3>1. j = p + i - 1
            BY <2>1, <2>2, SpotFacts
        <3>2. j - p \in 0 .. k - 1 <=> i <= k
            BY <3>1, <2>0
        <3>3. CASE i <= k
            <4>1. j - q \notin 0 .. m - k - 1 /\ j - p + 1 = i
                BY <2>0, <3>1, <3>3
            <4>2. c[j] = t[j - p + 1]
                BY <1>10, <3>2, <3>3, <4>1
            <4>3. i <= m
                BY <2>0, <3>3
            <4> QED BY <2>1, <4>1, <4>2, <4>3
        <3>4. CASE i > k
            <4>1. k = m
                BY <2>0, <2>2, <3>4
            <4>2. j - q \notin 0 .. m - k - 1 /\ ~(i <= m)
                BY <2>0, <3>4, <4>1
            <4> QED BY <1>10, <2>1, <3>2, <3>4, <4>2
        <3> QED BY <3>3, <3>4
    <2>3. CASE p + i - 1 >= z
        <3>1. j = p + i - 1 - z
            <4>1. p + i - 1 \in z .. 2 * z - 1
                BY <2>3
            <4> QED BY <2>1, <4>1, SpotFacts
        <3>2. j - p \notin 0 .. k - 1 /\ i > k
            BY <2>3, <3>1
        <3>3. CASE k < m
            <4>1. q = 0 /\ (j - q \in 0 .. m - k - 1 <=> i <= m) /\ k + j - q + 1 = i
                BY <2>0, <2>3, <3>1, <3>3
            <4> QED BY <1>10, <2>1, <3>2, <4>1
        <3>4. CASE k = m
            <4>1. j - q \notin 0 .. m - k - 1 /\ ~(i <= m)
                BY <2>0, <3>2, <3>4
            <4> QED BY <1>10, <2>1, <3>2, <4>1
        <3> QED BY <2>0, <3>3, <3>4
    <2> QED BY <2>2, <2>3
<1> QED BY <1>1, <1>2, <1>5, <1>6, <1>7, <1>11, <1>12 DEF Put

\* A copy in one piece.
LEMMA NothingCopied ==
    ASSUME NEW z \in Nat, NEW b \in Memory(z), NEW q
    PROVE  CopyIn(b, q, <<>>) = b
<1>1. Len(<<>>) - 1 = -1 /\ DOMAIN b = 0 .. z - 1
    BY DEF Memory
<1>2. 0 .. -1 = {}
    OBVIOUS
<1>3. CopyIn(b, q, <<>>) = [j \in 0 .. z - 1 |-> b[j]]
    BY <1>1, <1>2 DEF CopyIn
<1> QED BY <1>3 DEF Memory

\* A copy that stays in front of the end.
LEMMA CopyPut ==
    ASSUME NEW z \in Nat, NEW b \in Memory(z), NEW p \in Nat, NEW t \in Seq(Byte),
           p + Len(t) <= z
    PROVE  Put(b, z, CopyIn(b, p, t), p, t)
<1>0. Len(t) \in Nat /\ Len(t) <= z /\ p <= z
    OBVIOUS
<1>1. SubSeq(t, 1, Len(t)) = t
    BY SubSeqFull
<1>2. SubSeq(t, Len(t) + 1, Len(t)) = <<>>
    BY <1>0, SubSeqEmpty
<1>3. Put(b, z, CopyIn(CopyIn(b, p, SubSeq(t, 1, Len(t))), 0, SubSeq(t, Len(t) + 1, Len(t))), p, t)
    BY <1>0, Len(t) \in 0 .. Len(t), 0 \in Nat, PiecesPut
<1>4. DOMAIN CopyIn(b, p, t) = 0 .. z - 1
    BY DEF CopyIn, Memory
<1>5. PICK c : c = CopyIn(b, p, t)
    OBVIOUS
<1>6. CopyIn(c, 0, <<>>) = c
    <2>1. Len(<<>>) - 1 = -1 /\ 0 .. -1 = {}
        OBVIOUS
    <2>2. CopyIn(c, 0, <<>>) = [j \in DOMAIN c |-> c[j]]
        BY <2>1 DEF CopyIn
    <2>3. c = [j \in DOMAIN c |-> c[j]]
        BY <1>5 DEF CopyIn
    <2> QED BY <2>2, <2>3
<1> QED BY <1>1, <1>2, <1>3, <1>5, <1>6

-----------------------------------------------------------------------------
(* The ring of the state *)

\* The inductive invariant: the pointers agree, and the memory holds bytes.
RingSound == PointersAgree /\ buffer \in Memory(size)

\* A place in the memory, or 0 where there is none.
Inside(p) == p \in Nat /\ (p < size \/ p = 0)

\* What the proofs need of the invariant.
LEMMA Pointers ==
    ASSUME RingSound
    PROVE  /\ size \in Nat /\ readable \in Nat /\ readable <= size /\ buffer \in Memory(size)
           /\ Inside(read) /\ Inside(write)
           /\ write = read + readable \/ write + size = read + readable
           /\ \A x \in Nat : x <= size /\ size > 0 => Inside(Wrapped(read + x, size))
<1>1. /\ size \in Nat /\ readable \in Nat /\ readable <= size /\ buffer \in Memory(size)
      /\ Inside(read)
    BY DEF RingSound, PointersAgree, Inside
<1>2. write = IF read + readable < size THEN read + readable ELSE read + readable - size
    BY DEF RingSound, PointersAgree
<1>3. /\ Inside(write)
      /\ write = read + readable \/ write + size = read + readable
    BY <1>1, <1>2 DEF Inside
<1>4. \A x \in Nat : x <= size /\ size > 0 => Inside(Wrapped(read + x, size))
    BY <1>1 DEF Inside, Wrapped
<1> QED BY <1>1, <1>3, <1>4

\* One memcpy out of the memory.
LEMMA CopyOutRing ==
    ASSUME RingSound, NEW p \in Nat, NEW n \in Nat, p + n <= size
    PROVE  CopyOut(p, n) = Ring(buffer, size, p, n)
<1>1. \A i \in 1 .. n : Spot(size, p, i) = p + i - 1
    BY SpotFacts, Pointers
<1> QED BY <1>1 DEF CopyOut, Ring

\* The two pieces of a copy out are the bytes around the end.
LEMMA TwoOutRing ==
    ASSUME RingSound, NEW p, Inside(p), NEW n \in 0 .. size
    PROVE  TwoOut(p, n) = Ring(buffer, size, p, n)
<1>0. size \in Nat /\ buffer \in Memory(size) /\ p \in Nat /\ p <= size /\ n \in Nat
    BY Pointers DEF Inside
<1>1. CASE size - p >= n
    BY <1>0, <1>1, CopyOutRing DEF TwoOut
<1>2. CASE ~(size - p >= n)
    <2>1. PICK k \in Nat, l \in Nat : k = size - p /\ l = n - k
        BY <1>0, <1>2
    <2>2. k + l = n /\ p + k = size /\ l <= size /\ k + l <= size
        BY <1>0, <2>1
    <2>3. TwoOut(p, n) = CopyOut(p, k) \o CopyOut(0, l)
        BY <1>2, <2>1 DEF TwoOut
    <2>4. CopyOut(p, k) = Ring(buffer, size, p, k)
        BY <1>0, <2>2, CopyOutRing
    <2>5. CopyOut(0, l) = Ring(buffer, size, 0, l)
        BY <1>0, <2>2, 0 + l = l, CopyOutRing
    <2>6. Ring(buffer, size, p + k, l) = Ring(buffer, size, 0, l)
        <3>1. Ring(buffer, size, 0 + size, l) = Ring(buffer, size, 0, l)
            BY <1>0, <2>2, RingTurn
        <3> QED BY <1>0, <2>2, <3>1
    <2>7. Ring(buffer, size, p, k + l) = Ring(buffer, size, p, k) \o Ring(buffer, size, p + k, l)
        BY <1>0, <2>2, RingSplit, SMT
    <2> QED BY <2>2, <2>3, <2>4, <2>5, <2>6, <2>7, Zenon
<1> QED BY <1>1, <1>2

\* The two pieces of a copy in.
LEMMA TwoInPut ==
    ASSUME RingSound, NEW p, Inside(p), NEW t \in Seq(Byte), Len(t) <= size
    PROVE  Put(buffer, size, TwoIn(p, t), p, t)
<1>0. size \in Nat /\ buffer \in Memory(size) /\ p \in Nat /\ p <= size /\ Len(t) \in Nat
    BY Pointers DEF Inside
<1>1. CASE p + Len(t) <= size
    BY <1>0, <1>1, CopyPut DEF TwoIn
<1>2. CASE ~(p + Len(t) <= size)
    <2>1. PICK k \in Nat : k = size - p
        BY <1>0
    <2>2. k \in 0 .. Len(t) /\ p + k <= size /\ p + k = size
        BY <1>0, <1>2, <2>1
    <2>3. TwoIn(p, t) = CopyIn(CopyIn(buffer, p, SubSeq(t, 1, k)), 0, SubSeq(t, k + 1, Len(t)))
        BY <1>2, <2>1 DEF TwoIn
    <2> QED BY <1>0, <2>2, <2>3, 0 \in Nat, PiecesPut
<1> QED BY <1>1, <1>2

-----------------------------------------------------------------------------
(* Segments *)

\* How far the first segments reach.
LEMMA FirstSegments ==
    ASSUME RingSound
    PROVE  /\ writable_len = size - readable /\ writable_len \in Nat
           /\ continuously_readable \in Nat /\ continuously_readable <= readable
           /\ read + continuously_readable <= size
           /\ continuously_readable < readable => read + continuously_readable = size
           /\ continuously_writable \in Nat
           /\ write + continuously_writable <= size
           /\ continuously_writable < writable_len => write + continuously_writable = size
<1>1. /\ size \in Nat /\ readable \in Nat /\ readable <= size
      /\ read \in Nat /\ (read < size \/ read = 0)
      /\ write \in Nat /\ (write < size \/ write = 0)
      /\ write = read + readable \/ write + size = read + readable
    BY Pointers DEF Inside
<1>2. /\ continuously_readable \in Nat /\ continuously_readable <= readable
      /\ read + continuously_readable <= size
      /\ continuously_readable < readable => read + continuously_readable = size
    BY <1>1 DEF continuously_readable, Least
<1>3. /\ continuously_writable \in Nat
      /\ write + continuously_writable <= size
      /\ continuously_writable < size - readable => write + continuously_writable = size
    BY <1>1 DEF continuously_writable
<1> QED BY <1>1, <1>2, <1>3 DEF writable_len

\* The bytes that the segments of read_array hold.
LEMMA ReadArrayRing ==
    ASSUME RingSound, NEW n \in Nat, NEW o \in Nat
    PROVE  Gather(read_array(n, o)) =
               IF o >= readable THEN <<>>
               ELSE Ring(buffer, size, read + o, Least(n, readable - o))
<1>0. /\ size \in Nat /\ buffer \in Memory(size) /\ readable \in Nat /\ readable <= size
      /\ read \in Nat /\ read <= size /\ Inside(read)
    BY Pointers DEF Inside
<1>1. CASE o >= readable
    <2>1. read_array(n, o) = <<<<0, 0>>, <<0, 0>>>>
        BY <1>1 DEF read_array, readable_len, Nothing
    <2>2. CopyOut(0, 0) = <<>>
        BY DEF CopyOut
    <2> QED BY <1>1, <2>1, <2>2 DEF Gather
<1>2. CASE ~(o >= readable)
    <2>1. PICK m \in Nat : m = Least(n, readable - o)
        BY <1>0, <1>2 DEF Least
    <2>2. m + o <= readable
        BY <1>0, <1>2, <2>1 DEF Least
    <2>r. PICK c \in Nat : c = continuously_readable
        BY FirstSegments
    <2>3. PICK k \in Nat : k = Least(c, m + o)
        BY DEF Least
    <2>4. /\ k <= m + o /\ read + k <= size
          /\ k < m + o => read + k = size
        BY <1>0, <2>2, <2>3, <2>r, FirstSegments DEF Least
    <2>5. read_array(n, o) = Skip(<<<<read, k>>, <<0, m + o - k>>>>, o)
        BY <1>2, <2>1, <2>3, <2>r DEF read_array, readable_len, Segments
    <2>6. CASE k < o
        <3>1. PICK s \in Nat : s = o - k
            BY <2>6
        <3>2. m + o - k - s = m /\ read + o = s + size /\ s + m <= size
            BY <1>0, <2>2, <2>4, <2>6, <3>1
        <3>3. read_array(n, o) = <<<<read + k, 0>>, <<s, m>>>>
            BY <2>5, <2>6, <3>1, <3>2 DEF Skip
        <3>4. CopyOut(read + k, 0) = <<>>
            BY DEF CopyOut
        <3>5. CopyOut(s, m) = Ring(buffer, size, s, m)
            BY <3>2, CopyOutRing
        <3>6. Ring(buffer, size, s + size, m) = Ring(buffer, size, s, m)
            BY <1>0, <3>2, RingTurn
        <3>7. Ring(buffer, size, s, m) \in Seq(Byte)
            BY <1>0, <3>2, RingSeq
        <3>8. <<>> \o Ring(buffer, size, s, m) = Ring(buffer, size, s, m)
            BY <3>7, ConcatEmptySeq
        <3>9. Gather(read_array(n, o)) = CopyOut(read + k, 0) \o CopyOut(s, m)
            <4>1. PICK a : a = read_array(n, o)
                OBVIOUS
            <4>2. a[1][1] = read + k /\ a[1][2] = 0 /\ a[2][1] = s /\ a[2][2] = m
                BY <3>3, <4>1
            <4> QED BY <4>1, <4>2, Zenon DEF Gather
        <3>10. Gather(read_array(n, o)) = Ring(buffer, size, s, m)
            BY <3>4, <3>5, <3>8, <3>9
        <3> QED BY <1>2, <2>1, <3>2, <3>6, <3>10
    <2>7. CASE ~(k < o)
        <3>1. PICK x \in Nat, y \in Nat : x = k - o /\ y = m + o - k
            BY <2>4, <2>7
        <3>2. /\ x + y = m /\ x + y <= size /\ read + o \in Nat
              /\ read + o + x <= size /\ y <= size
              /\ y > 0 => read + o + x = size
            BY <1>0, <2>2, <2>4, <2>7, <3>1
        <3>3. read_array(n, o) = <<<<read + o, x>>, <<0, y>>>>
            BY <2>5, <2>7, <3>1 DEF Skip
        <3>4. CopyOut(read + o, x) = Ring(buffer, size, read + o, x)
            BY <3>2, CopyOutRing
        <3>5. CopyOut(0, y) = Ring(buffer, size, read + o + x, y)
            <4>1. CASE y = 0
                BY <4>1 DEF CopyOut, Ring
            <4>2. CASE y > 0
                <5>1. CopyOut(0, y) = Ring(buffer, size, 0, y)
                    BY <3>2, 0 + y = y, CopyOutRing
                <5>2. Ring(buffer, size, 0 + size, y) = Ring(buffer, size, 0, y)
                    BY <1>0, <3>2, RingTurn
                <5>3. read + o + x = 0 + size
                    BY <1>0, <3>2, <4>2
                <5> QED BY <5>1, <5>2, <5>3
            <4> QED BY <4>1, <4>2
        <3>6. Ring(buffer, size, read + o, x + y) =
                  Ring(buffer, size, read + o, x) \o Ring(buffer, size, read + o + x, y)
            <4>1. PICK q \in Nat : q = read + o
                BY <3>2
            <4>2. size \in Nat /\ buffer \in Memory(size) /\ x + y <= size
                BY <1>0, <3>2
            <4>3. Ring(buffer, size, q, x + y) = Ring(buffer, size, q, x) \o Ring(buffer, size, q + x, y)
                BY <4>2, RingSplit, SMT
            <4> QED BY <4>1, <4>3
        <3>7. Gather(read_array(n, o)) = CopyOut(read + o, x) \o CopyOut(0, y)
            <4>1. PICK a : a = read_array(n, o)
                OBVIOUS
            <4>2. a[1][1] = read + o /\ a[1][2] = x /\ a[2][1] = 0 /\ a[2][2] = y
                BY <3>3, <4>1
            <4> QED BY <4>1, <4>2, Zenon DEF Gather
        <3>8. Gather(read_array(n, o)) = Ring(buffer, size, read + o, x + y)
            BY <3>4, <3>5, <3>6, <3>7
        <3> QED BY <1>2, <2>1, <3>2, <3>8
    <2> QED BY <2>6, <2>7
<1> QED BY <1>1, <1>2

\* What fits between the two segments of write_array, and where it goes.
LEMMA WriteArrayPut ==
    ASSUME RingSound, NEW n \in Nat, NEW o \in Nat, o = 0 \/ n + o <= writable_len,
           NEW t \in Seq(Byte), Len(t) <= Length(write_array(n, o))
    PROVE  /\ Length(write_array(n, o)) = IF o >= writable_len THEN 0
                                          ELSE IF n > writable_len THEN writable_len - o ELSE n
           /\ o + Len(t) <= writable_len \/ Len(t) = 0
           /\ o >= writable_len => Scatter(write_array(n, o), t) = buffer
           /\ \/ Put(buffer, size, Scatter(write_array(n, o), t), write + o, t)
              \/ /\ write + o >= size
                 /\ Put(buffer, size, Scatter(write_array(n, o), t), write + o - size, t)
<1>0. /\ size \in Nat /\ buffer \in Memory(size) /\ readable \in Nat /\ readable <= size
      /\ read \in Nat /\ read <= size /\ write \in Nat /\ write <= size
      /\ write = read + readable \/ write + size = read + readable
      /\ Len(t) \in Nat /\ writable_len = size - readable
    BY Pointers DEF Inside, writable_len
<1>e. SubSeq(t, 1, 0) = <<>>
    BY SubSeqEmpty
<1>f. SubSeq(t, 1, Len(t)) = t
    BY SubSeqFull
<1>1. CASE o >= writable_len
    <2>1. write_array(n, o) = <<<<0, 0>>, <<0, 0>>>>
        BY <1>1 DEF write_array, Nothing
    <2>2. Length(write_array(n, o)) = 0
        BY <2>1 DEF Length
    <2>3. Len(t) = 0 /\ t = <<>>
        BY <1>0, <2>2, EmptySeq
    <2>4. SubSeq(t, 1, Least(Len(t), 0)) = <<>> /\ SubSeq(t, Least(Len(t), 0) + 1, Len(t)) = <<>>
        <3>1. Least(Len(t), 0) = 0
            BY <2>3 DEF Least
        <3>2. SubSeq(t, 1, 0) = <<>> /\ SubSeq(t, 0 + 1, 0) = <<>>
            BY SubSeqEmpty
        <3> QED BY <2>3, <3>1, <3>2
    <2>5. Scatter(write_array(n, o), t) = buffer
        <3>1. Scatter(write_array(n, o), t) = CopyIn(CopyIn(buffer, 0, <<>>), 0, <<>>)
            <4>1. PICK a : a = write_array(n, o)
                OBVIOUS
            <4>2. a[1][1] = 0 /\ a[1][2] = 0 /\ a[2][1] = 0
                BY <2>1, <4>1
            <4> QED BY <2>4, <4>1, <4>2, Zenon DEF Scatter
        <3>2. CopyIn(buffer, 0, <<>>) = buffer
            BY <1>0, NothingCopied
        <3> QED BY <3>1, <3>2
    <2>6. Put(buffer, size, buffer, write + o, t)
        BY <1>0, <2>3 DEF Put
    <2> QED BY <1>1, <2>2, <2>3, <2>5, <2>6
<1>2. CASE ~(o >= writable_len)
    <2>w. PICK W \in Nat : W = writable_len
        BY FirstSegments
    <2>1. PICK m \in Nat : m = IF n > W THEN W - o ELSE n
        BY <1>2, <2>w
    <2>2. m + o <= W /\ W = size - readable
        BY <1>0, <1>2, <2>1, <2>w
    <2>r. PICK c \in Nat : c = continuously_writable
        BY FirstSegments
    <2>3. PICK k \in Nat : k = Least(c, m + o)
        BY DEF Least
    <2>4. /\ k <= m + o /\ write + k <= size
          /\ k < m + o => write + k = size
        BY <1>0, <2>2, <2>3, <2>r, <2>w, FirstSegments DEF Least
    <2>5. write_array(n, o) = Skip(<<<<write, k>>, <<0, m + o - k>>>>, o)
        BY <1>2, <2>1, <2>3, <2>r, <2>w DEF write_array, Segments
    <2>6. CASE k < o
        <3>1. PICK s \in Nat : s = o - k
            BY <2>6
        <3>2. m + o - k - s = m /\ write + o = s + size /\ s + m <= size
            BY <1>0, <2>2, <2>4, <2>6, <3>1
        <3>3. write_array(n, o) = <<<<write + k, 0>>, <<s, m>>>>
            BY <2>5, <2>6, <3>1, <3>2 DEF Skip
        <3>4. Length(write_array(n, o)) = m
            BY <3>3 DEF Length
        <3>5. Least(Len(t), 0) = 0
            BY <1>0 DEF Least
        <3>6. Scatter(write_array(n, o), t) = CopyIn(CopyIn(buffer, write + k, <<>>), s, t)
            <4>1. PICK a : a = write_array(n, o)
                OBVIOUS
            <4>2. a[1][1] = write + k /\ a[1][2] = 0 /\ a[2][1] = s
                BY <3>3, <4>1
            <4>3. Scatter(a, t) = CopyIn(CopyIn(buffer, write + k, SubSeq(t, 1, 0)), s,
                                         SubSeq(t, 0 + 1, Len(t)))
                BY <3>5, <4>2, Zenon DEF Scatter
            <4> QED BY <1>e, <1>f, <4>1, <4>3, 0 + 1 = 1, Zenon
        <3>7. Scatter(write_array(n, o), t) = CopyIn(buffer, s, t)
            BY <1>0, <3>6, NothingCopied
        <3>8. Put(buffer, size, CopyIn(buffer, s, t), s, t)
            BY <1>0, <3>2, <3>4, CopyPut
        <3>9. o + Len(t) <= writable_len
            BY <1>0, <2>2, <2>w, <3>4
        <3> QED BY <1>0, <1>2, <2>1, <2>w, <3>2, <3>4, <3>7, <3>8, <3>9
    <2>7. CASE ~(k < o)
        <3>1. PICK x \in Nat, y \in Nat : x = k - o /\ y = m + o - k
            BY <2>4, <2>7
        <3>2. /\ x + y = m /\ x + y <= size /\ write + o \in Nat
              /\ write + o + x <= size
              /\ y > 0 => write + o + x = size
            BY <1>0, <2>2, <2>4, <2>7, <3>1
        <3>3. write_array(n, o) = <<<<write + o, x>>, <<0, y>>>>
            BY <2>5, <2>7, <3>1 DEF Skip
        <3>4. Length(write_array(n, o)) = m
            BY <3>2, <3>3 DEF Length
        <3>5. PICK h \in Nat : h = Least(Len(t), x)
            BY <1>0 DEF Least
        <3>6. /\ h \in 0 .. Len(t) /\ write + o + h <= size /\ write + o <= size
              /\ h < Len(t) => write + o + h = size
            <4>1. PICK q \in Nat : q = Len(t)
                BY <1>0
            <4>2. q <= m /\ h = Least(q, x)
                BY <3>4, <3>5, <4>1
            <4>3. h <= q /\ h <= x /\ (h < q => h = x /\ x < m)
                BY <4>2 DEF Least
            <4>4. write \in Nat /\ size \in Nat
                BY <1>0
            <4>5. h \in 0 .. q /\ write + o + h <= size /\ write + o <= size
                BY <3>2, <4>3, <4>4
            <4>6. h < q => write + o + h = size
                BY <3>2, <4>3, <4>4
            <4> QED BY <4>1, <4>5, <4>6
        <3>7. Scatter(write_array(n, o), t) =
                  CopyIn(CopyIn(buffer, write + o, SubSeq(t, 1, h)), 0, SubSeq(t, h + 1, Len(t)))
            <4>1. PICK a : a = write_array(n, o)
                OBVIOUS
            <4>2. a[1][1] = write + o /\ a[1][2] = x /\ a[2][1] = 0
                BY <3>3, <4>1
            <4> QED BY <3>5, <4>1, <4>2, Zenon DEF Scatter
        <3>8. Put(buffer, size, CopyIn(CopyIn(buffer, write + o, SubSeq(t, 1, h)),
                                       0, SubSeq(t, h + 1, Len(t))), write + o, t)
            BY <1>0, <3>2, <3>4, <3>6, 0 \in Nat, PiecesPut
        <3>9. o + Len(t) <= writable_len
            BY <1>0, <2>2, <2>w, <3>4
        <3> QED BY <1>0, <1>2, <2>1, <2>w, <3>2, <3>4, <3>7, <3>8, <3>9
    <2> QED BY <2>6, <2>7
<1> QED BY <1>1, <1>2

-----------------------------------------------------------------------------
(* Steps of the tape *)

\* The two parts of the tape.
Queue == Around(read, readable)
Spare == Around(read + readable, size - readable)

\* The same place, or a turn apart.
LEMMA RingSame ==
    ASSUME NEW z \in Nat, NEW b, NEW p \in Nat, NEW q \in Nat, NEW n \in 0 .. z,
           p = q \/ p = q + z \/ q = p + z
    PROVE  Ring(b, z, p, n) = Ring(b, z, q, n)
BY RingTurn

\* They are runs of the ring.
LEMMA TapeIsRing ==
    ASSUME RingSound
    PROVE  /\ Queue = Ring(buffer, size, read, readable)
           /\ Spare = Ring(buffer, size, read + readable, size - readable)
           /\ Queue \in Seq(Byte) /\ Len(Queue) = readable
           /\ Spare \in Seq(Byte) /\ Len(Spare) = size - readable
<1>1. /\ Queue = Ring(buffer, size, read, readable)
      /\ Spare = Ring(buffer, size, read + readable, size - readable)
    BY DEF Queue, Spare, Around, Ring, Spot
<1>2. /\ readable \in 0 .. size /\ size - readable \in 0 .. size
      /\ read \in Nat /\ read + readable \in Nat
    BY Pointers DEF Inside
<1> QED BY <1>1, <1>2, Pointers, RingSeq

\* The tape after a step.
LEMMA NextTape ==
    /\ Queue' = Ring(buffer', size', read', readable')
    /\ Spare' = Ring(buffer', size', read' + readable', size' - readable')
BY DEF Queue, Spare, Around, Ring, Spot

-----------------------------------------------------------------------------
(* What the steps do to two runs that fill the ring: r bytes from p on, and the
   others behind them.  b and c are the memory before and after. *)

\* Over of ByteTape.
Covered(v, o, t) == [i \in 1 .. Len(v) |-> IF i - o \in 1 .. Len(t) THEN t[i - o] ELSE v[i]]

\* n bytes out at the front: now from q on.
Popped(b, z, p, r, n, q) ==
    /\ Ring(b, z, q, r - n) = SubSeq(Ring(b, z, p, r), n + 1, r)
    /\ Ring(b, z, q + (r - n), z - (r - n)) =
           Ring(b, z, p + r, z - r) \o SubSeq(Ring(b, z, p, r), 1, n)

\* n bytes back at the front.
Unpopped(b, z, p, r, n, q) ==
    /\ Ring(b, z, q, r + n) =
           SubSeq(Ring(b, z, p + r, z - r), z - r - n + 1, z - r) \o Ring(b, z, p, r)
    /\ Ring(b, z, q + (r + n), z - (r + n)) = SubSeq(Ring(b, z, p + r, z - r), 1, z - r - n)

\* The bytes t behind, x bytes then.
Pushed(b, c, z, p, r, t, x) ==
    /\ c \in Memory(z)
    /\ Ring(c, z, p, x) = Ring(b, z, p, r) \o t
    /\ Ring(c, z, p + x, z - x) = SubSeq(Ring(b, z, p + r, z - r), Len(t) + 1, z - r)

\* n bytes less behind.
Unpushed(b, z, p, r, n) ==
    /\ Ring(b, z, p, r - n) = SubSeq(Ring(b, z, p, r), 1, r - n)
    /\ Ring(b, z, p + (r - n), z - (r - n)) =
           SubSeq(Ring(b, z, p, r), r - n + 1, r) \o Ring(b, z, p + r, z - r)

\* Bytes in place of others, from the offset o on, in the first run.
Changed(b, c, z, p, r, o, t) ==
    /\ c \in Memory(z)
    /\ Ring(c, z, p, r) = Covered(Ring(b, z, p, r), o, t)
    /\ Ring(c, z, p + r, z - r) = Ring(b, z, p + r, z - r)

\* ... in the second run.
Written(b, c, z, p, r, o, t) ==
    /\ c \in Memory(z)
    /\ Ring(c, z, p, r) = Ring(b, z, p, r)
    /\ Ring(c, z, p + r, z - r) = Covered(Ring(b, z, p + r, z - r), o, t)

\* A step forward of the reader.
LEMMA RingPop ==
    ASSUME NEW z \in Nat, NEW b \in Memory(z), NEW p \in Nat, NEW r \in 0 .. z,
           NEW n \in 0 .. r, NEW q \in Nat, q = p + n \/ p + n = q + z
    PROVE  Popped(b, z, p, r, n, q)
<1>1. PICK m \in Nat : m = r - n
    OBVIOUS
<1>2. PICK l \in Nat : l = z - r
    OBVIOUS
<1>3. PICK s \in Nat : s = p + r
    OBVIOUS
<1>4. Ring(b, z, q, m) = SubSeq(Ring(b, z, p, r), n + 1, r)
    <2>1. PICK x \in Nat : x = p + n
        OBVIOUS
    <2>2. Ring(b, z, q, m) = Ring(b, z, x, m)
        <3>1. m \in 0 .. z /\ (q = x \/ q = x + z \/ x = q + z)
            BY <1>1, <2>1
        <3> QED BY <3>1, RingSame
    <2>3. r \in n .. r /\ n \in 0 .. r
        OBVIOUS
    <2>4. SubSeq(Ring(b, z, p, r), n + 1, r) = Ring(b, z, p + n, r - n)
        BY <2>3, RingPart
    <2> QED BY <1>1, <2>1, <2>2, <2>4
<1>5. Ring(b, z, q + m, l + n) = Ring(b, z, s, l) \o SubSeq(Ring(b, z, p, r), 1, n)
    <2>1. PICK x \in Nat : x = q + m
        OBVIOUS
    <2>2. Ring(b, z, x, l + n) = Ring(b, z, s, l + n)
        <3>1. l + n \in 0 .. z /\ (x = s \/ x = s + z \/ s = x + z)
            BY <1>1, <1>2, <1>3, <2>1
        <3>2. PICK y \in 0 .. z : y = l + n
            BY <3>1
        <3>3. Ring(b, z, x, y) = Ring(b, z, s, y)
            BY <3>1, RingSame
        <3> QED BY <3>2, <3>3
    <2>3. Ring(b, z, s, l + n) = Ring(b, z, s, l) \o Ring(b, z, s + l, n)
        <3>1. l + n <= z
            BY <1>2
        <3> QED BY <3>1, RingSplit, SMT
    <2>4. Ring(b, z, s + l, n) = Ring(b, z, p, n)
        <3>1. s + l = p + z
            BY <1>2, <1>3
        <3>2. n \in 0 .. z
            OBVIOUS
        <3>3. Ring(b, z, p + z, n) = Ring(b, z, p, n)
            BY <3>2, RingTurn
        <3> QED BY <3>1, <3>3
    <2>5. SubSeq(Ring(b, z, p, r), 1, n) = Ring(b, z, p, n)
        BY RingFirst
    <2> QED BY <2>1, <2>2, <2>3, <2>4, <2>5
<1>6. l + n = z - (r - n) /\ l = z - r /\ m = r - n /\ s = p + r
    BY <1>1, <1>2, <1>3
<1> QED BY <1>4, <1>5, <1>6 DEF Popped

\* A step back of the reader.
LEMMA RingUnpop ==
    ASSUME NEW z \in Nat, NEW b \in Memory(z), NEW p \in Nat, NEW r \in 0 .. z,
           NEW n \in 0 .. z - r, NEW q \in Nat, q + n = p \/ q + n = p + z
    PROVE  Unpopped(b, z, p, r, n, q)
<1>1. PICK l \in Nat : l = z - r
    OBVIOUS
<1>2. PICK k \in Nat : k = l - n
    BY <1>1
<1>3. PICK s \in Nat : s = p + r
    OBVIOUS
<1>4. l \in 0 .. z /\ k \in 0 .. l /\ l \in k .. l /\ 0 \in 0 .. l /\ k + n = l /\ l + r = z
    BY <1>1, <1>2
<1>5. SubSeq(Ring(b, z, s, l), k + 1, l) = Ring(b, z, q, n)
    <2>0. l \in 0 .. z /\ k \in 0 .. l /\ l \in k .. l
        BY <1>4
    <2>1. SubSeq(Ring(b, z, s, l), k + 1, l) = Ring(b, z, s + k, l - k)
        BY <2>0, RingPart
    <2>2. PICK x \in Nat : x = s + k
        OBVIOUS
    <2>3. n \in 0 .. z /\ (x = q \/ x = q + z \/ q = x + z)
        BY <1>1, <1>2, <1>3, <2>2
    <2>4. Ring(b, z, x, n) = Ring(b, z, q, n)
        BY <2>3, RingSame
    <2> QED BY <1>2, <1>4, <2>1, <2>2, <2>4
<1>6. Ring(b, z, q, n + r) = Ring(b, z, q, n) \o Ring(b, z, p, r)
    <2>1. Ring(b, z, q, n + r) = Ring(b, z, q, n) \o Ring(b, z, q + n, r)
        <3>1. n \in Nat /\ r \in Nat /\ n + r <= z
            OBVIOUS
        <3> QED BY <3>1, RingSplit, SMT
    <2>2. PICK x \in Nat : x = q + n
        OBVIOUS
    <2>3. Ring(b, z, x, r) = Ring(b, z, p, r)
        BY <2>2, RingSame
    <2> QED BY <2>1, <2>2, <2>3
<1>7. Ring(b, z, q + (r + n), k) = SubSeq(Ring(b, z, s, l), 1, k)
    <2>1. SubSeq(Ring(b, z, s, l), 1, k) = Ring(b, z, s, k)
        <3>1. l \in 0 .. z /\ k \in 0 .. l
            BY <1>4
        <3> QED BY <3>1, RingFirst
    <2>3. PICK x \in Nat : x = q + (r + n)
        OBVIOUS
    <2>4. k \in 0 .. z /\ (x = s \/ x = s + z \/ s = x + z)
        BY <1>3, <1>4, <2>3
    <2>5. Ring(b, z, x, k) = Ring(b, z, s, k)
        BY <2>4, RingSame
    <2> QED BY <2>1, <2>3, <2>5
<1>8. n + r = r + n /\ k = z - (r + n) /\ k = z - r - n /\ l = z - r /\ s = p + r
    BY <1>1, <1>2, <1>3
<1>9. Ring(b, z, q, n + r) = SubSeq(Ring(b, z, s, l), k + 1, l) \o Ring(b, z, p, r)
    BY <1>5, <1>6
<1> QED BY <1>7, <1>8, <1>9 DEF Unpopped

\* A step back of the writer.
LEMMA RingUnpush ==
    ASSUME NEW z \in Nat, NEW b \in Memory(z), NEW p \in Nat, NEW r \in 0 .. z, NEW n \in 0 .. r
    PROVE  Unpushed(b, z, p, r, n)
<1>1. PICK m \in Nat : m = r - n
    OBVIOUS
<1>2. PICK l \in Nat : l = z - r
    OBVIOUS
<1>3. m \in 0 .. r /\ r \in m .. r /\ 0 \in 0 .. r /\ m \in 0 .. m /\ r - m = n /\ n + l <= z
    BY <1>1, <1>2
<1>4. Ring(b, z, p, m) = SubSeq(Ring(b, z, p, r), 1, m)
    BY <1>3, RingFirst
<1>5. SubSeq(Ring(b, z, p, r), m + 1, r) = Ring(b, z, p + m, n)
    <2>1. SubSeq(Ring(b, z, p, r), m + 1, r) = Ring(b, z, p + m, r - m)
        BY <1>3, RingPart
    <2> QED BY <1>3, <2>1
<1>6. Ring(b, z, p + m, n + l) = Ring(b, z, p + m, n) \o Ring(b, z, p + r, l)
    <2>1. PICK x \in Nat : x = p + m
        OBVIOUS
    <2>2. Ring(b, z, x, n + l) = Ring(b, z, x, n) \o Ring(b, z, x + n, l)
        <3>1. n \in Nat /\ n + l <= z
            BY <1>3
        <3> QED BY <3>1, RingSplit, SMT
    <2>3. x + n = p + r
        BY <1>1, <2>1
    <2> QED BY <2>1, <2>2, <2>3
<1>7. n + l = z - (r - n) /\ m = r - n /\ l = z - r
    BY <1>1, <1>2
<1>8. Ring(b, z, p + m, n + l) = SubSeq(Ring(b, z, p, r), m + 1, r) \o Ring(b, z, p + r, l)
    BY <1>5, <1>6
<1> QED BY <1>4, <1>7, <1>8 DEF Unpushed

-----------------------------------------------------------------------------
(* The same steps for copies: B and C are the ring before and after, read once
   around from the first readable byte on. *)

\* A part of a sequence.
LEMMA PartOf ==
    ASSUME NEW S, NEW s \in Seq(S), NEW n \in Nat, Len(s) = n,
           NEW k \in 0 .. n, NEW l \in k .. n, NEW j, j = k + 1
    PROVE  /\ SubSeq(s, j, l) \in Seq(S)
           /\ Len(SubSeq(s, j, l)) = l - k
           /\ \A i \in 1 .. l - k : SubSeq(s, j, l)[i] = s[k + i]
<1>1. \A i \in j .. l : s[i] \in S
    <2>1. \A i \in 1 .. Len(s) : s[i] \in S
        BY ElementOfSeq
    <2> QED BY <2>1
<1>2. PICK v : v = SubSeq(s, j, l)
    OBVIOUS
<1>3. j \in Int /\ l \in Int
    OBVIOUS
<1>4. /\ v \in Seq(S)
      /\ Len(v) = IF j <= l THEN l - j + 1 ELSE 0
      /\ \A i \in 1 .. l - j + 1 : v[i] = s[j + i - 1]
    BY <1>1, <1>2, <1>3, SubSeqProperties
<1>5. l - j + 1 = l - k /\ (j <= l \/ l - k = 0) /\ \A i \in Int : j + i - 1 = k + i
    OBVIOUS
<1>6. Len(v) = l - k
    BY <1>4, <1>5
<1>7. \A i \in 1 .. l - k : v[i] = s[k + i]
    BY <1>4, <1>5
<1> QED BY <1>2, <1>4, <1>6, <1>7

\* The beginning of one.
LEMMA FirstOf ==
    ASSUME NEW S, NEW s \in Seq(S), NEW n \in Nat, Len(s) = n, NEW l \in 0 .. n
    PROVE  /\ SubSeq(s, 1, l) \in Seq(S)
           /\ Len(SubSeq(s, 1, l)) = l
           /\ \A i \in 1 .. l : SubSeq(s, 1, l)[i] = s[i]
<1>1. 0 \in 0 .. n /\ l \in 0 .. n /\ 1 = 0 + 1
    OBVIOUS
<1>2. /\ SubSeq(s, 1, l) \in Seq(S) /\ Len(SubSeq(s, 1, l)) = l - 0
      /\ \A i \in 1 .. l - 0 : SubSeq(s, 1, l)[i] = s[0 + i]
    BY <1>1, PartOf
<1> QED BY <1>2

\* C is B with t from the offset o on.
Holds(B, C, z, o, t) ==
    /\ B \in Seq(Byte) /\ Len(B) = z /\ C \in Seq(Byte) /\ Len(C) = z
    /\ \A i \in 1 .. z : C[i] = IF i - o \in 1 .. Len(t) THEN t[i - o] ELSE B[i]

\* A copy right behind the readable bytes, and those that become readable.
LEMMA PushFirst ==
    ASSUME NEW z \in Nat, NEW B, NEW C, NEW t \in Seq(Byte), NEW r \in Nat, NEW x \in Nat,
           NEW w, w = SubSeq(B, 1, r) \o t, Len(t) = x - r, x <= z, Holds(B, C, z, r, t)
    PROVE  SubSeq(C, 1, x) = w
<1>1. PICK m \in Nat : m = Len(t) /\ x = r + m /\ r <= z
    OBVIOUS
<1>2. /\ B \in Seq(Byte) /\ Len(B) = z /\ C \in Seq(Byte) /\ Len(C) = z
      /\ \A i \in 1 .. z : C[i] = IF i - r \in 1 .. m THEN t[i - r] ELSE B[i]
    BY <1>1 DEF Holds
<1>3. PICK u, v : u = SubSeq(C, 1, x) /\ v = SubSeq(B, 1, r)
    OBVIOUS
<1>4. u \in Seq(Byte) /\ Len(u) = x /\ \A i \in 1 .. x : u[i] = C[i]
    <2>1. C \in Seq(Byte) /\ Len(C) = z /\ x \in 0 .. z
        BY <1>2
    <2> QED BY <1>3, <2>1, FirstOf
<1>5. v \in Seq(Byte) /\ Len(v) = r /\ \A i \in 1 .. r : v[i] = B[i]
    <2>1. B \in Seq(Byte) /\ Len(B) = z /\ r \in 0 .. z
        BY <1>1, <1>2
    <2> QED BY <1>3, <2>1, FirstOf
<1>6. /\ w \in Seq(Byte) /\ Len(w) = x
      /\ \A i \in 1 .. x : w[i] = IF i <= r THEN v[i] ELSE t[i - r]
    <2>1. /\ w \in Seq(Byte) /\ Len(w) = Len(v) + Len(t)
          /\ \A i \in 1 .. Len(v) + Len(t) : w[i] = IF i <= Len(v) THEN v[i] ELSE t[i - Len(v)]
        BY <1>3, <1>5, ConcatProperties
    <2> QED BY <1>1, <1>5, <2>1
<1>7. ASSUME NEW i \in 1 .. x PROVE u[i] = w[i]
    <2>1. i \in 1 .. z /\ (i <= r => i - r \notin 1 .. m) /\ (i > r => i - r \in 1 .. m)
        BY <1>1
    <2>2. CASE i <= r
        BY <1>2, <1>4, <1>5, <1>6, <2>1, <2>2
    <2>3. CASE i > r
        BY <1>2, <1>4, <1>6, <2>1, <2>3
    <2> QED BY <2>2, <2>3
<1>8. u = w
    BY <1>4, <1>6, <1>7, SeqEqual
<1> QED BY <1>3, <1>8

\* v is the part of u behind the first k elements that has length d.
Segment(v, u, k, d) == v \in Seq(Byte) /\ Len(v) = d /\ \A i \in 1 .. d : v[i] = u[k + i]

\* SubSeq gives such parts.
LEMMA SegmentOf ==
    ASSUME NEW u \in Seq(Byte), NEW n \in Nat, Len(u) = n, NEW k \in 0 .. n, NEW l \in k .. n,
           NEW j, j = k + 1, NEW d, d = l - k, NEW v, v = SubSeq(u, j, l)
    PROVE  Segment(v, u, k, d)
BY PartOf DEF Segment

\* ... and those that stay writable.
LEMMA PushRest ==
    ASSUME NEW z \in Nat, NEW B, NEW C, NEW t \in Seq(Byte), NEW r \in Nat, NEW x \in Nat,
           NEW v, NEW w, v = SubSeq(B, r + 1, z), w = SubSeq(v, Len(t) + 1, z - r),
           Len(t) = x - r, x <= z, Holds(B, C, z, r, t)
    PROVE  SubSeq(C, x + 1, z) = w
<1>1. PICK m \in Nat, l \in Nat, d \in Nat :
         m = Len(t) /\ x = r + m /\ l = z - r /\ d = z - x /\ r <= z /\ l = m + d
    OBVIOUS
<1>2. PICK j \in Nat, h \in Nat, g \in Nat : j = r + 1 /\ h = m + 1 /\ g = x + 1
    OBVIOUS
<1>3. /\ B \in Seq(Byte) /\ Len(B) = z /\ C \in Seq(Byte) /\ Len(C) = z
      /\ \A i \in 1 .. z : C[i] = IF i - r \in 1 .. m THEN t[i - r] ELSE B[i]
    BY <1>1 DEF Holds
<1>4. v = SubSeq(B, j, z) /\ w = SubSeq(v, h, l)
    BY <1>1, <1>2
<1>5. PICK u : u = SubSeq(C, g, z)
    OBVIOUS
<1>6. v \in Seq(Byte) /\ Len(v) = l /\ \A i \in 1 .. l : v[i] = B[r + i]
    <2>1. r \in 0 .. z /\ z \in r .. z /\ j = r + 1 /\ l = z - r
        BY <1>1, <1>2
    <2>2. Segment(v, B, r, l)
        BY <1>3, <1>4, <2>1, SegmentOf
    <2> QED BY <2>2 DEF Segment
<1>7. w \in Seq(Byte) /\ Len(w) = d /\ \A i \in 1 .. d : w[i] = v[m + i]
    <2>1. m \in 0 .. l /\ l \in m .. l /\ h = m + 1 /\ d = l - m
        BY <1>1, <1>2
    <2>2. Segment(w, v, m, d)
        BY <1>4, <1>6, <2>1, SegmentOf
    <2> QED BY <2>2 DEF Segment
<1>8. u \in Seq(Byte) /\ Len(u) = d /\ \A i \in 1 .. d : u[i] = C[x + i]
    <2>1. x \in 0 .. z /\ z \in x .. z /\ g = x + 1 /\ d = z - x
        BY <1>1, <1>2
    <2>2. Segment(u, C, x, d)
        BY <1>3, <1>5, <2>1, SegmentOf
    <2> QED BY <2>2 DEF Segment
<1>9. ASSUME NEW i \in 1 .. d PROVE u[i] = w[i]
    <2>1. PICK y \in 1 .. z : y = x + i
        BY <1>1
    <2>2. y - r \notin 1 .. m /\ m + i \in 1 .. l /\ r + (m + i) = y
        BY <1>1, <2>1
    <2>3. C[y] = B[y]
        BY <1>3, <2>1, <2>2
    <2>4. v[m + i] = B[y]
        BY <1>6, <2>2
    <2> QED BY <1>7, <1>8, <2>1, <2>3, <2>4
<1>10. u = w
    BY <1>7, <1>8, <1>9, SeqEqual
<1> QED BY <1>2, <1>5, <1>10

\* A copy that stays within the readable bytes.
LEMMA ChangeFirst ==
    ASSUME NEW z \in Nat, NEW B, NEW C, NEW t \in Seq(Byte), NEW r \in Nat, NEW o \in Nat,
           r <= z, o + Len(t) <= r, Holds(B, C, z, o, t)
    PROVE  SubSeq(C, 1, r) = Covered(SubSeq(B, 1, r), o, t)
<1>0. PICK m \in Nat : m = Len(t)
    OBVIOUS
<1>1. /\ B \in Seq(Byte) /\ Len(B) = z /\ C \in Seq(Byte) /\ Len(C) = z
      /\ \A i \in 1 .. z : C[i] = IF i - o \in 1 .. m THEN t[i - o] ELSE B[i]
    BY <1>0 DEF Holds
<1>2. r \in 0 .. z
    OBVIOUS
<1>3. PICK u, v : u = SubSeq(C, 1, r) /\ v = SubSeq(B, 1, r)
    OBVIOUS
<1>4. u \in Seq(Byte) /\ Len(u) = r /\ \A i \in 1 .. r : u[i] = C[i]
    <2>1. C \in Seq(Byte) /\ Len(C) = z
        BY <1>1
    <2> QED BY <1>2, <1>3, <2>1, FirstOf
<1>5. v \in Seq(Byte) /\ Len(v) = r /\ \A i \in 1 .. r : v[i] = B[i]
    <2>1. B \in Seq(Byte) /\ Len(B) = z
        BY <1>1
    <2> QED BY <1>2, <1>3, <2>1, FirstOf
<1>6. \A i \in 1 .. r : u[i] = IF i - o \in 1 .. m THEN t[i - o] ELSE v[i]
    BY <1>1, <1>4, <1>5
<1>7. u = [i \in 1 .. r |-> u[i]]
    BY <1>4
<1>8. u = [i \in 1 .. Len(v) |-> IF i - o \in 1 .. Len(t) THEN t[i - o] ELSE v[i]]
    BY <1>0, <1>5, <1>6, <1>7
<1> QED BY <1>3, <1>8 DEF Covered

\* ... and the bytes behind them.
LEMMA ChangeRest ==
    ASSUME NEW z \in Nat, NEW B, NEW C, NEW t \in Seq(Byte), NEW r \in Nat, NEW o \in Nat,
           r <= z, o + Len(t) <= r, Holds(B, C, z, o, t)
    PROVE  SubSeq(C, r + 1, z) = SubSeq(B, r + 1, z)
<1>0. PICK m \in Nat : m = Len(t)
    OBVIOUS
<1>1. /\ B \in Seq(Byte) /\ Len(B) = z /\ C \in Seq(Byte) /\ Len(C) = z
      /\ \A i \in 1 .. z : C[i] = IF i - o \in 1 .. m THEN t[i - o] ELSE B[i]
    BY <1>0 DEF Holds
<1>3. PICK j \in Nat, l \in Nat : j = r + 1 /\ l = z - r
    OBVIOUS
<1>4. r \in 0 .. z /\ z \in r .. z
    OBVIOUS
<1>5. PICK u, v : u = SubSeq(C, j, z) /\ v = SubSeq(B, j, z)
    OBVIOUS
<1>6. u \in Seq(Byte) /\ Len(u) = l /\ \A i \in 1 .. l : u[i] = C[r + i]
    BY <1>1, <1>3, <1>4, <1>5, PartOf
<1>7. v \in Seq(Byte) /\ Len(v) = l /\ \A i \in 1 .. l : v[i] = B[r + i]
    BY <1>1, <1>3, <1>4, <1>5, PartOf
<1>8. ASSUME NEW i \in 1 .. l PROVE u[i] = v[i]
    <2>1. r + i \in 1 .. z /\ r + i - o \notin 1 .. m
        BY <1>0, <1>3
    <2> QED BY <1>1, <1>6, <1>7, <2>1
<1>9. u = v
    BY <1>6, <1>7, <1>8, SeqEqual
<1> QED BY <1>3, <1>5, <1>9

\* A copy behind them.
LEMMA AheadFirst ==
    ASSUME NEW z \in Nat, NEW B, NEW C, NEW t \in Seq(Byte), NEW r \in Nat, NEW y \in Nat,
           r <= z, r <= y, Holds(B, C, z, y, t)
    PROVE  SubSeq(C, 1, r) = SubSeq(B, 1, r)
<1>0. PICK m \in Nat : m = Len(t)
    OBVIOUS
<1>1. /\ B \in Seq(Byte) /\ Len(B) = z /\ C \in Seq(Byte) /\ Len(C) = z
      /\ \A i \in 1 .. z : C[i] = IF i - y \in 1 .. m THEN t[i - y] ELSE B[i]
    BY <1>0 DEF Holds
<1>2. r \in 0 .. z
    OBVIOUS
<1>3. PICK u, v : u = SubSeq(C, 1, r) /\ v = SubSeq(B, 1, r)
    OBVIOUS
<1>4. u \in Seq(Byte) /\ Len(u) = r /\ \A i \in 1 .. r : u[i] = C[i]
    <2>1. C \in Seq(Byte) /\ Len(C) = z
        BY <1>1
    <2> QED BY <1>2, <1>3, <2>1, FirstOf
<1>5. v \in Seq(Byte) /\ Len(v) = r /\ \A i \in 1 .. r : v[i] = B[i]
    <2>1. B \in Seq(Byte) /\ Len(B) = z
        BY <1>1
    <2> QED BY <1>2, <1>3, <2>1, FirstOf
<1>6. ASSUME NEW i \in 1 .. r PROVE u[i] = v[i]
    <2>1. i \in 1 .. z /\ i - y \notin 1 .. m
        OBVIOUS
    <2> QED BY <1>1, <1>4, <1>5, <2>1
<1>7. u = v
    BY <1>4, <1>5, <1>6, SeqEqual
<1> QED BY <1>3, <1>7

\* ... and the bytes it reaches.
LEMMA AheadRest ==
    ASSUME NEW z \in Nat, NEW B, NEW C, NEW t \in Seq(Byte), NEW r \in Nat, NEW o \in Nat,
           NEW y \in Nat, NEW w, w = Covered(SubSeq(B, r + 1, z), o, t),
           r <= z, o = y - r, Holds(B, C, z, y, t)
    PROVE  SubSeq(C, r + 1, z) = w
<1>0. PICK m \in Nat : m = Len(t)
    OBVIOUS
<1>1. /\ B \in Seq(Byte) /\ Len(B) = z /\ C \in Seq(Byte) /\ Len(C) = z
      /\ \A i \in 1 .. z : C[i] = IF i - y \in 1 .. m THEN t[i - y] ELSE B[i]
    BY <1>0 DEF Holds
<1>3. PICK j \in Nat, l \in Nat : j = r + 1 /\ l = z - r
    OBVIOUS
<1>4. r \in 0 .. z /\ z \in r .. z
    OBVIOUS
<1>5. PICK u, v : u = SubSeq(C, j, z) /\ v = SubSeq(B, j, z)
    OBVIOUS
<1>6. u \in Seq(Byte) /\ Len(u) = l /\ \A i \in 1 .. l : u[i] = C[r + i]
    BY <1>1, <1>3, <1>4, <1>5, PartOf
<1>7. v \in Seq(Byte) /\ Len(v) = l /\ \A i \in 1 .. l : v[i] = B[r + i]
    BY <1>1, <1>3, <1>4, <1>5, PartOf
<1>8. ASSUME NEW i \in 1 .. l
      PROVE  u[i] = IF i - o \in 1 .. m THEN t[i - o] ELSE v[i]
    <2>1. r + i \in 1 .. z /\ r + i - y = i - o
        BY <1>3
    <2>2. C[r + i] = IF i - o \in 1 .. m THEN t[i - o] ELSE B[r + i]
        <3>1. PICK x \in 1 .. z : x = r + i
            BY <2>1
        <3>2. C[x] = IF x - y \in 1 .. m THEN t[x - y] ELSE B[x]
            BY <1>1
        <3> QED BY <2>1, <3>1, <3>2
    <2> QED BY <1>6, <1>7, <2>2
<1>9. u = [i \in 1 .. l |-> u[i]]
    BY <1>6
<1>10. u = [i \in 1 .. Len(v) |-> IF i - o \in 1 .. Len(t) THEN t[i - o] ELSE v[i]]
    BY <1>0, <1>7, <1>8, <1>9
<1> QED BY <1>3, <1>5, <1>10 DEF Covered

\* What is copied over the end is cut off: only what fits counts.
LEMMA OverCut ==
    ASSUME NEW v \in Seq(Byte), NEW t \in Seq(Byte), NEW o \in Nat, NEW m \in Nat, m <= Len(t),
           m = Len(t) \/ o + m >= Len(v)
    PROVE  Covered(v, o, SubSeq(t, 1, m)) = Covered(v, o, t)
<1>1. PICK u : u = SubSeq(t, 1, m)
    OBVIOUS
<1>2. PICK l \in Nat, n \in Nat : l = Len(v) /\ n = Len(t)
    OBVIOUS
<1>3. Len(u) = m /\ \A i \in 1 .. m : u[i] = t[i]
    <2>1. m \in 0 .. n
        BY <1>2
    <2> QED BY <1>1, <1>2, <2>1, FirstOf
<1>4. ASSUME NEW i \in 1 .. l
      PROVE  (IF i - o \in 1 .. m THEN u[i - o] ELSE v[i]) = (IF i - o \in 1 .. n THEN t[i - o] ELSE v[i])
    <2>1. i - o \in 1 .. m <=> i - o \in 1 .. n
        BY <1>2
    <2> QED BY <1>3, <2>1
<1>5. [i \in 1 .. l |-> IF i - o \in 1 .. m THEN u[i - o] ELSE v[i]]
          = [i \in 1 .. l |-> IF i - o \in 1 .. n THEN t[i - o] ELSE v[i]]
    BY <1>4
<1> QED BY <1>1, <1>2, <1>3, <1>5 DEF Covered

\* Nothing is copied behind the end.
LEMMA OverEnd ==
    ASSUME NEW v \in Seq(Byte), NEW t, NEW o \in Nat, o >= Len(v)
    PROVE  Covered(v, o, t) = v
<1>1. PICK l \in Nat : l = Len(v)
    OBVIOUS
<1>2. \A i \in 1 .. l : i - o \notin 1 .. Len(t)
    BY <1>1
<1>3. [i \in 1 .. l |-> IF i - o \in 1 .. Len(t) THEN t[i - o] ELSE v[i]] = [i \in 1 .. l |-> v[i]]
    BY <1>2
<1>4. v = [i \in 1 .. l |-> v[i]]
    BY <1>1
<1> QED BY <1>1, <1>3, <1>4 DEF Covered

-----------------------------------------------------------------------------
(* ... and for the ring *)

\* The two runs are the two parts of the whole turn.
LEMMA FirstHalf ==
    ASSUME NEW z \in Nat, NEW b \in Memory(z), NEW p \in Nat, NEW r \in Nat, r <= z
    PROVE  Ring(b, z, p, r) = SubSeq(Ring(b, z, p, z), 1, r)
<1>1. z \in 0 .. z /\ r \in 0 .. z
    OBVIOUS
<1>2. SubSeq(Ring(b, z, p, z), 1, r) = Ring(b, z, p, r)
    BY <1>1, RingFirst
<1> QED BY <1>2

\* The second of them.
LEMMA OtherHalf ==
    ASSUME NEW z \in Nat, NEW b \in Memory(z), NEW p \in Nat, NEW r \in Nat, r <= z
    PROVE  Ring(b, z, p + r, z - r) = SubSeq(Ring(b, z, p, z), r + 1, z)
<1>1. z \in 0 .. z /\ z \in r .. z /\ r \in 0 .. z
    OBVIOUS
<1>2. SubSeq(Ring(b, z, p, z), r + 1, z) = Ring(b, z, p + r, z - r)
    BY <1>1, RingPart
<1> QED BY <1>2

\* A copy into the memory, read once around.
LEMMA PutHolds ==
    ASSUME NEW z \in Nat, NEW b \in Memory(z), NEW c, NEW t \in Seq(Byte),
           NEW p \in Nat, NEW o \in Nat, NEW w \in Nat, o + Len(t) <= z,
           w = p + o \/ w + z = p + o \/ w = p + o + z, Put(b, z, c, w, t)
    PROVE  c \in Memory(z) /\ Holds(Ring(b, z, p, z), Ring(c, z, p, z), z, o, t)
<1>1. c \in Memory(z)
    BY DEF Put
<1>2. z \in 0 .. z
    OBVIOUS
<1>3. PICK B : B = Ring(b, z, p, z)
    OBVIOUS
<1>4. B \in Seq(Byte) /\ Len(B) = z /\ \A i \in 1 .. z : B[i] = b[Spot(z, p, i)]
    BY <1>2, <1>3, RingSeq
<1>5. PICK C : C = Ring(c, z, p, z)
    OBVIOUS
<1>6. C \in Seq(Byte) /\ Len(C) = z /\ \A i \in 1 .. z : C[i] = c[Spot(z, p, i)]
    BY <1>1, <1>2, <1>5, RingSeq
<1>7. \A i \in 1 .. z :
         c[Spot(z, p, i)] = IF i - o \in 1 .. Len(t) THEN t[i - o] ELSE b[Spot(z, p, i)]
    BY PutSeenFrom
<1>8. \A i \in 1 .. z : C[i] = IF i - o \in 1 .. Len(t) THEN t[i - o] ELSE B[i]
    BY <1>4, <1>6, <1>7
<1>9. Holds(B, C, z, o, t)
    BY <1>4, <1>6, <1>8 DEF Holds
<1> QED BY <1>1, <1>3, <1>5, <1>9

\* A copy and a step forward of the writer.
LEMMA RingPush ==
    ASSUME NEW z \in Nat, NEW b \in Memory(z), NEW c, NEW p \in Nat, NEW r \in Nat,
           NEW t \in Seq(Byte), NEW x \in Nat, NEW w \in Nat, Len(t) = x - r, x <= z,
           w = p + r \/ w + z = p + r, Put(b, z, c, w, t)
    PROVE  Pushed(b, c, z, p, r, t, x)
<1>1. PICK B, C : B = Ring(b, z, p, z) /\ C = Ring(c, z, p, z)
    OBVIOUS
<1>2. c \in Memory(z) /\ Holds(B, C, z, r, t)
    <2>1. r + Len(t) <= z
        OBVIOUS
    <2> QED BY <1>1, <2>1, PutHolds
<1>3. r <= z
    <2>1. Len(t) >= 0
        OBVIOUS
    <2> QED BY <2>1
<1>6. Ring(b, z, p, r) = SubSeq(B, 1, r)
    BY <1>1, <1>3, FirstHalf
<1>7. Ring(b, z, p + r, z - r) = SubSeq(B, r + 1, z)
    BY <1>1, <1>3, OtherHalf
<1>8. Ring(c, z, p, x) = SubSeq(C, 1, x)
    BY <1>1, <1>2, FirstHalf
<1>9. Ring(c, z, p + x, z - x) = SubSeq(C, x + 1, z)
    BY <1>1, <1>2, OtherHalf
<1>4. SubSeq(C, 1, x) = SubSeq(B, 1, r) \o t
    <2>1. PICK u : u = SubSeq(B, 1, r) \o t
        OBVIOUS
    <2>2. Holds(B, C, z, r, t)
        BY <1>2
    <2> QED BY <2>1, <2>2, PushFirst
<1>5. SubSeq(C, x + 1, z) = SubSeq(SubSeq(B, r + 1, z), Len(t) + 1, z - r)
    <2>1. PICK v : v = SubSeq(B, r + 1, z)
        OBVIOUS
    <2>2. PICK u : u = SubSeq(v, Len(t) + 1, z - r)
        OBVIOUS
    <2>4. Holds(B, C, z, r, t)
        BY <1>2
    <2>3. SubSeq(C, x + 1, z) = u
        BY <2>1, <2>2, <2>4, PushRest
    <2> QED BY <2>1, <2>2, <2>3
<1> QED BY <1>2, <1>4, <1>5, <1>6, <1>7, <1>8, <1>9 DEF Pushed

\* A copy over readable bytes.
LEMMA RingChange ==
    ASSUME NEW z \in Nat, NEW b \in Memory(z), NEW c, NEW p \in Nat, NEW r \in Nat,
           NEW t \in Seq(Byte), NEW o \in Nat, NEW w \in Nat, r <= z, o + Len(t) <= r,
           w = p + o \/ w + z = p + o, Put(b, z, c, w, t)
    PROVE  Changed(b, c, z, p, r, o, t)
<1>1. PICK B, C : B = Ring(b, z, p, z) /\ C = Ring(c, z, p, z)
    OBVIOUS
<1>2. c \in Memory(z) /\ Holds(B, C, z, o, t)
    <2>1. o + Len(t) <= z
        OBVIOUS
    <2> QED BY <1>1, <2>1, PutHolds
<1>3. SubSeq(C, 1, r) = Covered(SubSeq(B, 1, r), o, t)
    BY <1>2, ChangeFirst
<1>4. SubSeq(C, r + 1, z) = SubSeq(B, r + 1, z)
    BY <1>2, ChangeRest
<1>5. Ring(b, z, p, r) = SubSeq(B, 1, r)
    BY <1>1, FirstHalf
<1>6. Ring(b, z, p + r, z - r) = SubSeq(B, r + 1, z)
    BY <1>1, OtherHalf
<1>7. Ring(c, z, p, r) = SubSeq(C, 1, r)
    BY <1>1, <1>2, FirstHalf
<1>8. Ring(c, z, p + r, z - r) = SubSeq(C, r + 1, z)
    BY <1>1, <1>2, OtherHalf
<1> QED BY <1>2, <1>3, <1>4, <1>5, <1>6, <1>7, <1>8 DEF Changed

\* A copy over writable bytes.
LEMMA RingAhead ==
    ASSUME NEW z \in Nat, NEW b \in Memory(z), NEW c, NEW p \in Nat, NEW r \in Nat,
           NEW t \in Seq(Byte), NEW o \in Nat, NEW y \in Nat, NEW w \in Nat,
           r <= z, o = y - r, y + Len(t) <= z,
           w = p + y \/ w + z = p + y, Put(b, z, c, w, t)
    PROVE  Written(b, c, z, p, r, o, t)
<1>1. PICK B, C : B = Ring(b, z, p, z) /\ C = Ring(c, z, p, z)
    OBVIOUS
<1>2. c \in Memory(z) /\ Holds(B, C, z, y, t)
    BY <1>1, PutHolds
<1>9. Holds(B, C, z, y, t)
    BY <1>2
<1>10. r <= y
    OBVIOUS
<1>3. SubSeq(C, 1, r) = SubSeq(B, 1, r)
    BY <1>9, <1>10, AheadFirst
<1>4. SubSeq(C, r + 1, z) = Covered(SubSeq(B, r + 1, z), o, t)
    <2>1. PICK v : v = Covered(SubSeq(B, r + 1, z), o, t)
        OBVIOUS
    <2> QED BY <1>9, <2>1, AheadRest
<1>5. Ring(b, z, p, r) = SubSeq(B, 1, r)
    BY <1>1, FirstHalf
<1>6. Ring(b, z, p + r, z - r) = SubSeq(B, r + 1, z)
    BY <1>1, OtherHalf
<1>7. Ring(c, z, p, r) = SubSeq(C, 1, r)
    BY <1>1, <1>2, FirstHalf
<1>8. Ring(c, z, p + r, z - r) = SubSeq(C, r + 1, z)
    BY <1>1, <1>2, OtherHalf
<1> QED BY <1>2, <1>3, <1>4, <1>5, <1>6, <1>7, <1>8 DEF Written

-----------------------------------------------------------------------------
(* The operations of the tape, said of Queue and Spare *)

\* The first bytes out of the queue.
LEMMA TapePop ==
    ASSUME NEW n, Queue' = SubSeq(Queue, n + 1, Len(Queue)), Spare' = Spare \o SubSeq(Queue, 1, n)
    PROVE  Tape!Pop(n)
BY Zenon DEF Tape!Pop, Tape!First, Tape!Rest, Queue, Spare

\* A chunk into the queue.
LEMMA TapePush ==
    ASSUME NEW t, Queue' = Queue \o t, Spare' = SubSeq(Spare, Len(t) + 1, Len(Spare))
    PROVE  Tape!Push(t)
BY Zenon DEF Tape!Push, Tape!Rest, Queue, Spare

\* The least of two numbers, both spellings.
LEMMA Lesser ==
    ASSUME NEW x \in Nat, NEW y \in Nat
    PROVE  /\ Least(x, y) \in Nat /\ Least(x, y) <= x /\ Least(x, y) <= y
           /\ Least(x, y) = x \/ Least(x, y) = y
           /\ Tape!Smaller(x, y) = Least(x, y) /\ Least(x, y) = Least(y, x)
BY DEF Least, Tape!Smaller

\* read_advance
LEMMA PopStep ==
    ASSUME RingSound, NEW n \in Nat, n <= readable, ReadAdvance(n), UNCHANGED <<buffer, size>>
    PROVE  Tape!Pop(n)
<1>1. PICK z, b, p, r : z = size /\ b = buffer /\ p = read /\ r = readable
    OBVIOUS
<1>2. z \in Nat /\ b \in Memory(z) /\ p \in Nat /\ r \in 0 .. z /\ n \in 0 .. r
    BY <1>1, Pointers DEF Inside
<1>3. PICK q : q = read'
    OBVIOUS
<1>4. q \in Nat /\ (q = p + n \/ p + n = q + z)
    BY <1>1, <1>2, <1>3 DEF ReadAdvance, Wrapped
<1>5. buffer' = b /\ size' = z /\ readable' = r - n
    BY <1>1 DEF ReadAdvance
<1>6. /\ Queue' = Ring(b, z, q, r - n)
      /\ Spare' = Ring(b, z, q + (r - n), z - (r - n))
    BY <1>3, <1>5, NextTape
<1>7. Queue = Ring(b, z, p, r) /\ Spare = Ring(b, z, p + r, z - r) /\ Len(Queue) = r
    BY <1>1, TapeIsRing
<1>8. Popped(b, z, p, r, n, q)
    BY <1>2, <1>4, RingPop
<1> QED BY <1>6, <1>7, <1>8, TapePop DEF Popped

\* The bytes t, copied to where write points, and a step over them.
LEMMA PushStep ==
    ASSUME RingSound, NEW t \in Seq(Byte), Len(t) <= size - readable,
           NEW w, w = write, Put(buffer, size, buffer', w, t), WriteAdvance(Len(t)), UNCHANGED size
    PROVE  Tape!Push(t) /\ buffer' \in Memory(size')
<1>1. PICK z, b, p, r : z = size /\ b = buffer /\ p = read /\ r = readable
    OBVIOUS
<1>2. PICK x, c : x = r + Len(t) /\ c = buffer'
    OBVIOUS
<1>3. z \in Nat /\ b \in Memory(z) /\ p \in Nat /\ r \in Nat /\ w \in Nat /\ (w = p + r \/ w + z = p + r)
    BY <1>1, Pointers DEF Inside
<1>4. x \in Nat /\ Len(t) = x - r /\ x <= z
    BY <1>1, <1>2, <1>3
<1>5. Put(b, z, c, w, t)
    BY <1>1, <1>2
<1>6. Pushed(b, c, z, p, r, t, x)
    BY <1>3, <1>4, <1>5, RingPush
<1>7. size' = z /\ read' = p /\ readable' = x
    BY <1>1, <1>2 DEF WriteAdvance
<1>8. Queue' = Ring(c, z, p, x) /\ Spare' = Ring(c, z, p + x, z - x)
    BY <1>2, <1>7, NextTape
<1>9. Queue = Ring(b, z, p, r) /\ Spare = Ring(b, z, p + r, z - r) /\ Len(Spare) = z - r
    BY <1>1, TapeIsRing
<1>10. Queue' = Queue \o t /\ Spare' = SubSeq(Spare, Len(t) + 1, Len(Spare))
    BY <1>6, <1>8, <1>9 DEF Pushed
<1>11. buffer' \in Memory(size')
    BY <1>2, <1>6, <1>7 DEF Pushed
<1> QED BY <1>10, <1>11, TapePush

\* Bytes changed in place, with the pointers where they are.
LEMMA ChangeStep ==
    ASSUME RingSound, NEW o \in Nat, NEW t \in Seq(Byte), o + Len(t) <= readable,
           NEW w \in Nat, w = read + o \/ w + size = read + o, Put(buffer, size, buffer', w, t),
           UNCHANGED <<size, read, write, readable>>
    PROVE  Queue' = Covered(Queue, o, t) /\ Spare' = Spare /\ buffer' \in Memory(size')
<1>1. PICK z, b, p, r, c : z = size /\ b = buffer /\ p = read /\ r = readable /\ c = buffer'
    OBVIOUS
<1>2. /\ z \in Nat /\ b \in Memory(z) /\ p \in Nat /\ r \in Nat /\ r <= z
      /\ w = p + o \/ w + z = p + o
    BY <1>1, Pointers DEF Inside
<1>3. Put(b, z, c, w, t) /\ o + Len(t) <= r
    BY <1>1
<1>4. Changed(b, c, z, p, r, o, t)
    BY <1>2, <1>3, RingChange
<1>5. Queue' = Ring(c, z, p, r) /\ Spare' = Ring(c, z, p + r, z - r) /\ size' = z
    BY <1>1, NextTape
<1>6. Queue = Ring(b, z, p, r) /\ Spare = Ring(b, z, p + r, z - r)
    BY <1>1, TapeIsRing
<1> QED BY <1>1, <1>4, <1>5, <1>6 DEF Changed

\* Bytes written ahead, with the pointers where they are.
LEMMA AheadStep ==
    ASSUME RingSound, NEW o \in Nat, NEW t \in Seq(Byte), o + Len(t) <= size - readable,
           NEW w \in Nat, w = write + o \/ w + size = write + o, w <= size, o < size - readable,
           Put(buffer, size, buffer', w, t), UNCHANGED <<size, read, write, readable>>
    PROVE  Spare' = Covered(Spare, o, t) /\ Queue' = Queue /\ buffer' \in Memory(size')
<1>1. PICK z, b, p, r, c : z = size /\ b = buffer /\ p = read /\ r = readable /\ c = buffer'
    OBVIOUS
<1>2. /\ z \in Nat /\ b \in Memory(z) /\ p \in Nat /\ r \in Nat /\ r <= z /\ (p < z \/ p = 0)
      /\ write \in Nat /\ (write < z \/ write = 0) /\ (write = p + r \/ write + z = p + r)
    BY <1>1, Pointers DEF Inside
<1>3. PICK y \in Nat : y = r + o
    BY <1>2
<1>4. /\ o = y - r /\ y + Len(t) <= z
      /\ w = p + y \/ w + z = p + y
    <2>1. o = y - r /\ y + Len(t) <= z
        BY <1>1, <1>2, <1>3
    <2>2. w = p + y \/ w + z = p + y
        BY <1>1, <1>2, <1>3
    <2> QED BY <2>1, <2>2
<1>5. Put(b, z, c, w, t)
    BY <1>1
<1>6. Written(b, c, z, p, r, o, t)
    BY <1>2, <1>4, <1>5, RingAhead
<1>7. Queue' = Ring(c, z, p, r) /\ Spare' = Ring(c, z, p + r, z - r) /\ size' = z
    BY <1>1, NextTape
<1>8. Queue = Ring(b, z, p, r) /\ Spare = Ring(b, z, p + r, z - r)
    BY <1>1, TapeIsRing
<1> QED BY <1>1, <1>6, <1>7, <1>8 DEF Written

-----------------------------------------------------------------------------
(* The operations *)

\* What done says.
LEMMA DoneSays ==
    ASSUME NEW op, NEW n, NEW t, Did(op, n, t)
    PROVE  Tape!Op(op, n) /\ Tape!Gives(t) /\ done'.n = n /\ done'.bytes = t
BY DEF Did, Tape!Op, Tape!Gives

\* Nothing moves.
LEMMA TapeRests ==
    ASSUME UNCHANGED <<buffer, size, read, readable>>
    PROVE  UNCHANGED <<Queue, Spare>>
BY DEF Queue, Spare, Around

\* As many bytes as asked for.
LEMMA RingLen ==
    ASSUME NEW z \in Nat, NEW b \in Memory(z), NEW p \in Nat, NEW n \in Nat, n <= z
    PROVE  Len(Ring(b, z, p, n)) = n
BY RingSeq

\* Part of the readable bytes, from the offset o on.
LEMMA PeekRing ==
    ASSUME NEW z \in Nat, NEW b \in Memory(z), NEW p \in Nat, NEW r \in Nat, r <= z,
           NEW n \in Nat, NEW o \in Nat
    PROVE  Tape!AtMost(Tape!Rest(Ring(b, z, p, r), o), n) =
               IF o >= r THEN <<>> ELSE Ring(b, z, p + o, Least(n, r - o))
<1>a. PICK s : s = SubSeq(Ring(b, z, p, r), o + 1, r)
    OBVIOUS
<1>b. Tape!Rest(Ring(b, z, p, r), o) = s
    BY <1>a, RingLen DEF Tape!Rest
<1> SUFFICES Tape!AtMost(s, n) = IF o >= r THEN <<>> ELSE Ring(b, z, p + o, Least(n, r - o))
    BY <1>b
<1>1. CASE o >= r
    <2>1. s = <<>>
        BY <1>1, <1>a, SubSeqEmpty, o + 1 \in Int, r < o + 1
    <2>2. Tape!Smaller(n, 0) = 0
        BY DEF Tape!Smaller
    <2>3. SubSeq(<<>>, 1, 0) = <<>>
        BY SubSeqEmpty
    <2> QED BY <1>1, <2>1, <2>2, <2>3, Len(<<>>) = 0 DEF Tape!AtMost, Tape!First
<1>2. CASE ~(o >= r)
    <2>1. PICK m, x \in Nat : m \in Nat /\ m = r - o /\ x = p + o
        BY <1>2
    <2>2. s = Ring(b, z, x, m)
        <3>1. r \in 0 .. z /\ o \in 0 .. r /\ r \in o .. r
            BY <1>2
        <3>2. SubSeq(Ring(b, z, p, r), o + 1, r) = Ring(b, z, p + o, r - o)
            BY <3>1, RingPart
        <3> QED BY <1>a, <2>1, <3>2
    <2>3. m \in 0 .. z /\ Len(s) = m
        <3>1. m \in 0 .. z
            BY <2>1
        <3>2. Len(Ring(b, z, x, m)) = m
            BY <2>1, <3>1, RingLen
        <3> QED BY <2>2, <3>1, <3>2
    <2>4. PICK l \in 0 .. m : l = Least(n, m)
        BY <2>1, Lesser
    <2>5. Tape!Smaller(n, m) = l
        BY <2>1, <2>4, Lesser
    <2>6. SubSeq(Ring(b, z, x, m), 1, l) = Ring(b, z, x, l)
        BY <2>1, <2>3, RingFirst
    <2>7. Tape!AtMost(s, n) = SubSeq(s, 1, Tape!Smaller(n, Len(s)))
        BY DEF Tape!AtMost, Tape!First
    <2> QED BY <1>2, <2>1, <2>2, <2>3, <2>4, <2>5, <2>6, <2>7
<1> QED BY <1>1, <1>2

\* What a reader of at most n bytes gets.
LEMMA FirstBytes ==
    ASSUME RingSound, NEW n \in Nat
    PROVE  /\ Least(n, readable) \in Nat /\ Least(n, readable) <= readable
           /\ Tape!Smaller(n, Len(Queue)) = Least(n, readable)
           /\ Tape!AtMost(Queue, n) = Ring(buffer, size, read, Least(n, readable))
<1>1. /\ Queue = Ring(buffer, size, read, readable) /\ Len(Queue) = readable
      /\ size \in Nat /\ buffer \in Memory(size) /\ readable \in Nat /\ readable \in 0 .. size
      /\ read \in Nat
    BY TapeIsRing, Pointers DEF Inside
<1>2. PICK k : k = Least(n, readable)
    OBVIOUS
<1>3. k \in 0 .. readable /\ Tape!Smaller(n, Len(Queue)) = k
    BY <1>1, <1>2, Lesser
<1>4. SubSeq(Ring(buffer, size, read, readable), 1, k) = Ring(buffer, size, read, k)
    BY <1>1, <1>3, RingFirst
<1>5. Tape!AtMost(Queue, n) = SubSeq(Queue, 1, Tape!Smaller(n, Len(Queue)))
    BY DEF Tape!AtMost, Tape!First
<1> QED BY <1>1, <1>2, <1>3, <1>4, <1>5

\* read
LEMMA ReadTape ==
    ASSUME RingSound, NEW n \in Nat, Read(n)
    PROVE  Tape!Read(n)
<1>1. PICK k : k = Least(n, readable)
    OBVIOUS
<1>2. k \in Nat /\ k <= readable /\ Tape!Smaller(n, Len(Queue)) = k
      /\ Tape!AtMost(Queue, n) = Ring(buffer, size, read, k)
    BY <1>1, FirstBytes
<1>3. Did("read", n, TwoOut(read, k)) /\ ReadAdvance(k) /\ UNCHANGED <<buffer, size>>
    BY <1>1 DEF Read, ReadOut, readable_len
<1>4. TwoOut(read, k) = Ring(buffer, size, read, k)
    <2>1. Inside(read) /\ k \in 0 .. size
        BY <1>2, Pointers
    <2> QED BY <2>1, TwoOutRing
<1>5. Tape!Pop(k)
    BY <1>2, <1>3, PopStep
<1>6. Tape!Op("read", n) /\ Tape!Gives(TwoOut(read, k))
    BY <1>3, DoneSays
<1> QED BY <1>2, <1>4, <1>5, <1>6, Zenon DEF Tape!Read, Queue

\* fix_read
LEMMA FixReadTape ==
    ASSUME RingSound, NEW n \in Nat, FixRead(n)
    PROVE  Tape!FixRead(n)
<1>0. Len(Queue) = readable /\ readable \in Nat /\ readable <= size /\ size \in Nat
    BY TapeIsRing, Pointers
<1>1. CASE readable < n
    <2>1. Did("fix_read", n, <<>>) /\ UNCHANGED <<buffer, size, read, write, readable>>
        BY <1>1 DEF FixRead, readable_len
    <2>2. Tape!Op("fix_read", n) /\ Tape!Gives(<<>>) /\ UNCHANGED <<Queue, Spare>>
        BY <2>1, DoneSays, TapeRests
    <2>3. n > Len(Queue)
        BY <1>0, <1>1
    <2> QED BY <2>2, <2>3, Zenon DEF Tape!FixRead, Queue, Spare
<1>2. CASE ~(readable < n)
    <2>1. Least(n, readable) = n /\ n <= Len(Queue) /\ n <= readable /\ n \in 0 .. size
        BY <1>0, <1>2 DEF Least
    <2>2. Did("fix_read", n, TwoOut(read, n)) /\ ReadAdvance(n) /\ UNCHANGED <<buffer, size>>
        BY <1>2, <2>1 DEF FixRead, ReadOut, readable_len
    <2>3. Tape!Op("fix_read", n) /\ Tape!Gives(TwoOut(read, n)) /\ Tape!Pop(n)
        BY <2>1, <2>2, DoneSays, PopStep
    <2>4. TwoOut(read, n) = Ring(buffer, size, read, n)
        BY <2>1, Pointers, TwoOutRing
    <2>5. Tape!AtMost(Queue, n) = Ring(buffer, size, read, n) /\ Tape!Smaller(n, Len(Queue)) = n
        BY <2>1, FirstBytes
    <2>6. Tape!First(Queue, n) = Tape!AtMost(Queue, n)
        BY <2>5 DEF Tape!AtMost, Tape!First
    <2> QED BY <2>1, <2>3, <2>4, <2>5, <2>6, Zenon DEF Tape!FixRead, Queue
<1> QED BY <1>1, <1>2

\* read into another buffer
LEMMA ReadToTape ==
    ASSUME RingSound, NEW n \in Nat, NEW k \in Nat, ReadTo(n, k)
    PROVE  Tape!Read(Least(n, k))
<1>0. size \in Nat /\ buffer \in Memory(size) /\ readable \in Nat /\ readable <= size /\ read \in Nat
    BY Pointers DEF Inside
<1>1. PICK m \in Nat : m = Least(n, readable) /\ m <= readable /\ m \in 0 .. size
    BY <1>0, Lesser
<1>2. PICK t : t = Gather(read_array(m, 0))
    OBVIOUS
<1>3. t = Ring(buffer, size, read, m)
    <2>1. t = IF 0 >= readable THEN <<>> ELSE Ring(buffer, size, read + 0, Least(m, readable - 0))
        BY <1>1, <1>2, 0 \in Nat, ReadArrayRing
    <2>2. CASE 0 >= readable
        BY <1>0, <1>1, <2>1, <2>2 DEF Ring
    <2>3. CASE ~(0 >= readable)
        <3>1. read + 0 = read /\ Least(m, readable - 0) = m
            BY <1>0, <1>1 DEF Least
        <3> QED BY <2>1, <2>3, <3>1
    <2> QED BY <2>2, <2>3
<1>4. Len(t) = m
    BY <1>0, <1>1, <1>3, RingSeq
<1>5. PICK w \in Nat : w = Least(k, m) /\ w <= m
    BY Lesser
<1>6. Did("read", Least(n, k), SubSeq(t, 1, w)) /\ ReadAdvance(w) /\ UNCHANGED <<buffer, size>>
    BY <1>1, <1>2, <1>4, <1>5 DEF ReadTo, readable_len
<1>7. PICK l \in Nat : l = Least(n, k)
    BY Lesser
<1>8. Least(l, readable) = w
    BY <1>0, <1>1, <1>5, <1>7 DEF Least
<1>9. SubSeq(t, 1, w) = Ring(buffer, size, read, w)
    <2>1. w \in 0 .. m
        BY <1>5
    <2> QED BY <1>0, <1>1, <1>3, <2>1, RingFirst
<1>10. Tape!Pop(w)
    <2>1. w <= readable
        BY <1>0, <1>1, <1>5
    <2> QED BY <1>6, <2>1, PopStep
<1>11. Tape!Op("read", l) /\ Tape!Gives(SubSeq(t, 1, w))
    BY <1>6, <1>7, DoneSays
<1>12. Tape!Smaller(l, Len(Queue)) = w /\ Tape!AtMost(Queue, l) = Ring(buffer, size, read, w)
    BY <1>8, FirstBytes
<1>13. Tape!Read(l)
    BY <1>9, <1>10, <1>11, <1>12, Zenon DEF Tape!Read, Queue
<1> QED BY <1>7, <1>13

\* try_read, and writev of read_array
LEMMA PeekTape ==
    ASSUME RingSound, NEW n \in Nat, NEW o \in Nat, NEW t, Did("peek", o, t),
           t = IF o >= readable THEN <<>> ELSE Ring(buffer, size, read + o, Least(n, readable - o)),
           UNCHANGED <<buffer, size, read, write, readable>>
    PROVE  Tape!Peek(n, o)
<1>0. /\ size \in Nat /\ buffer \in Memory(size) /\ readable \in Nat /\ readable <= size /\ read \in Nat
      /\ Queue = Ring(buffer, size, read, readable) /\ Len(Queue) = readable
    BY TapeIsRing, Pointers DEF Inside
<1>1. Tape!Op("peek", o) /\ Tape!Gives(t) /\ UNCHANGED <<Queue, Spare>>
    BY DoneSays, TapeRests
<1>2. Tape!AtMost(Tape!Rest(Queue, o), n) = t
    BY <1>0, PeekRing
<1> QED BY <1>1, <1>2, Zenon DEF Tape!Peek, Queue, Spare

\* try_read
LEMMA TryReadTape ==
    ASSUME RingSound, NEW n \in Nat, NEW o \in Nat, TryRead(n, o)
    PROVE  Tape!Peek(n, o)
<1>0. /\ size \in Nat /\ buffer \in Memory(size) /\ readable \in Nat /\ readable <= size
      /\ read \in Nat /\ (read < size \/ read = 0)
    BY Pointers DEF Inside
<1>1. PICK t : t = IF o >= readable THEN <<>>
                   ELSE TwoOut(Wrapped(read + o, size), Least(n, readable - o))
    OBVIOUS
<1>2. Did("peek", o, t) /\ UNCHANGED <<buffer, size, read, write, readable>>
    BY <1>1 DEF TryRead, readable_len
<1>3. ASSUME ~(o >= readable)
      PROVE  t = Ring(buffer, size, read + o, Least(n, readable - o))
    <2>1. PICK k, p : k = Least(n, readable - o) /\ p = Wrapped(read + o, size)
        OBVIOUS
    <2>2. k \in Nat /\ k \in 0 .. size
        <3>1. readable - o \in Nat
            BY <1>0, <1>3
        <3> QED BY <1>0, <2>1, <3>1, Lesser
    <2>3. Inside(p) /\ p \in Nat /\ (p = read + o \/ p + size = read + o)
        BY <1>0, <1>3, <2>1 DEF Inside, Wrapped
    <2>4. TwoOut(p, k) = Ring(buffer, size, p, k)
        BY <2>2, <2>3, TwoOutRing
    <2>5. PICK x \in Nat : x = read + o
        BY <1>0
    <2>6. Ring(buffer, size, p, k) = Ring(buffer, size, x, k)
        BY <1>0, <2>2, <2>3, <2>5, RingSame
    <2> QED BY <1>1, <1>3, <2>1, <2>4, <2>5, <2>6
<1> QED BY <1>1, <1>2, <1>3, PeekTape

\* writev of read_array
LEMMA SendSegmentsTape ==
    ASSUME RingSound, NEW n \in Nat, NEW o \in Nat, SendSegments(n, o)
    PROVE  Tape!Peek(n, o)
BY ReadArrayRing, PeekTape DEF SendSegments

\* Parts of a beginning.
LEMMA FirstOfFirst ==
    ASSUME NEW t \in Seq(Byte), NEW n \in Nat, n <= Len(t), NEW k \in Nat, k <= n,
           NEW u, u = SubSeq(t, 1, n)
    PROVE  SubSeq(u, 1, k) = SubSeq(t, 1, k)
<1>1. PICK h \in Nat : h = Len(t)
    OBVIOUS
<1>2. n \in 0 .. h /\ k \in 0 .. n /\ k \in 0 .. h
    BY <1>1
<1>3. PICK x, y : x = SubSeq(u, 1, k) /\ y = SubSeq(t, 1, k)
    OBVIOUS
<1>4. u \in Seq(Byte) /\ Len(u) = n /\ \A i \in 1 .. n : u[i] = t[i]
    BY <1>1, <1>2, FirstOf
<1>5. x \in Seq(Byte) /\ Len(x) = k /\ \A i \in 1 .. k : x[i] = u[i]
    BY <1>2, <1>3, <1>4, FirstOf
<1>6. y \in Seq(Byte) /\ Len(y) = k /\ \A i \in 1 .. k : y[i] = t[i]
    BY <1>1, <1>2, <1>3, FirstOf
<1>7. \A i \in 1 .. k : x[i] = y[i]
    BY <1>4, <1>5, <1>6
<1> QED BY <1>3, <1>5, <1>6, <1>7, SeqEqual

\* ... behind the first k.
LEMMA RestOfFirst ==
    ASSUME NEW t \in Seq(Byte), NEW n \in Nat, n <= Len(t), NEW k \in Nat, k <= n,
           NEW u, NEW j, u = SubSeq(t, 1, n), j = k + 1
    PROVE  SubSeq(u, j, n) = SubSeq(t, j, n)
<1>1. PICK h \in Nat : h = Len(t)
    OBVIOUS
<1>2. n \in 0 .. h /\ k \in 0 .. n /\ k \in 0 .. h /\ n \in k .. n /\ n \in k .. h
    BY <1>1
<1>3. PICK x, y : x = SubSeq(u, j, n) /\ y = SubSeq(t, j, n)
    OBVIOUS
<1>4. u \in Seq(Byte) /\ Len(u) = n /\ \A i \in 1 .. n : u[i] = t[i]
    BY <1>1, <1>2, FirstOf
<1>5. x \in Seq(Byte) /\ Len(x) = n - k /\ \A i \in 1 .. n - k : x[i] = u[k + i]
    BY <1>2, <1>3, <1>4, PartOf
<1>6. y \in Seq(Byte) /\ Len(y) = n - k /\ \A i \in 1 .. n - k : y[i] = t[k + i]
    <2>1. k \in 0 .. h /\ n \in k .. h /\ Len(t) = h
        BY <1>1, <1>2
    <2>2. y = SubSeq(t, j, n)
        BY <1>3
    <2> HIDE <1>1, <1>2
    <2>3. /\ SubSeq(t, j, n) \in Seq(Byte) /\ Len(SubSeq(t, j, n)) = n - k
          /\ \A i \in 1 .. n - k : SubSeq(t, j, n)[i] = t[k + i]
        BY <2>1, PartOf
    <2> QED BY <2>2, <2>3
<1>7. ASSUME NEW i \in 1 .. n - k PROVE x[i] = y[i]
    <2>1. k + i \in 1 .. n
        OBVIOUS
    <2> QED BY <1>4, <1>5, <1>6, <2>1
<1>8. n - k \in Nat
    OBVIOUS
<1> QED BY <1>3, <1>5, <1>6, <1>7, <1>8, SeqEqual

\* What a writer of the chunk t gets in.
LEMMA FirstChunk ==
    ASSUME RingSound, NEW t \in Seq(Byte)
    PROVE  /\ Tape!AtMost(t, Len(Spare)) = SubSeq(t, 1, Least(Len(t), size - readable))
           /\ SubSeq(t, 1, Least(Len(t), size - readable)) \in Seq(Byte)
           /\ Len(SubSeq(t, 1, Least(Len(t), size - readable))) = Least(Len(t), size - readable)
           /\ Least(Len(t), size - readable) \in Nat
           /\ Least(Len(t), size - readable) <= size - readable
           /\ Least(Len(t), size - readable) <= Len(t)
<1>1. PICK n, l \in Nat : n = Len(t) /\ l = size - readable /\ n \in Nat
    BY Pointers
<1>2. Len(Spare) = l
    BY <1>1, TapeIsRing
<1>3. PICK k \in Nat : k = Least(n, l) /\ k <= n /\ k <= l /\ Tape!Smaller(l, n) = k
    BY <1>1, Lesser
<1>4. SubSeq(t, 1, k) \in Seq(Byte) /\ Len(SubSeq(t, 1, k)) = k
    <2>1. k \in 0 .. n
        BY <1>1, <1>3
    <2> QED BY <1>1, <2>1, FirstOf
<1>5. Tape!AtMost(t, l) = SubSeq(t, 1, k)
    BY <1>1, <1>3 DEF Tape!AtMost, Tape!First
<1> QED BY <1>1, <1>2, <1>3, <1>4, <1>5

\* write
LEMMA WriteInTape ==
    ASSUME RingSound, NEW t \in Seq(Byte), NEW op, WriteIn(op, t)
    PROVE  /\ Tape!Op(op, Len(t)) /\ Tape!Gives(t) /\ done'.bytes = t
           /\ Tape!Push(Tape!AtMost(t, Len(Spare)))
           /\ buffer' \in Memory(size')
<1>1. PICK u : u = SubSeq(t, 1, Least(Len(t), size - readable))
    OBVIOUS
<1>2. /\ u \in Seq(Byte) /\ Len(u) <= size - readable
      /\ u = Tape!AtMost(t, Len(Spare))
    BY <1>1, FirstChunk
<1>3. buffer' = TwoIn(write, u) /\ WriteAdvance(Len(u)) /\ Did(op, Len(t), t) /\ UNCHANGED size
    BY <1>1 DEF WriteIn, writable_len
<1>4. PICK w : w = write
    OBVIOUS
<1>5. Put(buffer, size, buffer', w, u)
    <2>1. Inside(w) /\ Len(u) <= size
        BY <1>2, <1>4, Pointers
    <2>2. Put(buffer, size, TwoIn(w, u), w, u)
        BY <1>2, <2>1, TwoInPut
    <2> QED BY <1>3, <1>4, <2>2
<1>6. Tape!Push(u) /\ buffer' \in Memory(size')
    BY <1>2, <1>3, <1>4, <1>5, PushStep
<1> QED BY <1>2, <1>3, <1>6, DoneSays

\* write, whatever does not fit left out.
LEMMA WriteTape ==
    ASSUME RingSound, NEW t \in Seq(Byte), Write(t)
    PROVE  Tape!Write(t) /\ buffer' \in Memory(size') /\ done'.bytes = t
<1>1. /\ Tape!Op("write", Len(t)) /\ Tape!Gives(t) /\ done'.bytes = t
      /\ Tape!Push(Tape!AtMost(t, Len(Spare)))
      /\ buffer' \in Memory(size')
    BY WriteInTape DEF Write
<1> QED BY <1>1, Zenon DEF Tape!Write, Spare

\* fix_write
LEMMA FixWriteTape ==
    ASSUME RingSound, NEW t \in Seq(Byte), FixWrite(t)
    PROVE  Tape!FixWrite(t) /\ buffer' \in Memory(size') /\ done'.bytes = t
<1>0. Len(Spare) = size - readable /\ size \in Nat /\ readable \in Nat /\ buffer \in Memory(size)
    BY TapeIsRing, Pointers
<1>1. CASE size - readable < Len(t)
    <2>1. Did("fix_write", Len(t), t) /\ UNCHANGED <<buffer, size, read, write, readable>>
        BY <1>1 DEF FixWrite, writable_len
    <2>2. Tape!Op("fix_write", Len(t)) /\ Tape!Gives(t) /\ UNCHANGED <<Queue, Spare>> /\ done'.bytes = t
        BY <2>1, DoneSays, TapeRests
    <2>3. Len(t) > Len(Spare) /\ buffer' \in Memory(size')
        BY <1>0, <1>1, <2>1
    <2> QED BY <2>2, <2>3, Zenon DEF Tape!FixWrite, Queue, Spare
<1>2. CASE ~(size - readable < Len(t))
    <2>1. WriteIn("fix_write", t)
        BY <1>2 DEF FixWrite, writable_len
    <2>2. /\ Tape!Op("fix_write", Len(t)) /\ Tape!Gives(t) /\ done'.bytes = t
          /\ Tape!Push(Tape!AtMost(t, Len(Spare)))
          /\ buffer' \in Memory(size')
        BY <2>1, WriteInTape
    <2>3. Len(t) <= Len(Spare) /\ Least(Len(t), size - readable) = Len(t)
        BY <1>0, <1>2 DEF Least
    <2>4. Tape!AtMost(t, Len(Spare)) = t
        BY <2>3, FirstChunk, SubSeqFull
    <2> QED BY <2>2, <2>3, <2>4, Zenon DEF Tape!FixWrite, Spare
<1> QED BY <1>1, <1>2

\* write out of another buffer
LEMMA WriteFromTape ==
    ASSUME RingSound, NEW t \in Seq(Byte), NEW n \in Nat, WriteFrom(t, n)
    PROVE  /\ Tape!Write(SubSeq(t, 1, Least(Len(t), n)))
           /\ buffer' \in Memory(size')
           /\ done'.bytes = SubSeq(t, 1, Least(Len(t), n))
<1>0. /\ size \in Nat /\ readable \in Nat /\ readable <= size /\ write \in Nat /\ (write < size \/ write = 0)
      /\ buffer \in Memory(size) /\ writable_len = size - readable
    BY Pointers DEF Inside, writable_len
<1>1. PICK l, h, a \in Nat : l \in Nat /\ h \in Nat /\ l = size - readable /\ h = Len(t) /\ a = Least(n, l)
    <2>1. size - readable \in Nat /\ Len(t) \in Nat
        BY <1>0
    <2> QED BY <2>1, Lesser
<1>2. PICK m \in Nat : m = Least(h, n) /\ m <= h
    BY <1>1, Lesser
<1>3. PICK k \in Nat : k = Least(h, a) /\ k <= h /\ k <= a
    BY <1>1, Lesser
<1>4. k = Least(m, l) /\ k <= m /\ k <= l
    BY <1>1, <1>2, <1>3 DEF Least
<1>5. PICK u, s : u = SubSeq(t, 1, k) /\ s = SubSeq(t, 1, m)
    OBVIOUS
<1>6. /\ u \in Seq(Byte) /\ Len(u) = k /\ s \in Seq(Byte) /\ Len(s) = m
      /\ SubSeq(s, 1, k) = u
    <2>1. k \in 0 .. h /\ m \in 0 .. h /\ k \in 0 .. m
        BY <1>2, <1>3, <1>4
    <2>2. u \in Seq(Byte) /\ Len(u) = k /\ \A i \in 1 .. k : u[i] = t[i]
        BY <1>1, <1>5, <2>1, FirstOf
    <2>3. s \in Seq(Byte) /\ Len(s) = m /\ \A i \in 1 .. m : s[i] = t[i]
        BY <1>1, <1>5, <2>1, FirstOf
    <2>4. SubSeq(s, 1, k) = SubSeq(t, 1, k)
        <3>1. m <= Len(t)
            BY <1>1, <1>2
        <3> QED BY <1>4, <1>5, <3>1, FirstOfFirst
    <2> QED BY <1>5, <2>2, <2>3, <2>4
<1>7. Length(write_array(a, 0)) = a
    <2>0. Len(<<>>) = 0 /\ <<>> \in Seq(Byte)
        OBVIOUS
    <2>1. Length(write_array(a, 0)) \in 0 .. a
        <3>1. a \in 0 .. size - readable
            BY <1>1, Lesser
        <3> QED BY <3>1, WriteArrayLen DEF RingSound
    <2>2. Len(<<>>) <= Length(write_array(a, 0))
        BY <2>0, <2>1
    <2>3. Length(write_array(a, 0)) = IF 0 >= writable_len THEN 0
                                      ELSE IF a > writable_len THEN writable_len - 0 ELSE a
        BY <2>0, <2>2, 0 \in Nat, WriteArrayPut
    <2>4. a <= writable_len /\ writable_len \in Nat
        BY <1>0, <1>1, Lesser
    <2>5. PICK y \in Nat : y = writable_len
        BY <2>4
    <2> QED BY <2>3, <2>4, <2>5
<1>8. /\ buffer' = Scatter(write_array(a, 0), u) /\ WriteAdvance(k)
      /\ Did("write", m, s) /\ UNCHANGED size
    BY <1>0, <1>1, <1>2, <1>3, <1>5, <1>7 DEF WriteFrom
<1>9. PICK w : w = write
    OBVIOUS
<1>10. Put(buffer, size, buffer', w, u)
    <2>1. /\ Put(buffer, size, Scatter(write_array(a, 0), u), write + 0, u)
             \/ /\ write + 0 >= size
                /\ Put(buffer, size, Scatter(write_array(a, 0), u), write + 0 - size, u)
        BY <1>3, <1>6, <1>7, 0 \in Nat, WriteArrayPut
    <2>2. write + 0 = w /\ (write + 0 >= size => write + 0 - size = w)
        BY <1>0, <1>9
    <2> QED BY <1>8, <2>1, <2>2
<1>11. Tape!Push(u) /\ buffer' \in Memory(size')
    <2>1. Len(u) <= size - readable /\ WriteAdvance(Len(u)) /\ UNCHANGED size
        BY <1>1, <1>4, <1>6, <1>8
    <2> QED BY <1>6, <1>9, <1>10, <2>1, PushStep
<1>12. Tape!Op("write", Len(s)) /\ Tape!Gives(s) /\ done'.bytes = s
    BY <1>6, <1>8, DoneSays
<1>13. Tape!AtMost(s, Len(Spare)) = u
    BY <1>1, <1>4, <1>6, FirstChunk
<1>14. Tape!Write(s)
    BY <1>11, <1>12, <1>13, Zenon DEF Tape!Write, Spare
<1> QED BY <1>1, <1>2, <1>5, <1>11, <1>12, <1>14

\* change_written
LEMMA ChangeWrittenTape ==
    ASSUME RingSound, NEW t \in Seq(Byte), NEW o \in Nat, ChangeWritten(o, t)
    PROVE  Tape!Change(o, t) /\ buffer' \in Memory(size') /\ done'.bytes = t /\ done'.n = o
<1>0. /\ size \in Nat /\ readable \in Nat /\ readable <= size /\ read \in Nat /\ (read < size \/ read = 0)
      /\ buffer \in Memory(size)
      /\ Queue \in Seq(Byte) /\ Len(Queue) = readable
    BY TapeIsRing, Pointers DEF Inside
<1>1. Did("change", o, t) /\ UNCHANGED <<size, read, write, readable>>
    BY DEF ChangeWritten
<1>2. Tape!Op("change", o) /\ Tape!Gives(t) /\ done'.bytes = t /\ done'.n = o
    BY <1>1, DoneSays
<1>3. SUFFICES Queue' = Covered(Queue, o, t) /\ Spare' = Spare /\ buffer' \in Memory(size')
    <2>1. Covered(Queue, o, t) = Tape!Over(Queue, o, t)
        BY Zenon DEF Covered, Tape!Over
    <2> QED BY <1>2, <2>1, Zenon DEF Tape!Change, Queue, Spare
<1>4. CASE o > readable
    <2>1. UNCHANGED <<buffer, size, read, readable>>
        BY <1>1, <1>4 DEF ChangeWritten, readable_len
    <2>2. Covered(Queue, o, t) = Queue
        BY <1>0, <1>4, OverEnd
    <2> QED BY <1>0, <2>1, <2>2, TapeRests
<1>5. CASE ~(o > readable)
    <2>1. PICK h, d \in Nat : h \in Nat /\ h = Len(t) /\ d = readable - o
        BY <1>0, <1>5
    <2>2. PICK n \in Nat : n = Least(h, d) /\ n <= h /\ n <= d /\ (n = h \/ n = d)
        BY <2>1, Lesser
    <2>3. PICK u : u = SubSeq(t, 1, n)
        OBVIOUS
    <2>4. u \in Seq(Byte) /\ Len(u) = n
        <3>1. n \in 0 .. h
            BY <2>1, <2>2
        <3> QED BY <2>1, <2>3, <3>1, FirstOf
    <2>5. PICK w : w = Wrapped(read + o, size)
        OBVIOUS
    <2>6. Inside(w) /\ w \in Nat /\ (w = read + o \/ w + size = read + o)
        BY <1>0, <1>5, <2>5 DEF Inside, Wrapped
    <2>7. buffer' = TwoIn(w, u)
        BY <1>5, <2>1, <2>2, <2>3, <2>5 DEF ChangeWritten, readable_len
    <2>8. Put(buffer, size, buffer', w, u)
        <3>1. Len(u) <= size
            BY <1>0, <2>1, <2>2, <2>4
        <3> QED BY <2>4, <2>6, <2>7, <3>1, TwoInPut
    <2>9. Queue' = Covered(Queue, o, u) /\ Spare' = Spare /\ buffer' \in Memory(size')
        <3>1. o + Len(u) <= readable
            BY <1>0, <2>1, <2>2, <2>4
        <3> QED BY <1>1, <2>4, <2>6, <2>8, <3>1, ChangeStep
    <2>10. Covered(Queue, o, u) = Covered(Queue, o, t)
        <3>1. n <= Len(t) /\ (n = Len(t) \/ o + n >= Len(Queue))
            BY <1>0, <2>1, <2>2
        <3> QED BY <1>0, <2>3, <3>1, OverCut
    <2> QED BY <2>9, <2>10
<1> QED BY <1>4, <1>5

\* What a write ahead of the bytes u, the first ones of t that have room, does.
LEMMA AheadTape ==
    ASSUME RingSound, NEW o \in Nat, NEW t \in Seq(Byte), NEW n \in Nat, n <= Len(t),
           n = Len(t) \/ o + n >= size - readable, UNCHANGED <<size, read, write, readable>>,
           Did("ahead", o, t),
           \/ o >= size - readable /\ buffer' = buffer
           \/ /\ o < size - readable /\ o + n <= size - readable
              /\ \E w \in Nat : /\ w <= size /\ (w = write + o \/ w + size = write + o)
                              /\ Put(buffer, size, buffer', w, SubSeq(t, 1, n))
    PROVE  Tape!Ahead(o, t) /\ buffer' \in Memory(size') /\ done'.bytes = t /\ done'.n = o
<1>0. /\ size \in Nat /\ readable \in Nat /\ readable <= size /\ buffer \in Memory(size)
      /\ Spare \in Seq(Byte) /\ Len(Spare) = size - readable
    BY TapeIsRing, Pointers
<1>1. Tape!Op("ahead", o) /\ Tape!Gives(t) /\ done'.bytes = t /\ done'.n = o
    BY DoneSays
<1>2. SUFFICES Spare' = Covered(Spare, o, t) /\ Queue' = Queue /\ buffer' \in Memory(size')
    <2>1. Covered(Spare, o, t) = Tape!Over(Spare, o, t)
        BY Zenon DEF Covered, Tape!Over
    <2> QED BY <1>1, <2>1, Zenon DEF Tape!Ahead, Queue, Spare
<1>3. CASE o >= size - readable /\ buffer' = buffer
    <2>1. Covered(Spare, o, t) = Spare
        BY <1>0, <1>3, OverEnd
    <2> QED BY <1>0, <1>3, <2>1, TapeRests
<1>4. ASSUME o < size - readable, o + n <= size - readable,
             NEW w \in Nat, w <= size, w = write + o \/ w + size = write + o,
             Put(buffer, size, buffer', w, SubSeq(t, 1, n))
      PROVE  Spare' = Covered(Spare, o, t) /\ Queue' = Queue /\ buffer' \in Memory(size')
    <2>1. PICK u, h : u = SubSeq(t, 1, n) /\ h = Len(t)
        OBVIOUS
    <2>2. u \in Seq(Byte) /\ Len(u) = n
        <3>1. h \in Nat /\ n \in 0 .. h
            BY <2>1
        <3> QED BY <2>1, <3>1, FirstOf
    <2>3. o + Len(u) <= size - readable /\ Put(buffer, size, buffer', w, u)
        BY <1>4, <2>1, <2>2
    <2>4. Spare' = Covered(Spare, o, u) /\ Queue' = Queue /\ buffer' \in Memory(size')
        BY <1>4, <2>2, <2>3, AheadStep
    <2>5. Covered(Spare, o, u) = Covered(Spare, o, t)
        <3>1. n = Len(t) \/ o + n >= Len(Spare)
            BY <1>0
        <3> QED BY <1>0, <2>1, <3>1, OverCut
    <2> QED BY <2>4, <2>5
<1> QED BY <1>3, <1>4

\* try_write
LEMMA TryWriteTape ==
    ASSUME RingSound, NEW t \in Seq(Byte), NEW o \in Nat, TryWrite(t, o)
    PROVE  Tape!Ahead(o, t) /\ buffer' \in Memory(size') /\ done'.bytes = t /\ done'.n = o
<1>0. /\ size \in Nat /\ readable \in Nat /\ readable <= size /\ buffer \in Memory(size)
      /\ write \in Nat /\ write <= size /\ writable_len = size - readable
    BY Pointers DEF Inside, writable_len
<1>1. Did("ahead", o, t) /\ UNCHANGED <<size, read, write, readable>>
    BY DEF TryWrite
<1>2. CASE o >= size - readable
    <2>1. buffer' = buffer
        BY <1>0, <1>2 DEF TryWrite
    <2>2. Len(t) \in Nat /\ Len(t) <= Len(t)
        OBVIOUS
    <2> QED BY <1>1, <1>2, <2>1, <2>2, AheadTape
<1>3. CASE ~(o >= size - readable)
    <2>1. PICK h, d \in Nat : h \in Nat /\ h = Len(t) /\ d = size - readable - o
        BY <1>0, <1>3
    <2>2. PICK n \in Nat : n = Least(h, d) /\ n <= h /\ n <= d /\ (n = h \/ n = d)
        BY <2>1, Lesser
    <2>3. PICK c \in Nat : c = continuously_writable
        BY FirstSegments
    <2>4. write + c <= size /\ (c < size - readable => write + c = size)
        BY <1>0, <2>3, FirstSegments
    <2>5. PICK u : u = SubSeq(t, 1, n)
        OBVIOUS
    <2>6. u \in Seq(Byte) /\ Len(u) = n /\ \A i \in 1 .. n : u[i] = t[i]
        <3>1. n \in 0 .. h
            BY <2>1, <2>2
        <3> QED BY <2>1, <2>5, <3>1, FirstOf
    <2>7. CASE o >= c
        <3>1. PICK w \in Nat : w = o - c
            BY <2>3, <2>7
        <3>2. w + size = write + o /\ w + n <= size /\ w <= size
            BY <1>0, <1>3, <2>1, <2>2, <2>3, <2>4, <2>7, <3>1
        <3>3. buffer' = CopyIn(buffer, w, u)
            BY <1>0, <1>3, <2>1, <2>2, <2>3, <2>5, <2>7, <3>1 DEF TryWrite
        <3>4. Put(buffer, size, buffer', w, u)
            BY <1>0, <2>6, <3>2, <3>3, CopyPut
        <3> QED BY <1>0, <1>1, <1>3, <2>1, <2>2, <2>5, <3>2, <3>4, AheadTape
    <2>8. CASE ~(o >= c)
        <3>1. PICK e \in Nat : e = size - write - o
            BY <1>0, <2>3, <2>4, <2>8
        <3>2. PICK k \in Nat : k = Least(e, n) /\ k <= e /\ k <= n /\ (k = e \/ k = n)
            BY <3>1, Lesser
        <3>3. PICK w \in Nat : w = write + o
            BY <1>0
        <3>4. w + k <= size /\ w <= size /\ (k < n => w + k = size)
            BY <1>0, <3>1, <3>2, <3>3
        <3>5. buffer' = CopyIn(CopyIn(buffer, w, SubSeq(t, 1, k)), 0, SubSeq(t, k + 1, n))
            BY <1>0, <1>3, <2>1, <2>2, <2>3, <2>8, <3>1, <3>2, <3>3 DEF TryWrite
        <3>6. SubSeq(u, 1, k) = SubSeq(t, 1, k)
            <4>1. n <= Len(t)
                BY <2>1, <2>2
            <4> QED BY <2>5, <3>2, <4>1, FirstOfFirst
        <3>7. SubSeq(u, k + 1, n) = SubSeq(t, k + 1, n)
            <4>1. n <= Len(t)
                BY <2>1, <2>2
            <4>2. PICK j : j = k + 1
                OBVIOUS
            <4>3. SubSeq(u, j, n) = SubSeq(t, j, n)
                BY <2>5, <3>2, <4>1, <4>2, RestOfFirst
            <4> QED BY <4>2, <4>3
        <3>8. Put(buffer, size, buffer', w, u)
            <4>1. Len(u) <= size /\ k \in 0 .. Len(u) /\ w + k <= size /\ w <= size
                BY <1>0, <2>1, <2>2, <2>6, <3>2, <3>4
            <4>2. k < Len(u) => w + k = size /\ 0 = 0
                BY <2>6, <3>4
            <4>3. Put(buffer, size,
                      CopyIn(CopyIn(buffer, w, SubSeq(u, 1, k)), 0, SubSeq(u, k + 1, Len(u))), w, u)
                BY <1>0, <2>6, <4>1, <4>2, 0 \in Nat, PiecesPut
            <4> QED BY <2>6, <3>5, <3>6, <3>7, <4>3
        <3> QED BY <1>0, <1>1, <1>3, <2>1, <2>2, <2>5, <3>3, <3>4, <3>8, AheadTape
    <2> QED BY <2>7, <2>8
<1> QED BY <1>2, <1>3

\* readv into write_array
LEMMA FillAheadTape ==
    ASSUME RingSound, NEW t \in Seq(Byte), NEW n \in Nat, NEW o \in Nat, FillAhead(t, n, o)
    PROVE  Tape!Ahead(o, t) /\ buffer' \in Memory(size') /\ done'.bytes = t /\ done'.n = o
<1>0. /\ size \in Nat /\ readable \in Nat /\ readable <= size /\ buffer \in Memory(size)
      /\ write \in Nat /\ (write < size \/ write = 0) /\ writable_len = size - readable
    BY Pointers DEF Inside, writable_len
<1>1. /\ o = 0 \/ n + o <= writable_len
      /\ Len(t) <= n
      /\ Did("ahead", o, t) /\ UNCHANGED <<size, read, write, readable>>
    BY DEF FillAhead
<1>2. PICK h, d \in Nat : h \in Nat /\ h = Len(t) /\ d = writable_len
    BY <1>0
<1>3. PICK l \in Nat : l = Length(write_array(n, o)) /\ l = IF o >= d THEN 0 ELSE IF n > d THEN d - o ELSE n
    <2>1. Len(<<>>) = 0 /\ <<>> \in Seq(Byte)
        OBVIOUS
    <2>2. 0 <= Length(write_array(n, o))
        <3>1. CASE o >= d
            BY <1>2, <3>1 DEF write_array, Nothing, Length
        <3>2. CASE ~(o >= d)
            <4>1. PICK c \in Nat : c = continuously_writable
                BY FirstSegments
            <4>2. PICK m : m = IF n > d THEN d - o ELSE n
                OBVIOUS
            <4>m. m \in Nat /\ m + o \in Nat
                BY <3>2, <4>2
            <4>3. PICK k : k = Least(c, m + o)
                OBVIOUS
            <4>k. k \in Nat /\ k <= m + o
                BY <4>m, <4>3, Lesser
            <4>4. write_array(n, o) = Skip(<<<<write, k>>, <<0, m + o - k>>>>, o)
                BY <1>2, <3>2, <4>1, <4>2, <4>3 DEF write_array, Segments
            <4>5. Length(write_array(n, o)) = m
                BY <4>m, <4>k, <4>4 DEF Skip, Length
            <4> QED BY <4>m, <4>5
        <3> QED BY <3>1, <3>2
    <2>3. Len(<<>>) <= Length(write_array(n, o))
        BY <2>1, <2>2
    <2>4. Length(write_array(n, o)) = IF o >= writable_len THEN 0
                                      ELSE IF n > writable_len THEN writable_len - o ELSE n
        BY <1>1, <2>1, <2>3, WriteArrayPut
    <2>5. (IF o >= d THEN 0 ELSE IF n > d THEN d - o ELSE n) \in Nat
        OBVIOUS
    <2>6. PICK l : l = Length(write_array(n, o))
        OBVIOUS
    <2>7. l \in Nat /\ l = IF o >= d THEN 0 ELSE IF n > d THEN d - o ELSE n
        BY <1>2, <2>4, <2>5, <2>6
    <2> QED BY <2>6, <2>7
<1>4. PICK k \in Nat : k = Least(h, l) /\ k <= h /\ k <= l /\ (k = h \/ k = l)
    <2> HIDE <1>3
    <2>1. Least(h, l) \in Nat /\ Least(h, l) <= h /\ Least(h, l) <= l /\ (Least(h, l) = h \/ Least(h, l) = l)
        BY Lesser
    <2> QED BY <2>1
<1>5. PICK u : u = SubSeq(t, 1, k)
    OBVIOUS
<1>6. u \in Seq(Byte) /\ Len(u) = k
    <2>1. k \in 0 .. h
        BY <1>4
    <2> QED BY <1>2, <1>5, <2>1, FirstOf
<1>7. buffer' = Scatter(write_array(n, o), u)
    BY <1>2, <1>3, <1>4, <1>5 DEF FillAhead
<1>8. /\ o >= writable_len => Scatter(write_array(n, o), u) = buffer
      /\ \/ Put(buffer, size, Scatter(write_array(n, o), u), write + o, u)
         \/ /\ write + o >= size
            /\ Put(buffer, size, Scatter(write_array(n, o), u), write + o - size, u)
    BY <1>1, <1>3, <1>4, <1>6, WriteArrayPut
<1>9. k <= Len(t) /\ (k = Len(t) \/ o + k >= size - readable)
    BY <1>0, <1>1, <1>2, <1>3, <1>4
<1>10. CASE o >= size - readable
    <2>1. buffer' = buffer
        BY <1>0, <1>7, <1>8, <1>10
    <2> QED BY <1>1, <1>9, <1>10, <2>1, AheadTape
<1>11. CASE ~(o >= size - readable)
    <2>1. o < size - readable /\ o + k <= size - readable
        BY <1>0, <1>1, <1>2, <1>3, <1>4, <1>11
    <2>2. CASE Put(buffer, size, buffer', write + o, u) /\ write + o <= size
        <3>1. PICK w \in Nat : w = write + o
            BY <1>0
        <3>2. w <= size /\ Put(buffer, size, buffer', w, SubSeq(t, 1, k))
            BY <1>5, <2>2, <3>1
        <3> QED BY <1>1, <1>9, <2>1, <3>1, <3>2, AheadTape
    <2>3. CASE write + o >= size /\ Put(buffer, size, buffer', write + o - size, u)
        <3>1. PICK w \in Nat : w = write + o - size
            BY <1>0, <2>3
        <3>2. w + size = write + o /\ w <= size /\ Put(buffer, size, buffer', w, SubSeq(t, 1, k))
            BY <1>0, <1>5, <2>1, <2>3, <3>1
        <3> QED BY <1>1, <1>9, <2>1, <3>2, AheadTape
    <2>4. CASE Put(buffer, size, buffer', write + o, u) /\ write + o > size
        \* The same place, one turn back.
        <3>1. PICK w, x \in Nat : w \in Nat /\ x = write + o /\ w = write + o - size
            BY <1>0, <2>4
        <3>2. w + size = write + o /\ w <= size /\ x = w + size
            BY <1>0, <2>1, <3>1
        <3>3. \A i \in 1 .. size : Spot(size, x, i) = Spot(size, w, i)
            BY <1>0, <3>2, SpotFacts
        <3>4. Put(buffer, size, buffer', x, u)
            BY <2>4, <3>1
        <3>5. Put(buffer, size, buffer', w, SubSeq(t, 1, k))
            BY <1>5, <3>3, <3>4 DEF Put
        <3> QED BY <1>1, <1>9, <2>1, <3>2, <3>5, AheadTape
    <2> QED BY <1>0, <1>7, <1>8, <2>2, <2>3, <2>4
<1> QED BY <1>10, <1>11

\* read_advance
LEMMA AdvanceTape ==
    ASSUME RingSound, NEW n \in Nat, Advance(n)
    PROVE  Tape!ReadAdvance(n) /\ done'.n = n
<1>1. n <= readable /\ ReadAdvance(n) /\ Did("read_advance", n, <<>>) /\ UNCHANGED <<buffer, size>>
    BY DEF Advance, readable_len
<1>2. Tape!Pop(n) /\ Tape!Op("read_advance", n) /\ done'.n = n
    BY <1>1, PopStep, DoneSays
<1>3. n <= Len(Queue)
    BY <1>1, TapeIsRing
<1> QED BY <1>2, <1>3, Zenon DEF Tape!ReadAdvance, Queue

\* read_back
LEMMA ReadBackTape ==
    ASSUME RingSound, NEW n \in Nat, ReadBack(n)
    PROVE  Tape!ReadBack(n) /\ done'.n = n
<1>1. PICK z, b, p, r : z = size /\ b = buffer /\ p = read /\ r = readable
    OBVIOUS
<1>2. z \in Nat /\ b \in Memory(z) /\ p \in Nat /\ (p < z \/ p = 0) /\ r \in 0 .. z /\ n \in 0 .. z - r
    BY <1>1, Pointers DEF Inside, ReadBack, writable_len
<1>3. PICK q : q = read'
    OBVIOUS
<1>4. q \in Nat /\ (q + n = p \/ q + n = p + z)
    BY <1>1, <1>2, <1>3 DEF ReadBack, Unwrapped
<1>5. buffer' = b /\ size' = z /\ readable' = r + n
    BY <1>1 DEF ReadBack
<1>6. /\ Queue' = Ring(b, z, q, r + n)
      /\ Spare' = Ring(b, z, q + (r + n), z - (r + n))
    BY <1>3, <1>5, NextTape
<1>7. Queue = Ring(b, z, p, r) /\ Spare = Ring(b, z, p + r, z - r) /\ Len(Spare) = z - r
    BY <1>1, TapeIsRing
<1>8. Unpopped(b, z, p, r, n, q)
    BY <1>2, <1>4, RingUnpop
<1>9. /\ Queue' = SubSeq(Spare, Len(Spare) - n + 1, Len(Spare)) \o Queue
      /\ Spare' = SubSeq(Spare, 1, Len(Spare) - n)
    BY <1>6, <1>7, <1>8, Zenon DEF Unpopped
<1>10. n <= Len(Spare)
    BY <1>2, <1>7
<1>11. Tape!Op("read_back", n) /\ done'.n = n
    BY DoneSays DEF ReadBack
<1> QED BY <1>9, <1>10, <1>11, Zenon DEF Tape!ReadBack, Tape!First, Tape!Rest, Queue, Spare

\* write_back
LEMMA WriteBackTape ==
    ASSUME RingSound, NEW n \in Nat, WriteBack(n)
    PROVE  Tape!WriteBack(n) /\ done'.n = n
<1>1. PICK z, b, p, r : z = size /\ b = buffer /\ p = read /\ r = readable
    OBVIOUS
<1>2. z \in Nat /\ b \in Memory(z) /\ p \in Nat /\ r \in 0 .. z /\ n \in 0 .. r
    BY <1>1, Pointers DEF Inside, WriteBack, readable_len
<1>3. buffer' = b /\ size' = z /\ read' = p /\ readable' = r - n
    BY <1>1 DEF WriteBack
<1>4. /\ Queue' = Ring(b, z, p, r - n)
      /\ Spare' = Ring(b, z, p + (r - n), z - (r - n))
    BY <1>3, NextTape
<1>5. Queue = Ring(b, z, p, r) /\ Spare = Ring(b, z, p + r, z - r) /\ Len(Queue) = r
    BY <1>1, TapeIsRing
<1>6. Unpushed(b, z, p, r, n)
    BY <1>2, RingUnpush
<1>7. /\ Queue' = SubSeq(Queue, 1, Len(Queue) - n)
      /\ Spare' = SubSeq(Queue, Len(Queue) - n + 1, Len(Queue)) \o Spare
    BY <1>4, <1>5, <1>6, Zenon DEF Unpushed
<1>8. n <= Len(Queue)
    BY <1>2, <1>5
<1>9. Tape!Op("write_back", n) /\ done'.n = n
    BY DoneSays DEF WriteBack
<1> QED BY <1>7, <1>8, <1>9, Zenon DEF Tape!WriteBack, Tape!First, Tape!Rest, Queue, Spare

\* write_advance: the bytes are there already.
LEMMA PublishTape ==
    ASSUME RingSound, NEW n \in Nat, Publish(n)
    PROVE  Tape!WriteAdvance(n) /\ done'.n = n
<1>0. /\ size \in Nat /\ buffer \in Memory(size) /\ readable \in Nat /\ readable <= size /\ read \in Nat
      /\ write \in Nat /\ (write = read + readable \/ write + size = read + readable)
      /\ Spare = Ring(buffer, size, read + readable, size - readable) /\ Len(Spare) = size - readable
    BY TapeIsRing, Pointers DEF Inside
<1>1. n <= size - readable /\ WriteAdvance(n) /\ Did("write_advance", n, <<>>) /\ UNCHANGED <<buffer, size>>
    BY DEF Publish, writable_len
<1>2. PICK s, l, w \in Nat : s \in Nat /\ l \in Nat /\ s = read + readable /\ l = size - readable /\ w = write
    BY <1>0
<1>3. PICK t : t = Ring(buffer, size, s, n)
    OBVIOUS
<1>4. SubSeq(Spare, 1, n) = t
    <2>1. l \in 0 .. size /\ n \in 0 .. l /\ Spare = Ring(buffer, size, s, l)
        BY <1>0, <1>1, <1>2
    <2> QED BY <1>0, <1>3, <2>1, RingFirst
<1>5. t \in Seq(Byte) /\ Len(t) = n /\ \A i \in 1 .. n : t[i] = buffer[Spot(size, s, i)]
    <2>1. n \in 0 .. size
        BY <1>0, <1>1
    <2> QED BY <1>0, <1>3, <2>1, RingSeq
<1>6. Put(buffer, size, buffer', w, t)
    <2>1. \A i \in 1 .. size : Spot(size, w, i) = Spot(size, s, i)
        <3>1. w = s \/ w + size = s
            BY <1>0, <1>2
        <3>2. \A i \in 1 .. size : Spot(size, w + size, i) = Spot(size, w, i)
            BY <1>0, SpotFacts
        <3> QED BY <3>1, <3>2
    <2>2. \A i \in 1 .. size : buffer[Spot(size, w, i)] = IF i <= n THEN t[i] ELSE buffer[Spot(size, w, i)]
        BY <1>5, <2>1
    <2> QED BY <1>0, <1>1, <1>5, <2>2 DEF Put
<1>7. Tape!Push(t)
    <2>1. Len(t) <= size - readable /\ WriteAdvance(Len(t)) /\ UNCHANGED size /\ w = write
        BY <1>1, <1>2, <1>5
    <2> QED BY <1>5, <1>6, <2>1, PushStep
<1>8. Tape!Op("write_advance", n) /\ done'.n = n
    BY <1>1, DoneSays
<1>9. n <= Len(Spare) /\ t = Tape!First(Spare, n)
    BY <1>0, <1>1, <1>4 DEF Tape!First
<1> QED BY <1>7, <1>8, <1>9, Zenon DEF Tape!WriteAdvance, Spare

\* resize
LEMMA ResizeTape ==
    ASSUME RingSound, NEW n \in Nat, Resize(n)
    PROVE  Tape!Resize(n) /\ buffer' \in Memory(size') /\ done'.n = n
<1>0. /\ size \in Nat /\ buffer \in Memory(size) /\ readable \in Nat /\ readable <= size
      /\ Queue = Ring(buffer, size, read, readable) /\ Len(Queue) = readable /\ Queue \in Seq(Byte)
      /\ Inside(read)
    BY TapeIsRing, Pointers
<1>1. /\ readable <= n /\ read' = 0 /\ size' = n /\ readable' = readable
      /\ Did("resize", n, <<>>)
    BY DEF Resize, readable_len
<1>2. PICK junk \in Memory(n) : buffer' = CopyIn(junk, 0, TwoOut(read, readable))
    BY DEF Resize, Memory
<1>3. PICK t, r, c : t = Queue /\ r = readable /\ c = buffer'
    OBVIOUS
<1>4. c = CopyIn(junk, 0, t)
    <2>1. readable \in 0 .. size
        BY <1>0
    <2>2. TwoOut(read, readable) = Ring(buffer, size, read, readable)
        BY <1>0, <2>1, TwoOutRing
    <2> QED BY <1>0, <1>2, <1>3, <2>2
<1>5. Put(junk, n, c, 0, t)
    <2>1. t \in Seq(Byte) /\ 0 + Len(t) <= n /\ 0 \in Nat
        BY <1>0, <1>1, <1>3
    <2> QED BY <1>4, <2>1, CopyPut
<1>6. c \in Memory(n) /\ \A i \in 1 .. r : c[Spot(n, 0, i)] = t[i]
    <2>1. Len(t) = r /\ r \in Nat /\ r <= n
        BY <1>0, <1>1, <1>3
    <2> QED BY <1>5, <2>1 DEF Put
<1>7. Ring(c, n, 0, r) = t
    <2>1. r \in 0 .. n /\ 0 \in Nat
        BY <1>0, <1>1, <1>3
    <2>2. PICK s : s = Ring(c, n, 0, r)
        OBVIOUS
    <2>3. s \in Seq(Byte) /\ Len(s) = r /\ \A i \in 1 .. r : s[i] = c[Spot(n, 0, i)]
        BY <1>6, <2>1, <2>2, RingSeq
    <2>4. t \in Seq(Byte) /\ Len(t) = r /\ \A i \in 1 .. r : s[i] = t[i]
        BY <1>0, <1>3, <1>6, <2>3
    <2> QED BY <2>2, <2>3, <2>4, SeqEqual
<1>8. Queue' = Queue
    BY <1>1, <1>3, <1>7, NextTape
<1>9. Spare' \in [1 .. n - Len(Queue) -> Byte]
    <2>1. PICK x, m \in Nat : x \in Nat /\ x = 0 + r /\ m = n - r
        BY <1>0, <1>1, <1>3
    <2>2. Spare' = Ring(c, n, x, m)
        BY <1>1, <1>3, <2>1, NextTape
    <2>3. m \in 0 .. n /\ m = n - Len(Queue)
        BY <1>0, <1>1, <1>3, <2>1
    <2>4. Ring(c, n, x, m) \in Seq(Byte) /\ Len(Ring(c, n, x, m)) = m
        BY <1>6, <2>1, <2>3, RingSeq
    <2>5. \A s \in Seq(Byte) : Len(s) = m => s \in [1 .. m -> Byte]
        OBVIOUS
    <2> QED BY <2>2, <2>3, <2>4, <2>5
<1>10. Tape!Op("resize", n) /\ done'.n = n
    BY <1>1, DoneSays
<1>11. buffer' \in Memory(size')
    BY <1>1, <1>3, <1>6
<1> QED BY <1>8, <1>9, <1>10, <1>11, Zenon DEF Tape!Resize, Queue, Spare

\* A chunk that a caller passes is a sequence of bytes.
LEMMA ChunkSeq ==
    ASSUME NEW t \in Data
    PROVE  t \in Seq(Byte)
<1>1. PICK m \in 0 .. MaxSize : t \in [1 .. m -> Byte]
    BY DEF Data
<1>2. m \in Nat
    BY <1>1, RingAssumption
<1> QED BY <1>1, <1>2

\* Every operation is an operation of the tape, and leaves bytes in the memory.
LEMMA RingTape ==
    ASSUME RingSound, [RingNext]_ringVars
    PROVE  [Tape!Next]_(Tape!vars) /\ buffer' \in Memory(size')
<1> DEFINE Goal == Tape!Next /\ buffer' \in Memory(size')
<1>0. buffer \in Memory(size) /\ MaxSize \in Nat
    BY Pointers, RingAssumption
<1>s. UNCHANGED <<buffer, size>> => buffer' \in Memory(size')
    BY <1>0
<1>1. ASSUME NEW n \in Nat, Read(n) PROVE Goal
    <2>1. UNCHANGED <<buffer, size>> /\ done'.n = n
        BY <1>1, DoneSays DEF Read, ReadOut
    <2> QED BY <1>1, <1>s, <2>1, ReadTape, Zenon DEF Tape!Next
<1>2. ASSUME NEW n \in Nat, FixRead(n) PROVE Goal
    <2>1. UNCHANGED <<buffer, size>> /\ done'.n = n
        BY <1>2, DoneSays DEF FixRead, ReadOut
    <2> QED BY <1>2, <1>s, <2>1, FixReadTape, Zenon DEF Tape!Next
<1>3. ASSUME NEW n \in Nat, Advance(n) PROVE Goal
    <2>1. UNCHANGED <<buffer, size>>
        BY <1>3 DEF Advance
    <2> QED BY <1>3, <1>s, <2>1, AdvanceTape, Zenon DEF Tape!Next
<1>4. ASSUME NEW n \in Nat, ReadBack(n) PROVE Goal
    <2>1. UNCHANGED <<buffer, size>>
        BY <1>4 DEF ReadBack
    <2> QED BY <1>4, <1>s, <2>1, ReadBackTape, Zenon DEF Tape!Next
<1>5. ASSUME NEW n \in Nat, Publish(n) PROVE Goal
    <2>1. UNCHANGED <<buffer, size>>
        BY <1>5 DEF Publish
    <2> QED BY <1>5, <1>s, <2>1, PublishTape, Zenon DEF Tape!Next
<1>6. ASSUME NEW n \in Nat, WriteBack(n) PROVE Goal
    <2>1. UNCHANGED <<buffer, size>>
        BY <1>6 DEF WriteBack
    <2> QED BY <1>6, <1>s, <2>1, WriteBackTape, Zenon DEF Tape!Next
<1>7. ASSUME NEW n \in Nat, NEW k \in Nat, ReadTo(n, k) PROVE Goal
    <2>1. UNCHANGED <<buffer, size>> /\ done'.n = Least(n, k)
        BY <1>7, DoneSays DEF ReadTo
    <2> QED BY <1>7, <1>s, <2>1, ReadToTape, Zenon DEF Tape!Next
<1>8. ASSUME NEW n \in 0 .. MaxSize + 1, NEW o \in Nat, TryRead(n, o) \/ SendSegments(n, o) PROVE Goal
    <2>1. UNCHANGED <<buffer, size>> /\ done'.n = o
        BY <1>8, DoneSays DEF TryRead, SendSegments
    <2>2. Tape!Peek(n, o)
        <3>1. n \in Nat
            BY <1>0
        <3> QED BY <1>8, <3>1, TryReadTape, SendSegmentsTape
    <2> QED BY <1>s, <2>1, <2>2, Zenon DEF Tape!Next
<1>9. ASSUME NEW n \in Nat, Resize(n) PROVE Goal
    BY <1>9, ResizeTape, Zenon DEF Tape!Next
<1>10. ASSUME NEW t \in Seq(Byte), Write(t) PROVE Goal
    BY <1>10, WriteTape, Zenon DEF Tape!Next
<1>11. ASSUME NEW t \in Seq(Byte), FixWrite(t) PROVE Goal
    BY <1>11, FixWriteTape, Zenon DEF Tape!Next
<1>12. ASSUME NEW t \in Seq(Byte), NEW n \in Nat, WriteFrom(t, n) PROVE Goal
    BY <1>12, WriteFromTape, Zenon DEF Tape!Next
<1>13. ASSUME NEW t \in Seq(Byte), NEW n \in Nat, TryWrite(t, n) PROVE Goal
    BY <1>13, TryWriteTape, Zenon DEF Tape!Next
<1>14. ASSUME NEW t \in Seq(Byte), NEW n \in Nat, ChangeWritten(n, t) PROVE Goal
    BY <1>14, ChangeWrittenTape, Zenon DEF Tape!Next
<1>15. ASSUME NEW t \in Seq(Byte), NEW n \in Nat, NEW o \in Nat, FillAhead(t, n, o) PROVE Goal
    BY <1>15, FillAheadTape, Zenon DEF Tape!Next
<1>16. ASSUME UNCHANGED ringVars PROVE UNCHANGED Tape!vars /\ buffer' \in Memory(size')
    <2>1. UNCHANGED <<buffer, size, read, readable, done>>
        BY <1>16 DEF ringVars
    <2>2. UNCHANGED <<Queue, Spare, done>>
        BY <2>1, TapeRests
    <2> QED BY <1>s, <2>1, <2>2, Zenon DEF Tape!vars, Queue, Spare
<1> HIDE DEF Goal
<1>17. RingNext => Goal
    <2>1. 0 .. MaxSize \subseteq Nat /\ 0 .. MaxSize + 1 \subseteq Nat /\ Data \subseteq Seq(Byte)
        BY <1>0, ChunkSeq
    <2> QED BY <1>1, <1>2, <1>3, <1>4, <1>5, <1>6, <1>7, <1>8, <1>9, <1>10, <1>11, <1>12, <1>13,
               <1>14, <1>15, <2>1, Zenon DEF RingNext
<1> QED BY <1>16, <1>17 DEF Goal

\* A new buffer is an empty tape.
LEMMA RingStarts ==
    ASSUME RingInit
    PROVE  RingSound /\ Tape!Init
<1>1. size \in Nat /\ size \in 0 .. MaxSize /\ buffer \in Memory(size) /\ read = 0 /\ readable = 0 /\ write = 0
    BY RingAssumption DEF RingInit, Memory
<1>2. RingSound
    BY <1>1 DEF RingSound, PointersAgree
<1>3. Queue = <<>>
    <2>1. Len(Queue) = 0 /\ Queue \in Seq(Byte)
        BY <1>1, <1>2, TapeIsRing
    <2> QED BY <2>1, EmptySeq
<1>4. Spare \in [1 .. size -> Byte]
    <2>1. Spare \in Seq(Byte) /\ Len(Spare) = size
        BY <1>1, <1>2, TapeIsRing
    <2>2. \A s \in Seq(Byte) : Len(s) = size => s \in [1 .. size -> Byte]
        OBVIOUS
    <2> QED BY <2>1, <2>2
<1>5. done.op = "init"
    BY DEF RingInit
<1> QED BY <1>1, <1>2, <1>3, <1>4, <1>5, Zenon DEF Tape!Init, Queue, Spare

\* The invariant is inductive, and a step of the ring is a step of the tape.
LEMMA RingMoves ==
    ASSUME RingSound, [RingNext]_ringVars
    PROVE  RingSound' /\ [Tape!Next]_(Tape!vars)
<1>1. PointersAgree'
    BY RingStep DEF RingSound
<1>2. [Tape!Next]_(Tape!vars) /\ buffer' \in Memory(size')
    BY RingTape
<1> QED BY <1>1, <1>2, Zenon DEF RingSound, Memory

\* Whatever the operations, in any order, at any size and wherever the pointers
\* stand: what the ring does to its readable bytes, and to the writable ones behind
\* them, is what ByteTape says of a queue.
THEOREM RingKeepsTape == RingSpec => KeepsTape
<1>1. RingInit => RingSound /\ Tape!Init
    BY RingStarts
<1>2. RingSound /\ [RingNext]_ringVars => RingSound' /\ [Tape!Next]_(Tape!vars)
    BY RingMoves
<1> QED BY <1>1, <1>2, PTL DEF RingSpec, KeepsTape, Tape!Spec

-----------------------------------------------------------------------------
(* BufferPool: loops *)

\* Every set of numbers has a least one.
LEMMA LeastOfAll ==
    ASSUME NEW T, T \subseteq Nat, T # {}
    PROVE  \E m \in T : \A n \in T : m <= n
<1>1. PICK m \in T : \A n \in T : ~ (<<n, m>> \in OpToRel(<, Nat))
    BY WFMin, NatLessThanWellFounded, Zenon
<1>2. \A n \in T : ~ (n < m)
    BY <1>1, Zenon DEF OpToRel
<1> QED BY <1>2

\* A loop: what holds at its beginning and after each round holds until its end.
LEMMA RoundByRound ==
    ASSUME NEW n \in Nat, NEW T, 0 \in T, \A k \in 0 .. n - 1 : k \in T => k + 1 \in T
    PROVE  \A k \in 0 .. n : k \in T
<1> DEFINE Out == {k \in 0 .. n : k \notin T}
<1>1. SUFFICES ASSUME Out # {} PROVE FALSE
    OBVIOUS
<1>2. PICK m \in Out : \A k \in Out : m <= k
  <2>1. Out \subseteq Nat
    OBVIOUS
  <2> HIDE DEF Out
  <2> QED BY <1>1, <2>1, LeastOfAll, Zenon
<1>3. m # 0 /\ m - 1 \in 0 .. n - 1 /\ m - 1 \notin Out
    BY <1>2
<1> QED BY <1>2, <1>3

\* f[k] is the state of a loop after k of its m rounds.
Loops(f, m, a, round) == f[0] = a /\ \A k \in 1 .. m : f[k] = round[f[k - 1]]

\* A loop that makes rounds of one kind has a state after each of them.
LEMMA RoundsExist ==
    ASSUME NEW n \in Nat, NEW S, NEW a \in S, NEW round \in [S -> S]
    PROVE  \E f \in [0 .. n -> S] : Loops(f, n, a, round)
<1> DEFINE T == {m \in 0 .. n : \E f \in [0 .. m -> S] : Loops(f, m, a, round)}
<1>1. 0 \in T
  <2> DEFINE f == [k \in 0 .. 0 |-> a]
  <2>1. f \in [0 .. 0 -> S] /\ Loops(f, 0, a, round)
    BY DEF Loops
  <2> HIDE DEF f
  <2> QED BY <2>1
<1>2. ASSUME NEW m \in 0 .. n - 1, m \in T PROVE m + 1 \in T
  <2>1. PICK f \in [0 .. m -> S] : Loops(f, m, a, round)
    BY <1>2
  <2> DEFINE g == [k \in 0 .. m + 1 |-> IF k <= m THEN f[k] ELSE round[f[m]]]
  <2>2. g \in [0 .. m + 1 -> S]
    OBVIOUS
  <2>3. ASSUME NEW k \in 1 .. m + 1 PROVE g[k] = round[g[k - 1]]
    <3>1. CASE k <= m
      BY <2>1, <3>1 DEF Loops
    <3>2. CASE k = m + 1
      BY <3>2
    <3> QED BY <3>1, <3>2
  <2>4. g[0] = a
    BY <2>1 DEF Loops
  <2>5. Loops(g, m + 1, a, round)
    BY <2>3, <2>4 DEF Loops
  <2>6. m + 1 \in 0 .. n
    OBVIOUS
  <2> HIDE DEF g
  <2> QED BY <2>2, <2>5, <2>6
<1>3. n \in T
  <2> HIDE DEF T
  <2> QED BY <1>1, <1>2, RoundByRound
<1> QED BY <1>3

-----------------------------------------------------------------------------
(* Powers of two *)

LEMMA DoubledIs ==
    /\ TotalSize \in Nat
    /\ Doubled \in [0 .. TotalSize + 1 -> Nat]
    /\ Doubled[0] = 1
    /\ \A k \in 1 .. TotalSize + 1 : Doubled[k] = 2 * Doubled[k - 1]
<1> DEFINE twice == [x \in Nat |-> 2 * x]
           n == TotalSize + 1
           F(f) == f = [k \in 0 .. n |-> IF k = 0 THEN 1 ELSE 2 * f[k - 1]]
<1>1. TotalSize \in Nat /\ n \in Nat
  BY PoolAssumption
<1>2. twice \in [Nat -> Nat]
  OBVIOUS
<1>3. PICK f \in [0 .. n -> Nat] : f[0] = 1 /\ \A k \in 1 .. n : f[k] = twice[f[k - 1]]
  <2>1. \E f \in [0 .. n -> Nat] : Loops(f, n, 1, twice)
    <3> HIDE DEF twice, n
    <3> QED BY <1>1, <1>2, RoundsExist
  <2> QED BY <2>1 DEF Loops
<1>4. F(f)
  <2>1. ASSUME NEW k \in 0 .. n PROVE f[k] = IF k = 0 THEN 1 ELSE 2 * f[k - 1]
    <3>1. CASE k = 0
      BY <1>3, <3>1
    <3>2. CASE k # 0
      <4>1. k \in 1 .. n /\ k - 1 \in 0 .. n
        BY <1>1, <3>2
      <4>2. f[k - 1] \in Nat /\ f[k] = twice[f[k - 1]]
        BY <4>1, <1>3
      <4> QED BY <4>2, <3>2
    <3> QED BY <3>1, <3>2
  <2> QED BY <2>1, <1>3
<1>5. Doubled = CHOOSE g : F(g)
  BY DEF Doubled
<1>6. F(Doubled)
  <2> HIDE DEF F
  <2> QED BY <1>4, <1>5
<1>7. \A k \in 0 .. n : Doubled[k] = IF k = 0 THEN 1 ELSE 2 * Doubled[k - 1]
  BY <1>6
<1>8. \A k \in 0 .. n : Doubled[k] \in Nat
  <2> DEFINE T == {k \in 0 .. n : Doubled[k] \in Nat}
  <2>1. 0 \in T
    BY <1>1, <1>7
  <2>2. ASSUME NEW k \in 0 .. n - 1, k \in T PROVE k + 1 \in T
    <3>1. k + 1 \in 0 .. n /\ k + 1 # 0 /\ (k + 1) - 1 = k /\ Doubled[k] \in Nat
      BY <1>1, <2>2
    <3>2. Doubled[k + 1] = 2 * Doubled[k]
      BY <1>7, <3>1
    <3> QED BY <3>1, <3>2
  <2>3. \A k \in 0 .. n : k \in T
    <3> HIDE DEF T, n
    <3> QED BY <1>1, <2>1, <2>2, RoundByRound
  <2> QED BY <2>3
<1>9. Doubled \in [0 .. n -> Nat]
  <2> DEFINE b == [k \in 0 .. n |-> IF k = 0 THEN 1 ELSE 2 * Doubled[k - 1]]
  <2>1. Doubled = b
    BY <1>6
  <2>2. \A k \in 0 .. n : b[k] \in Nat
    BY <2>1, <1>8
  <2>3. b \in [0 .. n -> Nat]
    BY <2>2
  <2> QED BY <2>1, <2>3
<1> QED BY <1>1, <1>7, <1>9

\* A larger power is at least twice as large.
LEMMA DoubledGrows ==
    ASSUME NEW j \in 0 .. TotalSize + 1, NEW k \in 0 .. TotalSize + 1, j < k
    PROVE  2 * Doubled[j] <= Doubled[k] /\ Doubled[j] < Doubled[k]
<1> DEFINE n == TotalSize + 1
           T == {i \in Nat : i <= n - j - 1 => 2 * Doubled[j] <= Doubled[j + 1 + i]}
<1>1. n \in Nat /\ j \in Nat /\ k \in Nat /\ \A i \in 0 .. n : Doubled[i] \in Nat
  BY DoubledIs
<1>2. 0 \in T
  BY <1>1, DoubledIs
<1>3. ASSUME NEW i \in 0 .. n - 1, i \in T PROVE i + 1 \in T
  <2>1. i + 1 <= n - j - 1 => Doubled[j + 1 + (i + 1)] = 2 * Doubled[j + 1 + i]
    BY <1>1, DoubledIs
  <2> QED BY <1>1, <1>3, <2>1
<1>4. \A i \in 0 .. n : i \in T
  <2> HIDE DEF T, n
  <2> QED BY <1>1, <1>2, <1>3, RoundByRound
<1>5. 2 * Doubled[j] <= Doubled[k]
  <2>1. k - j - 1 \in 0 .. n /\ j + 1 + (k - j - 1) = k
    BY <1>1
  <2> QED BY <2>1, <1>1, <1>4
<1>6. Doubled[j] > 0
  <2> DEFINE U == {i \in Nat : Doubled[i] > 0}
  <2>1. 0 \in U
    BY DoubledIs
  <2>2. \A i \in 0 .. n - 1 : i \in U => i + 1 \in U
    BY <1>1, DoubledIs
  <2>3. \A i \in 0 .. n : i \in U
    <3> HIDE DEF U, n
    <3> QED BY <1>1, <2>1, <2>2, RoundByRound
  <2> QED BY <2>3
<1> QED BY <1>1, <1>5, <1>6

LEMMA DoubledPositive == \A k \in 0 .. TotalSize + 1 : Doubled[k] \in Nat /\ Doubled[k] > 0
<1>1. ASSUME NEW k \in 0 .. TotalSize + 1, k # 0 PROVE Doubled[k] > 0
  <2>1. 0 \in 0 .. TotalSize + 1 /\ 0 < k
    BY <1>1, DoubledIs
  <2>2. Doubled[0] < Doubled[k]
    BY <2>1, DoubledGrows
  <2> QED BY <2>2, DoubledIs
<1>2. 0 \in 0 .. TotalSize + 1 => Doubled[0] > 0
  BY DoubledIs
<1> QED BY <1>1, <1>2, DoubledIs

LEMMA DoubledAdds ==
    ASSUME NEW j \in Nat, NEW k \in Nat, j + k <= TotalSize + 1
    PROVE  Doubled[j + k] = Doubled[j] * Doubled[k]
<1> DEFINE T == {i \in Nat : i <= k => Doubled[j + i] = Doubled[j] * Doubled[i]}
<1>1. \A i \in 0 .. TotalSize + 1 : Doubled[i] \in Nat
  BY DoubledIs
<1>2. 0 \in T
  BY <1>1, DoubledIs
<1>3. ASSUME NEW i \in 0 .. k - 1, i \in T PROVE i + 1 \in T
  <2>1. Doubled[j + (i + 1)] = 2 * Doubled[j + i] /\ Doubled[i + 1] = 2 * Doubled[i]
    BY DoubledIs
  <2>2. Doubled[j + i] = Doubled[j] * Doubled[i]
    BY <1>3
  <2>3. \A a, b \in Nat : 2 * (a * b) = a * (2 * b)
    OBVIOUS
  <2>4. Doubled[j] \in Nat /\ Doubled[i] \in Nat /\ i + 1 \in Nat
    <3>1. TotalSize \in Nat /\ i \in Nat /\ i + 1 <= k
      BY DoubledIs
    <3>2. j \in 0 .. TotalSize + 1 /\ i \in 0 .. TotalSize + 1
      BY <3>1
    <3> QED BY <1>1, <3>1, <3>2
  <2>5. Doubled[j + (i + 1)] = Doubled[j] * Doubled[i + 1]
    <3> DEFINE a == Doubled[j]
               b == Doubled[i]
    <3>1. Doubled[j + (i + 1)] = 2 * (a * b) /\ Doubled[i + 1] = 2 * b
      BY <2>1, <2>2
    <3>2. 2 * (a * b) = a * (2 * b)
      BY <2>3, <2>4
    <3> QED BY <3>1, <3>2
  <2> QED BY <2>4, <2>5
<1>4. \A i \in 0 .. k : i \in T
  <2> HIDE DEF T
  <2> QED BY <1>2, <1>3, RoundByRound
<1> QED BY <1>4

-----------------------------------------------------------------------------
(* The tree *)

\* The size of the blocks of an entry's row, and where its own begins.
Full(i) == Doubled[Depth - Row(i)]
Start(i) == (i + 1 - Doubled[Row(i)]) * Full(i)
Span(i) == Start(i) .. Start(i) + Full(i) - 1

\* The sizes: the tree manages what the constructor allocates.
LEMMA SizesAgree ==
    /\ Depth \in Nat /\ Depth <= TotalSize
    /\ Size = TotalSize /\ Size = Doubled[Depth] /\ Size > 0
    /\ \A k \in 0 .. Depth : LevelOf(Doubled[Depth - k]) = k
    /\ \A k \in 0 .. Depth : Doubled[k] * Doubled[Depth - k] = Size
<1>1. PICK d \in 0 .. TotalSize : TotalSize = Doubled[d]
  BY PoolAssumption
<1>2. TotalSize \in Nat /\ d \in Nat /\ \A k \in 0 .. TotalSize + 1 : Doubled[k] \in Nat /\ Doubled[k] > 0
  BY DoubledIs, DoubledPositive
<1> DEFINE Fits(s) == s \in Power /\ s >= TotalSize /\ (s \div 2 < TotalSize \/ s = 1)
<1>3. Fits(TotalSize)
  <2>1. TotalSize \in Power
    <3>1. d \in 0 .. TotalSize + 1
      BY <1>2
    <3> QED BY <1>1, <3>1 DEF Power
  <2>2. TotalSize > 0
    BY <1>1, <1>2
  <2>3. TotalSize \div 2 < TotalSize
    BY <2>2, <1>2
  <2> QED BY <2>1, <2>3, <1>2
<1>4. \A s : Fits(s) => s = TotalSize
  <2> SUFFICES ASSUME NEW s, Fits(s) PROVE s = TotalSize
    OBVIOUS
  <2>1. PICK k \in 0 .. TotalSize + 1 : s = Doubled[k]
    BY DEF Power
  <2>2. CASE k > d
    <3>1. 2 * TotalSize <= s
      BY <1>1, <1>2, <2>1, <2>2, DoubledGrows
    <3>2. s \in Nat /\ TotalSize > 0
      BY <1>1, <1>2, <2>1
    <3>3. s \div 2 >= TotalSize
      BY <3>1, <3>2, <1>2
    <3> QED BY <3>1, <3>2, <3>3, <1>2
  <2>3. CASE k < d
    <3>1. s < TotalSize
      BY <1>1, <1>2, <2>1, <2>3, DoubledGrows
    <3>2. s \in Nat
      BY <1>2, <2>1
    <3> QED BY <3>1, <3>2, <1>2
  <2> QED BY <1>1, <1>2, <2>1, <2>2, <2>3
<1>5. Size = TotalSize
  <2>1. Size = CHOOSE s : Fits(s)
    BY DEF Size, round_size
  <2> HIDE DEF Fits
  <2> QED BY <1>3, <1>4, <2>1
<1>6. \A k \in 0 .. d : Doubled[k] * Doubled[d - k] = Size
  <2> TAKE k \in 0 .. d
  <2>1. k \in Nat /\ d - k \in Nat /\ k + (d - k) = d /\ d <= TotalSize + 1
    BY <1>2
  <2> QED BY <2>1, <1>1, <1>5, DoubledAdds
<1>7. ASSUME NEW k \in 0 .. d PROVE LevelOf(Doubled[d - k]) = k
  <2> DEFINE s == Doubled[d - k]
             At(j) == j \in 0 .. Size /\ s * Doubled[j] = Size
  <2>1. s \in Nat /\ s > 0 /\ d - k \in 0 .. TotalSize + 1 /\ k \in 0 .. TotalSize + 1
    BY <1>2
  <2>2. At(k)
    <3>1. Doubled[k] * s = Size
      BY <1>6
    <3>2. Doubled[k] \in Nat
      BY <2>1, <1>2
    <3>3. \A a, b \in Nat : a * b = b * a
      OBVIOUS
    <3>4. s * Doubled[k] = Size
      BY <3>1, <3>2, <3>3, <2>1
    <3> QED BY <3>4, <1>2, <1>5
  <2>3. ASSUME NEW j, At(j) PROVE j = k
    <3>1. j \in 0 .. TotalSize + 1 /\ Doubled[j] \in Nat /\ Doubled[k] \in Nat
      BY <2>1, <2>3, <1>2, <1>5
    <3>2. \A a, b, c \in Nat : a > 0 /\ b < c => a * b < a * c
      OBVIOUS
    <3>3. ~ (Doubled[j] < Doubled[k]) /\ ~ (Doubled[k] < Doubled[j])
      <4>1. s * Doubled[j] = s * Doubled[k] /\ s * Doubled[j] \in Nat
        BY <2>2, <2>3, <1>5, <1>2
      <4> HIDE DEF s
      <4> QED BY <4>1, <3>1, <3>2, <2>1
    <3>4. ~ (j < k) /\ ~ (k < j)
      BY <3>1, <3>3, <2>1, DoubledGrows
    <3> QED BY <3>4, <3>1, <2>1, <1>2
  <2>4. LevelOf(Doubled[d - k]) = CHOOSE j : At(j)
    BY DEF LevelOf
  <2> HIDE DEF At
  <2> QED BY <2>2, <2>3, <2>4
<1>8. Depth = d
  <2>1. d \in 0 .. d /\ Doubled[d - d] = 1
    BY <1>2, DoubledIs
  <2> QED BY <1>7, <2>1 DEF Depth
<1> QED BY <1>1, <1>2, <1>5, <1>6, <1>7, <1>8

LEMMA RowOfNode ==
    ASSUME NEW i \in Node
    PROVE  /\ i \in Nat /\ Row(i) \in 0 .. Depth
           /\ Doubled[Row(i)] <= i + 1 /\ i + 1 < 2 * Doubled[Row(i)]
<1> DEFINE In(k) == k \in 0 .. Depth /\ Doubled[k] <= i + 1 /\ i + 1 < Doubled[k + 1]
           T == {k \in 0 .. Depth : i + 1 < Doubled[k + 1]}
<1>1. /\ Depth \in Nat /\ Depth <= TotalSize /\ TotalSize \in Nat /\ Size \in Nat /\ i \in Nat
      /\ Size = Doubled[Depth] /\ i <= 2 * Size - 2
      /\ \A k \in 0 .. TotalSize + 1 : Doubled[k] \in Nat
      /\ \A k \in 0 .. Depth : Doubled[k + 1] = 2 * Doubled[k]
  <2>1. Depth \in Nat /\ Depth <= TotalSize /\ TotalSize \in Nat /\ Size \in Nat /\ Size = Doubled[Depth]
    BY SizesAgree, DoubledIs
  <2>2. i \in Nat /\ i <= 2 * Size - 2
    BY <2>1 DEF Node
  <2>3. \A k \in 0 .. Depth : Doubled[k + 1] = 2 * Doubled[k]
    <3> TAKE k \in 0 .. Depth
    <3>1. k + 1 \in 1 .. TotalSize + 1 /\ (k + 1) - 1 = k
      BY <2>1
    <3> QED BY <3>1, DoubledIs
  <2> QED BY <2>1, <2>2, <2>3, DoubledIs
<1>2. Depth \in T /\ T \subseteq Nat
  BY <1>1
<1>3. PICK k \in T : \A j \in T : k <= j
  <2> HIDE DEF T
  <2> QED BY <1>2, LeastOfAll
<1>4. In(k)
  <2>1. CASE k = 0
    BY <2>1, <1>1, <1>3, DoubledIs
  <2>2. CASE k # 0
    <3>1. k - 1 \in 0 .. Depth /\ k - 1 \notin T /\ (k - 1) + 1 = k
      BY <2>2, <1>1, <1>3
    <3>2. ~ (i + 1 < Doubled[k])
      BY <3>1
    <3>3. k \in 0 .. TotalSize + 1
      BY <1>1
    <3> QED BY <3>2, <3>3, <1>1
  <2> QED BY <2>1, <2>2
<1>5. Row(i) = CHOOSE j : In(j)
  BY DEF Row
<1>6. In(Row(i))
  <2> HIDE DEF In
  <2> QED BY <1>4, <1>5
<1> QED BY <1>1, <1>6

\* A row is found by the numbers in it.
LEMMA RowIs ==
    ASSUME NEW k \in 0 .. Depth, NEW i \in Nat,
           Doubled[k] <= i + 1, i + 1 < 2 * Doubled[k]
    PROVE  i \in Node /\ Row(i) = k
<1>1. /\ Depth \in Nat /\ Depth <= TotalSize /\ TotalSize \in Nat /\ Size \in Nat
      /\ Size = Doubled[Depth] /\ k \in Nat
      /\ \A j \in 0 .. TotalSize + 1 : Doubled[j] \in Nat
  <2>1. Depth \in Nat /\ Depth <= TotalSize /\ TotalSize \in Nat /\ Size \in Nat
    BY SizesAgree, DoubledIs
  <2>2. k \in Nat
    BY <2>1
  <2>3. \A j \in 0 .. TotalSize + 1 : Doubled[j] \in Nat
    BY DoubledIs
  <2> QED BY <2>1, <2>2, <2>3, SizesAgree
<1>2. k \in 0 .. TotalSize + 1 /\ Depth \in 0 .. TotalSize + 1
  BY <1>1
<1>3. Doubled[k] <= Size
  BY <1>1, <1>2, DoubledGrows
<1>4. i \in Node
  <2>1. Doubled[k] \in Nat
    BY <1>1, <1>2
  <2> QED BY <1>1, <1>3, <2>1 DEF Node
<1>5. /\ Row(i) \in 0 .. TotalSize + 1
      /\ Doubled[Row(i)] <= i + 1 /\ i + 1 < 2 * Doubled[Row(i)]
  BY <1>1, <1>4, RowOfNode
<1>6. ~ (Row(i) < k)
  <2>1. Row(i) < k => 2 * Doubled[Row(i)] <= Doubled[k]
    BY <1>2, <1>5, DoubledGrows
  <2>2. Doubled[Row(i)] \in Nat /\ Doubled[k] \in Nat
    BY <1>1, <1>2, <1>5
  <2> QED BY <2>1, <2>2, <1>5
<1>7. ~ (k < Row(i))
  <2>1. k < Row(i) => 2 * Doubled[k] <= Doubled[Row(i)]
    BY <1>2, <1>5, DoubledGrows
  <2>2. Doubled[Row(i)] \in Nat /\ Doubled[k] \in Nat
    BY <1>1, <1>2, <1>5
  <2> QED BY <2>1, <2>2, <1>5
<1> QED BY <1>1, <1>4, <1>5, <1>6, <1>7

LEMMA FullIs ==
    ASSUME NEW i \in Node
    PROVE  /\ Full(i) \in Nat /\ Full(i) > 0 /\ Full(i) \in Power
           /\ Row(i) = Depth => Full(i) = 1
           /\ LevelOf(Full(i)) = Row(i) /\ Full(i) <= Size
           /\ Start(i) \in Nat /\ Start(i) + Full(i) <= Size
           /\ Start(i) = (i + 1 - Doubled[Row(i)]) * Full(i)
           /\ i + 1 - Doubled[Row(i)] \in Nat
<1> DEFINE k == Row(i)
           x == i + 1 - Doubled[k]
           f == Full(i)
<1>1. /\ Depth \in Nat /\ Depth <= TotalSize /\ TotalSize \in Nat /\ k \in 0 .. Depth
      /\ i \in Nat /\ Doubled[k] <= i + 1 /\ i + 1 < 2 * Doubled[k]
  BY SizesAgree, DoubledIs, RowOfNode
<1>2. Depth - k \in 0 .. TotalSize + 1 /\ k \in 0 .. TotalSize + 1
  BY <1>1
<1>3. f \in Nat /\ f > 0 /\ Doubled[k] \in Nat /\ f \in Power
  BY <1>2, DoubledPositive DEF Full, Power
<1>4. Doubled[k] * f = Size /\ LevelOf(f) = k /\ Size \in Nat
  BY <1>1, SizesAgree DEF Full
<1>5. k = Depth => f = 1
  BY <1>1, DoubledIs DEF Full
<1>6. x \in Nat /\ x + 1 <= Doubled[k] /\ Start(i) = x * f
  BY <1>1, <1>3 DEF Start
<1>7. \A a, b, c \in Nat : a + 1 <= b => a * c \in Nat /\ a * c + c <= b * c
  OBVIOUS
<1>8. x * f \in Nat /\ x * f + f <= Size
  <2> HIDE DEF x, f, k
  <2> QED BY <1>3, <1>4, <1>6, <1>7
<1> QED BY <1>3, <1>4, <1>5, <1>6, <1>8

\* An entry that is not a smallest one has two children, which halve its block.
LEMMA ChildrenHalve ==
    ASSUME NEW i \in Node, Row(i) # Depth
    PROVE  LET l == 2 * i + 1
               r == 2 * i + 2
           IN  /\ l \in Node /\ r \in Node /\ l # r
               /\ Row(l) = Row(i) + 1 /\ Row(r) = Row(i) + 1
               /\ Full(r) = Full(l) /\ Full(i) = 2 * Full(l)
               /\ Start(l) = Start(i) /\ Start(r) = Start(i) + Full(l)
               /\ Parent(l) = i /\ Parent(r) = i
<1> DEFINE l == 2 * i + 1
           r == 2 * i + 2
           k == Row(i)
<1>1. /\ Depth \in Nat /\ Depth <= TotalSize /\ TotalSize \in Nat /\ k \in 0 .. Depth /\ k # Depth
      /\ i \in Nat /\ Doubled[k] <= i + 1 /\ i + 1 < 2 * Doubled[k]
  BY SizesAgree, DoubledIs, RowOfNode
<1>2. k + 1 \in 0 .. Depth /\ k + 1 \in 1 .. TotalSize + 1 /\ (k + 1) - 1 = k
  BY <1>1
<1>3. Doubled[k + 1] = 2 * Doubled[k]
  BY <1>2, DoubledIs
<1>4. k \in 0 .. TotalSize + 1
  BY <1>1
<1>5. Doubled[k] \in Nat
  BY <1>4, DoubledIs
<1>6. l \in Nat /\ r \in Nat /\ l # r
  BY <1>1
<1>7. l \in Node /\ Row(l) = k + 1
  <2>1. Doubled[k + 1] <= l + 1 /\ l + 1 < 2 * Doubled[k + 1]
    BY <1>1, <1>3, <1>5
  <2> HIDE DEF l, k
  <2> QED BY <2>1, <1>2, <1>6, RowIs
<1>8. r \in Node /\ Row(r) = k + 1
  <2>1. Doubled[k + 1] <= r + 1 /\ r + 1 < 2 * Doubled[k + 1]
    BY <1>1, <1>3, <1>5
  <2> HIDE DEF r, k
  <2> QED BY <2>1, <1>2, <1>6, RowIs
<1>9. Full(r) = Full(l) /\ Full(i) = 2 * Full(l) /\ Full(l) \in Nat
  <2>1. Depth - k \in 1 .. TotalSize + 1 /\ (Depth - k) - 1 = Depth - (k + 1)
    BY <1>1
  <2>2. Doubled[Depth - k] = 2 * Doubled[Depth - (k + 1)]
    BY <2>1, DoubledIs
  <2> QED BY <2>2, <1>7, <1>8, FullIs DEF Full
<1>10. Start(l) = Start(i) /\ Start(r) = Start(i) + Full(l)
  <2> DEFINE x == i + 1 - Doubled[k]
             f == Full(l)
  <2>1. x \in Nat /\ Start(i) = x * (2 * f) /\ f \in Nat
    BY <1>9, FullIs
  <2>2. Start(l) = (2 * x) * f
    BY <1>1, <1>3, <1>5, <1>7 DEF Start
  <2>3. Start(r) = (2 * x + 1) * f
    BY <1>1, <1>3, <1>5, <1>8, <1>9 DEF Start
  <2>4. \A a, b \in Nat : a * (2 * b) = (2 * a) * b /\ (2 * a + 1) * b = a * (2 * b) + b
    OBVIOUS
  <2> HIDE DEF x, f
  <2>5. x * (2 * f) = (2 * x) * f /\ (2 * x + 1) * f = x * (2 * f) + f
    BY <2>1, <2>4
  <2> QED BY <2>1, <2>2, <2>3, <2>5 DEF f
<1>11. Parent(l) = i /\ Parent(r) = i
  BY <1>1 DEF Parent
<1> QED BY <1>6, <1>7, <1>8, <1>9, <1>10, <1>11

\* Every other entry than 0 is one of the two children of its parent.
LEMMA ParentOfNode ==
    ASSUME NEW c \in Node, c # 0
    PROVE  LET p == Parent(c)
           IN  /\ p \in Node /\ Row(p) # Depth /\ Row(c) = Row(p) + 1
               /\ \/ c = 2 * p + 1 /\ Sibling(c) = 2 * p + 2
                  \/ c = 2 * p + 2 /\ Sibling(c) = 2 * p + 1
<1> DEFINE p == Parent(c)
           k == Row(c)
<1>1. /\ Depth \in Nat /\ Depth <= TotalSize /\ TotalSize \in Nat /\ k \in 0 .. Depth
      /\ c \in Nat /\ Doubled[k] <= c + 1 /\ c + 1 < 2 * Doubled[k]
  BY SizesAgree, DoubledIs, RowOfNode
<1>2. k # 0
  BY <1>1, DoubledIs
<1>3. k - 1 \in 0 .. Depth /\ k - 1 # Depth /\ k \in 1 .. TotalSize + 1 /\ k - 1 \in 0 .. TotalSize + 1
  BY <1>1, <1>2
<1>4. Doubled[k] = 2 * Doubled[k - 1] /\ Doubled[k - 1] \in Nat
  BY <1>3, DoubledIs
<1>5. /\ p \in Nat
      /\ \/ c = 2 * p + 1 /\ Sibling(c) = 2 * p + 2
         \/ c = 2 * p + 2 /\ Sibling(c) = 2 * p + 1
  BY <1>1 DEF Parent, Sibling
<1>6. Doubled[k - 1] <= p + 1 /\ p + 1 < 2 * Doubled[k - 1]
  BY <1>1, <1>4, <1>5
<1>7. p \in Node /\ Row(p) = k - 1
  <2> HIDE DEF p, k
  <2> QED BY <1>3, <1>5, <1>6, RowIs
<1> QED BY <1>1, <1>3, <1>5, <1>7

LEMMA RowOfRoot == 0 \in Node /\ Row(0) = 0 /\ Start(0) = 0 /\ Full(0) = Size
<1>1. Depth \in Nat /\ 0 \in 0 .. Depth /\ Doubled[0] = 1
  BY SizesAgree, DoubledIs
<1>2. 0 \in Node /\ Row(0) = 0
  BY <1>1, RowIs
<1>3. Full(0) = Size /\ Size \in Nat
  BY <1>1, <1>2, SizesAgree, DoubledIs DEF Full
<1>4. Start(0) = 0
  BY <1>1, <1>2, <1>3 DEF Start
<1> QED BY <1>2, <1>3, <1>4

\* The block of an entry is made of those of its children.
LEMMA SpanOfChildren ==
    ASSUME NEW i \in Node, Row(i) # Depth
    PROVE  LET l == 2 * i + 1
               r == 2 * i + 2
           IN  Span(i) = Span(l) \cup Span(r) /\ Span(l) \cap Span(r) = {}
<1> DEFINE l == 2 * i + 1
           r == 2 * i + 2
<1>1. /\ l \in Node /\ r \in Node /\ Full(r) = Full(l) /\ Full(i) = 2 * Full(l)
      /\ Start(l) = Start(i) /\ Start(r) = Start(i) + Full(l)
  BY ChildrenHalve
<1>2. Start(i) \in Nat /\ Full(l) \in Nat
  BY <1>1, FullIs
<1> HIDE DEF l, r
<1>3. Span(i) = Span(l) \cup Span(r)
  BY <1>1, <1>2 DEF Span
<1>4. Span(l) \cap Span(r) = {}
  BY <1>1, <1>2 DEF Span
<1> QED BY <1>3, <1>4 DEF l, r

LEMMA SpanFacts ==
    ASSUME NEW i \in Node
    PROVE  Start(i) \in Span(i) /\ Span(i) \subseteq 0 .. Size - 1 /\ Span(i) \subseteq Nat
<1>1. Start(i) \in Nat /\ Full(i) \in Nat /\ Full(i) > 0 /\ Start(i) + Full(i) <= Size /\ Size \in Nat
  BY FullIs, SizesAgree, DoubledIs
<1> QED BY <1>1 DEF Span

\* Two blocks are apart, or the smaller one lies in the other.
LEMMA NestedOrApart ==
    ASSUME NEW c \in Node, NEW g \in Node, Row(g) <= Row(c)
    PROVE  Span(c) \subseteq Span(g) \/ Span(c) \cap Span(g) = {}
<1> DEFINE x == c + 1 - Doubled[Row(c)]
           y == g + 1 - Doubled[Row(g)]
           f == Full(c)
           m == Doubled[Row(c) - Row(g)]
<1>1. /\ Depth \in Nat /\ Depth <= TotalSize /\ TotalSize \in Nat
      /\ Row(c) \in 0 .. Depth /\ Row(g) \in 0 .. Depth
  BY SizesAgree, DoubledIs, RowOfNode
<1>2. x \in Nat /\ y \in Nat /\ f \in Nat /\ Start(c) = x * f /\ Start(g) = y * Full(g)
  BY FullIs
<1>3. m \in Nat /\ Full(g) = m * f
  <2>1. Row(c) - Row(g) \in 0 .. TotalSize + 1
    BY <1>1
  <2>2. Row(c) - Row(g) \in Nat /\ Depth - Row(c) \in Nat
        /\ (Row(c) - Row(g)) + (Depth - Row(c)) = Depth - Row(g) /\ Depth - Row(g) <= TotalSize + 1
    BY <1>1
  <2> QED BY <2>1, <2>2, DoubledAdds, DoubledIs DEF Full
<1>4. \A a, b, d \in Nat : a + 1 <= b => a * d + d <= b * d
  OBVIOUS
<1>5. \A a, b \in Nat : a * b \in Nat
  OBVIOUS
<1>6. \A a, b, d \in Nat : a * (b * d) = (a * b) * d /\ (a * b) * d + b * d = (a * b + b) * d
  OBVIOUS
<1> DEFINE z == y * m
<1>7. z \in Nat /\ z + m \in Nat /\ Start(g) = z * f /\ Start(g) + Full(g) = (z + m) * f
  <2> HIDE DEF y, m, f
  <2> QED BY <1>2, <1>3, <1>5, <1>6
<1>8. x * f \in Nat /\ z * f \in Nat /\ (z + m) * f \in Nat
  <2> HIDE DEF x, z, m, f
  <2> QED BY <1>2, <1>5, <1>7
<1>12. Start(c) \in Nat /\ Start(g) \in Nat /\ Full(c) \in Nat /\ Full(g) \in Nat
  BY FullIs
<1> HIDE DEF x, y, z, m, f
<1>9. CASE x < z
  <2>1. x * f + f <= z * f
    BY <1>9, <1>2, <1>7, <1>4
  <2>2. Start(c) + Full(c) <= Start(g)
    BY <2>1, <1>2, <1>7 DEF f
  <2> QED BY <2>2, <1>12 DEF Span
<1>10. CASE z <= x /\ x < z + m
  <2>1. z * f <= x * f
    <3>1. z + 1 <= x \/ z = x
      BY <1>10, <1>2, <1>7
    <3>2. z + 1 <= x => z * f + f <= x * f
      BY <1>2, <1>7, <1>4
    <3> QED BY <3>1, <3>2, <1>2, <1>8
  <2>2. x * f + f <= (z + m) * f
    BY <1>10, <1>2, <1>3, <1>7, <1>4
  <2>3. Start(g) <= Start(c) /\ Start(c) + Full(c) <= Start(g) + Full(g)
    BY <2>1, <2>2, <1>2, <1>7 DEF f
  <2> QED BY <2>3, <1>12 DEF Span
<1>11. CASE z + m <= x
  <2>1. (z + m) * f <= x * f
    <3>1. (z + m) + 1 <= x \/ z + m = x
      BY <1>11, <1>2, <1>7
    <3>2. (z + m) + 1 <= x => (z + m) * f + f <= x * f
      BY <1>2, <1>7, <1>4
    <3> QED BY <3>1, <3>2, <1>2, <1>8
  <2>2. Start(g) + Full(g) <= Start(c)
    BY <2>1, <1>2, <1>7
  <2> QED BY <2>2, <1>12 DEF Span
<1> QED BY <1>2, <1>7, <1>9, <1>10, <1>11

\* A block in another one is that block or has its parent in it too.
LEMMA InsideUpwards ==
    ASSUME NEW c \in Node, NEW g \in Node, Span(c) \subseteq Span(g)
    PROVE  /\ Full(c) <= Full(g) /\ Row(g) <= Row(c)
           /\ c = g \/ (c # 0 /\ Span(Parent(c)) \subseteq Span(g) /\ Row(g) < Row(c))
<1>1. /\ Depth \in Nat /\ Depth <= TotalSize /\ TotalSize \in Nat
      /\ Row(c) \in 0 .. Depth /\ Row(g) \in 0 .. Depth /\ c \in Nat /\ g \in Nat
  BY SizesAgree, DoubledIs, RowOfNode
<1>2. /\ Start(c) \in Nat /\ Start(g) \in Nat
      /\ Full(c) \in Nat /\ Full(g) \in Nat /\ Full(c) > 0 /\ Full(g) > 0
  BY FullIs
<1>3. Start(g) <= Start(c) /\ Start(c) + Full(c) <= Start(g) + Full(g)
  <2>1. Start(c) \in Span(c) /\ Start(c) + Full(c) - 1 \in Span(c)
    BY <1>2 DEF Span
  <2>2. Start(c) \in Span(g) /\ Start(c) + Full(c) - 1 \in Span(g)
    BY <2>1
  <2> QED BY <2>2, <1>2 DEF Span
<1>4. Full(c) <= Full(g)
  BY <1>2, <1>3
<1>5. Row(g) <= Row(c)
  <2>1. SUFFICES ASSUME Row(c) < Row(g) PROVE FALSE
    BY <1>1
  <2>2. Depth - Row(g) \in 0 .. TotalSize + 1 /\ Depth - Row(c) \in 0 .. TotalSize + 1
        /\ Depth - Row(g) < Depth - Row(c)
    BY <1>1, <2>1
  <2>3. Full(g) < Full(c)
    BY <2>2, DoubledGrows DEF Full
  <2> QED BY <2>3, <1>2, <1>4
<1>6. CASE Row(c) = Row(g)
  <2> DEFINE x == c + 1 - Doubled[Row(c)]
             y == g + 1 - Doubled[Row(c)]
             f == Full(c)
  <2>1. Full(g) = f
    BY <1>6 DEF Full
  <2>2. x \in Nat /\ y \in Nat /\ f \in Nat /\ f > 0 /\ Start(c) = x * f /\ Start(g) = y * f
    BY <1>6, <2>1, FullIs
  <2>3. x * f = y * f
    BY <1>2, <1>3, <2>1, <2>2
  <2>4. \A a, b, d \in Nat : a < b /\ d > 0 => a * d < b * d
    OBVIOUS
  <2>5. ~ (x < y) /\ ~ (y < x)
    <3>1. x * f \in Nat
      BY <1>2, <2>2
    <3> HIDE DEF x, y, f
    <3> QED BY <3>1, <2>2, <2>3, <2>4
  <2>6. x = y
    <3> HIDE DEF x, y
    <3> QED BY <2>2, <2>5
  <2>7. c = g
    <3>1. Doubled[Row(c)] \in Nat
      <4>1. Row(c) \in 0 .. TotalSize + 1
        BY <1>1
      <4> QED BY <4>1, DoubledIs
    <3> QED BY <3>1, <2>6, <1>1
  <2> QED BY <1>4, <1>5, <2>7
<1>7. CASE Row(c) # Row(g)
  <2>1. c # 0
    <3>1. Row(c) > 0
      BY <1>1, <1>5, <1>7
    <3> QED BY <3>1, RowOfRoot
  <2> DEFINE p == Parent(c)
  <2>2. p \in Node /\ Row(p) # Depth /\ Row(c) = Row(p) + 1 /\ (c = 2 * p + 1 \/ c = 2 * p + 2)
    BY <2>1, ParentOfNode
  <2>3. Row(g) <= Row(p) /\ Row(g) < Row(c)
    <3>1. Row(p) \in 0 .. Depth
      BY <2>2, RowOfNode
    <3> HIDE DEF p
    <3> QED BY <3>1, <1>1, <1>5, <1>7, <2>2
  <2>4. Span(c) \subseteq Span(p)
    <3> HIDE DEF p
    <3> QED BY <2>2, SpanOfChildren
  <2>5. Span(p) \cap Span(g) # {}
    BY <2>4, SpanFacts
  <2>6. Span(p) \subseteq Span(g)
    <3> HIDE DEF p
    <3> QED BY <2>2, <2>3, <2>5, NestedOrApart
  <2> QED BY <1>4, <1>5, <2>1, <2>3, <2>6
<1> QED BY <1>6, <1>7

-----------------------------------------------------------------------------
(* What the entries say *)

\* The entries whose blocks are given out, and those whose blocks lie in one of these.
Within(G, j) == \E g \in G : Span(j) \subseteq Span(g)
StrictlyIn(G, j) == \E g \in G : g # j /\ Span(j) \subseteq Span(g)
Unused(G, j)  == \A g \in G : Span(j) \cap Span(g) = {}
Apart(G)     == \A g, h \in G : g # h => Span(g) \cap Span(h) = {}

\* An entry is 0 while its own block is given out, whole below such a block and at
\* the end of the tree, and else what its children make it.
Right(r, G, j) ==
    r[j] = IF j \in G THEN 0
           ELSE IF Within(G, j) \/ Row(j) = Depth THEN Full(j)
           ELSE Raised(r[2 * j + 1], r[2 * j + 2], Full(2 * j + 1))

\* What it then knows: the largest block that is not given out, in its own.
Exact(r, G, j) ==
    /\ r[j] <= Full(j) /\ (r[j] = Full(j) <=> Unused(G, j))
    /\ r[j] # 0 => \E m \in Node : Span(m) \subseteq Span(j) /\ Full(m) = r[j] /\ Unused(G, m)
    /\ \A m \in Node : Span(m) \subseteq Span(j) /\ Unused(G, m) => Full(m) <= r[j]

\* A block outside of those given out has its children outside of them.
LEMMA ChildrenOutside ==
    ASSUME NEW G, G \subseteq Node, NEW c \in Node, c # 0,
           ~ Within(G, Parent(c))
    PROVE  ~ StrictlyIn(G, c)
BY InsideUpwards DEF Within, StrictlyIn

LEMMA EntryIsExact ==
    ASSUME NEW r \in [Node -> Nat], NEW G, G \subseteq Node, Apart(G),
           NEW j \in Node, ~ StrictlyIn(G, j), Right(r, G, j),
           Row(j) # Depth => /\ ~ StrictlyIn(G, 2 * j + 1) => Exact(r, G, 2 * j + 1)
                             /\ ~ StrictlyIn(G, 2 * j + 2) => Exact(r, G, 2 * j + 2)
    PROVE  Exact(r, G, j)
<1>1. Full(j) \in Nat /\ Full(j) > 0 /\ r[j] \in Nat /\ \A m \in Node : Full(m) \in Nat /\ Full(m) > 0
  BY FullIs
<1>2. \A m \in Node : Start(m) \in Span(m)
  BY SpanFacts
<1>3. CASE j \in G
  <2>1. r[j] = 0
    BY <1>3 DEF Right
  <2>2. \A m \in Node : Span(m) \subseteq Span(j) => ~ Unused(G, m)
    BY <1>2, <1>3 DEF Unused
  <2>3. ~ Unused(G, j)
    BY <2>2
  <2> QED BY <1>1, <2>1, <2>2, <2>3 DEF Exact
<1>4. CASE j \notin G /\ Row(j) = Depth
  <2>1. r[j] = Full(j) /\ Full(j) = 1
    BY <1>4, FullIs DEF Right
  <2>2. Unused(G, j)
    <3>1. SUFFICES ASSUME NEW g \in G, Span(j) \cap Span(g) # {} PROVE FALSE
      BY DEF Unused
    <3>2. g \in Node /\ g # j /\ Row(g) <= Row(j)
      BY <1>4, RowOfNode, SizesAgree
    <3>3. Span(j) \subseteq Span(g)
      BY <3>1, <3>2, NestedOrApart
    <3> QED BY <3>2, <3>3 DEF StrictlyIn
  <2>3. \A m \in Node : Span(m) \subseteq Span(j) => Full(m) <= Full(j)
    BY InsideUpwards
  <2> QED BY <2>1, <2>2, <2>3 DEF Exact
<1>5. CASE j \notin G /\ Row(j) # Depth
  <2> DEFINE l == 2 * j + 1
             q == 2 * j + 2
             f == Full(l)
  <2>1. /\ l \in Node /\ q \in Node /\ l # 0 /\ q # 0 /\ Full(q) = f /\ Full(j) = 2 * f
        /\ Parent(l) = j /\ Parent(q) = j /\ f \in Nat /\ f > 0
        /\ Row(l) = Row(j) + 1 /\ Row(q) = Row(j) + 1
    <3>1. j \in Nat
      BY RowOfNode
    <3> QED BY <3>1, <1>5, <1>1, ChildrenHalve
  <2>2. ~ Within(G, j)
    BY <1>5 DEF Within, StrictlyIn
  <2>3. Span(j) = Span(l) \cup Span(q) /\ Span(l) \cap Span(q) = {}
    BY <1>5, SpanOfChildren
  <2>4. r[j] = Raised(r[l], r[q], f)
    BY <1>5, <2>2 DEF Right
  <2>5. Exact(r, G, l) /\ Exact(r, G, q)
    <3>1. ~ StrictlyIn(G, l) /\ ~ StrictlyIn(G, q)
      <4> HIDE DEF l, q
      <4> QED BY <2>1, <2>2, ChildrenOutside
    <3> QED BY <1>5, <3>1
  <2>6. r[l] \in Nat /\ r[q] \in Nat
    BY <2>1
  <2> HIDE DEF l, q
  <2>7. Unused(G, j) <=> Unused(G, l) /\ Unused(G, q)
    BY <2>3 DEF Unused
  <2>8. r[l] <= f /\ r[q] <= f /\ (r[l] = f <=> Unused(G, l)) /\ (r[q] = f <=> Unused(G, q))
    BY <2>1, <2>5 DEF Exact
  <2>9. r[j] = IF r[l] = f /\ f = r[q] THEN 2 * f ELSE IF r[l] > r[q] THEN r[l] ELSE r[q]
    BY <2>4 DEF Raised, Larger
  <2>10. r[j] <= Full(j) /\ (r[j] = Full(j) <=> Unused(G, j))
    BY <2>1, <2>6, <2>7, <2>8, <2>9
  <2>11. ASSUME NEW m \in Node, Span(m) \subseteq Span(j), Unused(G, m) PROVE Full(m) <= r[j]
    <3>1. CASE m = j
      BY <3>1, <2>11, <2>10, <1>1
    <3>2. CASE m # j
      <4>1. Row(j) < Row(m)
        BY <3>2, <2>11, InsideUpwards
      <4>2. Row(l) <= Row(m) /\ Row(q) <= Row(m)
        BY <4>1, <2>1, RowOfNode, SizesAgree
      <4>3. Span(m) \subseteq Span(l) \/ Span(m) \subseteq Span(q)
        <5>1. Span(m) \cap Span(l) # {} \/ Span(m) \cap Span(q) # {}
          BY <1>2, <2>3, <2>11
        <5> QED BY <5>1, <4>2, <2>1, NestedOrApart
      <4>4. Full(m) <= r[l] \/ Full(m) <= r[q]
        BY <4>3, <2>5, <2>11 DEF Exact
      <4>5. r[l] <= r[j] /\ r[q] <= r[j]
        BY <2>1, <2>6, <2>8, <2>9
      <4> QED BY <4>4, <4>5, <2>6, <1>1
    <3> QED BY <3>1, <3>2
  <2>12. ASSUME r[j] # 0
         PROVE  \E m \in Node : Span(m) \subseteq Span(j) /\ Full(m) = r[j] /\ Unused(G, m)
    <3>1. CASE Unused(G, j)
      BY <3>1, <2>10
    <3>2. CASE ~ Unused(G, j)
      <4>1. r[j] = r[l] \/ r[j] = r[q]
        BY <3>2, <2>7, <2>8, <2>9
      <4>2. \E m \in Node : /\ Span(m) \subseteq Span(l) \/ Span(m) \subseteq Span(q)
                            /\ Full(m) = r[j] /\ Unused(G, m)
        BY <4>1, <2>12, <2>5 DEF Exact
      <4> QED BY <4>2, <2>3
    <3> QED BY <3>1, <3>2
  <2> QED BY <2>10, <2>11, <2>12 DEF Exact
<1> QED BY <1>3, <1>4, <1>5

\* What every entry knows follows from what each knows of its children.
LEMMA EntriesAreExact ==
    ASSUME NEW r \in [Node -> Nat], NEW G, G \subseteq Node, Apart(G),
           \A j \in Node : Right(r, G, j)
    PROVE  \A j \in Node : ~ StrictlyIn(G, j) => Exact(r, G, j)
<1> DEFINE T == {k \in Nat : \A j \in Node : Row(j) = Depth - k /\ ~ StrictlyIn(G, j) => Exact(r, G, j)}
<1>1. Depth \in Nat /\ \A j \in Node : Row(j) \in 0 .. Depth
  BY SizesAgree, RowOfNode
<1>2. 0 \in T
  <2>1. ASSUME NEW j \in Node, Row(j) = Depth, ~ StrictlyIn(G, j) PROVE Exact(r, G, j)
    BY <2>1, EntryIsExact
  <2>2. Depth - 0 = Depth
    BY <1>1
  <2> QED BY <2>1, <2>2
<1>3. ASSUME NEW k \in 0 .. Depth - 1, k \in T PROVE k + 1 \in T
  <2>1. SUFFICES ASSUME NEW j \in Node, Row(j) = Depth - (k + 1), ~ StrictlyIn(G, j)
                 PROVE  Exact(r, G, j)
    OBVIOUS
  <2>2. Row(j) # Depth
    BY <1>1, <2>1
  <2>3. /\ 2 * j + 1 \in Node /\ 2 * j + 2 \in Node
        /\ Row(2 * j + 1) = Depth - k /\ Row(2 * j + 2) = Depth - k
    BY <1>1, <2>1, <2>2, ChildrenHalve
  <2>4. \A c \in Node : Row(c) = Depth - k /\ ~ StrictlyIn(G, c) => Exact(r, G, c)
    BY <1>3
  <2>5. /\ ~ StrictlyIn(G, 2 * j + 1) => Exact(r, G, 2 * j + 1)
        /\ ~ StrictlyIn(G, 2 * j + 2) => Exact(r, G, 2 * j + 2)
    BY <2>3, <2>4
  <2> QED BY <2>1, <2>5, EntryIsExact
<1>4. \A k \in 0 .. Depth : k \in T
  <2> HIDE DEF T
  <2> QED BY <1>1, <1>2, <1>3, RoundByRound
<1> TAKE j \in Node
<1>5. Depth - Row(j) \in 0 .. Depth /\ Row(j) = Depth - (Depth - Row(j))
  BY <1>1
<1> QED BY <1>4, <1>5

-----------------------------------------------------------------------------
(* The loops *)

\* The loop that renews the ancestors of an entry ends with every entry right, if
\* all of them were but the parent of that entry.  get takes the larger child where
\* put looks for a whole pair: there is none above an entry that is not whole.
LEMMA ClimbRights ==
    ASSUME NEW r0 \in [Node -> Nat], NEW G, NEW i \in Node, NEW putting \in BOOLEAN,
           \A j \in Node : i = 0 \/ j # Parent(i) => Right(r0, G, j),
           \A j \in Node : j # i /\ Span(i) \subseteq Span(j) => j \notin G /\ ~ Within(G, j),
           \A j \in Node : r0[j] <= Full(j),
           putting \/ r0[i] < Full(i)
    PROVE  LET r == Climb(r0, i, Full(i), putting)
           IN  r \in [Node -> Nat] /\ \A j \in Node : Right(r, G, j)
<1> DEFINE S == {u \in [rest : [Node -> Nat], i : Node, fs : Nat, done : BOOLEAN] :
                    u.i = 0 => u.done}
           Renewed(u) ==
               LET p  == Parent(u.i)
                   a  == u.rest[u.i]
                   b  == u.rest[Sibling(u.i)]
                   ms == IF putting THEN Raised(a, b, u.fs) ELSE Larger(a, b)
               IN  IF u.done THEN u
                   ELSE IF u.rest[p] = ms THEN [u EXCEPT !.done = TRUE]
                   ELSE [rest |-> [u.rest EXCEPT ![p] = ms], i |-> p,
                         fs |-> 2 * u.fs, done |-> p = 0]
           u0 == [rest |-> r0, i |-> i, fs |-> Full(i), done |-> i = 0]
           round == [u \in S |-> Renewed(u)]
           F(f) == f = [k \in 0 .. Depth |-> IF k = 0 THEN u0 ELSE Renewed(f[k - 1])]
<1>1. Depth \in Nat /\ u0 \in S
  BY SizesAgree, FullIs
<1>2. ASSUME NEW u \in S PROVE Renewed(u) \in S
  <2>1. CASE u.done
    BY <2>1
  <2>2. CASE ~ u.done
    <3> DEFINE p == Parent(u.i)
               a == u.rest[u.i]
               b == u.rest[Sibling(u.i)]
               ms == IF putting THEN Raised(a, b, u.fs) ELSE Larger(a, b)
    <3>1. u.i \in Node /\ u.i # 0 /\ u.rest \in [Node -> Nat] /\ u.fs \in Nat
      BY <2>2
    <3>2. p \in Node /\ Row(p) # Depth /\ (u.i = 2 * p + 1 \/ u.i = 2 * p + 2)
          /\ (Sibling(u.i) = 2 * p + 1 \/ Sibling(u.i) = 2 * p + 2)
      BY <3>1, ParentOfNode
    <3>3. Sibling(u.i) \in Node
      <4> HIDE DEF p
      <4> QED BY <3>2, ChildrenHalve
    <3>4. ms \in Nat
      <4>1. a \in Nat /\ b \in Nat
        BY <3>1, <3>3
      <4> QED BY <4>1, <3>1 DEF Raised, Larger
    <3>5. Renewed(u) = IF u.rest[p] = ms THEN [u EXCEPT !.done = TRUE]
                       ELSE [rest |-> [u.rest EXCEPT ![p] = ms], i |-> p,
                             fs |-> 2 * u.fs, done |-> p = 0]
      BY <2>2
    <3> HIDE DEF p, ms, Renewed
    <3>6. CASE u.rest[p] = ms
      <4> QED BY <3>1, <3>5, <3>6
    <3>7. CASE u.rest[p] # ms
      <4> DEFINE w == [u.rest EXCEPT ![p] = ms]
                 v == [rest |-> w, i |-> p, fs |-> 2 * u.fs, done |-> p = 0]
      <4>1. w \in [Node -> Nat] /\ 2 * u.fs \in Nat /\ (p = 0) \in BOOLEAN
        BY <3>1, <3>2, <3>4
      <4>2. Renewed(u) = v
        BY <3>5, <3>7
      <4> HIDE DEF w
      <4>3. v \in S
        BY <4>1, <3>2
      <4> QED BY <4>2, <4>3
    <3> QED BY <3>6, <3>7
  <2> QED BY <2>1, <2>2
<1>3. PICK f \in [0 .. Depth -> S] : Loops(f, Depth, u0, round)
  <2>1. round \in [S -> S]
    BY <1>2
  <2> HIDE DEF S, u0, round
  <2> QED BY <1>1, <2>1, RoundsExist
<1>4. F(f)
  <2>1. ASSUME NEW k \in 0 .. Depth PROVE f[k] = IF k = 0 THEN u0 ELSE Renewed(f[k - 1])
    <3>1. CASE k = 0
      BY <3>1, <1>3 DEF Loops
    <3>2. CASE k # 0
      <4>1. k \in 1 .. Depth /\ k - 1 \in 0 .. Depth
        BY <1>1, <3>2
      <4>2. f[k] = round[f[k - 1]] /\ f[k - 1] \in S
        BY <4>1, <1>3 DEF Loops
      <4> HIDE DEF Renewed, S
      <4> QED BY <4>2, <3>2
    <3> QED BY <3>1, <3>2
  <2> HIDE DEF Renewed, u0
  <2> QED BY <2>1, <1>3
<1> DEFINE Up == CHOOSE g : F(g)
<1>5. F(Up)
  <2> HIDE DEF F
  <2> QED BY <1>4
<1>6. Climb(r0, i, Full(i), putting) = Up[Depth].rest
  BY DEF Climb
<1>7. Up[0] = u0 /\ \A k \in 0 .. Depth - 1 : Up[k + 1] = Renewed(Up[k])
  <2>1. 0 \in 0 .. Depth
    BY <1>1
  <2>2. \A k \in 0 .. Depth - 1 : k + 1 \in 0 .. Depth /\ k + 1 # 0 /\ (k + 1) - 1 = k
    BY <1>1
  <2>3. \A k \in 0 .. Depth : Up[k] = IF k = 0 THEN u0 ELSE Renewed(Up[k - 1])
    <3> HIDE DEF Up, u0, Renewed
    <3> QED BY <1>5
  <2> HIDE DEF Up, u0, Renewed
  <2> QED BY <2>1, <2>2, <2>3
<1> DEFINE Fine(u) ==
               /\ u \in S /\ u.fs = Full(u.i) /\ Span(i) \subseteq Span(u.i)
               /\ \A j \in Node : u.rest[j] <= Full(j)
               /\ putting \/ u.done \/ u.rest[u.i] < Full(u.i)
               /\ \A j \in Node : u.done \/ j # Parent(u.i) => Right(u.rest, G, j)
           T == {k \in Nat : Fine(Up[k]) /\ (Up[k].done \/ Row(Up[k].i) + k <= Depth)}
<1>8. 0 \in T
  <2>2. Row(i) + 0 <= Depth
    BY <1>1, RowOfNode
  <2>3. Fine(u0)
    BY <1>1
  <2> HIDE DEF Fine, Up
  <2> QED BY <1>7, <2>2, <2>3
<1>9. ASSUME NEW k \in 0 .. Depth - 1, k \in T PROVE k + 1 \in T
  <2> DEFINE u == Up[k]
             v == Up[k + 1]
  <2>1. v = Renewed(u) /\ Fine(u) /\ (u.done \/ Row(u.i) + k <= Depth)
    <3> HIDE DEF Up, Fine, Renewed
    <3> QED BY <1>7, <1>9
  <2>2. CASE u.done
    <3>1. v = u
      BY <2>1, <2>2
    <3> HIDE DEF Up, Fine
    <3> QED BY <3>1, <2>1, <2>2
  <2>3. CASE ~ u.done
    <3> DEFINE c == u.i
               s == Sibling(c)
               p == Parent(c)
               l == 2 * p + 1
               q == 2 * p + 2
               a == u.rest[c]
               b == u.rest[s]
               ms == IF putting THEN Raised(a, b, u.fs) ELSE Larger(a, b)
    <3> HIDE DEF Up
    <3>1. /\ u \in S /\ c \in Node /\ c # 0 /\ u.rest \in [Node -> Nat] /\ u.fs = Full(c)
          /\ Span(i) \subseteq Span(c) /\ (putting \/ a < Full(c))
          /\ \A j \in Node : u.rest[j] <= Full(j)
          /\ \A j \in Node : j # p => Right(u.rest, G, j)
      BY <2>1, <2>3
    <3>2. /\ p \in Node /\ Row(p) # Depth /\ Row(c) = Row(p) + 1
          /\ (c = l /\ s = q) \/ (c = q /\ s = l)
      <4> HIDE DEF c
      <4> QED BY <3>1, ParentOfNode
    <3>3. v = IF u.rest[p] = ms THEN [u EXCEPT !.done = TRUE]
              ELSE [rest |-> [u.rest EXCEPT ![p] = ms], i |-> p, fs |-> 2 * u.fs, done |-> p = 0]
      BY <2>1, <2>3
    <3> HIDE DEF u, v, S, Renewed
    <3>4. /\ l \in Node /\ q \in Node /\ Full(q) = Full(l) /\ Full(p) = 2 * Full(l)
          /\ p \in Nat /\ Full(l) \in Nat /\ Row(p) \in Nat /\ Row(p) < Depth
      <4>1. Row(p) \in 0 .. Depth /\ p \in Nat
        <5> HIDE DEF p
        <5> QED BY <3>2, RowOfNode
      <4>2. l \in Node /\ q \in Node /\ Full(q) = Full(l) /\ Full(p) = 2 * Full(l)
        <5> HIDE DEF p
        <5> QED BY <3>2, ChildrenHalve
      <4>3. Full(l) \in Nat
        <5> HIDE DEF l
        <5> QED BY <4>2, FullIs
      <4> HIDE DEF p, l, q
      <4> QED BY <4>1, <4>2, <4>3, <1>1, <3>2
    <3>5. Span(c) \subseteq Span(p)
      <4>1. Span(p) = Span(l) \cup Span(q)
        <5> HIDE DEF p
        <5> QED BY <3>2, SpanOfChildren
      <4> HIDE DEF p, c, s, l, q
      <4> QED BY <4>1, <3>2
    <3>6. Span(i) \subseteq Span(p) /\ p \notin G /\ ~ Within(G, p)
      <4>1. Span(i) \subseteq Span(p)
        BY <3>1, <3>5
      <4>2. p # i
        <5>1. Row(i) >= Row(c)
          <6> HIDE DEF c
          <6> QED BY <3>1, InsideUpwards
        <5>2. Row(p) < Row(c)
          BY <3>2, <3>4
        <5>3. Row(i) \in Nat /\ Row(c) \in Nat
          <6>1. Row(i) \in 0 .. Depth /\ Row(c) \in 0 .. Depth
            <7> HIDE DEF c
            <7> QED BY <3>1, RowOfNode
          <6> HIDE DEF c
          <6> QED BY <6>1, <1>1
        <5> QED BY <5>1, <5>2, <5>3, <3>4
      <4> HIDE DEF p
      <4> QED BY <4>1, <4>2, <3>2
    <3>7. ms = Raised(u.rest[l], u.rest[q], Full(l)) /\ ms \in Nat /\ ms <= Full(p)
          /\ (putting \/ ms < Full(p))
      <4> DEFINE al == u.rest[l]
                 aq == u.rest[q]
      <4>1. al \in Nat /\ aq \in Nat /\ al <= Full(l) /\ aq <= Full(l)
        <5>1. u.rest[q] <= Full(q) /\ u.rest[l] <= Full(l)
          BY <3>1, <3>4
        <5> HIDE DEF l, q
        <5> QED BY <5>1, <3>1, <3>4
      <4>2. (a = al /\ b = aq /\ u.fs = Full(l)) \/ (a = aq /\ b = al /\ u.fs = Full(l))
        <5> HIDE DEF p, l, q, s
        <5> QED BY <3>1, <3>2, <3>4
      <4>3. putting \/ a < Full(l)
        BY <3>1, <4>2
      <4> HIDE DEF al, aq, a, b, p, l, q, c, s
      <4>4. ms = Raised(al, aq, Full(l))
        BY <4>1, <4>2, <4>3, <3>4 DEF Raised, Larger
      <4>5. ms \in Nat /\ ms <= Full(p) /\ (putting \/ ms < Full(p))
        BY <4>1, <4>2, <4>3, <3>4 DEF Raised, Larger
      <4> QED BY <4>4, <4>5 DEF al, aq
    <3>8. CASE u.rest[p] = ms
      <4>1. v = [u EXCEPT !.done = TRUE]
        BY <3>3, <3>8
      <4>2. Right(u.rest, G, p)
        <5> HIDE DEF p, ms
        <5> QED BY <3>2, <3>6, <3>7, <3>8 DEF Right, l, q
      <4>3. v \in S /\ v.rest = u.rest /\ v.i = c /\ v.fs = u.fs /\ v.done
        <5> HIDE DEF p, ms
        <5> QED BY <4>1, <3>1 DEF S, c
      <4>4. \A j \in Node : Right(v.rest, G, j)
        BY <4>2, <4>3, <3>1
      <4>5. Fine(v) /\ v.done
        <5> HIDE DEF c
        <5> QED BY <4>3, <4>4, <3>1
      <4> HIDE DEF Fine
      <4> QED BY <4>5 DEF v
    <3>9. CASE u.rest[p] # ms
      <4> DEFINE w == [u.rest EXCEPT ![p] = ms]
      <4> HIDE DEF p, ms, c, s
      <4>1. v = [rest |-> w, i |-> p, fs |-> 2 * u.fs, done |-> p = 0]
        BY <3>3, <3>9
      <4>2. w \in [Node -> Nat] /\ w[p] = ms /\ \A j \in Node : j # p => w[j] = u.rest[j]
        BY <3>1, <3>2, <3>7
      <4>3. v \in S /\ v.rest = w /\ v.i = p /\ v.fs = Full(p) /\ (v.done <=> p = 0)
        <5>1. 2 * u.fs = Full(p)
          BY <3>1, <3>2, <3>4
        <5>2. Full(p) \in Nat
          BY <3>4
        <5> HIDE DEF w
        <5> QED BY <5>1, <5>2, <4>1, <4>2, <3>2 DEF S
      <4>4. \A j \in Node : w[j] <= Full(j)
        BY <4>2, <3>1, <3>7
      <4>5. Right(w, G, p)
        <5>1. l # p /\ q # p
          BY <3>4 DEF l, q
        <5>2. w[l] = u.rest[l] /\ w[q] = u.rest[q]
          BY <5>1, <4>2, <3>4
        <5> HIDE DEF w
        <5> QED BY <5>2, <4>2, <3>2, <3>6, <3>7 DEF Right, l, q
      <4>6. ASSUME NEW j \in Node, j # p, p = 0 \/ j # Parent(p) PROVE Right(w, G, j)
        <5>1. Right(u.rest, G, j) /\ w[j] = u.rest[j]
          BY <4>2, <4>6, <3>1
        <5>2. CASE Row(j) = Depth
          <6> HIDE DEF w
          <6> QED BY <5>1, <5>2 DEF Right
        <5>3. CASE Row(j) # Depth
          <6>1. /\ 2 * j + 1 \in Node /\ 2 * j + 2 \in Node
                /\ 2 * j + 1 # p /\ 2 * j + 2 # p
            <7>1. /\ 2 * j + 1 \in Node /\ 2 * j + 2 \in Node /\ j \in Nat
                  /\ Parent(2 * j + 1) = j /\ Parent(2 * j + 2) = j
              BY <5>3, ChildrenHalve, RowOfNode
            <7>2. 2 * j + 1 # 0 /\ 2 * j + 2 # 0
              BY <7>1
            <7> QED BY <7>1, <7>2, <4>6
          <6>2. w[2 * j + 1] = u.rest[2 * j + 1] /\ w[2 * j + 2] = u.rest[2 * j + 2]
            BY <6>1, <4>2
          <6> HIDE DEF w
          <6> QED BY <5>1, <6>2 DEF Right
        <5> QED BY <5>2, <5>3
      <4>8. Fine(v)
        <5>1. \A j \in Node : v.done \/ j # Parent(p) => Right(w, G, j)
          <6> HIDE DEF w
          <6> QED BY <4>3, <4>5, <4>6
        <5>2. putting \/ w[p] < Full(p)
          BY <4>2, <3>7
        <5> HIDE DEF w
        <5> QED BY <5>1, <5>2, <4>3, <4>4, <3>6
      <4>9. v.done \/ Row(v.i) + (k + 1) <= Depth
        <5>1. Row(c) + k <= Depth
          BY <2>1, <2>3 DEF u, c
        <5> HIDE DEF w
        <5> QED BY <5>1, <4>3, <3>2, <3>4, <1>1
      <4> HIDE DEF Fine
      <4> QED BY <4>8, <4>9 DEF v
    <3> QED BY <3>8, <3>9
  <2> QED BY <2>2, <2>3
<1>10. Fine(Up[Depth]) /\ Up[Depth].done
  <2>1. Depth \in T
    <3>1. \A k \in 0 .. Depth : k \in T
      <4> HIDE DEF T, Fine, Up
      <4> QED BY <1>1, <1>8, <1>9, RoundByRound
    <3>2. Depth \in 0 .. Depth
      BY <1>1
    <3> HIDE DEF T
    <3> QED BY <3>1, <3>2
  <2>2. Fine(Up[Depth]) /\ (Up[Depth].done \/ Row(Up[Depth].i) + Depth <= Depth)
    <3> HIDE DEF Fine, Up
    <3> QED BY <2>1
  <2> DEFINE u == Up[Depth]
  <2>3. ASSUME ~ u.done PROVE FALSE
    <3>1. u \in S
      <4> HIDE DEF Up
      <4> QED BY <2>2
    <3> HIDE DEF Up, u
    <3>2. u.i \in Node /\ u.i # 0
      BY <3>1, <2>3
    <3>3. Row(u.i) = 0 /\ Row(u.i) = Row(Parent(u.i)) + 1 /\ Parent(u.i) \in Node
      <4>1. Row(u.i) \in Nat /\ Row(u.i) + Depth <= Depth
        <5>1. Row(u.i) \in 0 .. Depth
          BY <3>2, RowOfNode
        <5>2. Row(u.i) + Depth <= Depth
          BY <2>2, <2>3 DEF u
        <5> QED BY <5>1, <5>2, <1>1
      <4> QED BY <4>1, <1>1, <3>2, ParentOfNode
    <3> QED BY <3>3, <1>1, RowOfNode
  <2> HIDE DEF Fine, Up
  <2> QED BY <2>2, <2>3
<1> QED
  <2> HIDE DEF Up
  <2> QED BY <1>6, <1>10

-----------------------------------------------------------------------------
(* Taking and giving back *)

\* A tree of entries that are right about the blocks given out, no two of which overlap.
Tree(r, G) ==
    /\ r \in [Node -> Nat] /\ G \subseteq Node /\ Apart(G)
    /\ \A j \in Node : Right(r, G, j)

\* The way down ends at a block of the size, none of which is given out.
LEMMA PositioningFinds ==
    ASSUME NEW G, Tree(rest, G), NEW d \in 0 .. Depth, Doubled[Depth - d] <= rest[0]
    PROVE  LET i == positioning(Doubled[Depth - d])
           IN  i \in Node /\ Row(i) = d /\ Full(i) = Doubled[Depth - d] /\ Unused(G, i)
<1> DEFINE s == Doubled[Depth - d]
           Chosen(x) == LET l == 2 * x + 1
                           r == 2 * x + 2
                       IN  IF GoesLeft(l, r, s) THEN l ELSE r
           round == [x \in Nat |-> Chosen(x)]
           F(f) == f = [k \in 0 .. Depth |-> IF k = 0 THEN 0 ELSE Chosen(f[k - 1])]
<1>1. /\ Depth \in Nat /\ Depth <= TotalSize /\ TotalSize \in Nat /\ LevelOf(s) = d /\ d \in Nat
      /\ \A k \in 0 .. TotalSize + 1 : Doubled[k] \in Nat /\ Doubled[k] > 0
  <2>1. Depth \in Nat /\ Depth <= TotalSize /\ TotalSize \in Nat
    BY SizesAgree, DoubledIs
  <2>2. LevelOf(s) = d
    BY SizesAgree
  <2> QED BY <2>1, <2>2, DoubledPositive
<1>2. s \in Nat /\ s > 0
  <2>1. Depth - d \in 0 .. TotalSize + 1
    BY <1>1
  <2> QED BY <2>1, <1>1
<1>3. PICK f \in [0 .. Depth -> Nat] : Loops(f, Depth, 0, round)
  <2>1. round \in [Nat -> Nat]
    <3>1. ASSUME NEW x \in Nat PROVE Chosen(x) \in Nat
      OBVIOUS
    <3> HIDE DEF Chosen
    <3> QED BY <3>1
  <2> HIDE DEF round
  <2> QED BY <1>1, <2>1, RoundsExist
<1>4. F(f)
  <2>1. ASSUME NEW k \in 0 .. Depth PROVE f[k] = IF k = 0 THEN 0 ELSE Chosen(f[k - 1])
    <3>1. CASE k = 0
      BY <3>1, <1>3 DEF Loops
    <3>2. CASE k # 0
      <4>1. k \in 1 .. Depth /\ k - 1 \in 0 .. Depth
        BY <1>1, <3>2
      <4>2. f[k] = round[f[k - 1]] /\ f[k - 1] \in Nat
        BY <4>1, <1>3 DEF Loops
      <4> HIDE DEF Chosen
      <4> QED BY <4>2, <3>2
    <3> QED BY <3>1, <3>2
  <2> HIDE DEF Chosen
  <2> QED BY <2>1, <1>3
<1> DEFINE Down == CHOOSE g : F(g)
<1>5. F(Down)
  <2> HIDE DEF F
  <2> QED BY <1>4
<1>6. positioning(s) = Down[d]
  <2>1. positioning(s) = Down[LevelOf(s)]
    BY DEF positioning
  <2> HIDE DEF Down
  <2> QED BY <2>1, <1>1
<1>7. Down[0] = 0 /\ \A k \in 0 .. Depth - 1 : Down[k + 1] = Chosen(Down[k])
  <2>1. 0 \in 0 .. Depth
    BY <1>1
  <2>2. \A k \in 0 .. Depth - 1 : k + 1 \in 0 .. Depth /\ k + 1 # 0 /\ (k + 1) - 1 = k
    BY <1>1
  <2>3. \A k \in 0 .. Depth : Down[k] = IF k = 0 THEN 0 ELSE Chosen(Down[k - 1])
    <3> HIDE DEF Down, Chosen
    <3> QED BY <1>5
  <2> HIDE DEF Down, Chosen
  <2> QED BY <2>1, <2>2, <2>3
<1>8. \A j \in Node : ~ StrictlyIn(G, j) => Exact(rest, G, j)
  BY EntriesAreExact DEF Tree
<1> DEFINE Good(i, k) == i \in Node /\ Row(i) = k /\ ~ StrictlyIn(G, i) /\ s <= rest[i]
           T == {k \in Nat : k <= d => Good(Down[k], k)}
<1>9. 0 \in T
  <2>1. ASSUME StrictlyIn(G, 0) PROVE FALSE
    <3>1. PICK g \in G : g # 0 /\ Span(0) \subseteq Span(g)
      BY <2>1 DEF StrictlyIn
    <3> QED BY <3>1, RowOfRoot, InsideUpwards DEF Tree
  <2>2. Good(0, 0)
    BY <2>1, RowOfRoot
  <2> HIDE DEF Down, Good
  <2> QED BY <1>7, <2>2
<1>10. ASSUME NEW k \in 0 .. Depth - 1, k \in T PROVE k + 1 \in T
  <2> DEFINE i == Down[k]
             l == 2 * i + 1
             r == 2 * i + 2
  <2>1. SUFFICES ASSUME k + 1 <= d PROVE Good(Down[k + 1], k + 1)
    <3> HIDE DEF Good, Down
    <3> QED BY <1>1
  <2>2. k \in Nat /\ k <= d /\ k < Depth /\ k # Depth
    BY <1>1, <2>1
  <2>3. Good(i, k)
    <3> HIDE DEF Good, Down
    <3> QED BY <1>10, <2>2
  <2>4. Down[k + 1] = Chosen(i)
    <3> HIDE DEF Down, Chosen
    <3> QED BY <1>7
  <2> HIDE DEF Down, i
  <2>5. /\ i \in Node /\ l \in Node /\ r \in Node /\ Row(l) = k + 1 /\ Row(r) = k + 1
        /\ Parent(l) = i /\ Parent(r) = i /\ l # 0 /\ r # 0
        /\ Full(r) = Full(l) /\ rest[l] \in Nat /\ rest[r] \in Nat
    <3>1. i \in Node /\ i \in Nat /\ Row(i) # Depth
      BY <2>2, <2>3, RowOfNode
    <3>2. l # 0 /\ r # 0
      BY <3>1
    <3>3. l \in Node /\ r \in Node /\ Row(l) = k + 1 /\ Row(r) = k + 1
          /\ Parent(l) = i /\ Parent(r) = i /\ Full(r) = Full(l)
      BY <3>1, <2>3, ChildrenHalve
    <3> HIDE DEF l, r
    <3> QED BY <3>1, <3>2, <3>3 DEF Tree
  <2>6. rest[i] = Raised(rest[l], rest[r], Full(l))
    <3>1. Right(rest, G, i) /\ rest[i] # 0 /\ Row(i) # Depth /\ ~ StrictlyIn(G, i)
      BY <2>2, <2>3, <1>2 DEF Tree
    <3>2. i \notin G
      BY <3>1 DEF Right
    <3>3. ~ Within(G, i)
      BY <3>1, <3>2 DEF Within, StrictlyIn
    <3> QED BY <3>1, <3>2, <3>3 DEF Right
  <2>7. ~ StrictlyIn(G, l) /\ ~ StrictlyIn(G, r)
    <3>1. i \notin G
      BY <2>2, <2>3, <1>2 DEF Tree, Right
    <3>2. ~ Within(G, i)
      BY <2>3, <3>1 DEF Within, StrictlyIn
    <3> HIDE DEF l, r
    <3> QED BY <2>5, <3>2, ChildrenOutside DEF Tree
  <2>8. s <= Full(l) /\ Full(l) \in Nat
    <3>1. Depth - d \in 0 .. TotalSize + 1 /\ Depth - (k + 1) \in 0 .. TotalSize + 1
          /\ Depth - d <= Depth - (k + 1)
      BY <1>1, <2>1, <2>2
    <3>2. Full(l) = Doubled[Depth - (k + 1)]
      BY <2>5 DEF Full
    <3>3. Depth - d = Depth - (k + 1) \/ Doubled[Depth - d] < Doubled[Depth - (k + 1)]
      BY <3>1, DoubledGrows
    <3> QED BY <3>1, <3>2, <3>3, <1>1
  <2>9. (GoesLeft(l, r, s) /\ s <= rest[l]) \/ (~ GoesLeft(l, r, s) /\ s <= rest[r])
    <3>1. s <= rest[l] \/ s <= rest[r]
      <4>1. s <= rest[i]
        BY <2>3
      <4> HIDE DEF s, l, r
      <4> QED BY <4>1, <1>2, <2>5, <2>6, <2>8 DEF Raised, Larger
    <3> HIDE DEF s, l, r
    <3> QED BY <3>1, <1>2, <2>5 DEF GoesLeft
  <2>10. Chosen(i) = IF GoesLeft(l, r, s) THEN l ELSE r
    OBVIOUS
  <2> HIDE DEF s, l, r, Chosen
  <2> QED BY <2>4, <2>5, <2>7, <2>9, <2>10
<1>11. Good(Down[d], d)
  <2>1. \A k \in 0 .. Depth : k \in T
    <3> HIDE DEF T
    <3> QED BY <1>1, <1>9, <1>10, RoundByRound
  <2> HIDE DEF Good, Down
  <2> QED BY <2>1, <1>1
<1> DEFINE i == Down[d]
<1>12. Full(i) = s
  BY <1>11 DEF Full
<1>13. rest[i] = Full(i)
  <2>1. i \in Node /\ Exact(rest, G, i) /\ s <= rest[i] /\ rest[i] \in Nat
    BY <1>8, <1>11 DEF Tree
  <2> HIDE DEF i, s
  <2> QED BY <2>1, <1>2, <1>12 DEF Exact
<1>14. Unused(G, i)
  BY <1>8, <1>11, <1>13 DEF Exact
<1> HIDE DEF Down, s
<1> QED BY <1>6, <1>11, <1>12, <1>14 DEF s

\* get: the entry of a spare block becomes 0, and its ancestors follow.
LEMMA TakingKeepsTree ==
    ASSUME NEW G, Tree(rest, G), NEW i \in Node, Unused(G, i)
    PROVE  Tree(Without(i, Full(i)), G \cup {i})
<1> DEFINE r0 == [rest EXCEPT ![i] = 0]
           H == G \cup {i}
<1>1. rest \in [Node -> Nat] /\ G \subseteq Node /\ Apart(G) /\ \A j \in Node : Right(rest, G, j)
  BY DEF Tree
<1>2. r0 \in [Node -> Nat] /\ r0[i] = 0 /\ \A j \in Node : j # i => r0[j] = rest[j]
  BY <1>1
<1>3. \A j \in Node : Start(j) \in Span(j)
  BY SpanFacts
<1>4. H \subseteq Node /\ Apart(H) /\ i \notin G
  <2>1. i \notin G
    BY <1>3 DEF Unused
  <2>2. Apart(H)
    BY <1>1, <2>1 DEF Apart, Unused
  <2> QED BY <1>1, <2>1, <2>2
<1>5. \A j \in Node : Span(j) \subseteq Span(i) => rest[j] = Full(j)
  <2> TAKE j \in Node
  <2> HAVE Span(j) \subseteq Span(i)
  <2>1. Unused(G, j)
    BY DEF Unused
  <2>2. ~ StrictlyIn(G, j)
    BY <1>3, <2>1 DEF Unused, StrictlyIn
  <2> QED BY <1>1, <2>1, <2>2, EntriesAreExact DEF Exact
<1>6. \A j \in Node : j # i /\ Span(i) \subseteq Span(j) => j \notin H /\ ~ Within(H, j)
  <2> TAKE j \in Node
  <2> HAVE j # i /\ Span(i) \subseteq Span(j)
  <2>1. \A g \in G : ~ (Span(j) \subseteq Span(g))
    BY <1>3 DEF Unused
  <2>2. ~ (Span(j) \subseteq Span(i))
    <3>1. SUFFICES ASSUME Span(j) \subseteq Span(i) PROVE FALSE
      OBVIOUS
    <3>2. Row(j) < Row(i) /\ Row(i) <= Row(j) /\ Row(i) \in Nat /\ Row(j) \in Nat
      <4>1. Row(i) \in 0 .. Depth /\ Row(j) \in 0 .. Depth /\ Depth \in Nat
        BY RowOfNode, SizesAgree
      <4> QED BY <4>1, <3>1, InsideUpwards
    <3> QED BY <3>2
  <2>3. j \notin G
    BY <2>1
  <2> QED BY <2>1, <2>2, <2>3 DEF Within
<1>7. ASSUME NEW j \in Node, i = 0 \/ j # Parent(i) PROVE Right(r0, H, j)
  <2>1. CASE j = i
    BY <2>1, <1>2 DEF Right
  <2>2. CASE j # i /\ Span(j) \subseteq Span(i)
    <3>1. j \notin G
      BY <1>3, <2>2 DEF Unused
    <3>2. j \notin H /\ Within(H, j)
      BY <3>1, <2>2 DEF Within
    <3>3. r0[j] = Full(j)
      BY <1>2, <1>5, <2>2
    <3> QED BY <3>2, <3>3 DEF Right
  <2>3. CASE ~ (Span(j) \subseteq Span(i))
    <3>1. j # i /\ (j \in H <=> j \in G) /\ (Within(H, j) <=> Within(G, j)) /\ r0[j] = rest[j]
      BY <1>2, <2>3 DEF Within
    <3>2. Right(rest, G, j)
      BY <1>1
    <3>3. Row(j) # Depth => r0[2 * j + 1] = rest[2 * j + 1] /\ r0[2 * j + 2] = rest[2 * j + 2]
      <4>1. SUFFICES ASSUME Row(j) # Depth
                     PROVE  r0[2 * j + 1] = rest[2 * j + 1] /\ r0[2 * j + 2] = rest[2 * j + 2]
        OBVIOUS
      <4>2. /\ 2 * j + 1 \in Node /\ 2 * j + 2 \in Node /\ j \in Nat
            /\ Parent(2 * j + 1) = j /\ Parent(2 * j + 2) = j
        BY <4>1, ChildrenHalve, RowOfNode
      <4>3. 2 * j + 1 # 0 /\ 2 * j + 2 # 0
        BY <4>2
      <4>4. 2 * j + 1 # i /\ 2 * j + 2 # i
        BY <4>2, <4>3, <1>7
      <4> QED BY <4>2, <4>4, <1>2
    <3> HIDE DEF r0, H
    <3> QED BY <3>1, <3>2, <3>3 DEF Right
  <2> QED BY <2>1, <2>2, <2>3
<1>8. \A j \in Node : r0[j] <= Full(j)
  <2> TAKE j \in Node
  <2>1. Full(j) \in Nat
    BY FullIs
  <2>2. CASE j = i
    BY <1>2, <2>1, <2>2
  <2>3. CASE j # i /\ StrictlyIn(G, j)
    <3>1. rest[j] = 0 \/ rest[j] = Full(j)
      BY <1>1, <2>3 DEF Right, StrictlyIn, Within
    <3> QED BY <3>1, <2>1, <2>3, <1>2
  <2>4. CASE j # i /\ ~ StrictlyIn(G, j)
    BY <1>1, <1>2, <2>4, EntriesAreExact DEF Exact
  <2> QED BY <2>2, <2>3, <2>4
<1>9. r0[i] < Full(i)
  BY <1>2, FullIs
<1>10. LET r == Climb(r0, i, Full(i), FALSE)
       IN  r \in [Node -> Nat] /\ \A j \in Node : Right(r, H, j)
  <2> HIDE DEF r0, H
  <2> QED BY <1>2, <1>6, <1>7, <1>8, <1>9, ClimbRights
<1>11. Without(i, Full(i)) = Climb(r0, i, Full(i), FALSE)
  BY DEF Without
<1> HIDE DEF r0
<1> QED BY <1>4, <1>10, <1>11 DEF Tree

\* The block of an entry, as a Buffer holds it.
BlockOf(i) == [at |-> Start(i), size |-> Full(i)]

LEMMA BlockOfEntry ==
    ASSUME NEW i \in Node
    PROVE  /\ location(BlockOf(i)) = i /\ BlockOf(i) # Null /\ BlockOf(i).size = Full(i)
           /\ Area(BlockOf(i)) = Span(i)
<1> DEFINE x == i + 1 - Doubled[Row(i)]
           f == Full(i)
<1>1. x \in Nat /\ f \in Nat /\ f > 0 /\ Start(i) = x * f /\ LevelOf(f) = Row(i)
  BY FullIs
<1>2. \A a, b \in Nat : b > 0 => (a * b) \div b = a
  <2> TAKE a \in Nat, b \in Nat
  <2> HAVE b > 0
  <2>1. (a * b) \div b \in Int /\ a * b \in Nat
    OBVIOUS
  <2> QED OBVIOUS
<1>3. Start(i) \div f = x
  <2> HIDE DEF x, f
  <2> QED BY <1>1, <1>2
<1>4. location(BlockOf(i)) = i
  <2>1. location(BlockOf(i)) = Doubled[Row(i)] - 1 + x
    <3> HIDE DEF x
    <3> QED BY <1>1, <1>3 DEF location, BlockOf
  <2>2. i \in Nat /\ Doubled[Row(i)] \in Nat
    <3>1. Row(i) \in 0 .. TotalSize + 1
      BY RowOfNode, SizesAgree, DoubledIs
    <3> QED BY <3>1, RowOfNode, DoubledIs
  <2> QED BY <2>1, <2>2
<1>5. BlockOf(i) # Null
  BY <1>1 DEF BlockOf, Null
<1> QED BY <1>4, <1>5 DEF BlockOf, Area, Span

\* put: the entry of the block becomes whole, and its ancestors follow.
LEMMA GivingKeepsTree ==
    ASSUME NEW r1, NEW G, Tree(r1, G), NEW i \in G
    PROVE  Tree(With(r1, BlockOf(i)), G \ {i})
<1> DEFINE r0 == [r1 EXCEPT ![i] = Full(i)]
           H == G \ {i}
<1>1. /\ r1 \in [Node -> Nat] /\ G \subseteq Node /\ Apart(G) /\ i \in Node
      /\ \A j \in Node : Right(r1, G, j)
  BY DEF Tree
<1>2. r0 \in [Node -> Nat] /\ r0[i] = Full(i) /\ \A j \in Node : j # i => r0[j] = r1[j]
  BY <1>1, FullIs
<1>3. \A j \in Node : Start(j) \in Span(j)
  BY SpanFacts
<1>4. H \subseteq Node /\ Apart(H)
  BY <1>1 DEF Apart
<1>5. \A g \in H : Span(g) \cap Span(i) = {}
  BY <1>1 DEF Apart
<1>6. \A j \in Node : j # i /\ Span(j) \subseteq Span(i) => r1[j] = Full(j) /\ j \notin G
  <2> TAKE j \in Node
  <2> HAVE j # i /\ Span(j) \subseteq Span(i)
  <2>1. j \notin G
    BY <1>3, <1>5
  <2> QED BY <1>1, <2>1 DEF Right, Within
<1>7. \A j \in Node : j # i /\ Span(i) \subseteq Span(j) => j \notin H /\ ~ Within(H, j)
  BY <1>1, <1>3, <1>5 DEF Within
<1>8. ASSUME NEW j \in Node, i = 0 \/ j # Parent(i) PROVE Right(r0, H, j)
  <2>1. CASE Span(j) \subseteq Span(i)
    <3>1. j \notin H /\ ~ Within(H, j)
      BY <1>3, <1>5, <2>1 DEF Within
    <3>2. r0[j] = Full(j)
      BY <1>2, <1>6, <2>1
    <3>3. CASE Row(j) = Depth
      BY <3>1, <3>2, <3>3 DEF Right
    <3>4. CASE Row(j) # Depth
      <4> DEFINE l == 2 * j + 1
                 q == 2 * j + 2
      <4>1. /\ l \in Node /\ q \in Node /\ Full(q) = Full(l) /\ Full(j) = 2 * Full(l)
            /\ Parent(l) = j /\ Parent(q) = j /\ Row(l) = Row(j) + 1 /\ Row(q) = Row(j) + 1
        BY <3>4, ChildrenHalve
      <4>2. Span(l) \subseteq Span(i) /\ Span(q) \subseteq Span(i)
        BY <3>4, <2>1, SpanOfChildren
      <4>3. l # i /\ q # i
        <5>1. Row(i) <= Row(j) /\ Row(i) \in Nat /\ Row(j) \in Nat
          <6>1. Row(i) \in 0 .. Depth /\ Row(j) \in 0 .. Depth /\ Depth \in Nat
            BY <1>1, RowOfNode, SizesAgree
          <6> QED BY <6>1, <1>1, <2>1, InsideUpwards
        <5> HIDE DEF l, q
        <5> QED BY <5>1, <4>1
      <4>4. r0[l] = Full(l) /\ r0[q] = Full(l)
        <5> HIDE DEF l, q, r0
        <5> QED BY <4>1, <4>2, <4>3, <1>2, <1>6
      <4>5. Raised(r0[l], r0[q], Full(l)) = Full(j)
        <5> HIDE DEF l, q, r0
        <5> QED BY <4>1, <4>4 DEF Raised
      <4> HIDE DEF r0, H
      <4> QED BY <4>5, <3>1, <3>2, <3>4 DEF Right
    <3> QED BY <3>3, <3>4
  <2>2. CASE ~ (Span(j) \subseteq Span(i))
    <3>1. j # i /\ (j \in H <=> j \in G) /\ (Within(H, j) <=> Within(G, j)) /\ r0[j] = r1[j]
      BY <1>2, <2>2 DEF Within
    <3>2. Right(r1, G, j)
      BY <1>1
    <3>3. Row(j) # Depth => r0[2 * j + 1] = r1[2 * j + 1] /\ r0[2 * j + 2] = r1[2 * j + 2]
      <4>1. SUFFICES ASSUME Row(j) # Depth
                     PROVE  r0[2 * j + 1] = r1[2 * j + 1] /\ r0[2 * j + 2] = r1[2 * j + 2]
        OBVIOUS
      <4>2. /\ 2 * j + 1 \in Node /\ 2 * j + 2 \in Node /\ j \in Nat
            /\ Parent(2 * j + 1) = j /\ Parent(2 * j + 2) = j
        BY <4>1, ChildrenHalve, RowOfNode
      <4>3. 2 * j + 1 # 0 /\ 2 * j + 2 # 0
        BY <4>2
      <4>4. 2 * j + 1 # i /\ 2 * j + 2 # i
        BY <4>2, <4>3, <1>8
      <4> QED BY <4>2, <4>4, <1>2
    <3> HIDE DEF r0, H
    <3> QED BY <3>1, <3>2, <3>3 DEF Right
  <2> QED BY <2>1, <2>2
<1>9. \A j \in Node : r0[j] <= Full(j)
  <2> TAKE j \in Node
  <2>1. Full(j) \in Nat
    BY FullIs
  <2>2. CASE j = i
    BY <1>2, <2>1, <2>2
  <2>3. CASE j # i /\ StrictlyIn(G, j)
    <3>1. r1[j] = 0 \/ r1[j] = Full(j)
      BY <1>1, <2>3 DEF Right, StrictlyIn, Within
    <3> QED BY <3>1, <2>1, <2>3, <1>2
  <2>4. CASE j # i /\ ~ StrictlyIn(G, j)
    BY <1>1, <1>2, <2>4, EntriesAreExact DEF Exact
  <2> QED BY <2>2, <2>3, <2>4
<1>10. LET r == Climb(r0, i, Full(i), TRUE)
       IN  r \in [Node -> Nat] /\ \A j \in Node : Right(r, H, j)
  <2>1. i \in Node
    BY <1>1
  <2> HIDE DEF r0, H
  <2> QED BY <2>1, <1>2, <1>7, <1>8, <1>9, ClimbRights
<1>11. With(r1, BlockOf(i)) = Climb(r0, i, Full(i), TRUE)
  BY <1>1, BlockOfEntry DEF With
<1> HIDE DEF r0
<1> QED BY <1>4, <1>10, <1>11 DEF Tree

-----------------------------------------------------------------------------
(* The pool *)

\* The entries of the blocks that a Buffer or all of them hold.
Of(b) == {i \in Node : b = BlockOf(i)}
Given(f) == {i \in Node : \E h \in Handle : f[h] = BlockOf(i)}

\* What the Buffer objects hold: blocks of entries, each of them one of its own.
Holding(f) ==
    /\ f \in [Handle -> {Null} \cup {BlockOf(i) : i \in Node}]
    /\ \A g, h \in Handle : g # h /\ f[g] = f[h] => f[g] = Null

PoolInv == Holding(held) /\ Tree(rest, Given(held))

LEMMA OfBlock ==
    /\ Of(Null) = {}
    /\ \A i \in Node : Of(BlockOf(i)) = {i}
    /\ \A i, j \in Node : BlockOf(i) = BlockOf(j) => i = j
<1>1. \A i, j \in Node : BlockOf(i) = BlockOf(j) => i = j
  <2> TAKE i, j \in Node
  <2>1. location(BlockOf(i)) = i /\ location(BlockOf(j)) = j
    BY BlockOfEntry
  <2> QED BY <2>1
<1>2. \A i \in Node : Null # BlockOf(i)
  BY BlockOfEntry
<1> QED BY <1>1, <1>2 DEF Of

\* A Buffer exchanges its block for another one that nobody holds.
LEMMA Exchange ==
    ASSUME NEW f, Holding(f), NEW h \in Handle, NEW new \in {Null} \cup {BlockOf(i) : i \in Node},
           Of(new) \cap Given(f) = {}
    PROVE  LET e == [f EXCEPT ![h] = new]
           IN  Holding(e) /\ Given(e) = (Given(f) \ Of(f[h])) \cup Of(new)
<1> DEFINE e == [f EXCEPT ![h] = new]
<1>1. /\ e \in [Handle -> {Null} \cup {BlockOf(i) : i \in Node}] /\ e[h] = new
      /\ \A g \in Handle : g # h => e[g] = f[g]
      /\ f \in [Handle -> {Null} \cup {BlockOf(i) : i \in Node}]
      /\ \A g, k \in Handle : g # k /\ f[g] = f[k] => f[g] = Null
  BY DEF Holding
<1> HIDE DEF e
<1>2. ASSUME NEW g \in Handle, g # h, f[g] = new PROVE new = Null
  <2>1. SUFFICES ASSUME NEW i \in Node, new = BlockOf(i) PROVE FALSE
    OBVIOUS
  <2>2. i \in Of(new) /\ i \in Given(f)
    BY <1>2, <2>1, OfBlock DEF Given
  <2> QED BY <2>2
<1>3. Holding(e)
  <2>1. ASSUME NEW g \in Handle, NEW k \in Handle, g # k, e[g] = e[k] PROVE e[g] = Null
    <3>1. CASE g = h
      BY <3>1, <2>1, <1>1, <1>2
    <3>2. CASE k = h
      BY <3>2, <2>1, <1>1, <1>2
    <3>3. CASE g # h /\ k # h
      BY <3>3, <2>1, <1>1
    <3> QED BY <3>1, <3>2, <3>3
  <2> QED BY <1>1, <2>1 DEF Holding
<1>4. ASSUME NEW i \in Node
      PROVE  i \in Given(e) <=> i \in (Given(f) \ Of(f[h])) \cup Of(new)
  <2>1. i \in Given(e) <=> new = BlockOf(i) \/ \E g \in Handle : g # h /\ f[g] = BlockOf(i)
    BY <1>1 DEF Given
  <2>2. i \in Of(new) <=> new = BlockOf(i)
    BY DEF Of
  <2>3. (\E g \in Handle : g # h /\ f[g] = BlockOf(i)) <=> i \in Given(f) \ Of(f[h])
    <3>1. ASSUME NEW g \in Handle, g # h, f[g] = BlockOf(i) PROVE f[h] # BlockOf(i)
      BY <3>1, <1>1, BlockOfEntry
    <3> QED BY <3>1 DEF Given, Of
  <2> QED BY <2>1, <2>2, <2>3
<1>5. Given(e) \subseteq Node /\ Given(f) \subseteq Node /\ Of(new) \subseteq Node
  BY DEF Given, Of
<1> QED BY <1>3, <1>4, <1>5 DEF e

LEMMA Drop ==
    ASSUME NEW f, Holding(f), NEW h \in Handle
    PROVE  LET e == [f EXCEPT ![h] = Null]
           IN  Holding(e) /\ Given(e) = Given(f) \ Of(f[h])
<1>1. Null \in {Null} \cup {BlockOf(i) : i \in Node} /\ Of(Null) = {}
  BY OfBlock
<1>2. Of(Null) \cap Given(f) = {}
  BY <1>1
<1> DEFINE none == Null
           e == [f EXCEPT ![h] = none]
<1>3. Holding(e) /\ Given(e) = (Given(f) \ Of(f[h])) \cup Of(none)
  <2>1. none \in {Null} \cup {BlockOf(i) : i \in Node} /\ Of(none) \cap Given(f) = {}
    BY <1>1, <1>2
  <2> HIDE DEF none
  <2> QED BY <2>1, Exchange
<1> QED BY <1>1, <1>3

\* put_back of a Buffer that holds a block, or of none.
LEMMA ReturnKeepsTree ==
    ASSUME NEW r, NEW f, Holding(f), NEW h \in Handle, NEW G, Tree(r, G), Of(f[h]) \subseteq G
    PROVE  Tree(IF f[h] = Null THEN r ELSE With(r, f[h]), G \ Of(f[h]))
<1>1. CASE f[h] = Null
  BY <1>1, OfBlock
<1>2. CASE f[h] # Null
  <2>1. PICK i \in Node : f[h] = BlockOf(i)
    BY <1>2 DEF Holding
  <2>2. Of(f[h]) = {i} /\ i \in G
    BY <2>1, OfBlock
  <2> QED BY <1>2, <2>1, <2>2, GivingKeepsTree
<1> QED BY <1>1, <1>2

\* round_size finds a power for whatever is asked for.
LEMMA RoundSizeIs ==
    ASSUME NEW n \in 0 .. Size + 1
    PROVE  round_size(n) \in Power
<1> DEFINE Fits(s) == s \in Power /\ s >= n /\ (s \div 2 < n \/ s = 1)
           T == {k \in 0 .. Depth + 1 : Doubled[k] >= n}
<1>1. /\ Depth \in Nat /\ Depth <= TotalSize /\ TotalSize \in Nat /\ Size = Doubled[Depth] /\ Size > 0
      /\ Size \in Nat /\ n \in Nat /\ \A k \in 0 .. TotalSize + 1 : Doubled[k] \in Nat
  <2>1. Depth \in Nat /\ Depth <= TotalSize /\ TotalSize \in Nat /\ Size = Doubled[Depth] /\ Size > 0
        /\ Size \in Nat
    BY SizesAgree, DoubledIs
  <2>2. n \in Nat
    BY <2>1
  <2> QED BY <2>1, <2>2, DoubledIs
<1>2. Depth + 1 \in T /\ T \subseteq Nat
  <2>1. Doubled[Depth + 1] = 2 * Doubled[Depth]
    <3>1. Depth + 1 \in 1 .. TotalSize + 1 /\ (Depth + 1) - 1 = Depth
      BY <1>1
    <3> QED BY <3>1, DoubledIs
  <2> QED BY <2>1, <1>1
<1>3. PICK k \in T : \A j \in T : k <= j
  <2> HIDE DEF T
  <2> QED BY <1>2, LeastOfAll
<1>4. k \in 0 .. TotalSize + 1 /\ Doubled[k] \in Nat /\ Doubled[k] >= n
  BY <1>1, <1>3
<1>5. Fits(Doubled[k])
  <2>1. Doubled[k] \in Power
    BY <1>4 DEF Power
  <2>2. k = 0 => Doubled[k] = 1
    BY DoubledIs
  <2>3. k # 0 => Doubled[k] \div 2 < n
    <3>1. SUFFICES ASSUME k # 0 PROVE Doubled[k] \div 2 < n
      OBVIOUS
    <3>2. k - 1 \in 0 .. Depth + 1 /\ k - 1 \in 0 .. TotalSize + 1 /\ k \in 1 .. TotalSize + 1
          /\ k - 1 \notin T
      BY <3>1, <1>1, <1>3, <1>4
    <3>3. Doubled[k - 1] < n /\ Doubled[k] = 2 * Doubled[k - 1] /\ Doubled[k - 1] \in Nat
      BY <3>2, <1>1, DoubledIs
    <3> QED BY <3>3, <1>1
  <2> QED BY <2>1, <2>2, <2>3, <1>4
<1>6. round_size(n) = CHOOSE s : Fits(s)
  BY DEF round_size
<1>7. Fits(round_size(n))
  <2> HIDE DEF Fits
  <2> QED BY <1>5, <1>6
<1> QED BY <1>7

LEMMA PoolStarts == PoolInit => PoolInv
<1> HAVE PoolInit
<1>1. held = [h \in Handle |-> Null] /\ rest = [i \in Node |-> Size \div Doubled[Row(i)]]
  BY DEF PoolInit
<1>2. Holding(held)
  BY <1>1 DEF Holding
<1>3. Given(held) = {}
  BY <1>1, BlockOfEntry DEF Given
<1>4. \A a, b \in Nat : a > 0 => (a * b) \div a = b
  <2> TAKE a \in Nat, b \in Nat
  <2> HAVE a > 0
  <2>1. (a * b) \div a \in Int /\ a * b \in Nat
    OBVIOUS
  <2> QED OBVIOUS
<1>5. ASSUME NEW i \in Node PROVE rest[i] = Full(i) /\ Full(i) \in Nat
  <2>1. Row(i) \in 0 .. Depth /\ Depth \in Nat /\ Depth <= TotalSize /\ TotalSize \in Nat
    BY RowOfNode, SizesAgree, DoubledIs
  <2>2. Row(i) \in 0 .. TotalSize + 1
    BY <2>1
  <2>3. Doubled[Row(i)] \in Nat /\ Doubled[Row(i)] > 0 /\ Full(i) \in Nat
    BY <2>2, DoubledPositive, FullIs
  <2>4. Doubled[Row(i)] * Full(i) = Size
    BY <2>1, SizesAgree DEF Full
  <2>5. Size \div Doubled[Row(i)] = Full(i)
    BY <2>3, <2>4, <1>4
  <2> QED BY <1>1, <2>3, <2>5
<1>6. rest \in [Node -> Nat]
  <2>1. \A i \in Node : rest[i] \in Nat
    BY <1>5
  <2> DEFINE R == [i \in Node |-> Size \div Doubled[Row(i)]]
  <2>2. rest = R
    BY <1>1
  <2>3. \A i \in Node : R[i] \in Nat
    BY <2>1, <2>2
  <2>4. R \in [Node -> Nat]
    BY <2>3
  <2> QED BY <2>2, <2>4
<1>7. ASSUME NEW j \in Node PROVE Right(rest, {}, j)
  <2>1. rest[j] = Full(j)
    BY <1>5
  <2>2. CASE Row(j) = Depth
    BY <2>1, <2>2 DEF Right, Within
  <2>3. CASE Row(j) # Depth
    <3>1. /\ 2 * j + 1 \in Node /\ 2 * j + 2 \in Node
          /\ Full(2 * j + 2) = Full(2 * j + 1) /\ Full(j) = 2 * Full(2 * j + 1)
      BY <2>3, ChildrenHalve
    <3>2. rest[2 * j + 1] = Full(2 * j + 1) /\ rest[2 * j + 2] = Full(2 * j + 1)
      BY <3>1, <1>5
    <3> QED BY <2>1, <2>3, <3>1, <3>2 DEF Right, Within, Raised
  <2> QED BY <2>2, <2>3
<1> QED BY <1>2, <1>3, <1>6, <1>7 DEF PoolInv, Tree, Apart

LEMMA GetKeeps ==
    ASSUME PoolInv, NEW h \in Handle, NEW n \in 0 .. Size + 1, Get(h, n)
    PROVE  PoolInv'
<1> DEFINE s == round_size(n)
           i == positioning(s)
           new == IF s > rest[0] THEN Null
                  ELSE [at |-> (i - (Doubled[LevelOf(s)] - 1)) * s, size |-> s]
           got == IF s > rest[0] THEN rest ELSE Without(i, s)
           put == held[h]
           G == Given(held)
<1>1. held' = [held EXCEPT ![h] = new] /\ rest' = IF put = Null THEN got ELSE With(got, put)
  BY DEF Get
<1>2. Holding(held) /\ Tree(rest, G) /\ Of(put) \subseteq G
  BY DEF PoolInv, Of, Given
<1>3. PICK d \in 0 .. TotalSize + 1 : s = Doubled[d]
  BY RoundSizeIs DEF Power
<1>4. s \in Nat /\ rest[0] \in Nat /\ rest[0] <= Size
  <2>1. rest[0] \in Nat
    BY <1>2, RowOfRoot DEF Tree
  <2>2. rest[0] <= Full(0)
    <3>1. ~ StrictlyIn(G, 0)
      <4>1. SUFFICES ASSUME NEW g \in G, g # 0, Span(0) \subseteq Span(g) PROVE FALSE
        BY DEF StrictlyIn
      <4> QED BY <4>1, <1>2, RowOfRoot, InsideUpwards DEF Tree
    <3> HIDE DEF G
    <3> QED BY <3>1, <1>2, RowOfRoot, EntriesAreExact DEF Tree, Exact
  <2> QED BY <2>1, <2>2, <1>3, RowOfRoot, DoubledIs
<1>5. /\ new \in {Null} \cup {BlockOf(j) : j \in Node} /\ Of(new) \cap G = {}
      /\ Tree(got, G \cup Of(new))
  <2>1. CASE s > rest[0]
    BY <2>1, <1>2, OfBlock
  <2>2. CASE ~ (s > rest[0])
    <3>1. d \in 0 .. Depth /\ Depth - d \in 0 .. Depth /\ Depth - (Depth - d) = d
          /\ Depth \in Nat
      <4>1. Depth \in 0 .. TotalSize + 1 /\ Depth \in Nat /\ TotalSize \in Nat /\ Size = Doubled[Depth]
        BY SizesAgree, DoubledIs
      <4>2. ~ (Depth < d)
        <5>1. Depth < d => Size < s
          BY <4>1, <1>3, DoubledGrows
        <5> HIDE DEF s
        <5>2. Size \in Nat
          BY SizesAgree, DoubledIs
        <5> QED BY <5>1, <5>2, <1>4, <2>2
      <4> QED BY <4>1, <4>2
    <3>2. s = Doubled[Depth - (Depth - d)] /\ s <= rest[0]
      <4> HIDE DEF s
      <4> QED BY <3>1, <1>3, <1>4, <2>2
    <3>3. i \in Node /\ Row(i) = Depth - d /\ Full(i) = s /\ Unused(G, i)
      <4> HIDE DEF G
      <4> QED BY <3>1, <3>2, <1>2, PositioningFinds
    <3>4. new = BlockOf(i)
      <4>1. new = [at |-> (i - (Doubled[LevelOf(s)] - 1)) * s, size |-> s]
        BY <2>2
      <4>2. LevelOf(s) = Row(i)
        <5> HIDE DEF s, i
        <5> QED BY <3>3, FullIs
      <4>3. i - (Doubled[Row(i)] - 1) = i + 1 - Doubled[Row(i)]
        <5>1. Row(i) \in 0 .. TotalSize + 1 /\ i \in Nat
          <6> HIDE DEF i
          <6> QED BY <3>3, RowOfNode, SizesAgree, DoubledIs
        <5>2. Doubled[Row(i)] \in Nat
          BY <5>1, DoubledIs
        <5> HIDE DEF i
        <5> QED BY <5>1, <5>2
      <4> HIDE DEF new, s, i
      <4> QED BY <4>1, <4>2, <4>3, <3>3 DEF BlockOf, Start
    <3>5. got = Without(i, Full(i))
      BY <2>2, <3>3
    <3> HIDE DEF new, got, i, s, G
    <3>6. Tree(got, G \cup {i})
      BY <3>3, <3>5, <1>2, TakingKeepsTree
    <3>7. i \notin G
      BY <3>3, SpanFacts DEF Unused
    <3> QED BY <3>3, <3>4, <3>6, <3>7, OfBlock
  <2> QED BY <2>1, <2>2
<1> HIDE DEF new, got, G
<1>6. Holding(held') /\ Given(held') = (G \ Of(put)) \cup Of(new)
  BY <1>1, <1>2, <1>5, Exchange DEF G
<1>7. Tree(rest', (G \cup Of(new)) \ Of(put))
  BY <1>1, <1>2, <1>5, ReturnKeepsTree
<1>8. (G \cup Of(new)) \ Of(put) = Given(held')
  BY <1>2, <1>5, <1>6
<1> QED BY <1>6, <1>7, <1>8 DEF PoolInv

LEMMA PutBackKeeps ==
    ASSUME PoolInv, NEW h \in Handle, PutBack(h)
    PROVE  PoolInv'
<1>1. held' = [held EXCEPT ![h] = Null] /\ rest' = With(rest, held[h]) /\ held[h] # Null
  BY DEF PutBack
<1>2. Holding(held) /\ Tree(rest, Given(held)) /\ Of(held[h]) \subseteq Given(held)
  BY DEF PoolInv, Of, Given
<1>3. Holding(held') /\ Given(held') = Given(held) \ Of(held[h])
  BY <1>1, <1>2, Drop
<1>4. Tree(rest', Given(held) \ Of(held[h]))
  BY <1>1, <1>2, ReturnKeepsTree
<1> QED BY <1>3, <1>4 DEF PoolInv

LEMMA MoveKeeps ==
    ASSUME PoolInv, NEW g \in Handle, NEW h \in Handle, Move(g, h)
    PROVE  PoolInv'
<1> DEFINE e == [held EXCEPT ![h] = Null]
<1>1. Holding(held) /\ Tree(rest, Given(held))
      /\ Of(held[h]) \subseteq Given(held) /\ Of(held[g]) \subseteq Given(held)
  BY DEF PoolInv, Of, Given
<1>2. Tree(rest', Given(held) \ Of(held[g]))
  <2>1. rest' = IF held[g] = Null THEN rest ELSE With(rest, held[g])
    BY DEF Move
  <2> QED BY <1>1, <2>1, ReturnKeepsTree
<1>3. Holding(e) /\ Given(e) = Given(held) \ Of(held[h])
  BY <1>1, Drop
<1>4. Holding(held') /\ Given(held') = Given(held) \ Of(held[g])
  <2>1. CASE g = h
    <3>1. held' = e
      BY <1>1, <2>1 DEF Move, Holding
    <3> HIDE DEF e
    <3> QED BY <3>1, <2>1, <1>3
  <2>2. CASE g # h
    <3>1. held' = [e EXCEPT ![g] = held[h]]
      BY <1>1, <2>2 DEF Move, Holding
    <3>2. e[g] = held[g] /\ held[h] \in {Null} \cup {BlockOf(j) : j \in Node}
      BY <1>1, <2>2 DEF Holding
    <3>3. Of(held[g]) \cap Of(held[h]) = {}
      BY <1>1, <2>2, BlockOfEntry DEF Holding, Of
    <3> HIDE DEF e
    <3>4. Holding(held') /\ Given(held') = (Given(e) \ Of(held[g])) \cup Of(held[h])
      <4>1. Of(held[h]) \cap Given(e) = {}
        BY <1>3
      <4>2. Given([e EXCEPT ![g] = held[h]]) = (Given(e) \ Of(e[g])) \cup Of(held[h])
            /\ Holding([e EXCEPT ![g] = held[h]])
        <5> DEFINE b == held[h]
        <5>1. b \in {Null} \cup {BlockOf(j) : j \in Node} /\ Of(b) \cap Given(e) = {}
          BY <3>2, <4>1
        <5>2. Given([e EXCEPT ![g] = b]) = (Given(e) \ Of(e[g])) \cup Of(b)
              /\ Holding([e EXCEPT ![g] = b])
          <6> HIDE DEF b
          <6> QED BY <5>1, <1>3, Exchange
        <5> QED BY <5>2
      <4> QED BY <4>2, <3>1, <3>2
    <3> QED BY <3>3, <3>4, <1>1, <1>3
  <2> QED BY <2>1, <2>2
<1> QED BY <1>2, <1>4 DEF PoolInv

LEMMA PoolStays == PoolInv /\ [PoolNext]_poolVars => PoolInv'
<1> SUFFICES ASSUME PoolInv, [PoolNext]_poolVars PROVE PoolInv'
  OBVIOUS
<1>1. ASSUME NEW h \in Handle, NEW n \in 0 .. Size + 1, Get(h, n) PROVE PoolInv'
  BY <1>1, GetKeeps
<1>2. ASSUME NEW h \in Handle, PutBack(h) PROVE PoolInv'
  BY <1>2, PutBackKeeps
<1>3. ASSUME NEW g \in Handle, NEW h \in Handle, Move(g, h) PROVE PoolInv'
  BY <1>3, MoveKeeps
<1>4. CASE UNCHANGED poolVars
  BY <1>4 DEF PoolInv, Holding, Given, Tree, Right, poolVars
<1> QED BY <1>1, <1>2, <1>3, <1>4 DEF PoolNext

\* The blocks nobody has are those of spare entries.
LEMMA FreeBlocks ==
    ASSUME PoolInv
    PROVE  FreeSizes = {Full(m) : m \in {j \in Node : Unused(Given(held), j)}}
<1> DEFINE G == Given(held)
<1>1. Holding(held) /\ G \subseteq Node
  BY DEF PoolInv, Given
<1>2. \A h \in Handle : held[h] # Null => \E i \in G : held[h] = BlockOf(i)
  BY <1>1 DEF Holding, Given
<1>3. Used = UNION {Span(i) : i \in G}
  <2>1. ASSUME NEW x, x \in Used PROVE \E i \in G : x \in Span(i)
    <3>1. PICK h \in Handle : held[h] # Null /\ x \in Area(held[h])
      BY <2>1 DEF Used
    <3>2. PICK i \in G : held[h] = BlockOf(i)
      BY <3>1, <1>2
    <3> QED BY <3>1, <3>2, <1>1, BlockOfEntry
  <2>2. ASSUME NEW i \in G, NEW x \in Span(i) PROVE x \in Used
    <3>1. PICK h \in Handle : held[h] = BlockOf(i)
      BY DEF Given
    <3>2. held[h] # Null /\ Area(held[h]) = Span(i)
      BY <3>1, <1>1, BlockOfEntry
    <3> QED BY <3>2 DEF Used
  <2> QED BY <2>1, <2>2
<1>4. \A j \in Node : Unused(G, j) <=> Span(j) \cap Used = {}
  BY <1>3 DEF Unused
<1>5. Size \in Nat /\ \A k \in 0 .. TotalSize + 1 : Doubled[k] \in Nat /\ Doubled[k] > 0
  BY SizesAgree, DoubledIs, DoubledPositive
<1>6. ASSUME NEW s \in Power, NEW k \in 0 .. Size, k * s + s <= Size
      PROVE  \E m \in Node : Full(m) = s /\ Span(m) = k * s .. k * s + s - 1
  <2>1. PICK d \in 0 .. TotalSize + 1 : s = Doubled[d]
    BY DEF Power
  <2>2. s \in Nat /\ s > 0 /\ k \in Nat /\ d \in Nat
    BY <1>5, <2>1
  <2>3. Depth \in Nat /\ Depth <= TotalSize /\ TotalSize \in Nat /\ Size = Doubled[Depth]
        /\ Depth \in 0 .. TotalSize + 1
    BY SizesAgree, DoubledIs
  <2>4. s <= Size
    <3>1. k * s \in Nat
      BY <2>2
    <3> QED BY <3>1, <2>2, <1>5, <1>6
  <2>5. ~ (Depth < d)
    <3>1. Depth < d => Size < s
      BY <2>1, <2>3, DoubledGrows
    <3> QED BY <3>1, <2>2, <2>4, <1>5
  <2> DEFINE w == Doubled[Depth - d]
             m == w - 1 + k
  <2>6. Depth - d \in 0 .. Depth /\ Depth - d \in 0 .. TotalSize + 1 /\ d \in 0 .. Depth
        /\ Depth - (Depth - d) = d
    BY <2>2, <2>3, <2>5
  <2>7. w \in Nat /\ w > 0 /\ w * s = Size
    <3>1. Doubled[Depth - d] * Doubled[Depth - (Depth - d)] = Size
      BY <2>6, SizesAgree
    <3> QED BY <3>1, <2>1, <2>6, <1>5
  <2>8. k < w
    <3>1. \A a, b, c \in Nat : c > 0 /\ a >= b => a * c >= b * c
      OBVIOUS
    <3>2. k >= w => k * s >= w * s
      <4> HIDE DEF w
      <4> QED BY <3>1, <2>2, <2>7
    <3>3. k * s \in Nat
      BY <2>2
    <3> HIDE DEF w
    <3> QED BY <3>2, <3>3, <2>2, <2>7, <1>5, <1>6
  <2>9. m \in Node /\ Row(m) = Depth - d
    <3>1. m \in Nat /\ w <= m + 1 /\ m + 1 < 2 * w
      <4> HIDE DEF w
      <4> QED BY <2>2, <2>7, <2>8
    <3> HIDE DEF m
    <3> QED BY <3>1, <2>6, RowIs
  <2>10. Full(m) = s
    <3> HIDE DEF m
    <3> QED BY <2>1, <2>6, <2>9 DEF Full
  <2>11. Start(m) = k * s
    <3>1. m + 1 - w = k
      <4> HIDE DEF w
      <4> QED BY <2>2, <2>7
    <3>2. Start(m) = (m + 1 - w) * Full(m)
      <4> HIDE DEF m
      <4> QED BY <2>9 DEF Start
    <3> HIDE DEF m, w
    <3> QED BY <3>1, <3>2, <2>10
  <2> HIDE DEF m
  <2> QED BY <2>9, <2>10, <2>11 DEF Span
<1>7. ASSUME NEW m \in Node
      PROVE  /\ Full(m) \in Power
             /\ \E k \in 0 .. Size : k * Full(m) + Full(m) <= Size
                                     /\ Span(m) = k * Full(m) .. k * Full(m) + Full(m) - 1
  <2> DEFINE k == m + 1 - Doubled[Row(m)]
             f == Full(m)
  <2>1. k \in Nat /\ f \in Nat /\ f > 0 /\ Start(m) = k * f /\ Start(m) + f <= Size /\ f \in Power
    BY FullIs
  <2>2. k <= Size
    <3>1. \A a, b \in Nat : b > 0 => a <= a * b
      OBVIOUS
    <3>2. k <= k * f /\ k * f \in Nat
      <4> HIDE DEF k, f
      <4> QED BY <3>1, <2>1
    <3> HIDE DEF k, f
    <3> QED BY <3>2, <2>1, <1>5
  <2>3. Span(m) = k * f .. k * f + f - 1
    <3> HIDE DEF k
    <3> QED BY <2>1 DEF Span
  <2>4. k \in 0 .. Size
    <3> HIDE DEF k
    <3> QED BY <2>1, <2>2, <1>5
  <2> HIDE DEF k
  <2> QED BY <2>1, <2>3, <2>4
<1>8. ASSUME NEW s, s \in FreeSizes PROVE \E m \in Node : Full(m) = s /\ Unused(G, m)
  <2>1. s \in Power /\ \E k \in 0 .. Size : k * s + s <= Size
                                          /\ (k * s .. k * s + s - 1) \cap Used = {}
    BY <1>8 DEF FreeSizes
  <2> QED BY <2>1, <1>4, <1>6
<1>9. ASSUME NEW m \in Node, Unused(G, m) PROVE Full(m) \in FreeSizes
  BY <1>4, <1>7, <1>9 DEF FreeSizes
<1> QED BY <1>8, <1>9

LEMMA PoolIsSound == PoolInv => PoolSound
<1> SUFFICES ASSUME PoolInv PROVE PoolSound
  OBVIOUS
<1> DEFINE G == Given(held)
<1>1. Holding(held) /\ Tree(rest, G)
  BY DEF PoolInv
<1>2. \A h \in Handle : held[h] = Null \/ \E i \in G : held[h] = BlockOf(i)
  BY <1>1 DEF Holding, Given
<1>3. ASSUME NEW h \in Handle, held[h] # Null PROVE Area(held[h]) \subseteq 0 .. TotalSize - 1
  <2>1. PICK i \in G : held[h] = BlockOf(i)
    BY <1>2, <1>3
  <2>2. i \in Node /\ Area(held[h]) = Span(i)
    BY <2>1, <1>1, BlockOfEntry DEF Tree
  <2> QED BY <2>2, SpanFacts, SizesAgree
<1>4. ASSUME NEW g \in Handle, NEW h \in Handle, g # h PROVE Area(held[g]) \cap Area(held[h]) = {}
  <2>1. Area(Null) = {}
    BY DEF Area, Null
  <2>2. SUFFICES ASSUME held[g] # Null, held[h] # Null PROVE Area(held[g]) \cap Area(held[h]) = {}
    BY <2>1
  <2>3. PICK i \in G, j \in G : held[g] = BlockOf(i) /\ held[h] = BlockOf(j)
    BY <1>2, <2>2
  <2>4. i # j
    BY <1>1, <1>4, <2>2, <2>3 DEF Holding
  <2>5. Area(held[g]) = Span(i) /\ Area(held[h]) = Span(j)
    BY <2>3, <1>1, BlockOfEntry DEF Tree
  <2> QED BY <2>4, <2>5, <1>1 DEF Tree, Apart
<1>5. BuffersDisjoint
  BY <1>3, <1>4 DEF BuffersDisjoint
<1>6. Exact(rest, G, 0)
  <2>1. ~ StrictlyIn(G, 0)
    <3>1. SUFFICES ASSUME NEW g \in G, g # 0, Span(0) \subseteq Span(g) PROVE FALSE
      BY DEF StrictlyIn
    <3> QED BY <3>1, <1>1, RowOfRoot, InsideUpwards DEF Tree
  <2> HIDE DEF G
  <2> QED BY <2>1, <1>1, RowOfRoot, EntriesAreExact DEF Tree
<1>7. \A m \in Node : Span(m) \subseteq Span(0)
  <2>1. Span(0) = 0 .. Size - 1
    <3>1. Size \in Nat
      BY SizesAgree, DoubledIs
    <3> QED BY <3>1, RowOfRoot DEF Span
  <2> QED BY <2>1, SpanFacts
<1>8. FreeSizes = {Full(m) : m \in {j \in Node : Unused(G, j)}}
  BY FreeBlocks
<1>9. /\ rest[0] # 0 => rest[0] \in FreeSizes
      /\ \A t \in FreeSizes : t <= rest[0] /\ t \in Nat /\ t > 0
      /\ rest[0] \in Nat
  <2>1. rest[0] \in Nat
    BY <1>1, RowOfRoot DEF Tree
  <2> HIDE DEF G
  <2> QED BY <2>1, <1>6, <1>7, <1>8, FullIs DEF Exact
<1>10. MaxBlockExact
  <2>1. CASE FreeSizes = {}
    BY <2>1, <1>9 DEF MaxBlockExact
  <2>2. CASE FreeSizes # {}
    <3> DEFINE Top(s) == s \in FreeSizes /\ \A t \in FreeSizes : t <= s
    <3>1. Top(rest[0])
      BY <2>2, <1>9
    <3>2. \A s : Top(s) => s = rest[0]
      BY <3>1, <1>9
    <3>3. rest[0] = CHOOSE s : Top(s)
      <4> HIDE DEF Top
      <4> QED BY <3>1, <3>2
    <3> QED BY <2>2, <3>3 DEF MaxBlockExact
  <2> QED BY <2>1, <2>2
<1> QED BY <1>5, <1>10 DEF PoolSound

\* PoolSound: whatever buffers are taken, moved and put back in whatever order, no
\* two overlap and none leaves the pool's memory, and Max_block is the largest block
\* that is still free, so that get fails only if there is none and a pool that nobody
\* uses is whole again.
THEOREM PoolAlwaysSound == PoolSpec => []PoolSound
<1>1. PoolInit => PoolInv
  BY PoolStarts
<1>2. PoolInv /\ [PoolNext]_poolVars => PoolInv'
  BY PoolStays
<1>3. PoolInv => PoolSound
  BY PoolIsSound
<1> QED BY <1>1, <1>2, <1>3, PTL DEF PoolSpec

=============================================================================
