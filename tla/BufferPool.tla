----------------------------- MODULE BufferPool -----------------------------
(***************************************************************************)
(* Base::BufferPool (Base/Buffer): a buddy allocator.  _rest is a complete *)
(* binary tree; an entry is the largest block that can still be had below  *)
(* it, and what lies below a block given out is left as it was.  Every     *)
(* operation runs under _mutex.  Sizes and offsets count BLOCK_SIZEs.      *)
(***************************************************************************)
EXTENDS Integers, FiniteSets

CONSTANTS
    Handle,      \* the Buffer objects of the pool's users
    TotalSize    \* total_size given to the constructor

\* 1 << k
Doubled[k \in 0 .. TotalSize + 1] == IF k = 0 THEN 1 ELSE 2 * Doubled[k - 1]

\* As for the program's pools.  The constructor allocates total_size as it is given,
\* and the tree manages the next power of two.
ASSUME PoolAssumption ==
    TotalSize \in Nat /\ \E k \in 0 .. TotalSize : TotalSize = Doubled[k]

VARIABLES
    rest,        \* _rest
    held         \* handle -> its _buf (an offset) and _size, or Null

poolVars == <<rest, held>>

Power == {Doubled[k] : k \in 0 .. TotalSize + 1}

\* BLOCK_SIZE doubled until it is large enough; 0 asks for one block too.
round_size(target) == CHOOSE s \in Power : s >= target /\ (s \div 2 < target \/ s = 1)

Size == round_size(TotalSize)

\* The depth in the tree of the blocks of a size, and of the smallest ones.
LevelOf(s) == CHOOSE k \in 0 .. Size : s * Doubled[k] = Size
Depth == LevelOf(1)

Node == 0 .. 2 * Size - 2
Null == [at |-> 0, size |-> 0]
Buffer == [at : 0 .. Size - 1, size : Power]

-----------------------------------------------------------------------------
(* The tree *)

\* The entries of one size are a row: 0, then 1 and 2, then 3 to 6 and so on.
Row(i) == CHOOSE k \in 0 .. Depth : Doubled[k] <= i + 1 /\ i + 1 < Doubled[k + 1]

Parent(i)  == (i - 1) \div 2
Sibling(i) == IF i % 2 = 1 THEN i + 1 ELSE i - 1
Larger(a, b) == IF a > b THEN a ELSE b

\* positioning goes left: the smaller child that is large enough, or the only one.
GoesLeft(l, r, size) == rest[r] < size \/ (rest[l] >= size /\ rest[l] <= rest[r])

positioning(size) ==
    LET Down[k \in 0 .. Depth] ==
            IF k = 0 THEN 0
            ELSE LET l == 2 * Down[k - 1] + 1
                     r == 2 * Down[k - 1] + 2
                 IN  IF GoesLeft(l, r, size) THEN l ELSE r
    IN  Down[LevelOf(size)]

location(b) == Doubled[LevelOf(b.size)] - 1 + b.at \div b.size

MutNeverMerges(a, b, fs) == Larger(a, b)

\* An entry after put; two whole siblings, of the full size fs, are one block again.
Raised(a, b, fs) == IF a = fs /\ fs = b THEN 2 * fs ELSE Larger(a, b)

\* The loop of get and of put (putting) that renews the ancestors of i, until one
\* is right.
Climb(r0, i0, fs0, putting) ==
    LET Up[k \in 0 .. Depth] ==
            IF k = 0 THEN [rest |-> r0, i |-> i0, fs |-> fs0, done |-> i0 = 0]
            ELSE LET u  == Up[k - 1]
                     p  == Parent(u.i)
                     a  == u.rest[u.i]
                     b  == u.rest[Sibling(u.i)]
                     ms == IF putting THEN Raised(a, b, u.fs) ELSE Larger(a, b)
                 IN  IF u.done THEN u
                     ELSE IF u.rest[p] = ms THEN [u EXCEPT !.done = TRUE]
                     ELSE [rest |-> [u.rest EXCEPT ![p] = ms], i |-> p,
                           fs |-> 2 * u.fs, done |-> p = 0]
    IN  Up[Depth].rest

Without(i, size) == Climb([rest EXCEPT ![i] = 0], i, size, FALSE)
With(r, b) == Climb([r EXCEPT ![location(b)] = b.size], location(b), b.size, TRUE)

-----------------------------------------------------------------------------
(* Operations *)

\* h = pool.get(n): the new buffer is taken before h's old one is put back.
Get(h, n) ==
    LET s   == round_size(n)
        i   == positioning(s)
        new == IF s > rest[0] THEN Null
               ELSE [at |-> (i - (Doubled[LevelOf(s)] - 1)) * s, size |-> s]
        got == IF s > rest[0] THEN rest ELSE Without(i, s)
        put == held[h]
    IN  /\ held' = [held EXCEPT ![h] = new]
        /\ rest' = IF put = Null THEN got ELSE With(got, put)

\* put_back and the destructor of a Buffer
PutBack(h) ==
    /\ held[h] # Null
    /\ rest' = With(rest, held[h])
    /\ held' = [held EXCEPT ![h] = Null]

\* The move assignment g = std::move(h), also where both are one object.
Move(g, h) ==
    /\ rest' = IF held[g] = Null THEN rest ELSE With(rest, held[g])
    /\ held' = [[held EXCEPT ![g] = IF g = h THEN Null ELSE held[h]] EXCEPT ![h] = Null]

-----------------------------------------------------------------------------
PoolInit ==
    /\ rest = [i \in Node |-> Size \div Doubled[Row(i)]]
    /\ held = [h \in Handle |-> Null]

PoolNext ==
    \E h \in Handle :
        \/ \E n \in 0 .. Size + 1 : Get(h, n)
        \/ PutBack(h)
        \/ \E g \in Handle : Move(g, h)

PoolSpec == PoolInit /\ [][PoolNext]_poolVars

-----------------------------------------------------------------------------
Area(b) == b.at .. b.at + b.size - 1

Used == UNION {Area(held[h]) : h \in {g \in Handle : held[g] # Null}}

\* No two users write to the same memory, and none outside of what the
\* constructor allocated.
BuffersDisjoint ==
    \A g, h \in Handle :
        /\ held[g] # Null => Area(held[g]) \subseteq 0 .. TotalSize - 1
        /\ g # h => Area(held[g]) \cap Area(held[h]) = {}

\* The aligned blocks of which nothing is given out.
FreeSizes ==
    {s \in Power : \E k \in 0 .. Size : k * s + s <= Size
                                        /\ (k * s .. k * s + s - 1) \cap Used = {}}

\* Max_block is exact, whatever order buffers were taken and put back in: get
\* fails only if no aligned block of the size is free, neighbours that were put
\* back are one block again, and a pool nobody uses passes its destructor.
MaxBlockExact ==
    rest[0] = IF FreeSizes = {} THEN 0 ELSE CHOOSE s \in FreeSizes : \A t \in FreeSizes : t <= s

\* Both: what the allocator promises its users.
PoolSound == BuffersDisjoint /\ MaxBlockExact

=============================================================================
