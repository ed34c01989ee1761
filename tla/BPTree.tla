------------------------------- MODULE BPTree -------------------------------
(***************************************************************************)
(* Base::BPTree over BPTree_impl (Base/BPTree_impls): a B+ tree in the     *)
(* blocks of a file.  Block 0 is the header; a block is addressed by its   *)
(* index, a place in it by its position.  Deleted blocks are listed in the *)
(* header and, once that is full, in a stack of record blocks that are     *)
(* deleted blocks themselves.                                              *)
(*                                                                         *)
(* The tree is used by one thread.  Blocks are read and written in place:  *)
(* BlockCache keeps what is put back.  Values have a fixed size, as in all *)
(* the program's trees (the code for others does not compile).             *)
(***************************************************************************)
EXTENDS Integers, Sequences, FiniteSets

CONSTANTS
    Key, Value,             \* of the tree; keys are integers
    Pair,                   \* bytes of a pair, in data and in index blocks
    DataRoom, IndexRoom,    \* MaxBlockSize: bytes of a block without its head
    HeadRoom, RecordRoom,   \* deleted blocks that the header, a record block can list
    MaxTotal                \* bound: blocks in the file

ASSUME TreeAssumption ==
    /\ Key \subseteq Int
    /\ DataRoom >= 2 * Pair /\ IndexRoom >= 2 * Pair
    /\ HeadRoom > 0 /\ RecordRoom > 0

VARIABLES
    tree,        \* the file's blocks, its header and BPTree_impl's fields
    call,        \* history: the last call, its arguments, what it returned, and
                 \* whether it evened out two end blocks upwards under two parents
    torn         \* history: the erase of a range has evened out its two end blocks
                 \* upwards although their parent has entries between them

treeVars == <<tree, call, torn>>

\* Blocks: items are <<key, value>>, <<key, index of the child>> or indices.
DataBlock(items, prev, next) == [kind |-> "data", items |-> items, prev |-> prev, next |-> next]
IndexBlock(items) == [kind |-> "index", items |-> items]
RecordBlock(items, last) == [kind |-> "record", items |-> items, last |-> last]
Deleted == [kind |-> "deleted"]

\* IterKey: a block and its first key; at = 0 is the invalid one.
NoBlock == [at |-> 0, key |-> 0]

Items(t, i) == t.blocks[i].items
IsData(t, i) == t.blocks[i].kind = "data"
SetItems(t, i, s) == [t EXCEPT !.blocks[i].items = s]
FirstKey(t, i) == Items(t, i)[1][1]
IterKey(t, i) == [at |-> i, key |-> FirstKey(t, i)]

Take(s, n) == SubSeq(s, 1, n)
From(s, n) == SubSeq(s, n + 1, Len(s))
Last(s) == s[Len(s)]
Front(s) == Take(s, Len(s) - 1)
Put(s, i, x) == Take(s, i - 1) \o <<x>> \o From(s, i - 1)
Cut(s, i, j) == Take(s, i - 1) \o From(s, j - 1)
RemoveItem(s, i) == Cut(s, i, i + 1)
SetValue(s, i, v) == [s EXCEPT ![i] = <<@[1], v>>]
SetKey(s, i, k) == [s EXCEPT ![i] = <<k, @[2]>>]

-----------------------------------------------------------------------------
(* DataBlock_Impl and IndexBlock_Impl *)

Fits(s, room) == Len(s) * Pair + Pair <= room
HalfFull(s, room) == Len(s) * Pair > room \div 2

\* lower_bound: the binary search over the positions from b to e.
RECURSIVE Search(_, _, _, _)
Search(s, k, b, e) ==
    LET mid == b + (e - b) \div 2
    IN  IF b = e THEN e
        ELSE IF s[mid][1] < k THEN Search(s, k, mid + 1, e)
        ELSE IF s[mid][1] = k THEN mid
        ELSE Search(s, k, b, mid)

lower_bound(s, k) == Search(s, k, 1, Len(s) + 1)

\* move_other_block_data: n pairs of src, from position from on, go to dest
\* before its position at.
move_other_block_data(dest, at, src, from, n) ==
    <<Take(dest, at - 1) \o SubSeq(src, from, from + n - 1) \o From(dest, at - 1),
      Cut(src, from, from + n)>>

\* split, with the pair x that did not fit: this block's pairs and the new one's
split(s, x) ==
    LET half == (Len(s) + 1) \div 2
        pos  == lower_bound(s, x[1]) - 1
        kept == IF pos < half THEN half - 1 ELSE half
        m    == move_other_block_data(<<>>, 1, s, kept + 1, Len(s) - kept)
    IN  IF pos < half THEN <<Put(m[2], pos + 1, x), m[1]>>
        ELSE <<m[2], Put(m[1], pos - half + 1, x)>>

\* The same of an index block, whose pairs are keys and children.
index_split(s, x) == split(s, x)

\* merge: the other block's pairs behind this one's
merge(s, u) == s \o u

MutAverageLoses(s, u) ==
    LET half == (Len(s) + Len(u)) \div 2
        move == Len(u) - half
    IN  IF Len(s) > Len(u) THEN <<Take(s, half), u>> ELSE <<s \o Take(u, move), From(u, move)>>

\* average of two neighbours
average(s, u) ==
    LET half == (Len(s) + Len(u)) \div 2
        up   == move_other_block_data(u, 1, s, half + 1, Len(s) - half)
        down == move_other_block_data(s, Len(s) + 1, u, 1, Len(u) - half)
    IN  IF Len(s) > Len(u) THEN <<up[2], up[1]>> ELSE down

Distance(a, b) == IF a > b THEN a - b ELSE b - a

merge_keep_average(s, u, room) ==
    IF (Len(s) + Len(u)) * Pair <= room THEN "merge"
    ELSE IF Distance(Len(s), Len(u)) * Pair < room \div 2 THEN "keep" ELSE "average"

-----------------------------------------------------------------------------
(* BPTree_impl: the blocks in use and the deleted ones *)

\* begin_block and set_begin_block: the root, 0 for none
begin_block(t) == t.begin
set_begin_block(t, i) == [t EXCEPT !.begin = i]

\* get_new_block_index: the last of the deleted blocks
Reuse(t) ==
    LET r == t.blocks[t.record]
    IN  IF t.record = 0
        THEN [at |-> Last(t.list),
              t  |-> [t EXCEPT !.list = Front(@), !.deleted = @ - 1]]
        ELSE [at |-> Last(r.items),
              t  |-> [t EXCEPT !.blocks[t.record].items = Front(@), !.deleted = @ - 1,
                               !.record = IF Len(r.items) = 1 THEN r.last ELSE @]]

\* create_data_block and create_index_block
Create(t, block) ==
    LET u == IF t.deleted = 0
             THEN [at |-> Len(t.blocks) + 1, t |-> [t EXCEPT !.blocks = Append(@, block)]]
             ELSE LET r == Reuse(t) IN [r EXCEPT !.t.blocks[r.at] = block]
    IN  [u EXCEPT !.t.valid = @ + 1]

MutLinksStay(t, i) == t

\* DataBlock_Impl::erase_block
Unlink(t, i) ==
    LET p == t.blocks[i].prev
        n == t.blocks[i].next
        u == IF p = 0 THEN t ELSE [t EXCEPT !.blocks[p].next = n]
    IN  IF n = 0 THEN u ELSE [u EXCEPT !.blocks[n].prev = p]

\* The last deleted block becomes a record block on top of the others.
NewRecord(t, r, i) ==
    [t EXCEPT !.blocks[r] = RecordBlock(<<i>>, t.record), !.record = r]

\* erase_block
EraseBlock(t, i) ==
    LET u == [IF IsData(t, i) THEN Unlink(t, i) ELSE t EXCEPT
                  !.blocks[i] = Deleted, !.valid = @ - 1, !.deleted = @ + 1]
        listed == Items(t, t.record)
    IN  IF t.record = 0
        THEN IF t.deleted < HeadRoom THEN [u EXCEPT !.list = Append(@, i)]
             ELSE NewRecord(u, Last(t.list), i)
        ELSE IF Len(listed) < RecordRoom
             THEN [u EXCEPT !.blocks[t.record].items = Append(@, i)]
             ELSE NewRecord(u, Last(listed), i)

-----------------------------------------------------------------------------
(* insert *)

Done(t, ok, ik) == [t |-> t, ok |-> ok, ik |-> ik]

\* The new block of a split that goes behind block i in the chain of data blocks.
Chained(t, i, new) ==
    LET n == t.blocks[i].next
        u == [t EXCEPT !.blocks[new].prev = i, !.blocks[new].next = n, !.blocks[i].next = new]
    IN  IF n = 0 THEN u ELSE [u EXCEPT !.blocks[n].prev = new]

data_block_insert(t, k, v, i) ==
    LET s    == Items(t, i)
        pos  == lower_bound(s, k)
        c    == Create(t, DataBlock(<<>>, 0, 0))
        both == split(s, <<k, v>>)
        u    == Chained(SetItems(SetItems(c.t, i, both[1]), c.at, both[2]), i, c.at)
    IN  IF pos <= Len(s) /\ s[pos][1] = k THEN Done(t, FALSE, NoBlock)
        ELSE IF Fits(s, DataRoom) THEN Done(SetItems(t, i, Put(s, pos, <<k, v>>)), TRUE, NoBlock)
        ELSE Done(u, TRUE, IterKey(u, c.at))

\* index_block.update(iter, key) where the key is the block's smallest
FirstKeyRenewed(s, at, k, ok) == IF ok /\ k < s[1][1] THEN SetKey(s, at, k) ELSE s

RECURSIVE insert_impl(_, _, _, _)
insert_impl(t, k, v, i) ==
    IF IsData(t, i) THEN data_block_insert(t, k, v, i)
    ELSE LET s    == Items(t, i)
             pos  == lower_bound(s, k)
             at   == IF pos = 1 THEN pos ELSE pos - 1
             r    == insert_impl(t, k, v, s[at][2])
             s1   == FirstKeyRenewed(s, at, k, r.ok)
             x    == <<r.ik.key, r.ik.at>>
             c    == Create(r.t, IndexBlock(<<>>))
             both == index_split(s1, x)
             u    == SetItems(SetItems(c.t, i, both[1]), c.at, both[2])
         IN  IF pos <= Len(s) /\ s[pos][1] = k THEN Done(t, FALSE, NoBlock)
             ELSE IF r.ik = NoBlock THEN Done(SetItems(r.t, i, s1), r.ok, NoBlock)
             ELSE IF Fits(s1, IndexRoom)
             THEN Done(SetItems(r.t, i, Put(s1, at + 1, x)), r.ok, NoBlock)
             ELSE Done(u, r.ok, IterKey(u, c.at))

\* A split of the root makes a new one above.
insert(t, k, v) ==
    LET c == Create(t, DataBlock(<<<<k, v>>>>, 0, 0))
        r == insert_impl(t, k, v, begin_block(t))
        up == Create(r.t, IndexBlock(<<<<FirstKey(r.t, begin_block(t)), begin_block(t)>>, <<r.ik.key, r.ik.at>>>>))
    IN  IF begin_block(t) = 0 THEN Done(set_begin_block(c.t, c.at), TRUE, NoBlock)
        ELSE IF r.ik = NoBlock THEN r
        ELSE Done(set_begin_block(up.t, up.at), r.ok, NoBlock)

-----------------------------------------------------------------------------
(* erase of one key *)

\* What erase does with a block that has become at most half full: nothing if it
\* is not empty and has no left neighbour under its parent, else the two are
\* merged, evened out or kept.
Rebalanced(t, before, i, room) ==
    LET s == Items(t, before)
        u == Items(t, i)
        choose == merge_keep_average(s, u, room)
        both == average(s, u)
        avg == SetItems(SetItems(t, before, both[1]), i, both[2])
    IN  IF HalfFull(u, room) \/ before = 0
        THEN IF u = <<>> THEN Done(EraseBlock(t, i), TRUE, NoBlock)
             ELSE Done(t, TRUE, IterKey(t, i))
        ELSE IF choose = "merge" THEN Done(EraseBlock(SetItems(t, before, merge(s, u)), i), TRUE, NoBlock)
        ELSE IF choose = "average" THEN Done(avg, TRUE, IterKey(avg, i))
        ELSE Done(t, TRUE, IterKey(t, i))

RECURSIVE erase_impl(_, _, _, _)
erase_impl(t, k, before, i) ==
    LET s   == Items(t, i)
        pos == lower_bound(s, k)
        at  == IF pos > Len(s) \/ s[pos][1] > k THEN pos - 1 ELSE pos
        r   == erase_impl(t, k, IF at = 1 THEN 0 ELSE s[at - 1][2], s[at][2])
        missing == Done(t, FALSE, IterKey(t, i))
    IN  IF IsData(t, i)
        THEN IF pos > Len(s) \/ s[pos][1] # k THEN missing
             ELSE Rebalanced(SetItems(t, i, RemoveItem(s, pos)), before, i, DataRoom)
        ELSE IF at = 0 THEN missing
        ELSE IF ~r.ok THEN missing
        ELSE IF r.ik # NoBlock
        THEN LET u == SetItems(r.t, i, SetKey(s, at, r.ik.key)) IN Done(u, TRUE, IterKey(u, i))
        ELSE Rebalanced(SetItems(r.t, i, RemoveItem(s, at)), before, i, IndexRoom)

\* The root after erase: gone, or replaced by its only child.
RootShrunk(t, r) ==
    LET i == r.ik.at
    IN  IF r.ik = NoBlock THEN set_begin_block(r.t, 0)
        ELSE IF r.ok /\ ~IsData(r.t, i) /\ Len(Items(r.t, i)) = 1
        THEN EraseBlock(set_begin_block(r.t, Items(r.t, i)[1][2]), i)
        ELSE r.t

erase(t, k) ==
    LET r == erase_impl(t, k, 0, begin_block(t))
    IN  IF begin_block(t) = 0 THEN Done(t, FALSE, NoBlock) ELSE Done(RootShrunk(t, r), r.ok, NoBlock)

-----------------------------------------------------------------------------
(* erase of the keys in [b, e), b <= e *)

\* up: the right block got pairs of the left one, so that it now begins below b.
\* That happened, somewhere below, apart: to blocks under different parents, or
\* torn: to two under one parent with others between them.
Both(t, ok, l, r) ==
    [t |-> t, ok |-> ok, l |-> l, r |-> r, up |-> FALSE, apart |-> FALSE, torn |-> FALSE]

\* The two blocks at the ends of the range, once everything in it is gone.
Joined(t, l, r, room) ==
    LET s == Items(t, l)
        u == Items(t, r)
        choose == merge_keep_average(s, u, room)
        both == average(s, u)
        avg == SetItems(SetItems(t, l, both[1]), r, both[2])
        one == EraseBlock(SetItems(t, l, merge(s, u)), r)
    IN  IF choose = "merge"
        THEN IF s # <<>> THEN Both(one, TRUE, IterKey(one, l), NoBlock)
             ELSE IF u # <<>> THEN Both(EraseBlock(t, l), TRUE, NoBlock, IterKey(t, r))
             ELSE Both(EraseBlock(EraseBlock(t, l), r), TRUE, NoBlock, NoBlock)
        ELSE IF choose = "average"
        THEN [Both(avg, TRUE, IterKey(avg, l), IterKey(avg, r)) EXCEPT !.up = Len(s) > Len(u)]
        ELSE Both(t, TRUE, IterKey(t, l), IterKey(t, r))

\* A block that holds the whole range.
Remaining(t, i, ok) ==
    IF Items(t, i) = <<>> THEN Both(EraseBlock(t, i), ok, NoBlock, NoBlock)
    ELSE Both(t, ok, IterKey(t, i), IterKey(t, i))

\* erase_all_block: the blocks below come first.
RECURSIVE erase_all_block(_, _)
erase_all_block(t, s) ==
    IF s = <<>> THEN t
    ELSE LET i == s[1][2]
             u == IF IsData(t, i) THEN t ELSE erase_all_block(t, Items(t, i))
         IN  erase_all_block(EraseBlock(u, i), From(s, 1))

\* The child under which the range begins, or ends.
ChildAt(s, k) ==
    LET pos == lower_bound(s, k)
    IN  IF pos > Len(s) \/ (pos # 1 /\ s[pos][1] # k) THEN pos - 1 ELSE pos

\* The entry of a child after the erase below: its new first key, or none.
Renewed(s, at, ik) == IF ik = NoBlock THEN RemoveItem(s, at) ELSE SetKey(s, at, ik.key)

\* The children wholly inside the range are erased with all below them.
MiddleErased(t, s) == erase_all_block(t, s)

RECURSIVE erase_range_impl(_, _, _, _, _)
erase_range_impl(t, b, e, left, right) ==
    LET sl == Items(t, left)
        sr == Items(t, right)
        lb(s) == lower_bound(s, b)
        le(s) == lower_bound(s, e)
    IN  IF IsData(t, left)
        THEN IF left = right
             THEN Remaining(SetItems(t, left, Cut(sl, lb(sl), le(sl))), left, lb(sl) # le(sl))
             ELSE Joined(SetItems(SetItems(t, left, Take(sl, lb(sl) - 1)),
                                  right, From(sr, le(sr) - 1)), left, right, DataRoom)
        ELSE IF left = right
        THEN LET li == ChildAt(sl, b)
                 ri == IF li # le(sl) /\ (le(sl) > Len(sl) \/ sl[le(sl)][1] # e)
                       THEN le(sl) - 1 ELSE le(sl)
                 r  == erase_range_impl(t, b, e, sl[li][2], sl[ri][2])
                 s1 == IF li = ri THEN Renewed(sl, li, r.l) ELSE Renewed(Renewed(sl, ri, r.r), li, r.l)
                 s2 == IF li = ri THEN s1 ELSE Cut(s1, lb(s1), le(s1))
                 u  == IF li = ri THEN r.t ELSE MiddleErased(r.t, SubSeq(s1, lb(s1), le(s1) - 1))
             IN  [Remaining(SetItems(u, left, s2), left, r.ok) EXCEPT
                      !.apart = r.apart, !.torn = r.torn \/ (r.up /\ ri > li + 1)]
        ELSE LET li == ChildAt(sl, b)
                 ri == ChildAt(sr, e)
                 r  == erase_range_impl(t, b, e, sl[li][2], sr[ri][2])
                 s1 == Renewed(sl, li, r.l)
                 s2 == Renewed(sr, ri, r.r)
                 u  == MiddleErased(MiddleErased(r.t, From(s1, lb(s1) - 1)), Take(s2, le(s2) - 1))
                 w  == SetItems(SetItems(u, left, Take(s1, lb(s1) - 1)), right, From(s2, le(s2) - 1))
             IN  [Joined(w, left, right, IndexRoom) EXCEPT
                     !.ok = r.ok, !.apart = r.apart \/ r.up, !.torn = r.torn]

erase_range(t, b, e) ==
    LET r == erase_range_impl(t, b, e, begin_block(t), begin_block(t))
    IN  IF begin_block(t) = 0 THEN Both(t, FALSE, NoBlock, NoBlock)
        ELSE [r EXCEPT !.t = set_begin_block(r.t, r.l.at)]

-----------------------------------------------------------------------------
(* Searches *)

\* find_data: the data block whose range of keys has k
RECURSIVE find_data(_, _)
find_data(i, k) ==
    IF IsData(tree, i) THEN i ELSE find_data(Items(tree, i)[ChildAt(Items(tree, i), k)][2], k)

\* update and find_for_update
update(t, k, v) ==
    LET i   == find_data(begin_block(t), k)
        pos == lower_bound(Items(t, i), k)
    IN  IF begin_block(t) = 0 \/ pos > Len(Items(t, i)) \/ Items(t, i)[pos][1] # k THEN Done(t, FALSE, NoBlock)
        ELSE Done(SetItems(t, i, SetValue(Items(t, i), pos, v)), TRUE, NoBlock)

\* The chain of data blocks from i on, forwards (to_next) and backwards (to_prev).
RECURSIVE Chain(_)
Chain(i) == IF i = 0 THEN <<>> ELSE Items(tree, i) \o Chain(tree.blocks[i].next)

RECURSIVE ChainBack(_)
ChainBack(i) == IF i = 0 THEN <<>> ELSE ChainBack(tree.blocks[i].prev) \o Items(tree, i)

\* The data block at the left end of the tree (index_block.begin() on every level),
\* and at the right.
RECURSIVE Leftmost(_)
Leftmost(i) == IF i = 0 \/ IsData(tree, i) THEN i ELSE Leftmost(Items(tree, i)[1][2])

RECURSIVE Rightmost(_)
Rightmost(i) == IF i = 0 \/ IsData(tree, i) THEN i ELSE Rightmost(Last(Items(tree, i))[2])

MutOneBlock(k) ==
    IF begin_block(tree) = 0 THEN <<>>
    ELSE LET s == Items(tree, find_data(begin_block(tree), k)) IN From(s, lower_bound(s, k) - 1)

\* The pairs that a loop from lower_bound(k) on meets.
FromKey(k) ==
    IF begin_block(tree) = 0 THEN <<>>
    ELSE LET i == find_data(begin_block(tree), k)
             s == Items(tree, i)
         IN  From(s, lower_bound(s, k) - 1) \o Chain(tree.blocks[i].next)

Limited(s, limit) == Take(s, IF Len(s) < limit THEN Len(s) ELSE limit)
While(s, P(_)) == Take(s, Cardinality({i \in DOMAIN s : \A j \in 1 .. i : P(s[j])}))

find(k) ==
    IF begin_block(tree) = 0 THEN <<>>
    ELSE LET s   == Items(tree, find_data(begin_block(tree), k))
             pos == lower_bound(s, k)
         IN  IF pos > Len(s) \/ s[pos][1] > k THEN <<>> ELSE <<s[pos]>>

find_range(b, e, limit) ==
    IF b >= e THEN <<>> ELSE Limited(While(FromKey(b), LAMBDA x : x[1] < e), limit)

first_from(k)  == Limited(FromKey(k), 1)
upper_bound(k) == Limited(SelectSeq(FromKey(k), LAMBDA x : x[1] > k), 1)
above_or_equal(k, limit) == Limited(FromKey(k), limit)
search_from_begin(limit) == Limited(Chain(Leftmost(begin_block(tree))), limit)
search_from_end(limit) ==
    LET s == ChainBack(Rightmost(begin_block(tree)))
    IN  Limited([i \in 1 .. Len(s) |-> s[Len(s) + 1 - i]], limit)

\* below: the loop does not look at the first key of a block that it goes on to.
RECURSIVE BelowFrom(_, _, _, _)
BelowFrom(i, pos, k, limit) ==
    LET s == Items(tree, i)
        n == tree.blocks[i].next
    IN  IF limit = 0 THEN <<>>
        ELSE IF pos <= Len(s)
        THEN IF s[pos][1] < k THEN <<s[pos]>> \o BelowFrom(i, pos + 1, k, limit - 1) ELSE <<>>
        ELSE IF n = 0 THEN <<>>
        ELSE <<Items(tree, n)[1]>> \o BelowFrom(n, 2, k, limit - 1)

below(k, limit) ==
    IF begin_block(tree) = 0 THEN <<>> ELSE BelowFrom(Leftmost(begin_block(tree)), 1, k, limit)

-----------------------------------------------------------------------------
(* Calls *)

\* A call that would make the file longer than the bound is not taken.
Call(op, k, x, r, apart) ==
    /\ Len(r.t.blocks) <= MaxTotal
    /\ tree' = r.t
    /\ call' = [op |-> op, key |-> k, arg |-> x, ok |-> r.ok, apart |-> apart]

Insert(k, v) == Call("insert", k, v, insert(tree, k, v), FALSE) /\ UNCHANGED torn
Update(k, v) == Call("update", k, v, update(tree, k, v), FALSE) /\ UNCHANGED torn
Erase(k)     == Call("erase", k, k, erase(tree, k), FALSE) /\ UNCHANGED torn

EraseRange(b, e) ==
    /\ b <= e
    /\ \E r \in {erase_range(tree, b, e)} :
           /\ Call("erase_range", b, e, r, r.apart)
           /\ torn' = (torn \/ r.torn)

\* init of an empty file
TreeInit ==
    /\ tree = [blocks |-> <<>>, begin |-> 0, valid |-> 0, deleted |-> 0, list |-> <<>>, record |-> 0]
    /\ call = [op |-> "init", key |-> 0, arg |-> 0, ok |-> TRUE, apart |-> FALSE]
    /\ torn = FALSE

TreeNext ==
    \E k \in Key :
        \/ \E v \in Value : Insert(k, v) \/ Update(k, v)
        \/ Erase(k)
        \/ \E e \in Key : EraseRange(k, e)

TreeSpec == TreeInit /\ [][TreeNext]_treeVars

-----------------------------------------------------------------------------
(* Properties *)

\* The data blocks under i from left to right, and all the blocks under it.
RECURSIVE Leaves(_)
Leaves(i) ==
    IF i = 0 THEN <<>>
    ELSE IF IsData(tree, i) THEN <<i>>
    ELSE LET s == Items(tree, i)
             Under[n \in 0 .. Len(s)] == IF n = 0 THEN <<>> ELSE Under[n - 1] \o Leaves(s[n][2])
         IN  Under[Len(s)]

RECURSIVE Below(_)
Below(S) ==
    LET kids == UNION {{Items(tree, i)[n][2] : n \in DOMAIN Items(tree, i)} : i \in {j \in S : ~IsData(tree, j)}}
    IN  IF kids = {} THEN S ELSE S \cup Below(kids)

Reached == IF begin_block(tree) = 0 THEN {} ELSE Below({begin_block(tree)})

\* The pairs that the tree holds, by its index blocks alone.
Pairs ==
    LET l == Leaves(begin_block(tree))
        All[n \in 0 .. Len(l)] == IF n = 0 THEN <<>> ELSE All[n - 1] \o Items(tree, l[n])
    IN  All[Len(l)]

RECURSIVE Levels(_)
Levels(i) == IF i = 0 THEN 0 ELSE IF IsData(tree, i) THEN 1 ELSE 1 + Levels(Items(tree, i)[1][2])

\* The tree stays one: keys ascend from leaf to leaf, every entry of an index
\* block has the first key below it, no block is empty or overfull, all leaves
\* lie equally deep, and prev and next chain them in their order.
TreeShape ==
    LET l == Leaves(begin_block(tree))
        p == Pairs
    IN  /\ \A i \in 1 .. Len(p) - 1 : p[i][1] < p[i + 1][1]
        /\ \A i \in Reached :
              LET s == Items(tree, i)
              IN  /\ s # <<>> /\ Len(s) * Pair <= IF IsData(tree, i) THEN DataRoom ELSE IndexRoom
                  /\ ~IsData(tree, i) => \A n \in DOMAIN s :
                        s[n][1] = FirstKey(tree, s[n][2]) /\ Levels(s[n][2]) = Levels(s[1][2])
        /\ \A n \in DOMAIN l :
              /\ tree.blocks[l[n]].prev = IF n = 1 THEN 0 ELSE l[n - 1]
              /\ tree.blocks[l[n]].next = IF n = Len(l) THEN 0 ELSE l[n + 1]

\* The deleted blocks in the order in which they will be used again.
RECURSIVE Listed(_)
Listed(r) == IF r = 0 THEN <<>> ELSE Listed(tree.blocks[r].last) \o Items(tree, r)

\* Every block of the file is in the tree or deleted, none is both, none is
\* listed twice, and the header's counters are right: no block is lost and none
\* is given out while it is in use, record blocks included.
BlocksAccounted ==
    LET d == tree.list \o Listed(tree.record)
        D == {d[n] : n \in DOMAIN d}
    IN  /\ Reached \cap D = {} /\ Reached \cup D = DOMAIN tree.blocks
        /\ Cardinality(D) = Len(d) /\ tree.deleted = Len(d)
        /\ tree.valid = Cardinality(Reached)

\* The shape the searches rely on and the account of the file's blocks, after any
\* sequence of splits, merges and erased subtrees.  The shape is lost, and the
\* blocks are not, when the erase of a range moves pairs up past entries between
\* its ends (torn): the parent's entries are then not in order any more, and the
\* binary search over them may leave the range's blocks where they are.
TreeSound == (torn \/ TreeShape) /\ BlocksAccounted

\* Searches find what the tree holds, in order, up to the limit; below gives all
\* smaller keys first (and may go on behind them).  In a torn tree a key may be
\* stored and not found.
SearchesExact == torn \/
    LET p == Pairs
        n == Len(p)
        Backwards == [i \in 1 .. n |-> p[n + 1 - i]]
    IN  \A limit \in {0, 1, n} :
           /\ search_from_begin(limit) = Limited(p, limit)
           /\ search_from_end(limit) = Limited(Backwards, limit)
           /\ \A k \in Key :
                 LET under == SelectSeq(p, LAMBDA x : x[1] < k)
                     from  == SelectSeq(p, LAMBDA x : x[1] >= k)
                     over  == SelectSeq(p, LAMBDA x : x[1] > k)
                 IN  /\ find(k) = SelectSeq(p, LAMBDA x : x[1] = k)
                     /\ first_from(k) = Limited(from, 1)
                     /\ upper_bound(k) = Limited(over, 1)
                     /\ above_or_equal(k, limit) = Limited(from, limit)
                     /\ Limited(below(k, limit), Len(under)) = Limited(under, limit)
                     /\ \A e \in Key : find_range(k, e, limit)
                                         = Limited(SelectSeq(from, LAMBDA x : x[1] < e), limit)

\* The same as a set.
RECURSIVE PairsUnder(_)
PairsUnder(i) ==
    LET s == Items(tree, i)
    IN  IF IsData(tree, i) THEN {s[n] : n \in DOMAIN s}
        ELSE UNION {PairsUnder(s[n][2]) : n \in DOMAIN s}

Contents == IF begin_block(tree) = 0 THEN {} ELSE PairsUnder(begin_block(tree))

Map == INSTANCE OrderedMap WITH map <- Contents

\* Splits, merges and the erase of whole subtrees are invisible: every call does
\* to the keys and values, and returns, what the map's does.
KeepsMap == Map!Spec

\* As KeepsMap, but the erase of a range may take keys next to it too, or leave
\* some in it, when the blocks at its ends are evened out upwards: the right one
\* then begins below the range, and index_block_erase searches for the range
\* again.  With the two under different blocks (apart) that costs keys on both
\* sides of the range; with others between them in one block (torn) it may also
\* keep what should go, and nothing is claimed of what follows.
KeepsOtherKeys ==
    /\ Map!Init
    /\ [][\/ Map!Next
          \/ call'.apart /\ Map!EraseAround(call'.key, call'.arg)
          \/ torn' /\ ~torn /\ Map!EraseSome(call'.key, call'.arg)
          \/ torn]_<<Contents, call>>

=============================================================================
