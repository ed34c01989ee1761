----------------------------- MODULE BlockCache -----------------------------
(***************************************************************************)
(* The blocks of a B+ tree file: Base::LRUCache as Impl_Scheduler uses it, *)
(* over a BufferPool and a BlockFile.  The tree's DataBlock and IndexBlock *)
(* objects hold blocks, change them in place and put them back; the        *)
(* ScheduledThread writes the changed ones that nobody holds.  Every call  *)
(* runs under Impl_Scheduler::_mutex.                                      *)
(*                                                                         *)
(* The pool's blocks have the size of the file's, so one more block can be *)
(* had if and only if fewer than Capacity are cached (MaxBlockExact of     *)
(* BufferPool), and the loops of reserve_space end with the first          *)
(* eviction.  Input and output do not fail, and LRUCache::erase, which     *)
(* drops a block on purpose, is called by nobody.                          *)
(***************************************************************************)
EXTENDS Integers, Sequences, FiniteSets

CONSTANTS
    Holder,      \* the DataBlock, IndexBlock and header objects
    Content,     \* what a block may hold; 0 is a zeroed block
    Capacity,    \* blocks in the BufferPool
    MaxBlocks    \* bound: blocks in the file

ASSUME CacheAssumption ==
    IsFiniteSet(Holder) /\ Capacity \in Nat /\ MaxBlocks \in Nat /\ 0 \in Content

VARIABLES
    node,        \* _map: key -> its Node, for the keys cached
    temporary,   \* _temporary
    persistent,  \* _persistent
    obsolete,    \* _obsolete
    file,        \* the BlockFile: block k is file[k + 1]
    total,       \* LRU_Helper::_total_blocks
    holds,       \* holder -> the key of its block and what it did to it
    latest       \* history: key -> what the holders last made of the block

cacheVars == <<node, temporary, persistent, obsolete, file, total, holds, latest>>

Cached == DOMAIN node
Nothing_ == [key |-> -1, did |-> "nothing"]

\* A Node as _map.emplace and the first get leave it: instantiated_size,
\* need_update, is_persistent and value.
NewNode(x) == [users |-> 1, dirty |-> FALSE, old |-> FALSE, value |-> x]

Set(f, k, x) == [j \in DOMAIN f \cup {k} |-> IF j = k THEN x ELSE f[j]]
Drop(f, k) == [j \in DOMAIN f \ {k} |-> f[j]]

\* The blocks in a queue
Queued(q) == {q[i] : i \in DOMAIN q}

\* List::erase through the iterator that the node keeps, if it is not end()
Unqueued(q, k) ==
    IF k \notin Queued(q) THEN q
    ELSE LET i == CHOOSE j \in DOMAIN q : q[j] = k
         IN  [j \in 1 .. Len(q) - 1 |-> q[IF j < i THEN j ELSE j + 1]]

-----------------------------------------------------------------------------
(* LRU_Helper and BlockFile *)

can_create == Cardinality(Cached) < Capacity

\* The file after update of the blocks S: one behind the end first makes it as
\* long as _total_blocks, and what lies between is zeroed.
Updated(S) ==
    LET n == IF \E k \in S : k >= Len(file) THEN total ELSE Len(file)
    IN  [i \in 1 .. n |-> IF i - 1 \in S THEN node[i - 1].value
                         ELSE IF i <= Len(file) THEN file[i] ELSE 0]

\* create: the block is read, or its memory holds anything.
Created(f, k, read_data) ==
    IF read_data THEN {f[k + 1]} ELSE Content

-----------------------------------------------------------------------------
(* LRUCache *)

\* The places of the unchanged blocks in _temporary
CleanOnes == {i \in DOMAIN temporary : ~node[temporary[i]].dirty}

\* The block that reserve_space evicts: the first unchanged temporary one, else
\* the first temporary one, else the first persistent one; none, and it throws.
Victim ==
    IF CleanOnes # {} THEN {temporary[i] : i \in {j \in CleanOnes : \A m \in CleanOnes : j <= m}}
    ELSE IF temporary # <<>> THEN {Head(temporary)}
    ELSE IF persistent # <<>> THEN {Head(persistent)} ELSE {}

MutEvictedUnwritten(k) == file

\* A changed block is written before it leaves the cache.
FileAfterEviction(k) == IF node[k].dirty THEN Updated({k}) ELSE file

\* get of a key that is not cached
Load(k, read_data) ==
    \/ /\ can_create
       /\ \E x \in Created(file, k, read_data) : node' = Set(node, k, NewNode(x))
       /\ UNCHANGED <<temporary, persistent, obsolete, file>>
    \/ /\ ~can_create
       /\ \E v \in Victim :
             /\ file' = FileAfterEviction(v)
             /\ \E x \in Created(file', k, read_data) :
                   node' = Set(Drop(node, v), k, NewNode(x))
             /\ temporary' = Unqueued(temporary, v)
             /\ persistent' = Unqueued(persistent, v)
             /\ obsolete' = Unqueued(obsolete, v)

\* get_change: the first user takes the block out of all queues.
GetChange(k) ==
    /\ node' = [node EXCEPT ![k].users = @ + 1]
    /\ IF node[k].users > 0 THEN UNCHANGED <<temporary, persistent, obsolete>>
       ELSE /\ temporary' = Unqueued(temporary, k)
            /\ persistent' = Unqueued(persistent, k)
            /\ obsolete' = Unqueued(obsolete, k)
    /\ UNCHANGED file

\* put and put_change: the last user queues the block, by age and as changed.
\* late: threshold_time has passed since the block was loaded.
PutChange(k, need_update, late) ==
    LET n == [users |-> node[k].users - 1,
              dirty |-> node[k].dirty \/ need_update,
              old   |-> node[k].old \/ (late /\ node[k].users = 1),
              value |-> node[k].value]
    IN  /\ node' = [node EXCEPT ![k] = n]
        /\ IF n.users > 0 THEN UNCHANGED <<temporary, persistent, obsolete>>
           ELSE /\ persistent' = IF n.old THEN Append(persistent, k) ELSE persistent
                /\ temporary' = IF n.old THEN temporary ELSE Append(temporary, k)
                /\ obsolete' = IF n.dirty THEN Append(obsolete, k) ELSE obsolete

-----------------------------------------------------------------------------
(* The calls of the holders and of the ScheduledThread *)

\* get_block(index, read_data)
GetBlock(h, k, read_data) ==
    /\ holds[h] = Nothing_
    /\ k < total
    /\ IF k \in Cached THEN GetChange(k) ELSE Load(k, read_data)
    /\ holds' = [holds EXCEPT ![h] = [key |-> k, did |-> IF read_data THEN "read" ELSE "took"]]
    /\ UNCHANGED <<total, latest>>

\* get_block()
GetNewBlock(h) ==
    /\ holds[h] = Nothing_
    /\ total < MaxBlocks
    /\ Load(total, FALSE)
    /\ holds' = [holds EXCEPT ![h] = [key |-> total, did |-> "took"]]
    /\ total' = total + 1
    /\ UNCHANGED latest

\* A holder changes its block in place; one that did not ask for the data sets
\* the whole block first (set_to_data_block and its like).
ChangeBlock(h, x) ==
    LET k == holds[h].key
    IN  /\ holds[h] # Nothing_
        /\ node' = [node EXCEPT ![k].value = x]
        /\ holds' = [holds EXCEPT ![h].did = "wrote"]
        /\ latest' = Set(latest, k, x)
        /\ UNCHANGED <<temporary, persistent, obsolete, file, total>>

\* put_block, by the holder's destructor: need_update if it changed the block
PutBlock(h, late) ==
    /\ holds[h].did \in {"read", "wrote"}
    /\ PutChange(holds[h].key, holds[h].did = "wrote", late)
    /\ holds' = [holds EXCEPT ![h] = Nothing_]
    /\ UNCHANGED <<file, total, latest>>

\* Some blocks of _obsolete are written and leave it. Nobody holds them.
Flush(S) ==
    /\ file' = Updated(S)
    /\ node' = [k \in Cached |-> [node[k] EXCEPT !.dirty = @ /\ k \notin S]]
    /\ UNCHANGED <<temporary, persistent, total, holds, latest>>

\* update_all_with_order, by Impl_Scheduler::invoke
Invoke == Flush(Queued(obsolete)) /\ obsolete' = <<>>

\* update_one
UpdateOne ==
    /\ obsolete # <<>>
    /\ Flush({Head(obsolete)})
    /\ obsolete' = Tail(obsolete)

\* remove
Remove(k) ==
    /\ k \in Cached /\ node[k].users = 0
    /\ file' = FileAfterEviction(k)
    /\ node' = Drop(node, k)
    /\ temporary' = Unqueued(temporary, k)
    /\ persistent' = Unqueued(persistent, k)
    /\ obsolete' = Unqueued(obsolete, k)
    /\ UNCHANGED <<total, holds, latest>>

\* The destructor, which ends the process if a block is held, and the
\* constructor for the same file.
Reopen ==
    /\ \A k \in Cached : node[k].users = 0
    /\ file' = Updated({k \in Cached : node[k].dirty})
    /\ node' = <<>>
    /\ temporary' = <<>> /\ persistent' = <<>> /\ obsolete' = <<>>
    /\ total' = Len(file')
    /\ UNCHANGED <<holds, latest>>

-----------------------------------------------------------------------------
CacheInit ==
    /\ node = <<>>
    /\ temporary = <<>> /\ persistent = <<>> /\ obsolete = <<>>
    /\ file = <<>> /\ total = 0
    /\ holds = [h \in Holder |-> Nothing_]
    /\ latest = <<>>

CacheNext ==
    \/ \E h \in Holder :
          \/ \E k \in 0 .. MaxBlocks - 1, read_data \in BOOLEAN : GetBlock(h, k, read_data)
          \/ GetNewBlock(h)
          \/ \E x \in Content : ChangeBlock(h, x)
          \/ \E late \in BOOLEAN : PutBlock(h, late)
    \/ Invoke \/ UpdateOne \/ Reopen
    \/ \E k \in 0 .. MaxBlocks - 1 : Remove(k)

CacheSpec == CacheInit /\ [][CacheNext]_cacheVars

-----------------------------------------------------------------------------
\* A block that somebody holds stays in the cache, for as long as the last of
\* its holders: the pointer that get_block gave stays good.
HeldBlocksStay ==
    /\ \A h \in Holder : holds[h] # Nothing_ => holds[h].key \in Cached
    /\ \A k \in Cached : node[k].users = Cardinality({h \in Holder : holds[h].key = k})

\* Loaded without its data, and not set yet.
Untouched(k) == \E h \in Holder : holds[h] = [key |-> k, did |-> "took"]

\* No change is lost, whatever is evicted, flushed or loaded again: what the
\* holders last made of a block is in the cache or, if it has left it, in the file,
\* and get_block can read every block that is not cached.
NoLostWrite ==
    \A k \in 0 .. total - 1 :
        /\ k \in Cached \/ k < Len(file)
        /\ k \in DOMAIN latest =>
              \/ k \in Cached /\ (node[k].value = latest[k] \/ Untouched(k))
              \/ k \notin Cached /\ file[k + 1] = latest[k]

\* The queues hold the blocks that nobody holds, each once and in the queue of
\* its age, and _obsolete holds those of them that have to be written: what
\* get_change, update_all and reserve_space assert.
QueuesMatch ==
    LET Once(q) == \A i, j \in DOMAIN q : q[i] = q[j] => i = j
        Free(P(_)) == {k \in Cached : node[k].users = 0 /\ P(node[k])}
    IN  /\ Once(temporary) /\ Queued(temporary) = Free(LAMBDA n : ~n.old)
        /\ Once(persistent) /\ Queued(persistent) = Free(LAMBDA n : n.old)
        /\ Once(obsolete) /\ Queued(obsolete) = Free(LAMBDA n : n.dirty)
        /\ \A k \in Cached : node[k].users = 0 /\ ~node[k].dirty => k < Len(file)

\* All three: a block that is held is not evicted, one that is evicted is not
\* lost, and the queues by which the cache decides about both are exact.
CacheSound == HeldBlocksStay /\ NoLostWrite /\ QueuesMatch

=============================================================================
