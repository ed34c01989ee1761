---------------------------- MODULE LinkStorage ----------------------------
(***************************************************************************)
(* LogSystem::LinkLogStorage, the center's files: the log files, written in *)
(* batches; the name index, one entry per log file; the node index, which  *)
(* holds where the latest log of each node lies; and queries, which follow *)
(* the back pointers kept in the logs from the newest to the oldest.       *)
(*                                                                         *)
(* Every operation runs under the storage's _mutex and is one step.  A     *)
(* record has size 1 and is its number in the order of arrival; a file is  *)
(* named by the time it was begun, here 1, 2, ....  The inodes of the file *)
(* system are kept apart from the names: a removed file can still be read  *)
(* and written through an open descriptor.  The node index and the cache   *)
(* in front of it are one map.                                             *)
(***************************************************************************)
EXTENDS Integers, Sequences, SequencesExt, FiniteSets, FiniteSetsExt, TLC

CONSTANTS
    Node,       \* pairs of a service and a node
    ServiceOf,  \* the bytes of each node's service ID, without trailing zeros
    Time,       \* init times of nodes, 0 excepted
    LogLimit    \* LOG_FILE_LIMIT_SIZE, in records

ASSUME StorageAssumption ==
    /\ LogLimit \in Nat \ {0}
    /\ 0 \notin Time
    /\ DOMAIN ServiceOf = Node

VARIABLES
    records,  \* _records: the files begun since the start
    dir,      \* the log files in the directory, name -> inode
    inodes,   \* the contents of each inode
    out,      \* the inode open in _logs
    names,    \* the keys of _filename_file
    index,    \* _indexes with _cache, [node, time] -> value
    ended,    \* the values of _node_deletion
    saved,    \* records written to files
    handled,  \* history: every record handled
    lost,     \* history: the records in the files removed
    query     \* the QuerySet of a search_link

storageVars == <<records, dir, inodes, out, names, index, ended, saved, handled, lost, query>>

\* latest_index() = MAX_UINT
NoPlace == [file |-> 0, index |-> -1]

Head_ == 1
BranchHead == 2
Fork == 3
Decision == 5
RpcFork == 6
RpcDecision == 8

NoQuery ==
    [st |-> "none", places |-> {}, file |-> 0, inode |-> 0, got |-> <<>>, goal |-> <<>>, rest |-> TRUE]

NewRecord(file) == [file |-> file, index |-> 0, written |-> 0]

\* Unix_to_now, used as the name of a file.
Now == Max(names \cup {records[i].file : i \in DOMAIN records}) + 1

Index_Key(n, t) == [node |-> n, time |-> t]

Index_Value(type, parent, ptime) ==
    [type |-> type, parent |-> parent, ptime |-> ptime, at |-> NoPlace]

-----------------------------------------------------------------------------
(* Records *)

\* add_record
AddRecord ==
    LET full == Last(records).index >= LogLimit
        rs == IF full THEN Append(records, NewRecord(Now)) ELSE records
    IN  [rs EXCEPT ![Len(rs)].index = @ + 1]

\* create_logger: FALSE when the key is there.
CanCreate(n, t) == Index_Key(n, t) \notin DOMAIN index

CreateLogger(n, t, type, parent, ptime) ==
    LET key == Index_Key(n, t)
    IN  index' = IF CanCreate(n, t)
                 THEN [k \in DOMAIN index \cup {key} |->
                          IF k = key THEN Index_Value(type, parent, ptime) ELSE index[k]]
                 ELSE index

\* update_logger: for an unknown key it leaves an entry in the cache that never
\* gets into the index.
UpdateLogger(n, t, type, parent, ptime) ==
    LET k == Index_Key(n, t)
    IN  index' = IF k \in DOMAIN index
                 THEN [index EXCEPT ![k].type = type, ![k].parent = parent, ![k].ptime = ptime]
                 ELSE index

MutKeepsPlace(k) == index' = index

\* handle_a_log: the node's latest log will be this one, at the end of the last
\* record; its header gets the place of the one before.  add_record, which may
\* begin another file, comes later.
PlaceLog(k) ==
    index' = [index EXCEPT ![k].at = [file |-> Last(records).file, index |-> Last(records).index]]

\* open_new_log_file: open for appending, or create.
OpenNewLogFile(s, file) ==
    IF file \in DOMAIN s.dir
    THEN [s EXCEPT !.out = s.dir[file], !.names = @ \cup {file}]
    ELSE [s EXCEPT !.inodes = Append(@, <<>>), !.out = Len(s.inodes) + 1,
                   !.dir = (file :> Len(s.inodes) + 1) @@ @, !.names = @ \cup {file}]

MutPendingAll(i) == records[i].index

Pending(i) == records[i].index - records[i].written

\* One round of write_to_file's loop.
WriteRecord(s, i) ==
    LET opened == IF i > 1 THEN OpenNewLogFile(s, records[i].file) ELSE s
    IN  [opened EXCEPT !.inodes[opened.out] = @ \o [k \in 1 .. Pending(i) |-> opened.saved + k],
                       !.saved = @ + Pending(i)]

\* write_to_file: the rounds until the batch is written.
WriteToFile ==
    LET last == Max({i \in DOMAIN records : Pending(i) > 0})
        s == FoldLeft(WriteRecord, [dir |-> dir, inodes |-> inodes, out |-> out,
                                    names |-> names, saved |-> saved],
                      [i \in 1 .. last |-> i])
    IN  /\ dir' = s.dir /\ inodes' = s.inodes /\ out' = s.out
        /\ names' = s.names /\ saved' = s.saved
        /\ records' = [i \in DOMAIN records |-> [records[i] EXCEPT !.written = records[i].index]]

-----------------------------------------------------------------------------
(* The user's operations *)

FirstNames(n) == {f \in names : Cardinality({g \in names : g < f}) < n}

\* delete_oldest_files.  end_time is a time cut to 32 bits, smaller than any key
\* of _node_deletion, so no node is deleted.  Removing the file in use is left out.
DeleteOldestFiles(n) ==
    /\ n < Cardinality(names)
    /\ n >= 2
    /\ names' = names \ FirstNames(n)
    /\ dir' = [f \in DOMAIN dir \ FirstNames(n) |-> dir[f]]
    /\ lost' = lost \cup UNION {Range(inodes[dir[f]]) : f \in DOMAIN dir \cap FirstNames(n)}
    /\ UNCHANGED <<records, inodes, out, index, ended, saved, handled, query>>

\* LinkLogStorage::LinkLogStorage, in the directory of a storage that is gone.
Reopen ==
    LET last == Max(names)
        s == OpenNewLogFile([dir |-> dir, inodes |-> inodes, out |-> out,
                             names |-> names, saved |-> saved], last)
        size == Len(s.inodes[s.out])
    IN  /\ records' = <<[file |-> last, index |-> size, written |-> size]>>
        /\ dir' = s.dir /\ inodes' = s.inodes /\ out' = s.out
        /\ query' = NoQuery
        /\ UNCHANGED <<names, index, ended, saved, handled, lost>>

\* get_query_set: the end of the range is the service with its last byte that is
\* not 0 increased, so services that begin with this one are found as well.
Found(service) == {k \in DOMAIN index : IsPrefix(service, ServiceOf[k.node])}

\* The logs of the nodes found, newest first.
LogsOf(keys) ==
    LET ids == {i \in DOMAIN handled : handled[i].op = "Log" /\ handled[i].key \in keys}
    IN  SetToSortSeq(ids, LAMBDA i, j : i > j)

\* search_link begins.
GetQuerySet(service) ==
    /\ query.st = "none"
    /\ LET places == {index[k].at : k \in Found(service)} \ {NoPlace}
       IN  query' = [st |-> IF places = {} THEN "done" ELSE "on",
                     places |-> places, file |-> 0, inode |-> 0, got |-> <<>>,
                     goal |-> LogsOf(Found(service)),
                     rest |-> saved = Len(handled) /\ lost = {}]
    /\ UNCHANGED <<records, dir, inodes, out, names, index, ended, saved, handled, lost>>

TopPlace ==
    CHOOSE p \in query.places :
        \A q \in query.places : p.file > q.file \/ (p.file = q.file /\ p.index >= q.index)

\* prepare_read_a_log: the inode to read from, 0 when the file is not there.
QueryInode ==
    IF TopPlace.file = query.file THEN query.inode
    ELSE IF TopPlace.file \in DOMAIN dir THEN dir[TopPlace.file] ELSE 0

\* querying_a_log: the place found in the log goes into the queue.
BackPlace(id) == {handled[id].back} \ {NoPlace}

\* query: one log; a read that fails destroys the set.
QueryLog ==
    /\ query.st = "on"
    /\ LET ino == QueryInode
           at == TopPlace.index + 1
       IN  IF ino = 0 \/ at > Len(inodes[ino])
           THEN query' = [query EXCEPT !.st = "failed"]
           ELSE LET id == inodes[ino][at]
                    left == (query.places \ {TopPlace}) \cup BackPlace(id)
                IN  query' = [query EXCEPT !.places = left, !.file = TopPlace.file,
                                           !.inode = ino, !.got = Append(@, id),
                                           !.st = IF left = {} THEN "done" ELSE "on"]
    /\ UNCHANGED <<records, dir, inodes, out, names, index, ended, saved, handled, lost>>

\* search_link returns.
SearchEnds ==
    /\ query.st \in {"done", "failed"}
    /\ query' = NoQuery
    /\ UNCHANGED <<records, dir, inodes, out, names, index, ended, saved, handled, lost>>

StorageInit ==
    /\ records = <<NewRecord(1)>>
    /\ dir = (1 :> 1) /\ inodes = <<<<>>>> /\ out = 1
    /\ names = {1}
    /\ index = <<>> /\ ended = {}
    /\ saved = 0 /\ handled = <<>> /\ lost = {}
    /\ query = NoQuery

-----------------------------------------------------------------------------
\* What the log files hold, oldest file first.
OnDisk == FlattenSeq([i \in 1 .. Cardinality(DOMAIN dir) |->
                         inodes[dir[SetToSortSeq(DOMAIN dir, <)[i]]]])

\* A query delivers the logs of the nodes found, from the newest on, without a gap:
\* all of them when it ends, and when it breaks off the newest ones, whatever is
\* written, removed and begun while it goes on.
QueryExact ==
    /\ IsPrefix(query.got, query.goal)
    /\ query.st = "done" => query.got = query.goal

\* The checks of prepare_read_a_log hold for a query that begins when no batch is
\* being handled and no file was removed.
QueryReads == query.st = "failed" => ~query.rest \/ lost # {}

=============================================================================
