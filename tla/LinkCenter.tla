----------------------------- MODULE LinkCenter -----------------------------
(***************************************************************************)
(* LogSystem::LinkLogCenter.  One reactor thread reads the servers'        *)
(* records: a batch is handled record by record and then written to the    *)
(* files, timeouts are looked at between batches.  Users of the center     *)
(* add and remove servers, search and delete files in other threads.       *)
(*                                                                         *)
(* A node of a type above Decision is registered by its parent's server    *)
(* and created, as a BranchHead, by another one: _check keeps the half     *)
(* that came first until the other comes or its timer ends.  The flag that *)
(* entry and timer share lives on the heap ("cell").                       *)
(***************************************************************************)
EXTENDS LinkStorage

CONSTANTS
    Server,      \* addresses of LinkLogServers
    MaxRecords   \* bound: records handled

VARIABLES
    nodes,    \* the keys of _nodes
    linked,   \* the servers whose channel is in the reactor
    reader,   \* the server whose batch is handled, or "none"
    hungUp,   \* the batch ends with Node_Offline
    check,    \* _check
    timers,   \* _timers
    cells,    \* the flags on the heap: "armed", "met" or "freed"
    late      \* history: the nodes whose entry timed out

checkVars == <<check, timers, cells, late>>
linkVars == <<nodes, linked, reader, hungUp>>
centerVars == <<storageVars, checkVars, linkVars>>

\* The parent that the registrations of this model name, and its init time.
Parent == "parent"
ParentTime == 1
NoParent == "none"

-----------------------------------------------------------------------------
(* Servers *)

\* add_server
AddServer(s) ==
    /\ s \notin nodes
    /\ nodes' = nodes \cup {s} /\ linked' = linked \cup {s}
    /\ UNCHANGED <<storageVars, checkVars, reader, hungUp>>

\* remove_server: the channel goes without its close callback.
RemoveServer(s) ==
    /\ s \in linked /\ reader = "none"
    /\ linked' = linked \ {s}
    /\ UNCHANGED <<storageVars, checkVars, nodes, reader, hungUp>>

\* The connection ends: handle_close.
LoseServer(s) ==
    /\ s \in linked /\ reader = "none"
    /\ nodes' = nodes \ {s} /\ linked' = linked \ {s}
    /\ UNCHANGED <<storageVars, checkVars, reader, hungUp>>

-----------------------------------------------------------------------------
(* _check and _timers *)

\* _timers.emplace with an entry's new flag.
Arm(n, entry) ==
    LET c == Len(cells) + 1
    IN  /\ check' = [m \in DOMAIN check \cup {n} |-> IF m = n THEN [entry EXCEPT !.cell = c] ELSE check[m]]
        /\ cells' = Append(cells, "armed")
        /\ timers' = timers \cup {[node |-> n, cell |-> c]}
        /\ UNCHANGED late

MutKeepsFlag(n) ==
    /\ check' = [m \in DOMAIN check \ {n} |-> check[m]]
    /\ UNCHANGED <<cells, timers, late>>

\* on_time and _check.erase
Meet(n) ==
    /\ cells' = [cells EXCEPT ![check[n].cell] = "met"]
    /\ check' = [m \in DOMAIN check \ {n} |-> check[m]]
    /\ UNCHANGED <<timers, late>>

\* check_timeout's part for a flag that is still set.
ExpireEntry(t) == check' = [m \in DOMAIN check \ {t.node} |-> check[m]]

MutSkipsSet(t) ==
    /\ reader = "none" /\ linked # {}
    /\ cells[t.cell] # "armed"
    /\ UNCHANGED <<check, late>>
    /\ cells' = [cells EXCEPT ![t.cell] = "freed"]
    /\ timers' = timers \ {t}
    /\ UNCHANGED <<storageVars, linkVars>>

\* check_timeout, for one timer.  The reactor calls it before it waits for its
\* channels, and waits for a new one when it has none.
CheckTimeout(t) ==
    /\ reader = "none" /\ linked # {}
    /\ IF cells[t.cell] = "armed"
       THEN ExpireEntry(t) /\ late' = late \cup {t.node}
       ELSE UNCHANGED <<check, late>>
    /\ cells' = [cells EXCEPT ![t.cell] = "freed"]
    /\ timers' = timers \ {t}
    /\ UNCHANGED <<storageVars, linkVars>>

-----------------------------------------------------------------------------
(* handle_read: one record of a batch *)

\* The batch goes on, with one record that is handled and added.
InBatch(s) ==
    /\ s \in linked /\ reader \in {"none", s} /\ ~hungUp
    /\ Len(handled) < MaxRecords
    /\ reader' = s
    /\ records' = AddRecord
    /\ UNCHANGED <<dir, inodes, out, names, saved, lost, query, nodes, linked>>

Handled(r) == handled' = Append(handled, r)

(* The records, with the call of the handler that each one causes. *)

Record(op, n, call) ==
    [op |-> op, node |-> n, type |-> 0, key |-> <<>>, back |-> NoPlace, call |-> call]

RegisterRecord(n, type) == [Record("Register", n, "register_logger") EXCEPT !.type = type]

CreateRecord(n, t, type, call) ==
    [Record("Create", n, call) EXCEPT !.type = type, !.key = Index_Key(n, t)]

EndRecord(k) == [Record("End", k.node, "logger_end") EXCEPT !.key = k]

\* The header gets the place of the node's log before this one.
LogRecord(k, back) == [Record("Log", k.node, "receive_log") EXCEPT !.key = k, !.back = back]

ErrorRecord(n) == Record("Error", n, "handling_error")

OfflineRecord(s) == Record("Offline", s, "node_offline")

MutForgetsType(n, type) ==
    /\ UNCHANGED index
    /\ Meet(n)

\* handle_register_logger, when the creation or another registration came first.
RegisterMeets(n, type) ==
    /\ UpdateLogger(n, check[n].itime, type, Parent, ParentTime)
    /\ Meet(n)

\* handle_register_logger; LoggerCheckData does not keep the parent's init time.
HandleRegister(s, n, type) ==
    /\ InBatch(s)
    /\ CASE type > Decision /\ n \in DOMAIN check -> RegisterMeets(n, type)
         [] type > Decision /\ n \notin DOMAIN check ->
                /\ Arm(n, [type |-> type, parent |-> Parent, itime |-> 0, ptime |-> 0, cell |-> 0])
                /\ UNCHANGED index
         [] type <= Decision -> UNCHANGED <<checkVars, index>>
    /\ Handled(RegisterRecord(n, type))
    /\ UNCHANGED <<ended, hungUp>>

\* handle_create_logger: the type and parent the node gets.
CreatedAs(n, type) ==
    IF type = BranchHead /\ n \in DOMAIN check
    THEN [type |-> check[n].type, parent |-> check[n].parent, ptime |-> check[n].ptime]
    ELSE IF type \in {Head_, BranchHead} THEN [type |-> type, parent |-> NoParent, ptime |-> 0]
    ELSE [type |-> type, parent |-> Parent, ptime |-> ParentTime]

\* handle_create_logger
HandleCreate(s, n, t, type) ==
    /\ InBatch(s)
    /\ LET as == CreatedAs(n, type)
       IN  /\ CreateLogger(n, t, as.type, as.parent, as.ptime)
           /\ Handled(CreateRecord(n, t, type,
                           IF ~CanCreate(n, t) THEN "handling_error"
                           ELSE IF as.type = Head_ THEN "create_head_logger" ELSE "create_logger"))
    /\ CASE type = BranchHead /\ n \in DOMAIN check -> Meet(n)
         [] type = BranchHead /\ n \notin DOMAIN check ->
                Arm(n, [type |-> type, parent |-> NoParent, itime |-> t, ptime |-> 0, cell |-> 0])
         [] type # BranchHead -> UNCHANGED checkVars
    /\ UNCHANGED <<ended, hungUp>>

\* handle_log.  A node's creation reaches the center before its logs; those of a
\* node that was created before the center connected, whose key the index has
\* not, are left out: handle_a_log gives them the place of a default value.
HandleLog(s, k) ==
    /\ k \in DOMAIN index
    /\ InBatch(s)
    /\ PlaceLog(k)
    /\ Handled(LogRecord(k, index[k].at))
    /\ UNCHANGED <<checkVars, ended, hungUp>>

\* handle_end_logger
HandleEnd(s, k) ==
    /\ k \in DOMAIN index
    /\ InBatch(s)
    /\ ended' = ended \cup {k}
    /\ Handled(EndRecord(k))
    /\ UNCHANGED <<checkVars, index, hungUp>>

\* handle_error_logger
HandleError(s, n) ==
    /\ InBatch(s)
    /\ Handled(ErrorRecord(n))
    /\ UNCHANGED <<checkVars, index, ended, hungUp>>

\* handle_remove_server
HandleOffline(s) ==
    /\ InBatch(s)
    /\ hungUp' = TRUE
    /\ Handled(OfflineRecord(s))
    /\ UNCHANGED <<checkVars, index, ended>>

\* handle_read after its loop, and handle_close after Node_Offline.
EndBatch ==
    /\ reader # "none"
    /\ WriteToFile
    /\ IF hungUp THEN nodes' = nodes \ {reader} /\ linked' = linked \ {reader}
       ELSE UNCHANGED <<nodes, linked>>
    /\ reader' = "none" /\ hungUp' = FALSE
    /\ UNCHANGED <<index, ended, handled, lost, query, checkVars>>

-----------------------------------------------------------------------------
(* The other threads *)

Users ==
    /\ \/ \E s \in {ServiceOf[n] : n \in Node} : GetQuerySet(s)
       \/ QueryLog \/ SearchEnds
       \/ \E n \in 2 .. MaxRecords : DeleteOldestFiles(n)
    /\ UNCHANGED <<checkVars, linkVars>>

\* The process ends between two batches and another center begins.
Restart ==
    /\ reader = "none" /\ handled # <<>>
    /\ Reopen
    /\ check' = <<>> /\ timers' = {} /\ cells' = <<>>
    /\ late' = late \cup DOMAIN check
    /\ nodes' = {} /\ linked' = {}
    /\ UNCHANGED <<reader, hungUp>>

CenterInit ==
    /\ StorageInit
    /\ nodes = {} /\ linked = {} /\ reader = "none" /\ hungUp = FALSE
    /\ check = <<>> /\ timers = {} /\ cells = <<>> /\ late = {}

HandleRecord(s) ==
    \/ \E n \in Node : \E type \in {Fork, RpcFork, RpcDecision} : HandleRegister(s, n, type)
    \/ \E n \in Node : \E t \in Time : \E type \in {Head_, BranchHead, Fork} : HandleCreate(s, n, t, type)
    \/ \E k \in DOMAIN index : HandleLog(s, k) \/ HandleEnd(s, k)
    \/ \E n \in Node : HandleError(s, n)
    \/ HandleOffline(s)

CenterNext ==
    \/ \E s \in Server : AddServer(s) \/ RemoveServer(s) \/ LoseServer(s) \/ HandleRecord(s)
    \/ EndBatch \/ Restart \/ Users
    \/ \E t \in timers : CheckTimeout(t)

CenterSpec == CenterInit /\ [][CenterNext]_centerVars

\* handle_read ends (EndBatch is the step that does it), and the reactor looks at
\* the timers again and again.
BatchEnds == reader # "none" /\ reader' = "none"

CenterFairness ==
    /\ WF_reader(BatchEnds)
    /\ WF_centerVars(\E t \in timers : CheckTimeout(t))

-----------------------------------------------------------------------------
\* A flag is freed once, by its timer, after its last use: an entry of _check and
\* the timer that will read its flag always belong together, and a timer whose flag
\* is still set finds its entry, however matches, expiries and new entries follow.
TimersMatch ==
    /\ \A n \in DOMAIN check :
           /\ cells[check[n].cell] = "armed"
           /\ [node |-> n, cell |-> check[n].cell] \in timers
    /\ \A t \in timers :
           /\ cells[t.cell] # "freed"
           /\ cells[t.cell] = "armed" => t.node \in DOMAIN check /\ check[t.node].cell = t.cell

\* The places in handled of the records about node n that go through _check.
Halves(n) ==
    {i \in DOMAIN handled : /\ handled[i].node = n
                            /\ \/ handled[i].op = "Register" /\ handled[i].type > Decision
                               \/ handled[i].op = "Create" /\ handled[i].type = BranchHead}

\* A registration and a creation of a node, in either order and without a timeout
\* between them, leave the type and parent of the registration in the node's index
\* entry.
PairsAgree ==
    \A n \in Node : \A i, j \in Halves(n) :
        LET r == handled[i]
            c == handled[j]
        IN  /\ Halves(n) = {i, j} /\ r.op = "Register" /\ c.op = "Create"
            /\ n \notin late /\ c.call # "handling_error"
            => index[c.key].type = r.type /\ index[c.key].parent = Parent

\* replay_history: the calls for the records of a file.
Replay(ids) ==
    [i \in 1 .. Len(ids) |->
        LET r == handled[ids[i]]
        IN  CASE r.op = "Register" -> "register_logger"
              [] r.op = "Create" -> IF r.type = Head_ THEN "create_head_logger" ELSE "create_logger"
              [] r.op = "End" -> "logger_end"
              [] r.op = "Log" -> "receive_log"
              [] r.op = "Error" -> "handling_error"
              [] r.op = "Offline" -> "skipped"]

\* The log files hold every record handled, once and in the order of arrival, over
\* batches, changes of file, removals and restarts, so that replay_history of them
\* repeats the calls the handler got, but for node_offline and conflicts.
ReplayExact ==
    /\ OnDisk = SelectSeq([i \in DOMAIN handled |-> i], LAMBDA i : i <= saved /\ i \notin lost)
    /\ \A i \in DOMAIN OnDisk :
           \/ Replay(OnDisk)[i] = handled[OnDisk[i]].call
           \/ handled[OnDisk[i]].op = "Offline"
           \/ handled[OnDisk[i]].op = "Create" /\ handled[OnDisk[i]].call = "handling_error"

\* An entry of _check does not stay: the other half comes or the timer ends,
\* as long as a server is linked.
ChecksSettle ==
    \A n \in Node : (n \in DOMAIN check) ~> (n \notin DOMAIN check \/ linked = {})

=============================================================================
