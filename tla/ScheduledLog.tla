---------------------------- MODULE ScheduledLog ----------------------------
(***************************************************************************)
(* Base::ScheduledThread and the SystemLogs it serves.  A log collects     *)
(* records in a buffer; full buffers become tasks of the one log thread,   *)
(* which also flushes half full ones once per interval.                    *)
(*                                                                         *)
(* Two locks: _mutex of the thread, held inside single steps except while  *)
(* the thread goes to sleep ("dozing"), and the IO_lock of a log, held     *)
(* over steps only by a push that spins for a buffer.  A record is its     *)
(* number; a buffer of the pool has room for BufferRoom records, and one   *)
(* that the exhausted pool gave for none.  Where write_to_file changes     *)
(* files follows from the amount written, so the files of a log are one    *)
(* sequence here.                                                          *)
(***************************************************************************)
EXTENDS Integers, Sequences, FiniteSets, Records

CONSTANTS
    Log,         \* the SystemLogs
    MaxRecords,  \* bound: records pushed into one log
    BufferRoom,  \* records that fit into a buffer
    PoolBuffers  \* buffers in the BufferPool

ASSUME LogAssumption ==
    /\ MaxRecords \in Nat /\ BufferRoom \in Nat \ {0} /\ PoolBuffers \in Nat

VARIABLES
    shutdown,    \* ScheduledThread::shutdown
    schedulers,  \* _schedulers
    sched,       \* waiting_tasks, need_flush and shutdown of each Scheduler
    ready,       \* _ready
    invoking,    \* _invoking
    toFlush,     \* the thread's need_flush
    flushSpace,  \* its capacity
    logPc,       \* where the thread is
    logJoined,   \* shutdown_thread has returned
    logPool,     \* buffers left in the pool
    buffer,      \* _buffer of each log
    disk,        \* the records in a log's files
    userPc,      \* where the user of each log is
    pushed,      \* history: records accepted
    destroyed,   \* history: the logs destroyed before shutdown was set
    overtaken    \* history: logs that had a buffer written before one in the queue

threadVars == <<shutdown, schedulers, sched, ready, invoking, toFlush, flushSpace, logPc, logJoined>>
logVars == <<threadVars, logPool, buffer, disk, userPc, pushed, destroyed, overtaken>>

NoBuffer == [room |-> -1, recs |-> <<>>]

\* A QueueIter that points nowhere.
NoIter == "null"

\* new LogBuffer(_bufferPool->get(..)): without a free buffer one of size 0.
FreshBuffer == [room |-> IF logPool > 0 THEN BufferRoom ELSE 0, recs |-> <<>>]

TakenFromPool == IF logPool > 0 THEN logPool - 1 ELSE 0

GivenBack(b) == IF b.room > 0 THEN 1 ELSE 0

\* write_to_file
Written(d, l, b) == [d EXCEPT ![l] = @ \o b.recs]

\* A section under ScheduledThread::_mutex can begin.
MutexFree == logPc \notin {"dozing", "last"}

\* The members of s that are in S, in their order.
Filtered(s, S) ==
    LET P == {i \in DOMAIN s : s[i] \in S}
        Upto(i) == {j \in P : j <= i}
    IN  [n \in 1 .. Cardinality(P) |-> s[CHOOSE i \in P : Cardinality(Upto(i)) = n]]

\* notify_one; the timed wait may end at any time and needs no help.
Notified == IF logPc = "asleep" THEN "test" ELSE logPc

\* The tasks that wait, in the order in which they will be invoked, and the places
\* of those of log l.
Queue == invoking \o ready
TasksOf(q, l) == {i \in DOMAIN q : q[i].log = l}

-----------------------------------------------------------------------------
(* The users of the logs *)

MutOpenSilent(l) ==
    /\ userPc[l] = "none"
    /\ MutexFree
    /\ schedulers' = IF shutdown THEN schedulers ELSE Append(schedulers, l)
    /\ userPc' = [userPc EXCEPT ![l] = "opening"]
    /\ UNCHANGED <<shutdown, sched, ready, invoking, toFlush, flushSpace, logPc, logJoined,
                   logPool, buffer, disk, pushed, destroyed, overtaken>>

\* SystemLog::SystemLog, up to add_scheduler.
OpenLog(l) ==
    /\ userPc[l] = "none"
    /\ MutexFree
    /\ IF shutdown THEN UNCHANGED <<schedulers, logPc>>
       ELSE schedulers' = Append(schedulers, l) /\ logPc' = Notified
    /\ userPc' = [userPc EXCEPT ![l] = "opening"]
    /\ UNCHANGED <<shutdown, sched, ready, invoking, toFlush, flushSpace, logJoined,
                   logPool, buffer, disk, pushed, destroyed, overtaken>>

\* The rest: the thread may already have looked for the buffer.
OpenBuffer(l) ==
    /\ userPc[l] = "opening"
    /\ buffer' = [buffer EXCEPT ![l] = FreshBuffer]
    /\ logPool' = TakenFromPool
    /\ userPc' = [userPc EXCEPT ![l] = "open"]
    /\ UNCHANGED <<threadVars, disk, pushed, destroyed, overtaken>>

\* push: the test of closed(), before IO_lock.
PushBegin(l) ==
    /\ userPc[l] = "open"
    /\ pushed[l] < MaxRecords
    /\ ~shutdown
    /\ userPc' = [userPc EXCEPT ![l] = "pushing"]
    /\ UNCHANGED <<threadVars, logPool, buffer, disk, pushed, destroyed, overtaken>>

HasRoom(b) == Len(b.recs) < b.room

\* push: LogBuffer::append succeeds.
PushAppend(l) ==
    /\ userPc[l] = "pushing"
    /\ HasRoom(buffer[l])
    /\ buffer' = [buffer EXCEPT ![l].recs = Append(@, pushed[l] + 1)]
    /\ pushed' = [pushed EXCEPT ![l] = @ + 1]
    /\ userPc' = [userPc EXCEPT ![l] = "open"]
    /\ UNCHANGED <<threadVars, logPool, disk, destroyed, overtaken>>

\* submit_task and the part it shares with remove_scheduler_and_invoke.
Submitted(l, gone) ==
    /\ ready' = Append(ready, [log |-> l, buf |-> buffer[l]])
    /\ sched' = [sched EXCEPT ![l] = [waiting |-> @.waiting + 1, need |-> FALSE,
                                      gone |-> @.gone \/ gone]]
    /\ logPc' = Notified
    /\ UNCHANGED <<shutdown, schedulers, invoking, toFlush, flushSpace, logJoined>>

\* push: append found no room; the buffer is submitted and the search for
\* another one begins, under IO_lock.
PushSubmit(l) ==
    /\ userPc[l] = "pushing"
    /\ ~HasRoom(buffer[l])
    /\ MutexFree
    /\ Submitted(l, FALSE)
    /\ buffer' = [buffer EXCEPT ![l] = NoBuffer]
    /\ userPc' = [userPc EXCEPT ![l] = "spinning"]
    /\ UNCHANGED <<logPool, disk, pushed, destroyed, overtaken>>

\* push: the pool has a buffer; the record goes into it.
PushSpin(l) ==
    /\ userPc[l] = "spinning"
    /\ logPool > 0
    /\ buffer' = [buffer EXCEPT ![l] = [FreshBuffer EXCEPT !.recs = <<pushed[l] + 1>>]]
    /\ logPool' = TakenFromPool
    /\ pushed' = [pushed EXCEPT ![l] = @ + 1]
    /\ userPc' = [userPc EXCEPT ![l] = "open"]
    /\ UNCHANGED <<threadVars, disk, destroyed, overtaken>>

MutNotCleared(l) ==
    /\ userPc[l] # "spinning"
    /\ disk' = Written(disk, l, buffer[l])
    /\ UNCHANGED <<buffer, overtaken>>

\* LogScheduler::force_invoke, under IO_lock: write the buffer and clear it.  An
\* older one that still is in the queue comes into the file after it.
ForceInvoke(l) ==
    /\ userPc[l] # "spinning"
    /\ disk' = Written(disk, l, buffer[l])
    /\ buffer' = [buffer EXCEPT ![l].recs = <<>>]
    /\ overtaken' = IF buffer[l].recs # <<>> /\ TasksOf(Queue, l) # {} THEN overtaken \cup {l}
                    ELSE overtaken

\* SystemLog::flush, in the user's thread.
FlushLog(l) ==
    /\ userPc[l] = "open"
    /\ buffer[l].recs # <<>>
    /\ ForceInvoke(l)
    /\ UNCHANGED <<threadVars, logPool, userPc, pushed, destroyed>>

\* SystemLog::~SystemLog: after shutdown the buffer is dropped with its records.
DestroyLog(l) ==
    /\ userPc[l] = "open"
    /\ MutexFree
    /\ IF shutdown THEN UNCHANGED <<threadVars, destroyed>>
       ELSE Submitted(l, TRUE) /\ destroyed' = destroyed \cup {l}
    /\ buffer' = [buffer EXCEPT ![l] = NoBuffer]
    /\ userPc' = [userPc EXCEPT ![l] = "gone"]
    /\ UNCHANGED <<logPool, disk, pushed, overtaken>>

-----------------------------------------------------------------------------
(* The owner of the thread *)

\* shutdown_thread: the flag and the notification, without the lock.
ShutdownThread ==
    /\ ~shutdown
    /\ shutdown' = TRUE
    /\ logPc' = Notified
    /\ UNCHANGED <<schedulers, sched, ready, invoking, toFlush, flushSpace, logJoined,
                   logPool, buffer, disk, userPc, pushed, destroyed, overtaken>>

\* shutdown_thread after join.
JoinThread ==
    /\ shutdown /\ ~logJoined
    /\ logPc = "done"
    /\ logJoined' = TRUE
    /\ schedulers' = <<>> /\ ready' = <<>> /\ invoking' = <<>>
    /\ UNCHANGED <<shutdown, sched, toFlush, flushSpace, logPc,
                   logPool, buffer, disk, userPc, pushed, destroyed, overtaken>>

-----------------------------------------------------------------------------
(* The thread *)

ThreadGoes(pc) ==
    /\ logPc' = pc
    /\ UNCHANGED <<shutdown, schedulers, logJoined, userPc, pushed, destroyed>>

\* while (!shutdown), and the predicate of wait_if_no_scheduler.
LoopTest ==
    /\ logPc \in {"top", "test"}
    /\ ThreadGoes(IF shutdown THEN "closing" ELSE IF schedulers = <<>> THEN "dozing" ELSE "napping")
    /\ UNCHANGED <<sched, ready, invoking, toFlush, flushSpace, logPool, buffer, disk, overtaken>>

\* The wait begins: a shutdown after the test has been missed.
FallAsleep ==
    /\ logPc = "dozing"
    /\ ThreadGoes("asleep")
    /\ UNCHANGED <<sched, ready, invoking, toFlush, flushSpace, logPool, buffer, disk, overtaken>>

\* waiting: the timed wait ends, early (true) or at _next_flush_time, and the
\* queues change places; all tasks are invoked before the next wait or flush.
WaitOver(again) ==
    /\ logPc = "napping"
    /\ invoking' = ready /\ ready' = invoking
    /\ ThreadGoes(IF again /\ ~shutdown THEN "invoke" ELSE "invokeLast")
    /\ UNCHANGED <<sched, toFlush, flushSpace, logPool, buffer, disk, overtaken>>

\* One round of invoke: LogScheduler::invoke and the decrement.
InvokeTask ==
    /\ logPc \in {"invoke", "invokeLast", "invokeFlush"}
    /\ invoking # <<>>
    /\ LET t == Head(invoking)
       IN  /\ disk' = Written(disk, t.log, t.buf)
           /\ logPool' = logPool + GivenBack(t.buf)
           /\ sched' = [sched EXCEPT ![t.log].waiting = @ - 1]
    /\ invoking' = Tail(invoking)
    /\ ThreadGoes(logPc)
    /\ UNCHANGED <<ready, toFlush, flushSpace, buffer, overtaken>>

\* invoke returns: to the timed wait, to get_need_flush, to flush_need.
InvokeOver ==
    /\ logPc \in {"invoke", "invokeLast", "invokeFlush"}
    /\ invoking = <<>>
    /\ ThreadGoes(CASE logPc = "invoke" -> "napping"
                    [] logPc = "invokeLast" -> "collect"
                    [] logPc = "invokeFlush" -> "flush")
    /\ UNCHANGED <<sched, ready, invoking, toFlush, flushSpace, logPool, buffer, disk, overtaken>>

\* get_need_flush; a vector's capacity never shrinks here.
GetNeedFlush ==
    /\ logPc = "collect"
    /\ toFlush' = toFlush \o Filtered(schedulers, {l \in Log : sched[l].need})
    /\ flushSpace' = IF Len(toFlush') > flushSpace THEN Len(toFlush') ELSE flushSpace
    /\ ThreadGoes("flush")
    /\ UNCHANGED <<sched, ready, invoking, logPool, buffer, disk, overtaken>>

\* flush_need: waiting_tasks is read without a lock, force_invoke is called later.
\* What follows the use of a default iterator is undefined and not modelled.
LogFlushTest ==
    /\ logPc = "flush"
    /\ toFlush # <<>> /\ Head(toFlush) # NoIter
    /\ IF sched[Head(toFlush)].waiting = 0
       THEN ThreadGoes("force") /\ UNCHANGED <<toFlush, ready, invoking>>
       ELSE /\ ThreadGoes("invokeFlush")
            /\ invoking' = ready /\ ready' = invoking
            /\ toFlush' = Tail(toFlush)
    /\ UNCHANGED <<sched, flushSpace, logPool, buffer, disk, overtaken>>

\* flush_need: force_invoke, once the log's IO_lock is free.
FlushForce ==
    /\ logPc = "force"
    /\ ForceInvoke(Head(toFlush))
    /\ toFlush' = Tail(toFlush)
    /\ ThreadGoes("flush")
    /\ UNCHANGED <<sched, ready, invoking, flushSpace, logPool>>

\* set_need_flush keeps a scheduler that is in use or has tasks.
StaysScheduled(l) == ~sched[l].gone \/ sched[l].waiting > 0

\* set_need_flush: resize leaves 4 * size default iterators in the vector.
SetNeedFlush ==
    /\ logPc = "flush"
    /\ toFlush = <<>>
    /\ LET n == 4 * Len(schedulers)
       IN  toFlush' = IF flushSpace > n THEN [i \in 1 .. n |-> NoIter] ELSE <<>>
    /\ schedulers' = Filtered(schedulers, {l \in Log : StaysScheduled(l)})
    /\ sched' = [l \in Log |-> IF l \in RecordsIn(schedulers) /\ ~sched[l].gone
                               THEN [sched[l] EXCEPT !.need = TRUE] ELSE sched[l]]
    /\ logPc' = "top"
    /\ UNCHANGED <<shutdown, ready, invoking, flushSpace, logJoined,
                   logPool, buffer, disk, userPc, pushed, destroyed, overtaken>>

\* closing: its first loop goes from end() to end(); then _ready, one task after
\* the other, under the lock.  A task that was invoked is taken off the queue,
\* which the code leaves to shutdown_thread.
Closing ==
    /\ logPc \in {"closing", "last"}
    /\ IF ready = <<>> THEN UNCHANGED <<disk, logPool, ready>>
       ELSE /\ disk' = Written(disk, Head(ready).log, Head(ready).buf)
            /\ logPool' = logPool + GivenBack(Head(ready).buf)
            /\ ready' = Tail(ready)
    /\ ThreadGoes(IF ready' = <<>> THEN "done" ELSE "last")
    /\ UNCHANGED <<sched, invoking, toFlush, flushSpace, buffer, overtaken>>

-----------------------------------------------------------------------------
LogInit ==
    /\ shutdown = FALSE
    /\ schedulers = <<>>
    /\ sched = [l \in Log |-> [waiting |-> 0, need |-> TRUE, gone |-> FALSE]]
    /\ ready = <<>> /\ invoking = <<>>
    /\ toFlush = <<>> /\ flushSpace = 0
    /\ logPc = "top" /\ logJoined = FALSE
    /\ logPool = PoolBuffers
    /\ buffer = [l \in Log |-> NoBuffer]
    /\ disk = [l \in Log |-> <<>>]
    /\ userPc = [l \in Log |-> "none"]
    /\ pushed = [l \in Log |-> 0]
    /\ destroyed = {} /\ overtaken = {}

PushStep(l) == PushAppend(l) \/ PushSubmit(l) \/ PushSpin(l) \/ OpenBuffer(l)

LogUser ==
    \E l \in Log : OpenLog(l) \/ PushBegin(l) \/ PushStep(l) \/ FlushLog(l) \/ DestroyLog(l)

LogThreadStep ==
    \/ LoopTest \/ FallAsleep \/ InvokeTask \/ InvokeOver \/ GetNeedFlush
    \/ LogFlushTest \/ FlushForce \/ SetNeedFlush \/ Closing

LogNext ==
    \/ LogUser \/ LogThreadStep
    \/ \E again \in BOOLEAN : WaitOver(again)
    \/ ShutdownThread \/ JoinThread

\* The thread runs, its timed wait ends at a fixed time, a call that has begun
\* goes on.
LogFairness ==
    /\ WF_logVars(LogThreadStep)
    /\ SF_logVars(WaitOver(FALSE))
    /\ \A l \in Log : WF_logVars(PushStep(l))

LogSpec == LogInit /\ [][LogNext]_logVars /\ LogFairness

-----------------------------------------------------------------------------
\* The records of log l in the tasks q and its buffer b.
InMemory(q, b, l) == RecordsIn(b.recs) \cup UNION {RecordsIn(q[i].buf.recs) : i \in TasksOf(q, l)}

Ascending(s) == \A i, j \in DOMAIN s : i < j => s[i] < s[j]
Precedes(s, t) == \A i \in DOMAIN s, j \in DOMAIN t : s[i] < t[j]

\* The records of log l in memory are in the order they were pushed, those of its
\* buffer last.
InPushOrder(q, b, l) ==
    /\ Ascending(b.recs)
    /\ \A i \in TasksOf(q, l) : Ascending(q[i].buf.recs) /\ Precedes(q[i].buf.recs, b.recs)
    /\ \A i, j \in TasksOf(q, l) : i < j => Precedes(q[i].buf.recs, q[j].buf.recs)

\* The files d hold records in the order they were pushed, all before those in memory.
InFileOrder(q, b, d, l) ==
    /\ Ascending(d)
    /\ \A r \in RecordsIn(d), s \in InMemory(q, b, l) : r < s

\* The records 1 .. n of log l are in one place each, in the files d or in memory,
\* and in the files in order, too, if l is not one of the logs o.
Accounted(q, b, d, n, l, o) ==
    /\ \A i, j \in DOMAIN d : d[i] = d[j] => i = j
    /\ RecordsIn(d) \cap InMemory(q, b, l) = {}
    /\ RecordsIn(d) \cup InMemory(q, b, l) = 1 .. n
    /\ InPushOrder(q, b, l)
    /\ l \notin o => InFileOrder(q, b, d, l)

\* Until shutdown every record accepted by push is in one place, in memory or in
\* the files: swapping the queues, flushing and removing a log neither lose nor
\* double buffers.  The files have them in the order they were pushed unless
\* a flush came before the task of an older buffer: SystemLog::flush and
\* flush_need write the buffer in use whatever still is in the queue.  The list
\* node that a task's iterator points to is there.  When shutdown_thread returns,
\* the files of every log destroyed before the flag was set are complete, although
\* the thread's own flush at closing does nothing, and in order but for such a flush.
RecordsKept ==
    /\ ~shutdown => \A l \in Log :
           /\ sched[l].waiting > 0 => l \in RecordsIn(schedulers)
           /\ sched[l].waiting = Cardinality(TasksOf(Queue, l))
           /\ Accounted(Queue, buffer[l], disk[l], pushed[l], l, overtaken)
    /\ logJoined => \A l \in destroyed :
           /\ RecordsIn(disk[l]) = 1 .. pushed[l]
           /\ l \in overtaken \/ Ascending(disk[l])

\* A push holds IO_lock until the pool has a buffer, and the thread, which would
\* give one back, waits for that lock.
Starved == \E l \in Log : userPc[l] = "spinning" /\ logPc = "force" /\ Head(toFlush) = l /\ logPool = 0

\* Every record pushed is written after a while, without further pushes, unless
\* the thread is shut down or starved by an empty pool.
RecordsReachFile ==
    []<>(\/ shutdown \/ Starved
         \/ \A l \in Log : \A r \in 1 .. pushed[l] : r \in RecordsIn(disk[l]))

=============================================================================
