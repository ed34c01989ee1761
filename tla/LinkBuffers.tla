---------------------------- MODULE LinkBuffers ----------------------------
(***************************************************************************)
(* The way of a record through a LinkLogServer: loggers write into shared   *)
(* buffers; a full buffer goes through a pipe to the server's thread, which *)
(* also takes buffers that have not been flushed for a second; the thread   *)
(* writes each buffer to the record file and sends it to the center.        *)
(*                                                                         *)
(* A record is [slot, n], its number in the buffer it was written to; on    *)
(* the wire it has two halves, so that a partial write can cut it.  The     *)
(* center's messages are read from the pipe by mistake (_receiver instead   *)
(* of _center), so handle_remote_message has none, and whatever the center  *)
(* sends ends the link.                                                     *)
(*                                                                         *)
(* The mutex of a buffer is held in single steps, and while a logger looks  *)
(* for a block.  A logger that finds none sleeps without the mutex, and     *)
(* others come to the same buffer, find a block and write.  The sleeper     *)
(* does not look again: it gets a block and assigns it, which gives the     *)
(* other block back with the records in it.  index stays, so the records    *)
(* keep their places; `lost' has those of whose bytes nothing is left       *)
(* there.  Where that makes a logger write outside any block the behaviour  *)
(* ends ("undefined").                                                      *)
(***************************************************************************)
EXTENDS Integers, Sequences, Records

CONSTANTS
    Slot,      \* _buffers
    MaxEvents, \* bound: records written to a buffer, connections and timeouts together
    SlotRoom,  \* records that fit into a block
    Blocks,    \* blocks in the pool
    OutRoom,   \* halves that fit into the center's output buffer
    MaxLinks,  \* bound: connections of a center
    MaxTimeouts \* bound: timeouts of nodes reported

ASSUME BuffersAssumption ==
    /\ SlotRoom \in Nat \ {0} /\ Blocks \in Nat \ {0} /\ OutRoom \in Nat \ {0, 1}

VARIABLES
    block,     \* the buffer has a block
    recs,      \* the records in it
    recent,    \* last_flush_time is less than BUFFER_FLUSH_TIME ago
    writer,    \* the loggers in submit_buffer: which holds the mutex, how many sleep or were woken
    freeBlocks,
    pipe,      \* the messages in the pipe
    inbox,     \* _receiver's input
    waitQueue, \* wait_queue
    recFile,   \* the record files
    center,    \* _center.agent_valid()
    watch,     \* the poller watches for room in the center's socket
    canSend,   \* center_can_send
    output,    \* _center.output()
    srvPc,     \* where the thread is
    toVisit,   \* the buffers force_flush has yet to visit
    visiting,  \* the buffer it waits for
    ending,    \* thread_offline_notify ("noticed"), close_thread ("closing")
    destroying, \* ~LinkLogServer has begun
    got,       \* history: what the present or last center received
    links,     \* history: connections so far
    told,      \* history: timeouts reported
    count,     \* history: records written to each buffer
    faithful,  \* history: a center was there at every write and never lost
    crowded,   \* history: the buffers a logger came to while another was in submit_buffer
    lost,      \* history: the records in blocks that were given back
    undefined  \* a logger has written outside its block

writerVars == <<block, recs, recent, writer>>
centerSide == <<center, watch, canSend, output, got, links, faithful>>
threadSide == <<srvPc, toVisit, visiting, ending, told>>
mishaps == <<crowded, lost, undefined>>
bufferVars == <<writerVars, freeBlocks, pipe, inbox, waitQueue, recFile, centerSide, threadSide, destroying, count, mishaps>>

Half(r, k) == [rec |-> r, half |-> k]

\* What goes over the wire for the records rs.
Halves2(rs) == [k \in 1 .. 2 * Len(rs) |-> Half(rs[(k + 1) \div 2], IF k % 2 = 1 THEN 1 ELSE 2)]

\* A record that the thread makes itself: Error_Logger, Node_Offline.
Special(kind) == [slot |-> kind, n |-> 0]

\* LinkLogMessage; flushed stands for sent in a NodeOffline.
ClearMessage(rs) == [type |-> "ClearBuffer", rs |-> rs, flushed |-> FALSE, begin |-> 0]
OfflineMessage == [type |-> "NodeOffline", rs |-> <<Special("offline")>>, flushed |-> FALSE, begin |-> 0]
TimeOutMessage == [type |-> "TimeOut", rs |-> <<Special("timeout")>>, flushed |-> TRUE, begin |-> 0]
ShutDownMessage == [type |-> "ShutDownServer", rs |-> <<>>, flushed |-> TRUE, begin |-> 0]

Flushed(m) == [m EXCEPT !.flushed = TRUE]

-----------------------------------------------------------------------------
(* The loggers *)

NewRec(b) == [slot |-> b, n |-> count[b] + 1]

Nobody == [holds |-> "none", asleep |-> 0, woken |-> 0]
MutexFree2(b) == writer[b].holds = "none"
Looks(b) == [writer EXCEPT ![b].holds = "getting"]

Budget == \A b \in Slot : count[b] + writer[b].asleep + writer[b].woken + links + told < MaxEvents

\* A logger with a record has the mutex of its buffer.
Comes(b) == MutexFree2(b) /\ ~destroying

Enter(b) ==
    /\ Comes(b)
    /\ Budget
    /\ crowded' = IF writer[b] = Nobody THEN crowded ELSE crowded \cup {b}

\* No room for a record: rest is 0.
Full(b) == Len(recs[b]) = IF block[b] THEN SlotRoom ELSE 0

\* The copy at the end of safe_write, safe_error and push.
CopyTo(b, before) ==
    /\ recs' = [recs EXCEPT ![b] = Append(before, NewRec(b))]
    /\ count' = [count EXCEPT ![b] = @ + 1]
    /\ faithful' = (faithful /\ center)

\* safe_write: the record fits.
WriteFits(b) ==
    /\ Enter(b) /\ block[b] /\ Len(recs[b]) < SlotRoom
    /\ CopyTo(b, recs[b])
    /\ UNCHANGED <<block, recent, writer, freeBlocks, pipe, inbox, waitQueue, recFile, center, watch, canSend,
                   output, got, links, threadSide, destroying, lost, undefined>>

\* safe_write: no block, and an index; rest is less than 0, as a uint64 large.
WriteNowhere(b) ==
    /\ Comes(b) /\ ~block[b] /\ recs[b] # <<>>
    /\ undefined' = TRUE
    /\ UNCHANGED <<writerVars, freeBlocks, pipe, inbox, waitQueue, recFile, centerSide, threadSide,
                   destroying, count, crowded, lost>>

\* submit_buffer: the pool has a block to exchange for the full one.
SubmitSwap(b) ==
    /\ Enter(b) /\ Full(b) /\ block[b]
    /\ freeBlocks > 0
    /\ freeBlocks' = freeBlocks - 1
    /\ pipe' = Append(pipe, ClearMessage(recs[b]))
    /\ recent' = [recent EXCEPT ![b] = TRUE]
    /\ CopyTo(b, <<>>)
    /\ UNCHANGED <<block, writer, inbox, waitQueue, recFile, center, watch, canSend, output, got, links,
                   threadSide, destroying, lost, undefined>>

\* submit_buffer: no block; the logger writes the file itself and keeps the block
\* when there is no center.
SubmitAlone(b) ==
    /\ Enter(b) /\ Full(b) /\ block[b]
    /\ freeBlocks = 0 /\ ~center
    /\ recFile' = recFile \o recs[b]
    /\ recent' = [recent EXCEPT ![b] = TRUE]
    /\ CopyTo(b, <<>>)
    /\ UNCHANGED <<block, writer, freeBlocks, pipe, inbox, waitQueue, center, watch, canSend, output, got, links,
                   threadSide, destroying, lost, undefined>>

\* submit_buffer: no block and a center; the full one goes, and the search begins.
SubmitLast(b) ==
    /\ Enter(b) /\ Full(b) /\ block[b]
    /\ freeBlocks = 0 /\ center
    /\ recFile' = recFile \o recs[b]
    /\ pipe' = Append(pipe, Flushed(ClearMessage(recs[b])))
    /\ block' = [block EXCEPT ![b] = FALSE]
    /\ recs' = [recs EXCEPT ![b] = <<>>]
    /\ recent' = [recent EXCEPT ![b] = TRUE]
    /\ writer' = Looks(b)
    /\ UNCHANGED <<freeBlocks, inbox, waitQueue, centerSide, threadSide, destroying, count, lost, undefined>>

\* submit_buffer: the buffer has no block.
SubmitEmpty(b) ==
    /\ Enter(b) /\ Full(b) /\ ~block[b]
    /\ recent' = [recent EXCEPT ![b] = TRUE]
    /\ writer' = Looks(b)
    /\ UNCHANGED <<block, recs, freeBlocks, pipe, inbox, waitQueue, recFile, centerSide,
                   threadSide, destroying, count, lost, undefined>>

\* The assignment of _pool.get's result gives a block back that another logger has got.
Returned(b) == IF block[b] THEN 1 ELSE 0
GivesBack(b) == lost' = IF block[b] THEN lost \cup RecordsIn(recs[b]) ELSE lost

\* submit_buffer: _pool.get has a block, and the record is copied behind index.
GetBlock(b) ==
    /\ writer[b].holds = "getting" /\ freeBlocks > 0
    /\ Len(recs[b]) < SlotRoom
    /\ GivesBack(b)
    /\ freeBlocks' = (freeBlocks - 1) + Returned(b)
    /\ block' = [block EXCEPT ![b] = TRUE]
    /\ CopyTo(b, recs[b])
    /\ writer' = [writer EXCEPT ![b].holds = "none"]
    /\ UNCHANGED <<recent, pipe, inbox, waitQueue, recFile, center, watch, canSend, output, got, links,
                   threadSide, destroying, crowded, undefined>>

\* The same when index is at the end: nothing tests the room again.
Overrun(b) ==
    /\ writer[b].holds = "getting" /\ freeBlocks > 0
    /\ Len(recs[b]) = SlotRoom
    /\ GivesBack(b)
    /\ undefined' = TRUE
    /\ UNCHANGED <<writerVars, freeBlocks, pipe, inbox, waitQueue, recFile, centerSide, threadSide,
                   destroying, count, crowded>>

\* submit_buffer: _pool.get has none.
GetNone(b) ==
    /\ writer[b].holds = "getting" /\ freeBlocks = 0
    /\ GivesBack(b)
    /\ freeBlocks' = Returned(b)
    /\ block' = [block EXCEPT ![b] = FALSE]
    /\ writer' = [writer EXCEPT ![b].holds = "dozing"]
    /\ UNCHANGED <<recs, recent, pipe, inbox, waitQueue, recFile, centerSide, threadSide,
                   destroying, count, crowded, undefined>>

\* submit_buffer: the wait begins, and with it the mutex is free.
DozeOff(b) ==
    /\ writer[b].holds = "dozing"
    /\ writer' = [writer EXCEPT ![b].holds = "none", ![b].asleep = @ + 1]
    /\ UNCHANGED <<block, recs, recent, freeBlocks, pipe, inbox, waitQueue, recFile, centerSide,
                   threadSide, destroying, count, mishaps>>

\* A logger that was woken has the mutex again.
WakeUp(b) ==
    /\ MutexFree2(b) /\ writer[b].woken > 0
    /\ writer' = [writer EXCEPT ![b].holds = "getting", ![b].woken = @ - 1]
    /\ UNCHANGED <<block, recs, recent, freeBlocks, pipe, inbox, waitQueue, recFile, centerSide,
                   threadSide, destroying, count, mishaps>>

\* One second since the last flush.
Age(b) ==
    /\ recent[b]
    /\ recent' = [recent EXCEPT ![b] = FALSE]
    /\ UNCHANGED <<block, recs, writer, freeBlocks, pipe, inbox, waitQueue, recFile, centerSide,
                   threadSide, destroying, count, mishaps>>

\* ~LinkLogServer, when the loggers are gone.
Destroy ==
    /\ ~destroying /\ \A b \in Slot : writer[b] = Nobody
    /\ destroying' = TRUE
    /\ pipe' = Append(pipe, ShutDownMessage)
    /\ UNCHANGED <<writerVars, freeBlocks, inbox, waitQueue, recFile, centerSide, threadSide, count, mishaps>>

-----------------------------------------------------------------------------
(* The thread *)

\* destroy_center_link
CenterGone ==
    /\ center' = FALSE /\ output' = <<>> /\ watch' = FALSE
    /\ faithful' = FALSE /\ got' = <<>>
    /\ UNCHANGED links

\* accept_message; a new center is accepted while there is none.
AcceptMessage(room) ==
    /\ srvPc = "accept"
    /\ inbox' = inbox \o pipe /\ pipe' = <<>>
    /\ \/ canSend' = (watch /\ room) /\ UNCHANGED <<center, watch, output, got, links, faithful>>
       \/ /\ ~center /\ ending # "closing" /\ links < MaxLinks /\ Budget
          /\ center' = TRUE /\ links' = links + 1 /\ got' = <<>> /\ canSend' = FALSE
          /\ UNCHANGED <<watch, output, faithful>>
       \/ center /\ canSend' = FALSE /\ CenterGone
    /\ srvPc' = IF ending = "closing" THEN "send" ELSE "local"
    /\ UNCHANGED <<writerVars, freeBlocks, waitQueue, recFile, toVisit, visiting, ending, told, destroying, count, mishaps>>

\* _condition.notify_one
NotifyOne ==
    IF \E b \in Slot : writer[b].asleep > 0
    THEN \E b \in Slot : /\ writer[b].asleep > 0
                        /\ writer' = [writer EXCEPT ![b].asleep = @ - 1, ![b].woken = @ + 1]
    ELSE UNCHANGED writer

MutForgetsBegin(m, n) == m

\* clear_buffer: what is left of a message after n halves were sent.
Shortened(m, n) == [m EXCEPT !.begin = @ + n]

Room == IF center THEN OutRoom - Len(output) ELSE 0

\* clear_buffer: a buffer that was not flushed goes to the file first.
Filed(m) == IF m.flushed THEN recFile ELSE recFile \o m.rs

\* clear_buffer(message, true) for the first message of wait_queue or of the pipe,
\* to be followed by "next" when all of it went out, else by "stay".
SendBuffer(m, stay) ==
    LET rest == SubSeq(Halves2(m.rs), m.begin + 1, 2 * Len(m.rs))
        n == IF Len(rest) < Room THEN Len(rest) ELSE Room
    IN  IF center /\ n < Len(rest)
        THEN /\ output' = output \o SubSeq(rest, 1, n)
             /\ waitQueue' = <<Shortened(m, n)>> \o stay
             /\ UNCHANGED <<freeBlocks, writer>>
        ELSE /\ output' = IF center THEN output \o rest ELSE output
             /\ waitQueue' = stay
             /\ freeBlocks' = freeBlocks + 1
             /\ NotifyOne

\* handle_local_message's argument of clear_buffer.
MaySend == waitQueue = <<>>

\* handle_local_message, one message.
HandleLocal ==
    /\ srvPc = "local" /\ inbox # <<>>
    /\ LET m == Head(inbox)
       IN  IF m.type = "ShutDownServer"
           THEN /\ srvPc' = "flush" /\ toVisit' = Slot /\ ending' = "noticed"
                /\ UNCHANGED <<freeBlocks, writer, output, recFile, waitQueue>>
           ELSE /\ recFile' = Filed(m)
                /\ IF MaySend THEN SendBuffer(Flushed(m), waitQueue)
                   ELSE /\ waitQueue' = Append(waitQueue, Flushed(m))
                        /\ UNCHANGED <<freeBlocks, writer, output>>
                /\ UNCHANGED <<srvPc, toVisit, ending>>
    /\ inbox' = Tail(inbox)
    /\ UNCHANGED <<block, recs, recent, pipe, center, watch, canSend, got, links, faithful, visiting, told, destroying, count, mishaps>>

\* handle_local_message and handle_remote_message return; force_flush begins.
LocalOver ==
    /\ srvPc = "local" /\ inbox = <<>>
    /\ srvPc' = "flush" /\ toVisit' = Slot
    /\ UNCHANGED <<writerVars, freeBlocks, pipe, inbox, waitQueue, recFile, centerSide, visiting, ending, told, destroying, count, mishaps>>

MutFlushesRecent(b) ==
    /\ srvPc = "flush" /\ b \in toVisit
    /\ toVisit' = toVisit \ {b}
    /\ IF ~recent[b] THEN UNCHANGED <<srvPc, visiting>>
       ELSE srvPc' = "lock" /\ visiting' = b
    /\ UNCHANGED <<writerVars, freeBlocks, pipe, inbox, waitQueue, recFile, centerSide, ending, told, destroying, count, mishaps>>

\* force_flush: last_flush_time is read without the buffer's mutex.
FlushTest(b) ==
    /\ srvPc = "flush" /\ b \in toVisit
    /\ toVisit' = toVisit \ {b}
    /\ IF recent[b] THEN UNCHANGED <<srvPc, visiting>>
       ELSE srvPc' = "lock" /\ visiting' = b
    /\ UNCHANGED <<writerVars, freeBlocks, pipe, inbox, waitQueue, recFile, centerSide, ending, told, destroying, count, mishaps>>

\* A buffer that is written to the file and, with a center, given to wait_queue.
FlushOut(b) ==
    /\ recFile' = recFile \o recs[b]
    /\ waitQueue' = IF center THEN Append(waitQueue, Flushed(ClearMessage(recs[b]))) ELSE waitQueue
    /\ block' = [block EXCEPT ![b] = ~center]

\* force_flush, under the buffer's mutex.
FlushSlot(b) ==
    /\ srvPc = "lock" /\ visiting = b
    /\ MutexFree2(b)
    /\ IF block[b] /\ recs[b] # <<>>
       THEN /\ FlushOut(b)
            /\ recs' = [recs EXCEPT ![b] = <<>>] /\ recent' = [recent EXCEPT ![b] = TRUE]
       ELSE UNCHANGED <<recFile, waitQueue, block, recs, recent>>
    /\ srvPc' = "flush" /\ visiting' = "none"
    /\ UNCHANGED <<writer, freeBlocks, pipe, inbox, centerSide, toVisit, ending, told, destroying, count, mishaps>>

\* check_timeout: a node may have timed out, which a center is told.
CheckTimeout2(due) ==
    /\ srvPc = "flush" /\ toVisit = {}
    /\ due => told < MaxTimeouts /\ Budget
    /\ told' = IF due THEN told + 1 ELSE told
    /\ waitQueue' = IF due /\ center THEN Append(waitQueue, TimeOutMessage) ELSE waitQueue
    /\ srvPc' = "send"
    /\ UNCHANGED <<writerVars, freeBlocks, pipe, inbox, recFile, centerSide, toVisit, visiting, ending, destroying, count, mishaps>>

\* send_center_message: the socket takes n halves, or fails.
SendOutput(n) ==
    /\ srvPc = "send"
    /\ IF center /\ output # <<>> /\ canSend
       THEN \/ /\ n <= Len(output)
               /\ got' = got \o SubSeq(output, 1, n)
               /\ output' = SubSeq(output, n + 1, Len(output))
               /\ UNCHANGED <<center, watch, links, faithful>>
            \/ n = 1 /\ CenterGone
       ELSE n = 1 /\ UNCHANGED <<center, watch, output, got, links, faithful>>
    /\ srvPc' = "drain" /\ canSend' = FALSE
    /\ UNCHANGED <<writerVars, freeBlocks, pipe, inbox, waitQueue, recFile, toVisit, visiting, ending, told, destroying, count, mishaps>>

\* send_center_message, its loop: a buffer.
DrainBuffer ==
    /\ srvPc = "drain" /\ waitQueue # <<>> /\ Head(waitQueue).type = "ClearBuffer"
    /\ recFile' = Filed(Head(waitQueue))
    /\ SendBuffer(Flushed(Head(waitQueue)), Tail(waitQueue))
    /\ srvPc' = IF Len(waitQueue') < Len(waitQueue) THEN "drain" ELSE "update"
    /\ UNCHANGED <<block, recs, recent, pipe, inbox, center, watch, canSend, got, links, faithful,
                   toVisit, visiting, ending, told, destroying, count, mishaps>>

\* fix_write: all or nothing.
Fits == Room >= 2

MutOfflineEarly(m) == m.type = "NodeOffline" /\ m.flushed

\* node_offline: the record was sent, and all before it.
OfflineOver(m) == m.type = "NodeOffline" /\ m.flushed /\ output = <<>>

\* send_center_message: logger_timeout and node_offline.
DrainRecord ==
    /\ srvPc = "drain" /\ waitQueue # <<>> /\ Head(waitQueue).type # "ClearBuffer"
    /\ LET m == Head(waitQueue)
       IN  CASE ~center ->
                  /\ waitQueue' = Tail(waitQueue) /\ srvPc' = "drain"
                  /\ UNCHANGED <<center, watch, output, got, links, faithful>>
             [] center /\ m.type = "TimeOut" ->
                  /\ output' = IF Fits THEN output \o Halves2(m.rs) ELSE output
                  /\ waitQueue' = IF Fits THEN Tail(waitQueue) ELSE waitQueue
                  /\ srvPc' = IF Fits THEN "drain" ELSE "update"
                  /\ UNCHANGED <<center, watch, got, links, faithful>>
             [] center /\ OfflineOver(m) ->
                  /\ waitQueue' = Tail(waitQueue) /\ srvPc' = "drain"
                  /\ center' = FALSE /\ watch' = FALSE /\ output' = <<>>
                  /\ UNCHANGED <<got, links, faithful>>
             [] center /\ m.type = "NodeOffline" /\ ~OfflineOver(m) ->
                  /\ output' = IF Fits /\ ~m.flushed THEN output \o Halves2(m.rs) ELSE output
                  /\ waitQueue' = <<IF Fits THEN Flushed(m) ELSE m>> \o Tail(waitQueue)
                  /\ srvPc' = "update"
                  /\ UNCHANGED <<center, watch, got, links, faithful>>
    /\ UNCHANGED <<writerVars, freeBlocks, pipe, inbox, recFile, canSend, toVisit, visiting, ending, told, destroying, count, mishaps>>

\* The loop of send_center_message ends; update_center_state, after the thread's
\* round or, in close_thread, after the test of its loop.
UpdateState ==
    /\ \/ srvPc = "update"
       \/ srvPc = "drain" /\ waitQueue = <<>>
    /\ watch' = (center /\ output # <<>>)
    /\ srvPc' = IF ending = "noticed" THEN "close"
                ELSE IF ending = "closing" /\ waitQueue = <<>> /\ output = <<>> THEN "done"
                ELSE "accept"
    /\ toVisit' = IF ending = "noticed" THEN Slot ELSE toVisit
    /\ UNCHANGED <<writerVars, freeBlocks, pipe, inbox, waitQueue, recFile, center, canSend, output, got, links,
                   faithful, visiting, ending, told, destroying, count, mishaps>>

\* save_logs, one buffer, under its mutex; the order is left open.  The index of
\* a buffer that was saved stays.
SaveLog(b) ==
    /\ srvPc = "close" /\ b \in toVisit
    /\ MutexFree2(b)
    /\ toVisit' = toVisit \ {b}
    /\ IF block[b] /\ recs[b] # <<>>
       THEN FlushOut(b)
       ELSE UNCHANGED <<recFile, waitQueue, block>>
    /\ UNCHANGED <<recs, recent, writer, freeBlocks, pipe, inbox, centerSide, srvPc, visiting, ending, told, destroying, count, mishaps>>

\* close_thread: save_logs has returned; the end of the node, up to the loop.
CloseThread ==
    /\ srvPc = "close" /\ toVisit = {}
    /\ waitQueue' = IF center THEN Append(waitQueue, OfflineMessage) ELSE waitQueue
    /\ ending' = "closing"
    /\ srvPc' = "update"
    /\ UNCHANGED <<writerVars, freeBlocks, pipe, inbox, recFile, centerSide, toVisit, visiting, told, destroying, count, mishaps>>

-----------------------------------------------------------------------------
BufferInit ==
    /\ block = [b \in Slot |-> FALSE] /\ recs = [b \in Slot |-> <<>>]
    /\ recent = [b \in Slot |-> FALSE] /\ writer = [b \in Slot |-> Nobody]
    /\ count = [b \in Slot |-> 0]
    /\ freeBlocks = Blocks
    /\ pipe = <<>> /\ inbox = <<>> /\ waitQueue = <<>> /\ recFile = <<>>
    /\ center = FALSE /\ watch = FALSE /\ canSend = FALSE /\ output = <<>>
    /\ srvPc = "accept" /\ toVisit = {} /\ visiting = "none" /\ ending = "no" /\ destroying = FALSE
    /\ got = <<>> /\ links = 0 /\ told = 0 /\ faithful = TRUE
    /\ crowded = {} /\ lost = {} /\ undefined = FALSE

WriterStep(b) == GetBlock(b) \/ Overrun(b) \/ GetNone(b) \/ DozeOff(b) \/ WakeUp(b)

ServerStep ==
    \/ \E room \in BOOLEAN : AcceptMessage(room)
    \/ HandleLocal \/ LocalOver
    \/ \E b \in Slot : FlushTest(b) \/ FlushSlot(b) \/ SaveLog(b)
    \/ \E due \in BOOLEAN : CheckTimeout2(due)
    \/ \E n \in 1 .. OutRoom : SendOutput(n)
    \/ DrainBuffer \/ DrainRecord \/ UpdateState \/ CloseThread

BufferNext ==
    /\ ~undefined
    /\ \/ \E b \in Slot : \/ WriteFits(b) \/ WriteNowhere(b)
                          \/ SubmitSwap(b) \/ SubmitAlone(b) \/ SubmitLast(b) \/ SubmitEmpty(b)
                          \/ WriterStep(b) \/ Age(b)
       \/ Destroy
       \/ ServerStep

\* The thread runs, time passes, a search for a block goes on.
BufferFairness ==
    /\ WF_bufferVars(~undefined /\ ServerStep)
    /\ \A b \in Slot : /\ WF_bufferVars(~undefined /\ WriterStep(b))
                       /\ WF_bufferVars(~undefined /\ Age(b))

BufferSpec == BufferInit /\ [][BufferNext]_bufferVars /\ BufferFairness

-----------------------------------------------------------------------------
\* The messages on their way to the thread, and those whose records are in no file.
Messages == inbox \o pipe
Unfiled(ms) == {i \in DOMAIN ms : ~ms[i].flushed}

\* The records that a buffer still owes: none once save_logs has been there.
Saved(b) == ending = "closing" \/ (srvPc = "close" /\ b \notin toVisit)
Held == [b \in Slot |-> IF Saved(b) THEN <<>> ELSE recs[b]]

OneEach(s) == \A i, j \in DOMAIN s : s[i] = s[j] => i = j
Apart(s, t) == RecordsIn(s) \cap RecordsIn(t) = {}

Placed(d, ms, h) ==
    RecordsIn(d) \cup (UNION {RecordsIn(ms[i].rs) : i \in Unfiled(ms)}) \cup (UNION {RecordsIn(h[b]) : b \in Slot})

\* Of each buffer b the records 1 .. n[b] are in one place each: in the file d, in
\* a message of ms or in a buffer of h.
OncePlaced(d, ms, h, n) ==
    /\ OneEach(d)
    /\ \A i \in Unfiled(ms) : OneEach(ms[i].rs) /\ Apart(ms[i].rs, d)
    /\ \A i, j \in Unfiled(ms) : i # j => Apart(ms[i].rs, ms[j].rs)
    /\ \A b \in Slot : /\ OneEach(h[b]) /\ Apart(h[b], d)
                       /\ \A i \in Unfiled(ms) : Apart(h[b], ms[i].rs)
                       /\ \A c \in Slot \ {b} : Apart(h[b], h[c])
    /\ Placed(d, ms, h) = UNION {{[slot |-> b, n |-> k] : k \in 1 .. n[b]} : b \in Slot}

\* Every record has one place: in a buffer, in a message that is not flushed, or
\* once in the record file, whichever of the loggers and the thread writes it.
\* When the server is destroyed all places are in the file.  What is in the place
\* is the record unless it is one of `lost'.
FileOnce ==
    /\ OncePlaced(recFile, Messages, Held, count)
    /\ srvPc = "done" => Placed(recFile, Messages, Held) = RecordsIn(recFile)

\* Every half is followed by its other half.
Whole(us) ==
    \A i \in DOMAIN us :
        /\ us[i].half = 1 => i = Len(us) \/ us[i + 1] = Half(us[i].rec, 2)
        /\ us[i].half = 2 => i > 1 /\ us[i - 1] = Half(us[i].rec, 1)

\* What a center receives are whole records, or the places of those in `lost',
\* from the first byte of its connection
\* on: a buffer that went out in part is continued before anything else is sent, and
\* never continued on the connection of another center.
StreamWhole ==
    LET us == got \o output
    IN  center => /\ Whole(us)
                  /\ (us # <<>> /\ us[Len(us)].half = 1) =>
                         /\ waitQueue # <<>>
                         /\ Head(waitQueue).begin > 0
                         /\ Halves2(Head(waitQueue).rs)[Head(waitQueue).begin] = us[Len(us)]

Sent == {got[i].rec : i \in {j \in DOMAIN got : got[j].half = 2}}

\* When the server is destroyed, a center that was there all the time has received
\* every record and then the end of the node.
CloseComplete ==
    (srvPc = "done" /\ faithful /\ links > 0) =>
        /\ \A b \in Slot : \A n \in 1 .. count[b] : [slot |-> b, n |-> n] \in Sent
        /\ got # <<>> /\ got[Len(got)].rec = Special("offline")

\* A record is lost only in a buffer to which a logger came while another one was
\* in submit_buffer, that is asleep in its wait for a block: that one, woken, puts
\* its block in the place of the block the first has got (LinkLogServer.cpp:539-542).
OnlyOvertaken == \A r \in lost : r.slot \in crowded

\* No record's place is lost or doubled on its way to the file and, while a center
\* is there, to the center, up to and including the end of the server; and the
\* record is there, unless loggers have overtaken one another at its buffer.
RecordsFiled == FileOnce /\ CloseComplete /\ OnlyOvertaken

\* A record that a logger has written gets into the record file after a while, also
\* when nothing is written any more and when loggers wait for a block: again and
\* again the file has all of them, save those that a late waiter has lost, unless
\* one has written outside its block.
LogsReachFile ==
    []<>(\/ undefined
         \/ \A b \in Slot : \A n \in 1 .. count[b] : LET r == [slot |-> b, n |-> n]
                                                     IN  r \in RecordsIn(recFile) \cup lost)

=============================================================================
