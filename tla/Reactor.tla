------------------------------- MODULE Reactor -------------------------------
(***************************************************************************)
(* Net::EventLoop (Net/src/EventLoop.cpp), Net::Reactor                    *)
(* (Net/reactor/src/Reactor.cpp), Net::Channel (Net/src/Channel.cpp) and   *)
(* what they use of a TcpMessageAgent.                                     *)
(*                                                                         *)
(* One thread runs the loop: it tells channels that have been silent too   *)
(* long, asks the monitor for events, runs the channels' callbacks and     *)
(* then the functions other threads have put.  File descriptors are small  *)
(* numbers that the system gives out again as soon as they are closed.     *)
(*                                                                         *)
(* A section under EventLoop::_mutex is one step; so is each handler of a  *)
(* channel with the callback it ends in.  A callback may leave its agent   *)
(* alone, set HangUp or close the agent.  Time is abstracted to the mark   *)
(* that a timer entry is older than the timeout.                           *)
(***************************************************************************)
EXTENDS Integers, Sequences, FiniteSets

CONSTANTS
    Conn,       \* the connections users hand to the reactor, each once
    NoConn,
    MaxCalls    \* bound: calls of update_channel, weak_up_channel, send_to_loop

ASSUME ReactorAssumption ==
    IsFiniteSet(Conn) /\ NoConn \notin Conn /\ MaxCalls \in Nat

Fd == 1..Cardinality(Conn)

VARIABLES
    owner,      \* where the thread is that calls start and stop
    lpc,        \* where the loop's thread is
    loopQuit,   \* EventLoop::_quit
    weak,       \* EventLoop::_weak
    queued,     \* EventLoop::_waiting
    batch,      \* EventLoop::_queue, what is left of it to run
    fdOf,       \* Socket::_fd of each connection's agent; 0 is -1
    channels,   \* Reactor::_map, by descriptor
    timers,     \* Reactor::_queue: [fd, old]
    watched,    \* the monitor's descriptors and the events it waits for
    todo,       \* the descriptors left of a scan of timers, events or _map
    serving,    \* the channel whose events are handled
    calls,      \* how many calls have been made
    connState,      \* history: what became of each connection
    closes      \* history: how often each connection's close callback ran

reactorVars == <<owner, lpc, loopQuit, weak, queued, batch, fdOf, channels, timers, watched, todo,
                 serving, calls, connState, closes>>

loopVars == <<loopQuit, weak, queued, batch>>
tableVars == <<channels, timers, watched>>

Bits == {"Read", "Write", "Error", "HangUp"}

Idle == [conn |-> NoConn, bits |-> {}, at |-> "error"]

Serve(c, bits) == [conn |-> c, bits |-> bits, at |-> "error"]

Valid(c) == fdOf[c] # 0

\* The members of S, each once, in some order: that of a map or of the monitor.
InOrder(S) ==
    CHOOSE s \in [1..Cardinality(S) -> S] :
        \A x \in S : \E i \in DOMAIN s : s[i] = x /\ \A j \in DOMAIN s \ {i} : s[j] # x

-----------------------------------------------------------------------------
(* EventLoop *)

\* notify_one: the loop's thread is the only one that waits.
Woken == IF lpc = "asleep" THEN "begin" ELSE lpc

\* put_event.
Put(e) ==
    /\ queued' = Append(queued, e)
    /\ lpc' = Woken

\* weak_up, called by the loop's own thread.
WeakUp == weak' = TRUE

\* How many entries remove_timeouts passes: the old ones come first.
OldTimers == Cardinality({i \in DOMAIN timers : timers[i].old})

\* The head of loop's while.
LoopTop ==
    /\ lpc = "top"
    /\ IF loopQuit
       THEN lpc' = "alive" /\ todo' = InOrder(DOMAIN channels)
       ELSE lpc' = "timeouts" /\ todo' = [i \in 1..OldTimers |-> timers[i].fd]
    /\ UNCHANGED <<owner, loopVars, fdOf, tableVars, serving, calls, connState, closes>>

\* loop_begin: the wait's predicate and the swap.
LoopBegin ==
    /\ lpc = "begin"
    /\ IF queued # <<>> \/ weak
       THEN /\ lpc' = "events" /\ batch' = queued
            /\ queued' = <<>> /\ weak' = FALSE
       ELSE lpc' = "asleep" /\ UNCHANGED <<batch, queued, weak>>
    /\ UNCHANGED <<owner, loopQuit, fdOf, tableVars, todo, serving, calls, connState, closes>>

\* loop_end, when the batch has been run.
LoopEnd ==
    /\ lpc = "events"
    /\ batch = <<>>
    /\ lpc' = "top"
    /\ UNCHANGED <<owner, loopVars, fdOf, tableVars, todo, serving, calls, connState, closes>>

-----------------------------------------------------------------------------
(* Channel: invoke_event goes round the four handlers until no event is     *)
(* left.  serving.at is the handler whose test comes next.                  *)

After(at) == CASE at = "error" -> "close" [] at = "close" -> "read"
               [] at = "read" -> "write" [] at = "write" -> "error"

\* Event's tests: hasError, hasHangUp, canRead and canWrite.
Tested(at, bits) ==
    CASE at = "error" -> "Error" \in bits
      [] at = "close" -> "HangUp" \in bits
      [] at = "read" -> bits \cap {"Read", "HangUp"} # {}
      [] at = "write" -> "Write" \in bits

\* A user's callback, entered with the events bits.
Callback(c, bits) ==
    \/ serving' = [conn |-> c, bits |-> bits, at |-> After(serving.at)] /\ UNCHANGED <<fdOf, connState>>
    \/ serving' = [conn |-> c, bits |-> bits \cup {"HangUp"}, at |-> After(serving.at)] /\ UNCHANGED <<fdOf, connState>>
    \/ /\ serving' = [conn |-> c, bits |-> bits, at |-> After(serving.at)]
       /\ fdOf' = [fdOf EXCEPT ![c] = 0]
       /\ connState' = [connState EXCEPT ![c] = "closed"]

\* handle_error: with no callback set it sets HangUp, as a callback may.
HandleError(c, bits) == Callback(c, bits \ {"Error"})

\* handle_close.
HandleClose(c) ==
    /\ closes' = [closes EXCEPT ![c] = @ + 1]
    /\ fdOf' = [fdOf EXCEPT ![c] = 0]
    /\ connState' = [connState EXCEPT ![c] = "closed"]
    /\ serving' = Serve(c, {})

\* handle_read: no room, data, the end of the stream or an error; unset_read
\* clears HangUp too.
HandleRead(c) ==
    LET bits == serving.bits \ {"Read", "HangUp"}
    IN  \/ ~Valid(c) /\ HandleError(c, bits)
        \/ Valid(c) /\ Callback(c, bits)
        \/ /\ Valid(c)
           /\ serving' = [conn |-> c, bits |-> bits \cup {"HangUp"}, at |-> "write"]
           /\ UNCHANGED <<fdOf, connState>>
        \/ Valid(c) /\ HandleError(c, bits)

\* handle_write: nothing to send, sent, or an error, after which the write
\* callback is called all the same: its effect is one more callback's.
HandleWrite(c) ==
    LET bits == serving.bits \ {"Write"}
    IN  \/ ~Valid(c) /\ HandleError(c, bits)
        \/ Valid(c) /\ Callback(c, bits)
        \/ /\ Valid(c)
           /\ serving' = [conn |-> c, bits |-> bits \cup {"HangUp"}, at |-> "error"]
           /\ fdOf' = [fdOf EXCEPT ![c] = 0]
           /\ connState' = [connState EXCEPT ![c] = "closed"]

\* invoke_event, one test of its loop and the handler it guards.
InvokeEvent ==
    /\ serving.bits # {}
    /\ LET c == serving.conn
       IN  IF Tested(serving.at, serving.bits)
           THEN \/ serving.at = "error" /\ HandleError(c, serving.bits) /\ UNCHANGED closes
                \/ serving.at = "close" /\ HandleClose(c)
                \/ serving.at = "read" /\ HandleRead(c) /\ UNCHANGED closes
                \/ serving.at = "write" /\ HandleWrite(c) /\ UNCHANGED closes
           ELSE serving' = [serving EXCEPT !.at = After(@)] /\ UNCHANGED <<fdOf, connState, closes>>
    /\ UNCHANGED <<owner, lpc, loopVars, tableVars, todo, calls>>

Served == serving.conn # NoConn /\ serving.bits = {}

-----------------------------------------------------------------------------
(* Reactor, in its own thread *)

\* The timers without the entry that the channel's timer_iter leads to.
Unqueued(fd) ==
    LET place == CHOOSE i \in DOMAIN timers : timers[i].fd = fd
    IN  SubSeq(timers, 1, place - 1) \o SubSeq(timers, place + 1, Len(timers))

\* A descriptor leaves the monitor, the timers and the map.
EraseChannel(fd) ==
    /\ watched' = [g \in DOMAIN watched \ {fd} |-> watched[g]]
    /\ timers' = Unqueued(fd)
    /\ channels' = [g \in DOMAIN channels \ {fd} |-> channels[g]]

\* remove_timeouts, the next entry of the old ones.
TimeoutTell ==
    /\ lpc = "timeouts"
    /\ serving = Idle
    /\ todo # <<>>
    /\ serving' = Serve(channels[Head(todo)], {"Error"})
    /\ UNCHANGED <<owner, lpc, loopVars, fdOf, tableVars, todo, calls, connState, closes>>

\* ... and what follows its callback.
TimeoutTold ==
    /\ lpc = "timeouts"
    /\ Served
    /\ IF Valid(serving.conn) THEN UNCHANGED tableVars ELSE EraseChannel(Head(todo))
    /\ todo' = Tail(todo)
    /\ serving' = Idle
    /\ UNCHANGED <<owner, lpc, loopVars, fdOf, calls, connState, closes>>

\* invoke, called only when a channel is left: the monitor returns some of
\* the descriptors it watches, or fails.
Poll ==
    /\ lpc = "timeouts"
    /\ serving = Idle
    /\ todo = <<>>
    /\ IF timers = <<>>
       THEN lpc' = "begin" /\ UNCHANGED todo
       ELSE /\ lpc' = "tasks"
            /\ \E ready \in SUBSET DOMAIN watched : todo' = InOrder(ready)
    /\ UNCHANGED <<owner, loopVars, fdOf, tableVars, serving, calls, connState, closes>>

\* create_task up to its callbacks.
CreateTask ==
    /\ lpc = "tasks"
    /\ serving = Idle
    /\ todo # <<>>
    /\ \E bits \in SUBSET (watched[Head(todo)] \cup {"Error", "HangUp"}) :
          bits # {} /\ serving' = Serve(channels[Head(todo)], bits)
    /\ UNCHANGED <<owner, lpc, loopVars, fdOf, tableVars, todo, calls, connState, closes>>

MutErasesNothing ==
    /\ lpc = "tasks"
    /\ Served
    /\ todo' = Tail(todo)
    /\ serving' = Idle
    /\ UNCHANGED <<owner, lpc, loopVars, fdOf, tableVars, calls, connState, closes>>

\* ... and what follows them.
TaskDone ==
    /\ lpc = "tasks"
    /\ Served
    /\ LET fd == Head(todo)
       IN  IF Valid(serving.conn)
           THEN /\ timers' = Append(Unqueued(fd), [fd |-> fd, old |-> FALSE])
                /\ UNCHANGED <<channels, watched>>
           ELSE EraseChannel(fd)
    /\ todo' = Tail(todo)
    /\ serving' = Idle
    /\ UNCHANGED <<owner, lpc, loopVars, fdOf, calls, connState, closes>>

MutNoWeakUp ==
    /\ lpc = "tasks"
    /\ serving = Idle
    /\ todo = <<>>
    /\ lpc' = "begin"
    /\ UNCHANGED <<owner, loopVars, fdOf, tableVars, todo, serving, calls, connState, closes>>

\* The distributor's last step: the loop is not to wait while it has channels.
Distributed ==
    /\ lpc = "tasks"
    /\ serving = Idle
    /\ todo = <<>>
    /\ WeakUp
    /\ lpc' = "begin"
    /\ UNCHANGED <<owner, loopQuit, queued, batch, fdOf, tableVars, todo, serving, calls, connState, closes>>

\* The function add_channel puts.
RunAdd(c) ==
    LET fd == fdOf[c]
    IN  IF fd \in DOMAIN channels
        THEN connState' = [connState EXCEPT ![c] = "refused"] /\ UNCHANGED tableVars
        ELSE /\ channels' = [g \in DOMAIN channels \cup {fd} |-> IF g = fd THEN c ELSE channels[g]]
             /\ watched' = [g \in DOMAIN watched \cup {fd} |-> IF g = fd THEN {"Read"} ELSE watched[g]]
             /\ timers' = Append(timers, [fd |-> fd, old |-> FALSE])
             /\ connState' = [connState EXCEPT ![c] = "added"]

\* The function update_channel puts.
RunUpdate(fd) ==
    watched' = IF fd \in DOMAIN channels THEN [watched EXCEPT ![fd] = Bits \ {"Error", "HangUp"}] ELSE watched

\* The function weak_up_channel puts: the user's function may close the agent
\* that has the descriptor by then.
RunWeakUp(fd) ==
    \/ UNCHANGED <<fdOf, tableVars, connState>>
    \/ /\ fd \in DOMAIN channels
       /\ fdOf' = [fdOf EXCEPT ![channels[fd]] = 0]
       /\ connState' = [connState EXCEPT ![channels[fd]] = "closed"]
       /\ EraseChannel(fd)

\* loop runs the next event of the batch.
RunEvent ==
    /\ lpc = "events"
    /\ batch # <<>>
    /\ batch' = Tail(batch)
    /\ LET e == Head(batch)
       IN  \/ e.op = "add" /\ RunAdd(e.conn) /\ UNCHANGED <<loopQuit, fdOf>>
           \/ e.op = "update" /\ RunUpdate(e.fd) /\ UNCHANGED <<loopQuit, fdOf, channels, timers, connState>>
           \/ e.op = "weak" /\ RunWeakUp(e.fd) /\ UNCHANGED loopQuit
           \/ e.op = "send" /\ UNCHANGED <<loopQuit, fdOf, tableVars, connState>>
           \/ e.op = "shutdown" /\ loopQuit' = TRUE /\ UNCHANGED <<fdOf, tableVars, connState>>
    /\ UNCHANGED <<owner, lpc, weak, queued, todo, serving, calls, closes>>

\* close_alive: one call of invoke_event for a channel ...
AliveTell ==
    /\ lpc = "alive"
    /\ serving = Idle
    /\ todo # <<>>
    /\ serving' = Serve(channels[Head(todo)], {"Error"})
    /\ UNCHANGED <<owner, lpc, loopVars, fdOf, tableVars, todo, calls, connState, closes>>

MutAliveOnce ==
    /\ lpc = "alive"
    /\ Served
    /\ serving' = Idle /\ todo' = Tail(todo)
    /\ UNCHANGED <<owner, lpc, loopVars, fdOf, tableVars, calls, connState, closes>>

\* ... and a second one with HangUp if it is still valid.
AliveTold ==
    /\ lpc = "alive"
    /\ Served
    /\ IF Valid(serving.conn)
       THEN serving' = Serve(serving.conn, {"HangUp"}) /\ UNCHANGED todo
       ELSE serving' = Idle /\ todo' = Tail(todo)
    /\ UNCHANGED <<owner, lpc, loopVars, fdOf, tableVars, calls, connState, closes>>

\* The end of close_alive, and destroy_source: what is still queued is lost.
DestroySource ==
    /\ lpc = "alive"
    /\ serving = Idle
    /\ todo = <<>>
    /\ lpc' = "done"
    /\ channels' = <<>> /\ timers' = <<>> /\ watched' = <<>>
    /\ queued' = <<>>
    /\ connState' = [c \in Conn |-> IF connState[c] = "sent" THEN "lost" ELSE connState[c]]
    /\ UNCHANGED <<owner, loopQuit, weak, batch, fdOf, todo, serving, calls, closes>>

-----------------------------------------------------------------------------
(* The owner and the users *)

\* start, until create_source has set _running.
ReactorStart ==
    /\ owner = "off"
    /\ owner' = "on"
    /\ lpc' = "top"
    /\ UNCHANGED <<loopVars, fdOf, tableVars, todo, serving, calls, connState, closes>>

\* stop up to its join.
ReactorStop ==
    /\ owner = "on"
    /\ owner' = "stopping"
    /\ Put([op |-> "shutdown"])
    /\ UNCHANGED <<loopQuit, weak, batch, fdOf, tableVars, todo, serving, calls, connState, closes>>

ReactorJoin ==
    /\ owner = "stopping"
    /\ lpc = "done"
    /\ owner' = "stopped"
    /\ UNCHANGED <<lpc, loopVars, fdOf, tableVars, todo, serving, calls, connState, closes>>

\* A connection is made: the system gives the lowest free descriptor.
Open(c) ==
    /\ connState[c] = "none"
    /\ LET free == Fd \ {fdOf[d] : d \in Conn}
       IN  fdOf' = [fdOf EXCEPT ![c] = CHOOSE f \in free : \A g \in free : f <= g]
    /\ connState' = [connState EXCEPT ![c] = "open"]
    /\ UNCHANGED <<owner, lpc, loopVars, tableVars, todo, serving, calls, closes>>

\* running(): the loop's thread may be past its last round already.
Running == owner \in {"on", "stopping"} /\ lpc # "done"

\* add_channel.
AddChannel(c) ==
    /\ Running
    /\ connState[c] = "open"
    /\ Put([op |-> "add", conn |-> c])
    /\ connState' = [connState EXCEPT ![c] = IF owner = "on" THEN "sent" ELSE "late"]
    /\ UNCHANGED <<owner, loopQuit, weak, batch, fdOf, tableVars, todo, serving, calls, closes>>

\* update_channel, weak_up_channel and send_to_loop from another thread; the
\* function sent is the user's own.
CallLoop(op, fd) ==
    /\ owner = "on"
    /\ calls < MaxCalls
    /\ calls' = calls + 1
    /\ Put([op |-> op, fd |-> fd])
    /\ UNCHANGED <<owner, loopQuit, weak, batch, fdOf, tableVars, todo, serving, connState, closes>>

\* Time passes: the oldest entry that is not old yet becomes it.
Age ==
    /\ \E i \in DOMAIN timers :
          /\ ~timers[i].old
          /\ \A j \in 1..i - 1 : timers[j].old
          /\ timers' = [timers EXCEPT ![i].old = TRUE]
    /\ UNCHANGED <<owner, lpc, loopVars, fdOf, channels, watched, todo, serving, calls, connState, closes>>

-----------------------------------------------------------------------------
ReactorInit ==
    /\ owner = "off" /\ lpc = "none"
    /\ loopQuit = FALSE /\ weak = FALSE
    /\ queued = <<>> /\ batch = <<>>
    /\ fdOf = [c \in Conn |-> 0]
    /\ channels = <<>> /\ timers = <<>> /\ watched = <<>>
    /\ todo = <<>> /\ serving = Idle
    /\ calls = 0
    /\ connState = [c \in Conn |-> "none"]
    /\ closes = [c \in Conn |-> 0]

LoopStep ==
    \/ LoopTop \/ LoopBegin \/ LoopEnd \/ InvokeEvent
    \/ TimeoutTell \/ TimeoutTold \/ Poll \/ CreateTask \/ TaskDone \/ Distributed
    \/ RunEvent \/ AliveTell \/ AliveTold \/ DestroySource

ReactorNext ==
    \/ LoopStep
    \/ ReactorStart \/ ReactorStop \/ ReactorJoin \/ Age
    \/ \E c \in Conn : Open(c) \/ AddChannel(c)
    \/ \E fd \in Fd : CallLoop("update", fd) \/ CallLoop("weak", fd)
    \/ CallLoop("send", 0)

\* The loop's thread runs; the monitor waits at most its finite timeout.
ReactorFairness == WF_reactorVars(LoopStep) /\ WF_reactorVars(ReactorJoin)

ReactorSpec == ReactorInit /\ [][ReactorNext]_reactorVars /\ ReactorFairness

-----------------------------------------------------------------------------
(* Properties *)

\* Between two functions the loop's thread runs, the map, the timer queue and
\* the monitor hold the same descriptors, each once, and each is that of an
\* open agent: no entry outlives its connection, whose number may be another
\* connection's by then.
ReactorAgrees ==
    (serving = Idle /\ lpc \notin {"alive", "done"}) =>
        /\ DOMAIN channels = DOMAIN watched
        /\ DOMAIN channels = {timers[i].fd : i \in DOMAIN timers}
        /\ Len(timers) = Cardinality(DOMAIN channels)
        /\ \A fd \in DOMAIN channels : fdOf[channels[fd]] = fd

\* A close callback runs at most once for a connection, no connection is
\* refused because its descriptor is still in the map, and when stop has
\* returned every connection that was added before it is closed.
ClosedOnce ==
    /\ \A c \in Conn : closes[c] <= 1 /\ connState[c] # "refused"
    /\ owner = "stopped" => \A c \in Conn : connState[c] \in {"none", "open", "late", "lost", "closed"}
    /\ \A c \in Conn : connState[c] # "lost"

\* stop returns, an added connection is taken up, and a channel that has been
\* silent too long is told, heard or gone.
ReactorServes ==
    /\ []<>(owner # "stopping" /\ \A c \in Conn : connState[c] # "sent")
    /\ \A fd \in Fd :
          (\E i \in DOMAIN timers : timers[i] = [fd |-> fd, old |-> TRUE])
             ~> (\/ serving.conn # NoConn /\ fd \in DOMAIN channels /\ serving.conn = channels[fd]
                 \/ fd \notin DOMAIN channels)

=============================================================================
