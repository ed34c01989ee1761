------------------------------ MODULE TimerLoop ------------------------------
(***************************************************************************)
(* Base::TimerLoop (Base/Time/TimerLoop.hpp, Base/Time/src/TimerLoop.cpp): *)
(* one thread takes events from a priority queue, sleeps until the one it  *)
(* took is due, calls it and puts it back one interval later.  Users put,  *)
(* reset and cancel events; the owner calls loop and shutdown.             *)
(*                                                                         *)
(* Every notify and every wait is under _mutex, so a section under it is   *)
(* one step.  What the thread reads and writes without it (_run, _quit,    *)
(* the interval that marks a cancelled event) is read and written in steps *)
(* of its own.                                                             *)
(***************************************************************************)
EXTENDS Integers, FiniteSets

CONSTANTS
    Thread,     \* the threads loop may create; one that has ended is reused
    Event,      \* the events users put, each once
    NoEvent,
    Interval,   \* the intervals users choose
    Uses,       \* which of "reset", "cancel", "shutdown" are called
    MaxRuns     \* bound: an event cancels itself in its MaxRuns-th call for good

ASSUME TimerAssumption ==
    /\ IsFiniteSet(Thread) /\ IsFiniteSet(Event)
    /\ NoEvent \notin Thread \cup Event
    /\ Interval \subseteq Nat \ {0} /\ Interval # {}
    /\ Uses \subseteq {"reset", "cancel", "shutdown"}
    /\ MaxRuns \in Nat \ {0}

VARIABLES
    now,    \* Unix_to_now()
    run,    \* _run
    quit,   \* _quit
    queue,  \* _list: the queued events
    due,    \* Node::_now of each event
    every,  \* the interval in an event's Pair; Cancelled stands for -1
    tpc,    \* where each thread is
    node,   \* the event a thread has taken
    waiters,\* the threads waiting on _con; Owner is NoEvent
    ownerAt,\* where the owner is
    put,    \* history: when each event was put, or -1
    runs,   \* history: how often each event was called
    low,    \* history: the shortest interval each event has had
    asked,  \* history: the events cancelled, and not reset since
    late    \* history: calls of each event begun since it was cancelled

history == <<put, runs, low, asked, late>>
timerVars == <<now, run, quit, queue, due, every, tpc, node, waiters, ownerAt, history>>

Cancelled == 0

Held == {node[t] : t \in Thread} \ {NoEvent}

\* _ptr.lock() succeeds: a node of the event is queued or with a thread.
Alive(e) == e \in queue \cup Held

-----------------------------------------------------------------------------
(* The owner *)

\* loop: _run is set by the new thread, some time later.
Loop ==
    /\ ownerAt \in {"idle", "stopped"}
    /\ ~run
    /\ quit' = FALSE
    /\ \E t \in Thread : tpc[t] = "off" /\ tpc' = [tpc EXCEPT ![t] = "starting"]
    /\ ownerAt' = "idle"
    /\ UNCHANGED <<now, run, queue, due, every, node, waiters, history>>

MutWakeNone == tpc

\* notify_all on _con, the owner apart.
WakeAll == [t \in Thread |-> IF t \in waiters THEN "get" ELSE tpc[t]]

\* shutdown up to its wait, the first test included.
TimerShutdown ==
    /\ "shutdown" \in Uses
    /\ ownerAt = "idle"
    /\ quit' = TRUE
    /\ tpc' = WakeAll
    /\ IF run
       THEN ownerAt' = "waiting" /\ waiters' = {NoEvent} /\ UNCHANGED queue
       ELSE ownerAt' = "stopped" /\ waiters' = {} /\ queue' = {}
    /\ UNCHANGED <<now, run, due, every, node, history>>

\* The test after a notification.
TimerShutdownCheck ==
    /\ ownerAt = "woken"
    /\ IF run
       THEN ownerAt' = "waiting" /\ waiters' = waiters \cup {NoEvent} /\ UNCHANGED queue
       ELSE ownerAt' = "stopped" /\ queue' = {} /\ UNCHANGED waiters
    /\ UNCHANGED <<now, run, quit, due, every, tpc, node, history>>

-----------------------------------------------------------------------------
(* Users *)

\* put_event on a loop that runs; on another it returns an empty EventID.
PutEvent(e, i) ==
    /\ put[e] = -1
    /\ run
    /\ put' = [put EXCEPT ![e] = now]
    /\ due' = [due EXCEPT ![e] = now]
    /\ every' = [every EXCEPT ![e] = i]
    /\ low' = [low EXCEPT ![e] = i]
    /\ queue' = queue \cup {e}
    /\ \/ waiters = {} /\ UNCHANGED <<waiters, tpc, ownerAt>>
       \/ \E t \in waiters :
             /\ waiters' = waiters \ {t}
             /\ tpc' = [u \in Thread |-> IF u = t THEN "get" ELSE tpc[u]]
             /\ ownerAt' = IF t = NoEvent THEN "woken" ELSE ownerAt
    /\ UNCHANGED <<now, run, quit, node, runs, asked, late>>

\* EventID::reset, of a cancelled event too.
Reset(e, i) ==
    /\ "reset" \in Uses
    /\ runs[e] < MaxRuns
    /\ Alive(e)
    /\ every' = [every EXCEPT ![e] = i]
    /\ low' = [low EXCEPT ![e] = IF i < @ THEN i ELSE @]
    /\ asked' = asked \ {e}
    /\ late' = [late EXCEPT ![e] = 0]
    /\ UNCHANGED <<now, run, quit, queue, due, tpc, node, waiters, ownerAt, put, runs>>

MutCancelQueued(e) ==
    /\ "cancel" \in Uses
    /\ Alive(e)
    /\ every' = [every EXCEPT ![e] = IF e \in queue THEN Cancelled ELSE @]
    /\ asked' = asked \cup {e}
    /\ UNCHANGED <<now, run, quit, queue, due, tpc, node, waiters, ownerAt, put, runs, low, late>>

\* EventID::cancel
Cancel(e) ==
    /\ "cancel" \in Uses
    /\ Alive(e)
    /\ every' = [every EXCEPT ![e] = Cancelled]
    /\ asked' = asked \cup {e}
    /\ UNCHANGED <<now, run, quit, queue, due, tpc, node, waiters, ownerAt, put, runs, low, late>>

\* Time passes while an event is due in the future.
Tick ==
    /\ \E e \in queue \cup Held : due[e] > now
    /\ now' = now + 1
    /\ UNCHANGED <<run, quit, queue, due, every, tpc, node, waiters, ownerAt, history>>

-----------------------------------------------------------------------------
(* The thread *)

\* The first statement of the thread's function.
ThreadStart(t) ==
    /\ tpc[t] = "starting"
    /\ run' = TRUE
    /\ tpc' = [tpc EXCEPT ![t] = "loop"]
    /\ UNCHANGED <<now, quit, queue, due, every, node, waiters, ownerAt, history>>

\* while (!_quit)
ThreadLoop(t) ==
    /\ tpc[t] = "loop"
    /\ tpc' = [tpc EXCEPT ![t] = IF quit THEN "end" ELSE "get"]
    /\ UNCHANGED <<now, run, quit, queue, due, every, node, waiters, ownerAt, history>>

\* _run = false; nobody is notified.
TimerThreadEnd(t) ==
    /\ tpc[t] = "end"
    /\ run' = FALSE
    /\ tpc' = [tpc EXCEPT ![t] = "off"]
    /\ UNCHANGED <<now, quit, queue, due, every, node, waiters, ownerAt, history>>

\* get_event when _quit is set: an empty node, for which invoke_event does nothing.
GetQuit(t) ==
    /\ tpc[t] = "get"
    /\ quit
    /\ tpc' = [tpc EXCEPT ![t] = "loop"]
    /\ UNCHANGED <<now, run, quit, queue, due, every, node, waiters, ownerAt, history>>

\* The queued events that get_event does not throw away.
Live == {e \in queue : every[e] # Cancelled}

\* Only cancelled events, or none: throw them away and wait.
GetWait(t) ==
    /\ tpc[t] = "get"
    /\ ~quit
    /\ Live = {}
    /\ queue' = {}
    /\ waiters' = waiters \cup {t}
    /\ tpc' = [tpc EXCEPT ![t] = "asleep"]
    /\ UNCHANGED <<now, run, quit, due, every, node, ownerAt, history>>

\* _list.top() is an event that is due last, since operator< compares with <=;
\* cancelled ones on top of it are thrown away.
GetEvent(t) ==
    /\ tpc[t] = "get"
    /\ ~quit
    /\ \E e \in Live :
          LET gone == {d \in queue \ Live : due[d] > due[e]}
              ties == {d \in queue \ Live : due[d] = due[e]}
          IN  /\ \A d \in Live : due[d] <= due[e]
              /\ \E S \in SUBSET ties : queue' = queue \ (gone \cup S \cup {e})
              /\ node' = [node EXCEPT ![t] = e]
    /\ tpc' = [tpc EXCEPT ![t] = "nap"]
    /\ UNCHANGED <<now, run, quit, due, every, waiters, ownerAt, history>>

\* sleep(node._now - Unix_to_now()) returns.
NapOver(t) == due[node[t]] <= now

\* invoke: the test for a cancelled event, without the lock.
InvokeTest(t) ==
    /\ tpc[t] = "nap"
    /\ NapOver(t)
    /\ IF every[node[t]] = Cancelled
       THEN tpc' = [tpc EXCEPT ![t] = "loop"] /\ node' = [node EXCEPT ![t] = NoEvent]
       ELSE tpc' = [tpc EXCEPT ![t] = "call"] /\ UNCHANGED node
    /\ UNCHANGED <<now, run, quit, queue, due, every, waiters, ownerAt, history>>

\* invoke: the call of the user's function.
InvokeCall(t) ==
    /\ tpc[t] = "call"
    /\ LET e == node[t]
       IN  /\ runs' = [runs EXCEPT ![e] = @ + 1]
           /\ late' = [late EXCEPT ![e] = IF e \in asked THEN @ + 1 ELSE @]
           /\ every' = [every EXCEPT ![e] = IF runs[e] + 1 >= MaxRuns THEN Cancelled ELSE @]
    /\ tpc' = [tpc EXCEPT ![t] = "called"]
    /\ UNCHANGED <<now, run, quit, queue, due, node, waiters, ownerAt, put, low, asked>>

\* The test at the end of invoke and, under the lock, the one in update.
StillWanted(t) == every[node[t]] # Cancelled

\* invoke returns; what it read may be stale when the lock is obtained.
InvokeReturn(t) ==
    /\ tpc[t] = "called"
    /\ IF StillWanted(t)
       THEN tpc' = [tpc EXCEPT ![t] = "update"] /\ UNCHANGED node
       ELSE tpc' = [tpc EXCEPT ![t] = "loop"] /\ node' = [node EXCEPT ![t] = NoEvent]
    /\ UNCHANGED <<now, run, quit, queue, due, every, waiters, ownerAt, history>>

\* update, and the event goes back into the queue; nobody else waits for it.
Update(t) ==
    /\ tpc[t] = "update"
    /\ LET e == node[t]
       IN  IF StillWanted(t)
           THEN /\ due' = [due EXCEPT ![e] = @ + every[e]]
                /\ queue' = queue \cup {e}
           ELSE UNCHANGED <<due, queue>>
    /\ node' = [node EXCEPT ![t] = NoEvent]
    /\ tpc' = [tpc EXCEPT ![t] = "loop"]
    /\ UNCHANGED <<now, run, quit, every, waiters, ownerAt, history>>

-----------------------------------------------------------------------------
TimerInit ==
    /\ now = 0
    /\ run = FALSE /\ quit = FALSE
    /\ queue = {}
    /\ due = [e \in Event |-> 0]
    /\ every = [e \in Event |-> Cancelled]
    /\ tpc = [t \in Thread |-> "off"]
    /\ node = [t \in Thread |-> NoEvent]
    /\ waiters = {}
    /\ ownerAt = "idle"
    /\ put = [e \in Event |-> -1]
    /\ runs = [e \in Event |-> 0]
    /\ low = [e \in Event |-> 0]
    /\ asked = {}
    /\ late = [e \in Event |-> 0]

ThreadStep(t) ==
    \/ ThreadStart(t) \/ ThreadLoop(t) \/ TimerThreadEnd(t)
    \/ GetQuit(t) \/ GetWait(t) \/ GetEvent(t)
    \/ InvokeTest(t) \/ InvokeCall(t) \/ InvokeReturn(t) \/ Update(t)

UserStep ==
    \E e \in Event : Cancel(e) \/ \E i \in Interval : PutEvent(e, i) \/ Reset(e, i)

TimerNext ==
    \/ \E t \in Thread : ThreadStep(t)
    \/ UserStep
    \/ Loop \/ TimerShutdown \/ TimerShutdownCheck
    \/ Tick

TimerSpec == TimerInit /\ [][TimerNext]_timerVars

\* Started threads run and time passes; nobody has to call anything.
TimerFairness ==
    /\ \A t \in Thread : WF_timerVars(ThreadStep(t))
    /\ WF_timerVars(Tick)

-----------------------------------------------------------------------------
\* An event is in the queue or with one thread, never in two places.  The
\* promise in TimerLoop.hpp, counting from n = 0: call n of an event comes no
\* earlier than the time it was put plus n intervals, whatever resets and
\* delays lie in between.  After cancel at most the call that had already been
\* decided is made, although invoke tests for it without the lock.
TimerExact ==
    /\ \A t \in Thread : node[t] # NoEvent =>
          node[t] \notin queue /\ \A u \in Thread \ {t} : node[u] # node[t]
    /\ \A e \in Event :
          /\ runs[e] > 0 => now >= put[e] + (runs[e] - 1) * low[e]
          /\ late[e] <= 1

\* A thread that is told to quit ends, wherever it is: in the wait, asleep until
\* an event is due, or in a call.
ThreadStops == quit ~> ~run

=============================================================================
