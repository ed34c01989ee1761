-------------------------- MODULE LinkedThreadPool --------------------------
(***************************************************************************)
(* Base::LinkedThreadPool (src/Base/LinkedThreadPool.hpp and its .cpp): a  *)
(* pool whose tasks wait in one list under one mutex.  Threads are ended   *)
(* by exit tasks put at the front of the list, and the last one to end     *)
(* stores TERMINATED, which the destructor waits for.                      *)
(*                                                                         *)
(* A critical section is one step, except that a caller on _submit may     *)
(* test its predicate and fall asleep in two: stop() and end_thread()      *)
(* change the state and notify without the mutex, so their notification    *)
(* may fall between.  All resizes come from one caller, Builder: the       *)
(* comment at create_threads says that concurrent ones return too early.   *)
(***************************************************************************)
EXTENDS Naturals, Sequences, FiniteSets

CONSTANTS
    Pooled,         \* the threads that can be created
    Caller,         \* the threads that use the pool
    Builder,        \* the caller that builds, resizes and destroys it
    Job,            \* the tasks that can be submitted, each once
    FirstThreads,   \* threads_size of the constructor
    Resizes,        \* the arguments of resize_core_threads
    MaxJobs,        \* max_tasks_size of the constructor
    MaxQueues,      \* the arguments of resize_max_queue
    MaxCalls,       \* bound: operations per caller
    ExitCap,        \* bound: exit tasks that stand for a wrapped difference
    Exit            \* the task that ends a thread

ASSUME LinkedAssumption ==
    /\ IsFiniteSet(Pooled) /\ Builder \in Caller
    /\ Exit \notin Job /\ Resizes \subseteq Nat /\ MaxQueues \subseteq Nat
    /\ FirstThreads \in 1..Cardinality(Pooled)
    /\ {MaxJobs, MaxCalls, ExitCap} \subseteq Nat

VARIABLES
    lstate,     \* _state
    alive,      \* _core_threads
    max_tasks,  \* _max_tasks
    waiting,    \* _list
    member,     \* where each pooled thread is
    doing,      \* the task it took
    jobs,       \* what became of each task
    call,       \* the operation each caller is in
    calls,      \* operations begun by each caller
    phase,      \* "building", "open", "closing", "closed"
    disturbed   \* history: see LinkedPoolExact

linkedVars == <<lstate, alive, max_tasks, waiting, member, doing, jobs, call,
                calls, phase, disturbed>>

NoCall == [op |-> "none", at |-> "idle", arg |-> 0]

StoppingState == lstate # "RUNNING"

\* Lock l(_lock): a caller between its test and its sleep holds the mutex.
LockFree == \A c \in Caller : call[c].at # "tested"

Doing(c, op, at) == call[c].op = op /\ call[c].at = at

Idle(c) == call[c] = NoCall

Asleep == {c \in Caller : call[c].at = "asleep"}

Returned(c) == [call EXCEPT ![c] = NoCall]

\* _submit.notify_all(): every sleeping caller tests its predicate again.
AllWoken(f) ==
    [c \in Caller |-> IF f[c].at = "asleep" THEN [f[c] EXCEPT !.at = "test"] ELSE f[c]]

\* _submit.notify_one(): one sleeping caller, whichever.
OneWoken(f) ==
    IF Asleep = {} THEN {f} ELSE {[f EXCEPT ![c].at = "test"] : c \in Asleep}

\* _consume.notify_one() and _consume.notify_all().
Resting == {p \in Pooled : member[p] = "asleep"}

OneRoused ==
    IF Resting = {} THEN {member} ELSE {[member EXCEPT ![p] = "woken"] : p \in Resting}

AllRoused == [p \in Pooled |-> IF p \in Resting THEN "woken" ELSE member[p]]

\* A store over the state of a shutdown that came after the test.
OverShutdown == disturbed \/ lstate \in {"SHUTTING", "TERMINATED"}

\* fun(true) for every task of the list: an exit task does nothing.
KilledJobs == [j \in Job |-> IF jobs[j] = "queued" THEN "killed" ELSE jobs[j]]

Exits(n) == [i \in 1..n |-> Exit]

\* The difference of two uint32: a negative one wraps to a huge number of
\* exit tasks, of which ExitCap stand for all.
Difference(m, n) == IF m >= n THEN m - n ELSE ExitCap

-----------------------------------------------------------------------------
Unstarted == {p \in Pooled : member[p] = "none"}

Created(n) == {s \in SUBSET Unstarted : Cardinality(s) = n}

LinkedInit ==
    \E first \in SUBSET Pooled :
        /\ Cardinality(first) = FirstThreads
        /\ member = [p \in Pooled |-> IF p \in first THEN "created" ELSE "none"]
        /\ call = [c \in Caller |->
                     IF c = Builder THEN [op |-> "create", at |-> "test", arg |-> FirstThreads]
                                  ELSE NoCall]
        /\ lstate = "TERMINATED" /\ alive = 0 /\ max_tasks = MaxJobs
        /\ waiting = <<>>
        /\ doing = [p \in Pooled |-> Exit]
        /\ jobs = [j \in Job |-> "new"]
        /\ calls = [c \in Caller |-> 0]
        /\ phase = "building" /\ disturbed = FALSE

\* A caller begins an operation of the public interface.
Begin(c, op, arg) ==
    /\ phase = "open" /\ Idle(c) /\ calls[c] < MaxCalls
    /\ call' = [call EXCEPT ![c] = [op |-> op, at |-> "test", arg |-> arg]]
    /\ calls' = [calls EXCEPT ![c] = @ + 1]
    /\ UNCHANGED <<lstate, alive, waiting, member, doing, jobs, phase, disturbed>>

BeginSubmit(c) ==
    \E j \in Job, op \in {"top", "back"} :
        jobs[j] = "new" /\ (\A d \in Caller : call[d].arg # j) /\ Begin(c, op, j)

BeginControl(c) == \E op \in {"stop", "start", "clear", "shutdown"} : Begin(c, op, 0)

BeginResize == \E n \in Resizes : Begin(Builder, "resize", n)

\* The wait of _submit with a false predicate: still under the mutex.
FallAsleep(c) ==
    /\ call[c].at = "tested"
    /\ call' = [call EXCEPT ![c].at = "asleep"]
    /\ UNCHANGED <<lstate, alive, waiting, member, doing, jobs, calls, phase, disturbed>>

WaitOn(c) ==
    /\ call' = [call EXCEPT ![c].at = "tested"]
    /\ UNCHANGED <<lstate, alive, waiting, member, doing, jobs, calls, phase, disturbed>>

\* resize_max_queue: one store without the mutex, and nobody is notified.
LinkedMaxQueue(c) ==
    /\ phase = "open" /\ Idle(c) /\ calls[c] < MaxCalls
    /\ max_tasks' \in MaxQueues
    /\ calls' = [calls EXCEPT ![c] = @ + 1]
    /\ UNCHANGED <<lstate, alive, waiting, member, doing, jobs, call, phase, disturbed>>

HasRoom == Len(waiting) < max_tasks

Placed(op, j) == IF op = "top" THEN <<j>> \o waiting ELSE Append(waiting, j)

\* submit_to_top, submit_to_back and their forms with a future.
Submit(c) ==
    LET j == call[c].arg IN
    /\ call[c].op \in {"top", "back"} /\ call[c].at = "test" /\ LockFree
    /\ \/ /\ StoppingState
          /\ jobs' = [jobs EXCEPT ![j] = "refused"]
          /\ call' = Returned(c)
          /\ UNCHANGED <<lstate, alive, waiting, member, doing, calls, phase, disturbed>>
       \/ /\ ~StoppingState /\ HasRoom
          /\ jobs' = [jobs EXCEPT ![j] = "queued"]
          /\ waiting' = Placed(call[c].op, j)
          /\ member' \in OneRoused
          /\ call' = Returned(c)
          /\ UNCHANGED <<lstate, alive, doing, calls, phase, disturbed>>
       \/ /\ ~StoppingState /\ ~HasRoom
          /\ WaitOn(c)

\* stop(): the test and the store are two steps, both without the mutex.
LinkedStopTest(c) ==
    /\ Doing(c, "stop", "test")
    /\ call' = IF lstate = "RUNNING" THEN [call EXCEPT ![c].at = "store"] ELSE Returned(c)
    /\ UNCHANGED <<lstate, alive, waiting, member, doing, jobs, calls, phase, disturbed>>

LinkedStopStore(c) ==
    /\ Doing(c, "stop", "store")
    /\ lstate' = "STOP"
    /\ disturbed' = OverShutdown
    /\ call' = AllWoken(Returned(c))
    /\ UNCHANGED <<alive, waiting, member, doing, jobs, calls, phase>>

\* start(): the test comes before the mutex.
LinkedStartTest(c) ==
    /\ Doing(c, "start", "test")
    /\ call' = IF lstate = "STOP" THEN [call EXCEPT ![c].at = "store"] ELSE Returned(c)
    /\ UNCHANGED <<lstate, alive, waiting, member, doing, jobs, calls, phase, disturbed>>

LinkedStartStore(c) ==
    /\ Doing(c, "start", "store") /\ LockFree
    /\ lstate' = "RUNNING"
    /\ call' = AllWoken(Returned(c))
    /\ member' = AllRoused
    /\ disturbed' = OverShutdown
    /\ UNCHANGED <<alive, waiting, doing, jobs, calls, phase>>

\* clear_task(): the exit tasks of delete_threads go too.
LinkedClear(c) ==
    /\ Doing(c, "clear", "test") /\ LockFree
    /\ jobs' = KilledJobs /\ waiting' = <<>>
    /\ call' = Returned(c)
    /\ UNCHANGED <<lstate, alive, member, doing, calls, phase, disturbed>>

\* A bug for ShutdownBody: the exit tasks go before the tasks left in the list.
MutKeepsTasks ==
    IF lstate \in {"SHUTTING", "TERMINATED"}
    THEN UNCHANGED <<lstate, jobs, waiting, member>>
    ELSE /\ lstate' = "SHUTTING"
         /\ waiting' = Exits(alive) \o waiting
         /\ member' = AllRoused
         /\ UNCHANGED jobs

\* The body of shutdown(), for a caller and for the destructor.
ShutdownBody ==
    IF lstate \in {"SHUTTING", "TERMINATED"}
    THEN UNCHANGED <<lstate, jobs, waiting, member>>
    ELSE /\ lstate' = "SHUTTING"
         /\ jobs' = KilledJobs
         /\ waiting' = Exits(alive)
         /\ member' = AllRoused

LinkedShutdown(c) ==
    /\ Doing(c, "shutdown", "test") /\ LockFree
    /\ ShutdownBody
    /\ call' = Returned(c)
    /\ UNCHANGED <<alive, doing, calls, phase, disturbed>>

\* resize_core_threads: every comparison and every difference reads
\* _core_threads again.
ResizeCompare(c) ==
    /\ Doing(c, "resize", "test") \/ Doing(c, "resize", "second")
    /\ call' = LET n == call[c].arg IN
               CASE call[c].at = "test" /\ n > alive -> [call EXCEPT ![c].at = "grow"]
                 [] call[c].at = "test" /\ n <= alive -> [call EXCEPT ![c].at = "second"]
                 [] call[c].at = "second" /\ n < alive -> [call EXCEPT ![c].at = "shrink"]
                 [] OTHER -> Returned(c)
    /\ UNCHANGED <<lstate, alive, waiting, member, doing, jobs, calls, phase, disturbed>>

ResizeMeasure(c) ==
    /\ call[c].op = "resize" /\ call[c].at \in {"grow", "shrink"}
    /\ call' = LET n == call[c].arg IN
               [call EXCEPT ![c] =
                  IF @.at = "grow" THEN [op |-> "grow", at |-> "test", arg |-> Difference(n, alive)]
                  ELSE [op |-> "shrink", at |-> "test", arg |-> Difference(alive, n)]]
    /\ UNCHANGED <<lstate, alive, waiting, member, doing, jobs, calls, phase, disturbed>>

\* create_threads: record, which the creator waits for, reads it once more.
CreateThreads(c) ==
    /\ Doing(c, "grow", "test")
    /\ \E new \in Created(call[c].arg) :
          member' = [p \in Pooled |-> IF p \in new THEN "created" ELSE member[p]]
    /\ call' = [call EXCEPT ![c] = [op |-> "create", at |-> "test", arg |-> alive + @.arg]]
    /\ UNCHANGED <<lstate, alive, waiting, doing, jobs, calls, phase, disturbed>>

CreateWait(c) ==
    /\ Doing(c, "create", "test") /\ LockFree
    /\ \/ /\ alive < call[c].arg
          /\ WaitOn(c)
       \/ /\ alive >= call[c].arg
          /\ lstate' = IF lstate = "TERMINATED" THEN "RUNNING" ELSE lstate
          /\ call' = Returned(c)
          /\ phase' = "open"
          /\ UNCHANGED <<alive, waiting, member, doing, jobs, calls, disturbed>>

\* delete_threads: exit tasks at the front, and nobody is notified.
DeleteThreads(c) ==
    /\ Doing(c, "shrink", "test") /\ LockFree
    /\ waiting' = Exits(call[c].arg) \o waiting
    /\ call' = Returned(c)
    /\ UNCHANGED <<lstate, alive, member, doing, jobs, calls, phase, disturbed>>

-----------------------------------------------------------------------------
\* A new thread counts itself, without the mutex.
ThreadUp(p) ==
    /\ member[p] = "created"
    /\ alive' = alive + 1
    /\ member' = [member EXCEPT ![p] = "lock"]
    /\ disturbed' = (disturbed \/ (alive = 0 /\ phase # "building"))
    /\ UNCHANGED <<lstate, waiting, doing, jobs, call, calls, phase>>

\* The loop's critical section: a thread that comes to it notifies _submit,
\* one that is woken only tests again.
CanTake == waiting # <<>> /\ lstate # "STOP"

TakeTask(p) ==
    /\ member[p] \in {"lock", "woken"} /\ LockFree
    /\ call' \in IF member[p] = "lock" THEN OneWoken(call) ELSE {call}
    /\ \/ /\ ~CanTake
          /\ member' = [member EXCEPT ![p] = "asleep"]
          /\ UNCHANGED <<waiting, doing, jobs>>
       \/ /\ CanTake
          /\ member' = [member EXCEPT ![p] = "run"]
          /\ doing' = [doing EXCEPT ![p] = Head(waiting)]
          /\ waiting' = Tail(waiting)
          /\ jobs' = [j \in Job |-> IF j = Head(waiting) THEN "running" ELSE jobs[j]]
    /\ UNCHANGED <<lstate, alive, calls, phase, disturbed>>

\* fun(false): an exit task returns true and the loop ends.
RunTask(p) ==
    /\ member[p] = "run"
    /\ member' = [member EXCEPT ![p] = IF doing[p] = Exit THEN "ending" ELSE "lock"]
    /\ jobs' = [j \in Job |-> IF j = doing[p] THEN "done" ELSE jobs[j]]
    /\ doing' = [doing EXCEPT ![p] = Exit]
    /\ UNCHANGED <<lstate, alive, waiting, call, calls, phase, disturbed>>

\* end_thread: the decrement, the store and the notification are apart.
CountDown(p) ==
    /\ member[p] = "ending"
    /\ alive' = alive - 1
    /\ member' = [member EXCEPT ![p] = IF alive = 1 THEN "last" ELSE "gone"]
    /\ disturbed' = (disturbed \/ (alive = 1 /\ lstate # "SHUTTING"))
    /\ UNCHANGED <<lstate, waiting, doing, jobs, call, calls, phase>>

StoreTerminated(p) ==
    /\ member[p] = "last"
    /\ lstate' = "TERMINATED"
    /\ member' = [member EXCEPT ![p] = "told"]
    /\ UNCHANGED <<alive, waiting, doing, jobs, call, calls, phase, disturbed>>

NotifyEnd(p) ==
    /\ member[p] = "told"
    /\ member' = [member EXCEPT ![p] = "gone"]
    /\ call' = AllWoken(call)
    /\ UNCHANGED <<lstate, alive, waiting, doing, jobs, calls, phase, disturbed>>

-----------------------------------------------------------------------------
\* ~LinkedThreadPool, once no other call is in progress: shutdown, then the
\* wait for TERMINATED.
Destroy ==
    /\ phase = "open" /\ \A c \in Caller : Idle(c)
    /\ ShutdownBody
    /\ phase' = "closing"
    /\ call' = [call EXCEPT ![Builder] = [op |-> "destroy", at |-> "test", arg |-> 0]]
    /\ UNCHANGED <<alive, doing, calls, disturbed>>

DestroyWait ==
    /\ Doing(Builder, "destroy", "test")
    /\ \/ /\ lstate # "TERMINATED"
          /\ WaitOn(Builder)
       \/ /\ lstate = "TERMINATED"
          /\ phase' = "closed"
          /\ call' = Returned(Builder)
          /\ UNCHANGED <<lstate, alive, waiting, member, doing, jobs, calls, disturbed>>

LinkedCall(c) ==
    \/ BeginSubmit(c) \/ BeginControl(c) \/ FallAsleep(c) \/ Submit(c)
    \/ LinkedStopTest(c) \/ LinkedStopStore(c) \/ LinkedStartTest(c) \/ LinkedStartStore(c)
    \/ LinkedClear(c) \/ LinkedShutdown(c)

LinkedResize ==
    \/ BeginResize \/ ResizeCompare(Builder) \/ ResizeMeasure(Builder)
    \/ CreateThreads(Builder) \/ CreateWait(Builder) \/ DeleteThreads(Builder)

LinkedThread(p) ==
    \/ ThreadUp(p) \/ TakeTask(p) \/ RunTask(p)
    \/ CountDown(p) \/ StoreTerminated(p) \/ NotifyEnd(p)

LinkedWork ==
    \/ \E c \in Caller : LinkedCall(c)
    \/ LinkedResize
    \/ \E p \in Pooled : LinkedThread(p)
    \/ Destroy
    \/ DestroyWait

LinkedNext ==
    \/ LinkedWork /\ UNCHANGED max_tasks
    \/ \E c \in Caller : LinkedMaxQueue(c)

LinkedSpec == LinkedInit /\ [][LinkedNext]_linkedVars

-----------------------------------------------------------------------------
\* A task is in one place: in the list once while it is queued, with one
\* thread while it runs.
JobPlaced(j) ==
    /\ Cardinality({i \in 1..Len(waiting) : waiting[i] = j})
         = IF jobs[j] = "queued" THEN 1 ELSE 0
    /\ Cardinality({p \in Pooled : doing[p] = j})
         = IF jobs[j] = "running" THEN 1 ELSE 0

\* Every accepted task is in exactly one place, so it is run or killed at
\* most once; and when the destructor has returned, no thread is left that
\* would use the pool but in the last notification of end_thread, and no
\* task is left that was neither run nor killed.  The second part is for a
\* pool that kept a thread until it was shut down, and whose shutdown no
\* stop() or start() stored over.
LinkedPoolExact ==
    /\ \A j \in Job : JobPlaced(j)
    /\ phase = "closed" /\ ~disturbed =>
          /\ \A p \in Pooled : member[p] \in {"none", "told", "gone"}
          /\ \A j \in Job : jobs[j] \notin {"queued", "running"}

=============================================================================
