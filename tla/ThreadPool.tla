----------------------------- MODULE ThreadPool -----------------------------
(***************************************************************************)
(* Base::ThreadPool (Base/ThreadPool.hpp, Base/src/ThreadPool.cpp): worker *)
(* threads, the client threads that submit tasks, and one owner thread     *)
(* that constructs the pool, resizes, stops, starts, clears and shuts it.  *)
(*                                                                         *)
(* A section under _lock is one step, except where it waits: Condition's   *)
(* wait tests its predicate, and enters the wait set and releases the      *)
(* mutex in a later step.  A store and a notify made without the mutex     *)
(* (stop, thread_begin, thread_end) can fall between the two.  Waiting     *)
(* threads wake only when notified; a notify_one may wake any of them.     *)
(***************************************************************************)
EXTENDS Integers, Sequences, FiniteSets, SequencesExt

CONSTANTS
    Worker,       \* the threads the pool may create, a created one is not reused
    Client,       \* the threads that submit, one task each
    Owner,        \* the thread that owns the pool
    None,
    Threads,      \* threads_size of the constructor
    MaxTasks,     \* max_tasks_size of the constructor
    Sizes,        \* what the owner may pass to resize_core_threads, resize_max_queue
    Ops,          \* which of the owner's calls are made
    MaxOps,       \* bound: how many of them
    Patient       \* TRUE: nobody uses the pool before its first threads run

ASSUME PoolAssumption ==
    /\ IsFiniteSet(Worker) /\ IsFiniteSet(Client)
    /\ Worker \cap Client = {} /\ Owner \notin Worker \cup Client
    /\ None \notin Worker \cup Client \cup {Owner}
    /\ Threads \in Nat /\ MaxTasks \in Nat \ {0} /\ MaxOps \in Nat
    /\ Sizes \subseteq Nat
    /\ Ops \subseteq {"stop", "start", "clear", "resize", "steal", "queue", "shutdown"}
    /\ Patient \in BOOLEAN

PoolState == {"RUNNING", "STOP", "SHUTTING", "TERMINATED"}

VARIABLES
    lock,     \* the holder of _lock while it is on its way into a wait
    state,    \* _state
    core,     \* _core_threads
    target,   \* _target_thread_size
    list,     \* _list: the tasks, named by the client that submitted them
    room,     \* _max_tasks
    created,  \* the workers whose create_done is true
    wpc,      \* where each worker is
    task,     \* the task a worker, or the owner in stolen_a_task, runs
    cpc,      \* where each client is
    opc,      \* where the owner is
    ops,      \* the owner's calls so far
    submitQ,  \* the threads waiting on _submit
    consumeQ, \* the workers waiting on _consume
    fate      \* what has become of each client's task

vars == <<lock, state, core, target, list, room, created, wpc, task, cpc, opc, ops,
          submitQ, consumeQ, fate>>

Stopping == state # "RUNNING"

Free == lock = None

NeedDelete == target < core

-----------------------------------------------------------------------------
(* Condition variables *)

\* A notified thread goes back to testing its predicate.
WakeClients(T) ==
    cpc' = [c \in Client |-> IF c \in T THEN "check" ELSE cpc[c]]

OwnerWoken == IF opc = "create_asleep" THEN "create_check" ELSE "shut_check"

\* notify on _submit leaves the waiters of T; for steps of a worker.
NotifySubmit(T) ==
    /\ submitQ' = submitQ \ T
    /\ WakeClients(T)
    /\ opc' = IF Owner \in T THEN OwnerWoken ELSE opc

\* notify_one: one waiter if there is one.
One(Q) == IF Q = {} THEN {{}} ELSE {{t} : t \in Q}

WakeWorkers(T) == [w \in Worker |-> IF w \in T THEN "check" ELSE wpc[w]]

-----------------------------------------------------------------------------
(* Worker threads *)

\* thread_begin up to create_done.
ThreadBegin(w) ==
    /\ wpc[w] = "born"
    /\ core' = core + 1
    /\ created' = created \cup {w}
    /\ wpc' = [wpc EXCEPT ![w] = "begun"]
    /\ UNCHANGED <<lock, state, target, list, room, task, cpc, opc, ops, submitQ, consumeQ, fate>>

\* thread_begin: _submit.notify_all, without the lock.
ThreadBeginNotify(w) ==
    /\ wpc[w] = "begun"
    /\ NotifySubmit(submitQ)
    /\ wpc' = [wpc EXCEPT ![w] = "announced"]
    /\ UNCHANGED <<lock, state, core, target, list, room, created, task, ops, consumeQ, fate>>

\* thread_begin: the test for the first thread of a pool, after its creator may
\* have returned, and the store that sets the pool running.
ThreadBeginState(w) ==
    /\ wpc[w] = "announced"
    /\ wpc' = [wpc EXCEPT ![w] = IF state = "TERMINATED" THEN "first" ELSE "loop"]
    /\ UNCHANGED <<lock, state, core, target, list, room, created, task, cpc, opc, ops,
                   submitQ, consumeQ, fate>>

ThreadBeginStore(w) ==
    /\ wpc[w] = "first"
    /\ state' = "RUNNING"
    /\ wpc' = [wpc EXCEPT ![w] = "loop"]
    /\ UNCHANGED <<lock, core, target, list, room, created, task, cpc, opc, ops,
                   submitQ, consumeQ, fate>>

\* The predicate of _consume.wait.
WorkReady == (list # <<>> /\ state # "STOP") \/ NeedDelete

\* One test of the predicate; the mutex stays held either way.
TestWork(w) ==
    /\ lock' = w
    /\ wpc' = [wpc EXCEPT ![w] = IF WorkReady THEN "ready" ELSE "sleep"]

\* The head of the loop: notify_one on _submit, then the wait's first test.
WorkerLoop(w) ==
    /\ wpc[w] = "loop"
    /\ Free
    /\ \E T \in One(submitQ) : NotifySubmit(T)
    /\ TestWork(w)
    /\ UNCHANGED <<state, core, target, list, room, created, task, ops, consumeQ, fate>>

\* The wait's test after a notification.
WorkerCheck(w) ==
    /\ wpc[w] = "check"
    /\ Free
    /\ TestWork(w)
    /\ UNCHANGED <<state, core, target, list, room, created, task, cpc, opc, ops,
                   submitQ, consumeQ, fate>>

\* After the wait need_delete is read again: the resize or the stop that makes
\* a difference in between does not take the lock.
WorkerLeave(w) ==
    /\ wpc[w] = "ready"
    /\ NeedDelete
    /\ wpc' = [wpc EXCEPT ![w] = "leaving"]
    /\ UNCHANGED <<lock, state, core, target, list, room, created, task, cpc, opc, ops,
                   submitQ, consumeQ, fate>>

WorkerLeft(w) ==
    /\ wpc[w] = "leaving"
    /\ core' = core - 1
    /\ lock' = None
    /\ wpc' = [wpc EXCEPT ![w] = "end"]
    /\ UNCHANGED <<state, target, list, room, created, task, cpc, opc, ops,
                   submitQ, consumeQ, fate>>

\* continue
WorkerAgain(w) ==
    /\ wpc[w] = "ready"
    /\ ~NeedDelete
    /\ list = <<>> \/ state = "STOP"
    /\ lock' = None
    /\ wpc' = [wpc EXCEPT ![w] = "loop"]
    /\ UNCHANGED <<state, core, target, list, room, created, task, cpc, opc, ops,
                   submitQ, consumeQ, fate>>

MutTakeKeeps(w) ==
    /\ wpc[w] = "ready"
    /\ ~NeedDelete
    /\ list # <<>> /\ state # "STOP"
    /\ task' = [task EXCEPT ![w] = Last(list)]
    /\ fate' = [fate EXCEPT ![Last(list)] = "running"]
    /\ lock' = None
    /\ wpc' = [wpc EXCEPT ![w] = "work"]
    /\ UNCHANGED <<state, core, target, list, room, created, cpc, opc, ops,
                   submitQ, consumeQ>>

WorkerTake(w) ==
    /\ wpc[w] = "ready"
    /\ ~NeedDelete
    /\ list # <<>> /\ state # "STOP"
    /\ task' = [task EXCEPT ![w] = Last(list)]
    /\ list' = Front(list)
    /\ fate' = [fate EXCEPT ![Last(list)] = "running"]
    /\ lock' = None
    /\ wpc' = [wpc EXCEPT ![w] = "work"]
    /\ UNCHANGED <<state, core, target, room, created, cpc, opc, ops, submitQ, consumeQ>>

\* pthread_cond_wait: join the wait set and release the mutex.
WorkerSleep(w) ==
    /\ wpc[w] = "sleep"
    /\ consumeQ' = consumeQ \cup {w}
    /\ lock' = None
    /\ wpc' = [wpc EXCEPT ![w] = "asleep"]
    /\ UNCHANGED <<state, core, target, list, room, created, task, cpc, opc, ops, submitQ, fate>>

\* fun(false)
WorkerDone(w) ==
    /\ wpc[w] = "work"
    /\ fate' = [fate EXCEPT ![task[w]] = "done"]
    /\ task' = [task EXCEPT ![w] = None]
    /\ wpc' = [wpc EXCEPT ![w] = "loop"]
    /\ UNCHANGED <<lock, state, core, target, list, room, created, cpc, opc, ops,
                   submitQ, consumeQ>>

MutEndAlways(w) ==
    /\ wpc[w] = "end"
    /\ wpc' = [wpc EXCEPT ![w] = "terminate"]
    /\ UNCHANGED <<lock, state, core, target, list, room, created, task, cpc, opc, ops,
                   submitQ, consumeQ, fate>>

\* thread_end: the load of _core_threads, the store and the notify are three
\* steps without the lock.
ThreadEnd(w) ==
    /\ wpc[w] = "end"
    /\ wpc' = [wpc EXCEPT ![w] = IF core = 0 THEN "terminate" ELSE "gone"]
    /\ UNCHANGED <<lock, state, core, target, list, room, created, task, cpc, opc, ops,
                   submitQ, consumeQ, fate>>

ThreadEndStore(w) ==
    /\ wpc[w] = "terminate"
    /\ state' = "TERMINATED"
    /\ wpc' = [wpc EXCEPT ![w] = "terminated"]
    /\ UNCHANGED <<lock, core, target, list, room, created, task, cpc, opc, ops,
                   submitQ, consumeQ, fate>>

ThreadEndNotify(w) ==
    /\ wpc[w] = "terminated"
    /\ NotifySubmit(submitQ)
    /\ wpc' = [wpc EXCEPT ![w] = "gone"]
    /\ UNCHANGED <<lock, state, core, target, list, room, created, task, ops, consumeQ, fate>>

-----------------------------------------------------------------------------
(* Clients *)

\* For patient users: the first threads have set the pool running and are done
\* with thread_begin.
Settled == Patient /\ ops = 0 => /\ state = "RUNNING"
                                /\ \A w \in Worker : wpc[w] \notin {"born", "begun", "announced", "first"}

\* The constructor has returned and the destructor has not.
Usable == Settled /\ opc \notin {"closed", "left"}
          /\ (ops = 0 => opc \notin {"resizing", "create_check", "create_sleep", "create_asleep"})

\* The caller of submit or submit_with_future arrives.
SubmitCall(c) ==
    /\ cpc[c] = "idle"
    /\ Usable
    /\ cpc' = [cpc EXCEPT ![c] = "check"]
    /\ UNCHANGED <<lock, state, core, target, list, room, created, wpc, task, opc, ops,
                   submitQ, consumeQ, fate>>

\* joinable_fun
Joinable == Stopping \/ Len(list) < room

\* The predicate does not hold: on the way into _submit.wait.
SubmitBlock(c) ==
    /\ cpc[c] = "check"
    /\ Free
    /\ ~Joinable
    /\ lock' = c
    /\ cpc' = [cpc EXCEPT ![c] = "sleep"]
    /\ UNCHANGED <<state, core, target, list, room, created, wpc, task, opc, ops,
                   submitQ, consumeQ, fate>>

SubmitSleep(c) ==
    /\ cpc[c] = "sleep"
    /\ submitQ' = submitQ \cup {c}
    /\ lock' = None
    /\ cpc' = [cpc EXCEPT ![c] = "asleep"]
    /\ UNCHANGED <<state, core, target, list, room, created, wpc, task, opc, ops, consumeQ, fate>>

\* The predicate holds; the mutex stays held.
SubmitPass(c) ==
    /\ cpc[c] = "check"
    /\ Free
    /\ Joinable
    /\ lock' = c
    /\ cpc' = [cpc EXCEPT ![c] = "passed"]
    /\ UNCHANGED <<state, core, target, list, room, created, wpc, task, opc, ops,
                   submitQ, consumeQ, fate>>

\* The exception "This Task have been interrupted".
SubmitInterrupted(c) ==
    /\ cpc[c] = "passed"
    /\ Stopping
    /\ lock' = None
    /\ cpc' = [cpc EXCEPT ![c] = "returned"]
    /\ fate' = [fate EXCEPT ![c] = "refused"]
    /\ UNCHANGED <<state, core, target, list, room, created, wpc, task, opc, ops,
                   submitQ, consumeQ>>

MutNoNotify(T) == wpc

\* The worker that _consume.notify_one picks.
NotifyConsume(T) == WakeWorkers(T)

\* _consume.notify_one and create_fun or create_fun_with_future.
SubmitTask(c) ==
    /\ cpc[c] = "passed"
    /\ ~Stopping
    /\ \E T \in One(consumeQ) :
          /\ consumeQ' = consumeQ \ T
          /\ wpc' = NotifyConsume(T)
    /\ list' = Append(list, c)
    /\ fate' = [fate EXCEPT ![c] = "queued"]
    /\ lock' = None
    /\ cpc' = [cpc EXCEPT ![c] = "returned"]
    /\ UNCHANGED <<state, core, target, room, created, task, opc, ops, submitQ>>

-----------------------------------------------------------------------------
(* The owner: resize_core_threads and create_thread *)

\* The head of resize_core_threads' loop: another thread, or return.
ResizeLoop ==
    /\ opc = "resizing"
    /\ IF core < target
       THEN \E w \in Worker :
               /\ wpc[w] = "off"
               /\ wpc' = [wpc EXCEPT ![w] = "born"]
               /\ opc' = "create_check"
               /\ task' = [task EXCEPT ![Owner] = w]
       ELSE opc' = "idle" /\ UNCHANGED <<wpc, task>>
    /\ UNCHANGED <<lock, state, core, target, list, room, created, cpc, ops,
                   submitQ, consumeQ, fate>>

\* create_thread's wait for create_done; task[Owner] is the thread it creates.
CreateDone ==
    /\ opc = "create_check"
    /\ Free
    /\ IF task[Owner] \in created
       THEN opc' = "resizing" /\ task' = [task EXCEPT ![Owner] = None] /\ UNCHANGED lock
       ELSE opc' = "create_sleep" /\ lock' = Owner /\ UNCHANGED task
    /\ UNCHANGED <<state, core, target, list, room, created, wpc, cpc, ops,
                   submitQ, consumeQ, fate>>

\* pthread_cond_wait in create_thread and in shutdown.
OwnerSleep ==
    /\ opc \in {"create_sleep", "shut_sleep"}
    /\ submitQ' = submitQ \cup {Owner}
    /\ lock' = None
    /\ opc' = IF opc = "create_sleep" THEN "create_asleep" ELSE "shut_asleep"
    /\ UNCHANGED <<state, core, target, list, room, created, wpc, task, cpc, ops, consumeQ, fate>>

Call(op) ==
    /\ opc = "idle"
    /\ op \in Ops
    /\ ops < MaxOps
    /\ Settled
    /\ ops' = ops + 1

\* resize_core_threads
Resize(size) ==
    /\ Call("resize")
    /\ state # "SHUTTING"
    /\ target' = size
    /\ consumeQ' = {}
    /\ wpc' = WakeWorkers(consumeQ)
    /\ opc' = "resizing"
    /\ UNCHANGED <<lock, state, core, list, room, created, task, cpc, submitQ, fate>>

(* The owner: stop, start, clear_task, stolen_a_task *)

\* stop: a test, a store and a notify_all, none of them under the lock.
Stop ==
    /\ Call("stop")
    /\ opc' = IF state = "RUNNING" THEN "stop_store" ELSE "idle"
    /\ UNCHANGED <<lock, state, core, target, list, room, created, wpc, task, cpc,
                   submitQ, consumeQ, fate>>

StopStore ==
    /\ opc = "stop_store"
    /\ state' = "STOP"
    /\ opc' = "stop_notify"
    /\ UNCHANGED <<lock, core, target, list, room, created, wpc, task, cpc, ops,
                   submitQ, consumeQ, fate>>

StopNotify ==
    /\ opc = "stop_notify"
    /\ submitQ' = {}
    /\ WakeClients(submitQ)
    /\ opc' = "idle"
    /\ UNCHANGED <<lock, state, core, target, list, room, created, wpc, task, ops,
                   consumeQ, fate>>

\* start: the test is made without the lock, the rest under it.
Start ==
    /\ Call("start")
    /\ state = "STOP"
    /\ opc' = "start_lock"
    /\ UNCHANGED <<lock, state, core, target, list, room, created, wpc, task, cpc,
                   submitQ, consumeQ, fate>>

StartLocked ==
    /\ opc = "start_lock"
    /\ Free
    /\ state' = "RUNNING"
    /\ submitQ' = {}
    /\ WakeClients(submitQ)
    /\ consumeQ' = {}
    /\ wpc' = WakeWorkers(consumeQ)
    /\ opc' = "idle"
    /\ UNCHANGED <<lock, core, target, list, room, created, task, ops, fate>>

Killed == [c \in Client |-> IF \E i \in 1 .. Len(list) : list[i] = c
                            THEN "killed" ELSE fate[c]]

\* clear_task: fun(true) for every task; nobody is notified.
ClearTask ==
    /\ Call("clear")
    /\ Free
    /\ fate' = Killed
    /\ list' = <<>>
    /\ UNCHANGED <<lock, state, core, target, room, created, wpc, task, cpc, opc,
                   submitQ, consumeQ>>

\* stolen_a_task: the owner takes the last task and runs it itself.
StealTask ==
    /\ Call("steal")
    /\ Free
    /\ list # <<>>
    /\ \E T \in One(submitQ) : submitQ' = submitQ \ T /\ WakeClients(T)
    /\ task' = [task EXCEPT ![Owner] = Last(list)]
    /\ fate' = [fate EXCEPT ![Last(list)] = "running"]
    /\ list' = Front(list)
    /\ opc' = "stolen"
    /\ UNCHANGED <<lock, state, core, target, room, created, wpc, consumeQ>>

StolenDone ==
    /\ opc = "stolen"
    /\ fate' = [fate EXCEPT ![task[Owner]] = "done"]
    /\ task' = [task EXCEPT ![Owner] = None]
    /\ opc' = "idle"
    /\ UNCHANGED <<lock, state, core, target, list, room, created, wpc, cpc, ops,
                   submitQ, consumeQ>>

\* resize_max_queue: the newest tasks that do not fit are destroyed, neither run
\* nor killed; nobody is notified.
ResizeMaxQueue(size) ==
    /\ Call("queue")
    /\ Free
    /\ room' = size
    /\ list' = SubSeq(list, 1, IF size < Len(list) THEN size ELSE Len(list))
    /\ fate' = [c \in Client |-> IF \E i \in size + 1 .. Len(list) : list[i] = c
                                THEN "dropped" ELSE fate[c]]
    /\ UNCHANGED <<lock, state, core, target, created, wpc, task, cpc, opc,
                   submitQ, consumeQ>>

(* The owner: shutdown, which the destructor calls *)

\* A pool that is shutting or terminated, which it also is before its first
\* thread has begun, is left alone and not waited for.
ShutdownEarly ==
    /\ Call("shutdown")
    /\ Free
    /\ state \in {"SHUTTING", "TERMINATED"}
    /\ opc' = "left"
    /\ UNCHANGED <<lock, state, core, target, list, room, created, wpc, task, cpc,
                   submitQ, consumeQ, fate>>

\* Kill the queue, tell the workers to leave, test for TERMINATED (it cannot be).
Shutdown ==
    /\ Call("shutdown")
    /\ Free
    /\ state \in {"RUNNING", "STOP"}
    /\ state' = "SHUTTING"
    /\ fate' = Killed
    /\ list' = <<>>
    /\ target' = 0
    /\ consumeQ' = {}
    /\ wpc' = WakeWorkers(consumeQ)
    /\ opc' = "shut_sleep"
    /\ lock' = Owner
    /\ UNCHANGED <<core, room, created, task, cpc, submitQ>>

\* The test after a notification.
ShutdownCheck ==
    /\ opc = "shut_check"
    /\ Free
    /\ IF state = "TERMINATED"
       THEN opc' = "closed" /\ UNCHANGED lock
       ELSE opc' = "shut_sleep" /\ lock' = Owner
    /\ UNCHANGED <<state, core, target, list, room, created, wpc, task, cpc, ops,
                   submitQ, consumeQ, fate>>

-----------------------------------------------------------------------------
\* The constructor has entered resize_core_threads.
Init ==
    /\ lock = None
    /\ state = "TERMINATED"
    /\ core = 0
    /\ target = Threads
    /\ list = <<>>
    /\ room = MaxTasks
    /\ created = {}
    /\ wpc = [w \in Worker |-> "off"]
    /\ task = [t \in Worker \cup {Owner} |-> None]
    /\ cpc = [c \in Client |-> "idle"]
    /\ opc = "resizing"
    /\ ops = 0
    /\ submitQ = {}
    /\ consumeQ = {}
    /\ fate = [c \in Client |-> "none"]

WorkerStep(w) ==
    \/ ThreadBegin(w) \/ ThreadBeginNotify(w) \/ ThreadBeginState(w)
    \/ ThreadBeginStore(w) \/ WorkerLoop(w) \/ WorkerCheck(w) \/ WorkerSleep(w)
    \/ WorkerLeave(w) \/ WorkerLeft(w) \/ WorkerAgain(w) \/ WorkerTake(w) \/ WorkerDone(w)
    \/ ThreadEnd(w) \/ ThreadEndStore(w) \/ ThreadEndNotify(w)

ClientStep(c) ==
    SubmitBlock(c) \/ SubmitSleep(c) \/ SubmitPass(c) \/ SubmitInterrupted(c) \/ SubmitTask(c)

\* The owner inside a call.
OwnerStep ==
    \/ ResizeLoop \/ CreateDone \/ OwnerSleep
    \/ StopStore \/ StopNotify \/ StartLocked \/ StolenDone \/ ShutdownCheck

\* A call begins.
OwnerCall ==
    \/ \E size \in Sizes : Resize(size) \/ ResizeMaxQueue(size)
    \/ Stop \/ Start \/ ClearTask \/ StealTask \/ ShutdownEarly \/ Shutdown

Next ==
    \/ \E w \in Worker : WorkerStep(w)
    \/ \E c \in Client : SubmitCall(c) \/ ClientStep(c)
    \/ OwnerStep
    \/ OwnerCall

Spec == Init /\ [][Next]_vars

\* The scheduler runs every thread that can run, and a mutex that is released
\* again and again is eventually obtained; nobody has to call the pool.
Fairness ==
    /\ \A w \in Worker : SF_vars(WorkerStep(w))
    /\ \A c \in Client : SF_vars(ClientStep(c))
    /\ SF_vars(OwnerStep)

FairSpec == Spec /\ Fairness

-----------------------------------------------------------------------------
Counted == {"begun", "announced", "first", "loop", "check", "sleep", "asleep", "ready",
            "leaving", "work"}

\* Every variable holds what the member it stands for can hold.
TypeOK ==
    /\ lock \in Worker \cup Client \cup {Owner, None}
    /\ state \in PoolState
    /\ core \in 0 .. Cardinality(Worker)
    /\ target \in Nat /\ room \in Nat
    /\ list \in Seq(Client)
    /\ created \subseteq Worker
    /\ wpc \in [Worker -> Counted \cup {"off", "born", "end", "terminate",
                                       "terminated", "gone"}]
    /\ task \in [Worker \cup {Owner} -> Client \cup Worker \cup {None}]
    /\ cpc \in [Client -> {"idle", "check", "sleep", "asleep", "passed", "returned"}]
    /\ opc \in {"idle", "resizing", "create_check", "create_sleep", "create_asleep",
               "stop_store", "stop_notify", "start_lock", "stolen",
               "shut_sleep", "shut_asleep", "shut_check", "closed", "left"}
    /\ ops \in 0 .. MaxOps
    /\ submitQ \subseteq Client \cup {Owner} /\ consumeQ \subseteq Worker
    /\ fate \in [Client -> {"none", "refused", "queued", "running", "done", "killed",
                            "dropped"}]

\* A task is in one place: queued once, or with the one thread that runs it.
OnePlace ==
    \A c \in Client :
       LET queued  == {i \in 1 .. Len(list) : list[i] = c}
           holders == {t \in Worker \cup {Owner} : task[t] = c}
       IN  /\ Cardinality(queued)  = IF fate[c] = "queued"  THEN 1 ELSE 0
           /\ Cardinality(holders) = IF fate[c] = "running" THEN 1 ELSE 0

\* _core_threads counts the threads between thread_begin and the end of their
\* loop.
CoreCounts == core = Cardinality({w \in Worker : wpc[w] \in Counted})

\* Workers and stolen_a_task take tasks, clear_task, resize_max_queue and
\* shutdown remove them: none is run twice, none is both run and killed; and
\* the counter that need_delete, resize_core_threads and thread_end decide by
\* is exact although threads change it on their own.
PoolExact == TypeOK /\ OnePlace /\ CoreCounts

\* When a shutdown that waited has returned, no thread of the pool is in its
\* loop, will take the lock or runs a task: at most the tail of thread_end is
\* still to come.
QuietAtClose ==
    opc = "closed" => \A w \in Worker : wpc[w] \notin Counted \cup {"born"}

\* No wakeup of _consume or _submit is lost while threads come and go, although
\* notify_one on _submit may pick the owner: every task that submit accepted is
\* run, killed by shutdown or dropped by resize_max_queue, and every submit
\* returns.  Each client calls once, so the pool always comes to rest again.
PoolServes ==
    []<>(\A c \in Client : /\ fate[c] \notin {"queued", "running"}
                           /\ cpc[c] \in {"idle", "returned"})

\* shutdown, and the destructor through it, returns.
ShutdownReturns == opc \in {"shut_sleep", "shut_check"} ~> opc = "closed"

=============================================================================
