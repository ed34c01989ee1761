----------------------------- MODULE PoolProofs -----------------------------
(***************************************************************************)
(* Proofs about Mutexes, ThreadPool and TimerLoop, for every number of     *)
(* threads, tasks and events and every bound.  The three share no state;   *)
(* each has an inductive invariant of its own.                             *)
(***************************************************************************)
EXTENDS ThreadPool, Mutexes, TimerLoop, FiniteSetTheorems, SequenceTheorems, TLAPS

(* Mutexes *)

\* The places of a thread that has the pthread mutex.
Having == {"own", "in", "release", "parking", "back"}
Outside == {"out", "acquire", "aborted", "parked"}

MutexTyped ==
    /\ reentrant \in BOOLEAN
    /\ taken \in User \cup {Nobody} /\ owner \in User \cup {Nobody}
    /\ counter \in Nat
    /\ at \in [User -> Having \cup Outside]
    /\ depth \in [User -> Nat]

\* The strengthening of OwnerAgrees: who has the pthread mutex and who is the
\* owner is a matter of where a thread is, and so is what the counter counts.
MutexInv ==
    /\ MutexTyped
    /\ \A u \in User :
          /\ taken = u <=> at[u] \in Having
          /\ owner = u <=> at[u] = "in"
          /\ at[u] # "aborted"
          /\ reentrant => at[u] \notin {"parking", "parked", "back"}
          /\ at[u] \in {"in", "parking", "parked", "back"} => depth[u] > 0
          /\ at[u] \in {"out", "acquire", "own", "release"} => depth[u] = 0
          /\ ~reentrant => depth[u] <= 1
          /\ reentrant /\ at[u] = "in" => counter = depth[u]
          /\ reentrant /\ at[u] \in {"own", "release"} => counter = 0
    /\ ~reentrant => counter = 0
    /\ taken = Nobody => counter = 0

\* Every step of a lock, an unlock or a wait keeps the invariant.
LEMMA MutexStep == MutexInv /\ [MutexNext]_mutexVars => MutexInv'
<1> SUFFICES ASSUME MutexInv, [MutexNext]_mutexVars
             PROVE  MutexInv'
  OBVIOUS
<1> USE MutexAssumption DEF MutexInv, MutexTyped, Having, Outside, is_owner, Go
<1>1. ASSUME NEW u \in User, LockCall(u) PROVE MutexInv'
  BY <1>1 DEF LockCall
<1>2. ASSUME NEW u \in User, PthreadLock(u) PROVE MutexInv'
  BY <1>2 DEF PthreadLock
<1>3. ASSUME NEW u \in User, SetOwner(u) PROVE MutexInv'
  BY <1>3 DEF SetOwner
<1>4. ASSUME NEW u \in User, TryAgain(u) PROVE MutexInv'
  BY <1>4 DEF TryAgain
<1>5. ASSUME NEW u \in User, TryLock(u) PROVE MutexInv'
  BY <1>5 DEF TryLock
<1>6. ASSUME NEW u \in User, Unlock(u) PROVE MutexInv'
  BY <1>6 DEF Unlock
<1>7. ASSUME NEW u \in User, PthreadUnlock(u) PROVE MutexInv'
  BY <1>7 DEF PthreadUnlock
<1>8. ASSUME NEW u \in User, Wait(u) PROVE MutexInv'
  BY <1>8 DEF Wait
<1>9. ASSUME NEW u \in User, Park(u) PROVE MutexInv'
  BY <1>9 DEF Park
<1>10. ASSUME NEW u \in User, Wake(u) PROVE MutexInv'
  BY <1>10 DEF Wake
<1>11. ASSUME NEW u \in User, WaitReturns(u) PROVE MutexInv'
  BY <1>11 DEF WaitReturns
<1>12. CASE UNCHANGED mutexVars
  BY <1>12 DEF mutexVars
<1> QED
  BY <1>1, <1>2, <1>3, <1>4, <1>5, <1>6, <1>7, <1>8, <1>9, <1>10, <1>11, <1>12
     DEF MutexNext

\* A thread that trusts _owner_thread is right, whatever locks, tries, waits and
\* notifications of other threads lie in between (Mutex.hpp, Condition.hpp).
THEOREM OwnerIsRight == MutexSpec => []OwnerAgrees
<1>1. MutexInit => MutexInv
  BY MutexAssumption DEF MutexInit, MutexInv, MutexTyped, Having, Outside
<1>2. MutexInv => OwnerAgrees
  BY MutexAssumption DEF MutexInv, MutexTyped, OwnerAgrees, Having, Outside, is_owner
<1> QED
  BY <1>1, <1>2, MutexStep, PTL DEF MutexSpec

-----------------------------------------------------------------------------
(* ThreadPool *)

CreatePc == {"create_check", "create_sleep", "create_asleep"}

\* TypeOK without the bound of _core_threads, which follows from CoreCounts.
Typed ==
    /\ lock \in Worker \cup Client \cup {Owner, None}
    /\ state \in PoolState
    /\ target \in Nat /\ room \in Nat
    /\ list \in Seq(Client)
    /\ created \subseteq Worker
    /\ wpc \in [Worker -> Counted \cup {"off", "born", "end", "terminate",
                                       "terminated", "gone"}]
    /\ task \in [Worker \cup {Owner} -> Client \cup Worker \cup {None}]
    /\ cpc \in [Client -> {"idle", "check", "sleep", "asleep", "passed", "returned"}]
    /\ opc \in {"idle", "resizing", "create_check", "create_sleep", "create_asleep",
               "stop_store", "stop_notify", "start_lock", "stolen",
               "shut_sleep", "shut_asleep", "shut_check", "closed", "left"}
    /\ ops \in 0 .. MaxOps
    /\ submitQ \subseteq Client \cup {Owner} /\ consumeQ \subseteq Worker
    /\ fate \in [Client -> {"none", "refused", "queued", "running", "done", "killed",
                            "dropped"}]

\* The lock is held exactly by the thread that is between a test and what
\* follows it.
LockPlaces ==
    /\ \A w \in Worker : lock = w <=> wpc[w] \in {"sleep", "ready", "leaving"}
    /\ \A c \in Client : lock = c <=> cpc[c] \in {"sleep", "passed"}
    /\ lock = Owner <=> opc \in {"create_sleep", "shut_sleep"}

\* Only sleepers are in the wait sets.
Waiters ==
    /\ \A w \in consumeQ : wpc[w] = "asleep"
    /\ \A c \in submitQ \ {Owner} : cpc[c] = "asleep"
    /\ Owner \in submitQ => opc \in {"create_asleep", "shut_asleep"}

Shape == Typed /\ LockPlaces /\ Waiters

\* What get_task takes from the end of the list, and what it leaves.
LEMMA Popped ==
  ASSUME NEW S, NEW s \in Seq(S), s # <<>>
  PROVE  /\ Len(s) \in Nat \ {0}
         /\ Last(s) = s[Len(s)] /\ Last(s) \in S
         /\ Front(s) \in Seq(S) /\ Len(Front(s)) = Len(s) - 1
         /\ \A i \in 1 .. Len(s) - 1 : Front(s)[i] = s[i]
<1> DEFINE n == Len(s) - 1
<1>1. Len(s) \in Nat \ {0} /\ n \in Nat
  OBVIOUS
<1>2. \A i \in 1 .. n : s[i] \in S
  BY <1>1
<1>3. Last(s) = s[Len(s)] /\ Last(s) \in S
  BY <1>1 DEF Last
<1>4. Front(s) = SubSeq(s, 1, n)
  BY DEF Front
<1> HIDE DEF n
<1>5. /\ SubSeq(s, 1, n) \in Seq(S)
      /\ Len(SubSeq(s, 1, n)) = IF 1 <= n THEN n - 1 + 1 ELSE 0
      /\ \A i \in 1 .. n - 1 + 1 : SubSeq(s, 1, n)[i] = s[1 + i - 1]
  BY <1>1, <1>2, SubSeqProperties
<1>6. Len(Front(s)) = n /\ \A i \in 1 .. n : Front(s)[i] = s[i]
  BY <1>1, <1>4, <1>5
<1> QED
  BY <1>1, <1>3, <1>4, <1>5, <1>6 DEF n

\* Every step keeps the types, the holder of the lock and the wait sets.
LEMMA ShapeStep == Shape /\ [Next]_vars => Shape'
<1> SUFFICES ASSUME Shape, [Next]_vars
             PROVE  Shape'
  OBVIOUS
<1> USE PoolAssumption DEF Shape, Typed, LockPlaces, Waiters, Counted, PoolState, Free, Call
<1>1. ASSUME NEW w \in Worker, WorkerStep(w) PROVE Shape'
  <2> USE DEF NotifySubmit, WakeClients, OwnerWoken, One, TestWork
  <2>1. CASE ThreadBegin(w) \/ ThreadBeginState(w) \/ ThreadBeginStore(w)
    BY <2>1 DEF ThreadBegin, ThreadBeginState, ThreadBeginStore
  <2>2. CASE ThreadBeginNotify(w)
    BY <2>2 DEF ThreadBeginNotify
  <2>3. CASE WorkerLoop(w)
    BY <2>3 DEF WorkerLoop
  <2>4. CASE WorkerCheck(w)
    BY <2>4 DEF WorkerCheck
  <2>5. CASE WorkerSleep(w)
    BY <2>5 DEF WorkerSleep
  <2>6. CASE WorkerLeave(w) \/ WorkerLeft(w) \/ WorkerAgain(w)
    BY <2>6 DEF WorkerLeave, WorkerLeft, WorkerAgain
  <2>7. CASE WorkerTake(w)
    BY <2>7, Popped DEF WorkerTake
  <2>8. CASE WorkerDone(w)
    BY <2>8 DEF WorkerDone
  <2>9. CASE ThreadEnd(w) \/ ThreadEndStore(w)
    BY <2>9 DEF ThreadEnd, ThreadEndStore
  <2>10. CASE ThreadEndNotify(w)
    BY <2>10 DEF ThreadEndNotify
  <2> QED
    BY <1>1, <2>1, <2>2, <2>3, <2>4, <2>5, <2>6, <2>7, <2>8, <2>9, <2>10 DEF WorkerStep
<1>2. ASSUME NEW c \in Client, SubmitCall(c) \/ ClientStep(c) PROVE Shape'
  <2>1. CASE SubmitCall(c)
    BY <2>1 DEF SubmitCall
  <2>2. CASE SubmitBlock(c) \/ SubmitPass(c)
    BY <2>2 DEF SubmitBlock, SubmitPass
  <2>3. CASE SubmitSleep(c)
    BY <2>3 DEF SubmitSleep
  <2>4. CASE SubmitInterrupted(c)
    BY <2>4 DEF SubmitInterrupted
  <2>5. CASE SubmitTask(c)
    BY <2>5 DEF SubmitTask, One, NotifyConsume, WakeWorkers
  <2> QED
    BY <1>2, <2>1, <2>2, <2>3, <2>4, <2>5 DEF ClientStep
<1>3. CASE OwnerStep
  <2> USE DEF WakeClients, WakeWorkers
  <2>1. CASE ResizeLoop
    BY <2>1 DEF ResizeLoop
  <2>2. CASE CreateDone
    BY <2>2 DEF CreateDone
  <2>3. CASE OwnerSleep
    BY <2>3 DEF OwnerSleep
  <2>4. CASE StopStore
    BY <2>4 DEF StopStore
  <2>5. CASE StopNotify
    BY <2>5 DEF StopNotify
  <2>6. CASE StartLocked
    BY <2>6 DEF StartLocked
  <2>7. CASE StolenDone
    BY <2>7 DEF StolenDone
  <2>8. CASE ShutdownCheck
    BY <2>8 DEF ShutdownCheck
  <2> QED
    BY <1>3, <2>1, <2>2, <2>3, <2>4, <2>5, <2>6, <2>7, <2>8 DEF OwnerStep
<1>4. CASE OwnerCall
  <2> USE DEF WakeClients, WakeWorkers, One, Killed
  <2>1. ASSUME NEW size \in Sizes, Resize(size) PROVE Shape'
    BY <2>1 DEF Resize
  <2>2. ASSUME NEW size \in Sizes, ResizeMaxQueue(size) PROVE Shape'
    BY <2>2 DEF ResizeMaxQueue
  <2>3. CASE Stop \/ Start
    BY <2>3 DEF Stop, Start
  <2>4. CASE ClearTask
    BY <2>4 DEF ClearTask
  <2>5. CASE StealTask
    BY <2>5, Popped DEF StealTask
  <2>6. CASE ShutdownEarly
    BY <2>6 DEF ShutdownEarly
  <2>7. CASE Shutdown
    BY <2>7 DEF Shutdown
  <2> QED
    BY <1>4, <2>1, <2>2, <2>3, <2>4, <2>5, <2>6, <2>7 DEF OwnerCall
<1>5. CASE UNCHANGED vars
  BY <1>5 DEF vars
<1> QED
  BY <1>1, <1>2, <1>3, <1>4, <1>5 DEF Next

-----------------------------------------------------------------------------
\* Each task is queued at most once, and _list holds the queued ones.
Queue ==
    /\ \A i, j \in 1 .. Len(list) : list[i] = list[j] => i = j
    /\ \A c \in Client : fate[c] = "queued" <=> \E i \in 1 .. Len(list) : list[i] = c

\* Each running task is with one thread, which is where tasks are run.
Holders ==
    /\ \A t, u \in Worker \cup {Owner} : task[t] = task[u] /\ task[t] \in Client => t = u
    /\ \A c \in Client : fate[c] = "running" <=> \E t \in Worker \cup {Owner} : task[t] = c
    /\ \A w \in Worker : IF wpc[w] = "work" THEN task[w] \in Client ELSE task[w] = None
    /\ task[Owner] \in Client <=> opc = "stolen"
    /\ task[Owner] \in Worker <=> opc \in CreatePc

\* Nothing has become of a task before its submit returns.
NotYet == \A c \in Client : cpc[c] # "returned" => fate[c] = "none"

Tasks == Queue /\ Holders /\ NotYet

\* What a take from the back of the queue does to the tasks.
LEMMA PopQueue ==
  ASSUME Shape, Tasks, list # <<>>, list' = Front(list),
         fate' = [fate EXCEPT ![Last(list)] = "running"]
  PROVE  Queue' /\ fate[Last(list)] = "queued"
<1> USE DEF Shape, Typed, Tasks, Queue
<1>1. /\ Len(list) \in Nat \ {0} /\ Last(list) = list[Len(list)] /\ Last(list) \in Client
      /\ Len(list') = Len(list) - 1 /\ \A i \in 1 .. Len(list) - 1 : list'[i] = list[i]
  BY Popped
<1>2. fate[Last(list)] = "queued"
  BY <1>1
<1> HIDE DEF Shape
<1>3. \A i, j \in 1 .. Len(list') : list'[i] = list'[j] => i = j
  BY <1>1
<1>4. ASSUME NEW c \in Client
      PROVE  (fate[c] = "queued" /\ c # Last(list)) <=> \E i \in 1 .. Len(list') : list'[i] = c
  BY <1>1
<1>5. \A c \in Client : fate'[c] = "queued" <=> (fate[c] = "queued" /\ c # Last(list))
  BY <1>1 DEF Shape
<1> QED
  BY <1>2, <1>3, <1>4, <1>5

\* What clear_task and shutdown do to the tasks.
LEMMA KillQueue ==
  ASSUME Shape, Tasks, list' = <<>>, fate' = Killed,
         UNCHANGED <<task, cpc>>, UNCHANGED opc \/ (opc = "idle" /\ opc' = "shut_sleep"),
         \A w \in Worker : wpc'[w] # wpc[w] => wpc[w] = "asleep" /\ wpc'[w] = "check"
  PROVE  Tasks'
<1> USE DEF Tasks, Queue, Holders, NotYet
<1>1. ASSUME NEW c \in Client
      PROVE  fate'[c] = IF fate[c] = "queued" THEN "killed" ELSE fate[c]
  BY DEF Killed
<1>2. Queue'
  BY <1>1
<1>3. Holders' /\ NotYet'
  BY <1>1 DEF CreatePc
<1> QED
  BY <1>2, <1>3

\* What resize_max_queue does to the tasks.
LEMMA TruncateQueue ==
  ASSUME Shape, Tasks, NEW size \in Sizes,
         list' = SubSeq(list, 1, IF size < Len(list) THEN size ELSE Len(list)),
         fate' = [c \in Client |-> IF \E i \in size + 1 .. Len(list) : list[i] = c
                                   THEN "dropped" ELSE fate[c]],
         UNCHANGED <<task, opc, wpc, cpc>>
  PROVE  Tasks'
<1> DEFINE n == IF size < Len(list) THEN size ELSE Len(list)
<1>1. list \in Seq(Client) /\ Len(list) \in Nat /\ size \in Nat
  BY PoolAssumption DEF Shape, Typed
<1>2. n \in Nat /\ n <= Len(list) /\ (n = size \/ (n = Len(list) /\ n <= size))
  BY <1>1
<1>3. list' = SubSeq(list, 1, n)
  OBVIOUS
<1> HIDE DEF n
<1>4. Len(list') = n /\ \A i \in 1 .. n : list'[i] = list[i]
  BY <1>1, <1>2, <1>3
<1>5. \A c \in Client : (\E i \in size + 1 .. Len(list) : list[i] = c) => fate[c] = "queued"
  BY <1>1 DEF Tasks, Queue
<1>6. Queue'
  <2>1. \A i, j \in 1 .. Len(list') : list'[i] = list'[j] => i = j
    BY <1>1, <1>2, <1>4 DEF Tasks, Queue
  <2>2. ASSUME NEW c \in Client
        PROVE  fate'[c] = "queued" <=> \E i \in 1 .. Len(list') : list'[i] = c
    <3>1. /\ \A i, j \in 1 .. Len(list) : list[i] = list[j] => i = j
          /\ fate[c] = "queued" <=> \E i \in 1 .. Len(list) : list[i] = c
      BY DEF Tasks, Queue
    <3>2. 1 .. Len(list) = 1 .. n \cup (size + 1 .. Len(list))
      BY <1>1, <1>2
    <3>3. CASE \E i \in size + 1 .. Len(list) : list[i] = c
      <4>1. fate'[c] = "dropped"
        BY <3>3
      <4>2. ~ \E i \in 1 .. n : list[i] = c
        BY <1>1, <1>2, <3>1, <3>3
      <4> QED
        BY <1>4, <4>1, <4>2
    <3>4. CASE ~ \E i \in size + 1 .. Len(list) : list[i] = c
      <4>1. fate'[c] = fate[c]
        BY <3>4
      <4>2. fate[c] = "queued" <=> \E i \in 1 .. n : list[i] = c
        BY <3>1, <3>2, <3>4, Zenon
      <4> QED
        BY <1>4, <4>1, <4>2
    <3> QED
      BY <3>3, <3>4
  <2> QED
    BY <2>1, <2>2 DEF Queue
<1>7. Holders' /\ NotYet'
  BY <1>5 DEF Tasks, Holders, NotYet
<1> QED
  BY <1>6, <1>7 DEF Tasks

\* Every step keeps each task at the one place its fate names.
LEMMA TasksStep == Shape /\ Shape' /\ Tasks /\ [Next]_vars => Tasks'
<1> SUFFICES ASSUME Shape, Shape', Tasks, [Next]_vars
             PROVE  Tasks'
  OBVIOUS
<1> USE PoolAssumption DEF Shape, Typed, LockPlaces, Waiters, Counted, PoolState, Free, Call,
        Tasks, Queue, Holders, NotYet, CreatePc
<1>1. ASSUME NEW w \in Worker, WorkerStep(w) PROVE Tasks'
  <2> USE DEF NotifySubmit, WakeClients, OwnerWoken, One, TestWork
  <2>1. CASE ThreadBegin(w) \/ ThreadBeginState(w) \/ ThreadBeginStore(w)
    BY <2>1 DEF ThreadBegin, ThreadBeginState, ThreadBeginStore
  <2>2. CASE ThreadBeginNotify(w)
    BY <2>2 DEF ThreadBeginNotify
  <2>3. CASE WorkerLoop(w)
    BY <2>3 DEF WorkerLoop
  <2>4. CASE WorkerCheck(w)
    BY <2>4 DEF WorkerCheck
  <2>5. CASE WorkerSleep(w)
    BY <2>5 DEF WorkerSleep
  <2>6. CASE WorkerLeave(w) \/ WorkerLeft(w) \/ WorkerAgain(w)
    BY <2>6 DEF WorkerLeave, WorkerLeft, WorkerAgain
  <2>7. CASE WorkerTake(w)
    <3> USE <2>7 DEF WorkerTake
    <3> HIDE DEF Shape, Typed, LockPlaces, Waiters
    <3>1. /\ list # <<>> /\ list' = Front(list)
          /\ fate' = [fate EXCEPT ![Last(list)] = "running"]
          /\ task' = [task EXCEPT ![w] = Last(list)]
          /\ wpc' = [wpc EXCEPT ![w] = "work"] /\ UNCHANGED <<opc, cpc>>
      OBVIOUS
    <3>2. Queue' /\ fate[Last(list)] = "queued"
      BY <3>1, PopQueue
    <3>3. task[w] = None
      OBVIOUS
    <3>4. Holders'
      BY <3>1, <3>2, <3>3, Popped DEF Shape, Typed
    <3>5. NotYet'
      BY <3>1, <3>2, Popped DEF Shape, Typed
    <3> QED
      BY <3>2, <3>4, <3>5
  <2>8. CASE WorkerDone(w)
    BY <2>8 DEF WorkerDone
  <2>9. CASE ThreadEnd(w) \/ ThreadEndStore(w)
    BY <2>9 DEF ThreadEnd, ThreadEndStore
  <2>10. CASE ThreadEndNotify(w)
    BY <2>10 DEF ThreadEndNotify
  <2> QED
    BY <1>1, <2>1, <2>2, <2>3, <2>4, <2>5, <2>6, <2>7, <2>8, <2>9, <2>10 DEF WorkerStep
<1>2. ASSUME NEW c \in Client, SubmitCall(c) \/ ClientStep(c) PROVE Tasks'
  <2>1. CASE SubmitCall(c)
    BY <2>1 DEF SubmitCall
  <2>2. CASE SubmitBlock(c) \/ SubmitPass(c)
    BY <2>2 DEF SubmitBlock, SubmitPass
  <2>3. CASE SubmitSleep(c)
    BY <2>3 DEF SubmitSleep
  <2>4. CASE SubmitInterrupted(c)
    BY <2>4 DEF SubmitInterrupted
  <2>5. CASE SubmitTask(c)
    <3>1. /\ cpc[c] = "passed" /\ list' = Append(list, c)
          /\ fate' = [fate EXCEPT ![c] = "queued"]
          /\ cpc' = [cpc EXCEPT ![c] = "returned"] /\ UNCHANGED <<task, opc>>
          /\ \A w \in Worker : wpc'[w] = wpc[w] \/ (wpc[w] = "asleep" /\ wpc'[w] = "check")
      BY <2>5 DEF SubmitTask, One, NotifyConsume, WakeWorkers
    <3> HIDE DEF Shape, Typed, LockPlaces, Waiters
    <3>2. Queue'
      <4>1. fate[c] = "none" /\ \A i \in 1 .. Len(list) : list[i] # c
        BY <3>1
      <4>2. /\ Len(list') = Len(list) + 1 /\ list'[Len(list) + 1] = c
            /\ \A i \in 1 .. Len(list) : list'[i] = list[i]
        BY <3>1 DEF Shape, Typed
      <4> QED
        BY <3>1, <4>1, <4>2 DEF Shape, Typed
    <3>3. Holders'
      BY <3>1 DEF Shape, Typed
    <3>4. NotYet'
      BY <3>1 DEF Shape, Typed
    <3> QED
      BY <3>2, <3>3, <3>4
  <2> QED
    BY <1>2, <2>1, <2>2, <2>3, <2>4, <2>5 DEF ClientStep
<1>3. CASE OwnerStep
  <2> USE DEF WakeClients, WakeWorkers
  <2>1. CASE ResizeLoop
    BY <2>1 DEF ResizeLoop
  <2>2. CASE CreateDone
    <3>1. opc \in CreatePc /\ opc' \in CreatePc \cup {"resizing"} /\ UNCHANGED <<list, wpc, cpc, fate>>
      BY <2>2 DEF CreateDone
    <3>2. task' = IF opc' \in CreatePc THEN task ELSE [task EXCEPT ![Owner] = None]
      BY <2>2 DEF CreateDone
    <3> HIDE DEF Shape, LockPlaces, Waiters
    <3>3. Holders'
      <4>1. task[Owner] \in Worker
        BY <3>1
      <4>2. \A w \in Worker : task'[w] = task[w]
        BY <3>2 DEF Shape
      <4>3. task'[Owner] = IF opc' \in CreatePc THEN task[Owner] ELSE None
        BY <3>2 DEF Shape
      <4> QED
        BY <3>1, <4>1, <4>2, <4>3 DEF Shape
    <3>4. Queue' /\ NotYet'
      BY <3>1
    <3> QED
      BY <3>3, <3>4
  <2>3. CASE OwnerSleep
    BY <2>3 DEF OwnerSleep
  <2>4. CASE StopStore
    BY <2>4 DEF StopStore
  <2>5. CASE StopNotify
    BY <2>5 DEF StopNotify
  <2>6. CASE StartLocked
    BY <2>6 DEF StartLocked
  <2>7. CASE StolenDone
    BY <2>7 DEF StolenDone
  <2>8. CASE ShutdownCheck
    BY <2>8 DEF ShutdownCheck
  <2> QED
    BY <1>3, <2>1, <2>2, <2>3, <2>4, <2>5, <2>6, <2>7, <2>8 DEF OwnerStep
<1>4. CASE OwnerCall
  <2> USE DEF WakeClients, WakeWorkers, One, Killed
  <2>1. ASSUME NEW size \in Sizes, Resize(size) PROVE Tasks'
    BY <2>1 DEF Resize
  <2>2. ASSUME NEW size \in Sizes, ResizeMaxQueue(size) PROVE Tasks'
    BY <2>2, TruncateQueue DEF ResizeMaxQueue
  <2>3. CASE Stop \/ Start
    BY <2>3 DEF Stop, Start
  <2>4. CASE ClearTask
    BY <2>4, KillQueue DEF ClearTask
  <2>5. CASE StealTask
    <3> USE <2>5 DEF StealTask
    <3>1. /\ list # <<>> /\ list' = Front(list)
          /\ fate' = [fate EXCEPT ![Last(list)] = "running"]
          /\ task' = [task EXCEPT ![Owner] = Last(list)]
          /\ opc = "idle" /\ opc' = "stolen" /\ UNCHANGED wpc
          /\ \A c \in Client : cpc'[c] # "returned" => cpc[c] # "returned"
      OBVIOUS
    <3> HIDE <2>5 DEF Shape, Typed, LockPlaces, Waiters, StealTask
    <3>2. Queue' /\ fate[Last(list)] = "queued"
      BY <3>1, PopQueue
    <3>4. Holders'
      BY <3>1, <3>2, Popped DEF Shape, Typed
    <3>5. NotYet'
      BY <3>1, <3>2, Popped DEF Shape, Typed
    <3> QED
      BY <3>2, <3>4, <3>5
  <2>6. CASE ShutdownEarly
    BY <2>6 DEF ShutdownEarly
  <2>7. CASE Shutdown
    <3>1. /\ list' = <<>> /\ fate' = Killed /\ UNCHANGED <<task, cpc>>
          /\ opc = "idle" /\ opc' = "shut_sleep"
      BY <2>7 DEF Shutdown
    <3>2. \A w \in Worker : wpc'[w] # wpc[w] => wpc[w] = "asleep" /\ wpc'[w] = "check"
      BY <2>7 DEF Shutdown
    <3> QED
      BY <3>1, <3>2, KillQueue
  <2> QED
    BY <1>4, <2>1, <2>2, <2>3, <2>4, <2>5, <2>6, <2>7 DEF OwnerCall
<1>5. CASE UNCHANGED vars
  BY <1>5 DEF vars
<1> QED
  BY <1>1, <1>2, <1>3, <1>4, <1>5 DEF Next

-----------------------------------------------------------------------------
CountedWorkers == {w \in Worker : wpc[w] \in Counted}

\* _core_threads changes where a thread enters or leaves the loop, nowhere else.
LEMMA CountStep ==
  ASSUME Shape, Shape', [Next]_vars
  PROVE  \/ core' = core /\ CountedWorkers' = CountedWorkers
         \/ \E w \in Worker \ CountedWorkers :
               core' = core + 1 /\ CountedWorkers' = CountedWorkers \cup {w}
         \/ \E w \in CountedWorkers :
               core' = core - 1 /\ CountedWorkers' = CountedWorkers \ {w}
<1> DEFINE Goal == \/ core' = core /\ CountedWorkers' = CountedWorkers
                   \/ \E w \in Worker \ CountedWorkers :
                         core' = core + 1 /\ CountedWorkers' = CountedWorkers \cup {w}
                   \/ \E w \in CountedWorkers :
                         core' = core - 1 /\ CountedWorkers' = CountedWorkers \ {w}
<1> USE DEF CountedWorkers, Counted, Shape, Typed
<1>1. ASSUME NEW w \in Worker, WorkerStep(w) PROVE Goal
  <2>1. CASE ThreadBegin(w)
    <3>1. core' = core + 1 /\ CountedWorkers' = CountedWorkers \cup {w}
      BY <2>1 DEF ThreadBegin
    <3>2. w \in Worker \ CountedWorkers
      BY <2>1 DEF ThreadBegin
    <3> QED
      BY <3>1, <3>2
  <2>2. CASE WorkerLeft(w)
    <3>1. core' = core - 1 /\ CountedWorkers' = CountedWorkers \ {w}
      BY <2>2 DEF WorkerLeft
    <3>2. w \in CountedWorkers
      BY <2>2 DEF WorkerLeft
    <3> QED
      BY <3>1, <3>2
  <2>3. ASSUME WorkerStep(w), ~ThreadBegin(w), ~WorkerLeft(w)
        PROVE  core' = core /\ CountedWorkers' = CountedWorkers
    BY <2>3 DEF WorkerStep, ThreadBeginNotify, ThreadBeginState, ThreadBeginStore, WorkerLoop,
                WorkerCheck, WorkerSleep, WorkerLeave, WorkerAgain, WorkerTake, WorkerDone,
                ThreadEnd, ThreadEndStore, ThreadEndNotify, TestWork
  <2> QED
    BY <1>1, <2>1, <2>2, <2>3
<1>2. ASSUME NEW c \in Client, SubmitCall(c) \/ ClientStep(c) PROVE Goal
  BY <1>2 DEF SubmitCall, ClientStep, SubmitBlock, SubmitSleep, SubmitPass, SubmitInterrupted,
              SubmitTask, NotifyConsume, WakeWorkers, One, Waiters
<1>3. CASE OwnerStep
  BY <1>3 DEF OwnerStep, ResizeLoop, CreateDone, OwnerSleep, StopStore, StopNotify, StartLocked,
              StolenDone, ShutdownCheck, WakeWorkers, Waiters
<1>4. CASE OwnerCall
  BY <1>4 DEF OwnerCall, Resize, ResizeMaxQueue, Stop, Start, ClearTask, StealTask, ShutdownEarly,
              Shutdown, WakeWorkers, Waiters
<1>5. CASE UNCHANGED vars
  BY <1>5 DEF vars
<1> QED
  BY <1>1, <1>2, <1>3, <1>4, <1>5 DEF Next

\* The inductive invariant of the pool.
PoolInv == Shape /\ Tasks /\ CoreCounts

\* The invariant is inductive,
LEMMA PoolStep == PoolInv /\ [Next]_vars => PoolInv'
<1> SUFFICES ASSUME PoolInv, [Next]_vars
             PROVE  PoolInv'
  OBVIOUS
<1>1. Shape' /\ Tasks'
  BY ShapeStep, TasksStep DEF PoolInv
<1>2. IsFiniteSet(CountedWorkers) /\ Cardinality(CountedWorkers) \in Nat
  BY PoolAssumption, FS_Subset, FS_CardinalityType DEF CountedWorkers
<1>3. core = Cardinality(CountedWorkers)
  BY DEF PoolInv, CoreCounts, CountedWorkers
<1>4. core' = Cardinality(CountedWorkers')
  <2>1. CASE core' = core /\ CountedWorkers' = CountedWorkers
    BY <1>3, <2>1
  <2>2. ASSUME NEW w \in Worker \ CountedWorkers,
               core' = core + 1, CountedWorkers' = CountedWorkers \cup {w}
        PROVE  core' = Cardinality(CountedWorkers')
    BY <1>2, <1>3, <2>2, FS_AddElement
  <2>3. ASSUME NEW w \in CountedWorkers,
               core' = core - 1, CountedWorkers' = CountedWorkers \ {w}
        PROVE  core' = Cardinality(CountedWorkers')
    BY <1>2, <1>3, <2>3, FS_RemoveElement
  <2> QED
    BY <1>1, <2>1, <2>2, <2>3, CountStep DEF PoolInv
<1> QED
  BY <1>1, <1>4 DEF PoolInv, CoreCounts, CountedWorkers

\* holds when the constructor begins,
LEMMA PoolInitially == Init => PoolInv
<1> SUFFICES ASSUME Init
             PROVE  PoolInv
  OBVIOUS
<1>1. Shape /\ Tasks
  BY PoolAssumption DEF Init, Shape, Typed, LockPlaces, Waiters, Tasks, Queue, Holders, NotYet,
                        CreatePc, PoolState, Counted
<1>2. {w \in Worker : wpc[w] \in Counted} = {}
  BY DEF Init, Counted
<1> QED
  BY <1>1, <1>2, FS_EmptySet DEF PoolInv, CoreCounts, Init

\* A set with exactly one member, or none, has the cardinality OnePlace states.
\* A set of at most one element has one exactly if it is not empty.
LEMMA OneOrNone ==
  ASSUME NEW S, NEW P \in BOOLEAN, \A x, y \in S : x = y, P <=> S # {}
  PROVE  Cardinality(S) = IF P THEN 1 ELSE 0
<1>1. CASE S = {}
  BY <1>1, FS_EmptySet
<1>2. ASSUME NEW x \in S PROVE Cardinality(S) = 1
  <2>1. S = {x}
    OBVIOUS
  <2> QED
    BY <2>1, FS_Singleton
<1> QED
  BY <1>1, <1>2

\* It implies the property.
LEMMA PoolInvExact == PoolInv => PoolExact
<1> SUFFICES ASSUME PoolInv
             PROVE  PoolExact
  OBVIOUS
<1>1. TypeOK
  <2>1. {w \in Worker : wpc[w] \in Counted} \in SUBSET Worker
    OBVIOUS
  <2>2. core \in 0 .. Cardinality(Worker)
    BY <2>1, PoolAssumption, FS_Subset, FS_CardinalityType DEF PoolInv, CoreCounts
  <2> QED
    BY <2>2 DEF PoolInv, Shape, Typed, TypeOK
<1>2. OnePlace
  <2> SUFFICES ASSUME NEW c \in Client
               PROVE  /\ Cardinality({i \in 1 .. Len(list) : list[i] = c})
                           = IF fate[c] = "queued" THEN 1 ELSE 0
                      /\ Cardinality({t \in Worker \cup {Owner} : task[t] = c})
                           = IF fate[c] = "running" THEN 1 ELSE 0
    BY DEF OnePlace
  <2> DEFINE queued == {i \in 1 .. Len(list) : list[i] = c}
             holders == {t \in Worker \cup {Owner} : task[t] = c}
  <2>1. /\ \A i, j \in queued : i = j
        /\ (fate[c] = "queued") <=> queued # {}
    BY DEF PoolInv, Tasks, Queue
  <2>2. /\ \A t, u \in holders : t = u
        /\ (fate[c] = "running") <=> holders # {}
    BY DEF PoolInv, Tasks, Holders
  <2> QED
    BY <2>1, <2>2, OneOrNone
<1> QED
  BY <1>1, <1>2 DEF PoolExact, PoolInv

\* Under every interleaving of the workers, the submitters and the owner's
\* calls, for any numbers of them and any limits, a task is queued once or with
\* the one thread that runs it, and _core_threads counts the threads in the loop
\* (ThreadPool.cpp, thread_begin to thread_end, and the members of ThreadPool).
THEOREM PoolIsExact == Spec => []PoolExact
<1> QED
  BY PoolInitially, PoolStep, PoolInvExact, PTL DEF Spec

-----------------------------------------------------------------------------
ShutPc == {"shut_sleep", "shut_asleep", "shut_check", "closed"}

\* Until shutdown the pool wants a thread and has one, so that nobody finds
\* _core_threads 0 and ends the pool; a thread that is about to leave leaves
\* another one behind.
StaysUp ==
    opc \notin ShutPc =>
       /\ target > 0
       /\ \A w \in Worker : /\ wpc[w] = "leaving" => core > 1
                            /\ wpc[w] \notin {"off", "born"} => core > 0
                            /\ wpc[w] \notin {"terminate", "terminated"}

\* The strengthening of QuietAtClose for patient users: TERMINATED is stored
\* again only when no thread is left and none is being created.
Closing ==
    /\ StaysUp
    /\ ops > 0 => \A w \in Worker : wpc[w] # "first"
    /\ ops = 0 => opc \notin ShutPc
    /\ ops > 0 /\ state = "TERMINATED" => core = 0 /\ opc \in ShutPc
    /\ \A w \in Worker : wpc[w] \in {"terminate", "terminated"} => core = 0
    /\ \A w \in Worker : w \in created <=> wpc[w] \notin {"off", "born"}
    /\ \A w \in Worker : wpc[w] = "born" => opc \in CreatePc /\ task[Owner] = w
    /\ opc = "closed" => core = 0

\* A thread in the loop is counted.
LEMMA CountedIsPositive ==
  ASSUME NEW pc, NEW n, n = Cardinality({w \in Worker : pc[w] \in Counted})
  PROVE  n \in Nat /\ \A w \in Worker : pc[w] \in Counted => n > 0
<1> DEFINE S == {w \in Worker : pc[w] \in Counted}
<1>1. IsFiniteSet(S) /\ Cardinality(S) \in Nat
  BY PoolAssumption, FS_Subset, FS_CardinalityType
<1>2. ASSUME NEW w \in Worker, pc[w] \in Counted PROVE Cardinality(S) # 0
  BY <1>1, <1>2, FS_EmptySet
<1> QED
  BY <1>1, <1>2

\* Every step keeps the pool up until the owner shuts it down, and empty afterwards.
LEMMA ClosingStep ==
  ASSUME Patient, 0 \notin Sizes, PoolInv, Closing, [Next]_vars
  PROVE  Closing'
<1>0. /\ Shape /\ Tasks /\ PoolInv'
      /\ core \in Nat /\ \A w \in Worker : wpc[w] \in Counted => core > 0
      /\ core' \in Nat /\ \A w \in Worker : wpc'[w] \in Counted => core' > 0
  <2>1. PoolInv'
    BY PoolStep
  <2> QED
    BY <2>1, CountedIsPositive DEF PoolInv, CoreCounts
<1> USE <1>0, PoolAssumption
    DEF Shape, Typed, LockPlaces, Waiters, Counted, PoolState, Free, Call, Tasks, Holders,
        CreatePc, ShutPc, Closing, StaysUp
<1>1. ASSUME NEW w \in Worker, WorkerStep(w) PROVE Closing'
  <2> USE DEF NotifySubmit, WakeClients, OwnerWoken, One, TestWork
  <2>1. CASE ThreadBegin(w)
    BY <2>1 DEF ThreadBegin
  <2>2. CASE ThreadBeginState(w) \/ ThreadBeginStore(w)
    BY <2>2 DEF ThreadBeginState, ThreadBeginStore
  <2>3. CASE ThreadBeginNotify(w)
    BY <2>3 DEF ThreadBeginNotify
  <2>4. CASE WorkerLoop(w)
    BY <2>4 DEF WorkerLoop
  <2>5. CASE WorkerCheck(w) \/ WorkerSleep(w)
    BY <2>5 DEF WorkerCheck, WorkerSleep
  <2>6. CASE WorkerLeave(w) \/ WorkerAgain(w)
    BY <2>6 DEF WorkerLeave, WorkerAgain, NeedDelete
  <2>7. CASE WorkerLeft(w)
    BY <2>7 DEF WorkerLeft
  <2>8. CASE WorkerTake(w) \/ WorkerDone(w)
    BY <2>8 DEF WorkerTake, WorkerDone
  <2>9. CASE ThreadEnd(w) \/ ThreadEndStore(w)
    BY <2>9 DEF ThreadEnd, ThreadEndStore
  <2>10. CASE ThreadEndNotify(w)
    BY <2>10 DEF ThreadEndNotify
  <2> QED
    BY <1>1, <2>1, <2>2, <2>3, <2>4, <2>5, <2>6, <2>7, <2>8, <2>9, <2>10 DEF WorkerStep
<1>2. ASSUME NEW c \in Client, SubmitCall(c) \/ ClientStep(c) PROVE Closing'
  <2>1. CASE SubmitTask(c)
    BY <2>1 DEF SubmitTask, One, NotifyConsume, WakeWorkers
  <2>2. ASSUME ~SubmitTask(c) PROVE Closing'
    BY <1>2, <2>2 DEF SubmitCall, ClientStep, SubmitBlock, SubmitPass, SubmitSleep,
                      SubmitInterrupted
  <2> QED
    BY <2>1, <2>2
<1>3. CASE OwnerStep
  <2> USE DEF WakeClients, WakeWorkers
  <2>1. CASE ResizeLoop
    BY <2>1 DEF ResizeLoop
  <2>2. CASE CreateDone
    BY <2>2 DEF CreateDone
  <2>3. CASE OwnerSleep
    BY <2>3 DEF OwnerSleep
  <2>4. CASE StopStore \/ StopNotify \/ StolenDone
    BY <2>4 DEF StopStore, StopNotify, StolenDone
  <2>5. CASE StartLocked
    BY <2>5 DEF StartLocked
  <2>6. CASE ShutdownCheck
    BY <2>6 DEF ShutdownCheck
  <2> QED
    BY <1>3, <2>1, <2>2, <2>3, <2>4, <2>5, <2>6 DEF OwnerStep
<1>4. CASE OwnerCall
  <2> USE DEF WakeClients, WakeWorkers, One, Settled
  <2>1. ASSUME NEW size \in Sizes, Resize(size) PROVE Closing'
    BY <2>1 DEF Resize
  <2>2. ASSUME NEW size \in Sizes, ResizeMaxQueue(size) PROVE Closing'
    BY <2>2 DEF ResizeMaxQueue
  <2>3. CASE Stop \/ Start
    BY <2>3 DEF Stop, Start
  <2>4. CASE ClearTask
    BY <2>4 DEF ClearTask
  <2>5. CASE StealTask
    BY <2>5 DEF StealTask
  <2>6. CASE ShutdownEarly
    BY <2>6 DEF ShutdownEarly
  <2>7. CASE Shutdown
    BY <2>7 DEF Shutdown
  <2> QED
    BY <1>4, <2>1, <2>2, <2>3, <2>4, <2>5, <2>6, <2>7 DEF OwnerCall
<1>5. CASE UNCHANGED vars
  BY <1>5 DEF vars
<1> QED
  BY <1>1, <1>2, <1>3, <1>4, <1>5 DEF Next

\* A shutdown that has waited, the destructor's too, returns only when no thread
\* of the pool is in its loop, will take the lock or runs a task, if users wait
\* for the first threads and never ask for a pool of no threads (shutdown and
\* thread_end in ThreadPool.cpp).
THEOREM QuietWhenClosed ==
  ASSUME Patient, Threads # 0, 0 \notin Sizes
  PROVE  Spec => []QuietAtClose
<1>1. Init => PoolInv /\ Closing
  <2> SUFFICES ASSUME Init PROVE Closing
    BY PoolInitially
  <2> QED
    BY PoolAssumption DEF Init, Closing, StaysUp, ShutPc, CreatePc
<1>2. PoolInv /\ Closing /\ [Next]_vars => (PoolInv /\ Closing)'
  BY PoolStep, ClosingStep
<1>3. PoolInv /\ Closing => QuietAtClose
  BY CountedIsPositive DEF PoolInv, CoreCounts, QuietAtClose, Closing, CreatePc
<1> QED
  BY <1>1, <1>2, <1>3, PTL DEF Spec

-----------------------------------------------------------------------------
(* TimerLoop *)

\* Where a thread has taken an event, and where it may be.
Holding == {"nap", "call", "called", "update"}

Place == Holding \cup {"off", "starting", "loop", "get", "asleep", "end"}

TimerTyped ==
    /\ now \in Nat
    /\ queue \subseteq Event
    /\ due \in [Event -> Nat]
    /\ every \in [Event -> Interval \cup {Cancelled}]
    /\ tpc \in [Thread -> Place]
    /\ node \in [Thread -> Event \cup {NoEvent}]
    /\ waiters \subseteq Thread \cup {NoEvent}
    /\ put \in [Event -> Nat \cup {-1}]
    /\ runs \in [Event -> Nat]
    /\ low \in [Event -> Nat]
    /\ asked \subseteq Event
    /\ late \in [Event -> Nat]

\* A thread has an event exactly between get_event and the end of invoke_event;
\* one that waits on _con has none, so notifying it cannot lose an event.
NodesHeld ==
    /\ \A t \in Thread : node[t] # NoEvent <=> tpc[t] \in Holding
    /\ \A t \in Thread \cap waiters : tpc[t] = "asleep"

OneHolder ==
    /\ \A t \in Thread : node[t] # NoEvent => node[t] \notin queue
    /\ \A t, u \in Thread : node[t] # NoEvent /\ node[t] = node[u] => t = u

\* What an event is before it is put.
PutFirst ==
    \A e \in Event : put[e] = -1 =>
       /\ e \notin queue
       /\ \A t \in Thread : node[t] # e
       /\ e \notin asked
       /\ runs[e] = 0

\* The earliest time for call n of an event put at p, with intervals of at least i.
Owed(p, n, i) == p + n * i

\* The time in a node is late enough for the next call until that call is made,
\* and one interval behind until update has added the interval.
Paced ==
    /\ \A e \in Event : every[e] # Cancelled => low[e] <= every[e]
    /\ \A e \in queue : due[e] >= Owed(put[e], runs[e], low[e])
    /\ \A t \in Thread : tpc[t] \in {"nap", "call"} =>
          due[node[t]] >= Owed(put[node[t]], runs[node[t]], low[node[t]])
    /\ \A t \in Thread : tpc[t] \in {"called", "update"} =>
          /\ runs[node[t]] > 0
          /\ due[node[t]] >= Owed(put[node[t]], runs[node[t]] - 1, low[node[t]])
    /\ \A t \in Thread : tpc[t] = "call" => due[node[t]] <= now
    /\ \A e \in Event : runs[e] > 0 => now >= Owed(put[e], runs[e] - 1, low[e])

\* A call begun after cancel was decided before it, so it is the only one.
Cancels ==
    /\ \A e \in asked : every[e] = Cancelled
    /\ \A e \in Event : late[e] <= 1 /\ (late[e] > 0 => e \in asked)
    /\ \A t \in Thread : tpc[t] = "call" => late[node[t]] = 0

TimerInv == TimerTyped /\ NodesHeld /\ OneHolder /\ PutFirst /\ Paced /\ Cancels

-----------------------------------------------------------------------------
(* The only products the proof needs *)

\* The times promised are numbers, the first is that of put_event, and each is
\* one interval after the one before.
LEMMA OwedSteps ==
    ASSUME NEW p \in Int, NEW n \in Nat, NEW i \in Nat
    PROVE  /\ Owed(p, n, i) \in Int
           /\ Owed(p, n - 1, i) \in Int
           /\ Owed(p, 0, i) = p
           /\ Owed(p, n, i) = Owed(p, n - 1, i) + i
BY SMT DEF Owed

\* A shorter interval, as after reset, promises no later times.
LEMMA OwedShorter ==
    ASSUME NEW p \in Int, NEW n \in Nat, NEW i \in Nat, NEW j \in Nat, j <= i
    PROVE  Owed(p, n, j) <= Owed(p, n, i)
<1>1. PICK d \in Nat : i = j + d
  BY SMT
<1>2. n * i = n * j + n * d
  BY <1>1, SMT
<1>3. n * d >= 0
  BY SMT
<1>4. n * i \in Int /\ n * j \in Int /\ n * d \in Int
  BY SMT
<1> QED BY <1>2, <1>3, <1>4, SMT DEF Owed

-----------------------------------------------------------------------------
(* Steps that call nothing: threads move on or give up the event they hold. *)

\* Such a step keeps the invariant: no event gets a new place, time or count.
LEMMA MovesKeep ==
    ASSUME TimerInv,
           UNCHANGED <<now, due, every, history>>,
           queue' \subseteq queue,
           tpc' \in [Thread -> Place],
           node' \in [Thread -> Event \cup {NoEvent}],
           waiters' \subseteq Thread \cup {NoEvent},
           \A t \in Thread \cap waiters' : tpc'[t] = "asleep",
           \A t \in Thread : \/ tpc'[t] = tpc[t] /\ node'[t] = node[t]
                             \/ tpc'[t] \notin Holding /\ node'[t] = NoEvent
    PROVE  TimerInv'
<1> USE DEF history
<1>1. TimerTyped'
  BY DEF TimerInv, TimerTyped
<1>2. NodesHeld'
  BY DEF TimerInv, NodesHeld
<1>3. OneHolder'
  BY DEF TimerInv, OneHolder
<1>4. PutFirst'
  BY TimerAssumption DEF TimerInv, PutFirst
<1>5. Paced'
  BY DEF TimerInv, Paced, Holding
<1>6. Cancels'
  BY DEF TimerInv, Cancels, Holding
<1> QED BY <1>1, <1>2, <1>3, <1>4, <1>5, <1>6 DEF TimerInv

\* The owner's steps: loop, and shutdown before and after its wait.
LEMMA OwnerKeeps ==
    ASSUME TimerInv, Loop \/ TimerShutdown \/ TimerShutdownCheck
    PROVE  TimerInv'
<1> USE TimerAssumption
<1>1. CASE Loop
  BY <1>1, MovesKeep DEF Loop, TimerInv, TimerTyped, NodesHeld, Holding, Place, history
<1>2. CASE TimerShutdown
  BY <1>2, MovesKeep DEF TimerShutdown, WakeAll, TimerInv, TimerTyped, NodesHeld, Holding, Place, history
<1>3. CASE TimerShutdownCheck
  BY <1>3, MovesKeep DEF TimerShutdownCheck, TimerInv, TimerTyped, NodesHeld, history
<1> QED BY <1>1, <1>2, <1>3

\* A thread's steps that take no event and call none.
LEMMA PassesKeep ==
    ASSUME TimerInv, NEW t \in Thread,
           \/ ThreadStart(t) \/ ThreadLoop(t) \/ TimerThreadEnd(t) \/ GetQuit(t)
           \/ GetWait(t)
    PROVE  TimerInv'
<1>1. CASE ThreadStart(t)
  BY <1>1, MovesKeep DEF ThreadStart, TimerInv, TimerTyped, NodesHeld, Holding, Place, history
<1>2. CASE ThreadLoop(t)
  BY <1>2, MovesKeep DEF ThreadLoop, TimerInv, TimerTyped, NodesHeld, Holding, Place, history
<1>3. CASE TimerThreadEnd(t)
  BY <1>3, MovesKeep DEF TimerThreadEnd, TimerInv, TimerTyped, NodesHeld, Holding, Place, history
<1>4. CASE GetQuit(t)
  BY <1>4, MovesKeep DEF GetQuit, TimerInv, TimerTyped, NodesHeld, Holding, Place, history
<1>5. CASE GetWait(t)
  BY <1>5, MovesKeep DEF GetWait, TimerInv, TimerTyped, NodesHeld, Holding, Place, history
<1> QED BY <1>1, <1>2, <1>3, <1>4, <1>5

\* get_event takes an event out of the queue: it changes hands, nothing else.
LEMMA GetEventKeeps ==
    ASSUME TimerInv, NEW t \in Thread, GetEvent(t)
    PROVE  TimerInv'
<1> USE DEF history
<1>1. TimerTyped'
  BY DEF TimerInv, TimerTyped, Holding, Place, GetEvent, Live
<1>2. NodesHeld'
  BY TimerAssumption DEF TimerInv, TimerTyped, NodesHeld, Holding, Place, GetEvent, Live
<1>3. OneHolder'
  BY TimerAssumption DEF TimerInv, TimerTyped, NodesHeld, OneHolder, Holding, GetEvent, Live
<1>4. PutFirst'
  BY DEF TimerInv, TimerTyped, PutFirst, GetEvent, Live
<1>5. Paced'
  BY DEF TimerInv, TimerTyped, NodesHeld, Paced, Holding, GetEvent, Live
<1>6. Cancels'
  BY DEF TimerInv, TimerTyped, Cancels, GetEvent, Live
<1> QED BY <1>1, <1>2, <1>3, <1>4, <1>5, <1>6 DEF TimerInv

\* invoke's test for a cancelled event, after the sleep.
LEMMA InvokeTestKeeps ==
    ASSUME TimerInv, NEW t \in Thread, InvokeTest(t)
    PROVE  TimerInv'
<1> USE DEF history
<1>1. TimerTyped'
  BY DEF TimerInv, TimerTyped, Holding, Place, InvokeTest
<1>2. NodesHeld'
  BY TimerAssumption DEF TimerInv, TimerTyped, NodesHeld, Holding, Place, InvokeTest
<1>3. OneHolder'
  BY TimerAssumption DEF TimerInv, TimerTyped, NodesHeld, OneHolder, Holding, InvokeTest
<1>4. PutFirst'
  BY TimerAssumption DEF TimerInv, TimerTyped, PutFirst, InvokeTest
<1>5. Paced'
  BY DEF TimerInv, TimerTyped, NodesHeld, Paced, Holding, InvokeTest, NapOver
<1>6. Cancels'
  BY DEF TimerInv, TimerTyped, NodesHeld, Cancels, Holding, InvokeTest
<1> QED BY <1>1, <1>2, <1>3, <1>4, <1>5, <1>6 DEF TimerInv

\* invoke's last test.
LEMMA InvokeReturnKeeps ==
    ASSUME TimerInv, NEW t \in Thread, InvokeReturn(t)
    PROVE  TimerInv'
<1> USE DEF history
<1>1. TimerTyped'
  BY DEF TimerInv, TimerTyped, Holding, Place, InvokeReturn
<1>2. NodesHeld'
  BY TimerAssumption DEF TimerInv, TimerTyped, NodesHeld, Holding, Place, InvokeReturn
<1>3. OneHolder'
  BY TimerAssumption DEF TimerInv, TimerTyped, NodesHeld, OneHolder, Holding, InvokeReturn
<1>4. PutFirst'
  BY TimerAssumption DEF TimerInv, TimerTyped, PutFirst, InvokeReturn
<1>5. Paced'
  BY DEF TimerInv, TimerTyped, NodesHeld, Paced, Holding, InvokeReturn
<1>6. Cancels'
  BY DEF TimerInv, TimerTyped, NodesHeld, Cancels, Holding, InvokeReturn
<1> QED BY <1>1, <1>2, <1>3, <1>4, <1>5, <1>6 DEF TimerInv

\* EventID::cancel.
LEMMA CancelKeeps ==
    ASSUME TimerInv, NEW e \in Event, Cancel(e)
    PROVE  TimerInv'
<1>1. TimerTyped'
  BY DEF TimerInv, TimerTyped, Cancel
<1>2. NodesHeld'
  BY DEF TimerInv, NodesHeld, Cancel
<1>3. OneHolder'
  BY DEF TimerInv, OneHolder, Cancel
<1>4. PutFirst'
  BY DEF TimerInv, TimerTyped, PutFirst, Cancel, Alive, Held
<1>5. Paced'
  BY DEF TimerInv, TimerTyped, Paced, Cancel
<1>6. Cancels'
  BY DEF TimerInv, TimerTyped, Cancels, Cancel
<1> QED BY <1>1, <1>2, <1>3, <1>4, <1>5, <1>6 DEF TimerInv

\* Time passes: what was late enough stays so.
LEMMA TickKeeps ==
    ASSUME TimerInv, Tick
    PROVE  TimerInv'
<1> USE DEF Tick, history
<1>1. TimerTyped'
  BY DEF TimerInv, TimerTyped
<1>2. NodesHeld'
  BY DEF TimerInv, NodesHeld
<1>3. OneHolder'
  BY DEF TimerInv, OneHolder
<1>4. PutFirst'
  BY DEF TimerInv, PutFirst
<1>5. Paced'
  <2>1. ASSUME NEW t \in Thread, tpc'[t] = "call"
        PROVE  due'[node'[t]] <= now'
    <3>1. node[t] \in Event /\ due[node[t]] <= now
      BY <2>1 DEF TimerInv, TimerTyped, NodesHeld, Paced, Holding
    <3> QED BY <3>1 DEF TimerInv, TimerTyped
  <2>2. ASSUME NEW e \in Event, runs'[e] > 0
        PROVE  now' >= Owed(put'[e], runs'[e] - 1, low'[e])
    <3>1. now >= Owed(put[e], runs[e] - 1, low[e])
      BY <2>2 DEF TimerInv, Paced
    <3>2. put[e] \in Int /\ runs[e] \in Nat /\ low[e] \in Nat
      BY DEF TimerInv, TimerTyped
    <3>3. Owed(put[e], runs[e] - 1, low[e]) \in Int
      BY <3>2, OwedSteps
    <3> QED BY <3>1, <3>3 DEF TimerInv, TimerTyped
  <2> QED BY <2>1, <2>2 DEF TimerInv, Paced
<1>6. Cancels'
  BY DEF TimerInv, Cancels
<1> QED BY <1>1, <1>2, <1>3, <1>4, <1>5, <1>6 DEF TimerInv

\* put_event: the new event is due at once, which is when its call 0 is owed.
LEMMA PutEventKeeps ==
    ASSUME TimerInv, NEW e \in Event, NEW i \in Interval, PutEvent(e, i)
    PROVE  TimerInv'
<1>0. i \in Nat \ {0}
  BY TimerAssumption
<1>1. TimerTyped'
  BY <1>0 DEF TimerInv, TimerTyped, PutEvent, Place
<1>2. NodesHeld'
  BY TimerAssumption DEF TimerInv, TimerTyped, NodesHeld, Holding, PutEvent
<1>3. OneHolder'
  BY DEF TimerInv, OneHolder, PutFirst, PutEvent
<1>4. PutFirst'
  BY DEF TimerInv, TimerTyped, PutFirst, PutEvent
<1>5. Paced'
  <2>0. /\ \A t \in Thread : node[t] # e
        /\ runs[e] = 0
    BY DEF TimerInv, PutFirst, PutEvent
  <2>1. \A d \in Event : every'[d] # Cancelled => low'[d] <= every'[d]
    BY <1>0 DEF TimerInv, TimerTyped, Paced, PutEvent
  <2>2. ASSUME NEW d \in queue'
        PROVE  due'[d] >= Owed(put'[d], runs'[d], low'[d])
    <3>1. CASE d = e
      BY <1>0, <2>0, <3>1, OwedSteps DEF TimerInv, TimerTyped, PutEvent
    <3>2. CASE d # e
      BY <3>2 DEF TimerInv, TimerTyped, Paced, PutEvent
    <3> QED BY <3>1, <3>2
  <2>3. \A t \in Thread : tpc'[t] \in Holding => tpc'[t] = tpc[t]
    BY DEF TimerInv, TimerTyped, PutEvent, Holding
  <2>4. \A d \in Event : runs'[d] > 0 => now' >= Owed(put'[d], runs'[d] - 1, low'[d])
    BY <2>0 DEF TimerInv, TimerTyped, Paced, PutEvent
  <2> QED BY <2>0, <2>1, <2>2, <2>3, <2>4
            DEF TimerInv, TimerTyped, NodesHeld, Paced, Holding, PutEvent
<1>6. Cancels'
  BY DEF TimerInv, TimerTyped, NodesHeld, PutFirst, Cancels, Holding, PutEvent
<1> QED BY <1>1, <1>2, <1>3, <1>4, <1>5, <1>6 DEF TimerInv

\* EventID::reset: the shortest interval may shrink, and what was owed with it.
LEMMA ResetKeeps ==
    ASSUME TimerInv, NEW e \in Event, NEW i \in Interval, Reset(e, i)
    PROVE  TimerInv'
<1>0. i \in Nat \ {0}
  BY TimerAssumption
<1>1. TimerTyped'
  BY <1>0 DEF TimerInv, TimerTyped, Reset
<1>2. NodesHeld'
  BY DEF TimerInv, NodesHeld, Reset
<1>3. OneHolder'
  BY DEF TimerInv, OneHolder, Reset
<1>4. PutFirst'
  BY DEF TimerInv, TimerTyped, PutFirst, Reset
<1>5. Paced'
  <2>1. \A d \in Event : every'[d] # Cancelled => low'[d] <= every'[d]
    BY <1>0 DEF TimerInv, TimerTyped, Paced, Reset
  <2>2. ASSUME NEW d \in Event, NEW n \in Nat, NEW m \in Nat, m >= Owed(put[d], n, low[d])
        PROVE  m >= Owed(put[d], n, low'[d])
    <3>1. low[d] \in Nat /\ low'[d] \in Nat /\ low'[d] <= low[d] /\ put[d] \in Int
      BY <1>0 DEF TimerInv, TimerTyped, Reset
    <3>2. Owed(put[d], n, low'[d]) <= Owed(put[d], n, low[d])
      BY <3>1, OwedShorter
    <3>3. Owed(put[d], n, low'[d]) \in Int /\ Owed(put[d], n, low[d]) \in Int
      BY <3>1, OwedSteps
    <3> QED BY <2>2, <3>2, <3>3
  <2>3. \A d \in queue : due[d] >= Owed(put[d], runs[d], low'[d])
    BY <2>2 DEF TimerInv, TimerTyped, Paced
  <2>4. ASSUME NEW t \in Thread, tpc[t] \in {"nap", "call"}
        PROVE  due[node[t]] >= Owed(put[node[t]], runs[node[t]], low'[node[t]])
    BY <2>2, <2>4 DEF TimerInv, TimerTyped, NodesHeld, Paced, Holding
  <2>5. ASSUME NEW t \in Thread, tpc[t] \in {"called", "update"}
        PROVE  /\ runs[node[t]] > 0
               /\ due[node[t]] >= Owed(put[node[t]], runs[node[t]] - 1, low'[node[t]])
    <3>1. /\ node[t] \in Event
          /\ runs[node[t]] \in Nat /\ runs[node[t]] > 0
          /\ due[node[t]] \in Nat
          /\ due[node[t]] >= Owed(put[node[t]], runs[node[t]] - 1, low[node[t]])
      BY <2>5 DEF TimerInv, TimerTyped, NodesHeld, Paced, Holding
    <3>2. runs[node[t]] - 1 \in Nat
      BY <3>1
    <3> QED BY <2>2, <3>1, <3>2
  <2>6. ASSUME NEW d \in Event, runs[d] > 0
        PROVE  now >= Owed(put[d], runs[d] - 1, low'[d])
    <3>1. /\ runs[d] \in Nat /\ now \in Nat
          /\ now >= Owed(put[d], runs[d] - 1, low[d])
      BY <2>6 DEF TimerInv, TimerTyped, Paced
    <3>2. runs[d] - 1 \in Nat
      BY <2>6, <3>1
    <3> QED BY <2>2, <3>1, <3>2
  <2> QED BY <2>1, <2>3, <2>4, <2>5, <2>6 DEF TimerInv, Paced, Reset
<1>6. Cancels'
  BY DEF TimerInv, TimerTyped, Cancels, Reset
<1> QED BY <1>1, <1>2, <1>3, <1>4, <1>5, <1>6 DEF TimerInv

\* The call: it comes when it is owed, and from then on one interval is missing.
LEMMA InvokeCallKeeps ==
    ASSUME TimerInv, NEW t \in Thread, InvokeCall(t)
    PROVE  TimerInv'
<1> DEFINE e == node[t]
<1>0. /\ e \in Event /\ tpc[t] = "call" /\ e # NoEvent
      /\ put[e] \in Int /\ runs[e] \in Nat /\ low[e] \in Nat /\ due[e] \in Nat /\ now \in Nat
  BY TimerAssumption DEF TimerInv, TimerTyped, NodesHeld, Holding, InvokeCall
<1>a. \A u \in Thread : u # t => node[u] # e
  BY <1>0 DEF TimerInv, OneHolder
<1>1. TimerTyped'
  BY <1>0 DEF TimerInv, TimerTyped, Holding, Place, InvokeCall, Cancelled
<1>2. NodesHeld'
  BY DEF TimerInv, TimerTyped, NodesHeld, Holding, InvokeCall
<1>3. OneHolder'
  BY DEF TimerInv, OneHolder, InvokeCall
<1>4. PutFirst'
  BY <1>0 DEF TimerInv, TimerTyped, PutFirst, InvokeCall
<1>5. Paced'
  <2>0. /\ runs' = [runs EXCEPT ![e] = @ + 1]
        /\ runs'[e] = runs[e] + 1 /\ runs'[e] - 1 = runs[e] /\ runs'[e] > 0
        /\ tpc' = [tpc EXCEPT ![t] = "called"]
        /\ UNCHANGED <<now, queue, due, node, put, low>>
    BY <1>0 DEF TimerInv, TimerTyped, InvokeCall
  <2>1. due[e] >= Owed(put[e], runs'[e] - 1, low[e])
    BY <1>0, <2>0 DEF TimerInv, Paced
  <2>2. now >= Owed(put[e], runs'[e] - 1, low[e])
    <3>1. due[e] <= now
      BY <1>0 DEF TimerInv, Paced
    <3>2. Owed(put[e], runs'[e] - 1, low[e]) \in Int
      BY <1>0, <2>0, OwedSteps
    <3> QED BY <1>0, <2>1, <3>1, <3>2
  <2>3. \A d \in Event : every'[d] # Cancelled => low'[d] <= every'[d]
    BY DEF TimerInv, TimerTyped, Paced, InvokeCall
  <2>4. \A d \in queue' : due'[d] >= Owed(put'[d], runs'[d], low'[d])
    <3>1. e \notin queue
      BY <1>0 DEF TimerInv, OneHolder
    <3> QED BY <2>0, <3>1 DEF TimerInv, TimerTyped, Paced
  <2> HIDE DEF e
  <2>5. \A d \in Event : runs'[d] > 0 => now' >= Owed(put'[d], runs'[d] - 1, low'[d])
    BY <2>0, <2>2 DEF TimerInv, TimerTyped, Paced
  <2> USE DEF e
  <2>6. \A u \in Thread : tpc'[u] = "call" => due'[node'[u]] <= now'
    BY <2>0 DEF TimerInv, TimerTyped, Paced
  <2>7. \A u \in Thread : tpc'[u] \in {"nap", "call"} =>
           due'[node'[u]] >= Owed(put'[node'[u]], runs'[node'[u]], low'[node'[u]])
    BY <1>a, <2>0 DEF TimerInv, TimerTyped, NodesHeld, Paced, Holding
  <2>8. ASSUME NEW u \in Thread, tpc'[u] \in {"called", "update"}
        PROVE  /\ runs'[node'[u]] > 0
               /\ due'[node'[u]] >= Owed(put'[node'[u]], runs'[node'[u]] - 1, low'[node'[u]])
    <3>1. CASE u = t
      BY <2>0, <2>1, <3>1
    <3>2. CASE u # t
      BY <1>a, <2>0, <2>8, <3>2 DEF TimerInv, TimerTyped, NodesHeld, Paced, Holding
    <3> QED BY <3>1, <3>2
  <2> QED BY <2>3, <2>4, <2>5, <2>6, <2>7, <2>8 DEF Paced
<1>6. Cancels'
  <2>1. late[e] = 0
    BY <1>0 DEF TimerInv, Cancels
  <2> QED BY <1>0, <1>a, <2>1
            DEF TimerInv, TimerTyped, NodesHeld, Cancels, Holding, InvokeCall
<1> QED BY <1>1, <1>2, <1>3, <1>4, <1>5, <1>6 DEF TimerInv

\* update: the interval that was missing is added, or the event is dropped.
LEMMA UpdateKeeps ==
    ASSUME TimerInv, NEW t \in Thread, Update(t)
    PROVE  TimerInv'
<1>1. CASE ~StillWanted(t)
  BY <1>1, TimerAssumption, MovesKeep
     DEF Update, TimerInv, TimerTyped, NodesHeld, Holding, Place, history
<1>2. CASE StillWanted(t)
  <2> DEFINE e == node[t]
  <2>0. /\ e \in Event /\ e # NoEvent /\ tpc[t] = "update"
        /\ put[e] \in Int /\ runs[e] \in Nat /\ low[e] \in Nat /\ due[e] \in Nat
        /\ every[e] \in Nat /\ every[e] # Cancelled
    <3>1. e \in Event /\ e # NoEvent /\ tpc[t] = "update"
      BY TimerAssumption DEF TimerInv, TimerTyped, NodesHeld, Holding, Update
    <3>2. every[e] \in Interval \cup {Cancelled} /\ every[e] # Cancelled
      BY <1>2, <3>1 DEF TimerInv, TimerTyped, StillWanted
    <3> HIDE DEF e
    <3>3. every[e] \in Nat
      BY <3>2, TimerAssumption DEF Cancelled
    <3>4. put[e] \in Int /\ runs[e] \in Nat /\ low[e] \in Nat /\ due[e] \in Nat
      BY <3>1 DEF TimerInv, TimerTyped
    <3> QED BY <3>1, <3>2, <3>3, <3>4
  <2>a. \A u \in Thread : u # t => node[u] # e
    BY <2>0 DEF TimerInv, OneHolder
  <2>b. /\ due' = [due EXCEPT ![e] = due[e] + every[e]]
        /\ queue' = queue \cup {e}
        /\ node' = [node EXCEPT ![t] = NoEvent]
        /\ tpc' = [tpc EXCEPT ![t] = "loop"]
        /\ UNCHANGED <<now, every, waiters, put, runs, low, asked, late>>
    BY <1>2 DEF Update, history
  <2> HIDE DEF e
  <2>1. TimerTyped'
    BY <2>0, <2>b DEF TimerInv, TimerTyped, Holding, Place
  <2>2. NodesHeld'
    BY <2>0, <2>b DEF TimerInv, TimerTyped, NodesHeld, Holding
  <2>3. OneHolder'
    BY <2>a, <2>b DEF TimerInv, TimerTyped, OneHolder
  <2>4. PutFirst'
    <3>1. put[e] # -1
      BY <2>0 DEF TimerInv, PutFirst, e
    <3> QED BY TimerAssumption, <2>0, <2>b, <3>1 DEF TimerInv, TimerTyped, PutFirst
  <2>5. Paced'
    <3>1. /\ runs[e] > 0
          /\ due[e] >= Owed(put[e], runs[e] - 1, low[e])
          /\ low[e] <= every[e]
      BY <2>0 DEF TimerInv, Paced, e
    <3>2. Owed(put[e], runs[e], low[e]) = Owed(put[e], runs[e] - 1, low[e]) + low[e]
      BY <2>0, OwedSteps
    <3>3. Owed(put[e], runs[e] - 1, low[e]) \in Int
      BY <2>0, OwedSteps
    <3>4. due[e] + every[e] >= Owed(put[e], runs[e], low[e])
      BY <2>0, <3>1, <3>2, <3>3
    <3>5. \A d \in queue' : due'[d] >= Owed(put'[d], runs'[d], low'[d])
      BY <2>0, <2>b, <3>4 DEF TimerInv, TimerTyped, Paced
    <3> QED BY <2>a, <2>b, <3>5 DEF TimerInv, TimerTyped, NodesHeld, Paced, Holding
  <2>6. Cancels'
    BY <2>a, <2>b DEF TimerInv, TimerTyped, NodesHeld, Cancels, Holding
  <2> QED BY <2>1, <2>2, <2>3, <2>4, <2>5, <2>6 DEF TimerInv
<1> QED BY <1>1, <1>2

-----------------------------------------------------------------------------
\* A loop that was never started.
LEMMA TimerStarts == TimerInit => TimerInv
BY TimerAssumption, OwedSteps
   DEF TimerInit, TimerInv, TimerTyped, NodesHeld, OneHolder, PutFirst, Paced, Cancels,
       Holding, Place, Cancelled

\* Steps of others.
LEMMA TimerStutters ==
    ASSUME TimerInv, UNCHANGED timerVars
    PROVE  TimerInv'
<1>1. /\ TimerTyped' /\ NodesHeld'
  BY DEF TimerInv, timerVars, history, TimerTyped, NodesHeld
<1>2. OneHolder' /\ PutFirst'
  BY DEF TimerInv, timerVars, history, OneHolder, PutFirst
<1>3. Paced' /\ Cancels'
  BY DEF TimerInv, timerVars, history, Paced, Cancels
<1> QED BY <1>1, <1>2, <1>3 DEF TimerInv

\* The invariant implies what TimerExact says.
LEMMA TimerInvSuffices == TimerInv => TimerExact
<1> SUFFICES ASSUME TimerInv PROVE TimerExact
  OBVIOUS
<1>1. ASSUME NEW e \in Event, runs[e] > 0
      PROVE  now >= put[e] + (runs[e] - 1) * low[e]
  BY <1>1 DEF TimerInv, Paced, Owed
<1> QED BY <1>1 DEF TimerInv, OneHolder, Cancels, TimerExact

\* TimerLoop keeps every event in one place, calls it no earlier than put_event's
\* comment promises, and makes at most the one call after cancel that had been
\* decided before it, for any threads, events, intervals and bound.
THEOREM TimerIsExact == TimerSpec => []TimerExact
<1>1. TimerInit => TimerInv
  BY TimerStarts
<1>2. TimerInv /\ [TimerNext]_timerVars => TimerInv'
  <2> SUFFICES ASSUME TimerInv, [TimerNext]_timerVars PROVE TimerInv'
    OBVIOUS
  <2>1. ASSUME NEW t \in Thread, ThreadStep(t) PROVE TimerInv'
    BY <2>1, PassesKeep, GetEventKeeps, InvokeTestKeeps, InvokeCallKeeps, InvokeReturnKeeps,
       UpdateKeeps DEF ThreadStep
  <2>2. CASE UserStep
    BY <2>2, CancelKeeps, PutEventKeeps, ResetKeeps DEF UserStep
  <2>3. CASE Loop \/ TimerShutdown \/ TimerShutdownCheck
    BY <2>3, OwnerKeeps
  <2>4. CASE Tick
    BY <2>4, TickKeeps
  <2>5. CASE UNCHANGED timerVars
    BY <2>5, TimerStutters
  <2> QED BY <2>1, <2>2, <2>3, <2>4, <2>5 DEF TimerNext
<1>3. TimerInv => TimerExact
  BY TimerInvSuffices
<1> QED BY <1>1, <1>2, <1>3, PTL DEF TimerSpec

=============================================================================
