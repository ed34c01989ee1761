-------------------------- MODULE LinkedPoolProofs --------------------------
(***************************************************************************)
(* Proofs about LinkedThreadPool, for every number of threads, callers and *)
(* tasks and every bound.                                                  *)
(***************************************************************************)
EXTENDS LinkedThreadPool, FiniteSetTheorems, SequenceTheorems, TLAPS

(* The inductive invariant *)

Submits == {"top", "back"}
BuilderOps == {"resize", "grow", "shrink", "create", "destroy"}
CallOps == Submits \cup BuilderOps \cup {"none", "stop", "start", "clear", "shutdown"}
Ats == {"idle", "test", "tested", "asleep", "store", "second", "grow", "shrink"}

\* The places of a thread that _core_threads counts.
UpPlaces == {"lock", "asleep", "woken", "run", "ending"}

CallsOK(f) ==
    /\ f \in [Caller -> [op : CallOps, at : Ats, arg : Nat \cup Job]]
    /\ \A c \in Caller : f[c].op = "none" => f[c].at = "idle"

LinkedTyped ==
    /\ lstate \in {"RUNNING", "STOP", "SHUTTING", "TERMINATED"}
    /\ alive \in Nat
    /\ waiting \in Seq(Job \cup {Exit})
    /\ member \in [Pooled -> UpPlaces \cup {"none", "created", "last", "told", "gone"}]
    /\ doing \in [Pooled -> Job \cup {Exit}]
    /\ jobs \in [Job -> {"new", "refused", "queued", "running", "done", "killed"}]
    /\ phase \in {"building", "open", "closing", "closed"}
    /\ disturbed \in BOOLEAN

\* Each task is in the list at most once, and the list holds the queued ones.
Listed ==
    /\ \A i, k \in 1..Len(waiting) : waiting[i] = waiting[k] /\ waiting[i] \in Job => i = k
    /\ \A j \in Job : jobs[j] = "queued" <=> \E i \in 1..Len(waiting) : waiting[i] = j

\* Each running task is with one thread, and that thread is running it.
Held ==
    /\ \A p, q \in Pooled : doing[p] = doing[q] /\ doing[p] \in Job => p = q
    /\ \A j \in Job : jobs[j] = "running" <=> \E p \in Pooled : doing[p] = j
    /\ \A p \in Pooled : member[p] # "run" => doing[p] = Exit

\* A task on its way through a submit is new, and in one submit only.
Pending ==
    /\ \A c \in Caller : call[c].op \in Submits => call[c].arg \in Job /\ jobs[call[c].arg] = "new"
    /\ \A c, d \in Caller :
          call[c].op \in Submits /\ call[d].op \in Submits /\ call[c].arg = call[d].arg => c = d

JobsPlaced == Listed /\ Held /\ Pending

UpSet == {p \in Pooled : member[p] \in UpPlaces}
NewSet == {p \in Pooled : member[p] = "created"}

Counts == alive = Cardinality(UpSet)

\* Threads that have not counted themselves exist only while their creator
\* waits, and it waits for all of them: what it compares _core_threads with is no
\* less than the threads that are up and those to come.
Resizing ==
    /\ \A c \in Caller : call[c].op \in BuilderOps => c = Builder
    /\ call[Builder].op \notin Submits => call[Builder].arg \in Nat
    /\ call[Builder].op # "create" => NewSet = {}
    /\ call[Builder].op = "create" =>
          /\ call[Builder].arg > 0
          /\ IsFiniteSet(NewSet) /\ Cardinality(NewSet) + alive <= call[Builder].arg
    /\ call[Builder].op = "grow" => call[Builder].arg > 0
    /\ call[Builder].op = "resize" /\ call[Builder].at = "grow" => call[Builder].arg > alive

Creating == Counts /\ Resizing

\* Nobody calls a pool that is being built or destroyed.
Phases ==
    /\ phase = "building" =>
          /\ ~disturbed /\ lstate = "TERMINATED" /\ waiting = <<>>
          /\ call[Builder].op = "create" /\ \A c \in Caller \ {Builder} : call[c].op = "none"
          /\ \A p \in Pooled : member[p] \in {"none", "created", "lock", "asleep", "woken"}
    /\ phase \in {"closing", "closed"} => \A c \in Caller \ {Builder} : call[c].op = "none"
    /\ phase = "closing" => call[Builder].op = "destroy"
    /\ phase = "open" => call[Builder].op # "destroy"
    /\ phase = "closed" => call[Builder].op = "none"

\* While nothing has disturbed the pool it has a thread until it is shut down,
\* the last thread to go is one, and a list that is shut down holds exit tasks.
Undisturbed ==
    ~disturbed /\ phase # "building" =>
       /\ alive = 0 => lstate \in {"SHUTTING", "TERMINATED"}
       /\ lstate = "TERMINATED" => alive = 0 /\ \A p \in Pooled : member[p] # "last"
       /\ lstate \in {"SHUTTING", "TERMINATED"} => \A i \in 1..Len(waiting) : waiting[i] = Exit
       /\ \A p \in Pooled :
             member[p] \in {"last", "told"} =>
                alive = 0 /\ \A q \in Pooled \ {p} : member[q] \notin {"last", "told"}
       /\ phase = "closed" => lstate = "TERMINATED"

LinkedInv == LinkedTyped /\ CallsOK(call) /\ JobsPlaced /\ Creating /\ Phases /\ Undisturbed

\* The invariant reads neither _max_tasks nor the number of operations begun,
\* so that resize_max_queue, which changes nothing else, keeps it.
provedVars == <<lstate, alive, waiting, member, doing, jobs, call, phase, disturbed>>

LEMMA WorkOrStill ==
  ASSUME [LinkedNext]_linkedVars
  PROVE  LinkedWork \/ UNCHANGED provedVars
BY DEF LinkedNext, LinkedMaxQueue, linkedVars, provedVars

-----------------------------------------------------------------------------
(* What notifications and returns do to the callers and the threads *)

\* g differs from f in how far callers are with the operations they are in.
SameAt(f, g, c) ==
    /\ g[c].op = f[c].op /\ g[c].arg = f[c].arg
    /\ g[c].at = f[c].at \/ g[c].at \in {"test", "tested", "asleep", "store"}

\* notify_all on the callers moves them to their test and leaves their operations.
LEMMA WakeAll ==
  ASSUME NEW f, CallsOK(f)
  PROVE  CallsOK(AllWoken(f)) /\ \A c \in Caller : SameAt(f, AllWoken(f), c)
BY DEF AllWoken, CallsOK, SameAt, CallOps, Submits, BuilderOps, Ats

\* notify_one on the callers does so for one of them, if any waits.
LEMMA WakeOne ==
  ASSUME CallsOK(call), NEW g \in OneWoken(call)
  PROVE  CallsOK(g) /\ \A c \in Caller : SameAt(call, g, c)
BY DEF OneWoken, Asleep, CallsOK, SameAt, CallOps, Submits, BuilderOps, Ats

\* A caller that goes on inside its operation disturbs nobody else's.
LEMMA MoveAt ==
  ASSUME CallsOK(call), NEW c \in Caller, call[c].op # "none",
         NEW a \in {"test", "tested", "asleep", "store"}
  PROVE  /\ CallsOK([call EXCEPT ![c].at = a])
         /\ \A d \in Caller : SameAt(call, [call EXCEPT ![c].at = a], d)
BY DEF CallsOK, SameAt, CallOps, Submits, BuilderOps, Ats

\* Wherever it goes on to, the calls keep their types.
LEMMA MoveAny ==
  ASSUME CallsOK(call), NEW c \in Caller, call[c].op # "none", NEW a \in Ats
  PROVE  CallsOK([call EXCEPT ![c].at = a])
BY DEF CallsOK

\* A caller that enters an operation disturbs nobody else's.
LEMMA Enter ==
  ASSUME CallsOK(call), NEW c \in Caller,
         NEW o \in CallOps \ {"none"}, NEW a \in Ats, NEW n \in Nat \cup Job
  PROVE  LET g == [call EXCEPT ![c] = [op |-> o, at |-> a, arg |-> n]] IN
         /\ CallsOK(g) /\ g[c].op = o /\ g[c].at = a /\ g[c].arg = n
         /\ \A d \in Caller \ {c} : g[d] = call[d]
BY DEF CallsOK, CallOps, Submits, BuilderOps, Ats

\* Nor does one that returns, which is in no operation then.
LEMMA Return ==
  ASSUME CallsOK(call), NEW c \in Caller
  PROVE  /\ CallsOK(Returned(c)) /\ Returned(c)[c] = NoCall
         /\ \A d \in Caller \ {c} : Returned(c)[d] = call[d]
BY DEF CallsOK, Returned, NoCall, CallOps, Submits, BuilderOps, Ats

\* Nor does one that waits or returns, whatever it finds.
LEMMA WaitOrReturn ==
  ASSUME CallsOK(call), NEW c \in Caller, call[c].op # "none",
         WaitOn(c) \/ call' = Returned(c)
  PROVE  /\ CallsOK(call')
         /\ \/ \A d \in Caller : SameAt(call, call', d)
            \/ call'[c] = NoCall /\ \A d \in Caller \ {c} : call'[d] = call[d]
<1>1. CASE WaitOn(c)
  <2>1. call' = [call EXCEPT ![c].at = "tested"]
    BY <1>1 DEF WaitOn
  <2> QED
    BY <2>1, MoveAt
<1>2. CASE call' = Returned(c)
  BY <1>2, Return
<1> QED
  BY <1>1, <1>2

\* notify_all and notify_one on the threads wake sleepers only.
LEMMA Roused ==
  ASSUME LinkedTyped, NEW m, m = AllRoused \/ m \in OneRoused
  PROVE  /\ m \in [Pooled -> UpPlaces \cup {"none", "created", "last", "told", "gone"}]
         /\ \A p \in Pooled : m[p] = member[p] \/ (member[p] = "asleep" /\ m[p] = "woken")
BY DEF LinkedTyped, AllRoused, OneRoused, Resting, UpPlaces

\* A set of at most one element has one exactly if it is not empty.
LEMMA OneOrNone ==
  ASSUME NEW S, NEW P \in BOOLEAN, \A x, y \in S : x = y, P <=> S # {}
  PROVE  Cardinality(S) = IF P THEN 1 ELSE 0
<1>1. CASE S = {}
  BY <1>1, FS_EmptySet
<1>2. ASSUME NEW x \in S PROVE Cardinality(S) = 1
  <2>1. S = {x}
    OBVIOUS
  <2> QED
    BY <2>1, FS_Singleton
<1> QED
  BY <1>1, <1>2

\* A thread in its loop is counted.
LEMMA UpIsCounted ==
  ASSUME LinkedTyped, Creating
  PROVE  IsFiniteSet(UpSet) /\ \A p \in Pooled : member[p] \in UpPlaces => alive > 0
<1>1. IsFiniteSet(UpSet) /\ Cardinality(UpSet) \in Nat
  BY LinkedAssumption, FS_Subset, FS_CardinalityType DEF UpSet
<1>2. ASSUME NEW p \in Pooled, member[p] \in UpPlaces PROVE Cardinality(UpSet) # 0
  BY <1>1, <1>2, FS_EmptySet DEF UpSet
<1> QED
  BY <1>1, <1>2 DEF Creating, Counts

-----------------------------------------------------------------------------
(* The callers' operations and the types *)

\* Every step keeps the types of the calls.
LEMMA CallsStep ==
  LinkedTyped /\ CallsOK(call) /\ Creating /\ [LinkedNext]_linkedVars
  => CallsOK(call')
<1> SUFFICES ASSUME LinkedTyped, CallsOK(call), Creating, [LinkedNext]_linkedVars
             PROVE  CallsOK(call')
  OBVIOUS
<1>1. ASSUME NEW c \in Caller, LinkedCall(c) PROVE CallsOK(call')
  <2>1. CASE BeginSubmit(c)
    <3> PICK j \in Job, op \in {"top", "back"} : Begin(c, op, j)
      BY <2>1 DEF BeginSubmit
    <3> QED
      BY Enter DEF Begin, CallOps, Submits, BuilderOps, Ats
  <2>2. CASE BeginControl(c)
    <3> PICK op \in {"stop", "start", "clear", "shutdown"} : Begin(c, op, 0)
      BY <2>2 DEF BeginControl
    <3> QED
      BY Enter DEF Begin, CallOps, Submits, BuilderOps, Ats
  <2>3. CASE FallAsleep(c)
    <3>1. call[c].op # "none"
      BY <2>3 DEF FallAsleep, CallsOK
    <3> QED
      BY <2>3, <3>1, MoveAt DEF FallAsleep
  <2>4. CASE Submit(c)
    <3>1. call[c].op # "none"
      BY <2>4 DEF Submit
    <3> QED
      BY <2>4, <3>1, MoveAt, Return DEF Submit, WaitOn
  <2>5. CASE LinkedStopTest(c)
    BY <2>5, MoveAt, Return DEF LinkedStopTest, Doing
  <2>6. CASE LinkedStopStore(c)
    BY <2>6, Return, WakeAll DEF LinkedStopStore
  <2>7. CASE LinkedStartTest(c)
    BY <2>7, MoveAt, Return DEF LinkedStartTest, Doing
  <2>8. CASE LinkedStartStore(c)
    BY <2>8, Return, WakeAll DEF LinkedStartStore
  <2>9. CASE LinkedClear(c)
    BY <2>9, Return DEF LinkedClear
  <2>10. CASE LinkedShutdown(c)
    BY <2>10, Return DEF LinkedShutdown
  <2> QED
    BY <1>1, <2>1, <2>2, <2>3, <2>4, <2>5, <2>6, <2>7, <2>8, <2>9, <2>10 DEF LinkedCall
<1>2. CASE LinkedResize
  <2>1. CASE BeginResize
    <3> PICK n \in Resizes : Begin(Builder, "resize", n)
      BY <2>1 DEF BeginResize
    <3> QED
      BY LinkedAssumption, Enter DEF Begin, CallOps, Submits, BuilderOps, Ats
  <2>2. CASE ResizeCompare(Builder)
    <3>1. call[Builder].op = "resize"
      BY <2>2 DEF ResizeCompare, Doing
    <3>2. call' = Returned(Builder) \/ \E a \in Ats : call' = [call EXCEPT ![Builder].at = a]
      BY <2>2 DEF ResizeCompare, Ats
    <3> QED
      BY LinkedAssumption, <3>1, <3>2, Return, MoveAny
  <2>3. CASE ResizeMeasure(Builder)
    <3> DEFINE n == call[Builder].arg
    <3>0. n \in Nat /\ ExitCap \in Nat
      BY <2>3, LinkedAssumption DEF ResizeMeasure, Creating, Resizing, Submits
    <3>1. Difference(n, alive) \in Nat /\ Difference(alive, n) \in Nat
      BY <3>0 DEF Difference, LinkedTyped
    <3>2. CASE call[Builder].at = "grow"
      <4>1. call' = [call EXCEPT ![Builder] = [op |-> "grow", at |-> "test", arg |-> Difference(n, alive)]]
        BY <2>3, <3>2 DEF ResizeMeasure
      <4> QED
        BY LinkedAssumption, <3>1, <4>1, Enter DEF CallOps, Submits, BuilderOps, Ats
    <3>3. CASE call[Builder].at # "grow"
      <4>1. call' = [call EXCEPT ![Builder] = [op |-> "shrink", at |-> "test", arg |-> Difference(alive, n)]]
        BY <2>3, <3>3 DEF ResizeMeasure
      <4> QED
        BY LinkedAssumption, <3>1, <4>1, Enter DEF CallOps, Submits, BuilderOps, Ats
    <3> QED
      BY <3>2, <3>3
  <2>4. CASE CreateThreads(Builder)
    <3>1. alive + call[Builder].arg \in Nat
      BY <2>4 DEF CreateThreads, Doing, Creating, Resizing, Submits, LinkedTyped
    <3> QED
      BY <2>4, <3>1, LinkedAssumption, Enter DEF CreateThreads, CallsOK, CallOps, Submits, BuilderOps, Ats
  <2>5. CASE CreateWait(Builder)
    BY <2>5, LinkedAssumption, MoveAt, Return DEF CreateWait, Doing, WaitOn
  <2>6. CASE DeleteThreads(Builder)
    BY <2>6, LinkedAssumption, Return DEF DeleteThreads
  <2> QED
    BY <1>2, <2>1, <2>2, <2>3, <2>4, <2>5, <2>6 DEF LinkedResize
<1>3. ASSUME NEW p \in Pooled, LinkedThread(p) PROVE CallsOK(call')
  <2>1. CASE ThreadUp(p)
    BY <2>1 DEF ThreadUp
  <2>2. CASE TakeTask(p)
    BY <2>2, WakeOne DEF TakeTask
  <2>3. CASE RunTask(p)
    BY <2>3 DEF RunTask
  <2>4. CASE CountDown(p)
    BY <2>4 DEF CountDown
  <2>5. CASE StoreTerminated(p)
    BY <2>5 DEF StoreTerminated
  <2>6. CASE NotifyEnd(p)
    BY <2>6, WakeAll DEF NotifyEnd
  <2> QED
    BY <1>3, <2>1, <2>2, <2>3, <2>4, <2>5, <2>6 DEF LinkedThread
<1>4. CASE Destroy
  BY <1>4, LinkedAssumption, Enter DEF Destroy, CallOps, Submits, BuilderOps, Ats
<1>5. CASE DestroyWait
  BY <1>5, LinkedAssumption, MoveAt, Return DEF DestroyWait, Doing, WaitOn
<1>6. CASE UNCHANGED provedVars
  BY <1>6 DEF provedVars
<1> QED
  BY <1>1, <1>2, <1>3, <1>4, <1>5, <1>6, WorkOrStill DEF LinkedWork

\* submit puts its task at the front or at the end and keeps the others in order.
LEMMA PlacedAt ==
  ASSUME LinkedTyped, NEW o, NEW j \in Job
  PROVE  /\ Placed(o, j) \in Seq(Job \cup {Exit})
         /\ Len(Placed(o, j)) = Len(waiting) + 1
         /\ \A i \in 1 .. Len(waiting) + 1 :
               Placed(o, j)[i] = IF o = "top" THEN IF i = 1 THEN j ELSE waiting[i - 1]
                                 ELSE IF i = Len(waiting) + 1 THEN j ELSE waiting[i]
<1> DEFINE S == Job \cup {Exit}
<1>1. waiting \in Seq(S) /\ j \in S /\ Len(waiting) \in Nat
  BY DEF LinkedTyped
<1>2. CASE o = "top"
  <2>1. Placed(o, j) = <<j>> \o waiting /\ <<j>> \in Seq(S)
    BY <1>1, <1>2 DEF Placed
  <2> QED
    BY <1>1, <1>2, <2>1
<1>3. CASE o # "top"
  BY <1>1, <1>3 DEF Placed
<1> QED
  BY <1>2, <1>3

\* The body of shut_down keeps the types of what it changes.
LEMMA ShutdownTyped ==
  ASSUME LinkedTyped, ShutdownBody
  PROVE  /\ lstate' \in {"RUNNING", "STOP", "SHUTTING", "TERMINATED"}
         /\ waiting' \in Seq(Job \cup {Exit})
         /\ member' \in [Pooled -> UpPlaces \cup {"none", "created", "last", "told", "gone"}]
         /\ jobs' \in [Job -> {"new", "refused", "queued", "running", "done", "killed"}]
<1>1. Exits(alive) \in Seq(Job \cup {Exit})
  BY DEF LinkedTyped, Exits
<1> QED
  BY <1>1, Roused DEF LinkedTyped, ShutdownBody, KilledJobs

\* Every step keeps the types.
LEMMA LinkedTypedStep ==
  LinkedTyped /\ CallsOK(call) /\ JobsPlaced /\ Creating /\ [LinkedNext]_linkedVars
  => LinkedTyped'
<1> SUFFICES ASSUME LinkedTyped, CallsOK(call), JobsPlaced, Creating, [LinkedNext]_linkedVars
             PROVE  LinkedTyped'
  OBVIOUS
<1> USE DEF LinkedTyped, UpPlaces
<1>1. ASSUME NEW c \in Caller, LinkedCall(c) PROVE LinkedTyped'
  <2>1. CASE BeginSubmit(c)
    BY <2>1 DEF BeginSubmit, Begin
  <2>2. CASE BeginControl(c)
    BY <2>2 DEF BeginControl, Begin
  <2>3. CASE FallAsleep(c)
    BY <2>3 DEF FallAsleep
  <2>4. CASE Submit(c)
    <3>1. CASE StoppingState
      BY <2>4, <3>1 DEF Submit
    <3>2. CASE ~StoppingState /\ HasRoom
      <4>1. /\ member' \in OneRoused /\ waiting' = Placed(call[c].op, call[c].arg)
            /\ UNCHANGED <<lstate, alive, doing, phase, disturbed>>
            /\ jobs' = [jobs EXCEPT ![call[c].arg] = "queued"] /\ call[c].arg \in Job
        BY <2>4, <3>2 DEF Submit, JobsPlaced, Pending, Submits
      <4>2. waiting' \in Seq(Job \cup {Exit})
        BY <4>1, PlacedAt
      <4> QED
        BY <4>1, <4>2, Roused
    <3>3. CASE ~StoppingState /\ ~HasRoom
      BY <2>4, <3>3 DEF Submit, WaitOn
    <3> QED
      BY <3>1, <3>2, <3>3
  <2>5. CASE LinkedStopTest(c)
    BY <2>5 DEF LinkedStopTest
  <2>6. CASE LinkedStopStore(c)
    BY <2>6 DEF LinkedStopStore, OverShutdown
  <2>7. CASE LinkedStartTest(c)
    BY <2>7 DEF LinkedStartTest
  <2>8. CASE LinkedStartStore(c)
    BY <2>8, Roused DEF LinkedStartStore, OverShutdown
  <2>9. CASE LinkedClear(c)
    BY <2>9 DEF LinkedClear, KilledJobs
  <2>10. CASE LinkedShutdown(c)
    BY <2>10, ShutdownTyped DEF LinkedShutdown
  <2> QED
    BY <1>1, <2>1, <2>2, <2>3, <2>4, <2>5, <2>6, <2>7, <2>8, <2>9, <2>10 DEF LinkedCall
<1>2. CASE LinkedResize
  <2>1. CASE BeginResize
    BY <2>1 DEF BeginResize, Begin
  <2>2. CASE ResizeCompare(Builder)
    BY <2>2 DEF ResizeCompare
  <2>3. CASE ResizeMeasure(Builder)
    BY <2>3 DEF ResizeMeasure
  <2>4. CASE CreateThreads(Builder)
    BY <2>4 DEF CreateThreads
  <2>5. CASE CreateWait(Builder)
    BY <2>5 DEF CreateWait, WaitOn
  <2>6. CASE DeleteThreads(Builder)
    <3>1. call[Builder].arg \in Nat
      BY <2>6 DEF DeleteThreads, Doing, Creating, Resizing, Submits
    <3>2. Exits(call[Builder].arg) \in Seq(Job \cup {Exit})
      BY <3>1 DEF Exits
    <3>3. waiting' \in Seq(Job \cup {Exit})
      BY <2>6, <3>2 DEF DeleteThreads
    <3> QED
      BY <2>6, <3>3 DEF DeleteThreads
  <2> QED
    BY <1>2, <2>1, <2>2, <2>3, <2>4, <2>5, <2>6 DEF LinkedResize
<1>3. ASSUME NEW p \in Pooled, LinkedThread(p) PROVE LinkedTyped'
  <2>1. CASE ThreadUp(p)
    BY <2>1 DEF ThreadUp
  <2>2. CASE TakeTask(p)
    <3>1. CASE ~CanTake
      BY <2>2, <3>1 DEF TakeTask
    <3>2. CASE CanTake
      <4>0. waiting # <<>>
        BY <3>2 DEF CanTake
      <4>1. Head(waiting) \in Job \cup {Exit} /\ Tail(waiting) \in Seq(Job \cup {Exit})
        BY <4>0
      <4> QED
        BY <2>2, <3>2, <4>1 DEF TakeTask
    <3> QED
      BY <2>2, <3>1, <3>2 DEF TakeTask
  <2>3. CASE RunTask(p)
    BY <2>3 DEF RunTask
  <2>4. CASE CountDown(p)
    <3>1. alive # 0
      BY <2>4, UpIsCounted DEF CountDown
    <3> QED
      BY <2>4, <3>1 DEF CountDown
  <2>5. CASE StoreTerminated(p)
    BY <2>5 DEF StoreTerminated
  <2>6. CASE NotifyEnd(p)
    BY <2>6 DEF NotifyEnd
  <2> QED
    BY <1>3, <2>1, <2>2, <2>3, <2>4, <2>5, <2>6 DEF LinkedThread
<1>4. CASE Destroy
  BY <1>4, ShutdownTyped DEF Destroy
<1>5. CASE DestroyWait
  BY <1>5 DEF DestroyWait, WaitOn
<1>6. CASE UNCHANGED provedVars
  BY <1>6 DEF provedVars
<1> QED
  BY <1>1, <1>2, <1>3, <1>4, <1>5, <1>6, WorkOrStill DEF LinkedWork

NoNewSubmit ==
    \A d \in Caller : call'[d].op \in Submits =>
                         call'[d].op = call[d].op /\ call'[d].arg = call[d].arg

\* Calls go on, return or begin something other than a submit, and no task
\* that is to be submitted is touched.
LEMMA PendingKept ==
  ASSUME Pending,
         NoNewSubmit,
         \A j \in Job : jobs[j] = "new" => jobs'[j] = "new"
  PROVE  Pending'
BY DEF Pending, NoNewSubmit

\* Every step keeps a task that is on its way through a submit new, and in one submit.
LEMMA PendingStep ==
  LinkedTyped /\ CallsOK(call) /\ JobsPlaced /\ Creating /\ [LinkedNext]_linkedVars
  => Pending'
<1> SUFFICES ASSUME LinkedTyped, CallsOK(call), JobsPlaced, Creating, [LinkedNext]_linkedVars
             PROVE  Pending'
  OBVIOUS
<1> USE DEF JobsPlaced
<1>1. ASSUME NEW c \in Caller, LinkedCall(c) PROVE Pending'
  <2>1. CASE BeginSubmit(c)
    <3> PICK j \in Job, op \in {"top", "back"} :
            jobs[j] = "new" /\ (\A d \in Caller : call[d].arg # j) /\ Begin(c, op, j)
      BY <2>1 DEF BeginSubmit
    <3>1. /\ call'[c].op = op /\ call'[c].arg = j /\ \A d \in Caller \ {c} : call'[d] = call[d]
          /\ jobs' = jobs
      BY Enter DEF Begin, CallOps, Submits, BuilderOps, Ats
    <3> QED
      BY <3>1 DEF Pending, Submits
  <2>2. CASE BeginControl(c)
    <3>1. NoNewSubmit
      BY <2>2, Enter DEF BeginControl, Begin, CallOps, Ats, SameAt, Submits, NoCall, NoNewSubmit
    <3>2. \A j \in Job : jobs[j] = "new" => jobs'[j] = "new"
      BY <2>2 DEF BeginControl, Begin
    <3> QED
      BY <3>1, <3>2, PendingKept
  <2>3. CASE FallAsleep(c)
    <3>1. call[c].op # "none"
      BY <2>3 DEF FallAsleep, CallsOK
    <3> QED
      BY <2>3, <3>1, MoveAt, PendingKept DEF FallAsleep, SameAt, NoNewSubmit
  <2>4. CASE Submit(c)
    <3>1. call[c].op \in Submits /\ call[c].op # "none" /\ call[c].arg \in Job
      BY <2>4 DEF Submit, Submits, Pending
    <3>2. CASE call' = Returned(c)
      <4>1. \A j \in Job \ {call[c].arg} : jobs'[j] = jobs[j]
        BY <2>4, <3>1 DEF Submit, WaitOn, LinkedTyped
      <4>2. call'[c].op = "none" /\ \A d \in Caller \ {c} : call'[d] = call[d]
        BY <3>2, Return DEF NoCall
      <4> QED
        BY <3>1, <4>1, <4>2 DEF Pending, Submits
    <3>3. CASE WaitOn(c)
      BY <3>1, <3>3, MoveAt, PendingKept DEF WaitOn, SameAt, NoNewSubmit
    <3> QED
      BY <2>4, <3>2, <3>3 DEF Submit
  <2>5. CASE LinkedStopTest(c)
    <3>1. NoNewSubmit
      BY <2>5, MoveAt, Return DEF LinkedStopTest, Doing, SameAt, Submits, NoCall, NoNewSubmit
    <3>2. \A j \in Job : jobs[j] = "new" => jobs'[j] = "new"
      BY <2>5 DEF LinkedStopTest
    <3> QED
      BY <3>1, <3>2, PendingKept
  <2>6. CASE LinkedStopStore(c)
    <3>1. NoNewSubmit
      BY <2>6, Return, WakeAll DEF LinkedStopStore, SameAt, Submits, NoCall, NoNewSubmit
    <3>2. \A j \in Job : jobs[j] = "new" => jobs'[j] = "new"
      BY <2>6 DEF LinkedStopStore
    <3> QED
      BY <3>1, <3>2, PendingKept
  <2>7. CASE LinkedStartTest(c)
    <3>1. NoNewSubmit
      BY <2>7, MoveAt, Return DEF LinkedStartTest, Doing, SameAt, Submits, NoCall, NoNewSubmit
    <3>2. \A j \in Job : jobs[j] = "new" => jobs'[j] = "new"
      BY <2>7 DEF LinkedStartTest
    <3> QED
      BY <3>1, <3>2, PendingKept
  <2>8. CASE LinkedStartStore(c)
    <3>1. NoNewSubmit
      BY <2>8, Return, WakeAll DEF LinkedStartStore, SameAt, Submits, NoCall, NoNewSubmit
    <3>2. \A j \in Job : jobs[j] = "new" => jobs'[j] = "new"
      BY <2>8 DEF LinkedStartStore
    <3> QED
      BY <3>1, <3>2, PendingKept
  <2>9. CASE LinkedClear(c)
    <3>1. NoNewSubmit
      BY <2>9, Return DEF LinkedClear, SameAt, Submits, NoCall, NoNewSubmit
    <3>2. \A j \in Job : jobs[j] = "new" => jobs'[j] = "new"
      BY <2>9 DEF LinkedClear, KilledJobs, LinkedTyped
    <3> QED
      BY <3>1, <3>2, PendingKept
  <2>10. CASE LinkedShutdown(c)
    <3>1. NoNewSubmit
      BY <2>10, Return DEF LinkedShutdown, SameAt, Submits, NoCall, NoNewSubmit
    <3>2. \A j \in Job : jobs[j] = "new" => jobs'[j] = "new"
      BY <2>10 DEF LinkedShutdown, ShutdownBody, KilledJobs, LinkedTyped
    <3> QED
      BY <3>1, <3>2, PendingKept
  <2> QED
    BY <1>1, <2>1, <2>2, <2>3, <2>4, <2>5, <2>6, <2>7, <2>8, <2>9, <2>10 DEF LinkedCall
<1>2. CASE LinkedResize
  <2>1. CASE BeginResize
    <3>1. NoNewSubmit
      BY <2>1, LinkedAssumption, Enter DEF BeginResize, Begin, CallOps, Ats, SameAt, Submits, NoCall, NoNewSubmit
    <3>2. \A j \in Job : jobs[j] = "new" => jobs'[j] = "new"
      BY <2>1 DEF BeginResize, Begin
    <3> QED
      BY <3>1, <3>2, PendingKept
  <2>2. CASE ResizeCompare(Builder)
    <3>1. NoNewSubmit
      BY <2>2, Return, LinkedAssumption DEF ResizeCompare, Doing, CallsOK, SameAt, Submits, NoCall, NoNewSubmit
    <3>2. \A j \in Job : jobs[j] = "new" => jobs'[j] = "new"
      BY <2>2 DEF ResizeCompare
    <3> QED
      BY <3>1, <3>2, PendingKept
  <2>3. CASE ResizeMeasure(Builder)
    <3>1. NoNewSubmit
      BY <2>3, LinkedAssumption DEF ResizeMeasure, CallsOK, SameAt, Submits, NoCall, NoNewSubmit
    <3>2. \A j \in Job : jobs[j] = "new" => jobs'[j] = "new"
      BY <2>3 DEF ResizeMeasure
    <3> QED
      BY <3>1, <3>2, PendingKept
  <2>4. CASE CreateThreads(Builder)
    <3>1. NoNewSubmit
      BY <2>4, LinkedAssumption DEF CreateThreads, CallsOK, SameAt, Submits, NoCall, NoNewSubmit
    <3>2. \A j \in Job : jobs[j] = "new" => jobs'[j] = "new"
      BY <2>4 DEF CreateThreads
    <3> QED
      BY <3>1, <3>2, PendingKept
  <2>5. CASE CreateWait(Builder)
    <3>0. call[Builder].op # "none" /\ (WaitOn(Builder) \/ call' = Returned(Builder))
      BY <2>5 DEF CreateWait, Doing
    <3>1. NoNewSubmit
      BY <3>0, LinkedAssumption, WaitOrReturn DEF SameAt, Submits, NoCall, NoNewSubmit
    <3>2. \A j \in Job : jobs[j] = "new" => jobs'[j] = "new"
      BY <2>5 DEF CreateWait, WaitOn
    <3> QED
      BY <3>1, <3>2, PendingKept
  <2>6. CASE DeleteThreads(Builder)
    <3>1. NoNewSubmit
      BY <2>6, LinkedAssumption, Return DEF DeleteThreads, SameAt, Submits, NoCall, NoNewSubmit
    <3>2. \A j \in Job : jobs[j] = "new" => jobs'[j] = "new"
      BY <2>6 DEF DeleteThreads
    <3> QED
      BY <3>1, <3>2, PendingKept
  <2> QED
    BY <1>2, <2>1, <2>2, <2>3, <2>4, <2>5, <2>6 DEF LinkedResize
<1>3. ASSUME NEW p \in Pooled, LinkedThread(p) PROVE Pending'
  <2>1. CASE ThreadUp(p)
    BY <2>1 DEF ThreadUp, Pending
  <2>2. CASE TakeTask(p)
    <3>1. NoNewSubmit
      BY <2>2, WakeOne DEF TakeTask, SameAt, Submits, NoCall, NoNewSubmit
    <3>2. \A j \in Job : jobs[j] = "new" => jobs'[j] = "new"
      BY <2>2 DEF TakeTask, CanTake, LinkedTyped, Listed
    <3> QED
      BY <3>1, <3>2, PendingKept
  <2>3. CASE RunTask(p)
    <3>1. NoNewSubmit
      BY <2>3 DEF RunTask, NoNewSubmit
    <3>2. \A j \in Job : jobs[j] = "new" => jobs'[j] = "new"
      BY <2>3 DEF RunTask, LinkedTyped, Held
    <3> QED
      BY <3>1, <3>2, PendingKept
  <2>4. CASE CountDown(p)
    BY <2>4 DEF CountDown, Pending
  <2>5. CASE StoreTerminated(p)
    BY <2>5 DEF StoreTerminated, Pending
  <2>6. CASE NotifyEnd(p)
    <3>1. NoNewSubmit
      BY <2>6, WakeAll DEF NotifyEnd, SameAt, Submits, NoCall, NoNewSubmit
    <3>2. \A j \in Job : jobs[j] = "new" => jobs'[j] = "new"
      BY <2>6 DEF NotifyEnd
    <3> QED
      BY <3>1, <3>2, PendingKept
  <2> QED
    BY <1>3, <2>1, <2>2, <2>3, <2>4, <2>5, <2>6 DEF LinkedThread
<1>4. CASE Destroy
  <2>1. NoNewSubmit
    BY <1>4, LinkedAssumption, Enter DEF Destroy, CallOps, Submits, BuilderOps, Ats, SameAt, Submits, NoCall, NoNewSubmit
  <2>2. \A j \in Job : jobs[j] = "new" => jobs'[j] = "new"
    BY <1>4 DEF Destroy, ShutdownBody, KilledJobs, LinkedTyped
  <2> QED
    BY <2>1, <2>2, PendingKept
<1>5. CASE DestroyWait
  <2>0. call[Builder].op # "none" /\ (WaitOn(Builder) \/ call' = Returned(Builder))
    BY <1>5 DEF DestroyWait, Doing
  <2>1. NoNewSubmit
    BY <2>0, LinkedAssumption, WaitOrReturn DEF SameAt, Submits, NoCall, NoNewSubmit
  <2>2. \A j \in Job : jobs[j] = "new" => jobs'[j] = "new"
    BY <1>5 DEF DestroyWait, WaitOn
  <2> QED
    BY <2>1, <2>2, PendingKept
<1>6. CASE UNCHANGED provedVars
  BY <1>6 DEF provedVars, Pending
<1> QED
  BY <1>1, <1>2, <1>3, <1>4, <1>5, <1>6, WorkOrStill DEF LinkedWork

\* Exit tasks leave the places of the others as they are.
LEMMA ExitsInFront ==
  ASSUME LinkedTyped, NEW n \in Nat
  PROVE  /\ Len(Exits(n) \o waiting) = n + Len(waiting)
         /\ \A i \in 1 .. n + Len(waiting) :
               (Exits(n) \o waiting)[i] = IF i <= n THEN Exit ELSE waiting[i - n]
<1>1. Exits(n) \in Seq({Exit}) /\ Len(Exits(n)) = n /\ \A i \in 1 .. n : Exits(n)[i] = Exit
  BY DEF Exits
<1>2. waiting \in Seq(Job \cup {Exit}) /\ Len(waiting) \in Nat
  BY DEF LinkedTyped
<1> HIDE DEF Exits
<1> QED
  BY <1>1, <1>2

\* What fun(true) for every task does to the tasks.
LEMMA KilledListed ==
  ASSUME LinkedTyped, JobsPlaced, jobs' = KilledJobs, UNCHANGED doing,
         \A p \in Pooled : member'[p] # "run" => member[p] # "run",
         \A i \in 1 .. Len(waiting') : waiting'[i] = Exit
  PROVE  Listed' /\ Held'
<1>1. \A j \in Job : jobs'[j] = IF jobs[j] = "queued" THEN "killed" ELSE jobs[j]
  BY DEF KilledJobs
<1> QED
  BY <1>1, LinkedAssumption DEF JobsPlaced, Listed, Held

\* shut_down kills every task of the list, or does nothing.
LEMMA ShutdownListed ==
  ASSUME LinkedTyped, JobsPlaced, ShutdownBody, UNCHANGED doing
  PROVE  Listed' /\ Held'
<1>1. CASE UNCHANGED <<lstate, jobs, waiting, member>>
  BY <1>1 DEF JobsPlaced, Listed, Held
<1>2. CASE jobs' = KilledJobs /\ waiting' = Exits(alive) /\ member' = AllRoused
  <2>1. \A i \in 1 .. Len(waiting') : waiting'[i] = Exit
    BY <1>2 DEF Exits, LinkedTyped
  <2>2. \A p \in Pooled : member'[p] # "run" => member[p] # "run"
    BY <1>2, Roused
  <2> QED
    BY <1>2, <2>1, <2>2, KilledListed
<1> QED
  BY <1>1, <1>2 DEF ShutdownBody

\* A new task that is put into the list is there once.
LEMMA PlaceListed ==
  ASSUME LinkedTyped, JobsPlaced, NEW o, NEW j \in Job, jobs[j] = "new",
         waiting' = Placed(o, j), jobs' = [jobs EXCEPT ![j] = "queued"]
  PROVE  Listed'
<1> DEFINE n == Len(waiting)
<1>1. n \in Nat /\ Len(waiting') = n + 1 /\ \A i \in 1 .. n : waiting[i] # j
  BY PlacedAt DEF LinkedTyped, JobsPlaced, Listed
<1>2. jobs'[j] = "queued" /\ \A k \in Job \ {j} : jobs'[k] = jobs[k]
  BY DEF LinkedTyped
<1>3. /\ \A i, k \in 1 .. n : waiting[i] = waiting[k] /\ waiting[i] \in Job => i = k
      /\ \A k \in Job : jobs[k] = "queued" <=> \E i \in 1 .. n : waiting[i] = k
  BY DEF JobsPlaced, Listed
<1>4. CASE o = "top"
  <2>1. /\ waiting'[1] = j
        /\ \A i \in 2 .. n + 1 : waiting'[i] = waiting[i - 1]
    BY <1>1, <1>4, PlacedAt
  <2> HIDE DEF n
  <2>2. \A i \in 1 .. n : waiting'[i + 1] = waiting[i] /\ i + 1 \in 1 .. n + 1
    BY <1>1, <2>1
  <2>3. \A i \in 1 .. n + 1 : i = 1 \/ (i - 1 \in 1 .. n /\ waiting'[i] = waiting[i - 1])
    BY <1>1, <2>1
  <2>4. \A i, k \in 1 .. n + 1 : waiting'[i] = waiting'[k] /\ waiting'[i] \in Job => i = k
    BY <1>1, <1>3, <2>1, <2>3
  <2>5. ASSUME NEW k \in Job
        PROVE  jobs'[k] = "queued" <=> \E i \in 1 .. n + 1 : waiting'[i] = k
    <3>1. CASE k = j
      BY <1>1, <1>2, <2>1, <3>1
    <3>2. CASE k # j
      <4>1. ASSUME NEW i \in 1 .. n, waiting[i] = k PROVE \E l \in 1 .. n + 1 : waiting'[l] = k
        BY <2>2, <4>1
      <4>2. ASSUME NEW i \in 1 .. n + 1, waiting'[i] = k PROVE \E l \in 1 .. n : waiting[l] = k
        BY <2>1, <2>3, <3>2, <4>2
      <4> QED
        BY <1>2, <1>3, <3>2, <4>1, <4>2
    <3> QED
      BY <3>1, <3>2
  <2> QED
    BY <1>1, <2>4, <2>5 DEF Listed
<1>5. CASE o # "top"
  <2>1. waiting'[n + 1] = j /\ \A i \in 1 .. n : waiting'[i] = waiting[i]
    BY <1>1, <1>5, PlacedAt
  <2> HIDE DEF n
  <2>2. \A i \in 1 .. n + 1 : i = n + 1 \/ i \in 1 .. n
    BY <1>1
  <2>3. \A i, k \in 1 .. n + 1 : waiting'[i] = waiting'[k] /\ waiting'[i] \in Job => i = k
    BY <1>1, <1>3, <2>1, <2>2
  <2>4. ASSUME NEW k \in Job
        PROVE  jobs'[k] = "queued" <=> \E i \in 1 .. n + 1 : waiting'[i] = k
    <3>1. CASE k = j
      BY <1>1, <1>2, <2>1, <3>1
    <3>2. CASE k # j
      BY <1>1, <1>2, <1>3, <2>1, <2>2, <3>2
    <3> QED
      BY <3>1, <3>2
  <2> QED
    BY <1>1, <2>3, <2>4 DEF Listed
<1> QED
  BY <1>4, <1>5

\* Taking the first element leaves every other task where it was.
LEMMA TakeListed ==
  ASSUME LinkedTyped, JobsPlaced, waiting # <<>>, waiting' = Tail(waiting),
         jobs' = [j \in Job |-> IF j = Head(waiting) THEN "running" ELSE jobs[j]]
  PROVE  Listed' /\ \A j \in Job : j = Head(waiting) => jobs[j] = "queued"
<1> DEFINE n == Len(waiting)
<1>1. /\ n \in Nat \ {0} /\ Len(waiting') = n - 1 /\ Head(waiting) = waiting[1]
      /\ \A i \in 1 .. n - 1 : waiting'[i] = waiting[i + 1]
  BY DEF LinkedTyped
<1> HIDE DEF n
<1>2. \A j \in Job : j = Head(waiting) => jobs[j] = "queued"
  BY <1>1 DEF JobsPlaced, Listed, n
<1>3. \A i, k \in 1..Len(waiting') : waiting'[i] = waiting'[k] /\ waiting'[i] \in Job => i = k
  BY <1>1 DEF JobsPlaced, Listed, n
<1>4. ASSUME NEW j \in Job
      PROVE  jobs'[j] = "queued" <=> \E i \in 1..Len(waiting') : waiting'[i] = j
  <2>1. CASE j = Head(waiting)
    BY <1>1, <2>1 DEF JobsPlaced, Listed, n
  <2>2. CASE j # Head(waiting)
    <3>1. \A i \in 2 .. n : i - 1 \in 1 .. n - 1 /\ waiting'[i - 1] = waiting[i]
      BY <1>1
    <3>2. (\E i \in 1 .. n : waiting[i] = j) <=> \E i \in 1 .. n - 1 : waiting'[i] = j
      BY <1>1, <2>2, <3>1
    <3> QED
      BY <1>1, <2>2, <3>2 DEF JobsPlaced, Listed, n
  <2> QED
    BY <2>1, <2>2
<1> QED
  BY <1>2, <1>3, <1>4 DEF Listed

\* Every step keeps each task at the one place its fate names.
LEMMA PlacesStep ==
  LinkedTyped /\ CallsOK(call) /\ JobsPlaced /\ Creating /\ [LinkedNext]_linkedVars
  => Listed' /\ Held'
<1> SUFFICES ASSUME LinkedTyped, CallsOK(call), JobsPlaced, Creating, [LinkedNext]_linkedVars
             PROVE  Listed' /\ Held'
  OBVIOUS
<1>1. ASSUME NEW c \in Caller, LinkedCall(c) PROVE Listed' /\ Held'
  <2>1. CASE BeginSubmit(c)
    BY <2>1 DEF BeginSubmit, Begin, Listed, Held, JobsPlaced
  <2>2. CASE BeginControl(c)
    BY <2>2 DEF BeginControl, Begin, Listed, Held, JobsPlaced
  <2>3. CASE FallAsleep(c)
    BY <2>3 DEF FallAsleep, Listed, Held, JobsPlaced
  <2>4. CASE Submit(c)
    <3> DEFINE j == call[c].arg
    <3>0. j \in Job /\ jobs[j] = "new" /\ Len(waiting) \in Nat
      BY <2>4 DEF Submit, JobsPlaced, Pending, Submits, LinkedTyped
    <3>1. CASE StoppingState
      BY <2>4, <3>0, <3>1 DEF Submit, JobsPlaced, Listed, Held, LinkedTyped
    <3>2. CASE ~StoppingState /\ HasRoom
      <4>1. /\ member' \in OneRoused /\ waiting' = Placed(call[c].op, j) /\ UNCHANGED doing
            /\ jobs' = [jobs EXCEPT ![j] = "queued"]
        BY <2>4, <3>0, <3>2 DEF Submit
      <4>2. Listed'
        BY <3>0, <4>1, PlaceListed
      <4>3. Held'
        BY <3>0, <4>1, Roused DEF JobsPlaced, Held, LinkedTyped
      <4> QED
        BY <4>2, <4>3
    <3>3. CASE ~StoppingState /\ ~HasRoom
      BY <2>4, <3>0, <3>3 DEF Submit, WaitOn, JobsPlaced, Listed, Held
    <3> QED
      BY <3>0, <3>1, <3>2, <3>3
  <2>5. CASE LinkedStopTest(c)
    BY <2>5 DEF LinkedStopTest, Listed, Held, JobsPlaced
  <2>6. CASE LinkedStopStore(c)
    BY <2>6 DEF LinkedStopStore, Listed, Held, JobsPlaced
  <2>7. CASE LinkedStartTest(c)
    BY <2>7 DEF LinkedStartTest, Listed, Held, JobsPlaced
  <2>8. CASE LinkedStartStore(c)
    BY <2>8, Roused DEF LinkedStartStore, Listed, Held, JobsPlaced
  <2>9. CASE LinkedClear(c)
    <3>1. \A i \in 1 .. Len(waiting') : waiting'[i] = Exit
      BY <2>9 DEF LinkedClear
    <3> QED
      BY <2>9, <3>1, KilledListed DEF LinkedClear
  <2>10. CASE LinkedShutdown(c)
    BY <2>10, ShutdownListed DEF LinkedShutdown
  <2> QED
    BY <1>1, <2>1, <2>2, <2>3, <2>4, <2>5, <2>6, <2>7, <2>8, <2>9, <2>10 DEF LinkedCall
<1>2. CASE LinkedResize
  <2>1. CASE BeginResize
    BY <2>1 DEF BeginResize, Begin, Listed, Held, JobsPlaced
  <2>2. CASE ResizeCompare(Builder)
    BY <2>2 DEF ResizeCompare, Listed, Held, JobsPlaced
  <2>3. CASE ResizeMeasure(Builder)
    BY <2>3 DEF ResizeMeasure, Listed, Held, JobsPlaced
  <2>4. CASE CreateThreads(Builder)
    BY <2>4 DEF CreateThreads, Created, Unstarted, LinkedTyped, Listed, Held, JobsPlaced
  <2>5. CASE CreateWait(Builder)
    BY <2>5 DEF CreateWait, WaitOn, Listed, Held, JobsPlaced
  <2>6. CASE DeleteThreads(Builder)
    <3> DEFINE n == call[Builder].arg
    <3>1. n \in Nat /\ waiting' = Exits(n) \o waiting /\ UNCHANGED <<jobs, doing, member>>
      BY <2>6 DEF DeleteThreads, Doing, Creating, Resizing, Submits
    <3> HIDE DEF n
    <3>2. /\ Len(waiting') = n + Len(waiting) /\ Len(waiting) \in Nat
          /\ \A i \in 1 .. n + Len(waiting) : waiting'[i] = IF i <= n THEN Exit ELSE waiting[i - n]
      <4>1. Len(waiting) \in Nat
        BY DEF LinkedTyped
      <4> QED
        BY <3>1, <4>1, ExitsInFront
    <3>3. \A i \in 1 .. Len(waiting) : waiting'[i + n] = waiting[i] /\ i + n \in 1 .. Len(waiting')
      BY <3>1, <3>2
    <3>4. \A i \in 1 .. Len(waiting') :
             waiting'[i] \in Job => i - n \in 1 .. Len(waiting) /\ waiting[i - n] = waiting'[i]
      BY <3>1, <3>2, LinkedAssumption
    <3>5. \A i, k \in 1..Len(waiting') : waiting'[i] = waiting'[k] /\ waiting'[i] \in Job => i = k
      BY <3>1, <3>2, <3>4 DEF JobsPlaced, Listed
    <3>6. ASSUME NEW j \in Job
          PROVE  (\E i \in 1..Len(waiting) : waiting[i] = j) <=> \E i \in 1..Len(waiting') : waiting'[i] = j
      BY <3>3, <3>4
    <3> QED
      BY <3>1, <3>5, <3>6 DEF JobsPlaced, Listed, Held
  <2> QED
    BY <1>2, <2>1, <2>2, <2>3, <2>4, <2>5, <2>6 DEF LinkedResize
<1>3. ASSUME NEW p \in Pooled, LinkedThread(p) PROVE Listed' /\ Held'
  <2>1. CASE ThreadUp(p)
    BY <2>1 DEF ThreadUp, Listed, Held, JobsPlaced, LinkedTyped
  <2>2. CASE TakeTask(p)
    <3>1. CASE ~CanTake
      BY <2>2, <3>1 DEF TakeTask, JobsPlaced, Listed, Held, LinkedTyped
    <3>2. CASE CanTake
      <4>1. waiting # <<>>
        BY <3>2 DEF CanTake
      <4>2. /\ doing' = [doing EXCEPT ![p] = Head(waiting)] /\ waiting' = Tail(waiting)
            /\ jobs' = [j \in Job |-> IF j = Head(waiting) THEN "running" ELSE jobs[j]]
            /\ member[p] # "run" /\ member' = [member EXCEPT ![p] = "run"]
        BY <2>2, <3>2 DEF TakeTask
      <4>3. Listed' /\ \A j \in Job : j = Head(waiting) => jobs[j] = "queued"
        BY <4>1, <4>2, TakeListed
      <4>4. doing[p] = Exit /\ Head(waiting) \in Job \cup {Exit}
        BY <4>1, <4>2 DEF JobsPlaced, Held, LinkedTyped
      <4>5. Held'
        BY <4>2, <4>3, <4>4, LinkedAssumption DEF JobsPlaced, Held, LinkedTyped
      <4> QED
        BY <4>3, <4>5
    <3> QED
      BY <2>2, <3>1, <3>2 DEF TakeTask
  <2>3. CASE RunTask(p)
    <3>1. Held'
      BY <2>3, LinkedAssumption DEF RunTask, JobsPlaced, Held, LinkedTyped
    <3>2. Listed'
      BY <2>3 DEF RunTask, JobsPlaced, Held, Listed, LinkedTyped
    <3> QED
      BY <3>1, <3>2
  <2>4. CASE CountDown(p)
    BY <2>4 DEF CountDown, Listed, Held, JobsPlaced, LinkedTyped
  <2>5. CASE StoreTerminated(p)
    BY <2>5 DEF StoreTerminated, Listed, Held, JobsPlaced, LinkedTyped
  <2>6. CASE NotifyEnd(p)
    BY <2>6 DEF NotifyEnd, Listed, Held, JobsPlaced, LinkedTyped
  <2> QED
    BY <1>3, <2>1, <2>2, <2>3, <2>4, <2>5, <2>6 DEF LinkedThread
<1>4. CASE Destroy
  BY <1>4, ShutdownListed DEF Destroy
<1>5. CASE DestroyWait
  BY <1>5 DEF DestroyWait, WaitOn, Listed, Held, JobsPlaced
<1>6. CASE UNCHANGED provedVars
  BY <1>6 DEF provedVars, Listed, Held, JobsPlaced
<1> QED
  BY <1>1, <1>2, <1>3, <1>4, <1>5, <1>6, WorkOrStill DEF LinkedWork

\* The counter and the sets of threads change where a thread is created, counts
\* itself and counts itself out.
MembersAlike == alive' = alive /\ UpSet' = UpSet /\ NewSet' = NewSet

\* A notification changes neither who is counted nor who is created.
LEMMA RousedAlike ==
  ASSUME LinkedTyped, member' = member \/ member' = AllRoused \/ member' \in OneRoused
  PROVE  UpSet' = UpSet /\ NewSet' = NewSet
<1>1. \A p \in Pooled : member'[p] = member[p] \/ (member[p] = "asleep" /\ member'[p] = "woken")
  BY Roused
<1> QED
  BY <1>1 DEF UpSet, NewSet, UpPlaces

\* A call other than a resize changes neither.
LEMMA CallerMembers ==
  ASSUME LinkedTyped, NEW c \in Caller, LinkedCall(c)
  PROVE  MembersAlike
<1>1. alive' = alive /\ (member' = member \/ member' = AllRoused \/ member' \in OneRoused)
  BY DEF LinkedCall, BeginSubmit, BeginControl, Begin, FallAsleep, Submit, WaitOn,
         LinkedStopTest, LinkedStopStore, LinkedStartTest, LinkedStartStore, LinkedClear,
         LinkedShutdown, ShutdownBody
<1> QED
  BY <1>1, RousedAlike DEF MembersAlike

\* A thread's step changes both sets alike with _core_threads, if at all.
LEMMA ThreadMembers ==
  ASSUME LinkedTyped, NEW p \in Pooled, LinkedThread(p)
  PROVE  MembersAlike \/ ThreadUp(p) \/ CountDown(p)
BY DEF LinkedThread, TakeTask, RunTask, StoreTerminated, NotifyEnd, MembersAlike, UpSet,
       NewSet, LinkedTyped, UpPlaces

\* The destructor's own steps change neither.
LEMMA DestroyMembers ==
  ASSUME LinkedTyped, Destroy \/ DestroyWait
  PROVE  MembersAlike
<1>1. alive' = alive /\ (member' = member \/ member' = AllRoused)
  BY DEF Destroy, DestroyWait, WaitOn, ShutdownBody
<1> QED
  BY <1>1, RousedAlike DEF MembersAlike

\* The ways in which a step changes the threads that are counted or created.
LEMMA MembersStep ==
  ASSUME LinkedTyped, LinkedWork
  PROVE  \/ MembersAlike
         \/ CreateThreads(Builder)
         \/ \E p \in Pooled : ThreadUp(p) \/ CountDown(p)
<1>1. ASSUME LinkedResize, ~CreateThreads(Builder) PROVE MembersAlike
  BY <1>1 DEF LinkedResize, BeginResize, Begin, ResizeCompare, ResizeMeasure, CreateWait, WaitOn,
              DeleteThreads, MembersAlike, UpSet, NewSet
<1> QED
  BY <1>1, CallerMembers, ThreadMembers, DestroyMembers DEF LinkedWork

\* A thread that counts itself, or takes itself out of the count, moves _core_threads by one.
LEMMA UpSets ==
  ASSUME LinkedTyped, NEW p \in Pooled
  PROVE  /\ ThreadUp(p) => /\ alive' = alive + 1 /\ UpSet' = UpSet \cup {p} /\ p \notin UpSet
                           /\ p \in NewSet /\ NewSet' = NewSet \ {p} /\ call' = call
         /\ CountDown(p) => /\ alive' = alive - 1 /\ UpSet' = UpSet \ {p} /\ p \in UpSet
                            /\ NewSet' = NewSet /\ call' = call
BY DEF LinkedTyped, ThreadUp, CountDown, UpSet, NewSet, UpPlaces

\* create_threads makes as many new threads as it is asked for, and counts none.
LEMMA NewSets ==
  ASSUME LinkedTyped, CreateThreads(Builder), NewSet = {}, call[Builder].arg \in Nat
  PROVE  /\ alive' = alive /\ UpSet' = UpSet
         /\ IsFiniteSet(NewSet') /\ Cardinality(NewSet') = call[Builder].arg
<1>1. PICK new \in Created(call[Builder].arg) :
         member' = [p \in Pooled |-> IF p \in new THEN "created" ELSE member[p]]
  BY DEF CreateThreads
<1>2. new \subseteq Unstarted /\ Cardinality(new) = call[Builder].arg
  BY DEF Created
<1>3. NewSet' = new
  BY <1>1, <1>2 DEF NewSet, Unstarted
<1>4. IsFiniteSet(new)
  BY <1>2, LinkedAssumption, FS_Subset DEF Unstarted
<1>5. UpSet' = UpSet
  BY <1>1, <1>2 DEF UpSet, Unstarted, UpPlaces
<1> QED
  BY <1>2, <1>3, <1>4, <1>5 DEF CreateThreads

\* Every step keeps _core_threads the number of the threads that count.
LEMMA CountsStep ==
  ASSUME LinkedTyped, Creating, [LinkedNext]_linkedVars
  PROVE  Counts'
<1>1. IsFiniteSet(UpSet) /\ Cardinality(UpSet) \in Nat /\ alive = Cardinality(UpSet)
  BY LinkedAssumption, FS_Subset, FS_CardinalityType DEF UpSet, Creating, Counts
<1>2. CASE MembersAlike
  BY <1>1, <1>2 DEF MembersAlike, Counts
<1>3. ASSUME NEW p \in Pooled, ThreadUp(p) PROVE Counts'
  BY <1>1, <1>3, UpSets, FS_AddElement DEF Counts
<1>4. ASSUME NEW p \in Pooled, CountDown(p) PROVE Counts'
  BY <1>1, <1>4, UpSets, FS_RemoveElement DEF Counts
<1>5. CASE CreateThreads(Builder)
  <2>1. UpSet' = UpSet
    BY <1>5 DEF CreateThreads, Created, Unstarted, UpSet, UpPlaces
  <2> QED
    BY <1>1, <1>5, <2>1 DEF CreateThreads, Counts
<1>6. CASE UNCHANGED provedVars
  BY <1>1, <1>6 DEF provedVars, Counts, UpSet
<1> QED
  BY <1>2, <1>3, <1>4, <1>5, <1>6, WorkOrStill, MembersStep

\* What keeps the threads and enters no resize keeps the resize as it was.
LEMMA ResizingKept ==
  ASSUME Resizing, MembersAlike,
         \A c \in Caller :
            \/ SameAt(call, call', c)
            \/ /\ call'[c].op \notin BuilderOps /\ (c = Builder /\ call[c].op = "create" => NewSet = {})
               /\ call'[c].op \notin Submits => call'[c].arg \in Nat
  PROVE  Resizing'
<1>1. Builder \in Caller
  BY LinkedAssumption
<1>2. CASE SameAt(call, call', Builder)
  BY <1>1, <1>2 DEF Resizing, MembersAlike, SameAt
<1>3. CASE ~SameAt(call, call', Builder)
  BY <1>1, <1>3 DEF Resizing, MembersAlike, SameAt, BuilderOps
<1> QED
  BY <1>2, <1>3

\* An action of a caller leaves the operations of the others where they are or
\* wakes them, and is no operation of Builder's own.
CallerOnly(c) ==
    \A d \in Caller :
       \/ SameAt(call, call', d)
       \/ /\ d = c /\ call[c].op \notin BuilderOps /\ call'[c].op \notin BuilderOps
          /\ call'[c].op \notin Submits => call'[c].arg \in Nat
          /\ call'[c].op = "none" \/ phase = "open"

\* Entering an operation other than a resize is a step of that caller only.
LEMMA Enters ==
  ASSUME CallsOK(call), NEW c \in Caller,
         NEW o \in CallOps \ (BuilderOps \cup {"none"}), NEW n \in Nat \cup Job,
         Begin(c, o, n), o \notin Submits => n \in Nat
  PROVE  CallerOnly(c)
<1>1. call[c].op = "none" /\ phase = "open"
  BY DEF Begin, Idle, NoCall
<1>2. call'[c].op = o /\ call'[c].arg = n /\ \A d \in Caller \ {c} : call'[d] = call[d]
  BY Enter DEF Begin, Ats
<1> QED
  BY <1>1, <1>2 DEF CallerOnly, SameAt, BuilderOps

\* So is returning from one,
LEMMA Returns ==
  ASSUME CallsOK(call), NEW c \in Caller, call[c].op \notin BuilderOps, call' = Returned(c)
  PROVE  CallerOnly(c)
BY Return DEF CallerOnly, SameAt, NoCall, BuilderOps, Submits

\* and returning from one with a notification.
LEMMA ReturnsWaking ==
  ASSUME CallsOK(call), NEW c \in Caller, call[c].op \notin BuilderOps, call' = AllWoken(Returned(c))
  PROVE  CallerOnly(c)
<1> DEFINE r == Returned(c)
<1>1. CallsOK(r) /\ r[c] = NoCall /\ \A d \in Caller \ {c} : r[d] = call[d]
  BY Return
<1>2. call' = AllWoken(r)
  OBVIOUS
<1> HIDE DEF r
<1>3. \A d \in Caller : SameAt(r, call', d)
  BY <1>1, <1>2, WakeAll
<1>4. \A d \in Caller \ {c} : SameAt(call, call', d)
  BY <1>1, <1>3 DEF SameAt
<1>5. call'[c].op = "none" /\ call'[c].arg = 0
  BY <1>1, <1>3 DEF SameAt, NoCall
<1> QED
  BY <1>4, <1>5 DEF CallerOnly, BuilderOps

\* What a caller does in any other operation is a step of its own only.
LEMMA CallerStep ==
  ASSUME CallsOK(call), NEW c \in Caller, LinkedCall(c)
  PROVE  CallerOnly(c)
<1>1. CASE BeginSubmit(c)
  <2> PICK j \in Job, op \in {"top", "back"} : Begin(c, op, j)
    BY <1>1 DEF BeginSubmit
  <2> QED
    BY Enters DEF CallOps, Submits, BuilderOps
<1>2. CASE BeginControl(c)
  <2> PICK op \in {"stop", "start", "clear", "shutdown"} : Begin(c, op, 0)
    BY <1>2 DEF BeginControl
  <2> QED
    BY Enters DEF CallOps, Submits, BuilderOps
<1>3. CASE FallAsleep(c)
  <2>1. call[c].op # "none" /\ call' = [call EXCEPT ![c].at = "asleep"]
    BY <1>3 DEF FallAsleep, CallsOK
  <2> QED
    BY <2>1, MoveAt DEF CallerOnly
<1>4. CASE Submit(c)
  <2>1. call[c].op \notin BuilderOps \cup {"none"}
    BY <1>4 DEF Submit, BuilderOps
  <2>2. CASE WaitOn(c)
    BY <2>1, <2>2, MoveAt DEF WaitOn, CallerOnly
  <2> QED
    BY <1>4, <2>1, <2>2, Returns DEF Submit
<1>5. CASE LinkedStopTest(c) \/ LinkedStartTest(c)
  <2>1. call[c].op \notin BuilderOps \cup {"none"}
    BY <1>5 DEF LinkedStopTest, LinkedStartTest, Doing, BuilderOps
  <2>2. CASE call' = [call EXCEPT ![c].at = "store"]
    BY <2>1, <2>2, MoveAt DEF CallerOnly
  <2> QED
    BY <1>5, <2>1, <2>2, Returns DEF LinkedStopTest, LinkedStartTest
<1>6. CASE LinkedStopStore(c) \/ LinkedStartStore(c)
  BY <1>6, ReturnsWaking DEF LinkedStopStore, LinkedStartStore, Doing, BuilderOps
<1>7. CASE LinkedClear(c) \/ LinkedShutdown(c)
  BY <1>7, Returns DEF LinkedClear, LinkedShutdown, Doing, BuilderOps
<1> QED
  BY <1>1, <1>2, <1>3, <1>4, <1>5, <1>6, <1>7 DEF LinkedCall

\* A thread's step leaves every caller in its operation.
LEMMA ThreadCalls ==
  ASSUME CallsOK(call), NEW p \in Pooled, LinkedThread(p)
  PROVE  \A d \in Caller : SameAt(call, call', d)
<1>1. CASE TakeTask(p)
  <2>1. call' = call \/ call' \in OneWoken(call)
    BY <1>1 DEF TakeTask
  <2> QED
    BY <2>1, WakeOne DEF SameAt
<1>2. CASE NotifyEnd(p)
  BY <1>2, WakeAll DEF NotifyEnd
<1> QED
  BY <1>1, <1>2 DEF LinkedThread, ThreadUp, RunTask, CountDown, StoreTerminated, SameAt

\* Every step keeps what is known while a caller resizes the pool.
LEMMA ResizingStep ==
  ASSUME LinkedTyped, CallsOK(call), Creating, [LinkedNext]_linkedVars
  PROVE  Resizing'
<1> USE DEF Creating
<1>0. Builder \in Caller /\ alive \in Nat
  BY LinkedAssumption DEF LinkedTyped
<1>1. ASSUME NEW c \in Caller, LinkedCall(c) PROVE Resizing'
  <2>1. MembersAlike
    BY <1>1, CallerMembers
  <2>2. CallerOnly(c)
    BY <1>1, CallerStep
  <2> QED
    BY <2>1, <2>2, ResizingKept DEF CallerOnly, BuilderOps
<1>2. ASSUME NEW p \in Pooled, LinkedThread(p) PROVE Resizing'
  <2>1. \A d \in Caller : SameAt(call, call', d)
    BY <1>2, ThreadCalls
  <2>2. CASE ThreadUp(p)
    <3>1. /\ alive' = alive + 1 /\ p \in NewSet /\ NewSet' = NewSet \ {p} /\ call' = call
      BY <2>2, UpSets
    <3>2. call[Builder].op = "create" /\ IsFiniteSet(NewSet)
      BY <3>1 DEF Resizing
    <3>3. /\ IsFiniteSet(NewSet') /\ Cardinality(NewSet') = Cardinality(NewSet) - 1
          /\ Cardinality(NewSet) \in Nat
      BY <3>1, <3>2, FS_RemoveElement, FS_CardinalityType
    <3> QED
      BY <1>0, <3>1, <3>2, <3>3 DEF Resizing, Submits
  <2>3. CASE CountDown(p)
    <3>1. alive' = alive - 1 /\ NewSet' = NewSet /\ call' = call
      BY <2>3, UpSets
    <3>2. IsFiniteSet(NewSet) => Cardinality(NewSet) \in Nat
      BY FS_CardinalityType
    <3> QED
      BY <1>0, <3>1, <3>2 DEF Resizing, Submits
  <2>4. CASE MembersAlike
    BY <2>1, <2>4, ResizingKept
  <2> QED
    BY <1>2, <2>2, <2>3, <2>4, ThreadMembers
<1>3. CASE BeginResize
  <2>1. PICK n \in Resizes : Begin(Builder, "resize", n)
    BY <1>3 DEF BeginResize
  <2>2. call[Builder].op = "none" /\ n \in Nat
    BY <2>1, LinkedAssumption DEF Begin, Idle, NoCall
  <2>3. /\ call'[Builder].op = "resize" /\ call'[Builder].at = "test" /\ call'[Builder].arg = n
        /\ \A d \in Caller \ {Builder} : call'[d] = call[d]
    BY <1>0, <2>1, <2>2, Enter DEF Begin, CallOps, Submits, BuilderOps, Ats
  <2>4. NewSet' = NewSet
    BY <2>1 DEF Begin, NewSet
  <2> QED
    BY <2>2, <2>3, <2>4 DEF Resizing, BuilderOps
<1>4. CASE ResizeCompare(Builder)
  <2>1. call[Builder].op = "resize" /\ alive' = alive /\ NewSet' = NewSet /\ call[Builder].arg \in Nat
    BY <1>4 DEF ResizeCompare, Doing, NewSet, Resizing, Submits
  <2>2. ASSUME NEW a \in {"grow", "second", "shrink"}, call' = [call EXCEPT ![Builder].at = a],
               a = "grow" => call[Builder].arg > alive
        PROVE  Resizing'
    <3>1. /\ call'[Builder].op = "resize" /\ call'[Builder].at = a
          /\ call'[Builder].arg = call[Builder].arg
          /\ \A d \in Caller \ {Builder} : call'[d] = call[d]
      BY <1>0, <2>1, <2>2 DEF CallsOK
    <3> QED
      BY <2>1, <2>2, <3>1 DEF Resizing, BuilderOps
  <2>3. CASE call' = Returned(Builder)
    <3>1. call'[Builder] = NoCall /\ \A d \in Caller \ {Builder} : call'[d] = call[d]
      BY <1>0, <2>3, Return
    <3> QED
      BY <2>1, <3>1 DEF Resizing, BuilderOps, NoCall
  <2> QED
    BY <1>4, <2>2, <2>3 DEF ResizeCompare
<1>5. CASE ResizeMeasure(Builder)
  <2> DEFINE n == call[Builder].arg
  <2>1. /\ call[Builder].op = "resize" /\ alive' = alive /\ NewSet' = NewSet /\ n \in Nat
        /\ ExitCap \in Nat
    BY <1>5, LinkedAssumption DEF ResizeMeasure, NewSet, Resizing, Submits
  <2>2. Difference(n, alive) \in Nat /\ Difference(alive, n) \in Nat
    BY <1>0, <2>1 DEF Difference
  <2>3. ASSUME NEW o \in {"grow", "shrink"}, NEW k \in Nat, o = "grow" => k > 0,
               call' = [call EXCEPT ![Builder] = [op |-> o, at |-> "test", arg |-> k]]
        PROVE  Resizing'
    <3>1. /\ call'[Builder].op = o /\ call'[Builder].at = "test" /\ call'[Builder].arg = k
          /\ \A d \in Caller \ {Builder} : call'[d] = call[d]
      BY <1>0, <2>3, Enter DEF CallOps, Submits, BuilderOps, Ats
    <3> QED
      BY <2>1, <2>3, <3>1 DEF Resizing, BuilderOps
  <2>4. CASE call[Builder].at = "grow"
    <3>1. Difference(n, alive) > 0
      BY <1>0, <2>1, <2>4 DEF Difference, Resizing
    <3> QED
      BY <1>5, <2>2, <2>3, <2>4, <3>1 DEF ResizeMeasure
  <2>5. CASE call[Builder].at # "grow"
    BY <1>5, <2>2, <2>3, <2>5 DEF ResizeMeasure
  <2> QED
    BY <2>4, <2>5
<1>6. CASE CreateThreads(Builder)
  <2> DEFINE n == call[Builder].arg
  <2>1. call[Builder].op = "grow" /\ n \in Nat /\ n > 0 /\ NewSet = {}
    BY <1>6 DEF CreateThreads, Doing, Resizing, Submits
  <2>2. alive' = alive /\ IsFiniteSet(NewSet') /\ Cardinality(NewSet') = n
    BY <1>6, <2>1, NewSets
  <2>3. call' = [call EXCEPT ![Builder] = [op |-> "create", at |-> "test", arg |-> alive + n]]
    BY <1>6 DEF CreateThreads
  <2>4. /\ call'[Builder].op = "create" /\ call'[Builder].arg = alive + n
        /\ \A d \in Caller \ {Builder} : call'[d] = call[d]
    BY <1>0, <2>1, <2>3, Enter DEF CallOps, Submits, BuilderOps, Ats
  <2> QED
    BY <1>0, <2>1, <2>2, <2>4 DEF Resizing, BuilderOps
<1>7. CASE CreateWait(Builder)
  <2>1. MembersAlike /\ call[Builder].op = "create"
    BY <1>7 DEF CreateWait, WaitOn, MembersAlike, UpSet, NewSet, Doing
  <2>2. CASE call' = Returned(Builder) /\ alive >= call[Builder].arg
    <3>1. NewSet = {}
      <4>1. /\ IsFiniteSet(NewSet) /\ Cardinality(NewSet) \in Nat /\ call[Builder].arg \in Nat
            /\ Cardinality(NewSet) + alive <= call[Builder].arg
        BY <2>1, FS_CardinalityType DEF Resizing, Submits
      <4>2. Cardinality(NewSet) = 0
        BY <1>0, <2>2, <4>1
      <4> QED
        BY <4>1, <4>2, FS_EmptySet
    <3>2. call'[Builder] = NoCall /\ \A d \in Caller \ {Builder} : call'[d] = call[d]
      BY <1>0, <2>2, Return
    <3> QED
      BY <2>1, <3>1, <3>2 DEF Resizing, MembersAlike, NoCall, BuilderOps
  <2>3. CASE WaitOn(Builder)
    <3>1. \A d \in Caller : SameAt(call, call', d)
      BY <1>0, <2>1, <2>3, MoveAt DEF WaitOn
    <3> QED
      BY <2>1, <3>1, ResizingKept
  <2> QED
    BY <1>7, <2>2, <2>3 DEF CreateWait
<1>8. CASE DeleteThreads(Builder)
  <2>1. call[Builder].op = "shrink" /\ MembersAlike
    BY <1>8 DEF DeleteThreads, Doing, MembersAlike, UpSet, NewSet
  <2>2. call'[Builder] = NoCall /\ \A d \in Caller \ {Builder} : call'[d] = call[d]
    BY <1>0, <1>8, Return DEF DeleteThreads
  <2> QED
    BY <2>1, <2>2 DEF Resizing, MembersAlike, NoCall, BuilderOps
<1>9. CASE Destroy
  <2>1. call[Builder].op = "none" /\ MembersAlike
    BY <1>0, <1>9, DestroyMembers DEF Destroy, Idle, NoCall
  <2>2. /\ call'[Builder].op = "destroy" /\ call'[Builder].at = "test" /\ call'[Builder].arg = 0
        /\ \A d \in Caller \ {Builder} : call'[d] = call[d]
    BY <1>0, <1>9, Enter DEF Destroy, CallOps, Submits, BuilderOps, Ats
  <2> QED
    BY <2>1, <2>2 DEF Resizing, MembersAlike, BuilderOps
<1>10. CASE DestroyWait
  <2>1. call[Builder].op = "destroy" /\ MembersAlike /\ (WaitOn(Builder) \/ call' = Returned(Builder))
    BY <1>10, DestroyMembers DEF DestroyWait, Doing
  <2>2. \/ \A d \in Caller : SameAt(call, call', d)
        \/ call'[Builder] = NoCall /\ \A d \in Caller \ {Builder} : call'[d] = call[d]
    BY <1>0, <2>1, WaitOrReturn
  <2>3. CASE \A d \in Caller : SameAt(call, call', d)
    BY <2>1, <2>3, ResizingKept
  <2>4. CASE call'[Builder] = NoCall /\ \A d \in Caller \ {Builder} : call'[d] = call[d]
    BY <2>1, <2>4 DEF Resizing, MembersAlike, NoCall, BuilderOps
  <2> QED
    BY <2>2, <2>3, <2>4
<1>11. CASE UNCHANGED provedVars
  BY <1>11 DEF provedVars, Resizing, NewSet
<1> QED
  BY <1>1, <1>2, <1>3, <1>4, <1>5, <1>6, <1>7, <1>8, <1>9, <1>10, <1>11, WorkOrStill DEF LinkedWork, LinkedResize

\* Before the pool is open and after it is closed nobody is in a call of the
\* public interface.
LEMMA CallOnlyWhenOpen ==
  ASSUME Phases, LinkedTyped, NEW c \in Caller, LinkedCall(c)
  PROVE  phase' = phase /\ (phase = "open" \/ FallAsleep(c))
<1>1. phase # "open" => call[c].op \in {"none", "create", "destroy"}
  BY LinkedAssumption DEF Phases, LinkedTyped
<1> QED
  BY <1>1 DEF LinkedCall, BeginSubmit, BeginControl, Begin, FallAsleep, Submit, WaitOn,
         LinkedStopTest, LinkedStopStore, LinkedStartTest, LinkedStartStore, LinkedClear,
         LinkedShutdown, Doing

\* Every step keeps what is known of a pool being built or destroyed.
LEMMA PhasesStep ==
  ASSUME LinkedTyped, CallsOK(call), Creating, Phases, [LinkedNext]_linkedVars
  PROVE  Phases'
<1>0. Builder \in Caller /\ alive \in Nat
  BY LinkedAssumption DEF LinkedTyped
<1>1. ASSUME NEW c \in Caller, LinkedCall(c) PROVE Phases'
  <2>1. CallerOnly(c) /\ phase' = phase
    BY <1>1, CallerStep, CallOnlyWhenOpen
  <2>2. CASE phase = "open"
    BY <1>0, <2>1, <2>2 DEF Phases, CallerOnly, SameAt, BuilderOps
  <2>3. CASE phase # "open"
    <3>1. FallAsleep(c)
      BY <1>1, <2>3, CallOnlyWhenOpen
    <3>2. call[c].op # "none"
      BY <3>1 DEF FallAsleep, CallsOK
    <3>3. \A d \in Caller : SameAt(call, call', d)
      BY <3>1, <3>2, MoveAt DEF FallAsleep
    <3>4. UNCHANGED <<lstate, waiting, member, phase, disturbed>>
      BY <3>1 DEF FallAsleep
    <3> QED
      BY <1>0, <3>3, <3>4 DEF Phases, SameAt
  <2> QED
    BY <2>2, <2>3
<1>2. ASSUME NEW p \in Pooled, LinkedThread(p) PROVE Phases'
  <2>1. \A d \in Caller : SameAt(call, call', d)
    BY <1>2, ThreadCalls
  <2>2. phase' = phase
    BY <1>2 DEF LinkedThread, ThreadUp, TakeTask, RunTask, CountDown, StoreTerminated, NotifyEnd
  <2>3. CASE phase = "building"
    <3>1. /\ ~disturbed /\ lstate = "TERMINATED" /\ waiting = <<>>
          /\ member \in [Pooled -> {"none", "created", "lock", "asleep", "woken"}]
      BY <2>3 DEF Phases, LinkedTyped
    <3>2. ThreadUp(p) \/ TakeTask(p)
      BY <1>2, <3>1 DEF LinkedThread, RunTask, CountDown, StoreTerminated, NotifyEnd
    <3>3. ~disturbed'
      BY <2>3, <3>1, <3>2 DEF ThreadUp, TakeTask
    <3>4. /\ UNCHANGED <<lstate, waiting>>
          /\ member' \in [Pooled -> {"none", "created", "lock", "asleep", "woken"}]
      BY <3>1, <3>2 DEF ThreadUp, TakeTask, CanTake
    <3> QED
      BY <1>0, <2>1, <2>2, <2>3, <3>1, <3>3, <3>4 DEF Phases, SameAt
  <2>4. CASE phase # "building"
    BY <1>0, <2>1, <2>2, <2>4 DEF Phases, SameAt
  <2> QED
    BY <2>3, <2>4
<1>3. CASE CreateWait(Builder)
  <2>1. call[Builder].op = "create" /\ (phase = "building" \/ phase = "open")
    BY <1>0, <1>3 DEF CreateWait, Doing, Phases, LinkedTyped
  <2>2. CASE WaitOn(Builder)
    <3>1. \A d \in Caller : SameAt(call, call', d)
      BY <1>0, <2>1, <2>2, MoveAt DEF WaitOn
    <3> QED
      BY <1>0, <2>1, <2>2, <3>1 DEF WaitOn, Phases, SameAt
  <2>3. CASE call' = Returned(Builder) /\ phase' = "open"
    <3>1. call'[Builder] = NoCall
      BY <1>0, <2>3, Return
    <3> QED
      BY <2>3, <3>1 DEF Phases, NoCall
  <2> QED
    BY <1>3, <2>2, <2>3 DEF CreateWait
<1>4. ASSUME LinkedResize, ~CreateWait(Builder) PROVE Phases'
  <2>1. phase' = phase /\ phase = "open"
    BY <1>0, <1>4 DEF LinkedResize, BeginResize, Begin, ResizeCompare, ResizeMeasure, CreateThreads,
                      DeleteThreads, Doing, Phases, LinkedTyped
  <2>2. call'[Builder].op # "destroy"
    <3>1. CASE BeginResize
      <4> PICK n \in Resizes : Begin(Builder, "resize", n)
        BY <3>1 DEF BeginResize
      <4> QED
        BY <1>0, LinkedAssumption, Enter DEF Begin, CallOps, Submits, BuilderOps, Ats
    <3>2. CASE ResizeCompare(Builder)
      BY <1>0, <3>2, Return DEF ResizeCompare, Doing, CallsOK, NoCall
    <3>3. CASE ResizeMeasure(Builder)
      BY <1>0, <3>3 DEF ResizeMeasure, CallsOK
    <3>4. CASE CreateThreads(Builder)
      BY <1>0, <3>4 DEF CreateThreads, CallsOK
    <3>5. CASE DeleteThreads(Builder)
      BY <1>0, <3>5, Return DEF DeleteThreads, NoCall
    <3> QED
      BY <1>4, <3>1, <3>2, <3>3, <3>4, <3>5 DEF LinkedResize
  <2> QED
    BY <2>1, <2>2 DEF Phases
<1>5. CASE Destroy
  <2>1. \A d \in Caller : call[d].op = "none"
    BY <1>5 DEF Destroy, Idle, NoCall
  <2>2. call'[Builder].op = "destroy" /\ \A d \in Caller \ {Builder} : call'[d] = call[d]
    BY <1>0, <1>5, Enter DEF Destroy, CallOps, Submits, BuilderOps, Ats
  <2> QED
    BY <1>5, <2>1, <2>2 DEF Destroy, Phases
<1>6. CASE DestroyWait
  <2>1. call[Builder].op = "destroy" /\ phase = "closing"
    BY <1>6 DEF DestroyWait, Doing, Phases, LinkedTyped
  <2>2. CASE WaitOn(Builder)
    <3>1. \A d \in Caller : SameAt(call, call', d)
      BY <1>0, <2>1, <2>2, MoveAt DEF WaitOn
    <3> QED
      BY <1>0, <2>1, <2>2, <3>1 DEF WaitOn, Phases, SameAt
  <2>3. CASE call' = Returned(Builder) /\ phase' = "closed"
    <3>1. call'[Builder] = NoCall /\ \A d \in Caller \ {Builder} : call'[d] = call[d]
      BY <1>0, <2>3, Return
    <3> QED
      BY <2>1, <2>3, <3>1 DEF Phases, NoCall
  <2> QED
    BY <1>6, <2>2, <2>3 DEF DestroyWait
<1>7. CASE UNCHANGED provedVars
  BY <1>7 DEF provedVars, Phases
<1> QED
  BY <1>1, <1>2, <1>3, <1>4, <1>5, <1>6, <1>7, WorkOrStill DEF LinkedWork, LinkedResize

\* shutdown leaves exit tasks only, or nothing changes.
LEMMA ShutdownUndisturbed ==
  ASSUME LinkedTyped, Undisturbed, ShutdownBody, phase # "building", phase' # "building",
         phase' = "closed" => phase = "closed", UNCHANGED <<alive, disturbed>>
  PROVE  Undisturbed'
<1>1. CASE UNCHANGED <<lstate, jobs, waiting, member>>
  BY <1>1 DEF Undisturbed
<1>2. CASE /\ lstate' = "SHUTTING" /\ lstate \notin {"SHUTTING", "TERMINATED"}
           /\ waiting' = Exits(alive) /\ member' = AllRoused
  <2>1. \A i \in 1 .. Len(waiting') : waiting'[i] = Exit
    BY <1>2 DEF Exits, LinkedTyped
  <2>2. \A p \in Pooled : member'[p] \in {"last", "told"} => member[p] = member'[p]
    BY <1>2, Roused
  <2> QED
    BY <1>2, <2>1, <2>2 DEF Undisturbed
<1> QED
  BY <1>1, <1>2 DEF ShutdownBody

\* Every step keeps the end of a pool that nothing has disturbed in order.
LEMMA UndisturbedStep ==
  ASSUME LinkedTyped, CallsOK(call), Creating, Phases, Undisturbed, [LinkedNext]_linkedVars
  PROVE  Undisturbed'
<1> USE DEF Undisturbed
<1>0. Builder \in Caller /\ alive \in Nat
  BY LinkedAssumption DEF LinkedTyped
<1>1. ASSUME NEW c \in Caller, LinkedCall(c) PROVE Undisturbed'
  <2>0. phase' = phase /\ (phase = "open" \/ FallAsleep(c))
    BY <1>1, CallOnlyWhenOpen
  <2>1. CASE UNCHANGED <<lstate, alive, waiting, member, phase, disturbed>>
    BY <2>1
  <2>2. CASE /\ lstate = "RUNNING" /\ member' \in OneRoused
             /\ UNCHANGED <<lstate, alive, phase, disturbed>>
    BY <2>2, Roused
  <2>3. CASE LinkedStopStore(c)
    BY <2>3 DEF LinkedStopStore, OverShutdown, LinkedTyped
  <2>4. CASE LinkedStartStore(c)
    BY <2>4, Roused DEF LinkedStartStore, OverShutdown, LinkedTyped
  <2>5. CASE LinkedClear(c)
    <3>1. waiting' = <<>> /\ UNCHANGED <<lstate, alive, member, phase, disturbed>>
      BY <2>5 DEF LinkedClear
    <3> QED
      BY <3>1
  <2>6. CASE LinkedShutdown(c)
    <3>1. phase = "open"
      BY <2>0, <2>6 DEF LinkedShutdown, FallAsleep, Doing
    <3> QED
      BY <2>6, <3>1, ShutdownUndisturbed DEF LinkedShutdown
  <2> QED
    BY <1>1, <2>1, <2>2, <2>3, <2>4, <2>5, <2>6
       DEF LinkedCall, BeginSubmit, BeginControl, Begin, FallAsleep, Submit, StoppingState, WaitOn,
           LinkedStopTest, LinkedStartTest
<1>2. ASSUME NEW p \in Pooled, LinkedThread(p) PROVE Undisturbed'
  <2>0. /\ member[p] \in UpPlaces => alive > 0
        /\ member \in [Pooled -> UpPlaces \cup {"none", "created", "last", "told", "gone"}]
    BY <1>2, UpIsCounted DEF LinkedTyped
  <2>1. CASE ThreadUp(p)
    <3>1. ~disturbed' /\ phase # "building" => ~disturbed /\ alive # 0
      BY <2>1 DEF ThreadUp
    <3>2. /\ alive' = alive + 1 /\ UNCHANGED <<lstate, waiting, phase>>
          /\ \A q \in Pooled : member'[q] \in {"last", "told"} => member[q] = member'[q]
      BY <2>0, <2>1 DEF ThreadUp
    <3> QED
      BY <1>0, <3>1, <3>2
  <2>2. CASE TakeTask(p)
    <3>1. \A i \in 1 .. Len(waiting') : \E k \in 1 .. Len(waiting) : waiting'[i] = waiting[k]
      <4>1. CASE CanTake
        <5>1. waiting # <<>> /\ waiting' = Tail(waiting)
          BY <2>2, <4>1 DEF TakeTask, CanTake
        <5> QED
          BY <5>1 DEF LinkedTyped
      <4>2. CASE ~CanTake
        BY <2>2, <4>2 DEF TakeTask
      <4> QED
        BY <4>1, <4>2
    <3>2. UNCHANGED <<lstate, alive, phase, disturbed>>
      BY <2>2 DEF TakeTask
    <3>3. \A q \in Pooled : member'[q] \in {"last", "told"} <=> member[q] \in {"last", "told"}
      BY <2>0, <2>2 DEF TakeTask
    <3>4. \A q \in Pooled : member'[q] = "last" => member[q] = "last"
      BY <2>0, <2>2 DEF TakeTask
    <3> QED
      BY <3>1, <3>2, <3>3, <3>4
  <2>3. CASE RunTask(p)
    BY <2>0, <2>3 DEF RunTask
  <2>4. CASE CountDown(p)
    <3>1. alive > 0
      BY <2>0, <2>4 DEF CountDown, UpPlaces
    <3>2. ~disturbed' => ~disturbed /\ (alive # 1 \/ lstate = "SHUTTING")
      BY <2>4 DEF CountDown
    <3>3. /\ alive' = alive - 1 /\ UNCHANGED <<lstate, waiting, phase>>
          /\ member'[p] = IF alive = 1 THEN "last" ELSE "gone"
          /\ \A q \in Pooled \ {p} : member'[q] = member[q]
      BY <2>0, <2>4 DEF CountDown
    <3>4. CASE ~disturbed /\ phase # "building"
      <4>1. /\ \A q \in Pooled : member[q] \notin {"last", "told"}
            /\ lstate # "TERMINATED"
        BY <1>0, <3>1, <3>4
      <4> QED
        BY <1>0, <3>1, <3>2, <3>3, <3>4, <4>1
    <3>5. CASE disturbed \/ phase = "building"
      BY <3>2, <3>3, <3>5
    <3> QED
      BY <3>4, <3>5
  <2>5. CASE StoreTerminated(p)
    BY <2>0, <2>5 DEF StoreTerminated
  <2>6. CASE NotifyEnd(p)
    BY <2>0, <2>6 DEF NotifyEnd
  <2> QED
    BY <1>2, <2>1, <2>2, <2>3, <2>4, <2>5, <2>6 DEF LinkedThread
<1>3. CASE BeginResize \/ ResizeCompare(Builder) \/ ResizeMeasure(Builder)
  BY <1>3 DEF BeginResize, Begin, ResizeCompare, ResizeMeasure
<1>4. CASE CreateThreads(Builder)
  <2>1. \A p \in Pooled : member'[p] \in {"last", "told"} => member[p] = member'[p]
    BY <1>4 DEF CreateThreads
  <2> QED
    BY <1>4, <2>1 DEF CreateThreads
<1>5. CASE CreateWait(Builder)
  <2>1. CASE WaitOn(Builder)
    BY <2>1 DEF WaitOn
  <2>2. CASE /\ alive >= call[Builder].arg
             /\ lstate' = IF lstate = "TERMINATED" THEN "RUNNING" ELSE lstate
             /\ phase' = "open" /\ UNCHANGED <<alive, waiting, member, disturbed>>
    <3>1. alive > 0
      BY <1>0, <1>5, <2>2 DEF CreateWait, Doing, Creating, Resizing, Submits
    <3>2. phase = "building" => \A p \in Pooled : member[p] \notin {"last", "told"}
      BY DEF Phases
    <3>3. phase = "building" => lstate' = "RUNNING"
      BY <2>2 DEF Phases
    <3> QED
      BY <1>0, <2>2, <3>1, <3>2, <3>3
  <2> QED
    BY <1>5, <2>1, <2>2 DEF CreateWait
<1>6. CASE DeleteThreads(Builder)
  <2> DEFINE n == call[Builder].arg
  <2>1. n \in Nat /\ waiting' = Exits(n) \o waiting /\ UNCHANGED <<lstate, alive, member, phase, disturbed>>
    BY <1>6 DEF DeleteThreads, Doing, Creating, Resizing, Submits
  <2> HIDE DEF n
  <2>2. /\ Len(waiting') = n + Len(waiting) /\ Len(waiting) \in Nat
        /\ \A i \in 1 .. n + Len(waiting) : waiting'[i] = IF i <= n THEN Exit ELSE waiting[i - n]
    <3>1. Len(waiting) \in Nat
      BY DEF LinkedTyped
    <3> QED
      BY <2>1, <3>1, ExitsInFront
  <2>3. (\A i \in 1 .. Len(waiting) : waiting[i] = Exit) => \A i \in 1 .. Len(waiting') : waiting'[i] = Exit
    BY <2>1, <2>2
  <2> QED
    BY <2>1, <2>3
<1>7. CASE Destroy
  <2>1. /\ ShutdownBody /\ phase # "building" /\ phase' # "building" /\ phase' # "closed"
        /\ UNCHANGED <<alive, disturbed>>
    BY <1>7 DEF Destroy
  <2> HIDE DEF Undisturbed
  <2> QED
    BY <2>1, ShutdownUndisturbed
<1>8. CASE DestroyWait
  <2>1. CASE WaitOn(Builder)
    BY <2>1 DEF WaitOn
  <2>2. CASE /\ lstate = "TERMINATED" /\ phase' = "closed"
             /\ UNCHANGED <<lstate, alive, waiting, member, disturbed>>
    <3>1. phase = "closing"
      BY <1>8 DEF DestroyWait, Doing, Phases, LinkedTyped
    <3> QED
      BY <2>2, <3>1
  <2> QED
    BY <1>8, <2>1, <2>2 DEF DestroyWait
<1>9. CASE UNCHANGED provedVars
  BY <1>9 DEF provedVars
<1> QED
  BY <1>1, <1>2, <1>3, <1>4, <1>5, <1>6, <1>7, <1>8, <1>9, WorkOrStill DEF LinkedWork, LinkedResize

\* The invariant is inductive,
LEMMA LinkedStep == LinkedInv /\ [LinkedNext]_linkedVars => LinkedInv'
BY CallsStep, LinkedTypedStep, PendingStep, PlacesStep, CountsStep, ResizingStep, PhasesStep,
   UndisturbedStep DEF LinkedInv, JobsPlaced, Creating

\* holds when the constructor begins,
LEMMA LinkedInitially == LinkedInit => LinkedInv
<1> SUFFICES ASSUME LinkedInit
             PROVE  LinkedInv
  OBVIOUS
<1>1. PICK first \in SUBSET Pooled :
         /\ Cardinality(first) = FirstThreads
         /\ member = [p \in Pooled |-> IF p \in first THEN "created" ELSE "none"]
         /\ call = [c \in Caller |->
                      IF c = Builder THEN [op |-> "create", at |-> "test", arg |-> FirstThreads]
                                   ELSE NoCall]
  BY DEF LinkedInit
<1>2. /\ lstate = "TERMINATED" /\ alive = 0 /\ waiting = <<>>
      /\ doing = [p \in Pooled |-> Exit] /\ jobs = [j \in Job |-> "new"]
      /\ phase = "building" /\ disturbed = FALSE
  BY DEF LinkedInit
<1>3. FirstThreads \in Nat /\ FirstThreads > 0 /\ Builder \in Caller /\ Exit \notin Job
  <2>1. Cardinality(Pooled) \in Nat
    BY LinkedAssumption, FS_CardinalityType
  <2> QED
    BY <2>1, LinkedAssumption
<1>4. NewSet = first /\ UpSet = {} /\ IsFiniteSet(first)
  <2>1. NewSet = first
    BY <1>1 DEF NewSet
  <2>2. UpSet = {}
    BY <1>1 DEF UpSet, UpPlaces
  <2>3. IsFiniteSet(first)
    BY LinkedAssumption, FS_Subset
  <2> QED
    BY <2>1, <2>2, <2>3
<1>5. LinkedTyped
  <2>1. member \in [Pooled -> {"created", "none"}]
    BY <1>1
  <2>2. waiting \in Seq(Job \cup {Exit})
    BY <1>2
  <2> QED
    BY <1>2, <2>1, <2>2 DEF LinkedTyped
<1>6. CallsOK(call)
  BY <1>1, <1>3 DEF CallsOK, NoCall, CallOps, Submits, BuilderOps, Ats
<1>7. JobsPlaced
  BY <1>1, <1>2, <1>3 DEF JobsPlaced, Listed, Held, Pending, Submits, NoCall
<1>8. Creating
  BY <1>1, <1>2, <1>3, <1>4, FS_EmptySet DEF Creating, Counts, Resizing, BuilderOps, Submits, NoCall
<1>9. Phases /\ Undisturbed
  BY <1>1, <1>2, <1>3 DEF Phases, Undisturbed, NoCall
<1> QED
  BY <1>5, <1>6, <1>7, <1>8, <1>9 DEF LinkedInv

\* and implies the property.
LEMMA LinkedInvExact == LinkedInv => LinkedPoolExact
<1> SUFFICES ASSUME LinkedInv
             PROVE  LinkedPoolExact
  OBVIOUS
<1>1. ASSUME NEW j \in Job PROVE JobPlaced(j)
  <2> DEFINE places == {i \in 1..Len(waiting) : waiting[i] = j}
             holders == {p \in Pooled : doing[p] = j}
  <2>1. (\A i, k \in places : i = k) /\ ((jobs[j] = "queued") <=> places # {})
    BY DEF LinkedInv, JobsPlaced, Listed
  <2>2. (\A p, q \in holders : p = q) /\ ((jobs[j] = "running") <=> holders # {})
    BY DEF LinkedInv, JobsPlaced, Held
  <2> QED
    BY <2>1, <2>2, OneOrNone DEF JobPlaced
<1>2. ASSUME phase = "closed", ~disturbed
      PROVE  /\ \A p \in Pooled : member[p] \in {"none", "told", "gone"}
             /\ \A j \in Job : jobs[j] \notin {"queued", "running"}
  <2>1. lstate = "TERMINATED" /\ alive = 0 /\ \A p \in Pooled : member[p] # "last"
    BY <1>2 DEF LinkedInv, Undisturbed
  <2>2. \A p \in Pooled : member[p] # "created"
    BY <1>2 DEF LinkedInv, Phases, Creating, Resizing, NewSet
  <2>3. \A p \in Pooled : member[p] \in {"none", "told", "gone"}
    BY <2>1, <2>2, UpIsCounted DEF LinkedInv, LinkedTyped
  <2>4. \A i \in 1..Len(waiting) : waiting[i] = Exit
    BY <1>2, <2>1 DEF LinkedInv, Undisturbed
  <2>5. \A p \in Pooled : doing[p] = Exit
    BY <2>3 DEF LinkedInv, JobsPlaced, Held
  <2> QED
    BY <2>3, <2>4, <2>5, LinkedAssumption DEF LinkedInv, JobsPlaced, Listed, Held
<1> QED
  BY <1>1, <1>2 DEF LinkedPoolExact

\* Whatever the callers, the resizes of Builder and the threads interleave to, a
\* task of LinkedThreadPool is run or killed at most once, and the destructor
\* of a pool that was not disturbed returns when no thread and no accepted task is
\* left (LinkedThreadPool.cpp).
THEOREM LinkedPoolIsExact == LinkedSpec => []LinkedPoolExact
<1> QED
  BY LinkedInitially, LinkedStep, LinkedInvExact, PTL DEF LinkedSpec

=============================================================================
