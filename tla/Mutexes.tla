------------------------------ MODULE Mutexes ------------------------------
(***************************************************************************)
(* Base::Mutex, Base::ReentrantMutex and Base::Condition (src/Base/        *)
(* Mutex.hpp and Condition.hpp; SpinMutex is the same code over a spin     *)
(* lock).  The pthread mutex is paired with a word, _owner_thread, that is *)
(* written just after the mutex is taken and just before it is given up,   *)
(* and that lock() and unlock() trust.  Every access to one of the two is  *)
(* a step.                                                                 *)
(*                                                                         *)
(* A behaviour uses one mutex, reentrant or not.  Condition::wait does not *)
(* save the counter of a ReentrantMutex, so only a Mutex is waited on.     *)
(***************************************************************************)
EXTENDS Naturals

CONSTANTS
    User,       \* the threads that use the mutex
    Nobody,     \* _owner_thread = 0, and a mutex that is not taken
    MaxDepth    \* bound: nested locks of one thread

ASSUME MutexAssumption == Nobody \notin User /\ MaxDepth \in Nat \ {0}

VARIABLES
    reentrant,  \* which of the two classes
    taken,      \* the thread that has the pthread mutex
    owner,      \* _owner_thread
    counter,    \* ReentrantMutex::_counter
    at,         \* what each thread is doing
    depth       \* history: the locks each thread holds

mutexVars == <<reentrant, taken, owner, counter, at, depth>>

is_owner(u) == owner = u

MutexInit ==
    /\ reentrant \in BOOLEAN
    /\ taken = Nobody /\ owner = Nobody /\ counter = 0
    /\ at = [u \in User |-> "out"]
    /\ depth = [u \in User |-> 0]

Go(u, where) == at' = [at EXCEPT ![u] = where]

\* lock(): the owner of a ReentrantMutex counts; of a Mutex it would abort.
LockCall(u) ==
    /\ at[u] = "out" \/ (at[u] = "in" /\ reentrant /\ depth[u] < MaxDepth)
    /\ \/ /\ reentrant /\ is_owner(u)
          /\ counter' = counter + 1
          /\ depth' = [depth EXCEPT ![u] = @ + 1]
          /\ UNCHANGED at
       \/ /\ ~(reentrant /\ is_owner(u))
          /\ Go(u, IF is_owner(u) THEN "aborted" ELSE "acquire")
          /\ UNCHANGED <<counter, depth>>
    /\ UNCHANGED <<reentrant, taken, owner>>

PthreadLock(u) ==
    /\ at[u] = "acquire" /\ taken = Nobody
    /\ taken' = u
    /\ Go(u, "own")
    /\ UNCHANGED <<reentrant, owner, counter, depth>>

\* _owner_thread = tid(), and ++_counter
SetOwner(u) ==
    /\ at[u] = "own"
    /\ owner' = u
    /\ counter' = IF reentrant THEN counter + 1 ELSE counter
    /\ depth' = [depth EXCEPT ![u] = @ + 1]
    /\ Go(u, "in")
    /\ UNCHANGED <<reentrant, taken>>

\* try_lock(): the owner of a ReentrantMutex counts; anybody else, and the
\* owner of a Mutex, tries the pthread mutex.
TryAgain(u) ==
    /\ at[u] = "in" /\ reentrant /\ is_owner(u) /\ depth[u] < MaxDepth
    /\ counter' = counter + 1
    /\ depth' = [depth EXCEPT ![u] = @ + 1]
    /\ UNCHANGED <<reentrant, taken, owner, at>>

TryLock(u) ==
    /\ at[u] \in {"out", "in"} /\ ~(reentrant /\ is_owner(u))
    /\ IF taken = Nobody THEN taken' = u /\ Go(u, "own") ELSE UNCHANGED <<taken, at>>
    /\ UNCHANGED <<reentrant, owner, counter, depth>>

\* A bug for Unlock: is_owner() is not asked.
MutUnlocksAny(u) ==
    /\ at[u] \in {"out", "in"}
    /\ depth' = [depth EXCEPT ![u] = 0]
    /\ counter' = 0
    /\ owner' = Nobody
    /\ Go(u, "release")
    /\ UNCHANGED <<reentrant, taken>>

\* unlock(): nothing for a thread that is not the owner, the last one clears
\* the word before it gives up the pthread mutex.
Unlock(u) ==
    /\ at[u] \in {"out", "in"}
    /\ depth' = [depth EXCEPT ![u] = IF @ = 0 THEN 0 ELSE @ - 1]
    /\ \/ /\ ~is_owner(u)
          /\ UNCHANGED <<owner, counter, at>>
       \/ /\ is_owner(u)
          /\ counter' = IF reentrant THEN counter - 1 ELSE counter
          /\ IF counter' = 0 THEN owner' = Nobody /\ Go(u, "release")
                             ELSE UNCHANGED <<owner, at>>
    /\ UNCHANGED <<reentrant, taken>>

PthreadUnlock(u) ==
    /\ at[u] = "release"
    /\ taken' = Nobody
    /\ Go(u, "out")
    /\ UNCHANGED <<reentrant, owner, counter, depth>>

\* Condition::wait and wait_until: the word is cleared, the mutex given up
\* with the sleep, taken again by a notification, a time-out or for no
\* reason, and the word set again.
Wait(u) ==
    /\ at[u] = "in" /\ ~reentrant
    /\ owner' = Nobody
    /\ Go(u, "parking")
    /\ UNCHANGED <<reentrant, taken, counter, depth>>

Park(u) ==
    /\ at[u] = "parking"
    /\ taken' = Nobody
    /\ Go(u, "parked")
    /\ UNCHANGED <<reentrant, owner, counter, depth>>

Wake(u) ==
    /\ at[u] = "parked" /\ taken = Nobody
    /\ taken' = u
    /\ Go(u, "back")
    /\ UNCHANGED <<reentrant, owner, counter, depth>>

WaitReturns(u) ==
    /\ at[u] = "back"
    /\ owner' = u
    /\ Go(u, "in")
    /\ UNCHANGED <<reentrant, taken, counter, depth>>

MutexNext ==
    \E u \in User :
        \/ LockCall(u) \/ PthreadLock(u) \/ SetOwner(u)
        \/ TryAgain(u) \/ TryLock(u) \/ Unlock(u) \/ PthreadUnlock(u)
        \/ Wait(u) \/ Park(u) \/ Wake(u) \/ WaitReturns(u)

MutexSpec == MutexInit /\ [][MutexNext]_mutexVars

-----------------------------------------------------------------------------
\* The word and the mutex never disagree to anybody who trusts them: a thread
\* that is inside has the pthread mutex, is the owner and, on a
\* ReentrantMutex, is counted as often as it locked; is_owner() is false for
\* everybody else, so no lock() aborts and no unlock() gives up another
\* thread's mutex; and when nobody is inside or on the way in or out, the
\* mutex is free.
OwnerAgrees ==
    /\ \A u \in User :
          /\ at[u] = "in" => taken = u /\ is_owner(u) /\ depth[u] > 0
          /\ is_owner(u) => at[u] = "in"
          /\ at[u] = "in" /\ reentrant => counter = depth[u]
          /\ at[u] # "aborted"
    /\ (\A u \in User : at[u] \in {"out", "acquire", "parked"})
          => taken = Nobody /\ counter = 0

=============================================================================
