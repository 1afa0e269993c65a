---------------------------- MODULE ReadWriteLock ----------------------------
(***************************************************************************)
(* Rx::ReadWriteLock (Atomic.hpp, src/Atomic.cpp): three counters _reader, *)
(* _writer and _pending guarded by a MutexLock _mutex, with waiting done   *)
(* on a ConditionVariable _condition.  Every call takes the mutex through  *)
(* a LockGuard, so a call is: acquire the mutex (a step that waits while   *)
(* another thread owns it), the body under the mutex (one step), and the   *)
(* release by ~LockGuard, or, inside a `while (...) wait`, the atomic      *)
(* release-and-sleep of pthread_cond_wait, a wake-up, and a reacquire.     *)
(*                                                                         *)
(* Readers only call the read functions, writers only the write ones; a    *)
(* thread unlocks only what it holds, as the asserts of unlockRead and     *)
(* unlockWrite require.                                                    *)
(***************************************************************************)
EXTENDS Naturals, FiniteSets

CONSTANTS
    Readers,   \* threads calling lockRead / tryLockRead / unlockRead
    Writers,   \* threads calling lockWrite / tryLockWrite / unlockWrite
    NoThread   \* the owner of a free mutex

Threads == Readers \cup Writers

ASSUME Readers \cap Writers = {} /\ NoThread \notin Threads

VARIABLES
    mtx,       \* the owner of _mutex, or NoThread
    waiting,   \* the threads asleep in _condition.wait
    reader,    \* _reader
    writer,    \* _writer
    pending,   \* _pending
    op,        \* the call each thread is in ("none" between calls)
    stage,     \* "mutex", "body", "wait", "wake" or "rebody" within op
    held       \* what each thread holds: "none", "read" or "write"

vars == <<mtx, waiting, reader, writer, pending, op, stage, held>>

-----------------------------------------------------------------------------
(* MutexLock and ConditionVariable.                                        *)

\* MutexLock::lock: pthread_mutex_lock blocks while another thread owns the
\* mutex.  The mutex is PTHREAD_MUTEX_RECURSIVE, but no ReadWriteLock call
\* locks it twice.
lock(t) == mtx = NoThread /\ mtx' = t

\* MutexLock::unlock, run by ~LockGuard when a call returns.
unlock(t) == mtx' = NoThread

\* ConditionVariable::wait: pthread_cond_wait releases the mutex and puts
\* the thread to sleep in one atomic step.
wait(t) ==
    /\ mtx' = NoThread
    /\ waiting' = waiting \cup {t}
    /\ stage' = [stage EXCEPT ![t] = "wait"]

\* ConditionVariable::notifyAll: pthread_cond_broadcast wakes every sleeper;
\* each then reacquires the mutex before its wait returns.
notifyAll ==
    /\ waiting' = {}
    /\ stage' = [u \in Threads |-> IF u \in waiting THEN "wake" ELSE stage[u]]

-----------------------------------------------------------------------------
(* The calls.                                                              *)

\* A thread between calls starts one: readers a read call, writers a write
\* call, unlocking only what they hold.
Call(t, o) ==
    /\ op[t] = "none"
    /\ o \in IF t \in Readers
             THEN IF held[t] = "read" THEN {"unlockRead"} ELSE {"lockRead", "tryLockRead"}
             ELSE IF held[t] = "write" THEN {"unlockWrite"} ELSE {"lockWrite", "tryLockWrite"}
    /\ op' = [op EXCEPT ![t] = o]
    /\ stage' = [stage EXCEPT ![t] = "mutex"]
    /\ UNCHANGED <<mtx, waiting, reader, writer, pending, held>>

\* LockGuard lock(_mutex), at the start of a call or after a wake-up.
Acquire(t) ==
    /\ op[t] # "none" /\ stage[t] \in {"mutex", "wake"}
    /\ lock(t)
    /\ stage' = [stage EXCEPT ![t] = IF @ = "mutex" THEN "body" ELSE "rebody"]
    /\ UNCHANGED <<waiting, reader, writer, pending, op, held>>

\* A spurious wake-up, which pthread_cond_wait allows.
SpuriousWakeup(t) ==
    /\ t \in waiting
    /\ waiting' = waiting \ {t}
    /\ stage' = [stage EXCEPT ![t] = "wake"]
    /\ UNCHANGED <<mtx, reader, writer, pending, op, held>>

\* The call returns; ~LockGuard unlocks the mutex.
return(t, h) ==
    /\ unlock(t)
    /\ op' = [op EXCEPT ![t] = "none"]
    /\ held' = [held EXCEPT ![t] = h]

\* Variant: readers wait only for a writer that holds the lock.
LockRead_ignoresPending(t) ==
    /\ op[t] = "lockRead" /\ stage[t] \in {"body", "rebody"}
    /\ IF writer > 0
       THEN wait(t) /\ UNCHANGED <<reader, op, held>>
       ELSE /\ reader' = reader + 1
            /\ return(t, "read")
            /\ UNCHANGED <<waiting, stage>>
    /\ UNCHANGED <<writer, pending>>

\* lockRead: `while (_writer > 0 || _pending > 0) wait; ++_reader;`
LockRead(t) ==
    /\ op[t] = "lockRead" /\ stage[t] \in {"body", "rebody"}
    /\ IF writer > 0 \/ pending > 0
       THEN wait(t) /\ UNCHANGED <<reader, op, held>>
       ELSE /\ reader' = reader + 1
            /\ return(t, "read")
            /\ UNCHANGED <<waiting, stage>>
    /\ UNCHANGED <<writer, pending>>

\* tryLockRead: false while a writer holds or waits, else ++_reader.
TryLockRead(t) ==
    /\ op[t] = "tryLockRead" /\ stage[t] = "body"
    /\ IF writer > 0 \/ pending > 0
       THEN return(t, "none") /\ UNCHANGED reader
       ELSE reader' = reader + 1 /\ return(t, "read")
    /\ UNCHANGED <<waiting, writer, pending, stage>>

\* unlockRead: --_reader; the last reader wakes every waiter.
UnlockRead(t) ==
    /\ op[t] = "unlockRead" /\ stage[t] = "body"
    /\ reader' = reader - 1
    /\ IF reader' = 0 THEN notifyAll ELSE UNCHANGED <<waiting, stage>>
    /\ return(t, "none")
    /\ UNCHANGED <<writer, pending>>

\* Variant: _pending is incremented on every round of the loop.
LockWrite_pendingEachRound(t) ==
    /\ op[t] = "lockWrite" /\ stage[t] \in {"body", "rebody"}
    /\ LET p == pending + 1
       IN  IF writer > 0 \/ reader > 0
           THEN /\ wait(t) /\ pending' = p
                /\ UNCHANGED <<writer, op, held>>
           ELSE /\ pending' = p - 1 /\ writer' = writer + 1
                /\ return(t, "write")
                /\ UNCHANGED <<waiting, stage>>
    /\ UNCHANGED reader

\* lockWrite: `++_pending;` once, then `while (_writer > 0 || _reader > 0)
\* wait; --_pending; ++_writer;`.
LockWrite(t) ==
    /\ op[t] = "lockWrite" /\ stage[t] \in {"body", "rebody"}
    /\ LET p == IF stage[t] = "body" THEN pending + 1 ELSE pending
       IN  IF writer > 0 \/ reader > 0
           THEN /\ wait(t) /\ pending' = p
                /\ UNCHANGED <<writer, op, held>>
           ELSE /\ pending' = p - 1 /\ writer' = writer + 1
                /\ return(t, "write")
                /\ UNCHANGED <<waiting, stage>>
    /\ UNCHANGED reader

\* Variant: tryLockWrite checks only for another writer.
TryLockWrite_ignoresReaders(t) ==
    /\ op[t] = "tryLockWrite" /\ stage[t] = "body"
    /\ IF writer > 0
       THEN return(t, "none") /\ UNCHANGED writer
       ELSE writer' = writer + 1 /\ return(t, "write")
    /\ UNCHANGED <<waiting, reader, pending, stage>>

\* tryLockWrite: false while anyone holds the lock, else ++_writer.  It
\* does not look at _pending.
TryLockWrite(t) ==
    /\ op[t] = "tryLockWrite" /\ stage[t] = "body"
    /\ IF writer > 0 \/ reader > 0
       THEN return(t, "none") /\ UNCHANGED writer
       ELSE writer' = writer + 1 /\ return(t, "write")
    /\ UNCHANGED <<waiting, reader, pending, stage>>

\* Variant: unlockWrite decrements the wrong counter, _pending.
UnlockWrite_decrementsPending(t) ==
    /\ op[t] = "unlockWrite" /\ stage[t] = "body"
    /\ pending' = pending - 1
    /\ notifyAll
    /\ return(t, "none")
    /\ UNCHANGED <<reader, writer>>

\* unlockWrite: --_writer and wake every waiter.
UnlockWrite(t) ==
    /\ op[t] = "unlockWrite" /\ stage[t] = "body"
    /\ writer' = writer - 1
    /\ notifyAll
    /\ return(t, "none")
    /\ UNCHANGED <<reader, pending>>

\* ReadWriteLock(): all counters 0.
Init ==
    /\ mtx = NoThread /\ waiting = {}
    /\ reader = 0 /\ writer = 0 /\ pending = 0
    /\ op = [t \in Threads |-> "none"]
    /\ stage = [t \in Threads |-> "mutex"]
    /\ held = [t \in Threads |-> "none"]

\* The steps a thread takes inside a call once it holds the mutex.
Body(t) ==
    \/ LockRead(t) \/ TryLockRead(t) \/ UnlockRead(t)
    \/ LockWrite(t) \/ TryLockWrite(t) \/ UnlockWrite(t)

Next ==
    \E t \in Threads :
        \/ \E o \in {"lockRead", "tryLockRead", "unlockRead",
                     "lockWrite", "tryLockWrite", "unlockWrite"} : Call(t, o)
        \/ Acquire(t)
        \/ Body(t)
        \/ SpuriousWakeup(t)

\* A thread that owns the mutex runs its body (weak fairness); a thread
\* waiting for the mutex gets it if it is free infinitely often (strong
\* fairness: pthread mutexes hand the lock to some waiter, and the model
\* assumes the scheduler does not pass one waiter over for ever); a
\* thread that holds the lock eventually unlocks it (the client's critical
\* section ends).
Fairness ==
    \A t \in Threads :
        /\ WF_vars(Body(t))
        /\ SF_vars(Acquire(t))
        /\ WF_vars(Call(t, "unlockRead")) /\ WF_vars(Call(t, "unlockWrite"))

Spec == Init /\ [][Next]_vars /\ Fairness

-----------------------------------------------------------------------------
(* Properties.                                                             *)

Holding(h) == {t \in Threads : held[t] = h}

TypeOK ==
    /\ mtx \in Threads \cup {NoThread}
    /\ waiting \subseteq Threads
    /\ reader \in Nat /\ writer \in Nat /\ pending \in Nat
    /\ held \in [Threads -> {"none", "read", "write"}]

\* The lock's promise: a writer holds it alone; readers share it only
\* with readers.
ReadersWritersExclusive ==
    /\ Cardinality(Holding("write")) <= 1
    /\ Holding("write") # {} => Holding("read") = {}

\* The counters, which each call reads and writes under the mutex, stay
\* equal to what the threads hold and do: _reader and _writer count the
\* holders, _pending the threads inside lockWrite that have incremented it
\* and not yet taken the lock, across every wait and wake-up.
CountersMatchThreads ==
    /\ reader = Cardinality(Holding("read"))
    /\ writer = Cardinality(Holding("write"))
    /\ pending = Cardinality({t \in Writers :
                                op[t] = "lockWrite"
                                /\ stage[t] \notin {"mutex", "body"}})

\* Readers cannot starve the writers: once a writer is waiting in
\* lockWrite, some writer eventually holds the lock, however the readers
\* keep taking and releasing it.
WaitingWriterServed ==
    \A t \in Writers :
        (op[t] = "lockWrite" /\ stage[t] = "wait") ~> (Holding("write") # {})

=============================================================================
