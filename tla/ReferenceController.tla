------------------------- MODULE ReferenceController -------------------------
(***************************************************************************)
(* The reference controller behind SharedRef, SharedPtr and WeakPtr        *)
(* (RxFoundation/SharedPointerInternals.hpp), used from several threads.   *)
(*                                                                         *)
(* One controller counts the shared and the weak references to one object  *)
(* (ReferenceControllerBase).  Every thread owns one SharedReferencer and  *)
(* one WeakReferencer (the count members of a SharedPtr and a WeakPtr);    *)
(* shared[t] and weak[t] say whether they point at the controller.  A      *)
(* thread copies another thread's pointer only while that thread is not    *)
(* in a call on it (a pointer object itself is not thread-safe; its counts *)
(* are).  Every call of ReferenceControllerOps is split at its atomic      *)
(* operations, so the threads interleave there, as the hardware lets them. *)
(*                                                                         *)
(* mode is the ESPMode, a template argument fixed for a pointer's life:    *)
(* ThreadSafe uses the interlocked operations of Atomic.hpp; NotThreadSafe *)
(* uses ++ and -- and is only correct when the client serialises every     *)
(* call on the pointers (a lock around them), so in that mode a thread     *)
(* starts a call only when no other is inside one.                         *)
(* ESPMode::Fast is ThreadSafe, as FORCE_THREADSAFE_SHAREDPTRS is 1.       *)
(***************************************************************************)
EXTENDS Naturals, FiniteSets

CONSTANTS
    Threads,   \* the threads that hold pointers to the object
    Modes      \* the ESPModes instantiated: "ThreadSafe", "NotThreadSafe"

ASSUME Modes # {} /\ Modes \subseteq {"ThreadSafe", "NotThreadSafe"}

VARIABLES
    ctrl,      \* [state, SharedReferenceCount, WeakReferenceCount, object]
    shared,    \* shared[t]: t's SharedReferencer holds the controller
    weak,      \* weak[t]: t's WeakReferencer holds the controller
    pc,        \* where t is inside a ReferenceControllerOps call
    orig,      \* OriginalCount, the local of ConditionallyAddSharedReference
    mode       \* the ESPMode of the pointers

vars == <<ctrl, shared, weak, pc, orig, mode>>

Idle(t) == pc[t] = "idle"

\* t may start a call: it is in none, and in NotThreadSafe mode nobody is.
CanStart(t) == Idle(t) /\ (mode = "NotThreadSafe" => \A u \in Threads : Idle(u))
Live    == ctrl.state = "live"

-----------------------------------------------------------------------------
(* Atomic.hpp: the interlocked operations, each one atomic step.           *)

\* InterlockedIncrement / InterlockedDecrement return the new value.
InterlockedIncrement(v) == v + 1
InterlockedDecrement(v) == v - 1

\* InterlockedCompareExchange(Dest, Exchange, Comparand): the value Dest
\* held, Exchange stored when it was Comparand.  The Darwin version retries
\* OSAtomicCompareAndSwap32Barrier until it succeeds or reads a value other
\* than Comparand, so it returns Comparand exactly when it stored.
InterlockedCompareExchange(dest, exchange, comparand) ==
    [old |-> dest, new |-> IF dest = comparand THEN exchange ELSE dest]

-----------------------------------------------------------------------------
(* Operations.  A thread starts a call only from idle.                     *)

\* SharedPtr(new Object) / MakeShareable: NewDefaultReferenceController,
\* whose ReferenceControllerBase constructor sets both counts to 1.  The
\* model has one controller at a time: a new one once the last is deleted.
MakeShared(t) ==
    /\ CanStart(t) /\ ~Live /\ ~shared[t]
    /\ ctrl' = [state |-> "live", SharedReferenceCount |-> 1,
                WeakReferenceCount |-> 1, object |-> "alive"]
    /\ shared' = [shared EXCEPT ![t] = TRUE]
    /\ UNCHANGED <<weak, pc, orig>>

\* SharedReferencer copy constructor (and operator= into a null one):
\* AddSharedReference on the source's controller.
CopyShared(t, u) ==
    /\ CanStart(t) /\ Idle(u) /\ t # u /\ shared[u] /\ ~shared[t]
    /\ ctrl' = [ctrl EXCEPT !.SharedReferenceCount = InterlockedIncrement(@)]
    /\ shared' = [shared EXCEPT ![t] = TRUE]
    /\ UNCHANGED <<weak, pc, orig>>

\* Variant: the move adds a reference, as a copy does.
MoveShared_addsReference(t, u) ==
    /\ CanStart(t) /\ Idle(u) /\ t # u /\ shared[u] /\ ~shared[t]
    /\ ctrl' = [ctrl EXCEPT !.SharedReferenceCount = @ + 1]
    /\ shared' = [shared EXCEPT ![t] = TRUE, ![u] = FALSE]
    /\ UNCHANGED <<weak, pc, orig>>

\* SharedReferencer move constructor / move assignment into a null one:
\* the controller pointer changes hands, no count changes.
MoveShared(t, u) ==
    /\ CanStart(t) /\ Idle(u) /\ t # u /\ shared[u] /\ ~shared[t]
    /\ shared' = [shared EXCEPT ![t] = TRUE, ![u] = FALSE]
    /\ UNCHANGED <<ctrl, weak, pc, orig>>

\* Variant: the last release goes straight to the weak release, without
\* DestroyObject.
ReleaseSharedReference_skipsDestroy(t) ==
    /\ CanStart(t) /\ shared[t]
    /\ LET n == InterlockedDecrement(ctrl.SharedReferenceCount)
       IN  /\ ctrl' = [ctrl EXCEPT !.SharedReferenceCount = n]
           /\ pc' = [pc EXCEPT ![t] = IF n = 0 THEN "releaseWeak" ELSE "idle"]
    /\ shared' = [shared EXCEPT ![t] = FALSE]
    /\ UNCHANGED <<weak, orig>>

\* ~SharedReferencer (also SharedPtr::reset, operator=(nullptr)):
\* ReleaseSharedReference.  The decrement (RxCheck(count > 0) before it is
\* an assert of debug builds; CountsMatchReferencers implies it); the
\* thread that reaches 0 goes on to destroy the object.
ReleaseSharedReference(t) ==
    /\ CanStart(t) /\ shared[t]
    /\ LET n == InterlockedDecrement(ctrl.SharedReferenceCount)
       IN  /\ ctrl' = [ctrl EXCEPT !.SharedReferenceCount = n]
           /\ pc' = [pc EXCEPT ![t] = IF n = 0 THEN "destroy" ELSE "idle"]
    /\ shared' = [shared EXCEPT ![t] = FALSE]
    /\ UNCHANGED <<weak, orig>>

\* ReferenceController->DestroyObject(): the deleter runs on the object.
DestroyObject(t) ==
    /\ pc[t] = "destroy"
    /\ ctrl' = [ctrl EXCEPT !.object = "destroyed"]
    /\ pc' = [pc EXCEPT ![t] = "releaseWeak"]
    /\ UNCHANGED <<shared, weak, orig>>

\* Variant: the controller is deleted when the count reaches 1.
releaseWeak_deletesAtOne(c) ==
    LET n == InterlockedDecrement(c.WeakReferenceCount)
    IN  [c EXCEPT !.WeakReferenceCount = n,
                  !.state = IF n <= 1 THEN "deleted" ELSE @]

\* ReleaseWeakReference: the decrement (after an RxCheck) and
\* `delete ReferenceController` by the thread that reaches 0.
releaseWeak(c) ==
    LET n == InterlockedDecrement(c.WeakReferenceCount)
    IN  [c EXCEPT !.WeakReferenceCount = n,
                  !.state = IF n = 0 THEN "deleted" ELSE @]

\* The ReleaseWeakReference that ends ReleaseSharedReference: the weak
\* reference all shared references held together.
ReleaseWeakAfterShared(t) ==
    /\ pc[t] = "releaseWeak"
    /\ ctrl' = releaseWeak(ctrl)
    /\ pc' = [pc EXCEPT ![t] = "idle"]
    /\ UNCHANGED <<shared, weak, orig>>

\* WeakReferencer(SharedReferencer const &) and WeakReferencer copy
\* constructor (and AssignReferenceController into a null one), from u's
\* shared or weak pointer: AddWeakReference.
AddWeakReference(t, u) ==
    /\ CanStart(t) /\ Idle(u) /\ ~weak[t]
    /\ (shared[u] \/ (weak[u] /\ u # t))
    /\ ctrl' = [ctrl EXCEPT !.WeakReferenceCount = InterlockedIncrement(@)]
    /\ weak' = [weak EXCEPT ![t] = TRUE]
    /\ UNCHANGED <<shared, pc, orig>>

\* Variant: the weak pointer is released but keeps its controller.
ReleaseWeakReference_keepsPointer(t) ==
    /\ CanStart(t) /\ weak[t]
    /\ ctrl' = releaseWeak(ctrl)
    /\ UNCHANGED <<shared, weak, pc, orig>>

\* ~WeakReferencer (also WeakPtr::reset): ReleaseWeakReference.
ReleaseWeakReference(t) ==
    /\ CanStart(t) /\ weak[t]
    /\ ctrl' = releaseWeak(ctrl)
    /\ weak' = [weak EXCEPT ![t] = FALSE]
    /\ UNCHANGED <<shared, pc, orig>>

\* WeakPtr::pin(), i.e. SharedReferencer(WeakReferencer const &) calling
\* ConditionallyAddSharedReference (ThreadSafe).  First step of each round
\* of the for(;;): peek at the count; 0 means expired, pin() returns an
\* invalid pointer (ReferenceController = nullptr).
PinRead(t) ==
    /\ mode = "ThreadSafe"
    /\ \/ Idle(t) /\ weak[t] /\ ~shared[t]
       \/ pc[t] = "pinRead"
    /\ IF ctrl.SharedReferenceCount = 0
       THEN pc' = [pc EXCEPT ![t] = "idle"] /\ UNCHANGED orig
       ELSE /\ pc' = [pc EXCEPT ![t] = "pinCAS"]
            /\ orig' = [orig EXCEPT ![t] = ctrl.SharedReferenceCount]
    /\ UNCHANGED <<ctrl, shared, weak>>

\* Variant: the CAS is replaced by an increment of whatever the count is.
PinCAS_noCompare(t) ==
    /\ pc[t] = "pinCAS"
    /\ ctrl' = [ctrl EXCEPT !.SharedReferenceCount = @ + 1]
    /\ shared' = [shared EXCEPT ![t] = TRUE]
    /\ pc' = [pc EXCEPT ![t] = "idle"]
    /\ UNCHANGED <<weak, orig>>

\* Second step: InterlockedCompareExchange(count, OriginalCount + 1,
\* OriginalCount); success makes the new SharedPtr valid, a count changed
\* by another thread meanwhile sends the loop round again.
PinCAS(t) ==
    /\ pc[t] = "pinCAS"
    /\ LET r == InterlockedCompareExchange(ctrl.SharedReferenceCount,
                                           orig[t] + 1, orig[t])
       IN  /\ ctrl' = [ctrl EXCEPT !.SharedReferenceCount = r.new]
           /\ IF r.old = orig[t]
              THEN shared' = [shared EXCEPT ![t] = TRUE]
                   /\ pc' = [pc EXCEPT ![t] = "idle"]
              ELSE pc' = [pc EXCEPT ![t] = "pinRead"] /\ UNCHANGED shared
    /\ UNCHANGED <<weak, orig>>

\* WeakPtr::pin() in NotThreadSafe mode: ConditionallyAddSharedReference
\* tests the count, then ++; an expired count leaves the pointer null.
PinNotThreadSafe(t) ==
    /\ mode = "NotThreadSafe"
    /\ CanStart(t) /\ weak[t] /\ ~shared[t]
    /\ ctrl.SharedReferenceCount # 0
    /\ ctrl' = [ctrl EXCEPT !.SharedReferenceCount = @ + 1]
    /\ shared' = [shared EXCEPT ![t] = TRUE]
    /\ UNCHANGED <<weak, pc, orig>>

Init ==
    /\ ctrl = [state |-> "none", SharedReferenceCount |-> 0,
               WeakReferenceCount |-> 0, object |-> "none"]
    /\ shared = [t \in Threads |-> FALSE]
    /\ weak = [t \in Threads |-> FALSE]
    /\ pc = [t \in Threads |-> "idle"]
    /\ orig = [t \in Threads |-> 0]
    /\ mode \in Modes

\* The steps a thread takes inside a call it has started.
Continue(t) ==
    /\ \/ DestroyObject(t) \/ ReleaseWeakAfterShared(t)
       \/ (pc[t] = "pinRead" /\ PinRead(t)) \/ PinCAS(t)
    /\ UNCHANGED mode

Next ==
    /\ \E t \in Threads :
           \/ MakeShared(t)
           \/ \E u \in Threads : CopyShared(t, u)
           \/ \E u \in Threads : MoveShared(t, u)
           \/ ReleaseSharedReference(t)
           \/ DestroyObject(t)
           \/ ReleaseWeakAfterShared(t)
           \/ \E u \in Threads : AddWeakReference(t, u)
           \/ ReleaseWeakReference(t)
           \/ PinRead(t)
           \/ PinCAS(t)
           \/ PinNotThreadSafe(t)
    /\ UNCHANGED mode

\* A thread inside a call runs on (the scheduler preempts, never stops a
\* thread); whether a thread starts a call is up to the program.
Spec == Init /\ [][Next]_vars /\ \A t \in Threads : WF_vars(Continue(t))

-----------------------------------------------------------------------------
(* Properties.                                                             *)

TypeOK ==
    /\ ctrl.state \in {"none", "live", "deleted"}
    /\ ctrl.SharedReferenceCount \in Nat /\ ctrl.WeakReferenceCount \in Nat
    /\ ctrl.object \in {"none", "alive", "destroyed"}
    /\ shared \in [Threads -> BOOLEAN] /\ weak \in [Threads -> BOOLEAN]
    /\ pc \in [Threads -> {"idle", "destroy", "releaseWeak", "pinRead", "pinCAS"}]
    /\ orig \in [Threads -> Nat]
    /\ mode \in Modes

\* Threads between the last shared release and its weak release.
Destroying == {t \in Threads : pc[t] \in {"destroy", "releaseWeak"}}

\* The counts of a live controller, which every thread moves with separate
\* interlocked operations, always equal the references that exist: one
\* per valid SharedReferencer, and one per valid WeakReferencer plus one
\* for all the shared ones together until the last of them has run
\* ReleaseWeakReference.
CountsMatchReferencers ==
    Live =>
        /\ ctrl.SharedReferenceCount = Cardinality({t \in Threads : shared[t]})
        /\ ctrl.WeakReferenceCount =
              Cardinality({t \in Threads : weak[t]})
              + (IF ctrl.SharedReferenceCount > 0 \/ Destroying # {} THEN 1 ELSE 0)

\* A valid SharedPtr never refers to a destroyed object: in particular
\* WeakPtr::pin() racing the last ReleaseSharedReference never revives an
\* object whose count has reached 0 ("we never revive a pointer that has
\* already expired", ConditionallyAddSharedReference).
NoUseAfterDestroy ==
    \A t \in Threads : shared[t] => Live /\ ctrl.object = "alive"

\* `delete ReferenceController` happens only when no SharedPtr or WeakPtr
\* holds the controller and no thread is inside a call on it.
ControllerOutlivesReferences ==
    ~Live => \A t \in Threads : ~shared[t] /\ ~weak[t] /\ Idle(t)

\* Once no thread holds a SharedPtr or WeakPtr to the object, the controller
\* is eventually deleted, and the object was destroyed before it: the
\* threads inside ReleaseSharedReference and ReleaseWeakReference finish
\* the job, and nothing leaks.
UnreferencedIsFreed ==
    (Live /\ \A t \in Threads : ~shared[t] /\ ~weak[t])
        ~> (ctrl.state = "deleted" /\ ctrl.object = "destroyed")

=============================================================================
