---------------------------- MODULE SharedPointers ----------------------------
(***************************************************************************)
(* SharedRef, SharedPtr and WeakPtr (RxFoundation/SharedPointer.hpp) over  *)
(* their SharedReferencer / WeakReferencer count members and the           *)
(* reference controller (SharedPointerInternals.hpp), used by one thread:  *)
(* each member function is one step, and ReferenceControllerOps are the    *)
(* plain ++/-- of ESPMode::NotThreadSafe (the interlocked ThreadSafe ones  *)
(* do the same in one thread; ReferenceController models the threads).     *)
(*                                                                         *)
(* SRs, SPs and WPs are the program's SharedRef, SharedPtr and WeakPtr     *)
(* variables.  A variable is Dead outside its lifetime, else it holds its  *)
(* Object field (obj) and its referencer's ReferenceController (rc).  A    *)
(* controller is named by the object `new` made for it: an object is put   *)
(* under one controller, by SharedRef(new T) or SharedPtr(new T).          *)
(* Objects of a class derived from SharedFromThis (Shareable) carry the    *)
(* WeakThis member, a WeakPtr to themselves, kept in ctrl[o].WeakThis as   *)
(* the controller it holds.                                                *)
(***************************************************************************)
EXTENDS Naturals, FiniteSets

CONSTANTS
    SRs,       \* SharedRef variables
    SPs,       \* SharedPtr variables
    WPs,       \* WeakPtr variables
    Objects,   \* objects (and the controllers made for them)
    Null,      \* nullptr
    Dead,      \* a variable outside its lifetime
    Shareable  \* objects whose class derives from SharedFromThis

Vars == SRs \cup SPs \cup WPs
Shared == SRs \cup SPs

ASSUME Shareable \subseteq Objects
ASSUME Null \notin Objects /\ Dead \notin [obj : Objects \cup {Null},
                                            rc : Objects \cup {Null}]

VARIABLES
    ptr,       \* ptr[v]: Dead or [obj, rc]
    ctrl       \* ctrl[o]: [state, SharedReferenceCount, WeakReferenceCount, object,
               \*          WeakThis]

vars == <<ptr, ctrl>>

Live(v) == ptr[v] # Dead

-----------------------------------------------------------------------------
(* ReferenceControllerOps, on a controller function c.  Callers skip a     *)
(* null controller, as every referencer does.                              *)

\* AddSharedReference / AddWeakReference: ++ on the count.
AddSharedReference(c, o) ==
    IF o = Null THEN c ELSE [c EXCEPT ![o].SharedReferenceCount = @ + 1]
AddWeakReference(c, o) ==
    IF o = Null THEN c ELSE [c EXCEPT ![o].WeakReferenceCount = @ + 1]

\* ReleaseWeakReference: --WeakReferenceCount; at 0 `delete
\* ReferenceController`.
ReleaseWeakReference(c, o) ==
    IF o = Null THEN c
    ELSE [c EXCEPT ![o].WeakReferenceCount = @ - 1,
                   ![o].state = IF c[o].WeakReferenceCount = 1 THEN "deleted" ELSE @]

\* DestroyObject: the DefaultDeleter deletes the object, whose WeakThis
\* member (~SharedFromThis) releases its weak reference as it goes.
DestroyObject(c, o) ==
    ReleaseWeakReference([c EXCEPT ![o].object = "destroyed", ![o].WeakThis = Null],
                         c[o].WeakThis)

\* Variant: the last shared release does not give up the weak reference
\* that all shared references hold together.
ReleaseSharedReference_keepsWeak(c, o) ==
    IF o = Null THEN c
    ELSE IF c[o].SharedReferenceCount = 1
         THEN DestroyObject([c EXCEPT ![o].SharedReferenceCount = 0], o)
         ELSE [c EXCEPT ![o].SharedReferenceCount = @ - 1]

\* ReleaseSharedReference: --SharedReferenceCount; at 0 DestroyObject()
\* (the DefaultDeleter deletes the object), then ReleaseWeakReference.
ReleaseSharedReference(c, o) ==
    IF o = Null THEN c
    ELSE IF c[o].SharedReferenceCount = 1
         THEN ReleaseWeakReference(DestroyObject([c EXCEPT ![o].SharedReferenceCount = 0], o), o)
         ELSE [c EXCEPT ![o].SharedReferenceCount = @ - 1]

\* ConditionallyAddSharedReference: no reference to an expired controller.
CanPin(c, o) == o # Null /\ c[o].SharedReferenceCount # 0

\* NewDefaultReferenceController(new T): ReferenceControllerBase starts
\* both counts at 1.
NewReferenceController(o) ==
    [ctrl EXCEPT ![o] = [state |-> "live", SharedReferenceCount |-> 1,
                         WeakReferenceCount |-> 1, object |-> "alive",
                         WeakThis |-> Null]]

\* MakeShareable(new T): the RawPtrProxy constructor makes the object's
\* controller; the proxy carries it to the SharedRef or SharedPtr.
RawPtrProxy(o) == NewReferenceController(o)

-----------------------------------------------------------------------------
(* Referencer assignments, on a controller function c: the new controller  *)
(* of the assigned variable and what the counts become.                    *)

\* SharedReferencer::operator=(const &): if the controller differs, add a
\* reference to the new one, then release the old one.
SharedAssign(c, old, new) ==
    IF new = old THEN c ELSE ReleaseSharedReference(AddSharedReference(c, new), old)

\* WeakReferencer::AssignReferenceController: the same with weak counts.
AssignReferenceController(c, old, new) ==
    IF new = old THEN c ELSE ReleaseWeakReference(AddWeakReference(c, new), old)

\* SharedReferencer::operator=(SharedReferencer &&): only when the two
\* controllers differ, take the source's (which is nulled) and release the
\* old one.  The moved-to referencer then holds new, the source
\* SourceAfterSharedMove(old, new).
SharedReferencerMoveAssign(c, old, new) ==
    IF new = old THEN c ELSE ReleaseSharedReference(c, old)
SourceAfterSharedMove(old, new) == IF new = old THEN new ELSE Null

\* SharedReferencer(WeakReferencer const &): the weak referencer's
\* controller, elevated by ConditionallyAddSharedReference, or null once
\* the object has expired.
SharedReferencerFromWeak(c, o) == IF o # Null /\ ~CanPin(c, o) THEN Null ELSE o

\* WeakReferencer::operator=(WeakReferencer &&): take the source's
\* controller, null the source's, release the old one; no self-check.
WeakReferencerMoveAssign(c, old) == ReleaseWeakReference(c, old)

-----------------------------------------------------------------------------
(* SharedFromThis.                                                         *)

\* WeakPtr::isValid(): Object set and WeakReferencer::isValid(), a
\* controller whose shared count is not 0.
WeakThisValid(c, o) ==
    c[o].WeakThis # Null /\ c[c[o].WeakThis].SharedReferenceCount > 0

\* Variant: the test of UpdateWeakReferenceInternal inverted.
UpdateWeakReferenceInternal_inverted(c, o) ==
    IF WeakThisValid(c, o)
    THEN AssignReferenceController([c EXCEPT ![o].WeakThis = o], c[o].WeakThis, o)
    ELSE c

\* UpdateWeakReferenceInternal(&shared, o): unless WeakThis is valid,
\* `WeakThis = SharedPtr(shared, o)`: WeakPtr's assignment from the
\* temporary SharedPtr takes o's controller (AssignReferenceController);
\* the temporary's shared reference comes and goes.
UpdateWeakReferenceInternal(c, o) ==
    IF ~WeakThisValid(c, o)
    THEN AssignReferenceController([c EXCEPT ![o].WeakThis = o], c[o].WeakThis, o)
    ELSE c

\* EnableSharedFromThis(this, o, o): the overload chosen for an object of
\* a SharedFromThis class primes WeakThis; the catch-all does nothing.
EnableSharedFromThis(c, o) ==
    IF o \in Shareable THEN UpdateWeakReferenceInternal(c, o) ELSE c

-----------------------------------------------------------------------------
(* SharedRef.                                                              *)

\* SharedRef(new T): a new controller; Init's RxCheck(InObject != nullptr)
\* holds as `new` does not return null.
SharedRefNew(r, o) ==
    /\ ~Live(r) /\ ctrl[o].state = "none"
    /\ ptr' = [ptr EXCEPT ![r] = [obj |-> o, rc |-> o]]
    /\ ctrl' = EnableSharedFromThis(NewReferenceController(o), o)

\* MakeShareable(new T) builds a RawPtrProxy, whose constructor makes the
\* controller (NewDefaultReferenceController); SharedRef(RawPtrProxy const
\* &) takes Object and that controller, RxChecks the object, and primes
\* WeakThis.
SharedRefMakeShareable(r, o) ==
    /\ ~Live(r) /\ ctrl[o].state = "none"
    /\ ptr' = [ptr EXCEPT ![r] = [obj |-> o, rc |-> o]]
    /\ ctrl' = EnableSharedFromThis(RawPtrProxy(o), o)

\* SharedRef(const SharedRef &) and SharedRef(SharedRef &&), which copies
\* "intentionally", so that the source stays valid: a shared reference more.
SharedRefCopy(r, s) ==
    /\ ~Live(r) /\ Live(s)
    /\ ptr' = [ptr EXCEPT ![r] = ptr[s]]
    /\ ctrl' = AddSharedReference(ctrl, ptr[s].rc)

\* SharedPtr::toSharedRef(), through SharedRef(SharedPtr const &): both
\* RxCheck(isValid()), so the pointer is not null.
SharedRefFromPtr(r, p) ==
    /\ ~Live(r) /\ Live(p) /\ ptr[p].obj # Null
    /\ ptr' = [ptr EXCEPT ![r] = ptr[p]]
    /\ ctrl' = AddSharedReference(ctrl, ptr[p].rc)

\* StaticCastSharedRef and ConstCastSharedRef, through the cast-tag
\* constructors: the same Object, a copy of the referencer.
SharedRefCast(r, s) ==
    /\ ~Live(r) /\ Live(s)
    /\ ptr' = [ptr EXCEPT ![r] = ptr[s]]
    /\ ctrl' = AddSharedReference(ctrl, ptr[s].rc)

\* SharedRef(SharedPtr &&): Object and the referencer move (the
\* SharedReferencer move constructor nulls the source's controller), the
\* source's Object is nulled, then RxCheck(isValid()).
SharedRefFromPtrMove(r, p) ==
    /\ ~Live(r) /\ Live(p) /\ ptr[p].obj # Null
    /\ ptr' = [ptr EXCEPT ![r] = ptr[p], ![p] = [obj |-> Null, rc |-> Null]]
    /\ UNCHANGED ctrl

\* SharedPtr::toSharedRef(): RxCheck(isValid()), then SharedRef(*this).
ToSharedRef(r, p) ==
    /\ ~Live(r) /\ Live(p) /\ ptr[p].obj # Null
    /\ ptr' = [ptr EXCEPT ![r] = ptr[p]]
    /\ ctrl' = AddSharedReference(ctrl, ptr[p].rc)

\* SharedRef::operator=(const SharedRef &): the referencer, then Object.
SharedRefAssign(r, s) ==
    /\ Live(r) /\ Live(s)
    /\ ptr' = [ptr EXCEPT ![r] = ptr[s]]
    /\ ctrl' = SharedAssign(ctrl, ptr[r].rc, ptr[s].rc)

\* SharedRef::operator=(SharedRef &&): Memory::swap of the two objects'
\* bytes; no count changes.
SharedRefMoveAssign(r, s) ==
    /\ Live(r) /\ Live(s)
    /\ ptr' = [ptr EXCEPT ![r] = ptr[s], ![s] = ptr[r]]
    /\ UNCHANGED ctrl

\* ~SharedRef / ~SharedPtr: ~SharedReferencer releases its controller.
Destroy(s) ==
    /\ Live(s)
    /\ ptr' = [ptr EXCEPT ![s] = Dead]
    /\ ctrl' = ReleaseSharedReference(ctrl, ptr[s].rc)

-----------------------------------------------------------------------------
(* SharedPtr.                                                              *)

\* SharedPtr() / SharedPtr(nullptr).
SharedPtrNull(p) ==
    /\ ~Live(p)
    /\ ptr' = [ptr EXCEPT ![p] = [obj |-> Null, rc |-> Null]]
    /\ UNCHANGED ctrl

\* SharedPtr(new T).
SharedPtrNew(p, o) ==
    /\ ~Live(p) /\ ctrl[o].state = "none"
    /\ ptr' = [ptr EXCEPT ![p] = [obj |-> o, rc |-> o]]
    /\ ctrl' = EnableSharedFromThis(NewReferenceController(o), o)

\* SharedPtr(MakeShareable(new T)): the proxy's controller, as for SharedRef,
\* without the null check.
SharedPtrMakeShareable(p, o) ==
    /\ ~Live(p) /\ ctrl[o].state = "none"
    /\ ptr' = [ptr EXCEPT ![p] = [obj |-> o, rc |-> o]]
    /\ ctrl' = EnableSharedFromThis(RawPtrProxy(o), o)

\* SharedPtr::operator=(RawPtrProxy const &): `*this = SharedPtr(proxy)`, a
\* move assignment from a temporary holding the proxy's new controller,
\* which differs from the old one: the old one is released.
SharedPtrAssignShareable(p, o) ==
    /\ Live(p) /\ ctrl[o].state = "none"
    /\ ptr' = [ptr EXCEPT ![p] = [obj |-> o, rc |-> o]]
    /\ ctrl' = ReleaseSharedReference(EnableSharedFromThis(RawPtrProxy(o), o),
                                      ptr[p].rc)

\* SharedPtr(const SharedPtr &): SharedReferencer's copy constructor adds a
\* reference to a non-null controller.
SharedPtrCopy(p, q) ==
    /\ ~Live(p) /\ Live(q)
    /\ ptr' = [ptr EXCEPT ![p] = ptr[q]]
    /\ ctrl' = AddSharedReference(ctrl, ptr[q].rc)

\* SharedPtr(SharedRef const &): the same copy of Object and referencer.
SharedPtrFromRef(p, r) == SharedPtrCopy(p, r)

\* StaticCastSharedPtr and ConstCastSharedPtr, through the cast-tag
\* constructors: the same Object, a copy of the referencer.
SharedPtrCast(p, q) ==
    /\ ~Live(p) /\ Live(q)
    /\ ptr' = [ptr EXCEPT ![p] = ptr[q]]
    /\ ctrl' = AddSharedReference(ctrl, ptr[q].rc)

\* SharedPtr(SharedPtr &&): Object and controller move, the source is null.
SharedPtrMove(p, q) ==
    /\ ~Live(p) /\ Live(q) /\ p # q
    /\ ptr' = [ptr EXCEPT ![p] = ptr[q], ![q] = [obj |-> Null, rc |-> Null]]
    /\ UNCHANGED ctrl

\* SharedPtr::operator=(const SharedPtr &): referencer, then Object.
SharedPtrAssign(p, q) ==
    /\ Live(p) /\ Live(q)
    /\ ptr' = [ptr EXCEPT ![p] = ptr[q]]
    /\ ctrl' = SharedAssign(ctrl, ptr[p].rc, ptr[q].rc)

\* SharedPtr::operator=(SharedPtr &&), for p # q: Object moves and the
\* source's Object is nulled; then SharedReferencer's move assignment,
\* which does nothing when both hold the same controller, and otherwise
\* nulls the source's controller, takes it, and releases the old one.
SharedPtrMoveAssign(p, q) ==
    /\ Live(p) /\ Live(q) /\ p # q
    /\ LET old == ptr[p].rc
           new == ptr[q].rc
       IN  /\ ptr' = [ptr EXCEPT ![p] = [obj |-> ptr[q].obj, rc |-> new],
                                 ![q] = [obj |-> Null,
                                         rc |-> SourceAfterSharedMove(old, new)]]
           /\ ctrl' = SharedReferencerMoveAssign(ctrl, old, new)

\* SharedPtr::reset() and operator=(nullptr): `*this = SharedPtr()`, a
\* move assignment from a null temporary.
SharedPtrReset(p) ==
    /\ Live(p)
    /\ ptr' = [ptr EXCEPT ![p] = [obj |-> Null, rc |-> Null]]
    /\ ctrl' = ReleaseSharedReference(ctrl, ptr[p].rc)

\* WeakPtr::pin(): SharedPtr(WeakPtr const &) builds its referencer from
\* the weak one (ConditionallyAddSharedReference), and takes Object only
\* when that referencer is valid.
Pin(p, w) ==
    /\ ~Live(p) /\ Live(w)
    /\ LET rc == SharedReferencerFromWeak(ctrl, ptr[w].rc)
       IN  /\ ptr' = [ptr EXCEPT ![p] = [obj |-> IF rc # Null THEN ptr[w].obj ELSE Null,
                                         rc |-> rc]]
           /\ ctrl' = AddSharedReference(ctrl, rc)

\* o->asShared(), called on the object a live SharedRef or SharedPtr s
\* points at, into SharedRef r: `SharedPtr SharedThis(WeakThis.pin())`,
\* RxCheck(SharedThis.get() == this), then toSharedRef(); the pin's
\* reference goes with SharedThis, the copy's stays with r.  A failed
\* RxCheck stops the program: no step.
AsShared(r, s) ==
    /\ ~Live(r) /\ Live(s) /\ ptr[s].obj \in Shareable
    /\ LET o  == ptr[s].obj
           rc == SharedReferencerFromWeak(ctrl, ctrl[o].WeakThis)
       IN  /\ rc # Null
           /\ ptr' = [ptr EXCEPT ![r] = [obj |-> o, rc |-> rc]]
           /\ ctrl' = AddSharedReference(ctrl, rc)

-----------------------------------------------------------------------------
(* WeakPtr.                                                                *)

\* WeakPtr() / WeakPtr(nullptr).
WeakPtrNull(w) ==
    /\ ~Live(w)
    /\ ptr' = [ptr EXCEPT ![w] = [obj |-> Null, rc |-> Null]]
    /\ UNCHANGED ctrl

\* WeakPtr(SharedRef const &), WeakPtr(SharedPtr const &) and
\* WeakPtr(WeakPtr const &): the WeakReferencer constructors add a weak
\* reference to a non-null controller.
WeakPtrCopy(w, s) ==
    /\ ~Live(w) /\ Live(s)
    /\ ptr' = [ptr EXCEPT ![w] = ptr[s]]
    /\ ctrl' = AddWeakReference(ctrl, ptr[s].rc)

\* WeakPtr(WeakPtr &&).
WeakPtrMove(w, v) ==
    /\ ~Live(w) /\ Live(v) /\ w # v
    /\ ptr' = [ptr EXCEPT ![w] = ptr[v], ![v] = [obj |-> Null, rc |-> Null]]
    /\ UNCHANGED ctrl

\* WeakPtr::operator=(const WeakPtr &): `Object = InWeakPtr.pin().get()`,
\* null once expired (the temporary SharedPtr adds and drops a shared
\* reference), then AssignReferenceController.
WeakPtrAssign(w, v) ==
    /\ Live(w) /\ Live(v)
    /\ ptr' = [ptr EXCEPT ![w] = [obj |-> IF CanPin(ctrl, ptr[v].rc) THEN ptr[v].obj
                                          ELSE Null,
                                  rc |-> ptr[v].rc]]
    /\ ctrl' = AssignReferenceController(ctrl, ptr[w].rc, ptr[v].rc)

\* WeakPtr::operator=(SharedRef const &) and operator=(SharedPtr const &):
\* Object, then AssignReferenceController.
WeakPtrAssignShared(w, s) ==
    /\ Live(w) /\ Live(s)
    /\ ptr' = [ptr EXCEPT ![w] = ptr[s]]
    /\ ctrl' = AssignReferenceController(ctrl, ptr[w].rc, ptr[s].rc)

\* Variant: the source's WeakReferencer keeps its controller.
WeakPtrMoveAssign_keepsSource(w, v) ==
    /\ Live(w) /\ Live(v) /\ w # v
    /\ ptr' = [ptr EXCEPT ![w] = ptr[v], ![v] = [obj |-> Null, rc |-> ptr[v].rc]]
    /\ ctrl' = WeakReferencerMoveAssign(ctrl, ptr[w].rc)

\* WeakPtr::operator=(WeakPtr &&), for w # v: Object moves; WeakReferencer's
\* move assignment takes the source's controller, nulls the source's, and
\* releases its own old one, even when the two are the same.
WeakPtrMoveAssign(w, v) ==
    /\ Live(w) /\ Live(v) /\ w # v
    /\ ptr' = [ptr EXCEPT ![w] = ptr[v], ![v] = [obj |-> Null, rc |-> Null]]
    /\ ctrl' = WeakReferencerMoveAssign(ctrl, ptr[w].rc)

\* WeakPtr::reset(): `*this = WeakPtr()`.
WeakPtrReset(w) ==
    /\ Live(w)
    /\ ptr' = [ptr EXCEPT ![w] = [obj |-> Null, rc |-> Null]]
    /\ ctrl' = ReleaseWeakReference(ctrl, ptr[w].rc)

\* ~WeakPtr: ~WeakReferencer releases its controller.
WeakPtrDestroy(w) ==
    /\ Live(w)
    /\ ptr' = [ptr EXCEPT ![w] = Dead]
    /\ ctrl' = ReleaseWeakReference(ctrl, ptr[w].rc)

-----------------------------------------------------------------------------

Init ==
    /\ ptr = [v \in Vars |-> Dead]
    /\ ctrl = [o \in Objects |-> [state |-> "none", SharedReferenceCount |-> 0,
                                  WeakReferenceCount |-> 0, object |-> "none",
                                  WeakThis |-> Null]]

Next ==
    \/ \E r \in SRs :
          \/ \E o \in Objects : SharedRefNew(r, o) \/ SharedRefMakeShareable(r, o)
          \/ \E s \in Shared : AsShared(r, s)
          \/ \E s \in SRs : SharedRefCopy(r, s) \/ SharedRefAssign(r, s)
                            \/ SharedRefMoveAssign(r, s) \/ SharedRefCast(r, s)
          \/ \E p \in SPs : SharedRefFromPtr(r, p) \/ SharedRefFromPtrMove(r, p)
                            \/ ToSharedRef(r, p)
          \/ \E w \in WPs : WeakPtrCopy(w, r) \/ WeakPtrAssignShared(w, r)
          \/ \E p \in SPs : SharedPtrFromRef(p, r)
    \/ \E s \in Shared : Destroy(s)
    \/ \E p \in SPs :
          \/ SharedPtrNull(p) \/ SharedPtrReset(p)
          \/ \E o \in Objects : SharedPtrNew(p, o) \/ SharedPtrMakeShareable(p, o)
                                \/ SharedPtrAssignShareable(p, o)
          \/ \E q \in SPs : SharedPtrCopy(p, q) \/ SharedPtrMove(p, q) \/ SharedPtrCast(p, q)
                            \/ SharedPtrAssign(p, q) \/ SharedPtrMoveAssign(p, q)
          \/ \E w \in WPs : Pin(p, w) \/ WeakPtrCopy(w, p) \/ WeakPtrAssignShared(w, p)
    \/ \E w \in WPs :
          \/ WeakPtrNull(w) \/ WeakPtrReset(w) \/ WeakPtrDestroy(w)
          \/ \E v \in WPs : WeakPtrCopy(w, v) \/ WeakPtrMove(w, v)
                            \/ WeakPtrAssign(w, v) \/ WeakPtrMoveAssign(w, v)

Spec == Init /\ [][Next]_vars

-----------------------------------------------------------------------------
(* Properties.                                                             *)

\* The live variables whose referencer holds controller o.
SharedHolders(o) == {s \in Shared : Live(s) /\ ptr[s].rc = o}
WeakHolders(o)   == {w \in WPs : Live(w) /\ ptr[w].rc = o}
\* The objects whose WeakThis holds controller o.
WeakThisHolders(o) == {x \in Objects : ctrl[x].WeakThis = o}

TypeOK ==
    /\ \A v \in Vars : ptr[v] = Dead \/ ptr[v] \in [obj : Objects \cup {Null},
                                                     rc : Objects \cup {Null}]
    /\ \A o \in Objects :
          /\ ctrl[o].state \in {"none", "live", "deleted"}
          /\ ctrl[o].SharedReferenceCount \in Nat
          /\ ctrl[o].WeakReferenceCount \in Nat
          /\ ctrl[o].object \in {"none", "alive", "destroyed"}
          /\ ctrl[o].WeakThis \in Objects \cup {Null}

\* Over any sequence of constructions, copies, moves, assignments (to self
\* and between pointers sharing a controller included), pins, resets and
\* destructions, a live controller's SharedReferenceCount is the number of
\* SharedRefs and SharedPtrs holding it (asShared's included), and its
\* WeakReferenceCount the number of WeakPtrs holding it, WeakThis members
\* included, plus one while any shared one does.
CountsMatchPointers ==
    \A o \in Objects : ctrl[o].state = "live" =>
        /\ ctrl[o].SharedReferenceCount = Cardinality(SharedHolders(o))
        /\ ctrl[o].WeakReferenceCount =
              Cardinality(WeakHolders(o)) + Cardinality(WeakThisHolders(o))
              + (IF SharedHolders(o) # {} THEN 1 ELSE 0)

\* No pointer holds a deleted controller, no SharedRef or SharedPtr
\* reaches a destroyed object, and a controller is deleted as soon as the
\* last pointer lets go of it (nothing leaks).
NoDanglingNoLeak ==
    /\ \A v \in Vars : Live(v) /\ ptr[v].rc # Null => ctrl[ptr[v].rc].state = "live"
    /\ \A s \in Shared : Live(s) /\ ptr[s].obj # Null => ctrl[ptr[s].obj].object = "alive"
    /\ \A o \in Objects : ctrl[o].state = "live" => SharedHolders(o) \cup WeakHolders(o) # {}

\* A SharedPtr that holds a reference points at that reference's object,
\* and a null one holds none: the move constructor and reset() leave the
\* moved-from pointer holding nothing, and a move assignment must too,
\* or a "null" pointer keeps the object alive and counted by isUnique().
HeldReferenceMatchesObject ==
    \A p \in SPs : Live(p) => ptr[p].obj = ptr[p].rc

\* asShared() is legal on every object a SharedRef or SharedPtr points at
\* whose class derives from SharedFromThis: its WeakThis, primed by the
\* constructor that took the object, pins (the RxCheck of asShared holds)
\* and holds the same controller as the pointer, so the SharedRef it
\* returns shares the count rather than starting a second one.
AsSharedFindsThis ==
    \A s \in Shared :
        Live(s) /\ ptr[s].obj \in Shareable =>
            /\ ctrl[ptr[s].obj].WeakThis = ptr[s].rc
            /\ CanPin(ctrl, ctrl[ptr[s].obj].WeakThis)

=============================================================================
