-------------------------------- MODULE RefPtr --------------------------------
(***************************************************************************)
(* RefPtr<ObjectType> (RefPtr.hpp) over objects deriving from               *)
(* RefCountedBase (RefCountedBase.hpp), such as Rx::Object.                  *)
(*                                                                         *)
(* The count is a plain uint64_t, so the operations are modelled as the    *)
(* single-threaded (externally synchronised) program the code is: each     *)
(* RefPtr member function is one step.  Ptrs are the RefPtr variables of   *)
(* the program; a variable is `live` between its constructor and its       *)
(* destructor.  Objects are the heap objects RefPtrs may point to.         *)
(***************************************************************************)
EXTENDS Naturals, FiniteSets

CONSTANTS
    Ptrs,      \* RefPtr variables
    Objects,   \* heap objects deriving from RefCountedBase
    Null       \* nullptr

ASSUME Null \notin Objects

VARIABLES
    live,      \* live[p]: p is constructed and not yet destroyed
    ref,       \* ref[p]: p's Reference
    cnt,       \* cnt[o]: o's ref_cnt
    ostate     \* o is "unborn" (not yet new'd), "alive" or "deleted"

vars == <<live, ref, cnt, ostate>>

-----------------------------------------------------------------------------

\* RefCountedBase::retain: `++ref_cnt`.
retain(c, o) == IF o = Null THEN c ELSE [c EXCEPT ![o] = @ + 1]

\* RefCountedBase::release: `--ref_cnt`; at zero `delete this`.  The count
\* is uint64_t; the assert of a release at zero is a debug check only.
release(c, o) == IF o = Null THEN c ELSE [c EXCEPT ![o] = @ - 1]

\* The objects a release of o leaves at zero are deleted.
Deleted(c, o) ==
    IF o # Null /\ c[o] = 0 THEN [ostate EXCEPT ![o] = "deleted"] ELSE ostate

\* RefPtr() : Reference(nullptr)
ConstructNull(p) ==
    /\ ~live[p]
    /\ live' = [live EXCEPT ![p] = TRUE]
    /\ ref' = [ref EXCEPT ![p] = Null]
    /\ UNCHANGED <<cnt, ostate>>

\* RefPtr(new ObjectType) with retain = true: RefCountedBase() sets ref_cnt
\* to 0, then the constructor retains.
ConstructNew(p, o) ==
    /\ ~live[p] /\ ostate[o] = "unborn"
    /\ live' = [live EXCEPT ![p] = TRUE]
    /\ ref' = [ref EXCEPT ![p] = o]
    /\ cnt' = retain([cnt EXCEPT ![o] = 0], o)
    /\ ostate' = [ostate EXCEPT ![o] = "alive"]

\* RefPtr(const RefPtr &Copy)
ConstructCopy(p, q) ==
    /\ ~live[p] /\ live[q]
    /\ live' = [live EXCEPT ![p] = TRUE]
    /\ ref' = [ref EXCEPT ![p] = ref[q]]
    /\ cnt' = retain(cnt, ref[q])
    /\ UNCHANGED ostate

\* Variant: the move constructor leaves the source's Reference set.
ConstructMove_keepsSource(p, q) ==
    /\ ~live[p] /\ live[q] /\ p # q
    /\ live' = [live EXCEPT ![p] = TRUE]
    /\ ref' = [ref EXCEPT ![p] = ref[q]]
    /\ UNCHANGED <<cnt, ostate>>

\* RefPtr(RefPtr &&Value): takes the reference, nulls the source.
ConstructMove(p, q) ==
    /\ ~live[p] /\ live[q] /\ p # q
    /\ live' = [live EXCEPT ![p] = TRUE]
    /\ ref' = [ref EXCEPT ![p] = ref[q], ![q] = Null]
    /\ UNCHANGED <<cnt, ostate>>

\* ~RefPtr(): `if (Reference) Reference->release();`
Destruct(p) ==
    /\ live[p]
    /\ live' = [live EXCEPT ![p] = FALSE]
    /\ ref' = [ref EXCEPT ![p] = Null]
    /\ cnt' = release(cnt, ref[p])
    /\ ostate' = Deleted(cnt', ref[p])

\* Variant: the old reference is released before the new one is retained.
AssignRaw_releaseFirst(p, r) ==
    /\ live[p]
    /\ ref' = [ref EXCEPT ![p] = r]
    /\ cnt' = retain(release(cnt, ref[p]), r)
    /\ ostate' = Deleted(release(cnt, ref[p]), ref[p])
    /\ UNCHANGED live

\* operator=(ReferenceType): retain the new reference, then release the old
\* one, "in case the new reference is the same as the old reference".
AssignRaw(p, r) ==
    /\ live[p]
    /\ ref' = [ref EXCEPT ![p] = r]
    /\ cnt' = release(retain(cnt, r), ref[p])
    /\ ostate' = Deleted(cnt', ref[p])
    /\ UNCHANGED live

\* operator=(const RefPtr &InPtr): `*this = InPtr.Reference`.
Assign(p, q) == live[q] /\ AssignRaw(p, ref[q])

\* safeRelease(): `*this = nullptr`.
safeRelease(p) == AssignRaw(p, Null)

\* Swap(RefPtr &InPtr): exchanges the references, counts untouched.
Swap(p, q) ==
    /\ live[p] /\ live[q]
    /\ ref' = [ref EXCEPT ![p] = ref[q], ![q] = ref[p]]
    /\ UNCHANGED <<live, cnt, ostate>>

Init ==
    /\ live = [p \in Ptrs |-> FALSE]
    /\ ref = [p \in Ptrs |-> Null]
    /\ cnt = [o \in Objects |-> 0]
    /\ ostate = [o \in Objects |-> "unborn"]

Next ==
    \E p \in Ptrs :
        \/ ConstructNull(p)
        \/ \E o \in Objects : ConstructNew(p, o)
        \/ Destruct(p)
        \/ safeRelease(p)
        \/ \E q \in Ptrs :
            \/ ConstructCopy(p, q)
            \/ ConstructMove(p, q)
            \/ Assign(p, q)
            \/ Swap(p, q)

Spec == Init /\ [][Next]_vars

-----------------------------------------------------------------------------
(* Properties.                                                             *)

Holders(o) == {p \in Ptrs : live[p] /\ ref[p] = o}

\* Type correctness; in particular ref_cnt never goes below zero, which is
\* the "Reference count is already zero" assert of release().
TypeOK ==
    /\ live \in [Ptrs -> BOOLEAN]
    /\ ref \in [Ptrs -> Objects \cup {Null}]
    /\ cnt \in [Objects -> Nat]
    /\ ostate \in [Objects -> {"unborn", "alive", "deleted"}]

\* The count of every live object is the number of RefPtrs holding it, over
\* any sequence of copies, moves, assignments, swaps and destructions.
CountMatchesHolders ==
    \A o \in Objects : ostate[o] = "alive" => cnt[o] = Cardinality(Holders(o))

\* No RefPtr holds a deleted object, and every object still alive is held:
\* the last release deletes it, and nothing else does.
NoDanglingNoLeak ==
    \A o \in Objects :
        /\ ostate[o] = "deleted" => Holders(o) = {}
        /\ ostate[o] = "alive" => Holders(o) # {}

=============================================================================
