------------------------------ MODULE Dictionary ------------------------------
(***************************************************************************)
(* Rx::Dictionary<int, V> (RxFoundation/Dictionary.hpp): the heap backend  *)
(* of BasicHashTable.  Its bucket array is one heap allocation, null when  *)
(* _numBuckets is 0.  The public operations are those of BasicHashTable,   *)
(* instantiated with this backend's grow and shrink_and_clear.             *)
(***************************************************************************)
EXTENDS BasicHash, TLC

CONSTANTS
    InitReserve,   \* initialReserve arguments of the constructor
    ReserveArgs,   \* arguments of reserve()
    DefaultValue,  \* ValueTy(), the value operator[] constructs
    NotFound       \* find() returned end()

VARIABLES
    dict,   \* [buckets, numEntries, numTombstones, epoch, gen]
    ret     \* the result of the last call

vars == <<dict, ret>>

-----------------------------------------------------------------------------
(* The backend member functions BasicHashTable dispatches to.              *)

\* _allocatedBuckets(num): a fresh, uninitialised array of num buckets, or
\* null for 0.  gen numbers the allocations: a history variable that tells
\* iterators into a freed array from iterators into the live one.
allocateBuckets(T, num) ==
    [T EXCEPT !.buckets = [i \in 0..num - 1 |-> [key |-> Uninit, val |-> NoValue]],
              !.gen = @ + 1]

\* Variant: the buckets are allocated but never initEmpty'd.
init_noInitEmpty(T, initNumEntries) ==
    allocateBuckets(T, getMinBucketToReserveForEntries(initNumEntries))

\* init(initNumEntries): allocate for that many entries and initEmpty (for
\* a null array initEmpty only zeroes the counters, as the else branch).
init(T, initNumEntries) ==
    initEmpty(allocateBuckets(T, getMinBucketToReserveForEntries(initNumEntries)))

\* grow(atLeast): at least MinBuckets buckets, the next power of two above
\* atLeast - 1 (which wraps to all ones, and its next power to 0, for
\* atLeast = 0); the old entries are moved over and the old array freed.
grow(T, atLeast) ==
    LET T1 == allocateBuckets(T, max(MinBuckets, nextPowerOf2(Wrap(atLeast - 1))))
    IN  IF getNumBuckets(T) = 0 THEN initEmpty(T1)
        ELSE moveFromOldBuckets(T1, T.buckets)

\* shrink_and_clear(): destroy everything and re-init for a size derived
\* from the old entry count (note: init() takes it as an entry count).
shrink_and_clear(T) ==
    LET oldNumEntries == T.numEntries
        newNumBuckets == IF oldNumEntries # 0
                         THEN min(32, 2^log2_32_Ceil(oldNumEntries + 1))
                         ELSE 0
    IN  IF newNumBuckets = getNumBuckets(T) THEN initEmpty(T)
        ELSE init(T, newNumBuckets)

-----------------------------------------------------------------------------
(* Operations.                                                             *)

HT == INSTANCE BasicHashTable WITH table <- dict

\* Dictionary(initialReserve): Epoch starts at 0.
Init ==
    /\ \E r \in InitReserve :
          dict = init([buckets |-> <<>>, numEntries |-> 0,
                       numTombstones |-> 0, epoch |-> 0, gen |-> 0], r)
    /\ ret = <<"none">>

Next ==
    \/ \E k \in Keys, v \in Vals : HT!Insert(k, v)
    \/ \E k \in Keys : HT!FindAndConstruct(k)
    \/ \E k \in Keys : HT!Find(k)
    \/ \E k \in Keys : HT!Erase(k)
    \/ HT!Clear
    \/ \E n \in ReserveArgs : HT!Reserve(n)

Spec == Init /\ [][Next]_vars

-----------------------------------------------------------------------------
(* Properties.                                                             *)

TypeOK ==
    /\ dict.buckets \in [0..getNumBuckets(dict) - 1 -> Bucket]
    /\ dict.numEntries \in 0..2^W - 1 /\ dict.numTombstones \in 0..2^W - 1
    /\ dict.epoch \in Nat /\ dict.gen \in Nat

\* _numEntries and _numTombstones, which insert, erase, grow and clear each
\* move separately, always count the live and the tombstone buckets.
CountersConsistent == HT!CountersConsistent

\* Every stored key sits on its own probe path before any empty bucket and
\* is stored once, so lookupBucketFor finds it after any sequence of
\* erases, tombstone reuses, rehashes and shrinks.
ProbeChainIntact == HT!ProbeChainIntact

\* Some bucket is empty whenever the array is allocated: the growth and
\* tombstone-rehash checks of insertIntoBucketImpl keep lookupBucketFor's
\* while(1) from probing forever.
ProbeAlwaysStops == HT!ProbeAlwaysStops

\* Every operation of the Dictionary returns what the abstract map KVMap
\* returns and changes its contents as KVMap does.
KVMapRefinement == HT!Abstract!Spec

=============================================================================
