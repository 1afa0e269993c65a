------------------------- MODULE DictionaryIterators -------------------------
(***************************************************************************)
(* Iterators over a Dictionary and the epoch that guards them              *)
(* (RxFoundation/DebugEpochBase.hpp, BasicHashTableIterator in             *)
(* RxFoundation/BasicHash.hpp).  An iterator is a HandleBase, which        *)
(* captures the table's Epoch at construction, and a bucket pointer.       *)
(* Int keys are not pointers, so iteration runs forward                    *)
(* (shouldReverseIterate is false).  A pointer is the allocation it points *)
(* into (the gen of the table then) and an index into it, the array's      *)
(* length standing for end().                                              *)
(*                                                                         *)
(* A client may use an iterator only while isHandleInSync() holds: every   *)
(* use asserts it, and a failed assertion is the debug build's report of   *)
(* the programming error.  The properties ask whether passing that check   *)
(* means what the epoch promises.                                          *)
(***************************************************************************)
EXTENDS Dictionary

CONSTANTS
    Iters,   \* the iterator variables of the client
    NoIter   \* an iterator variable that holds no iterator

VARIABLES
    its      \* Iters -> [epoch, gen, pos] \cup {NoIter}

itVars == <<dict, ret, its>>

\* HandleBase(Parent) and the bucket pointer: the epoch word's value now.
makeIterator(pos) == [epoch |-> dict.epoch, gen |-> dict.gen, pos |-> pos]

\* HandleBase::isHandleInSync: the epoch word still holds the captured value.
isHandleInSync(it) == it.epoch = dict.epoch

\* advancePastEmptyBuckets from index p: the first bucket at or after p
\* whose key is neither the empty nor the tombstone key, else end.
advancePastEmptyBuckets(T, p) ==
    LET live == {q \in p..getNumBuckets(T) - 1 : IsLive(T.buckets[q])}
    IN  IF live = {} THEN getNumBuckets(T)
        ELSE CHOOSE q \in live : \A r \in live : q <= r

\* A held iterator the client may still use.
Usable(i) == its[i] # NoIter /\ isHandleInSync(its[i])

-----------------------------------------------------------------------------
(* Operations on iterators.                                                *)

\* it = begin(): end() when empty(), else the first live bucket.
Begin(i) ==
    /\ ret # HT!Hung
    /\ its' = [its EXCEPT ![i] =
                 makeIterator(IF dict.numEntries = 0 THEN getNumBuckets(dict)
                              ELSE advancePastEmptyBuckets(dict, 0))]
    /\ UNCHANGED <<dict, ret>>

\* it = find(k): the key's bucket (no advance), or end().
FindIterator(i, k) ==
    LET r == lookupBucketFor(dict, k)
    IN  /\ ret # HT!Hung
        /\ IF r.bucket = NoReturn
           THEN ret' = HT!Hung /\ UNCHANGED its
           ELSE /\ its' = [its EXCEPT ![i] =
                             makeIterator(IF r.found THEN r.bucket
                                          ELSE getNumBuckets(dict))]
                /\ ret' = <<"find", k, IF r.found THEN dict.buckets[r.bucket].val
                                       ELSE NotFound>>
        /\ UNCHANGED dict

\* ++it (asserts in sync): step, then advancePastEmptyBuckets.
Increment(i) ==
    /\ ret # HT!Hung
    /\ Usable(i)
    /\ its[i].pos < getNumBuckets(dict)
    /\ its' = [its EXCEPT ![i].pos = advancePastEmptyBuckets(dict, @ + 1)]
    /\ UNCHANGED <<dict, ret>>

\* erase(iterator I): &*I asserts in sync, then the bucket it points at is
\* tombstoned and the counters moved, whatever that bucket holds.
EraseIterator(i) ==
    /\ ret # HT!Hung
    /\ Usable(i)
    /\ its[i].pos < getNumBuckets(dict)
    /\ dict' = eraseBucket(dict, its[i].pos)
    /\ UNCHANGED <<ret, its>>

IterInit == Init /\ its = [i \in Iters |-> NoIter]

IterNext ==
    \/ Next /\ UNCHANGED its
    \/ \E i \in Iters : Begin(i)
    \/ \E i \in Iters, k \in Keys : FindIterator(i, k)
    \/ \E i \in Iters : Increment(i)
    \/ \E i \in Iters : EraseIterator(i)

IterSpec == IterInit /\ [][IterNext]_itVars

-----------------------------------------------------------------------------
(* Properties.                                                             *)

IterTypeOK ==
    /\ TypeOK
    /\ \A i \in Iters :
          its[i] = NoIter \/ its[i] \in [epoch : Nat, gen : Nat, pos : Nat]

\* What the epoch protects in the code: an iterator that passes
\* isHandleInSync points into the bucket array the table holds now, never
\* into one a grow, rehash or shrink freed, and its bucket has not been
\* reset to the empty key by clear() since it was made.
InSyncIteratorIntoLiveArray ==
    \A i \in Iters :
        Usable(i) =>
            /\ its[i].gen = dict.gen
            /\ its[i].pos <= getNumBuckets(dict)
            /\ its[i].pos < getNumBuckets(dict) =>
                  dict.buckets[its[i].pos].key # getEmptyKey

\* spec.md: every erase invalidates all outstanding iterators, so an
\* iterator that passes isHandleInSync and is not end() points at a live
\* entry that *it may read and erase(it) may remove.
InSyncIteratorDereferenceable ==
    \A i \in Iters :
        Usable(i) /\ its[i].pos < getNumBuckets(dict) =>
            IsLive(dict.buckets[its[i].pos])

=============================================================================
