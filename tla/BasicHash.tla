------------------------------ MODULE BasicHash ------------------------------
(***************************************************************************)
(* The open-addressing algorithm shared by both backends: the class        *)
(* template BasicHashTable (RxFoundation/BasicHash.hpp).                   *)
(*                                                                         *)
(* A table is a record                                                     *)
(*   [buckets |-> [0..numBuckets-1 -> Bucket], numEntries, numTombstones,  *)
(*    epoch, ...backend fields]                                            *)
(* where epoch is the DebugEpochBase word the table inherits.  An empty    *)
(* domain is the null bucket array.  The operators here are the member     *)
(* functions of BasicHashTable that do not call into the backend; the     *)
(* ones that reach grow or shrink_and_clear through                        *)
(* static_cast<DerivedType *> are in module BasicHashTable.                *)
(***************************************************************************)
EXTENDS Integers, FiniteSets, Math, BasicHashInfo

CONSTANTS
    Keys,        \* the keys callers use (ints, never a sentinel)
    Vals,        \* the mapped values callers store
    NoValue,     \* the value slot of a bucket that holds no live value
    Uninit,      \* a bucket of freshly allocated, not yet initialised memory
    MinBuckets   \* the literal 64 of clear(), Dictionary::grow and
                 \* SmallDictionary::grow/shrink_and_clear

ASSUME Keys \subseteq Int \ {getEmptyKey, getTombstoneKey}
ASSUME NoValue \notin Vals
ASSUME MinBuckets \in {2^i : i \in 1..W-1}

\* The foundBucket results of lookupBucketFor that are not a bucket index.
NullBucket == -1    \* foundBucket = nullptr: the table has no buckets
NoReturn   == -2    \* the probe loop never ends: no empty bucket, key absent

EmptyBucket     == [key |-> getEmptyKey, val |-> NoValue]
TombstoneBucket == [key |-> getTombstoneKey, val |-> NoValue]

\* A bucket whose key is not a sentinel holds a live value.
IsLive(b) == b.key \notin {getEmptyKey, getTombstoneKey}

Bucket == [key : Keys, val : Vals] \cup {EmptyBucket, TombstoneBucket}

getNumBuckets(T) == Cardinality(DOMAIN T.buckets)

-----------------------------------------------------------------------------
(* lookupBucketFor: probe from hash & (numBuckets - 1) with a stride that  *)
(* grows by one per step; stop at the key (found) or at an empty bucket    *)
(* (not found: report the first tombstone on the path, else that empty     *)
(* bucket).  numBuckets is a power of two, so & (numBuckets - 1) is        *)
(* % numBuckets.  The triangular probe visits every bucket within          *)
(* numBuckets steps (MCProbe run), so a probe that has made numBuckets     *)
(* steps without stopping loops forever: it is reported as NoReturn.       *)
\* Variant: a probe that stops at a tombstone as if it were empty.
RECURSIVE probe_stopsAtTombstone(_, _, _, _, _)
probe_stopsAtTombstone(T, val, bucketIndex, probeAmt, foundTombstone) ==
    LET currentKey == T.buckets[bucketIndex].key
        numBuckets == getNumBuckets(T)
    IN  CASE isEqual(val, currentKey) ->
                [found |-> TRUE, bucket |-> bucketIndex]
          [] currentKey \in {getEmptyKey, getTombstoneKey} ->
                [found |-> FALSE, bucket |-> bucketIndex]
          [] probeAmt >= numBuckets ->
                [found |-> FALSE, bucket |-> NoReturn]
          [] OTHER ->
                probe_stopsAtTombstone(T, val, (bucketIndex + probeAmt) % numBuckets,
                      probeAmt + 1, foundTombstone)

\* Variant: the stride is pre-incremented (bucketIndex += ++probeAmt).
RECURSIVE probe_preIncrement(_, _, _, _, _)
probe_preIncrement(T, val, bucketIndex, probeAmt, foundTombstone) ==
    LET currentKey == T.buckets[bucketIndex].key
        numBuckets == getNumBuckets(T)
    IN  CASE isEqual(val, currentKey) ->
                [found |-> TRUE, bucket |-> bucketIndex]
          [] isEqual(getEmptyKey, currentKey) ->
                [found |-> FALSE,
                 bucket |-> IF foundTombstone # NullBucket
                            THEN foundTombstone ELSE bucketIndex]
          [] probeAmt >= numBuckets ->
                [found |-> FALSE, bucket |-> NoReturn]
          [] OTHER ->
                probe_preIncrement(T, val,
                      (bucketIndex + probeAmt + 1) % numBuckets, probeAmt + 1,
                      IF isEqual(getTombstoneKey, currentKey)
                         /\ foundTombstone = NullBucket
                      THEN bucketIndex ELSE foundTombstone)

RECURSIVE probe(_, _, _, _, _)
probe(T, val, bucketIndex, probeAmt, foundTombstone) ==
    LET currentKey == T.buckets[bucketIndex].key
        numBuckets == getNumBuckets(T)
    IN  CASE isEqual(val, currentKey) ->
                [found |-> TRUE, bucket |-> bucketIndex]
          [] isEqual(getEmptyKey, currentKey) ->
                [found |-> FALSE,
                 bucket |-> IF foundTombstone # NullBucket
                            THEN foundTombstone ELSE bucketIndex]
          [] probeAmt >= numBuckets ->
                [found |-> FALSE, bucket |-> NoReturn]
          [] OTHER ->
                probe(T, val, (bucketIndex + probeAmt) % numBuckets,
                      probeAmt + 1,
                      IF isEqual(getTombstoneKey, currentKey)
                         /\ foundTombstone = NullBucket
                      THEN bucketIndex ELSE foundTombstone)

lookupBucketFor(T, val) ==
    IF getNumBuckets(T) = 0
    THEN [found |-> FALSE, bucket |-> NullBucket]
    ELSE probe(T, val, getHashValue(val) % getNumBuckets(T), 1, NullBucket)

-----------------------------------------------------------------------------
\* initEmpty: zero both counters and put the empty key in every bucket.
initEmpty(T) ==
    [T EXCEPT !.buckets = [i \in DOMAIN @ |-> EmptyBucket],
              !.numEntries = 0,
              !.numTombstones = 0]

\* getMinBucketToReserveForEntries
getMinBucketToReserveForEntries(numEntries) ==
    IF numEntries = 0 THEN 0 ELSE nextPowerOf2((numEntries * 4) \div 3 + 1)

\* moveFromOldBuckets: initEmpty the new array, then re-probe every live
\* bucket of the old array, in array order, into it.
RECURSIVE moveFrom(_, _, _)
moveFrom(T, old, i) ==
    IF i \notin DOMAIN old THEN T
    ELSE IF IsLive(old[i])
         THEN LET destBucket == lookupBucketFor(T, old[i].key).bucket
              IN  moveFrom([T EXCEPT !.buckets[destBucket] = old[i],
                                     !.numEntries = @ + 1], old, i + 1)
         ELSE moveFrom(T, old, i + 1)

moveFromOldBuckets(T, old) == moveFrom(initEmpty(T), old, 0)

-----------------------------------------------------------------------------
(* erase.                                                                  *)

\* Variant: erase empties the bucket instead of leaving a tombstone.
eraseBucket_toEmpty(T, b) ==
    [T EXCEPT !.buckets[b] = EmptyBucket, !.numEntries = Wrap(@ - 1)]

\* The body shared by erase(const KeyTy &), once lookupBucketFor found the
\* key in bucket b, and erase(iterator), at the iterator's bucket: destroy
\* the value, write the tombstone key, move one count from entries to
\* tombstones (size_t counters).  No epoch bump.
eraseBucket(T, b) ==
    [T EXCEPT !.buckets[b] = TombstoneBucket,
              !.numEntries = Wrap(@ - 1),
              !.numTombstones = Wrap(@ + 1)]

-----------------------------------------------------------------------------
(* Views of a table used by the properties.                                *)

\* The key -> value map the bucket array stores.
Contents(T) ==
    LET live == {i \in DOMAIN T.buckets : IsLive(T.buckets[i])}
    IN  [k \in {T.buckets[i].key : i \in live} |->
            T.buckets[CHOOSE i \in live : T.buckets[i].key = k].val]

\* The probe sequence of `key`: the j-th bucket lookupBucketFor visits.
ProbeSeq(T, key) ==
    LET n     == getNumBuckets(T)
        start == getHashValue(key) % n
        idx[j \in 0..n - 1] == IF j = 0 THEN start ELSE (idx[j - 1] + j) % n
    IN  idx

=============================================================================
