---------------------------- MODULE BasicHashTable ----------------------------
(***************************************************************************)
(* The public operations of BasicHashTable (RxFoundation/BasicHash.hpp)    *)
(* over one table, whatever its backend.  The backend's grow and           *)
(* shrink_and_clear, which the code reaches through                        *)
(* static_cast<DerivedType *>(this), are constant operators: Dictionary    *)
(* and SmallDictionary instantiate this module with theirs.  `ret` records *)
(* what the last call returned, so that the abstract map KVMap is checked  *)
(* against the results and not only against the contents.                  *)
(***************************************************************************)
EXTENDS BasicHash, TLC

CONSTANTS
    grow(_, _),           \* DerivedType::grow(table, atLeast)
    shrink_and_clear(_),  \* DerivedType::shrink_and_clear(table)
    ReserveArgs,          \* arguments of reserve()
    DefaultValue,         \* ValueTy(), the value operator[] constructs
    NotFound              \* find() returned end()

ASSUME DefaultValue \in Vals /\ NotFound \notin Vals

VARIABLES
    table,  \* [buckets, numEntries, numTombstones, epoch, backend fields]
    ret     \* the result of the last call

vars == <<table, ret>>

\* A call whose lookup never returns leaves the program stuck.
Hung == <<"hung">>

-----------------------------------------------------------------------------
(* insertIntoBucketImpl followed by the key and value writes of            *)
(* insertIntoBucket.  `bucket` is the slot lookupBucketFor reported.  The  *)
(* epoch is bumped first; then the table grows to twice its size when the  *)
(* new entry would reach 3/4 load, or is rehashed at the same size when at *)
(* most 1/8 of it would stay free, and the slot is looked up again.        *)
(* Result: the new table and the bucket written.                           *)
\* Variant: no decrementNumTombstones when a tombstone is reused.
insertIntoBucket_keepsTombstoneCount(T, key, value, bucket) ==
    LET T1            == [T EXCEPT !.epoch = @ + 1]
        newNumEntries == Wrap(T.numEntries + 1)
        numBuckets    == getNumBuckets(T)
        doubles       == Wrap(newNumEntries * 4) >= Wrap(numBuckets * 3)
        rehashes      == Wrap(numBuckets - (newNumEntries + T.numTombstones))
                            <= numBuckets \div 8
        T2 == CASE doubles  -> grow(T1, Wrap(numBuckets * 2))
                [] rehashes -> grow(T1, numBuckets)
                [] OTHER    -> T1
        B  == IF doubles \/ rehashes
              THEN lookupBucketFor(T2, key).bucket ELSE bucket
    IN  [table |-> [T2 EXCEPT !.numEntries = Wrap(@ + 1),
                              !.buckets[B] = [key |-> key, val |-> value]],
         bucket |-> B]

\* Variant: only the load-factor growth, no same-size rehash.
insertIntoBucket_noRehash(T, key, value, bucket) ==
    LET T1            == [T EXCEPT !.epoch = @ + 1]
        numBuckets    == getNumBuckets(T)
        doubles       == Wrap(Wrap(T.numEntries + 1) * 4) >= Wrap(numBuckets * 3)
        T2 == IF doubles THEN grow(T1, Wrap(numBuckets * 2)) ELSE T1
        B  == IF doubles THEN lookupBucketFor(T2, key).bucket ELSE bucket
    IN  [table |->
            [T2 EXCEPT
                !.numEntries = Wrap(@ + 1),
                !.numTombstones = IF ~isEqual(T2.buckets[B].key, getEmptyKey)
                                  THEN Wrap(@ - 1) ELSE @,
                !.buckets[B] = [key |-> key, val |-> value]],
         bucket |-> B]

insertIntoBucket(T, key, value, bucket) ==
    LET T1            == [T EXCEPT !.epoch = @ + 1]
        newNumEntries == Wrap(T.numEntries + 1)
        numBuckets    == getNumBuckets(T)
        doubles       == Wrap(newNumEntries * 4) >= Wrap(numBuckets * 3)
        rehashes      == Wrap(numBuckets - (newNumEntries + T.numTombstones))
                            <= numBuckets \div 8
        T2 == CASE doubles  -> grow(T1, Wrap(numBuckets * 2))
                [] rehashes -> grow(T1, numBuckets)
                [] OTHER    -> T1
        B  == IF doubles \/ rehashes
              THEN lookupBucketFor(T2, key).bucket ELSE bucket
    IN  [table |->
            [T2 EXCEPT
                !.numEntries = Wrap(@ + 1),
                !.numTombstones = IF ~isEqual(T2.buckets[B].key, getEmptyKey)
                                  THEN Wrap(@ - 1) ELSE @,
                !.buckets[B] = [key |-> key, val |-> value]],
         bucket |-> B]

-----------------------------------------------------------------------------
(* clear and reserve.                                                      *)

\* Variant: the epoch is bumped only when clear() reallocates.
clear_epochOnlyOnShrink(T) ==
    CASE T.numEntries = 0 /\ T.numTombstones = 0 -> T
      [] T.numEntries * 4 < getNumBuckets(T)
            /\ getNumBuckets(T) > MinBuckets ->
                shrink_and_clear([T EXCEPT !.epoch = @ + 1])
      [] OTHER -> initEmpty(T)

\* clear(): bump the epoch; nothing to do on an empty table; a large table
\* with under 1/4 load is shrink_and_clear'ed; otherwise every bucket is
\* reset to the empty key in place and both counters are zeroed.
clear(T) ==
    LET T1 == [T EXCEPT !.epoch = @ + 1]
    IN  CASE T.numEntries = 0 /\ T.numTombstones = 0 -> T1
          [] T.numEntries * 4 < getNumBuckets(T)
                /\ getNumBuckets(T) > MinBuckets -> shrink_and_clear(T1)
          [] OTHER -> initEmpty(T1)

\* reserve(numEntries): bump the epoch; grow when more buckets are needed.
reserve(T, numEntries) ==
    LET numBuckets == getMinBucketToReserveForEntries(numEntries)
        T1         == [T EXCEPT !.epoch = @ + 1]
    IN  IF numBuckets > getNumBuckets(T) THEN grow(T1, numBuckets) ELSE T1

-----------------------------------------------------------------------------
(* The public operations.                                                  *)

\* insert(pair): nothing when the key is present, else insertIntoBucket.
Insert(k, v) ==
    LET r == lookupBucketFor(table, k)
        w == insertIntoBucket(table, k, v, r.bucket)
    IN  /\ ret # Hung
        /\ CASE r.bucket = NoReturn ->
                    ret' = Hung /\ UNCHANGED table
             [] r.found ->
                    ret' = <<"insert", k, FALSE>> /\ UNCHANGED table
             [] OTHER ->
                    table' = w.table /\ ret' = <<"insert", k, TRUE>>

\* operator[] / findAndConstruct: the bucket of k, inserting ValueTy().
FindAndConstruct(k) ==
    LET r == lookupBucketFor(table, k)
        w == insertIntoBucket(table, k, DefaultValue, r.bucket)
    IN  /\ ret # Hung
        /\ CASE r.bucket = NoReturn ->
                    ret' = Hung /\ UNCHANGED table
             [] r.found ->
                    ret' = <<"subscript", k, table.buckets[r.bucket].val>>
                    /\ UNCHANGED table
             [] OTHER ->
                    table' = w.table /\ ret' = <<"subscript", k, DefaultValue>>

\* find(key) / count(key): the bucket's value, or end().
Find(k) ==
    LET r == lookupBucketFor(table, k)
    IN  /\ ret # Hung
        /\ ret' = CASE r.bucket = NoReturn -> Hung
                    [] r.found -> <<"find", k, table.buckets[r.bucket].val>>
                    [] OTHER   -> <<"find", k, NotFound>>
        /\ UNCHANGED table

\* erase(const KeyTy &): tombstone the key's bucket if present.
Erase(k) ==
    LET r == lookupBucketFor(table, k)
    IN  /\ ret # Hung
        /\ CASE r.bucket = NoReturn ->
                    ret' = Hung /\ UNCHANGED table
             [] r.found ->
                    table' = eraseBucket(table, r.bucket)
                    /\ ret' = <<"erase", k, TRUE>>
             [] OTHER ->
                    ret' = <<"erase", k, FALSE>> /\ UNCHANGED table

Clear ==
    /\ ret # Hung
    /\ table' = clear(table)
    /\ ret' = <<"clear">>

\* reserve(numEntries) returns nothing.
Reserve(n) ==
    /\ ret # Hung
    /\ table' = reserve(table, n)
    /\ UNCHANGED ret

-----------------------------------------------------------------------------
(* Properties of any backend.                                              *)

\* _numEntries and _numTombstones count the live and the tombstoned
\* buckets, and the array has a power-of-two length or is null, after any
\* sequence of inserts, erases, grows, same-size rehashes, shrinks and
\* clears (clear() asserts "Node count imbalance!" on the first).
CountersConsistent ==
    /\ table.numEntries =
          Cardinality({i \in DOMAIN table.buckets : IsLive(table.buckets[i])})
    /\ table.numTombstones =
          Cardinality({i \in DOMAIN table.buckets :
                          table.buckets[i].key = getTombstoneKey})
    /\ getNumBuckets(table) \in {0} \cup {2^i : i \in 0..W - 1}

\* Every live key sits on its own probe sequence, and no bucket before it
\* on that sequence is empty or holds the same key: lookupBucketFor finds
\* every stored key, and no key is stored twice.  Erase must leave a
\* tombstone, and grow must re-probe, for this to survive.
ProbeChainIntact ==
    \A i \in DOMAIN table.buckets :
        IsLive(table.buckets[i]) =>
            LET k   == table.buckets[i].key
                seq == ProbeSeq(table, k)
            IN  \E j \in DOMAIN seq :
                    /\ seq[j] = i
                    /\ \A m \in 0..j - 1 :
                          table.buckets[seq[m]].key \notin {getEmptyKey, k}

\* A non-null bucket array always keeps an empty bucket, so the probe loop
\* of lookupBucketFor (which stops only at the key or an empty bucket)
\* terminates for every key: the same-size rehash of insertIntoBucketImpl
\* is what reclaims buckets filled by tombstones.
ProbeAlwaysStops ==
    getNumBuckets(table) > 0 =>
        \E i \in DOMAIN table.buckets : table.buckets[i].key = getEmptyKey

\* The table implements the abstract map: its contents and the result of
\* every insert, operator[], find, erase and clear are those of KVMap.
Abstract == INSTANCE KVMap WITH map <- Contents(table), ret <- ret

=============================================================================
