--------------------------- MODULE SmallDictionary ---------------------------
(***************************************************************************)
(* Rx::SmallDictionary<int, V, InlineBuckets> (RxFoundation/Dictionary.hpp) *)
(* the inline backend of BasicHashTable.  The object holds a union of      *)
(* InlineBuckets buckets and a LargeRep {_buckets, _numBuckets}, told      *)
(* apart by the one-bit field _small.  A table here is a BasicHash table   *)
(* with one more field, small; its bucket array is the inline one when     *)
(* small (InlineBuckets buckets) and the heap one otherwise.               *)
(***************************************************************************)
EXTENDS BasicHash, TLC

CONSTANTS
    InlineBuckets,  \* the template parameter (default 4)
    InitBuckets,    \* numInitBuckets arguments of the constructor
    ReserveArgs,    \* arguments of reserve()
    DefaultValue,   \* ValueTy(), the value operator[] constructs
    NotFound        \* find() returned end()

ASSUME InlineBuckets \in {2^i : i \in 0..W - 1}
ASSUME InitBuckets \subseteq {0} \cup {2^i : i \in 0..W - 1}

VARIABLES
    sdict,  \* [buckets, numEntries, numTombstones, epoch, small]
    ret     \* the result of the last call

vars == <<sdict, ret>>

-----------------------------------------------------------------------------
(* The backend member functions BasicHashTable dispatches to.              *)

\* The inline storage, not yet initialised: what getInlineBuckets() points
\* at right after _small is set.
inlineStorage(T) ==
    [T EXCEPT !.small = TRUE,
              !.buckets = [i \in 0..InlineBuckets - 1 |->
                              [key |-> Uninit, val |-> NoValue]]]

\* allocateBuckets(Num) placed in the union: a fresh heap array.  The code
\* asserts Num > InlineBuckets ("Must allocate more buckets than are
\* inline"); LargeRepLargerThanInline checks that no caller breaks it.
allocateBuckets(T, Num) ==
    [T EXCEPT !.small = FALSE,
              !.buckets = [i \in 0..Num - 1 |-> [key |-> Uninit, val |-> NoValue]]]

\* init(initBuckets): inline unless more buckets than fit inline are asked
\* for (a bucket count here, unlike Dictionary::init), then initEmpty.
init(T, initBuckets) ==
    initEmpty(IF initBuckets > InlineBuckets
              THEN allocateBuckets(T, initBuckets)
              ELSE inlineStorage(T))

\* Variant: promotion copies the inline array into the start of the heap
\* array as it is, instead of re-probing the entries.
promote_copyInline(T, atLeast) ==
    LET H == allocateBuckets(T, atLeast)
    IN  [H EXCEPT !.buckets = [i \in DOMAIN @ |->
                                 IF i \in DOMAIN T.buckets THEN T.buckets[i] ELSE @[i]]]

\* Variant: the copy-out loop stops one inline bucket early.
promote_dropsLastInline(T, atLeast) ==
    moveFromOldBuckets(allocateBuckets(T, atLeast),
                       [i \in 0..InlineBuckets - 2 |-> T.buckets[i]])

\* Variant: the new heap array keeps the inline tombstone count.
promote_keepsTombstones(T, atLeast) ==
    [moveFromOldBuckets(allocateBuckets(T, atLeast), T.buckets)
        EXCEPT !.numTombstones = T.numTombstones]

\* The _small branch of grow(): the live inline buckets are moved out to
\* tmpStorage (in array order), the union switches to a LargeRep of
\* atLeast buckets, and moveFromOldBuckets re-probes the tmp entries into
\* it.  Passing the whole inline array is the same: moveFromOldBuckets
\* skips the empty and tombstone buckets tmpStorage never received.
promote(T, atLeast) ==
    moveFromOldBuckets(allocateBuckets(T, atLeast), T.buckets)

\* Variant: the rounding applies only above InlineBuckets (> for >=).
grow_roundsAboveInline(T, atLeast) ==
    LET n == IF atLeast > InlineBuckets
             THEN max(MinBuckets, nextPowerOf2(Wrap(atLeast - 1))) ELSE atLeast
    IN  CASE T.small /\ n < InlineBuckets -> T
          [] T.small -> promote(T, n)
          [] OTHER   -> moveFromOldBuckets(IF n <= InlineBuckets
                                           THEN inlineStorage(T)
                                           ELSE allocateBuckets(T, n), T.buckets)

\* grow(atLeast): from InlineBuckets up, round to a power of two of at
\* least MinBuckets (the code's 64).  A small table that needs fewer than
\* InlineBuckets is left alone, otherwise promoted; a large one moves its
\* entries to the inline storage or to a new heap array.
grow(T, atLeast) ==
    LET n == IF atLeast >= InlineBuckets
             THEN max(MinBuckets, nextPowerOf2(Wrap(atLeast - 1))) ELSE atLeast
    IN  CASE T.small /\ n < InlineBuckets -> T
          [] T.small -> promote(T, n)
          [] OTHER   -> moveFromOldBuckets(IF n <= InlineBuckets
                                           THEN inlineStorage(T)
                                           ELSE allocateBuckets(T, n), T.buckets)

\* shrink_and_clear(): destroyAll, then a bucket count of twice the old
\* size rounded up to a power of two, raised to MinBuckets when it no
\* longer fits inline.  Same representation and size: initEmpty in place;
\* otherwise deallocateBuckets and init.  (The source reads
\* getLargeRep()->numBuckets, a member LargeRep does not have; the model
\* reads _numBuckets, the only field it can mean.)
shrink_and_clear(T) ==
    LET oldSize == T.numEntries
        n0 == IF oldSize # 0 THEN 2^(log2_32_Ceil(oldSize) + 1) ELSE 0
        newNumBuckets == IF n0 > InlineBuckets /\ n0 < MinBuckets
                         THEN MinBuckets ELSE n0
    IN  IF \/ T.small /\ newNumBuckets <= InlineBuckets
           \/ ~T.small /\ newNumBuckets = getNumBuckets(T)
        THEN initEmpty(T)
        ELSE init(T, newNumBuckets)

-----------------------------------------------------------------------------
(* Operations.                                                             *)

HT == INSTANCE BasicHashTable WITH table <- sdict

\* SmallDictionary(numInitBuckets): Epoch starts at 0.
Init ==
    /\ \E n \in InitBuckets :
          sdict = init([buckets |-> <<>>, numEntries |-> 0, numTombstones |-> 0,
                        epoch |-> 0, small |-> TRUE], n)
    /\ ret = <<"none">>

Next ==
    \/ \E k \in Keys, v \in Vals : HT!Insert(k, v)
    \/ \E k \in Keys : HT!FindAndConstruct(k)
    \/ \E k \in Keys : HT!Find(k)
    \/ \E k \in Keys : HT!Erase(k)
    \/ HT!Clear
    \/ \E n \in ReserveArgs : HT!Reserve(n)

Spec == Init /\ [][Next]_vars

-----------------------------------------------------------------------------
(* Properties.                                                             *)

TypeOK ==
    /\ sdict.buckets \in [0..getNumBuckets(sdict) - 1 -> Bucket]
    /\ sdict.numEntries \in Nat /\ sdict.numTombstones \in Nat
    /\ sdict.epoch \in Nat
    /\ sdict.small \in BOOLEAN

\* The union is read the way it was written: a small table has exactly
\* InlineBuckets buckets, and every heap array holds more than that, which
\* is what allocateBuckets asserts of each grow, promotion and re-init.
LargeRepLargerThanInline ==
    IF sdict.small THEN getNumBuckets(sdict) = InlineBuckets
    ELSE getNumBuckets(sdict) > InlineBuckets

\* The counters match the buckets across promotion (see BasicHashTable).
CountersConsistent == HT!CountersConsistent

\* SmallDictionary implements the abstract map KVMap, results included:
\* promotion keeps every entry and its value.
KVMapRefinement == HT!Abstract!Spec

=============================================================================
