------------------------------ MODULE MCComponents -----------------------------
(***************************************************************************)
(* The components whose runs are small, checked in one run:                *)
(*   - RefPtr over RefCountedBase objects;                                 *)
(*   - IntegerIdGenerator with one caller at a time;                       *)
(*   - DoubleLinkedList and its refinement of a sequence;                  *)
(*   - the intrusive LinkedList and its refinement of head-named lists;    *)
(*   - SharedRef, SharedPtr and WeakPtr over their reference controllers;  *)
(*   - ReadWriteLock, with two readers and two writers;                    *)
(*   - the KVO observer registry, with one client thread;                  *)
(*   - Rx::Data, one object after another;                                 *)
(*   - the pure operators of Math and the probe loop (MCMath), on 16-bit   *)
(*     words.                                                              *)
(* A behaviour exercises one of them: part, chosen initially, says which,  *)
(* and the others stay in their initial states.  The states checked are    *)
(* those of the components alone, not a product, and the lock's fairness   *)
(* applies to the lock's steps only.                                       *)
(***************************************************************************)
CONSTANTS Ptrs, Objects, Null, W, InitIds, BatchSizes,
          Nodes, Values, SRs, SPs, WPs, Dead, MathVals, NoValue, Uninit,
          Readers, Writers, NoThread, Shareable, LNodes, LHeads, KVOObservers, KVOKeys, Kinds, MaxPairs, NoEntry,
          DataBytes, DataMaxLength, DataMaxArg, Self, Undef, NoData

VARIABLES part,
          live, ref, cnt, ostate,
          id, pc, size, cur, req, batch, result, issued, reissued,
          head, tail, listSize, next, prev, value, nstate, call,
          ptr, ctrl,
          mtx, waiting, reader, writer, pending, op, stage, held,
          info, pair, th, notice, subscribed, failed,
          link, prevLink, lcall,
          data, contents, callerBuffer,
          in

R == INSTANCE RefPtr
G == INSTANCE IdGenerator WITH Callers <- {"caller"}
L == INSTANCE DoubleLinkedList WITH size <- listSize
S == INSTANCE SharedPointers
RW == INSTANCE ReadWriteLock
K == INSTANCE KVO WITH Threads <- {"client"}, Observers <- KVOObservers, Keys <- KVOKeys
LL == INSTANCE LinkedList WITH Nodes <- LNodes, Heads <- LHeads, call <- lcall
D == INSTANCE Data WITH Bytes <- DataBytes, MaxLength <- DataMaxLength, MaxArg <- DataMaxArg
M == INSTANCE MCMath WITH W <- 16, Keys <- {1, 2}, Vals <- MathVals, MinBuckets <- 4

refVars  == <<live, ref, cnt, ostate>>
idVars   == <<id, pc, size, cur, req, batch, result, issued, reissued>>
listVars == <<head, tail, listSize, next, prev, value, nstate, call>>
spVars   == <<ptr, ctrl>>
rwVars   == <<mtx, waiting, reader, writer, pending, op, stage, held>>
kvoVars  == <<info, pair, th, notice, subscribed, failed>>
llVars   == <<link, prevLink, lcall>>
dataVars == <<data, contents, callerBuffer>>
vars     == <<part, refVars, idVars, listVars, spVars, rwVars, kvoVars, llVars, dataVars, in>>

Parts == {"refptr", "idgen", "list", "sharedptr", "rwlock", "kvo", "linkedlist", "data", "math"}

\* Each component starts as its own Init says; the inputs of the operators
\* are enumerated only when they are the part under check.
Init ==
    /\ part \in Parts
    /\ R!Init /\ G!Init /\ L!Init /\ S!Init /\ RW!Init /\ K!Init /\ LL!Init /\ D!Init
    /\ IF part = "math" THEN M!Init ELSE in = [kind |-> "word", v |-> 0]

\* The read-write lock's step, for the fairness conditions below.
RWStep(A) == part = "rwlock" /\ A /\ UNCHANGED <<part, refVars, idVars, listVars, spVars, kvoVars, llVars, dataVars, in>>

RWNext == RWStep(RW!Next)

\* ReadWriteLock's fairness (see that module), on the lock's part.
Fairness ==
    \A t \in Readers \cup Writers :
        /\ WF_vars(RWStep(RW!Body(t)))
        /\ SF_vars(RWStep(RW!Acquire(t)))
        /\ WF_vars(RWStep(RW!Call(t, "unlockRead")))
        /\ WF_vars(RWStep(RW!Call(t, "unlockWrite")))

\* A step of the part under check; the others stand still.
Next ==
    \/ part = "refptr" /\ R!Next /\ UNCHANGED <<part, idVars, listVars, spVars, rwVars, kvoVars, llVars, dataVars, in>>
    \/ part = "idgen" /\ G!Next /\ UNCHANGED <<part, refVars, listVars, spVars, rwVars, kvoVars, llVars, dataVars, in>>
    \/ part = "list" /\ L!Next /\ UNCHANGED <<part, refVars, idVars, spVars, rwVars, kvoVars, llVars, dataVars, in>>
    \/ part = "sharedptr" /\ S!Next /\ UNCHANGED <<part, refVars, idVars, listVars, rwVars, kvoVars, llVars, dataVars, in>>
    \/ RWNext
    \/ part = "kvo" /\ K!Next /\ UNCHANGED <<part, refVars, idVars, listVars, spVars, rwVars, llVars, dataVars, in>>
    \/ part = "linkedlist" /\ LL!Next /\ UNCHANGED <<part, refVars, idVars, listVars, spVars, rwVars, kvoVars, dataVars, in>>
    \/ part = "data" /\ D!Next /\ UNCHANGED <<part, refVars, idVars, listVars, spVars, rwVars, kvoVars, llVars, in>>
    \/ part = "math" /\ UNCHANGED vars

Spec == Init /\ [][Next]_vars /\ Fairness

-----------------------------------------------------------------------------

\* Every component keeps its type; in particular RefPtr's ref_cnt never
\* goes below zero (release's assert).
TypeOK == part \in Parts /\ R!TypeOK /\ S!TypeOK /\ RW!TypeOK /\ K!TypeOK /\ LL!TypeOK /\ D!TypeOK

\* RefPtr: each live object's ref_cnt equals the RefPtrs holding it.
CountMatchesHolders == R!CountMatchesHolders

\* RefPtr: an object is deleted exactly when its last holder lets go,
\* self-assignment included.
NoDanglingNoLeak == R!NoDanglingNoLeak

\* IdGenerator: a getNextIds that returns true got `size` valid ids.
BatchResultMeansAllValid == G!BatchResultMeansAllValid

\* DoubleLinkedList: the _next and _prev links form one list of _size
\* nodes from _headNode to _tailNode.
WellLinked == L!WellLinked

\* DoubleLinkedList: every call changes the list as the sequence it stands
\* for promises.
ListRefinement == L!ListRefinement

\* LinkedList: head pointers, _nextLink and _prevLink stay consistent
\* through any sequence of Link and Unlink.
LinksConsistent == LL!WellLinked

\* LinkedList: each call changes the lists from the heads as LinkedChains
\* says.
LinkedRefinement == LL!LinkedRefinement

\* Shared pointers: each live controller's counts equal the pointers
\* holding it.
CountsMatchPointers == S!CountsMatchPointers

\* Shared pointers: no pointer reaches a deleted controller or a destroyed
\* object, and an unreferenced controller is deleted at once.
SharedNoDanglingNoLeak == S!NoDanglingNoLeak

\* Shared pointers: asShared() on an object a shared pointer reaches
\* pins its WeakThis, on the pointer's own controller.
AsSharedFindsThis == S!AsSharedFindsThis

\* ReadWriteLock: a writer holds the lock alone.
ReadersWritersExclusive == RW!ReadersWritersExclusive

\* ReadWriteLock: _reader, _writer and _pending match what the threads do.
CountersMatchThreads == RW!CountersMatchThreads

\* ReadWriteLock: a writer waiting in lockWrite is eventually served.
WaitingWriterServed == RW!WaitingWriterServed

\* KVO: the destructor's assertion, every pair Default once the client is
\* outside willChange/didChange.
CallStateDefaultWhenIdle == K!CallStateDefaultWhenIdle

\* Data: appendData (of other bytes or of the Data itself, across the
\* realloc of a grow), replaceBytes and deleteBytes leave the Data holding
\* the bytes the calls promise, within its capacity.
DataHoldsContents == D!DataHoldsContents

\* Data: roundUpCapacity gives the least power of four, then of two, then
\* multiple of ChunkSize above its argument, capped at DataMaxSize.
RoundUpCapacityMatchesReference == M!RoundUpCapacityMatchesReference

\* Math: the bit tricks that size the bucket arrays match their
\* references: nextPowerOf2 is the least power of two above its argument,
\* both countLeadingZeros_32 count the leading zeros, and log2_32_Ceil,
\* built on them, is the ceiling of log2.
MathMatchesReferences ==
    /\ M!NextPowerOf2IsLeastGreaterPower
    /\ M!LeadingZerosCounted
    /\ M!Log2CeilIsCeiling

\* The probe loop visits every bucket of a power-of-two table.
ProbeReachesEveryBucket == M!ProbeReachesEveryBucket

\* UnicodeChar: a surrogate pair decodes to the code point it encodes.
SurrogatePairDecoded == M!SurrogatePairDecoded

\* UnicodeChar: addCharacterToBitmap sets that character's bit alone.
BitmapHoldsWhatWasAdded == M!BitmapHoldsWhatWasAdded

\* UnicodeChar: isMemberOf(charset) reads that set's own bitmap.
CharsetsReadTheirOwnBitmap == M!CharsetsReadTheirOwnBitmap

\* UnicodeChar: LoadBitmapData gives each stored plane its block.
PlaneTableMatchesFile == M!PlaneTableMatchesFile

=============================================================================
