------------------------- MODULE MCDictionaryController -------------------------
(***************************************************************************)
(* Two components checked in one run; part, chosen initially, says which   *)
(* a behaviour exercises, and the other stays in its initial state.        *)
(*   - Dictionary<int, V>.  The int hash is |k| * 0x9E3779B1 and that      *)
(*     factor is 1 mod 16, so a key's home bucket is k mod numBuckets: 1,  *)
(*     5, 9 collide in a 4-bucket table, 1 and 9 (and 3) still probe past  *)
(*     each other at 8 buckets, 2 spreads.  MinBuckets, the code's 64, is  *)
(*     4: five keys make the table grow 0 -> 4 -> 8, fill a 4-bucket table *)
(*     with tombstones, rehash it in place, and shrink it.                 *)
(*   - The reference controller, with threads sharing one object through   *)
(*     ThreadSafe pointers, or by calls the client serialises in           *)
(*     NotThreadSafe mode.  Its fairness applies to its own steps.         *)
(***************************************************************************)
CONSTANTS W, Vals, NoValue, Uninit, DefaultValue, NotFound,
          MinBuckets, InitReserve, ReserveArgs, Threads, Modes

VARIABLES part, dict, ret, ctrl, shared, weak, pc, orig, mode

MCKeys == {1, 2, 3, 5, 9}

D  == INSTANCE Dictionary WITH Keys <- MCKeys
RC == INSTANCE ReferenceController

dictVars == <<dict, ret>>
rcVars   == <<ctrl, shared, weak, pc, orig, mode>>
vars     == <<part, dictVars, rcVars>>

Init == part \in {"dict", "rc"} /\ D!Init /\ RC!Init

\* A step of the reference controller's part.
RCStep(A) == part = "rc" /\ A /\ UNCHANGED <<part, dictVars>>

Next ==
    \/ part = "dict" /\ D!Next /\ UNCHANGED <<part, rcVars>>
    \/ RCStep(RC!Next)

\* The controller's fairness: a thread inside a call finishes it.
Spec == Init /\ [][Next]_vars /\ \A t \in Threads : WF_vars(RCStep(RC!Continue(t)))

\* The epoch only matters to iterators, which this model does not hold;
\* the part not under check stands still.
MCView ==
    <<part, IF part = "dict"
            THEN <<dict.buckets, dict.numEntries, dict.numTombstones, ret>>
            ELSE rcVars>>

-----------------------------------------------------------------------------

\* Both components keep their types.
TypeOK == D!TypeOK /\ RC!TypeOK

\* Dictionary: _numEntries and _numTombstones, which insert, erase, grow
\* and clear each move separately, always count the live and the
\* tombstone buckets, and the bucket count is 0 or a power of two.
CountersConsistent == D!CountersConsistent

\* Dictionary: every stored key sits on its own probe path before any
\* empty bucket and is stored once, so lookupBucketFor finds it after any
\* sequence of erases, tombstone reuses, rehashes and shrinks.
ProbeChainIntact == D!ProbeChainIntact

\* Dictionary: some bucket is empty whenever the array is allocated, so
\* lookupBucketFor's while(1) always stops.
ProbeAlwaysStops == D!ProbeAlwaysStops

\* Dictionary: every operation returns what the abstract map KVMap returns
\* and changes its contents as KVMap does.
KVMapRefinement == D!KVMapRefinement

\* Controller: both counts equal the references that exist, whatever the
\* interleaving of the interlocked operations.
CountsMatchReferencers == RC!CountsMatchReferencers

\* Controller: a valid SharedPtr never refers to a destroyed object; pin
\* racing the last release never revives it.
NoUseAfterDestroy == RC!NoUseAfterDestroy

\* Controller: it is deleted only when nobody holds it or is inside a call
\* on it.
ControllerOutlivesReferences == RC!ControllerOutlivesReferences

\* Controller: once nobody holds a reference, the object is eventually
\* destroyed and the controller deleted.
UnreferencedIsFreed == RC!UnreferencedIsFreed

=============================================================================
