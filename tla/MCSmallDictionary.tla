------------------------- MODULE MCSmallDictionary -------------------------
(* SmallDictionary<int, V, 4> instantiated for TLC, with MinBuckets (the   *)
(* code's 64) scaled to 8 so that it stays above InlineBuckets as 64 is    *)
(* above the default 4.  A key's home bucket is k mod numBuckets (see      *)
(* MCDictionary): 1, 5, 9 collide inline.  reserve(6) asks for 16 buckets, *)
(* the only way to a table large enough for clear() to shrink it.         *)
EXTENDS SmallDictionary

MCKeys == {1, 2, 3, 5, 9}

\* The epoch only matters to iterators, which this model does not hold.
MCView == <<sdict.buckets, sdict.numEntries, sdict.numTombstones,
            sdict.small, ret>>

=============================================================================
