----------------------- MODULE MCDictionaryIterators -----------------------
(* DictionaryIterators for TLC: one iterator over a Dictionary<int, V>     *)
(* with keys 1, 5 (colliding in a 4-bucket table) and 2.                   *)
EXTENDS DictionaryIterators

MCKeys == {1, 2, 5}

\* Epoch and gen only grow, and the model only compares a captured value
\* with the current one, so a state is determined by the comparisons.
MCIterView ==
    <<dict.buckets, dict.numEntries, dict.numTombstones, ret,
      [i \in Iters |-> IF its[i] = NoIter THEN NoIter
                       ELSE <<its[i].epoch = dict.epoch, its[i].gen = dict.gen,
                              its[i].pos>>]>>

=============================================================================
