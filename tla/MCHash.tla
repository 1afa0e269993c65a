-------------------------------- MODULE MCHash --------------------------------
(***************************************************************************)
(* The hash BasicHashInfo<int> computes, for every int key in a small      *)
(* window around zero, compared with the one spec.md describes.            *)
(***************************************************************************)
EXTENDS BasicHashInfo

VARIABLE k

Init == k \in -8..8

\* The inputs do not change; every state is checked once.
Next == UNCHANGED k

Spec == Init /\ [][Next]_k

\* HASHFACTOR == 2654435761; its low 16 bits.
HASHFACTOR_LOW == 31153

\* spec.md (KeyTraits): integer-key traits scale the key by a fixed odd
\* multiplier to spread its bits; the helper's integral overload computes
\* |key| * HASHFACTOR.  The low bits of the hash should be those.
IntKeysScaledByHashFactor ==
    getHashValue(k) = ((IF k > 0 THEN k ELSE -k) * HASHFACTOR_LOW) % 65536

=============================================================================
