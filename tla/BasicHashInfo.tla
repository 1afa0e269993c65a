---------------------------- MODULE BasicHashInfo ----------------------------
(***************************************************************************)
(* KeyTraits for int keys: BasicHashInfo<int> and the BasicHashInfoHelper  *)
(* it calls (RxFoundation/BasicHashTypeInfo.hpp).  The table only uses the *)
(* low bits of the hash (hash & (numBuckets - 1)), so the 64-bit hash is   *)
(* kept to its low 16 bits, which is exact for every table of at most 2^16 *)
(* buckets.                                                                *)
(***************************************************************************)
EXTENDS Integers

\* BasicHashInfo<int>::getEmptyKey() == 0x7fffffff
getEmptyKey == 2147483647

\* BasicHashInfo<int>::getTombstoneKey() == -0x7fffffff - 1
getTombstoneKey == -2147483647 - 1

\* BasicHashInfo<int>::getHashValue(const int &val) calls
\* BasicHashInfoHelper<decltype(val)>, i.e. the helper for `const int &`,
\* whose getHashValue calls _getHashValue<const int &>.  A reference type
\* is neither integral nor arithmetic, so overload resolution drops the
\* |key| * HASHFACTOR overload and picks the third, (HashCode)key: the key
\* converted to an unsigned 64-bit word, of which these are the low bits.
getHashValue(key) == key % 65536

\* BasicHashInfo<int>::isEqual
isEqual(lhs, rhs) == lhs = rhs

=============================================================================
