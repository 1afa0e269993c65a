-------------------------------- MODULE Math --------------------------------
(***************************************************************************)
(* Rx::Math (RxFoundation/Math.hpp): the bit tricks the hash table uses to *)
(* size its bucket arrays.  Unsigned words are W bits wide: the code's     *)
(* UInt64/size_t is 64 bits, which TLC's integers cannot hold, and every   *)
(* operator below behaves the same for every width (the wrap-around at the *)
(* top of the word included), so the model instantiates a small W.        *)
(***************************************************************************)
EXTENDS Naturals, Bitwise

CONSTANT W     \* width in bits of UInt64 / size_type in the model

ASSUME W \in 2..30

\* Unsigned W-bit arithmetic: the result of an operation on size_type.
Wrap(x) == x % (2^W)

\* The or-shift cascade v |= v >> 1; v |= v >> 2; ... of nextPowerOf2,
\* with the shifts s, 2s, ... narrower than `width`.
RECURSIVE Smear(_, _, _)
Smear(v, s, width) ==
    IF s >= width THEN v ELSE Smear(v | shiftR(v, s), 2 * s, width)

\* Variant: the last shift of the cascade (v >> 32 in the 64-bit overload)
\* is left out.
nextPowerOf2_noLastShift(v) == Wrap(Smear(v, 1, W \div 2) + 1)

\* Math::nextPowerOf2(UInt64 v): the smallest power of two strictly
\* greater than v; v + 1 wraps to 0 when v has its top bit set.
nextPowerOf2(v) == Wrap(Smear(v, 1, W) + 1)

\* Math::max / Math::min
max(a, b) == IF a < b THEN b ELSE a
min(a, b) == IF a < b THEN a ELSE b

\* Number of significant bits of x.
RECURSIVE BitLength(_)
BitLength(x) == IF x = 0 THEN 0 ELSE 1 + BitLength(x \div 2)

\* The bisection loop of countLeadingZeros_32 (the #else branch, for
\* compilers without __builtin_clz): halve the shift from 16; keep the
\* high part when it is non-zero, else count the shift as zeros.
RECURSIVE Bisect(_, _, _)
Bisect(value, shift, count) ==
    IF shift = 0 THEN count
    ELSE LET tmp == shiftR(value, shift)
         IN  IF tmp # 0 THEN Bisect(tmp, shift \div 2, count)
             ELSE Bisect(value, shift \div 2, count + shift)

\* Variant: the loop starts from 32 >> 2 instead of 32 >> 1.
countLeadingZerosBisect_shortLoop(value) ==
    IF value = 0 THEN 32 ELSE Bisect(value, 8, 0)

countLeadingZerosBisect(value) ==
    IF value = 0 THEN 32 ELSE Bisect(value, 16, 0)

\* Math::countLeadingZeros_32 as built with __builtin_clz (GCC/Clang):
\* 32 for the zero word, else 32 less the significant bits.
countLeadingZeros_32(x) == IF x = 0 THEN 32 ELSE 32 - BitLength(x)

\* Variant: the `- 1` is left out.
log2_32_Ceil_noMinusOne(v) == 32 - countLeadingZeros_32(v)

\* Math::log2_32_Ceil(v) == 32 - countLeadingZeros_32(v - 1).  For v = 0
\* the UInt32 subtraction wraps to 0xFFFFFFFF, a word with no leading zero
\* (TLC cannot hold that word, so the case is written out).
log2_32_Ceil(v) == 32 - (IF v = 0 THEN 0 ELSE countLeadingZeros_32(v - 1))

=============================================================================
