----------------------------- MODULE UnicodeChar -----------------------------
(***************************************************************************)
(* Rx::UnicodeChar (UnicodeChar.hpp, src/UnicodeChar.cpp) as pure          *)
(* operators: the surrogate tests and the decoding of a surrogate pair,    *)
(* the bit of a character in a plane bitmap, the mapping of a character    *)
(* set ID to its bitmap, isMemberOf(charset), and the plane table          *)
(* LoadBitmapData builds for one bitmap of the character set file.         *)
(*                                                                         *)
(* A character is the class's _character, a UTF16Char: 0 .. 2^16 - 1.  A  *)
(* bitmap is a function from byte index to byte, absent bytes being 0;     *)
(* Null is a null bitmap pointer.  The file's 8 * 1024-byte plane blocks   *)
(* are blocks of BlockSize bytes: the parse only divides and offsets by    *)
(* that size.                                                              *)
(***************************************************************************)
EXTENDS Integers, Sequences, Bitwise

CONSTANTS Null, BlockSize

\* The character set IDs of the enum.
ControlCharacterSet == 1
WhitespaceCharacterSet == 2
WhitespaceAndNewlineCharacterSet == 3
DecimalDigitCharacterSet == 4
IllegalCharacterSet == 12
NewlineCharacterSet == 15
CompatibilityDecomposableCharacterSet == 100
ControlAndFormatterCharacterSet == 108
GraphemeExtendCharacterSet == 110

\* detail's enum.
LastExternalSet == NewlineCharacterSet
FirstInternalSet == CompatibilityDecomposableCharacterSet
FirstBitmapSet == DecimalDigitCharacterSet

BitShiftForByte == 3
BitShiftForMask == 7

\* uint32_t results.  A negative intermediate wraps to 2^32 + x, which TLC's
\* integers cannot hold; the only use of such a value is a comparison with
\* a bitmap count or the code point range, so it stands as HighU32, a value
\* above both.
HighU32 == 2147483647
U32(x) == IF x < 0 THEN HighU32 ELSE x

\* Variant: the internal range tested with < instead of <=.
MapExternalSetToInternalIndex_strict(cset) ==
    U32((IF FirstInternalSet < cset
         THEN (cset - FirstInternalSet) + LastExternalSet ELSE cset) - FirstBitmapSet)

\* uint32_t arithmetic: a set below FirstBitmapSet wraps to a huge index.
MapExternalSetToInternalIndex(cset) ==
    U32((IF FirstInternalSet <= cset
         THEN (cset - FirstInternalSet) + LastExternalSet ELSE cset) - FirstBitmapSet)

MapCompatibilitySetID(cset) ==
    IF cset = ControlCharacterSet THEN ControlAndFormatterCharacterSet
    ELSE IF cset > LastExternalSet /\ cset < FirstInternalSet
         THEN (cset - LastExternalSet) + FirstInternalSet
         ELSE cset

isWhitespace(c) ==
    c \in {\h20, \h09, \hA0, \h1680, \h202F, \h205F, \h3000}
    \/ c \in \h2000..\h200B

isNewline(c) == c \in \h0A..\h0D \/ c \in {\h85, \h2028, \h2029}

isWhitespaceAndNewline(c) == isWhitespace(c) \/ isNewline(c)

isSurrogateHighCharacter(c) == c \in \hD800..\hDBFF
isSurrogateLowCharacter(c) == c \in \hDC00..\hDFFF

\* Variant: without the + 0x0010000.
getLongCharacterForSurrogatePair_noBase(h, l) ==
    U32((h - \hD800) * 2^10 + (l - \hDC00))

\* The unsigned long sums, cast to UTF32Char; for a surrogate pair nothing
\* wraps.
getLongCharacterForSurrogatePair(h, l) ==
    U32((h - \hD800) * 2^10 + (l - \hDC00) + \h10000)

ByteAt(bm, i) == IF i \in DOMAIN bm THEN bm[i] ELSE 0

\* isMemberOf(const uint8_t *bitmap).
isMemberOfBitmap(bm, c) ==
    bm # Null /\ (ByteAt(bm, shiftR(c, BitShiftForByte)) & 2^(c & BitShiftForMask)) # 0

\* Variant: `=` for `|=`, the byte's other bits lost.
addCharacterToBitmap_assign(bm, c) ==
    LET i == shiftR(c, BitShiftForByte)
    IN  [j \in DOMAIN bm \cup {i} |-> IF j = i THEN 2^(c & BitShiftForMask) ELSE bm[j]]

\* addCharacterToBitmap: the character's bit set, the others kept.
addCharacterToBitmap(bm, c) ==
    LET i == shiftR(c, BitShiftForByte)
    IN  [j \in DOMAIN bm \cup {i} |->
            IF j = i THEN ByteAt(bm, i) | 2^(c & BitShiftForMask) ELSE bm[j]]

\* isMemberOf(uint32_t charset), with data the loaded BitmapDataArray: a
\* sequence of [numPlanes, planes] (planes: plane -> bitmap or Null), its
\* length NumberOfBitmaps.  planeNo is (character >> 16) & 0xFF of a
\* 16-bit character; the plane 14 to 16 branches are kept as written.
isMemberOf(c, charset, data) ==
    LET cs == MapCompatibilitySetID(charset)
        t  == MapExternalSetToInternalIndex(cs)
        planeNo == shiftR(c, 16) & \hFF
        inPlane == t < Len(data) /\ planeNo < data[t + 1].numPlanes
                                  /\ data[t + 1].planes[planeNo] # Null
        member  == inPlane /\ isMemberOfBitmap(data[t + 1].planes[planeNo], c)
        tag     == (c & \hFF) = \h01 \/ ((c & \hFF) > \h1F /\ (c & \hFF) < \h80)
    IN  CASE cs = WhitespaceCharacterSet -> isWhitespace(c)
          [] cs = WhitespaceAndNewlineCharacterSet -> isWhitespaceAndNewline(c)
          [] cs = NewlineCharacterSet -> isNewline(c)
          [] t >= Len(data) -> FALSE
          [] cs = IllegalCharacterSet ->
                IF planeNo = \h0E THEN ~tag
                ELSE IF planeNo \in {\h0F, \h10} THEN (c & \hFF) > \hFFFD
                ELSE ~inPlane \/ ~isMemberOfBitmap(data[t + 1].planes[planeNo], c)
          [] cs = ControlAndFormatterCharacterSet ->
                IF planeNo = \h0E THEN tag ELSE member
          [] OTHER -> member

\* The plane table LoadBitmapData builds for one bitmap of bitmapSize bytes
\* (bytes, 0-based offsets): numPlanes is one more than the byte just
\* before the last block; then each plane index equal to the plane number
\* read after the previous block gets the next block, any other nullptr.
\* A byte read past the bitmap is Beyond.  The result is [numPlanes,
\* planes], a plane's bitmap being the offset of its block.
Beyond == -1
FileByte(bytes, p) == IF p \in 0..Len(bytes) - 1 THEN bytes[p + 1] ELSE Beyond

RECURSIVE PlaneLoop(_, _, _, _, _)
PlaneLoop(bytes, i, n, pos, cur) ==
    IF i >= n THEN <<>>
    ELSE IF i = cur
         THEN <<pos>> \o PlaneLoop(bytes, i + 1, n, pos + BlockSize + 1,
                                   FileByte(bytes, pos + BlockSize))
         ELSE <<Null>> \o PlaneLoop(bytes, i + 1, n, pos, cur)

\* Variant: numPlanes taken as the number of blocks.
LoadPlanes_blockCount(bytes, bitmapSize) ==
    LET n == bitmapSize \div BlockSize
        s == PlaneLoop(bytes, 0, n, 0, 0)
    IN  [numPlanes |-> n, planes |-> [q \in 0..n - 1 |-> s[q + 1]]]

LoadPlanes(bytes, bitmapSize) ==
    LET blocks == bitmapSize \div BlockSize
        n == FileByte(bytes, ((blocks - 1) * (BlockSize + 1)) - 1) + 1
        s == PlaneLoop(bytes, 0, n, 0, 0)
    IN  [numPlanes |-> n, planes |-> [q \in 0..n - 1 |-> s[q + 1]]]

=============================================================================
