-------------------------------- MODULE MCMath --------------------------------
(***************************************************************************)
(* The pure operators checked against reference definitions.  Each initial *)
(* state is one input and the invariants compare what the code computes    *)
(* with what it should; the two kinds of input are:                        *)
(*   - every word v of the model width, for the bit tricks of Math.  TLC   *)
(*     integers stop below 2^31, so countLeadingZeros_32 is checked on v   *)
(*     and on v shifted up to bit 30; the words with bit 31 set are not;   *)
(*   - every (n, start, empty) for the probe loop of lookupBucketFor on    *)
(*     its worst input: a table of n = 2^k buckets, n up to 64, every one  *)
(*     holding another key except one empty bucket;                        *)
(*   - for UnicodeChar: surrogate pairs (every high surrogate with the     *)
(*     edge low ones, every low one with the edge high ones), characters   *)
(*     at both ends of the 16-bit range, the character set IDs, and the    *)
(*     bitmap files of two to four planes out of 0 .. 6;                   *)
(*   - for Data: capacities around every power of two and chunk edge.      *)
(***************************************************************************)
EXTENDS BasicHash, Sequences

VARIABLE in   \* [kind |-> "word", v] or [kind |-> "probe", n, start, empty],
              \* or one of the UnicodeChar inputs below

CONSTANT Null   \* a null bitmap pointer

\* The plane block size: above the number of blocks, as 8 * 1024 is.
PlaneBlock == 4

U == INSTANCE UnicodeChar WITH BlockSize <- PlaneBlock

\* Data's pure operators; its state is not used.
DA == INSTANCE Data WITH Bytes <- {}, MaxLength <- 0, MaxArg <- 0, Self <- Null,
                         Undef <- Null, NoData <- Null,
                         data <- in, contents <- in, callerBuffer <- in

\* roundUpCapacity's arguments: all up to 300, and each power of two from
\* 2^8 to 2^30 with its neighbours, DataMaxSize and the chunk edges.
CapacityInputs ==
    0..300 \cup {2^k + d : k \in 8..30, d \in {-1, 0, 1}}
    \cup {DA!DataMaxSize - 1, DA!DataMaxSize, 31 * DA!ChunkSize - 1, 31 * DA!ChunkSize}

\* Strictly increasing plane lists from plane 0, of 2 to 4 planes.
PlaneLists ==
    {s \in UNION {[1..k -> 0..6] : k \in 2..4} :
        s[1] = 0 /\ \A i \in 1..Len(s) - 1 : s[i] < s[i + 1]}

UnicodeInputs ==
    [kind : {"pair"}, h : \hD800..\hDBFF, l : {\hDC00, \hDC01, \hDDFF, \hDE00, \hDFFE, \hDFFF}]
    \cup [kind : {"pair"}, h : {\hD800, \hDBFF}, l : \hDC00..\hDFFF]
    \cup [kind : {"char"}, c : 0..1023 \cup 65000..65535]
    \cup [kind : {"sets"}] \cup [kind : {"planes"}, stored : PlaneLists]

Init ==
    in \in [kind : {"word"}, v : 0..2^W - 1]
           \cup UNION {[kind : {"probe"}, n : {2^k}, start : 0..2^k - 1,
                        empty : 0..2^k - 1] : k \in 0..6}
           \cup UnicodeInputs
           \cup [kind : {"capacity"}, c : CapacityInputs]

\* The inputs do not change; every state is checked once.
Next == UNCHANGED in

Spec == Init /\ [][Next]_in

-----------------------------------------------------------------------------
(* Math.                                                                   *)

\* Reference: the leading zeros of a 32-bit word below 2^31, by its bits.
RefLeadingZeros(w) ==
    CHOOSE c \in 1..32 : \A i \in 0..30 : (w \div 2^i # 0) <=> (i < 32 - c)

\* nextPowerOf2 (grow, getMinBucketToReserveForEntries) returns the least
\* power of two strictly above v, taken mod 2^W: 0 once v has its top bit
\* set, which Dictionary::grow(0) relies on to fall back to 64 buckets.
NextPowerOf2IsLeastGreaterPower ==
    in.kind = "word" =>
        LET p == CHOOSE i \in 0..W : 2^i > in.v /\ \A j \in 0..i - 1 : 2^j <= in.v
        IN  nextPowerOf2(in.v) = Wrap(2^p)

\* countLeadingZeros_32, both as __builtin_clz and as the bisection loop of
\* the #else branch, counts the leading zeros of the word.
LeadingZerosCounted ==
    in.kind = "word" =>
        \A w \in {in.v, in.v * 2^(31 - W)} :
            /\ countLeadingZeros_32(w) = RefLeadingZeros(w)
            /\ countLeadingZerosBisect(w) = RefLeadingZeros(w)

\* log2_32_Ceil(v), used by both shrink_and_clear()s, is the ceiling of
\* log2 v for v >= 1: the least r with 2^r >= v.
Log2CeilIsCeiling ==
    in.kind = "word" /\ in.v >= 1 =>
        LET r == log2_32_Ceil(in.v)
        IN  2^r >= in.v /\ (r = 0 \/ 2^(r - 1) < in.v)

-----------------------------------------------------------------------------
(* The probe loop.                                                         *)

\* The key looked up, and the key every other bucket holds.
Sought == CHOOSE k \in Keys : TRUE
Filler == CHOOSE k \in Keys : k # Sought

FullTable ==
    [buckets |-> [i \in 0..in.n - 1 |->
                    IF i = in.empty THEN EmptyBucket
                    ELSE [key |-> Filler, val |-> CHOOSE x \in Vals : TRUE]],
     numEntries |-> in.n - 1, numTombstones |-> 0, epoch |-> 0]

\* The triangular probe (bucketIndex += probeAmt++, masked to n) visits
\* every bucket of a power-of-two table: from any start it finds the one
\* empty bucket, reported as the insertion slot, and never runs out.  The
\* model reports a probe of n steps as a loop that never returns, which
\* this justifies.
ProbeReachesEveryBucket ==
    in.kind = "probe" =>
        probe(FullTable, Sought, in.start, 1, NullBucket)
            = [found |-> FALSE, bucket |-> in.empty]

-----------------------------------------------------------------------------
(* UnicodeChar.                                                            *)

\* Reference: the UTF-16 encoding of a supplementary code point.
UTF16Pair(cp) == <<\hD800 + (cp - \h10000) \div \h400, \hDC00 + ((cp - \h10000) % \h400)>>

\* getLongCharacterForSurrogatePair decodes every surrogate pair to the
\* supplementary code point whose UTF-16 encoding it is.
SurrogatePairDecoded ==
    in.kind = "pair" =>
        LET cp == U!getLongCharacterForSurrogatePair(in.h, in.l)
        IN  /\ U!isSurrogateHighCharacter(in.h) /\ U!isSurrogateLowCharacter(in.l)
            /\ cp \in \h10000..\h10FFFF /\ UTF16Pair(cp) = <<in.h, in.l>>

\* addCharacterToBitmap sets the character's own bit and no other: after
\* adding c to an empty bitmap isMemberOf answers yes for c alone among its
\* neighbours, and a second add keeps the first.
BitmapHoldsWhatWasAdded ==
    in.kind = "char" =>
        LET one == U!addCharacterToBitmap(<<>>, in.c)
        IN  /\ \A d \in (in.c - 17)..(in.c + 17) \cap 0..65535 :
                  U!isMemberOfBitmap(one, d) <=> d = in.c
            /\ \A d \in {in.c + 1, in.c + 8, in.c + 64} \cap 0..65535 :
                  LET two == U!addCharacterToBitmap(one, d)
                  IN  U!isMemberOfBitmap(two, in.c) /\ U!isMemberOfBitmap(two, d)

\* The character set file holds a bitmap for each external set from
\* DecimalDigitCharacterSet to SymbolAndOperatorCharacterSet, then one for
\* each internal set from CompatibilityDecomposableCharacterSet on; Control
\* is answered from ControlAndFormatter's.
BitmapSets == 4..14 \cup 100..110
RefTableIndex(cs) ==
    LET m == IF cs = U!ControlCharacterSet THEN U!ControlAndFormatterCharacterSet ELSE cs
    IN  IF m < 100 THEN m - 4 ELSE 11 + (m - 100)

\* A table of 22 bitmaps, the t-th holding only character t.
OneCharTable ==
    [t \in 1..22 |-> [numPlanes |-> 1,
                      planes |-> [q \in {0} |-> U!addCharacterToBitmap(<<>>, t - 1)]]]

\* isMemberOf(charset) reads the bitmap of that set and no other: over a
\* table whose t-th bitmap holds character t alone, each set with a bitmap
\* (Control included) contains exactly the character of its own slot, the
\* Illegal set every other one; IDs of no set find no bitmap.
CharsetsReadTheirOwnBitmap ==
    in.kind = "sets" =>
        /\ \A cs \in BitmapSets \cup {U!ControlCharacterSet}, c \in 0..21 :
              U!isMemberOf(c, cs, OneCharTable)
                = IF cs = U!IllegalCharacterSet THEN c # RefTableIndex(cs)
                  ELSE c = RefTableIndex(cs)
        /\ \A cs \in {0} \cup 111..120, c \in 0..21 : ~U!isMemberOf(c, cs, OneCharTable)

\* The bytes of one bitmap storing the planes of the list: each block of
\* zero bytes is followed by the number of the next stored plane.
PlaneFile(s) ==
    LET Block == [i \in 1..PlaneBlock |-> 0]
        RECURSIVE F(_)
        F(i) == IF i = Len(s) THEN Block ELSE Block \o <<s[i + 1]>> \o F(i + 1)
    IN  F(1)

\* LoadBitmapData's plane table for a bitmap of two or more blocks gives
\* each stored plane the offset of its block and every other plane below
\* the last stored one nullptr.
PlaneTableMatchesFile ==
    in.kind = "planes" =>
        LET s == in.stored
            r == U!LoadPlanes(PlaneFile(s), Len(PlaneFile(s)))
        IN  /\ r.numPlanes = s[Len(s)] + 1
            /\ \A q \in 0..r.numPlanes - 1 :
                  r.planes[q] = IF \E j \in 1..Len(s) : s[j] = q
                                THEN (PlaneBlock + 1) * ((CHOOSE j \in 1..Len(s) : s[j] = q) - 1)
                                ELSE Null

-----------------------------------------------------------------------------
(* Data.                                                                   *)

\* Reference: below 16, 16; below LowThreshold the least power of four
\* above c; below HighThreshold the least power of two above c; else the
\* least multiple of ChunkSize above c, or DataMaxSize past the last one.
RefRoundUpCapacity(c) ==
    CASE c < 16 -> 16
      [] c < DA!LowThreshold -> CHOOSE p \in {4^k : k \in 2..11} : p > c /\ p \div 4 <= c
      [] c < DA!HighThreshold -> CHOOSE p \in {2^k : k \in 1..30} : p > c /\ p \div 2 <= c
      [] c >= 31 * DA!ChunkSize -> DA!DataMaxSize
      [] OTHER -> CHOOSE m \in {DA!ChunkSize * k : k \in 1..31} :
                      m > c /\ m - DA!ChunkSize <= c

\* detail::roundUpCapacity, which __dataGrow sizes a grown block with,
\* gives the reference's capacity: never below the length asked for.
RoundUpCapacityMatchesReference ==
    in.kind = "capacity" => DA!roundUpCapacity(in.c) = RefRoundUpCapacity(in.c)

=============================================================================
