--------------------------------- MODULE Data ---------------------------------
(***************************************************************************)
(* Rx::Data (Data.hpp, Data.cpp): a growable byte buffer with _bytes,      *)
(* _length, _capacity and the DontDeallocate flag, one object at a time:   *)
(* it is constructed, changed by appendData, replaceBytes and deleteBytes, *)
(* and destroyed, and then another is constructed.                         *)
(*                                                                         *)
(* data is NoData or the record [bytes, length, capacity, dontDeallocate,  *)
(* buffer]: bytes holds the buffer's first `length` bytes (position i of   *)
(* the code is bytes[i + 1]); buffer says whose block _bytes is: "owned"   *)
(* (allocated by Data, or handed over with freeWhenDone) or "borrowed"    *)
(* (the caller's, passed with copy = false and freeWhenDone = false).      *)
(* contents is the byte sequence the calls made so far promise, and        *)
(* callerBuffer what became of a borrowed block: "none" when no Data uses  *)
(* one, "lent" while one does, "released" once Data gave it to realloc.    *)
(*                                                                         *)
(* The sizes are those of a 32-bit build (the !__LP64__ constants), which  *)
(* TLC's integers hold.  A byte never written (the tail of a grown or      *)
(* callocated block) is Undef; a read of a freed block is any byte.        *)
(***************************************************************************)
EXTENDS Integers, Sequences

CONSTANTS Bytes,      \* the byte values a caller passes
          MaxLength,  \* bound on the length of a Data
          MaxArg,     \* bound on the length of a byte argument
          Self,       \* the source pointer getBytePtr() of the Data itself
          Undef,      \* a byte no one wrote
          NoData      \* no Data alive

VARIABLES data, contents, callerBuffer

vars == <<data, contents, callerBuffer>>

DataMaxSize  == (2^30 - 1) + 2^30     \* (1ULL << 31) - 1
ChunkSize    == 2^26
LowThreshold == 2^20
HighThreshold == 2^29

\* flsl: the 1-based position of the highest set bit, 0 for 0.
RECURSIVE flsl(_)
flsl(v) == IF v = 0 THEN 0 ELSE 1 + flsl(v \div 2)

roundUpCapacity_noEvenRound(capacity) ==
    CASE capacity < 16 -> 16
      [] capacity < HighThreshold -> 2^flsl(capacity)
      [] OTHER -> DataMaxSize

\* detail::roundUpCapacity.  The last branch's std::min with DataMaxSize
\* is taken on the number of chunks, as ChunkSize * 32 = 2^31.
roundUpCapacity(capacity) ==
    CASE capacity < 16 -> 16
      [] capacity < LowThreshold ->
            LET idx == flsl(capacity)
            IN  2^(idx + (IF idx % 2 = 0 THEN 0 ELSE 1))
      [] capacity < HighThreshold -> 2^flsl(capacity)
      [] OTHER ->
            LET chunks == 1 + capacity \div 2^(flsl(ChunkSize) - 1)
            IN  IF chunks > DataMaxSize \div ChunkSize THEN DataMaxSize
                ELSE ChunkSize * chunks

\* Byte sequences of 0 .. n bytes.
ByteSeqs(n) == UNION {[1..k -> Bytes] : k \in 0..n}

TypeOK ==
    /\ data = NoData
       \/ /\ data.bytes \in Seq(Bytes \cup {Undef})
          /\ data.length \in 0..MaxLength /\ data.capacity \in Nat
          /\ data.dontDeallocate \in BOOLEAN
          /\ data.buffer \in {"owned", "borrowed"}
    /\ contents \in Seq(Bytes)
    /\ callerBuffer \in {"none", "lent", "released"}

Init ==
    /\ data = NoData
    /\ contents = <<>>
    /\ callerBuffer = "none"

-----------------------------------------------------------------------------
(* Construction and destruction.                                           *)

\* Data(): Data(nullptr, roundUpCapacity(1), false, true), so the else
\* branch below: a zeroed block, length 0.
DataNew ==
    /\ data = NoData
    /\ data' = [bytes |-> <<>>, length |-> 0, capacity |-> roundUpCapacity(1),
                dontDeallocate |-> FALSE, buffer |-> "owned"]
    /\ contents' = <<>>
    /\ UNCHANGED callerBuffer

\* Data(bytes, length, copy, freeWhenDone), bytes given (b # <<>>) or
\* nullptr (b = <<>>, length any).  Without copy the block is used as it
\* is, with capacity = length, and DontDeallocate is set when
\* !freeWhenDone; otherwise a zeroed block of length bytes is allocated,
\* bytes copied into it when given, and the length is set only then.
DataNewFromBytes(b, length, copy, freeWhenDone) ==
    /\ data = NoData
    /\ b = <<>> \/ Len(b) = length
    /\ IF ~copy /\ b # <<>>
       THEN /\ data' = [bytes |-> b, length |-> length, capacity |-> length,
                        dontDeallocate |-> ~freeWhenDone,
                        buffer |-> IF freeWhenDone THEN "owned" ELSE "borrowed"]
            /\ callerBuffer' = IF freeWhenDone THEN callerBuffer ELSE "lent"
       ELSE /\ data' = [bytes |-> b, length |-> Len(b), capacity |-> length,
                        dontDeallocate |-> FALSE, buffer |-> "owned"]
            /\ UNCHANGED callerBuffer
    /\ contents' = b

\* ~Data: the block is freed unless DontDeallocate is set; a borrowed
\* block goes back to the caller.
DataDestroy ==
    /\ data # NoData
    /\ data' = NoData
    /\ contents' = <<>>
    /\ callerBuffer' = IF data.buffer = "borrowed" THEN "none" ELSE callerBuffer

-----------------------------------------------------------------------------
(* replaceBytes and the calls made of it.                                  *)

\* The buffer after the memmove of the tail, when `newLength !=
\* range.length && range.location + range.length < len`: bytes
\* [loc + rlen, len) move to loc + n; the others keep their place.
MoveTail(buf, loc, rlen, n, len) ==
    LET newCount == len - rlen + n
        size == IF newCount > len THEN newCount ELSE len
    IN  [i \in 1..size |->
            IF n # rlen /\ loc + rlen < len /\ loc + n < i /\ i <= newCount
            THEN buf[i - n + rlen]
            ELSE IF i <= len THEN buf[i] ELSE Undef]

\* What srcBuf reads.  A copy (the malloc'd srcBuf) holds the source as it
\* was; Self read after a grow reads the block realloc may have freed.
SourceReads(buf, srcBuf, n, grew) ==
    IF srcBuf = Self
    THEN {SubSeq(buf, 1, n)} \cup (IF grew THEN [1..n -> Bytes] ELSE {})
    ELSE {srcBuf}

\* __dataGrow(data, numNewValues, false): realloc of the block to
\* roundUpCapacity(oldLength + numNewValues) bytes, which keeps its first
\* oldLength bytes and gives a block of the malloc family, whoever owned
\* the old one.  The RxFoundation calls pass clear = false, so the calloc
\* branch is not taken.
dataGrow(d, numNewValues) ==
    [d EXCEPT !.capacity = roundUpCapacity(d.length + numNewValues),
              !.buffer = "owned"]

\* srcBuf: newBytes, or a malloc'd copy of it when the block must grow and
\* `newBytes < bytePtr + getCapacity() && bytePtr < newBytes + newLength`,
\* which of the sources here only Self with n > 0 meets.
SourceBuffer_uncopied(d, newBytes, n, grows) == newBytes

SourceBuffer(d, newBytes, n, grows) ==
    IF grows /\ newBytes = Self /\ n > 0 THEN SubSeq(d.bytes, 1, n) ELSE newBytes

\* Data::replaceBytes(range, newBytes, newLength), newBytes Self (only as
\* appendData(*this) passes it: getBytePtr(), getLength()) or the bytes.
\* The RxChecks of validateRange are its guard.  When the capacity is
\* below newCount, a source overlapping the block is first copied, then
\* __dataGrow(*this, newLength - range.length, false) reallocates the
\* block to roundUpCapacity(len + newLength - range.length) bytes; then
\* the tail moves and the source is copied to range.location.  A
\* borrowed block handed to realloc is the caller's no more.
replaceBytes(loc, rlen, newBytes, n) ==
    LET d == data
        len == d.length
        newCount == len - rlen + n
        grows == d.capacity < newCount
        srcBuf == SourceBuffer(d, newBytes, n, grows)
        buf == MoveTail(d.bytes, loc, rlen, n, len)
    IN  /\ 0 <= loc /\ loc <= len /\ 0 <= rlen /\ loc + rlen <= len
        /\ newCount <= MaxLength
        /\ \E src \in SourceReads(buf, srcBuf, n, grows) :
              data' = [IF grows THEN dataGrow(d, n - rlen) ELSE d EXCEPT
                  !.bytes = [i \in 1..newCount |->
                                IF loc < i /\ i <= loc + n THEN src[i - loc]
                                ELSE buf[i]],
                  !.length = newCount]
        /\ callerBuffer' = IF grows /\ d.buffer = "borrowed" THEN "released"
                           ELSE callerBuffer

\* replaceBytes with the caller's bytes b.
ReplaceBytes(loc, rlen, b) ==
    /\ data # NoData
    /\ replaceBytes(loc, rlen, b, Len(b))
    /\ contents' = SubSeq(contents, 1, loc) \o b
                   \o SubSeq(contents, loc + rlen + 1, Len(contents))

\* appendData(bytes, length): replaceBytes(Range(getLength(), 0), ...).
AppendData(b) ==
    /\ data # NoData
    /\ replaceBytes(data.length, 0, b, Len(b))
    /\ contents' = contents \o b

\* appendData(*this): appendData(getBytePtr(), getLength()) of itself.
AppendDataSelf ==
    /\ data # NoData
    /\ replaceBytes(data.length, 0, Self, data.length)
    /\ contents' = contents \o contents

\* deleteBytes(range): replaceBytes(range, nullptr, 0).
DeleteBytes(loc, rlen) ==
    /\ data # NoData
    /\ replaceBytes(loc, rlen, <<>>, 0)
    /\ contents' = SubSeq(contents, 1, loc)
                   \o SubSeq(contents, loc + rlen + 1, Len(contents))

-----------------------------------------------------------------------------

Next ==
    \/ DataNew
    \/ \E n \in 0..MaxArg, b \in ByteSeqs(MaxArg), copy, free \in BOOLEAN :
          DataNewFromBytes(b, n, copy, free)
    \/ DataDestroy
    \/ \E b \in ByteSeqs(MaxArg) \ {<<>>} : AppendData(b)
    \/ AppendDataSelf
    \/ \E loc, rlen \in 0..MaxLength, b \in ByteSeqs(MaxArg) :
          ReplaceBytes(loc, rlen, b)
    \/ \E loc, rlen \in 0..MaxLength : DeleteBytes(loc, rlen)

Spec == Init /\ [][Next]_vars

-----------------------------------------------------------------------------

\* replaceBytes, appendData (of another buffer or of the Data itself,
\* across the realloc of a grow) and deleteBytes leave the Data holding
\* exactly the bytes the calls promise, within its capacity.
DataHoldsContents ==
    data # NoData =>
        /\ data.bytes = contents
        /\ data.length = Len(contents)
        /\ data.length <= data.capacity

\* Data.hpp: with freeWhenDone = false the caller's pointer is used
\* directly, the caller keeping the block; no call of Data hands it to
\* realloc or free.
BorrowedBufferKept == callerBuffer # "released"

=============================================================================
