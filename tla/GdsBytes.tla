------------------------------- MODULE GdsBytes -------------------------------
(***************************************************************************)
(* A GDSII stream byte by byte (crates/api/src/io/gds.rs): the record      *)
(* writers append to it, next_record and the payload parsers take it       *)
(* apart, and what was read may be written again.  Which records a library *)
(* is made of, and what the reader makes of them, is GdsLibrary and        *)
(* GdsReader: this module is what lies below them.                         *)
(***************************************************************************)
EXTENDS GdsReal, FiniteSetsExt

CONSTANTS
  ByteBits,    \* 8 in the code; a number of 2, 4 or 8 bytes scales with it
  Base,        \* 2^ByteBits
  Documents,   \* what is written: sequences of records, as write emits them
  Foreign,     \* streams of bytes that others have written
  Version,     \* 600 in the code, of HEADER
  Defaults,    \* the two units of a library that no stream told of others
  Rects,       \* calls of add_rect: x, y, w and h
  MaxRounds,   \* bounds: how many streams there are, one after the other, and
  CutRounds    \* how many of them may be cut

Byte     == 0 .. Base - 1
Signed(n) == - (n \div 2) .. n \div 2 - 1     \* two's complement of n codes
Int2     == Signed(Base * Base)
Int4     == Signed(Base * Base * Base * Base)

\* The record types that the reader tells apart or the writer emits.
HEADER   == 0
BGNLIB   == 1
LIBNAME  == 2
UNITS    == 3
ENDLIB   == 4
BGNSTR   == 5
STRNAME  == 6
ENDSTR   == 7
BOUNDARY == 8
LAYER    == 13
DATATYPE == 14
XY       == 16
ENDEL    == 17

\* The data type that each payload is written with.
Ascii  == 6
Real   == 5
Long   == 3
Short  == 2
NoData == 0
DataType(rt) ==
  CASE rt \in {LIBNAME, STRNAME} -> Ascii
    [] rt = UNITS -> Real
    [] rt = XY -> Long
    [] rt \in {HEADER, BGNLIB, BGNSTR, LAYER, DATATYPE} -> Short
    [] OTHER -> NoData

\* A record and its data: bytes of a name, integers, or doubles.
Datum(type) == CASE type = Ascii -> Byte [] type = Long -> Int4
                 [] type = Short -> Int2 [] type = Real -> Double [] OTHER -> {}
IsRecord(r) == /\ r.rt \in Byte /\ r.data \in Seq(Datum(DataType(r.rt)))
               /\ r = [rt |-> r.rt, data |-> r.data]

\* What a call of write emits: a HEADER first, an ENDLIB last and nowhere else.
IsDocument(d) ==
  /\ d \in Seq(ToSet(d)) /\ d # <<>> /\ d[1].rt = HEADER
  /\ \A k \in DOMAIN d : IsRecord(d[k]) /\ (d[k].rt = ENDLIB <=> k = Len(d))

\* The bits that a byte holds.
BitsOf(b) == {j \in 0 .. ByteBits - 1 : (b \div 2 ^ j) % 2 = 1}

\* A byte has ByteBits bits, in any combination.
ASSUME ByteAssumption ==
  /\ Base \in Nat /\ Base > ENDEL /\ ByteBits \in Nat
  /\ \A bits \in SUBSET (0 .. ByteBits - 1) : \E b \in Byte : BitsOf(b) = bits
  /\ Q = 7 * ByteBits /\ 4 * Bias = Base
  /\ Version \in Int2 /\ MaxRounds \in Nat /\ CutRounds \in Nat

ASSUME DocumentsAssumption ==
  /\ \A d \in Documents : IsDocument(d)
  /\ Defaults \in Seq(Double) /\ Len(Defaults) = 2
  /\ Foreign \subseteq Seq(Byte)
  /\ \A r \in Rects : r \in [x : Int4, y : Int4, w : Int4, h : Int4]

----------------------------------------------------------------------------
(* Numbers as bytes, the most significant first *)

Bytes2(n) == LET u == n % (Base * Base) IN <<u \div Base, u % Base>>

\* Mutant: the halves of an integer are swapped.
Bytes4Swapped(n) == LET u == n % (Base * Base * Base * Base)
                    IN  Bytes2(u % (Base * Base)) \o Bytes2(u \div (Base * Base))

Bytes4(n) == LET u == n % (Base * Base * Base * Base)
             IN  Bytes2(u \div (Base * Base)) \o Bytes2(u % (Base * Base))

Unsigned2(b, at) == b[at] * Base + b[at + 1]
Unsigned4(b, at) == Unsigned2(b, at) * Base * Base + Unsigned2(b, at + 2)
AsSigned(u, n)   == IF u < n \div 2 THEN u ELSE u - n

\* The byte that holds these bits.
ByteOf(bits) == CHOOSE b \in Byte : BitsOf(b) = bits

\* The bits of byte k of seven, counted within it.
Digit(mantissa, k) ==
  {j \in 0 .. ByteBits - 1 : (7 - k) * ByteBits + j \in mantissa}

BytesOfReal(r) ==
  [k \in 1 .. 8 |-> IF k = 1 THEN r.biased + (IF r.neg THEN Base \div 2 ELSE 0)
                    ELSE ByteOf(Digit(r.mantissa, k - 1))]
RealOfBytes(b, at) ==
  [ neg      |-> b[at] >= Base \div 2,
    biased   |-> b[at] % (Base \div 2),
    mantissa |-> UNION {Shift(BitsOf(b[at + k]), (7 - k) * ByteBits) : k \in 1 .. 7} ]

----------------------------------------------------------------------------

VARIABLES
  phase,     \* "write" or "read"
  file,      \* the bytes
  todo,      \* records that are still to be written
  doubles,   \* doubles of the record being written, still to be written
  written,   \* history: the records written,
  marks,     \*   where each began, and where the last of them ended,
  whole,     \*   whether nothing was cut off, and
  round,     \*   how many streams were read
  pos,       \* bytes read
  got,       \* the records read
  status     \* "reading", "ok" or the error

writerVars == <<todo, doubles, written, marks>>
readerVars == <<pos, got, status>>
byteVars   == <<phase, file, writerVars, whole, round, readerVars, realVars>>

\* The length is `as u16`.
Header(rt, length) == Bytes2(length + 4) \o <<rt, DataType(rt)>>

\* Names are padded to an even length.
Padded(text) == IF Len(text) % 2 = 1 THEN Append(text, 0) ELSE text

Payload(r) ==
  CASE DataType(r.rt) = Ascii -> Padded(r.data)
    [] DataType(r.rt) = Short ->
         [k \in 1 .. 2 * Len(r.data) |-> Bytes2(r.data[(k + 1) \div 2])[1 + ((k - 1) % 2)]]
    [] DataType(r.rt) = Long ->
         [k \in 1 .. 4 * Len(r.data) |-> Bytes4(r.data[(k + 3) \div 4])[1 + ((k - 1) % 4)]]
    [] OTHER -> <<>>

\* What is appended for a record at once; the doubles follow one by one.
PayloadLength(r) ==
  IF DataType(r.rt) = Real THEN 8 * Len(r.data) ELSE Len(Payload(r))

Writing == phase = "write" /\ doubles = <<>> /\ todo # <<>>

WriteRecord ==
  /\ Writing
  /\ LET r == Head(todo) IN
     /\ file' = file \o Header(r.rt, PayloadLength(r)) \o Payload(r)
     /\ doubles' = IF DataType(r.rt) = Real THEN r.data ELSE <<>>
     /\ written' = Append(written, r)
     /\ marks' = Append(marks, Len(file) + 4 + PayloadLength(r))
  /\ todo' = Tail(todo)
  /\ UNCHANGED <<phase, whole, round, readerVars, realVars>>

\* f64_to_real8 of the next double, then its bytes.
BeginDouble ==
  /\ phase = "write" /\ doubles # <<>>
  /\ StartEncode(Head(doubles))
  /\ UNCHANGED <<phase, file, writerVars, whole, round, readerVars>>

EncodeDouble ==
  /\ EncodeStep
  /\ UNCHANGED <<phase, file, writerVars, whole, round, readerVars>>

WriteDouble ==
  /\ coding = "done"
  /\ coding' = "idle"
  /\ file' = file \o BytesOfReal(real8) /\ doubles' = Tail(doubles)
  /\ UNCHANGED <<phase, todo, written, marks, whole, round, readerVars,
                 value, v, exponent, real8>>

\* The stream is read, or what is left of it.
Open ==
  /\ phase = "write" /\ todo = <<>> /\ doubles = <<>>
  /\ phase' = "read" /\ round' = round + 1
  /\ \E n \in 0 .. Len(file) :
       /\ n = Len(file) \/ round < CutRounds
       /\ file' = SubSeq(file, 1, n) /\ whole' = (n = Len(file))
  /\ pos' = 0 /\ got' = <<>> /\ status' = "reading"
  /\ UNCHANGED <<writerVars, realVars>>

----------------------------------------------------------------------------
(* next_record and the parsers of its payload *)

\* parse_ascii: up to the first NUL.
Text(b) ==
  LET nul == {k \in DOMAIN b : b[k] = 0}
  IN  IF nul = {} THEN b ELSE SubSeq(b, 1, Min(nul) - 1)

Width(type) == CASE type = Real -> 8 [] type = Long -> 4 [] OTHER -> 2

\* The reader parses the records of these types, and skips the payload of the rest.
Parsed == {LIBNAME, STRNAME, UNITS, LAYER, DATATYPE, XY}

Parse(rt, b) ==
  IF rt \notin Parsed THEN <<>>
  ELSE IF DataType(rt) = Ascii THEN Text(b)
  ELSE LET width == Width(DataType(rt)) IN
       [k \in 1 .. Len(b) \div width |->
          LET at == (k - 1) * width + 1 IN
          CASE width = 8 -> Decode(RealOfBytes(b, at))
            [] width = 4 -> AsSigned(Unsigned4(b, at), Base * Base * Base * Base)
            [] width = 2 -> AsSigned(Unsigned2(b, at), Base * Base)]

Misfits(rt, b) ==
  rt \in Parsed /\ DataType(rt) # Ascii /\ Len(b) % Width(DataType(rt)) # 0

Remaining == Len(file) - pos
Length    == Unsigned2(file, pos + 1)
Type      == file[pos + 3]
Data      == SubSeq(file, pos + 5, pos + Length)

Reading == phase = "read" /\ status = "reading"

\* Mutant: too few bytes for a header are the end of the stream.
EndOfFileTolerant ==
  /\ Reading /\ Remaining < 4
  /\ status' = IF pos = 0 THEN "MissingHeader" ELSE "ok"
  /\ UNCHANGED <<phase, file, writerVars, whole, round, pos, got, realVars>>

EndOfFile ==
  /\ Reading /\ Remaining < 4
  /\ status' = IF Remaining # 0 THEN "UnexpectedEof"
               ELSE IF pos = 0 THEN "MissingHeader" ELSE "ok"
  /\ UNCHANGED <<phase, file, writerVars, whole, round, pos, got, realVars>>

\* Mutant: only a length that overruns the stream is refused.
BadRecordLengthOverrun ==
  /\ Reading /\ Remaining >= 4
  /\ Length > Remaining
  /\ status' = "BadRecordLength"
  /\ UNCHANGED <<phase, file, writerVars, whole, round, pos, got, realVars>>

BadRecordLength ==
  /\ Reading /\ Remaining >= 4
  /\ Length < 4 \/ Length > Remaining
  /\ status' = "BadRecordLength"
  /\ UNCHANGED <<phase, file, writerVars, whole, round, pos, got, realVars>>

\* The reader ends at ENDLIB, and starts at HEADER.
NextRecord ==
  /\ Reading /\ Remaining >= 4 /\ Length \in 4 .. Remaining
  /\ pos' = pos + Length
  /\ IF pos = 0 /\ Type # HEADER
     THEN status' = "MissingHeader" /\ UNCHANGED got
     ELSE IF Misfits(Type, Data)
     THEN status' = "BadPayload" /\ UNCHANGED got
     ELSE /\ got' = Append(got, [rt |-> Type, data |-> Parse(Type, Data)])
          /\ status' = IF Type = ENDLIB THEN "ok" ELSE "reading"
  /\ UNCHANGED <<phase, file, writerVars, whole, round, realVars>>

\* What write emits for a library without cells.
Document(name, units) ==
  << [rt |-> HEADER, data |-> <<Version>>], [rt |-> BGNLIB, data |-> [k \in 1 .. 12 |-> 0]],
     [rt |-> LIBNAME, data |-> name], [rt |-> UNITS, data |-> units],
     [rt |-> ENDLIB, data |-> <<>>] >>

\* The data of the last record of a type with at least n of them, or the default.
LastOf(rt, n, default) ==
  LET found == {k \in DOMAIN got : got[k].rt = rt /\ Len(got[k].data) >= n}
  IN  IF found = {} THEN default ELSE got[Max(found)].data

\* A library that was read whole is written again; here, one without cells and
\* with an ASCII name.
Rewrite ==
  /\ phase = "read" /\ status = "ok" /\ whole /\ round < MaxRounds
  /\ \A k \in DOMAIN got : got[k].rt \notin {STRNAME, ENDEL, XY}
  /\ \A c \in ToSet(LastOf(LIBNAME, 0, <<>>)) : c < Base \div 2
  /\ phase' = "write" /\ file' = <<>>
  /\ todo' = Document(LastOf(LIBNAME, 0, <<>>), SubSeq(LastOf(UNITS, 2, Defaults), 1, 2))
  /\ doubles' = <<>> /\ written' = <<>> /\ marks' = <<0>>
  /\ UNCHANGED <<whole, round, readerVars, realVars>>

----------------------------------------------------------------------------
(* add_rect *)

Wrapped(n) == LET m == Base * Base * Base * Base IN AsSigned(n % m, m)

\* Mutant: the sum stops at the largest number.
OutlineSaturated(r) ==
  LET greatest == (Base * Base * Base * Base) \div 2 - 1
      right    == Min({r.x + r.w, greatest})
      top      == Min({r.y + r.h, greatest})
  IN  << r.x, r.y, right, r.y, right, top, r.x, top, r.x, r.y >>

\* x + w and y + h are i32: where one overflows, a debug build panics, and a
\* release build has the sum wrapped.
Outline(r) ==
  LET right == Wrapped(r.x + r.w)
      top   == Wrapped(r.y + r.h)
  IN  << r.x, r.y, right, r.y, right, top, r.x, top, r.x, r.y >>

\* Of a library with one rectangle, the records that say where it is.
RectDocument(r) ==
  << [rt |-> HEADER, data |-> <<Version>>], [rt |-> XY, data |-> Outline(r)],
     [rt |-> ENDLIB, data |-> <<>>] >>

----------------------------------------------------------------------------

ByteInit ==
  /\ RealInit /\ pos = 0 /\ got = <<>> /\ status = "reading"
  /\ doubles = <<>> /\ written = <<>> /\ marks = <<0>> /\ whole = TRUE
  /\ \/ /\ phase = "write" /\ round = 0 /\ file = <<>>
        /\ todo \in Documents \cup {RectDocument(r) : r \in Rects}
     \/ phase = "read" /\ round = 1 /\ file \in Foreign /\ todo = <<>>

WritesOn == WriteRecord \/ BeginDouble \/ EncodeDouble \/ WriteDouble
ReadsOn  == EndOfFile \/ BadRecordLength \/ NextRecord

ByteNext == WritesOn \/ Open \/ ReadsOn \/ Rewrite

\* A call of write or of read, once made, runs on; nobody has to make another.
ByteSpec == ByteInit /\ [][ByteNext]_byteVars /\ WF_byteVars(WritesOn \/ ReadsOn)

----------------------------------------------------------------------------
(* What must hold of a stream *)

\* What a double is after it was written: itself, or zero out of range.
InRange(d) == /\ \A p \in d.bits : p < 4 * (Bias - 1)
              /\ \E p \in d.bits : p >= -4 * (Bias + 1)
Kept(d)    == IF InRange(d) THEN d ELSE Zero

\* The name is one that a record can tell: "Gds::read(&g.write()) round-trips to
\* the same lib_name, cell order" (gds.rs:241) excepts none, yet write pads a name
\* with a NUL, and parse_ascii takes the first one for the end.
NulFree(name) == \A k \in DOMAIN name : name[k] # 0

ReadsAs(r) ==
  [ rt   |-> r.rt,
    data |-> IF r.rt \notin Parsed THEN <<>>
             ELSE CASE DataType(r.rt) = Ascii ->
                         IF NulFree(r.data) THEN r.data ELSE Text(r.data)
                    [] DataType(r.rt) = Real  -> [k \in DOMAIN r.data |-> Kept(r.data[k])]
                    [] OTHER -> r.data ]

\* The length of every record written fits its 16 bits.
LengthsFit == \A k \in DOMAIN written : PayloadLength(written[k]) + 4 < Base * Base

\* A reader of our own stream stands where a record begins, and what it read is
\* what was written, record by record: every name without a NUL, every integer,
\* every double that has a real.  A name with a NUL, the library's or a cell's, is
\* not: of it comes back what stands before its first NUL.
FramedExactly ==
  phase = "read" /\ written # <<>> /\ LengthsFit =>
    /\ Len(got) <= Len(written) /\ pos = marks[Len(got) + 1]
    /\ \A k \in DOMAIN got : got[k] = ReadsAs(written[k])

\* A stream of ours is refused exactly when it was cut elsewhere than between
\* two records, and then for being cut; nothing of what is left goes unread.
CutRefused ==
  phase = "read" /\ written # <<>> /\ LengthsFit /\ status # "reading" =>
    /\ status \in {"UnexpectedEof", "BadRecordLength"} <=> Len(file) \notin ToSet(marks)
    /\ status = "MissingHeader" <=> Len(file) = 0
    /\ status = "ok" => pos = Len(file)

\* A stream of another program, or a name with a NUL, may lose something when it
\* is first written again; after that it is the same for ever.
RewritesSettle ==
  [][phase = "read" /\ phase' = "write" /\ round >= 3 => todo' = written]_byteVars

\* An outline that overflowed is read back inside out, never as a rectangle of
\* another size that the caller might have asked for.
OverflowShows ==
  \A r \in Rects :
    phase = "read" /\ status = "ok" /\ whole /\ written = RectDocument(r) =>
      LET o == got[2].data IN
      /\ o[3] - o[1] = r.w \/ (o[3] < o[1]) # (r.w < 0)
      /\ o[6] - o[2] = r.h \/ (o[6] < o[2]) # (r.h < 0)

\* Every stream is read to an answer, whatever its bytes, and every one that is
\* begun is written to its end, whatever its doubles.
CallsEnd ==
  /\ Reading ~> ~ Reading
  /\ phase = "write" ~> phase = "write" /\ todo = <<>> /\ doubles = <<>>

----------------------------------------------------------------------------
(* What the comments say and the code does not do *)

\* "`Gds::read(&g.write())` round-trips" (gds.rs:241): what was written whole is
\* read without an error.
WholeReads ==
  phase = "read" /\ written # <<>> /\ whole /\ status # "reading" =>
    status = "ok" /\ Len(got) = Len(written)
=============================================================================
