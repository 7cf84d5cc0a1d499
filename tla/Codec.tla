--------------------------------- MODULE Codec ---------------------------------
(***************************************************************************)
(* DataSerializer and RegularTypeParaser: a value is a tag and its bytes.  *)
(* An int is four bytes, little-endian and in two's complement; a double   *)
(* is eight bytes nobody looks into; a string is its length, an int, and   *)
(* its bytes.  Indices are zero-based, as in the code.                     *)
(*                                                                         *)
(* The parsers test a tag before any length, and leave the tag out when    *)
(* they test the length: they may read past the end of the data, which is  *)
(* undefined and finds garbage here.                                       *)
(***************************************************************************)
EXTENDS Integers, Sequences

VARIABLE garbage  \* what lies past the end of the data, a byte

Byte   == 0 .. 255
MaxInt == 2147483647
Int32  == -MaxInt - 1 .. MaxInt

TagBool   == 98   \* 'b'
TagInt    == 105  \* 'i'
TagDouble == 100  \* 'd'
TagString == 115  \* 's'
Digit0    == 48
Digit1    == 49

-----------------------------------------------------------------------------
(* DataSerializer *)

\* Variant: the conversion to char is forgotten.
RawIntTooWide(v) == <<v % 256, v \div 256, v \div 65536, v \div 16777216>>

RawInt(v) == <<v % 256, (v \div 256) % 256, (v \div 65536) % 256, (v \div 16777216) % 256>>

SerializeBool(b)   == <<TagBool, IF b THEN Digit1 ELSE Digit0>>
SerializeInt(v)    == <<TagInt>> \o RawInt(v)
SerializeDouble(d) == <<TagDouble>> \o d
SerializeString(s) == <<TagString>> \o SerializeInt(Len(s)) \o s

-----------------------------------------------------------------------------
(* RegularTypeParaser *)

IntOf(raw) ==
  raw[1] + 256 * raw[2] + 65536 * raw[3]
    + 16777216 * (IF raw[4] < 128 THEN raw[4] ELSE raw[4] - 256)

At(data, i) == IF i < Len(data) THEN data[i + 1] ELSE garbage

\* The n bytes behind the tag at idx.
Behind(data, idx, n) == [k \in 1 .. n |-> At(data, idx + k)]

Parsed(val, idx) == [ok |-> TRUE, val |-> val, idx |-> idx]
NotParsed(val, idx) == [ok |-> FALSE, val |-> val, idx |-> idx]

\* After an exception there is no index to go on from.
Thrown   == NotParsed(<<>>, -1)
Threw(p) == p.idx < 0

\* Variant: the digit is looked for where the tag is.
ParseBoolAtTag(data, idx) ==
  IF At(data, idx) # TagBool \/ Len(data) < idx + 1
    THEN NotParsed(FALSE, idx)
    ELSE Parsed(At(data, idx) = Digit1, idx + 1)

\* The index is left on the digit.
ParseBool(data, idx) ==
  IF At(data, idx) # TagBool \/ Len(data) < idx + 1
    THEN NotParsed(FALSE, idx)
    ELSE Parsed(At(data, idx + 1) = Digit1, idx + 1)

ParseInt(data, idx) ==
  IF At(data, idx) # TagInt \/ Len(data) < idx + 4
    THEN NotParsed(0, idx)
    ELSE Parsed(IntOf(Behind(data, idx, 4)), idx + 5)

ParseDouble(data, idx) ==
  IF At(data, idx) # TagDouble \/ Len(data) < idx + 8
    THEN NotParsed(<<>>, idx)
    ELSE Parsed(Behind(data, idx, 8), idx + 9)

\* Variant: the string may be longer than the data.
ParseStringUnchecked(data, idx) ==
  LET size == ParseInt(data, idx + 1) IN
  IF At(data, idx) # TagString \/ ~size.ok
    THEN NotParsed(<<>>, idx)
    ELSE Parsed(Behind(data, size.idx - 1, size.val), size.idx + size.val)

\* With a negative length the sum of idx and p.second wraps, and is too large
\* unless the length is at most idx.  What passes throws std::length_error.
ParseString(data, idx) ==
  LET size == ParseInt(data, idx + 1) IN
  IF At(data, idx) # TagString \/ ~size.ok
       \/ size.val \notin -size.idx .. Len(data) - size.idx
    THEN NotParsed(<<>>, idx)
  ELSE IF size.val < 0 THEN Thrown
  ELSE Parsed(Behind(data, size.idx - 1, size.val), size.idx + size.val)
=============================================================================
