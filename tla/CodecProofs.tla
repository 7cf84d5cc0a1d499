------------------------------ MODULE CodecProofs ------------------------------
(***************************************************************************)
(* Codec: what the parser of a type returns for what the serializer has    *)
(* written, for every value and at every place in a message.               *)
(*                                                                         *)
(* The leaves name SMT, as the numbers are too large for Zenon, and MaxInt *)
(* stays folded wherever it bounds a range, which SMT would enumerate.     *)
(***************************************************************************)
EXTENDS Codec, SequenceTheorems, TLAPS

\* The largest value of the 32-bit int of the code (Types.h 9-10).
LEMMA MaxIntValue == MaxInt = 2147483647
  BY SMT DEF MaxInt

\* What it is to be such an int, with the bounds as numbers.
LEMMA Int32Range ==
  ASSUME NEW v \in Int32
  PROVE  /\ v \in Int
         /\ -2147483648 <= v
         /\ v <= 2147483647
<1>1. MaxInt \in Int
  BY SMT, MaxIntValue
<1>2. v \in Int /\ -MaxInt - 1 <= v /\ v <= MaxInt
  BY SMT, <1>1 DEF Int32
<1> QED BY SMT, <1>2, MaxIntValue

\* The four parts of an int are bytes (DataSerializer.cpp 8-23).
LEMMA RawIntBytes ==
  ASSUME NEW v \in Int
  PROVE  /\ RawInt(v) \in Seq(Byte)
         /\ Len(RawInt(v)) = 4
  BY SMT DEF RawInt, Byte

\* An int is the sum of its base-256 digits, the highest of which is signed
\* (the union of DataDeserializer.cpp 23-34).
LEMMA Digits ==
  ASSUME NEW v \in Int32
  PROVE  IntOf(RawInt(v)) = v
<1> DEFINE a == v \div 256
           b == v \div 65536
           c == v \div 16777216
<1>1. /\ v \in Int /\ v >= -2147483648 /\ v <= 2147483647
  BY SMT, Int32Range
<1>2. /\ a \in Int /\ b \in Int /\ c \in Int
  BY SMT, <1>1
<1>3. /\ v = 256 * a + (v % 256)
      /\ b = a \div 256
      /\ c = b \div 256
  BY SMT, <1>1
<1>4. /\ a = 256 * b + (a % 256)
      /\ b = 256 * c + (b % 256)
  BY SMT, <1>2, <1>3
<1>5. c >= -128 /\ c <= 127
  BY SMT, <1>1
<1>6. c = IF c % 256 < 128 THEN c % 256 ELSE (c % 256) - 256
  <2> HIDE DEF c
  <2> QED BY SMT, <1>2, <1>5
<1>7. IntOf(RawInt(v)) = (v % 256) + 256 * (a % 256) + 65536 * (b % 256)
         + 16777216 * (IF c % 256 < 128 THEN c % 256 ELSE (c % 256) - 256)
  BY SMT DEF IntOf, RawInt
<1> HIDE DEF a, b, c
<1>8. QED
  BY SMT, <1>1, <1>2, <1>3, <1>4, <1>6, <1>7

\* An int is written as its tag and its four bytes.
LEMMA IntBytes ==
  ASSUME NEW v \in Int32
  PROVE  /\ SerializeInt(v) \in Seq(Byte)
         /\ Len(SerializeInt(v)) = 5
         /\ SerializeInt(v)[1] = TagInt
         /\ \A k \in 1 .. 4 : SerializeInt(v)[k + 1] = RawInt(v)[k]
<1> DEFINE t == <<TagInt>>
           r == RawInt(v)
<1>1. r \in Seq(Byte) /\ Len(r) = 4
  BY SMT, RawIntBytes, Int32Range
<1>2. t \in Seq(Byte) /\ Len(t) = 1 /\ t[1] = TagInt
  BY SMT DEF TagInt, Byte
<1> HIDE DEF t, r
<1>3. /\ t \o r \in Seq(Byte)
      /\ Len(t \o r) = Len(t) + Len(r)
      /\ \A i \in 1 .. Len(t) + Len(r) :
           (t \o r)[i] = IF i <= Len(t) THEN t[i] ELSE r[i - Len(t)]
  BY ONLY <1>1, <1>2, ConcatProperties
<1>4. /\ (t \o r)[1] = TagInt
      /\ \A k \in 1 .. 4 : (t \o r)[k + 1] = r[k]
  BY SMT, <1>1, <1>2, <1>3
<1>5. QED
  BY SMT, <1>1, <1>2, <1>3, <1>4 DEF SerializeInt, t, r

-----------------------------------------------------------------------------
(* Messages of several values. *)

\* The bytes w stand in data from the index n on.
Holds(data, n, w) ==
  /\ n + Len(w) <= Len(data)
  /\ \A k \in 1 .. Len(w) : data[n + k] = w[k]

\* What is written first, and what behind it.
LEMMA HoldsParts ==
  ASSUME NEW a \in Seq(Byte), NEW b \in Seq(Byte)
  PROVE  /\ a \o b \in Seq(Byte) /\ Len(a \o b) = Len(a) + Len(b)
         /\ Len(a) \in Nat /\ Len(b) \in Nat
         /\ Holds(a \o b, 0, a) /\ Holds(a \o b, Len(a), b)
<1> DEFINE c == a \o b
<1>1. Len(a) \in Nat /\ Len(b) \in Nat
  BY ONLY a \in Seq(Byte), b \in Seq(Byte), LenProperties
<1>2. /\ c \in Seq(Byte)
      /\ Len(c) = Len(a) + Len(b)
      /\ \A i \in 1 .. Len(a) + Len(b) : c[i] = IF i <= Len(a) THEN a[i] ELSE b[i - Len(a)]
  BY ONLY a \in Seq(Byte), b \in Seq(Byte), ConcatProperties
<1> HIDE DEF c
<1>3. \A k \in 1 .. Len(a) : c[0 + k] = a[k]
  BY SMT, <1>1, <1>2
<1>4. \A k \in 1 .. Len(b) : c[Len(a) + k] = b[k]
  <2> TAKE k \in 1 .. Len(b)
  <2>1. /\ Len(a) + k \in 1 .. Len(a) + Len(b) /\ ~(Len(a) + k <= Len(a))
        /\ (Len(a) + k) - Len(a) = k
    BY SMT, <1>1
  <2> QED BY <1>2, <2>1
<1>5. Holds(c, 0, a) /\ Holds(c, Len(a), b)
  BY SMT, <1>1, <1>2, <1>3, <1>4 DEF Holds
<1> QED BY <1>1, <1>2, <1>5 DEF c

\* A part of a part is a part.
LEMMA HoldsTransitive ==
  ASSUME NEW data, Len(data) \in Nat, NEW a \in Seq(Byte), NEW b \in Seq(Byte),
         NEW n \in Nat, NEW m \in Nat, Holds(data, n, a), Holds(a, m, b)
  PROVE  Holds(data, n + m, b)
<1>1. Len(a) \in Nat /\ Len(b) \in Nat
  BY ONLY a \in Seq(Byte), b \in Seq(Byte), LenProperties
<1>2. /\ n + Len(a) <= Len(data) /\ m + Len(b) <= Len(a)
      /\ \A k \in 1 .. Len(a) : data[n + k] = a[k]
      /\ \A k \in 1 .. Len(b) : a[m + k] = b[k]
  BY DEF Holds
<1>3. \A k \in 1 .. Len(b) : m + k \in 1 .. Len(a) /\ n + (m + k) = (n + m) + k
  BY SMT, <1>1, <1>2
<1>4. \A k \in 1 .. Len(b) : data[(n + m) + k] = b[k]
  <2> TAKE k \in 1 .. Len(b)
  <2>1. data[n + (m + k)] = a[m + k]
    BY <1>2, <1>3
  <2> QED BY <1>2, <1>3, <2>1
<1> QED BY SMT, <1>1, <1>2, <1>4 DEF Holds

\* A string of several values holds each of them.
LEMMA HoldsSplit ==
  ASSUME NEW data, Len(data) \in Nat, NEW a \in Seq(Byte), NEW b \in Seq(Byte),
         NEW n \in Nat, Holds(data, n, a \o b)
  PROVE  Holds(data, n, a) /\ Holds(data, n + Len(a), b)
<1>1. /\ a \o b \in Seq(Byte) /\ Len(a) \in Nat
      /\ Holds(a \o b, 0, a) /\ Holds(a \o b, Len(a), b)
  BY HoldsParts
<1>2. Holds(data, n + 0, a)
  BY <1>1, HoldsTransitive
<1>3. Holds(data, n + Len(a), b)
  BY <1>1, HoldsTransitive
<1> QED BY SMT, <1>2, <1>3

\* The byte the parsers look at, where there is one.
LEMMA HoldsAt ==
  ASSUME NEW data, Len(data) \in Nat, NEW w \in Seq(Byte), NEW n \in Nat, Holds(data, n, w),
         NEW k \in Nat, k < Len(w)
  PROVE  At(data, n + k) = w[k + 1]
<1>1. Len(w) \in Nat
  BY ONLY w \in Seq(Byte), LenProperties
<1>2. k + 1 \in 1 .. Len(w) /\ (n + k) + 1 = n + (k + 1) /\ n + k < Len(data)
  BY SMT, <1>1 DEF Holds
<1>3. data[n + (k + 1)] = w[k + 1]
  BY <1>2 DEF Holds
<1> QED BY <1>2, <1>3 DEF At

\* An int that stands in the data is found there (DataDeserializer.cpp 15-35).
LEMMA IntFound ==
  ASSUME NEW data, Len(data) \in Nat, NEW n \in Nat, NEW v \in Int32,
         Holds(data, n, SerializeInt(v))
  PROVE  ParseInt(data, n) = Parsed(v, n + 5)
<1> DEFINE w == SerializeInt(v)
<1>1. /\ w \in Seq(Byte) /\ Len(w) = 5 /\ w[1] = TagInt
      /\ \A k \in 1 .. 4 : w[k + 1] = RawInt(v)[k]
  BY SMT, IntBytes
<1>2. Holds(data, n, w)
  OBVIOUS
<1> HIDE DEF w
<1>3. \A k \in 0 .. 4 : At(data, n + k) = w[k + 1]
  <2> TAKE k \in 0 .. 4
  <2>1. k \in Nat /\ k < Len(w)
    BY SMT, <1>1
  <2> QED BY <1>1, <1>2, <2>1, HoldsAt
<1>4. At(data, n) = TagInt
  <2>1. At(data, n + 0) = w[0 + 1] /\ n + 0 = n
    BY SMT, <1>3
  <2> QED BY SMT, <1>1, <2>1
<1>5. IntOf(Behind(data, n, 4)) = IntOf(RawInt(v))
  <2>1. \A k \in 1 .. 4 : Behind(data, n, 4)[k] = RawInt(v)[k]
    BY SMT, <1>1, <1>3 DEF Behind
  <2> QED BY SMT, <2>1 DEF IntOf
<1>6. ~(Len(data) < n + 4)
  BY SMT, <1>1, <1>2 DEF Holds
<1>7. IntOf(RawInt(v)) = v
  BY Digits
<1> QED BY <1>4, <1>5, <1>6, <1>7 DEF ParseInt

\* A value that is serialized is a string of bytes, and so is the start of a
\* string.
LEMMA StringBytes ==
  ASSUME NEW s \in Seq(Byte), Len(s) \in Int32
  PROVE  /\ <<TagString>> \in Seq(Byte) /\ SerializeInt(Len(s)) \in Seq(Byte)
         /\ <<TagString>> \o SerializeInt(Len(s)) \in Seq(Byte)
         /\ Len(<<TagString>> \o SerializeInt(Len(s))) = 6
         /\ SerializeString(s) \in Seq(Byte) /\ Len(SerializeString(s)) = 6 + Len(s)
<1> DEFINE t == <<TagString>>
           i == SerializeInt(Len(s))
<1>1. t \in Seq(Byte) /\ Len(t) = 1
  BY SMT DEF TagString, Byte
<1>2. i \in Seq(Byte) /\ Len(i) = 5
  BY IntBytes
<1> HIDE DEF t, i
<1>3. t \o i \in Seq(Byte) /\ Len(t \o i) = Len(t) + Len(i)
  BY ONLY <1>1, <1>2, HoldsParts
<1>4. (t \o i) \o s \in Seq(Byte) /\ Len((t \o i) \o s) = Len(t \o i) + Len(s)
  BY ONLY <1>3, s \in Seq(Byte), HoldsParts
<1>5. Len(s) \in Nat
  BY ONLY s \in Seq(Byte), LenProperties
<1>6. Len(t \o i) = 6 /\ Len((t \o i) \o s) = 6 + Len(s)
  BY SMT, <1>1, <1>2, <1>3, <1>4, <1>5
<1> QED BY <1>1, <1>2, <1>3, <1>4, <1>6 DEF SerializeString, t, i

\* A string that stands in the data is found there, its length first
\* (DataDeserializer.cpp 59-84).
LEMMA StringFound ==
  ASSUME NEW data, Len(data) \in Nat, NEW n \in Nat, NEW s \in Seq(Byte), Len(s) \in Int32,
         Holds(data, n, SerializeString(s))
  PROVE  ParseString(data, n) = Parsed(s, n + 6 + Len(s))
<1> DEFINE t == <<TagString>>
           i == SerializeInt(Len(s))
           h == t \o i
<1>1. /\ t \in Seq(Byte) /\ i \in Seq(Byte) /\ h \in Seq(Byte) /\ Len(h) = 6
      /\ Len(t) = 1 /\ t[1] = TagString
  BY StringBytes
<1>2. Holds(data, n, h \o s)
  BY DEF SerializeString
<1> HIDE DEF t, i, h
<1>3. Holds(data, n, h) /\ Holds(data, n + Len(h), s)
  BY <1>1, <1>2, HoldsSplit
<1>4. Holds(data, n, t \o i)
  BY <1>3 DEF h
<1>5. Holds(data, n, t) /\ Holds(data, n + Len(t), i)
  BY <1>1, <1>4, HoldsSplit
<1>6. Holds(data, n + 1, i) /\ Holds(data, n + 6, s) /\ n + 1 \in Nat /\ n + 6 \in Nat
  BY SMT, <1>1, <1>3, <1>5
<1>7. ParseInt(data, n + 1) = Parsed(Len(s), (n + 1) + 5)
  BY <1>6, IntFound DEF i
<1>8. At(data, n) = TagString
  <2>1. 0 \in Nat /\ 0 < Len(t) /\ n + 0 = n /\ 0 + 1 = 1
    BY SMT, <1>1
  <2>2. At(data, n + 0) = t[0 + 1]
    BY <1>1, <1>5, <2>1, HoldsAt
  <2> QED BY <1>1, <2>1, <2>2
<1>9. Len(s) \in Nat
  BY ONLY s \in Seq(Byte), LenProperties
<1>10. Len(s) \in -(n + 6) .. Len(data) - (n + 6) /\ ~(Len(s) < 0)
  BY SMT, <1>6, <1>9 DEF Holds
<1>11. Behind(data, n + 5, Len(s)) = s
  <2>1. \A k \in 1 .. Len(s) : At(data, (n + 5) + k) = s[k]
    <3> TAKE k \in 1 .. Len(s)
    <3>1. /\ k - 1 \in Nat /\ k - 1 < Len(s) /\ (n + 6) + (k - 1) = (n + 5) + k
          /\ (k - 1) + 1 = k
      BY SMT, <1>9
    <3>2. At(data, (n + 6) + (k - 1)) = s[(k - 1) + 1]
      BY <1>6, <3>1, HoldsAt
    <3> QED BY <3>1, <3>2
  <2>2. s = [k \in 1 .. Len(s) |-> s[k]]
    BY ONLY s \in Seq(Byte), LenProperties
  <2> QED BY <2>1, <2>2 DEF Behind
<1>12. (n + 1) + 5 = n + 6 /\ (n + 6) - 1 = n + 5
  BY SMT
<1> DEFINE size == ParseInt(data, n + 1)
<1>13. size.ok /\ size.val = Len(s) /\ size.idx = n + 6
  BY <1>7, <1>12 DEF Parsed
<1>14. ParseString(data, n) =
         IF At(data, n) # TagString \/ ~size.ok
              \/ size.val \notin -size.idx .. Len(data) - size.idx
           THEN NotParsed(<<>>, n)
         ELSE IF size.val < 0 THEN Thrown
         ELSE Parsed(Behind(data, size.idx - 1, size.val), size.idx + size.val)
  BY DEF ParseString
<1> HIDE DEF size
<1> QED BY <1>8, <1>10, <1>11, <1>12, <1>13, <1>14

\* So is a truth value (DataDeserializer.cpp 3-13), the index left on its digit.
LEMMA BoolFound ==
  ASSUME NEW data, Len(data) \in Nat, NEW n \in Nat, NEW b \in BOOLEAN,
         Holds(data, n, SerializeBool(b))
  PROVE  ParseBool(data, n) = Parsed(b, n + 1)
<1> DEFINE w == SerializeBool(b)
<1>1. /\ w \in Seq(Byte) /\ Len(w) = 2 /\ w[1] = TagBool
      /\ w[2] = IF b THEN Digit1 ELSE Digit0
  BY SMT DEF SerializeBool, TagBool, Digit0, Digit1, Byte
<1>2. Holds(data, n, w)
  OBVIOUS
<1> HIDE DEF w
<1>3. /\ 0 \in Nat /\ 1 \in Nat /\ 0 < Len(w) /\ 1 < Len(w) /\ n + 0 = n
      /\ 0 + 1 = 1 /\ 1 + 1 = 2
  BY SMT, <1>1
<1>4. At(data, n + 0) = w[0 + 1]
  BY <1>1, <1>2, <1>3, HoldsAt
<1>5. At(data, n + 1) = w[1 + 1]
  BY <1>1, <1>2, <1>3, HoldsAt
<1>6. ~(Len(data) < n + 1)
  BY SMT, <1>1, <1>2 DEF Holds
<1>7. Digit0 # Digit1
  BY SMT DEF Digit0, Digit1
<1>8. At(data, n) = TagBool
  BY <1>1, <1>3, <1>4
<1>9. (At(data, n + 1) = Digit1) = b
  BY <1>1, <1>3, <1>5, <1>7
<1> QED BY <1>6, <1>8, <1>9 DEF ParseBool

\* And a double (DataDeserializer.cpp 37-57), whatever its eight bytes.
LEMMA DoubleFound ==
  ASSUME NEW data, Len(data) \in Nat, NEW n \in Nat, NEW d \in Seq(Byte), Len(d) = 8,
         Holds(data, n, SerializeDouble(d))
  PROVE  ParseDouble(data, n) = Parsed(d, n + 9)
<1> DEFINE t == <<TagDouble>>
<1>1. t \in Seq(Byte) /\ Len(t) = 1 /\ t[1] = TagDouble
  BY SMT DEF TagDouble, Byte
<1>2. Holds(data, n, t \o d)
  BY DEF SerializeDouble
<1> HIDE DEF t
<1>3. Holds(data, n, t) /\ Holds(data, n + Len(t), d)
  BY <1>1, <1>2, HoldsSplit
<1>4. Holds(data, n + 1, d) /\ n + 1 \in Nat
  BY SMT, <1>1, <1>3
<1>5. At(data, n) = TagDouble
  <2>1. 0 \in Nat /\ 0 < Len(t) /\ n + 0 = n /\ 0 + 1 = 1
    BY SMT, <1>1
  <2>2. At(data, n + 0) = t[0 + 1]
    BY <1>1, <1>3, <2>1, HoldsAt
  <2> QED BY <1>1, <2>1, <2>2
<1>6. ~(Len(data) < n + 8)
  BY SMT, <1>4 DEF Holds
<1>7. Behind(data, n, 8) = d
  <2>1. \A k \in 1 .. 8 : At(data, n + k) = d[k]
    <3> TAKE k \in 1 .. 8
    <3>1. k - 1 \in Nat /\ k - 1 < Len(d) /\ (n + 1) + (k - 1) = n + k /\ (k - 1) + 1 = k
      BY SMT
    <3>2. At(data, (n + 1) + (k - 1)) = d[(k - 1) + 1]
      BY <1>4, <3>1, HoldsAt
    <3> QED BY <3>1, <3>2
  <2>2. d = [k \in 1 .. 8 |-> d[k]]
    BY ONLY d \in Seq(Byte), Len(d) = 8, LenProperties
  <2> QED BY <2>1, <2>2 DEF Behind
<1> QED BY <1>5, <1>6, <1>7 DEF ParseDouble

-----------------------------------------------------------------------------
(* What is serialized is parsed. *)

\* A value stands where it was written.
LEMMA Between ==
  ASSUME NEW pre \in Seq(Byte), NEW w \in Seq(Byte), NEW post \in Seq(Byte)
  PROVE  /\ Len((pre \o w) \o post) \in Nat /\ Len(pre) \in Nat
         /\ Holds((pre \o w) \o post, Len(pre), w)
<1>1. /\ pre \o w \in Seq(Byte) /\ Len(pre) \in Nat
      /\ Holds(pre \o w, Len(pre), w)
  BY HoldsParts
<1> DEFINE data == (pre \o w) \o post
<1>2. data \in Seq(Byte) /\ Holds(data, 0, pre \o w)
  BY <1>1, HoldsParts
<1> HIDE DEF data
<1>3. Len(data) \in Nat
  BY ONLY <1>2, LenProperties
<1>4. Holds(data, 0 + Len(pre), w)
  BY <1>1, <1>2, <1>3, HoldsTransitive
<1>5. 0 + Len(pre) = Len(pre)
  BY SMT, <1>1
<1> QED BY <1>1, <1>3, <1>4, <1>5 DEF data

\* An int that is serialized is found again, whatever precedes and follows it,
\* and the index is left behind it (DataSerializer.cpp 8-23,
\* DataDeserializer.cpp 15-35).
THEOREM IntRoundTrip ==
  ASSUME NEW v \in Int32, NEW pre \in Seq(Byte), NEW post \in Seq(Byte)
  PROVE  ParseInt((pre \o SerializeInt(v)) \o post, Len(pre))
           = Parsed(v, Len(pre) + Len(SerializeInt(v)))
<1>1. SerializeInt(v) \in Seq(Byte) /\ Len(SerializeInt(v)) = 5
  BY IntBytes
<1> DEFINE data == (pre \o SerializeInt(v)) \o post
<1>2. Len(data) \in Nat /\ Len(pre) \in Nat /\ Holds(data, Len(pre), SerializeInt(v))
  BY <1>1, Between
<1> HIDE DEF data
<1>3. ParseInt(data, Len(pre)) = Parsed(v, Len(pre) + 5)
  BY <1>2, IntFound
<1> QED BY <1>1, <1>3 DEF data

\* So is a string of up to 2^31 - 1 bytes, whatever its bytes
\* (DataSerializer.cpp 43-51, DataDeserializer.cpp 59-79).
THEOREM StringRoundTrip ==
  ASSUME NEW s \in Seq(Byte), Len(s) \in Int32, NEW pre \in Seq(Byte), NEW post \in Seq(Byte)
  PROVE  ParseString((pre \o SerializeString(s)) \o post, Len(pre))
           = Parsed(s, Len(pre) + 6 + Len(s))
<1>1. SerializeString(s) \in Seq(Byte)
  BY StringBytes
<1> DEFINE data == (pre \o SerializeString(s)) \o post
<1>2. Len(data) \in Nat /\ Len(pre) \in Nat /\ Holds(data, Len(pre), SerializeString(s))
  BY <1>1, Between
<1> HIDE DEF data
<1>3. ParseString(data, Len(pre)) = Parsed(s, Len(pre) + 6 + Len(s))
  BY <1>2, StringFound
<1> QED BY <1>3 DEF data
=============================================================================
