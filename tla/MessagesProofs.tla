---------------------------- MODULE MessagesProofs ----------------------------
(***************************************************************************)
(* Messages: for every id, every handle, every value and whatever lies     *)
(* past the end of the data, the server takes a request for what it was    *)
(* meant to be, the client a response for what was answered, and a part of *)
(* a response that was cut does only what its beginning allows.            *)
(*                                                                         *)
(* What stands where in a message is said by Holds, of CodecProofs.  The   *)
(* leaves that count name SMT, as in that module.                          *)
(***************************************************************************)
EXTENDS Messages, CodecProofs

-----------------------------------------------------------------------------
(* The parts of a message. *)

\* A length that an int can hold.
LEMMA StrLen ==
  ASSUME NEW s \in Str
  PROVE  s \in Seq(Byte) /\ Len(s) \in Nat /\ Len(s) \in Int32
<1>1. s \in Seq(Byte) /\ Len(s) <= MaxInt
  BY Zenon DEF Str
<1>2. Len(s) \in Nat
  BY ONLY <1>1, LenProperties
<1>3. MaxInt \in Nat
  BY SMT, MaxIntValue
<1>4. Len(s) \in Int32
  <2> DEFINE n == Len(s)
             m == MaxInt
  <2>1. n \in Nat /\ m \in Nat /\ n <= m
    BY <1>1, <1>2, <1>3
  <2> HIDE DEF n, m
  <2>2. n \in -m - 1 .. m
    BY SMT, <2>1
  <2> QED BY <2>2, Zenon DEF Int32, n, m
<1> QED BY <1>1, <1>2, <1>4

\* A keyword is two bytes.
LEMMA KeywordBytes ==
  ASSUME NEW ch \in Byte
  PROVE  /\ Keyword(ch) \in Seq(Byte) /\ Len(Keyword(ch)) = 2
         /\ Keyword(ch)[1] = Hash /\ Keyword(ch)[2] = ch
BY SMT DEF Keyword, Hash, Byte

\* A keyword is found where it stands.
LEMMA KeywordFound ==
  ASSUME NEW data, Len(data) \in Nat, NEW n \in Nat, NEW ch \in Byte,
         Holds(data, n, Keyword(ch))
  PROVE  /\ At(data, n) = Hash
         /\ \A x : IsKeyword(data, n, x) <=> x = ch
<1> DEFINE w == Keyword(ch)
<1>1. w \in Seq(Byte) /\ Len(w) = 2 /\ w[1] = Hash /\ w[2] = ch
  BY KeywordBytes
<1>2. Holds(data, n, w)
  OBVIOUS
<1> HIDE DEF w
<1>3. /\ 0 \in Nat /\ 0 < Len(w) /\ n + 0 = n /\ 0 + 1 = 1
      /\ 1 \in Nat /\ 1 < Len(w) /\ 1 + 1 = 2
  BY SMT, <1>1
<1>4. At(data, n + 0) = w[0 + 1] /\ At(data, n + 1) = w[1 + 1]
  BY <1>1, <1>2, <1>3, HoldsAt
<1>5. At(data, n) = Hash /\ At(data, n + 1) = ch
  BY <1>1, <1>3, <1>4
<1>6. Len(data) >= n + 2
  BY SMT, <1>1, <1>2 DEF Holds
<1> QED BY <1>5, <1>6 DEF IsKeyword

\* The first byte of what is written decides which parsers can succeed.
LEMMA FirstByte ==
  ASSUME NEW data, NEW n
  PROVE  /\ At(data, n) # TagBool => ParseBool(data, n) = NotParsed(FALSE, n)
         /\ At(data, n) # TagInt => ParseInt(data, n) = NotParsed(0, n)
         /\ At(data, n) # TagDouble => ParseDouble(data, n) = NotParsed(<<>>, n)
         /\ At(data, n) # TagString => ParseString(data, n) = NotParsed(<<>>, n)
BY Zenon DEF ParseBool, ParseInt, ParseDouble, ParseString

\* It is the tag of a value.
LEMMA TagFound ==
  ASSUME NEW data, Len(data) \in Nat, NEW n \in Nat, NEW t \in Byte, NEW w \in Seq(Byte),
         Holds(data, n, <<t>> \o w)
  PROVE  At(data, n) = t
<1> DEFINE a == <<t>>
<1>1. a \in Seq(Byte) /\ Len(a) = 1 /\ a[1] = t
  BY SMT
<1>2. Holds(data, n, a \o w)
  OBVIOUS
<1> HIDE DEF a
<1>3. Holds(data, n, a)
  BY <1>1, <1>2, HoldsSplit
<1>4. 0 \in Nat /\ 0 < Len(a) /\ n + 0 = n /\ 0 + 1 = 1
  BY SMT, <1>1
<1>5. At(data, n + 0) = a[0 + 1]
  BY <1>1, <1>3, <1>4, HoldsAt
<1> QED BY <1>1, <1>4, <1>5

\* No tag is another, and none is the first byte of a keyword.
LEMMA Tags ==
  /\ TagBool \in Byte /\ TagInt \in Byte /\ TagDouble \in Byte /\ TagString \in Byte
  /\ Hash \in Byte /\ KeyId \in Byte /\ KeyCreate \in Byte /\ KeyMethod \in Byte
  /\ KeyGet \in Byte
  /\ TagInt # TagBool /\ TagDouble # TagBool /\ TagString # TagBool
  /\ TagDouble # TagInt /\ TagString # TagInt /\ TagString # TagDouble
  /\ Hash # TagBool /\ Hash # TagInt /\ Hash # TagDouble /\ Hash # TagString
  /\ KeyId # TagString /\ KeyGet # KeyMethod /\ KeyGet # KeyCreate /\ KeyMethod # KeyCreate
BY SMT DEF Byte, TagBool, TagInt, TagDouble, TagString, Hash, KeyId, KeyCreate, KeyMethod, KeyGet

\* The id of a request or a response (Client.cpp 14-20, RequestParser.cpp 53-67).
LEMMA IdBytes ==
  ASSUME NEW rid \in Int32
  PROVE  RequestIdData(rid) \in Seq(Byte) /\ Len(RequestIdData(rid)) = 7
<1> DEFINE k == Keyword(KeyId)
           i == SerializeInt(rid)
           h == RequestIdData(rid)
<1>1. k \in Seq(Byte) /\ Len(k) = 2 /\ i \in Seq(Byte) /\ Len(i) = 5
  BY KeywordBytes, IntBytes, Tags
<1>2. h = k \o i
  BY Zenon DEF RequestIdData
<1> HIDE DEF k, i, h
<1>3. h \in Seq(Byte) /\ Len(h) = Len(k) + Len(i)
  BY <1>1, <1>2, HoldsParts
<1>4. Len(h) = 7
  BY SMT, <1>1, <1>3
<1> QED BY <1>3, <1>4 DEF h

LEMMA IdFound ==
  ASSUME NEW rid \in Int32, NEW data, Len(data) \in Nat, Holds(data, 0, RequestIdData(rid))
  PROVE  /\ ParseRequestId(data, 0) = Parsed(rid, 7)
         /\ At(data, 0) = Hash /\ At(data, 1) = KeyId
<1> DEFINE k == Keyword(KeyId)
           i == SerializeInt(rid)
<1>1. k \in Seq(Byte) /\ Len(k) = 2 /\ i \in Seq(Byte) /\ Len(i) = 5
  BY KeywordBytes, IntBytes, Tags
<1>2. Holds(data, 0, k \o i)
  BY DEF RequestIdData
<1> HIDE DEF k, i
<1>3. 0 \in Nat /\ 2 \in Nat /\ 0 + Len(k) = 2 /\ 0 + 2 = 2 /\ 2 + 5 = 7
  BY SMT, <1>1
<1>4. Holds(data, 0, k) /\ Holds(data, 2, i)
  <2>1. Holds(data, 0, k) /\ Holds(data, 0 + Len(k), i)
    BY <1>1, <1>2, <1>3, HoldsSplit
  <2> QED BY <1>3, <2>1
<1>5. IsKeyword(data, 0, KeyId) /\ At(data, 0) = Hash
  BY <1>3, <1>4, KeywordFound, Tags DEF k
<1>6. At(data, 1) = KeyId
  <2>1. At(data, 0 + 1) = KeyId
    BY <1>5, Zenon DEF IsKeyword
  <2> QED BY SMT, <2>1
<1>7. ParseInt(data, 2) = Parsed(rid, 2 + 5)
  BY <1>3, <1>4, IntFound DEF i
<1>8. ParseRequestId(data, 0) = Parsed(rid, 7)
  <2>1. ParseInt(data, 0 + 2) = Parsed(rid, 7)
    BY <1>3, <1>7
  <2> DEFINE p == ParseInt(data, 0 + 2)
  <2>2. p.ok /\ p.val = rid /\ p.idx = 7
    BY <2>1 DEF Parsed
  <2>3. ParseRequestId(data, 0) =
          IF IsKeyword(data, 0, KeyId) /\ p.ok THEN Parsed(p.val, p.idx) ELSE NotParsed(-1, 0)
    BY DEF ParseRequestId
  <2> HIDE DEF p
  <2> QED BY <1>5, <2>2, <2>3
<1> QED BY <1>5, <1>6, <1>8

\* What stands behind the id.
LEMMA BehindId ==
  ASSUME NEW rid \in Int32, NEW q \in Seq(Byte)
  PROVE  LET data == RequestIdData(rid) \o q IN
         /\ data \in Seq(Byte) /\ Len(data) \in Nat /\ Len(q) \in Nat
         /\ Len(data) = 7 + Len(q)
         /\ Holds(data, 0, RequestIdData(rid)) /\ Holds(data, 7, q)
         /\ ParseRequestId(data, 0) = Parsed(rid, 7)
<1> DEFINE h == RequestIdData(rid)
           data == h \o q
<1>1. h \in Seq(Byte) /\ Len(h) = 7
  BY IdBytes
<1> HIDE DEF h
<1>2. /\ data \in Seq(Byte) /\ Len(data) = Len(h) + Len(q) /\ Len(q) \in Nat
      /\ Holds(data, 0, h) /\ Holds(data, Len(h), q)
  BY <1>1, HoldsParts
<1> HIDE DEF data
<1>3. Len(data) \in Nat
  BY ONLY <1>2, LenProperties
<1>4. ParseRequestId(data, 0) = Parsed(rid, 7)
  BY <1>2, <1>3, IdFound DEF h
<1> QED BY <1>1, <1>2, <1>3, <1>4 DEF data, h

-----------------------------------------------------------------------------
(* Values. *)

BoolVal == [type : {"bool"}, val : BOOLEAN]

\* A value of each type, and how it is written.
LEMMA Values ==
  /\ \A v \in BoolVal : v = Value("bool", v.val) /\ v.val \in BOOLEAN
                        /\ Serialize(v) = SerializeBool(v.val)
  /\ \A v \in IntVal : v = Value("int", v.val) /\ v.val \in Int32
                       /\ Serialize(v) = SerializeInt(v.val)
  /\ \A v \in DoubleVal : v = Value("double", v.val) /\ v.val \in Seq(Byte) /\ Len(v.val) = 8
                          /\ Serialize(v) = SerializeDouble(v.val)
  /\ \A v \in StrVal : v = Value("string", v.val) /\ v.val \in Str
                       /\ Serialize(v) = SerializeString(v.val)
<1>1. ASSUME NEW v \in BoolVal
      PROVE  v = Value("bool", v.val) /\ v.val \in BOOLEAN
             /\ Serialize(v) = SerializeBool(v.val)
  <2>1. v = Value("bool", v.val) /\ v.val \in BOOLEAN /\ v.type = "bool"
    BY DEF BoolVal, Value
  <2> QED BY <2>1 DEF Serialize
<1>2. ASSUME NEW v \in IntVal
      PROVE  v = Value("int", v.val) /\ v.val \in Int32
             /\ Serialize(v) = SerializeInt(v.val)
  <2>1. v = Value("int", v.val) /\ v.val \in Int32 /\ v.type = "int"
    BY DEF IntVal, Value
  <2> QED BY <2>1 DEF Serialize
<1>3. ASSUME NEW v \in DoubleVal
      PROVE  v = Value("double", v.val) /\ v.val \in Seq(Byte) /\ Len(v.val) = 8
             /\ Serialize(v) = SerializeDouble(v.val)
  <2>1. v = Value("double", v.val) /\ v.val \in {d \in Seq(Byte) : Len(d) = 8} /\ v.type = "double"
    BY DEF DoubleVal, Value
  <2>2. v.val \in Seq(Byte) /\ Len(v.val) = 8
    BY <2>1, Zenon
  <2> QED BY <2>1, <2>2 DEF Serialize
<1>4. ASSUME NEW v \in StrVal
      PROVE  v = Value("string", v.val) /\ v.val \in Str
             /\ Serialize(v) = SerializeString(v.val)
  <2>1. v = Value("string", v.val) /\ v.val \in Str /\ v.type = "string"
    BY DEF StrVal, Value
  <2> QED BY <2>1 DEF Serialize
<1> QED BY <1>1, <1>2, <1>3, <1>4, Zenon

\* A value is written in bytes: at least one, and for all but a string at most nine.
LEMMA ValueBytes ==
  /\ \A b \in BOOLEAN : SerializeBool(b) \in Seq(Byte) /\ Len(SerializeBool(b)) = 2
  /\ \A v \in Int32 : SerializeInt(v) \in Seq(Byte) /\ Len(SerializeInt(v)) = 5
  /\ \A d \in Seq(Byte) : Len(d) = 8 => SerializeDouble(d) \in Seq(Byte)
  /\ \A s \in Str : SerializeString(s) \in Seq(Byte)
                    /\ Len(SerializeString(s)) = 6 + Len(s)
<1>1. ASSUME NEW b \in BOOLEAN PROVE SerializeBool(b) \in Seq(Byte) /\ Len(SerializeBool(b)) = 2
  BY SMT DEF SerializeBool, TagBool, Digit0, Digit1, Byte
<1>2. ASSUME NEW v \in Int32 PROVE SerializeInt(v) \in Seq(Byte) /\ Len(SerializeInt(v)) = 5
  BY IntBytes
<1>3. ASSUME NEW d \in Seq(Byte) PROVE SerializeDouble(d) \in Seq(Byte)
  <2>1. <<TagDouble>> \in Seq(Byte)
    BY SMT, Tags
  <2> QED BY <2>1, HoldsParts DEF SerializeDouble
<1>4. ASSUME NEW s \in Str
      PROVE SerializeString(s) \in Seq(Byte) /\ Len(SerializeString(s)) = 6 + Len(s)
  BY StrLen, StringBytes
<1> QED BY <1>1, <1>2, <1>3, <1>4, Zenon

\* The first byte of a value is its tag.
LEMMA ValueTag ==
  ASSUME NEW data, Len(data) \in Nat, NEW n \in Nat
  PROVE  /\ \A v \in Int32 : Holds(data, n, SerializeInt(v)) => At(data, n) = TagInt
         /\ \A d \in Seq(Byte) : Holds(data, n, SerializeDouble(d)) => At(data, n) = TagDouble
         /\ \A s \in Str : Holds(data, n, SerializeString(s)) => At(data, n) = TagString
<1>1. ASSUME NEW v \in Int32, Holds(data, n, SerializeInt(v)) PROVE At(data, n) = TagInt
  <2>1. RawInt(v) \in Seq(Byte)
    <3>1. v \in Int
      BY SMT, Int32Range
    <3> QED BY <3>1, RawIntBytes
  <2> QED BY <1>1, <2>1, Tags, TagFound DEF SerializeInt
<1>2. ASSUME NEW d \in Seq(Byte), Holds(data, n, SerializeDouble(d)) PROVE At(data, n) = TagDouble
  BY <1>2, Tags, TagFound DEF SerializeDouble
<1>3. ASSUME NEW s \in Str, Holds(data, n, SerializeString(s)) PROVE At(data, n) = TagString
  <2> DEFINE h == <<TagString>> \o SerializeInt(Len(s))
  <2>1. /\ s \in Seq(Byte) /\ SerializeInt(Len(s)) \in Seq(Byte) /\ h \in Seq(Byte)
    BY StrLen, StringBytes
  <2>2. Holds(data, n, h \o s)
    BY <1>3 DEF SerializeString
  <2>3. Holds(data, n, h)
    <3> HIDE DEF h
    <3> QED BY <2>1, <2>2, HoldsSplit
  <2> QED BY <2>1, <2>3, Tags, TagFound
<1> QED BY <1>1, <1>2, <1>3, Zenon

\* The only argument of a request.
LEMMA OnlyArgument ==
  ASSUME NEW S, NEW args \in OneOf(S)
  PROVE  args = <<args[1]>> /\ args[1] \in S /\ Len(args) = 1
<1>1. args \in Seq(S) /\ Len(args) = 1
  BY Zenon DEF OneOf
<1> QED BY ONLY <1>1, SMT

\* How each request is written (DemoSimulator.cpp 250-303).
LEMMA RequestForms ==
  ASSUME NEW cmd
  PROVE  /\ cmd.op = "value" => RequestData(cmd) = SerializeArgs(cmd.args)
         /\ cmd.op = "create" =>
              RequestData(cmd) = (ClassRequest \o Keyword(KeyCreate)) \o SerializeArgs(cmd.args)
         /\ cmd.op = "get" =>
              RequestData(cmd) = (ClassRequest \o SerializeInt(cmd.handle)) \o Keyword(KeyGet)
         /\ cmd.op \in Method =>
              RequestData(cmd) =
                (((ClassRequest \o SerializeInt(cmd.handle)) \o Keyword(KeyMethod))
                   \o SerializeString(MethodName[cmd.op])) \o SerializeArgs(cmd.args)
<1>1. DOMAIN MethodName = Method
  BY MessagesAssumption
<1> QED BY <1>1 DEF RequestData, Method

\* How its arguments are.
LEMMA ArgumentForms ==
  ASSUME NEW args
  PROVE  /\ Len(args) = 0 => SerializeArgs(args) = <<>>
         /\ Len(args) = 1 => SerializeArgs(args) = Serialize(args[1])
         /\ Len(args) = 2 => SerializeArgs(args) = Serialize(args[1]) \o Serialize(args[2])
  BY SMT DEF SerializeArgs

-----------------------------------------------------------------------------
(* A request that is only a value. *)

\* What RequestParser makes of the bytes behind the id.
AfterId(data) ==
  LET ival == ParseInt(data, 7)
      dval == ParseDouble(data, 7)
      str  == ParseString(data, 7)
      Plain(type, p) == Command("value", 0, <<Value(type, p.val)>>)
  IN
  IF ival.ok THEN Plain("int", ival)
  ELSE IF dval.ok THEN Plain("double", dval)
  ELSE IF str.ok THEN Plain("string", str)
  ELSE ParseCustomClass(data, 7)

LEMMA RequestAfterId ==
  ASSUME NEW data, NEW rid, ParseRequestId(data, 0) = Parsed(rid, 7)
  PROVE  ParseRequest(data) = [id |-> rid, command |-> AfterId(data)]
<1> DEFINE p == ParseRequestId(data, 0)
<1>1. p.val = rid /\ p.idx = 7
  BY DEF Parsed
<1>2. ParseRequest(data) =
        LET ival == ParseInt(data, p.idx)
            dval == ParseDouble(data, p.idx)
            str  == ParseString(data, p.idx)
            Plain(type, q) == Command("value", 0, <<Value(type, q.val)>>)
        IN
        [id |-> p.val,
         command |-> IF ival.ok THEN Plain("int", ival)
                     ELSE IF dval.ok THEN Plain("double", dval)
                     ELSE IF str.ok THEN Plain("string", str)
                     ELSE ParseCustomClass(data, p.idx)]
  BY DEF ParseRequest
<1> HIDE DEF p
<1> QED BY <1>1, <1>2 DEF AfterId

\* A value that is sent is the value that is executed (RequestParser.cpp 12-51).
LEMMA PlainUnderstood ==
  ASSUME NEW rid \in Int32, NEW cmd, IsRequest(cmd), cmd.op = "value"
  PROVE  LET data == RequestIdData(rid) \o RequestData(cmd) IN
         /\ data \in Seq(Byte)
         /\ ParseRequest(data) = [id |-> rid, command |-> cmd]
<1> DEFINE v == cmd.args[1]
           q == Serialize(v)
           data == RequestIdData(rid) \o q
<1>1. /\ cmd.args = <<v>> /\ v \in IntVal \cup DoubleVal \cup StrVal /\ Len(cmd.args) = 1
      /\ cmd = Command("value", 0, <<v>>)
  <2>1. cmd.args \in OneOf(IntVal \cup DoubleVal \cup StrVal)
    BY DEF IsRequest, Arguments
  <2>2. cmd.args = <<v>> /\ v \in IntVal \cup DoubleVal \cup StrVal /\ Len(cmd.args) = 1
    BY <2>1, OnlyArgument
  <2>3. cmd = Command(cmd.op, cmd.handle, cmd.args) /\ cmd.handle = 0
    BY Zenon DEF IsRequest
  <2> QED BY <2>2, <2>3
<1>2. RequestData(cmd) = q
  BY <1>1, RequestForms, ArgumentForms
<1>3. q \in Seq(Byte)
  BY <1>1, Values, ValueBytes
<1> HIDE DEF q
<1>4. /\ data \in Seq(Byte) /\ Len(data) \in Nat /\ Holds(data, 7, q)
      /\ ParseRequestId(data, 0) = Parsed(rid, 7)
  BY <1>3, BehindId
<1> HIDE DEF data, v
<1>5. 7 \in Nat
  BY SMT
<1>6. AfterId(data) = cmd
  <2>1. CASE v \in IntVal
    <3>1. v = Value("int", v.val) /\ v.val \in Int32 /\ q = SerializeInt(v.val)
      BY <2>1, Values DEF q
    <3>2. ParseInt(data, 7) = Parsed(v.val, 7 + 5)
      BY <1>4, <1>5, <3>1, IntFound
    <3>3. ParseInt(data, 7).ok /\ ParseInt(data, 7).val = v.val
      BY <3>2 DEF Parsed
    <3> QED BY <1>1, <3>1, <3>3 DEF AfterId
  <2>2. CASE v \in DoubleVal
    <3>1. v = Value("double", v.val) /\ v.val \in Seq(Byte) /\ Len(v.val) = 8
          /\ q = SerializeDouble(v.val)
      BY <2>2, Values DEF q
    <3>2. ParseDouble(data, 7) = Parsed(v.val, 7 + 9)
      BY <1>4, <1>5, <3>1, DoubleFound
    <3>3. At(data, 7) = TagDouble
      BY <1>4, <1>5, <3>1, ValueTag
    <3>4. ParseInt(data, 7) = NotParsed(0, 7)
      BY <3>3, FirstByte, Tags
    <3>5. ~ParseInt(data, 7).ok /\ ParseDouble(data, 7).ok /\ ParseDouble(data, 7).val = v.val
      BY <3>2, <3>4 DEF Parsed, NotParsed
    <3> QED BY <1>1, <3>1, <3>5 DEF AfterId
  <2>3. CASE v \in StrVal
    <3>1. v = Value("string", v.val) /\ v.val \in Str /\ q = SerializeString(v.val)
      BY <2>3, Values DEF q
    <3>2. ParseString(data, 7) = Parsed(v.val, 7 + 6 + Len(v.val))
      BY <1>4, <1>5, <3>1, StrLen, StringFound
    <3>3. At(data, 7) = TagString
      BY <1>4, <1>5, <3>1, ValueTag
    <3>4. ParseInt(data, 7) = NotParsed(0, 7) /\ ParseDouble(data, 7) = NotParsed(<<>>, 7)
      BY <3>3, FirstByte, Tags
    <3>5. /\ ~ParseInt(data, 7).ok /\ ~ParseDouble(data, 7).ok
          /\ ParseString(data, 7).ok /\ ParseString(data, 7).val = v.val
      BY <3>2, <3>4 DEF Parsed, NotParsed
    <3> QED BY <1>1, <3>1, <3>5 DEF AfterId
  <2> QED BY <1>1, <2>1, <2>2, <2>3
<1>7. ParseRequest(data) = [id |-> rid, command |-> cmd]
  BY <1>4, <1>6, RequestAfterId
<1> QED BY <1>2, <1>4, <1>7 DEF data

-----------------------------------------------------------------------------
(* A request about a class or an object: the name of the class comes first. *)

\* Where the name of the class ends.
ClassEnd == 14 + Len(ClassName)

LEMMA ClassBytes ==
  /\ ClassName \in Seq(Byte) /\ Len(ClassName) \in Nat /\ Len(ClassName) \in Int32
  /\ ClassRequest \in Seq(Byte) /\ Len(ClassRequest) = 7 + Len(ClassName)
  /\ ClassEnd \in Nat /\ 7 + Len(ClassRequest) = ClassEnd
<1> DEFINE c == <<Hash>>
           s == SerializeString(ClassName)
<1>1. /\ ClassName \in Seq(Byte) /\ Len(ClassName) \in Nat /\ Len(ClassName) \in Int32
      /\ s \in Seq(Byte) /\ Len(s) = 6 + Len(ClassName)
  BY MessagesAssumption, StrLen, ValueBytes
<1>2. c \in Seq(Byte) /\ Len(c) = 1
  BY SMT, Tags
<1>3. ClassRequest = c \o s
  BY DEF ClassRequest
<1> HIDE DEF c, s
<1>4. ClassRequest \in Seq(Byte) /\ Len(ClassRequest) = Len(c) + Len(s)
  BY <1>1, <1>2, <1>3, HoldsParts
<1>5. /\ Len(ClassRequest) = 7 + Len(ClassName)
      /\ ClassEnd \in Nat /\ 7 + Len(ClassRequest) = ClassEnd
  BY SMT, <1>1, <1>2, <1>4 DEF ClassEnd
<1> QED BY <1>1, <1>4, <1>5

\* What CustomClassParser makes of the bytes behind the name, from n on.
AfterClass(data, n) ==
  LET create == ParseCreateClass(data, n)
      handle == ParseInt(data, n)
  IN
  IF create.ok THEN create.val
  ELSE IF IsKeyword(data, handle.idx, KeyMethod)
    THEN ParseMethodCall(data, handle.idx, handle.val)
  ELSE ParseGetInstance(data, handle.idx, handle.val)

\* The name of the class is found (CustomClassParser.cpp 24-38).
LEMMA ClassFound ==
  ASSUME NEW data, Len(data) \in Nat, NEW rid, ParseRequestId(data, 0) = Parsed(rid, 7),
         Holds(data, 7, ClassRequest)
  PROVE  ParseRequest(data) = [id |-> rid, command |-> AfterClass(data, ClassEnd)]
<1> DEFINE c == <<Hash>>
           s == SerializeString(ClassName)
           name == ParseString(data, 8)
<1>1. c \in Seq(Byte) /\ Len(c) = 1 /\ s \in Seq(Byte)
  <2>1. c \in Seq(Byte) /\ Len(c) = 1
    BY SMT, Tags
  <2> QED BY <2>1, MessagesAssumption, ValueBytes
<1>2. Holds(data, 7, c \o s) /\ 7 \in Nat /\ 8 \in Nat
  BY SMT DEF ClassRequest
<1>3. At(data, 7) = Hash
  <2> HIDE DEF s
  <2> QED BY <1>1, <1>2, Tags, TagFound
<1>4. Holds(data, 8, s)
  <2> HIDE DEF c, s
  <2>1. Holds(data, 7 + Len(c), s)
    BY <1>1, <1>2, HoldsSplit
  <2>2. 7 + Len(c) = 8
    BY SMT, <1>1
  <2> QED BY <2>1, <2>2
<1>5. name = Parsed(ClassName, 8 + 6 + Len(ClassName))
  BY <1>2, <1>4, ClassBytes, StringFound
<1>6. 8 + 6 + Len(ClassName) = ClassEnd /\ 7 + 1 = 8
  BY SMT, ClassBytes DEF ClassEnd
<1>7. name.ok /\ name.val = ClassName /\ name.idx = ClassEnd
  BY <1>5, <1>6 DEF Parsed
<1>8. ParseCustomClass(data, 7) = AfterClass(data, ClassEnd)
  <2>1. ParseCustomClass(data, 7) =
          LET create == ParseCreateClass(data, name.idx)
              handle == ParseInt(data, name.idx)
          IN
          IF At(data, 7) # Hash \/ ~name.ok \/ name.val # ClassName THEN Unparsed
          ELSE IF create.ok THEN create.val
          ELSE IF IsKeyword(data, handle.idx, KeyMethod)
            THEN ParseMethodCall(data, handle.idx, handle.val)
          ELSE ParseGetInstance(data, handle.idx, handle.val)
    BY <1>6 DEF ParseCustomClass
  <2> HIDE DEF name
  <2> QED BY <1>3, <1>7, <2>1 DEF AfterClass
<1>9. /\ ParseInt(data, 7) = NotParsed(0, 7) /\ ParseDouble(data, 7) = NotParsed(<<>>, 7)
      /\ ParseString(data, 7) = NotParsed(<<>>, 7)
  BY <1>3, FirstByte, Tags
<1>10. ~ParseInt(data, 7).ok /\ ~ParseDouble(data, 7).ok /\ ~ParseString(data, 7).ok
  BY <1>9 DEF NotParsed
<1>11. AfterId(data) = ParseCustomClass(data, 7)
  BY <1>10 DEF AfterId
<1> QED BY <1>8, <1>11, RequestAfterId

\* The handle is found, and the request is not taken for a creation
\* (CustomClassParser.cpp 38-64).
LEMMA HandleFound ==
  ASSUME NEW data, Len(data) \in Nat, NEW n \in Nat, NEW h \in Int32,
         NEW ch \in {KeyMethod, KeyGet},
         Holds(data, n, SerializeInt(h)), Holds(data, n + 5, Keyword(ch))
  PROVE  AfterClass(data, n) =
           IF ch = KeyMethod THEN ParseMethodCall(data, n + 5, h)
                             ELSE Command("get", h, <<>>)
<1> DEFINE handle == ParseInt(data, n)
           create == ParseCreateClass(data, n)
<1>1. handle = Parsed(h, n + 5)
  BY IntFound
<1>2. handle.val = h /\ handle.idx = n + 5
  BY <1>1 DEF Parsed
<1>3. At(data, n) = TagInt
  BY ValueTag
<1>4. ~IsKeyword(data, n, KeyCreate)
  BY <1>3, Tags DEF IsKeyword
<1>5. create = NotParsed(Unparsed, n)
  BY <1>4 DEF ParseCreateClass
<1>6. ~create.ok
  BY <1>5 DEF NotParsed
<1>7. n + 5 \in Nat /\ ch \in Byte
  BY SMT, Tags
<1>8. \A x : IsKeyword(data, n + 5, x) <=> x = ch
  BY <1>7, KeywordFound
<1>9. AfterClass(data, n) =
        IF create.ok THEN create.val
        ELSE IF IsKeyword(data, handle.idx, KeyMethod)
          THEN ParseMethodCall(data, handle.idx, handle.val)
        ELSE ParseGetInstance(data, handle.idx, handle.val)
  BY DEF AfterClass
<1> HIDE DEF handle, create
<1>10. CASE ch = KeyMethod
  BY <1>2, <1>6, <1>8, <1>9, <1>10
<1>11. CASE ch = KeyGet
  BY <1>2, <1>6, <1>8, <1>9, <1>11, Tags DEF ParseGetInstance
<1> QED BY <1>10, <1>11

\* The method is found by its name, and its argument behind it
\* (CustomClassParser.cpp 116-156, 180-206).
LEMMA MethodFound ==
  ASSUME NEW data, Len(data) \in Nat, NEW n \in Nat, NEW h \in Int32,
         NEW op \in Method, NEW args \in Arguments(op),
         Holds(data, n + 2, SerializeString(MethodName[op])),
         Holds(data, n + 8 + Len(MethodName[op]), SerializeArgs(args))
  PROVE  ParseMethodCall(data, n, h) = Command(op, h, args)
<1> DEFINE m == MethodName[op]
           name == ParseString(data, n + 2)
           e == n + 8 + Len(m)
<1>1. m \in Str /\ m \in Seq(Byte) /\ Len(m) \in Nat /\ Len(m) \in Int32
  BY MessagesAssumption, StrLen
<1>2. n + 2 \in Nat /\ (n + 2) + 6 + Len(m) = e /\ e \in Nat
  <2> DEFINE l == Len(m)
  <2>1. l \in Nat
    BY <1>1
  <2> HIDE DEF l
  <2>2. n + 2 \in Nat /\ (n + 2) + 6 + l = n + 8 + l /\ n + 8 + l \in Nat
    BY SMT, <2>1
  <2> QED BY <2>2 DEF l
<1>3. name = Parsed(m, e)
  <2>1. name = Parsed(m, (n + 2) + 6 + Len(m))
    BY <1>1, <1>2, StringFound
  <2> QED BY <1>2, <2>1
<1>4. name.ok /\ name.val = m /\ name.idx = e
  <2> HIDE DEF name, m, e
  <2> QED BY <1>3 DEF Parsed
<1>5. \A o \in Method : (name.ok /\ name.val = MethodName[o]) <=> o = op
  <2> HIDE DEF name
  <2> QED BY <1>4, MessagesAssumption
<1>6. ParseMethodCall(data, n, h) =
        LET Names(o) == name.ok /\ name.val = MethodName[o] IN
        IF Names("PrintToCout") THEN Command("PrintToCout", h, <<>>)
        ELSE IF Names("PrintToString") THEN Command("PrintToString", h, <<>>)
        ELSE IF Names("SetIntegerValue")
          THEN ParseArgument(data, name.idx, h, "SetIntegerValue", "int",
                             ParseInt(data, name.idx))
        ELSE IF Names("SetStringValue")
          THEN ParseArgument(data, name.idx, h, "SetStringValue", "string",
                             ParseString(data, name.idx))
        ELSE Unparsed
  BY DEF ParseMethodCall
<1>7. Holds(data, e, SerializeArgs(args))
  OBVIOUS
<1> HIDE DEF name, m, e
<1>8. ParseMethodCall(data, n, h) =
        IF op = "PrintToCout" THEN Command("PrintToCout", h, <<>>)
        ELSE IF op = "PrintToString" THEN Command("PrintToString", h, <<>>)
        ELSE IF op = "SetIntegerValue"
          THEN ParseArgument(data, e, h, "SetIntegerValue", "int", ParseInt(data, e))
        ELSE ParseArgument(data, e, h, "SetStringValue", "string", ParseString(data, e))
  BY <1>4, <1>5, <1>6 DEF Method
<1>9. CASE op \in {"PrintToCout", "PrintToString"}
  <2>1. args = <<>>
    BY <1>9 DEF Arguments
  <2> QED BY <1>8, <1>9, <2>1
<1>10. CASE op = "SetIntegerValue"
  <2>1. args \in OneOf(IntVal)
    BY <1>10 DEF Arguments
  <2>2. /\ args = <<args[1]>> /\ args[1] \in IntVal /\ Len(args) = 1
    BY <2>1, OnlyArgument
  <2>3. args[1] = Value("int", args[1].val) /\ args[1].val \in Int32
        /\ Serialize(args[1]) = SerializeInt(args[1].val)
    BY <2>2, Values
  <2>4. SerializeArgs(args) = SerializeInt(args[1].val)
    BY <2>2, <2>3, ArgumentForms
  <2>5. ParseInt(data, e) = Parsed(args[1].val, e + 5)
    BY <1>2, <1>7, <2>3, <2>4, IntFound
  <2>6. ParseInt(data, e).ok /\ ParseInt(data, e).val = args[1].val
    BY <2>5 DEF Parsed
  <2>7. ParseMethodCall(data, n, h) = Command(op, h, <<Value("int", args[1].val)>>)
    BY <1>8, <1>10, <2>6 DEF ParseArgument
  <2> QED BY <2>2, <2>3, <2>7
<1>11. CASE op = "SetStringValue"
  <2>1. args \in OneOf(StrVal)
    BY <1>11 DEF Arguments
  <2>2. /\ args = <<args[1]>> /\ args[1] \in StrVal /\ Len(args) = 1
    BY <2>1, OnlyArgument
  <2>3. args[1] = Value("string", args[1].val) /\ args[1].val \in Str
        /\ Serialize(args[1]) = SerializeString(args[1].val)
    BY <2>2, Values
  <2>4. SerializeArgs(args) = SerializeString(args[1].val)
    BY <2>2, <2>3, ArgumentForms
  <2>5. ParseString(data, e) = Parsed(args[1].val, e + 6 + Len(args[1].val))
    BY <1>2, <1>7, <2>3, <2>4, StrLen, StringFound
  <2>6. ParseString(data, e).ok /\ ParseString(data, e).val = args[1].val
    BY <2>5 DEF Parsed
  <2>7. ParseMethodCall(data, n, h) = Command(op, h, <<Value("string", args[1].val)>>)
    BY <1>8, <1>11, <2>6 DEF ParseArgument
  <2> QED BY <2>2, <2>3, <2>7
<1> QED BY <1>9, <1>10, <1>11 DEF Method

\* A creation is found, whether it has no argument, an int, or an int and a
\* string (CustomClassParser.cpp 67-114).
LEMMA CreateFound ==
  ASSUME NEW data, Len(data) \in Nat, NEW n \in Nat, NEW args \in Arguments("create"),
         Holds(data, n, Keyword(KeyCreate)), Holds(data, n + 2, SerializeArgs(args)),
         Len(data) = n + 2 + Len(SerializeArgs(args))
  PROVE  AfterClass(data, n) = Command("create", 0, args)
<1> DEFINE w == SerializeArgs(args)
           ival == ParseInt(data, n + 2)
           str == ParseString(data, ival.idx)
           create == ParseCreateClass(data, n)
<1>1. IsKeyword(data, n, KeyCreate) /\ n + 2 \in Nat
  BY SMT, KeywordFound, Tags
<1>2. Holds(data, n + 2, w) /\ Len(data) = n + 2 + Len(w)
  OBVIOUS
<1>3. create =
        IF Len(data) = n + 2 THEN Parsed(Command("create", 0, <<>>), Len(data))
        ELSE IF ~ival.ok THEN NotParsed(Unparsed, n)
        ELSE IF Len(data) = ival.idx
          THEN Parsed(Command("create", 0, <<Value("int", ival.val)>>), Len(data))
        ELSE IF str.ok /\ Len(data) = str.idx
          THEN Parsed(Command("create", 0, <<Value("int", ival.val), Value("string", str.val)>>),
                      Len(data))
        ELSE NotParsed(Unparsed, n)
  BY <1>1, Zenon DEF ParseCreateClass
<1>4. \/ args = <<>>
      \/ args \in OneOf(IntVal)
      \/ args \in IntVal \X StrVal
  BY DEF Arguments
<1> SUFFICES create = Parsed(Command("create", 0, args), Len(data))
  <2> SUFFICES ASSUME create = Parsed(Command("create", 0, args), Len(data))
               PROVE  AfterClass(data, n) = Command("create", 0, args)
    OBVIOUS
  <2>1. create.ok /\ create.val = Command("create", 0, args)
    <3> HIDE DEF create
    <3> QED BY DEF Parsed
  <2>2. AfterClass(data, n) =
          LET handle == ParseInt(data, n) IN
          IF create.ok THEN create.val
          ELSE IF IsKeyword(data, handle.idx, KeyMethod)
            THEN ParseMethodCall(data, handle.idx, handle.val)
          ELSE ParseGetInstance(data, handle.idx, handle.val)
    BY DEF AfterClass
  <2> HIDE DEF create
  <2> QED BY <2>1, <2>2
<1> HIDE DEF create
<1>5. CASE args = <<>>
  <2>1. w = <<>>
    <3>1. Len(args) = 0
      BY SMT, <1>5
    <3> QED BY <3>1, ArgumentForms
  <2> HIDE DEF w, ival, str
  <2>2. Len(data) = n + 2
    BY SMT, <1>2, <2>1
  <2> QED BY <1>3, <1>5, <2>2
<1>6. CASE args \in OneOf(IntVal)
  <2>1. /\ args = <<args[1]>> /\ args[1] \in IntVal /\ Len(args) = 1
    BY <1>6, OnlyArgument
  <2>2. args[1] = Value("int", args[1].val) /\ args[1].val \in Int32
        /\ Serialize(args[1]) = SerializeInt(args[1].val)
    BY <2>1, Values
  <2>3. w = SerializeInt(args[1].val)
    BY <2>1, <2>2, ArgumentForms
  <2>4. ival = Parsed(args[1].val, (n + 2) + 5) /\ Len(w) = 5
    BY <1>1, <1>2, <2>2, <2>3, IntFound, ValueBytes
  <2> HIDE DEF w, ival, str
  <2>5. ival.ok /\ ival.val = args[1].val /\ ival.idx = (n + 2) + 5
    BY <2>4 DEF Parsed
  <2>6. Len(data) # n + 2 /\ Len(data) = (n + 2) + 5
    BY SMT, <1>1, <1>2, <2>4
  <2> QED BY <1>3, <2>1, <2>2, <2>5, <2>6
<1>7. CASE args \in IntVal \X StrVal
  <2> DEFINE i == args[1].val
             s == args[2].val
             a == SerializeInt(i)
             b == SerializeString(s)
  <2>1. args = <<args[1], args[2]>> /\ args[1] \in IntVal /\ args[2] \in StrVal /\ Len(args) = 2
    BY <1>7
  <2>2. /\ args[1] = Value("int", i) /\ i \in Int32 /\ Serialize(args[1]) = a
        /\ args[2] = Value("string", s) /\ s \in Str /\ Serialize(args[2]) = b
    BY <2>1, Values
  <2>3. w = a \o b
    BY <2>1, <2>2, ArgumentForms
  <2>4. /\ a \in Seq(Byte) /\ Len(a) = 5 /\ b \in Seq(Byte) /\ Len(b) = 6 + Len(s)
        /\ Len(s) \in Nat /\ s \in Seq(Byte) /\ Len(s) \in Int32
    BY <2>2, ValueBytes, StrLen
  <2> HIDE DEF w
  <2>5. Holds(data, n + 2, a) /\ Holds(data, (n + 2) + 5, b) /\ Len(w) = Len(a) + Len(b)
    <3> HIDE DEF a, b
    <3>1. Holds(data, n + 2, a) /\ Holds(data, (n + 2) + Len(a), b)
      BY <1>1, <1>2, <2>3, <2>4, HoldsSplit
    <3>2. Len(w) = Len(a) + Len(b)
      BY <2>3, <2>4, HoldsParts
    <3> QED BY <2>4, <3>1, <3>2
  <2>6. (n + 2) + 5 \in Nat
    BY SMT
  <2>7. ival = Parsed(i, (n + 2) + 5)
    BY <1>1, <2>2, <2>5, IntFound
  <2>8. ival.ok /\ ival.val = i /\ ival.idx = (n + 2) + 5
    <3> HIDE DEF ival, i
    <3> QED BY <2>7 DEF Parsed
  <2>9. ParseString(data, (n + 2) + 5) = Parsed(s, ((n + 2) + 5) + 6 + Len(s))
    BY <2>4, <2>5, <2>6, StringFound
  <2>10. str = Parsed(s, ((n + 2) + 5) + 6 + Len(s))
    BY <2>8, <2>9
  <2> HIDE DEF ival, str, a, b, i, s
  <2>11. str.ok /\ str.val = s /\ str.idx = ((n + 2) + 5) + 6 + Len(s)
    BY <2>10 DEF Parsed
  <2>12. /\ Len(data) = ((n + 2) + 5) + 6 + Len(s)
         /\ Len(data) # n + 2 /\ Len(data) # (n + 2) + 5
    <3> DEFINE l == Len(s)
               d == Len(data)
               x == Len(w)
    <3>1. l \in Nat /\ d = n + 2 + x /\ x = 5 + (6 + l)
      BY <1>2, <2>4, <2>5
    <3> HIDE DEF l, d, x
    <3>2. d = ((n + 2) + 5) + 6 + l /\ d # n + 2 /\ d # (n + 2) + 5
      BY SMT, <3>1
    <3> QED BY <3>2 DEF l, d
  <2>13. create = Parsed(Command("create", 0, <<Value("int", i), Value("string", s)>>), Len(data))
    BY <1>3, <2>8, <2>11, <2>12
  <2> QED BY <2>1, <2>2, <2>13
<1> QED BY <1>4, <1>5, <1>6, <1>7

\* The arguments are bytes.
LEMMA ArgsBytes ==
  ASSUME NEW op, NEW args \in Arguments(op)
  PROVE  SerializeArgs(args) \in Seq(Byte)
<1>1. \/ args = <<>>
      \/ args \in OneOf(IntVal \cup DoubleVal \cup StrVal)
      \/ args \in OneOf(IntVal) \/ args \in OneOf(StrVal)
      \/ args \in IntVal \X StrVal
  BY DEF Arguments
<1>2. CASE args = <<>>
  <2>1. Len(args) = 0 /\ <<>> \in Seq(Byte)
    BY SMT, <1>2
  <2> QED BY <2>1, ArgumentForms
<1>3. ASSUME NEW v \in IntVal \cup DoubleVal \cup StrVal PROVE Serialize(v) \in Seq(Byte)
  BY Values, ValueBytes
<1>4. ASSUME NEW S \in SUBSET (IntVal \cup DoubleVal \cup StrVal), args \in OneOf(S)
      PROVE  SerializeArgs(args) \in Seq(Byte)
  <2>1. Len(args) = 1 /\ args[1] \in S
    BY <1>4, OnlyArgument
  <2> QED BY <1>3, <2>1, ArgumentForms
<1>5. CASE args \in IntVal \X StrVal
  <2>1. args[1] \in IntVal /\ args[2] \in StrVal /\ Len(args) = 2
    BY <1>5
  <2>2. Serialize(args[1]) \in Seq(Byte) /\ Serialize(args[2]) \in Seq(Byte)
    BY <1>3, <2>1
  <2> QED BY <2>1, <2>2, ArgumentForms, HoldsParts
<1> QED BY <1>1, <1>2, <1>4, <1>5

\* A request about a class is taken for what it was meant to be.
LEMMA ClassUnderstood ==
  ASSUME NEW rid \in Int32, NEW cmd, IsRequest(cmd), cmd.op # "value"
  PROVE  LET data == RequestIdData(rid) \o RequestData(cmd) IN
         /\ data \in Seq(Byte)
         /\ ParseRequest(data) = [id |-> rid, command |-> cmd]
<1> DEFINE q == RequestData(cmd)
           data == RequestIdData(rid) \o q
           C == ClassRequest
           I == SerializeInt(cmd.handle)
           A == SerializeArgs(cmd.args)
           Understood == data \in Seq(Byte) /\ ParseRequest(data) = [id |-> rid, command |-> cmd]
<1>1. /\ cmd = Command(cmd.op, cmd.handle, cmd.args) /\ cmd.handle \in Int32
      /\ cmd.op \in {"create", "get"} \cup Method
      /\ cmd.op = "create" => cmd.handle = 0
      /\ cmd.args \in Arguments(cmd.op)
  BY Zenon DEF IsRequest
<1>2. /\ C \in Seq(Byte) /\ 7 + Len(C) = ClassEnd /\ ClassEnd \in Nat /\ Len(C) \in Nat
      /\ I \in Seq(Byte) /\ Len(I) = 5 /\ A \in Seq(Byte) /\ Len(A) \in Nat
      /\ \A ch \in {KeyCreate, KeyMethod, KeyGet} :
           Keyword(ch) \in Seq(Byte) /\ Len(Keyword(ch)) = 2
  <2>1. C \in Seq(Byte) /\ 7 + Len(C) = ClassEnd /\ ClassEnd \in Nat
    BY ClassBytes
  <2>2. I \in Seq(Byte) /\ Len(I) = 5 /\ A \in Seq(Byte)
    BY <1>1, IntBytes, ArgsBytes
  <2>3. Len(C) \in Nat /\ Len(A) \in Nat
    BY ONLY <2>1, <2>2, LenProperties
  <2> QED BY <2>1, <2>2, <2>3, KeywordBytes, Tags
<1>3. ASSUME q \in Seq(Byte)
      PROVE  /\ data \in Seq(Byte) /\ Len(data) \in Nat /\ Holds(data, 7, q)
             /\ Len(data) = 7 + Len(q)
             /\ ParseRequestId(data, 0) = Parsed(rid, 7)
  BY <1>3, BehindId
<1>4. ASSUME Len(data) \in Nat, ParseRequestId(data, 0) = Parsed(rid, 7), Holds(data, 7, C)
      PROVE  ParseRequest(data) = [id |-> rid, command |-> AfterClass(data, ClassEnd)]
  BY <1>4, ClassFound
<1>5. 7 \in Nat
  BY SMT
<1>6. CASE cmd.op = "create"
  <2> DEFINE K == Keyword(KeyCreate)
             ck == C \o K
  <2>1. q = ck \o A /\ K \in Seq(Byte) /\ Len(K) = 2
    BY <1>2, <1>6, RequestForms
  <2> HIDE DEF q, C, A, K
  <2>2. ck \in Seq(Byte) /\ Len(ck) = Len(C) + Len(K)
    BY <1>2, <2>1, HoldsParts
  <2>3. ck \o A \in Seq(Byte) /\ Len(ck \o A) = Len(ck) + Len(A)
    <3> HIDE DEF ck
    <3> QED BY <1>2, <2>2, HoldsParts
  <2>4. /\ data \in Seq(Byte) /\ Len(data) \in Nat /\ Holds(data, 7, ck \o A)
        /\ Len(data) = 7 + Len(q) /\ ParseRequestId(data, 0) = Parsed(rid, 7)
    BY <1>3, <2>1, <2>3
  <2> HIDE DEF data
  <2>5. Holds(data, 7, ck) /\ Holds(data, 7 + Len(ck), A)
    <3> HIDE DEF ck
    <3> QED BY <1>2, <1>5, <2>2, <2>4, HoldsSplit
  <2>6. Holds(data, 7, C) /\ Holds(data, 7 + Len(C), K)
    BY <1>2, <1>5, <2>1, <2>4, <2>5, HoldsSplit
  <2>7. 7 + Len(ck) = ClassEnd + 2 /\ Len(data) = ClassEnd + 2 + Len(A)
    <3> DEFINE c == Len(C)
               a == Len(A)
               k == Len(ck)
    <3>1. c \in Nat /\ a \in Nat /\ 7 + c = ClassEnd /\ k = c + 2
      BY <1>2, <2>1, <2>2
    <3>2. Len(data) = 7 + (k + a)
      BY <2>1, <2>3, <2>4
    <3> HIDE DEF c, a, k
    <3>3. 7 + k = ClassEnd + 2 /\ 7 + (k + a) = ClassEnd + 2 + a
      BY ONLY <3>1, SMT
    <3> QED BY <3>2, <3>3 DEF a, k
  <2>8. AfterClass(data, ClassEnd) = Command("create", 0, cmd.args)
    <3>1. cmd.args \in Arguments("create")
      BY <1>1, <1>6
    <3>2. Holds(data, ClassEnd, Keyword(KeyCreate))
      BY <1>2, <2>6 DEF K
    <3>3. Holds(data, ClassEnd + 2, SerializeArgs(cmd.args))
          /\ Len(data) = ClassEnd + 2 + Len(SerializeArgs(cmd.args))
      BY <2>5, <2>7 DEF A
    <3> QED BY <1>2, <2>4, <3>1, <3>2, <3>3, CreateFound
  <2>9. ParseRequest(data) = [id |-> rid, command |-> AfterClass(data, ClassEnd)]
    BY <1>4, <2>4, <2>6
  <2> QED BY <1>1, <1>6, <2>4, <2>8, <2>9 DEF data, q
<1>7. CASE cmd.op = "get"
  <2> DEFINE K == Keyword(KeyGet)
             ci == C \o I
  <2>1. q = ci \o K /\ K \in Seq(Byte) /\ Len(K) = 2
    BY <1>2, <1>7, RequestForms
  <2> HIDE DEF q, C, I, K
  <2>2. ci \in Seq(Byte) /\ Len(ci) = Len(C) + Len(I)
    BY <1>2, HoldsParts
  <2>3. ci \o K \in Seq(Byte)
    <3> HIDE DEF ci
    <3> QED BY <2>1, <2>2, HoldsParts
  <2>4. /\ data \in Seq(Byte) /\ Len(data) \in Nat /\ Holds(data, 7, ci \o K)
        /\ ParseRequestId(data, 0) = Parsed(rid, 7)
    BY <1>3, <2>1, <2>3
  <2> HIDE DEF data
  <2>5. Holds(data, 7, ci) /\ Holds(data, 7 + Len(ci), K)
    <3> HIDE DEF ci
    <3> QED BY <1>5, <2>1, <2>2, <2>4, HoldsSplit
  <2>6. Holds(data, 7, C) /\ Holds(data, 7 + Len(C), I)
    BY <1>2, <1>5, <2>4, <2>5, HoldsSplit
  <2>7. 7 + Len(ci) = ClassEnd + 5
    <3> HIDE DEF ci
    <3> QED BY SMT, <1>2, <2>2
  <2>8. AfterClass(data, ClassEnd) = Command("get", cmd.handle, <<>>)
    <3>1. Holds(data, ClassEnd, SerializeInt(cmd.handle)) /\ Holds(data, ClassEnd + 5, Keyword(KeyGet))
      BY <1>2, <2>5, <2>6, <2>7 DEF I, K
    <3> QED BY <1>1, <1>2, <2>4, <3>1, HandleFound, Tags
  <2>9. ParseRequest(data) = [id |-> rid, command |-> AfterClass(data, ClassEnd)]
    BY <1>4, <2>4, <2>6
  <2>10. cmd.args = <<>>
    BY <1>1, <1>7 DEF Arguments
  <2> QED BY <1>1, <1>7, <2>4, <2>8, <2>9, <2>10 DEF data, q
<1>8. CASE cmd.op \in Method
  <2> DEFINE m == MethodName[cmd.op]
             K == Keyword(KeyMethod)
             N == SerializeString(m)
             ci == C \o I
             cik == ci \o K
             cikn == cik \o N
  <2>1. q = cikn \o A /\ K \in Seq(Byte) /\ Len(K) = 2
    BY <1>2, <1>8, RequestForms
  <2>2. Len(m) \in Nat /\ N \in Seq(Byte) /\ Len(N) = 6 + Len(m)
    <3>1. m \in Str
      BY <1>8, MessagesAssumption
    <3> HIDE DEF m
    <3> QED BY <3>1, StrLen, ValueBytes
  <2> HIDE DEF q, C, I, K, N, A, m
  <2>3. ci \in Seq(Byte) /\ Len(ci) = Len(C) + Len(I)
    BY <1>2, HoldsParts
  <2> HIDE DEF ci
  <2>4. cik \in Seq(Byte) /\ Len(cik) = Len(ci) + Len(K)
    BY <2>1, <2>3, HoldsParts
  <2> HIDE DEF cik
  <2>5. cikn \in Seq(Byte) /\ Len(cikn) = Len(cik) + Len(N)
    BY <2>2, <2>4, HoldsParts
  <2> HIDE DEF cikn
  <2>6. cikn \o A \in Seq(Byte)
    BY <1>2, <2>5, HoldsParts
  <2>7. /\ data \in Seq(Byte) /\ Len(data) \in Nat /\ Holds(data, 7, cikn \o A)
        /\ ParseRequestId(data, 0) = Parsed(rid, 7)
    BY <1>3, <2>1, <2>6
  <2> HIDE DEF data
  <2>8. Holds(data, 7, cikn) /\ Holds(data, 7 + Len(cikn), A)
    BY <1>2, <1>5, <2>5, <2>7, HoldsSplit
  <2>9. Holds(data, 7, cik) /\ Holds(data, 7 + Len(cik), N)
    BY <1>5, <2>2, <2>4, <2>7, <2>8, HoldsSplit DEF cikn
  <2>10. Holds(data, 7, ci) /\ Holds(data, 7 + Len(ci), K)
    BY <1>5, <2>1, <2>3, <2>7, <2>9, HoldsSplit DEF cik
  <2>11. Holds(data, 7, C) /\ Holds(data, 7 + Len(C), I)
    BY <1>2, <1>5, <2>7, <2>10, HoldsSplit DEF ci
  <2>12. /\ 7 + Len(ci) = ClassEnd + 5
         /\ 7 + Len(cik) = (ClassEnd + 5) + 2
         /\ 7 + Len(cikn) = (ClassEnd + 5) + 8 + Len(m)
         /\ ClassEnd + 5 \in Nat
    <3> DEFINE c == Len(C)
               l == Len(m)
               x == Len(ci)
               y == Len(cik)
               z == Len(cikn)
    <3>1. /\ c \in Nat /\ l \in Nat /\ 7 + c = ClassEnd /\ ClassEnd \in Nat
          /\ x = c + 5 /\ y = x + 2 /\ z = y + (6 + l)
      BY <1>2, <2>1, <2>2, <2>3, <2>4, <2>5
    <3> HIDE DEF c, l, x, y, z
    <3>2. /\ 7 + x = ClassEnd + 5 /\ 7 + y = (ClassEnd + 5) + 2
          /\ 7 + z = (ClassEnd + 5) + 8 + l /\ ClassEnd + 5 \in Nat
      BY ONLY <3>1, SMT
    <3> QED BY <3>2 DEF l, x, y, z
  <2>13. AfterClass(data, ClassEnd) = ParseMethodCall(data, ClassEnd + 5, cmd.handle)
    <3>1. Holds(data, ClassEnd, SerializeInt(cmd.handle)) /\ Holds(data, ClassEnd + 5, Keyword(KeyMethod))
      BY <1>2, <2>10, <2>11, <2>12 DEF I, K
    <3> QED BY <1>1, <1>2, <2>7, <3>1, HandleFound
  <2>14. ParseMethodCall(data, ClassEnd + 5, cmd.handle) = Command(cmd.op, cmd.handle, cmd.args)
    <3>1. Holds(data, (ClassEnd + 5) + 2, SerializeString(MethodName[cmd.op]))
      BY <2>9, <2>12 DEF N, m
    <3>2. Holds(data, (ClassEnd + 5) + 8 + Len(MethodName[cmd.op]), SerializeArgs(cmd.args))
      BY <2>8, <2>12 DEF A, m
    <3>3. cmd.handle \in Int32 /\ cmd.op \in Method /\ cmd.args \in Arguments(cmd.op)
      BY <1>1, <1>8
    <3> DEFINE e == ClassEnd + 5
    <3>4. /\ e \in Nat /\ Len(data) \in Nat
          /\ Holds(data, e + 2, SerializeString(MethodName[cmd.op]))
          /\ Holds(data, e + 8 + Len(MethodName[cmd.op]), SerializeArgs(cmd.args))
      BY <2>7, <2>12, <3>1, <3>2
    <3> HIDE DEF e
    <3>5. ParseMethodCall(data, e, cmd.handle) = Command(cmd.op, cmd.handle, cmd.args)
      BY ONLY <3>3, <3>4, MethodFound, ZenonT(60)
    <3> QED BY <3>5 DEF e
  <2>15. ParseRequest(data) = [id |-> rid, command |-> AfterClass(data, ClassEnd)]
    BY <1>4, <2>7, <2>11
  <2> QED BY <1>1, <2>7, <2>13, <2>14, <2>15 DEF data, q
<1> QED BY <1>1, <1>6, <1>7, <1>8

-----------------------------------------------------------------------------
(* Responses. *)

Answers == BoolVal \cup IntVal \cup StrVal

\* An object is a string of bytes (CustomClass.cpp 63-68).
LEMMA ObjectBytes ==
  ASSUME NEW o \in Objects
  PROVE  SerializeObject(o) \in Str
<1> DEFINE a == SerializeInt(o.ival)
           b == SerializeString(o.str)
           w == a \o b
<1>1. o.ival \in Int32 /\ o.str \in Str /\ Len(o.str) <= MaxInt - 11
  BY MessagesAssumption
<1>2. /\ a \in Seq(Byte) /\ Len(a) = 5 /\ b \in Seq(Byte) /\ Len(b) = 6 + Len(o.str)
      /\ Len(o.str) \in Nat
  BY <1>1, ValueBytes, StrLen
<1>3. w \in Seq(Byte) /\ Len(w) = Len(a) + Len(b)
  <2> HIDE DEF a, b
  <2> QED BY <1>2, HoldsParts
<1>4. Len(w) <= MaxInt
  <2> DEFINE l == Len(o.str)
             m == MaxInt
             x == Len(w)
  <2>1. l \in Nat /\ l <= m - 11 /\ x = 5 + (6 + l) /\ m \in Nat
    <3>1. m \in Nat
      BY SMT, MaxIntValue
    <3> QED BY <1>1, <1>2, <1>3, <3>1
  <2> HIDE DEF l, m, x
  <2>2. x <= m
    BY ONLY <2>1, SMT
  <2> QED BY <2>2 DEF x, m
<1>5. SerializeObject(o) = w
  BY DEF SerializeObject
<1> HIDE DEF w
<1> QED BY <1>3, <1>4, <1>5 DEF Str

\* A response has no value, or one of a type the client's callbacks know.
LEMMA ResponseValue ==
  ASSUME NEW cmd, IsRequest(cmd), NEW o \in Objects
  PROVE  /\ Response(cmd, o) # None => Response(cmd, o) \in Answers
         /\ cmd.op = "get" => Response(cmd, o) = Value("string", SerializeObject(o))
<1>1. /\ cmd.op \in {"value", "create", "get"} \cup Method
      /\ o.handle \in Int32 /\ o.str \in Str /\ SerializeObject(o) \in Str
  BY MessagesAssumption, ObjectBytes DEF IsRequest
<1>2. /\ \A b \in BOOLEAN : Value("bool", b) \in Answers
      /\ \A v \in Int32 : Value("int", v) \in Answers
      /\ \A s \in Str : Value("string", s) \in Answers
  BY DEF Value, Answers, BoolVal, IntVal, StrVal
<1>3. CASE cmd.op = "create"
  BY <1>1, <1>2, <1>3 DEF Response
<1>4. CASE cmd.op = "SetIntegerValue"
  <2>1. Response(cmd, o) = Value("bool", cmd.args[1].val # o.ival)
    BY <1>4 DEF Response
  <2> QED BY <1>2, <1>4, <2>1
<1>5. CASE cmd.op = "SetStringValue"
  <2>1. Response(cmd, o) = Value("bool", cmd.args[1].val # o.str)
    BY <1>5 DEF Response
  <2> QED BY <1>2, <1>5, <2>1
<1>6. CASE cmd.op = "PrintToString"
  BY <1>1, <1>2, <1>6 DEF Response
<1>7. CASE cmd.op = "get"
  BY <1>1, <1>2, <1>7 DEF Response
<1>8. CASE cmd.op \in {"value", "PrintToCout"}
  BY <1>8 DEF Response
<1> QED BY <1>1, <1>3, <1>4, <1>5, <1>6, <1>7, <1>8 DEF Method

\* Where a response starts with an id, its value is looked for behind the id,
\* as a truth value, an int, a double and a string (ResponseParser.cpp 12-54).
ValueAfterId(data) ==
  LET bool == ParseBool(data, 7)
      ival == ParseInt(data, 7)
      dval == ParseDouble(data, 7)
      str  == ParseString(data, 7)
  IN
  IF bool.ok THEN Value("bool", bool.val)
  ELSE IF ival.ok THEN Value("int", ival.val)
  ELSE IF dval.ok THEN Value("double", dval.val)
  ELSE IF Threw(str) THEN Exception
  ELSE IF str.ok THEN Value("string", str.val)
  ELSE None

LEMMA ResponseAfterId ==
  ASSUME NEW rid \in Int32, NEW data, Len(data) \in Nat, Holds(data, 0, RequestIdData(rid))
  PROVE  ParseResponse(data) = Result(rid, ValueAfterId(data))
<1> DEFINE p == ParseRequestId(data, 0)
<1>1. p = Parsed(rid, 7) /\ At(data, 1) = KeyId
  BY IdFound
<1>2. p.val = rid /\ p.idx = 7
  BY <1>1 DEF Parsed
<1>3. ParseCustomClassResponse(data) = None
  <2>1. ParseString(data, 1) = NotParsed(<<>>, 1)
    BY <1>1, FirstByte, Tags
  <2>2. ~ParseString(data, 1).ok /\ ~Threw(ParseString(data, 1))
    BY <2>1 DEF NotParsed, Threw
  <2> QED BY <2>2 DEF ParseCustomClassResponse
<1>4. ParseResponse(data) =
        LET bool == ParseBool(data, p.idx)
            ival == ParseInt(data, p.idx)
            dval == ParseDouble(data, p.idx)
            str  == ParseString(data, p.idx)
        IN
        Result(p.val,
          IF ParseCustomClassResponse(data) # None THEN ParseCustomClassResponse(data)
          ELSE IF bool.ok THEN Value("bool", bool.val)
          ELSE IF ival.ok THEN Value("int", ival.val)
          ELSE IF dval.ok THEN Value("double", dval.val)
          ELSE IF Threw(str) THEN Exception
          ELSE IF str.ok THEN Value("string", str.val)
          ELSE None)
  BY DEF ParseResponse
<1> HIDE DEF p
<1> QED BY <1>2, <1>3, <1>4 DEF ValueAfterId

\* What is answered is what the callback gets, in its type.
LEMMA AnswerUnderstood ==
  ASSUME NEW rid \in Int32, NEW v \in Answers
  PROVE  LET data == RequestIdData(rid) \o Serialize(v) IN
         /\ data \in Seq(Byte)
         /\ ParseResponse(data) = Result(rid, v)
<1> DEFINE q == Serialize(v)
           data == RequestIdData(rid) \o q
<1>1. q \in Seq(Byte)
  BY Values, ValueBytes DEF Answers
<1> HIDE DEF q
<1>2. /\ data \in Seq(Byte) /\ Len(data) \in Nat /\ 7 \in Nat
      /\ Holds(data, 0, RequestIdData(rid)) /\ Holds(data, 7, q)
  <2>1. 7 \in Nat
    BY SMT
  <2> QED BY <1>1, <2>1, BehindId
<1> HIDE DEF data
<1>3. ValueAfterId(data) = v
  <2>1. CASE v \in BoolVal
    <3>1. v = Value("bool", v.val) /\ v.val \in BOOLEAN /\ q = SerializeBool(v.val)
      BY <2>1, Values DEF q
    <3>2. ParseBool(data, 7) = Parsed(v.val, 7 + 1)
      BY <1>2, <3>1, BoolFound
    <3>3. ParseBool(data, 7).ok /\ ParseBool(data, 7).val = v.val
      BY <3>2 DEF Parsed
    <3> QED BY <3>1, <3>3 DEF ValueAfterId
  <2>2. CASE v \in IntVal
    <3>1. v = Value("int", v.val) /\ v.val \in Int32 /\ q = SerializeInt(v.val)
      BY <2>2, Values DEF q
    <3>2. ParseInt(data, 7) = Parsed(v.val, 7 + 5) /\ At(data, 7) = TagInt
      BY <1>2, <3>1, IntFound, ValueTag
    <3>3. ParseBool(data, 7) = NotParsed(FALSE, 7)
      BY <3>2, FirstByte, Tags
    <3>4. ~ParseBool(data, 7).ok /\ ParseInt(data, 7).ok /\ ParseInt(data, 7).val = v.val
      BY <3>2, <3>3 DEF Parsed, NotParsed
    <3> QED BY <3>1, <3>4 DEF ValueAfterId
  <2>3. CASE v \in StrVal
    <3>1. v = Value("string", v.val) /\ v.val \in Str /\ q = SerializeString(v.val)
      BY <2>3, Values DEF q
    <3>2. ParseString(data, 7) = Parsed(v.val, 7 + 6 + Len(v.val))
      BY <1>2, <3>1, StrLen, StringFound
    <3>3. At(data, 7) = TagString
      BY <1>2, <3>1, ValueTag
    <3>4. /\ ParseBool(data, 7) = NotParsed(FALSE, 7) /\ ParseInt(data, 7) = NotParsed(0, 7)
          /\ ParseDouble(data, 7) = NotParsed(<<>>, 7)
      BY <3>3, FirstByte, Tags
    <3>5. /\ ~ParseBool(data, 7).ok /\ ~ParseInt(data, 7).ok /\ ~ParseDouble(data, 7).ok
          /\ ParseString(data, 7).ok /\ ParseString(data, 7).val = v.val
          /\ ParseString(data, 7).idx = 7 + 6 + Len(v.val)
      BY <3>2, <3>4 DEF Parsed, NotParsed
    <3>6. ~Threw(ParseString(data, 7))
      <4>1. Len(v.val) \in Nat
        BY <3>1, StrLen
      <4>2. ~(7 + 6 + Len(v.val) < 0)
        BY ONLY <4>1, SMT
      <4> QED BY <3>5, <4>2 DEF Threw
    <3> QED BY <3>1, <3>5, <3>6 DEF ValueAfterId
  <2> QED BY <2>1, <2>2, <2>3 DEF Answers
<1>4. ParseResponse(data) = Result(rid, v)
  BY <1>2, <1>3, ResponseAfterId
<1> QED BY <1>2, <1>4 DEF data, q

\* A retrieved object is the one that was serialized (CustomClass.cpp 63-90).
LEMMA ObjectFound ==
  ASSUME NEW o \in Objects
  PROVE  /\ Deserialize(SerializeObject(o)).ival = o.ival
         /\ Deserialize(SerializeObject(o)).str = o.str
<1> DEFINE a == SerializeInt(o.ival)
           b == SerializeString(o.str)
           w == SerializeObject(o)
           ival == ParseInt(w, 0)
           str == ParseString(w, ival.idx)
<1>1. /\ o.ival \in Int32 /\ o.str \in Str
      /\ o.str \in Seq(Byte) /\ Len(o.str) \in Nat /\ Len(o.str) \in Int32
  BY MessagesAssumption, StrLen
<1>2. w = a \o b /\ a \in Seq(Byte) /\ Len(a) = 5 /\ b \in Seq(Byte)
  BY <1>1, ValueBytes DEF SerializeObject
<1>3. Holds(w, 0, a) /\ Holds(w, 5, b) /\ Len(w) \in Nat /\ 0 \in Nat /\ 5 \in Nat /\ 0 + 5 = 5
  <2> HIDE DEF a, b, w
  <2>1. w \in Seq(Byte) /\ Holds(w, 0, a) /\ Holds(w, Len(a), b)
    BY <1>2, HoldsParts
  <2>2. Len(w) \in Nat
    BY ONLY <2>1, LenProperties
  <2>3. 0 \in Nat /\ 5 \in Nat /\ 0 + 5 = 5
    BY SMT
  <2> QED BY <1>2, <2>1, <2>2, <2>3
<1> HIDE DEF w
<1>4. ival = Parsed(o.ival, 5)
  <2>1. ival = Parsed(o.ival, 0 + 5)
    BY <1>1, <1>3, IntFound
  <2> QED BY <1>3, <2>1
<1>5. ival.ok /\ ival.val = o.ival /\ ival.idx = 5
  <2> HIDE DEF ival
  <2> QED BY <1>4 DEF Parsed
<1>6. ParseString(w, 5) = Parsed(o.str, 5 + 6 + Len(o.str))
  BY <1>1, <1>3, StringFound
<1>7. str = Parsed(o.str, 5 + 6 + Len(o.str))
  BY <1>5, <1>6
<1>8. str.ok /\ str.val = o.str
  <2> HIDE DEF str
  <2> QED BY <1>7 DEF Parsed
<1>9. Deserialize(w) =
        IF ival.ok /\ str.ok THEN [ival |-> ival.val, str |-> str.val] ELSE [ival |-> 0, str |-> <<>>]
  BY DEF Deserialize
<1> HIDE DEF ival, str
<1>10. Deserialize(w).ival = o.ival /\ Deserialize(w).str = o.str
  BY <1>5, <1>8, <1>9
<1> QED BY <1>10 DEF w

-----------------------------------------------------------------------------
(* Responses that do not fit into the buffer. *)

\* A part of a sequence of bytes.
LEMMA SubSeqBytes ==
  ASSUME NEW w \in Seq(Byte), NEW m \in 1 .. Len(w) + 1, NEW n \in m - 1 .. Len(w)
  PROVE  /\ SubSeq(w, m, n) \in Seq(Byte)
         /\ Len(SubSeq(w, m, n)) = n - m + 1
         /\ \A i \in 1 .. n - m + 1 : SubSeq(w, m, n)[i] = w[m + i - 1]
<1>1. Len(w) \in Nat /\ \A i \in 1 .. Len(w) : w[i] \in Byte
  BY ONLY w \in Seq(Byte), LenProperties, ElementOfSeq
<1>2. m \in Int /\ n \in Int /\ (m <= n => n - m + 1 = n - m + 1) /\ (~(m <= n) => n - m + 1 = 0)
  BY SMT, <1>1
<1>3. \A i \in m .. n : w[i] \in Byte
  BY SMT, <1>1
<1>4. /\ SubSeq(w, m, n) \in Seq(Byte)
      /\ Len(SubSeq(w, m, n)) = IF m <= n THEN n - m + 1 ELSE 0
      /\ \A i \in 1 .. n - m + 1 : SubSeq(w, m, n)[i] = w[m + i - 1]
  <2> DEFINE B == Byte
  <2>1. \A i \in m .. n : w[i] \in B
    BY <1>3
  <2> HIDE DEF B
  <2>2. /\ SubSeq(w, m, n) \in Seq(B)
        /\ Len(SubSeq(w, m, n)) = IF m <= n THEN n - m + 1 ELSE 0
        /\ \A i \in 1 .. n - m + 1 : SubSeq(w, m, n)[i] = w[m + i - 1]
    BY ONLY <1>2, <2>1, SubSeqProperties
  <2> QED BY <2>2 DEF B
<1> QED BY <1>2, <1>4

\* What stands before the cut still stands there.
LEMMA HoldsCut ==
  ASSUME NEW data \in Seq(Byte), NEW m \in Nat, m <= Len(data), NEW n \in Nat,
         NEW w \in Seq(Byte), Holds(data, n, w), n + Len(w) <= m
  PROVE  Len(SubSeq(data, 1, m)) = m /\ Holds(SubSeq(data, 1, m), n, w)
<1> DEFINE cut == SubSeq(data, 1, m)
<1>1. Len(data) \in Nat /\ Len(w) \in Nat
  BY ONLY data \in Seq(Byte), w \in Seq(Byte), LenProperties
<1>2. /\ Len(cut) = m
      /\ \A i \in 1 .. m : cut[i] = data[i]
  <2>1. 1 \in 1 .. Len(data) + 1 /\ m \in 1 - 1 .. Len(data)
    BY SMT, <1>1
  <2>2. /\ Len(cut) = m - 1 + 1
        /\ \A i \in 1 .. m - 1 + 1 : cut[i] = data[1 + i - 1]
    BY <2>1, SubSeqBytes
  <2>3. /\ m - 1 + 1 = m
        /\ \A i \in 1 .. m : 1 + i - 1 = i
    BY SMT
  <2> HIDE DEF cut
  <2> QED BY <2>2, <2>3
<1> HIDE DEF cut
<1>3. ASSUME NEW k \in 1 .. Len(w) PROVE cut[n + k] = w[k]
  <2>1. n + k \in 1 .. m
    BY SMT, <1>1
  <2> QED BY <1>2, <2>1 DEF Holds
<1> QED BY <1>2, <1>3 DEF Holds, cut

\* Only a string can be too long, and 13 bytes come before its own.
LEMMA CutString ==
  ASSUME NEW rid \in Int32, NEW v \in Answers,
         kBufSize < Len(RequestIdData(rid) \o Serialize(v))
  PROVE  LET data == RequestIdData(rid) \o Serialize(v)
             head == <<TagString>> \o SerializeInt(Len(v.val))
         IN
         /\ v \in StrVal /\ v.val \in Seq(Byte) /\ Len(v.val) \in Nat /\ Len(v.val) \in Int32
         /\ data \in Seq(Byte) /\ Len(data) \in Nat /\ Len(data) = 13 + Len(v.val)
         /\ head \in Seq(Byte) /\ Len(head) = 6
         /\ Holds(data, 0, RequestIdData(rid)) /\ Holds(data, 7, head) /\ Holds(data, 13, v.val)
<1> DEFINE q == Serialize(v)
           data == RequestIdData(rid) \o q
           head == <<TagString>> \o SerializeInt(Len(v.val))
<1>1. q \in Seq(Byte)
  BY Values, ValueBytes DEF Answers
<1>2. /\ data \in Seq(Byte) /\ Len(data) \in Nat /\ Len(q) \in Nat /\ Len(data) = 7 + Len(q)
      /\ Holds(data, 0, RequestIdData(rid)) /\ Holds(data, 7, q) /\ kBufSize < Len(data)
  <2>1. kBufSize < Len(data)
    OBVIOUS
  <2> HIDE DEF q
  <2> QED BY <1>1, <2>1, BehindId
<1> HIDE DEF data
<1>3. Len(q) > 5
  <2>1. kBufSize \in Nat /\ kBufSize >= 13
    BY MessagesAssumption
  <2> HIDE DEF q
  <2> QED BY SMT, <1>2, <2>1
<1>4. v \in StrVal
  <2>1. CASE v \in BoolVal
    <3>1. Len(q) = 2
      BY <2>1, Values, ValueBytes
    <3> HIDE DEF q
    <3> QED BY SMT, <1>3, <3>1
  <2>2. CASE v \in IntVal
    <3>1. Len(q) = 5
      BY <2>2, Values, ValueBytes
    <3> HIDE DEF q
    <3> QED BY SMT, <1>3, <3>1
  <2> QED BY <2>1, <2>2 DEF Answers
<1>5. v.val \in Str /\ q = SerializeString(v.val)
  BY <1>4, Values
<1>6. v.val \in Seq(Byte) /\ Len(v.val) \in Nat /\ Len(v.val) \in Int32
  BY <1>5, StrLen
<1>7. head \in Seq(Byte) /\ Len(head) = 6 /\ Len(q) = 6 + Len(v.val)
  BY <1>5, <1>6, StringBytes
<1>8. Holds(data, 7, head \o v.val)
  BY <1>2, <1>5 DEF SerializeString
<1> HIDE DEF q, head
<1>9. Holds(data, 7, head) /\ Holds(data, 7 + Len(head), v.val)
  <2>1. 7 \in Nat
    BY SMT
  <2> QED BY <1>2, <1>6, <1>7, <1>8, <2>1, HoldsSplit
<1>10. 7 + Len(head) = 13 /\ Len(data) = 13 + Len(v.val)
  <2> DEFINE l == Len(v.val)
             d == Len(data)
             x == Len(q)
             h == Len(head)
  <2>1. l \in Nat /\ x = 6 + l /\ d = 7 + x /\ h = 6
    BY <1>2, <1>6, <1>7
  <2> HIDE DEF l, d, x, h
  <2>2. 7 + h = 13 /\ d = 13 + l
    BY ONLY <2>1, SMT
  <2> QED BY <2>2 DEF l, d, h
<1> QED BY <1>2, <1>4, <1>6, <1>7, <1>9, <1>10 DEF data, q, head

\* The first part has a length that is not there: it has no value
\* (DataDeserializer.cpp 66-70).
LEMMA CutRejected ==
  ASSUME NEW rid \in Int32, NEW v \in Answers,
         kBufSize < Len(RequestIdData(rid) \o Serialize(v))
  PROVE  ParseResponse(SubSeq(RequestIdData(rid) \o Serialize(v), 1, kBufSize)).value = None
<1> DEFINE data == RequestIdData(rid) \o Serialize(v)
           cut  == SubSeq(data, 1, kBufSize)
           s    == v.val
           t    == <<TagString>>
           i    == SerializeInt(Len(s))
           head == t \o i
<1>1. /\ s \in Seq(Byte) /\ Len(s) \in Nat /\ Len(s) \in Int32
      /\ data \in Seq(Byte) /\ Len(data) \in Nat /\ Len(data) = 13 + Len(s)
      /\ head \in Seq(Byte) /\ Len(head) = 6
      /\ Holds(data, 0, RequestIdData(rid)) /\ Holds(data, 7, head)
  BY CutString
<1>2. /\ t \in Seq(Byte) /\ Len(t) = 1 /\ i \in Seq(Byte)
      /\ RequestIdData(rid) \in Seq(Byte) /\ Len(RequestIdData(rid)) = 7
  BY <1>1, StringBytes, IdBytes, SMT
<1>3. kBufSize \in Nat /\ kBufSize >= 13 /\ kBufSize < Len(data)
  BY MessagesAssumption
<1> HIDE DEF data, s, head
<1>4. /\ Len(cut) = kBufSize /\ Len(cut) \in Nat
      /\ Holds(cut, 0, RequestIdData(rid)) /\ Holds(cut, 7, head)
  <2>1. /\ kBufSize <= Len(data) /\ 0 \in Nat /\ 7 \in Nat
        /\ 0 + Len(RequestIdData(rid)) <= kBufSize /\ 7 + Len(head) <= kBufSize
    BY SMT, <1>1, <1>2, <1>3
  <2> QED BY <1>1, <1>2, <1>3, <2>1, HoldsCut
<1> HIDE DEF cut
<1>5. Holds(cut, 7, t) /\ Holds(cut, 8, i)
  <2>1. 7 \in Nat /\ 7 + Len(t) = 8
    BY SMT, <1>2
  <2>2. Holds(cut, 7, t \o i)
    BY <1>4 DEF head
  <2> HIDE DEF t, i
  <2>3. Holds(cut, 7, t) /\ Holds(cut, 7 + Len(t), i)
    BY <1>2, <1>4, <2>1, <2>2, HoldsSplit
  <2> QED BY <2>1, <2>3
<1>6. At(cut, 7) = TagString
  <2>1. Holds(cut, 7, t \o i) /\ 7 \in Nat
    BY SMT, <1>4 DEF head
  <2> HIDE DEF i
  <2> QED BY <1>2, <1>4, <2>1, Tags, TagFound
<1>7. ParseInt(cut, 8) = Parsed(Len(s), 8 + 5) /\ 8 + 5 = 13 /\ 7 + 1 = 8
  <2>1. 8 \in Nat /\ 8 + 5 = 13 /\ 7 + 1 = 8
    BY SMT
  <2> QED BY <1>1, <1>4, <1>5, <2>1, IntFound
<1> DEFINE size == ParseInt(cut, 8)
<1>8. size.ok /\ size.idx = 13 /\ size.val = Len(s)
  <2> HIDE DEF size
  <2>1. size = Parsed(Len(s), 13)
    BY <1>7 DEF size
  <2> QED BY <2>1 DEF Parsed
<1>9. Len(cut) < 13 + Len(s)
  BY <1>1, <1>3, <1>4
<1>10. ParseString(cut, 7) = NotParsed(<<>>, 7)
  <2>1. ParseString(cut, 7) =
          IF At(cut, 7) # TagString \/ ~size.ok
               \/ size.val \notin -size.idx .. Len(cut) - size.idx
            THEN NotParsed(<<>>, 7)
          ELSE IF size.val < 0 THEN Thrown
          ELSE Parsed(Behind(cut, size.idx - 1, size.val), size.idx + size.val)
    BY <1>7 DEF ParseString
  <2>2. Len(s) \notin -13 .. Len(cut) - 13
    BY ONLY <1>1, <1>4, <1>9, SMT
  <2> HIDE DEF size
  <2> QED BY <1>8, <2>1, <2>2
<1>11. /\ ParseBool(cut, 7) = NotParsed(FALSE, 7) /\ ParseInt(cut, 7) = NotParsed(0, 7)
       /\ ParseDouble(cut, 7) = NotParsed(<<>>, 7)
  BY <1>6, FirstByte, Tags
<1>12. /\ ~ParseBool(cut, 7).ok /\ ~ParseInt(cut, 7).ok /\ ~ParseDouble(cut, 7).ok
       /\ ~ParseString(cut, 7).ok /\ ~Threw(ParseString(cut, 7))
  BY <1>10, <1>11 DEF NotParsed, Threw
<1>13. ValueAfterId(cut) = None
  BY <1>12 DEF ValueAfterId
<1>14. ParseResponse(cut).value = None
  BY <1>4, <1>13, ResponseAfterId DEF Result
<1> QED BY <1>14 DEF cut, data

\* Where a string is parsed, or throws, stand its tag and that of its length.
LEMMA StringTried ==
  ASSUME NEW data, Len(data) \in Nat, NEW n \in Nat,
         ParseString(data, n).ok \/ Threw(ParseString(data, n))
  PROVE  /\ At(data, n) = TagString /\ At(data, n + 1) = TagInt
         /\ Len(data) >= n + 5
<1> DEFINE size == ParseInt(data, n + 1)
<1>1. At(data, n) = TagString /\ size.ok
  <2>1. ~(At(data, n) = TagString /\ size.ok) => ParseString(data, n) = NotParsed(<<>>, n)
    BY Zenon DEF ParseString
  <2>2. ParseString(data, n) = NotParsed(<<>>, n) =>
          ~ParseString(data, n).ok /\ ParseString(data, n).idx = n
    BY DEF NotParsed
  <2>3. ~(n < 0)
    BY SMT
  <2> HIDE DEF size
  <2> QED BY <2>1, <2>2, <2>3 DEF Threw
<1>2. At(data, n + 1) = TagInt /\ ~(Len(data) < (n + 1) + 4)
  <2>1. ~(At(data, n + 1) = TagInt /\ ~(Len(data) < (n + 1) + 4)) => size = NotParsed(0, n + 1)
    BY Zenon DEF ParseInt
  <2>2. size = NotParsed(0, n + 1) => ~size.ok
    <3> HIDE DEF size
    <3> QED BY DEF NotParsed
  <2> HIDE DEF size
  <2> QED BY <1>1, <2>1, <2>2
<1>3. Len(data) >= n + 5
  BY ONLY <1>2, Len(data) \in Nat, n \in Nat, SMT
<1> QED BY <1>1, <1>2, <1>3

\* How a part of a response begins.
Begins(part, a, b) == Len(part) >= 2 /\ At(part, 0) = a /\ At(part, 1) = b

\* A class in a response begins with "#s".
LEMMA ClassTaken ==
  ASSUME NEW part, Len(part) \in Nat, ParseCustomClassResponse(part) # None
  PROVE  Begins(part, Hash, TagString)
<1> DEFINE name == ParseString(part, 1)
<1>1. At(part, 0) = Hash /\ (name.ok \/ Threw(name))
  <2>1. At(part, 0) # Hash => ParseCustomClassResponse(part) = None
    BY DEF ParseCustomClassResponse
  <2>2. ~name.ok /\ ~Threw(name) => ParseCustomClassResponse(part) = None
    BY DEF ParseCustomClassResponse
  <2> QED BY <2>1, <2>2
<1> HIDE DEF name
<1>2. 1 \in Nat
  BY SMT
<1>3. At(part, 1) = TagString /\ Len(part) >= 1 + 5
  BY <1>1, <1>2, StringTried DEF name
<1>4. Len(part) >= 2
  BY ONLY <1>3, Len(part) \in Nat, SMT
<1> QED BY <1>1, <1>3, <1>4 DEF Begins

\* What a part that is parsed as a response begins with, if anything comes of it.
LEMMA PartTaken ==
  ASSUME NEW part, Len(part) \in Nat
  PROVE  LET r == ParseResponse(part) IN
         /\ r.id \in Ids => Begins(part, Hash, KeyId)
         /\ r.value.type = "instance" => Begins(part, Hash, TagString)
         /\ r.value.type = "exception" => \/ Begins(part, Hash, KeyId)
                                          \/ Begins(part, Hash, TagString)
                                          \/ Begins(part, TagString, TagInt)
<1> DEFINE p == ParseRequestId(part, 0)
           c == ParseCustomClassResponse(part)
           r == ParseResponse(part)
           str == ParseString(part, p.idx)
<1>1. \/ Begins(part, Hash, KeyId)
      \/ p.val = -1 /\ p.idx = 0
  <2>1. IsKeyword(part, 0, KeyId) => Len(part) >= 0 + 2 /\ At(part, 0) = Hash /\ At(part, 0 + 1) = KeyId
    BY Zenon DEF IsKeyword
  <2>2. 0 + 2 = 2 /\ 0 + 1 = 1
    BY SMT
  <2>3. ~IsKeyword(part, 0, KeyId) => p = NotParsed(-1, 0)
    BY Zenon DEF ParseRequestId
  <2>4. p = NotParsed(-1, 0) => p.val = -1 /\ p.idx = 0
    <3> HIDE DEF p
    <3> QED BY DEF NotParsed
  <2> HIDE DEF p
  <2> QED BY <2>1, <2>2, <2>3, <2>4 DEF Begins
<1>2. c # None => Begins(part, Hash, TagString)
  BY ClassTaken
<1>3. r = LET bool == ParseBool(part, p.idx)
              ival == ParseInt(part, p.idx)
              dval == ParseDouble(part, p.idx)
          IN
          Result(p.val,
            IF c # None THEN c
            ELSE IF bool.ok THEN Value("bool", bool.val)
            ELSE IF ival.ok THEN Value("int", ival.val)
            ELSE IF dval.ok THEN Value("double", dval.val)
            ELSE IF Threw(str) THEN Exception
            ELSE IF str.ok THEN Value("string", str.val)
            ELSE None)
  BY DEF ParseResponse
<1> HIDE DEF c, r, str
<1>4. r.id = p.val
  BY <1>3 DEF Result
<1>5. ~(-1 \in Ids)
  <2>1. ~(-1 >= 0)
    BY SMT
  <2> QED BY <2>1, MessagesAssumption
<1>6. /\ r.value.type = "instance" => c # None
      /\ r.value.type = "exception" => c # None \/ Threw(str)
  <2> DEFINE bval == ParseBool(part, p.idx).val
             ival == ParseInt(part, p.idx).val
             dval == ParseDouble(part, p.idx).val
             sval == str.val
  <2>1. \/ r.value = Value("bool", bval)
        \/ r.value = Value("int", ival)
        \/ r.value = Value("double", dval)
        \/ r.value = Value("string", sval)
        \/ r.value = None
        \/ c # None
        \/ Threw(str) /\ r.value = Exception
    BY <1>3 DEF Result
  <2> HIDE DEF bval, ival, dval, sval
  <2>2. /\ Value("bool", bval).type = "bool" /\ Value("int", ival).type = "int"
        /\ Value("double", dval).type = "double" /\ Value("string", sval).type = "string"
        /\ None.type = "none" /\ Exception.type = "exception"
    BY DEF Value, None, Exception
  <2> QED BY <2>1, <2>2
<1>7. Threw(str) => Begins(part, Hash, KeyId) \/ Begins(part, TagString, TagInt)
  <2> SUFFICES ASSUME Threw(str), p.idx = 0 PROVE Begins(part, TagString, TagInt)
    BY <1>1
  <2>1. 0 \in Nat /\ 0 + 1 = 1 /\ 0 + 5 = 5
    BY SMT
  <2>2. Threw(ParseString(part, 0))
    BY DEF str
  <2>3. At(part, 0) = TagString /\ At(part, 0 + 1) = TagInt /\ Len(part) >= 0 + 5
    BY <2>1, <2>2, StringTried
  <2>4. Len(part) >= 2
    BY ONLY <2>3, Len(part) \in Nat, SMT
  <2> QED BY <2>1, <2>3, <2>4 DEF Begins
<1>8. r.id \in Ids => Begins(part, Hash, KeyId)
  BY <1>1, <1>4, <1>5
<1> HIDE DEF p
<1>9. /\ r.value.type = "instance" => Begins(part, Hash, TagString)
      /\ r.value.type = "exception" => \/ Begins(part, Hash, KeyId)
                                       \/ Begins(part, Hash, TagString)
                                       \/ Begins(part, TagString, TagInt)
  BY <1>2, <1>6, <1>7
<1> QED BY <1>8, <1>9 DEF r

\* The f bytes before a part take the string up to its byte f - 13.
LEMMA Beginning ==
  ASSUME NEW rid \in Int32, NEW v \in Answers,
         kBufSize < Len(RequestIdData(rid) \o Serialize(v)),
         NEW f \in Nat, f >= 13, NEW part, Len(part) \in Nat,
         LET data == RequestIdData(rid) \o Serialize(v) IN
         /\ f + Len(part) <= Len(data)
         /\ \A i \in 1 .. Len(part) : part[i] = data[f + i],
         NEW a, NEW b, Begins(part, a, b)
  PROVE  SubSeq(v.val, f - 12, f - 11) = <<a, b>>
<1> DEFINE data == RequestIdData(rid) \o Serialize(v)
           d    == Len(data)
           s    == v.val
           l    == Len(s)
           m    == Len(part)
<1>1. /\ s \in Seq(Byte) /\ l \in Nat
      /\ data \in Seq(Byte) /\ d \in Nat /\ d = 13 + l /\ Holds(data, 13, s)
  BY CutString
<1>2. f + m <= d /\ m \in Nat /\ \A i \in 1 .. m : part[i] = data[f + i]
  OBVIOUS
<1>3. m >= 2 /\ At(part, 0) = a /\ At(part, 1) = b
  BY DEF Begins
<1>4. /\ 0 < m /\ 1 < m /\ 0 + 1 = 1 /\ 1 + 1 = 2 /\ 1 \in 1 .. m /\ 2 \in 1 .. m
      /\ f - 12 \in 1 .. l /\ f - 11 \in 1 .. l
      /\ 13 + (f - 12) = f + 1 /\ 13 + (f - 11) = f + 2
  <2> HIDE DEF d, l, m
  <2> QED BY ONLY <1>1, <1>2, <1>3, f \in Nat, f >= 13, SMT
<1>5. part[1] = a /\ part[2] = b
  BY <1>3, <1>4 DEF At
<1> HIDE DEF data, s, d, m
<1>6. data[f + 1] = a /\ data[f + 2] = b
  BY <1>2, <1>4, <1>5
<1>7. s[f - 12] = a /\ s[f - 11] = b
  <2>1. \A n \in 1 .. l : data[13 + n] = s[n]
    BY <1>1 DEF Holds, l
  <2> QED BY <1>4, <1>6, <2>1
<1> DEFINE two == SubSeq(s, f - 12, f - 11)
<1>8. /\ f - 12 \in 1 .. Len(s) + 1 /\ f - 11 \in (f - 12) - 1 .. Len(s)
      /\ (f - 11) - (f - 12) + 1 = 2
      /\ 1 \in 1 .. 2 /\ 2 \in 1 .. 2
      /\ (f - 12) + 1 - 1 = f - 12 /\ (f - 12) + 2 - 1 = f - 11
  <2>1. Len(s) = l
    BY DEF l
  <2> HIDE DEF l
  <2> QED BY ONLY <1>1, <1>4, <2>1, f \in Nat, SMT
<1>9. /\ two \in Seq(Byte)
      /\ Len(two) = (f - 11) - (f - 12) + 1
      /\ \A n \in 1 .. (f - 11) - (f - 12) + 1 : two[n] = s[(f - 12) + n - 1]
  BY <1>1, <1>8, SubSeqBytes
<1> HIDE DEF two
<1>10. two \in Seq(Byte) /\ Len(two) = 2 /\ two[1] = s[f - 12] /\ two[2] = s[f - 11]
  BY <1>8, <1>9
<1>11. two = <<two[1], two[2]>>
  BY ONLY <1>10, SMT
<1> QED BY <1>7, <1>10, <1>11 DEF two, s

\* What may come of a part, given how it begins.
Inert(r, begin) ==
  /\ r.id \in Ids => begin = Keyword(KeyId)
  /\ r.value.type = "instance" => begin = Keyword(TagString)
  /\ r.value.type = "exception" =>
       begin \in {Keyword(KeyId), Keyword(TagString), <<TagString, TagInt>>}

LEMMA RestInert ==
  ASSUME NEW rid \in Int32, NEW v \in Answers,
         kBufSize < Len(RequestIdData(rid) \o Serialize(v)),
         NEW f \in Nat, f >= 13, NEW part, Len(part) \in Nat,
         LET data == RequestIdData(rid) \o Serialize(v) IN
         /\ f + Len(part) <= Len(data)
         /\ \A i \in 1 .. Len(part) : part[i] = data[f + i]
  PROVE  Inert(ParseResponse(part), SubSeq(v.val, f - 12, f - 11))
<1> DEFINE r == ParseResponse(part)
           begin == SubSeq(v.val, f - 12, f - 11)
<1>1. ASSUME NEW a, NEW b, Begins(part, a, b) PROVE begin = <<a, b>>
  BY <1>1, Beginning
<1>2. /\ r.id \in Ids => Begins(part, Hash, KeyId)
      /\ r.value.type = "instance" => Begins(part, Hash, TagString)
      /\ r.value.type = "exception" => \/ Begins(part, Hash, KeyId)
                                       \/ Begins(part, Hash, TagString)
                                       \/ Begins(part, TagString, TagInt)
  BY PartTaken
<1> HIDE DEF r, begin
<1>3. Inert(r, begin)
  BY <1>1, <1>2 DEF Inert, Keyword
<1> QED BY <1>3 DEF r, begin

\* A part of the rest is a part of the whole.
LEMMA PartOfRest ==
  ASSUME NEW w \in Seq(Byte), NEW f \in Nat, f < Len(w), NEW n \in Nat,
         n <= Len(w) - f
  PROVE  LET rest == SubSeq(w, f + 1, Len(w))
             part == SubSeq(rest, 1, n)
         IN
         /\ rest \in Seq(Byte) /\ Len(rest) = Len(w) - f
         /\ Len(part) = n /\ \A i \in 1 .. n : part[i] = w[f + i]
         /\ SubSeq(rest, n + 1, Len(rest)) = SubSeq(w, f + n + 1, Len(w))
         /\ SubSeq(rest, n + 1, Len(rest)) \in Seq(Byte)
<1> DEFINE l == Len(w)
           rest == SubSeq(w, f + 1, l)
           part == SubSeq(rest, 1, n)
           tail == SubSeq(rest, n + 1, Len(rest))
           end  == SubSeq(w, f + n + 1, l)
<1>1. l \in Nat /\ f < l /\ n <= l - f
  BY LenProperties
<1>2. /\ f + 1 \in 1 .. l + 1 /\ l \in (f + 1) - 1 .. l /\ l - (f + 1) + 1 = l - f
      /\ f + n + 1 \in 1 .. l + 1 /\ l \in (f + n + 1) - 1 .. l /\ l - (f + n + 1) + 1 = l - f - n
      /\ \A i \in 1 .. l - f : (f + 1) + i - 1 = f + i
      /\ l - f \in Nat /\ l - f - n \in Nat
  <2> HIDE DEF l
  <2> QED BY ONLY <1>1, f \in Nat, n \in Nat, SMT
<1>3. /\ rest \in Seq(Byte) /\ Len(rest) = l - f
      /\ \A i \in 1 .. l - f : rest[i] = w[f + i]
  <2>1. /\ rest \in Seq(Byte) /\ Len(rest) = l - (f + 1) + 1
        /\ \A i \in 1 .. l - (f + 1) + 1 : rest[i] = w[(f + 1) + i - 1]
    BY <1>2, SubSeqBytes
  <2> HIDE DEF rest, l
  <2> QED BY <1>2, <2>1
<1>4. /\ end \in Seq(Byte) /\ Len(end) = l - f - n
      /\ \A i \in 1 .. l - f - n : end[i] = w[(f + n + 1) + i - 1]
  <2>1. /\ end \in Seq(Byte) /\ Len(end) = l - (f + n + 1) + 1
        /\ \A i \in 1 .. l - (f + n + 1) + 1 : end[i] = w[(f + n + 1) + i - 1]
    BY <1>2, SubSeqBytes
  <2> HIDE DEF end, l
  <2> QED BY <1>2, <2>1
<1> HIDE DEF rest, end, l
<1>5. /\ 1 \in 1 .. Len(rest) + 1 /\ n \in 1 - 1 .. Len(rest) /\ n - 1 + 1 = n
      /\ \A i \in 1 .. n : 1 + i - 1 = i /\ i \in 1 .. l - f
      /\ n + 1 \in 1 .. Len(rest) + 1 /\ Len(rest) \in (n + 1) - 1 .. Len(rest)
      /\ Len(rest) - (n + 1) + 1 = l - f - n
      /\ \A i \in 1 .. l - f - n : /\ (n + 1) + i - 1 \in 1 .. l - f
                                   /\ f + ((n + 1) + i - 1) = (f + n + 1) + i - 1
  BY ONLY <1>1, <1>3, f \in Nat, n \in Nat, SMT
<1>6. Len(part) = n /\ \A i \in 1 .. n : part[i] = w[f + i]
  <2>1. Len(part) = n - 1 + 1 /\ \A i \in 1 .. n - 1 + 1 : part[i] = rest[1 + i - 1]
    BY <1>3, <1>5, SubSeqBytes
  <2> HIDE DEF part
  <2> QED BY <1>3, <1>5, <2>1
<1>7. /\ tail \in Seq(Byte) /\ Len(tail) = l - f - n
      /\ \A i \in 1 .. l - f - n : tail[i] = w[(f + n + 1) + i - 1]
  <2>1. /\ tail \in Seq(Byte) /\ Len(tail) = Len(rest) - (n + 1) + 1
        /\ \A i \in 1 .. Len(rest) - (n + 1) + 1 : tail[i] = rest[(n + 1) + i - 1]
    BY <1>3, <1>5, SubSeqBytes
  <2> HIDE DEF tail
  <2> QED BY <1>3, <1>5, <2>1
<1> HIDE DEF part, tail
<1>8. tail = end
  <2>1. \A q \in Seq(Byte) : q = [i \in 1 .. Len(q) |-> q[i]]
    BY ONLY LenProperties
  <2>2. [i \in 1 .. Len(tail) |-> tail[i]] = [i \in 1 .. Len(end) |-> end[i]]
    BY <1>4, <1>7
  <2> QED BY <1>4, <1>7, <2>1, <2>2
<1> QED BY <1>3, <1>6, <1>7, <1>8 DEF rest, part, tail, end, l

-----------------------------------------------------------------------------
(* The invariant. *)

Sent   == RequestIdData(id) \o RequestData(input)
Answer == RequestIdData(id) \o Serialize(Response(input, object))

\* The bytes of the wire and what the reader has made of them, wherever they are.
Progress ==
  /\ at = "server" => wire = Sent
  /\ at = "serve" => got = [id |-> id, command |-> input]
  /\ at \in {"reply", "cut"} => Response(input, object) # None
  /\ at = "reply" => wire = Answer
  /\ at = "read" => got = Result(id, Response(input, object))
  /\ at = "cut" => /\ from + kBufSize < Len(Answer)
                   /\ wire = SubSeq(Answer, from + kBufSize + 1, Len(Answer))
  /\ CutResponsesInert

IInv == TypeOK /\ Progress

\* What the assumption says of the request, the id and the object at hand.
LEMMA AtHand ==
  ASSUME TypeOK
  PROVE  /\ IsRequest(input) /\ id \in Int32 /\ id \in Ids
         /\ object \in Objects
         /\ wire \in Seq(Byte)
BY MessagesAssumption DEF TypeOK

\* The request in bytes, and what the server reads in them.
LEMMA SentUnderstood ==
  ASSUME TypeOK
  PROVE  Sent \in Seq(Byte) /\ ParseRequest(Sent) = [id |-> id, command |-> input]
<1>1. IsRequest(input) /\ id \in Int32
  BY AtHand
<1> QED BY <1>1, PlainUnderstood, ClassUnderstood DEF Sent

\* The response in bytes, and what the client reads in them.
LEMMA AnswerRead ==
  ASSUME TypeOK, Response(input, object) # None
  PROVE  /\ Response(input, object) \in Answers
         /\ Answer \in Seq(Byte)
         /\ ParseResponse(Answer) = Result(id, Response(input, object))
<1>1. IsRequest(input) /\ id \in Int32 /\ object \in Objects
  BY AtHand
<1>2. Response(input, object) \in Answers
  BY <1>1, ResponseValue
<1> QED BY <1>1, <1>2, AnswerUnderstood DEF Answer

\* A part of what is in the pipe is bytes.
LEMMA PartBytes ==
  ASSUME NEW w \in Seq(Byte), NEW m \in 0 .. Len(w)
  PROVE  /\ SubSeq(w, 1, Len(w)) = w
         /\ SubSeq(w, m + 1, Len(w)) \in Seq(Byte)
<1>1. Len(w) \in Nat
  BY ONLY w \in Seq(Byte), LenProperties
<1>2. m + 1 \in 1 .. Len(w) + 1 /\ Len(w) \in (m + 1) - 1 .. Len(w)
  BY SMT, <1>1
<1>3. SubSeq(w, m + 1, Len(w)) \in Seq(Byte)
  BY <1>2, SubSeqBytes
<1> QED BY <1>3, SubSeqFull

\* The request is written.
LEMMA InitInvariant == Init => IInv
<1> SUFFICES ASSUME Init PROVE IInv
  OBVIOUS
<1>1. <<>> \in Seq(Byte)
  BY SMT
<1>2. TypeOK
  <2>1. 0 \in Nat
    BY SMT
  <2> QED BY <1>1, <2>1 DEF Init, TypeOK
<1>3. Progress
  BY DEF Init, Progress, CutResponsesInert
<1> QED BY <1>2, <1>3 DEF IInv

\* Nobody changes what the messages are about.
Frame == UNCHANGED <<input, id, object, garbage>>

LEMMA FrameKept ==
  ASSUME Frame
  PROVE  Sent' = Sent /\ Answer' = Answer /\ Response(input, object)' = Response(input, object)
BY DEF Frame, Sent, Answer, RequestIdData, Keyword

\* The types, given what happens to the wire.
LEMMA TypesKept ==
  ASSUME TypeOK, Frame, wire' \in Seq(Byte), from' \in Nat,
         at' \in {"server", "serve", "unanswered", "reply", "read", "cut", "rest", "ended"}
  PROVE  TypeOK'
BY DEF TypeOK, Frame, Byte

LEMMA WriteRequestInvariant == IInv /\ WriteRequest => IInv'
<1> SUFFICES ASSUME IInv, WriteRequest PROVE IInv'
  OBVIOUS
<1>1. /\ TypeOK /\ Frame /\ wire' = Sent /\ at' = "server" /\ Sent' = Sent
      /\ from' = from /\ from \in Nat
  <2>1. /\ TypeOK /\ Frame /\ wire' = Sent /\ at' = "server"
        /\ from' = from /\ from \in Nat
    BY DEF IInv, TypeOK, WriteRequest, Frame, Sent
  <2> QED BY <2>1, FrameKept
<1>2. TypeOK'
  <2>1. Sent \in Seq(Byte)
    BY <1>1, SentUnderstood
  <2> QED BY <1>1, <2>1, TypesKept
<1>3. Progress'
  BY <1>1 DEF Progress, CutResponsesInert
<1> QED BY <1>2, <1>3 DEF IInv

LEMMA ReadRequestInvariant == IInv /\ ReadRequest => IInv'
<1> SUFFICES ASSUME IInv, ReadRequest PROVE IInv'
  OBVIOUS
<1>1. /\ TypeOK /\ Frame /\ got' = ParseRequest(wire) /\ wire' = <<>> /\ at' = "serve"
      /\ wire = Sent /\ from' = from /\ from \in Nat
  BY DEF IInv, TypeOK, Progress, ReadRequest, Frame
<1>2. TypeOK'
  <2>1. <<>> \in Seq(Byte)
    BY SMT
  <2> QED BY <1>1, <2>1, TypesKept
<1>3. got' = [id |-> id, command |-> input]
  BY <1>1, SentUnderstood
<1>4. Progress'
  BY <1>1, <1>3 DEF Progress, CutResponsesInert, Frame
<1> QED BY <1>2, <1>4 DEF IInv

LEMMA WriteResponseInvariant == IInv /\ WriteResponse => IInv'
<1> SUFFICES ASSUME IInv, WriteResponse PROVE IInv'
  OBVIOUS
<1> DEFINE value == Response(input, object)
<1>1. /\ TypeOK /\ Frame /\ got' = got /\ got.command = input /\ got.id = id
      /\ from' = from /\ from \in Nat
  BY DEF IInv, TypeOK, Progress, WriteResponse, Frame
<1>2. IF value = None
        THEN at' = "unanswered" /\ wire' = wire
        ELSE at' = "reply" /\ wire' = Answer
  BY <1>1 DEF WriteResponse, Answer
<1>3. Answer' = Answer /\ value' = value
  BY <1>1, FrameKept
<1>4. CASE value = None
  <2>1. TypeOK'
    <3>1. wire \in Seq(Byte)
      BY <1>1, AtHand
    <3> QED BY <1>1, <1>2, <1>4, <3>1, TypesKept
  <2>2. Progress'
    <3>1. at' = "unanswered"
      BY <1>2, <1>4
    <3> QED BY <3>1 DEF Progress, CutResponsesInert
  <2> QED BY <2>1, <2>2 DEF IInv
<1>5. CASE value # None
  <2>1. TypeOK'
    <3>1. Answer \in Seq(Byte)
      BY <1>1, <1>5, AnswerRead
    <3> QED BY <1>1, <1>2, <1>5, <3>1, TypesKept
  <2>2. Progress'
    <3>1. at' = "reply" /\ wire' = Answer' /\ value' # None
      BY <1>2, <1>3, <1>5
    <3> QED BY <3>1 DEF Progress, CutResponsesInert
  <2> QED BY <2>1, <2>2 DEF IInv
<1> QED BY <1>4, <1>5

\* What is answered is no exception.
LEMMA NoException ==
  /\ None # Exception
  /\ \A v \in Answers : v # Exception
<1>1. \A v \in Answers : v.type \in {"bool", "int", "string"}
  BY DEF Answers, BoolVal, IntVal, StrVal
<1>2. Exception.type = "exception" /\ None.type = "none"
  BY DEF Exception, None, Value
<1> QED BY <1>1, <1>2

LEMMA ReadResponseInvariant == IInv /\ ReadResponse => IInv'
<1> SUFFICES ASSUME IInv, ReadResponse PROVE IInv'
  OBVIOUS
<1> DEFINE value == Response(input, object)
           n == IF Len(wire) <= kBufSize THEN Len(wire) ELSE kBufSize
<1>1. /\ TypeOK /\ Frame /\ wire = Answer /\ value # None /\ from' = 0
      /\ got' = ParseResponse(SubSeq(wire, 1, n))
      /\ wire' = SubSeq(wire, n + 1, Len(wire))
      /\ at' = IF got'.value = Exception THEN "ended"
               ELSE IF Len(wire) <= kBufSize THEN "read"
               ELSE "cut"
  BY DEF IInv, Progress, ReadResponse, ReadPart, Frame
<1>2. /\ value \in Answers /\ Answer \in Seq(Byte) /\ ParseResponse(Answer) = Result(id, value)
  BY <1>1, AnswerRead
<1>3. Answer' = Answer /\ value' = value /\ id' = id
  BY <1>1, FrameKept DEF Frame
<1>4. Len(wire) \in Nat /\ kBufSize \in Nat /\ 0 \in Nat /\ 0 + kBufSize = kBufSize
  <2>1. Len(wire) \in Nat
    BY ONLY <1>1, <1>2, LenProperties
  <2>2. kBufSize \in Nat
    BY MessagesAssumption
  <2> QED BY SMT, <2>1, <2>2
<1>5. CASE Len(wire) <= kBufSize
  <2>1. /\ got' = ParseResponse(SubSeq(wire, 1, Len(wire)))
        /\ wire' = SubSeq(wire, Len(wire) + 1, Len(wire))
    BY <1>1, <1>5
  <2>2. SubSeq(wire, 1, Len(wire)) = wire /\ wire' \in Seq(Byte)
    <3>1. Len(wire) \in 0 .. Len(wire)
      BY SMT, <1>4
    <3> QED BY <1>1, <1>2, <2>1, <3>1, PartBytes
  <2>3. got' = Result(id, value)
    BY <1>1, <1>2, <2>1, <2>2
  <2>4. at' = "read"
    <3>1. got'.value = value
      BY <2>3 DEF Result
    <3> QED BY <1>1, <1>2, <1>5, <3>1, NoException
  <2>5. TypeOK'
    BY <1>1, <1>4, <2>2, <2>4, TypesKept
  <2>6. Progress'
    BY <1>3, <2>3, <2>4 DEF Progress, CutResponsesInert
  <2> QED BY <2>5, <2>6 DEF IInv
<1>6. CASE ~(Len(wire) <= kBufSize)
  <2>1. /\ got' = ParseResponse(SubSeq(wire, 1, kBufSize))
        /\ wire' = SubSeq(wire, kBufSize + 1, Len(wire))
    BY <1>1, <1>6
  <2>2. kBufSize < Len(Answer) /\ kBufSize \in 0 .. Len(Answer)
    BY SMT, <1>1, <1>4, <1>6
  <2>3. wire' \in Seq(Byte)
    BY <1>1, <1>2, <2>1, <2>2, PartBytes
  <2>4. got'.value = None
    <3>1. id \in Int32
      BY <1>1, AtHand
    <3> QED BY <1>1, <1>2, <2>1, <2>2, <3>1, CutRejected DEF Answer
  <2>5. at' = "cut"
    BY <1>1, <1>6, <2>4, NoException
  <2>6. TypeOK'
    BY <1>1, <1>4, <2>3, <2>5, TypesKept
  <2>7. Progress'
    <3>1. CutResponsesInert'
      BY <1>1, <2>4 DEF CutResponsesInert
    <3> QED BY <1>1, <1>3, <1>4, <2>1, <2>2, <2>5, <3>1 DEF Progress
  <2> QED BY <2>6, <2>7 DEF IInv
<1> QED BY <1>5, <1>6

LEMMA ReadRestInvariant == IInv /\ ReadRest => IInv'
<1> SUFFICES ASSUME IInv, ReadRest PROVE IInv'
  OBVIOUS
<1> DEFINE value == Response(input, object)
           n == IF Len(wire) <= kBufSize THEN Len(wire) ELSE kBufSize
           f == from + kBufSize
           part == SubSeq(wire, 1, n)
<1>1. /\ TypeOK /\ Frame /\ value # None /\ f < Len(Answer) /\ from' = f
      /\ wire = SubSeq(Answer, f + 1, Len(Answer))
      /\ got' = ParseResponse(part)
      /\ wire' = SubSeq(wire, n + 1, Len(wire))
      /\ at' = IF got'.value = Exception THEN "ended"
               ELSE IF Len(wire) <= kBufSize THEN "rest"
               ELSE "cut"
  BY DEF IInv, Progress, ReadRest, ReadPart, Frame
<1>2. /\ wire \in Seq(Byte) /\ id \in Int32 /\ value \in Answers /\ Answer \in Seq(Byte)
      /\ Len(wire) \in Nat /\ Len(Answer) \in Nat
      /\ from \in Nat /\ kBufSize \in Nat /\ kBufSize >= 13
  <2>1. wire \in Seq(Byte) /\ id \in Int32 /\ value \in Answers /\ Answer \in Seq(Byte)
    BY <1>1, AtHand, AnswerRead
  <2>2. Len(wire) \in Nat /\ Len(Answer) \in Nat
    BY ONLY <2>1, LenProperties
  <2> QED BY <1>1, <2>1, <2>2, MessagesAssumption DEF TypeOK
<1>3. /\ f \in Nat /\ f >= 13 /\ f # 0 /\ n \in Nat /\ n <= Len(wire)
      /\ kBufSize < Len(Answer)
      /\ ~(Len(wire) <= kBufSize) => n = kBufSize /\ kBufSize < Len(wire)
  BY ONLY <1>1, <1>2, SMT
<1>4. Len(wire) = Len(Answer) - f
  <2>1. 0 \in Nat /\ 0 <= Len(Answer) - f
    BY ONLY <1>1, <1>2, <1>3, SMT
  <2> HIDE DEF f
  <2>2. Len(SubSeq(Answer, f + 1, Len(Answer))) = Len(Answer) - f
    BY <1>1, <1>2, <1>3, <2>1, PartOfRest
  <2> QED BY <1>1, <2>2
<1>5. /\ Len(part) = n /\ \A i \in 1 .. n : part[i] = Answer[f + i]
      /\ wire' = SubSeq(Answer, f + n + 1, Len(Answer))
      /\ wire' \in Seq(Byte)
  <2>1. n <= Len(Answer) - f
    BY <1>3, <1>4
  <2>2. LET rest == SubSeq(Answer, f + 1, Len(Answer)) IN
        /\ Len(SubSeq(rest, 1, n)) = n
        /\ \A i \in 1 .. n : SubSeq(rest, 1, n)[i] = Answer[f + i]
        /\ SubSeq(rest, n + 1, Len(rest)) = SubSeq(Answer, f + n + 1, Len(Answer))
        /\ SubSeq(rest, n + 1, Len(rest)) \in Seq(Byte)
    <3> HIDE DEF f, n
    <3> QED BY <1>1, <1>2, <1>3, <2>1, PartOfRest
  <2> HIDE DEF f, n
  <2> QED BY <1>1, <2>2
<1>6. TypeOK'
  <2>1. at' \in {"cut", "rest", "ended"}
    BY <1>1
  <2>2. from' \in Nat
    BY <1>1, <1>3
  <2> QED BY <1>1, <1>5, <2>1, <2>2, TypesKept
<1>7. Inert(got', SubSeq(value.val, f - 12, f - 11))
  <2> HIDE DEF f, part, n
  <2>1. Len(part) = n
    BY <1>5
  <2>2. f + Len(part) <= Len(Answer) /\ Len(part) \in Nat
    BY ONLY <1>2, <1>3, <1>4, <2>1, SMT
  <2>3. Inert(ParseResponse(part), SubSeq(value.val, f - 12, f - 11))
    BY <1>2, <1>3, <1>5, <2>2, RestInert DEF Answer
  <2> QED BY <1>1, <2>3
<1>8. Answer' = Answer /\ value' = value /\ Ids' = Ids
  BY <1>1, FrameKept
<1>9. CutResponsesInert'
  <2> HIDE DEF f
  <2> QED BY <1>1, <1>3, <1>7, <1>8 DEF CutResponsesInert, Inert
<1>10. at' = "cut" => /\ from' + kBufSize < Len(Answer)
                      /\ wire' = SubSeq(Answer, from' + kBufSize + 1, Len(Answer))
  <2> SUFFICES ASSUME at' = "cut"
               PROVE  /\ f + kBufSize < Len(Answer)
                      /\ wire' = SubSeq(Answer, f + kBufSize + 1, Len(Answer))
    BY <1>1
  <2>1. ~(Len(wire) <= kBufSize)
    BY <1>1
  <2>2. n = kBufSize /\ kBufSize < Len(wire)
    BY <1>3, <2>1
  <2>3. f + kBufSize < Len(Answer)
    BY ONLY <1>2, <1>3, <1>4, <2>2, SMT
  <2> HIDE DEF f, n
  <2> QED BY <1>5, <2>2, <2>3
<1>11. Progress'
  <2>1. at' \in {"cut", "rest", "ended"}
    BY <1>1
  <2> HIDE DEF f, n, part
  <2> QED BY <1>1, <1>8, <1>9, <1>10, <2>1 DEF Progress
<1> QED BY <1>6, <1>11 DEF IInv

\* A step that changes nothing.
LEMMA StutterInvariant == IInv /\ UNCHANGED vars => IInv'
<1> SUFFICES ASSUME IInv, UNCHANGED vars PROVE IInv'
  OBVIOUS
<1>1. Frame /\ at' = at /\ wire' = wire /\ from' = from /\ got' = got
  BY DEF vars, Frame
<1>2. Sent' = Sent /\ Answer' = Answer /\ Response(input, object)' = Response(input, object) /\ id' = id
  BY <1>1, FrameKept DEF Frame
<1>3. TypeOK'
  BY <1>1 DEF IInv, TypeOK, Frame, Byte
<1>4. Progress'
  BY <1>1, <1>2 DEF IInv, Progress, CutResponsesInert, Frame
<1> QED BY <1>3, <1>4 DEF IInv

LEMMA StepInvariant == IInv /\ [Next]_vars => IInv'
<1> SUFFICES ASSUME IInv, [Next]_vars PROVE IInv'
  OBVIOUS
<1>1. CASE WriteRequest
  BY <1>1, WriteRequestInvariant
<1>2. CASE ReadRequest
  BY <1>2, ReadRequestInvariant
<1>3. CASE WriteResponse
  BY <1>3, WriteResponseInvariant
<1>4. CASE ReadResponse
  BY <1>4, ReadResponseInvariant
<1>5. CASE ReadRest
  BY <1>5, ReadRestInvariant
<1>6. CASE Terminated \/ UNCHANGED vars
  BY <1>6, StutterInvariant DEF Terminated
<1> QED BY <1>1, <1>2, <1>3, <1>4, <1>5, <1>6 DEF Next

-----------------------------------------------------------------------------
(* Theorems. *)

\* What is on the wire, and what has been made of it, is as Progress says.
THEOREM Invariance == Spec => []IInv
<1> QED BY InitInvariant, StepInvariant, PTL DEF Spec

\* What is on the wire is bytes.
THEOREM TypeCorrect == Spec => []TypeOK
<1>1. IInv => TypeOK
  BY DEF IInv
<1> QED BY <1>1, Invariance, PTL

\* The server takes each request for what the client meant (RequestParser.cpp
\* 12-51, CustomClassParser.cpp 24-206).
THEOREM RequestsUnderstood == Spec => []RequestUnderstood
<1>1. IInv => RequestUnderstood
  BY DEF IInv, Progress, RequestUnderstood
<1> QED BY <1>1, Invariance, PTL

\* The client finds in a response its own id and what the server answered, and
\* a retrieved object is the one the server has (ResponseParser.cpp 12-48,
\* CustomClass.cpp 63-90).
THEOREM ResponsesUnderstood == Spec => []ResponseUnderstood
<1>1. IInv => ResponseUnderstood
  <2> SUFFICES ASSUME IInv, at = "read"
               PROVE  /\ got = Result(id, Response(input, object))
                      /\ input.op = "get" =>
                           /\ Deserialize(got.value.val).ival = object.ival
                           /\ Deserialize(got.value.val).str = object.str
    BY Zenon DEF ResponseUnderstood
  <2>1. got = Result(id, Response(input, object)) /\ TypeOK
    BY DEF IInv, Progress
  <2>2. ASSUME input.op = "get"
        PROVE  /\ Deserialize(got.value.val).ival = object.ival
               /\ Deserialize(got.value.val).str = object.str
    <3>1. object \in Objects /\ Response(input, object) = Value("string", SerializeObject(object))
      BY <2>1, <2>2, AtHand, ResponseValue
    <3>2. got.value.val = SerializeObject(object)
      BY <2>1, <3>1 DEF Result, Value
    <3> QED BY <3>1, <3>2, ObjectFound
  <2> QED BY <2>1, <2>2
<1> QED BY <1>1, Invariance, PTL

\* Nothing comes of the first part of a response that does not fit into the
\* buffer, and of a further part only what its beginning allows: a value for a
\* callback behind "#r", a handle behind "#s", an exception behind "#r", "#s"
\* or "si" (Pipe.cpp 210-240, 305; ResponseParser.cpp 12-117;
\* DataDeserializer.cpp 59-79).
THEOREM CutsInert == Spec => []CutResponsesInert
<1>1. IInv => CutResponsesInert
  BY DEF IInv, Progress
<1> QED BY <1>1, Invariance, PTL
=============================================================================
