------------------------------- MODULE Messages -------------------------------
(***************************************************************************)
(* One request and its response on the wire: what DemoSimulator and Client *)
(* write, RequestParser and CustomClassParser read, the server answers and *)
(* ResponseParser reads.  What the server does for a request, once parsed, *)
(* is in module Dispatch; here it answers from the state of one object.    *)
(*                                                                         *)
(* The client end of the pipe is in byte mode.  A response longer than the *)
(* read buffer is returned by several reads, and each part is parsed as a  *)
(* response.                                                               *)
(***************************************************************************)
EXTENDS Codec

CONSTANTS
  ClassName,   \* CustomClass::kClassName, a sequence of bytes
  MethodName,  \* the name of each method, a sequence of bytes
  Inputs,      \* the requests of the client
  Ids,         \* their ids
  Objects,     \* the states of the object they are about
  Garbage,     \* what a read past the end of the data may find
  kBufSize     \* the size of the client's read buffer (4096)

VARIABLES
  input,    \* the client's request
  id,       \* its id
  object,   \* the object at the server: its handle and two attributes
  at,       \* who has the data
  wire,     \* the bytes in the pipe
  from,     \* how many bytes of the response came before the last part read
  got       \* what the reader has made of them

vars == <<input, id, object, garbage, at, wire, from, got>>

Hash        == 35   \* '#'
Keyword(ch) == <<Hash, ch>>
KeyId       == 114  \* 'r'
KeyCreate   == 99   \* 'c'
KeyMethod   == 109  \* 'm'
KeyGet      == 103  \* 'g'
KeyInstance == 105  \* 'i'

\* A value with its type, as std::any holds it.
Value(type, val) == [type |-> type, val |-> val]
None == Value("none", 0)

Serialize(v) ==
  CASE v.type = "bool"   -> SerializeBool(v.val)
    [] v.type = "int"    -> SerializeInt(v.val)
    [] v.type = "double" -> SerializeDouble(v.val)
    [] v.type = "string" -> SerializeString(v.val)

\* A request: "value" has one argument and no object.
Command(op, handle, args) == [op |-> op, handle |-> handle, args |-> args]
Unparsed == Command("none", 0, <<>>)

\* A response is parsed as the id of its request and what comes of it: a value
\* for the callback, a handle for ClassRepository, or an exception.
Result(rid, value) == [id |-> rid, value |-> value]
Instance(handle) == Value("instance", handle)
Exception == Value("exception", 0)

\* The requests there are: what the demos and the user's input make, with
\* strings whose length an int can hold.
Str       == {s \in Seq(Byte) : Len(s) <= MaxInt}
IntVal    == [type : {"int"}, val : Int32]
DoubleVal == [type : {"double"}, val : {d \in Seq(Byte) : Len(d) = 8}]
StrVal    == [type : {"string"}, val : Str]
Method    == {"PrintToCout", "PrintToString", "SetIntegerValue", "SetStringValue"}

OneOf(S) == {args \in Seq(S) : Len(args) = 1}

Arguments(op) ==
  CASE op = "value"           -> OneOf(IntVal \cup DoubleVal \cup StrVal)
    [] op = "create"          -> {<<>>} \cup OneOf(IntVal) \cup (IntVal \X StrVal)
    [] op = "SetIntegerValue" -> OneOf(IntVal)
    [] op = "SetStringValue"  -> OneOf(StrVal)
    [] OTHER                  -> {<<>>}

IsRequest(cmd) ==
  /\ cmd = Command(cmd.op, cmd.handle, cmd.args)
  /\ cmd.op \in {"value", "create", "get"} \cup Method
  /\ cmd.handle \in Int32
  /\ cmd.op \in {"value", "create"} => cmd.handle = 0
  /\ cmd.args \in Arguments(cmd.op)

\* An object's ints and string, retrieved, are one string.
ASSUME MessagesAssumption ==
  /\ ClassName \in Str
  /\ MethodName \in [Method -> Str]
  /\ \A m, n \in Method : MethodName[m] = MethodName[n] => m = n
  /\ \A cmd \in Inputs : IsRequest(cmd)
  /\ \A i \in Ids : i \in Int32 /\ i >= 0
  /\ \A o \in Objects : /\ o.handle \in Int32 /\ o.ival \in Int32
                          /\ o.str \in Str /\ Len(o.str) <= MaxInt - 11
  /\ kBufSize \in Nat /\ kBufSize >= 13

-----------------------------------------------------------------------------
(* The client: DemoSimulator::ReadRequest() and CreateRequestIdData(). *)

RequestIdData(rid)  == Keyword(KeyId) \o SerializeInt(rid)
\* No request has more than two arguments.
SerializeArgs(args) ==
  CASE Len(args) = 0 -> <<>>
    [] Len(args) = 1 -> Serialize(args[1])
    [] Len(args) = 2 -> Serialize(args[1]) \o Serialize(args[2])
ClassRequest        == <<Hash>> \o SerializeString(ClassName)

RequestData(cmd) ==
  CASE cmd.op = "value"  -> SerializeArgs(cmd.args)
    [] cmd.op = "create" -> ClassRequest \o Keyword(KeyCreate) \o SerializeArgs(cmd.args)
    [] cmd.op = "get"    -> ClassRequest \o SerializeInt(cmd.handle) \o Keyword(KeyGet)
    [] cmd.op \in DOMAIN MethodName ->
         ClassRequest \o SerializeInt(cmd.handle) \o Keyword(KeyMethod)
           \o SerializeString(MethodName[cmd.op]) \o SerializeArgs(cmd.args)

-----------------------------------------------------------------------------
(* The server: RequestParser and CustomClassParser.  It gets whole requests,
   in which no length is negative: nothing throws here. *)

IsKeyword(data, idx, ch) ==
  /\ Len(data) >= idx + 2
  /\ At(data, idx) = Hash
  /\ At(data, idx + 1) = ch

\* Variant: the length of the id is forgotten.
ParseRequestIdKeepingIndex(data, idx) ==
  LET p == ParseInt(data, idx + 2) IN
  IF IsKeyword(data, idx, KeyId) /\ p.ok THEN Parsed(p.val, idx + 2) ELSE NotParsed(-1, idx)

\* Both parsers have this one.
ParseRequestId(data, idx) ==
  LET p == ParseInt(data, idx + 2) IN
  IF IsKeyword(data, idx, KeyId) /\ p.ok THEN Parsed(p.val, p.idx) ELSE NotParsed(-1, idx)

\* With arguments that are neither none, an int, nor an int and a string the
\* request is no creation.
ParseCreateClass(data, idx) ==
  LET ival == ParseInt(data, idx + 2)
      str  == ParseString(data, ival.idx)
      Created(args) == Parsed(Command("create", 0, args), Len(data))
  IN
  IF ~IsKeyword(data, idx, KeyCreate) THEN NotParsed(Unparsed, idx)
  ELSE IF Len(data) = idx + 2 THEN Created(<<>>)
  ELSE IF ~ival.ok THEN NotParsed(Unparsed, idx)
  ELSE IF Len(data) = ival.idx THEN Created(<<Value("int", ival.val)>>)
  ELSE IF str.ok /\ Len(data) = str.idx
    THEN Created(<<Value("int", ival.val), Value("string", str.val)>>)
  ELSE NotParsed(Unparsed, idx)

ParseGetInstance(data, idx, handle) ==
  IF IsKeyword(data, idx, KeyGet) THEN Command("get", handle, <<>>) ELSE Unparsed

\* A setter whose argument is not parsed is tried as a retrieval, from where
\* the argument should be.
ParseArgument(data, idx, handle, op, type, p) ==
  IF p.ok THEN Command(op, handle, <<Value(type, p.val)>>)
          ELSE ParseGetInstance(data, idx, handle)

ParseMethodCall(data, idx, handle) ==
  LET name == ParseString(data, idx + 2)
      Names(op) == name.ok /\ name.val = MethodName[op]
  IN
  IF Names("PrintToCout") THEN Command("PrintToCout", handle, <<>>)
  ELSE IF Names("PrintToString") THEN Command("PrintToString", handle, <<>>)
  ELSE IF Names("SetIntegerValue")
    THEN ParseArgument(data, name.idx, handle, "SetIntegerValue", "int",
                       ParseInt(data, name.idx))
  ELSE IF Names("SetStringValue")
    THEN ParseArgument(data, name.idx, handle, "SetStringValue", "string",
                       ParseString(data, name.idx))
  ELSE Unparsed

\* CustomClassParser::Parse(); a handle that is not parsed is taken for 0.
ParseCustomClass(data, idx) ==
  LET name   == ParseString(data, idx + 1)
      create == ParseCreateClass(data, name.idx)
      handle == ParseInt(data, name.idx)
  IN
  IF At(data, idx) # Hash \/ ~name.ok \/ name.val # ClassName THEN Unparsed
  ELSE IF create.ok THEN create.val
  ELSE IF IsKeyword(data, handle.idx, KeyMethod)
    THEN ParseMethodCall(data, handle.idx, handle.val)
  ELSE ParseGetInstance(data, handle.idx, handle.val)

ParseRequest(data) ==
  LET rid == ParseRequestId(data, 0)
      ival == ParseInt(data, rid.idx)
      dval == ParseDouble(data, rid.idx)
      str  == ParseString(data, rid.idx)
      Plain(type, p) == Command("value", 0, <<Value(type, p.val)>>)
  IN
  [id |-> rid.val,
   command |-> IF ival.ok THEN Plain("int", ival)
               ELSE IF dval.ok THEN Plain("double", dval)
               ELSE IF str.ok THEN Plain("string", str)
               ELSE ParseCustomClass(data, rid.idx)]

\* CustomClass::Serialize(), PrintToString() (which formats the same data) and
\* the handle or truth value of the other calls.
SerializeObject(o) == SerializeInt(o.ival) \o SerializeString(o.str)

Response(cmd, o) ==
  CASE cmd.op = "create"          -> Value("int", o.handle)
    [] cmd.op = "SetIntegerValue" -> Value("bool", cmd.args[1].val # o.ival)
    [] cmd.op = "SetStringValue"  -> Value("bool", cmd.args[1].val # o.str)
    [] cmd.op = "PrintToString"   -> Value("string", o.str)
    [] cmd.op = "get"             -> Value("string", SerializeObject(o))
    [] OTHER                      -> None

-----------------------------------------------------------------------------
(* The client again: ResponseParser and CustomClass::Deserialize(). *)

\* Starts at the first byte of the data, where the id is: no response with an
\* id goes this way, but the rest of one that is cut may.
ParseCustomClassResponse(data) ==
  LET name == ParseString(data, 1)
      handle == ParseInt(data, name.idx + 2)
  IN
  IF data = <<>> \/ At(data, 0) # Hash THEN None
  ELSE IF Threw(name) THEN Exception
  ELSE IF /\ name.ok /\ name.val = ClassName
          /\ IsKeyword(data, name.idx, KeyInstance)
          /\ handle.ok
    THEN Instance(handle.val)
  ELSE None

ParseResponse(data) ==
  LET rid  == ParseRequestId(data, 0)
      made == ParseCustomClassResponse(data)
      bool == ParseBool(data, rid.idx)
      ival == ParseInt(data, rid.idx)
      dval == ParseDouble(data, rid.idx)
      str  == ParseString(data, rid.idx)
  IN
  Result(rid.val,
    IF made # None THEN made
    ELSE IF bool.ok THEN Value("bool", bool.val)
    ELSE IF ival.ok THEN Value("int", ival.val)
    ELSE IF dval.ok THEN Value("double", dval.val)
    ELSE IF Threw(str) THEN Exception
    ELSE IF str.ok THEN Value("string", str.val)
    ELSE None)

Deserialize(data) ==
  LET ival == ParseInt(data, 0)
      str  == ParseString(data, ival.idx)
  IN
  IF ival.ok /\ str.ok THEN [ival |-> ival.val, str |-> str.val]
                       ELSE [ival |-> 0, str |-> <<>>]

-----------------------------------------------------------------------------

Init ==
  /\ input \in Inputs
  /\ id \in Ids
  /\ object \in Objects
  /\ garbage \in Garbage
  /\ at = "client"
  /\ wire = <<>>
  /\ from = 0
  /\ got = Result(0, None)

WriteRequest ==
  /\ at = "client"
  /\ wire' = RequestIdData(id) \o RequestData(input)
  /\ at' = "server"
  /\ UNCHANGED <<input, id, object, garbage, from, got>>

ReadRequest ==
  /\ at = "server"
  /\ got' = ParseRequest(wire)
  /\ wire' = <<>>
  /\ at' = "serve"
  /\ UNCHANGED <<input, id, object, garbage, from>>

\* SendResponseToClient(), unless the response has no data.
WriteResponse ==
  LET value == Response(got.command, object) IN
  /\ at = "serve"
  /\ IF value = None
       THEN at' = "unanswered" /\ UNCHANGED wire
       ELSE at' = "reply" /\ wire' = RequestIdData(got.id) \o Serialize(value)
  /\ UNCHANGED <<input, id, object, garbage, from, got>>

\* One ReadFile() of the client returns what there is, up to the size of the
\* buffer, and ParseResponse() takes it for a response.  Nobody catches an
\* exception: the client ends.
ReadPart(whole) ==
  LET n == IF Len(wire) <= kBufSize THEN Len(wire) ELSE kBufSize IN
  /\ got' = ParseResponse(SubSeq(wire, 1, n))
  /\ wire' = SubSeq(wire, n + 1, Len(wire))
  /\ at' = IF got'.value = Exception THEN "ended"
           ELSE IF Len(wire) <= kBufSize THEN whole
           ELSE "cut"
  /\ UNCHANGED <<input, id, object, garbage>>

ReadResponse == at = "reply" /\ from' = 0 /\ ReadPart("read")

\* The rest of it is what the client reads for its next requests.
ReadRest == at = "cut" /\ from' = from + kBufSize /\ ReadPart("rest")

Terminated == at \in {"unanswered", "read", "rest", "ended"} /\ UNCHANGED vars

Next == WriteRequest \/ ReadRequest \/ WriteResponse \/ ReadResponse \/ ReadRest \/ Terminated

Spec == Init /\ [][Next]_vars

-----------------------------------------------------------------------------
(* Properties.  They hold for every byte there may be past the data. *)

\* What is on the wire is bytes: no int is too wide for its four.
TypeOK ==
  /\ input \in Inputs /\ id \in Ids /\ object \in Objects /\ garbage \in Garbage
  /\ at \in {"client", "server", "serve", "unanswered", "reply", "read", "cut", "rest", "ended"}
  /\ wire \in Seq(Byte)
  /\ from \in Nat

\* The server takes each request for what the client meant, argument by
\* argument, although it finds out by trying one type after the other and the
\* tests of the length leave out the tag (DataDeserializer.cpp 19, 41, 68;
\* RequestParser.cpp 20-45, CustomClassParser.cpp 38-64).
RequestUnderstood == at = "serve" => got = [id |-> id, command |-> input]

\* The client finds in a response its own id and what the server answered, in
\* the type its callback casts to; a retrieved object is the one the server
\* has (ResponseParser.cpp 12-48, CustomClass.cpp 63-90).
ResponseUnderstood ==
  at = "read" =>
    /\ got = Result(id, Response(input, object))
    /\ input.op = "get" =>
         LET o == Deserialize(got.value.val) IN o.ival = object.ival /\ o.str = object.str

\* From the first part of a response longer than the buffer no callback gets
\* a value.  Each further part does something only where the string in the
\* response, which begins behind 13 bytes, has a keyword or a tag at the very
\* place of the cut: it is given to a callback only if it begins with "#r",
\* registers a handle only if it begins with "#s", and ends the client by an
\* exception only if it begins with one of these or with "si" (Pipe.cpp
\* 210-240, 305; ResponseParser.cpp 12-103; DataDeserializer.cpp 66-72).
CutResponsesInert ==
  at \in {"cut", "rest", "ended"} =>
    LET s == Response(input, object).val
        begin == SubSeq(s, from - 12, from - 11)
    IN
    IF from = 0 THEN got.value = None
    ELSE /\ got.id \in Ids => begin = Keyword(KeyId)
         /\ got.value.type = "instance" => begin = Keyword(TagString)
         /\ got.value.type = "exception" =>
              begin \in {Keyword(KeyId), Keyword(TagString), <<TagString, TagInt>>}
=============================================================================
