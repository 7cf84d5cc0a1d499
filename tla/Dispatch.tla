------------------------------- MODULE Dispatch -------------------------------
(***************************************************************************)
(* What the server does with a request it has parsed: RequestParser,       *)
(* CustomClassParser, ClassRegistry and CustomClass, under one worker      *)
(* thread for each client.  What a request looks like on the wire is in    *)
(* module Messages.                                                        *)
(*                                                                         *)
(* ClassRegistry has a mutex; an object has none.  A call on an object is  *)
(* a look-up in the registry and then an unlocked read, which a setter     *)
(* follows by an unlocked write.  The two attributes of an object have the *)
(* same setters and are read together: they are one value here.            *)
(***************************************************************************)
EXTENDS Integers

CONSTANTS
  Client,  \* the clients, each with a worker thread of its own
  Value    \* the values of an object

ASSUME DispatchAssumption == Value \subseteq Nat /\ Value # {}

VARIABLES
  handle_counter,  \* ClassRegistry::handle_counter_
  instances,       \* ClassRegistry::instances_, what each handle's object holds
  stage,           \* where the worker of each client is
  command,         \* the request it serves
  answer           \* its ServerResponse

registryVars == <<handle_counter, instances>>
workerVars   == <<stage, command, answer>>
dispatchVars == <<registryVars, workerVars>>

\* "get" stands for PrintToString and for the retrieval of the object, "set"
\* for both setters, "print" for PrintToCout, "plain" for numbers and strings.
ObjectOp == {"print", "get", "set"}
Op       == {"plain", "create"} \cup ObjectOp
Command  == [op : Op, handle : Nat, value : Value]

\* What the response carries; with "none" IsValid() is false.
Answer   == [kind : {"none", "handle", "value", "bool"}, value : Nat]
NoAnswer == [kind |-> "none", value |-> 0]
Bool(b)  == [kind |-> "bool", value |-> IF b THEN 1 ELSE 0]

Stage == {"gone", "test", "idle", "create", "lookup", "call", "store", "reply"}

DispatchTypeOK ==
  /\ handle_counter \in Nat
  /\ instances \in [0 .. handle_counter - 1 -> Value]
  /\ stage \in [Client -> Stage]
  /\ command \in [Client -> Command]
  /\ answer \in [Client -> Answer]

NoCommand == [op |-> "plain", handle |-> 0, value |-> CHOOSE v \in Value : TRUE]

\* The registry is static: a server process starts with an empty one, and its
\* counter, which no constructor sets, is zero as all static storage is.
EmptyRegistry ==
  /\ handle_counter' = 0
  /\ instances' = [h \in {} |-> CHOOSE v \in Value : TRUE]

NoWorkers ==
  /\ stage' = [c \in Client |-> "gone"]
  /\ command' = [c \in Client |-> NoCommand]
  /\ answer' = [c \in Client |-> NoAnswer]

DispatchInit ==
  /\ handle_counter = 0
  /\ instances = [h \in {} |-> CHOOSE v \in Value : TRUE]
  /\ stage = [c \in Client |-> "gone"]
  /\ command = [c \in Client |-> NoCommand]
  /\ answer = [c \in Client |-> NoAnswer]

MoveTo(c, place) == stage' = [stage EXCEPT ![c] = place]
Respond(c, a) ==
  /\ answer' = [answer EXCEPT ![c] = a]
  /\ MoveTo(c, "reply")

Handle(c) == command[c].handle

\* RequestParser::ParseRequest() and the head of CustomClassParser::Parse();
\* numbers and strings are logged and get no response.
ParseRequest(c, cmd) ==
  /\ stage[c] = "idle"
  /\ command' = [command EXCEPT ![c] = cmd]
  /\ answer' = [answer EXCEPT ![c] = NoAnswer]
  /\ MoveTo(c, CASE cmd.op = "plain"     -> "reply"
                 [] cmd.op = "create"    -> "create"
                 [] cmd.op \in ObjectOp  -> "lookup")
  /\ UNCHANGED registryVars

\* unordered_map::insert() changes nothing where there is an object already.
Inserted(h, v) ==
  [x \in DOMAIN instances \cup {h} |-> IF x \in DOMAIN instances THEN instances[x] ELSE v]

\* Variant: the object is inserted after the mutex is released.
CreateInTwoSteps(c) ==
  /\ stage[c] = "create"
  /\ IF answer[c].kind # "handle"
       THEN /\ answer' = [answer EXCEPT ![c] = [kind |-> "handle", value |-> handle_counter]]
            /\ UNCHANGED <<registryVars, stage>>
       ELSE /\ instances' = Inserted(answer[c].value, command[c].value)
            /\ handle_counter' = answer[c].value + 1
            /\ MoveTo(c, "reply")
            /\ UNCHANGED answer
  /\ UNCHANGED command

\* ClassRegistry::Create(): counting and inserting are one critical section.
Create(c) ==
  /\ stage[c] = "create"
  /\ handle_counter' = handle_counter + 1
  /\ instances' = Inserted(handle_counter, command[c].value)
  /\ Respond(c, [kind |-> "handle", value |-> handle_counter])
  /\ UNCHANGED command

\* With an unknown handle Parse() fails and no response is sent.
GetClassObjectByHandle(c) ==
  /\ stage[c] = "lookup"
  /\ IF Handle(c) \in DOMAIN instances
       THEN MoveTo(c, "call") /\ UNCHANGED answer
       ELSE Respond(c, NoAnswer)
  /\ UNCHANGED <<registryVars, command>>

\* Another worker is writing the same object: what is read or left behind can
\* be anything.
Racing(c) ==
  \E d \in Client \ {c} : stage[d] = "store" /\ Handle(d) = Handle(c)

ReadOf(c) == IF Racing(c) THEN Value ELSE {instances[Handle(c)]}

\* PrintToCout() is answered with no data, so not at all.
PrintToCout(c) ==
  /\ stage[c] = "call" /\ command[c].op = "print"
  /\ Respond(c, NoAnswer)
  /\ UNCHANGED <<registryVars, command>>

Get(c) ==
  /\ stage[c] = "call" /\ command[c].op = "get"
  /\ \E v \in ReadOf(c) : Respond(c, [kind |-> "value", value |-> v])
  /\ UNCHANGED <<registryVars, command>>

\* Variant: a setter that changes nothing has no response.
CompareSilently(c) ==
  /\ stage[c] = "call" /\ command[c].op = "set"
  /\ \E v \in ReadOf(c) :
       IF v = command[c].value
         THEN Respond(c, NoAnswer)
         ELSE MoveTo(c, "store") /\ UNCHANGED answer
  /\ UNCHANGED <<registryVars, command>>

\* SetIntegerValue(), SetStringValue(): false when the value is the same.
Compare(c) ==
  /\ stage[c] = "call" /\ command[c].op = "set"
  /\ \E v \in ReadOf(c) :
       IF v = command[c].value
         THEN Respond(c, Bool(FALSE))
         ELSE MoveTo(c, "store") /\ UNCHANGED answer
  /\ UNCHANGED <<registryVars, command>>

Store(c) ==
  /\ stage[c] = "store"
  /\ \E v \in (IF Racing(c) THEN Value ELSE {command[c].value}) :
       instances' = [instances EXCEPT ![Handle(c)] = v]
  /\ Respond(c, Bool(TRUE))
  /\ UNCHANGED <<handle_counter, command>>

\* The response is sent or there is none; the locals of the worker are gone,
\* and it is back at the head of its loop.
Finish(c) ==
  /\ stage[c] = "reply"
  /\ command' = [command EXCEPT ![c] = NoCommand]
  /\ answer' = [answer EXCEPT ![c] = NoAnswer]
  /\ MoveTo(c, "test")
  /\ UNCHANGED registryVars

Execute(c) ==
  \/ Create(c)
  \/ GetClassObjectByHandle(c)
  \/ PrintToCout(c)
  \/ Get(c)
  \/ Compare(c)
  \/ Store(c)
=============================================================================
