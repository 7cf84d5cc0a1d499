----------------------------- MODULE SystemProofs -----------------------------
(***************************************************************************)
(* System, for every set of clients, every number of requests and of       *)
(* server processes, every set of values and every capacity of the pipes:  *)
(* the types, the agreement of the two repositories, races on objects, and *)
(* that the system implements Session.                                     *)
(***************************************************************************)
EXTENDS System, TLAPS, SequenceTheorems

-----------------------------------------------------------------------------
(* The inductive invariant. *)

Busy    == {"create", "lookup", "call", "store"}
Awaited == {"create", "get", "set"}

\* A pipe whose server end is open is one of this server process; only such a
\* pipe has a worker, or one that ~Server has closed while its worker was about
\* to test is_closed_; only a client that uses its end can read from it.
Connection(c) ==
  /\ joined[c] <= run
  /\ pc[c] \in {"good", "wait"} => pipe[c].cli = "open" /\ joined[c] > 0
  /\ pc[c] \notin {"good", "wait"} => pipe[c].rsp = <<>>
  /\ pc[c] = "connect" => pipe[c].srv # "open"
  /\ pipe[c].srv = "open" => up /\ joined[c] = run
  /\ stage[c] \notin {"gone", "test"} => pipe[c].srv = "open"
  /\ stage[c] = "test" => up /\ (is_closed \/ pipe[c].srv = "open")

\* The worker executes a request that is newer than what it has executed, and
\* one whose answer is awaited is the last.
Worker(c) ==
  /\ stage[c] \in {"gone", "test", "idle"} => serving[c] = 0
  /\ stage[c] \in Busy => executed[c].id < serving[c]
  /\ stage[c] = "reply" => executed[c] = [id |-> serving[c], answer |-> answer[c]]
  /\ stage[c] \in Busy \cup {"reply"} /\ command[c].op \in Awaited =>
       pc[c] = "wait" /\ serving[c] = sent[c]
  /\ executed[c].id <= sent[c]
  /\ delivered[c].id <= sent[c]
  /\ pc[c] = "wait" => delivered[c].id < sent[c]

\* Each place of the worker belongs to some commands.
Serves(c) ==
  /\ stage[c] = "create" => command[c].op = "create"
  /\ stage[c] = "store" => command[c].op = "set"
  /\ stage[c] \in {"call", "store"} => Handle(c) \in DOMAIN instances
  /\ stage[c] = "reply" /\ answer[c] # NoAnswer => command[c].op \in Awaited

\* The requests in a pipe that is served are in the order of issue and newer
\* than the one served; the answer of the last one only is awaited.
Requested(c) ==
  pipe[c].srv = "open" =>
    LET req == pipe[c].req IN
    /\ \A i \in DOMAIN req :
         /\ executed[c].id < req[i].id /\ serving[c] < req[i].id /\ req[i].id <= sent[c]
         /\ req[i].command.op \in Awaited => pc[c] = "wait" /\ req[i].id = sent[c]
    /\ \A i, j \in DOMAIN req : i < j => req[i].id < req[j].id

\* The answer in a pipe is of the last execution and to the last request.
Answered(c) ==
  LET rsp == pipe[c].rsp IN
  rsp # <<>> =>
    /\ rsp = <<executed[c]>>
    /\ executed[c].id = sent[c] /\ executed[c].answer # NoAnswer
    /\ pc[c] = "wait"
    /\ stage[c] \in {"gone", "test", "idle"}

ClientInv(c) == Connection(c) /\ Worker(c) /\ Serves(c) /\ Requested(c) /\ Answered(c)

\* The handles a client has been given in this run, or is about to be given.
InFlight(c) == stage[c] = "reply" \/ (pipe[c].rsp # <<>> /\ joined[c] = run)
Held(c) ==
  {m.handle : m \in {n \in handles[c] : n.run = run}} \cup
    (IF InFlight(c) /\ executed[c].answer.kind = "handle" THEN {executed[c].answer.value} ELSE {})

\* They are of objects of this run, and no other client's.
HeldInv ==
  /\ \A c \in Client : \A m \in handles[c] : m.run <= run
  /\ up => \A c \in Client : Held(c) \subseteq DOMAIN instances
  /\ up => \A c, d \in Client : c # d => Held(c) \cap Held(d) = {}

\* Nothing is closed before is_closed_ is stored.
MainInv ==
  /\ up => run > 0
  /\ to_close \cup closing # {} => is_closed

IInv ==
  /\ TypeOK
  /\ MainInv
  /\ \A c \in Client : ClientInv(c)
  /\ HeldInv

-----------------------------------------------------------------------------
(* Pipes and constants. *)

\* Neither end of a pipe leaves the set of instances by any of its operations.
LEMMA InstanceTypes ==
  ASSUME NEW p \in Instance
  PROVE  /\ ClientOpened(FreshInstance) \in Instance
         /\ Disconnected(p) \in Instance
         /\ ServerClosed(p) \in Instance
         /\ ClientClosed(p) \in Instance
         /\ ClientDrained(p) \in Instance
         /\ \A m \in Message : ClientWritten(p, m) \in Instance
         /\ \A r \in Reply : ResponseWritten(p, r) \in Instance
         /\ p.req # <<>> => MessageRead(p) \in Instance /\ Head(p.req) \in Message
         /\ p.rsp # <<>> => Head(p.rsp) \in Reply
  <1>1. /\ <<>> \in Seq(Message)
        /\ <<>> \in Seq(Reply)
        /\ \A s \in Seq(Message), m \in Message : Append(s, m) \in Seq(Message)
        /\ \A s \in Seq(Reply), r \in Reply : Append(s, r) \in Seq(Reply)
        /\ \A s \in Seq(Message) : s # <<>> => Tail(s) \in Seq(Message) /\ Head(s) \in Message
        /\ \A s \in Seq(Reply) : s # <<>> => Head(s) \in Reply
    BY HeadTailProperties
  <1> QED
    BY <1>1 DEF Instance, FreshInstance, NoInstance, Disconnected, ServerClosed,
         ClientOpened, ClientClosed, ClientDrained, ClientWritten, MessageRead,
         ResponseWritten, ServerEnd, ClientEnd

\* What the operations do to the two ends and to the unread messages.
LEMMA InstanceFields ==
  ASSUME NEW p \in Instance
  PROVE  /\ Disconnected(p).srv = "disconnected" /\ Disconnected(p).cli = p.cli
         /\ Disconnected(p).req = <<>> /\ Disconnected(p).rsp = <<>>
         /\ ServerClosed(p).srv = "closed" /\ ServerClosed(p).cli = p.cli
         /\ ServerClosed(p).req = <<>> /\ ServerClosed(p).rsp = p.rsp
         /\ ClientClosed(p).srv = p.srv /\ ClientClosed(p).cli = "closed"
         /\ ClientClosed(p).req = p.req /\ ClientClosed(p).rsp = <<>>
         /\ ClientDrained(p).srv = p.srv /\ ClientDrained(p).cli = p.cli
         /\ ClientDrained(p).req = p.req /\ ClientDrained(p).rsp = <<>>
         /\ \A m \in Message :
              /\ ClientWritten(p, m).srv = p.srv /\ ClientWritten(p, m).cli = p.cli
              /\ ClientWritten(p, m).req = Append(p.req, m)
              /\ ClientWritten(p, m).rsp = p.rsp
         /\ \A r \in Reply :
              /\ ResponseWritten(p, r).srv = p.srv /\ ResponseWritten(p, r).cli = p.cli
              /\ ResponseWritten(p, r).req = p.req
              /\ ResponseWritten(p, r).rsp = Append(p.rsp, r)
         /\ MessageRead(p).srv = p.srv /\ MessageRead(p).cli = p.cli
         /\ MessageRead(p).req = Tail(p.req) /\ MessageRead(p).rsp = p.rsp
         /\ p.req \in Seq(Message) /\ p.rsp \in Seq(Reply)
  BY DEF Instance, Disconnected, ServerClosed, ClientClosed,
         ClientDrained, ClientWritten, MessageRead, ResponseWritten

\* A pipe just opened is open at both ends and empty.
LEMMA OpenedFields ==
  /\ ClientOpened(FreshInstance).srv = "open" /\ ClientOpened(FreshInstance).cli = "open"
  /\ ClientOpened(FreshInstance).req = <<>> /\ ClientOpened(FreshInstance).rsp = <<>>
  /\ NoInstance.srv = "none" /\ NoInstance.cli = "none"
  /\ NoInstance.req = <<>> /\ NoInstance.rsp = <<>>
  /\ NoInstance \in Instance
  BY DEF FreshInstance, NoInstance, ClientOpened, Instance, ServerEnd, ClientEnd

\* The command of a client without request, and the answers that need no object.
LEMMA ConstantTypes ==
  /\ NoCommand \in Command /\ NoCommand.op = "plain"
  /\ NoAnswer \in Result /\ NoAnswer.kind = "none"
  /\ Bool(TRUE) \in Result /\ Bool(FALSE) \in Result
  /\ Bool(TRUE).kind = "bool" /\ Bool(FALSE).kind = "bool"
  /\ Result \subseteq Answer
  BY DispatchAssumption DEF NoCommand, Command, Op, ObjectOp, NoAnswer, Bool, Result, Answer

-----------------------------------------------------------------------------
(* The dispatcher. *)

\* The answer is of a command that is awaited, and a handle it carries is new:
\* the registry has nothing under it before, and an object after.
Answering(c) ==
  /\ answer'[c] \in Result
  /\ answer'[c] # NoAnswer => command'[c].op \in Awaited
  /\ IF answer'[c].kind = "handle"
       THEN /\ answer'[c].value \notin DOMAIN instances
            /\ DOMAIN instances' = DOMAIN instances \cup {answer'[c].value}
       ELSE DOMAIN instances' = DOMAIN instances

\* A step of a worker between two objects of the process: what it leaves alone.
OwnWork(c) ==
  \A d \in Client \ {c} :
    stage'[d] = stage[d] /\ command'[d] = command[d] /\ answer'[d] = answer[d]

\* ClassRegistry::Create() numbers the objects without a gap.
LEMMA CreateEffect ==
  ASSUME DispatchTypeOK, NEW c \in Client, Serves(c), Create(c)
  PROVE  DispatchTypeOK' /\ OwnWork(c) /\ stage'[c] = "reply" /\ command' = command /\ Answering(c)
  <1> DEFINE a == [kind |-> "handle", value |-> handle_counter]
  <1>1. /\ handle_counter \in Nat /\ handle_counter' = handle_counter + 1
        /\ DOMAIN instances = 0 .. handle_counter - 1
        /\ DOMAIN instances' = 0 .. handle_counter
    <2>1. handle_counter \in Nat /\ instances \in [0 .. handle_counter - 1 -> Value]
      BY DEF DispatchTypeOK
    <2>2. 0 .. handle_counter = (0 .. handle_counter - 1) \cup {handle_counter}
      BY <2>1
    <2> QED BY <2>1, <2>2 DEF Create, Inserted
  <1>2. instances' \in [0 .. handle_counter' - 1 -> Value]
    BY <1>1 DEF Create, Inserted, DispatchTypeOK, Command
  <1>3. a \in Result /\ a # NoAnswer
    BY <1>1 DEF Result, Answer, NoAnswer
  <1>4. /\ command' = command /\ answer' = [answer EXCEPT ![c] = a]
        /\ stage[c] = "create" /\ stage' = [stage EXCEPT ![c] = "reply"]
    BY DEF Create, Respond, MoveTo
  <1>5. DispatchTypeOK'
    BY <1>1, <1>2, <1>3, <1>4, ConstantTypes DEF DispatchTypeOK, Stage
  <1>6. answer'[c] = a /\ stage'[c] = "reply" /\ OwnWork(c)
    BY <1>4 DEF DispatchTypeOK, OwnWork
  <1>7. 0 .. handle_counter = (0 .. handle_counter - 1) \cup {handle_counter}
        /\ handle_counter \notin 0 .. handle_counter - 1
    BY <1>1
  <1>8. command'[c].op \in Awaited
    BY <1>4 DEF Serves, Awaited
  <1>9. Answering(c)
    BY <1>1, <1>3, <1>6, <1>7, <1>8 DEF Answering
  <1> QED BY <1>4, <1>5, <1>6, <1>9

\* The other steps of an execution create nothing.
LEMMA CallEffect ==
  ASSUME DispatchTypeOK, NEW c \in Client, Serves(c),
         \/ GetClassObjectByHandle(c)
         \/ PrintToCout(c)
         \/ Get(c)
         \/ Compare(c)
         \/ Store(c)
  PROVE  /\ DispatchTypeOK' /\ OwnWork(c) /\ command' = command
         /\ stage[c] \in Busy
         /\ DOMAIN instances' = DOMAIN instances
         /\ \/ stage'[c] = "reply" /\ Answering(c)
            \/ /\ stage'[c] \in {"call", "store"} /\ answer'[c] = answer[c]
               /\ Handle(c) \in DOMAIN instances
               /\ stage'[c] = "store" => command[c].op = "set"
  <1> USE DEF DispatchTypeOK
  <1>1. stage \in [Client -> Stage] /\ answer \in [Client -> Answer]
    OBVIOUS
  <1>2. ASSUME NEW a \in Result, a.kind # "handle", Respond(c, a),
               command' = command, handle_counter' = handle_counter,
               instances' \in [DOMAIN instances -> Value],
               a # NoAnswer => command[c].op \in Awaited, stage[c] \in Busy
        PROVE  /\ DispatchTypeOK' /\ OwnWork(c)
               /\ DOMAIN instances' = DOMAIN instances
               /\ stage'[c] = "reply" /\ Answering(c)
    <2>1. /\ stage' = [stage EXCEPT ![c] = "reply"] /\ answer' = [answer EXCEPT ![c] = a]
          /\ a \in Answer
      BY <1>2, ConstantTypes DEF Respond, MoveTo
    <2>2. stage'[c] = "reply" /\ answer'[c] = a
      BY <1>1, <2>1
    <2>3. OwnWork(c)
      BY <1>1, <1>2, <2>1 DEF OwnWork
    <2>4. DispatchTypeOK'
      BY <1>1, <1>2, <2>1 DEF Stage
    <2>5. Answering(c)
      BY <1>2, <2>2 DEF Answering
    <2> QED BY <1>2, <2>2, <2>3, <2>4, <2>5
  <1>3. ASSUME NEW place \in {"call", "store"}, MoveTo(c, place),
               UNCHANGED <<registryVars, command, answer>>
        PROVE  /\ DispatchTypeOK' /\ OwnWork(c)
               /\ DOMAIN instances' = DOMAIN instances
               /\ stage'[c] = place /\ answer'[c] = answer[c]
    BY <1>1, <1>3 DEF MoveTo, registryVars, Stage, OwnWork
  <1>4. instances \in [DOMAIN instances -> Value]
    OBVIOUS
  <1>5. CASE GetClassObjectByHandle(c)
    <2>1. CASE Handle(c) \in DOMAIN instances
      BY <1>3, <1>5, <2>1 DEF GetClassObjectByHandle, Busy, registryVars
    <2>2. CASE Handle(c) \notin DOMAIN instances
      BY <1>2, <1>4, <1>5, <2>2, ConstantTypes DEF GetClassObjectByHandle, Busy, registryVars
    <2> QED BY <2>1, <2>2
  <1>6. CASE PrintToCout(c)
    BY <1>2, <1>4, <1>6, ConstantTypes DEF PrintToCout, Busy, registryVars
  <1>7. \A v \in ReadOf(c) : stage[c] = "call" => v \in Value
    BY <1>4 DEF ReadOf, Serves
  <1>8. CASE Get(c)
    <2>1. PICK v \in ReadOf(c) : Respond(c, [kind |-> "value", value |-> v])
      BY <1>8 DEF Get
    <2>2. [kind |-> "value", value |-> v] \in Result
      BY <1>7, <1>8, DispatchAssumption DEF Get, Result, Answer
    <2> QED BY <1>2, <1>4, <1>8, <2>1, <2>2 DEF Get, Busy, Awaited, registryVars
  <1>9. CASE Compare(c)
    <2>1. PICK v \in ReadOf(c) :
            IF v = command[c].value
              THEN Respond(c, Bool(FALSE))
              ELSE MoveTo(c, "store") /\ UNCHANGED answer
      BY <1>9 DEF Compare
    <2>2. CASE v = command[c].value
      BY <1>2, <1>4, <1>9, <2>1, <2>2, ConstantTypes DEF Compare, Busy, Awaited, registryVars
    <2>3. CASE v # command[c].value
      BY <1>3, <1>9, <2>1, <2>3 DEF Compare, Busy, Serves, registryVars
    <2> QED BY <2>2, <2>3
  <1>10. CASE Store(c)
    <2>1. PICK v \in (IF Racing(c) THEN Value ELSE {command[c].value}) :
            instances' = [instances EXCEPT ![Handle(c)] = v]
      BY <1>10 DEF Store
    <2>2. v \in Value
      BY <2>1 DEF Command
    <2>3. instances' \in [DOMAIN instances -> Value]
      BY <1>4, <2>1, <2>2
    <2> QED BY <1>2, <1>10, <2>3, ConstantTypes DEF Store, Busy, Awaited, Serves
  <1> QED BY <1>5, <1>6, <1>8, <1>9, <1>10

\* One step of a worker towards the answer: it has it, or goes on.
LEMMA ExecuteEffect ==
  ASSUME DispatchTypeOK, NEW c \in Client, Serves(c), Execute(c)
  PROVE  /\ DispatchTypeOK' /\ OwnWork(c) /\ command' = command
         /\ stage[c] \in Busy
         /\ DOMAIN instances \subseteq DOMAIN instances'
         /\ \/ stage'[c] = "reply" /\ Answering(c)
            \/ /\ stage'[c] \in {"call", "store"} /\ answer'[c] = answer[c]
               /\ Handle(c) \in DOMAIN instances
               /\ stage'[c] = "store" => command[c].op = "set"
               /\ DOMAIN instances' = DOMAIN instances
  <1>1. CASE Create(c)
    <2>1. stage[c] \in Busy
      BY <1>1 DEF Create, Busy
    <2> QED BY <1>1, <2>1, CreateEffect DEF Answering
  <1>2. CASE ~Create(c)
    BY <1>2, CallEffect DEF Execute
  <1> QED BY <1>1, <1>2

\* A request that is parsed has its first place, and no answer.
LEMMA ParseEffect ==
  ASSUME DispatchTypeOK, NEW c \in Client, NEW cmd \in Command, ParseRequest(c, cmd)
  PROVE  /\ DispatchTypeOK' /\ OwnWork(c) /\ instances' = instances
         /\ stage[c] = "idle" /\ command'[c] = cmd /\ answer'[c] = NoAnswer
         /\ \/ cmd.op = "plain" /\ stage'[c] = "reply"
            \/ cmd.op = "create" /\ stage'[c] = "create"
            \/ cmd.op \in ObjectOp /\ stage'[c] = "lookup"
  <1> DEFINE place == CASE cmd.op = "plain"     -> "reply"
                        [] cmd.op = "create"    -> "create"
                        [] cmd.op \in ObjectOp  -> "lookup"
  <1>1. \/ cmd.op = "plain" /\ place = "reply"
        \/ cmd.op = "create" /\ place = "create"
        \/ cmd.op \in ObjectOp /\ place = "lookup"
    BY DEF Command, Op, ObjectOp
  <1>2. /\ stage[c] = "idle" /\ stage' = [stage EXCEPT ![c] = place]
        /\ command' = [command EXCEPT ![c] = cmd]
        /\ answer' = [answer EXCEPT ![c] = NoAnswer]
        /\ handle_counter' = handle_counter /\ instances' = instances
    BY DEF ParseRequest, MoveTo, registryVars
  <1>3. place \in Stage
    BY <1>1 DEF Stage
  <1> HIDE DEF place
  <1>4. NoAnswer \in Answer
    BY ConstantTypes
  <1>5. DispatchTypeOK' /\ OwnWork(c)
    BY <1>2, <1>3, <1>4 DEF DispatchTypeOK, OwnWork
  <1>6. stage'[c] = place /\ command'[c] = cmd /\ answer'[c] = NoAnswer
    BY <1>2 DEF DispatchTypeOK
  <1> QED BY <1>1, <1>2, <1>5, <1>6

\* A worker that is done has nothing left.
LEMMA FinishEffect ==
  ASSUME DispatchTypeOK, NEW c \in Client, Finish(c)
  PROVE  /\ DispatchTypeOK' /\ OwnWork(c) /\ instances' = instances
         /\ stage[c] = "reply" /\ stage'[c] = "test"
         /\ answer'[c] = NoAnswer
  <1>1. /\ stage[c] = "reply" /\ stage' = [stage EXCEPT ![c] = "test"]
        /\ command' = [command EXCEPT ![c] = NoCommand]
        /\ answer' = [answer EXCEPT ![c] = NoAnswer]
        /\ handle_counter' = handle_counter /\ instances' = instances
    BY DEF Finish, MoveTo, registryVars
  <1> QED BY <1>1, ConstantTypes DEF DispatchTypeOK, OwnWork, Stage

-----------------------------------------------------------------------------
(* A step of one client or of its worker. *)

\* What such a step leaves alone.
OwnStep(c) ==
  /\ up' = up /\ run' = run /\ is_closed' = is_closed
  /\ (is_closed \/ UNCHANGED <<to_close, closing>>)
  /\ DOMAIN instances \subseteq DOMAIN instances'
  /\ OwnWork(c)
  /\ \A d \in Client \ {c} :
       /\ pipe'[d] = pipe[d] /\ pc'[d] = pc[d] /\ sent'[d] = sent[d]
       /\ handles'[d] = handles[d] /\ joined'[d] = joined[d]
       /\ serving'[d] = serving[d] /\ executed'[d] = executed[d]
       /\ delivered'[d] = delivered[d]

\* The invariant of another client survives it.
LEMMA OthersKeep ==
  ASSUME NEW c \in Client, OwnStep(c), NEW d \in Client, d # c, ClientInv(d)
  PROVE  ClientInv(d)'
  BY DEF OwnStep, OwnWork, ClientInv, Connection, Worker, Serves, Requested, Answered, Handle

\* So does what it holds.
LEMMA OthersHold ==
  ASSUME NEW c \in Client, OwnStep(c), NEW d \in Client, d # c
  PROVE  Held(d)' = Held(d)
  BY DEF OwnStep, OwnWork, Held, InFlight

\* The client itself comes to hold a handle only when the object is created.
LEMMA HeldKeeps ==
  ASSUME HeldInv, NEW c \in Client, OwnStep(c),
         \A m \in handles'[c] : m.run <= run,
         up => Held(c)' \subseteq Held(c) \cup (DOMAIN instances' \ DOMAIN instances),
         up => Held(c)' \subseteq DOMAIN instances'
  PROVE  HeldInv'
  <1>1. up' = up /\ run' = run /\ DOMAIN instances \subseteq DOMAIN instances'
    BY DEF OwnStep
  <1>2. ASSUME NEW d \in Client PROVE \A m \in handles'[d] : m.run <= run'
    BY <1>1, <1>2 DEF OwnStep, HeldInv
  <1>3. ASSUME NEW d \in Client, up PROVE Held(d)' \subseteq DOMAIN instances'
    <2>1. CASE d = c
      BY <1>3, <2>1
    <2>2. CASE d # c
      BY <1>1, <1>3, <2>2, OthersHold DEF HeldInv
    <2> QED BY <2>1, <2>2
  <1>4. ASSUME NEW d \in Client, d # c, up
        PROVE  Held(c)' \cap Held(d)' = {}
    <2>1. Held(d)' = Held(d) /\ Held(d) \subseteq DOMAIN instances /\ Held(c) \cap Held(d) = {}
      BY <1>4, OthersHold DEF HeldInv
    <2> QED BY <1>4, <2>1
  <1>5. ASSUME NEW d \in Client, NEW e \in Client, d # e, up
        PROVE  Held(d)' \cap Held(e)' = {}
    <2>1. CASE d = c \/ e = c
      BY <1>4, <1>5, <2>1
    <2>2. CASE d # c /\ e # c
      BY <1>5, <2>2, OthersHold DEF HeldInv
    <2> QED BY <2>1, <2>2
  <1> QED BY <1>1, <1>2, <1>3, <1>5 DEF HeldInv

\* What a step of one client has to be shown to keep.
LEMMA OwnStepKeeps ==
  ASSUME IInv, NEW c \in Client, OwnStep(c), TypeOK', ClientInv(c)',
         \A m \in handles'[c] : m.run <= run,
         up => Held(c)' \subseteq Held(c) \cup (DOMAIN instances' \ DOMAIN instances),
         up => Held(c)' \subseteq DOMAIN instances'
  PROVE  IInv'
  <1>1. HeldInv'
    BY HeldKeeps DEF IInv
  <1>2. \A d \in Client : ClientInv(d)'
    BY OthersKeep DEF IInv
  <1>3. MainInv'
    BY DEF IInv, MainInv, OwnStep
  <1> QED BY <1>1, <1>2, <1>3 DEF IInv

\* The same, if the client comes to hold nothing.
LEMMA QuietStepKeeps ==
  ASSUME IInv, NEW c \in Client, OwnStep(c), TypeOK', ClientInv(c)', handles'[c] = handles[c],
         up => Held(c)' \subseteq Held(c)
  PROVE  IInv'
  <1>1. \A m \in handles'[c] : m.run <= run
    BY DEF IInv, HeldInv
  <1>2. DOMAIN instances \subseteq DOMAIN instances' /\ (up => Held(c) \subseteq DOMAIN instances)
    BY DEF OwnStep, IInv, HeldInv
  <1>3. up => /\ Held(c)' \subseteq Held(c) \cup (DOMAIN instances' \ DOMAIN instances)
              /\ Held(c)' \subseteq DOMAIN instances'
    BY <1>2
  <1> QED BY <1>1, <1>3, OwnStepKeeps

-----------------------------------------------------------------------------
(* The steps of a client. *)

USE DEF mainVars

\* The parts of the invariant about one client, with the types.
LEMMA ClientFacts ==
  ASSUME IInv, NEW c \in Client
  PROVE  /\ Connection(c) /\ Worker(c) /\ Serves(c) /\ Requested(c) /\ Answered(c)
         /\ pipe \in [Client -> Instance] /\ pipe[c] \in Instance
         /\ pc \in [Client -> ClientPc] /\ sent \in [Client -> Nat] /\ sent[c] \in Nat
         /\ current \in [Client -> Command]
         /\ joined \in [Client -> 0 .. MaxRuns] /\ joined[c] \in Nat
         /\ serving \in [Client -> Nat] /\ serving[c] \in Nat
         /\ executed \in [Client -> Execution] /\ executed[c].id \in Nat
         /\ executed[c] = [id |-> executed[c].id, answer |-> executed[c].answer]
         /\ executed[c].answer \in Answer
         /\ delivered \in [Client -> Execution] /\ delivered[c].id \in Nat
         /\ run \in Nat /\ MaxRuns \in Nat
         /\ stage \in [Client -> Stage] /\ stage[c] \in Stage
         /\ command \in [Client -> Command] /\ answer \in [Client -> Answer]
  <1>1. TypeOK /\ ClientInv(c)
    BY DEF IInv
  <1>2. executed[c] \in Execution
    BY <1>1 DEF TypeOK
  <1>3. /\ executed[c].id \in Nat
        /\ executed[c] = [id |-> executed[c].id, answer |-> executed[c].answer]
    BY <1>2 DEF Execution
  <1> QED BY <1>1, <1>2, <1>3, SystemAssumption DEF TypeOK, DispatchTypeOK, ClientInv, Execution

LEMMA ConnectKeeps ==
  ASSUME IInv, NEW c \in Client, Connect(c)
  PROVE  IInv'
  <1>1. /\ pc[c] = "connect" /\ up /\ ~is_closed /\ UNCHANGED mainVars /\ run > 0
        /\ pipe' = [pipe EXCEPT ![c] = ClientOpened(FreshInstance)]
        /\ joined' = [joined EXCEPT ![c] = run]
        /\ stage' = [stage EXCEPT ![c] = "test"]
        /\ pc' = [pc EXCEPT ![c] = "good"]
        /\ UNCHANGED <<handle_counter, instances, command, answer, sent, current, handles,
                       serving, executed, delivered>>
    BY DEF Connect, Accepting, PipeBecomes, MoveTo, Goto, registryVars, historyVars, IInv, MainInv
  <1>2. OwnStep(c)
    BY <1>1, ClientFacts DEF OwnStep, OwnWork
  <1>3. TypeOK'
    <2>1. ClientOpened(FreshInstance) \in Instance /\ run \in 0 .. MaxRuns
      BY ClientFacts, InstanceTypes DEF IInv, TypeOK
    <2> QED BY <1>1, <2>1 DEF IInv, TypeOK, DispatchTypeOK, Stage, ClientPc
  <1>4. /\ pipe'[c] = ClientOpened(FreshInstance) /\ joined'[c] = run /\ stage'[c] = "test"
        /\ pc'[c] = "good"
    BY <1>1, ClientFacts
  <1>5. /\ pipe'[c].srv = "open" /\ pipe'[c].cli = "open"
        /\ pipe'[c].req = <<>> /\ pipe'[c].rsp = <<>>
    BY <1>4, OpenedFields
  <1>6. Connection(c)' /\ Requested(c)' /\ Answered(c)'
    <2>1. DOMAIN pipe'[c].req = {}
      BY <1>5
    <2>2. Requested(c)'
      BY <2>1 DEF Requested
    <2>3. run \in Nat
      BY ClientFacts
    <2>4. Connection(c)'
      BY <1>1, <1>4, <1>5, <2>3 DEF Connection
    <2> QED BY <1>5, <2>2, <2>4 DEF Answered
  <1>7. stage[c] = "gone"
    BY <1>1, ClientFacts DEF Connection
  <1>8. Worker(c)' /\ Serves(c)'
    BY <1>1, <1>4, <1>7, ClientFacts DEF Worker, Serves, Busy
  <1>9. Held(c)' \subseteq Held(c)
    BY <1>1, <1>4, <1>5 DEF Held, InFlight
  <1> QED BY <1>1, <1>2, <1>3, <1>6, <1>8, <1>9, QuietStepKeeps DEF ClientInv

LEMMA GiveUpKeeps ==
  ASSUME IInv, NEW c \in Client, GiveUp(c)
  PROVE  IInv'
  <1>1. /\ pc[c] = "connect" /\ pc' = [pc EXCEPT ![c] = "failed"]
        /\ UNCHANGED <<dispatchVars, mainVars, pipe, sent, current, handles, joined, serving,
                       executed, delivered>>
    BY DEF GiveUp, Goto, historyVars
  <1>2. OwnStep(c)
    BY <1>1, ClientFacts DEF OwnStep, OwnWork, dispatchVars, registryVars, workerVars
  <1>3. TypeOK'
    BY <1>1 DEF IInv, TypeOK, DispatchTypeOK, ClientPc, dispatchVars, registryVars, workerVars
  <1>4. pc'[c] = "failed"
    BY <1>1, ClientFacts
  <1>5. ClientInv(c)'
    BY <1>1, <1>4, ClientFacts DEF ClientInv, Connection, Worker, Serves, Requested, Answered,
         Handle, dispatchVars, registryVars, workerVars
  <1>6. Held(c)' = Held(c)
    BY <1>1 DEF Held, InFlight, dispatchVars, workerVars
  <1> QED BY <1>1, <1>2, <1>3, <1>5, <1>6, QuietStepKeeps

LEMMA EndOfDataKeeps ==
  ASSUME IInv, NEW c \in Client, EndOfData(c)
  PROVE  IInv'
  <1>1. /\ pc[c] = "good" /\ pc' = [pc EXCEPT ![c] = "returned"]
        /\ pipe' = [pipe EXCEPT ![c] = ClientClosed(pipe[c])]
        /\ UNCHANGED <<handle_counter, instances, stage, command, answer, mainVars, sent, current,
                       handles, joined, serving, executed, delivered>>
    BY DEF EndOfData, PipeBecomes, Goto, historyVars, dispatchVars, registryVars, workerVars
  <1>2. OwnStep(c)
    BY <1>1, ClientFacts DEF OwnStep, OwnWork
  <1>3. ClientClosed(pipe[c]) \in Instance
    BY ClientFacts, InstanceTypes
  <1>4. TypeOK'
    BY <1>1, <1>3 DEF IInv, TypeOK, DispatchTypeOK, ClientPc
  <1>5. pc'[c] = "returned" /\ pipe'[c] = ClientClosed(pipe[c])
    BY <1>1, ClientFacts
  <1>6. pipe'[c].srv = pipe[c].srv /\ pipe'[c].req = pipe[c].req /\ pipe'[c].rsp = <<>>
    <2>1. pipe[c] \in Instance
      BY ClientFacts
    <2> QED BY <1>5, <2>1, InstanceFields
  <1>7. ClientInv(c)'
    <2>1. Connection(c) /\ Worker(c) /\ Serves(c) /\ Requested(c) /\ Answered(c)
      BY ClientFacts
    <2>2. Connection(c)' /\ Worker(c)'
      BY <1>1, <1>5, <1>6, <2>1 DEF Connection, Worker
    <2>3. Serves(c)' /\ Requested(c)' /\ Answered(c)'
      BY <1>1, <1>5, <1>6, <2>1 DEF Serves, Requested, Answered, Handle
    <2> QED BY <2>2, <2>3 DEF ClientInv
  <1>8. Held(c)' \subseteq Held(c)
    BY <1>1, <1>6 DEF Held, InFlight
  <1> QED BY <1>1, <1>2, <1>4, <1>7, <1>8, QuietStepKeeps

\* What main draws is a command.
LEMMA RequestTypes ==
  ASSUME IInv, NEW c \in Client
  PROVE  Requests(c) \subseteq Command
  <1>1. handles \in [Client -> SUBSET [handle : Nat, run : 1 .. MaxRuns]]
    BY DEF IInv, TypeOK
  <1>2. Known(c) \subseteq Nat
    BY <1>1 DEF Known
  <1> QED BY <1>2 DEF Requests, Command

LEMMA SendKeeps ==
  ASSUME IInv, NEW c \in Client, NEW cmd \in Requests(c), Send(c, cmd)
  PROVE  IInv'
  <1> DEFINE m == [id |-> sent[c] + 1, command |-> cmd]
             n == sent[c] + 1
             wait == cmd.op \in {"create", "get", "set"}
  <1>1. sent \in [Client -> Nat] /\ sent[c] \in Nat /\ n \in Nat /\ pipe \in [Client -> Instance]
        /\ pipe[c] \in Instance /\ pc \in [Client -> ClientPc] /\ current \in [Client -> Command]
    <2>1. sent \in [Client -> Nat] /\ sent[c] \in Nat /\ pipe \in [Client -> Instance]
          /\ pipe[c] \in Instance /\ pc \in [Client -> ClientPc] /\ current \in [Client -> Command]
      BY ClientFacts, Zenon
    <2> QED BY <2>1
  <1>2. /\ pc[c] = "good" /\ n <= MaxRequests[c] /\ Connected(pipe[c])
        /\ sent' = [sent EXCEPT ![c] = n] /\ sent'[c] = n
        /\ pipe' = [pipe EXCEPT ![c] = ClientWritten(pipe[c], m)]
        /\ IF wait
             THEN /\ current' = [current EXCEPT ![c] = cmd]
                  /\ pc' = [pc EXCEPT ![c] = "wait"]
             ELSE UNCHANGED <<current, pc>>
        /\ UNCHANGED <<handle_counter, instances, stage, command, answer, mainVars, handles, joined,
                       serving, executed, delivered>>
    <2>1. /\ pc[c] = "good" /\ sent[c] < MaxRequests[c] /\ sent' = [sent EXCEPT ![c] = sent[c] + 1]
          /\ Connected(pipe[c])
          /\ pipe' = [pipe EXCEPT ![c] = ClientWritten(pipe[c], [id |-> sent'[c], command |-> cmd])]
          /\ IF wait
               THEN /\ current' = [current EXCEPT ![c] = cmd]
                    /\ pc' = [pc EXCEPT ![c] = "wait"]
               ELSE UNCHANGED <<current, pc>>
          /\ UNCHANGED <<handle_counter, instances, stage, command, answer, mainVars, handles,
                         joined, serving, executed, delivered>>
      BY DEF Send, SendThen, Issue, PipeBecomes, Goto, ClientCanWrite, historyVars, dispatchVars,
             registryVars, workerVars
    <2>2. sent'[c] = n
      BY <1>1, <2>1
    <2>3. MaxRequests[c] \in Nat
      BY SystemAssumption
    <2> QED BY <1>1, <2>1, <2>2, <2>3
  <1>3. m \in Message
    BY <1>1, RequestTypes DEF Message, RequestId
  <1> HIDE DEF m, n
  <1>4. ClientWritten(pipe[c], m) \in Instance
    BY <1>1, <1>3, InstanceTypes
  <1>5. OwnStep(c)
    BY <1>1, <1>2 DEF OwnStep, OwnWork
  <1>6. TypeOK'
    <2>1. pc' \in [Client -> ClientPc] /\ current' \in [Client -> Command]
      BY <1>1, <1>2, RequestTypes DEF ClientPc
    <2>2. pipe' \in [Client -> Instance] /\ sent' \in [Client -> Nat]
      BY <1>1, <1>2, <1>4
    <2>3. \A d \in Client : sent'[d] <= MaxRequests[d]
      BY <1>1, <1>2 DEF IInv, TypeOK
    <2>4. \A d \in Client : serving'[d] <= sent'[d]
      <3>1. sent[c] <= n
        BY <1>1 DEF n
      <3>2. serving[c] \in Nat /\ serving[c] <= sent[c]
        BY DEF IInv, TypeOK
      <3>3. \A d \in Client : serving[d] <= sent[d]
        BY DEF IInv, TypeOK
      <3> QED BY <1>1, <1>2, <3>1, <3>2, <3>3
    <2> QED BY <1>2, <2>1, <2>2, <2>3, <2>4 DEF IInv, TypeOK, DispatchTypeOK
  <1>7. /\ pipe'[c].srv = "open" /\ pipe'[c].cli = pipe[c].cli
        /\ pipe'[c].req = Append(pipe[c].req, m) /\ pipe'[c].rsp = pipe[c].rsp
        /\ pipe[c].req \in Seq(Message) /\ pipe[c].srv = "open"
    <2>1. pipe'[c] = ClientWritten(pipe[c], m)
      BY <1>1, <1>2
    <2>2. pipe[c].srv = "open"
      BY <1>2 DEF Connected
    <2> QED BY <1>1, <1>3, <2>1, <2>2, InstanceFields
  <1>8. IF wait THEN pc'[c] = "wait" ELSE pc'[c] = "good"
    BY <1>1, <1>2
  <1>9. /\ pipe[c].rsp = <<>>
        /\ ~(stage[c] \in Busy \cup {"reply"} /\ command[c].op \in Awaited)
        /\ executed[c].id < n /\ delivered[c].id < n /\ serving[c] < n
        /\ executed[c].id \in Nat /\ delivered[c].id \in Nat /\ serving[c] \in Nat
    <2>1. Worker(c) /\ Answered(c) /\ executed[c].id \in Nat /\ delivered[c].id \in Nat
      BY ClientFacts
    <2>2. serving[c] <= sent[c] /\ serving[c] \in Nat
      BY DEF IInv, TypeOK
    <2> QED BY <1>1, <1>2, <2>1, <2>2 DEF Worker, Answered, n
  <1>10. Connection(c)' /\ Serves(c)' /\ Answered(c)'
    <2>1. Connection(c) /\ Serves(c)
      BY ClientFacts
    <2> QED BY <1>2, <1>7, <1>8, <1>9, <2>1 DEF Connection, Serves, Answered, Handle
  <1>11. Worker(c)'
    <2>1. Worker(c)
      BY ClientFacts
    <2>2. executed'[c].id <= sent'[c] /\ delivered'[c].id < sent'[c] /\ delivered'[c].id <= sent'[c]
      BY <1>1, <1>2, <1>9
    <2>3. ~(stage'[c] \in Busy \cup {"reply"} /\ command'[c].op \in Awaited)
      BY <1>2, <1>9
    <2> QED BY <1>2, <2>1, <2>2, <2>3, Zenon DEF Worker
  <1>12. Requested(c)'
    <2> DEFINE q == pipe[c].req
    <2>1. /\ q \in Seq(Message) /\ Len(q) \in Nat /\ DOMAIN q = 1 .. Len(q)
          /\ DOMAIN Append(q, m) = 1 .. Len(q) + 1 /\ Append(q, m)[Len(q) + 1] = m
          /\ \A i \in 1 .. Len(q) : Append(q, m)[i] = q[i] /\ q[i].id \in Nat
      <3>1. q \in Seq(Message) /\ Len(q) \in Nat /\ DOMAIN q = 1 .. Len(q)
        BY <1>7, LenProperties
      <3>2. /\ Len(Append(q, m)) = Len(q) + 1 /\ Append(q, m) \in Seq(Message)
            /\ Append(q, m)[Len(q) + 1] = m
            /\ \A i \in 1 .. Len(q) : Append(q, m)[i] = q[i]
        BY <1>3, <3>1, AppendProperties
      <3>3. DOMAIN Append(q, m) = 1 .. Len(q) + 1
        BY <3>2, LenProperties
      <3>4. \A i \in 1 .. Len(q) : q[i] \in Message
        BY <3>1, ElementOfSeq
      <3>5. \A i \in 1 .. Len(q) : q[i].id \in Nat
        BY <3>4 DEF Message, RequestId
      <3> QED BY <3>1, <3>2, <3>3, <3>5
    <2>2. \A i \in 1 .. Len(q) :
            /\ executed[c].id < q[i].id /\ serving[c] < q[i].id /\ q[i].id <= sent[c]
            /\ q[i].command.op \notin Awaited
      BY <1>2, <1>7, <2>1, ClientFacts DEF Requested
    <2>3. \A i, j \in 1 .. Len(q) : i < j => q[i].id < q[j].id
      BY <1>7, <2>1, ClientFacts DEF Requested
    <2>4. m.id = n /\ n = sent[c] + 1 /\ m.command = cmd
      BY DEF m, n
    <2> HIDE DEF q
    <2>5. \A i \in 1 .. Len(q) + 1 :
            /\ executed[c].id < Append(q, m)[i].id /\ serving[c] < Append(q, m)[i].id
            /\ Append(q, m)[i].id <= n
      <3> SUFFICES ASSUME NEW i \in 1 .. Len(q) + 1
                   PROVE  /\ executed[c].id < Append(q, m)[i].id /\ serving[c] < Append(q, m)[i].id
                          /\ Append(q, m)[i].id <= n
        OBVIOUS
      <3>1. CASE i \in 1 .. Len(q)
        BY <1>1, <1>9, <2>1, <2>2, <2>4, <3>1
      <3>2. CASE i = Len(q) + 1
        BY <1>1, <1>9, <2>1, <2>4, <3>2
      <3> QED BY <2>1, <3>1, <3>2
    <2>6. \A i \in 1 .. Len(q) + 1 :
            Append(q, m)[i].command.op \in Awaited =>
              pc'[c] = "wait" /\ Append(q, m)[i].id = n
      <3> SUFFICES ASSUME NEW i \in 1 .. Len(q) + 1, Append(q, m)[i].command.op \in Awaited
                   PROVE  pc'[c] = "wait" /\ Append(q, m)[i].id = n
        OBVIOUS
      <3>1. i = Len(q) + 1
        BY <2>1, <2>2
      <3> QED BY <1>8, <2>1, <2>4, <3>1 DEF Awaited
    <2>7. \A i, j \in 1 .. Len(q) + 1 : i < j => Append(q, m)[i].id < Append(q, m)[j].id
      <3> SUFFICES ASSUME NEW i \in 1 .. Len(q) + 1, NEW j \in 1 .. Len(q) + 1, i < j
                   PROVE  Append(q, m)[i].id < Append(q, m)[j].id
        OBVIOUS
      <3>1. i \in 1 .. Len(q)
        BY <2>1
      <3>2. CASE j \in 1 .. Len(q)
        BY <2>1, <2>3, <3>1, <3>2
      <3>3. CASE j = Len(q) + 1
        BY <1>1, <2>1, <2>2, <2>4, <3>1, <3>3
      <3> QED BY <2>1, <3>2, <3>3
    <2>8. pipe'[c].req = Append(q, m) /\ executed' = executed /\ serving' = serving /\ sent'[c] = n
      BY <1>2, <1>7 DEF q
    <2> QED BY <2>1, <2>5, <2>6, <2>7, <2>8 DEF Requested
  <1>13. Held(c)' = Held(c)
    BY <1>2, <1>7 DEF Held, InFlight
  <1> QED BY <1>2, <1>5, <1>6, <1>10, <1>11, <1>12, <1>13, QuietStepKeeps DEF ClientInv

LEMMA SendFailsKeeps ==
  ASSUME IInv, NEW c \in Client, SendFails(c)
  PROVE  IInv'
  <1> DEFINE n     == sent[c] + 1
             label == IF PipeIsBeingClosed(pipe[c]) THEN "connect" ELSE "failed"
  <1>1. /\ sent \in [Client -> Nat] /\ sent[c] \in Nat /\ pipe \in [Client -> Instance]
        /\ pipe[c] \in Instance /\ pc \in [Client -> ClientPc]
        /\ joined \in [Client -> 0 .. MaxRuns] /\ MaxRuns \in Nat /\ run \in Nat
    BY ClientFacts, Zenon
  <1>2. /\ pc[c] = "good" /\ sent[c] < MaxRequests[c] /\ pipe[c].srv # "open"
        /\ sent' = [sent EXCEPT ![c] = n]
        /\ pipe' = [pipe EXCEPT ![c] = ClientClosed(pipe[c])]
        /\ joined' = [joined EXCEPT ![c] = 0]
        /\ pc' = [pc EXCEPT ![c] = label]
        /\ UNCHANGED <<handle_counter, instances, stage, command, answer, mainVars, current,
                       handles, serving, executed, delivered>>
    BY DEF SendFails, Issue, PipeBecomes, Goto, ClientWriteFails, historyVars, dispatchVars,
           registryVars, workerVars
  <1>3. n \in Nat /\ n <= MaxRequests[c] /\ sent[c] < n
    <2>1. MaxRequests[c] \in Nat
      BY SystemAssumption
    <2> QED BY <1>1, <1>2, <2>1
  <1>4. label \in {"connect", "failed"}
    OBVIOUS
  <1> HIDE DEF n, label
  <1>5. sent'[c] = n /\ pipe'[c] = ClientClosed(pipe[c]) /\ joined'[c] = 0 /\ pc'[c] = label
    BY <1>1, <1>2
  <1>6. pipe'[c].srv = pipe[c].srv /\ pipe'[c].rsp = <<>>
    BY <1>1, <1>5, InstanceFields
  <1>7. ClientClosed(pipe[c]) \in Instance
    BY <1>1, InstanceTypes
  <1>8. OwnStep(c)
    BY <1>1, <1>2 DEF OwnStep, OwnWork
  <1>9. TypeOK'
    <2>1. /\ pc' \in [Client -> ClientPc] /\ pipe' \in [Client -> Instance]
          /\ sent' \in [Client -> Nat] /\ joined' \in [Client -> 0 .. MaxRuns]
      BY <1>1, <1>2, <1>3, <1>4, <1>7 DEF ClientPc
    <2>2. \A d \in Client : sent'[d] <= MaxRequests[d]
      BY <1>1, <1>2, <1>3 DEF IInv, TypeOK
    <2>3. serving \in [Client -> Nat] /\ \A d \in Client : serving[d] <= sent[d]
      BY DEF IInv, TypeOK
    <2>4. \A d \in Client : serving'[d] <= sent'[d]
      <3>1. serving[c] <= n
        BY <1>1, <1>3, <2>3
      <3> QED BY <1>1, <1>2, <2>3, <3>1
    <2> QED BY <1>2, <2>1, <2>2, <2>4 DEF IInv, TypeOK, DispatchTypeOK
  <1>10. stage[c] \in {"gone", "test"} /\ (stage[c] = "test" => up /\ is_closed)
    BY <1>2, ClientFacts DEF Connection
  <1>11. Connection(c)'
    BY <1>1, <1>2, <1>4, <1>5, <1>6, <1>10 DEF Connection
  <1>12. Worker(c)'
    <2>1. Worker(c) /\ executed[c].id \in Nat /\ delivered[c].id \in Nat
      BY ClientFacts
    <2>2. executed'[c].id <= sent'[c] /\ delivered'[c].id <= sent'[c]
      BY <1>1, <1>2, <1>3, <1>5, <2>1 DEF Worker
    <2> QED BY <1>2, <1>4, <1>5, <1>10, <2>1, <2>2 DEF Worker, Busy
  <1>13. Serves(c)' /\ Requested(c)' /\ Answered(c)'
    BY <1>2, <1>6, <1>10, ClientFacts DEF Serves, Requested, Answered, Handle
  <1>14. Held(c)' \subseteq Held(c)
    BY <1>2, <1>6, <1>10 DEF Held, InFlight
  <1> QED BY <1>2, <1>8, <1>9, <1>11, <1>12, <1>13, <1>14, QuietStepKeeps DEF ClientInv

\* With the answer of the last request no request is left to be served.
LEMMA AnswerIsLast ==
  ASSUME IInv, NEW c \in Client, pipe[c].rsp # <<>>
  PROVE  /\ Head(pipe[c].rsp) = executed[c]
         /\ stage[c] \in {"gone", "test", "idle"}
         /\ pipe[c].srv = "open" => pipe[c].req = <<>>
  <1>1. Answered(c) /\ Requested(c)
    BY ClientFacts
  <1>2. pipe[c].rsp = <<executed[c]>> /\ executed[c].id = sent[c] /\ stage[c] \in {"gone", "test", "idle"}
    BY <1>1 DEF Answered
  <1>3. pipe[c] \in Instance /\ executed[c].id \in Nat
    BY ClientFacts
  <1>4. pipe[c].req \in Seq(Message)
    BY <1>3 DEF Instance
  <1>5. ASSUME pipe[c].srv = "open", pipe[c].req # <<>> PROVE FALSE
    <2>1. 1 \in DOMAIN pipe[c].req /\ pipe[c].req[1] \in Message
      BY <1>4, <1>5, EmptySeq, LenProperties, ElementOfSeq
    <2>2. executed[c].id < pipe[c].req[1].id /\ pipe[c].req[1].id <= sent[c]
      BY <1>1, <1>5, <2>1 DEF Requested
    <2>3. pipe[c].req[1].id \in Nat
      BY <2>1 DEF Message, RequestId
    <2> QED BY <1>2, <1>3, <2>2, <2>3
  <1> QED BY <1>2, <1>5

LEMMA ReadAnswerKeeps ==
  ASSUME IInv, NEW c \in Client, ReadAnswer(c)
  PROVE  IInv' /\ delivered' = [delivered EXCEPT ![c] = executed[c]]
  <1> DEFINE a   == executed[c].answer
             new == [handle |-> a.value, run |-> joined[c]]
             own == IF a.kind = "handle" THEN handles[c] \cup {new} ELSE handles[c]
  <1>1. /\ pipe \in [Client -> Instance] /\ pipe[c] \in Instance /\ pc \in [Client -> ClientPc]
        /\ delivered \in [Client -> Execution] /\ current \in [Client -> Command]
        /\ executed[c] = [id |-> executed[c].id, answer |-> a] /\ a \in Answer
        /\ joined[c] \in 0 .. MaxRuns /\ MaxRuns \in Nat /\ run \in Nat
    BY ClientFacts, Zenon
  <1>2. handles \in [Client -> SUBSET [handle : Nat, run : 1 .. MaxRuns]]
    BY DEF IInv, TypeOK
  <1>3. pc[c] = "wait" /\ pipe[c].rsp # <<>>
    BY DEF ReadAnswer, ClientReadReturns
  <1>4. /\ Head(pipe[c].rsp) = executed[c] /\ stage[c] \in {"gone", "test", "idle"}
        /\ pipe[c].srv = "open" => pipe[c].req = <<>>
    BY <1>3, AnswerIsLast
  <1>5. /\ pipe' = [pipe EXCEPT ![c] = ClientDrained(pipe[c])]
        /\ handles' = IF a.kind = "handle" THEN [handles EXCEPT ![c] = @ \cup {new}] ELSE handles
        /\ delivered' = [delivered EXCEPT ![c] = [id |-> executed[c].id, answer |-> a]]
        /\ pc' = [pc EXCEPT ![c] = "good"]
        /\ current' = [current EXCEPT ![c] = NoCommand]
        /\ UNCHANGED <<handle_counter, instances, stage, command, answer, mainVars, sent, joined,
                       serving, executed>>
    BY <1>4 DEF ReadAnswer, PipeBecomes, Goto, DropRequest, dispatchVars, registryVars, workerVars
  <1>6. delivered' = [delivered EXCEPT ![c] = executed[c]]
    BY <1>1, <1>5
  <1>7. joined[c] \in 1 .. MaxRuns /\ joined[c] <= run
    BY <1>1, <1>3, ClientFacts DEF Connection
  <1>8. new \in [handle : Nat, run : 1 .. MaxRuns]
    BY <1>1, <1>7 DEF Answer
  <1>9. handles' = [handles EXCEPT ![c] = own]
    BY <1>2, <1>5
  <1> HIDE DEF own
  <1>10. /\ handles'[c] = own /\ pc'[c] = "good" /\ pipe'[c] = ClientDrained(pipe[c])
         /\ delivered'[c] = executed[c]
    BY <1>1, <1>2, <1>5, <1>6, <1>9
  <1>11. /\ pipe'[c].srv = pipe[c].srv /\ pipe'[c].cli = pipe[c].cli
         /\ pipe'[c].req = pipe[c].req /\ pipe'[c].rsp = <<>>
    BY <1>1, <1>10, InstanceFields
  <1>12. OwnStep(c)
    BY <1>1, <1>2, <1>5, <1>6, <1>9 DEF OwnStep, OwnWork
  <1>13. TypeOK'
    <2>1. own \subseteq [handle : Nat, run : 1 .. MaxRuns]
      BY <1>2, <1>8 DEF own
    <2>2. handles' \in [Client -> SUBSET [handle : Nat, run : 1 .. MaxRuns]]
      BY <1>2, <1>9, <2>1
    <2>3. ClientDrained(pipe[c]) \in Instance /\ executed[c] \in Execution /\ NoCommand \in Command
      BY <1>1, InstanceTypes, ConstantTypes DEF IInv, TypeOK
    <2>4. /\ pipe' \in [Client -> Instance] /\ delivered' \in [Client -> Execution]
          /\ pc' \in [Client -> ClientPc] /\ current' \in [Client -> Command]
      BY <1>1, <1>5, <1>6, <2>3 DEF ClientPc
    <2> QED BY <1>5, <2>2, <2>4 DEF IInv, TypeOK, DispatchTypeOK
  <1>14. Connection(c)' /\ Serves(c)' /\ Answered(c)'
    <2>1. Connection(c) /\ Serves(c)
      BY ClientFacts
    <2> QED BY <1>3, <1>5, <1>10, <1>11, <2>1 DEF Connection, Serves, Answered, Handle
  <1>15. Worker(c)'
    <2>1. Worker(c)
      BY ClientFacts
    <2> QED BY <1>4, <1>5, <1>10, <2>1 DEF Worker, Busy
  <1>16. Requested(c)'
    <2>1. pipe'[c].srv = "open" => DOMAIN pipe'[c].req = {}
      BY <1>4, <1>11
    <2> QED BY <2>1 DEF Requested
  <1>17. \A m \in handles'[c] : m.run <= run
    BY <1>7, <1>10 DEF own, IInv, HeldInv
  <1>18. up => Held(c)' \subseteq Held(c)
    <2>1. Held(c)' = {m.handle : m \in {n \in own : n.run = run}}
      BY <1>4, <1>5, <1>10, <1>11 DEF Held, InFlight
    <2>2. \A n \in own : n \in handles[c] \/ (a.kind = "handle" /\ n = new)
      BY DEF own
    <2>3. \A n \in handles[c] : n.run = run => n.handle \in Held(c)
      BY DEF Held
    <2>4. a.kind = "handle" /\ new.run = run => new.handle \in Held(c)
      BY <1>3 DEF Held, InFlight
    <2> QED BY <2>1, <2>2, <2>3, <2>4
  <1>19. DOMAIN instances' = DOMAIN instances /\ (up => Held(c) \subseteq DOMAIN instances)
    BY <1>5 DEF IInv, HeldInv
  <1>20. ClientInv(c)'
    BY <1>14, <1>15, <1>16 DEF ClientInv
  <1>21. up => /\ Held(c)' \subseteq Held(c) \cup (DOMAIN instances' \ DOMAIN instances)
               /\ Held(c)' \subseteq DOMAIN instances'
    BY <1>18, <1>19
  <1> QED BY <1>6, <1>12, <1>13, <1>17, <1>20, <1>21, OwnStepKeeps

LEMMA AnswerFailsKeeps ==
  ASSUME IInv, NEW c \in Client, AnswerFails(c)
  PROVE  IInv'
  <1>1. /\ pc[c] = "wait" /\ pipe[c].srv # "open" /\ pipe[c].rsp = <<>>
        /\ pc' = [pc EXCEPT ![c] = "good"]
        /\ current' = [current EXCEPT ![c] = NoCommand]
        /\ UNCHANGED <<handle_counter, instances, stage, command, answer, mainVars, pipe, sent,
                       handles, joined, serving, executed, delivered>>
    BY DEF AnswerFails, ClientReadFails, Goto, DropRequest, historyVars, dispatchVars,
           registryVars, workerVars
  <1>2. OwnStep(c)
    BY <1>1, ClientFacts DEF OwnStep, OwnWork
  <1>3. TypeOK'
    BY <1>1, ConstantTypes DEF IInv, TypeOK, DispatchTypeOK, ClientPc
  <1>4. pc'[c] = "good"
    BY <1>1, ClientFacts
  <1>5. stage[c] \in {"gone", "test"}
    BY <1>1, ClientFacts DEF Connection
  <1>6. ClientInv(c)'
    BY <1>1, <1>4, <1>5, ClientFacts DEF ClientInv, Connection, Worker, Serves, Requested,
         Answered, Handle, Busy
  <1>7. Held(c)' = Held(c)
    BY <1>1 DEF Held, InFlight
  <1> QED BY <1>1, <1>2, <1>3, <1>6, <1>7, QuietStepKeeps

-----------------------------------------------------------------------------
(* The steps of a worker. *)

\* The steps of a worker keep the client's variables.
LEMMA WorkerTypes ==
  ASSUME IInv, NEW c \in Client, DispatchTypeOK', NEW p \in Instance, NEW n \in Nat,
         NEW e \in Execution, n <= sent[c],
         pipe' = [pipe EXCEPT ![c] = p], serving' = [serving EXCEPT ![c] = n],
         executed' = [executed EXCEPT ![c] = e],
         UNCHANGED <<mainVars, pc, sent, current, handles, joined, delivered>>,
         OwnWork(c), DOMAIN instances \subseteq DOMAIN instances'
  PROVE  /\ TypeOK' /\ OwnStep(c)
         /\ pipe'[c] = p /\ serving'[c] = n /\ executed'[c] = e
  <1>1. /\ pipe \in [Client -> Instance] /\ serving \in [Client -> Nat]
        /\ executed \in [Client -> Execution]
    BY DEF IInv, TypeOK
  <1>2. pipe'[c] = p /\ serving'[c] = n /\ executed'[c] = e
    BY <1>1
  <1>3. OwnStep(c)
    BY <1>1 DEF OwnStep
  <1>4. \A d \in Client : serving'[d] <= sent'[d]
    BY <1>1 DEF IInv, TypeOK
  <1> QED BY <1>1, <1>2, <1>3, <1>4 DEF IInv, TypeOK

LEMMA WorkerTestsKeeps ==
  ASSUME IInv, NEW c \in Client, WorkerTests(c)
  PROVE  IInv' /\ UNCHANGED Session!vars
  <1>1. /\ stage[c] = "test" /\ stage' = [stage EXCEPT ![c] = IF is_closed THEN "gone" ELSE "idle"]
        /\ UNCHANGED <<handle_counter, instances, command, answer, mainVars, pipe, pc, sent,
                       current, handles, joined, delivered, serving, executed>>
    BY DEF WorkerTests, MoveTo, registryVars, clientVars
  <1>2. stage \in [Client -> Stage]
    BY DEF IInv, TypeOK, DispatchTypeOK
  <1>3. TypeOK'
    BY <1>1, <1>2 DEF IInv, TypeOK, DispatchTypeOK, Stage
  <1>4. OwnStep(c)
    BY <1>1, <1>2 DEF OwnStep, OwnWork
  <1>5. stage'[c] \in {"gone", "idle"} /\ (stage'[c] = "idle" => ~is_closed)
    BY <1>1, <1>2
  <1>6. Connection(c) /\ Worker(c) /\ Requested(c) /\ Answered(c)
    BY ClientFacts
  <1>7. Connection(c)' /\ Worker(c)'
    BY <1>1, <1>5, <1>6 DEF Connection, Worker, Busy
  <1>8. Serves(c)' /\ Requested(c)' /\ Answered(c)'
    BY <1>1, <1>5, <1>6 DEF Serves, Requested, Answered
  <1>9. Held(c)' \subseteq Held(c)
    BY <1>1, <1>5 DEF Held, InFlight
  <1> QED BY <1>1, <1>3, <1>4, <1>7, <1>8, <1>9, QuietStepKeeps DEF ClientInv, Session!vars

LEMMA WorkerReadsKeeps ==
  ASSUME IInv, NEW c \in Client, WorkerReads(c)
  PROVE  IInv' /\ (Session!Execute(c) \/ UNCHANGED Session!vars)
  <1> DEFINE q   == pipe[c].req
             m   == Head(q)
             id  == m.id
             cmd == m.command
             e   == IF stage'[c] = "reply" THEN [id |-> id, answer |-> NoAnswer] ELSE executed[c]
  <1>1. /\ pipe \in [Client -> Instance] /\ pipe[c] \in Instance /\ sent[c] \in Nat
        /\ serving \in [Client -> Nat] /\ executed \in [Client -> Execution]
        /\ executed[c].id \in Nat /\ executed[c] \in Execution
        /\ DispatchTypeOK /\ instances \in [DOMAIN instances -> Value]
    <2>1. /\ pipe \in [Client -> Instance] /\ pipe[c] \in Instance /\ sent[c] \in Nat
          /\ serving \in [Client -> Nat] /\ executed \in [Client -> Execution]
          /\ executed[c].id \in Nat
      BY ClientFacts, Zenon
    <2>2. DispatchTypeOK
      BY DEF IInv, TypeOK
    <2> QED BY <2>1, <2>2 DEF DispatchTypeOK
  <1>2. /\ pipe[c].srv = "open" /\ q # <<>> /\ ParseRequest(c, cmd) /\ Recorded(c, id)
        /\ serving' = [serving EXCEPT ![c] = id]
        /\ pipe' = [pipe EXCEPT ![c] = MessageRead(pipe[c])]
        /\ UNCHANGED <<mainVars, pc, sent, current, handles, joined, delivered>>
    BY DEF WorkerReads, ReadReturnsMessage, PipeBecomes, clientVars
  <1>3. MessageRead(pipe[c]) \in Instance /\ m \in Message
    BY <1>1, <1>2, InstanceTypes
  <1>4. id \in Nat /\ id > 0 /\ cmd \in Command
    BY <1>3 DEF Message, RequestId
  <1>5. /\ q \in Seq(Message) /\ Len(q) \in Nat /\ DOMAIN q = 1 .. Len(q) /\ 1 \in DOMAIN q
        /\ m = q[1] /\ DOMAIN Tail(q) = 1 .. Len(q) - 1
        /\ \A i \in 1 .. Len(q) - 1 : Tail(q)[i] = q[i + 1]
        /\ \A i \in 1 .. Len(q) : q[i].id \in Nat
    <2>1. q \in Seq(Message)
      BY <1>1 DEF Instance
    <2>2. Len(q) \in Nat /\ DOMAIN q = 1 .. Len(q)
      BY <2>1, LenProperties
    <2>3. Len(q) > 0
      BY <1>2, <2>1, <2>2, EmptySeq, LenProperties
    <2>4. /\ m = q[1] /\ Tail(q) \in Seq(Message) /\ Len(Tail(q)) = Len(q) - 1
          /\ \A i \in 1 .. Len(q) - 1 : Tail(q)[i] = q[i + 1]
      BY <1>2, <2>1, <2>2, HeadTailProperties
    <2>5. DOMAIN Tail(q) = 1 .. Len(q) - 1
      BY <2>4, LenProperties
    <2>6. \A i \in 1 .. Len(q) : q[i] \in Message
      BY <2>1, ElementOfSeq
    <2>7. \A i \in 1 .. Len(q) : q[i].id \in Nat
      BY <2>6 DEF Message, RequestId
    <2>8. 1 \in DOMAIN q
      BY <2>2, <2>3
    <2> QED BY <2>1, <2>2, <2>4, <2>5, <2>7, <2>8
  <1>6. /\ executed[c].id < id /\ id <= sent[c]
        /\ cmd.op \in Awaited => pc[c] = "wait" /\ id = sent[c]
    <2>1. Requested(c)
      BY ClientFacts
    <2> QED BY <1>2, <1>5, <2>1 DEF Requested
  <1>7. /\ DispatchTypeOK' /\ OwnWork(c) /\ instances' = instances
        /\ stage[c] = "idle" /\ command'[c] = cmd /\ answer'[c] = NoAnswer
        /\ \/ cmd.op = "plain" /\ stage'[c] = "reply"
           \/ cmd.op = "create" /\ stage'[c] = "create"
           \/ cmd.op \in ObjectOp /\ stage'[c] = "lookup"
    BY <1>1, <1>2, <1>4, ParseEffect, Zenon
  <1>8. executed' = [executed EXCEPT ![c] = e]
    BY <1>1, <1>2, <1>7 DEF Recorded
  <1>9. e \in Execution /\ (stage'[c] # "reply" => e = executed[c])
    BY <1>1, <1>4, ConstantTypes DEF Execution
  <1>10. stage'[c] = "reply" => e.id = id /\ e.answer = NoAnswer
    OBVIOUS
  <1> HIDE DEF e, m, id, cmd
  <1>11. /\ TypeOK' /\ OwnStep(c)
         /\ pipe'[c] = MessageRead(pipe[c]) /\ serving'[c] = id /\ executed'[c] = e
    BY <1>2, <1>3, <1>4, <1>6, <1>7, <1>8, <1>9, WorkerTypes
  <1>12. /\ pipe'[c].srv = pipe[c].srv /\ pipe'[c].cli = pipe[c].cli
         /\ pipe'[c].req = Tail(q) /\ pipe'[c].rsp = pipe[c].rsp
    BY <1>1, <1>11, InstanceFields
  <1>13. pipe[c].rsp = <<>>
    BY <1>2, AnswerIsLast
  <1>14. Connection(c)' /\ Answered(c)'
    <2>1. Connection(c)
      BY ClientFacts
    <2> QED BY <1>2, <1>12, <1>13, <2>1 DEF Connection, Answered
  <1>15. Serves(c)'
    BY <1>7 DEF Serves, ObjectOp
  <1>16. Worker(c)'
    <2>1. Worker(c) /\ delivered'[c] = delivered[c] /\ pc'[c] = pc[c] /\ sent'[c] = sent[c]
      BY <1>2, ClientFacts
    <2>2. executed'[c].id <= sent[c]
      BY <1>1, <1>4, <1>6, <1>9, <1>10, <1>11
    <2>3. stage'[c] = "reply" => executed'[c] = [id |-> serving'[c], answer |-> answer'[c]]
      BY <1>7, <1>11 DEF e
    <2>4. stage'[c] \in Busy => executed'[c].id < serving'[c]
      BY <1>6, <1>9, <1>11 DEF Busy
    <2> QED BY <1>6, <1>7, <1>11, <2>1, <2>2, <2>3, <2>4 DEF Worker
  <1>17. Requested(c)'
    <2>1. /\ \A i \in 1 .. Len(q) :
               /\ executed[c].id < q[i].id /\ q[i].id <= sent[c]
               /\ q[i].command.op \in Awaited => pc[c] = "wait" /\ q[i].id = sent[c]
          /\ \A i, j \in 1 .. Len(q) : i < j => q[i].id < q[j].id
      BY <1>2, <1>5, ClientFacts DEF Requested
    <2>2. q[1].id = id
      BY <1>5 DEF id
    <2> HIDE DEF q
    <2>3. \A i \in 1 .. Len(q) - 1 : i + 1 \in 1 .. Len(q) /\ 1 < i + 1 /\ 1 \in 1 .. Len(q)
      BY <1>5
    <2>4. \A i \in 1 .. Len(q) - 1 : id < q[i + 1].id
      BY <2>1, <2>2, <2>3
    <2>5. \A i \in 1 .. Len(q) - 1 :
            /\ id < Tail(q)[i].id /\ executed[c].id < Tail(q)[i].id /\ Tail(q)[i].id <= sent[c]
            /\ Tail(q)[i].command.op \in Awaited => pc[c] = "wait" /\ Tail(q)[i].id = sent[c]
      BY <1>5, <2>1, <2>3, <2>4
    <2>6. \A i \in 1 .. Len(q) - 1 : e.id < Tail(q)[i].id
      BY <1>9, <1>10, <2>5
    <2>7. \A i, j \in 1 .. Len(q) - 1 : i < j => Tail(q)[i].id < Tail(q)[j].id
      BY <1>5, <2>1, <2>3
    <2>8. pipe'[c].req = Tail(q) /\ sent'[c] = sent[c] /\ pc'[c] = pc[c]
      BY <1>2, <1>12
    <2> QED BY <1>5, <1>11, <2>5, <2>6, <2>7, <2>8 DEF Requested
  <1>18. Held(c)' \subseteq Held(c)
    <2>1. InFlight(c)' => executed'[c].answer.kind # "handle"
      BY <1>10, <1>11, <1>12, <1>13, ConstantTypes DEF InFlight
    <2> QED BY <1>2, <2>1 DEF Held
  <1>19. IInv'
    BY <1>2, <1>11, <1>14, <1>15, <1>16, <1>17, <1>18, QuietStepKeeps DEF ClientInv
  <1>20. CASE stage'[c] = "reply"
    <2>1. e = [id |-> id, answer |-> NoAnswer]
      BY <1>20 DEF e
    <2>2. e \in [id : executed[c].id + 1 .. sent[c], answer : Result]
      BY <1>1, <1>4, <1>6, <2>1, ConstantTypes
    <2>3. e.answer.kind # "handle"
      BY <2>1, ConstantTypes
    <2>4. Session!Execute(c)
      BY <1>2, <1>7, <1>8, <1>11, <2>2, <2>3 DEF Session!Execute
    <2> QED BY <1>19, <2>4
  <1>21. CASE stage'[c] # "reply"
    <2>1. executed' = executed
      BY <1>1, <1>8, <1>9, <1>21
    <2> QED BY <1>2, <1>7, <1>19, <2>1 DEF Session!vars
  <1> QED BY <1>20, <1>21

\* The ids of the requests in a pipe.
LEMMA RequestIds ==
  ASSUME NEW p \in Instance
  PROVE  \A i \in DOMAIN p.req : p.req[i].id \in Nat /\ p.req[i].id > 0
  <1>1. p.req \in Seq(Message)
    BY DEF Instance
  <1>2. \A i \in DOMAIN p.req : p.req[i] \in Message
    BY <1>1, ElementOfSeq, LenProperties
  <1> QED BY <1>2 DEF Message, RequestId

LEMMA WorkerExecutesKeeps ==
  ASSUME IInv, NEW c \in Client, WorkerExecutes(c)
  PROVE  IInv' /\ (Session!Execute(c) \/ UNCHANGED Session!vars)
  <1> DEFINE id == serving[c]
             e  == IF stage'[c] = "reply" THEN [id |-> id, answer |-> answer'[c]] ELSE executed[c]
  <1>1. /\ pipe \in [Client -> Instance] /\ pipe[c] \in Instance /\ sent[c] \in Nat
        /\ serving \in [Client -> Nat] /\ executed \in [Client -> Execution]
        /\ executed[c].id \in Nat /\ executed[c] \in Execution /\ DispatchTypeOK
        /\ id \in Nat /\ id <= sent[c]
    <2>1. /\ pipe \in [Client -> Instance] /\ pipe[c] \in Instance /\ sent[c] \in Nat
          /\ serving \in [Client -> Nat] /\ executed \in [Client -> Execution]
          /\ executed[c].id \in Nat
      BY ClientFacts, Zenon
    <2>2. DispatchTypeOK /\ id <= sent[c]
      BY DEF IInv, TypeOK
    <2> QED BY <2>1, <2>2
  <1>2. /\ Execute(c) /\ Recorded(c, id)
        /\ UNCHANGED <<mainVars, pipe, pc, sent, current, handles, joined, delivered, serving>>
    BY DEF WorkerExecutes, clientVars
  <1>3. Connection(c) /\ Worker(c) /\ Serves(c) /\ Requested(c) /\ Answered(c)
    BY ClientFacts
  <1>4. /\ DispatchTypeOK' /\ OwnWork(c) /\ command' = command
        /\ stage[c] \in Busy
        /\ DOMAIN instances \subseteq DOMAIN instances'
        /\ \/ stage'[c] = "reply" /\ Answering(c)
           \/ /\ stage'[c] \in {"call", "store"} /\ answer'[c] = answer[c]
              /\ Handle(c) \in DOMAIN instances
              /\ stage'[c] = "store" => command[c].op = "set"
              /\ DOMAIN instances' = DOMAIN instances
    BY <1>1, <1>2, <1>3, ExecuteEffect
  <1>5. executed[c].id < id
    BY <1>3, <1>4 DEF Worker
  <1>6. executed' = [executed EXCEPT ![c] = e]
    BY <1>1, <1>2 DEF Recorded
  <1>7. stage'[c] # "reply" => e = executed[c]
    OBVIOUS
  <1>8. stage'[c] = "reply" => e = [id |-> id, answer |-> answer'[c]]
    OBVIOUS
  <1> HIDE DEF e, id
  <1>9. stage'[c] = "reply" => answer'[c] \in Result /\ answer'[c] \in Answer
    BY <1>4, ConstantTypes DEF Answering
  <1>10. e \in Execution /\ e.id <= sent[c]
    <2>1. executed[c].id <= sent[c]
      BY <1>3 DEF Worker
    <2> QED BY <1>1, <1>7, <1>8, <1>9, <2>1 DEF Execution
  <1>11. pipe' = [pipe EXCEPT ![c] = pipe[c]] /\ serving' = [serving EXCEPT ![c] = id]
    BY <1>1, <1>2 DEF id
  <1>12. /\ TypeOK' /\ OwnStep(c)
         /\ pipe'[c] = pipe[c] /\ serving'[c] = id /\ executed'[c] = e
    BY <1>1, <1>2, <1>4, <1>6, <1>10, <1>11, WorkerTypes
  <1>13. pipe[c].rsp = <<>>
    BY <1>4, AnswerIsLast DEF Busy
  <1>14. pipe[c].srv = "open"
    BY <1>3, <1>4 DEF Connection, Busy
  <1>15. Connection(c)' /\ Answered(c)'
    BY <1>2, <1>3, <1>13, <1>14 DEF Connection, Answered
  <1>16. Serves(c)'
    <2>1. stage'[c] \in {"call", "store"} => Handle(c) \in DOMAIN instances'
      BY <1>4
    <2>2. command'[c] = command[c] /\ stage'[c] # "create"
      BY <1>4
    <2>3. stage'[c] = "reply" /\ answer'[c] # NoAnswer => command'[c].op \in Awaited
      BY <1>4 DEF Answering
    <2> QED BY <1>4, <2>1, <2>2, <2>3 DEF Serves, Handle
  <1>17. Worker(c)'
    <2>1. /\ delivered'[c] = delivered[c] /\ pc'[c] = pc[c] /\ sent'[c] = sent[c]
          /\ command'[c] = command[c]
      BY <1>2, <1>4
    <2>2. command[c].op \in Awaited => pc[c] = "wait" /\ id = sent[c]
      BY <1>3, <1>4 DEF Worker, id
    <2>3. stage'[c] = "reply" => executed'[c] = [id |-> serving'[c], answer |-> answer'[c]]
      BY <1>8, <1>12
    <2>4. stage'[c] \in Busy => executed'[c].id < serving'[c]
      BY <1>5, <1>7, <1>12 DEF Busy
    <2>5. stage'[c] \notin {"gone", "test", "idle"}
      BY <1>4
    <2>6. executed'[c].id <= sent[c]
      BY <1>10, <1>12
    <2> QED BY <1>3, <1>12, <2>1, <2>2, <2>3, <2>4, <2>5, <2>6 DEF Worker
  <1>18. Requested(c)'
    <2>1. e.id <= id
      BY <1>1, <1>5, <1>7, <1>8
    <2>2. \A i \in DOMAIN pipe[c].req : pipe[c].req[i].id \in Nat
      BY <1>1, RequestIds
    <2>3. e.id \in Nat
      BY <1>1, <1>7, <1>8
    <2>4. \A i \in DOMAIN pipe[c].req : id < pipe[c].req[i].id
      BY <1>3, <1>14 DEF Requested, id
    <2>5. \A i \in DOMAIN pipe[c].req : e.id < pipe[c].req[i].id
      BY <1>1, <2>1, <2>2, <2>3, <2>4
    <2>6. UNCHANGED <<pipe, sent, pc, serving>> /\ executed'[c] = e
      BY <1>2, <1>12
    <2> QED BY <1>3, <2>5, <2>6 DEF Requested
  <1>19. Held(c)' \subseteq Held(c) \cup (DOMAIN instances' \ DOMAIN instances)
    <2>1. /\ handles'[c] = handles[c] /\ run' = run /\ pipe'[c].rsp = <<>>
      BY <1>2, <1>13
    <2>2. InFlight(c)' /\ e.answer.kind = "handle" =>
            e.answer.value \in DOMAIN instances' \ DOMAIN instances
      BY <1>4, <1>8, <2>1 DEF InFlight, Answering
    <2> QED BY <1>12, <2>1, <2>2 DEF Held
  <1>20. up => Held(c) \subseteq DOMAIN instances
    BY DEF IInv, HeldInv
  <1>21. up => Held(c)' \subseteq DOMAIN instances'
    BY <1>4, <1>19, <1>20
  <1>22. \A m \in handles'[c] : m.run <= run
    BY <1>2 DEF IInv, HeldInv
  <1>23. ClientInv(c)'
    BY <1>15, <1>16, <1>17, <1>18 DEF ClientInv
  <1>24. IInv'
    BY <1>12, <1>19, <1>21, <1>22, <1>23, OwnStepKeeps
  <1>25. CASE stage'[c] = "reply"
    <2>1. e \in [id : executed[c].id + 1 .. sent[c], answer : Result]
      BY <1>1, <1>5, <1>8, <1>9, <1>10, <1>25
    <2>2. Answering(c) /\ e.answer = answer'[c]
      BY <1>4, <1>8, <1>25
    <2>3. IF e.answer.kind = "handle"
            THEN /\ e.answer.value \notin DOMAIN instances
                 /\ DOMAIN instances' = DOMAIN instances \cup {e.answer.value}
            ELSE DOMAIN instances' = DOMAIN instances
      BY <2>2 DEF Answering
    <2>4. Session!Execute(c)
      BY <1>2, <1>6, <1>12, <2>1, <2>3 DEF Session!Execute
    <2> QED BY <1>24, <2>4
  <1>26. CASE stage'[c] # "reply"
    <2>1. executed' = executed
      BY <1>1, <1>6, <1>7, <1>26
    <2> QED BY <1>2, <1>4, <1>24, <1>26, <2>1 DEF Session!vars
  <1> QED BY <1>25, <1>26

LEMMA WorkerRepliesKeeps ==
  ASSUME IInv, NEW c \in Client, WorkerReplies(c)
  PROVE  IInv' /\ UNCHANGED <<sent, executed, delivered, instances>>
  <1> DEFINE r == [id |-> serving[c], answer |-> answer[c]]
             p == IF answer[c] = NoAnswer THEN pipe[c] ELSE ResponseWritten(pipe[c], r)
  <1>1. /\ pipe \in [Client -> Instance] /\ pipe[c] \in Instance /\ sent[c] \in Nat
        /\ serving \in [Client -> Nat] /\ executed \in [Client -> Execution]
        /\ executed[c].id \in Nat /\ executed[c] \in Execution /\ DispatchTypeOK
        /\ answer[c] \in Answer
    <2>1. /\ pipe \in [Client -> Instance] /\ pipe[c] \in Instance /\ sent[c] \in Nat
          /\ serving \in [Client -> Nat] /\ executed \in [Client -> Execution]
          /\ executed[c].id \in Nat /\ answer \in [Client -> Answer]
      BY ClientFacts, Zenon
    <2>2. DispatchTypeOK
      BY DEF IInv, TypeOK
    <2> QED BY <2>1, <2>2
  <1>2. /\ Finish(c)
        /\ pipe' = [pipe EXCEPT ![c] = p]
        /\ serving' = [serving EXCEPT ![c] = 0]
        /\ executed' = [executed EXCEPT ![c] = executed[c]]
        /\ UNCHANGED <<mainVars, pc, sent, current, handles, joined, delivered, executed>>
    BY <1>1 DEF WorkerReplies, PipeBecomes, clientVars
  <1>3. /\ DispatchTypeOK' /\ OwnWork(c) /\ instances' = instances
        /\ stage[c] = "reply" /\ stage'[c] = "test"
    BY <1>1, <1>2, FinishEffect
  <1>4. Connection(c) /\ Worker(c) /\ Serves(c) /\ Requested(c)
    BY ClientFacts
  <1>5. r = executed[c] /\ pipe[c].rsp = <<>>
    BY <1>3, <1>4, AnswerIsLast DEF Worker
  <1>6. answer[c] # NoAnswer => pc[c] = "wait" /\ executed[c].id = sent[c]
    BY <1>3, <1>4, <1>5 DEF Worker, Serves
  <1>7. answer[c] # NoAnswer => r \in Reply
    <2>1. answer[c] # NoAnswer => serving[c] = sent[c] /\ delivered[c].id < sent[c]
      BY <1>3, <1>4 DEF Worker, Serves
    <2>2. delivered[c].id \in Nat
      BY ClientFacts
    <2> QED BY <1>1, <2>1, <2>2 DEF Reply, RequestId
  <1>8. /\ p \in Instance /\ p.srv = pipe[c].srv /\ p.cli = pipe[c].cli /\ p.req = pipe[c].req
        /\ p.rsp = IF answer[c] = NoAnswer THEN <<>> ELSE Append(<<>>, r)
    <2>1. CASE answer[c] = NoAnswer
      BY <1>1, <1>5, <2>1
    <2>2. CASE answer[c] # NoAnswer
      <3>1. p = ResponseWritten(pipe[c], r) /\ r \in Reply
        BY <1>7, <2>2
      <3> HIDE DEF p, r
      <3>2. ResponseWritten(pipe[c], r) \in Instance
        BY <1>1, <3>1, InstanceTypes
      <3>3. /\ ResponseWritten(pipe[c], r).srv = pipe[c].srv
            /\ ResponseWritten(pipe[c], r).cli = pipe[c].cli
            /\ ResponseWritten(pipe[c], r).req = pipe[c].req
            /\ ResponseWritten(pipe[c], r).rsp = Append(pipe[c].rsp, r)
        BY <1>1, <3>1, InstanceFields
      <3> QED BY <1>5, <2>2, <3>1, <3>2, <3>3
    <2> QED BY <2>1, <2>2
  <1>9. Append(<<>>, r) = <<r>>
    OBVIOUS
  <1> HIDE DEF p
  <1>10. /\ TypeOK' /\ OwnStep(c)
         /\ pipe'[c] = p /\ serving'[c] = 0 /\ executed'[c] = executed[c]
    <2>1. 0 \in Nat /\ 0 <= sent[c] /\ DOMAIN instances \subseteq DOMAIN instances'
      BY <1>1, <1>3
    <2>2. UNCHANGED <<mainVars, pc, sent, current, handles, joined, delivered>>
      BY <1>2
    <2> QED BY <1>1, <1>2, <1>3, <1>8, <2>1, <2>2, WorkerTypes, Zenon
  <1>11. Connection(c)'
    BY <1>2, <1>3, <1>4, <1>6, <1>8, <1>10 DEF Connection
  <1>12. Answered(c)'
    <2>1. pipe'[c].rsp # <<>> => answer[c] # NoAnswer /\ pipe'[c].rsp = <<executed[c]>>
      BY <1>5, <1>8, <1>9, <1>10
    <2>2. executed[c].answer = answer[c]
      BY <1>5
    <2> QED BY <1>2, <1>3, <1>6, <1>10, <2>1, <2>2 DEF Answered
  <1>13. Worker(c)' /\ Serves(c)'
    BY <1>2, <1>3, <1>4, <1>10 DEF Worker, Serves, Busy
  <1>14. Requested(c)'
    <2>1. \A i \in DOMAIN pipe[c].req : pipe[c].req[i].id \in Nat /\ pipe[c].req[i].id > 0
      BY <1>1, RequestIds
    <2> QED BY <1>2, <1>4, <1>8, <1>10, <2>1 DEF Requested
  <1>15. Held(c)' \subseteq Held(c)
    BY <1>2, <1>3 DEF Held, InFlight
  <1>16. ClientInv(c)'
    BY <1>11, <1>12, <1>13, <1>14 DEF ClientInv
  <1> QED BY <1>2, <1>3, <1>10, <1>15, <1>16, QuietStepKeeps

LEMMA WorkerEndsKeeps ==
  ASSUME IInv, NEW c \in Client, WorkerEnds(c)
  PROVE  IInv' /\ UNCHANGED <<sent, executed, delivered, instances>>
  <1>1. /\ pipe \in [Client -> Instance] /\ pipe[c] \in Instance
        /\ serving \in [Client -> Nat] /\ executed \in [Client -> Execution]
    BY ClientFacts, Zenon
  <1>2. /\ stage[c] = "idle" /\ ReadFails(pipe[c])
        /\ pipe' = [pipe EXCEPT ![c] = Disconnected(pipe[c])]
        /\ stage' = [stage EXCEPT ![c] = "gone"]
        /\ UNCHANGED <<handle_counter, instances, command, answer, mainVars, pc, sent, current,
                       handles, joined, delivered, serving, executed>>
    BY DEF WorkerEnds, PipeBecomes, MoveTo, registryVars, clientVars
  <1>3. Disconnected(pipe[c]) \in Instance
    BY <1>1, InstanceTypes
  <1>4. TypeOK'
    BY <1>1, <1>2, <1>3 DEF IInv, TypeOK, DispatchTypeOK, Stage
  <1>5. OwnStep(c)
    BY <1>1, <1>2 DEF IInv, TypeOK, DispatchTypeOK, OwnStep, OwnWork
  <1>6. pipe'[c] = Disconnected(pipe[c]) /\ stage'[c] = "gone"
    BY <1>1, <1>2 DEF IInv, TypeOK, DispatchTypeOK
  <1>7. pipe'[c].srv = "disconnected" /\ pipe'[c].cli = pipe[c].cli /\ pipe'[c].rsp = <<>>
    BY <1>1, <1>6, InstanceFields
  <1>8. Connection(c) /\ Worker(c)
    BY ClientFacts
  <1>9. ClientInv(c)'
    BY <1>2, <1>6, <1>7, <1>8 DEF ClientInv, Connection, Worker, Serves, Requested, Answered, Busy
  <1>10. Held(c)' \subseteq Held(c)
    BY <1>2, <1>6, <1>7 DEF Held, InFlight
  <1> QED BY <1>2, <1>4, <1>5, <1>9, <1>10, QuietStepKeeps

-----------------------------------------------------------------------------
(* The steps of the server process. *)

\* However the process ends, its end of every pipe is closed; what a client has
\* not read yet of a closed pipe it can still read.
LEMMA ProcessEndsKeeps ==
  ASSUME IInv, ProcessEnds
  PROVE  IInv' /\ UNCHANGED <<sent, executed, delivered>> /\ DOMAIN instances' = {}
  <1>1. /\ up' = FALSE /\ is_closed' = FALSE /\ to_close' = {} /\ closing' = {}
        /\ handle_counter' = 0
        /\ instances' = [h \in {} |-> CHOOSE v \in Value : TRUE]
        /\ stage' = [c \in Client |-> "gone"]
        /\ command' = [c \in Client |-> NoCommand]
        /\ answer' = [c \in Client |-> NoAnswer]
        /\ serving' = [c \in Client |-> 0]
        /\ pipe' = [c \in Client |-> Ended(pipe[c], ServerClosed(pipe[c]))]
        /\ UNCHANGED <<run, pc, sent, current, handles, joined, delivered, executed>>
    BY DEF ProcessEnds, NoWorkers, EmptyRegistry, clientVars
  <1>2. DispatchTypeOK'
    <2>1. 0 .. handle_counter' - 1 = {} /\ DOMAIN instances' = {}
      BY <1>1
    <2>2. instances' \in [0 .. handle_counter' - 1 -> Value]
      BY <1>1, <2>1
    <2> QED BY <1>1, <2>2, ConstantTypes DEF DispatchTypeOK, Stage
  <1>3. pipe \in [Client -> Instance]
    BY DEF IInv, TypeOK
  <1>4. \A c \in Client :
          /\ pipe'[c] \in Instance /\ pipe'[c].srv # "open" /\ pipe'[c].cli = pipe[c].cli
          /\ pipe'[c].rsp = pipe[c].rsp
    BY <1>1, <1>3, InstanceTypes, InstanceFields DEF Ended
  <1>5. TypeOK'
    <2>1. pipe' \in [Client -> Instance] /\ serving' \in [Client -> Nat]
      BY <1>1, <1>4
    <2>2. \A c \in Client : serving'[c] <= sent'[c]
      BY <1>1 DEF IInv, TypeOK
    <2> QED BY <1>1, <1>2, <2>1, <2>2 DEF IInv, TypeOK
  <1>6. ASSUME NEW c \in Client PROVE ClientInv(c)'
    <2>1. Connection(c) /\ Worker(c) /\ Answered(c)
      BY ClientFacts
    <2>2. stage'[c] = "gone" /\ serving'[c] = 0 /\ answer'[c] = NoAnswer
      BY <1>1
    <2>3. Connection(c)' /\ Answered(c)'
      BY <1>1, <1>4, <2>1, <2>2 DEF Connection, Answered
    <2>4. Worker(c)' /\ Serves(c)'
      BY <1>1, <2>1, <2>2 DEF Worker, Serves, Busy
    <2>5. Requested(c)'
      BY <1>4 DEF Requested
    <2> QED BY <2>3, <2>4, <2>5 DEF ClientInv
  <1>7. HeldInv' /\ MainInv'
    BY <1>1 DEF IInv, HeldInv, MainInv
  <1> QED BY <1>1, <1>5, <1>6, <1>7 DEF IInv

\* The instance ~Server goes on to is one of those left.
LEMMA NextOfTypes ==
  ASSUME NEW left \in SUBSET Client, NextOf(left)
  PROVE  to_close' \subseteq Client /\ closing' \subseteq Client
  BY DEF NextOf

\* The first step of ~Server closes nothing.
LEMMA ShutdownKeeps ==
  ASSUME IInv, StoreClosed
  PROVE  IInv' /\ UNCHANGED Session!vars
  <1>1. /\ UNCHANGED <<handle_counter, instances, stage, command, answer, up, run, pipe, pc,
                       sent, current, handles, joined, delivered, serving, executed>>
        /\ is_closed' = TRUE
        /\ to_close' \subseteq Client /\ closing' \subseteq Client
    BY NextOfTypes DEF StoreClosed, dispatchVars, registryVars, workerVars, clientVars
  <1>2. TypeOK'
    BY <1>1 DEF IInv, TypeOK, DispatchTypeOK
  <1>3. ASSUME NEW c \in Client PROVE ClientInv(c)' /\ Held(c)' = Held(c)
    BY <1>1 DEF IInv, ClientInv, Connection, Worker, Serves, Requested, Answered, Handle, Held,
         InFlight
  <1>4. HeldInv' /\ MainInv'
    BY <1>1, <1>3 DEF IInv, HeldInv, MainInv
  <1> QED BY <1>1, <1>2, <1>3, <1>4 DEF IInv, Session!vars

\* A pipe is closed while its worker is outside the locked section, and nothing
\* unread is lost with it.
LEMMA ClosePipeKeeps ==
  ASSUME IInv, NEW c \in Client, ClosePipe(c)
  PROVE  IInv' /\ UNCHANGED Session!vars
  <1> DEFINE p == Ended(pipe[c], Disconnected(pipe[c]))
  <1>1. pipe \in [Client -> Instance] /\ pipe[c] \in Instance
    BY ClientFacts, Zenon
  <1>2. /\ closing = {c} /\ stage[c] \in {"test", "gone"}
        /\ to_close' \subseteq Client /\ closing' \subseteq Client
        /\ pipe' = [pipe EXCEPT ![c] = p]
        /\ UNCHANGED <<handle_counter, instances, stage, command, answer, up, run, is_closed,
                       pc, sent, current, handles, joined, delivered, serving, executed>>
    BY NextOfTypes DEF IInv, TypeOK, ClosePipe, PipeBecomes, dispatchVars, registryVars, workerVars, clientVars
  <1>3. /\ p \in Instance /\ p.srv # "open" /\ p.cli = pipe[c].cli
        /\ p.rsp = <<>> \/ p.rsp = pipe[c].rsp
    BY <1>1, InstanceTypes, InstanceFields DEF Ended
  <1> HIDE DEF p
  <1>4. TypeOK'
    BY <1>1, <1>2, <1>3 DEF IInv, TypeOK, DispatchTypeOK
  <1>5. OwnStep(c)
    BY <1>1, <1>2 DEF IInv, MainInv, OwnStep, OwnWork
  <1>6. pipe'[c] = p
    BY <1>1, <1>2
  <1>7. Connection(c) /\ Worker(c) /\ Serves(c) /\ Answered(c) /\ is_closed
    BY <1>2, ClientFacts DEF IInv, MainInv
  <1>8. ClientInv(c)'
    <2>1. Connection(c)'
      BY <1>2, <1>3, <1>6, <1>7 DEF Connection
    <2>2. Worker(c)' /\ Serves(c)'
      BY <1>2, <1>7 DEF Worker, Serves, Handle
    <2>3. Requested(c)' /\ Answered(c)'
      BY <1>2, <1>3, <1>6, <1>7 DEF Requested, Answered
    <2> QED BY <2>1, <2>2, <2>3 DEF ClientInv
  <1>9. Held(c)' \subseteq Held(c)
    BY <1>2, <1>3, <1>6 DEF Held, InFlight
  <1> QED BY <1>2, <1>4, <1>5, <1>8, <1>9, QuietStepKeeps DEF Session!vars

LEMMA ServerStartsKeeps ==
  ASSUME IInv, ServerStarts
  PROVE  IInv' /\ UNCHANGED <<sent, executed, delivered, instances>>
  <1>1. /\ ~up /\ run < MaxRuns /\ up' = TRUE /\ run' = run + 1
        /\ UNCHANGED <<is_closed, to_close, closing, handle_counter, instances, stage, command, answer, pipe, pc, sent, current,
                       handles, joined, delivered, serving, executed>>
    BY DEF ServerStarts, dispatchVars, registryVars, workerVars, clientVars
  <1>2. run \in Nat /\ MaxRuns \in Nat /\ run' \in 0 .. MaxRuns /\ run' > 0 /\ run < run'
    BY <1>1, SystemAssumption DEF IInv, TypeOK
  <1>3. TypeOK'
    BY <1>1, <1>2 DEF IInv, TypeOK, DispatchTypeOK
  <1>4. ASSUME NEW c \in Client
        PROVE  /\ ClientInv(c)'
               /\ stage[c] = "gone" /\ joined[c] \in Nat /\ joined[c] < run'
    <2>1. /\ Connection(c) /\ Worker(c) /\ Serves(c) /\ Requested(c) /\ Answered(c)
          /\ joined[c] \in Nat
      BY ClientFacts
    <2>2. stage[c] = "gone" /\ pipe[c].srv # "open" /\ joined[c] < run'
      BY <1>1, <1>2, <2>1 DEF Connection
    <2>3. Connection(c)' /\ Requested(c)'
      BY <1>1, <1>2, <2>1, <2>2 DEF Connection, Requested
    <2>4. Worker(c)' /\ Serves(c)' /\ Answered(c)'
      BY <1>1, <2>1 DEF Worker, Serves, Answered, Handle
    <2> QED BY <2>1, <2>2, <2>3, <2>4 DEF ClientInv
  <1>5. ASSUME NEW c \in Client, NEW m \in handles[c] PROVE m.run \in Nat /\ m.run <= run
    <2>1. handles \in [Client -> SUBSET [handle : Nat, run : 1 .. MaxRuns]]
      BY DEF IInv, TypeOK
    <2>2. m \in [handle : Nat, run : 1 .. MaxRuns]
      BY <2>1
    <2> QED BY <1>2, <2>2 DEF IInv, HeldInv
  <1>6. ASSUME NEW c \in Client PROVE Held(c)' = {}
    <2>1. ~InFlight(c)'
      BY <1>1, <1>2, <1>4 DEF InFlight
    <2>2. \A m \in handles[c] : m.run # run'
      BY <1>2, <1>5
    <2> QED BY <1>1, <2>1, <2>2 DEF Held
  <1>7. HeldInv' /\ MainInv'
    BY <1>1, <1>2, <1>5, <1>6 DEF HeldInv, MainInv, IInv
  <1> QED BY <1>1, <1>2, <1>3, <1>4, <1>7 DEF IInv

-----------------------------------------------------------------------------
(* The specification. *)

LEMMA IInvInit == Init => IInv
  <1> SUFFICES ASSUME Init PROVE IInv
    OBVIOUS
  <1>1. /\ handle_counter = 0 /\ instances = [h \in {} |-> CHOOSE v \in Value : TRUE]
        /\ stage = [c \in Client |-> "gone"] /\ command = [c \in Client |-> NoCommand]
        /\ answer = [c \in Client |-> NoAnswer] /\ up = FALSE /\ run = 0
        /\ is_closed = FALSE /\ to_close = {} /\ closing = {}
        /\ pipe = [c \in Client |-> NoInstance] /\ pc = [c \in Client |-> "connect"]
        /\ sent = [c \in Client |-> 0] /\ current = [c \in Client |-> NoCommand]
        /\ handles = [c \in Client |-> {}] /\ joined = [c \in Client |-> 0]
        /\ serving = [c \in Client |-> 0]
        /\ executed = [c \in Client |-> [id |-> 0, answer |-> NoAnswer]]
        /\ delivered = [c \in Client |-> [id |-> 0, answer |-> NoAnswer]]
    BY DEF Init, DispatchInit
  <1>2. DispatchTypeOK
    <2>1. 0 .. handle_counter - 1 = {}
      BY <1>1
    <2>2. instances \in [0 .. handle_counter - 1 -> Value]
      BY <1>1, <2>1
    <2> QED BY <1>1, <2>2, ConstantTypes DEF DispatchTypeOK, Stage
  <1>3. TypeOK
    <2>1. [id |-> 0, answer |-> NoAnswer] \in Execution
      BY ConstantTypes DEF Execution
    <2>2. /\ run \in 0 .. MaxRuns /\ joined \in [Client -> 0 .. MaxRuns]
          /\ sent \in [Client -> Nat] /\ serving \in [Client -> Nat]
          /\ \A c \in Client : sent[c] <= MaxRequests[c] /\ serving[c] <= sent[c]
      BY <1>1, SystemAssumption
    <2>3. /\ pipe \in [Client -> Instance] /\ current \in [Client -> Command]
          /\ executed \in [Client -> Execution] /\ delivered \in [Client -> Execution]
      BY <1>1, <2>1, ConstantTypes, OpenedFields
    <2> QED BY <1>1, <1>2, <2>2, <2>3 DEF TypeOK, ClientPc
  <1>4. ASSUME NEW c \in Client PROVE ClientInv(c)
    <2>1. /\ stage[c] = "gone" /\ pc[c] = "connect" /\ joined[c] = 0 /\ sent[c] = 0
          /\ executed[c].id = 0 /\ delivered[c].id = 0 /\ serving[c] = 0
          /\ pipe[c].srv = "none" /\ pipe[c].rsp = <<>>
      BY <1>1, OpenedFields
    <2> QED BY <1>1, <2>1 DEF ClientInv, Connection, Worker, Serves, Requested, Answered, Busy
  <1>5. HeldInv /\ MainInv
    BY <1>1 DEF HeldInv, MainInv
  <1> QED BY <1>1, <1>3, <1>4, <1>5 DEF IInv

\* Every step keeps the invariant, and does for the clients what Session allows,
\* or nothing.
LEMMA SystemStep ==
  ASSUME IInv, [Next]_vars
  PROVE  IInv' /\ (Session!Next \/ UNCHANGED Session!vars)
  <1>1. ASSUME NEW c \in Client, ClientStep(c)
        PROVE  IInv' /\ (Session!Next \/ UNCHANGED Session!vars)
    <2>1. CASE Connect(c)
      BY <2>1, ConnectKeeps DEF Connect, registryVars, historyVars, Session!vars
    <2>2. CASE GiveUp(c)
      BY <2>2, GiveUpKeeps DEF GiveUp, dispatchVars, registryVars, historyVars, Session!vars
    <2>3. CASE EndOfData(c)
      BY <2>3, EndOfDataKeeps DEF EndOfData, dispatchVars, registryVars, historyVars, Session!vars
    <2>4. CASE \E cmd \in Requests(c) : Send(c, cmd)
      <3>1. PICK cmd \in Requests(c) : Send(c, cmd)
        BY <2>4
      <3>2. Session!Issue(c)
        BY <3>1 DEF Send, SendThen, Issue, dispatchVars, registryVars, historyVars, Session!Issue
      <3> QED BY <3>1, <3>2, SendKeeps DEF Session!Next
    <2>5. CASE SendFails(c)
      <3>1. Session!Issue(c)
        BY <2>5 DEF SendFails, Issue, dispatchVars, registryVars, historyVars, Session!Issue
      <3> QED BY <2>5, <3>1, SendFailsKeeps DEF Session!Next
    <2>6. CASE ReadAnswer(c)
      <3>1. pc[c] = "wait" /\ pipe[c].rsp # <<>>
        BY <2>6 DEF ReadAnswer, ClientReadReturns
      <3>2. /\ executed[c].id = sent[c] /\ executed[c].answer # NoAnswer
            /\ delivered[c].id < sent[c]
        BY <3>1, ClientFacts DEF Answered, Worker
      <3>3. UNCHANGED <<sent, executed, instances>>
        BY <2>6 DEF ReadAnswer, dispatchVars, registryVars
      <3>4. IInv' /\ delivered' = [delivered EXCEPT ![c] = executed[c]]
        BY <2>6, ReadAnswerKeeps
      <3>5. Session!Deliver(c)
        BY <3>2, <3>3, <3>4 DEF Session!Deliver
      <3> QED BY <3>4, <3>5 DEF Session!Next
    <2>7. CASE AnswerFails(c)
      BY <2>7, AnswerFailsKeeps DEF AnswerFails, dispatchVars, registryVars, historyVars,
           Session!vars
    <2> QED BY <1>1, <2>1, <2>2, <2>3, <2>4, <2>5, <2>6, <2>7 DEF ClientStep, AnswerReturns
  <1>2. ASSUME NEW c \in Client, WorkerStep(c)
        PROVE  IInv' /\ (Session!Next \/ UNCHANGED Session!vars)
    <2>1. CASE WorkerReads(c)
      BY <2>1, WorkerReadsKeeps DEF Session!Next
    <2>2. CASE WorkerExecutes(c)
      BY <2>2, WorkerExecutesKeeps DEF Session!Next
    <2>3. CASE WorkerReplies(c)
      BY <2>3, WorkerRepliesKeeps DEF Session!vars
    <2>4. CASE WorkerEnds(c)
      BY <2>4, WorkerEndsKeeps DEF Session!vars
    <2>5. CASE WorkerTests(c)
      BY <2>5, WorkerTestsKeeps
    <2> QED BY <1>2, <2>1, <2>2, <2>3, <2>4, <2>5 DEF WorkerStep
  <1>3. CASE ServerDies \/ ServerDestroyed
    <2>1. ProcessEnds
      BY <1>3 DEF ServerDies, ServerDestroyed
    <2>2. Session!ServerEnds
      BY <2>1, ProcessEndsKeeps DEF Session!ServerEnds
    <2> QED BY <2>1, <2>2, ProcessEndsKeeps DEF Session!Next
  <1>4. CASE ServerStarts
    BY <1>4, ServerStartsKeeps DEF Session!vars
  <1>6. CASE StoreClosed
    BY <1>6, ShutdownKeeps
  <1>7. CASE \E c \in Client : ClosePipe(c)
    BY <1>7, ClosePipeKeeps
  <1>5. CASE UNCHANGED vars
    <2>1. UNCHANGED <<handle_counter, instances, stage, command, answer, mainVars, pipe, pc, sent,
                      current, handles, joined, delivered, serving, executed>>
      BY <1>5 DEF vars, dispatchVars, registryVars, workerVars, clientVars
    <2>2. TypeOK'
      BY <2>1 DEF IInv, TypeOK, DispatchTypeOK
    <2>3. ASSUME NEW c \in Client PROVE ClientInv(c)' /\ Held(c)' = Held(c)
      BY <2>1 DEF IInv, ClientInv, Connection, Worker, Serves, Requested, Answered, Handle, Held,
           InFlight
    <2>4. HeldInv' /\ MainInv'
      BY <2>1, <2>3 DEF IInv, HeldInv, MainInv
    <2> QED BY <2>1, <2>2, <2>3, <2>4 DEF IInv, Session!vars
  <1> QED BY <1>1, <1>2, <1>3, <1>4, <1>5, <1>6, <1>7 DEF Next, Destroy, Terminated

\* The inductive invariant holds in every state of clients, server and restarts.
THEOREM Invariance == Spec => []IInv
  <1>1. IInv /\ [Next]_vars => IInv'
    BY SystemStep
  <1> QED BY <1>1, IInvInit, PTL DEF Spec

\* The variables keep their types: what a client stores is a handle, what an
\* object holds is a value, and no worker serves a request that was not sent
\* (ClassRegistry.h, RequestParser.h, ClassRepository.h).
THEOREM TypeCorrect == Spec => []TypeOK
  <1>1. IInv => TypeOK
    BY DEF IInv
  <1> QED BY <1>1, Invariance, PTL

\* The two repositories agree across the pipe: what a client has been given in
\* this run exists at the server, and no other client has been given it
\* (ClassRegistry.h 39-48, ClassRepository.cpp 10-25).
THEOREM RepositoriesAgree == Spec => []HandlesAgree
  <1>1. ASSUME IInv PROVE HandlesAgree
    <2> SUFFICES ASSUME up, NEW c \in Client, NEW m \in handles[c], m.run = run
                 PROVE  /\ m.handle \in DOMAIN instances
                        /\ \A d \in Client \ {c} : m \notin handles[d]
      BY DEF HandlesAgree
    <2>1. m.handle \in Held(c) /\ \A d \in Client : m \in handles[d] => m.handle \in Held(d)
      BY DEF Held
    <2> QED BY <1>1, <2>1 DEF IInv, HeldInv
  <1> QED BY <1>1, Invariance, PTL

\* Two workers meet on an object, which has no lock, only through a handle that
\* a client has kept from an earlier server process (CustomClass.cpp 41-61).
THEOREM RacesAreStale == Spec => []RaceNeedsStaleHandle
  <1>1. ASSUME IInv PROVE RaceNeedsStaleHandle
    <2> SUFFICES ASSUME NEW c \in Client, NEW d \in Client, c # d, stage[c] = "store",
                        stage[d] \in {"call", "store"}, Handle(c) = Handle(d),
                        Own(c, Handle(c)), Own(d, Handle(d))
                 PROVE  FALSE
      BY DEF RaceNeedsStaleHandle
    <2>1. up /\ joined[c] = run /\ joined[d] = run
      BY <1>1, ClientFacts DEF Connection
    <2>2. Handle(c) \in Held(c) /\ Handle(d) \in Held(d)
      <3>1. \A e \in Client : joined[e] = run /\ Own(e, Handle(e)) => Handle(e) \in Held(e)
        BY DEF Own, Held
      <3> QED BY <2>1, <3>1
    <2> QED BY <1>1, <2>1, <2>2 DEF IInv, HeldInv
  <1> QED BY <1>1, Invariance, PTL

\* Clients, server and restarts together implement Session: the requests of a
\* client are executed in order and at most once, it is delivered the answer to
\* its last request as it was computed, and handles are not given twice
\* (Client.cpp 92-112, Server.cpp 113-187, ClassRegistry.h 39-48).
THEOREM Refinement == Spec => SessionSpec
  <1>1. Init => Session!Init
    BY DEF Init, DispatchInit, Session!Init, Session!Nothing
  <1>2. IInv /\ [Next]_vars => [Session!Next]_Session!vars
    BY SystemStep
  <1> QED BY <1>1, <1>2, Invariance, PTL DEF Spec, SessionSpec, Session!Spec
=============================================================================
