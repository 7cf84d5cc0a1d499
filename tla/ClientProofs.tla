----------------------------- MODULE ClientProofs -----------------------------
(***************************************************************************)
(* Client, for every number of iterations, retries, handles and pipes: the *)
(* types, the matching of answers with requests, and the stored handles.   *)
(* What the client reads is in ClientReadProofs.                           *)
(***************************************************************************)
EXTENDS Client, TLAPS, SequenceTheorems, FunctionTheorems, FiniteSetTheorems

-----------------------------------------------------------------------------
(* The inductive invariant. *)

\* What main has when it is at each label.  A request that is registered has
\* been counted; the ids stay in range because the iterations do.
MainPhase ==
  /\ pc = "connect" => pipe_handle = NullPipe /\ retry_iteration < MaxRetries
  /\ pc \in {"good", "copy", "register", "send", "wait", "parse", "reconnect", "returned"} =>
       pipe_handle \in Conn
  /\ pc \in {"copy", "register", "send", "wait"} => request \in Kind
  /\ pc = "copy" => curr_iteration < Iterations
  /\ pc = "register" => request_id_counter < curr_iteration
  /\ pc = "send" => request_id_counter > 0
  /\ request_id_counter <= curr_iteration
  /\ ExecPolicy = "Async" => pc \notin {"wait", "parse"}

\* The id of the last request that was written to a pipe, or could not be.
LastSent == IF pc = "send" THEN request_id_counter - 1 ELSE request_id_counter

\* Every read that is posted or is still to be posted stands for a request.
ReadsBounded ==
  /\ IsFiniteSet(writes)
  /\ \A k \in Conn : reads[k] + Cardinality(writes) <= LastSent

\* The client has one end open, that of its pipe_handle_, and nothing is in a
\* pipe nobody opened.
ClientEnds ==
  \A k \in Conn :
    /\ inst[k].cli = "open" => k = pipe_handle
    /\ inst[k].cli # "open" => inst[k].rsp = <<>>
    /\ inst[k].cli = "none" => inst[k].req = <<>>

\* A thread that is about to append has a handle.
PushTyped ==
  \A t \in parsing : t.at = "push" => Head(t.data).value \in ClassHandle

TypeInv == TypeOK /\ MainPhase /\ ReadsBounded /\ ClientEnds /\ PushTyped

Elems(q)    == {q[i] : i \in DOMAIN q}
Ids(q)      == {m.id : m \in Elems(q)}
Distinct(q) == \A i, j \in DOMAIN q : q[i].id = q[j].id => i = j
InPipe(k)   == Ids(inst[k].req) \cup Ids(inst[k].rsp)
ParsedId(t) == Head(t.data).id

\* requests_ has one entry for an id, and main's current request before it is
\* sent.
Registered ==
  /\ \A m \in requests : m.id <= request_id_counter
  /\ \A m, n \in requests : m.id = n.id => m = n
  /\ pc = "send" => [id |-> request_id_counter, kind |-> request] \in requests

\* An id is on its way in one place: one pipe, one direction, or one thread.
OnePlace ==
  /\ \A k \in Conn :
       /\ Distinct(inst[k].req) /\ Distinct(inst[k].rsp)
       /\ Ids(inst[k].req) \cap Ids(inst[k].rsp) = {}
       /\ \A id \in InPipe(k) : id <= LastSent
  /\ \A k, l \in Conn : k # l => InPipe(k) \cap InPipe(l) = {}
  /\ \A t \in parsing : t.data # <<>> /\ ParsedId(t) <= LastSent
  /\ \A t \in parsing, k \in Conn : ParsedId(t) \notin InPipe(k)
  /\ \A t, u \in parsing : ParsedId(t) = ParsedId(u) => t = u

\* The request r answers is in requests_ and awaits an answer, and the answer
\* to a request that creates an object carries a handle.
Answers(r) ==
  \E m \in requests :
    /\ m.id = r.id
    /\ Awaited(m.kind)
    /\ m.kind = "create" => r.value \in ClassHandle

Answered ==
  /\ \A k \in Conn :
       /\ \A m \in Elems(inst[k].req) : Awaited(m.kind) => m \in requests
       /\ \A r \in Elems(inst[k].rsp) : Answers(r)
  /\ \A t \in parsing : Answers(Head(t.data))

MatchInv == Registered /\ OnePlace /\ Answered
CoreInv  == TypeInv /\ MatchInv

\* One thread is between the look-up and the append, with a new handle.
HandlesInv ==
  /\ \A t, u \in parsing : t.at = "push" /\ u.at = "push" => t = u
  /\ \A t \in parsing : t.at = "push" =>
       \A i \in DOMAIN handles : handles[i] # Head(t.data).value
  /\ HandlesUnique
-----------------------------------------------------------------------------
(* The operators of NamedPipe keep an instance an instance. *)

\* No operation of either end takes a pipe out of the set of instances.
LEMMA InstanceTypes ==
  ASSUME NEW p \in Instance
  PROVE  /\ NoInstance \in Instance
         /\ FreshInstance \in Instance
         /\ Disconnected(p) \in Instance
         /\ ServerClosed(p) \in Instance
         /\ ClientOpened(p) \in Instance
         /\ ClientClosed(p) \in Instance
         /\ ClientDrained(p) \in Instance
         /\ \A m \in Message : ClientWritten(p, m) \in Instance
         /\ \A r \in Reply : ResponseWritten(p, r) \in Instance
         /\ p.req # <<>> => MessageRead(p) \in Instance /\ Head(p.req) \in Message
         /\ p.rsp # <<>> => Head(p.rsp) \in Reply
  <1>1. /\ <<>> \in Seq(Message)
        /\ <<>> \in Seq(Reply)
        /\ \A s \in Seq(Message), m \in Message : Append(s, m) \in Seq(Message)
        /\ \A s \in Seq(Reply), r \in Reply : Append(s, r) \in Seq(Reply)
        /\ \A s \in Seq(Message) : s # <<>> => Tail(s) \in Seq(Message) /\ Head(s) \in Message
        /\ \A s \in Seq(Reply) : s # <<>> => Head(s) \in Reply
    BY HeadTailProperties
  <1> QED
    BY <1>1 DEF Instance, FreshInstance, NoInstance, Disconnected, ServerClosed,
         ClientOpened, ClientClosed, ClientDrained, ClientWritten, MessageRead,
         ResponseWritten, ServerEnd, ClientEnd

\* What the operations do to the two ends and to the unread messages.
LEMMA InstanceFields ==
  ASSUME NEW p \in Instance
  PROVE  /\ Disconnected(p).srv = "disconnected" /\ Disconnected(p).cli = p.cli
         /\ Disconnected(p).req = <<>> /\ Disconnected(p).rsp = <<>>
         /\ ServerClosed(p).srv = "closed" /\ ServerClosed(p).cli = p.cli
         /\ ServerClosed(p).req = <<>> /\ ServerClosed(p).rsp = p.rsp
         /\ ClientOpened(p).srv = p.srv /\ ClientOpened(p).cli = "open"
         /\ ClientOpened(p).req = p.req /\ ClientOpened(p).rsp = p.rsp
         /\ ClientClosed(p).srv = p.srv /\ ClientClosed(p).cli = "closed"
         /\ ClientClosed(p).req = p.req /\ ClientClosed(p).rsp = <<>>
         /\ ClientDrained(p).srv = p.srv /\ ClientDrained(p).cli = p.cli
         /\ ClientDrained(p).req = p.req /\ ClientDrained(p).rsp = <<>>
         /\ \A m \in Message :
              /\ ClientWritten(p, m).srv = p.srv /\ ClientWritten(p, m).cli = p.cli
              /\ ClientWritten(p, m).req = Append(p.req, m)
              /\ ClientWritten(p, m).rsp = p.rsp
         /\ \A r \in Reply :
              /\ ResponseWritten(p, r).srv = p.srv /\ ResponseWritten(p, r).cli = p.cli
              /\ ResponseWritten(p, r).req = p.req
              /\ ResponseWritten(p, r).rsp = Append(p.rsp, r)
         /\ MessageRead(p).srv = p.srv /\ MessageRead(p).cli = p.cli
         /\ MessageRead(p).req = Tail(p.req) /\ MessageRead(p).rsp = p.rsp
  BY DEF Instance, Disconnected, ServerClosed, ClientOpened, ClientClosed,
         ClientDrained, ClientWritten, MessageRead, ResponseWritten

\* The instance that listens is open, and nobody has written to it.
LEMMA FreshFields ==
  /\ FreshInstance.srv = "open" /\ FreshInstance.cli = "none"
  /\ FreshInstance.req = <<>> /\ FreshInstance.rsp = <<>>
  /\ NoInstance.srv = "none" /\ NoInstance.cli = "none"
  /\ NoInstance.req = <<>> /\ NoInstance.rsp = <<>>
  BY DEF FreshInstance, NoInstance

-----------------------------------------------------------------------------
(* Typing. *)

\* The length of the list of demos, and what a demo is.
LEMMA DemoKinds ==
  /\ kTotalDemos \in Nat \ {0}
  /\ \A demo \in 0 .. kTotalDemos - 1 : KindOf(demo) \in Kind
  <1>1. Demos \in Seq(Kind) /\ Demos # <<>>
    BY ClientAssumption
  <1>2. Len(Demos) \in Nat /\ Len(Demos) # 0 /\ DOMAIN Demos = 1 .. Len(Demos)
        /\ \A i \in 1 .. Len(Demos) : Demos[i] \in Kind
    BY <1>1, LenProperties, ElementOfSeq, EmptySeq DEF Kind
  <1>3. \A demo \in 0 .. Len(Demos) - 1 : demo + 1 \in 1 .. Len(Demos)
    BY <1>2
  <1> QED BY <1>2, <1>3 DEF kTotalDemos, KindOf

\* The steps of main that touch no pipe.
QuietStep ==
  \/ ConnectRetry
  \/ EndOfData
  \/ \E demo \in 0 .. kTotalDemos - 1 : ReadRequest(demo)
  \/ ReadNoDemo
  \/ CopyHandles
  \/ SendFails
  \/ ReadSyncFails
  \/ ParsedSync
  \/ UNCHANGED vars

\* Such a step changes neither pipes nor what is in flight, and adds no id.
LEMMA QuietStepEffect ==
  ASSUME TypeInv, QuietStep
  PROVE  /\ UNCHANGED <<mode, inst, pipe_handle, request_id_counter, requests, handles, poolVars>>
         /\ curr_iteration' \in {curr_iteration, curr_iteration + 1}
         /\ LastSent <= LastSent'
         /\ pc' = "send" => pc = "send" /\ request' = request
  <1> USE DEF LastSent, TypeInv, TypeOK, Goto, mainVars, sourceVars, poolVars
  <1>1. CASE ConnectRetry
    BY <1>1 DEF ConnectRetry, ConnectRetryUpTo
  <1>2. CASE EndOfData
    BY <1>2 DEF EndOfData
  <1>3. ASSUME NEW demo \in 0 .. kTotalDemos - 1, ReadRequest(demo)
        PROVE  /\ UNCHANGED <<mode, inst, pipe_handle, request_id_counter, requests, handles,
                              poolVars>>
               /\ curr_iteration' \in {curr_iteration, curr_iteration + 1}
               /\ LastSent <= LastSent'
               /\ pc' = "send" => pc = "send" /\ request' = request
    BY <1>3 DEF ReadRequest
  <1>4. CASE ReadNoDemo
    BY <1>4 DEF ReadNoDemo
  <1>5. CASE CopyHandles
    BY <1>5 DEF CopyHandles
  <1>6. CASE SendFails
    BY <1>6 DEF SendFails
  <1>7. CASE ReadSyncFails
    BY <1>7 DEF ReadSyncFails
  <1>8. CASE ParsedSync
    BY <1>8 DEF ParsedSync
  <1>9. CASE UNCHANGED vars
    BY <1>9 DEF vars
  <1> QED BY <1>1, <1>2, <1>3, <1>4, <1>5, <1>6, <1>7, <1>8, <1>9 DEF QuietStep

\* They keep main's control and the types.
LEMMA QuietStepTypes ==
  ASSUME TypeInv, QuietStep
  PROVE  TypeInv'
  <1>1. UNCHANGED <<mode, inst, pipe_handle, request_id_counter, requests, handles, poolVars>>
        /\ LastSent <= LastSent'
    BY QuietStepEffect
  <1>2. ClientEnds'
    BY <1>1 DEF TypeInv, ClientEnds
  <1>3. ReadsBounded'
    <2>1. Cardinality(writes) \in Nat
      BY FS_CardinalityType DEF TypeInv, ReadsBounded
    <2> QED BY <1>1, <2>1 DEF TypeInv, TypeOK, ReadsBounded, LastSent, poolVars
  <1>4. TypeOK' /\ MainPhase'
    <2> USE ClientAssumption DEF TypeInv, TypeOK, MainPhase, MainPc, Goto, mainVars, sourceVars,
             poolVars
    <2>1. CASE ConnectRetry
      BY <2>1 DEF ConnectRetry, ConnectRetryUpTo
    <2>2. CASE EndOfData
      BY <2>2 DEF EndOfData
    <2>3. ASSUME NEW demo \in 0 .. kTotalDemos - 1, ReadRequest(demo)
          PROVE  TypeOK' /\ MainPhase'
      BY <2>3, DemoKinds DEF ReadRequest
    <2>4. CASE ReadNoDemo
      BY <2>4 DEF ReadNoDemo
    <2>5. CASE CopyHandles
      BY <2>5 DEF CopyHandles
    <2>6. CASE SendFails
      BY <2>6 DEF SendFails
    <2>7. CASE ReadSyncFails
      BY <2>7 DEF ReadSyncFails
    <2>8. CASE ParsedSync
      BY <2>8 DEF ParsedSync
    <2>9. CASE UNCHANGED vars
      BY <2>9 DEF vars
    <2> QED BY <2>1, <2>2, <2>3, <2>4, <2>5, <2>6, <2>7, <2>8, <2>9 DEF QuietStep
  <1>5. PushTyped'
    BY <1>1 DEF TypeInv, PushTyped, poolVars
  <1> QED BY <1>2, <1>3, <1>4, <1>5 DEF TypeInv

\* The steps that are not quiet.
LEMMA StepCases ==
  ASSUME [Next]_vars
  PROVE  \/ QuietStep
         \/ \E k \in Conn : Connect(k)
         \/ Reconnect \/ Destroy
         \/ RegisterRequest
         \/ SendSync \/ SendAsync
         \/ ReadSync
         \/ \E w \in writes : WriteCompletes(w) \/ WriteAborted(w)
         \/ \E t \in parsing : ParseResponse(t) \/ PushHandle(t)
         \/ \E k \in Conn : ServerListens(k) \/ Serve(k) \/ ServerRejects(k) \/ ServerCloses(k)
  BY DEF Next, Start, Callback, ServerStep, Terminated, QuietStep

\* The write that has completed no longer counts.
LEMMA WritesRemoved ==
  ASSUME TypeInv, NEW w \in writes, writes' = writes \ {w}
  PROVE  /\ IsFiniteSet(writes')
         /\ Cardinality(writes) \in Nat
         /\ Cardinality(writes') \in Nat
         /\ Cardinality(writes') = Cardinality(writes) - 1
  <1> DEFINE rest == writes \ {w}
  <1>1. IsFiniteSet(writes)
    BY DEF TypeInv, ReadsBounded
  <1>2. IsFiniteSet(rest) /\ Cardinality(rest) = Cardinality(writes) - 1
    BY <1>1, FS_RemoveElement
  <1>3. Cardinality(rest) \in Nat /\ Cardinality(writes) \in Nat
    BY <1>1, <1>2, FS_CardinalityType
  <1>4. writes' = rest
    OBVIOUS
  <1> HIDE DEF rest
  <1> QED BY ONLY <1>2, <1>3, <1>4, Zenon

\* A write that starts adds one at most.
LEMMA WritesAdded ==
  ASSUME TypeInv, NEW w, writes' = writes \cup {w}
  PROVE  /\ IsFiniteSet(writes')
         /\ Cardinality(writes) \in Nat
         /\ Cardinality(writes') \in Nat
         /\ Cardinality(writes') <= Cardinality(writes) + 1
  <1> DEFINE more == writes \cup {w}
  <1>1. IsFiniteSet(writes)
    BY DEF TypeInv, ReadsBounded
  <1>2. IsFiniteSet(more)
        /\ (Cardinality(more) = Cardinality(writes) + 1 \/ Cardinality(more) = Cardinality(writes))
    BY <1>1, FS_AddElement
  <1>3. Cardinality(more) \in Nat /\ Cardinality(writes) \in Nat
    BY <1>1, <1>2, FS_CardinalityType
  <1>4. writes' = more
    OBVIOUS
  <1> HIDE DEF more
  <1>5. Cardinality(more) <= Cardinality(writes) + 1
    BY ONLY <1>2, <1>3
  <1> QED BY ONLY <1>2, <1>3, <1>4, <1>5, Zenon

\* Opening and closing the client end keeps the types.
LEMMA ConnectionTypes ==
  ASSUME TypeInv, (\E k \in Conn : Connect(k)) \/ Reconnect \/ Destroy
  PROVE  TypeInv'
  <1>1. inst \in [Conn -> Instance] /\ reads \in [Conn -> 0 .. Iterations] /\ NullPipe \notin Conn
        /\ Cardinality(writes) \in Nat /\ request_id_counter \in Nat /\ Iterations \in Nat
    BY ClientAssumption, FS_CardinalityType DEF TypeInv, TypeOK, ReadsBounded, Conn, NullPipe
  <1>2. ASSUME NEW k \in Conn, Connect(k)
        PROVE  TypeInv'
    <2>1. inst' \in [Conn -> Instance] /\ ClientEnds'
      <3>1. inst[k] \in Instance
        BY <1>1
      <3>2. ClientOpened(inst[k]) \in Instance /\ ClientOpened(inst[k]).cli = "open"
        BY <3>1, InstanceTypes, InstanceFields
      <3>3. inst' = [inst EXCEPT ![k] = ClientOpened(inst[k])] /\ pipe_handle' = k
            /\ pipe_handle = NullPipe
        BY <1>2 DEF Connect, TypeInv, MainPhase
      <3> QED BY <1>1, <3>2, <3>3 DEF TypeInv, ClientEnds
    <2>2. TypeOK' /\ MainPhase'
      BY <2>1, <1>2 DEF Connect, TypeInv, TypeOK, MainPhase, MainPc, Goto, sourceVars, poolVars
    <2>3. ReadsBounded' /\ PushTyped'
      BY <1>1, <1>2 DEF Connect, TypeInv, ReadsBounded, PushTyped, LastSent, Goto, poolVars
    <2> QED BY <2>1, <2>2, <2>3 DEF TypeInv
  <1>3. ASSUME DisconnectFromServer
        PROVE  /\ inst' \in [Conn -> Instance] /\ pipe_handle' = NullPipe
               /\ reads' \in [Conn -> 0 .. Iterations]
               /\ \A k \in Conn : reads'[k] <= reads[k]
               /\ \A k \in Conn : inst'[k].cli # "open" /\ inst'[k].rsp = <<>>
               /\ \A k \in Conn : inst'[k].cli = "none" => inst'[k].req = <<>>
    <2>1. \A k \in Conn : /\ ClientClosed(inst[k]) \in Instance
                          /\ ClientClosed(inst[k]).cli = "closed"
                          /\ ClientClosed(inst[k]).rsp = <<>>
      BY <1>1, InstanceTypes, InstanceFields
    <2> QED BY <1>1, <1>3, <2>1 DEF DisconnectFromServer, TypeInv, ClientEnds
  <1>4. CASE Reconnect
    <2>1. TypeOK' /\ MainPhase'
      BY <1>3, <1>4, ClientAssumption DEF Reconnect, TypeInv, TypeOK, MainPhase, MainPc, Goto,
           sourceVars
    <2>2. ReadsBounded' /\ PushTyped' /\ ClientEnds'
      BY <1>1, <1>3, <1>4 DEF Reconnect, TypeInv, ReadsBounded, PushTyped, ClientEnds, LastSent,
           Goto
    <2> QED BY <2>1, <2>2 DEF TypeInv
  <1>5. CASE Destroy
    <2>1. TypeOK' /\ MainPhase'
      BY <1>3, <1>5 DEF Destroy, TypeInv, TypeOK, MainPhase, MainPc, Goto, sourceVars
    <2>2. ReadsBounded' /\ PushTyped' /\ ClientEnds'
      BY <1>1, <1>3, <1>5 DEF Destroy, TypeInv, ReadsBounded, PushTyped, ClientEnds, LastSent, Goto
    <2> QED BY <2>1, <2>2 DEF TypeInv
  <1> QED BY <1>2, <1>4, <1>5

\* So does registering and sending a request: an id is counted and used once.
LEMMA SendTypes ==
  ASSUME TypeInv, RegisterRequest \/ SendSync \/ SendAsync
  PROVE  TypeInv'
  <1>1. /\ inst \in [Conn -> Instance] /\ NullPipe \notin Conn
        /\ request_id_counter \in 0 .. Iterations
        /\ Cardinality(writes) \in Nat /\ Iterations \in Nat /\ reads \in [Conn -> 0 .. Iterations]
    BY ClientAssumption, FS_CardinalityType DEF TypeInv, TypeOK, ReadsBounded, Conn, NullPipe
  <1>2. CASE RegisterRequest
    <2>1. request_id_counter + 1 \in RequestId /\ request \in Kind /\ pc = "register"
          /\ request_id_counter < curr_iteration
      BY <1>1, <1>2 DEF RegisterRequest, RegisterIf, TypeInv, TypeOK, MainPhase, RequestId
    <2>2. [id |-> request_id_counter + 1, kind |-> request] \in Message
      BY <2>1 DEF Message
    <2>3. TypeOK' /\ MainPhase'
      BY <1>1, <1>2, <2>1, <2>2 DEF RegisterRequest, RegisterIf, TypeInv, TypeOK, MainPhase, MainPc,
             Goto, RequestId, sourceVars, poolVars
    <2>4. ReadsBounded' /\ PushTyped' /\ ClientEnds'
      BY <1>1, <1>2, <2>1 DEF RegisterRequest, RegisterIf, TypeInv, ReadsBounded, PushTyped,
             ClientEnds, LastSent, Goto, poolVars
    <2> QED BY <2>3, <2>4 DEF TypeInv
  <1>3. ASSUME pc = "send", inst' = [inst EXCEPT ![pipe_handle] = Sent]
        PROVE  /\ pipe_handle \in Conn /\ request_id_counter \in RequestId /\ request \in Kind
               /\ inst' \in [Conn -> Instance]
               /\ \A k \in Conn : inst'[k].cli = inst[k].cli /\ inst'[k].rsp = inst[k].rsp
               /\ \A k \in Conn : k # pipe_handle => inst'[k] = inst[k]
    <2> DEFINE m == [id |-> request_id_counter, kind |-> request]
    <2>1. pipe_handle \in Conn /\ request_id_counter \in RequestId /\ request \in Kind
      BY <1>1, <1>3 DEF TypeInv, MainPhase, RequestId
    <2>2. m \in Message /\ Pipe \in Instance
      BY <1>1, <2>1 DEF Message, Pipe
    <2>3. ClientWritten(Pipe, m) \in Instance /\ ClientWritten(Pipe, m).cli = Pipe.cli
          /\ ClientWritten(Pipe, m).rsp = Pipe.rsp
      BY <2>2, InstanceTypes, InstanceFields
    <2> QED BY <1>1, <1>3, <2>1, <2>3 DEF Sent, Pipe
  <1>4. CASE SendSync
    <2>1. /\ pc = "send" /\ ExecPolicy = "Sync" /\ Connected(Pipe)
          /\ inst' = [inst EXCEPT ![pipe_handle] = Sent]
      BY <1>4 DEF SendSync, SendSyncThen, ClientCanWrite
    <2>2. TypeOK' /\ MainPhase'
      BY <1>1, <1>3, <1>4, <2>1 DEF SendSync, SendSyncThen, TypeInv, TypeOK, MainPhase, MainPc,
             Goto, sourceVars, poolVars
    <2>3. ReadsBounded' /\ PushTyped'
      BY <1>1, <1>4, <2>1 DEF SendSync, SendSyncThen, TypeInv, ReadsBounded, PushTyped, LastSent,
           Goto,
             poolVars
    <2>4. pipe_handle' = pipe_handle /\ inst[pipe_handle].cli = "open"
      BY <1>4, <2>1 DEF SendSync, SendSyncThen, Connected, Pipe
    <2>5. ClientEnds'
      BY <1>1, <1>3, <2>1, <2>4 DEF TypeInv, ClientEnds
    <2> QED BY <2>2, <2>3, <2>5 DEF TypeInv
  <1>5. CASE SendAsync
    <2>1. pc = "send" /\ Connected(Pipe) /\ inst' = [inst EXCEPT ![pipe_handle] = Sent]
      BY <1>5 DEF SendAsync
    <2> DEFINE w == [id |-> request_id_counter, wait |-> Awaited(request), conn |-> pipe_handle]
    <2>2. w \in [id : RequestId, wait : BOOLEAN, conn : Conn]
      BY <1>3, <2>1 DEF Awaited
    <2>3. /\ IsFiniteSet(writes') /\ Cardinality(writes') \in Nat
          /\ Cardinality(writes') <= Cardinality(writes) + 1
      BY <1>5, WritesAdded DEF SendAsync
    <2>4. TypeOK' /\ MainPhase'
      BY <1>1, <1>3, <1>5, <2>1, <2>2 DEF SendAsync, TypeInv, TypeOK, MainPhase, MainPc,
             Goto, sourceVars
    <2>5. ReadsBounded' /\ PushTyped'
      <3>1. UNCHANGED <<reads, parsing, request_id_counter>> /\ pc' = "good"
        BY <1>5 DEF SendAsync, Goto
      <3> QED BY <1>1, <2>1, <2>3, <3>1 DEF TypeInv, ReadsBounded, PushTyped, LastSent
    <2>6. pipe_handle' = pipe_handle /\ inst[pipe_handle].cli = "open"
      BY <1>5, <2>1 DEF SendAsync, Connected, Pipe
    <2>7. ClientEnds'
      BY <1>1, <1>3, <2>1, <2>6 DEF TypeInv, ClientEnds
    <2> QED BY <2>4, <2>5, <2>7 DEF TypeInv
  <1> QED BY <1>2, <1>4, <1>5

\* What a client reads is what the server wrote; a thread takes it.
LEMMA DrainTypes ==
  ASSUME TypeInv, pipe_handle # NullPipe, ClientReadReturns(Pipe),
         inst' = [inst EXCEPT ![pipe_handle] = ClientDrained(@)]
  PROVE  /\ pipe_handle \in Conn
         /\ Pipe.rsp \in Seq(Reply) /\ Pipe.rsp # <<>>
         /\ Parsed(Pipe.rsp) \in [data : Seq(Reply), at : {"start", "push"}]
         /\ inst' \in [Conn -> Instance]
         /\ \A k \in Conn : /\ inst'[k].srv = inst[k].srv /\ inst'[k].cli = inst[k].cli
                            /\ inst'[k].req = inst[k].req
         /\ \A k \in Conn : inst'[k].rsp = IF k = pipe_handle THEN <<>> ELSE inst[k].rsp
  <1>1. pipe_handle \in Conn /\ inst \in [Conn -> Instance] /\ Pipe \in Instance
    BY DEF TypeInv, TypeOK, Pipe
  <1>2. Pipe.rsp \in Seq(Reply) /\ Pipe.rsp # <<>>
    BY <1>1 DEF ClientReadReturns, Instance
  <1>3. /\ ClientDrained(Pipe) \in Instance
        /\ ClientDrained(Pipe).srv = Pipe.srv /\ ClientDrained(Pipe).cli = Pipe.cli
        /\ ClientDrained(Pipe).req = Pipe.req /\ ClientDrained(Pipe).rsp = <<>>
    BY <1>1, InstanceTypes, InstanceFields
  <1> QED BY <1>1, <1>2, <1>3 DEF Parsed, Pipe

\* The reads and the write callbacks keep the types.
LEMMA ReadTypes ==
  ASSUME TypeInv, ReadSync \/ \E w \in writes : WriteCompletes(w) \/ WriteAborted(w)
  PROVE  TypeInv'
  <1>1. /\ inst \in [Conn -> Instance] /\ NullPipe \notin Conn
        /\ request_id_counter \in 0 .. Iterations
        /\ Cardinality(writes) \in Nat /\ Iterations \in Nat /\ reads \in [Conn -> 0 .. Iterations]
    BY ClientAssumption, FS_CardinalityType DEF TypeInv, TypeOK, ReadsBounded, Conn, NullPipe
  <1>2. CASE ReadSync
    <2>1. /\ pc = "wait" /\ pipe_handle # NullPipe /\ ClientReadReturns(Pipe)
          /\ inst' = [inst EXCEPT ![pipe_handle] = ClientDrained(@)]
      BY <1>1, <1>2 DEF ReadSync, TypeInv, MainPhase
    <2>2. TypeOK' /\ MainPhase'
      BY <1>2, <2>1, DrainTypes DEF ReadSync, TypeInv, TypeOK, MainPhase, MainPc, Goto, sourceVars
    <2>3. ReadsBounded' /\ PushTyped'
      BY <1>2, <2>1 DEF ReadSync, TypeInv, ReadsBounded, PushTyped, LastSent, Goto, Parsed
    <2>4. ClientEnds'
      BY <1>2, <2>1, DrainTypes DEF ReadSync, TypeInv, ClientEnds
    <2> QED BY <2>2, <2>3, <2>4 DEF TypeInv
  <1>3. ASSUME NEW w \in writes, WriteCompletes(w)
        PROVE  TypeInv'
    <2>1. UNCHANGED <<mainVars, requests, handles>> /\ writes' \subseteq writes
      BY <1>3 DEF WriteCompletes, WriteCompletesPosting
    <2> DEFINE n == Cardinality(writes)
    <2>2. /\ IsFiniteSet(writes') /\ n \in Nat /\ Cardinality(writes') \in Nat
          /\ Cardinality(writes') = n - 1
      BY <1>3, WritesRemoved DEF WriteCompletes, WriteCompletesPosting
    <2>3. CASE UNCHANGED <<inst, reads, parsing>>
      <3>1. TypeOK' /\ MainPhase'
        BY <2>1, <2>3 DEF TypeInv, TypeOK, MainPhase, mainVars, sourceVars
      <3>2. ReadsBounded' /\ PushTyped' /\ ClientEnds'
        BY <1>1, <2>1, <2>3, <2>2 DEF TypeInv, ReadsBounded, PushTyped, ClientEnds, LastSent,
             mainVars
      <3> QED BY <3>1, <3>2 DEF TypeInv
    <2>4. CASE /\ pipe_handle # NullPipe
               /\ ClientReadReturns(Pipe)
               /\ inst' = [inst EXCEPT ![pipe_handle] = ClientDrained(@)]
               /\ parsing' = parsing \cup {Parsed(Pipe.rsp)}
               /\ UNCHANGED reads
      <3>1. TypeOK' /\ MainPhase'
        BY <2>1, <2>4, DrainTypes DEF TypeInv, TypeOK, MainPhase, mainVars, sourceVars
      <3>2. ReadsBounded' /\ PushTyped'
        BY <1>1, <2>1, <2>4, <2>2 DEF TypeInv, ReadsBounded, PushTyped, LastSent, Parsed, mainVars
      <3>3. ClientEnds'
        BY <2>1, <2>4, DrainTypes DEF TypeInv, ClientEnds, mainVars
      <3> QED BY <3>1, <3>2, <3>3 DEF TypeInv
    <2>5. CASE /\ pipe_handle # NullPipe
               /\ reads' = [reads EXCEPT ![pipe_handle] = @ + 1]
               /\ UNCHANGED <<inst, parsing>>
      <3>1. ReadsBounded' /\ PushTyped' /\ ClientEnds'
        BY <1>1, <2>1, <2>5, <2>2 DEF TypeInv, ReadsBounded, PushTyped, ClientEnds, LastSent,
             mainVars
      <3>2. pipe_handle \in Conn /\ reads[pipe_handle] + 1 \in 0 .. Iterations
        <4>1. pipe_handle \in Conn /\ LastSent <= request_id_counter
          BY <1>1, <2>5 DEF TypeInv, TypeOK, LastSent
        <4>2. reads[pipe_handle] + Cardinality(writes) <= LastSent /\ Cardinality(writes) >= 1
          BY <2>2, <4>1 DEF TypeInv, ReadsBounded
        <4> QED BY <1>1, <4>1, <4>2 DEF LastSent
      <3>3. TypeOK' /\ MainPhase'
        BY <1>1, <2>1, <2>5, <3>2 DEF TypeInv, TypeOK, MainPhase, mainVars, sourceVars
      <3> QED BY <3>1, <3>3 DEF TypeInv
    <2> QED BY <1>3, <2>3, <2>4, <2>5 DEF WriteCompletes, WriteCompletesPosting, PostRead
  <1>4. ASSUME NEW w \in writes, WriteAborted(w)
        PROVE  TypeInv'
    <2>1. TypeOK' /\ MainPhase'
      BY <1>4 DEF WriteAborted, TypeInv, TypeOK, MainPhase, mainVars, sourceVars
    <2>2. UNCHANGED <<inst, mainVars, requests, handles, reads, parsing>>
      BY <1>4 DEF WriteAborted
    <2>3. /\ IsFiniteSet(writes') /\ Cardinality(writes') \in Nat
          /\ Cardinality(writes') = Cardinality(writes) - 1
      BY <1>4, WritesRemoved DEF WriteAborted
    <2>4. ReadsBounded' /\ PushTyped' /\ ClientEnds'
      BY <1>1, <2>2, <2>3 DEF TypeInv, ReadsBounded, PushTyped, ClientEnds, LastSent, mainVars
    <2> QED BY <2>1, <2>4 DEF TypeInv
  <1> QED BY <1>2, <1>3, <1>4

\* Parsing keeps the types: what is appended to handles_ is a handle, because
\* the answer to a request that creates an object carries one.
LEMMA ParseTypes ==
  ASSUME CoreInv, NEW t \in parsing, ParseResponse(t) \/ PushHandle(t)
  PROVE  TypeInv'
  <1>1. /\ UNCHANGED <<inst, mainVars, writes, reads>>
        /\ requests' \subseteq requests
    BY DEF ParseResponse, PushHandle, ParseLocking, Done
  <1>2. CASE ParseResponse(t)
    <2> DEFINE u == [t EXCEPT !.at = "push"]
    <2>1. t \in [data : Seq(Reply), at : {"start", "push"}]
      BY DEF CoreInv, TypeInv, TypeOK
    <2>2. u \in [data : Seq(Reply), at : {"start", "push"}] /\ u.data = t.data
      BY <2>1
    <2>3. UNCHANGED handles
      BY <1>2 DEF ParseResponse, ParseLocking
    <2>4. \/ parsing' = parsing \ {t}
          \/ /\ parsing' = (parsing \ {t}) \cup {u}
             /\ [id |-> Head(t.data).id, kind |-> "create"] \in requests
      BY <1>2 DEF ParseResponse, ParseLocking, Done
    <2>5. [id |-> Head(t.data).id, kind |-> "create"] \in requests
            => Head(t.data).value \in ClassHandle
      <3>1. PICK m \in requests :
              m.id = Head(t.data).id /\ (m.kind = "create" => Head(t.data).value \in ClassHandle)
        BY DEF CoreInv, MatchInv, Answered, Answers
      <3>2. \A n \in requests : n.id = m.id => n = m
        BY DEF CoreInv, MatchInv, Registered
      <3> QED BY <3>1, <3>2
    <2>6. PushTyped'
      BY <2>2, <2>4, <2>5 DEF CoreInv, TypeInv, PushTyped
    <2>7. TypeOK' /\ MainPhase'
      BY <1>1, <2>2, <2>3, <2>4 DEF CoreInv, TypeInv, TypeOK, MainPhase, mainVars, sourceVars
    <2>8. ReadsBounded' /\ ClientEnds'
      BY <1>1 DEF CoreInv, TypeInv, ReadsBounded, ClientEnds, LastSent, mainVars
    <2> QED BY <2>6, <2>7, <2>8 DEF TypeInv
  <1>3. CASE PushHandle(t)
    <2>1. Head(t.data).value \in ClassHandle
      BY <1>3 DEF PushHandle, CoreInv, TypeInv, PushTyped
    <2>2. handles \in Seq(ClassHandle)
      BY DEF CoreInv, TypeInv, TypeOK
    <2>3. handles' \in Seq(ClassHandle) /\ parsing' \subseteq parsing
      BY <1>3, <2>1, <2>2, AppendProperties DEF PushHandle, Done
    <2>4. TypeOK' /\ MainPhase'
      BY <1>1, <2>3 DEF CoreInv, TypeInv, TypeOK, MainPhase, mainVars, sourceVars
    <2>5. ReadsBounded' /\ ClientEnds' /\ PushTyped'
      BY <1>1, <2>3 DEF CoreInv, TypeInv, ReadsBounded, ClientEnds, PushTyped, LastSent, mainVars
    <2> QED BY <2>4, <2>5 DEF TypeInv
  <1> QED BY <1>2, <1>3

\* The server's steps on one pipe: another read, a response, a closed end.
LEMMA ServerTypes ==
  ASSUME TypeInv, NEW k \in Conn,
         ServerListens(k) \/ Serve(k) \/ ServerRejects(k) \/ ServerCloses(k)
  PROVE  TypeInv'
  <1>1. /\ inst \in [Conn -> Instance] /\ inst[k] \in Instance
        /\ reads \in [Conn -> 0 .. Iterations]
        /\ request_id_counter \in 0 .. Iterations /\ Cardinality(writes) \in Nat
        /\ Iterations \in Nat
    BY ClientAssumption, FS_CardinalityType DEF TypeInv, TypeOK, ReadsBounded
  <1>2. UNCHANGED <<mainVars, requests, handles, writes>>
    BY DEF ServerListens, Serve, ServerRejects, ServerCloses, poolVars
  <1>3. ASSUME NEW q \in Instance, inst' = [inst EXCEPT ![k] = q],
               q.cli = inst[k].cli, q.cli # "open" => q.rsp = <<>>, q.cli = "none" => q.req = <<>>,
               reads' \in [Conn -> 0 .. Iterations], \A l \in Conn : reads'[l] <= reads[l],
               parsing' \subseteq [data : Seq(Reply), at : {"start", "push"}],
               \A t \in parsing' : t \in parsing \/ t.at = "start"
        PROVE  TypeInv'
    <2>1. inst' \in [Conn -> Instance]
      BY <1>1, <1>3
    <2>2. TypeOK' /\ MainPhase'
      BY <1>2, <1>3, <2>1 DEF TypeInv, TypeOK, MainPhase, mainVars, sourceVars
    <2>3. ReadsBounded' /\ PushTyped'
      BY <1>1, <1>2, <1>3 DEF TypeInv, ReadsBounded, PushTyped, LastSent, mainVars
    <2>4. ClientEnds'
      BY <1>1, <1>2, <1>3 DEF TypeInv, ClientEnds, mainVars
    <2> QED BY <2>2, <2>3, <2>4 DEF TypeInv
  <1>4. /\ parsing \subseteq [data : Seq(Reply), at : {"start", "push"}]
        /\ \A l \in Conn : reads[l] <= reads[l]
    BY <1>1 DEF TypeInv, TypeOK
  <1>5. /\ inst[k].cli # "open" => inst[k].rsp = <<>>
        /\ inst[k].cli = "none" => inst[k].req = <<>>
    BY DEF TypeInv, ClientEnds
  <1>6. CASE ServerListens(k)
    <2>1. /\ inst[k] = NoInstance /\ inst' = [inst EXCEPT ![k] = FreshInstance]
          /\ UNCHANGED <<reads, parsing>>
      BY <1>6 DEF ServerListens, poolVars
    <2>2. FreshInstance \in Instance
      BY <1>1, InstanceTypes
    <2>3. FreshInstance.cli = inst[k].cli /\ FreshInstance.rsp = <<>> /\ FreshInstance.req = <<>>
      BY <2>1, FreshFields
    <2> QED BY <1>1, <1>3, <1>4, <2>1, <2>2, <2>3
  <1>7. ASSUME inst[k].req # <<>>
        PROVE  /\ MessageRead(inst[k]) \in Instance
               /\ MessageRead(inst[k]).cli = inst[k].cli
               /\ MessageRead(inst[k]).rsp = inst[k].rsp
               /\ MessageRead(inst[k]).cli # "none"
               /\ Head(inst[k].req) \in Message
    BY <1>1, <1>5, <1>7, InstanceTypes, InstanceFields
  <1>8. CASE Serve(k)
    <2> DEFINE m == Head(inst[k].req)
    <2>1. inst[k].req # <<>> /\ m.id \in RequestId
      BY <1>7, <1>8 DEF Serve, ReadReturnsMessage, Message
    <2>2. CASE inst' = [inst EXCEPT ![k] = MessageRead(@)] /\ UNCHANGED <<reads, parsing>>
      <3>1. inst' = [inst EXCEPT ![k] = MessageRead(inst[k])]
        BY <2>2
      <3> QED BY ONLY <1>1, <1>3, <1>4, <1>5, <1>7, <2>1, <2>2, <3>1
    <2>3. ASSUME NEW v \in ClassHandle \cup {NoValue}, reads[k] > 0,
                 inst' = [inst EXCEPT ![k] = MessageRead(@)],
                 reads' = [reads EXCEPT ![k] = @ - 1],
                 parsing' = parsing \cup {Parsed(<<[id |-> m.id, value |-> v]>>)}
          PROVE  TypeInv'
      <3>1. [id |-> m.id, value |-> v] \in Reply
        BY <2>1 DEF Reply
      <3>2. Parsed(<<[id |-> m.id, value |-> v]>>) \in [data : Seq(Reply), at : {"start"}]
        BY <3>1 DEF Parsed
      <3>3. reads' \in [Conn -> 0 .. Iterations] /\ \A l \in Conn : reads'[l] <= reads[l]
        BY <1>1, <2>3
      <3>4. \A t \in parsing' : t \in parsing \/ t.at = "start"
        BY <2>3, <3>2
      <3>5. parsing' \subseteq [data : Seq(Reply), at : {"start", "push"}]
        BY <1>4, <2>3, <3>2
      <3> QED BY <1>3, <1>5, <1>7, <2>1, <2>3, <3>3, <3>4, <3>5
    <2>4. ASSUME NEW v \in ClassHandle \cup {NoValue}, WriteReturns(inst[k]),
                 inst' = [inst EXCEPT ![k] =
                            ResponseWritten(MessageRead(@), [id |-> m.id, value |-> v])],
                 UNCHANGED <<reads, parsing>>
          PROVE  TypeInv'
      <3> DEFINE p == MessageRead(inst[k])
                 r == [id |-> m.id, value |-> v]
      <3>1. r \in Reply /\ p \in Instance /\ p.cli = inst[k].cli
        BY <1>7, <2>1 DEF Reply
      <3>2. ResponseWritten(p, r) \in Instance /\ ResponseWritten(p, r).cli = inst[k].cli
        BY <3>1, InstanceTypes, InstanceFields
      <3>3. inst[k].cli = "open"
        BY <2>4 DEF WriteReturns, Connected
      <3>4. \A l \in Conn : reads'[l] <= reads[l]
        BY <1>1, <2>4
      <3> HIDE DEF p, r
      <3>5. inst' = [inst EXCEPT ![k] = ResponseWritten(p, r)]
        BY <2>4 DEF p, r
      <3> QED BY <1>1, <1>3, <1>4, <2>4, <3>2, <3>3, <3>4, <3>5
    <2>5. \A v : v \in (IF m.kind = "create" THEN ClassHandle ELSE {NoValue}) =>
                   v \in ClassHandle \cup {NoValue}
      OBVIOUS
    <2> QED BY <1>8, <2>2, <2>3, <2>4, <2>5 DEF Serve
  <1>9. CASE ServerRejects(k)
    <2>1. /\ inst[k].req # <<>> /\ inst' = [inst EXCEPT ![k] = MessageRead(@)]
          /\ UNCHANGED <<reads, parsing>>
      BY <1>9 DEF ServerRejects, ReadReturnsMessage, poolVars
    <2>2. inst' = [inst EXCEPT ![k] = MessageRead(inst[k])]
      BY <2>1
    <2> QED BY ONLY <1>1, <1>3, <1>4, <1>5, <1>7, <2>1, <2>2
  <1>10. CASE ServerCloses(k)
    <2>1. reads' = [reads EXCEPT ![k] = 0] /\ UNCHANGED parsing
      BY <1>10 DEF ServerCloses
    <2>2. reads' \in [Conn -> 0 .. Iterations] /\ \A l \in Conn : reads'[l] <= reads[l]
      BY <1>1, <2>1
    <2>3. CASE inst' = [inst EXCEPT ![k] = ServerClosed(@)]
      <3>1. /\ ServerClosed(inst[k]) \in Instance
            /\ ServerClosed(inst[k]).cli = inst[k].cli
            /\ ServerClosed(inst[k]).req = <<>> /\ ServerClosed(inst[k]).rsp = inst[k].rsp
        BY <1>1, InstanceTypes, InstanceFields
      <3> QED BY <1>3, <1>4, <1>5, <2>1, <2>2, <2>3, <3>1
    <2>4. CASE inst' = [inst EXCEPT ![k] = Disconnected(@)]
      <3>1. /\ Disconnected(inst[k]) \in Instance
            /\ Disconnected(inst[k]).cli = inst[k].cli
            /\ Disconnected(inst[k]).req = <<>> /\ Disconnected(inst[k]).rsp = <<>>
        BY <1>1, InstanceTypes, InstanceFields
      <3> QED BY <1>3, <1>4, <2>1, <2>2, <2>4, <3>1
    <2> QED BY <1>10, <2>3, <2>4 DEF ServerCloses
  <1> QED BY <1>6, <1>8, <1>9, <1>10

\* Every step of the client and of its server keeps the types.
LEMMA TypeInvStep ==
  ASSUME CoreInv, [Next]_vars
  PROVE  TypeInv'
  BY StepCases, QuietStepTypes, ConnectionTypes, SendTypes, ReadTypes, ParseTypes, ServerTypes
     DEF CoreInv

-----------------------------------------------------------------------------
(* Where an id is on its way. *)

\* The elements of a sequence are in its set, and so are their ids.
LEMMA ElemTypes ==
  ASSUME NEW S, NEW q \in Seq(S)
  PROVE  /\ \A e \in Elems(q) : e \in S
         /\ \A id \in Ids(q) : \E e \in S : id = e.id
  <1>1. \A i \in DOMAIN q : q[i] \in S
    BY LenProperties, ElementOfSeq
  <1> QED BY <1>1 DEF Elems, Ids

\* An id is one of some position.
LEMMA IdsByPosition ==
  ASSUME NEW q
  PROVE  \A id : id \in Ids(q) <=> \E i \in DOMAIN q : id = q[i].id
  BY DEF Ids, Elems

\* A message that is written adds itself, and no id twice if its id is new.
LEMMA AppendElems ==
  ASSUME NEW S, NEW q \in Seq(S), NEW m \in S
  PROVE  /\ Elems(Append(q, m)) = Elems(q) \cup {m}
         /\ Distinct(q) /\ m.id \notin Ids(q) => Distinct(Append(q, m))
  <1>1. /\ Append(q, m) \in Seq(S) /\ Len(Append(q, m)) = Len(q) + 1
        /\ \A i \in 1 .. Len(q) : Append(q, m)[i] = q[i]
        /\ Append(q, m)[Len(q) + 1] = m
    BY AppendProperties
  <1>2. Len(q) \in Nat /\ DOMAIN q = 1 .. Len(q) /\ DOMAIN Append(q, m) = 1 .. (Len(q) + 1)
    BY <1>1, LenProperties
  <1> DEFINE a == Append(q, m)
             n == Len(q)
  <1> HIDE DEF a, n
  <1>3. /\ n \in Nat /\ DOMAIN q = 1 .. n /\ DOMAIN a = 1 .. (n + 1)
        /\ \A i \in 1 .. n : a[i] = q[i]
        /\ a[n + 1] = m
    BY <1>1, <1>2 DEF a, n
  <1>4. Elems(a) = Elems(q) \cup {m}
    BY ONLY <1>3 DEF Elems
  <1>5. Distinct(q) /\ m.id \notin Ids(q) => Distinct(a)
    BY ONLY <1>3, IdsByPosition DEF Distinct
  <1> QED BY <1>4, <1>5 DEF a

\* A message that is read leaves the others, and not its id.
LEMMA TailElems ==
  ASSUME NEW S, NEW q \in Seq(S), q # <<>>
  PROVE  /\ Head(q) \in Elems(q)
         /\ Elems(Tail(q)) \subseteq Elems(q)
         /\ Distinct(q) => Distinct(Tail(q)) /\ Head(q).id \notin Ids(Tail(q))
  <1>1. /\ Head(q) = q[1] /\ Tail(q) \in Seq(S) /\ Len(Tail(q)) = Len(q) - 1
        /\ \A i \in 1 .. Len(Tail(q)) : Tail(q)[i] = q[i + 1]
    BY HeadTailProperties
  <1>2. Len(q) \in Nat /\ Len(q) # 0 /\ DOMAIN q = 1 .. Len(q) /\ DOMAIN Tail(q) = 1 .. (Len(q) - 1)
    BY <1>1, LenProperties, EmptySeq
  <1> DEFINE a == Tail(q)
             h == Head(q)
             n == Len(q)
  <1> HIDE DEF a, h, n
  <1>3. /\ n \in Nat /\ n # 0 /\ DOMAIN q = 1 .. n /\ DOMAIN a = 1 .. (n - 1)
        /\ \A i \in 1 .. (n - 1) : a[i] = q[i + 1]
        /\ h = q[1]
    BY <1>1, <1>2 DEF a, n, h
  <1>4. h \in Elems(q) /\ Elems(a) \subseteq Elems(q)
    BY ONLY <1>3 DEF Elems
  <1>5. Distinct(q) => Distinct(a)
    BY ONLY <1>3 DEF Distinct
  <1>6. ASSUME Distinct(q), h.id \in Ids(a) PROVE FALSE
    <2>1. PICK i \in DOMAIN a : h.id = a[i].id
      BY <1>6, IdsByPosition
    <2>2. /\ 1 \in DOMAIN q /\ i + 1 \in DOMAIN q /\ i + 1 # 1
          /\ q[1].id = q[i + 1].id
      BY ONLY <1>3, <2>1
    <2> QED BY <1>6, <2>2 DEF Distinct
  <1> QED BY <1>4, <1>5, <1>6 DEF a, h

\* Nothing is in an empty direction.
LEMMA EmptyElems == Elems(<<>>) = {} /\ Ids(<<>>) = {} /\ Distinct(<<>>)
  BY DEF Elems, Ids, Distinct

\* The ids on their way are numbers.
LEMMA IdTypes ==
  ASSUME TypeInv, MatchInv
  PROVE  /\ Iterations \in Nat /\ LastSent \in Int /\ request_id_counter \in Nat
         /\ \A k \in Conn : /\ inst[k] \in Instance
                            /\ inst[k].req \in Seq(Message) /\ inst[k].rsp \in Seq(Reply)
         /\ \A k \in Conn : \A id \in InPipe(k) : id \in Int
         /\ \A t \in parsing : Head(t.data) \in Reply /\ ParsedId(t) \in Int
  <1>1. Iterations \in Nat /\ LastSent \in Int /\ request_id_counter \in Nat
    BY ClientAssumption DEF TypeInv, TypeOK, LastSent
  <1>2. \A m \in Message : m.id \in Int
    BY <1>1 DEF Message, RequestId
  <1>3. \A m \in Reply : m.id \in Int
    BY <1>1 DEF Reply, RequestId
  <1>4. \A k \in Conn :
          inst[k] \in Instance /\ inst[k].req \in Seq(Message) /\ inst[k].rsp \in Seq(Reply)
    BY DEF TypeInv, TypeOK, Instance
  <1>5. ASSUME NEW k \in Conn, NEW id \in InPipe(k) PROVE id \in Int
    <2>1. \A x \in Ids(inst[k].req) : x \in Int
      BY <1>2, <1>4, ElemTypes
    <2>2. \A x \in Ids(inst[k].rsp) : x \in Int
      BY <1>3, <1>4, ElemTypes
    <2> QED BY <2>1, <2>2 DEF InPipe
  <1>6. ASSUME NEW t \in parsing PROVE Head(t.data) \in Reply /\ ParsedId(t) \in Int
    <2>1. t.data \in Seq(Reply) /\ t.data # <<>>
      BY DEF TypeInv, TypeOK, MatchInv, OnePlace
    <2>2. Head(t.data) \in Reply
      BY <2>1, HeadTailProperties
    <2> QED BY <1>3, <2>2 DEF ParsedId
  <1> QED BY <1>1, <1>4, <1>5, <1>6

\* A step that only takes messages out of pipes, and gives at most one of their
\* ids to a thread, keeps the ids apart and the answers matched.
LEMMA MovesMatch ==
  ASSUME TypeInv, MatchInv,
         requests' = requests, request_id_counter' = request_id_counter,
         LastSent' \in Int, LastSent <= LastSent',
         pc' = "send" => pc = "send" /\ request' = request,
         \A k \in Conn :
           /\ Distinct(inst'[k].req) /\ Elems(inst'[k].req) \subseteq Elems(inst[k].req)
           /\ Distinct(inst'[k].rsp) /\ Elems(inst'[k].rsp) \subseteq Elems(inst[k].rsp),
         \A t \in parsing' \ parsing :
           /\ t.data # <<>> /\ Answers(Head(t.data))
           /\ \E k \in Conn : ParsedId(t) \in InPipe(k) /\ ParsedId(t) \notin InPipe(k)',
         \A t, u \in parsing' \ parsing : t = u
  PROVE  MatchInv'
  <1>1. LastSent \in Int /\ request_id_counter \in Int
    BY DEF TypeInv, TypeOK, LastSent
  <1>2. \A k \in Conn : /\ Ids(inst'[k].req) \subseteq Ids(inst[k].req)
                        /\ Ids(inst'[k].rsp) \subseteq Ids(inst[k].rsp)
                        /\ InPipe(k)' \subseteq InPipe(k)
    BY DEF Ids, InPipe
  <1>3. Registered'
    BY DEF MatchInv, Registered
  <1>4. Answered'
    BY DEF MatchInv, Answered, Answers
  <1>5. \A k \in Conn : \A id \in InPipe(k) : id \in Int
    BY IdTypes
  <1>6. \A k \in Conn : /\ Distinct(inst'[k].req) /\ Distinct(inst'[k].rsp)
                        /\ Ids(inst'[k].req) \cap Ids(inst'[k].rsp) = {}
    BY <1>2 DEF MatchInv, OnePlace
  <1>7. \A k \in Conn : \A id \in InPipe(k)' : id <= LastSent'
    <2>1. ASSUME NEW k \in Conn, NEW id \in InPipe(k)' PROVE id <= LastSent'
      <3>1. id \in InPipe(k) /\ id \in Int /\ id <= LastSent
        BY <1>2, <1>5, <2>1 DEF MatchInv, OnePlace
      <3> QED BY <1>1, <3>1
    <2> QED BY <2>1
  <1>8. \A k, l \in Conn : k # l => InPipe(k)' \cap InPipe(l)' = {}
    BY <1>2 DEF MatchInv, OnePlace
  <1>9. \A t \in parsing : ParsedId(t) \in Int
    BY IdTypes
  <1>10. \A t \in parsing' : t.data # <<>> /\ ParsedId(t) <= LastSent'
    BY <1>1, <1>5, <1>9 DEF MatchInv, OnePlace
  <1>11. \A t \in parsing', k \in Conn : ParsedId(t) \notin InPipe(k)'
    BY <1>2 DEF MatchInv, OnePlace
  <1>12. \A t, u \in parsing' : ParsedId(t) = ParsedId(u) => t = u
    BY DEF MatchInv, OnePlace
  <1>13. OnePlace'
    BY <1>6, <1>8, <1>10, <1>11, <1>12, <1>7 DEF OnePlace, ParsedId
  <1> QED BY <1>3, <1>4, <1>13 DEF MatchInv

-----------------------------------------------------------------------------
(* The answers are matched. *)

\* The steps of main that touch no pipe keep the matching, and so do opening and
\* closing the client end, an aborted write and a server that closes a pipe,
\* rejects a request or listens again: each only takes messages away.
LEMMA DroppingMatch ==
  ASSUME TypeInv, MatchInv,
         \/ QuietStep
         \/ \E k \in Conn : Connect(k)
         \/ Reconnect \/ Destroy
         \/ \E w \in writes : WriteAborted(w)
         \/ \E k \in Conn : ServerListens(k) \/ ServerRejects(k) \/ ServerCloses(k)
  PROVE  MatchInv'
  <1>1. /\ requests' = requests /\ request_id_counter' = request_id_counter
        /\ LastSent' \in Int /\ LastSent <= LastSent'
        /\ pc' = "send" => pc = "send" /\ request' = request
        /\ parsing' = parsing
    <2>1. request_id_counter \in Nat
      BY IdTypes
    <2>2. CASE QuietStep
      BY <2>1, <2>2, QuietStepEffect DEF LastSent, poolVars
    <2>3. CASE (\E k \in Conn : Connect(k)) \/ Reconnect \/ Destroy
      BY <2>1, <2>3 DEF Connect, Reconnect, Destroy, LastSent, Goto, poolVars
    <2>4. CASE \E w \in writes : WriteAborted(w)
      BY <2>1, <2>4 DEF WriteAborted, LastSent, mainVars
    <2>5. CASE \E k \in Conn : ServerListens(k) \/ ServerRejects(k) \/ ServerCloses(k)
      BY <2>1, <2>5 DEF ServerListens, ServerRejects, ServerCloses, LastSent, mainVars, poolVars
    <2> QED BY <2>2, <2>3, <2>4, <2>5
  <1>2. \A k \in Conn : Distinct(inst[k].req) /\ Distinct(inst[k].rsp)
    BY DEF MatchInv, OnePlace
  <1>3. \A k \in Conn : /\ inst[k] \in Instance
                        /\ inst[k].req \in Seq(Message) /\ inst[k].rsp \in Seq(Reply)
    BY IdTypes
  <1> DEFINE Fewer(k) ==
               /\ Distinct(inst'[k].req) /\ Elems(inst'[k].req) \subseteq Elems(inst[k].req)
               /\ Distinct(inst'[k].rsp) /\ Elems(inst'[k].rsp) \subseteq Elems(inst[k].rsp)
  <1>4. ASSUME NEW k \in Conn, inst'[k] = inst[k]
        PROVE  Fewer(k)
    BY <1>2, <1>4
  <1>5. ASSUME NEW k \in Conn,
               inst'[k].req \in {inst[k].req, <<>>} , inst'[k].rsp \in {inst[k].rsp, <<>>}
        PROVE  Fewer(k)
    BY <1>2, <1>5, EmptyElems
  <1>6. inst \in [Conn -> Instance]
    BY DEF TypeInv, TypeOK
  <1>7. \A k \in Conn : Fewer(k)
    <2>1. CASE QuietStep \/ \E w \in writes : WriteAborted(w)
      BY <1>4, <2>1, QuietStepEffect DEF WriteAborted
    <2>2. ASSUME NEW k \in Conn, Connect(k) PROVE \A l \in Conn : Fewer(l)
      <3>1. inst' = [inst EXCEPT ![k] = ClientOpened(inst[k])]
        BY <2>2 DEF Connect
      <3>2. ClientOpened(inst[k]).req = inst[k].req /\ ClientOpened(inst[k]).rsp = inst[k].rsp
        BY <1>3, InstanceFields
      <3>3. Fewer(k)
        BY <1>5, <1>6, <3>1, <3>2
      <3> QED BY <1>4, <1>6, <3>1, <3>3
    <2>3. CASE Reconnect \/ Destroy
      <3> SUFFICES ASSUME NEW k \in Conn PROVE Fewer(k)
        OBVIOUS
      <3>1. inst'[k] = IF k = pipe_handle THEN ClientClosed(inst[k]) ELSE inst[k]
        BY <2>3 DEF Reconnect, Destroy, DisconnectFromServer
      <3>2. ClientClosed(inst[k]).req = inst[k].req /\ ClientClosed(inst[k]).rsp = <<>>
        BY <1>3, InstanceFields
      <3> QED BY <1>4, <1>5, <3>1, <3>2
    <2>4. ASSUME NEW k \in Conn, ServerListens(k) PROVE \A l \in Conn : Fewer(l)
      <3>1. inst' = [inst EXCEPT ![k] = FreshInstance]
        BY <2>4 DEF ServerListens
      <3>2. Fewer(k)
        BY <1>5, <1>6, <3>1, FreshFields
      <3> QED BY <1>4, <1>6, <3>1, <3>2
    <2>5. ASSUME NEW k \in Conn, ServerRejects(k) PROVE \A l \in Conn : Fewer(l)
      <3>1. inst' = [inst EXCEPT ![k] = MessageRead(inst[k])] /\ inst[k].req # <<>>
        BY <2>5 DEF ServerRejects, ReadReturnsMessage
      <3>2. MessageRead(inst[k]).req = Tail(inst[k].req) /\ MessageRead(inst[k]).rsp = inst[k].rsp
        BY <1>3, InstanceFields
      <3>3. Distinct(Tail(inst[k].req)) /\ Elems(Tail(inst[k].req)) \subseteq Elems(inst[k].req)
        BY <1>2, <1>3, <3>1, TailElems
      <3>4. Fewer(k)
        BY <1>2, <1>6, <3>1, <3>2, <3>3
      <3> QED BY <1>4, <1>6, <3>1, <3>4
    <2>6. ASSUME NEW k \in Conn, ServerCloses(k) PROVE \A l \in Conn : Fewer(l)
      <3>1. \/ inst' = [inst EXCEPT ![k] = ServerClosed(inst[k])]
            \/ inst' = [inst EXCEPT ![k] = Disconnected(inst[k])]
        BY <2>6 DEF ServerCloses
      <3>2. /\ ServerClosed(inst[k]).req = <<>> /\ ServerClosed(inst[k]).rsp = inst[k].rsp
            /\ Disconnected(inst[k]).req = <<>> /\ Disconnected(inst[k]).rsp = <<>>
        BY <1>3, InstanceFields
      <3>3. Fewer(k)
        BY <1>5, <1>6, <3>1, <3>2
      <3> QED BY <1>4, <1>6, <3>1, <3>3
    <2> QED BY <2>1, <2>2, <2>3, <2>4, <2>5, <2>6
  <1> HIDE DEF Fewer
  <1>8. \A t \in parsing' \ parsing : FALSE
    BY <1>1
  <1>9. \A k \in Conn :
          /\ Distinct(inst'[k].req) /\ Elems(inst'[k].req) \subseteq Elems(inst[k].req)
          /\ Distinct(inst'[k].rsp) /\ Elems(inst'[k].rsp) \subseteq Elems(inst[k].rsp)
    BY <1>7 DEF Fewer
  <1> QED BY <1>1, <1>8, <1>9, MovesMatch

\* A request is registered with an id that nothing has yet.
LEMMA RegisterMatch ==
  ASSUME TypeInv, MatchInv, RegisterRequest
  PROVE  MatchInv'
  <1> DEFINE id == request_id_counter + 1
             new == [id |-> id, kind |-> request]
  <1>1. /\ request_id_counter' = id /\ requests' = requests \cup {new} /\ request' = request
        /\ inst' = inst /\ parsing' = parsing /\ pc = "register" /\ pc' = "send"
    BY DEF RegisterRequest, RegisterIf, Goto, poolVars
  <1>2. request_id_counter \in Nat /\ LastSent' = LastSent
    BY <1>1, IdTypes DEF LastSent
  <1>3. \A m \in requests : m.id \in Int
    BY ClientAssumption DEF TypeInv, TypeOK, Message, RequestId
  <1>4. Registered'
    <2>1. \A m \in requests : m.id <= request_id_counter /\ m.id # id
      BY <1>2, <1>3 DEF MatchInv, Registered
    <2>2. \A m \in requests' : m.id <= request_id_counter'
      BY <1>1, <1>2, <1>3, <2>1
    <2>3. \A m, n \in requests' : m.id = n.id => m = n
      BY <1>1, <2>1 DEF MatchInv, Registered
    <2> QED BY <1>1, <2>2, <2>3 DEF Registered
  <1>5. OnePlace'
    BY <1>1, <1>2 DEF MatchInv, OnePlace, InPipe
  <1>6. Answered'
    BY <1>1 DEF MatchInv, Answered, Answers
  <1> QED BY <1>4, <1>5, <1>6 DEF MatchInv

\* A request is sent after it was registered, and no earlier one has its id.
LEMMA SendMatch ==
  ASSUME TypeInv, MatchInv, SendSync \/ SendAsync
  PROVE  MatchInv'
  <1> DEFINE m == [id |-> request_id_counter, kind |-> request]
             k == pipe_handle
  <1>1. /\ pc = "send" /\ pc' # "send" /\ inst' = [inst EXCEPT ![k] = ClientWritten(inst[k], m)]
        /\ UNCHANGED <<request_id_counter, requests, parsing>>
    <2>1. CASE SendSync
      BY <2>1 DEF SendSync, SendSyncThen, Sent, Pipe, Goto, poolVars
    <2>2. CASE SendAsync
      BY <2>2 DEF SendAsync, Sent, Pipe, Goto
    <2> QED BY <2>1, <2>2
  <1>2. /\ k \in Conn /\ request_id_counter \in RequestId /\ request \in Kind
        /\ inst \in [Conn -> Instance]
    BY <1>1 DEF TypeInv, TypeOK, MainPhase, RequestId
  <1>3. m \in Message /\ inst[k] \in Instance /\ inst[k].req \in Seq(Message)
    BY <1>2 DEF Message, Instance
  <1>4. inst'[k].req = Append(inst[k].req, m) /\ inst'[k].rsp = inst[k].rsp
        /\ \A l \in Conn : l # k => inst'[l] = inst[l]
    BY <1>1, <1>2, <1>3, InstanceFields
  <1>5. LastSent = m.id - 1 /\ LastSent' = m.id /\ m.id \in Int
    BY <1>1, <1>2, IdTypes DEF LastSent
  <1> HIDE DEF k
  <1>6. \A l \in Conn : m.id \notin InPipe(l)
    BY <1>5, IdTypes DEF MatchInv, OnePlace
  <1>7. \A t \in parsing : ParsedId(t) # m.id /\ ParsedId(t) <= m.id
    BY <1>5, IdTypes DEF MatchInv, OnePlace
  <1>8. m \in requests
    BY <1>1 DEF MatchInv, Registered
  <1> HIDE DEF m
  <1>9. /\ Elems(inst'[k].req) = Elems(inst[k].req) \cup {m}
        /\ Distinct(inst'[k].req)
        /\ Ids(inst'[k].req) = Ids(inst[k].req) \cup {m.id}
    <2>1. m.id \notin Ids(inst[k].req) /\ Distinct(inst[k].req)
      BY <1>2, <1>6 DEF MatchInv, OnePlace, InPipe
    <2>2. Elems(Append(inst[k].req, m)) = Elems(inst[k].req) \cup {m}
          /\ Distinct(Append(inst[k].req, m))
      BY <1>3, <2>1, AppendElems
    <2> QED BY <1>4, <2>2 DEF Ids
  <1>10. \A l \in Conn : InPipe(l)' = IF l = k THEN InPipe(l) \cup {m.id} ELSE InPipe(l)
    BY <1>4, <1>9 DEF InPipe
  <1>11. Registered'
    BY <1>1 DEF MatchInv, Registered
  <1>12. Answered'
    <2>1. \A l \in Conn : \A n \in Elems(inst'[l].req) : Awaited(n.kind) => n \in requests
      BY <1>4, <1>8, <1>9 DEF MatchInv, Answered
    <2>2. \A l \in Conn : \A r \in Elems(inst'[l].rsp) : Answers(r)
      BY <1>4 DEF MatchInv, Answered
    <2> QED BY <1>1, <2>1, <2>2 DEF MatchInv, Answered, Answers
  <1>13. OnePlace'
    <2>1. \A l \in Conn : /\ Distinct(inst'[l].req) /\ Distinct(inst'[l].rsp)
                          /\ Ids(inst'[l].req) \cap Ids(inst'[l].rsp) = {}
      <3>1. Ids(inst'[k].req) \cap Ids(inst'[k].rsp) = {}
        <4>1. m.id \notin Ids(inst[k].rsp) /\ Ids(inst[k].req) \cap Ids(inst[k].rsp) = {}
          BY <1>2, <1>6 DEF MatchInv, OnePlace, InPipe
        <4> QED BY <1>4, <1>9, <4>1
      <3> QED BY <1>4, <1>9, <3>1 DEF MatchInv, OnePlace
    <2>2. \A l \in Conn : \A id \in InPipe(l)' : id <= LastSent'
      <3>1. \A l \in Conn : \A id \in InPipe(l) : id \in Int /\ id <= LastSent
        BY IdTypes DEF MatchInv, OnePlace
      <3>2. \A l \in Conn : \A id \in InPipe(l) : id <= LastSent'
        BY <1>5, <3>1
      <3> QED BY <1>5, <1>10, <3>2
    <2>3. \A l, j \in Conn : l # j => InPipe(l)' \cap InPipe(j)' = {}
      BY <1>6, <1>10 DEF MatchInv, OnePlace
    <2>4. \A t \in parsing, l \in Conn : ParsedId(t) \notin InPipe(l)'
      BY <1>7, <1>10 DEF MatchInv, OnePlace
    <2>5. \A t \in parsing : t.data # <<>> /\ ParsedId(t) <= LastSent'
      BY <1>5, <1>7 DEF MatchInv, OnePlace
    <2>6. \A t, u \in parsing : ParsedId(t) = ParsedId(u) => t = u
      BY DEF MatchInv, OnePlace
    <2> QED BY <1>1, <2>1, <2>2, <2>3, <2>4, <2>5, <2>6 DEF OnePlace, ParsedId
  <1> QED BY <1>11, <1>12, <1>13 DEF MatchInv

\* A thread that drains a pipe takes the id of the first response with it.
LEMMA DrainMatch ==
  ASSUME TypeInv, MatchInv, pipe_handle # NullPipe, ClientReadReturns(Pipe),
         inst' = [inst EXCEPT ![pipe_handle] = ClientDrained(@)],
         requests' = requests, request_id_counter' = request_id_counter, request' = request,
         LastSent' \in Int, LastSent <= LastSent', pc' = "send" => pc = "send",
         parsing' \subseteq parsing \cup {Parsed(Pipe.rsp)}
  PROVE  MatchInv'
  <1>1. /\ pipe_handle \in Conn
        /\ Pipe.rsp \in Seq(Reply) /\ Pipe.rsp # <<>>
        /\ \A k \in Conn : inst'[k].req = inst[k].req
        /\ \A k \in Conn : inst'[k].rsp = IF k = pipe_handle THEN <<>> ELSE inst[k].rsp
    BY DrainTypes
  <1>2. Parsed(Pipe.rsp).data = Pipe.rsp
    BY DEF Parsed
  <1>3. Head(Pipe.rsp) \in Elems(Pipe.rsp)
    BY <1>1, TailElems
  <1>4. Answers(Head(Pipe.rsp))
    BY <1>1, <1>3 DEF MatchInv, Answered, Pipe
  <1>5. \A k \in Conn :
          /\ Distinct(inst'[k].req) /\ Elems(inst'[k].req) \subseteq Elems(inst[k].req)
          /\ Distinct(inst'[k].rsp) /\ Elems(inst'[k].rsp) \subseteq Elems(inst[k].rsp)
    BY <1>1, EmptyElems DEF MatchInv, OnePlace
  <1>6. Head(Pipe.rsp).id \in Ids(Pipe.rsp)
    BY <1>3 DEF Ids
  <1>7. Ids(Pipe.rsp) \subseteq InPipe(pipe_handle)
    BY DEF InPipe, Pipe
  <1>8. PICK k \in Conn : k = pipe_handle
    BY <1>1
  <1>9. InPipe(k)' = Ids(inst[k].req)
    BY <1>1, <1>8, EmptyElems DEF InPipe
  <1>10. Head(Pipe.rsp).id \in InPipe(k) /\ Head(Pipe.rsp).id \notin InPipe(k)'
    <2>1. Ids(inst[k].req) \cap Ids(inst[k].rsp) = {}
      BY DEF MatchInv, OnePlace
    <2> QED BY <1>6, <1>7, <1>8, <1>9, <2>1 DEF Pipe
  <1>11. \A t \in parsing' \ parsing :
           /\ t.data # <<>> /\ Answers(Head(t.data))
           /\ \E l \in Conn : ParsedId(t) \in InPipe(l) /\ ParsedId(t) \notin InPipe(l)'
    <2>1. \A t \in parsing' \ parsing : t = Parsed(Pipe.rsp)
      OBVIOUS
    <2>2. ParsedId(Parsed(Pipe.rsp)) = Head(Pipe.rsp).id
      BY <1>2 DEF ParsedId
    <2> QED BY <1>1, <1>2, <1>4, <1>10, <2>1, <2>2
  <1>12. \A t, u \in parsing' \ parsing : t = u
    OBVIOUS
  <1> QED BY <1>5, <1>11, <1>12, MovesMatch

\* The reads and the write callbacks keep the answers matched.
LEMMA ReadMatch ==
  ASSUME TypeInv, MatchInv, ReadSync \/ \E w \in writes : WriteCompletes(w)
  PROVE  MatchInv'
  <1>1. request_id_counter \in Nat /\ LastSent \in Int
    BY IdTypes
  <1>2. CASE ReadSync
    <2>1. /\ pc = "wait" /\ pipe_handle # NullPipe /\ ClientReadReturns(Pipe)
          /\ inst' = [inst EXCEPT ![pipe_handle] = ClientDrained(@)]
          /\ requests' = requests /\ request_id_counter' = request_id_counter /\ request' = request
          /\ parsing' \subseteq parsing \cup {Parsed(Pipe.rsp)} /\ pc' = "parse"
      BY <1>2, ClientAssumption DEF ReadSync, TypeInv, MainPhase, Conn, NullPipe, Goto
    <2>2. LastSent' \in Int /\ LastSent <= LastSent'
      BY <1>1, <2>1 DEF LastSent
    <2> QED BY <2>1, <2>2, DrainMatch
  <1>3. ASSUME NEW w \in writes, WriteCompletes(w)
        PROVE  MatchInv'
    <2>1. UNCHANGED <<mainVars, requests, handles>>
      BY <1>3 DEF WriteCompletes, WriteCompletesPosting
    <2>2. /\ requests' = requests /\ request_id_counter' = request_id_counter /\ request' = request
          /\ LastSent' \in Int /\ LastSent <= LastSent' /\ pc' = pc
      BY <1>1, <2>1 DEF LastSent, mainVars
    <2>3. CASE /\ pipe_handle # NullPipe
               /\ ClientReadReturns(Pipe)
               /\ inst' = [inst EXCEPT ![pipe_handle] = ClientDrained(@)]
               /\ parsing' = parsing \cup {Parsed(Pipe.rsp)}
      BY <2>2, <2>3, DrainMatch
    <2>4. CASE UNCHANGED <<inst, parsing>>
      <3>1. MatchInv => /\ Registered /\ OnePlace /\ Answered
        BY DEF MatchInv
      <3> QED BY <2>1, <2>4 DEF MatchInv, Registered, OnePlace, Answered, Answers, InPipe, LastSent,
             mainVars
    <2> QED BY <1>3, <2>3, <2>4 DEF WriteCompletes, WriteCompletesPosting, PostRead
  <1> QED BY <1>2, <1>3

\* The id of a request the server has read goes to its response, be it that a
\* thread has it at once or that it waits in the pipe.
LEMMA ServeMatch ==
  ASSUME TypeInv, MatchInv, NEW k \in Conn, Serve(k)
  PROVE  MatchInv'
  <1> DEFINE p  == MessageRead(inst[k])
             m  == Head(inst[k].req)
             Value == IF m.kind = "create" THEN ClassHandle ELSE {NoValue}
             r(v) == [id |-> m.id, value |-> v]
  <1>1. /\ inst \in [Conn -> Instance] /\ inst[k] \in Instance
        /\ reads \in [Conn -> 0 .. Iterations]
        /\ inst[k].req \in Seq(Message) /\ inst[k].rsp \in Seq(Reply) /\ inst[k].req # <<>>
    BY IdTypes DEF TypeInv, TypeOK, Serve, ReadReturnsMessage
  <1>2. /\ p \in Instance /\ p.req = Tail(inst[k].req) /\ p.rsp = inst[k].rsp /\ m \in Message
    BY <1>1, InstanceTypes, InstanceFields
  <1>3. /\ m \in Elems(inst[k].req)
        /\ Distinct(p.req) /\ Elems(p.req) \subseteq Elems(inst[k].req) /\ m.id \notin Ids(p.req)
    BY <1>1, <1>2, TailElems DEF MatchInv, OnePlace
  <1>4. m.id \in Ids(inst[k].req) /\ m.id \in InPipe(k) /\ m.id \notin Ids(inst[k].rsp)
        /\ Ids(p.req) \subseteq Ids(inst[k].req)
    <2>1. m.id \in Ids(inst[k].req) /\ Ids(p.req) \subseteq Ids(inst[k].req)
      BY <1>3 DEF Ids
    <2> QED BY <2>1 DEF InPipe, MatchInv, OnePlace
  <1>5. /\ UNCHANGED <<mainVars, requests>> /\ LastSent' = LastSent /\ LastSent \in Int
    BY IdTypes DEF Serve, LastSent, mainVars
  <1>6. Awaited(m.kind) => \A v \in Value : Answers(r(v))
    <2>1. Awaited(m.kind) => m \in requests
      BY <1>3 DEF MatchInv, Answered
    <2> QED BY <2>1 DEF Answers
  <1>7. \A v \in Value : v \in ClassHandle \cup {NoValue}
    OBVIOUS
  <1>8. \A v \in Value : r(v) \in Reply
    BY <1>2, <1>7 DEF Message, Reply
  <1> HIDE DEF Value
  <1>9. CASE inst' = [inst EXCEPT ![k] = p] /\ UNCHANGED <<reads, parsing>>
    <2>1. \A l \in Conn :
            /\ Distinct(inst'[l].req) /\ Elems(inst'[l].req) \subseteq Elems(inst[l].req)
            /\ Distinct(inst'[l].rsp) /\ Elems(inst'[l].rsp) \subseteq Elems(inst[l].rsp)
      <3>1. inst'[k] = p /\ \A l \in Conn : l # k => inst'[l] = inst[l]
        BY <1>1, <1>9
      <3> QED BY <1>2, <1>3, <3>1 DEF MatchInv, OnePlace
    <2>2. \A t \in parsing' \ parsing : FALSE
      BY <1>9
    <2> QED BY <1>5, <2>1, <2>2, MovesMatch DEF mainVars
  <1>10. ASSUME Awaited(m.kind), NEW v \in Value, inst' = [inst EXCEPT ![k] = p],
                parsing' = parsing \cup {Parsed(<<r(v)>>)}
         PROVE  MatchInv'
    <2>1. inst'[k] = p /\ \A l \in Conn : l # k => inst'[l] = inst[l]
      BY <1>1, <1>10
    <2>2. \A l \in Conn :
            /\ Distinct(inst'[l].req) /\ Elems(inst'[l].req) \subseteq Elems(inst[l].req)
            /\ Distinct(inst'[l].rsp) /\ Elems(inst'[l].rsp) \subseteq Elems(inst[l].rsp)
      BY <1>2, <1>3, <2>1 DEF MatchInv, OnePlace
    <2>3. InPipe(k)' = Ids(p.req) \cup Ids(inst[k].rsp)
      BY <1>2, <2>1 DEF InPipe
    <2>4. m.id \in InPipe(k) /\ m.id \notin InPipe(k)'
      BY <1>3, <1>4, <2>3
    <2> DEFINE u == Parsed(<<r(v)>>)
    <2>5. u.data = <<r(v)>> /\ u.data # <<>> /\ Head(u.data) = r(v)
      BY DEF Parsed
    <2>6. ParsedId(u) = m.id
      BY <2>5 DEF ParsedId
    <2>7. Answers(Head(u.data))
      BY <1>6, <1>10, <2>5
    <2> HIDE DEF u
    <2>8. \A t \in parsing' \ parsing : t = u
      BY <1>10 DEF u
    <2>9. \A t \in parsing' \ parsing :
            /\ t.data # <<>> /\ Answers(Head(t.data))
            /\ \E l \in Conn : ParsedId(t) \in InPipe(l) /\ ParsedId(t) \notin InPipe(l)'
      BY <2>4, <2>5, <2>6, <2>7, <2>8
    <2>10. \A t, s \in parsing' \ parsing : t = s
      BY <2>8
    <2>11. /\ requests' = requests /\ request_id_counter' = request_id_counter
           /\ pc' = pc /\ request' = request
      BY <1>5 DEF mainVars
    <2> QED BY <1>5, <2>2, <2>9, <2>10, <2>11, MovesMatch
  <1>11. ASSUME Awaited(m.kind), NEW v \in Value,
                 inst' = [inst EXCEPT ![k] = ResponseWritten(p, r(v))],
                UNCHANGED parsing
         PROVE  MatchInv'
    <2> DEFINE a == r(v)
    <2>1. a \in Reply /\ Answers(a) /\ a.id = m.id
      BY <1>6, <1>8, <1>11
    <2> HIDE DEF a
    <2>2. /\ inst'[k].req = p.req /\ inst'[k].rsp = Append(inst[k].rsp, a)
          /\ \A l \in Conn : l # k => inst'[l] = inst[l]
      <3>1. ResponseWritten(p, a).req = p.req /\ ResponseWritten(p, a).rsp = Append(p.rsp, a)
        BY <1>2, <2>1, InstanceFields
      <3>2. inst' = [inst EXCEPT ![k] = ResponseWritten(p, a)]
        BY <1>11 DEF a
      <3> QED BY <1>1, <1>2, <3>1, <3>2
    <2>3. /\ Elems(inst'[k].rsp) = Elems(inst[k].rsp) \cup {a}
          /\ Distinct(inst'[k].rsp)
          /\ Ids(inst'[k].rsp) = Ids(inst[k].rsp) \cup {m.id}
      <3>1. Distinct(inst[k].rsp) /\ a.id \notin Ids(inst[k].rsp)
        BY <1>4, <2>1 DEF MatchInv, OnePlace
      <3>2. Elems(Append(inst[k].rsp, a)) = Elems(inst[k].rsp) \cup {a}
            /\ Distinct(Append(inst[k].rsp, a))
        BY <1>1, <2>1, <3>1, AppendElems
      <3> QED BY <2>1, <2>2, <3>2 DEF Ids
    <2>4. \A l \in Conn : InPipe(l)' \subseteq InPipe(l)
      <3>1. Ids(inst'[k].req) \cup Ids(inst'[k].rsp) \subseteq InPipe(k)
        BY <1>4, <2>2, <2>3 DEF InPipe
      <3> QED BY <2>2, <3>1 DEF InPipe
    <2>5. Answered'
      <3>1. \A l \in Conn : \A n \in Elems(inst'[l].req) : Awaited(n.kind) => n \in requests
        BY <1>3, <2>2 DEF MatchInv, Answered
      <3>2. \A l \in Conn : \A n \in Elems(inst'[l].rsp) : Answers(n)
        BY <2>1, <2>2, <2>3 DEF MatchInv, Answered
      <3> QED BY <1>5, <1>11, <3>1, <3>2 DEF MatchInv, Answered, Answers
    <2>6. OnePlace'
      <3>1. \A l \in Conn : /\ Distinct(inst'[l].req) /\ Distinct(inst'[l].rsp)
                            /\ Ids(inst'[l].req) \cap Ids(inst'[l].rsp) = {}
        <4>1. Ids(inst'[k].req) \cap Ids(inst'[k].rsp) = {}
          <5>1. Ids(inst[k].req) \cap Ids(inst[k].rsp) = {}
            BY DEF MatchInv, OnePlace
          <5> QED BY <1>3, <1>4, <2>2, <2>3, <5>1
        <4> QED BY <1>3, <2>2, <2>3, <4>1 DEF MatchInv, OnePlace
      <3>2. \A l \in Conn : \A id \in InPipe(l)' : id <= LastSent'
        BY <1>5, <2>4 DEF MatchInv, OnePlace
      <3>3. \A l, j \in Conn : l # j => InPipe(l)' \cap InPipe(j)' = {}
        BY <2>4 DEF MatchInv, OnePlace
      <3>4. /\ \A t \in parsing, l \in Conn : ParsedId(t) \notin InPipe(l)'
            /\ \A t \in parsing : t.data # <<>> /\ ParsedId(t) <= LastSent'
            /\ \A t, u \in parsing : ParsedId(t) = ParsedId(u) => t = u
        BY <1>5, <2>4 DEF MatchInv, OnePlace
      <3> QED BY <1>11, <3>1, <3>2, <3>3, <3>4 DEF OnePlace, ParsedId
    <2>7. Registered'
      BY <1>5 DEF MatchInv, Registered, mainVars
    <2> QED BY <2>5, <2>6, <2>7 DEF MatchInv
  <1> QED BY <1>9, <1>10, <1>11 DEF Serve, Value

\* Parsing takes back the request whose answer it is, and no other answer was
\* waiting for it.
LEMMA ParseMatch ==
  ASSUME TypeInv, MatchInv, NEW t \in parsing, ParseResponse(t) \/ PushHandle(t)
  PROVE  MatchInv'
  <1>1. UNCHANGED <<inst, mainVars>>
    BY DEF ParseResponse, PushHandle, ParseLocking
  <1>2. /\ LastSent' = LastSent /\ LastSent \in Int /\ pc' = pc
        /\ request_id_counter' = request_id_counter
        /\ request' = request /\ inst' = inst
    BY <1>1, IdTypes DEF LastSent, mainVars
  <1>3. CASE /\ requests' = {m \in requests : m.id # ParsedId(t)}
             /\ parsing' = parsing \ {t}
    <2>1. Registered'
      <3>1. pc = "send" => ParsedId(t) # request_id_counter
        <4>1. ParsedId(t) <= LastSent /\ ParsedId(t) \in Int /\ request_id_counter \in Nat
          BY IdTypes DEF MatchInv, OnePlace
        <4> QED BY <4>1 DEF LastSent
      <3> QED BY <1>2, <1>3, <3>1 DEF MatchInv, Registered
    <2>2. OnePlace'
      BY <1>2, <1>3 DEF MatchInv, OnePlace, InPipe, ParsedId
    <2>3. \A r : Answers(r) /\ r.id # ParsedId(t) => Answers(r)'
      BY <1>3 DEF Answers
    <2>4. \A k \in Conn : \A n \in Elems(inst[k].req) : Awaited(n.kind) => n \in requests'
      <3>1. \A k \in Conn : \A n \in Elems(inst[k].req) : n.id \in InPipe(k)
        BY DEF InPipe, Ids
      <3> QED BY <1>3, <3>1 DEF MatchInv, Answered, OnePlace
    <2>5. \A k \in Conn : \A r \in Elems(inst[k].rsp) : Answers(r)'
      <3>1. \A k \in Conn : \A r \in Elems(inst[k].rsp) : r.id \in InPipe(k)
        BY DEF InPipe, Ids
      <3>2. \A k \in Conn : \A r \in Elems(inst[k].rsp) : Answers(r) /\ r.id # ParsedId(t)
        BY <3>1 DEF MatchInv, Answered, OnePlace
      <3> QED BY <2>3, <3>2
    <2>6. \A u \in parsing' : Answers(Head(u.data))'
      <3>1. \A u \in parsing' :
              u \in parsing /\ Answers(Head(u.data)) /\ Head(u.data).id # ParsedId(t)
        BY <1>3 DEF MatchInv, Answered, OnePlace, ParsedId
      <3> QED BY <2>3, <3>1
    <2>7. Answered'
      BY <1>2, <2>4, <2>5, <2>6 DEF Answered
    <2> QED BY <2>1, <2>2, <2>7 DEF MatchInv
  <1>4. CASE /\ parsing' = (parsing \ {t}) \cup {[t EXCEPT !.at = "push"]}
             /\ UNCHANGED requests
    <2> DEFINE u == [t EXCEPT !.at = "push"]
    <2>1. u.data = t.data
      BY DEF TypeInv, TypeOK
    <2> HIDE DEF u
    <2>2. ParsedId(u) = ParsedId(t)
      BY <2>1 DEF ParsedId
    <2>3. parsing' = (parsing \ {t}) \cup {u}
      BY <1>4 DEF u
    <2>4. \A s \in parsing' : \E o \in parsing : o.data = s.data /\ ParsedId(o) = ParsedId(s)
      BY <2>1, <2>2, <2>3
    <2>5. \A s \in parsing' : /\ s.data # <<>> /\ ParsedId(s) <= LastSent
                              /\ Answers(Head(s.data))
                              /\ \A k \in Conn : ParsedId(s) \notin InPipe(k)
      BY <2>4 DEF MatchInv, OnePlace, Answered
    <2>6. \A s, o \in parsing' : ParsedId(s) = ParsedId(o) => s = o
      BY <2>2, <2>3 DEF MatchInv, OnePlace
    <2>7. Registered'
      BY <1>2, <1>4 DEF MatchInv, Registered
    <2>8. OnePlace'
      BY <1>2, <2>5, <2>6 DEF MatchInv, OnePlace, InPipe, ParsedId
    <2>9. Answered'
      BY <1>2, <1>4, <2>5 DEF MatchInv, Answered, Answers
    <2> QED BY <2>7, <2>8, <2>9 DEF MatchInv
  <1> QED BY <1>3, <1>4 DEF ParseResponse, PushHandle, ParseLocking, Done, ParsedId

\* Every step keeps the answers matched.
LEMMA MatchInvStep ==
  ASSUME CoreInv, [Next]_vars
  PROVE  MatchInv'
  BY StepCases, DroppingMatch, RegisterMatch, SendMatch, ReadMatch, ServeMatch,
       ParseMatch DEF CoreInv

\* The invariant holds at first: nothing is in flight.
LEMMA CoreInvInit == Init => CoreInv
  <1> SUFFICES ASSUME Init PROVE CoreInv
    OBVIOUS
  <1>1. NoInstance \in Instance
    BY DEF Instance, NoInstance, ServerEnd, ClientEnd
  <1>2. TypeOK /\ MainPhase
    BY <1>1, ClientAssumption DEF Init, TypeOK, MainPhase, MainPc, NullPipe
  <1>3. ReadsBounded /\ PushTyped
    BY FS_EmptySet DEF Init, ReadsBounded, PushTyped, LastSent
  <1>4. ClientEnds
    BY FreshFields DEF Init, ClientEnds
  <1>5. \A k \in Conn : inst[k].req = <<>> /\ inst[k].rsp = <<>>
    BY FreshFields DEF Init
  <1>6. MatchInv
    <2>1. \A k \in Conn : InPipe(k) = {}
      BY <1>5, EmptyElems DEF InPipe
    <2> QED BY <1>5, <2>1, EmptyElems DEF Init, MatchInv, Registered, OnePlace, Answered
  <1> QED BY <1>2, <1>3, <1>4, <1>6 DEF CoreInv, TypeInv

\* The inductive invariant holds in every state the client can reach.
THEOREM CoreInvariant == Spec => []CoreInv
  <1>1. CoreInv /\ [Next]_vars => CoreInv'
    BY TypeInvStep, MatchInvStep DEF CoreInv
  <1> QED BY CoreInvInit, <1>1, PTL DEF Spec

\* The variables of the client keep their types (client/Client.h, Pipe.h,
\* ResponseParser.h, ClassRepository.h): the ids and the reads stay in range.
THEOREM TypeCorrect == Spec => []TypeOK
  <1>1. CoreInv => TypeOK
    BY DEF CoreInv, TypeInv
  <1> QED BY CoreInvariant, <1>1, PTL

\* ParseResponse() finds the request of every response it is given, whatever
\* the order of the pool's callbacks, the reconnections and the server's faults
\* (ResponseParser.cpp 57-66).
THEOREM ResponsesMatch == Spec => []ResponseMatched
  <1>1. CoreInv => ResponseMatched
    BY DEF CoreInv, MatchInv, Answered, Answers, ResponseMatched
  <1> QED BY CoreInvariant, <1>1, PTL

\* A step takes back one request at a time, one that awaits an answer, and the
\* one whose answer is parsed (ResponseParser.cpp 68-83).
THEOREM AnswersTakeOne == Spec => OneAnswerOneRequest
  <1> DEFINE Taken == \A m \in requests \ requests' :
                        /\ \E t \in parsing \ parsing' : Head(t.data).id = m.id
                        /\ Awaited(m.kind)
  <1>1. ASSUME CoreInv, [Next]_vars PROVE Taken
    <2>1. ASSUME NEW t \in parsing, ParseResponse(t) \/ PushHandle(t) PROVE Taken
      <3>1. \/ requests' = requests
            \/ requests' = {m \in requests : m.id # Head(t.data).id} /\ parsing' = parsing \ {t}
        BY <2>1 DEF ParseResponse, PushHandle, ParseLocking, Done
      <3>2. \A m \in requests : m.id = Head(t.data).id => Awaited(m.kind)
        BY <1>1 DEF CoreInv, MatchInv, Registered, Answered, Answers
      <3> QED BY <3>1, <3>2
    <2>2. CASE QuietStep
      BY <1>1, <2>2, QuietStepEffect DEF CoreInv
    <2>3. CASE RegisterRequest
      BY <2>3 DEF RegisterRequest, RegisterIf
    <2>4. CASE \/ \E k \in Conn : Connect(k)
               \/ Reconnect \/ Destroy \/ SendSync \/ SendAsync \/ ReadSync
      BY <2>4 DEF Connect, Reconnect, Destroy, SendSync, SendSyncThen, SendAsync, ReadSync
    <2>5. CASE \E w \in writes : WriteCompletes(w) \/ WriteAborted(w)
      BY <2>5 DEF WriteCompletes, WriteCompletesPosting, WriteAborted
    <2>6. CASE \E k \in Conn : ServerListens(k) \/ Serve(k) \/ ServerRejects(k) \/ ServerCloses(k)
      BY <2>6 DEF ServerListens, Serve, ServerRejects, ServerCloses
    <2> QED BY <1>1, <2>1, <2>2, <2>3, <2>4, <2>5, <2>6, StepCases
  <1>2. CoreInv /\ [Next]_vars => [Taken]_vars
    BY <1>1
  <1> QED BY CoreInvariant, <1>2, PTL DEF Spec, OneAnswerOneRequest

-----------------------------------------------------------------------------
(* The handles are stored once. *)

\* Every step but those of a parsing thread leaves handles_ alone, and a thread
\* that begins does not hold requests_mutex_.
LEMMA OtherStepsStart ==
  ASSUME TypeInv, [Next]_vars, ~ \E t \in parsing : ParseResponse(t) \/ PushHandle(t)
  PROVE  /\ handles' = handles
         /\ \A t \in parsing' \ parsing : t.at = "start"
  <1> DEFINE Goal == handles' = handles /\ \A t \in parsing' \ parsing : t.at = "start"
  <1>1. \A data : Parsed(data).at = "start"
    BY DEF Parsed
  <1>2. CASE QuietStep
    BY <1>2, QuietStepEffect DEF poolVars
  <1>3. CASE (\E k \in Conn : Connect(k)) \/ Reconnect \/ Destroy
    BY <1>3 DEF Connect, Reconnect, Destroy, poolVars
  <1>4. CASE RegisterRequest \/ SendSync \/ SendAsync
    BY <1>4 DEF RegisterRequest, RegisterIf, SendSync, SendSyncThen, SendAsync, poolVars
  <1>5. CASE ReadSync
    BY <1>1, <1>5 DEF ReadSync
  <1>6. ASSUME NEW w \in writes, WriteCompletes(w) \/ WriteAborted(w) PROVE Goal
    BY <1>1, <1>6 DEF WriteCompletes, WriteCompletesPosting, PostRead, WriteAborted
  <1>7. ASSUME NEW k \in Conn, Serve(k) PROVE Goal
    <2>1. handles' = handles
      BY <1>7 DEF Serve
    <2>2. parsing' = parsing \/ \E data : parsing' = parsing \cup {Parsed(data)}
      BY <1>7 DEF Serve
    <2> QED BY <1>1, <2>1, <2>2
  <1>8. CASE \E k \in Conn : ServerListens(k) \/ ServerRejects(k) \/ ServerCloses(k)
    BY <1>8 DEF ServerListens, ServerRejects, ServerCloses, poolVars
  <1> QED BY <1>2, <1>3, <1>4, <1>5, <1>6, <1>7, <1>8, StepCases

\* The look-up and the append are one step for the other threads, which wait
\* for requests_mutex_: the handle that was not there is still not there.
LEMMA HandlesInvStep ==
  ASSUME CoreInv, HandlesInv, [Next]_vars
  PROVE  HandlesInv'
  <1>1. ASSUME NEW t \in parsing, ParseResponse(t)
        PROVE  HandlesInv'
    <2> DEFINE u == [t EXCEPT !.at = "push"]
    <2>1. handles' = handles /\ t.at = "start" /\ \A s \in parsing : s.at = "start"
      BY <1>1 DEF ParseResponse, ParseLocking, MutexFree
    <2>2. CASE parsing' = parsing \ {t}
      BY <2>1, <2>2 DEF HandlesInv, HandlesUnique
    <2>3. CASE /\ parsing' = (parsing \ {t}) \cup {u}
               /\ \A i \in DOMAIN handles : handles[i] # Head(t.data).value
      <3>1. u.data = t.data
        BY DEF CoreInv, TypeInv, TypeOK
      <3> HIDE DEF u
      <3>2. \A s \in parsing' : s.at = "push" => s = u
        BY <2>1, <2>3
      <3> QED BY <2>1, <2>3, <3>1, <3>2 DEF HandlesInv, HandlesUnique
    <2> QED BY <1>1, <2>2, <2>3 DEF ParseResponse, ParseLocking, Done
  <1>2. ASSUME NEW t \in parsing, PushHandle(t)
        PROVE  HandlesInv'
    <2> DEFINE v == Head(t.data).value
    <2>1. handles' = Append(handles, v) /\ parsing' = parsing \ {t} /\ t.at = "push"
      BY <1>2 DEF PushHandle, Done
    <2>2. /\ v \in ClassHandle /\ handles \in Seq(ClassHandle)
          /\ \A i \in DOMAIN handles : handles[i] # v
      BY <2>1 DEF CoreInv, TypeInv, TypeOK, PushTyped, HandlesInv
    <2> HIDE DEF v
    <2>3. /\ Len(handles) \in Nat /\ DOMAIN handles = 1 .. Len(handles)
          /\ DOMAIN handles' = 1 .. (Len(handles) + 1)
          /\ \A i \in 1 .. Len(handles) : handles'[i] = handles[i]
          /\ handles'[Len(handles) + 1] = v
      BY <2>1, <2>2, AppendProperties, LenProperties
    <2>4. HandlesUnique'
      BY ONLY <2>2, <2>3, HandlesInv DEF HandlesInv, HandlesUnique
    <2>5. \A s \in parsing' : s.at # "push"
      BY <2>1 DEF HandlesInv
    <2> QED BY <2>4, <2>5 DEF HandlesInv
  <1>3. CASE ~ \E t \in parsing : ParseResponse(t) \/ PushHandle(t)
    <2>1. handles' = handles /\ \A t \in parsing' \ parsing : t.at = "start"
      BY <1>3, OtherStepsStart DEF CoreInv
    <2>2. \A t \in parsing' : t.at = "push" => t \in parsing
      BY <2>1
    <2> QED BY <2>1, <2>2 DEF HandlesInv, HandlesUnique
  <1> QED BY <1>1, <1>2, <1>3

\* A handle is stored once, although it is looked up and appended under two
\* locks of handles_mutex_, and although a server that was started again
\* returns it again (ClassRepository.cpp 10-20).
THEOREM HandlesStoredOnce == Spec => []HandlesUnique
  <1>1. Init => HandlesInv
    BY DEF Init, HandlesInv, HandlesUnique
  <1>2. CoreInv /\ HandlesInv /\ [Next]_vars => HandlesInv'
    BY HandlesInvStep
  <1>3. HandlesInv => HandlesUnique
    BY DEF HandlesInv
  <1> QED BY <1>1, <1>2, <1>3, CoreInvariant, PTL DEF Spec
=============================================================================
