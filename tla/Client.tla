-------------------------------- MODULE Client --------------------------------
(***************************************************************************)
(* The client process: client/Client.cpp, Pipe.cpp, ResponseParser.cpp,    *)
(* ClassRepository.cpp and DemoSimulator.cpp.                              *)
(*                                                                         *)
(*   main    : Client::Start(), sync or async                              *)
(*   writes  : overlapped writes whose completion callback has not run     *)
(*   reads   : overlapped reads posted and not complete, by connection     *)
(*   parsing : what threads have read and are passing to ParseResponse;    *)
(*             pool threads in the async client, main in the sync one      *)
(*                                                                         *)
(* Pool callbacks run in any order and beside main.  requests_mutex_ is    *)
(* held by the parsing thread that is past "start".  The server is the     *)
(* environment: it answers in order, and may fail as Faults says.          *)
(***************************************************************************)
EXTENDS Integers, Sequences, FiniteSets

CONSTANTS
  ExecPolicy,    \* "Sync" or "Async"
  Demos,         \* the kind of the request each demo makes, in their order
  Modes,         \* the simulation modes the user may choose
  ClassHandle,   \* the handles the server can return
  NoValue,       \* the value of a response that carries no handle
  Faults,        \* what the server may do: "closes" a pipe, "rejects" a request
  PipeCapacity,  \* messages buffered in one direction
  Iterations,    \* DemoSimulator::iterations_ (kStepsCount, 512)
  MaxConns,      \* bound: connections made
  MaxRetries     \* bound: attempts in ConnectToPipe (100)

\* Demos 0-2 are "plain", 3-5 "create", 6 is "print", 7-10 are "call".
Kind == {"plain", "create", "print", "call"}

ASSUME ClientAssumption ==
  /\ ExecPolicy \in {"Sync", "Async"}
  /\ Demos \in Seq(Kind) /\ Demos # <<>>
  /\ Modes \subseteq {"STEP_BY_STEP", "RANDOM", "MANUAL"}
  /\ NoValue \notin ClassHandle
  /\ Faults \subseteq {"closes", "rejects"}
  /\ PipeCapacity \in Nat \ {0}
  /\ Iterations \in Nat /\ MaxConns \in Nat /\ MaxRetries \in Nat \ {0}

kTotalDemos  == Len(Demos)
KindOf(demo) == Demos[demo + 1]

NeedsHandle(kind) == kind \in {"print", "call"}
Awaited(kind)     == kind \in {"create", "call"}

RequestId == 1 .. Iterations
Conn      == 1 .. MaxConns
Message   == [id : RequestId, kind : Kind]
Reply     == [id : RequestId, value : ClassHandle \cup {NoValue}]

INSTANCE NamedPipe WITH Request <- Message, Response <- Reply

VARIABLES
  mode,                \* DemoSimulator::mode_
  curr_iteration,      \* DemoSimulator::curr_iteration_
  inst,                \* the pipe behind each connection
  pc,                  \* where main is
  retry_iteration,     \* ConnectToPipe: attempts made
  pipe_handle,         \* Pipe::pipe_handle_, 0 for nullptr
  request_id_counter,  \* request_id_counter_
  request,             \* the kind of the current request
  requests,            \* ResponseParser::requests_
  handles,             \* ClassRepository::handles_
  writes,
  reads,
  parsing

sourceVars == <<mode, curr_iteration>>
mainVars == <<sourceVars, pc, retry_iteration, pipe_handle, request_id_counter, request>>
poolVars == <<writes, reads, parsing>>
vars     == <<inst, mainVars, requests, handles, poolVars>>

NullPipe == 0
MainPc   == {"connect", "good", "copy", "register", "send", "wait", "parse",
             "reconnect", "returned", "failed", "destroyed"}

TypeOK ==
  /\ mode \in Modes
  /\ curr_iteration \in 0 .. Iterations
  /\ inst \in [Conn -> Instance]
  /\ pc \in MainPc
  /\ retry_iteration \in 0 .. MaxRetries
  /\ pipe_handle \in Conn \cup {NullPipe}
  /\ request_id_counter \in 0 .. Iterations
  /\ request \in Kind \cup {NoValue}
  /\ requests \subseteq Message
  /\ handles \in Seq(ClassHandle)
  /\ writes \subseteq [id : RequestId, wait : BOOLEAN, conn : Conn]
  /\ reads \in [Conn -> 0 .. Iterations]
  /\ parsing \subseteq [data : Seq(Reply), at : {"start", "push"}]

Init ==
  /\ mode \in Modes
  /\ curr_iteration = 0
  /\ inst = [k \in Conn |-> NoInstance]
  /\ pc = "connect"
  /\ retry_iteration = 0
  /\ pipe_handle = NullPipe
  /\ request_id_counter = 0
  /\ request = NoValue
  /\ requests = {}
  /\ handles = <<>>
  /\ writes = {}
  /\ reads = [k \in Conn |-> 0]
  /\ parsing = {}

Goto(label) == pc' = label
MutexFree   == \A t \in parsing : t.at = "start"
Pipe        == inst[pipe_handle]

-----------------------------------------------------------------------------
(* Client::ConnectToPipe(), Pipe::Connect(), Pipe::DisconnectFromServer() *)

Connect(k) ==
  /\ pc = "connect"
  /\ Listening(inst[k])
  /\ inst' = [inst EXCEPT ![k] = ClientOpened(@)]
  /\ pipe_handle' = k
  /\ Goto("good")
  /\ UNCHANGED <<sourceVars, retry_iteration, request_id_counter, request, requests,
                 handles, poolVars>>

ConnectRetryUpTo(limit) ==
  /\ pc = "connect"
  /\ \A k \in Conn : ~Listening(inst[k])
  /\ retry_iteration' = retry_iteration + 1
  /\ Goto(IF retry_iteration' = limit THEN "failed" ELSE "connect")
  /\ UNCHANGED <<sourceVars, inst, pipe_handle, request_id_counter, request, requests,
                 handles, poolVars>>

\* Variant: one attempt too many.
ConnectRetryOnceMore == ConnectRetryUpTo(MaxRetries + 1)

\* No pipe, or WaitNamedPipe timed out.  When it succeeds and another client
\* takes the instance, the loop of Pipe::Connect() tries again and counts no
\* attempt: nothing has changed, and no step is taken.
ConnectRetry == ConnectRetryUpTo(MaxRetries)

\* CloseHandle cancels the reads still posted.
DisconnectFromServer ==
  /\ inst' = [k \in Conn |-> IF k = pipe_handle THEN ClientClosed(inst[k]) ELSE inst[k]]
  /\ reads' = [k \in Conn |-> IF k = pipe_handle THEN 0 ELSE reads[k]]
  /\ pipe_handle' = NullPipe

Reconnect ==
  /\ pc = "reconnect"
  /\ DisconnectFromServer
  /\ retry_iteration' = 0
  /\ Goto("connect")
  /\ UNCHANGED <<sourceVars, request_id_counter, request, requests, handles, writes,
                 parsing>>

\* ~Client(); callbacks that run later find their weak_ptr expired.
Destroy ==
  /\ pc \in {"returned", "failed"}
  /\ DisconnectFromServer
  /\ Goto("destroyed")
  /\ UNCHANGED <<sourceVars, retry_iteration, request_id_counter, request, requests,
                 handles, writes, parsing>>

-----------------------------------------------------------------------------
(* Client::Start(): the loop *)

\* IsGood() is false.
EndOfData ==
  /\ pc = "good"
  /\ curr_iteration = Iterations
  /\ Goto("returned")
  /\ UNCHANGED <<sourceVars, inst, retry_iteration, pipe_handle, request_id_counter,
                 request, requests, handles, poolVars>>

\* GetDemoIndex(); -1 is an input of the user that names no demo.
DemoIndices ==
  CASE mode = "STEP_BY_STEP" -> {curr_iteration % kTotalDemos}
    [] mode = "RANDOM"       -> 0 .. kTotalDemos - 1
    [] mode = "MANUAL"       -> -1 .. kTotalDemos - 1

\* A request about an object first calls GetAllHandles(), which copies handles_.
ReadRequest(demo) ==
  /\ pc = "good"
  /\ curr_iteration < Iterations
  /\ demo \in DemoIndices \ {-1}
  /\ request' = KindOf(demo)
  /\ IF NeedsHandle(KindOf(demo))
       THEN Goto("copy") /\ UNCHANGED curr_iteration
       ELSE Goto("register") /\ curr_iteration' = curr_iteration + 1
  /\ UNCHANGED <<mode, inst, retry_iteration, pipe_handle, request_id_counter, requests,
                 handles, poolVars>>

\* An input that names no demo gives an empty request, and counts.
ReadNoDemo ==
  /\ pc = "good"
  /\ curr_iteration < Iterations
  /\ -1 \in DemoIndices
  /\ curr_iteration' = curr_iteration + 1
  /\ UNCHANGED <<mode, inst, pc, retry_iteration, pipe_handle, request_id_counter,
                 request, requests, handles, poolVars>>

\* With no handle the request is empty, does not count, and the loop goes round.
CopyHandles ==
  /\ pc = "copy"
  /\ IF handles = <<>>
       THEN Goto("good") /\ UNCHANGED curr_iteration
       ELSE Goto("register") /\ curr_iteration' = curr_iteration + 1
  /\ UNCHANGED <<mode, inst, retry_iteration, pipe_handle, request_id_counter, request,
                 requests, handles, poolVars>>

RegisterIf(registered) ==
  LET id == request_id_counter + 1 IN
  /\ pc = "register"
  /\ MutexFree
  /\ request_id_counter' = id
  /\ requests' = IF registered THEN requests \cup {[id |-> id, kind |-> request]} ELSE requests
  /\ Goto("send")
  /\ UNCHANGED <<sourceVars, inst, retry_iteration, pipe_handle, request, handles,
                 poolVars>>

\* Variant: only requests without an answer are registered.
RegisterUnawaited == RegisterIf(~Awaited(request))

RegisterRequest == RegisterIf(TRUE)

Sent == ClientWritten(Pipe, [id |-> request_id_counter, kind |-> request])

SendSyncThen(next) ==
  /\ pc = "send" /\ ExecPolicy = "Sync"
  /\ ClientCanWrite(Pipe)
  /\ inst' = [inst EXCEPT ![pipe_handle] = Sent]
  /\ Goto(next)
  /\ UNCHANGED <<sourceVars, retry_iteration, pipe_handle, request_id_counter, request,
                 requests, handles, poolVars>>

\* Variant: the response to a method call is not read.
SendSyncIgnoresCall == SendSyncThen(IF request = "create" THEN "wait" ELSE "good")

SendSync == SendSyncThen(IF Awaited(request) THEN "wait" ELSE "good")

\* An overlapped write never blocks; its callback runs later.
SendAsync ==
  /\ pc = "send" /\ ExecPolicy = "Async"
  /\ Connected(Pipe)
  /\ inst' = [inst EXCEPT ![pipe_handle] = Sent]
  /\ writes' = writes \cup
       {[id |-> request_id_counter, wait |-> Awaited(request), conn |-> pipe_handle]}
  /\ Goto("good")
  /\ UNCHANGED <<sourceVars, retry_iteration, pipe_handle, request_id_counter, request,
                 requests, handles, reads, parsing>>

\* The request is not sent again after a reconnection.
SendFails ==
  /\ pc = "send"
  /\ ClientWriteFails(Pipe)
  /\ Goto(IF PipeIsBeingClosed(Pipe) THEN "reconnect" ELSE "failed")
  /\ UNCHANGED <<sourceVars, inst, retry_iteration, pipe_handle, request_id_counter,
                 request, requests, handles, poolVars>>

\* A thread has read data and enters ParseResponse.
Parsed(data) == [data |-> data, at |-> "start"]

ReadSync ==
  /\ pc = "wait"
  /\ ClientReadReturns(Pipe)
  /\ inst' = [inst EXCEPT ![pipe_handle] = ClientDrained(@)]
  /\ parsing' = {Parsed(Pipe.rsp)}
  /\ Goto("parse")
  /\ UNCHANGED <<sourceVars, retry_iteration, pipe_handle, request_id_counter, request,
                 requests, handles, writes, reads>>

\* Variant: a read that fails is tried again on the same pipe.
ReadSyncAgain == pc = "wait" /\ ClientReadFails(Pipe) /\ UNCHANGED vars

\* ExecuteRequestSync() logs the failure and returns true.
ReadSyncFails ==
  /\ pc = "wait"
  /\ ClientReadFails(Pipe)
  /\ Goto("good")
  /\ UNCHANGED <<sourceVars, inst, retry_iteration, pipe_handle, request_id_counter,
                 request, requests, handles, poolVars>>

ParsedSync ==
  /\ pc = "parse"
  /\ parsing = {}
  /\ Goto("good")
  /\ UNCHANGED <<sourceVars, inst, retry_iteration, pipe_handle, request_id_counter,
                 request, requests, handles, poolVars>>

Start ==
  \/ \E k \in Conn : Connect(k)
  \/ ConnectRetry
  \/ EndOfData
  \/ \E demo \in 0 .. kTotalDemos - 1 : ReadRequest(demo)
  \/ ReadNoDemo
  \/ CopyHandles
  \/ RegisterRequest
  \/ SendSync
  \/ SendAsync
  \/ SendFails
  \/ ReadSync
  \/ ReadSyncFails
  \/ ParsedSync
  \/ Reconnect

-----------------------------------------------------------------------------
(* ResponseParser::ParseResponse(), only the first response in the data.    *)

\* Variant: answers are taken to arrive in the order of the requests.
DoneInOrder(t, id) ==
  /\ requests' = {m \in requests : m.id > id}
  /\ parsing' = parsing \ {t}

Done(t, id) ==
  /\ requests' = {m \in requests : m.id # id}
  /\ parsing' = parsing \ {t}

\* ClassRepository::RegisterClassHandle() looks the handle up under its mutex
\* and appends it under the same mutex, taken again.
ParseLocking(t, locked) ==
  LET r == Head(t.data)
      creates == [id |-> r.id, kind |-> "create"] \in requests
      known == \E i \in DOMAIN handles : handles[i] = r.value
  IN
  /\ t.at = "start"
  /\ locked
  /\ IF creates /\ ~known
       THEN /\ parsing' = (parsing \ {t}) \cup {[t EXCEPT !.at = "push"]}
            /\ UNCHANGED requests
       ELSE Done(t, r.id)
  /\ UNCHANGED <<inst, mainVars, handles, writes, reads>>

\* Variant: the success callback runs without requests_mutex_.
ParseUnlocked(t) == ParseLocking(t, TRUE)

ParseResponse(t) == ParseLocking(t, MutexFree)

PushHandle(t) ==
  LET r == Head(t.data) IN
  /\ t.at = "push"
  /\ handles' = Append(handles, r.value)
  /\ Done(t, r.id)
  /\ UNCHANGED <<inst, mainVars, writes, reads>>

-----------------------------------------------------------------------------
(* The write callback and Pipe::ReadDataFromServerAsync().  The read goes   *)
(* to the pipe the client has now, be it the one that was written or not.   *)

PostRead ==
  \/ /\ pipe_handle # NullPipe
     /\ ClientReadReturns(Pipe)
     /\ inst' = [inst EXCEPT ![pipe_handle] = ClientDrained(@)]
     /\ parsing' = parsing \cup {Parsed(Pipe.rsp)}
     /\ UNCHANGED reads
  \/ /\ pipe_handle # NullPipe
     /\ Connected(Pipe) /\ Pipe.rsp = <<>>
     /\ reads' = [reads EXCEPT ![pipe_handle] = @ + 1]
     /\ UNCHANGED <<inst, parsing>>
  \/ /\ pipe_handle # NullPipe => ClientReadFails(Pipe)
     /\ UNCHANGED <<inst, reads, parsing>>

WriteCompletesPosting(w, wanted) ==
  /\ writes' = writes \ {w}
  /\ IF wanted THEN PostRead ELSE UNCHANGED <<inst, reads, parsing>>
  /\ UNCHANGED <<mainVars, requests, handles>>

\* Variant: the read is posted for the requests that are not answered.
WriteCompletesInverted(w) == WriteCompletesPosting(w, ~w.wait)

WriteCompletes(w) == WriteCompletesPosting(w, w.wait)

\* GetOverlappedResult reports that the write failed.
WriteAborted(w) ==
  /\ ~Connected(inst[w.conn])
  /\ writes' = writes \ {w}
  /\ UNCHANGED <<inst, mainVars, requests, handles, reads, parsing>>

Callback ==
  \/ \E w \in writes : WriteCompletes(w) \/ WriteAborted(w)
  \/ \E t \in parsing : ParseResponse(t) \/ PushHandle(t)

-----------------------------------------------------------------------------
(* The server: one more instance at a time, requests answered in order.     *)

ServerListens(k) ==
  /\ inst[k] = NoInstance
  /\ \A i \in Conn : (i < k => inst[i].srv # "none") /\ ~Listening(inst[i])
  /\ inst' = [inst EXCEPT ![k] = FreshInstance]
  /\ UNCHANGED <<mainVars, requests, handles, poolVars>>

\* A response completes the oldest read that is posted, or is buffered.
Serve(k) ==
  LET m == Head(inst[k].req) IN
  /\ ReadReturnsMessage(inst[k])
  /\ IF Awaited(m.kind)
       THEN \E v \in (IF m.kind = "create" THEN ClassHandle ELSE {NoValue}) :
              LET r == [id |-> m.id, value |-> v] IN
              \/ /\ reads[k] > 0
                 /\ inst' = [inst EXCEPT ![k] = MessageRead(@)]
                 /\ reads' = [reads EXCEPT ![k] = @ - 1]
                 /\ parsing' = parsing \cup {Parsed(<<r>>)}
              \/ /\ reads[k] = 0
                 /\ WriteReturns(inst[k])
                 /\ inst' = [inst EXCEPT ![k] = ResponseWritten(MessageRead(@), r)]
                 /\ UNCHANGED <<reads, parsing>>
       ELSE /\ inst' = [inst EXCEPT ![k] = MessageRead(@)]
            /\ UNCHANGED <<reads, parsing>>
  /\ UNCHANGED <<mainVars, requests, handles, writes>>

\* A call on a handle the server does not know gets no response.
ServerRejects(k) ==
  /\ "rejects" \in Faults
  /\ ReadReturnsMessage(inst[k])
  /\ Head(inst[k].req).kind = "call"
  /\ inst' = [inst EXCEPT ![k] = MessageRead(@)]
  /\ UNCHANGED <<mainVars, requests, handles, poolVars>>

\* The server process ends, or closes this pipe with PipeInstance::Close().
ServerCloses(k) ==
  /\ "closes" \in Faults
  /\ inst[k].srv = "open"
  /\ inst' = [inst EXCEPT ![k] = ServerClosed(@)] \/ inst' = [inst EXCEPT ![k] = Disconnected(@)]
  /\ reads' = [reads EXCEPT ![k] = 0]
  /\ UNCHANGED <<mainVars, requests, handles, writes, parsing>>

ServerStep(k) == ServerListens(k) \/ Serve(k) \/ ServerRejects(k) \/ ServerCloses(k)

Terminated == pc = "destroyed" /\ UNCHANGED vars

Next ==
  \/ Start
  \/ Destroy
  \/ Callback
  \/ \E k \in Conn : ServerStep(k)
  \/ Terminated

Spec == Init /\ [][Next]_vars

\* Every thread is scheduled, the server answers what it has read, a user types,
\* and a choice that is drawn at random or typed does not for ever fall on a
\* demo that needs an object while there is none.  The step-by-step mode
\* chooses nothing: there the last conjunct assumes nothing.
Fairness ==
  /\ WF_vars(Start)
  /\ SF_vars(\E demo \in 0 .. kTotalDemos - 1 :
               ~NeedsHandle(KindOf(demo)) /\ ReadRequest(demo))
  /\ WF_vars(Callback)
  /\ \A k \in Conn : WF_vars(Serve(k))

FairSpec == Spec /\ Fairness

-----------------------------------------------------------------------------
(* Safety *)

\* Every response finds its request in requests_: a request is registered
\* before it is sent, since a pool thread may parse the response before main
\* returns from WriteFile (Client.cpp 50-71, ResponseParser.cpp 57-66).
ResponseMatched ==
  \A t \in parsing : \E m \in requests : m.id = Head(t.data).id /\ Awaited(m.kind)

\* A sync client never reads the answer to another request than the one it has
\* just sent, and reads one answer at a time (Client.cpp 92-112).
SyncAnswers ==
  ExecPolicy = "Sync" =>
    \A t \in parsing : Len(t.data) = 1 /\ t.data[1].id = request_id_counter

\* A handle is stored once, although RegisterClassHandle() looks it up and
\* appends it under two locks and a restarted server returns it again:
\* ParseResponse() holds requests_mutex_ all along (ClassRepository.cpp 10-20).
HandlesUnique ==
  \A i, j \in DOMAIN handles : handles[i] = handles[j] => i = j

\* In the async client each response still to come on the open connection has
\* a read posted for it or a write callback that will post one, be it that
\* reads are posted on whatever pipe the client has when the callback runs
\* (Client.cpp 127-143).
ReadsSuffice ==
  ExecPolicy = "Async" /\ pipe_handle # NullPipe /\ Connected(Pipe) =>
    Cardinality({i \in DOMAIN Pipe.req : Awaited(Pipe.req[i].kind)}) + Len(Pipe.rsp)
      <= reads[pipe_handle] + Cardinality({w \in writes : w.wait /\ w.conn = pipe_handle})

\* ParseResponse() takes back exactly one request at a time, the one whose
\* answer is parsed.
OneAnswerOneRequest ==
  [][\A m \in requests \ requests' :
       /\ \E t \in parsing \ parsing' : Head(t.data).id = m.id
       /\ Awaited(m.kind)]_vars

-----------------------------------------------------------------------------
(* Liveness *)

\* The step-by-step mode has come to a demo about an object and there is none:
\* the demo is tried again for ever (DemoSimulator.cpp 99-105).
NoObjectToCall ==
  /\ mode = "STEP_BY_STEP"
  /\ NeedsHandle(KindOf(curr_iteration % kTotalDemos))
  /\ handles = <<>>

\* Start() returns, whenever the server closes pipes: a sync client is not left
\* in ReadFile, and the attempts to connect come to an end.  The one exception
\* is a client that goes round in the step-by-step mode with no object to call.
StartReturns == <>(pc \in {"returned", "failed", "destroyed"}) \/ <>[]NoObjectToCall

-----------------------------------------------------------------------------
(* What the documentation says and the code does not do. *)

\* "If ClientRequest needs to wait for a response from the server, it will be
\* stored in the ResponseParser until a corresponding response with the same id
\* will be sent back" (README.md 90): with a server that answers everything, no
\* request stays stored for ever.
AnsweredRequestsLeave ==
  \A id \in RequestId :
    (\E m \in requests : m.id = id /\ Awaited(m.kind))
      ~> (~\E m \in requests : m.id = id) \/ pc = "destroyed"

\* "If the server closed the pipe, the client will then again try to reconnect"
\* (README.md 95): a request that cannot be sent never ends the client.
ReconnectsWhenClosed == [][pc = "send" => pc' # "failed"]_vars

\* "This demo runs in step-by-step mode, means it will execute all demos from 0
\* to 10 in sequantual mode" (DemoSimulator.cpp 397-399): a client that does
\* not fail gets past demo 10.
StepByStepRunsAll ==
  mode = "STEP_BY_STEP" ~> curr_iteration >= kTotalDemos \/ pc \in {"failed", "destroyed"}

\* "methods of this class can be called both sync and async ... Thus,
\* synchronization needed" (ClassRepository.h 19-21): handles_ is not appended
\* to while main copies it.
HandlesReadLocked == ~(pc = "copy" /\ \E t \in parsing : t.at = "push")
=============================================================================
