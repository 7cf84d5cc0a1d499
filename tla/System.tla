-------------------------------- MODULE System --------------------------------
(***************************************************************************)
(* Several sync clients, the server and its registry of objects together.  *)
(* The server process may end at any moment and be started again.  What    *)
(* Client and Server show of one side each is abstracted here: a client    *)
(* that finds the server is connected and has its worker at once, and no   *)
(* handle value is used twice.                                             *)
(***************************************************************************)
EXTENDS Dispatch, Sequences

CONSTANTS
  PipeCapacity,  \* messages buffered in one direction
  MaxRequests,   \* bound: the number of requests of each client
  MaxRuns        \* bound: server processes, one after the other

ASSUME SystemAssumption == MaxRequests \in [Client -> Nat] /\ MaxRuns \in Nat

RequestId == Nat \ {0}
Message   == [id : RequestId, command : Command]
Reply     == [id : RequestId, answer : Answer]

INSTANCE NamedPipe WITH Request <- Message, Response <- Reply

VARIABLES
  up,         \* a server process is running
  run,        \* how many there have been
  is_closed,  \* is_closed_: ~Server has begun
  to_close,   \* ~Server: the instances still ahead, by client
  closing,    \* ~Server: the instance it is at, in a set; none at the end
  pipe,       \* the pipe of each client
  pc,         \* where each client is
  sent,       \* request_id_counter_
  current,    \* the request it waits for the answer of
  handles,    \* ClassRepository::handles_, each with the run that made it
  joined,     \* the run of the server each client is connected to
  serving,    \* the id of the request in each worker
  executed,   \* history: what its worker last executed for each client
  delivered   \* history: what each client was last answered

mainVars    == <<up, run, is_closed, to_close, closing>>
clientVars  == <<pc, sent, current, handles, joined, delivered>>
historyVars == <<executed, delivered>>
vars == <<dispatchVars, mainVars, pipe, clientVars, serving, executed>>

ClientPc  == {"connect", "good", "wait", "returned", "failed"}
Execution == [id : Nat, answer : Answer]

TypeOK ==
  /\ DispatchTypeOK
  /\ up \in BOOLEAN
  /\ run \in 0 .. MaxRuns
  /\ is_closed \in BOOLEAN
  /\ to_close \subseteq Client
  /\ closing \subseteq Client
  /\ pipe \in [Client -> Instance]
  /\ pc \in [Client -> ClientPc]
  /\ sent \in [Client -> Nat] /\ \A c \in Client : sent[c] <= MaxRequests[c]
  /\ current \in [Client -> Command]
  /\ handles \in [Client -> SUBSET [handle : Nat, run : 1 .. MaxRuns]]
  /\ joined \in [Client -> 0 .. MaxRuns]
  /\ serving \in [Client -> Nat] /\ \A c \in Client : serving[c] <= sent[c]
  /\ executed \in [Client -> Execution]
  /\ delivered \in [Client -> Execution]

Init ==
  /\ DispatchInit
  /\ up = FALSE
  /\ run = 0
  /\ is_closed = FALSE
  /\ to_close = {}
  /\ closing = {}
  /\ pipe = [c \in Client |-> NoInstance]
  /\ pc = [c \in Client |-> "connect"]
  /\ sent = [c \in Client |-> 0]
  /\ current = [c \in Client |-> NoCommand]
  /\ handles = [c \in Client |-> {}]
  /\ joined = [c \in Client |-> 0]
  /\ serving = [c \in Client |-> 0]
  /\ executed = [c \in Client |-> [id |-> 0, answer |-> NoAnswer]]
  /\ delivered = [c \in Client |-> [id |-> 0, answer |-> NoAnswer]]

Goto(c, label)    == pc' = [pc EXCEPT ![c] = label]
PipeBecomes(c, p) == pipe' = [pipe EXCEPT ![c] = p]

\* The request is a local of the loop.
DropRequest(c) == current' = [current EXCEPT ![c] = NoCommand]

-----------------------------------------------------------------------------
(* A client: Client::Start() with ExecuteRequestSync(). *)

\* The server creates pipe instances: ~Server has not begun.
Accepting == up /\ ~is_closed

\* ConnectToPipe(); the server gives the new pipe to a worker thread.
Connect(c) ==
  /\ pc[c] = "connect"
  /\ Accepting
  /\ PipeBecomes(c, ClientOpened(FreshInstance))
  /\ joined' = [joined EXCEPT ![c] = run]
  /\ MoveTo(c, "test")
  /\ Goto(c, "good")
  /\ UNCHANGED <<registryVars, command, answer, mainVars, sent, current, handles, serving,
                 historyVars>>

\* No attempt of ConnectToPipe() finds a server.
GiveUp(c) ==
  /\ pc[c] = "connect"
  /\ ~Accepting
  /\ Goto(c, "failed")
  /\ UNCHANGED <<dispatchVars, mainVars, pipe, sent, current, handles, joined, serving,
                 historyVars>>

Known(c) == {m.handle : m \in handles[c]}

\* The demos about an object draw a handle among those stored.  All objects
\* are created with the same value; the setters give them another.
Requests(c) ==
  {cmd \in [op : Op, handle : Known(c) \cup {0}, value : Value] :
     /\ IF cmd.op \in ObjectOp THEN cmd.handle \in Known(c) ELSE cmd.handle = 0
     /\ cmd.op = "set" <=> cmd.value # NoCommand.value}

\* The loop has a request to send: ReadRequest() and ++request_id_counter_.
Issue(c) ==
  /\ pc[c] = "good"
  /\ sent[c] < MaxRequests[c]
  /\ sent' = [sent EXCEPT ![c] = @ + 1]

\* The data source ends, Start() returns, and ~Client() closes the pipe.
EndOfData(c) ==
  /\ pc[c] = "good"
  /\ sent[c] = MaxRequests[c]
  /\ PipeBecomes(c, ClientClosed(pipe[c]))
  /\ Goto(c, "returned")
  /\ UNCHANGED <<dispatchVars, mainVars, sent, current, handles, joined, serving, historyVars>>

SendThen(c, cmd, wait) ==
  /\ Issue(c)
  /\ ClientCanWrite(pipe[c])
  /\ PipeBecomes(c, ClientWritten(pipe[c], [id |-> sent'[c], command |-> cmd]))
  /\ IF wait
       THEN current' = [current EXCEPT ![c] = cmd] /\ Goto(c, "wait")
       ELSE UNCHANGED <<current, pc>>
  /\ UNCHANGED <<dispatchVars, mainVars, handles, joined, serving, historyVars>>

\* Variant: the answer of a setter is not waited for.
SendForgettingSet(c, cmd) == SendThen(c, cmd, cmd.op \in {"create", "get"})

Send(c, cmd) == SendThen(c, cmd, cmd.op \in {"create", "get", "set"})

\* Reconnecting drops the request; any other error ends the client, which
\* closes its end.
SendFails(c) ==
  /\ Issue(c)
  /\ ClientWriteFails(pipe[c])
  /\ PipeBecomes(c, ClientClosed(pipe[c]))
  /\ joined' = [joined EXCEPT ![c] = 0]
  /\ Goto(c, IF PipeIsBeingClosed(pipe[c]) THEN "connect" ELSE "failed")
  /\ UNCHANGED <<dispatchVars, mainVars, current, handles, serving, historyVars>>

\* ParseResponse(); the answer to a creation is a handle to store.
ReadAnswer(c) ==
  LET r == Head(pipe[c].rsp) IN
  /\ pc[c] = "wait"
  /\ ClientReadReturns(pipe[c])
  /\ PipeBecomes(c, ClientDrained(pipe[c]))
  /\ handles' = IF r.answer.kind = "handle"
                  THEN [handles EXCEPT ![c] =
                          @ \cup {[handle |-> r.answer.value, run |-> joined[c]]}]
                  ELSE handles
  /\ delivered' = [delivered EXCEPT ![c] = [id |-> r.id, answer |-> r.answer]]
  /\ Goto(c, "good")
  /\ DropRequest(c)
  /\ UNCHANGED <<dispatchVars, mainVars, sent, joined, serving, executed>>

AnswerFails(c) ==
  /\ pc[c] = "wait"
  /\ ClientReadFails(pipe[c])
  /\ Goto(c, "good")
  /\ DropRequest(c)
  /\ UNCHANGED <<dispatchVars, mainVars, pipe, sent, handles, joined, serving,
                 historyVars>>

\* The read of an answer comes back.
AnswerReturns(c) == ReadAnswer(c) \/ AnswerFails(c)

ClientStep(c) ==
  \/ Connect(c)
  \/ GiveUp(c)
  \/ EndOfData(c)
  \/ \E cmd \in Requests(c) : Send(c, cmd)
  \/ SendFails(c)
  \/ AnswerReturns(c)

-----------------------------------------------------------------------------
(* A worker of the server: Server::HandleClientConnection().  From a test   *)
(* of is_closed_ that lets it go on to the next test, it owns the mutex of *)
(* its pipe instance; a request is waited for at "idle".                   *)

\* With is_closed_ stored the thread returns, and its pipe is still open.
WorkerTests(c) ==
  /\ stage[c] = "test"
  /\ MoveTo(c, IF is_closed THEN "gone" ELSE "idle")
  /\ UNCHANGED <<registryVars, command, answer, mainVars, pipe, clientVars, serving,
                 executed>>

\* The request is done with once there is an answer to send, or "none".
Recorded(c, id) ==
  executed' = IF stage'[c] = "reply"
                THEN [executed EXCEPT ![c] = [id |-> id, answer |-> answer'[c]]]
                ELSE executed

WorkerReads(c) ==
  LET m == Head(pipe[c].req) IN
  /\ ReadReturnsMessage(pipe[c])
  /\ ParseRequest(c, m.command)
  /\ Recorded(c, m.id)
  /\ serving' = [serving EXCEPT ![c] = m.id]
  /\ PipeBecomes(c, MessageRead(pipe[c]))
  /\ UNCHANGED <<mainVars, clientVars>>

WorkerExecutes(c) ==
  /\ Execute(c)
  /\ Recorded(c, serving[c])
  /\ UNCHANGED <<mainVars, pipe, clientVars, serving>>

\* The write cannot fail while the server runs: a sync client waits for each
\* answer there is, and ~Server has to wait for the mutex.  Module Server has
\* the other case.
WorkerReplies(c) ==
  /\ Finish(c)
  /\ IF answer[c] = NoAnswer
       THEN UNCHANGED pipe
       ELSE /\ WriteReturns(pipe[c])
            /\ PipeBecomes(c, ResponseWritten(pipe[c],
                                [id |-> serving[c], answer |-> answer[c]]))
  /\ serving' = [serving EXCEPT ![c] = 0]
  /\ UNCHANGED <<mainVars, clientVars, executed>>

\* The client has gone: PipeInstance::Close().
WorkerEnds(c) ==
  /\ stage[c] = "idle"
  /\ ReadFails(pipe[c])
  /\ PipeBecomes(c, Disconnected(pipe[c]))
  /\ MoveTo(c, "gone")
  /\ UNCHANGED <<registryVars, command, answer, mainVars, clientVars, serving, executed>>

WorkerStep(c) ==
  WorkerTests(c) \/ WorkerReads(c) \/ WorkerExecutes(c) \/ WorkerReplies(c) \/ WorkerEnds(c)

-----------------------------------------------------------------------------
(* The server process. *)

Ended(p, end) == IF p.srv = "open" THEN end ELSE p

\* What was in the process is gone, the registry included, and the system
\* closes its handles.
ProcessEnds ==
  /\ up
  /\ up' = FALSE
  /\ is_closed' = FALSE
  /\ to_close' = {}
  /\ closing' = {}
  /\ NoWorkers
  /\ EmptyRegistry
  /\ pipe' = [c \in Client |-> Ended(pipe[c], ServerClosed(pipe[c]))]
  /\ serving' = [c \in Client |-> 0]
  /\ UNCHANGED <<run, clientVars, executed>>

\* The process is ended from outside, at any moment.
ServerDies == ProcessEnds

\* The loop of ~Server() goes on to one of the instances left, in the order of an
\* unordered_map.
NextOf(left) ==
  \/ left = {} /\ closing' = {} /\ to_close' = {}
  \/ \E c \in left : closing' = {c} /\ to_close' = left \ {c}

\* Start() has returned: ~Server() stores is_closed_ and moves pipes_.
StoreClosed ==
  /\ Accepting
  /\ is_closed' = TRUE
  /\ NextOf({c \in Client : pipe[c].srv = "open"})
  /\ UNCHANGED <<dispatchVars, up, run, pipe, clientVars, serving, executed>>

\* It has waited for the mutex of the instance, and Close() for the client to
\* read what was written.
ClosePipe(c) ==
  /\ closing = {c}
  /\ stage[c] \in {"test", "gone"}
  /\ FlushReturns(pipe[c])
  /\ PipeBecomes(c, Ended(pipe[c], Disconnected(pipe[c])))
  /\ NextOf(to_close)
  /\ UNCHANGED <<dispatchVars, up, run, is_closed, clientVars, serving, executed>>

\* The threads have been joined, and main returns.
ServerDestroyed ==
  /\ is_closed /\ closing = {}
  /\ \A c \in Client : stage[c] = "gone"
  /\ ProcessEnds

Destroy ==
  \/ \E c \in Client : ClosePipe(c)
  \/ ServerDestroyed

ServerStarts ==
  /\ ~up
  /\ run < MaxRuns
  /\ up' = TRUE
  /\ run' = run + 1
  /\ UNCHANGED <<dispatchVars, is_closed, to_close, closing, pipe, clientVars, serving,
                 executed>>

Terminated ==
  /\ \A c \in Client : pc[c] \in {"returned", "failed"} /\ stage[c] = "gone"
  /\ UNCHANGED vars

Next ==
  \/ \E c \in Client : ClientStep(c) \/ WorkerStep(c)
  \/ ServerDies
  \/ StoreClosed
  \/ Destroy
  \/ ServerStarts
  \/ Terminated

Spec == Init /\ [][Next]_vars

\* The threads of both programs are scheduled, and a client that has read an
\* answer goes on; but nothing makes it send another request, close its pipe or
\* try to connect.  The server need not end, nor be started again.
Fairness ==
  /\ \A c \in Client : WF_vars(AnswerReturns(c)) /\ WF_vars(WorkerStep(c))
  /\ WF_vars(Destroy)

FairSpec == Spec /\ Fairness

-----------------------------------------------------------------------------
(* Properties *)

\* The object was made for c by the server c is connected to.
Own(c, h) == [handle |-> h, run |-> joined[c]] \in handles[c]

\* What a client has been given in this run exists at the server, under a
\* handle no other client has been given in this run (ClassRegistry.h 39-48,
\* ClassRepository.cpp 10-25): the two repositories agree across the pipe.
HandlesAgree ==
  up => \A c \in Client : \A m \in handles[c] :
    m.run = run =>
      /\ m.handle \in DOMAIN instances
      /\ \A d \in Client \ {c} : m \notin handles[d]

\* CustomClass has no lock.  Two workers meet on an object only if one of the
\* clients uses a handle it has kept from an earlier server process
\* (CustomClass.cpp 41-61, ClassRegistry.h 43).
RaceNeedsStaleHandle ==
  \A c, d \in Client :
    c # d /\ stage[c] = "store" /\ stage[d] \in {"call", "store"} /\ Handle(c) = Handle(d)
      => ~Own(c, Handle(c)) \/ ~Own(d, Handle(d))

\* What an object is asked for is a value of objects.
Result == {a \in Answer : a.kind = "value" => a.value \in Value}

Session == INSTANCE Session WITH
  issued <- sent,
  given <- DOMAIN instances,
  Answer <- Result

\* Clients, server and restarts together give the clients what Session says.
SessionSpec == Session!Spec

\* ~Server waits for a mutex whose owner waits in ReadFile for a client other
\* than c, and the worker of c has returned and left the pipe of c open.
LeftInShutdown(c) ==
  /\ stage[c] = "gone" /\ pipe[c].srv = "open"
  /\ \E d \in Client \ {c} : closing = {d} /\ stage[d] = "idle"

\* Nothing of this changes before the answer comes.
Waiting(c) == pc[c] = "wait" /\ (current[c].op \in ObjectOp => Own(c, current[c].handle))

\* README 100, "it might hang when an error occurred on the server side": a sync
\* client waits for ever in two cases only.  It has asked for an object of an
\* earlier server process; or the server is being destroyed and its worker has
\* returned on is_closed_, while ~Server is stuck for good behind another client
\* that sends nothing (Server.cpp 38, 114-124).
WaitsEnd ==
  \A c \in Client : <>[]Waiting(c) => <>[]LeftInShutdown(c)
=============================================================================
