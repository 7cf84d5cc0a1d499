-------------------------------- MODULE Server --------------------------------
(***************************************************************************)
(* server/Server.cpp and server/PipeInstance.cpp: the accept loop of the   *)
(* main thread, one worker thread per client, and the destructor, which    *)
(* main runs when Start() gives up.                                        *)
(*                                                                         *)
(*   main     : Start(), then ~Server()                                    *)
(*   worker c : HandleClientConnection(c, arg[c]), c a client id           *)
(*   clients  : the environment, at the other end of each pipe instance    *)
(*                                                                         *)
(* A step runs up to the next point where the thread can block or where    *)
(* another thread could see the difference.  pipes_mutex_ guards sections  *)
(* that cannot block, each of which is one step.  A handle value whose     *)
(* server end has been closed can be handed out again by CreateNamedPipe.  *)
(***************************************************************************)
EXTENDS NamedPipe

CONSTANTS
  Handle,      \* the HANDLE values CreateNamedPipe can return
  NoHandle,    \* nullptr
  MaxClients,  \* bound: how many clients the accept loop takes
  Answered,    \* the requests whose ServerResponse is valid
  Oversize     \* the requests longer than kBuffSize, and the empty one

ASSUME ServerAssumption ==
  /\ NoHandle \notin Handle
  /\ MaxClients \in Nat
  /\ Answered \subseteq Request
  /\ Oversize \subseteq Request \ Answered

ClientId == 0 .. MaxClients - 1

VARIABLES
  inst,                \* the pipe instance behind each handle value
  mpc,                 \* where the main thread is
  cur,                 \* main: pipe_handle of the current loop iteration
  client_ids_counter,  \* client_ids_counter_
  is_closed,           \* is_closed_
  pipes,               \* the client ids pipes_ has an instance for
  to_close,            \* ~Server: the instances of the local pipes still ahead
  closing,             \* ~Server: the instance of the current iteration
  threads,             \* the client ids threads_ has a thread for
  wpc,                 \* where each worker is
  arg,                 \* worker: its copy of the handle, pipe_handle
  has_pipe,            \* worker: whether its local pipe is non-null
  pipe_handle,         \* PipeInstance::pipe_handle
  mutex                \* PipeInstance::mutex: who owns it

mainVars   == <<mpc, cur, client_ids_counter, is_closed, pipes, to_close, closing, threads>>
workerVars == <<wpc, arg, has_pipe>>
pipeVars   == <<pipe_handle, mutex>>
vars       == <<inst, mainVars, workerVars, pipeVars>>

StartPc      == {"create", "connect", "register", "spawn"}
DestructorPc == {"close", "move", "next", "lock", "shut", "join", "exited"}
WorkerPc     == {"none", "start", "check", "lock", "read", "write", "shut", "done"}

TypeOK ==
  /\ inst \in [Handle -> Instance]
  /\ mpc \in StartPc \cup DestructorPc
  /\ cur \in Handle \cup {NoHandle}
  /\ client_ids_counter \in 0 .. MaxClients
  /\ is_closed \in BOOLEAN
  /\ pipes \subseteq ClientId
  /\ to_close \subseteq ClientId
  /\ closing \in ClientId \cup {NoHandle}
  /\ threads \subseteq ClientId
  /\ wpc \in [ClientId -> WorkerPc]
  /\ arg \in [ClientId -> Handle \cup {NoHandle}]
  /\ has_pipe \in [ClientId -> BOOLEAN]
  /\ pipe_handle \in [ClientId -> Handle \cup {NoHandle}]
  /\ mutex \in [ClientId -> {"free", "worker", "main"}]

Init ==
  /\ inst = [h \in Handle |-> NoInstance]
  /\ mpc = "create"
  /\ cur = NoHandle
  /\ client_ids_counter = 0
  /\ is_closed = FALSE
  /\ pipes = {}
  /\ to_close = {}
  /\ closing = NoHandle
  /\ threads = {}
  /\ wpc = [c \in ClientId |-> "none"]
  /\ arg = [c \in ClientId |-> NoHandle]
  /\ has_pipe = [c \in ClientId |-> FALSE]
  /\ pipe_handle = [c \in ClientId |-> NoHandle]
  /\ mutex = [c \in ClientId |-> "free"]

-----------------------------------------------------------------------------
(* PipeInstance::Close().  It does nothing once the handle is null, and it *)
(* gives up, leaving the handle open, when flushing or disconnecting fails *)
(* because the client has gone.                                            *)

CloseUnlessNull(c, unflushed, handle) ==
  LET h == pipe_handle[c] IN
  \/ /\ h = NoHandle
     /\ UNCHANGED <<inst, pipe_handle>>
  \/ /\ h # NoHandle
     /\ unflushed \/ FlushReturns(inst[h])
     /\ inst' = [inst EXCEPT ![h] = Disconnected(@)]
     /\ pipe_handle' = [pipe_handle EXCEPT ![c] = handle]
  \/ /\ h # NoHandle
     /\ inst[h].cli = "closed"
     /\ UNCHANGED <<inst, pipe_handle>>

\* Variant: pipe_handle is not reset after CloseHandle.
CloseKeepsHandle(c) == CloseUnlessNull(c, FALSE, pipe_handle[c])

\* Variant: FlushFileBuffers is not called.
CloseWithoutFlush(c) == CloseUnlessNull(c, TRUE, NoHandle)

Close(c) == CloseUnlessNull(c, FALSE, NoHandle)

-----------------------------------------------------------------------------
(* Server::Start() *)

\* The loop is bounded: main stops creating after MaxClients clients.
CreatePipe(h) ==
  /\ mpc = "create"
  /\ client_ids_counter < MaxClients
  /\ inst[h].srv # "open"
  /\ inst' = [inst EXCEPT ![h] = FreshInstance]
  /\ cur' = h
  /\ mpc' = "connect"
  /\ UNCHANGED <<client_ids_counter, is_closed, pipes, to_close, closing, threads,
                 workerVars, pipeVars>>

\* CreateNamedPipe fails: Start() returns false and main leaves the scope of
\* the server.
CreateFails ==
  /\ mpc = "create"
  /\ mpc' = "close"
  /\ UNCHANGED <<inst, cur, client_ids_counter, is_closed, pipes, to_close, closing,
                 threads, workerVars, pipeVars>>

ClientArrives ==
  /\ mpc = "connect"
  /\ ConnectReturnsClient(inst[cur])
  /\ mpc' = "register"
  /\ UNCHANGED <<inst, cur, client_ids_counter, is_closed, pipes, to_close, closing,
                 threads, workerVars, pipeVars>>

\* The client opened the pipe and closed it before ConnectNamedPipe ran.
ClientMissed ==
  /\ mpc = "connect"
  /\ ConnectFails(inst[cur])
  /\ inst' = [inst EXCEPT ![cur] = ServerClosed(@)]
  /\ cur' = NoHandle
  /\ mpc' = "create"
  /\ UNCHANGED <<client_ids_counter, is_closed, pipes, to_close, closing, threads,
                 workerVars, pipeVars>>

RegisterAs(client_id) ==
  /\ mpc = "register"
  /\ client_ids_counter' = client_ids_counter + 1
  /\ pipes' = pipes \cup {client_id}
  /\ pipe_handle' = [pipe_handle EXCEPT ![client_id] = cur]
  /\ mpc' = "spawn"
  /\ UNCHANGED <<inst, cur, is_closed, to_close, closing, threads, workerVars, mutex>>

\* Variant: the counter is read after it was incremented.
RegisterPreIncrement == RegisterAs(client_ids_counter + 1)

RegisterClient == RegisterAs(client_ids_counter)

SpawnWorker ==
  LET client_id == client_ids_counter - 1 IN
  /\ mpc = "spawn"
  /\ wpc' = [wpc EXCEPT ![client_id] = "start"]
  /\ arg' = [arg EXCEPT ![client_id] = cur]
  /\ threads' = threads \cup {client_id}
  /\ cur' = NoHandle
  /\ mpc' = "create"
  /\ UNCHANGED <<inst, client_ids_counter, is_closed, pipes, to_close, closing, has_pipe,
                 pipeVars>>

Start ==
  \/ \E h \in Handle : CreatePipe(h)
  \/ CreateFails
  \/ ClientArrives
  \/ ClientMissed
  \/ RegisterClient
  \/ SpawnWorker

-----------------------------------------------------------------------------
(* Server::~Server() *)

\* Variant: is_closed_ is never stored.
SkipStoreClosed ==
  /\ mpc = "close"
  /\ mpc' = "move"
  /\ UNCHANGED <<inst, cur, client_ids_counter, is_closed, pipes, to_close, closing,
                 threads, workerVars, pipeVars>>

StoreClosed ==
  /\ mpc = "close"
  /\ is_closed' = TRUE
  /\ mpc' = "move"
  /\ UNCHANGED <<inst, cur, client_ids_counter, pipes, to_close, closing, threads,
                 workerVars, pipeVars>>

MovePipes ==
  /\ mpc = "move"
  /\ to_close' = pipes
  /\ pipes' = {}
  /\ mpc' = "next"
  /\ UNCHANGED <<inst, cur, client_ids_counter, is_closed, closing, threads,
                 workerVars, pipeVars>>

\* unordered_map is walked in an unspecified order.
NextPipe ==
  /\ mpc = "next"
  /\ \E c \in to_close :
       /\ closing' = c
       /\ to_close' = to_close \ {c}
  /\ mpc' = "lock"
  /\ UNCHANGED <<inst, cur, client_ids_counter, is_closed, pipes, threads, workerVars,
                 pipeVars>>

LockPipeWhen(grantable) ==
  /\ mpc = "lock"
  /\ grantable
  /\ mutex' = [mutex EXCEPT ![closing] = "main"]
  /\ mpc' = "shut"
  /\ UNCHANGED <<inst, cur, client_ids_counter, is_closed, pipes, to_close, closing,
                 threads, workerVars, pipe_handle>>

\* Variant: the instance is closed without taking its mutex.
LockPipeUnguarded == LockPipeWhen(TRUE)

LockPipe == LockPipeWhen(mutex[closing] = "free")

ClosePipe ==
  /\ mpc = "shut"
  /\ Close(closing)
  /\ mutex' = [mutex EXCEPT ![closing] = "free"]
  /\ closing' = NoHandle
  /\ mpc' = "next"
  /\ UNCHANGED <<cur, client_ids_counter, is_closed, pipes, to_close, threads, workerVars>>

AllPipesClosed ==
  /\ mpc = "next"
  /\ to_close = {}
  /\ mpc' = "join"
  /\ UNCHANGED <<inst, cur, client_ids_counter, is_closed, pipes, to_close, closing,
                 threads, workerVars, pipeVars>>

JoinThreads ==
  /\ mpc = "join"
  /\ \A c \in threads : wpc[c] = "done"
  /\ mpc' = "exited"
  /\ UNCHANGED <<inst, cur, client_ids_counter, is_closed, pipes, to_close, closing,
                 threads, workerVars, pipeVars>>

Destroy ==
  \/ StoreClosed
  \/ MovePipes
  \/ NextPipe
  \/ LockPipe
  \/ ClosePipe
  \/ AllPipesClosed
  \/ JoinThreads

-----------------------------------------------------------------------------
(* Server::HandleClientConnection(), the body of worker c *)

Goto(c, pc) == wpc' = [wpc EXCEPT ![c] = pc]
Unlock(c)   == mutex' = [mutex EXCEPT ![c] = "free"]

\* pipes_[client_id]: a null pointer when ~Server has moved pipes_ away.
FindPipe(c) ==
  /\ wpc[c] = "start"
  /\ has_pipe' = [has_pipe EXCEPT ![c] = c \in pipes]
  /\ Goto(c, "check")
  /\ UNCHANGED <<inst, mainVars, arg, pipeVars>>

CheckClosed(c) ==
  /\ wpc[c] = "check"
  /\ Goto(c, IF is_closed THEN "done" ELSE "lock")
  /\ UNCHANGED <<inst, mainVars, arg, has_pipe, pipeVars>>

LockOwnPipeWhen(c, grantable) ==
  /\ wpc[c] = "lock"
  /\ grantable
  /\ mutex' = [mutex EXCEPT ![c] = "worker"]
  /\ Goto(c, "read")
  /\ UNCHANGED <<inst, mainVars, arg, has_pipe, pipe_handle>>

\* Variant: one mutex for all instances.
LockAnyPipe(c) == LockOwnPipeWhen(c, \A d \in ClientId : mutex[d] = "free")

LockOwnPipe(c) == LockOwnPipeWhen(c, mutex[c] = "free")

\* A request is read and parsed; one without a valid response ends the
\* iteration, and the mutex is released with it.
ReadRequestElse(c, quietPc) ==
  LET h == arg[c]
      answered == Head(inst[h].req) \in Answered
  IN
  /\ wpc[c] = "read"
  /\ ReadReturnsMessage(inst[h])
  /\ Head(inst[h].req) \notin Oversize
  /\ inst' = [inst EXCEPT ![h] = MessageRead(@)]
  /\ Goto(c, IF answered THEN "write" ELSE quietPc)
  /\ mutex' = [mutex EXCEPT ![c] = IF answered THEN @ ELSE "free"]
  /\ UNCHANGED <<mainVars, arg, has_pipe, pipe_handle>>

\* Variant: a request without a response ends the worker.
ReadRequestThenReturn(c) == ReadRequestElse(c, "done")

ReadRequest(c) == ReadRequestElse(c, "check")

\* ERROR_BROKEN_PIPE, a closed handle, or ERROR_MORE_DATA for a message that
\* does not fit in the buffer.
ReadFailed(c) ==
  LET p == inst[arg[c]] IN
  /\ wpc[c] = "read"
  /\ \/ ReadFails(p)
     \/ ReadReturnsMessage(p) /\ Head(p.req) \in Oversize
  /\ Goto(c, "shut")
  /\ UNCHANGED <<inst, mainVars, arg, has_pipe, pipeVars>>

CloseOwnPipeThen(c, pc) ==
  /\ wpc[c] = "shut"
  /\ Close(c)
  /\ Unlock(c)
  /\ Goto(c, pc)
  /\ UNCHANGED <<mainVars, arg, has_pipe>>

\* Variant: the break after pipe->Close() is missing.
CloseOwnPipeAndLoop(c) == CloseOwnPipeThen(c, "check")

CloseOwnPipe(c) == CloseOwnPipeThen(c, "done")

SendResponse(c) ==
  LET h == arg[c] IN
  /\ wpc[c] = "write"
  /\ WriteReturns(inst[h])
  /\ \E r \in Response : inst' = [inst EXCEPT ![h] = ResponseWritten(@, r)]
  /\ Unlock(c)
  /\ Goto(c, "check")
  /\ UNCHANGED <<mainVars, arg, has_pipe, pipe_handle>>

\* Variant: the early return does not release the mutex.
SendFailedKeepsLock(c) ==
  /\ wpc[c] = "write"
  /\ WriteFails(inst[arg[c]])
  /\ Goto(c, "done")
  /\ UNCHANGED <<inst, mainVars, arg, has_pipe, pipeVars>>

\* The worker returns without closing its instance.
SendFailed(c) ==
  /\ wpc[c] = "write"
  /\ WriteFails(inst[arg[c]])
  /\ Unlock(c)
  /\ Goto(c, "done")
  /\ UNCHANGED <<inst, mainVars, arg, has_pipe, pipe_handle>>

HandleClientConnection(c) ==
  \/ FindPipe(c)
  \/ CheckClosed(c)
  \/ LockOwnPipe(c)
  \/ ReadRequest(c)
  \/ ReadFailed(c)
  \/ CloseOwnPipe(c)
  \/ SendResponse(c)
  \/ SendFailed(c)

-----------------------------------------------------------------------------
(* Clients: any program that opens the pipe. *)

ClientOpen(h) ==
  /\ Listening(inst[h])
  /\ inst' = [inst EXCEPT ![h] = ClientOpened(@)]
  /\ UNCHANGED <<mainVars, workerVars, pipeVars>>

ClientWrite(h) ==
  /\ ClientCanWrite(inst[h])
  /\ \E m \in Request : inst' = [inst EXCEPT ![h] = ClientWritten(@, m)]
  /\ UNCHANGED <<mainVars, workerVars, pipeVars>>

ClientRead(h) ==
  /\ ClientReadReturns(inst[h])
  /\ inst' = [inst EXCEPT ![h] = ClientDrained(@)]
  /\ UNCHANGED <<mainVars, workerVars, pipeVars>>

ClientClose(h) ==
  /\ inst[h].cli = "open"
  /\ inst' = [inst EXCEPT ![h] = ClientClosed(@)]
  /\ UNCHANGED <<mainVars, workerVars, pipeVars>>

Client(h) == ClientOpen(h) \/ ClientWrite(h) \/ ClientRead(h) \/ ClientClose(h)

\* The server process ends after its destructor; this is not a deadlock.
Terminated == mpc = "exited" /\ UNCHANGED vars

Next ==
  \/ Start
  \/ Destroy
  \/ \E c \in ClientId : HandleClientConnection(c)
  \/ \E h \in Handle : Client(h)
  \/ Terminated

Spec == Init /\ [][Next]_vars

\* The main thread and the workers are scheduled; CreateNamedPipe need not
\* fail.  Nothing is assumed of a client: it may stop reading, and leave its
\* worker in WriteFile with the mutex of the instance held.
Fairness ==
  /\ WF_vars(Start /\ ~CreateFails)
  /\ WF_vars(Destroy)
  /\ \A c \in ClientId : WF_vars(HandleClientConnection(c))

FairSpec == Spec /\ Fairness

-----------------------------------------------------------------------------
(* Safety *)

Live(c) == wpc[c] \notin {"none", "done"}

\* A worker that enters the loop has found its PipeInstance: pipes_[client_id]
\* is a null pointer once ~Server has moved pipes_ away, and only is_closed_,
\* stored before the move, keeps the worker from dereferencing it (Server.cpp
\* 108-119).
NoNullPipe ==
  \A c \in ClientId : wpc[c] \in {"lock", "read", "write", "shut"} => has_pipe[c]

\* A PipeInstance that still holds a handle holds an open one, although the
\* value of a closed handle is handed out again to the next client: neither
\* the worker nor ~Server closes somebody else's pipe (PipeInstance.cpp 12-43).
NoDanglingHandle ==
  \A c \in ClientId :
    pipe_handle[c] # NoHandle =>
      /\ inst[pipe_handle[c]].srv = "open"
      /\ \A d \in ClientId \ {c} : pipe_handle[d] # pipe_handle[c]

\* No two threads work on the same handle value: two workers that still run
\* have different handles, and none has the one main is about to give away
\* (the copy of the handle a worker keeps outlives PipeInstance::Close).
HandleExclusive ==
  \A c \in ClientId : Live(c) =>
    /\ \A d \in ClientId \ {c} : Live(d) => arg[d] # arg[c]
    /\ mpc \in {"connect", "register", "spawn"} => arg[c] # cur

\* ~Server closes an instance only while its worker is outside the locked
\* section, and a response is written to the pipe its request came from, still
\* open (PipeInstance::mutex, Server.cpp 36-39 and 119).
CloseExcludesIO ==
  \A c \in ClientId :
    /\ mpc = "shut" /\ closing = c => wpc[c] \notin {"read", "write", "shut"}
    /\ wpc[c] = "write" => pipe_handle[c] = arg[c] /\ inst[arg[c]].srv = "open"

\* While the server runs, a connected client is in the hands of main, which is
\* accepting it, or of a worker that has not returned.
NoOrphanedClient ==
  \A h \in Handle : Connected(inst[h]) =>
    \/ mpc \in {"connect", "register", "spawn"} /\ cur = h
    \/ \E c \in ClientId : Live(c) /\ arg[c] = h
    \/ mpc \in DestructorPc

\* A response written to a client that is still there leaves the pipe only when
\* that client reads it: Close() flushes before it disconnects, and a handle
\* value is not reused before.
ResponsesSurvive ==
  [][\A h \in Handle :
       /\ inst[h].cli = "open" /\ inst'[h].cli = "open"
       /\ inst[h].rsp # <<>>   /\ inst'[h].rsp = <<>>
       => ClientRead(h)]_vars

-----------------------------------------------------------------------------
(* Liveness *)

\* No client stops sending for ever: each has a request in its pipe, or has
\* left, again and again.
NoIdleClient == \A h \in Handle : []<>(Connected(inst[h]) => inst[h].req # <<>>)

\* No client stops reading for ever.
NoDeafClient == \A h \in Handle : []<>(Connected(inst[h]) => inst[h].rsp = <<>>)

\* The destructor comes to an end when every client goes on sending and reading
\* until it leaves: ~Server waits for the mutex of each instance, which its
\* worker holds while it is blocked in ReadFile or in WriteFile, flushes each
\* pipe, and then waits for each thread (Server.cpp 24-46, 119-124, 175).
ShutdownCompletes ==
  NoIdleClient /\ NoDeafClient => (mpc = "close" ~> mpc = "exited")

\* One client never blocks another: until the server shuts down, a pipe full of
\* requests is read from, or its connection ends, unless it is full of responses
\* as well that its own client does not read.  It makes no difference that
\* another client sends nothing or reads nothing, and that the worker of that
\* client waits in ReadFile or in WriteFile with a mutex held: each instance has
\* a mutex of its own (Server.cpp 116-124, 175).
PipeDrains ==
  \A h \in Handle :
    (Connected(inst[h]) /\ Len(inst[h].req) = PipeCapacity)
      ~> \/ ~Connected(inst[h])
         \/ Len(inst[h].req) < PipeCapacity
         \/ Len(inst[h].rsp) = PipeCapacity
         \/ is_closed

-----------------------------------------------------------------------------
(* What the comments say and the code does not do. *)

\* "we need to guarantee the thread-safe access to the pipe instance" (Server.cpp
\* 36): a worker never reads from a handle that has been closed.
NoReadAfterClose ==
  \A c \in ClientId : wpc[c] = "read" => inst[arg[c]].srv = "open"

\* "Failed to send back a response to client_id=... - closing the client!"
\* (Server.cpp 146-149): a worker that gives up after a failed write has closed
\* the server end of its pipe.
FailedClientIsClosed ==
  [][\A c \in ClientId :
       wpc[c] = "write" /\ wpc'[c] = "done" => inst'[arg[c]].srv # "open"]_vars
=============================================================================
