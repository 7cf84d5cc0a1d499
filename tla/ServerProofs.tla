----------------------------- MODULE ServerProofs -----------------------------
(***************************************************************************)
(* The safety properties of Server, for every number of clients and every  *)
(* set of handle values.                                                   *)
(***************************************************************************)
EXTENDS Server, TLAPS, SequenceTheorems

-----------------------------------------------------------------------------
(* The operators of NamedPipe keep an instance an instance. *)

\* Neither end of a pipe leaves the set of instances by any of its operations.
LEMMA InstanceTypes ==
  ASSUME NEW p \in Instance
  PROVE  /\ FreshInstance \in Instance
         /\ Disconnected(p) \in Instance
         /\ ServerClosed(p) \in Instance
         /\ ClientOpened(p) \in Instance
         /\ ClientClosed(p) \in Instance
         /\ ClientDrained(p) \in Instance
         /\ \A m \in Request : ClientWritten(p, m) \in Instance
         /\ \A r \in Response : ResponseWritten(p, r) \in Instance
         /\ p.req # <<>> => MessageRead(p) \in Instance
  <1>1. /\ <<>> \in Seq(Request)
        /\ <<>> \in Seq(Response)
        /\ \A s \in Seq(Request), m \in Request : Append(s, m) \in Seq(Request)
        /\ \A s \in Seq(Response), r \in Response : Append(s, r) \in Seq(Response)
        /\ \A s \in Seq(Request) : s # <<>> => Tail(s) \in Seq(Request)
    BY HeadTailProperties
  <1> QED
    BY <1>1 DEF Instance, FreshInstance, NoInstance, Disconnected, ServerClosed,
         ClientOpened, ClientClosed, ClientDrained, ClientWritten, MessageRead, ResponseWritten, ServerEnd, ClientEnd

-----------------------------------------------------------------------------
(* Typing.  The counter stays in range because main creates a pipe only below *)
(* the bound and takes at most one client from it.                         *)

MainPhase ==
  /\ mpc \in {"connect", "register"} => cur \in Handle /\ client_ids_counter < MaxClients
  /\ mpc = "spawn" => cur \in Handle /\ client_ids_counter > 0
  /\ mpc \in {"lock", "shut"} => closing \in ClientId

TypeInv == TypeOK /\ MainPhase

\* Closing an instance keeps the types of what it changes.
LEMMA CloseTypes ==
  ASSUME TypeInv, NEW c \in ClientId, Close(c)
  PROVE  /\ inst' \in [Handle -> Instance]
         /\ pipe_handle' \in [ClientId -> Handle \cup {NoHandle}]
  <1> DEFINE h == pipe_handle[c]
  <1>1. pipe_handle \in [ClientId -> Handle \cup {NoHandle}] /\ inst \in [Handle -> Instance]
    BY DEF TypeInv, TypeOK
  <1>2. CASE UNCHANGED <<inst, pipe_handle>>
    BY <1>1, <1>2
  <1>3. CASE /\ h # NoHandle
             /\ inst' = [inst EXCEPT ![h] = Disconnected(@)]
             /\ pipe_handle' = [pipe_handle EXCEPT ![c] = NoHandle]
    <2>1. h \in Handle /\ inst[h] \in Instance
      BY <1>1, <1>3
    <2>2. Disconnected(inst[h]) \in Instance
      BY <2>1, InstanceTypes
    <2> QED BY <1>1, <1>3, <2>1, <2>2
  <1> QED BY <1>2, <1>3 DEF Close, CloseUnlessNull

\* Every step of the server and of its clients keeps the types.
LEMMA TypeInvStep == TypeInv /\ [Next]_vars => TypeInv'
  <1> SUFFICES ASSUME TypeInv, [Next]_vars PROVE TypeInv'
    OBVIOUS
  <1> USE ServerAssumption
  <1>1. ASSUME Start PROVE TypeInv'
    <2>1. ASSUME NEW h \in Handle, CreatePipe(h) PROVE TypeInv'
      BY <2>1, InstanceTypes DEF CreatePipe, TypeInv, TypeOK, MainPhase, StartPc, DestructorPc,
           workerVars, pipeVars
    <2>2. CASE CreateFails
      BY <2>2 DEF CreateFails, TypeInv, TypeOK, MainPhase, StartPc, DestructorPc,
             workerVars, pipeVars
    <2>3. CASE ClientArrives
      BY <2>3 DEF ClientArrives, TypeInv, TypeOK, MainPhase, StartPc, DestructorPc,
             workerVars, pipeVars
    <2>4. CASE ClientMissed
      BY <2>4, InstanceTypes DEF ClientMissed, TypeInv, TypeOK, MainPhase, StartPc,
             DestructorPc,
           workerVars, pipeVars
    <2>5. CASE RegisterClient
      BY <2>5 DEF RegisterClient, RegisterAs, TypeInv, TypeOK, MainPhase, ClientId, StartPc,
             DestructorPc,
           workerVars, pipeVars
    <2>6. CASE SpawnWorker
      BY <2>6 DEF SpawnWorker, TypeInv, TypeOK, MainPhase, ClientId, StartPc, DestructorPc,
             WorkerPc,
           workerVars, pipeVars
    <2> QED BY <1>1, <2>1, <2>2, <2>3, <2>4, <2>5, <2>6 DEF Start
  <1>2. ASSUME Destroy PROVE TypeInv'
    <2>1. CASE StoreClosed
      BY <2>1 DEF StoreClosed, TypeInv, TypeOK, MainPhase, StartPc, DestructorPc,
             workerVars, pipeVars
    <2>2. CASE MovePipes
      BY <2>2 DEF MovePipes, TypeInv, TypeOK, MainPhase, StartPc, DestructorPc, workerVars,
             pipeVars
    <2>3. CASE NextPipe
      BY <2>3 DEF NextPipe, TypeInv, TypeOK, MainPhase, StartPc, DestructorPc, workerVars,
             pipeVars
    <2>4. CASE LockPipe
      BY <2>4 DEF LockPipe, LockPipeWhen, TypeInv, TypeOK, MainPhase, StartPc, DestructorPc,
           workerVars, pipeVars
    <2>5. CASE ClosePipe
      <3>1. closing \in ClientId BY <2>5 DEF ClosePipe, TypeInv, MainPhase
      <3> QED BY <2>5, <3>1, CloseTypes DEF ClosePipe, TypeInv, TypeOK, MainPhase, StartPc, DestructorPc,
           workerVars
    <2>6. CASE AllPipesClosed
      BY <2>6 DEF AllPipesClosed, TypeInv, TypeOK, MainPhase, StartPc, DestructorPc,
             workerVars, pipeVars
    <2>7. CASE JoinThreads
      BY <2>7 DEF JoinThreads, TypeInv, TypeOK, MainPhase, StartPc, DestructorPc,
             workerVars, pipeVars
    <2> QED BY <1>2, <2>1, <2>2, <2>3, <2>4, <2>5, <2>6, <2>7 DEF Destroy
  <1>3. ASSUME NEW c \in ClientId, HandleClientConnection(c) PROVE TypeInv'
    <2>1. CASE FindPipe(c)
      BY <2>1 DEF FindPipe, Goto, TypeInv, TypeOK, MainPhase, WorkerPc, mainVars, pipeVars
    <2>2. CASE CheckClosed(c)
      BY <2>2 DEF CheckClosed, Goto, TypeInv, TypeOK, MainPhase, WorkerPc, mainVars, pipeVars
    <2>3. CASE LockOwnPipe(c)
      BY <2>3 DEF LockOwnPipe, LockOwnPipeWhen, Goto, TypeInv, TypeOK, MainPhase, WorkerPc, mainVars, pipeVars
    <2>4. CASE ReadRequest(c)
      <3>1. inst' \in [Handle -> Instance]
        BY <2>4, InstanceTypes DEF ReadRequest, ReadRequestElse, ReadReturnsMessage,
               TypeInv, TypeOK
      <3> QED BY <2>4, <3>1 DEF ReadRequest, ReadRequestElse, Goto, TypeInv, TypeOK, MainPhase, WorkerPc,
           mainVars
    <2>5. CASE ReadFailed(c)
      BY <2>5 DEF ReadFailed, Goto, TypeInv, TypeOK, MainPhase, WorkerPc, mainVars, pipeVars
    <2>6. CASE CloseOwnPipe(c)
      BY <2>6, CloseTypes DEF CloseOwnPipe, CloseOwnPipeThen, Goto, Unlock, TypeInv, TypeOK,
             MainPhase,
           WorkerPc, mainVars
    <2>7. CASE SendResponse(c)
      <3>1. PICK r \in Response : inst' = [inst EXCEPT ![arg[c]] = ResponseWritten(@, r)]
        BY <2>7 DEF SendResponse
      <3>2. arg[c] \in Handle => ResponseWritten(inst[arg[c]], r) \in Instance
        BY InstanceTypes DEF TypeInv, TypeOK
      <3>3. inst' \in [Handle -> Instance]
        BY <3>1, <3>2 DEF TypeInv, TypeOK
      <3> QED BY <2>7, <3>3 DEF SendResponse, Goto, Unlock, TypeInv, TypeOK, MainPhase, WorkerPc, mainVars
    <2>8. CASE SendFailed(c)
      BY <2>8 DEF SendFailed, Goto, Unlock, TypeInv, TypeOK, MainPhase, WorkerPc, mainVars
    <2> QED BY <1>3, <2>1, <2>2, <2>3, <2>4, <2>5, <2>6, <2>7, <2>8 DEF HandleClientConnection
  <1>4. ASSUME NEW h \in Handle, Client(h) PROVE TypeInv'
    <2>1. inst[h] \in Instance
      BY DEF TypeInv, TypeOK
    <2>2. PICK p \in Instance : inst' = [inst EXCEPT ![h] = p]
      <3>1. CASE ClientOpen(h)
        BY <2>1, <3>1, InstanceTypes DEF ClientOpen
      <3>2. CASE ClientWrite(h)
        BY <2>1, <3>2, InstanceTypes DEF ClientWrite
      <3>3. CASE ClientRead(h)
        BY <2>1, <3>3, InstanceTypes DEF ClientRead
      <3>4. CASE ClientClose(h)
        BY <2>1, <3>4, InstanceTypes DEF ClientClose
      <3> QED BY <1>4, <3>1, <3>2, <3>3, <3>4 DEF Client
    <2>3. UNCHANGED <<mainVars, workerVars, pipeVars>>
      BY <1>4 DEF Client, ClientOpen, ClientWrite, ClientRead, ClientClose
    <2> QED BY <2>2, <2>3 DEF TypeInv, TypeOK, MainPhase, mainVars, workerVars, pipeVars
  <1>5. CASE UNCHANGED vars
    BY <1>5 DEF TypeInv, TypeOK, MainPhase, vars, mainVars, workerVars, pipeVars
  <1> QED BY <1>1, <1>2, <1>3, <1>4, <1>5 DEF Next, Terminated

\* The initial state is typed.
LEMMA InitTypes == Init => TypeInv
  <1>1. NoInstance \in Instance
    <2>1. <<>> \in Seq(Request) /\ <<>> \in Seq(Response)
      OBVIOUS
    <2> QED BY <2>1 DEF Instance, NoInstance, ServerEnd, ClientEnd
  <1>2. Init => inst \in [Handle -> Instance]
    BY <1>1 DEF Init
  <1>3. Init => has_pipe \in [ClientId -> BOOLEAN] /\ is_closed \in BOOLEAN
    BY Zenon DEF Init
  <1> QED BY <1>2, <1>3, ServerAssumption DEF Init, TypeInv, TypeOK, MainPhase, StartPc, WorkerPc

\* TypeOK holds in every reachable state, for any number of clients.
THEOREM Typing == Spec => []TypeOK
  <1>1. TypeInv => TypeOK
    BY DEF TypeInv
  <1> QED BY <1>1, InitTypes, TypeInvStep, PTL DEF Spec
-----------------------------------------------------------------------------
(* The inductive invariant.  Each conjunct is one thing the code relies on *)
(* without saying it.                                                      *)

\* is_closed_ is set from the store in the destructor on.
ClosedFlag == is_closed <=> mpc \in DestructorPc \ {"close"}

\* A client id not yet given out has neither a worker nor an instance, and the
\* last one has an instance but no worker until main has started it.
FreshIds ==
  /\ \A c \in ClientId :
       c >= client_ids_counter => wpc[c] = "none" /\ pipe_handle[c] = NoHandle
  /\ mpc = "spawn" =>
       /\ wpc[client_ids_counter - 1] = "none"
       /\ pipe_handle[client_ids_counter - 1] = cur
       /\ client_ids_counter - 1 \in pipes

\* pipes_ holds the instance of every worker until ~Server moves it away, so a
\* worker that found none knows that is_closed_ is set.
PipesHeld ==
  \A c \in ClientId :
    /\ wpc[c] # "none" => c \in pipes \/ mpc \in DestructorPc \ {"close", "move"}
    /\ wpc[c] \notin {"none", "start", "done"} => has_pipe[c] \/ is_closed

\* The pipe main is giving away is open and in no instance yet.
CurFresh ==
  mpc \in {"connect", "register"} =>
    /\ inst[cur].srv = "open"
    /\ \A c \in ClientId : pipe_handle[c] # cur

\* A running worker's copy of the handle agrees with its instance, unless the
\* destructor has closed the instance.
ArgAgrees ==
  \A c \in ClientId : Live(c) =>
    /\ arg[c] \in Handle
    /\ \/ pipe_handle[c] = arg[c]
       \/ pipe_handle[c] = NoHandle /\ is_closed /\ inst[arg[c]].srv # "open"
    /\ \A d \in ClientId \ {c} : Live(d) => arg[d] # arg[c]

\* Who holds PipeInstance::mutex.
MutexHeld ==
  \A c \in ClientId :
    /\ mutex[c] = "worker" <=> wpc[c] \in {"read", "write", "shut"}
    /\ mutex[c] = "main" <=> mpc = "shut" /\ closing = c

\* A worker writes only while its instance is intact.
WritesOwn == \A c \in ClientId : wpc[c] = "write" => pipe_handle[c] = arg[c]

\* Only the pipe main waits on listens.
OneListener ==
  \A h \in Handle : Listening(inst[h]) => mpc = "connect" /\ cur = h

IInv ==
  /\ TypeInv
  /\ ClosedFlag
  /\ FreshIds
  /\ PipesHeld
  /\ NoNullPipe
  /\ CurFresh
  /\ NoDanglingHandle
  /\ ArgAgrees
  /\ MutexHeld
  /\ WritesOwn
  /\ OneListener
  /\ NoOrphanedClient

CloseEnds(c) ==
  /\ pipe_handle[c] # NoHandle => inst[pipe_handle[c]].cli = "closed"
  /\ UNCHANGED <<inst, pipe_handle>>

CloseDisconnects(c) ==
  /\ pipe_handle[c] \in Handle
  /\ \A h \in Handle \ {pipe_handle[c]} : inst'[h] = inst[h]
  /\ inst'[pipe_handle[c]].srv = "disconnected"
  /\ pipe_handle' = [pipe_handle EXCEPT ![c] = NoHandle]

\* PipeInstance::Close() leaves all as it is, or disconnects one pipe.
LEMMA CloseEffect ==
  ASSUME TypeInv, NEW c \in ClientId, Close(c)
  PROVE  /\ CloseEnds(c) \/ CloseDisconnects(c)
         /\ pipe_handle' = pipe_handle \/ pipe_handle' = [pipe_handle EXCEPT ![c] = NoHandle]
  BY DEF TypeInv, TypeOK, Instance, Close, CloseUnlessNull, Disconnected, CloseEnds,
         CloseDisconnects

\* A client touches no server end; it opens a pipe only if that listens.
LEMMA ClientFrame ==
  ASSUME TypeInv, NEW h \in Handle, Client(h)
  PROVE  /\ UNCHANGED <<mainVars, workerVars, pipeVars>>
         /\ \A g \in Handle :
              /\ inst'[g].srv = inst[g].srv
              /\ inst'[g].cli # inst[g].cli => inst'[g].cli # "none"
              /\ inst'[g].cli = "open" => inst[g].cli = "open" \/ Listening(inst[g])
  <1>1. inst[h] \in Instance /\ inst \in [Handle -> Instance]
    BY DEF TypeInv, TypeOK
  <1>2. CASE ClientOpen(h)
    BY <1>1, <1>2 DEF ClientOpen, ClientOpened, Instance, Listening
  <1>3. CASE ClientWrite(h)
    BY <1>1, <1>3 DEF ClientWrite, ClientWritten, Instance
  <1>4. CASE ClientRead(h)
    BY <1>1, <1>4 DEF ClientRead, ClientDrained, Instance
  <1>5. CASE ClientClose(h)
    BY <1>1, <1>5 DEF ClientClose, ClientClosed, Instance
  <1>6. UNCHANGED <<mainVars, workerVars, pipeVars>>
    BY DEF Client, ClientOpen, ClientWrite, ClientRead, ClientClose
  <1> QED BY <1>2, <1>3, <1>4, <1>5, <1>6 DEF Client

\* A new pipe listens under a handle value nobody uses.
LEMMA CreatePipeStep == ASSUME IInv, TypeInv', NEW h \in Handle, CreatePipe(h) PROVE IInv'
  <1>1. ClosedFlag' /\ FreshIds' /\ PipesHeld' /\ NoNullPipe'
    BY DEF IInv, DestructorPc, workerVars, pipeVars, ClosedFlag, FreshIds, PipesHeld,
           NoNullPipe, CreatePipe
  <1>2. CurFresh' /\ NoDanglingHandle' /\ ArgAgrees'
    BY ServerAssumption DEF IInv, TypeInv, TypeOK, DestructorPc, workerVars, pipeVars,
           ClosedFlag, CurFresh, NoDanglingHandle, ArgAgrees, Live, CreatePipe,
           FreshInstance
  <1>3. MutexHeld' /\ WritesOwn'
    BY DEF IInv, workerVars, pipeVars, MutexHeld, WritesOwn, CreatePipe
  <1>4. OneListener' /\ NoOrphanedClient'
    BY DEF IInv, DestructorPc, workerVars, OneListener, NoOrphanedClient, Live, CreatePipe
  <1> QED BY <1>1, <1>2, <1>3, <1>4 DEF IInv

\* Start() returning false starts the destructor.
LEMMA CreateFailsStep == ASSUME IInv, TypeInv', CreateFails PROVE IInv'
  <1>1. ClosedFlag' /\ FreshIds' /\ PipesHeld' /\ NoNullPipe'
    BY DEF IInv, DestructorPc, workerVars, pipeVars, ClosedFlag, FreshIds, PipesHeld,
           NoNullPipe, CreateFails
  <1>2. CurFresh' /\ NoDanglingHandle' /\ ArgAgrees'
    BY DEF IInv, workerVars, pipeVars, CurFresh, NoDanglingHandle, ArgAgrees, Live, CreateFails
  <1>3. MutexHeld' /\ WritesOwn'
    BY DEF IInv, workerVars, pipeVars, MutexHeld, WritesOwn, CreateFails
  <1>4. OneListener' /\ NoOrphanedClient'
    BY DEF IInv, DestructorPc, OneListener, NoOrphanedClient, CreateFails
  <1> QED BY <1>1, <1>2, <1>3, <1>4 DEF IInv

\* ConnectNamedPipe returning.
LEMMA ClientArrivesStep == ASSUME IInv, TypeInv', ClientArrives PROVE IInv'
  <1>1. ClosedFlag' /\ FreshIds' /\ PipesHeld' /\ NoNullPipe'
    BY DEF IInv, DestructorPc, workerVars, pipeVars, ClosedFlag, FreshIds, PipesHeld,
           NoNullPipe, ClientArrives
  <1>2. CurFresh' /\ NoDanglingHandle' /\ ArgAgrees'
    BY DEF IInv, workerVars, pipeVars, CurFresh, NoDanglingHandle, ArgAgrees, Live,
           ClientArrives
  <1>3. MutexHeld' /\ WritesOwn'
    BY DEF IInv, workerVars, pipeVars, MutexHeld, WritesOwn, ClientArrives
  <1>4. OneListener' /\ NoOrphanedClient'
    BY DEF IInv, DestructorPc, workerVars, OneListener, NoOrphanedClient, Live, Listening,
           ClientArrives, ConnectReturnsClient
  <1> QED BY <1>1, <1>2, <1>3, <1>4 DEF IInv

\* Giving up a pipe whose client has gone.
LEMMA ClientMissedStep == ASSUME IInv, TypeInv', ClientMissed PROVE IInv'
  <1>1. ClosedFlag' /\ FreshIds' /\ PipesHeld' /\ NoNullPipe'
    BY DEF IInv, DestructorPc, workerVars, pipeVars, ClosedFlag, FreshIds, PipesHeld,
           NoNullPipe, ClientMissed
  <1>2. CurFresh' /\ NoDanglingHandle' /\ ArgAgrees'
    BY DEF IInv, workerVars, pipeVars, CurFresh, NoDanglingHandle, ArgAgrees, Live, ClientMissed
  <1>3. MutexHeld' /\ WritesOwn'
    BY DEF IInv, workerVars, pipeVars, MutexHeld, WritesOwn, ClientMissed
  <1>4. OneListener' /\ NoOrphanedClient'
    BY DEF IInv, DestructorPc, workerVars, OneListener, NoOrphanedClient, Live, Listening,
           Connected, ClientMissed, ConnectFails, ServerClosed
  <1> QED BY <1>1, <1>2, <1>3, <1>4 DEF IInv

\* The new instance takes an unused id and an unused handle.
LEMMA RegisterClientStep == ASSUME IInv, TypeInv', RegisterClient PROVE IInv'
  <1>1. ClosedFlag' /\ FreshIds' /\ PipesHeld' /\ NoNullPipe'
    BY DEF IInv, TypeInv, TypeOK, DestructorPc, ClientId, workerVars, ClosedFlag, FreshIds,
           PipesHeld, NoNullPipe, RegisterClient, RegisterAs
  <1>2. CurFresh' /\ NoDanglingHandle' /\ ArgAgrees'
    BY DEF IInv, TypeInv, TypeOK, workerVars, FreshIds, CurFresh, NoDanglingHandle,
           ArgAgrees, Live, RegisterClient, RegisterAs
  <1>3. MutexHeld' /\ WritesOwn'
    BY DEF IInv, TypeInv, TypeOK, workerVars, FreshIds, MutexHeld, WritesOwn,
           RegisterClient, RegisterAs
  <1>4. OneListener' /\ NoOrphanedClient'
    BY DEF IInv, DestructorPc, workerVars, OneListener, NoOrphanedClient, Live,
           RegisterClient, RegisterAs
  <1> QED BY <1>1, <1>2, <1>3, <1>4 DEF IInv

\* The new worker gets a handle no other worker has.
LEMMA SpawnWorkerStep == ASSUME IInv, TypeInv', SpawnWorker PROVE IInv'
  <1>1. ClosedFlag' /\ FreshIds' /\ PipesHeld' /\ NoNullPipe'
    BY DEF IInv, TypeInv, TypeOK, DestructorPc, pipeVars, ClosedFlag, FreshIds, PipesHeld,
           NoNullPipe, SpawnWorker
  <1>2. CurFresh' /\ NoDanglingHandle' /\ ArgAgrees'
    BY ServerAssumption DEF IInv, TypeInv, TypeOK, MainPhase, pipeVars, FreshIds, CurFresh,
           NoDanglingHandle, ArgAgrees, Live, SpawnWorker
  <1>3. MutexHeld' /\ WritesOwn'
    BY DEF IInv, pipeVars, FreshIds, MutexHeld, WritesOwn, SpawnWorker
  <1>4. OneListener' /\ NoOrphanedClient'
    BY DEF IInv, TypeInv, TypeOK, DestructorPc, FreshIds, OneListener, NoOrphanedClient,
           Live, SpawnWorker
  <1> QED BY <1>1, <1>2, <1>3, <1>4 DEF IInv

\* The destructor sets is_closed_ before it moves pipes_.
LEMMA StoreClosedStep == ASSUME IInv, TypeInv', StoreClosed PROVE IInv'
  <1>1. ClosedFlag' /\ FreshIds' /\ PipesHeld' /\ NoNullPipe'
    BY DEF IInv, DestructorPc, workerVars, pipeVars, ClosedFlag, FreshIds, PipesHeld,
           NoNullPipe, StoreClosed
  <1>2. CurFresh' /\ NoDanglingHandle' /\ ArgAgrees'
    BY DEF IInv, workerVars, pipeVars, CurFresh, NoDanglingHandle, ArgAgrees, Live, StoreClosed
  <1>3. MutexHeld' /\ WritesOwn'
    BY DEF IInv, workerVars, pipeVars, MutexHeld, WritesOwn, StoreClosed
  <1>4. OneListener' /\ NoOrphanedClient'
    BY DEF IInv, DestructorPc, OneListener, NoOrphanedClient, StoreClosed
  <1> QED BY <1>1, <1>2, <1>3, <1>4 DEF IInv

\* Moving pipes_ away.
LEMMA MovePipesStep == ASSUME IInv, TypeInv', MovePipes PROVE IInv'
  <1>1. ClosedFlag' /\ FreshIds' /\ PipesHeld' /\ NoNullPipe'
    BY DEF IInv, DestructorPc, workerVars, pipeVars, ClosedFlag, FreshIds, PipesHeld,
           NoNullPipe, MovePipes
  <1>2. CurFresh' /\ NoDanglingHandle' /\ ArgAgrees'
    BY DEF IInv, workerVars, pipeVars, CurFresh, NoDanglingHandle, ArgAgrees, Live, MovePipes
  <1>3. MutexHeld' /\ WritesOwn'
    BY DEF IInv, workerVars, pipeVars, MutexHeld, WritesOwn, MovePipes
  <1>4. OneListener' /\ NoOrphanedClient'
    BY DEF IInv, DestructorPc, OneListener, NoOrphanedClient, MovePipes
  <1> QED BY <1>1, <1>2, <1>3, <1>4 DEF IInv

\* The next instance to close.
LEMMA NextPipeStep == ASSUME IInv, TypeInv', NextPipe PROVE IInv'
  <1>1. ClosedFlag' /\ FreshIds' /\ PipesHeld' /\ NoNullPipe'
    BY DEF IInv, DestructorPc, workerVars, pipeVars, ClosedFlag, FreshIds, PipesHeld,
           NoNullPipe, NextPipe
  <1>2. CurFresh' /\ NoDanglingHandle' /\ ArgAgrees'
    BY DEF IInv, workerVars, pipeVars, CurFresh, NoDanglingHandle, ArgAgrees, Live, NextPipe
  <1>3. MutexHeld' /\ WritesOwn'
    BY DEF IInv, workerVars, pipeVars, MutexHeld, WritesOwn, NextPipe
  <1>4. OneListener' /\ NoOrphanedClient'
    BY DEF IInv, DestructorPc, OneListener, NoOrphanedClient, NextPipe
  <1> QED BY <1>1, <1>2, <1>3, <1>4 DEF IInv

\* Main takes the mutex of an instance.
LEMMA LockPipeStep == ASSUME IInv, TypeInv', LockPipe PROVE IInv'
  <1>1. ClosedFlag' /\ FreshIds' /\ PipesHeld' /\ NoNullPipe'
    BY DEF IInv, DestructorPc, workerVars, ClosedFlag, FreshIds, PipesHeld, NoNullPipe,
           LockPipe, LockPipeWhen
  <1>2. CurFresh' /\ NoDanglingHandle' /\ ArgAgrees'
    BY DEF IInv, workerVars, CurFresh, NoDanglingHandle, ArgAgrees, Live, LockPipe, LockPipeWhen
  <1>3. MutexHeld' /\ WritesOwn'
    BY DEF IInv, TypeInv, TypeOK, workerVars, MutexHeld, WritesOwn, LockPipe, LockPipeWhen
  <1>4. OneListener' /\ NoOrphanedClient'
    BY DEF IInv, DestructorPc, OneListener, NoOrphanedClient, LockPipe, LockPipeWhen
  <1> QED BY <1>1, <1>2, <1>3, <1>4 DEF IInv

\* Main closes an instance no worker is using.
LEMMA ClosePipeStep == ASSUME IInv, TypeInv', ClosePipe PROVE IInv'
  <1>1. ClosedFlag' /\ FreshIds' /\ PipesHeld' /\ NoNullPipe'
    BY DEF IInv, TypeInv, TypeOK, DestructorPc, workerVars, ClosedFlag, FreshIds, PipesHeld,
           NoNullPipe, ClosePipe, Close, CloseUnlessNull
  <1>2. CurFresh' /\ NoDanglingHandle' /\ ArgAgrees'
    <2>1. mpc = "shut" /\ closing \in ClientId /\ mpc' = "next"
      BY DEF ClosePipe, IInv, TypeInv, MainPhase
    <2>2. UNCHANGED <<cur, client_ids_counter, is_closed, pipes, to_close, threads, workerVars>>
      BY DEF ClosePipe
    <2>3. CloseEnds(closing) \/ CloseDisconnects(closing)
      BY <2>1, CloseEffect DEF ClosePipe, IInv
    <2>4. CASE CloseEnds(closing)
      BY <2>1, <2>2, <2>4 DEF CloseEnds, IInv, TypeInv, TypeOK, ClosedFlag, CurFresh,
             NoDanglingHandle, ArgAgrees, Live, DestructorPc, workerVars
    <2>5. CASE CloseDisconnects(closing)
      BY <2>1, <2>2, <2>5 DEF CloseDisconnects, IInv, TypeInv, TypeOK, ClosedFlag, CurFresh,
             NoDanglingHandle, ArgAgrees, Live, DestructorPc, workerVars
    <2> QED BY <2>3, <2>4, <2>5
  <1>3. MutexHeld' /\ WritesOwn'
    BY DEF IInv, TypeInv, TypeOK, workerVars, MutexHeld, WritesOwn, ClosePipe, Close,
           CloseUnlessNull
  <1>4. OneListener' /\ NoOrphanedClient'
    <2>1. mpc = "shut" /\ closing \in ClientId /\ mpc' = "next"
      BY DEF ClosePipe, IInv, TypeInv, MainPhase
    <2>2. UNCHANGED <<cur, client_ids_counter, is_closed, pipes, to_close, threads, workerVars>>
      BY DEF ClosePipe
    <2>3. CloseEnds(closing) \/ CloseDisconnects(closing)
      BY <2>1, CloseEffect DEF ClosePipe, IInv
    <2>4. CASE CloseEnds(closing)
      BY <2>1, <2>2, <2>4 DEF CloseEnds, IInv, TypeInv, TypeOK, MainPhase, ClosedFlag,
             OneListener, NoOrphanedClient, ArgAgrees, Live, Listening, Connected,
             DestructorPc, workerVars
    <2>5. CASE CloseDisconnects(closing)
      BY <2>1, <2>2, <2>5 DEF CloseDisconnects, IInv, TypeInv, TypeOK, MainPhase,
             ClosedFlag, OneListener, NoOrphanedClient, ArgAgrees, Live, Listening,
             Connected, DestructorPc, workerVars
    <2> QED BY <2>3, <2>4, <2>5
  <1> QED BY <1>1, <1>2, <1>3, <1>4 DEF IInv

\* The end of the closing loop.
LEMMA AllPipesClosedStep == ASSUME IInv, TypeInv', AllPipesClosed PROVE IInv'
  <1>1. ClosedFlag' /\ FreshIds' /\ PipesHeld' /\ NoNullPipe'
    BY DEF IInv, DestructorPc, workerVars, pipeVars, ClosedFlag, FreshIds, PipesHeld,
           NoNullPipe, AllPipesClosed
  <1>2. CurFresh' /\ NoDanglingHandle' /\ ArgAgrees'
    BY DEF IInv, workerVars, pipeVars, CurFresh, NoDanglingHandle, ArgAgrees, Live,
           AllPipesClosed
  <1>3. MutexHeld' /\ WritesOwn'
    BY DEF IInv, workerVars, pipeVars, MutexHeld, WritesOwn, AllPipesClosed
  <1>4. OneListener' /\ NoOrphanedClient'
    BY DEF IInv, DestructorPc, OneListener, NoOrphanedClient, AllPipesClosed
  <1> QED BY <1>1, <1>2, <1>3, <1>4 DEF IInv

\* The end of the destructor.
LEMMA JoinThreadsStep == ASSUME IInv, TypeInv', JoinThreads PROVE IInv'
  <1>1. ClosedFlag' /\ FreshIds' /\ PipesHeld' /\ NoNullPipe'
    BY DEF IInv, DestructorPc, workerVars, pipeVars, ClosedFlag, FreshIds, PipesHeld,
           NoNullPipe, JoinThreads
  <1>2. CurFresh' /\ NoDanglingHandle' /\ ArgAgrees'
    BY DEF IInv, workerVars, pipeVars, CurFresh, NoDanglingHandle, ArgAgrees, Live, JoinThreads
  <1>3. MutexHeld' /\ WritesOwn'
    BY DEF IInv, workerVars, pipeVars, MutexHeld, WritesOwn, JoinThreads
  <1>4. OneListener' /\ NoOrphanedClient'
    BY DEF IInv, DestructorPc, OneListener, NoOrphanedClient, JoinThreads
  <1> QED BY <1>1, <1>2, <1>3, <1>4 DEF IInv

\* A worker that finds no instance sees is_closed_ next.
LEMMA FindPipeStep == ASSUME IInv, TypeInv', NEW c \in ClientId, FindPipe(c) PROVE IInv'
  <1>1. ClosedFlag' /\ FreshIds' /\ PipesHeld' /\ NoNullPipe'
    <2>1. has_pipe'[c] <=> c \in pipes
      BY Zenon DEF FindPipe, IInv, TypeInv, TypeOK
    <2>2. \A d \in ClientId \ {c} : has_pipe'[d] = has_pipe[d]
      BY DEF FindPipe, IInv, TypeInv, TypeOK
    <2>3. wpc[c] = "start" /\ wpc' = [wpc EXCEPT ![c] = "check"] /\ UNCHANGED <<mainVars, pipeVars>>
      BY DEF FindPipe, Goto
    <2>4. ClosedFlag' /\ FreshIds'
      BY <2>3 DEF IInv, TypeInv, TypeOK, ClosedFlag, FreshIds, mainVars, pipeVars
    <2>5. PipesHeld'
      BY <2>1, <2>2, <2>3, Zenon DEF IInv, TypeInv, TypeOK, ClosedFlag, PipesHeld, mainVars
    <2>6. NoNullPipe'
      BY <2>2, <2>3 DEF IInv, TypeInv, TypeOK, NoNullPipe
    <2> QED BY <2>4, <2>5, <2>6
  <1>2. CurFresh' /\ NoDanglingHandle' /\ ArgAgrees'
    BY DEF IInv, mainVars, pipeVars, CurFresh, NoDanglingHandle, ArgAgrees, Live, FindPipe, Goto
  <1>3. MutexHeld' /\ WritesOwn'
    <2>1. wpc[c] = "start" /\ wpc' = [wpc EXCEPT ![c] = "check"] /\ UNCHANGED <<mainVars, arg, pipeVars>>
      BY DEF FindPipe, Goto
    <2> QED BY <2>1 DEF IInv, TypeInv, TypeOK, MutexHeld, WritesOwn, mainVars, pipeVars
  <1>4. OneListener' /\ NoOrphanedClient'
    BY DEF IInv, mainVars, OneListener, NoOrphanedClient, Live, FindPipe, Goto
  <1> QED BY <1>1, <1>2, <1>3, <1>4 DEF IInv

\* The loop condition.
LEMMA CheckClosedStep == ASSUME IInv, TypeInv', NEW c \in ClientId, CheckClosed(c) PROVE IInv'
  <1>1. ClosedFlag' /\ FreshIds' /\ PipesHeld' /\ NoNullPipe'
    BY DEF IInv, mainVars, pipeVars, ClosedFlag, FreshIds, PipesHeld, NoNullPipe,
           CheckClosed, Goto
  <1>2. CurFresh' /\ NoDanglingHandle' /\ ArgAgrees'
    <2>1. wpc' = [wpc EXCEPT ![c] = IF is_closed THEN "done" ELSE "lock"]
      BY DEF CheckClosed, Goto
    <2>2. wpc[c] = "check" /\ UNCHANGED <<inst, mainVars, arg, pipeVars>>
      BY DEF CheckClosed
    <2> QED BY <2>1, <2>2 DEF IInv, TypeInv, TypeOK, ClosedFlag, CurFresh, NoDanglingHandle, ArgAgrees, Live,
         MutexHeld, WritesOwn, mainVars, pipeVars
  <1>3. MutexHeld' /\ WritesOwn'
    <2>1. wpc' = [wpc EXCEPT ![c] = IF is_closed THEN "done" ELSE "lock"]
      BY DEF CheckClosed, Goto
    <2>2. wpc[c] = "check" /\ UNCHANGED <<inst, mainVars, arg, pipeVars>>
      BY DEF CheckClosed
    <2> QED BY <2>1, <2>2 DEF IInv, TypeInv, TypeOK, ClosedFlag, CurFresh, NoDanglingHandle, ArgAgrees, Live,
         MutexHeld, WritesOwn, mainVars, pipeVars
  <1>4. OneListener' /\ NoOrphanedClient'
    BY DEF IInv, mainVars, OneListener, NoOrphanedClient, ClosedFlag, Live, CheckClosed, Goto
  <1> QED BY <1>1, <1>2, <1>3, <1>4 DEF IInv

\* A worker takes the mutex of its instance.
LEMMA LockOwnPipeStep == ASSUME IInv, TypeInv', NEW c \in ClientId, LockOwnPipe(c) PROVE IInv'
  <1>1. ClosedFlag' /\ FreshIds' /\ PipesHeld' /\ NoNullPipe'
    BY DEF IInv, mainVars, ClosedFlag, FreshIds, PipesHeld, NoNullPipe, LockOwnPipe, LockOwnPipeWhen, Goto
  <1>2. CurFresh' /\ NoDanglingHandle' /\ ArgAgrees'
    BY DEF IInv, mainVars, CurFresh, NoDanglingHandle, ArgAgrees, Live, LockOwnPipe, LockOwnPipeWhen, Goto
  <1>3. MutexHeld' /\ WritesOwn'
    BY DEF IInv, TypeInv, TypeOK, mainVars, MutexHeld, WritesOwn, LockOwnPipe, LockOwnPipeWhen, Goto
  <1>4. OneListener' /\ NoOrphanedClient'
    BY DEF IInv, mainVars, OneListener, NoOrphanedClient, Live, LockOwnPipe, LockOwnPipeWhen, Goto
  <1> QED BY <1>1, <1>2, <1>3, <1>4 DEF IInv

\* A request is read only from an open pipe.
LEMMA ReadRequestStep == ASSUME IInv, TypeInv', NEW c \in ClientId, ReadRequest(c) PROVE IInv'
  <1>1. ClosedFlag' /\ FreshIds' /\ PipesHeld' /\ NoNullPipe'
    BY DEF IInv, mainVars, ClosedFlag, FreshIds, PipesHeld, NoNullPipe, ReadRequest,
           ReadRequestElse, Goto
  <1>2. CurFresh' /\ NoDanglingHandle' /\ ArgAgrees'
    BY DEF IInv, mainVars, CurFresh, NoDanglingHandle, ArgAgrees, Live, ReadRequest,
           ReadRequestElse, MessageRead, Goto
  <1>3. MutexHeld' /\ WritesOwn'
    <2>1. CASE wpc' = [wpc EXCEPT ![c] = "write"] /\ mutex' = mutex
      <3>1. pipe_handle[c] = arg[c]
        BY DEF ReadRequest, ReadRequestElse, ReadReturnsMessage, IInv, ArgAgrees, Live
      <3>2. wpc[c] = "read" /\ UNCHANGED <<mainVars, arg, pipe_handle>>
        BY DEF ReadRequest, ReadRequestElse
      <3> QED BY <2>1, <3>1, <3>2 DEF IInv, TypeInv, TypeOK, MutexHeld, WritesOwn, mainVars
    <2>2. CASE wpc' = [wpc EXCEPT ![c] = "check"] /\ mutex' = [mutex EXCEPT ![c] = "free"]
      <3>1. wpc[c] = "read" /\ UNCHANGED <<mainVars, arg, pipe_handle>>
        BY DEF ReadRequest, ReadRequestElse
      <3> QED BY <2>2, <3>1 DEF IInv, TypeInv, TypeOK, MutexHeld, WritesOwn, mainVars
    <2> QED BY <2>1, <2>2 DEF ReadRequest, ReadRequestElse, Goto, IInv, TypeInv, TypeOK
  <1>4. OneListener' /\ NoOrphanedClient'
    BY DEF IInv, mainVars, OneListener, NoOrphanedClient, Live, Listening, ReadRequest,
           ReadRequestElse, MessageRead, Goto
  <1> QED BY <1>1, <1>2, <1>3, <1>4 DEF IInv

\* ReadFile failing.
LEMMA ReadFailedStep == ASSUME IInv, TypeInv', NEW c \in ClientId, ReadFailed(c) PROVE IInv'
  <1>1. ClosedFlag' /\ FreshIds' /\ PipesHeld' /\ NoNullPipe'
    <2>1. wpc[c] = "read" /\ wpc' = [wpc EXCEPT ![c] = "shut"] /\ UNCHANGED <<mainVars, has_pipe, pipeVars>>
      BY DEF ReadFailed, Goto
    <2> QED BY <2>1 DEF IInv, TypeInv, TypeOK, ClosedFlag, FreshIds, PipesHeld, NoNullPipe, mainVars, pipeVars
  <1>2. CurFresh' /\ NoDanglingHandle' /\ ArgAgrees'
    BY DEF IInv, mainVars, pipeVars, CurFresh, NoDanglingHandle, ArgAgrees, Live,
           ReadFailed, Goto
  <1>3. MutexHeld' /\ WritesOwn'
    BY DEF IInv, mainVars, pipeVars, MutexHeld, WritesOwn, ReadFailed, Goto
  <1>4. OneListener' /\ NoOrphanedClient'
    BY DEF IInv, mainVars, OneListener, NoOrphanedClient, Live, ReadFailed, Goto
  <1> QED BY <1>1, <1>2, <1>3, <1>4 DEF IInv

\* A worker closes its instance and returns.
LEMMA CloseOwnPipeStep == ASSUME IInv, TypeInv', NEW c \in ClientId, CloseOwnPipe(c) PROVE IInv'
  <1>1. ClosedFlag' /\ FreshIds' /\ PipesHeld' /\ NoNullPipe'
    <2>1. wpc[c] = "shut" /\ wpc' = [wpc EXCEPT ![c] = "done"] /\ UNCHANGED <<mainVars, has_pipe>>
      BY DEF CloseOwnPipe, CloseOwnPipeThen, Goto
    <2>2. pipe_handle' = pipe_handle \/ pipe_handle' = [pipe_handle EXCEPT ![c] = NoHandle]
      BY CloseEffect DEF CloseOwnPipe, CloseOwnPipeThen, IInv
    <2> QED BY <2>1, <2>2 DEF IInv, TypeInv, TypeOK, ClosedFlag, FreshIds, PipesHeld, NoNullPipe, mainVars
  <1>2. CurFresh' /\ NoDanglingHandle' /\ ArgAgrees'
    <2>1. wpc[c] = "shut" /\ wpc' = [wpc EXCEPT ![c] = "done"] /\ UNCHANGED <<mainVars, arg>>
      BY DEF CloseOwnPipe, CloseOwnPipeThen, Goto
    <2>2. CloseEnds(c) \/ CloseDisconnects(c)
      BY CloseEffect DEF CloseOwnPipe, CloseOwnPipeThen, IInv
    <2>3. CASE CloseEnds(c)
      BY <2>1, <2>3, ServerAssumption DEF CloseEnds, Connected, IInv, TypeInv, TypeOK,
             ClosedFlag, CurFresh, NoDanglingHandle, ArgAgrees, Live, DestructorPc, mainVars
    <2>4. CASE CloseDisconnects(c)
      <3>1. pipe_handle[c] = arg[c]
        BY <2>1, <2>4, ServerAssumption DEF CloseDisconnects, IInv, ArgAgrees, Live
      <3>2. CurFresh'
        BY <2>1, <2>4, ServerAssumption DEF CloseDisconnects, IInv, TypeInv, TypeOK,
               MainPhase, CurFresh,
             mainVars
      <3>3. NoDanglingHandle'
        BY <2>1, <2>4 DEF CloseDisconnects, IInv, TypeInv, TypeOK, NoDanglingHandle
      <3>4. ArgAgrees'
        <4> SUFFICES ASSUME NEW d \in ClientId, Live(d)'
                     PROVE  /\ Live(d) /\ d # c
                            /\ pipe_handle'[d] = pipe_handle[d]
                            /\ inst'[arg[d]].srv = inst[arg[d]].srv
          BY <2>1 DEF IInv, ArgAgrees, Live, mainVars
        <4>1. Live(d) /\ d # c
          BY <2>1 DEF IInv, TypeInv, TypeOK, Live
        <4>2. arg[d] # arg[c] /\ arg[d] \in Handle
          BY <4>1, <2>1 DEF IInv, ArgAgrees, Live
        <4> QED BY <2>4, <3>1, <4>1, <4>2 DEF CloseDisconnects, IInv, TypeInv, TypeOK
      <3> QED BY <3>2, <3>3, <3>4
    <2> QED BY <2>2, <2>3, <2>4
  <1>3. MutexHeld' /\ WritesOwn'
    BY DEF IInv, TypeInv, TypeOK, mainVars, MutexHeld, WritesOwn, CloseOwnPipe,
           CloseOwnPipeThen, Close, CloseUnlessNull, Goto, Unlock
  <1>4. OneListener' /\ NoOrphanedClient'
    <2>1. wpc[c] = "shut" /\ wpc' = [wpc EXCEPT ![c] = "done"] /\ UNCHANGED <<mainVars, arg>>
      BY DEF CloseOwnPipe, CloseOwnPipeThen, Goto
    <2>2. CloseEnds(c) \/ CloseDisconnects(c)
      BY CloseEffect DEF CloseOwnPipe, CloseOwnPipeThen, IInv
    <2>3. CASE CloseEnds(c)
      BY <2>1, <2>3, ServerAssumption DEF CloseEnds, Connected, IInv, TypeInv, TypeOK,
             MainPhase, ClosedFlag, OneListener, NoOrphanedClient, ArgAgrees, Live,
             Listening, Connected, DestructorPc, mainVars
    <2>4. CASE CloseDisconnects(c)
      BY <2>1, <2>4, ServerAssumption DEF CloseDisconnects, IInv, TypeInv, TypeOK,
             MainPhase, ClosedFlag, OneListener, NoOrphanedClient, ArgAgrees, Live,
             Listening, Connected, DestructorPc, mainVars
    <2> QED BY <2>2, <2>3, <2>4
  <1> QED BY <1>1, <1>2, <1>3, <1>4 DEF IInv

\* A response is written.
LEMMA SendResponseStep == ASSUME IInv, TypeInv', NEW c \in ClientId, SendResponse(c) PROVE IInv'
  <1>1. ClosedFlag' /\ FreshIds' /\ PipesHeld' /\ NoNullPipe'
    BY DEF IInv, mainVars, ClosedFlag, FreshIds, PipesHeld, NoNullPipe, SendResponse, Goto
  <1>2. CurFresh' /\ NoDanglingHandle' /\ ArgAgrees'
    BY DEF IInv, mainVars, CurFresh, NoDanglingHandle, ArgAgrees, Live, SendResponse,
           ResponseWritten, Goto
  <1>3. MutexHeld' /\ WritesOwn'
    BY DEF IInv, TypeInv, TypeOK, mainVars, MutexHeld, WritesOwn, SendResponse, Goto, Unlock
  <1>4. OneListener' /\ NoOrphanedClient'
    BY DEF IInv, mainVars, OneListener, NoOrphanedClient, Live, Listening, SendResponse,
           ResponseWritten, Goto
  <1> QED BY <1>1, <1>2, <1>3, <1>4 DEF IInv

\* WriteFile failing: the client has gone.
LEMMA SendFailedStep == ASSUME IInv, TypeInv', NEW c \in ClientId, SendFailed(c) PROVE IInv'
  <1>1. ClosedFlag' /\ FreshIds' /\ PipesHeld' /\ NoNullPipe'
    BY DEF IInv, mainVars, ClosedFlag, FreshIds, PipesHeld, NoNullPipe, SendFailed, Goto
  <1>2. CurFresh' /\ NoDanglingHandle' /\ ArgAgrees'
    BY DEF IInv, mainVars, CurFresh, NoDanglingHandle, ArgAgrees, Live, SendFailed, Goto
  <1>3. MutexHeld' /\ WritesOwn'
    BY DEF IInv, TypeInv, TypeOK, mainVars, MutexHeld, WritesOwn, SendFailed, Goto, Unlock
  <1>4. OneListener' /\ NoOrphanedClient'
    BY DEF IInv, mainVars, OneListener, NoOrphanedClient, Live, Connected, SendFailed,
           WriteFails, Goto
  <1> QED BY <1>1, <1>2, <1>3, <1>4 DEF IInv

\* What clients do.
LEMMA ClientStep == ASSUME IInv, TypeInv', NEW h \in Handle, Client(h) PROVE IInv'
  <1>1. ClosedFlag' /\ FreshIds' /\ PipesHeld' /\ NoNullPipe'
    BY ClientFrame DEF IInv, ClosedFlag, FreshIds, PipesHeld, NoNullPipe, mainVars,
           workerVars, pipeVars
  <1>2. CurFresh' /\ NoDanglingHandle' /\ ArgAgrees'
    BY ClientFrame DEF IInv, TypeInv, TypeOK, MainPhase, CurFresh, NoDanglingHandle,
           ArgAgrees, Live, mainVars, workerVars, pipeVars
  <1>3. MutexHeld' /\ WritesOwn'
    BY ClientFrame DEF IInv, MutexHeld, WritesOwn, mainVars, workerVars, pipeVars
  <1>4. OneListener' /\ NoOrphanedClient'
    BY ClientFrame DEF IInv, OneListener, NoOrphanedClient, Connected, Listening, Live,
           mainVars, workerVars, pipeVars
  <1> QED BY <1>1, <1>2, <1>3, <1>4 DEF IInv

\* Stuttering.
LEMMA StutterStep == ASSUME IInv, TypeInv', UNCHANGED vars PROVE IInv'
  BY DEF IInv, ClosedFlag, FreshIds, PipesHeld, NoNullPipe, CurFresh, NoDanglingHandle,
         ArgAgrees,
     MutexHeld, WritesOwn, OneListener, NoOrphanedClient, Live, vars, mainVars, workerVars, pipeVars

-----------------------------------------------------------------------------
(* The theorems *)

\* The invariant holds initially and every step preserves it.
THEOREM Invariance == Spec => []IInv
  <1>1. Init => IInv
    <2>1. Init => TypeInv BY InitTypes
    <2>2. Init => FreshIds /\ PipesHeld /\ CurFresh /\ NoDanglingHandle /\ MutexHeld
      BY DEF Init, FreshIds, PipesHeld, CurFresh, NoDanglingHandle, MutexHeld
    <2>3. Init => NoNullPipe /\ ArgAgrees /\ WritesOwn
      BY DEF Init, NoNullPipe, ArgAgrees, WritesOwn, Live
    <2>4. Init => OneListener /\ NoOrphanedClient
      BY DEF Init, OneListener, NoOrphanedClient, Listening, Connected, NoInstance
    <2>5. Init => ClosedFlag
      BY DEF Init, ClosedFlag, DestructorPc
    <2> QED BY <2>1, <2>2, <2>3, <2>4, <2>5 DEF IInv
  <1>2. IInv /\ [Next]_vars => IInv'
    <2> SUFFICES ASSUME IInv, [Next]_vars PROVE IInv'
      OBVIOUS
    <2>1. TypeInv'
      BY TypeInvStep DEF IInv
    <2>2. CASE Start
      BY <2>1, <2>2, CreatePipeStep, CreateFailsStep, ClientArrivesStep, ClientMissedStep,
         RegisterClientStep, SpawnWorkerStep DEF Start
    <2>3. CASE Destroy
      BY <2>1, <2>3, StoreClosedStep, MovePipesStep, NextPipeStep, LockPipeStep, ClosePipeStep,
         AllPipesClosedStep, JoinThreadsStep DEF Destroy
    <2>4. ASSUME NEW c \in ClientId, HandleClientConnection(c) PROVE IInv'
      BY <2>1, <2>4, FindPipeStep, CheckClosedStep, LockOwnPipeStep, ReadRequestStep,
         ReadFailedStep, CloseOwnPipeStep, SendResponseStep, SendFailedStep
         DEF HandleClientConnection
    <2>5. ASSUME NEW h \in Handle, Client(h) PROVE IInv'
      BY <2>1, <2>5, ClientStep
    <2>6. CASE UNCHANGED vars
      BY <2>1, <2>6, StutterStep
    <2> QED BY <2>2, <2>3, <2>4, <2>5, <2>6 DEF Next, Terminated
  <1> QED BY <1>1, <1>2, PTL DEF Spec

\* No worker dereferences a null PipeInstance (Server.cpp 108-119).
THEOREM NullPipeSafety == Spec => []NoNullPipe
  BY Invariance, PTL DEF IInv

\* No thread closes a handle value that was reused for another client
\* (PipeInstance.cpp 12-43).
THEOREM HandleSafety == Spec => []NoDanglingHandle
  BY Invariance, PTL DEF IInv

\* No two running threads use the same handle value.
THEOREM HandleExclusion == Spec => []HandleExclusive
  <1>1. IInv => HandleExclusive
    <2> SUFFICES ASSUME IInv, NEW c \in ClientId, Live(c)
                 PROVE  /\ \A d \in ClientId \ {c} : Live(d) => arg[d] # arg[c]
                        /\ mpc \in {"connect", "register", "spawn"} => arg[c] # cur
      BY DEF HandleExclusive
    <2>1. \A d \in ClientId \ {c} : Live(d) => arg[d] # arg[c]
      BY DEF IInv, ArgAgrees
    <2>2. mpc \in {"connect", "register", "spawn"} => pipe_handle[c] = arg[c]
      BY DEF IInv, ArgAgrees, ClosedFlag, DestructorPc
    <2>3. mpc \in {"connect", "register"} => arg[c] # cur
      BY <2>2 DEF IInv, CurFresh
    <2>4. ASSUME mpc = "spawn" PROVE arg[c] # cur
      <3>1. client_ids_counter - 1 \in ClientId
        BY <2>4, ServerAssumption DEF IInv, TypeInv, TypeOK, MainPhase, ClientId
      <3>2. c # client_ids_counter - 1
        BY <2>4 DEF IInv, FreshIds, Live
      <3>3. pipe_handle[client_ids_counter - 1] = cur /\ pipe_handle[c] = arg[c]
        BY <2>2, <2>4 DEF IInv, FreshIds
      <3>4. cur \in Handle
        BY <2>4 DEF IInv, TypeInv, MainPhase
      <3> QED BY <3>1, <3>2, <3>3, <3>4, ServerAssumption DEF IInv, NoDanglingHandle
    <2> QED BY <2>1, <2>3, <2>4
  <1> QED BY <1>1, Invariance, PTL

\* The mutex of an instance keeps the destructor out while its worker reads,
\* answers or closes, so that a response goes to the pipe it was asked on.
THEOREM LockSafety == Spec => []CloseExcludesIO
  <1>1. IInv => CloseExcludesIO
    <2> SUFFICES ASSUME IInv, NEW c \in ClientId
                 PROVE  /\ mpc = "shut" /\ closing = c => wpc[c] \notin {"read", "write", "shut"}
                        /\ wpc[c] = "write" => pipe_handle[c] = arg[c] /\ inst[arg[c]].srv = "open"
      BY DEF CloseExcludesIO
    <2>1. mpc = "shut" /\ closing = c => wpc[c] \notin {"read", "write", "shut"}
      BY DEF IInv, MutexHeld
    <2>2. wpc[c] = "write" => pipe_handle[c] = arg[c] /\ arg[c] \in Handle
      BY DEF IInv, WritesOwn, ArgAgrees, Live
    <2>3. wpc[c] = "write" => inst[arg[c]].srv = "open"
      BY <2>2, ServerAssumption DEF IInv, NoDanglingHandle
    <2> QED BY <2>1, <2>2, <2>3
  <1> QED BY <1>1, Invariance, PTL

\* While the server runs, every connected client has a thread to serve it.
THEOREM ClientsServed == Spec => []NoOrphanedClient
  BY Invariance, PTL DEF IInv

\* Flushing before disconnecting loses no response of a client that stays.
THEOREM ResponseSafety == Spec => ResponsesSurvive
  <1>1. ASSUME TypeInv, Next, NEW h \in Handle,
               inst[h].cli = "open", inst'[h].cli = "open", inst[h].rsp # <<>>, inst'[h].rsp = <<>>
        PROVE  ClientRead(h)
    <2>1. inst \in [Handle -> Instance] /\ inst[h] \in Instance
      BY <1>1 DEF TypeInv, TypeOK
    <2>2. /\ ServerClosed(inst[h]).rsp = inst[h].rsp
          /\ MessageRead(inst[h]).rsp = inst[h].rsp
          /\ ClientOpened(inst[h]).rsp = inst[h].rsp
          /\ \A m \in Request : ClientWritten(inst[h], m).rsp = inst[h].rsp
          /\ ClientClosed(inst[h]).cli = "closed"
      BY <2>1 DEF Instance, ServerClosed, MessageRead, ClientOpened, ClientWritten, ClientClosed
    <2>3. ~Start
      <3>1. ASSUME NEW g \in Handle, CreatePipe(g) PROVE FALSE
        BY <1>1, <2>1, <3>1 DEF CreatePipe, FreshInstance, NoInstance
      <3>2. ~ClientMissed
        BY <1>1, <2>1, <2>2 DEF ClientMissed
      <3>3. ~CreateFails /\ ~ClientArrives /\ ~RegisterClient /\ ~SpawnWorker
        BY <1>1 DEF CreateFails, ClientArrives, RegisterClient, RegisterAs, SpawnWorker
      <3> QED BY <3>1, <3>2, <3>3 DEF Start
    <2>4. ASSUME NEW c, Close(c) PROVE FALSE
      BY <1>1, <2>1, <2>4 DEF Close, CloseUnlessNull, FlushReturns
    <2>5. ~Destroy
      BY <1>1, <2>4 DEF Destroy, StoreClosed, MovePipes, NextPipe, LockPipe, LockPipeWhen,
             ClosePipe,
           AllPipesClosed, JoinThreads
    <2>6. ASSUME NEW c \in ClientId, HandleClientConnection(c) PROVE FALSE
      <3>1. ~ReadRequest(c)
        BY <1>1, <2>1, <2>2 DEF ReadRequest, ReadRequestElse
      <3>2. ~CloseOwnPipe(c)
        BY <2>4 DEF CloseOwnPipe, CloseOwnPipeThen
      <3>3. ~SendResponse(c)
        <4>1. \A r \in Response : ResponseWritten(inst[h], r).rsp # <<>>
          BY <2>1, AppendProperties DEF ResponseWritten, Instance
        <4> QED BY <1>1, <2>1, <4>1 DEF SendResponse
      <3>4. ~FindPipe(c) /\ ~CheckClosed(c) /\ ~LockOwnPipe(c) /\ ~ReadFailed(c) /\ ~SendFailed(c)
        BY <1>1 DEF FindPipe, CheckClosed, LockOwnPipe, LockOwnPipeWhen, ReadFailed, SendFailed
      <3> QED BY <2>6, <3>1, <3>2, <3>3, <3>4 DEF HandleClientConnection
    <2>7. ASSUME NEW g \in Handle, Client(g) PROVE ClientRead(h)
      <3>1. ~ClientOpen(g)
        BY <1>1, <2>1, <2>2 DEF ClientOpen
      <3>2. ~ClientWrite(g)
        BY <1>1, <2>1, <2>2 DEF ClientWrite
      <3>3. ~ClientClose(g)
        BY <1>1, <2>1, <2>2 DEF ClientClose
      <3>4. ASSUME ClientRead(g) PROVE g = h
        BY <1>1, <2>1, <3>4 DEF ClientRead
      <3> QED BY <2>7, <3>1, <3>2, <3>3, <3>4 DEF Client
    <2>8. ~Terminated
      BY <1>1 DEF Terminated, vars
    <2> QED BY <1>1, <2>3, <2>5, <2>6, <2>7, <2>8 DEF Next
  <1>2. TypeInv /\ [Next]_vars =>
          [\A h \in Handle :
             /\ inst[h].cli = "open" /\ inst'[h].cli = "open"
             /\ inst[h].rsp # <<>>   /\ inst'[h].rsp = <<>>
             => ClientRead(h)]_vars
    BY <1>1
  <1>3. Init => TypeInv
    BY InitTypes
  <1> QED BY <1>2, <1>3, TypeInvStep, PTL DEF Spec, ResponsesSurvive
=============================================================================
