# A TLA+ model of NamedPipeDemo

NamedPipeDemo is a client and a server for Windows that talk over one named
pipe. This directory holds TLA+ modules that model the two processes, each in
detail and then both together, and the messages between them; TLC
configurations that check them on small instances; and proofs that the safety
properties of the server, of the client, of both together and of the messages
hold for any number of clients, requests and connections and for every value.

- [1. The system](#1-the-system)
- [2. Modules](#2-modules)
- [3. The server](#3-the-server)
- [4. The client](#4-the-client)
- [5. Clients, server and objects together](#5-clients-server-and-objects-together)
- [6. Messages](#6-messages)
- [7. Runs](#7-runs)
- [8. Where the code and its documentation disagree](#8-where-the-code-and-its-documentation-disagree)
- [9. Proofs](#9-proofs)
- [10. Not modelled, and the plan](#10-not-modelled-and-the-plan)

To check a run: `tlc -config MCServer.cfg MCServer.tla`. To check the proofs:
`tlapm ServerProofs.tla`, and so for `ClientProofs`, `ClientReadProofs`,
`SystemProofs`, `CodecProofs` and `MessagesProofs`.

## 1. The system

    client process                              server process
    ------------------------------              -------------------------------
    DemoSimulator (IDataSource)                 main: Server::Start(), ~Server()
        | ClientRequest                             | CreateNamedPipe, threads_
        v                                           v
    Client::Start()  -- RegisterRequest -->     worker: HandleClientConnection
        |             ResponseParser                | PipeInstance (handle, mutex)
        v                 ^     |                   v
    Pipe (sync or     pool|     v success_cb_   RequestParser
    overlapped I/O) --threads ClassRepository       | CustomClassParser
        |                                           v
        +------------- named pipe --------------  ClassRegistry -> CustomClass

| Component | State | Operations | What makes it correct |
|---|---|---|---|
| Named pipe (Windows) | two ends, unread messages | create, connect, read, write, flush, disconnect, close | given; modelled from its use |
| `Server` | `threads_`, `pipes_`, `client_ids_counter_`, `is_closed_` | `Start`, `HandleClientConnection`, `SendResponseToClient`, `~Server` | every client has a thread; the destructor touches no pipe in use, and ends |
| `PipeInstance` | `pipe_handle`, `mutex` | `Close` | a handle is closed once, and nobody uses it later |
| `Client` | `pipe_`, `request_id_counter_` | `Start`, `ExecuteRequestSync`, `ExecuteRequestAsync`, `ConnectToPipe` | answers meet their requests; the loop ends |
| `Pipe` | `pipe_handle_`, the state of each overlapped call | `Connect`, `Send…`, `Read…`, `DisconnectFromServer` | each answer has a read posted for it |
| `ResponseParser` | `requests_` | `RegisterRequest`, `ParseResponse` | a response removes its own request and no other |
| `ClassRepository` | `handles_` | `RegisterClassHandle`, `GetAllHandles` | handles are unique; access is synchronized |
| `DemoSimulator` | `mode_`, `curr_iteration_` | `IsGood`, `ReadRequest` | a request about an object names a known handle; the source ends |
| `RequestParser`, `CustomClassParser` | none | `Parse` | each request goes to one parser; the answer carries its id |
| `ClassRegistry`, `CustomClass` | objects by handle | create, call, print | a handle names the object it was given for |
| `DataSerializer`, `DataDeserializer` | none | one pair per type | a round trip gives the value back; no read past the end |
| `Logger` | a mutex | two writes | lines are not torn |

What is hard here:

- **Concurrency in the server.** A worker keeps its own copy of the handle,
  beside the one in `PipeInstance`; it tests `is_closed_` before it takes the
  mutex; the destructor closes instances under the same mutex and moves
  `pipes_` away under `pipes_mutex_`.
- **Reused handle values.** After `CloseHandle`, Windows may give the value to
  the next client's pipe. A copy that outlives the close then names somebody
  else's pipe.
- **Blocking calls.** A worker blocks in `ReadFile` or `WriteFile` with its
  mutex held, and `Close()` blocks in `FlushFileBuffers` on an idle client.
- **Callbacks in the async client.** Write and read completions run on pool
  threads in any order, beside main, which may have reconnected meanwhile.
- **Failures.** Either process may end or close the pipe at any point; some
  failures are retried and some are not.
- **Restarts.** The registry of objects is lost with the server process and its
  handles start again at zero, while a client that reconnects keeps its own.
- **Unlocked objects.** `ClassRegistry` has a mutex, `CustomClass` has none.
- **Untyped messages.** A request or response is bytes; each reader tries one
  type after the other, with length tests that leave out the tag.

`PROJECT.json` lists each hazard at its line, with the properties that guard
against it.

## 2. Modules

| Module | What it is |
|---|---|
| `NamedPipe` | What the pipe calls can return; operators on a record, no variables. External: it is Windows, seen through its use. |
| `Server` | The whole server process without the meaning of requests; extends `NamedPipe`. |
| `MCServer` | `Server` for TLC: the symmetry of handle values. |
| `ServerProofs` | Theorems about `Server` and their proofs. |
| `Client` | The whole client process without the encoding of messages, and a server as its environment; instantiates `NamedPipe` with its messages. |
| `MCClient` | `Client` for TLC: the list of demos. |
| `ClientProofs` | Theorems about `Client`: types, requests and answers, handles. |
| `ClientReadProofs` | Theorems about `Client`: reads and answers to come; the sync client. Extends `ClientProofs`. |
| `Dispatch` | What a worker does with a parsed request: the registry, the objects, the response. |
| `Session` | Abstract: what a sync client may rely on, whatever becomes of the server. |
| `System` | Several sync clients, their workers (extends `Dispatch`), and a server process that ends and starts again. Implements `Session`. |
| `MCSystem` | `System` for TLC. |
| `SystemProofs` | Theorems about `System`, the refinement of `Session` among them. |
| `Codec` | The serializer and the parser of each type, as functions on bytes. |
| `CodecProofs` | What each parser finds where its serializer has written. |
| `Messages` | One request and its response on the wire, from the demo to its callback; extends `Codec`. |
| `MCMessages` | `Messages` for TLC: the requests, and short strings that look like tags. |
| `MessagesProofs` | Theorems about `Messages`; extends `CodecProofs`. |

Some actions are built from a helper with a parameter (`CloseUnlessNull`,
`RegisterAs`, `RegisterIf`, ...). Next to such an action stands a *variant* of
it with a plausible mistake in it. No specification uses a variant; `PROJECT.json`
pairs each property with the variant that breaks it, so that a property which
could not fail would show.

### NamedPipe

One instance is a record of its two ends and the unread messages in each
direction. Three facts matter to the code:

- The server end is in message mode, so `ReadFile` returns one request. The
  client end is opened by `CreateFile` and never switched to message mode:
  one read returns all the bytes that wait, hence several responses.
- `DisconnectNamedPipe` drops what is unread. `FlushFileBuffers` waits until
  the client has read.
- The client's `WriteFile` fails with `ERROR_NO_DATA` when the server has
  closed its handle and with `ERROR_PIPE_NOT_CONNECTED` when the server has
  disconnected first. `Client::Start` treats the two differently.

## 3. The server

A step of `Server` runs up to the next point where the thread may block or
another could notice. Critical sections of `pipes_mutex_` do not block and are
one step each.

| Code | Actions |
|---|---|
| `Server::Start` (48-95) | `CreatePipe`, `CreateFails`, `ClientArrives`, `ClientMissed`, `RegisterClient`, `SpawnWorker` |
| `~Server` (24-46) | `StoreClosed`, `MovePipes`, `NextPipe`, `LockPipe`, `ClosePipe`, `AllPipesClosed`, `JoinThreads` |
| `HandleClientConnection` (97-157) | `FindPipe`, `CheckClosed`, `LockOwnPipe`, `ReadRequest`, `ReadFailed`, `CloseOwnPipe`, `SendResponse`, `SendFailed` |
| `PipeInstance::Close` | `Close`, a part of `ClosePipe` and `CloseOwnPipe` |
| any client program | `ClientOpen`, `ClientWrite`, `ClientRead`, `ClientClose` |

`mpc` and `wpc` say where main and each worker are. `mutex[c]` is the owner of
`PipeInstance::mutex`. `arg[c]` is the worker's copy of the handle and
`pipe_handle[c]` the member of its instance. Pipes live in `inst`, by handle
value, and `CreatePipe` takes any value whose server end is not open: with two
values and three clients, values are reused.

What a request means is abstract: it is answered, or not, or too long for
`kBuffSize` (then `ReadFile` fails with `ERROR_MORE_DATA`, which the code
treats like every other failure, and like a read of no bytes). `Start()` returns when `CreateNamedPipe`
fails, after which main destroys the server. `Close()` gives up when a call it
makes fails; the model lets that happen when the client has gone.

Properties, each at the hazard it is about:

- `NoNullPipe`: `pipes_[client_id]` gives a null pointer once the destructor
  has moved the map; the store to `is_closed_` before the move is what keeps
  workers from using it.
- `NoDanglingHandle`, `HandleExclusive`: no instance keeps a closed handle and
  no two running threads use one handle value.
- `CloseExcludesIO`: the destructor closes no instance whose worker is in its
  locked section; a response goes to the pipe its request came from.
- `NoOrphanedClient`: while the server runs, a connected client has a thread.
- `ResponsesSurvive` (of steps): a response leaves the pipe only by being read
  while its client is there.
- `ShutdownCompletes`, `PipeDrains` (liveness): below.

Fairness. `FairSpec` assumes that main and each worker are scheduled (weak
fairness; they are threads of the operating system), and that `CreateNamedPipe`
does not have to fail (so `CreateFails` is excluded from main's fairness).
Nothing is assumed of a client: it need not write, read or leave. `PipeDrains`
is checked under it: a request is taken from its pipe, unless the server is
being destroyed or the client itself leaves its answers unread. Whatever the
*other* clients do, their workers may be stuck in `ReadFile` or in `WriteFile`
with their mutexes held, and block nobody else; with one mutex for all
instances (`LockAnyPipe`) they would.

`ShutdownCompletes` has a premise instead: no client stops sending
(`NoIdleClient`) or reading (`NoDeafClient`) for ever without leaving. The
destructor waits for a mutex whose holder may be blocked in `ReadFile` or in
`WriteFile`, so one such client delays the shutdown for ever. The premise is the
weakest we found that makes the shutdown end.

## 4. The client

`Client` has the main thread (`Start()`), the pool threads of the async
client, and the server as its environment. The sync client is the same module
with `ExecPolicy = "Sync"`.

| Code | Actions |
|---|---|
| `ConnectToPipe`, `Pipe::Connect`, `DisconnectFromServer` | `Connect`, `ConnectRetry`, `Reconnect`, `Destroy` |
| `Client::Start`, the loop | `EndOfData`, `RegisterRequest`, `SendFails` |
| `DemoSimulator` | `DemoIndices`, `ReadRequest`, `ReadNoDemo`, `CopyHandles` |
| `ExecuteRequestSync` | `SendSync`, `ReadSync`, `ReadSyncFails`, `ParsedSync` |
| `ExecuteRequestAsync` and the callbacks of `Pipe` | `SendAsync`, `WriteCompletes`, `WriteAborted`, `PostRead` |
| `ParseResponse`, `RegisterClassHandle` | `ParseResponse`, `PushHandle` |
| the server | `ServerListens`, `Serve`, `ServerRejects`, `ServerCloses` |

A request is its id and one of four kinds, by what the eleven demos do: `plain`
(numbers and strings, no answer), `create` (answered with a handle), `print`
(about an object, no answer awaited) and `call` (about an object, answered).
`Demos` lists the kinds in the order of the demos. `mode` is the mode the user
has chosen: the next demo is given by `curr_iteration`, drawn, or typed, where an
input that names no demo counts as an iteration. A demo about an object finds
`handles_` empty or draws one; only in the second case does it count.
`inst` is indexed by connection, so that an overlapped call of an old
connection stays apart from those of the new one. A request's write callback
posts a read on the pipe the client has *then* (`PostRead`), which can be
another pipe than the one written to.

`requests_mutex_` is held by the thread whose entry in `parsing` has left
"start"; `RegisterRequest` and `ParseResponse` wait for it. The two sections
of `RegisterClassHandle`, look-up and append, are two steps.

Properties: `ResponseMatched` (a request is registered before it is sent, so
its answer finds it), `SyncAnswers` (the sync client reads the answer to the
request it has just sent, and one at a time), `HandlesUnique` (`handles_` has
no duplicates although look-up and append are two locked sections: the caller's
mutex spans both), `ReadsSuffice` (every answer to come has a read, posted or
to be posted), `OneAnswerOneRequest` (of steps) and `StartReturns` (liveness).

Fairness. Threads are scheduled (`Start`, `Callback`), the user types, and the
server answers what it reads (`Serve`, which is what a server process does
unless it ends). The strong fairness says that demos which need no object are
drawn or typed again and again; it is there for the random and the manual mode.
In the step-by-step mode it has no effect: the demo is a function of
`curr_iteration`, and an iteration that does not count leads back to the same
demo. `StartReturns` therefore has the second disjunct, `NoObjectToCall` for
ever, and `StepByStepRunsAll` (section 8) shows the case. Nothing is assumed of
`ServerListens` and `ServerCloses`: the server may go away and stay away.

An attempt to connect is one pass of `ConnectToPipe`. The loop inside
`Pipe::Connect` (123-161) goes round once more, uncounted, when `WaitNamedPipe`
has seen an instance and another client takes it first. Such a round changes
nothing and is a stuttering step of the model; that it does not happen for ever
is part of the fairness of `Start`.

The sync client is checked without rejected requests. With them it waits for
ever, as the repository's README (line 100) says it might; section 5 says when.

`Pipe::ReadDataFromServerAsync` reads `pipe_handle_` without synchronization
while main may reconnect. What the read can find is the old handle, which is
closed, none, or the new one: the three disjuncts of `PostRead`. The second read
of the member (line 337) only records the handle, and `GetOverlappedResult`
waits for the event of the call, not for the handle.

## 5. Clients, server and objects together

`Dispatch` has the registry (`handle_counter`, `instances`) and for each client
a worker: `stage` says where it is, `command` is the request it serves and
`answer` its `ServerResponse`.

| Code | Actions |
|---|---|
| `RequestParser::ParseRequest`, `CustomClassParser::Parse` | `ParseRequest`, `Execute` |
| `ClassRegistry` | `Create`, `GetClassObjectByHandle` |
| `CustomClass` | `PrintToCout`, `Get`, `Compare`, `Store` |
| the rest of the worker's loop | `Finish` |

Each critical section of the registry is one step. A setter is two, a comparison
and a store, both unlocked; while one worker is at its store, whatever another
reads of the same object, or both leave behind, is any value (`Racing`): a data
race. The two attributes of an object are one value here.

`System` adds the pipes, the sync clients and the server process. `ServerDies`
is a process that ends at any moment. `~Server()` goes step by step:
`StoreClosed` stores `is_closed_`, moves `pipes_` and comes to a first instance;
`ClosePipe` closes it once its mutex is free and what was written has been read,
and goes on to the next, in any order (`NextOf`); `ServerDestroyed` joins the
threads. Meanwhile
each worker goes on: it returns at its next test of `is_closed_`
(`WorkerTests`), with its pipe open, and from a test that lets it go on to the
next one it holds its mutex, at "idle" blocked in `ReadFile`. (What happens
between the test and the lock is in module `Server`, and in
`NoReadAfterClose`.) The end of the process loses the registry. `ServerStarts`
is a new process. A client is more abstract than in
`Client`: taking the next request and sending it is one step, a connection has
its worker at once, and the waits and retries of `ConnectToPipe` are the choice
between `Connect` and `GiveUp`. A write of the worker cannot fail while the
server runs, since a sync client that is answered is waiting; module `Server`
has the other case. The handles of a client are stored with the `run` of the
server that gave them. The code has no such thing: only the properties read it.

Properties:

- `HandlesAgree`: a handle a client holds from this run names an object of this
  run, and no other client holds it.
- `RaceNeedsStaleHandle`: two workers meet on an object only if a client uses a
  handle it did not get from this run of the server. Without a restart, the
  missing mutex of `CustomClass` does no harm: each object has one client, and a
  sync client one request at a time. With restarts TLC does reach races.
- `SessionSpec`: `System` implements `Session`. Requests are executed in order
  and at most once, across reconnections; a client is only ever given the
  result of executing the request it issued last; no two creations of one
  process return one handle. Requests may be lost: one whose write failed is
  not sent again (Client.cpp 76-82). The refinement mapping is `issued <- sent`
  and `given <- DOMAIN instances`; `executed` and `delivered` are history
  variables of `System`.
- `WaitsEnd` (liveness): a client that waits for an answer stops waiting, except
  in two cases. It asked for an object it was not given by this run: the hang
  of the repository's README (line 100); an object that happens to exist under
  the stale handle is answered, with another client's data. Or it is left in
  the shutdown (`LeftInShutdown`): its worker has returned on `is_closed_`, its
  pipe is still open, and the destructor is stuck for good at the mutex of
  another client's worker, which is in `ReadFile` as that client sends nothing.
  TLC finds this case when the exception is left out.

Fairness: the workers and the destructor are scheduled, and a client whose read
comes back goes on. Nothing makes a client send, leave or connect, and the server
need not end and need not be started.

## 6. Messages

`Codec` gives each type its serializer and its parser. The length tests of the
parsers count the value and not its tag, so that they accept data that is one
byte short, and the tag is compared before any test. What lies past the end is
undefined; it is the variable `garbage`, in the run any byte out of those that
matter to the parsers, in the proofs anything. A negative length is a case of its
own: `idx + p.second` wraps, the sum is too large unless the length is at most
`idx`, and what passes makes `std::string` throw (`Thrown`), which nobody
catches.

`Messages` follows one request: `WriteRequest`, `ReadRequest` (all of
`RequestParser` and `CustomClassParser`, in the order in which they try the
types), `WriteResponse`, then `ReadResponse` and, when the response is longer than
the client's buffer, `ReadRest` for each further part: the client end is in byte
mode, a read returns at most `kBufSize` bytes, and each part goes to
`ParseResponse` (`ReadPart`). What comes of a part is the value of a callback, a
handle that is registered (`Instance`), the end of the client (`Exception`) or
nothing (`None`). The rest is followed here until the pipe is empty; that the
response to the next request is already behind it, and joins its last part, is
left out.

- `TypeOK` says that the wire carries bytes: no int is wider than its four.
- `RequestUnderstood`: the server takes each request for what it was meant to
  be, argument by argument, whatever lies past the end.
- `ResponseUnderstood`: the id and the value arrive in the type the demo's
  callback casts to, and `CustomClass::Deserialize` gives the object back.
- `CutResponsesInert`: the first part of a cut response has no value, so its
  request is never answered. What comes of a further part depends on the bytes
  of the string at the very place of the cut. It is given to a callback only
  if it begins with `#r`, the keyword of an id; registers a handle only if it
  begins with `#s`, how a class begins; and ends the client only if it begins
  with one of these or with `si`, how a string begins. All else does nothing.
  The run has strings for each case, among them a response to a known request
  that ends one byte short, and a length that is negative only by what lies
  past the end. No demo makes a string that long; a user may. Whatever its
  parts do, the sync client is as many reads behind.

`MessagesAssumption` says which requests there are: the demos' and the user's,
with strings whose length an int can hold, and an object that fits into one such
string when it is retrieved. The code relies on it silently.

Two details. `Parse<bool>` leaves the index on the digit, so it is not the
inverse of its serializer inside a longer message; nothing follows a bool
today. `ParseCustomClassResponse` starts at index 0, where the id is, and so
never succeeds on a whole response, only on a part of a cut one.

## 7. Runs

| Run | What it asks | Bounds |
|---|---|---|
| `server_safety` | the six invariants and `ResponsesSurvive`, all interleavings | 3 clients, 2 handle values, 1 message per direction |
| `server_liveness` | `PipeDrains`, `ShutdownCompletes`, with clients that need neither read nor send | 2 clients, 2 handle values |
| `client_sync` | `SyncAnswers`, `StartReturns`, in each mode; the server closes pipes at will | a demo of each kind, 4 iterations, 2 connections, 2 attempts |
| `client_async` | the safety of the callbacks; pipes closed, requests rejected | 3 iterations, 2 connections |
| `system` | the properties of section 5: safety, the refinement of `Session`, `WaitsEnd` | 2 clients with 3 and 2 requests, 2 server processes |
| `messages` | the properties of section 6 | all demos, extreme ints, 13 strings, a buffer of 30 bytes |
| `server_read_after_close`, `server_failed_client`, `client_coalesced_responses`, `client_reconnect`, `client_handles_race`, `client_step_by_step` | section 8 | as small as shows the case |

Why the bounds are enough to be of use:

- *Clients and handle values.* Two workers and main already meet on one handle
  value; the third client makes a value be reused while an older worker has not
  returned. With as many values as clients none would be reused.
- *One message per direction* makes writers block at once; more only delays
  it. Two responses in one pipe need two, which `client_coalesced_responses` has.
- *Requests.* An async client with three requests has up to three callbacks
  in flight, of which two can belong to the old connection and one to the new.
  Handles need two `create` requests and two values to be told apart or equal.
- *Connections.* Two give one reconnection. `MaxRetries` (100 in the code) only
  ends the loop; two passes through it visit every branch.

- *System.* A client needs three requests to create an object, lose a request
  to the end of the server, and use its old handle; the other two, to create an
  object and use it at that moment. That is where objects race. Either may
  fall silent before, between or after, while the server is being destroyed.
- *Messages.* The buffer (4096 in the code) is scaled to 30 bytes: strings of 18
  and more are cut, those of 48 twice, and an object with a short string still
  arrives whole. It is large enough that, as in the code, an answer that is a
  bool or an int is never cut. A cut can then fall in the bytes of a string
  only, as it does with the real sizes.

The bounds are the constants `MaxClients` (`CreatePipe`), `Iterations`
(`EndOfData` and the reads; 512 in the code), `MaxConns` (`ServerListens`, through
the set `Conn`), `MaxRetries` (`ConnectRetry`), `MaxRequests` (`Issue`), `MaxRuns`
(`ServerStarts`) and `PipeCapacity` (the writes). Safety
runs of the server and the async client use symmetry, of handle values that
are only compared; the runs with liveness do not.

## 8. Where the code and its documentation disagree

Each of these is a run that TLC ends with a counterexample.

- `NoReadAfterClose` (Server.cpp 36: "we need to guarantee the thread-safe
  access to the pipe instance"). A worker finds `is_closed_` false, the
  destructor stores it and closes the instance, and the worker takes the mutex
  and calls `ReadFile` on its copy of the closed handle. The damage is limited,
  as the proved invariants show: the read fails, the worker closes nothing and
  returns, and no other client has that value, since nobody creates pipes by
  then. (Other handles of the process are outside the model.)
- `FailedClientIsClosed` (Server.cpp 148: "closing the client!"). After a
  failed write the worker returns and closes nothing.
- `AnsweredRequestsLeave` (README 90). Two responses that wait in the pipe are
  returned by one overlapped read; the first is parsed, the second is dropped,
  and its request stays in `requests_`.
- `ReconnectsWhenClosed` (README 95). `PipeInstance::Close` disconnects before
  it closes, so that the client's write fails with another error than the one
  `Start()` tests, and the client ends where it should reconnect.
- `StepByStepRunsAll` (DemoSimulator.cpp 397-399: "it will execute all demos from
  0 to 10 in sequantual mode"). When the three creations have not been answered,
  `curr_iteration_` stays at demo 6, which needs an object, and `Start()` asks
  for it for ever: no later demo runs, and no creation either.
- `HandlesReadLocked` (ClassRepository.h 19-21). `GetAllHandles` copies
  `handles_` without the mutex while a pool thread appends to it.

## 9. Proofs

`ServerProofs` proves, for every number of clients, every set of handle values
and every pipe capacity, the type invariant (`Typing`) and the safety
properties that `server_safety` checks: `NullPipeSafety`, `HandleSafety`,
`HandleExclusion`, `LockSafety`, `ClientsServed` and `ResponseSafety`. They
rest on the two assumptions `ServerAssumption` and `PipeCapacityAssumption`,
which TLC evaluates in each run of the server.

None of the properties is inductive. `IInv` adds what the code maintains
silently:

- `MainPhase` (with the types): `cur` and `closing` have a value exactly where
  main uses them.
- `ClosedFlag`: `is_closed_` is stored before `pipes_` is moved, so that a null
  pointer from `pipes_[...]` implies the flag (`NoNullPipe`).
- `FreshIds`: ids at and above `client_ids_counter_` have no pipe and no
  worker; otherwise `SpawnWorker` might start a worker twice.
- `PipesHeld`: a worker's id is in `pipes_` until the destructor moves it.
- `CurFresh`: the pipe main is giving away is open and in no instance; this is
  what makes `NoDanglingHandle` survive a reused value.
- `ArgAgrees`: the copy of the handle equals the member, unless the destructor
  has closed the instance, when nothing is created any more. This is the heart
  of `HandleExclusive`.
- `MutexHeld`: the mutex is the worker's exactly in its locked section and
  main's exactly while it closes that instance; with it `CloseExcludesIO`
  follows, and `WritesOwn` is preserved.
- `OneListener`: only the pipe main waits on can be opened by a client, so
  that `NoOrphanedClient` survives `ClientOpen`.

`MCServer` was used to find this invariant: it holds in every reachable state
of `server_safety`'s instance. The proof has one lemma per action, with a step
for each group of conjuncts the action can disturb. `CloseEffect` says what
`PipeInstance::Close` may change, and `ClientFrame` that a client changes
nothing but its own end. `ResponseSafety` is a property of steps: an action
that empties the responses of a pipe whose client stays is that client's read; of
the others, `Close` has flushed first and `CreatePipe` starts a pipe that has no
client yet. It needs the types only.

### The client

`ClientProofs` and `ClientReadProofs` prove, for every list of demos, set of
handles, number of iterations, connections and attempts, capacity of the pipe,
set of faults and both policies, everything the two client runs check except
`StartReturns`. They assume `ClientAssumption`, which is the types of the
constants, and `PipeCapacityAssumption`.

- `ResponsesMatch`, `AnswersTakeOne`. The invariant `MatchInv` says where the id
  of a request is on its way: in one pipe, one direction and one place of it, or
  with one thread that parses it (`OnePlace`); that an id in `requests_` is there
  once and has been counted (`Registered`); and that a request in a pipe whose
  answer is awaited is in `requests_`, and so is the request of each answer
  (`Answered`). Without the first, a second copy of an answer would find its
  request gone; without the last, an answer could come before the registration,
  as it would had the code sent first.
- `HandlesStoredOnce`. `HandlesUnique` alone is not inductive: between look-up
  and append another thread might append the same handle. `HandlesInv` adds that
  at most one thread is at its append, which follows from the caller's mutex,
  and that its handle is not stored yet.
- `EnoughReads`. The number of answers to come on the open connection is compared
  with the reads posted on it and those the callbacks of its writes will post.
  The invariant is `CoreInv`, `ReadsSuffice` itself and `WriteIds`, that a write
  under way is of a request already counted: a new write is then one more member
  of the set, and what it will be answered with is covered.
- `SyncReadsItsAnswer`. `SyncInv`: outside `ExecuteRequestSync` a sync client
  has nothing in flight that is answered; inside, one request or its answer.

### Clients, server and objects together

`SystemProofs` proves all safety of `System`, for every set of clients, number
of requests of each, number of server processes, set of values and capacity of
the pipes (`SystemAssumption`, `DispatchAssumption`, `PipeCapacityAssumption`).
Its invariant has five parts for each client and two for all of them:

- `MainInv`: the destructor has instances to close only with `is_closed_`
  stored.
- `Connection`: an open server end belongs to this server process, and a worker
  to an open server end, except one that is about to test `is_closed_` and finds
  it stored.
- `Worker`, `Requested`: what a worker serves is newer than what it has
  executed, what is in the pipe is newer still and in order, and a request that
  is awaited is the last one issued. This makes "in order and at most once"
  inductive across reconnections, when a request of the old connection may be
  lost but none can come back.
- `Answered`: the answer in a pipe is the last execution, of the last request.
- `Serves`: each place of a worker belongs to some commands.
- `HeldInv`: the handles a client has been given in this run *or is about to be
  given*, in its worker's answer or in its pipe, are objects of this run, and no
  other client's. `HandlesAgree` alone is not inductive: a handle would be
  unaccounted for between its creation and its arrival.

`RepositoriesAgree` and `RacesAreStale` follow from it. `Refinement` is step by
step: `Send` and `SendFails` issue, the worker's creation, look-up that finds
nothing, call and store (and the execution of a plain value) execute, `ReadAnswer`
delivers, the end of the process clears `given`, and all else stutters. In
`Session`, `Answer` is instantiated with `Result`, the answers whose value is one
an object can hold: what `Execute` ranges over must be what the worker can
answer, and that is an invariant and not a matter of types only.

### Messages

`CodecProofs` says with `Holds(data, n, w)` that the bytes `w` stand in `data`
from `n` on, and proves for each type that its parser finds there what its
serializer wrote: `IntFound` (`Digits` is the arithmetic: an int is the sum of
its base-256 digits, the highest signed), `StringFound`, `DoubleFound`,
`BoolFound`. `IntRoundTrip` and `StringRoundTrip` are the same for a value
between any two others. Nothing is assumed of what lies past the end: behind a
value that is whole, no parser looks there.

`MessagesProofs` goes on to whole messages, under `MessagesAssumption`, for every
id, handle, value, class name and set of distinct method names. The parsers try
one type after the other, so the proof shows of each request that the first
byte at each place is no other type's tag (`FirstByte`, `Tags`) and where each
part starts: `PlainUnderstood`, `ClassFound`, `HandleFound`, `MethodFound`,
`CreateFound`, and `ClassUnderstood`, which puts them together. `AnswerUnderstood`
and `ObjectFound` are their like for responses. `CutRejected` is about the first
part of a cut one. For the others `PartTaken` says what any bytes must begin with
to have an effect, `Beginning` where these stand in the string, and `RestInert`
puts the two together. `Progress` is the invariant that carries
these over the steps: the wire has what was written, and the reader what was
meant.

The last property rests on `ids >= 0` in `MessagesAssumption`: a part without
an id is parsed with -1, which no request has.

### Not proved

Liveness is model-checked only, as it is out of the prover's reach:
`ShutdownCompletes`, `PipeDrains`, `StartReturns` and `WaitsEnd`. So are the
counterexamples of section 8, of course, which are about single instances.

## 10. Not modelled, and the plan

Left out for good:

- `Logger` (one mutex around one write) and the build files.
- The memory of the callback structures in `Pipe.cpp`: when the system stores a
  wait handle is not in the repository.
- The last error that `Client::Start` asks for after other calls (line 76): the
  models take the error of the write.
- Formatting: `PrintToString` answers with the object's string alone, and the
  bytes of a double are not looked into.
- An input of the user that `std::stoi` rejects with `out_of_range` ends the
  client, which `ClientClose` of `Server` covers from the server's side.
- The rest of a cut response joined with the next response in one read.
- `threads_`, `pipes_` and `requests_` grow without limit in the code: nothing it
  says bounds them, and the models bound clients and requests instead.

Every safety property of a run is now also proved. What the plan has left:

1. An abstract specification of the async client, as `Session` is one of the
   sync client, and its refinement by `Client`.
2. The same agreement between `Client` and the client half of `System`, which is
   so far argued in section 5 only.
