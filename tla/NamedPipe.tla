------------------------------ MODULE NamedPipe ------------------------------
(***************************************************************************)
(* The Windows named pipe, as the client and the server use it.  It is not *)
(* code of the repository: every operator here says what a call in         *)
(* server/Server.cpp, server/PipeInstance.cpp or client/Pipe.cpp can       *)
(* return, and is marked external in the project's map.                    *)
(*                                                                         *)
(* One pipe instance joins one server handle to at most one client handle. *)
(* The server end reads whole messages (PIPE_READMODE_MESSAGE).  The client *)
(* end is opened by CreateFile and never switched to message mode, so one  *)
(* of its reads returns every byte that is there.                          *)
(***************************************************************************)
EXTENDS Naturals, Sequences

CONSTANTS
  Request,       \* what a client can write
  Response,      \* what the server can write
  PipeCapacity   \* how many messages one direction buffers (kBuffSize bytes)

ASSUME PipeCapacityAssumption == PipeCapacity \in Nat \ {0}

ServerEnd == {"none", "open", "disconnected", "closed"}
ClientEnd == {"none", "open", "closed"}

\* The state of one pipe instance: its two ends and the unread messages.
Instance ==
  [srv : ServerEnd, cli : ClientEnd, req : Seq(Request), rsp : Seq(Response)]

NoInstance    == [srv |-> "none", cli |-> "none", req |-> <<>>, rsp |-> <<>>]

\* CreateNamedPipe: an instance that listens for a client.
FreshInstance == [NoInstance EXCEPT !.srv = "open"]

Connected(p) == p.srv = "open" /\ p.cli = "open"

-----------------------------------------------------------------------------
(* The server end. *)

\* ConnectNamedPipe succeeds, or fails with ERROR_PIPE_CONNECTED, once a
\* client has opened the instance, be that client still there or not.
ConnectReturnsClient(p) == p.cli # "none"

\* ConnectNamedPipe fails with ERROR_NO_DATA: the client has already closed.
ConnectFails(p) == p.cli = "closed"

\* ReadFile blocks until one of these holds.  What a client wrote before it
\* closed its end can still be read.
ReadReturnsMessage(p) == p.srv = "open" /\ p.req # <<>>
MessageRead(p)        == [p EXCEPT !.req = Tail(@)]
ReadFails(p)          == p.srv # "open" \/ (p.cli = "closed" /\ p.req = <<>>)

\* WriteFile blocks while the client has not read PipeCapacity messages.
WriteReturns(p) == Connected(p) /\ Len(p.rsp) < PipeCapacity
ResponseWritten(p, r) == [p EXCEPT !.rsp = Append(@, r)]
WriteFails(p)   == p.srv # "open" \/ p.cli = "closed"

\* FlushFileBuffers blocks until the client has read everything or has closed.
FlushReturns(p) == p.cli # "open" \/ p.rsp = <<>>

\* DisconnectNamedPipe drops what is unread; CloseHandle follows it.
Disconnected(p) == [p EXCEPT !.srv = "disconnected", !.req = <<>>, !.rsp = <<>>]

\* CloseHandle on the server end without DisconnectNamedPipe: the responses are
\* still there to be read.
ServerClosed(p) == [p EXCEPT !.srv = "closed", !.req = <<>>]

-----------------------------------------------------------------------------
(* The client end. *)

\* CreateFile opens a listening instance; with none it fails.
Listening(p)    == p.srv = "open" /\ p.cli = "none"
ClientOpened(p) == [p EXCEPT !.cli = "open"]

\* CloseHandle on the client end: unread responses are dropped.
ClientClosed(p) == [p EXCEPT !.cli = "closed", !.rsp = <<>>]

ClientCanWrite(p)     == Connected(p) /\ Len(p.req) < PipeCapacity
ClientWritten(p, m)   == [p EXCEPT !.req = Append(@, m)]

\* A read of the client end returns all there is (byte-read mode), also what
\* the server wrote before it closed its end.
ClientReadReturns(p)  == p.cli = "open" /\ p.rsp # <<>>
ClientDrained(p)      == [p EXCEPT !.rsp = <<>>]
ClientReadFails(p)    == p.srv # "open" /\ p.rsp = <<>>

\* WriteFile of the client end fails when the server end has gone: with
\* ERROR_NO_DATA if it was closed, with ERROR_PIPE_NOT_CONNECTED if it was
\* disconnected.
ClientWriteFails(p) == p.srv # "open"
PipeIsBeingClosed(p) == p.srv = "closed"
=============================================================================
