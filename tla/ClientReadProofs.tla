--------------------------- MODULE ClientReadProofs ---------------------------
(***************************************************************************)
(* Client, for every value of the constants: the reads of the async client *)
(* suffice for the answers to come, and the sync client reads the answer   *)
(* to the request it has sent.                                             *)
(***************************************************************************)
EXTENDS ClientProofs

-----------------------------------------------------------------------------
(* The reads of the async client suffice. *)

\* How many messages of a sequence are answered.
AwaitedIn(q) == {i \in DOMAIN q : Awaited(q[i].kind)}

\* A message that is appended counts itself if it is answered.
LEMMA AppendAwaited ==
  ASSUME NEW q \in Seq(Message), NEW m \in Message
  PROVE  /\ Cardinality(AwaitedIn(q)) \in Nat
         /\ Cardinality(AwaitedIn(Append(q, m))) \in Nat
         /\ Cardinality(AwaitedIn(Append(q, m))) =
              Cardinality(AwaitedIn(q)) + (IF Awaited(m.kind) THEN 1 ELSE 0)
  <1> DEFINE a == Append(q, m)
             n == Len(q)
             A == AwaitedIn(q)
  <1>1. /\ n \in Nat /\ DOMAIN q = 1 .. n /\ DOMAIN a = 1 .. (n + 1)
        /\ \A i \in 1 .. n : a[i] = q[i]
        /\ a[n + 1] = m
    BY AppendProperties, LenProperties
  <1> HIDE DEF a, n
  <1>2. A \subseteq 1 .. n
    BY <1>1 DEF AwaitedIn
  <1>3. IsFiniteSet(A) /\ n + 1 \notin A
    <2>1. IsFiniteSet(1 .. n)
      BY <1>1, FS_Interval
    <2> QED BY <1>1, <1>2, <2>1, FS_Subset
  <1>4. AwaitedIn(a) = IF Awaited(m.kind) THEN A \cup {n + 1} ELSE A
    BY <1>1 DEF AwaitedIn
  <1> HIDE DEF A
  <1>5. Cardinality(A) \in Nat /\ Cardinality(A \cup {n + 1}) = Cardinality(A) + 1
    BY <1>3, FS_AddElement, FS_CardinalityType
  <1> QED BY <1>4, <1>5 DEF a, A

\* A message that is taken no longer counts, and the others do.
LEMMA TailAwaited ==
  ASSUME NEW q \in Seq(Message), q # <<>>
  PROVE  /\ Cardinality(AwaitedIn(q)) \in Nat
         /\ Cardinality(AwaitedIn(Tail(q))) \in Nat
         /\ Cardinality(AwaitedIn(q)) =
              Cardinality(AwaitedIn(Tail(q))) + (IF Awaited(Head(q).kind) THEN 1 ELSE 0)
  <1> DEFINE a == Tail(q)
             h == Head(q)
             n == Len(q)
             A == AwaitedIn(q)
             B == AwaitedIn(a)
             C == A \ {1}
  <1>1. /\ n \in Nat /\ n # 0 /\ DOMAIN q = 1 .. n /\ DOMAIN a = 1 .. (n - 1)
        /\ \A i \in 1 .. (n - 1) : a[i] = q[i + 1]
        /\ h = q[1]
    BY HeadTailProperties, LenProperties, EmptySeq
  <1> HIDE DEF a, h, n
  <1>2. A \subseteq 1 .. n /\ (1 \in A <=> Awaited(h.kind))
        /\ B \subseteq 1 .. (n - 1) /\ C \subseteq 1 .. n
    BY <1>1 DEF AwaitedIn
  <1>3. \A i \in B : i \in Int /\ i + 1 \in C
    BY <1>1 DEF AwaitedIn
  <1>4. \A j \in C : j \in Int /\ j - 1 \in B
    BY <1>1 DEF AwaitedIn
  <1>5. IsFiniteSet(A) /\ IsFiniteSet(B) /\ IsFiniteSet(C)
    <2>1. IsFiniteSet(1 .. n) /\ IsFiniteSet(1 .. (n - 1))
      BY <1>1, FS_Interval
    <2>2. IsFiniteSet(A)
      BY <1>2, <2>1, FS_Subset
    <2>3. IsFiniteSet(B)
      BY <1>2, <2>1, FS_Subset
    <2> QED BY <1>2, <2>1, <2>2, <2>3, FS_Subset
  <1> HIDE DEF A, B, C
  <1>6. Cardinality(C) = Cardinality(B)
    <2> DEFINE f == [i \in B |-> i + 1]
    <2>1. f \in [B -> C]
      BY <1>3
    <2>2. \A i, j \in B : f[i] = f[j] => i = j
      BY <1>3
    <2>3. ASSUME NEW j \in C PROVE \E i \in B : f[i] = j
      <3>1. j \in Int /\ j - 1 \in B
        BY <1>4
      <3>2. f[j - 1] = (j - 1) + 1
        BY <3>1
      <3>3. f[j - 1] = j
        BY <3>1, <3>2
      <3> QED BY <3>1, <3>3
    <2> HIDE DEF f
    <2>4. f \in Bijection(B, C)
      BY <2>1, <2>2, <2>3, Fun_IsBij
    <2> QED BY <1>5, <2>4, FS_Bijection, Fun_ExistsBij
  <1>7. Cardinality(C) = IF 1 \in A THEN Cardinality(A) - 1 ELSE Cardinality(A)
    BY <1>5, FS_RemoveElement DEF C
  <1>8. Cardinality(A) \in Nat /\ Cardinality(B) \in Nat /\ Cardinality(C) \in Nat
    BY <1>5, FS_CardinalityType
  <1> QED BY <1>2, <1>6, <1>7, <1>8 DEF a, A, B, h

\* The writes to a connection whose callback will post a read.
Posting(k) == {w \in writes : w.wait /\ w.conn = k}

\* What is still to come on a connection, and what will read it.
Pending(k) == Cardinality(AwaitedIn(inst[k].req)) + Len(inst[k].rsp)
Readers(k) == reads[k] + Cardinality(Posting(k))

\* ReadsSuffice says that the readers are enough.
LEMMA ReadsSufficeMeans ==
  ReadsSuffice <=>
    (ExecPolicy = "Async" /\ pipe_handle # NullPipe /\ Connected(inst[pipe_handle])
       => Pending(pipe_handle) <= Readers(pipe_handle))
  <1>1. AwaitedIn(Pipe.req) = {i \in DOMAIN Pipe.req : Awaited(Pipe.req[i].kind)}
    BY DEF AwaitedIn
  <1>2. Posting(pipe_handle) = {w \in writes : w.wait /\ w.conn = pipe_handle}
    BY DEF Posting
  <1> QED BY <1>1, <1>2, Zenon DEF ReadsSuffice, Pending, Readers, Pipe

\* Nothing is answered in an empty direction.
LEMMA EmptyAwaited == Cardinality(AwaitedIn(<<>>)) = 0
  <1>1. AwaitedIn(<<>>) = {}
    BY DEF AwaitedIn
  <1> QED BY <1>1, FS_EmptySet, Zenon

\* The counts are numbers.
LEMMA ReadCounts ==
  ASSUME TypeInv, NEW k \in Conn
  PROVE  /\ Cardinality(AwaitedIn(inst[k].req)) \in Nat /\ Len(inst[k].rsp) \in Nat
         /\ IsFiniteSet(Posting(k)) /\ Cardinality(Posting(k)) \in Nat /\ reads[k] \in Nat
         /\ Pending(k) \in Nat /\ Readers(k) \in Nat
  <1>1. inst[k].req \in Seq(Message) /\ inst[k].rsp \in Seq(Reply) /\ reads[k] \in Nat
    BY ClientAssumption DEF TypeInv, TypeOK, Instance
  <1>2. IsFiniteSet(Posting(k))
    <2>1. Posting(k) \subseteq writes
      BY DEF Posting
    <2> QED BY <2>1, FS_Subset DEF TypeInv, ReadsBounded
  <1>3. Cardinality(AwaitedIn(inst[k].req)) \in Nat
    <2>1. Cardinality(AwaitedIn(<<>>)) = 0
      BY EmptyAwaited
    <2>2. CASE inst[k].req = <<>>
      BY <2>1, <2>2
    <2>3. CASE inst[k].req # <<>>
      BY <1>1, <2>3, TailAwaited
    <2> QED BY <2>2, <2>3
  <1>4. Len(inst[k].rsp) \in Nat
    BY <1>1, LenProperties
  <1>5. Cardinality(Posting(k)) \in Nat
    BY <1>2, FS_CardinalityType
  <1> QED BY <1>1, <1>2, <1>3, <1>4, <1>5 DEF Pending, Readers

\* A callback that has run posts no more reads.
LEMMA PostingRemoved ==
  ASSUME TypeInv, NEW w \in writes, writes' = writes \ {w}, NEW k \in Conn
  PROVE  Cardinality(Posting(k)') =
           Cardinality(Posting(k)) - (IF w.wait /\ w.conn = k THEN 1 ELSE 0)
  <1>1. Posting(k)' = IF w.wait /\ w.conn = k THEN Posting(k) \ {w} ELSE Posting(k)
    BY DEF Posting
  <1>2. IsFiniteSet(Posting(k)) /\ Cardinality(Posting(k)) \in Nat
    BY ReadCounts
  <1>3. CASE w.wait /\ w.conn = k
    <2>1. w \in Posting(k)
      BY <1>3 DEF Posting
    <2>2. Cardinality(Posting(k) \ {w}) = Cardinality(Posting(k)) - 1
      BY <1>2, <2>1, FS_RemoveElement
    <2> QED BY <1>1, <1>3, <2>2
  <1>4. CASE ~(w.wait /\ w.conn = k)
    BY <1>1, <1>2, <1>4
  <1> QED BY <1>3, <1>4

\* A request that is answered brings a callback that will post a read.
LEMMA PostingAdded ==
  ASSUME TypeInv, NEW w, w \notin writes, writes' = writes \cup {w}, NEW k \in Conn
  PROVE  Cardinality(Posting(k)') =
           Cardinality(Posting(k)) + (IF w.wait /\ w.conn = k THEN 1 ELSE 0)
  <1>1. Posting(k)' = IF w.wait /\ w.conn = k THEN Posting(k) \cup {w} ELSE Posting(k)
    BY DEF Posting
  <1>2. IsFiniteSet(Posting(k)) /\ Cardinality(Posting(k)) \in Nat /\ w \notin Posting(k)
    BY ReadCounts DEF Posting
  <1>3. Cardinality(Posting(k) \cup {w}) = Cardinality(Posting(k)) + 1
    BY <1>2, FS_AddElement
  <1> QED BY <1>1, <1>2, <1>3

\* A write is of a request that was sent.
WriteIds == \A w \in writes : w.id <= LastSent

\* Every step keeps it so.
LEMMA WriteIdsStep ==
  ASSUME CoreInv, WriteIds, [Next]_vars
  PROVE  WriteIds'
  <1>1. LastSent \in Int /\ request_id_counter \in Nat /\ \A w \in writes : w.id \in Int
    BY IdTypes, ClientAssumption DEF CoreInv, TypeInv, TypeOK, RequestId
  <1>2. CASE writes' \subseteq writes /\ LastSent' \in Int /\ LastSent <= LastSent'
    BY <1>1, <1>2 DEF WriteIds
  <1>3. CASE QuietStep
    BY <1>1, <1>2, <1>3, QuietStepEffect DEF CoreInv, poolVars, LastSent
  <1>4. CASE (\E k \in Conn : Connect(k)) \/ Reconnect \/ Destroy
    BY <1>1, <1>2, <1>4 DEF Connect, Reconnect, Destroy, LastSent, Goto, poolVars
  <1>5. CASE RegisterRequest \/ SendSync \/ ReadSync
    BY <1>1, <1>2, <1>5 DEF RegisterRequest, RegisterIf, SendSync, SendSyncThen, ReadSync, LastSent,
           Goto, poolVars
  <1>6. CASE SendAsync
    <2>1. /\ \A w \in writes' : w \in writes \/ w.id = request_id_counter
          /\ LastSent' = request_id_counter
      BY <1>6 DEF SendAsync, Goto, LastSent
    <2> QED BY <1>1, <2>1 DEF WriteIds, LastSent
  <1>7. CASE \E w \in writes : WriteCompletes(w) \/ WriteAborted(w)
    BY <1>1, <1>2, <1>7 DEF WriteCompletes, WriteCompletesPosting, WriteAborted, LastSent, mainVars
  <1>8. CASE \E t \in parsing : ParseResponse(t) \/ PushHandle(t)
    BY <1>1, <1>2, <1>8 DEF ParseResponse, PushHandle, ParseLocking, LastSent, mainVars
  <1>9. CASE \E k \in Conn : ServerListens(k) \/ Serve(k) \/ ServerRejects(k) \/ ServerCloses(k)
    BY <1>1, <1>2, <1>9 DEF ServerListens, Serve, ServerRejects, ServerCloses, LastSent, mainVars,
           poolVars
  <1> QED BY <1>3, <1>4, <1>5, <1>6, <1>7, <1>8, <1>9, StepCases

\* Every step keeps the readers enough: a response that comes takes its request
\* away, a read that is posted takes its callback away, a read that drains the
\* pipe takes at least one response, and a read that fails has no connection.
LEMMA ReadsSufficeStep ==
  ASSUME CoreInv, WriteIds, ReadsSuffice, [Next]_vars
  PROVE  ReadsSuffice'
  <1> USE DEF CoreInv
  <1>1. /\ inst \in [Conn -> Instance] /\ reads \in [Conn -> 0 .. Iterations] /\ Iterations \in Nat
        /\ NullPipe \notin Conn /\ pipe_handle \in Conn \cup {NullPipe}
    BY ClientAssumption DEF TypeInv, TypeOK, Conn, NullPipe
  <1>2. SUFFICES ASSUME ExecPolicy = "Async", NEW k \in Conn, k = pipe_handle', Connected(inst[k])'
                 PROVE  Pending(k)' <= Readers(k)'
    <2>1. TypeInv'
      BY TypeInvStep
    <2>2. pipe_handle' # NullPipe => pipe_handle' \in Conn
      BY <2>1 DEF TypeInv, TypeOK, NullPipe, Conn
    <2>3. \A l \in Conn : ExecPolicy = "Async" /\ l = pipe_handle' /\ Connected(inst[l])' =>
            Pending(l)' <= Readers(l)'
      OBVIOUS
    <2>4. ExecPolicy = "Async" /\ pipe_handle' # NullPipe /\ Connected(inst'[pipe_handle']) =>
            Cardinality(AwaitedIn(inst'[pipe_handle'].req)) + Len(inst'[pipe_handle'].rsp)
              <= reads'[pipe_handle'] +
                   Cardinality({w \in writes' : w.wait /\ w.conn = pipe_handle'})
      BY <2>2, <2>3, Zenon DEF Pending, Readers, Posting, Connected
    <2> QED BY <2>4, Zenon DEF ReadsSuffice, Pipe, AwaitedIn, Connected
  <1>3. k = pipe_handle /\ Connected(inst[k]) => Pending(k) <= Readers(k)
    <2>1. k # NullPipe
      BY <1>1
    <2> QED BY <1>2, <2>1, ReadsSufficeMeans, Zenon
  <1>4. /\ inst[k] \in Instance /\ inst[k].req \in Seq(Message) /\ inst[k].rsp \in Seq(Reply)
        /\ Cardinality(AwaitedIn(inst[k].req)) \in Nat /\ Len(inst[k].rsp) \in Nat
        /\ Cardinality(Posting(k)) \in Nat /\ reads[k] \in Nat
    BY ReadCounts, IdTypes
  <1>5. CASE /\ pipe_handle' = pipe_handle /\ inst'[k] = inst[k] /\ reads'[k] = reads[k]
             /\ writes' = writes
    <2>1. Posting(k)' = Posting(k) /\ AwaitedIn(inst'[k].req) = AwaitedIn(inst[k].req)
      BY <1>5 DEF Posting
    <2> QED BY <1>2, <1>3, <1>5, <2>1 DEF Pending, Readers, Connected
  <1>6. CASE QuietStep
    BY <1>5, <1>6, QuietStepEffect DEF poolVars
  <1>7. ASSUME NEW l \in Conn, Connect(l) PROVE Pending(k)' <= Readers(k)'
    <2>1. /\ k = l /\ inst[k].cli = "none" /\ inst' = [inst EXCEPT ![k] = ClientOpened(inst[k])]
          /\ reads' = reads /\ writes' = writes
      BY <1>2, <1>7 DEF Connect, Listening, poolVars
    <2>2. inst[k].req = <<>> /\ inst[k].rsp = <<>>
      BY <2>1 DEF TypeInv, ClientEnds
    <2>3. inst'[k].req = <<>> /\ inst'[k].rsp = <<>>
      BY <1>1, <1>4, <2>1, <2>2, InstanceFields
    <2>4. Cardinality(AwaitedIn(inst'[k].req)) = 0 /\ Len(inst'[k].rsp) = 0
      BY <2>3, EmptyAwaited
    <2>5. Posting(k)' = Posting(k)
      BY <2>1 DEF Posting
    <2> QED BY <1>4, <2>1, <2>4, <2>5 DEF Pending, Readers
  <1>8. CASE Reconnect \/ Destroy
    BY <1>1, <1>2, <1>8 DEF Reconnect, Destroy, DisconnectFromServer
  <1>9. CASE RegisterRequest \/ SendSync \/ ReadSync
    <2>1. RegisterRequest
      BY <1>2, <1>9 DEF SendSync, SendSyncThen, ReadSync, TypeInv, MainPhase
    <2> QED BY <1>5, <2>1 DEF RegisterRequest, RegisterIf, poolVars
  <1>10. CASE SendAsync
    <2> DEFINE m == [id |-> request_id_counter, kind |-> request]
               w == [id |-> request_id_counter, wait |-> Awaited(request), conn |-> pipe_handle]
    <2>1. /\ pc = "send" /\ Connected(inst[pipe_handle]) /\ pipe_handle' = pipe_handle
          /\ inst' = [inst EXCEPT ![pipe_handle] = ClientWritten(inst[pipe_handle], m)]
          /\ writes' = writes \cup {w} /\ reads' = reads
      BY <1>10 DEF SendAsync, Sent, Pipe
    <2>2. k = pipe_handle /\ Pending(k) <= Readers(k)
      BY <1>2, <1>3, <2>1
    <2>3. m \in Message
      BY <2>1 DEF TypeInv, TypeOK, MainPhase, Message, RequestId
    <2>4. w \notin writes
      <3>1. \A x \in writes : x.id <= request_id_counter - 1 /\ x.id \in Int
        BY <2>1, ClientAssumption DEF WriteIds, LastSent, TypeInv, TypeOK, RequestId
      <3>2. w.id = request_id_counter /\ request_id_counter \in Int
        BY IdTypes
      <3> QED BY <3>1, <3>2
    <2>5. w.wait = Awaited(request) /\ w.conn = k /\ m.kind = request
      BY <2>2
    <2> HIDE DEF m, w
    <2>6. inst'[k].req = Append(inst[k].req, m) /\ inst'[k].rsp = inst[k].rsp
      BY <1>1, <1>4, <2>1, <2>2, <2>3, InstanceFields
    <2>7. Cardinality(AwaitedIn(inst'[k].req)) =
            Cardinality(AwaitedIn(inst[k].req)) + (IF Awaited(request) THEN 1 ELSE 0)
      BY <1>4, <2>3, <2>5, <2>6, AppendAwaited
    <2>8. Cardinality(Posting(k)') = Cardinality(Posting(k)) + (IF Awaited(request) THEN 1 ELSE 0)
      BY <2>1, <2>4, <2>5, PostingAdded
    <2> QED BY <1>4, <2>1, <2>2, <2>6, <2>7, <2>8 DEF Pending, Readers
  <1>11. ASSUME NEW w \in writes, WriteAborted(w) PROVE Pending(k)' <= Readers(k)'
    <2>1. /\ inst' = inst /\ pipe_handle' = pipe_handle /\ reads' = reads
          /\ writes' = writes \ {w} /\ ~Connected(inst[w.conn])
      BY <1>11 DEF WriteAborted, mainVars
    <2>2. w.conn # k
      BY <1>2, <2>1 DEF Connected
    <2>3. Cardinality(Posting(k)') = Cardinality(Posting(k))
      BY <1>4, <2>1, <2>2, PostingRemoved
    <2> QED BY <1>2, <1>3, <2>1, <2>3 DEF Pending, Readers, Connected
  <1>12. ASSUME NEW w \in writes, WriteCompletes(w) PROVE Pending(k)' <= Readers(k)'
    <2>1. pipe_handle' = pipe_handle /\ writes' = writes \ {w} /\ k = pipe_handle
      BY <1>2, <1>12 DEF WriteCompletes, WriteCompletesPosting, mainVars
    <2>2. Cardinality(Posting(k)') =
            Cardinality(Posting(k)) - (IF w.wait /\ w.conn = k THEN 1 ELSE 0)
      BY <2>1, PostingRemoved
    <2>3. CASE ~w.wait
      <3>1. inst' = inst /\ reads' = reads
        BY <1>12, <2>3 DEF WriteCompletes, WriteCompletesPosting
      <3>2. Pending(k)' = Pending(k) /\ Pending(k) <= Readers(k)
        BY <1>2, <1>3, <2>1, <3>1 DEF Pending, Connected
      <3> QED BY <1>4, <2>2, <2>3, <3>1, <3>2 DEF Readers
    <2>4. CASE /\ pipe_handle # NullPipe /\ ClientReadReturns(Pipe)
               /\ inst' = [inst EXCEPT ![pipe_handle] = ClientDrained(@)]
               /\ UNCHANGED reads
      <3>1. inst'[k].srv = inst[k].srv /\ inst'[k].cli = inst[k].cli /\ inst'[k].req = inst[k].req
            /\ inst'[k].rsp = <<>> /\ inst[k].rsp # <<>>
        BY <2>1, <2>4, DrainTypes DEF Pipe
      <3>2. Pending(k) <= Readers(k)
        BY <1>2, <1>3, <2>1, <3>1 DEF Connected
      <3>3. Len(inst'[k].rsp) = 0 /\ Len(inst[k].rsp) > 0
        BY <1>4, <3>1, EmptySeq, LenProperties
      <3>4. Pending(k)' = Cardinality(AwaitedIn(inst[k].req))
        BY <1>4, <3>1, <3>3 DEF Pending
      <3> QED BY <1>4, <2>2, <2>4, <3>2, <3>3, <3>4 DEF Pending, Readers
    <2>5. CASE /\ reads' = [reads EXCEPT ![pipe_handle] = @ + 1]
               /\ UNCHANGED inst
      <3>1. reads'[k] = reads[k] + 1 /\ Pending(k)' = Pending(k) /\ Pending(k) <= Readers(k)
        BY <1>1, <1>2, <1>3, <2>1, <2>5 DEF Pending, Connected
      <3> QED BY <1>4, <2>2, <3>1 DEF Pending, Readers
    <2>6. CASE /\ pipe_handle # NullPipe => ClientReadFails(Pipe)
               /\ UNCHANGED inst
      BY <1>1, <1>2, <2>1, <2>6 DEF ClientReadFails, Connected, Pipe
    <2> QED BY <1>12, <2>3, <2>4, <2>5, <2>6 DEF WriteCompletes, WriteCompletesPosting, PostRead
  <1>13. CASE \E t \in parsing : ParseResponse(t) \/ PushHandle(t)
    BY <1>5, <1>13 DEF ParseResponse, PushHandle, ParseLocking, mainVars
  <1>14. ASSUME NEW l \in Conn, ServerListens(l) \/ Serve(l) \/ ServerRejects(l) \/ ServerCloses(l)
         PROVE  Pending(k)' <= Readers(k)'
    <2>1. /\ pipe_handle' = pipe_handle /\ writes' = writes
          /\ k = pipe_handle /\ Posting(k)' = Posting(k)
      BY <1>2, <1>14 DEF ServerListens, Serve, ServerRejects, ServerCloses, mainVars, poolVars,
           Posting
    <2>2. CASE l # k
      <3>1. inst'[k] = inst[k] /\ reads'[k] = reads[k]
        BY <1>1, <1>14, <2>2 DEF ServerListens, Serve, ServerRejects, ServerCloses, poolVars
      <3> QED BY <1>5, <2>1, <3>1
    <2>3. CASE l = k /\ (ServerListens(k) \/ ServerCloses(k))
      <3>1. \/ inst' = [inst EXCEPT ![k] = FreshInstance]
            \/ inst' = [inst EXCEPT ![k] = ServerClosed(inst[k])]
            \/ inst' = [inst EXCEPT ![k] = Disconnected(inst[k])]
        BY <2>3 DEF ServerListens, ServerCloses
      <3>2. FreshInstance.cli = "none" /\ ServerClosed(inst[k]).srv = "closed"
            /\ Disconnected(inst[k]).srv = "disconnected"
        BY <1>4, FreshFields, InstanceFields
      <3> QED BY <1>1, <1>2, <3>1, <3>2 DEF Connected
    <2>4. CASE l = k /\ (Serve(k) \/ ServerRejects(k))
      <3> DEFINE p == MessageRead(inst[k])
                 m == Head(inst[k].req)
                 one == IF Awaited(m.kind) THEN 1 ELSE 0
      <3>1. inst[k].req # <<>>
        BY <2>4 DEF Serve, ServerRejects, ReadReturnsMessage
      <3>2. /\ p \in Instance /\ p.srv = inst[k].srv /\ p.cli = inst[k].cli
            /\ p.req = Tail(inst[k].req) /\ p.rsp = inst[k].rsp /\ m \in Message
        BY <1>4, <3>1, InstanceTypes, InstanceFields
      <3>3. Cardinality(AwaitedIn(inst[k].req)) = Cardinality(AwaitedIn(p.req)) + one
            /\ Cardinality(AwaitedIn(p.req)) \in Nat
        BY <1>4, <3>1, <3>2, TailAwaited
      <3>4. CASE /\ inst' = [inst EXCEPT ![k] = p] /\ UNCHANGED reads
        <4>1. inst'[k] = p
          BY <1>1, <3>4
        <4>2. Connected(inst[k]) /\ Pending(k) <= Readers(k)
          BY <1>2, <1>3, <2>1, <3>2, <4>1 DEF Connected
        <4> QED BY <1>4, <2>1, <3>2, <3>3, <3>4, <4>1, <4>2 DEF Pending, Readers
      <3>5. CASE /\ Awaited(m.kind) /\ reads[k] > 0
                 /\ inst' = [inst EXCEPT ![k] = p] /\ reads' = [reads EXCEPT ![k] = @ - 1]
        <4>1. inst'[k] = p /\ reads'[k] = reads[k] - 1
          BY <1>1, <3>5
        <4>2. Connected(inst[k]) /\ Pending(k) <= Readers(k)
          BY <1>2, <1>3, <2>1, <3>2, <4>1 DEF Connected
        <4> QED BY <1>4, <2>1, <3>2, <3>3, <3>5, <4>1, <4>2 DEF Pending, Readers
      <3>6. ASSUME Awaited(m.kind), UNCHANGED reads,
                   NEW v \in ClassHandle \cup {NoValue},
                   inst' = [inst EXCEPT ![k] = ResponseWritten(p, [id |-> m.id, value |-> v])]
            PROVE  Pending(k)' <= Readers(k)'
        <4> DEFINE r == [id |-> m.id, value |-> v]
        <4>1. r \in Reply
          BY <3>2 DEF Message, Reply
        <4> HIDE DEF r
        <4>2. /\ ResponseWritten(p, r).srv = inst[k].srv /\ ResponseWritten(p, r).cli = inst[k].cli
              /\ ResponseWritten(p, r).req = p.req
              /\ ResponseWritten(p, r).rsp = Append(inst[k].rsp, r)
          BY <3>2, <4>1, InstanceFields
        <4>3. inst'[k] = ResponseWritten(p, r)
          BY <1>1, <3>6 DEF r
        <4>4. Connected(inst[k]) /\ Pending(k) <= Readers(k)
          BY <1>2, <1>3, <2>1, <4>2, <4>3 DEF Connected
        <4>5. Len(inst'[k].rsp) = Len(inst[k].rsp) + 1
          BY <1>4, <4>1, <4>2, <4>3, AppendProperties
        <4>6. Pending(k)' = Pending(k)
          <5>1. AwaitedIn(inst'[k].req) = AwaitedIn(p.req)
            BY <4>2, <4>3
          <5> HIDE DEF p, m
          <5>2. Cardinality(AwaitedIn(inst[k].req)) = Cardinality(AwaitedIn(inst'[k].req)) + 1
            BY <3>3, <3>6, <5>1
          <5>3. Cardinality(AwaitedIn(inst'[k].req)) \in Nat
            BY <3>3, <5>1
          <5>4. Pending(k)' = Cardinality(AwaitedIn(inst'[k].req)) + Len(inst'[k].rsp)
            BY DEF Pending
          <5>5. Pending(k) = Cardinality(AwaitedIn(inst[k].req)) + Len(inst[k].rsp)
            BY DEF Pending
          <5> DEFINE x == Cardinality(AwaitedIn(inst[k].req))
                     y == Cardinality(AwaitedIn(inst'[k].req))
                     z == Len(inst[k].rsp)
                     zz == Len(inst'[k].rsp)
          <5>6. x \in Nat /\ y \in Nat /\ z \in Nat /\ zz = z + 1 /\ x = y + 1
            BY <1>4, <4>5, <5>2, <5>3
          <5> HIDE DEF x, y, z, zz
          <5>7. y + zz = x + z
            BY ONLY <5>6
          <5>8. Pending(k) = x + z
            BY <5>5 DEF x, z
          <5>9. Pending(k)' = y + zz
            BY <5>4 DEF y, zz
          <5> QED BY ONLY <5>7, <5>8, <5>9
        <4> QED BY <1>4, <2>1, <3>6, <4>4, <4>6 DEF Readers
      <3>7. \A v : v \in (IF m.kind = "create" THEN ClassHandle ELSE {NoValue}) =>
                     v \in ClassHandle \cup {NoValue}
        OBVIOUS
      <3> HIDE DEF one
      <3> QED BY <2>4, <3>4, <3>5, <3>6, <3>7 DEF Serve, ServerRejects, poolVars
    <2> QED BY <1>14, <2>2, <2>3, <2>4
  <1> QED BY <1>6, <1>7, <1>8, <1>9, <1>10, <1>11, <1>12, <1>13, <1>14, StepCases

\* Each response still to come on the open connection of an async client has a
\* read posted for it or a callback that will post one (Client.cpp 127-143).
THEOREM EnoughReads == Spec => []ReadsSuffice
  <1>1. Init => WriteIds /\ ReadsSuffice
    BY DEF Init, WriteIds, ReadsSuffice
  <1>2. CoreInv /\ WriteIds /\ ReadsSuffice /\ [Next]_vars => WriteIds' /\ ReadsSuffice'
    BY WriteIdsStep, ReadsSufficeStep
  <1> QED BY <1>1, <1>2, CoreInvariant, PTL DEF Spec

-----------------------------------------------------------------------------
(* The sync client reads one answer at a time, to the request it has sent. *)

\* No message of a sequence is answered.
NoneAwaited(q) == \A m \in Elems(q) : ~Awaited(m.kind)

\* A sequence of one answer, the one to the current request.
OneAnswer(q) == Len(q) = 1 /\ q[1].id = request_id_counter

\* What the pipe of the current connection holds when main does not wait, and
\* when it does: the request still to be answered, or its answer.
Idle(p)    == (p.srv = "open" => NoneAwaited(p.req)) /\ p.rsp = <<>>
Waiting(p) ==
  \/ /\ p.rsp = <<>>
     /\ p.srv = "open" => \A m \in Elems(p.req) : Awaited(m.kind) => m.id = request_id_counter
  \/ /\ OneAnswer(p.rsp)
     /\ p.srv = "open" => NoneAwaited(p.req)

\* A sync client has nothing in flight but the request that main waits for the
\* answer of, or that answer.
SyncInv ==
  ExecPolicy = "Sync" =>
    /\ writes = {}
    /\ \A k \in Conn : reads[k] = 0
    /\ pc # "parse" => parsing = {}
    /\ \A t \in parsing : OneAnswer(t.data)
    /\ pipe_handle \in Conn /\ pc # "wait" => Idle(Pipe)
    /\ pc = "wait" => Waiting(Pipe)

\* Reading a message leaves none that is answered, if there was none, or if
\* the one that was is the one that was read.
LEMMA TailNoneAwaited ==
  ASSUME NEW q \in Seq(Message), q # <<>>
  PROVE  /\ NoneAwaited(q) => NoneAwaited(Tail(q)) /\ ~Awaited(Head(q).kind)
         /\ \A id : /\ Distinct(q) /\ Head(q).id = id
                    /\ \A m \in Elems(q) : Awaited(m.kind) => m.id = id
                    => NoneAwaited(Tail(q))
  <1>1. Head(q) \in Elems(q) /\ Elems(Tail(q)) \subseteq Elems(q)
    BY TailElems
  <1>2. Distinct(q) => Head(q).id \notin Ids(Tail(q))
    BY TailElems
  <1>3. \A m \in Elems(Tail(q)) : m.id \in Ids(Tail(q))
    BY DEF Ids
  <1> QED BY <1>1, <1>2, <1>3 DEF NoneAwaited

\* Every step of a sync client and its server keeps it so.
LEMMA SyncInvStep ==
  ASSUME CoreInv, SyncInv, [Next]_vars
  PROVE  SyncInv'
  <1> SUFFICES ASSUME ExecPolicy = "Sync" PROVE SyncInv'
    BY DEF SyncInv
  <1> USE DEF CoreInv
  <1>1. /\ inst \in [Conn -> Instance] /\ reads \in [Conn -> 0 .. Iterations] /\ Iterations \in Nat
        /\ NullPipe \notin Conn /\ pipe_handle \in Conn \cup {NullPipe}
        /\ request_id_counter \in Nat
        /\ \A k \in Conn :
             inst[k] \in Instance /\ inst[k].req \in Seq(Message) /\ inst[k].rsp \in Seq(Reply)
    BY IdTypes, ClientAssumption DEF TypeInv, TypeOK, Conn, NullPipe
  <1>2. /\ writes = {}
        /\ \A k \in Conn : reads[k] = 0
        /\ pc # "parse" => parsing = {}
        /\ \A t \in parsing : OneAnswer(t.data)
        /\ pipe_handle \in Conn /\ pc # "wait" => Idle(Pipe)
        /\ pc = "wait" => Waiting(Pipe)
    BY DEF SyncInv
  <1> DEFINE Goal == /\ writes' = {}
                     /\ \A k \in Conn : reads'[k] = 0
                     /\ pc' # "parse" => parsing' = {}
                     /\ \A t \in parsing' : OneAnswer(t.data)'
                     /\ pipe_handle' \in Conn /\ pc' # "wait" => Idle(Pipe)'
                     /\ pc' = "wait" => Waiting(Pipe)'
  <1>3. SUFFICES Goal
    BY DEF SyncInv
  <1>4. CASE QuietStep
    <2>1. /\ UNCHANGED <<inst, pipe_handle, request_id_counter, requests, handles, poolVars>>
      BY <1>4, QuietStepEffect
    <2>2. \/ pc' = pc
          \/ pc \notin {"wait", "parse"} /\ pc' \notin {"wait", "parse"}
          \/ pc = "wait" /\ ClientReadFails(Pipe) /\ pc' = "good"
          \/ pc = "parse" /\ parsing = {} /\ pc' = "good"
      <3> USE DEF Goto
      <3>1. CASE ConnectRetry
        BY <3>1 DEF ConnectRetry, ConnectRetryUpTo
      <3>2. CASE EndOfData \/ ReadNoDemo \/ CopyHandles
        BY <3>2 DEF EndOfData, ReadNoDemo, CopyHandles
      <3>3. CASE \E demo \in 0 .. kTotalDemos - 1 : ReadRequest(demo)
        BY <3>3 DEF ReadRequest
      <3>4. CASE SendFails \/ ReadSyncFails \/ ParsedSync
        BY <3>4 DEF SendFails, ReadSyncFails, ParsedSync
      <3>5. CASE UNCHANGED vars
        BY <3>5 DEF vars, mainVars
      <3> QED BY <1>4, <3>1, <3>2, <3>3, <3>4, <3>5 DEF QuietStep
    <2>3. ClientReadFails(Pipe) => Idle(Pipe)
      BY DEF ClientReadFails, Idle
    <2>4. Pipe' = Pipe
      BY <2>1 DEF Pipe
    <2> QED BY <1>2, <2>1, <2>2, <2>3, <2>4 DEF poolVars, Idle, Waiting, OneAnswer
  <1>5. ASSUME NEW k \in Conn, Connect(k) PROVE Goal
    <2>1. /\ inst' = [inst EXCEPT ![k] = ClientOpened(inst[k])] /\ pipe_handle' = k
          /\ inst[k].cli = "none" /\ pc = "connect" /\ pc' = "good"
          /\ UNCHANGED <<writes, reads, parsing, request_id_counter>>
      BY <1>5 DEF Connect, Listening, Goto, poolVars
    <2>2. inst[k].req = <<>> /\ inst[k].rsp = <<>>
      BY <2>1 DEF TypeInv, ClientEnds
    <2>3. inst'[k].req = <<>> /\ inst'[k].rsp = <<>>
      BY <1>1, <2>1, <2>2, InstanceFields
    <2>4. Idle(Pipe)'
      BY <2>1, <2>3, EmptyElems DEF Idle, NoneAwaited, Pipe
    <2> QED BY <1>2, <2>1, <2>4
  <1>6. CASE Reconnect \/ Destroy
    <2>1. /\ pc \in {"reconnect", "returned", "failed"} /\ pc' \in {"connect", "destroyed"}
          /\ pipe_handle' = NullPipe
          /\ UNCHANGED <<writes, parsing, request_id_counter>>
          /\ \A k \in Conn : reads'[k] = IF k = pipe_handle THEN 0 ELSE reads[k]
      BY <1>6 DEF Reconnect, Destroy, DisconnectFromServer, Goto
    <2> QED BY <1>1, <1>2, <2>1
  <1>7. CASE RegisterRequest
    <2>1. /\ pc = "register" /\ pc' = "send"
          /\ UNCHANGED <<inst, pipe_handle, writes, reads, parsing>>
      BY <1>7 DEF RegisterRequest, RegisterIf, Goto, poolVars
    <2> QED BY <1>2, <2>1 DEF Idle, Pipe
  <1>8. CASE SendAsync \/ \E w \in writes : WriteCompletes(w) \/ WriteAborted(w)
    BY <1>2, <1>8 DEF SendAsync
  <1>9. CASE SendSync
    <2> DEFINE m == [id |-> request_id_counter, kind |-> request]
               p == inst[pipe_handle]
    <2>1. /\ pc = "send" /\ pc' = IF Awaited(request) THEN "wait" ELSE "good"
          /\ inst' = [inst EXCEPT ![pipe_handle] = ClientWritten(p, m)]
          /\ UNCHANGED <<pipe_handle, writes, reads, parsing, request_id_counter>>
          /\ p.srv = "open"
      BY <1>9 DEF SendSync, SendSyncThen, ClientCanWrite, Connected, Sent, Pipe, Goto, poolVars
    <2>2. pipe_handle \in Conn /\ m \in Message
      BY <2>1 DEF TypeInv, TypeOK, MainPhase, Message, RequestId
    <2>3. NoneAwaited(p.req) /\ p.rsp = <<>>
      BY <1>2, <2>1, <2>2 DEF Idle, Pipe
    <2>4. Elems(Append(p.req, m)) = Elems(p.req) \cup {m}
      BY <1>1, <2>2, AppendElems
    <2>5. inst'[pipe_handle].req = Append(p.req, m) /\ inst'[pipe_handle].rsp = p.rsp
      BY <1>1, <2>1, <2>2, InstanceFields
    <2>6. Pipe' = inst'[pipe_handle]
      BY <2>1 DEF Pipe
    <2>7. CASE Awaited(request)
      <3>1. \A n \in Elems(Append(p.req, m)) : Awaited(n.kind) => n.id = request_id_counter
        BY <2>3, <2>4 DEF NoneAwaited
      <3>2. Waiting(Pipe)'
        BY <2>1, <2>3, <2>5, <2>6, <3>1 DEF Waiting
      <3> QED BY <1>2, <2>1, <2>7, <3>2
    <2>8. CASE ~Awaited(request)
      <3>1. NoneAwaited(Append(p.req, m))
        BY <2>3, <2>4, <2>8 DEF NoneAwaited
      <3>2. Idle(Pipe)'
        BY <2>3, <2>5, <2>6, <3>1 DEF Idle
      <3> QED BY <1>2, <2>1, <2>8, <3>2
    <2> QED BY <2>7, <2>8
  <1>10. CASE ReadSync
    <2>1. /\ pc = "wait" /\ pc' = "parse" /\ ClientReadReturns(Pipe)
          /\ inst' = [inst EXCEPT ![pipe_handle] = ClientDrained(@)]
          /\ parsing' = {Parsed(Pipe.rsp)}
          /\ UNCHANGED <<pipe_handle, writes, reads, request_id_counter>>
      BY <1>10 DEF ReadSync, Goto
    <2>2. pipe_handle \in Conn /\ pipe_handle # NullPipe
      BY <1>1, <2>1 DEF TypeInv, MainPhase
    <2>3. OneAnswer(Pipe.rsp) /\ (Pipe.srv = "open" => NoneAwaited(Pipe.req))
      BY <1>2, <2>1 DEF Waiting, ClientReadReturns
    <2>4. \A t \in parsing' : OneAnswer(t.data)'
      BY <2>1, <2>3 DEF Parsed, OneAnswer
    <2>5. /\ inst'[pipe_handle].srv = Pipe.srv /\ inst'[pipe_handle].req = Pipe.req
          /\ inst'[pipe_handle].rsp = <<>>
      BY <2>1, <2>2, DrainTypes DEF Pipe
    <2>6. Idle(Pipe)'
      <3>1. Pipe' = inst'[pipe_handle]
        BY <2>1 DEF Pipe
      <3> QED BY <2>3, <2>5, <3>1 DEF Idle
    <2> QED BY <1>2, <2>1, <2>4, <2>6
  <1>11. ASSUME NEW t \in parsing, ParseResponse(t) \/ PushHandle(t) PROVE Goal
    <2>1. UNCHANGED <<inst, mainVars, writes, reads>>
      BY <1>11 DEF ParseResponse, PushHandle, ParseLocking
    <2>2. \A s \in parsing' : \E o \in parsing : s.data = o.data
      <3>1. [t EXCEPT !.at = "push"].data = t.data
        BY DEF TypeInv, TypeOK
      <3> QED BY <1>11, <3>1 DEF ParseResponse, PushHandle, ParseLocking, Done
    <2>3. parsing' # {} => parsing # {}
      BY <2>2
    <2> QED BY <1>2, <2>1, <2>2, <2>3 DEF mainVars, Idle, Waiting, OneAnswer, Pipe
  <1>12. ASSUME NEW k \in Conn, ServerListens(k) \/ Serve(k) \/ ServerRejects(k) \/ ServerCloses(k)
         PROVE  Goal
    <2>1. UNCHANGED <<mainVars, requests, handles, writes>>
      BY <1>12 DEF ServerListens, Serve, ServerRejects, ServerCloses, poolVars
    <2>2. parsing' = parsing /\ \A l \in Conn : reads'[l] = 0
      <3>1. CASE ServerListens(k) \/ ServerRejects(k)
        BY <1>2, <3>1 DEF ServerListens, ServerRejects, poolVars
      <3>2. CASE ServerCloses(k)
        BY <1>1, <1>2, <3>2 DEF ServerCloses
      <3>3. CASE Serve(k)
        <4>1. ~(reads[k] > 0)
          BY <1>2
        <4>2. parsing' = parsing /\ reads' = reads
          BY <3>3, <4>1 DEF Serve
        <4> QED BY <1>2, <4>2
      <3> QED BY <1>12, <3>1, <3>2, <3>3
    <2>3. /\ \A l \in Conn : l # k => inst'[l] = inst[l]
          /\ pc' = pc /\ pipe_handle' = pipe_handle /\ request_id_counter' = request_id_counter
      BY <1>1, <2>1, <1>12 DEF ServerListens, Serve, ServerRejects, ServerCloses, mainVars
    <2>4. pc = "wait" => pipe_handle \in Conn
      BY DEF TypeInv, MainPhase
    <2>5. SUFFICES ASSUME k = pipe_handle
                   PROVE  /\ pc # "wait" => Idle(inst[k])'
                          /\ pc = "wait" => Waiting(inst[k])'
      BY <1>2, <2>1, <2>2, <2>3, <2>4 DEF Idle, Waiting, OneAnswer, Pipe
    <2> DEFINE p == inst[k]
    <2>6. (pc # "wait" => Idle(p)) /\ (pc = "wait" => Waiting(p))
      BY <1>2, <2>5 DEF Pipe
    <2>7. CASE ServerListens(k)
      <3>1. inst'[k] = FreshInstance
        BY <1>1, <2>7 DEF ServerListens
      <3> QED BY <3>1, FreshFields, EmptyElems DEF Idle, Waiting, NoneAwaited
    <2>8. CASE ServerCloses(k)
      <3>1. inst'[k] = ServerClosed(p) \/ inst'[k] = Disconnected(p)
        BY <1>1, <2>8 DEF ServerCloses
      <3>2. /\ ServerClosed(p).srv = "closed" /\ ServerClosed(p).rsp = p.rsp
            /\ Disconnected(p).srv = "disconnected" /\ Disconnected(p).rsp = <<>>
        BY <1>1, InstanceFields
      <3> QED BY <2>3, <2>6, <3>1, <3>2 DEF Idle, Waiting, OneAnswer
    <2>9. ASSUME p.srv = "open", p.req # <<>>
          PROVE  /\ MessageRead(p) \in Instance
                 /\ MessageRead(p).srv = "open" /\ MessageRead(p).req = Tail(p.req)
                 /\ MessageRead(p).rsp = p.rsp /\ Head(p.req) \in Message
                 /\ Elems(Tail(p.req)) \subseteq Elems(p.req)
      BY <1>1, <2>9, InstanceTypes, InstanceFields, TailElems
    <2>10. CASE inst' = [inst EXCEPT ![k] = MessageRead(p)] /\ p.srv = "open" /\ p.req # <<>>
      <3>1. inst'[k] = MessageRead(p)
        BY <1>1, <2>10
      <3> QED BY <2>3, <2>6, <2>9, <2>10, <3>1 DEF Idle, Waiting, OneAnswer, NoneAwaited
    <2>11. ASSUME Serve(k), Awaited(Head(p.req).kind), p.srv = "open", p.req # <<>>,
                  NEW v \in ClassHandle \cup {NoValue},
                  inst' = [inst EXCEPT ![k] =
                             ResponseWritten(MessageRead(p), [id |-> Head(p.req).id, value |-> v])]
           PROVE  pc = "wait" /\ Waiting(inst[k])'
      <3> DEFINE q == MessageRead(p)
                 r == [id |-> Head(p.req).id, value |-> v]
      <3>1. Head(p.req) \in Elems(p.req)
        BY <1>1, <2>11, TailElems
      <3>2. /\ pc = "wait" /\ p.rsp = <<>>
            /\ \A m \in Elems(p.req) : Awaited(m.kind) => m.id = request_id_counter
        BY <2>6, <2>11, <3>1 DEF Idle, Waiting, NoneAwaited
      <3>3. Head(p.req).id = request_id_counter
        BY <2>11, <3>1, <3>2
      <3>4. NoneAwaited(Tail(p.req))
        BY <1>1, <2>11, <3>2, <3>3, TailNoneAwaited DEF MatchInv, OnePlace
      <3>5. q \in Instance /\ r \in Reply /\ r.id = request_id_counter
        BY <2>9, <2>11, <3>3 DEF Message, Reply
      <3> HIDE DEF r
      <3>6. ResponseWritten(q, r).req = q.req /\ ResponseWritten(q, r).rsp = Append(q.rsp, r)
        BY <3>5, InstanceFields
      <3>7. inst'[k] = ResponseWritten(q, r)
        BY <1>1, <2>11 DEF r
      <3>8. inst'[k].req = Tail(p.req) /\ inst'[k].rsp = Append(<<>>, r)
        BY <2>9, <2>11, <3>2, <3>6, <3>7
      <3>9. Len(Append(<<>>, r)) = 1 /\ Append(<<>>, r)[1] = r
        OBVIOUS
      <3> QED BY <2>3, <3>2, <3>4, <3>5, <3>8, <3>9 DEF Waiting, OneAnswer
    <2>12. \A v : v \in (IF Head(p.req).kind = "create" THEN ClassHandle ELSE {NoValue}) =>
                    v \in ClassHandle \cup {NoValue}
      OBVIOUS
    <2>13. CASE Serve(k) \/ ServerRejects(k)
      <3>1. p.srv = "open" /\ p.req # <<>>
        BY <2>13 DEF Serve, ServerRejects, ReadReturnsMessage
      <3>2. \/ inst' = [inst EXCEPT ![k] = MessageRead(p)]
            \/ /\ Serve(k) /\ Awaited(Head(p.req).kind)
               /\ \E v \in ClassHandle \cup {NoValue} :
                    inst' = [inst EXCEPT ![k] =
                      ResponseWritten(MessageRead(p), [id |-> Head(p.req).id, value |-> v])]
        BY <2>12, <2>13 DEF Serve, ServerRejects
      <3> QED BY <2>10, <2>11, <3>1, <3>2
    <2> QED BY <1>12, <2>7, <2>8, <2>13
  <1> QED BY <1>4, <1>5, <1>6, <1>7, <1>8, <1>9, <1>10, <1>11, <1>12, StepCases

\* A sync client never reads the answer to another request than the one it has
\* just sent, and reads one answer at a time (Client.cpp 92-112).
THEOREM SyncReadsItsAnswer == Spec => []SyncAnswers
  <1>1. Init => SyncInv
    BY DEF Init, SyncInv, Conn, NullPipe
  <1>2. CoreInv /\ SyncInv /\ [Next]_vars => SyncInv'
    BY SyncInvStep
  <1>3. SyncInv => SyncAnswers
    BY DEF SyncInv, OneAnswer, SyncAnswers
  <1> QED BY <1>1, <1>2, <1>3, CoreInvariant, PTL DEF Spec
=============================================================================
