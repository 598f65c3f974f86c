------------------------- MODULE ProxyDispatchProofs -------------------------
(***************************************************************************)
(* For every number of requests, every pool size and every queue size: the *)
(* proxy pool is bounded, leaves no request behind, and starts requests in *)
(* the order they were read.                                               *)
(***************************************************************************)
EXTENDS ProxyDispatch, FiniteSetTheorems, SequenceTheorems, TLAPS

\* A handler is in one of these states from the creation of its task to its end.
Running == States \ {"unread", "refused", "queued", "ended"}

\* What the pool invariants leave unsaid and an induction needs: where a
\* request is while it is unread, queued or running, and that a cancellation
\* ends with the handler it was thrown into.
PlacedByState ==
  /\ \A r \in Requests : pc[r] = "unread" <=> r > read
  /\ \A r \in tasks : pc[r] \notin {"unread", "refused", "queued"}
  /\ \A i \in DOMAIN queue : pc[queue[i]] = "queued"
  /\ \A r \in cancelled : pc[r] # "ended"
  /\ closed => queue = <<>>

PoolInv == TypeOK /\ PoolBounded /\ WorkConserving /\ ServedInOrder /\ PlacedByState

\* What a handler has done by the state it is in: an open socket is either in
\* its handshake or delivered, nothing is sent before the write lock is taken,
\* the response about to be written tells what happened to the stream, and on
\* a closed channel whoever waits for the write lock is being cancelled.
HandlerOK(r) ==
  /\ sock[r] = "open" => pc[r] = "handshaking" \/ r \in delivered
  /\ pc[r] \notin {"locking", "draining", "ended"} => sent[r] = <<>> /\ r \notin delivered
  /\ pc[r] = "locking" => /\ sent[r] = <<>> \/ broken
                          /\ reply[r] = "ok" => r \in delivered
                          /\ reply[r] # "ok" => r \notin delivered \/ broken
                          /\ closed => r \in cancelled
  /\ sent[r] \in {<<>>, <<"ok">>, <<"error">>}
  /\ sent[r] = <<"ok">> => r \in delivered
  /\ sent[r] = <<"error">> => r \notin delivered

HandlerInv == \A r \in Requests : HandlerOK(r)

IInv == PoolInv /\ HandlerInv

\* The done callback frees one place of a pool that is not over its bound.
LEMMA RemovedTask ==
  ASSUME NEW S, IsFiniteSet(S), NEW r \in S, NEW n \in Nat, Cardinality(S) <= n
  PROVE  /\ IsFiniteSet(S \ {r}) /\ Cardinality(S \ {r}) \in Nat
         /\ Cardinality(S \ {r}) = Cardinality(S) - 1
         /\ Cardinality(S \ {r}) < n
<1>1. Cardinality(S) \in Nat /\ Cardinality(S \ {r}) \in Nat /\ IsFiniteSet(S \ {r})
  BY FS_CardinalityType, FS_RemoveElement
<1>2. Cardinality(S \ {r}) = Cardinality(S) - 1
  BY FS_RemoveElement
<1> QED BY <1>1, <1>2

\* Starting a task fills at most one place.
LEMMA AddedTask ==
  ASSUME NEW S, IsFiniteSet(S), NEW r, NEW n \in Nat, Cardinality(S) < n
  PROVE  /\ IsFiniteSet(S \cup {r}) /\ Cardinality(S \cup {r}) \in Nat
         /\ Cardinality(S \cup {r}) <= n
         /\ r \notin S => Cardinality(S \cup {r}) = Cardinality(S) + 1
<1>1. Cardinality(S) \in Nat /\ Cardinality(S \cup {r}) \in Nat /\ IsFiniteSet(S \cup {r})
  BY FS_CardinalityType, FS_AddElement
<1>2. Cardinality(S \cup {r}) = IF r \in S THEN Cardinality(S) ELSE Cardinality(S) + 1
  BY FS_AddElement
<1> QED BY <1>1, <1>2

LEMMA InitIInv == Init => IInv
<1> SUFFICES ASSUME Init PROVE IInv
  OBVIOUS
<1> USE ProxyAssumption DEF Init
<1>1. IsFiniteSet({}) /\ Cardinality({}) = 0
  BY FS_EmptySet
<1>2. TypeOK
  <2>1. pc \in [Requests -> States]
    BY DEF States
  <2>2. sock \in [Requests -> {"none", "open", "closed"}]
    OBVIOUS
  <2>3. reply \in [Requests -> {"none", "ok", "closed", "error"}]
    OBVIOUS
  <2>4. <<>> \in Seq({"ok", "error"}) /\ <<>> \in Seq(Requests)
    OBVIOUS
  <2>5. sent \in [Requests -> Seq({"ok", "error"})]
    BY <2>4
  <2>6. read \in 0..NumRequests
    OBVIOUS
  <2> QED BY <1>1, <2>1, <2>2, <2>3, <2>4, <2>5, <2>6 DEF TypeOK
<1>3. PoolBounded /\ WorkConserving /\ ServedInOrder
  <2>1. Len(queue) = 0 /\ Len(started) = 0 /\ DOMAIN queue = {} /\ DOMAIN started = {}
    OBVIOUS
  <2>2. PoolBounded /\ WorkConserving
    BY <1>1, <2>1 DEF PoolBounded, WorkConserving
  <2>3. ServedInOrder
    <3> HIDE DEF Init
    <3>1. read = 0
      BY DEF Init
    <3> QED BY <2>1, <3>1 DEF ServedInOrder
  <2> QED BY <2>2, <2>3
<1>4. PlacedByState
  BY DEF PlacedByState, Requests
<1>5. HandlerInv
  BY DEF HandlerInv, HandlerOK
<1> QED BY <1>2, <1>3, <1>4, <1>5 DEF IInv, PoolInv

\* A handler moves from one state to another, and touches nothing of the pool.
LEMMA HandlerFrame ==
  ASSUME TypeOK, NEW r \in Requests, Handler(r)
  PROVE  /\ UNCHANGED <<poolVars, channelVars>>
         /\ pc[r] \in Running
         /\ \E s \in Running \cup {"ended"} :
              /\ pc' = [pc EXCEPT ![r] = s]
              /\ s = "ended" => r \notin cancelled'
         /\ cancelled' = cancelled \/ cancelled' = cancelled \ {r}
<1> USE DEF Running, States, To, Respond
<1>1. CASE HandlerStart(r)
  BY <1>1 DEF HandlerStart
<1>2. CASE Connected(r)
  BY <1>2 DEF Connected
<1>3. CASE ConnectFails(r)
  BY <1>3 DEF ConnectFails
<1>4. CASE HandshakeFails(r)
  BY <1>4 DEF HandshakeFails
<1>5. CASE HandshakeDone(r)
  BY <1>5 DEF HandshakeDone
<1>6. CASE SocketClosed(r)
  BY <1>6 DEF SocketClosed
<1>7. CASE WriteReply(r)
  BY <1>7 DEF WriteReply
<1>8. CASE WriteDone(r)
  BY <1>8 DEF WriteDone
<1>9. CASE WriteFails(r)
  BY <1>9 DEF WriteFails
<1>10. CASE WriteCancelled(r)
  BY <1>10 DEF WriteCancelled
<1> QED BY <1>1, <1>2, <1>3, <1>4, <1>5, <1>6, <1>7, <1>8, <1>9, <1>10 DEF Handler

\* What a handler writes in its own variables has their types.
LEMMA HandlerTypes ==
  ASSUME TypeOK, NEW r \in Requests, Handler(r)
  PROVE  /\ failed' \subseteq Requests /\ delivered' \subseteq Requests
         /\ sock' \in [Requests -> {"none", "open", "closed"}]
         /\ reply' \in [Requests -> {"none", "ok", "closed", "error"}]
         /\ sent' \in [Requests -> Seq({"ok", "error"})]
<1> USE DEF TypeOK, Respond, SetSock, handlerVars
<1>1. CASE HandlerStart(r)
  BY <1>1 DEF HandlerStart
<1>2. CASE Connected(r)
  BY <1>2 DEF Connected
<1>3. CASE ConnectFails(r)
  BY <1>3 DEF ConnectFails
<1>4. CASE HandshakeFails(r)
  BY <1>4 DEF HandshakeFails
<1>5. CASE HandshakeDone(r)
  BY <1>5 DEF HandshakeDone
<1>6. CASE SocketClosed(r)
  BY <1>6 DEF SocketClosed
<1>7. CASE WriteReply(r)
  <2>1. Append(sent[r], IF reply[r] = "ok" THEN "ok" ELSE "error") \in Seq({"ok", "error"})
    OBVIOUS
  <2> QED BY <1>7, <2>1 DEF WriteReply
<1>8. CASE WriteDone(r)
  BY <1>8 DEF WriteDone
<1>9. CASE WriteFails(r)
  BY <1>9 DEF WriteFails
<1>10. CASE WriteCancelled(r)
  BY <1>10 DEF WriteCancelled
<1> QED BY <1>1, <1>2, <1>3, <1>4, <1>5, <1>6, <1>7, <1>8, <1>9, <1>10 DEF Handler

LEMMA HandlerKeepsPool ==
  ASSUME PoolInv, NEW r \in Requests, Handler(r)
  PROVE  PoolInv'
<1> USE DEF PoolInv
<1>1. /\ UNCHANGED <<queue, tasks, read, started, closed, openTunnels, broken>>
      /\ cancelled' = cancelled \/ cancelled' = cancelled \ {r}
  BY HandlerFrame DEF poolVars, channelVars
<1>2. PICK s \in Running \cup {"ended"} :
        /\ pc' = [pc EXCEPT ![r] = s]
        /\ s = "ended" => r \notin cancelled'
  BY HandlerFrame
<1>3. pc[r] \in Running /\ s \in States /\ s \notin {"unread", "refused", "queued"}
  BY HandlerFrame DEF Running, States
<1>4. r \in tasks /\ \A q \in Requests : q # r => pc'[q] = pc[q]
  BY <1>2, <1>3 DEF TypeOK, Running
<1>5. pc'[r] = s /\ pc' \in [Requests -> States]
  BY <1>2, <1>3 DEF TypeOK
<1>6. TypeOK'
  BY <1>1, <1>4, <1>5, HandlerTypes DEF TypeOK
<1>7. PoolBounded' /\ WorkConserving' /\ ServedInOrder'
  BY <1>1 DEF PoolBounded, WorkConserving, ServedInOrder
<1>8. PlacedByState'
  <2>1. \A q \in Requests : pc'[q] = "unread" <=> q > read'
    BY <1>1, <1>3, <1>4, <1>5 DEF PlacedByState, Running
  <2>2. \A q \in tasks' : pc'[q] \notin {"unread", "refused", "queued"}
    BY <1>1, <1>3, <1>4, <1>5 DEF PlacedByState, TypeOK
  <2>3. \A i \in DOMAIN queue' : pc'[queue'[i]] = "queued"
    BY <1>1, <1>3, <1>4 DEF PlacedByState, TypeOK, Running
  <2>4. \A q \in cancelled' : pc'[q] # "ended"
    BY <1>1, <1>2, <1>4, <1>5 DEF PlacedByState, TypeOK
  <2> QED BY <1>1, <2>1, <2>2, <2>3, <2>4 DEF PlacedByState
<1> QED BY <1>6, <1>7, <1>8

\* Closing empties the queue and cancels whatever runs.
LEMMA FinishKeepsPool ==
  ASSUME TypeOK, PlacedByState, PoolBounded, ~closed,
         NEW active \in SUBSET tasks, Finish(active),
         tasks' = active, cancelled \subseteq active
  PROVE  /\ PoolBounded' /\ WorkConserving'
         /\ closed' = TRUE /\ queue' = <<>>
         /\ cancelled' \subseteq tasks'
         /\ broken' \in BOOLEAN /\ openTunnels' \subseteq Tunnels
         /\ \A q \in active : pc[q] # "ended" => q \in cancelled'
         /\ \A q \in cancelled' : pc[q] # "ended"
<1> USE DEF Finish
<1>1. IsFiniteSet(tasks) /\ Cardinality(tasks) \in Nat /\ Cardinality(active) <= Cardinality(tasks)
      /\ Cardinality(active) \in Nat
  BY FS_CardinalityType, FS_Subset DEF TypeOK
<1>2. MaxActive \in Nat /\ MaxQueued \in Nat
  BY ProxyAssumption
<1>3. PoolBounded'
  <2>1. Len(<<>>) = 0
    OBVIOUS
  <2> QED BY <1>1, <1>2, <2>1 DEF PoolBounded
<1>4. WorkConserving'
  BY DEF WorkConserving
<1> QED BY <1>3, <1>4 DEF TypeOK, PlacedByState

LEMMA ReadKeepsPool ==
  ASSUME PoolInv, NEW r \in Requests, ReadRequest(r)
  PROVE  PoolInv'
<1> USE DEF PoolInv
<1>1. /\ ~closed /\ r = read + 1 /\ read' = r
      /\ UNCHANGED <<failed, sock, reply, sent, delivered>>
  BY DEF ReadRequest, handlerVars
<1>2. read \in Nat /\ read + 1 <= NumRequests /\ read' \in 0..NumRequests /\ NumRequests \in Nat
  BY <1>1, ProxyAssumption DEF TypeOK, Requests
<1>3. pc[r] = "unread" /\ r \notin tasks /\ pc \in [Requests -> States]
  BY <1>1, <1>2 DEF PlacedByState, TypeOK, Requests
<1>4. /\ IsFiniteSet(tasks) /\ Cardinality(tasks) \in Nat /\ Cardinality(tasks) <= MaxActive
      /\ MaxActive \in Nat /\ MaxQueued \in Nat
  BY FS_CardinalityType, ProxyAssumption DEF TypeOK, PoolBounded
<1>5. /\ Len(queue) \in Nat /\ Len(started) \in Nat
      /\ queue \in Seq(Requests) /\ started \in Seq(Requests)
      /\ Len(queue) = read - Len(started)
      /\ DOMAIN queue = 1..Len(queue) /\ DOMAIN started = 1..Len(started)
  BY <1>1 DEF TypeOK, ServedInOrder
<1>6. CASE /\ Cardinality(tasks) >= MaxActive /\ Len(queue) >= MaxQueued
           /\ Finish(tasks)
           /\ tasks' = tasks
           /\ pc' = [pc EXCEPT ![r] = "refused"]
  <2>1. started' = started
    BY <1>6 DEF Finish
  <2>2. /\ PoolBounded' /\ WorkConserving' /\ closed' = TRUE /\ queue' = <<>>
        /\ cancelled' \subseteq tasks' /\ broken' \in BOOLEAN /\ openTunnels' \subseteq Tunnels
        /\ \A q \in cancelled' : pc[q] # "ended"
    BY <1>1, <1>6, FinishKeepsPool DEF TypeOK
  <2>3. pc'[r] = "refused" /\ (\A q \in Requests : q # r => pc'[q] = pc[q]) /\ pc' \in [Requests -> States]
    BY <1>3, <1>6 DEF States
  <2>4. TypeOK'
    BY <1>1, <1>2, <1>6, <2>1, <2>2, <2>3 DEF TypeOK
  <2>5. ServedInOrder'
    BY <1>1, <1>2, <1>5, <2>1, <2>2 DEF ServedInOrder
  <2>6. PlacedByState'
    <3>1. \A q \in Requests : pc'[q] = "unread" <=> q > read'
      BY <1>1, <1>2, <2>3 DEF PlacedByState, Requests
    <3>2. \A q \in tasks' : pc'[q] \notin {"unread", "refused", "queued"}
      BY <1>3, <1>6, <2>3 DEF PlacedByState, TypeOK
    <3>3. \A i \in DOMAIN queue' : pc'[queue'[i]] = "queued"
      BY <2>2
    <3>4. \A q \in cancelled' : pc'[q] # "ended"
      BY <1>3, <1>6, <2>2, <2>3 DEF TypeOK
    <3> QED BY <2>2, <3>1, <3>2, <3>3, <3>4 DEF PlacedByState
  <2> QED BY <2>2, <2>4, <2>5, <2>6
<1>7. CASE /\ Cardinality(tasks) >= MaxActive /\ Len(queue) < MaxQueued
           /\ queue' = Append(queue, r)
           /\ tasks' = tasks
           /\ pc' = [pc EXCEPT ![r] = "queued"]
           /\ UNCHANGED <<channelVars, cancelled, started>>
  <2>1. UNCHANGED <<closed, openTunnels, broken, cancelled, started>>
    BY <1>7 DEF channelVars
  <2>2. /\ queue' \in Seq(Requests) /\ Len(queue') = Len(queue) + 1
        /\ DOMAIN queue' = 1..(Len(queue) + 1)
        /\ queue'[Len(queue) + 1] = r
        /\ \A i \in 1..Len(queue) : queue'[i] = queue[i]
    BY <1>5, <1>7
  <2>3. pc'[r] = "queued" /\ (\A q \in Requests : q # r => pc'[q] = pc[q]) /\ pc' \in [Requests -> States]
    BY <1>3, <1>7 DEF States
  <2>4. TypeOK'
    BY <1>1, <1>2, <1>7, <2>1, <2>2, <2>3 DEF TypeOK
  <2>5. PoolBounded' /\ WorkConserving'
    BY <1>1, <1>4, <1>5, <1>7, <2>1, <2>2 DEF PoolBounded, WorkConserving
  <2>6. ServedInOrder'
    <3>1. Len(queue') = read' - Len(started') /\ Len(started') <= read'
      BY <1>1, <1>2, <1>5, <2>1, <2>2
    <3>2. \A i \in 1..Len(queue) : queue[i] = Len(started) + i
      BY <1>1, <1>5 DEF ServedInOrder
    <3>3. r = Len(started) + Len(queue) + 1
      BY <1>1, <1>2, <1>5
    <3>4. \A i \in DOMAIN queue' : queue'[i] = Len(started') + i
      <4>1. SUFFICES ASSUME NEW i \in 1..(Len(queue) + 1) PROVE queue'[i] = Len(started) + i
        BY <2>1, <2>2
      <4>2. CASE i = Len(queue) + 1
        BY <1>5, <2>2, <3>3, <4>2
      <4>3. CASE i \in 1..Len(queue)
        BY <2>2, <3>2, <4>3
      <4> QED BY <1>5, <4>1, <4>2, <4>3
    <3>5. \A i \in DOMAIN started' : started'[i] = i
      BY <2>1 DEF ServedInOrder
    <3> QED BY <3>1, <3>4, <3>5 DEF ServedInOrder
  <2>7. PlacedByState'
    <3>1. \A q \in Requests : pc'[q] = "unread" <=> q > read'
      BY <1>1, <1>2, <2>3 DEF PlacedByState, Requests
    <3>2. \A q \in tasks' : pc'[q] \notin {"unread", "refused", "queued"}
      BY <1>3, <1>7, <2>3 DEF PlacedByState, TypeOK
    <3>3. \A i \in DOMAIN queue' : pc'[queue'[i]] = "queued"
      BY <1>3, <1>5, <2>2, <2>3 DEF PlacedByState
    <3>4. \A q \in cancelled' : pc'[q] # "ended"
      BY <1>3, <2>1, <2>3 DEF TypeOK, PlacedByState
    <3> QED BY <1>1, <2>1, <3>1, <3>2, <3>3, <3>4 DEF PlacedByState
  <2> QED BY <2>4, <2>5, <2>6, <2>7
<1>8. CASE /\ Cardinality(tasks) < MaxActive
           /\ queue' = queue
           /\ tasks' = tasks \cup {r}
           /\ pc' = [pc EXCEPT ![r] = "created"]
           /\ started' = Append(started, r)
           /\ UNCHANGED <<channelVars, cancelled>>
  <2>1. UNCHANGED <<closed, openTunnels, broken, cancelled>>
    BY <1>8 DEF channelVars
  <2>2. queue = <<>> /\ Len(queue) = 0 /\ Len(started) = read
    <3>1. queue = <<>>
      BY <1>4, <1>8 DEF WorkConserving
    <3>2. Len(queue) = 0
      BY <3>1
    <3> QED BY <1>2, <1>5, <3>1, <3>2
  <2>3. /\ started' \in Seq(Requests) /\ Len(started') = read + 1
        /\ DOMAIN started' = 1..(read + 1)
        /\ started'[read + 1] = r
        /\ \A i \in 1..read : started'[i] = started[i]
    BY <1>5, <1>8, <2>2
  <2>4. pc'[r] = "created" /\ (\A q \in Requests : q # r => pc'[q] = pc[q]) /\ pc' \in [Requests -> States]
    BY <1>3, <1>8 DEF States
  <2>5. IsFiniteSet(tasks') /\ Cardinality(tasks') <= MaxActive
    BY <1>4, <1>8, AddedTask
  <2>6. TypeOK'
    BY <1>1, <1>2, <1>5, <1>8, <2>1, <2>3, <2>4, <2>5 DEF TypeOK
  <2>7. PoolBounded' /\ WorkConserving'
    BY <1>4, <1>8, <2>2, <2>5 DEF PoolBounded, WorkConserving
  <2>8. ServedInOrder'
    BY <1>1, <1>2, <1>5, <1>8, <2>1, <2>2, <2>3 DEF ServedInOrder
  <2>9. PlacedByState'
    <3>1. \A q \in Requests : pc'[q] = "unread" <=> q > read'
      BY <1>1, <1>2, <2>4 DEF PlacedByState, Requests
    <3>2. \A q \in tasks' : pc'[q] \notin {"unread", "refused", "queued"}
      BY <1>3, <1>8, <2>4 DEF PlacedByState, TypeOK
    <3>3. \A i \in DOMAIN queue' : pc'[queue'[i]] = "queued"
      BY <1>8, <2>2
    <3>4. \A q \in cancelled' : pc'[q] # "ended"
      BY <1>3, <2>1, <2>4 DEF TypeOK, PlacedByState
    <3> QED BY <1>1, <2>1, <3>1, <3>2, <3>3, <3>4 DEF PlacedByState
  <2> QED BY <2>6, <2>7, <2>8, <2>9
<1> QED BY <1>6, <1>7, <1>8 DEF ReadRequest, Dispatch

LEMMA TaskDoneKeepsPool ==
  ASSUME PoolInv, NEW r \in Requests, TaskDone(r)
  PROVE  PoolInv'
<1> USE DEF PoolInv
<1> DEFINE rest == tasks \ {r}
<1>1. /\ r \in tasks /\ pc[r] = "ended" /\ pc \in [Requests -> States]
      /\ UNCHANGED <<read, failed, sock, reply, sent, delivered>>
  BY DEF TaskDone, handlerVars, TypeOK
<1>2. r \notin cancelled /\ cancelled \subseteq rest /\ rest \subseteq tasks
  BY <1>1 DEF PlacedByState, TypeOK
<1>3. /\ IsFiniteSet(tasks) /\ Cardinality(tasks) \in Nat /\ Cardinality(tasks) <= MaxActive
      /\ MaxActive \in Nat /\ MaxQueued \in Nat /\ read \in Nat
  BY FS_CardinalityType, ProxyAssumption DEF TypeOK, PoolBounded
<1>4. /\ IsFiniteSet(rest) /\ Cardinality(rest) \in Nat
      /\ Cardinality(rest) = Cardinality(tasks) - 1 /\ Cardinality(rest) < MaxActive
  BY <1>1, <1>3, RemovedTask
<1>5. /\ Len(queue) \in Nat /\ Len(started) \in Nat
      /\ queue \in Seq(Requests) /\ started \in Seq(Requests)
      /\ DOMAIN queue = 1..Len(queue) /\ DOMAIN started = 1..Len(started)
  BY DEF TypeOK
\* The handler failed: the channel closes.
<1>6. CASE ~closed /\ r \in failed /\ Finish(rest) /\ tasks' = rest /\ UNCHANGED pc
  <2>1. started' = started
    BY <1>6 DEF Finish
  <2>2. /\ PoolBounded' /\ WorkConserving' /\ closed' = TRUE /\ queue' = <<>>
        /\ cancelled' \subseteq tasks' /\ broken' \in BOOLEAN /\ openTunnels' \subseteq Tunnels
        /\ \A q \in cancelled' : pc[q] # "ended"
    BY <1>2, <1>6, FinishKeepsPool
  <2>3. TypeOK'
    BY <1>1, <1>4, <1>6, <2>1, <2>2 DEF TypeOK
  <2>4. ServedInOrder'
    BY <1>1, <2>1, <2>2 DEF ServedInOrder
  <2>5. PlacedByState'
    BY <1>1, <1>2, <1>6, <2>2 DEF PlacedByState
  <2> QED BY <2>2, <2>3, <2>4, <2>5
\* The next request waits: its handler takes the place of the one that ended.
<1>7. CASE ~closed /\ r \notin failed /\ queue # <<>> /\ Dispatch(Head(queue), rest, Tail(queue))
  <2> DEFINE next == Head(queue)
  <2>1. /\ queue' = Tail(queue) /\ tasks' = rest \cup {next}
        /\ pc' = [pc EXCEPT ![next] = "created"]
        /\ started' = Append(started, next)
        /\ UNCHANGED <<closed, openTunnels, broken, cancelled>>
    BY <1>3, <1>4, <1>7 DEF Dispatch, channelVars
  <2>2. /\ Len(queue) >= 1 /\ Len(queue) = read - Len(started)
        /\ \A i \in 1..Len(queue) : queue[i] = Len(started) + i
    BY <1>5, <1>7 DEF ServedInOrder
  <2>3. next = queue[1] /\ next = Len(started) + 1 /\ next \in Requests /\ pc[next] = "queued"
    <3>1. next = queue[1]
      BY <1>5, <1>7
    <3>2. 1 \in DOMAIN queue
      BY <1>5, <2>2
    <3> QED BY <1>5, <2>2, <3>1, <3>2 DEF PlacedByState
  <2>4. next \notin tasks /\ next # r
    BY <1>1, <2>3 DEF PlacedByState
  <2>5. /\ IsFiniteSet(tasks') /\ Cardinality(tasks') = Cardinality(tasks)
        /\ Cardinality(tasks') <= MaxActive
    <3>1. next \notin rest
      BY <2>4
    <3>2. /\ IsFiniteSet(rest \cup {next}) /\ Cardinality(rest \cup {next}) <= MaxActive
          /\ Cardinality(rest \cup {next}) = Cardinality(rest) + 1
      BY <1>3, <1>4, <3>1, AddedTask
    <3> QED BY <1>3, <1>4, <2>1, <3>2
  <2>6. /\ queue' \in Seq(Requests) /\ Len(queue') = Len(queue) - 1
        /\ DOMAIN queue' = 1..(Len(queue) - 1)
        /\ \A i \in 1..(Len(queue) - 1) : queue'[i] = queue[i + 1]
    BY <1>5, <1>7, <2>1, <2>2
  <2>7. /\ started' \in Seq(Requests) /\ Len(started') = Len(started) + 1
        /\ DOMAIN started' = 1..(Len(started) + 1)
        /\ started'[Len(started) + 1] = next
        /\ \A i \in 1..Len(started) : started'[i] = started[i]
    BY <1>5, <2>1, <2>3
  <2>8. pc'[next] = "created" /\ (\A q \in Requests : q # next => pc'[q] = pc[q]) /\ pc' \in [Requests -> States]
    BY <1>1, <2>1, <2>3 DEF States
  <2>9. TypeOK'
    <3>1. tasks' \subseteq Requests /\ cancelled' \subseteq tasks'
      BY <1>2, <2>1, <2>3 DEF TypeOK
    <3>2. \A q \in Requests : pc'[q] \notin {"unread", "refused", "queued", "ended"} => q \in tasks'
      BY <1>1, <2>1, <2>3, <2>8 DEF TypeOK
    <3> QED BY <1>1, <2>1, <2>5, <2>6, <2>7, <2>8, <3>1, <3>2 DEF TypeOK
  <2>10. PoolBounded'
    BY <1>3, <1>5, <2>5, <2>6 DEF PoolBounded
  <2>11. WorkConserving'
    BY <1>7, <2>1, <2>5 DEF WorkConserving
  <2>12. ServedInOrder'
    <3>1. Len(queue') = read' - Len(started') /\ Len(started') <= read'
      BY <1>1, <1>3, <1>5, <2>2, <2>6, <2>7
    <3>2. \A i \in DOMAIN queue' : queue'[i] = Len(started') + i
      BY <1>5, <2>2, <2>6, <2>7, SMTT(30)
    <3>3. \A i \in DOMAIN started' : started'[i] = i
      BY <1>5, <2>3, <2>7 DEF ServedInOrder
    <3> QED BY <3>1, <3>2, <3>3 DEF ServedInOrder
  <2>13. PlacedByState'
    <3>1. \A q \in Requests : pc'[q] = "unread" <=> q > read'
      <4>1. next <= read
        BY <1>3, <1>5, <2>2, <2>3
      <4> QED BY <1>1, <1>3, <2>3, <2>8, <4>1 DEF PlacedByState, Requests
    <3>2. \A q \in tasks' : pc'[q] \notin {"unread", "refused", "queued"}
      BY <2>1, <2>3, <2>8 DEF PlacedByState, TypeOK
    <3>3. \A i \in DOMAIN queue' : pc'[queue'[i]] = "queued"
      <4>1. SUFFICES ASSUME NEW i \in 1..(Len(queue) - 1) PROVE pc'[queue[i + 1]] = "queued"
        BY <2>6
      <4>2. i + 1 \in DOMAIN queue /\ queue[i + 1] = Len(started) + i + 1
        BY <1>5, <2>2
      <4>3. queue[i + 1] # next /\ queue[i + 1] \in Requests /\ pc[queue[i + 1]] = "queued"
        BY <1>5, <2>3, <4>2 DEF PlacedByState
      <4> QED BY <2>8, <4>3
    <3>4. \A q \in cancelled' : pc'[q] # "ended"
      BY <2>1, <2>4, <2>8 DEF TypeOK, PlacedByState
    <3> QED BY <1>7, <2>1, <3>1, <3>2, <3>3, <3>4 DEF PlacedByState
  <2> QED BY <2>9, <2>10, <2>11, <2>12, <2>13
<1>8. CASE /\ closed \/ (r \notin failed /\ queue = <<>>)
           /\ tasks' = rest
           /\ UNCHANGED <<queue, started, channelVars, pc, cancelled>>
  <2>1. UNCHANGED <<queue, started, closed, openTunnels, broken, pc, cancelled>> /\ queue = <<>>
    BY <1>8 DEF channelVars, PlacedByState
  <2>2. TypeOK'
    BY <1>1, <1>2, <1>4, <1>8, <2>1 DEF TypeOK
  <2>3. PoolBounded' /\ WorkConserving'
    BY <1>3, <1>4, <1>8, <2>1 DEF PoolBounded, WorkConserving
  <2>4. ServedInOrder'
    BY <1>1, <2>1 DEF ServedInOrder
  <2>5. PlacedByState'
    BY <1>1, <1>2, <1>8, <2>1 DEF PlacedByState
  <2> QED BY <2>2, <2>3, <2>4, <2>5
<1> QED BY <1>6, <1>7, <1>8 DEF TaskDone

LEMMA ChannelClosesKeepsPool ==
  ASSUME PoolInv, ChannelCloses
  PROVE  PoolInv'
<1> USE DEF PoolInv
<1>1. /\ ~closed /\ Finish(tasks)
      /\ UNCHANGED <<tasks, read, pc, failed, sock, reply, sent, delivered, started>>
  BY DEF ChannelCloses, Finish, handlerVars
<1>2. cancelled \subseteq tasks
  BY DEF TypeOK
<1>3. /\ PoolBounded' /\ WorkConserving' /\ closed' = TRUE /\ queue' = <<>>
      /\ cancelled' \subseteq tasks' /\ broken' \in BOOLEAN /\ openTunnels' \subseteq Tunnels
      /\ \A q \in cancelled' : pc[q] # "ended"
  BY <1>1, <1>2, FinishKeepsPool
<1>4. TypeOK'
  BY <1>1, <1>3 DEF TypeOK
<1>5. ServedInOrder'
  BY <1>1, <1>3 DEF ServedInOrder
<1>6. PlacedByState'
  BY <1>1, <1>3 DEF PlacedByState
<1> QED BY <1>3, <1>4, <1>5, <1>6

\* A tunnel that closes, a transport that is lost and a stutter change nothing
\* the pool looks at.
LEMMA OthersKeepPool ==
  ASSUME PoolInv,
         UNCHANGED <<poolVars, closed, pc, cancelled, handlerVars>>,
         openTunnels' \subseteq openTunnels, broken' \in BOOLEAN
  PROVE  PoolInv'
<1> USE DEF PoolInv, poolVars, handlerVars
<1>1. TypeOK'
  BY DEF TypeOK
<1>2. PoolBounded' /\ WorkConserving' /\ ServedInOrder'
  BY DEF PoolBounded, WorkConserving, ServedInOrder
<1>3. PlacedByState'
  BY DEF PlacedByState
<1> QED BY <1>1, <1>2, <1>3

-----------------------------------------------------------------------------
\* The handler invariant

\* A step of the pool moves a request that has no handler yet, or none, and if
\* it closes the channel it cancels every handler that waits for the write lock.
LEMMA PoolStepKeepsHandlers ==
  ASSUME HandlerInv, UNCHANGED handlerVars, broken => broken',
         \A q \in Requests : \/ pc'[q] = pc[q]
                             \/ /\ pc[q] \notin {"handshaking", "locking", "draining", "ended"}
                                /\ pc'[q] \notin {"handshaking", "locking", "draining", "ended"},
         closed' => \A q \in Requests : pc[q] = "locking" => q \in cancelled'
  PROVE  HandlerInv'
<1> USE DEF handlerVars
<1> SUFFICES ASSUME NEW q \in Requests PROVE HandlerOK(q)'
  BY DEF HandlerInv
<1> QED BY DEF HandlerInv, HandlerOK

LEMMA HandlerKeepsHandlers ==
  ASSUME TypeOK, HandlerInv, NEW r \in Requests, Handler(r)
  PROVE  HandlerInv'
<1>1. /\ UNCHANGED <<closed, openTunnels, broken>>
      /\ cancelled' = cancelled \/ cancelled' = cancelled \ {r}
      /\ \A q \in Requests : q # r => pc'[q] = pc[q]
  BY HandlerFrame DEF channelVars, TypeOK
<1>2. ASSUME NEW q \in Requests, q # r PROVE HandlerOK(q)'
  <2>1. /\ sock'[q] = sock[q] /\ reply'[q] = reply[q] /\ sent'[q] = sent[q]
        /\ q \in delivered' <=> q \in delivered
    BY <1>2 DEF Handler, HandlerStart, Connected, ConnectFails, HandshakeFails, HandshakeDone,
                SocketClosed, WriteReply, WriteDone, WriteFails, WriteCancelled,
                Respond, SetSock, handlerVars, TypeOK
  <2> QED BY <1>1, <1>2, <2>1 DEF HandlerInv, HandlerOK
<1>3. HandlerOK(r)'
  <2> USE DEF TypeOK, HandlerInv, HandlerOK, To, SetSock, Respond, handlerVars, channelVars
  <2>1. CASE HandlerStart(r)
    BY <2>1 DEF HandlerStart
  <2>2. CASE Connected(r)
    BY <2>2 DEF Connected
  <2>3. CASE ConnectFails(r)
    BY <2>3 DEF ConnectFails
  <2>4. CASE HandshakeFails(r)
    BY <2>4 DEF HandshakeFails
  <2>5. CASE HandshakeDone(r)
    <3>1. /\ pc[r] = "handshaking" /\ HandlerOK(r) /\ sent'[r] = <<>>
          /\ UNCHANGED <<closed, broken, sent>> /\ r \notin delivered
      BY <2>5 DEF HandshakeDone
    <3>2. CASE /\ pc'[r] \in {"discarding", "rejecting"} /\ sock'[r] = "closed"
               /\ UNCHANGED <<delivered, reply>>
      BY <3>1, <3>2
    <3>3. CASE /\ ~closed /\ delivered' = delivered \cup {r} /\ sock' = sock
               /\ pc'[r] = "locking" /\ reply'[r] = "ok"
      BY <3>1, <3>3
    <3> QED BY <2>5, <3>1, <3>2, <3>3 DEF HandshakeDone
  <2>6. CASE SocketClosed(r)
    <3>1. /\ pc[r] \in {"discarding", "aborting", "rejecting"} /\ HandlerOK(r)
          /\ UNCHANGED <<closed, broken, sock, sent, delivered>>
      BY <2>6 DEF SocketClosed
    <3>2. CASE pc'[r] = "ended"
      BY <3>1, <3>2
    <3>3. CASE pc'[r] = "locking" /\ ~closed /\ reply'[r] \in {"error", "closed"}
      BY <3>1, <3>3
    <3> QED BY <2>6, <3>1, <3>2, <3>3 DEF SocketClosed
  <2>7. CASE WriteReply(r)
    <3>1. /\ pc[r] = "locking" /\ r \notin cancelled /\ pc'[r] = "draining"
          /\ UNCHANGED <<sock, reply, delivered>> /\ HandlerOK(r) /\ ~closed
      BY <2>7 DEF WriteReply
    <3>2. CASE broken
      BY <2>7, <3>1, <3>2 DEF WriteReply
    <3>3. CASE ~broken
      <4>1. sent[r] = <<>>
        BY <3>1, <3>3
      <4>2. sent'[r] = <<IF reply[r] = "ok" THEN "ok" ELSE "error">>
        BY <2>7, <3>3, <4>1 DEF WriteReply
      <4>3. <<"ok">> # <<"error">> /\ <<"ok">> # <<>> /\ <<"error">> # <<>>
        OBVIOUS
      <4>4. CASE reply[r] = "ok"
        <5>1. sent'[r] = <<"ok">> /\ r \in delivered
          BY <3>1, <4>2, <4>4
        <5> QED BY <3>1, <4>3, <5>1
      <4>5. CASE reply[r] # "ok"
        <5>1. sent'[r] = <<"error">> /\ r \notin delivered
          BY <3>1, <3>3, <4>2, <4>5
        <5> QED BY <3>1, <4>3, <5>1
      <4> QED BY <4>4, <4>5
    <3> QED BY <3>2, <3>3
  <2>8. CASE WriteDone(r)
    BY <2>8 DEF WriteDone
  <2>9. CASE WriteFails(r)
    BY <2>9 DEF WriteFails
  <2>10. CASE WriteCancelled(r)
    BY <2>10 DEF WriteCancelled
  <2> QED BY <2>1, <2>2, <2>3, <2>4, <2>5, <2>6, <2>7, <2>8, <2>9, <2>10 DEF Handler
<1> QED BY <1>2, <1>3 DEF HandlerInv

-----------------------------------------------------------------------------
\* The theorems

LEMMA StepKeepsPool == PoolInv /\ [Next]_vars => PoolInv'
<1> SUFFICES ASSUME PoolInv, [Next]_vars PROVE PoolInv'
  OBVIOUS
<1>1. ASSUME NEW r \in Requests, ReadRequest(r) PROVE PoolInv'
  BY <1>1, ReadKeepsPool
<1>2. ASSUME NEW r \in Requests, TaskDone(r) PROVE PoolInv'
  BY <1>2, TaskDoneKeepsPool
<1>3. ASSUME NEW r \in Requests, Handler(r) PROVE PoolInv'
  BY <1>3, HandlerKeepsPool
<1>4. ASSUME NEW t \in Tunnels, CloseTunnel(t) PROVE PoolInv'
  <2>1. UNCHANGED <<poolVars, closed, pc, cancelled, handlerVars>> /\ openTunnels' \subseteq openTunnels
    BY <1>4 DEF CloseTunnel
  <2>2. broken' \in BOOLEAN
    BY <1>4 DEF CloseTunnel, PoolInv, TypeOK
  <2> QED BY <2>1, <2>2, OthersKeepPool
<1>5. CASE ChannelCloses
  BY <1>5, ChannelClosesKeepsPool
<1>6. CASE TransportLost
  BY <1>6, OthersKeepPool DEF TransportLost
<1>7. CASE UNCHANGED vars
  <2>1. UNCHANGED <<poolVars, closed, pc, cancelled, handlerVars>> /\ openTunnels' \subseteq openTunnels
    BY <1>7 DEF vars, channelVars
  <2>2. broken' \in BOOLEAN
    BY <1>7 DEF vars, channelVars, PoolInv, TypeOK
  <2> QED BY <2>1, <2>2, OthersKeepPool
<1> QED BY <1>1, <1>2, <1>3, <1>4, <1>5, <1>6, <1>7 DEF Next

\* Whoever waits for the write lock has a task, so closing the channel reaches it.
LEMMA FinishReachesWriters ==
  ASSUME PoolInv, NEW active \in SUBSET tasks, Finish(active),
         \A q \in tasks \ active : pc[q] = "ended"
  PROVE  \A q \in Requests : pc[q] = "locking" => q \in cancelled'
BY DEF PoolInv, TypeOK, Finish

LEMMA StepKeepsHandlers == IInv /\ [Next]_vars => HandlerInv'
<1> SUFFICES ASSUME IInv, [Next]_vars PROVE HandlerInv'
  OBVIOUS
<1> USE DEF IInv
<1>0. closed => \A q \in Requests : pc[q] = "locking" => q \in cancelled
  BY DEF HandlerInv, HandlerOK
<1>1. ASSUME NEW r \in Requests, NEW active \in SUBSET tasks, NEW waiting,
             Dispatch(r, active, waiting), pc[r] \in {"unread", "queued"}, ~closed,
             \A q \in tasks \ active : pc[q] = "ended",
             UNCHANGED handlerVars
      PROVE  HandlerInv'
  <2>1. broken' = broken
    BY <1>1 DEF Dispatch, Finish, channelVars
  <2>2. \A q \in Requests :
          \/ pc'[q] = pc[q]
          \/ /\ pc[q] \notin {"handshaking", "locking", "draining", "ended"}
             /\ pc'[q] \notin {"handshaking", "locking", "draining", "ended"}
    BY <1>1 DEF Dispatch, PoolInv, TypeOK
  <2>3. closed' => \A q \in Requests : pc[q] = "locking" => q \in cancelled'
    BY <1>1, FinishReachesWriters DEF Dispatch, channelVars
  <2> QED BY <1>1, <2>1, <2>2, <2>3, PoolStepKeepsHandlers
<1>2. ASSUME NEW r \in Requests, ReadRequest(r) PROVE HandlerInv'
  <2>1. /\ ~closed /\ Dispatch(r, tasks, queue) /\ UNCHANGED handlerVars
        /\ pc[r] = "unread"
    BY <1>2, ProxyAssumption DEF ReadRequest, PoolInv, PlacedByState, TypeOK, Requests
  <2> QED BY <2>1, <1>1
<1>3. ASSUME NEW r \in Requests, TaskDone(r) PROVE HandlerInv'
  <2>1. pc[r] = "ended" /\ UNCHANGED handlerVars /\ tasks \ {r} \subseteq tasks
        /\ \A q \in tasks \ (tasks \ {r}) : pc[q] = "ended"
    BY <1>3 DEF TaskDone
  <2>2. CASE ~closed /\ r \in failed /\ Finish(tasks \ {r}) /\ UNCHANGED pc
    BY <2>1, <2>2, FinishReachesWriters, PoolStepKeepsHandlers DEF Finish
  <2>3. CASE ~closed /\ queue # <<>> /\ Dispatch(Head(queue), tasks \ {r}, Tail(queue))
    <3>1. Head(queue) = queue[1] /\ 1 \in DOMAIN queue /\ Head(queue) \in Requests
      BY <2>3 DEF PoolInv, TypeOK
    <3>2. pc[Head(queue)] = "queued"
      BY <3>1 DEF PoolInv, PlacedByState
    <3> QED BY <1>1, <2>1, <2>3, <3>1, <3>2
  <2>4. CASE UNCHANGED <<queue, started, channelVars, pc, cancelled>>
    BY <1>0, <2>1, <2>4, PoolStepKeepsHandlers DEF channelVars
  <2> QED BY <1>3, <2>2, <2>3, <2>4 DEF TaskDone
<1>4. ASSUME NEW r \in Requests, Handler(r) PROVE HandlerInv'
  BY <1>4, HandlerKeepsHandlers DEF PoolInv
<1>5. ASSUME NEW t \in Tunnels, CloseTunnel(t) PROVE HandlerInv'
  BY <1>0, <1>5, PoolStepKeepsHandlers DEF CloseTunnel
<1>6. CASE ChannelCloses
  BY <1>6, FinishReachesWriters, PoolStepKeepsHandlers DEF ChannelCloses, Finish
<1>7. CASE TransportLost
  BY <1>0, <1>7, PoolStepKeepsHandlers DEF TransportLost
<1>8. CASE UNCHANGED vars
  BY <1>0, <1>8, PoolStepKeepsHandlers DEF vars, channelVars
<1> QED BY <1>2, <1>3, <1>4, <1>5, <1>6, <1>7, <1>8 DEF Next

\* The inductive invariant holds in every reachable state of every instance.
THEOREM Invariance == Spec => []IInv
<1>1. IInv /\ [Next]_vars => IInv'
  BY StepKeepsPool, StepKeepsHandlers DEF IInv
<1> QED BY InitIInv, <1>1, PTL DEF Spec

\* A task is in the pool exactly from its creation to its done callback
\* (_proxy_tasks of control.py), whatever the pool's size.
THEOREM TypeCorrect == Spec => []TypeOK
BY Invariance, PTL DEF IInv, PoolInv

\* _dispatch_proxy_conn_req() never starts a task beyond
\* _MAX_ACTIVE_PROXY_CONNECTIONS nor queues one beyond
\* _MAX_QUEUED_PROXY_CONNECTIONS, called from the read loop or a done callback.
THEOREM PoolIsBounded == Spec => []PoolBounded
BY Invariance, PTL DEF IInv, PoolInv

\* A queued request never waits beside a free place: a done callback of
\* _proxy_task_done() is due whenever the queue holds a request.
THEOREM NoRequestLeftBehind == Spec => []WorkConserving
BY Invariance, PTL DEF IInv, PoolInv

\* Handlers start in the order the read loop read their requests.
THEOREM RequestsServedInOrder == Spec => []ServedInOrder
BY Invariance, PTL DEF IInv, PoolInv

\* The pool of a control channel, of any size: bounded, work-conserving, first in
\* first out.
THEOREM PoolIsDisciplined == Spec => []PoolDiscipline
BY PoolIsBounded, NoRequestLeftBehind, RequestsServedInOrder, PTL DEF PoolDiscipline

\* However the handler of a request ends, it leaves no open socket but the one
\* it delivered to its tunnel.
THEOREM HandlersLeakNoSocket == Spec => []NoSocketLeak
<1>1. IInv => NoSocketLeak
  BY DEF IInv, HandlerInv, HandlerOK, NoSocketLeak
<1> QED BY Invariance, <1>1, PTL

\* The engine reads at most one response per request, and it tells the truth
\* about who has the stream.
THEOREM RepliesMatchDeliveries == Spec => []ReplyMatchesDelivery
<1>1. IInv => ReplyMatchesDelivery
  <2> SUFFICES ASSUME IInv, NEW r \in Requests
               PROVE  /\ Len(sent[r]) <= 1
                      /\ sent[r] = <<"ok">> => r \in delivered
                      /\ sent[r] = <<"error">> => r \notin delivered
    BY DEF ReplyMatchesDelivery
  <2>1. /\ sent[r] \in {<<>>, <<"ok">>, <<"error">>}
        /\ sent[r] = <<"ok">> => r \in delivered
        /\ sent[r] = <<"error">> => r \notin delivered
    BY DEF IInv, HandlerInv, HandlerOK
  <2>2. \A s \in {<<>>, <<"ok">>, <<"error">>} : Len(s) <= 1
    OBVIOUS
  <2> QED BY <2>1, <2>2
<1> QED BY Invariance, <1>1, PTL

\* Engine, tunnel and socket agree about every stream of _handle_proxy_conn_req().
THEOREM HandlersAgree == Spec => []HandlersSettle
BY HandlersLeakNoSocket, RepliesMatchDeliveries, PTL DEF HandlersSettle

\* On a closed channel nobody writes a response or delivers a stream: whoever
\* passed the closed check of _write() before is cancelled at the lock.
THEOREM ClosedChannelIsSilent == Spec => SilentAfterClose
<1>1. IInv /\ [Next]_vars => (closed => UNCHANGED <<sent, delivered>>)
  <2> SUFFICES ASSUME IInv, [Next]_vars, closed PROVE UNCHANGED <<sent, delivered>>
    OBVIOUS
  <2>1. ASSUME NEW r \in Requests, Handler(r) PROVE UNCHANGED <<sent, delivered>>
    <3>1. pc[r] = "locking" => r \in cancelled
      BY DEF IInv, HandlerInv, HandlerOK
    <3> QED BY <2>1, <3>1 DEF Handler, HandlerStart, Connected, ConnectFails, HandshakeFails,
          HandshakeDone, SocketClosed, WriteReply, WriteDone, WriteFails, WriteCancelled, handlerVars
  <2> QED BY <2>1 DEF Next, ReadRequest, TaskDone, CloseTunnel, ChannelCloses, TransportLost,
                      handlerVars, vars
<1>2. IInv /\ [Next]_vars => [closed => UNCHANGED <<sent, delivered>>]_vars
  BY <1>1
<1> QED BY Invariance, <1>2, PTL DEF Spec, SilentAfterClose

-----------------------------------------------------------------------------
\* The pool implements the station

\* The station is full when the pool is.
LEMMA StationFull == Station!Full <=> Cardinality(tasks) >= MaxActive
<1>1. Station!Cardinality(tasks) = Cardinality(tasks)
  BY DEF Station!Cardinality, Cardinality
<1> QED BY <1>1 DEF Station!Full

LEMMA ReadArrives ==
  ASSUME PoolInv, NEW r \in Requests, ReadRequest(r)
  PROVE  Station!Arrive(r)
<1> DEFINE arrived == [i \in 1..read |-> i]
<1> USE DEF PoolInv
<1>1. /\ ~closed /\ r = read + 1 /\ read' = r /\ Dispatch(r, tasks, queue)
      /\ read \in Nat
  BY ProxyAssumption DEF ReadRequest, TypeOK, Requests
<1>2. [i \in 1..read' |-> i] = Append(arrived, r)
  <2>1. arrived \in Seq(Nat) /\ Len(arrived) = read
    BY <1>1
  <2>2. /\ Append(arrived, r) \in Seq(Nat) /\ Len(Append(arrived, r)) = read + 1
        /\ \A i \in 1..read : Append(arrived, r)[i] = i
        /\ Append(arrived, r)[read + 1] = r
    BY <1>1, <2>1
  <2>3. [i \in 1..read' |-> i] \in Seq(Nat) /\ Len([i \in 1..read' |-> i]) = read + 1
    BY <1>1
  <2>4. \A i \in 1..(read + 1) : [j \in 1..read' |-> j][i] = Append(arrived, r)[i]
    BY <1>1, <2>2
  <2> QED BY <2>2, <2>3, <2>4, SeqEqual
<1>3. \A i \in DOMAIN arrived : arrived[i] # r
  BY <1>1
<1>4. MaxActive \in Nat /\ Cardinality(tasks) \in Nat /\ Cardinality(tasks) <= MaxActive
      /\ Len(queue) \in Nat /\ MaxQueued \in Nat
  BY ProxyAssumption, FS_CardinalityType DEF TypeOK, PoolBounded
<1>5. CASE Cardinality(tasks) >= MaxActive /\ Len(queue) >= MaxQueued /\ Finish(tasks) /\ tasks' = tasks
  BY <1>1, <1>2, <1>3, <1>5, StationFull DEF Station!Arrive, Finish
<1>6. CASE /\ Cardinality(tasks) >= MaxActive /\ Len(queue) < MaxQueued
           /\ queue' = Append(queue, r)
           /\ UNCHANGED <<tasks, channelVars, started>>
  BY <1>1, <1>2, <1>3, <1>6, StationFull DEF Station!Arrive, channelVars
<1>7. CASE /\ Cardinality(tasks) < MaxActive /\ queue' = queue /\ tasks' = tasks \cup {r}
           /\ started' = Append(started, r) /\ UNCHANGED channelVars
  <2>1. queue = <<>>
    BY <1>4, <1>7 DEF WorkConserving
  <2>2. ~Station!Full
    BY <1>4, <1>7, StationFull
  <2> QED BY <1>1, <1>2, <1>3, <1>7, <2>1, <2>2 DEF Station!Arrive, channelVars
<1> QED BY <1>1, <1>5, <1>6, <1>7 DEF Dispatch

LEMMA TaskDoneDeparts ==
  ASSUME PoolInv, NEW r \in Requests, TaskDone(r)
  PROVE  Station!Depart(r)
<1> USE DEF PoolInv
<1>1. r \in tasks /\ [i \in 1..read' |-> i] = [i \in 1..read |-> i]
  BY DEF TaskDone
<1>2. CASE ~closed /\ Finish(tasks \ {r}) /\ tasks' = tasks \ {r}
  BY <1>1, <1>2 DEF Finish, Station!Depart
<1>3. CASE ~closed /\ queue # <<>> /\ Dispatch(Head(queue), tasks \ {r}, Tail(queue))
  <2>1. /\ Cardinality(tasks) \in Nat /\ Cardinality(tasks) <= MaxActive /\ MaxActive \in Nat
        /\ IsFiniteSet(tasks)
    BY ProxyAssumption, FS_CardinalityType DEF TypeOK, PoolBounded
  <2>2. Cardinality(tasks \ {r}) \in Nat /\ Cardinality(tasks \ {r}) < MaxActive
    BY <1>1, <2>1, RemovedTask
  <2>3. /\ queue' = Tail(queue) /\ tasks' = (tasks \ {r}) \cup {Head(queue)}
        /\ started' = Append(started, Head(queue)) /\ closed' = closed
    BY <1>3, <2>1, <2>2 DEF Dispatch, channelVars
  <2> QED BY <1>1, <1>3, <2>3 DEF Station!Depart
<1>4. CASE /\ closed \/ queue = <<>>
           /\ tasks' = tasks \ {r} /\ UNCHANGED <<queue, started, channelVars>>
  BY <1>1, <1>4 DEF Station!Depart, channelVars, PlacedByState
<1> QED BY <1>2, <1>3, <1>4 DEF TaskDone

\* The pool of _dispatch_proxy_conn_req() and _proxy_task_done() behaves like a
\* FIFO station: requests enter service as they arrive, wait only while every
\* server is busy, and shut the station when they find no place.
THEOREM PoolIsAStation == Spec => StationSpec
<1>1. Init => Station!Init
  <2> SUFFICES ASSUME Init PROVE [i \in 1..read |-> i] = <<>>
    BY DEF Init, Station!Init
  <2>1. read = 0
    BY DEF Init
  <2> QED BY <2>1
<1>2. PoolInv /\ [Next]_vars => [Station!Next]_(Station!vars)
  <2> SUFFICES ASSUME PoolInv, [Next]_vars PROVE [Station!Next]_(Station!vars)
    OBVIOUS
  <2>1. ASSUME NEW r \in Requests, ReadRequest(r) PROVE Station!Next
    BY <2>1, ReadArrives DEF Station!Next
  <2>2. ASSUME NEW r \in Requests, TaskDone(r) PROVE Station!Next
    BY <2>2, TaskDoneDeparts DEF Station!Next
  <2>3. ASSUME NEW r \in Requests, Handler(r) PROVE UNCHANGED Station!vars
    BY <2>3, HandlerFrame DEF PoolInv, Station!vars, poolVars, channelVars
  <2>4. ASSUME NEW t \in Tunnels, CloseTunnel(t) PROVE UNCHANGED Station!vars
    BY <2>4 DEF CloseTunnel, Station!vars, poolVars
  <2>5. CASE ChannelCloses
    BY <2>5 DEF ChannelCloses, Finish, Station!Next, Station!Shut
  <2>6. CASE TransportLost
    BY <2>6 DEF TransportLost, Station!vars, poolVars
  <2>7. CASE UNCHANGED vars
    BY <2>7 DEF vars, Station!vars, poolVars, channelVars
  <2> QED BY <2>1, <2>2, <2>3, <2>4, <2>5, <2>6, <2>7 DEF Next
<1> QED BY <1>1, <1>2, Invariance, PTL DEF Spec, IInv, StationSpec, Station!Spec
=============================================================================
