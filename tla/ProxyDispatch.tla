--------------------------- MODULE ProxyDispatch ---------------------------
(***************************************************************************)
(* The proxy requests of one control channel (control.py): the read loop   *)
(* dispatches each ProxyConnReq to a bounded pool of handler tasks, a      *)
(* handler opens the proxied stream (client.py), delivers it to its tunnel *)
(* and answers the engine, and closing the channel cancels them all.       *)
(*                                                                         *)
(* One action is what one task or callback does between two suspensions.   *)
(***************************************************************************)
EXTENDS Naturals, Sequences, FiniteSets

CONSTANTS
  NumRequests,\* bound on the proxy requests of a history
  Tunnels,    \* tunnels open when the history starts
  TunnelOf,   \* the tunnel a request names
  MaxActive,  \* _MAX_ACTIVE_PROXY_CONNECTIONS
  MaxQueued   \* _MAX_QUEUED_PROXY_CONNECTIONS

\* A request is named by its place in the engine's stream of requests.
Requests == 1..NumRequests

ASSUME ProxyAssumption ==
  /\ NumRequests \in Nat
  /\ MaxActive \in Nat \ {0} /\ MaxQueued \in Nat
  /\ TunnelOf \in [Requests -> Tunnels]

VARIABLES
  queue,       \* _proxy_queue
  tasks,       \* _proxy_tasks, each task named by its request
  closed,      \* _closed
  openTunnels, \* _tunnels
  broken,      \* the control transport is lost: written bytes go nowhere
  pc,          \* where the handler of a request is suspended
  cancelled,   \* handlers with a CancelledError under way
  failed,      \* handlers that ended with an exception
  sock,        \* the socket of the proxied stream: "none", "open", "closed"
  reply,       \* the response the handler is writing: "ok" or an error, "closed"
               \* being the error for a tunnel that refused the stream
  sent,        \* responses put on the control connection, per request
  delivered,   \* streams handed to their tunnel
  read,        \* history: how many requests the read loop has read
  started      \* history: requests in the order their task was created

poolVars == <<queue, tasks, read, started>>
channelVars == <<closed, openTunnels, broken>>
handlerVars == <<failed, sock, reply, sent, delivered>>
vars == <<poolVars, channelVars, pc, cancelled, handlerVars>>

Init ==
  /\ queue = <<>> /\ tasks = {} /\ read = 0 /\ started = <<>>
  /\ closed = FALSE /\ openTunnels = Tunnels /\ broken = FALSE
  /\ pc = [r \in Requests |-> "unread"]
  /\ cancelled = {} /\ failed = {} /\ delivered = {}
  /\ sock = [r \in Requests |-> "none"]
  /\ reply = [r \in Requests |-> "none"]
  /\ sent = [r \in Requests |-> <<>>]

-----------------------------------------------------------------------------
\* _finish() and _dispatch_proxy_conn_req()

\* Mutant: handlers are not cancelled.
FinishNoCancel(active) ==
  /\ closed' = TRUE
  /\ queue' = <<>>
  /\ openTunnels' = {}
  /\ UNCHANGED <<broken, started, cancelled>>

\* _finish() with `active` as _proxy_tasks: cancel() on a task that ended but
\* whose done callback has not run yet does nothing.
Finish(active) ==
  /\ closed' = TRUE
  /\ cancelled' = cancelled \cup {r \in active : pc[r] # "ended"}
  /\ queue' = <<>>
  /\ openTunnels' = {}
  /\ UNCHANGED <<broken, started>>

\* Mutant: one task too many.
DispatchOffByOne(r, active, waiting) ==
  \/ /\ Cardinality(active) > MaxActive
     /\ queue' = Append(waiting, r)
     /\ tasks' = active
     /\ pc' = [pc EXCEPT ![r] = "queued"]
     /\ UNCHANGED <<channelVars, cancelled, started>>
  \/ /\ Cardinality(active) <= MaxActive
     /\ queue' = waiting
     /\ tasks' = active \cup {r}
     /\ pc' = [pc EXCEPT ![r] = "created"]
     /\ started' = Append(started, r)
     /\ UNCHANGED <<channelVars, cancelled>>

\* A request meets a pool with `active` tasks and `waiting` requests.
Dispatch(r, active, waiting) ==
  \/ /\ Cardinality(active) >= MaxActive /\ Len(waiting) >= MaxQueued
     /\ Finish(active)
     /\ tasks' = active
     /\ pc' = [pc EXCEPT ![r] = "refused"]
  \/ /\ Cardinality(active) >= MaxActive /\ Len(waiting) < MaxQueued
     /\ queue' = Append(waiting, r)
     /\ tasks' = active
     /\ pc' = [pc EXCEPT ![r] = "queued"]
     /\ UNCHANGED <<channelVars, cancelled, started>>
  \/ /\ Cardinality(active) < MaxActive
     /\ queue' = waiting
     /\ tasks' = active \cup {r}
     /\ pc' = [pc EXCEPT ![r] = "created"]
     /\ started' = Append(started, r)
     /\ UNCHANGED <<channelVars, cancelled>>

\* The read loop hands over the next ProxyConnReq.
ReadRequest(r) ==
  /\ ~closed /\ r = read + 1
  /\ read' = r
  /\ Dispatch(r, tasks, queue)
  /\ UNCHANGED handlerVars

\* Mutant: a finished task does not start the next request.
TaskDoneNoDispatch(r) ==
  /\ r \in tasks /\ pc[r] = "ended"
  /\ tasks' = tasks \ {r}
  /\ UNCHANGED <<queue, started, channelVars, pc, cancelled, read, handlerVars>>

\* Mutant: the newest queued request is started first (pop() for popleft()).
TaskDoneLifo(r) ==
  /\ r \in tasks /\ pc[r] = "ended" /\ ~closed /\ queue # <<>>
  /\ Dispatch(queue[Len(queue)], tasks \ {r}, SubSeq(queue, 1, Len(queue) - 1))
  /\ UNCHANGED <<read, handlerVars>>

\* Mutant: a handler leaves the pool before its response is written.
TaskDoneEarly(r) ==
  /\ r \in tasks /\ pc[r] \in {"draining", "ended"} /\ queue = <<>>
  /\ tasks' = tasks \ {r}
  /\ UNCHANGED <<queue, started, channelVars, pc, cancelled, read, handlerVars>>

\* The done callback _proxy_task_done().
TaskDone(r) ==
  /\ r \in tasks /\ pc[r] = "ended"
  /\ \/ /\ ~closed /\ r \in failed
        /\ Finish(tasks \ {r})
        /\ tasks' = tasks \ {r}
        /\ UNCHANGED pc
     \/ /\ ~closed /\ r \notin failed /\ queue # <<>>
        /\ Dispatch(Head(queue), tasks \ {r}, Tail(queue))
     \/ /\ closed \/ (r \notin failed /\ queue = <<>>)
        /\ tasks' = tasks \ {r}
        /\ UNCHANGED <<queue, started, channelVars, pc, cancelled>>
  /\ UNCHANGED <<read, handlerVars>>

-----------------------------------------------------------------------------
\* _handle_proxy_conn_req()

To(r, state) == pc' = [pc EXCEPT ![r] = state]
SetSock(r, state) == sock' = [sock EXCEPT ![r] = state]

\* _write() of the response: refused on a closed channel - which every caller
\* here turns into the end of the handler - else wait for the write lock.
Respond(r, kind) ==
  \/ closed /\ To(r, "ended") /\ UNCHANGED reply
  \/ ~closed /\ To(r, "locking") /\ reply' = [reply EXCEPT ![r] = kind]

HandlerStart(r) ==
  /\ pc[r] = "created"
  /\ \/ r \in cancelled /\ To(r, "ended") /\ UNCHANGED reply
     \/ r \notin cancelled /\ TunnelOf[r] \notin openTunnels /\ Respond(r, "error")
     \/ r \notin cancelled /\ TunnelOf[r] \in openTunnels /\ To(r, "connecting")
        /\ UNCHANGED reply
  /\ cancelled' = cancelled \ {r}
  /\ UNCHANGED <<poolVars, channelVars, failed, sock, sent, delivered>>

\* _dial_engine() returned.  asyncio.wait_for of Python 3.10 and 3.11 swallows
\* a cancellation that comes when the dial is already done.
Connected(r) ==
  /\ pc[r] = "connecting"
  /\ To(r, "handshaking") /\ SetSock(r, "open")
  /\ cancelled' = cancelled \ {r}
  /\ UNCHANGED <<poolVars, channelVars, failed, reply, sent, delivered>>

\* The dial failed, timed out or was cancelled before there was a socket.
ConnectFails(r) ==
  /\ pc[r] = "connecting"
  /\ \/ r \in cancelled /\ To(r, "ended") /\ UNCHANGED reply
     \/ r \notin cancelled /\ Respond(r, "error")
  /\ cancelled' = cancelled \ {r}
  /\ UNCHANGED <<poolVars, channelVars, failed, sock, sent, delivered>>

\* The handshake failed, timed out or was cancelled: close the socket and wait.
HandshakeFails(r) ==
  /\ pc[r] = "handshaking"
  /\ To(r, "aborting") /\ SetSock(r, "closed")
  /\ cancelled' = cancelled \ {r}
  /\ UNCHANGED <<poolVars, channelVars, failed, reply, sent, delivered>>

\* Mutant: the result of deliver() is ignored.
HandshakeDoneUnchecked(r) ==
  /\ pc[r] = "handshaking" /\ ~closed
  /\ delivered' = IF TunnelOf[r] \in openTunnels THEN delivered \cup {r} ELSE delivered
  /\ Respond(r, "ok")
  /\ UNCHANGED <<poolVars, channelVars, cancelled, failed, sock, sent>>

\* The stream is open.  The channel or the tunnel may have closed meanwhile.
HandshakeDone(r) ==
  /\ pc[r] = "handshaking"
  /\ \/ closed /\ To(r, "discarding") /\ SetSock(r, "closed") /\ UNCHANGED <<delivered, reply>>
     \/ /\ ~closed /\ TunnelOf[r] \notin openTunnels
        /\ To(r, "rejecting") /\ SetSock(r, "closed") /\ UNCHANGED <<delivered, reply>>
     \/ /\ ~closed /\ TunnelOf[r] \in openTunnels
        /\ delivered' = delivered \cup {r}
        /\ Respond(r, "ok") /\ UNCHANGED sock
  /\ cancelled' = cancelled \ {r}
  /\ UNCHANGED <<poolVars, channelVars, failed, sent>>

\* wait_closed() of a stream that was not delivered returned, or was cancelled.
SocketClosed(r) ==
  /\ \/ pc[r] = "discarding" /\ To(r, "ended") /\ UNCHANGED reply
     \/ pc[r] = "aborting" /\ Respond(r, "error")
     \/ pc[r] = "rejecting" /\ Respond(r, "closed")
  /\ cancelled' = cancelled \ {r}
  /\ UNCHANGED <<poolVars, channelVars, failed, sock, sent, delivered>>

\* The write lock is ours; bytes written to a lost transport go nowhere.
WriteReply(r) ==
  /\ pc[r] = "locking" /\ r \notin cancelled
  /\ To(r, "draining")
  /\ sent' = IF broken THEN sent ELSE [sent EXCEPT ![r] = Append(@, IF reply[r] = "ok" THEN "ok" ELSE "error")]
  /\ UNCHANGED <<poolVars, channelVars, cancelled, failed, sock, reply, delivered>>

WriteDone(r) ==
  /\ pc[r] = "draining" /\ r \notin cancelled
  /\ To(r, "ended")
  /\ UNCHANGED <<poolVars, channelVars, cancelled, handlerVars>>

\* drain() raises on a lost transport.  Of a response written inside the try the
\* handler makes an error response; one written outside it ends the task.
WriteFails(r) ==
  /\ pc[r] = "draining" /\ broken /\ r \notin cancelled
  /\ \/ reply[r] \in {"ok", "closed"} /\ Respond(r, "error") /\ UNCHANGED failed
     \/ reply[r] = "error" /\ To(r, "ended") /\ failed' = failed \cup {r} /\ UNCHANGED reply
  /\ UNCHANGED <<poolVars, channelVars, cancelled, sock, sent, delivered>>

WriteCancelled(r) ==
  /\ pc[r] \in {"locking", "draining"} /\ r \in cancelled
  /\ To(r, "ended")
  /\ cancelled' = cancelled \ {r}
  /\ UNCHANGED <<poolVars, channelVars, handlerVars>>

Handler(r) ==
  \/ HandlerStart(r) \/ Connected(r) \/ ConnectFails(r) \/ HandshakeFails(r)
  \/ HandshakeDone(r) \/ SocketClosed(r) \/ WriteReply(r) \/ WriteDone(r)
  \/ WriteFails(r) \/ WriteCancelled(r)

-----------------------------------------------------------------------------
\* The rest of the channel, as the pool sees it

CloseTunnel(t) ==
  /\ ~closed /\ t \in openTunnels
  /\ openTunnels' = openTunnels \ {t}
  /\ UNCHANGED <<poolVars, closed, broken, pc, cancelled, handlerVars>>

\* Explicit close, EOF, liveness or protocol failure.
ChannelCloses ==
  /\ ~closed
  /\ Finish(tasks)
  /\ UNCHANGED <<tasks, read, pc, handlerVars>>

TransportLost ==
  /\ ~broken
  /\ broken' = TRUE
  /\ UNCHANGED <<poolVars, closed, openTunnels, pc, cancelled, handlerVars>>

Next ==
  \/ \E r \in Requests : ReadRequest(r) \/ TaskDone(r) \/ Handler(r)
  \/ \E t \in Tunnels : CloseTunnel(t)
  \/ ChannelCloses
  \/ TransportLost

\* Dials and handshakes have timeouts (connect_timeout, operation_timeout),
\* the engine drains the control connection, and the event loop runs what is
\* ready.  Reading a lost transport fails, which closes the channel.
Fairness ==
  /\ \A r \in Requests : WF_vars(Handler(r)) /\ WF_vars(TaskDone(r))
  /\ WF_vars(broken /\ ChannelCloses)

Spec == Init /\ [][Next]_vars /\ Fairness

-----------------------------------------------------------------------------
\* Properties

States == {"unread", "refused", "queued", "created", "connecting", "handshaking",
           "discarding", "aborting", "rejecting", "locking", "draining", "ended"}

\* Every variable holds a value the code can give it; a task is in
\* _proxy_tasks exactly from its creation to its done callback.
TypeOK ==
  /\ queue \in Seq(Requests) /\ read \in 0..NumRequests /\ started \in Seq(Requests)
  /\ tasks \subseteq Requests /\ IsFiniteSet(tasks)
  /\ closed \in BOOLEAN /\ openTunnels \subseteq Tunnels /\ broken \in BOOLEAN
  /\ pc \in [Requests -> States]
  /\ cancelled \subseteq tasks /\ failed \subseteq Requests /\ delivered \subseteq Requests
  /\ sock \in [Requests -> {"none", "open", "closed"}]
  /\ reply \in [Requests -> {"none", "ok", "closed", "error"}]
  /\ sent \in [Requests -> Seq({"ok", "error"})]
  /\ \A r \in Requests : pc[r] \notin {"unread", "refused", "queued", "ended"} => r \in tasks

\* At most MaxActive handlers own a socket and a TLS handshake at a time and at
\* most MaxQueued requests wait: a burst is bounded in memory and descriptors.
PoolBounded ==
  /\ Cardinality(tasks) <= MaxActive
  /\ Len(queue) <= MaxQueued

\* A request waits only while the pool is full, so the end of any task is
\* enough to start it: no request is left behind in the queue.
WorkConserving ==
  queue # <<>> => ~closed /\ Cardinality(tasks) = MaxActive

\* Requests start in the order they were read, none is skipped, and what has
\* not started is what the queue holds.
ServedInOrder ==
  /\ \A i \in DOMAIN started : started[i] = i
  /\ Len(started) <= read
  /\ ~closed => /\ Len(queue) = read - Len(started)
                /\ \A i \in DOMAIN queue : queue[i] = Len(started) + i

\* The pool as a queueing discipline: bounded, never idle while a request waits,
\* first in, first out.
PoolDiscipline == PoolBounded /\ WorkConserving /\ ServedInOrder

\* The engine reads at most one response per request; an "ok" means the tunnel
\* has the stream, an error means it never got it.
ReplyMatchesDelivery ==
  \A r \in Requests :
    /\ Len(sent[r]) <= 1
    /\ sent[r] = <<"ok">> => r \in delivered
    /\ sent[r] = <<"error">> => r \notin delivered

\* A handler that ended, whatever ended it, leaves no open socket but the one
\* it delivered.
NoSocketLeak ==
  \A r \in Requests : pc[r] = "ended" /\ sock[r] = "open" => r \in delivered

\* However a handler ends - answered, refused, failed, cancelled at any await -
\* engine, tunnel and socket agree about what became of the stream.
HandlersSettle == ReplyMatchesDelivery /\ NoSocketLeak

\* Once the channel is closed no response is written and no stream delivered,
\* by handlers that passed the closed check of _write() before it either.
SilentAfterClose ==
  [][closed => UNCHANGED <<sent, delivered>>]_vars

\* Every request read is answered unless the channel closes.
EveryRequestSettled ==
  \A r \in Requests : pc[r] # "unread" ~> closed \/ Len(sent[r]) = 1

\* The pool is a bounded FIFO station with one server per task.
Station == INSTANCE FifoStation WITH
  arrived <- [i \in 1..read |-> i],
  Servers <- MaxActive, Places <- MaxQueued,
  served <- started, line <- queue, busy <- tasks, shut <- closed

StationSpec == Station!Spec
=============================================================================
