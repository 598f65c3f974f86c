--------------------------- MODULE ClientLifecycle ---------------------------
(***************************************************************************)
(* The control channels of one client (client.py): connect() opens them    *)
(* and registers each with a watcher task that forgets it when its done    *)
(* future resolves, and Client.close() closes the registered ones, through *)
(* ControlChannel.close() (control.py), which applications call as well.   *)
(* Applications also wait on ControlChannel.done(), and give up waiting.   *)
(*                                                                         *)
(* One action is what one task does between two suspensions.               *)
(***************************************************************************)
EXTENDS Naturals, FiniteSets

CONSTANTS
  Controls,        \* calls of connect(), each named like the control it opens
  ClientClosers,   \* calls of Client.close()
  ControlClosers,  \* calls of ControlChannel.close() by the application
  Waiters,         \* calls of ControlChannel.done() by the application
  Target,          \* the control of an application's close() or done()
  Nothing

Closers == ClientClosers \cup ControlClosers

ASSUME LifecycleAssumption ==
  /\ Target \in [ControlClosers \cup Waiters -> Controls]
  /\ ClientClosers \cap ControlClosers = {}
  /\ Nothing \notin Controls \cup Closers

VARIABLES
  clientClosed, \* Client._closed
  controls,     \* Client._controls
  watcher,      \* the task of _discard_control_when_done(): "none", "created",
                \* "waiting" on done(), "ended"
  conn,         \* a call of connect(): "idle", "connecting" (some await of it),
                \* "returned", "failed"
  chan,         \* ControlChannel: "none", "open", "closed" (_closed)
  closing,      \* controls with _closing set
  done,         \* the future _done: "pending", "result", "error", "cancelled"
  requests,     \* CloseControlChannelReq messages written, per control
  wpc,          \* a call of done(): "idle", "waiting", "cancelled" (it was cancelled
                \* and the future with it), "ended" in any other way
  pc,           \* where a call of close() is suspended
  on,           \* the control a call of close() is closing
  todo,         \* what is left of the snapshot Client.close() iterates over, then
                \* the controls whose watchers it gathers
  owner,        \* history: the Client.close() that set _closed
  promised      \* history: the controls open at that moment

channelVars == <<chan, closing, done, requests>>
clientVars == <<clientClosed, controls, watcher>>
callVars == <<pc, on, todo, owner, promised>>
vars == <<channelVars, clientVars, conn, wpc, callVars>>

Init ==
  /\ clientClosed = FALSE /\ controls = {} /\ closing = {}
  /\ watcher = [c \in Controls |-> "none"]
  /\ conn = [c \in Controls |-> "idle"]
  /\ chan = [c \in Controls |-> "none"]
  /\ done = [c \in Controls |-> "pending"]
  /\ requests = [c \in Controls |-> 0]
  /\ wpc = [w \in Waiters |-> "idle"]
  /\ pc = [k \in Closers |-> "idle"]
  /\ on = [k \in Closers |-> Nothing]
  /\ todo = [k \in ClientClosers |-> {}]
  /\ owner = Nothing /\ promised = {}

-----------------------------------------------------------------------------
\* connect()

ConnectStart(c) ==
  /\ conn[c] = "idle"
  /\ conn' = [conn EXCEPT ![c] = IF clientClosed THEN "failed" ELSE "connecting"]
  /\ UNCHANGED <<channelVars, clientVars, wpc, callVars>>

\* An error, a timeout or the cancellation of the caller, at any await; a socket
\* is closed and waited for before connect() raises.
ConnectFails(c) ==
  /\ conn[c] = "connecting"
  /\ conn' = [conn EXCEPT ![c] = "failed"]
  /\ UNCHANGED <<channelVars, clientVars, wpc, callVars>>

\* The options and the engine are resolved, the engine is dialed and it answered
\* OpenControlChannelReq.  Nobody looks at _closed again.
Opened(c) ==
  /\ conn[c] = "connecting"
  /\ conn' = [conn EXCEPT ![c] = "returned"]
  /\ chan' = [chan EXCEPT ![c] = "open"]
  /\ controls' = controls \cup {c}
  /\ watcher' = [watcher EXCEPT ![c] = "created"]
  /\ UNCHANGED <<closing, done, requests, clientClosed, wpc, callVars>>

-----------------------------------------------------------------------------
\* The control channel

\* The done future after _finish(), which leaves it alone when it is resolved:
\* by a cancelled waiter, or by the cancelled watcher.
Finished(c, outcome) == [done EXCEPT ![c] = IF @ = "pending" THEN outcome ELSE @]

\* EOF, an error of the transport, liveness or a protocol error: _fail().
ChannelFails(c) ==
  /\ chan[c] = "open"
  /\ chan' = [chan EXCEPT ![c] = "closed"]
  /\ done' = Finished(c, "error")
  /\ UNCHANGED <<closing, requests, clientVars, conn, wpc, callVars>>

\* The read loop reads CloseControlChannelRsp.
CloseRsp(c) ==
  /\ chan[c] = "open" /\ requests[c] > 0
  /\ chan' = [chan EXCEPT ![c] = "closed"]
  /\ done' = Finished(c, "result")
  /\ UNCHANGED <<closing, requests, clientVars, conn, wpc, callVars>>

WaitStart(w) ==
  /\ wpc[w] = "idle" /\ conn[Target[w]] = "returned"
  /\ wpc' = [wpc EXCEPT ![w] = "waiting"]
  /\ UNCHANGED <<channelVars, clientVars, conn, callVars>>

\* The task in `await self._done` is cancelled (asyncio.wait_for gives up): the
\* cancellation goes to the awaited future, which is the channel's own.
WaitCancelled(w) ==
  /\ wpc[w] = "waiting" /\ done[Target[w]] = "pending"
  /\ wpc' = [wpc EXCEPT ![w] = "cancelled"]
  /\ done' = [done EXCEPT ![Target[w]] = "cancelled"]
  /\ UNCHANGED <<chan, closing, requests, clientVars, conn, callVars>>

\* The future resolved: done() returns or raises, or is cancelled too late to
\* touch the future.
WaitReturns(w) ==
  /\ wpc[w] = "waiting" /\ done[Target[w]] # "pending"
  /\ wpc' = [wpc EXCEPT ![w] = "ended"]
  /\ UNCHANGED <<channelVars, clientVars, conn, callVars>>

-----------------------------------------------------------------------------
\* _discard_control_when_done()

WatcherStarts(c) ==
  /\ watcher[c] = "created"
  /\ watcher' = [watcher EXCEPT ![c] = "waiting"]
  /\ UNCHANGED <<channelVars, clientClosed, controls, conn, wpc, callVars>>

\* Mutant: an exception of done() ends the watcher before it forgets.
WatcherWakesUnlessError(c) ==
  /\ watcher[c] = "waiting" /\ done[c] # "pending"
  /\ watcher' = [watcher EXCEPT ![c] = "ended"]
  /\ controls' = IF done[c] = "error" THEN controls ELSE controls \ {c}
  /\ UNCHANGED <<channelVars, clientClosed, conn, wpc, callVars>>

\* The future resolved, however: every exception is suppressed.
WatcherWakes(c) ==
  /\ watcher[c] = "waiting" /\ done[c] # "pending"
  /\ watcher' = [watcher EXCEPT ![c] = "ended"]
  /\ controls' = controls \ {c}
  /\ UNCHANGED <<channelVars, clientClosed, conn, wpc, callVars>>

-----------------------------------------------------------------------------
\* ControlChannel.close() and Client.close()

\* The start of ControlChannel.close() on an open channel: the first call
\* writes the request, the others go straight to waiting.
Begin(k, c) ==
  /\ on' = [on EXCEPT ![k] = c]
  /\ closing' = closing \cup {c}
  /\ pc' = [pc EXCEPT ![k] = IF c \in closing THEN "waiting" ELSE "writing"]

\* The application closes a control; a closed one returns at once.
ControlClose(k) ==
  /\ pc[k] = "idle" /\ conn[Target[k]] = "returned"
  /\ \/ chan[Target[k]] = "open" /\ Begin(k, Target[k])
     \/ /\ chan[Target[k]] = "closed"
        /\ pc' = [pc EXCEPT ![k] = "returned"]
        /\ UNCHANGED <<on, closing>>
  /\ UNCHANGED <<chan, done, requests, clientVars, conn, wpc, todo, owner, promised>>

\* Client.close() up to `await self._engine_discovery.close()`, which ends soon
\* and swallows a cancellation of its caller.
ClientClose(k) ==
  /\ pc[k] = "idle" /\ ~clientClosed
  /\ pc' = [pc EXCEPT ![k] = "discovery"]
  /\ clientClosed' = TRUE
  /\ owner' = k
  /\ promised' = {c \in Controls : chan[c] = "open"}
  /\ UNCHANGED <<channelVars, controls, watcher, conn, wpc, on, todo>>

\* Another Client.close(), also by a caller that was cancelled in the first one,
\* finds _closed set and returns: nobody takes up what is left.
ClientCloseAgain(k) ==
  /\ clientClosed /\ pc[k] \in {"idle", "cancelled"}
  /\ pc' = [pc EXCEPT ![k] = "again"]
  /\ UNCHANGED <<channelVars, clientVars, conn, wpc, on, todo, owner, promised>>

\* The loop of Client.close(), with `rest` still to visit, once the channels are
\* `ch` and their done futures `dn`: the next open control is closed, and after
\* the last one the watchers are cancelled.  A watcher that did not start never
\* will; one that waits cancels the future it waits on.
NextControl(k, rest, ch, dn) ==
  /\ chan' = ch
  /\ \/ \E c \in rest :
          /\ ch[c] = "open" /\ Begin(k, c)
          /\ todo' = [todo EXCEPT ![k] = rest \ {c}]
          /\ done' = dn
          /\ UNCHANGED clientVars
     \/ /\ \A c \in rest : ch[c] = "closed"
        /\ pc' = [pc EXCEPT ![k] = "gathering"]
        /\ todo' = [todo EXCEPT ![k] = {c \in Controls : watcher[c] = "waiting"}]
        /\ controls' = {}
        /\ done' = [c \in Controls |->
                      IF watcher[c] = "waiting" /\ dn[c] = "pending" THEN "cancelled" ELSE dn[c]]
        /\ watcher' = [c \in Controls |-> IF watcher[c] = "created" THEN "ended" ELSE watcher[c]]
        /\ UNCHANGED <<on, closing, clientClosed>>

DiscoveryClosed(k) ==
  /\ pc[k] = "discovery"
  /\ NextControl(k, controls, chan, done)
  /\ UNCHANGED <<requests, conn, wpc, owner, promised>>

\* _write() of the request: on a channel that closed while the call waited for
\* the write lock nothing is written, and every exception is suppressed.
RequestWritten(k) ==
  /\ pc[k] = "writing"
  /\ pc' = [pc EXCEPT ![k] = "waiting"]
  /\ requests' = IF chan[on[k]] = "open" THEN [requests EXCEPT ![on[k]] = @ + 1] ELSE requests
  /\ UNCHANGED <<chan, closing, done, clientVars, conn, wpc, on, todo, owner, promised>>

\* ControlChannel.close() returned or raised an Exception: the application's
\* call ends, the client's remembers the failure and goes on with its loop.
AfterClose(k, ch, dn) ==
  \/ /\ k \in ControlClosers
     /\ pc' = [pc EXCEPT ![k] = "returned"]
     /\ chan' = ch /\ done' = dn
     /\ UNCHANGED <<clientVars, on, closing, todo>>
  \/ k \in ClientClosers /\ NextControl(k, todo[k], ch, dn)

CloseDone(k) ==
  /\ pc[k] = "waiting" /\ done[on[k]] \in {"result", "error"}
  /\ AfterClose(k, chan, done)
  /\ UNCHANGED <<requests, conn, wpc, owner, promised>>

\* Mutant: the timeout is raised without failing the channel.
CloseTimesOutQuietly(k) ==
  /\ pc[k] = "waiting"
  /\ AfterClose(k, chan, done)
  /\ UNCHANGED <<requests, conn, wpc, owner, promised>>

\* Mutant: there is no timeout.
CloseNeverTimesOut(k) == FALSE /\ UNCHANGED vars

\* operation_timeout expires, perhaps when the future has just resolved: _fail()
\* closes a channel that is still open.
CloseTimesOut(k) ==
  /\ pc[k] = "waiting"
  /\ IF chan[on[k]] = "open"
     THEN AfterClose(k, [chan EXCEPT ![on[k]] = "closed"], Finished(on[k], "error"))
     ELSE AfterClose(k, chan, done)
  /\ UNCHANGED <<requests, conn, wpc, owner, promised>>

\* The future was cancelled: shield() raises CancelledError in the call, which
\* is no Exception and ends the loop of Client.close() too.
CloseCancelled(k) ==
  /\ pc[k] = "waiting" /\ done[on[k]] = "cancelled"
  /\ pc' = [pc EXCEPT ![k] = "cancelled"]
  /\ UNCHANGED <<channelVars, clientVars, conn, wpc, on, todo, owner, promised>>

\* The task that called close() is cancelled.
CallerCancelled(k) ==
  /\ pc[k] \in {"writing", "waiting", "gathering"}
  /\ pc' = [pc EXCEPT ![k] = "cancelled"]
  /\ UNCHANGED <<channelVars, clientVars, conn, wpc, on, todo, owner, promised>>

Gathered(k) ==
  /\ pc[k] = "gathering" /\ \A c \in todo[k] : watcher[c] = "ended"
  /\ pc' = [pc EXCEPT ![k] = "returned"]
  /\ UNCHANGED <<channelVars, clientVars, conn, wpc, on, todo, owner, promised>>

-----------------------------------------------------------------------------

CloseStep(k) ==
  \/ DiscoveryClosed(k) \/ RequestWritten(k) \/ CloseDone(k) \/ CloseTimesOut(k)
  \/ CloseCancelled(k) \/ Gathered(k)

Next ==
  \/ \E c \in Controls : \/ ConnectStart(c) \/ ConnectFails(c) \/ Opened(c)
                         \/ ChannelFails(c) \/ CloseRsp(c)
                         \/ WatcherStarts(c) \/ WatcherWakes(c)
  \/ \E w \in Waiters : WaitStart(w) \/ WaitCancelled(w) \/ WaitReturns(w)
  \/ \E k \in ControlClosers : ControlClose(k)
  \/ \E k \in ClientClosers : ClientClose(k) \/ ClientCloseAgain(k)
  \/ \E k \in Closers : CloseStep(k) \/ CallerCancelled(k)

\* The event loop runs what is ready, operation_timeout expires, and the engine
\* drains the connection, so that _write() ends.  Nothing else is promised: the
\* engine may never answer and never fail.
Fairness ==
  /\ \A c \in Controls : WF_vars(WatcherStarts(c)) /\ WF_vars(WatcherWakes(c))
  /\ \A k \in Closers : WF_vars(CloseStep(k))

Spec == Init /\ [][Next]_vars /\ Fairness

-----------------------------------------------------------------------------
\* Properties

\* Every variable holds a value the code can give it, and a control is tracked
\* only while its channel exists and its watcher has not ended.
TypeOK ==
  /\ clientClosed \in BOOLEAN /\ closing \subseteq Controls /\ promised \subseteq Controls
  /\ watcher \in [Controls -> {"none", "created", "waiting", "ended"}]
  /\ conn \in [Controls -> {"idle", "connecting", "returned", "failed"}]
  /\ chan \in [Controls -> {"none", "open", "closed"}]
  /\ done \in [Controls -> {"pending", "result", "error", "cancelled"}]
  /\ requests \in [Controls -> Nat]
  /\ wpc \in [Waiters -> {"idle", "waiting", "cancelled", "ended"}]
  /\ pc \in [Closers -> {"idle", "discovery", "writing", "waiting", "gathering",
                         "returned", "cancelled", "again"}]
  /\ on \in [Closers -> Controls \cup {Nothing}]
  /\ todo \in [ClientClosers -> SUBSET Controls]
  /\ owner \in ClientClosers \cup {Nothing}
  /\ controls \subseteq {c \in Controls : chan[c] # "none" /\ watcher[c] \in {"created", "waiting"}}

\* However many calls of close() race on a control - the application's and the
\* client's - the engine is asked to close it at most once; and when the
\* Client.close() that closed the client returns, every control open at its start
\* is closed, whatever failed or timed out meanwhile - except those on whose
\* done() the application was waiting and gave up.
ClosesOnceAndAll ==
  /\ \A c \in Controls : requests[c] <= 1
  /\ owner # Nothing /\ pc[owner] = "returned" =>
       \A c \in promised : \/ chan[c] = "closed"
                           \/ \E w \in Waiters : Target[w] = c /\ wpc[w] = "cancelled"

\* The documents promise it without exception: client close closes the open
\* control channels.
ClientCloseClosesControls ==
  owner # Nothing /\ pc[owner] = "returned" => \A c \in promised : chan[c] = "closed"

\* A client that lives long does not collect dead controls: each is forgotten
\* however it ended.
DeadControlsForgotten ==
  \A c \in Controls : chan[c] = "closed" ~> c \notin controls

\* Every close() ends, with an engine that never answers too.
CloseEnds ==
  \A k \in Closers : pc[k] # "idle" ~> pc[k] \in {"returned", "cancelled", "again"}
=============================================================================
