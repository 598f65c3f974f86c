------------------------------- MODULE Tunnel -------------------------------
(***************************************************************************)
(* One BytestreamTunnel (tunnel.py) with its stream queue, the callers of  *)
(* accept(), the forward_to() loops with the relay task of every stream    *)
(* they took (stream.py), and the callers of close().                      *)
(*                                                                         *)
(* The program is single-threaded asyncio: an action is what one task does *)
(* between two suspensions.  Resolving a future and resuming the task that *)
(* awaits it are two steps, and anything may run in between.               *)
(***************************************************************************)
EXTENDS Naturals, SequencesExt

CONSTANTS
  Streams,     \* proxy streams the engine opens towards this tunnel
  Acceptors,   \* application tasks that call accept()
  Forwarders,  \* application tasks that run forward_to()
  Closers,     \* application tasks that call close()
  Stalling     \* streams relayed to a peer that may stop reading for good

ASSUME TunnelAssumption == Acceptors \cap Forwarders = {} /\ Stalling \subseteq Streams

Callers == Acceptors \cup Forwarders

VARIABLES
  queue,      \* _StreamQueue._streams
  waiters,    \* _StreamQueue._waiters, each future named by the caller awaiting it
  closeErr,   \* _StreamQueue._close_error: "none", "tunnel" or "control"
  hardClosed, \* BytestreamTunnel._hard_closed
  pc,         \* caller: "idle", "waiting" in get(), "ended"
  fut,        \* the caller's future
  handoff,    \* the result of that future: {} or {stream}
  mustCancel, \* callers cancelled after their future was done (Task._must_cancel)
  held,       \* streams accept() returned to the application and it still holds
  offered,    \* streams deliver() was called with
  sclosed,    \* streams whose close() was called
  relay,      \* stream -> state of its pipe_stream_to_local task
  relayCancel,\* relay tasks with a cancellation under way
  forwarded,  \* BytestreamTunnel._forward_tasks
  closer,     \* state of each caller of close()
  awaited,    \* forward tasks that caller of close() gathers
  dropped     \* history: streams handed to an accept() that was cancelled

queueVars == <<queue, waiters, closeErr>>
callerVars == <<pc, fut, handoff, mustCancel, held, dropped>>
relayVars == <<relay, relayCancel, forwarded>>
closerVars == <<closer, awaited>>
vars == <<queueVars, hardClosed, callerVars, offered, sclosed, relayVars, closerVars>>

\* BytestreamTunnel._closed is set in the same step as the queue's close error.
closed == closeErr # "none"

RelayActive(s) == relay[s] \notin {"none", "done"}

-----------------------------------------------------------------------------
Init ==
  /\ queue = <<>> /\ waiters = <<>> /\ closeErr = "none" /\ hardClosed = FALSE
  /\ pc = [a \in Callers |-> "idle"]
  /\ fut = [a \in Callers |-> "none"]
  /\ handoff = [a \in Callers |-> {}]
  /\ mustCancel = {}
  /\ held = [a \in Callers |-> {}]
  /\ offered = {} /\ sclosed = {} /\ dropped = {}
  /\ relay = [s \in Streams |-> "none"]
  /\ relayCancel = {} /\ forwarded = {}
  /\ closer = [k \in Closers |-> "idle"]
  /\ awaited = [k \in Closers |-> {}]

-----------------------------------------------------------------------------
\* deliver() and _StreamQueue.put()

\* Positions of the waiters whose future is not done yet.
PendingAt == {i \in DOMAIN waiters : fut[waiters[i]] = "pending"}

\* Mutant: a waiter whose future is already done is not skipped.
PutNoSkip(s) ==
  \/ /\ waiters # <<>>
     /\ waiters' = Tail(waiters)
     /\ fut' = [fut EXCEPT ![Head(waiters)] = IF @ = "pending" THEN "result" ELSE @]
     /\ handoff' = [handoff EXCEPT ![Head(waiters)] = {s}]
     /\ UNCHANGED queue
  \/ /\ waiters = <<>>
     /\ queue' = Append(queue, s)
     /\ UNCHANGED <<waiters, fut, handoff>>

\* put() skips waiters that are done, hands the stream to the first that is
\* not, and queues it when there is none.
Put(s) ==
  \/ \E i \in PendingAt :
       /\ \A j \in PendingAt : i <= j
       /\ waiters' = SubSeq(waiters, i + 1, Len(waiters))
       /\ fut' = [fut EXCEPT ![waiters[i]] = "result"]
       /\ handoff' = [handoff EXCEPT ![waiters[i]] = {s}]
       /\ UNCHANGED queue
  \/ /\ PendingAt = {}
     /\ waiters' = <<>>
     /\ queue' = Append(queue, s)
     /\ UNCHANGED <<fut, handoff>>

\* Mutant: the stream is queued without looking for a waiter.
DeliverToQueue(s) ==
  /\ s \notin offered
  /\ ~closed
  /\ offered' = offered \cup {s}
  /\ queue' = Append(queue, s)
  /\ UNCHANGED <<waiters, closeErr, hardClosed, callerVars, sclosed, relayVars, closerVars>>

Deliver(s) ==
  /\ s \notin offered
  /\ offered' = offered \cup {s}
  /\ \/ /\ closed
        /\ sclosed' = sclosed \cup {s}
        /\ UNCHANGED <<queueVars, callerVars>>
     \/ /\ ~closed
        /\ Put(s)
        /\ UNCHANGED <<closeErr, pc, mustCancel, held, dropped, sclosed>>
  /\ UNCHANGED <<hardClosed, relayVars, closerVars>>

-----------------------------------------------------------------------------
\* accept() and forward_to()

\* get() on an empty queue: raise the close error or wait on a new future.
RaiseOrWait(a) ==
  \/ /\ closed
     /\ pc' = [pc EXCEPT ![a] = "ended"]
     /\ fut' = [fut EXCEPT ![a] = "none"]
     /\ UNCHANGED waiters
  \/ /\ ~closed
     /\ pc' = [pc EXCEPT ![a] = "waiting"]
     /\ fut' = [fut EXCEPT ![a] = "pending"]
     /\ waiters' = Append(waiters, a)

Accept(a) ==
  /\ a \in Acceptors /\ pc[a] = "idle"
  /\ \/ /\ queue # <<>>
        /\ held' = [held EXCEPT ![a] = @ \cup {Head(queue)}]
        /\ queue' = Tail(queue)
        /\ UNCHANGED <<waiters, pc, fut>>
     \/ queue = <<>> /\ RaiseOrWait(a) /\ UNCHANGED <<queue, held>>
  /\ UNCHANGED <<closeErr, hardClosed, handoff, mustCancel, offered, sclosed, relayVars,
                 closerVars, dropped>>

\* forward_to() does not suspend while the queue holds streams: it starts a
\* relay for every one of them, then raises or waits.
ForwardAll(a, taken) ==
  /\ LET new == taken \cup ToSet(queue) IN
       /\ relay' = [s \in Streams |-> IF s \in new THEN "created" ELSE relay[s]]
       /\ forwarded' = forwarded \cup new
  /\ queue' = <<>>
  /\ RaiseOrWait(a)
  /\ UNCHANGED relayCancel

Forward(a) ==
  /\ a \in Forwarders /\ pc[a] = "idle"
  /\ ForwardAll(a, {})
  /\ UNCHANGED <<closeErr, hardClosed, handoff, mustCancel, held, offered, sclosed,
                 closerVars, dropped>>

\* The finally block of get() takes the future out of the deque, unless put() or
\* close() already did.
Forget(a) ==
  \/ a \notin ToSet(waiters) /\ UNCHANGED waiters
  \/ \E i \in DOMAIN waiters : waiters[i] = a /\ waiters' = RemoveAt(waiters, i)

\* The caller resumes with CancelledError: a stream its future held is
\* dropped.  An acceptor may call accept() again (a timeout and a retry).
ResumeCancelled(a) ==
  /\ fut[a] = "cancelled" \/ a \in mustCancel
  /\ pc' = [pc EXCEPT ![a] = IF a \in Acceptors THEN "idle" ELSE "ended"]
  /\ fut' = [fut EXCEPT ![a] = "none"]
  /\ Forget(a)
  /\ mustCancel' = mustCancel \ {a}
  /\ dropped' = dropped \cup handoff[a]
  /\ UNCHANGED <<queue, held, sclosed, relayVars>>

\* Mutant: accept() does not look at _hard_closed after it resumes.
ResumeUnchecked(a) ==
  /\ fut[a] = "result" /\ a \notin mustCancel /\ a \in Acceptors
  /\ held' = [held EXCEPT ![a] = @ \cup handoff[a]]
  /\ pc' = [pc EXCEPT ![a] = "idle"]
  /\ fut' = [fut EXCEPT ![a] = "none"]
  /\ UNCHANGED <<queue, waiters, mustCancel, dropped, sclosed, relayVars>>

\* accept() resumes with a stream: after a hard close it closes the stream and
\* raises.  A forward_to() loop goes on with the streams queued meanwhile.
ResumeWithStream(a) ==
  /\ fut[a] = "result" /\ a \notin mustCancel
  /\ \/ /\ hardClosed
        /\ sclosed' = sclosed \cup handoff[a]
        /\ pc' = [pc EXCEPT ![a] = "ended"]
        /\ fut' = [fut EXCEPT ![a] = "none"]
        /\ UNCHANGED <<queue, waiters, held, relayVars>>
     \/ /\ ~hardClosed /\ a \in Acceptors
        /\ held' = [held EXCEPT ![a] = @ \cup handoff[a]]
        /\ pc' = [pc EXCEPT ![a] = "idle"]
        /\ fut' = [fut EXCEPT ![a] = "none"]
        /\ UNCHANGED <<queue, waiters, sclosed, relayVars>>
     \/ /\ ~hardClosed /\ a \in Forwarders
        /\ ForwardAll(a, handoff[a])
        /\ UNCHANGED <<held, sclosed>>
  /\ UNCHANGED <<mustCancel, dropped>>

ResumeWithError(a) ==
  /\ fut[a] = "error" /\ a \notin mustCancel
  /\ pc' = [pc EXCEPT ![a] = "ended"]
  /\ fut' = [fut EXCEPT ![a] = "none"]
  /\ UNCHANGED <<queue, waiters, held, mustCancel, dropped, sclosed, relayVars>>

Resume(a) ==
  /\ pc[a] = "waiting"
  /\ ResumeCancelled(a) \/ ResumeWithStream(a) \/ ResumeWithError(a)
  /\ handoff' = [handoff EXCEPT ![a] = {}]
  /\ UNCHANGED <<closeErr, hardClosed, offered, closerVars>>

\* Task.cancel() on a waiting caller: it cancels a pending future; a caller
\* whose future is done is only marked, and learns of it when it resumes.
Cancel(a) ==
  /\ pc[a] = "waiting" /\ a \notin mustCancel
  /\ \/ /\ fut[a] = "pending"
        /\ fut' = [fut EXCEPT ![a] = "cancelled"]
        /\ UNCHANGED mustCancel
     \/ /\ fut[a] \in {"result", "error"}
        /\ mustCancel' = mustCancel \cup {a}
        /\ UNCHANGED fut
  /\ UNCHANGED <<queueVars, hardClosed, pc, handoff, held, dropped, offered, sclosed,
                 relayVars, closerVars>>

\* The application is done with a stream it accepted.
CloseStream(a, s) ==
  /\ s \in held[a]
  /\ held' = [held EXCEPT ![a] = @ \ {s}]
  /\ sclosed' = sclosed \cup {s}
  /\ UNCHANGED <<queueVars, hardClosed, pc, fut, handoff, mustCancel, dropped, offered,
                 relayVars, closerVars>>

-----------------------------------------------------------------------------
\* pipe_stream_to_local()

RelayVarsOnly == UNCHANGED <<queueVars, hardClosed, callerVars, offered, closerVars>>

\* The task starts: it dials the local endpoint, unless it was cancelled first.
RelayStart(s) ==
  /\ relay[s] = "created"
  /\ relay' = [relay EXCEPT ![s] = IF s \in relayCancel THEN "done" ELSE "dialing"]
  /\ relayCancel' = relayCancel \ {s}
  /\ UNCHANGED <<forwarded, sclosed>> /\ RelayVarsOnly

RelayDialed(s) ==
  /\ relay[s] = "dialing" /\ s \notin relayCancel
  /\ relay' = [relay EXCEPT ![s] = "copying"]
  /\ UNCHANGED <<relayCancel, forwarded, sclosed>> /\ RelayVarsOnly

\* open_connection() stands before the try: its failure, or a cancellation
\* while it runs, ends the task without closing the stream.
RelayDialFails(s) ==
  /\ relay[s] = "dialing"
  /\ relay' = [relay EXCEPT ![s] = "done"]
  /\ relayCancel' = relayCancel \ {s}
  /\ UNCHANGED <<forwarded, sclosed>> /\ RelayVarsOnly

\* The pump from the local side ended and closed the stream's writer while the
\* other pump still runs.
PumpEnds(s) ==
  /\ relay[s] = "copying" /\ s \notin sclosed
  /\ sclosed' = sclosed \cup {s}
  /\ UNCHANGED relayVars /\ RelayVarsOnly

\* Both pumps ended, one failed, or the task is cancelled: the finally block
\* closes both ends and waits for them.
RelayFinally(s) ==
  /\ relay[s] = "copying"
  /\ relay' = [relay EXCEPT ![s] = "closing"]
  /\ relayCancel' = relayCancel \ {s}
  /\ sclosed' = sclosed \cup {s}
  /\ UNCHANGED forwarded /\ RelayVarsOnly

\* wait_closed() of both ends: each waits until its peer has read what is still
\* in the writer's buffer, with no bound of its own.
RelayDone(s) ==
  /\ relay[s] = "closing"
  /\ relay' = [relay EXCEPT ![s] = "done"]
  /\ relayCancel' = relayCancel \ {s}
  /\ UNCHANGED <<forwarded, sclosed>> /\ RelayVarsOnly

\* The done callback _forward_task_done().
RelayReaped(s) ==
  /\ relay[s] = "done" /\ s \in forwarded
  /\ forwarded' = forwarded \ {s}
  /\ UNCHANGED <<relay, relayCancel, sclosed>> /\ RelayVarsOnly

Relay(s) ==
  \/ RelayStart(s) \/ RelayDialed(s) \/ RelayDialFails(s) \/ RelayFinally(s)
  \/ RelayDone(s) \/ RelayReaped(s)

-----------------------------------------------------------------------------
\* on_close(): queue close once, hard close any number of times

\* Mutant: the waiters' futures are thrown away.
CloseQueueForgets(error) ==
  /\ closeErr' = error
  /\ queue' = <<>> /\ waiters' = <<>>
  /\ fut' = [a \in Callers |-> IF fut[a] = "pending" THEN "none" ELSE fut[a]]

\* _StreamQueue.close(): pending accepts get the error, queued streams close.
CloseQueue(error) ==
  /\ closeErr' = error
  /\ queue' = <<>> /\ waiters' = <<>>
  /\ fut' = [a \in Callers |-> IF fut[a] = "pending" THEN "error" ELSE fut[a]]

\* Mutant: a hard close does not cancel the relays.
OnCloseNoCancel(error, preserve) ==
  /\ hardClosed' = (hardClosed \/ ~preserve)
  /\ IF closed THEN UNCHANGED <<queueVars, fut>> ELSE CloseQueue(error)
  /\ sclosed' = sclosed \cup ToSet(queue) \cup (IF preserve THEN {} ELSE forwarded)
  /\ UNCHANGED relayCancel

OnClose(error, preserve) ==
  /\ hardClosed' = (hardClosed \/ ~preserve)
  /\ IF closed THEN UNCHANGED <<queueVars, fut>> ELSE CloseQueue(error)
  /\ sclosed' = sclosed \cup ToSet(queue) \cup (IF preserve THEN {} ELSE forwarded)
  /\ relayCancel' = IF preserve THEN relayCancel
                    ELSE relayCancel \cup {s \in forwarded : RelayActive(s)}

OnCloseFrame ==
  UNCHANGED <<pc, handoff, mustCancel, held, dropped, offered, relay, forwarded>>

\* The control channel forgets the tunnel in the step that closes it, so each
\* of these happens to an open tunnel only.
ControlFinish(preserve) ==
  /\ ~closed
  /\ OnClose("control", preserve)
  /\ OnCloseFrame /\ UNCHANGED closerVars

CloseTunnelRsp ==
  /\ ~closed
  /\ OnClose("tunnel", FALSE)
  /\ OnCloseFrame /\ UNCHANGED closerVars

-----------------------------------------------------------------------------
\* close()

\* Mutant: close() returns once the forward tasks were told to stop.
GatherNothing(k) ==
  /\ closer' = [closer EXCEPT ![k] = "returned"]
  /\ UNCHANGED awaited

\* wait_forwarders_closed() starts: nothing to gather, or a gather suspends.
GatherForwarders(k) ==
  /\ closer' = [closer EXCEPT ![k] = IF forwarded = {} THEN "returned" ELSE "gathering"]
  /\ awaited' = [awaited EXCEPT ![k] = forwarded]

CloseBegin(k) ==
  /\ closer[k] = "idle"
  /\ \/ /\ closed
        /\ OnClose("tunnel", FALSE)
        /\ GatherForwarders(k)
     \/ /\ ~closed
        /\ closer' = [closer EXCEPT ![k] = "requested"]
        /\ UNCHANGED <<queueVars, hardClosed, fut, sclosed, relayCancel, awaited>>
  /\ OnCloseFrame

\* control.close_tunnel() returned: the engine confirmed.
CloseConfirmed(k) ==
  /\ closer[k] = "requested" /\ closeErr = "tunnel"
  /\ GatherForwarders(k)
  /\ UNCHANGED <<queueVars, hardClosed, callerVars, offered, sclosed, relayVars>>

\* control.close_tunnel() raised: timeout, lost channel or cancellation.
CloseFails(k) ==
  /\ closer[k] = "requested"
  /\ closer' = [closer EXCEPT ![k] = "failed"]
  /\ UNCHANGED <<queueVars, hardClosed, callerVars, offered, sclosed, relayVars, awaited>>

\* Cancelling the gather cancels the relays; it ends when they have ended, and
\* close() suppresses the CancelledError.
CloseCancelled(k) ==
  /\ closer[k] = "gathering"
  /\ relayCancel' = relayCancel \cup {s \in awaited[k] : RelayActive(s)}
  /\ UNCHANGED <<queueVars, hardClosed, callerVars, offered, sclosed, relay, forwarded,
                 closerVars>>

CloseReturns(k) ==
  /\ closer[k] = "gathering"
  /\ \A s \in awaited[k] : relay[s] = "done"
  /\ closer' = [closer EXCEPT ![k] = "returned"]
  /\ awaited' = [awaited EXCEPT ![k] = {}]
  /\ UNCHANGED <<queueVars, hardClosed, callerVars, offered, sclosed, relayVars>>

-----------------------------------------------------------------------------
Next ==
  \/ \E s \in Streams : Deliver(s) \/ PumpEnds(s) \/ Relay(s)
  \/ \E a \in Callers : Accept(a) \/ Forward(a) \/ Resume(a) \/ Cancel(a)
  \/ \E a \in Callers, s \in Streams : CloseStream(a, s)
  \/ \E preserve \in BOOLEAN : ControlFinish(preserve)
  \/ CloseTunnelRsp
  \/ \E k \in Closers : CloseBegin(k) \/ CloseConfirmed(k) \/ CloseFails(k)
                        \/ CloseCancelled(k) \/ CloseReturns(k)

\* The finally of a relay waits for a peer that does not read.  Nothing ends
\* that wait but a second cancellation of the task.
StuckAtPeer(s) ==
  s \in Stalling /\ relay[s] = "closing" /\ s \notin relayCancel

\* The event loop runs every ready task and callback.  A cancelled task stops
\* dialing, copying or waiting for its peers; wait_closed() ends by itself when
\* the peers read.  Nothing makes anyone call deliver(), accept(), cancel() or
\* close(), makes an uncancelled relay end, or a stalled peer read again.
RelaySteps(s) ==
  \/ RelayStart(s) \/ RelayReaped(s)
  \/ ~StuckAtPeer(s) /\ RelayDone(s)
  \/ s \in relayCancel /\ (RelayDialFails(s) \/ RelayFinally(s))

Fairness ==
  /\ \A a \in Callers : WF_vars(Resume(a))
  /\ \A s \in Streams : WF_vars(RelaySteps(s))
  /\ \A k \in Closers : WF_vars(CloseReturns(k))

Spec == Init /\ [][Next]_vars /\ Fairness

-----------------------------------------------------------------------------
\* Properties

\* Every variable holds a value the code can give it, and a caller has a future
\* exactly while it is suspended in get().
TypeOK ==
  /\ queue \in Seq(Streams) /\ waiters \in Seq(Callers)
  /\ closeErr \in {"none", "tunnel", "control"} /\ hardClosed \in BOOLEAN
  /\ pc \in [Callers -> {"idle", "waiting", "ended"}]
  /\ fut \in [Callers -> {"none", "pending", "result", "error", "cancelled"}]
  /\ handoff \in [Callers -> SUBSET Streams] /\ mustCancel \subseteq Callers
  /\ held \in [Callers -> SUBSET Streams]
  /\ offered \subseteq Streams /\ sclosed \subseteq Streams /\ dropped \subseteq Streams
  /\ relay \in [Streams -> {"none", "created", "dialing", "copying", "closing", "done"}]
  /\ relayCancel \subseteq Streams /\ forwarded \subseteq Streams
  /\ closer \in [Closers -> {"idle", "requested", "gathering", "returned", "failed"}]
  /\ awaited \in [Closers -> SUBSET Streams]
  /\ \A a \in Callers : fut[a] # "none" <=> pc[a] = "waiting"

\* A stream never sits in the queue while an accept() waits for one, and every
\* waiting accept() whose future is open can still be found by put() and
\* close(): cancelled waiters in the deque do not hide the live ones.  A closed
\* tunnel holds no queued stream and keeps no accept() waiting.
NothingStranded ==
  /\ queue # <<>> => \A a \in Callers : fut[a] # "pending"
  /\ \A a \in Callers : fut[a] = "pending" => a \in ToSet(waiters)
  /\ closed => queue = <<>> /\ \A a \in Callers : fut[a] # "pending"

\* Who answers for a delivered stream: the queue, the future of an accept(),
\* the application that accepted it, the relay it was forwarded to.
Owners(s) ==
  {<<"queue", i>> : i \in {j \in DOMAIN queue : queue[j] = s}}
    \cup {<<"handoff", a>> : a \in {b \in Callers : s \in handoff[b]}}
    \cup {<<"held", a>> : a \in {b \in Callers : s \in held[b]}}
    \cup (IF RelayActive(s) THEN {<<"relay", s>>} ELSE {})

\* Every delivered stream has at most one owner, and an open one has exactly
\* one - except a stream dropped by a cancelled accept() and one whose relay
\* could not dial, which nothing in tunnel.py or stream.py closes any more.
\* A stream is handed to an open future only, never to a cancelled one.
OneOwner ==
  /\ \A a \in Callers : handoff[a] # {} <=> fut[a] = "result"
  /\ \A s \in Streams :
    /\ Cardinality(Owners(s)) <= 1
    /\ (s \in offered \ sclosed /\ s \notin dropped /\ relay[s] # "done")
         => Owners(s) # {}

\* After a hard close every stream still in a forward task is closed, also the
\* ones a soft close before it had spared, and when close() returns no relay of
\* the tunnel is running.
ClosesComplete ==
  /\ hardClosed => forwarded \subseteq sclosed
  /\ \A k \in Closers : closer[k] = "returned" => \A s \in Streams : ~RelayActive(s)

\* After a hard close accept() returns no stream and forward_to() starts no
\* relay, whatever was handed to a waiting accept() before it.  A soft close
\* (control channel lost) closes the streams nobody accepted and no other:
\* accepted streams and running relays drain.
ClosesSelective ==
  [][/\ hardClosed => /\ \A a \in Callers : held'[a] \subseteq held[a]
                      /\ forwarded' \subseteq forwarded
     /\ ~closed /\ closed' /\ ~hardClosed'
          => /\ sclosed' = sclosed \cup ToSet(queue)
             /\ relayCancel' = relayCancel]_vars

\* After a hard close every relay ends for good and a close() that waits for
\* the relays returns - unless a relay waits for a peer that stopped reading
\* (stream.py:82-86): that relay, and every close() that gathers it, waits
\* until it is cancelled once more.
HardCloseEndsRelays ==
  /\ \A s \in Streams : hardClosed ~> [](~RelayActive(s) \/ StuckAtPeer(s))
  /\ \A k \in Closers : closer[k] = "gathering"
       ~> [](closer[k] = "returned" \/ \E s \in awaited[k] : StuckAtPeer(s))

\* Stated by a test (test_control_close_closes_an_unaccepted_proxy_stream):
\* a hard close closes every stream accept() never returned.  The queue and
\* the futures are covered, a stream dropped by a cancelled accept() is not.
HardCloseClosesUnaccepted ==
  hardClosed => dropped \subseteq sclosed

\* Stated by README.md (an explicit close "terminates active local
\* forwarding"): after a hard close no stream that was forwarded is open.
HardCloseClosesEveryForwarded ==
  hardClosed => \A s \in Streams : relay[s] # "none" => s \in sclosed
=============================================================================
