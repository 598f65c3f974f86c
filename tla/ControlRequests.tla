--------------------------- MODULE ControlRequests ---------------------------
(***************************************************************************)
(* create_tunnel() and close_tunnel() calls over one control channel       *)
(* (control.py): the pending futures, the messages in both directions, the *)
(* engine that answers late, never or unasked, timeouts, cancellations and *)
(* the end of the channel.                                                 *)
(*                                                                         *)
(* One action is what one task does between two suspensions.  A tunnel is  *)
(* named by the create_tunnel() call that asked for it.                    *)
(***************************************************************************)
EXTENDS Naturals, Sequences, FiniteSets

CONSTANTS
  Creators,  \* create_tunnel() calls, each with a request id of its own
  Closers,   \* close_tunnel() calls
  Nobody     \* no call

ASSUME RequestsAssumption ==
  Nobody \notin Creators \cup Closers /\ Creators \cap Closers = {}

VARIABLES
  pendingTunnels, \* _pending_tunnels: calls whose future is registered
  pendingClose,   \* _pending_closes: tunnel -> the call that owns the future, or Nobody
  tunnels,        \* _tunnels
  tunnelClosed,   \* tunnel objects whose on_close() ran
  closed,         \* the channel's _closed
  closing,        \* the channel's _closing
  pc,             \* call -> "idle", "locking", "waiting", "returned", "failed"
  fut,            \* call -> the future it owns: "none", "pending", "result", "error"
  target,         \* closer -> the tunnel it closes
  joined,         \* closer -> the owner of the future it awaits
  aborted,        \* history: calls that timed out or were cancelled
  toEngine,       \* control connection, client to engine
  toClient,       \* control connection, engine to client
  engineTunnels,  \* tunnels the engine has open
  misled          \* history: calls answered with a tunnel that has no id

callVars == <<pc, fut, target, joined, aborted>>
wireVars == <<toEngine, toClient, engineTunnels, misled>>
tableVars == <<pendingTunnels, pendingClose, tunnels, tunnelClosed>>
vars == <<tableVars, closed, closing, callVars, wireVars>>

Calls == Creators \cup Closers
Message == [type : {"open", "close"}, id : Creators]
Response == [type : {"opened", "refused", "malformed", "closed"}, id : Creators]

Init ==
  /\ pendingTunnels = {} /\ tunnels = {} /\ tunnelClosed = {}
  /\ pendingClose = [t \in Creators |-> Nobody]
  /\ closed = FALSE /\ closing = FALSE
  /\ pc = [c \in Calls |-> "idle"]
  /\ fut = [c \in Calls |-> "none"]
  /\ target = [k \in Closers |-> Nobody]
  /\ joined = [k \in Closers |-> Nobody]
  /\ aborted = {}
  /\ toEngine = <<>> /\ toClient = <<>> /\ engineTunnels = {} /\ misled = {}

To(c, state) == pc' = [pc EXCEPT ![c] = state]
Settle(c, outcome) == fut' = [fut EXCEPT ![c] = outcome]

-----------------------------------------------------------------------------
\* create_tunnel()

CreateBegin(c) ==
  /\ c \in Creators /\ pc[c] = "idle"
  /\ \/ /\ closed \/ closing
        /\ To(c, "failed") /\ UNCHANGED <<fut, pendingTunnels>>
     \/ /\ ~closed /\ ~closing
        /\ To(c, "locking") /\ Settle(c, "pending")
        /\ pendingTunnels' = pendingTunnels \cup {c}
  /\ UNCHANGED <<pendingClose, tunnels, tunnelClosed, closed, closing, target, joined,
                 aborted, wireVars>>

\* The write lock is ours: the channel may have closed since _write() checked,
\* and then the bytes are dropped.
Send(message) ==
  toEngine' = IF closed THEN toEngine ELSE Append(toEngine, message)

CreateWrite(c) ==
  /\ c \in Creators /\ pc[c] = "locking"
  /\ Send([type |-> "open", id |-> c])
  /\ To(c, "waiting")
  /\ UNCHANGED <<tableVars, closed, closing, fut, target, joined, aborted, toClient,
                 engineTunnels, misled>>

CreateResume(c) ==
  /\ c \in Creators /\ pc[c] = "waiting"
  /\ \/ fut[c] = "result" /\ To(c, "returned") /\ UNCHANGED pendingTunnels
     \/ fut[c] = "error" /\ To(c, "failed") /\ pendingTunnels' = pendingTunnels \ {c}
  /\ UNCHANGED <<pendingClose, tunnels, tunnelClosed, closed, closing, fut, target, joined,
                 aborted, wireVars>>

\* A failed write, a timeout or a cancellation, which may also come between
\* the answer and the step in which the caller would have seen it.
CreateAborts(c) ==
  /\ c \in Creators /\ pc[c] \in {"locking", "waiting"}
  /\ To(c, "failed") /\ aborted' = aborted \cup {c}
  /\ pendingTunnels' = pendingTunnels \ {c}
  /\ UNCHANGED <<pendingClose, tunnels, tunnelClosed, closed, closing, fut, target, joined,
                 wireVars>>

-----------------------------------------------------------------------------
\* close_tunnel()

\* Mutant: every caller sends a request of its own.
CloseBeginAlone(k, t) ==
  /\ pc[k] = "idle" /\ t \in tunnels
  /\ To(k, "locking") /\ Settle(k, "pending")
  /\ pendingClose' = [pendingClose EXCEPT ![t] = k]
  /\ target' = [target EXCEPT ![k] = t]
  /\ joined' = [joined EXCEPT ![k] = k]
  /\ UNCHANGED <<pendingTunnels, tunnels, tunnelClosed, closed, closing, aborted, wireVars>>

\* Mutant: a caller that joins a future registers itself in its place.
CloseBeginReplaces(k, t) ==
  /\ pc[k] = "idle" /\ t \in tunnels
  /\ pendingClose' = [pendingClose EXCEPT ![t] = k]
  /\ target' = [target EXCEPT ![k] = t]
  /\ \/ /\ pendingClose[t] = Nobody
        /\ To(k, "locking") /\ Settle(k, "pending")
        /\ joined' = [joined EXCEPT ![k] = k]
     \/ /\ pendingClose[t] # Nobody
        /\ To(k, "waiting")
        /\ joined' = [joined EXCEPT ![k] = pendingClose[t]]
        /\ UNCHANGED fut
  /\ UNCHANGED <<pendingTunnels, tunnels, tunnelClosed, closed, closing, aborted, wireVars>>

CloseBegin(k, t) ==
  /\ pc[k] = "idle"
  /\ \/ /\ t \notin tunnels
        /\ To(k, "returned")
        /\ UNCHANGED <<fut, pendingClose, target, joined>>
     \/ /\ t \in tunnels /\ pendingClose[t] = Nobody
        /\ To(k, "locking") /\ Settle(k, "pending")
        /\ pendingClose' = [pendingClose EXCEPT ![t] = k]
        /\ target' = [target EXCEPT ![k] = t]
        /\ joined' = [joined EXCEPT ![k] = k]
     \/ /\ t \in tunnels /\ pendingClose[t] # Nobody
        /\ To(k, "waiting")
        /\ target' = [target EXCEPT ![k] = t]
        /\ joined' = [joined EXCEPT ![k] = pendingClose[t]]
        /\ UNCHANGED <<fut, pendingClose>>
  /\ UNCHANGED <<pendingTunnels, tunnels, tunnelClosed, closed, closing, aborted, wireVars>>

CloseWrite(k) ==
  /\ k \in Closers /\ pc[k] = "locking"
  /\ Send([type |-> "close", id |-> target[k]])
  /\ To(k, "waiting")
  /\ UNCHANGED <<tableVars, closed, closing, fut, target, joined, aborted, toClient,
                 engineTunnels, misled>>

\* Forget the future this caller waits for, unless a later one took its place.
Unregister(k) ==
  pendingClose' = [pendingClose EXCEPT ![target[k]] = IF @ = joined[k] THEN Nobody ELSE @]

CloseResume(k) ==
  /\ k \in Closers /\ pc[k] = "waiting"
  /\ \/ fut[joined[k]] = "result" /\ To(k, "returned") /\ UNCHANGED pendingClose
     \/ fut[joined[k]] = "error" /\ To(k, "failed") /\ Unregister(k)
  /\ UNCHANGED <<pendingTunnels, tunnels, tunnelClosed, closed, closing, fut, target, joined,
                 aborted, wireVars>>

\* A timeout or a cancellation of one waiter unregisters the future all share;
\* a failed write of the owner unregisters whatever is registered.
CloseAborts(k) ==
  /\ k \in Closers
  /\ \/ pc[k] = "waiting" /\ Unregister(k)
     \/ pc[k] = "locking" /\ pendingClose' = [pendingClose EXCEPT ![target[k]] = Nobody]
  /\ To(k, "failed") /\ aborted' = aborted \cup {k}
  /\ UNCHANGED <<pendingTunnels, tunnels, tunnelClosed, closed, closing, fut, target, joined,
                 wireVars>>

-----------------------------------------------------------------------------
\* The end of the channel

\* Calls whose future is registered.
Registered == pendingTunnels \cup {pendingClose[t] : t \in Creators}

EmptyTables ==
  /\ closed' = TRUE
  /\ tunnels' = {} /\ pendingTunnels' = {}
  /\ pendingClose' = [t \in Creators |-> Nobody]

\* _finish(): registered futures fail, tunnels close, the tables are emptied.
Finish(failing) ==
  /\ EmptyTables
  /\ fut' = [c \in Calls |-> IF c \in failing THEN "error" ELSE fut[c]]
  /\ tunnelClosed' = tunnelClosed \cup tunnels

ChannelEnds ==
  /\ ~closed
  /\ Finish(Registered)
  /\ UNCHANGED <<closing, pc, target, joined, aborted, wireVars>>

\* close() begins: no create_tunnel() starts from here on.
ControlClose ==
  /\ ~closed /\ ~closing
  /\ closing' = TRUE
  /\ UNCHANGED <<tableVars, closed, callVars, wireVars>>

-----------------------------------------------------------------------------
\* The read loop

ReadVars == UNCHANGED <<closing, misled, pc, target, joined, aborted, toEngine,
                        engineTunnels>>

\* Mutant: the future of an answered request stays registered.
HandleOpenTunnelRspKeeps(c) ==
  /\ c \in pendingTunnels
  /\ Settle(c, "result")
  /\ tunnels' = tunnels \cup {c}
  /\ UNCHANGED <<pendingTunnels, pendingClose, tunnelClosed>>

\* Mutant: the tunnel is handed to the caller and not registered.
HandleOpenTunnelRspDrops(c) ==
  /\ c \in pendingTunnels
  /\ Settle(c, "result")
  /\ pendingTunnels' = pendingTunnels \ {c}
  /\ UNCHANGED <<tunnels, pendingClose, tunnelClosed>>

\* A response nobody waits for is ignored: an opened tunnel stays unknown.
HandleOpenTunnelRsp(c) ==
  /\ \/ /\ c \notin pendingTunnels
        /\ UNCHANGED <<fut, tunnels>>
     \/ /\ c \in pendingTunnels /\ Head(toClient).type = "opened"
        /\ Settle(c, "result")
        /\ tunnels' = tunnels \cup {c}
     \/ /\ c \in pendingTunnels /\ Head(toClient).type = "refused"
        /\ Settle(c, "error")
        /\ UNCHANGED tunnels
  /\ pendingTunnels' = pendingTunnels \ {c}
  /\ UNCHANGED <<pendingClose, tunnelClosed>>

\* Mutant: the future is unregistered without being resolved.
HandleCloseTunnelRspSilent(t) ==
  /\ tunnels' = tunnels \ {t}
  /\ tunnelClosed' = tunnelClosed \cup (tunnels \cap {t})
  /\ pendingClose' = [pendingClose EXCEPT ![t] = Nobody]
  /\ UNCHANGED <<fut, pendingTunnels>>

\* The tunnel closes whether or not anybody here asked for it.
HandleCloseTunnelRsp(t) ==
  /\ tunnels' = tunnels \ {t}
  /\ tunnelClosed' = tunnelClosed \cup (tunnels \cap {t})
  /\ \/ pendingClose[t] # Nobody /\ Settle(pendingClose[t], "result")
     \/ pendingClose[t] = Nobody /\ UNCHANGED fut
  /\ pendingClose' = [pendingClose EXCEPT ![t] = Nobody]
  /\ UNCHANGED pendingTunnels

\* The tunnel object refuses properties without an id: the future, already
\* unregistered, is not resolved, and the exception ends the channel.
HandleMalformedRsp(c) == Finish(Registered \ {c})

HandleMessage ==
  /\ ~closed /\ toClient # <<>>
  /\ LET id == Head(toClient).id IN
       CASE Head(toClient).type = "closed" -> HandleCloseTunnelRsp(id) /\ UNCHANGED closed
         [] Head(toClient).type = "malformed" /\ id \in pendingTunnels
              -> HandleMalformedRsp(id)
         [] OTHER -> HandleOpenTunnelRsp(id) /\ UNCHANGED closed
  /\ toClient' = Tail(toClient)
  /\ ReadVars

-----------------------------------------------------------------------------
\* The engine

EngineVars == UNCHANGED <<tableVars, closed, closing, callVars>>

EngineOpens ==
  /\ toEngine # <<>> /\ Head(toEngine).type = "open"
  /\ LET c == Head(toEngine).id IN
       \/ /\ engineTunnels' = engineTunnels \cup {c}
          /\ toClient' = Append(toClient, [type |-> "opened", id |-> c])
          /\ UNCHANGED misled
       \/ /\ toClient' = Append(toClient, [type |-> "refused", id |-> c])
          /\ UNCHANGED <<engineTunnels, misled>>
       \/ /\ toClient' = Append(toClient, [type |-> "malformed", id |-> c])
          /\ misled' = misled \cup {c}
          /\ UNCHANGED engineTunnels
  /\ toEngine' = Tail(toEngine)
  /\ EngineVars

EngineCloses ==
  /\ toEngine # <<>> /\ Head(toEngine).type = "close"
  /\ engineTunnels' = engineTunnels \ {Head(toEngine).id}
  /\ toClient' = Append(toClient, [type |-> "closed", id |-> Head(toEngine).id])
  /\ toEngine' = Tail(toEngine)
  /\ UNCHANGED misled /\ EngineVars

\* The engine closes a tunnel on its own.
EngineDrops(t) ==
  /\ t \in engineTunnels
  /\ engineTunnels' = engineTunnels \ {t}
  /\ toClient' = Append(toClient, [type |-> "closed", id |-> t])
  /\ UNCHANGED <<toEngine, misled>> /\ EngineVars

-----------------------------------------------------------------------------
Next ==
  \/ \E c \in Creators : CreateBegin(c) \/ CreateWrite(c) \/ CreateResume(c) \/ CreateAborts(c)
  \/ \E k \in Closers, t \in Creators : CloseBegin(k, t)
  \/ \E k \in Closers : CloseWrite(k) \/ CloseResume(k) \/ CloseAborts(k)
  \/ HandleMessage \/ ChannelEnds \/ ControlClose
  \/ EngineOpens \/ EngineCloses
  \/ \E t \in Creators : EngineDrops(t)

\* Tasks that can go on do, received messages are handled, the engine answers
\* what it reads.  Nothing makes a call time out: the properties say what is
\* settled without the help of operation_timeout.
Fairness ==
  /\ \A c \in Calls : WF_vars(CreateWrite(c)) /\ WF_vars(CreateResume(c))
                      /\ WF_vars(CloseWrite(c)) /\ WF_vars(CloseResume(c))
  /\ WF_vars(HandleMessage) /\ WF_vars(EngineOpens) /\ WF_vars(EngineCloses)

Spec == Init /\ [][Next]_vars /\ Fairness

-----------------------------------------------------------------------------
\* Properties

\* Every variable holds a value the code can give it; a future registered for a
\* close belongs to a call for that tunnel.
TypeOK ==
  /\ pendingTunnels \subseteq Creators /\ pendingClose \in [Creators -> Closers \cup {Nobody}]
  /\ tunnels \subseteq Creators /\ tunnelClosed \subseteq Creators
  /\ closed \in BOOLEAN /\ closing \in BOOLEAN
  /\ pc \in [Calls -> {"idle", "locking", "waiting", "returned", "failed"}]
  /\ fut \in [Calls -> {"none", "pending", "result", "error"}]
  /\ target \in [Closers -> Creators \cup {Nobody}]
  /\ joined \in [Closers -> Closers \cup {Nobody}]
  /\ aborted \subseteq Calls
  /\ toEngine \in Seq(Message) /\ toClient \in Seq(Response) /\ engineTunnels \subseteq Creators
  /\ misled \subseteq Creators
  /\ \A t \in Creators : pendingClose[t] # Nobody =>
       target[pendingClose[t]] = t /\ joined[pendingClose[t]] = pendingClose[t]

\* A registered future is not done: the handlers of the read loop, which
\* resolve it without asking, never raise InvalidStateError (which would end
\* the channel), however responses, timeouts and duplicates are ordered.  Every
\* tunnel object a caller got is either registered or closed; on a closed
\* channel all are closed, those whose caller has not resumed yet too.
NothingForgotten ==
  /\ \A c \in Registered \ {Nobody} : fut[c] = "pending"
  /\ tunnels \cap tunnelClosed = {}
  /\ \A c \in Creators : fut[c] = "result" => c \in tunnels \cup tunnelClosed
  /\ closed => tunnels = {} /\ pendingTunnels = {}

\* While the channel is open, a tunnel the client holds open is open at the
\* engine too, or the engine's word that it closed is on its way; and a tunnel
\* only the engine knows about was asked for by a call that gave up: no answered
\* create_tunnel() leaves one behind.
AgreesWithEngine ==
  LET Coming(type, t) == \E i \in DOMAIN toClient : toClient[i] = [type |-> type, id |-> t]
  IN  ~closed => /\ \A t \in tunnels \ engineTunnels : Coming("closed", t)
                 /\ \A t \in engineTunnels \ (tunnels \cup aborted) : Coming("opened", t)

\* Requests to close t that are written or about to be.
CloseRequests(t) ==
  {<<"wire", i>> : i \in {j \in DOMAIN toEngine : toEngine[j] = [type |-> "close", id |-> t]}}
    \cup {<<"call", k>> : k \in {j \in Closers : pc[j] = "locking" /\ target[j] = t}}

\* Concurrent close_tunnel() calls share one request, as long as none of them
\* gives up.
OneCloseRequest ==
  \A t \in Creators :
    Cardinality(CloseRequests(t)) > 1 => \E k \in aborted : k \in Closers /\ target[k] = t

\* Once the channel is closed every create_tunnel() call ends without its
\* timeout - unless the engine's answer to it was the malformed message that
\* closed the channel - and so does every close_tunnel() call unless a caller for
\* the same tunnel gave up: that one may have unregistered the future of this
\* one.  On an open channel a close_tunnel() call ends so when the engine answers.
CallsEnd ==
  LET Abandoned(k) == \E j \in aborted \cap Closers : target[j] = target[k]
  IN  /\ \A c \in Calls :
           closed ~> \/ pc[c] \notin {"locking", "waiting"}
                     \/ c \in misled
                     \/ c \in Closers /\ Abandoned(c)
      /\ \A k \in Closers : pc[k] = "waiting" ~> pc[k] # "waiting" \/ Abandoned(k)
=============================================================================
