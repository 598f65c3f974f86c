---------------------------- MODULE HttpAdapters ----------------------------
(***************************************************************************)
(* The serving of one tunnel by either adapter: serve(), its handlers, the *)
(* clients, the app tasks or threads, and a caller who may cancel serve(). *)
(***************************************************************************)
EXTENDS AsgiServer, WsgiServer

Init ==
  /\ adapter \in {"asgi", "wsgi"}
  /\ tunnel = "open" /\ serve = "accepting" /\ caller = "serving"
  /\ h = [s \in Streams |-> New]

Serve ==
  \/ \E s \in Streams : ServeAccepts(s)
  \/ ServeLeaves \/ ServeEnds

Handler(s) ==
  \/ HandlerStarts(s) \/ ReadCancelled(s) \/ Closed(s)
  \/ adapter = "asgi" /\ AsgiHandler(s)
  \/ adapter = "wsgi" /\ WsgiHandler(s)

Next ==
  \/ Serve \/ ServeCancelled \/ TunnelEnds
  \/ \E s \in Streams :
       \/ Deliver(s) \/ ReadData(s) \/ AsgiClient(s)
       \/ Handler(s) \/ Answered(s)
       \/ AsgiApp(s) \/ WorkerStarts(s) \/ WorkerEnds(s)

\* The event loop runs what is ready, a read ends by its timeout at the latest,
\* the error response of the ASGI adapter is drained at once (nothing was
\* written before it), any other drain when it is cancelled, a TLS shutdown is
\* bounded, and an app task ends when it is cancelled.  Nothing is assumed of
\* an app that runs, of its drains, or of a worker thread.
Fairness ==
  /\ WF_vars(Serve)
  /\ \A s \in Streams :
       /\ WF_vars(Handler(s))
       /\ WF_vars((adapter = "asgi" \/ h[s].cancel) /\ Answered(s))
       /\ WF_vars(AppReceived(s)) /\ WF_vars(AppCancelled(s))

Spec == Init /\ [][Next]_vars /\ Fairness

-----------------------------------------------------------------------------
TypeOK ==
  /\ adapter \in {"asgi", "wsgi"} /\ tunnel \in {"open", "closed", "lost"}
  /\ serve \in {"accepting", "gathering", "ended"} /\ caller \in {"serving", "cancelled"}
  /\ h \in [Streams -> [
       at : Suspended \cup {"queued", "handed", "new", "parsing", "ended"},
       sent : {"idle", "body", "done"}, partial : 0 .. MaxPartial + 1,
       body : 0 .. MaxBody + 1, our : {"ready", "body", "done", "error"},
       stream : {"open", "closed"}, cancel : BOOLEAN,
       fate : SUBSET {"cancelled", "eof"},
       task : {"none", "new", "running", "receiving", "draining", "pending", "done"},
       doing : {"none", "start", "body", "end", "apology"}, quit : BOOLEAN,
       queue : Seq({"data", "end", "disconnect"}), over : BOOLEAN,
       started : BOOLEAN, complete : BOOLEAN]]

\* Every stream gets a response head, whatever fails: a handler that ends with
\* nothing written was cancelled, or its client left in the middle of a request
\* to a running app.  (The 400, 408, 413 and 500 paths, the 204, and the flags
\* of a response that starts under one of them.)
NoSilentEnd ==
  \A s \in Streams :
    h[s].at = "closing" /\ h[s].our = "ready" => h[s].fate # {}

\* A handler that is done has closed its stream and no app task of its own
\* runs on; only one that was cancelled, before its first step or in its
\* finally block, leaves the stream open.
EndedReleases ==
  \A s \in Streams : h[s].at = "ended" =>
    /\ h[s].stream = "closed" \/ "cancelled" \in h[s].fate
    /\ adapter = "asgi" => h[s].task \in {"none", "done"}

\* A WSGI app runs on a whole request within max_body_size, and an ASGI app is
\* never handed more than that, nor the end of a body that was refused.
BodyWithinLimit ==
  \A s \in Streams :
    /\ adapter = "wsgi" /\ h[s].task # "none"
         => h[s].sent = "done" /\ h[s].body <= MaxBody
    /\ h[s].body > MaxBody => \A i \in DOMAIN h[s].queue : h[s].queue[i] # "end"
    /\ Cardinality({i \in DOMAIN h[s].queue : h[s].queue[i] = "data"}) <= MaxBody

\* An app that waits in receive() is released: by the rest of the request, by
\* EOF, by the read timeout or by the cancellation of its handler.
ReceiveReleased ==
  \A s \in Streams : h[s].task = "receiving" ~> h[s].task # "receiving"

\* serve() ends once the tunnel did: the handlers it cancels end, whatever
\* their apps and clients do.
ServeFinishes == tunnel # "open" ~> serve = "ended"

\* Violated by both adapters: when the control channel is lost, the streams
\* that were accepted are left to drain (README.md:151-155).
LossSparesAccepted ==
  tunnel = "lost" /\ caller = "serving"
    => \A s \in Streams : "cancelled" \notin h[s].fate
=============================================================================
