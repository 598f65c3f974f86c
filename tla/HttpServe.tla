----------------------------- MODULE HttpServe -----------------------------
(***************************************************************************)
(* What the ASGI and the WSGI adapter share: the serve() loop that takes   *)
(* streams from a tunnel and runs one handler task per stream, the reading *)
(* and parsing of one HTTP/1.1 request with h11, the error responses, and  *)
(* the end of a handler.                                                   *)
(*                                                                         *)
(* A handler is a record.  "at" is the await it is suspended in, or        *)
(* "parsing": it runs until its next await while everything else waits,    *)
(* as on one event loop (Idle).  h11 is external: the client's side goes   *)
(* from "idle" (no head yet) over "body" to "done", ours from "ready" over *)
(* "body" to "done", and to "error" when something is sent out of turn,    *)
(* which raises LocalProtocolError.  Data events are counted in units.     *)
(***************************************************************************)
EXTENDS Naturals, Sequences

CONSTANTS
  Streams,
  Deliveries,  \* bound: the streams that arrive for each adapter
  MaxBody,     \* max_body_size, in data events
  MaxPartial   \* max_header_size, in reads that complete no event

ASSUME HttpAssumption == 
  /\ MaxBody \in Nat /\ MaxPartial \in Nat
  /\ Deliveries \in [{"asgi", "wsgi"} -> SUBSET Streams]

VARIABLES
  adapter,  \* "asgi" or "wsgi": which serve() this is
  tunnel,   \* "open", "closed" hard, or "lost": closed softly with an error
  serve,    \* "accepting", "gathering" its handlers in the finally, "ended"
  caller,   \* "serving", or it has "cancelled" serve()
  h         \* the stream and the handler task of each stream, see New

rest == <<adapter, tunnel, serve, caller>>
vars == <<rest, h>>

Suspended == {"reading", "awaiting", "rejecting", "working", "answering",
              "reaping", "closing"}

New == [
  at       |-> "queued",  \* then "handed" to serve(), "new" task, ..., "ended"
  sent     |-> "idle",    \* the client's side of h11
  partial  |-> 0,         \* reads since the last event
  body     |-> 0,         \* data events parsed
  our      |-> "ready",   \* our side of h11
  stream   |-> "open",
  cancel   |-> FALSE,     \* a cancellation is due at the next await
  fate     |-> {},        \* history: "cancelled", "eof" in the request
  task     |-> "none",    \* the app task (ASGI) or the worker thread (WSGI)
  doing    |-> "none",    \* ASGI: which drain the app task is in
  quit     |-> FALSE,     \* ASGI: app_task.cancel() was called
  queue    |-> <<>>,      \* ASGI: request_queue
  over     |-> FALSE,     \* ASGI: request_complete
  started  |-> FALSE,     \* ASGI: response_state
  complete |-> FALSE]

Step(s, r) == h' = [h EXCEPT ![s] = r]

\* Nothing runs between two awaits of a handler.
Idle == \A s \in Streams : h[s].at # "parsing"

-----------------------------------------------------------------------------
\* The end of a handler

\* Mutant: the stream is closed before the app task is reaped, not after.
FinallyKeepsApp(r) == [r EXCEPT !.stream = "closed", !.at = "closing"]

\* The finally block: cancel and reap an app task that runs, close the stream.
Finally(r) ==
  IF adapter = "wsgi" \/ r.task \in {"none", "done"}
  THEN [r EXCEPT !.stream = "closed", !.at = "closing", !.cancel = FALSE]
  ELSE [r EXCEPT !.quit = TRUE, !.at = "reaping", !.cancel = FALSE]

\* A response with a body, up to its drain.  conn.send() raises when a head
\* was sent before: out of an except clause, or into one that sends once more.
Answer(r) ==
  IF r.our = "ready" THEN [r EXCEPT !.our = "done", !.at = "answering"]
  ELSE Finally([r EXCEPT !.our = "error"])

\* The drain ends, fails or is cancelled: each leads to the finally block.
Answered(s) ==
  /\ h[s].at = "answering" /\ Idle
  /\ Step(s, Finally(h[s]))
  /\ UNCHANGED rest

\* wait_closed() ends or is cancelled.
Closed(s) ==
  /\ h[s].at = "closing" /\ Idle
  /\ Step(s, [h[s] EXCEPT !.at = "ended", !.cancel = FALSE])
  /\ UNCHANGED rest

-----------------------------------------------------------------------------
\* serve()

\* task.cancel(): a handler that waits for its app task cancels that as well.
Cancelled(r) ==
  IF r.at \in {"queued", "handed", "ended"} THEN r
  ELSE [r EXCEPT !.cancel = TRUE, !.fate = @ \cup {"cancelled"},
                 !.quit = @ \/ r.at \in {"awaiting", "rejecting", "reaping"}]

\* Mutant: the finally block waits for the handlers and cancels none.
LeaveWaiting(f) == serve' = "gathering" /\ h' = f

\* serve() leaves its loop: the finally block cancels every handler.
Leave(f) == serve' = "gathering" /\ h' = [s \in Streams |-> Cancelled(f[s])]

\* put() resolves the future accept() waits for.
Deliver(s) ==
  /\ Idle /\ tunnel = "open" /\ serve = "accepting" /\ s \in Deliveries[adapter]
  /\ h[s].at = "queued" /\ \A t \in Streams : h[t].at # "handed"
  /\ Step(s, [h[s] EXCEPT !.at = "handed"])
  /\ UNCHANGED rest

TunnelEnds ==
  /\ Idle /\ tunnel = "open"
  /\ tunnel' \in {"closed", "lost"}
  /\ UNCHANGED <<adapter, serve, caller, h>>

\* accept() returns a stream, or raises and closes it after a hard close.  After
\* a loss the next accept() raises before the new task ran for the first time.
ServeAccepts(s) ==
  /\ Idle /\ serve = "accepting" /\ h[s].at = "handed"
  /\ \/ /\ tunnel = "open" /\ Step(s, [h[s] EXCEPT !.at = "new"])
        /\ UNCHANGED serve
     \/ tunnel = "lost" /\ Leave([h EXCEPT ![s].at = "new"])
     \/ /\ tunnel = "closed"
        /\ Leave([h EXCEPT ![s].at = "ended", ![s].stream = "closed"])
  /\ UNCHANGED <<adapter, tunnel, caller>>

ServeLeaves ==
  /\ Idle /\ serve = "accepting" /\ tunnel # "open"
  /\ \A s \in Streams : h[s].at # "handed"
  /\ Leave(h)
  /\ UNCHANGED <<adapter, tunnel, caller>>

\* serve() is cancelled in accept(), which drops a stream it was handed, or in
\* the gather of the finally block, which cancels the handlers once more.
ServeCancelled ==
  /\ Idle /\ serve \in {"accepting", "gathering"}
  /\ Leave([s \in Streams |->
        IF h[s].at = "handed" THEN [h[s] EXCEPT !.at = "ended", !.fate = {"cancelled"}]
        ELSE h[s]])
  /\ caller' = "cancelled"
  /\ UNCHANGED <<adapter, tunnel>>

ServeEnds ==
  /\ Idle /\ serve = "gathering"
  /\ \A s \in Streams : h[s].at \in {"queued", "ended"}
  /\ serve' = "ended"
  /\ UNCHANGED <<adapter, tunnel, caller, h>>

\* A task that is cancelled before its first step never enters its try block.
HandlerStarts(s) ==
  /\ h[s].at = "new" /\ Idle
  /\ Step(s, IF h[s].cancel THEN [h[s] EXCEPT !.at = "ended", !.cancel = FALSE]
             ELSE [h[s] EXCEPT !.at = "parsing"])
  /\ UNCHANGED rest

-----------------------------------------------------------------------------
\* Reading: next_event() and _read()

\* next_event() yields a head, data, the end, or raises RemoteProtocolError;
\* the adapters say what each does to the handler.
HasEvent(s, event) ==
  /\ h[s].at = "parsing"
  /\ \/ event = "request" /\ h[s].sent = "idle"
     \/ event \in {"data", "end"} /\ h[s].sent = "body"
     \/ event = "bad"

\* NEED_DATA; h11 raises instead when an event stays incomplete for too long.
NeedsData(s) == h[s].at = "parsing" /\ h[s].partial <= MaxPartial

ReadData(s) ==
  /\ h[s].at = "reading" /\ ~h[s].cancel /\ Idle
  /\ Step(s, [h[s] EXCEPT !.at = "parsing", !.partial = @ + 1])
  /\ UNCHANGED rest

ReadCancelled(s) ==
  /\ h[s].at = "reading" /\ h[s].cancel /\ Idle
  /\ Step(s, Finally(h[s]))
  /\ UNCHANGED rest

\* The other ends of a read: "eof", "timeout" or "error".
ReadEnds(s) == h[s].at = "reading" /\ ~h[s].cancel /\ Idle
=============================================================================
