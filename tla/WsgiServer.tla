----------------------------- MODULE WsgiServer -----------------------------
(***************************************************************************)
(* The WSGI adapter (wsgi.py): the handler reads the whole request, runs   *)
(* the app on a worker thread and answers with what it returned.  The      *)
(* thread pool of asyncio.to_thread() is external: Workers threads, a call *)
(* that waits for one can still be withdrawn, one that runs cannot.        *)
(***************************************************************************)
EXTENDS HttpServe, FiniteSets

CONSTANT Workers

WsgiRequest(s) ==
  /\ HasEvent(s, "request")
  /\ Step(s, [h[s] EXCEPT !.sent = "body", !.partial = 0])
  /\ UNCHANGED rest

\* Mutant: the limit is checked before the data is counted.
WsgiDataLate(s) ==
  /\ HasEvent(s, "data")
  /\ LET r == [h[s] EXCEPT !.body = @ + 1, !.partial = 0] IN
     Step(s, IF h[s].body <= MaxBody THEN r ELSE Answer(r))
  /\ UNCHANGED rest

WsgiData(s) ==
  /\ HasEvent(s, "data")
  /\ LET r == [h[s] EXCEPT !.body = @ + 1, !.partial = 0] IN
     Step(s, IF r.body <= MaxBody THEN r ELSE Answer(r))
  /\ UNCHANGED rest

WsgiEndOfMessage(s) ==
  /\ HasEvent(s, "end")
  /\ Step(s, [h[s] EXCEPT !.sent = "done", !.at = "working", !.task = "pending"])
  /\ UNCHANGED rest

WsgiNeedData(s) ==
  /\ NeedsData(s)
  /\ Step(s, [h[s] EXCEPT !.at = "reading"])
  /\ UNCHANGED rest

\* 400 for bad input and for an early EOF, 408, and 500 for any other error.
WsgiRefuses(s) ==
  /\ HasEvent(s, "bad") \/ ReadEnds(s)
  /\ Step(s, Answer(h[s]))
  /\ UNCHANGED rest

Running == {s \in Streams : h[s].task = "running"}

WorkerStarts(s) ==
  /\ adapter = "wsgi" /\ Idle
  /\ h[s].task = "pending" /\ Cardinality(Running) < Workers
  /\ Step(s, [h[s] EXCEPT !.task = "running"])
  /\ UNCHANGED rest

\* _run_wsgi() returns a response or raises.
WorkerEnds(s) ==
  /\ adapter = "wsgi" /\ Idle /\ h[s].task = "running"
  /\ Step(s, [h[s] EXCEPT !.task = "done"])
  /\ UNCHANGED rest

\* The handler answers with the result, or with 500 when the app raised or its
\* status or headers are refused; a body that does not fit the head it sent
\* (HEAD, 204) raises once more.
WsgiAnswers(s) ==
  /\ h[s].at = "working" /\ h[s].task = "done" /\ ~h[s].cancel /\ Idle
  /\ \/ Step(s, Answer(h[s]))
     \/ Step(s, Finally([h[s] EXCEPT !.our = "error"]))
  /\ UNCHANGED rest

\* A cancelled handler withdraws its call, or leaves a thread that runs.
WsgiCancelled(s) ==
  /\ h[s].at = "working" /\ h[s].cancel /\ Idle
  /\ Step(s, Finally([h[s] EXCEPT !.task = IF @ = "pending" THEN "none" ELSE @]))
  /\ UNCHANGED rest

WsgiHandler(s) ==
  \/ WsgiRequest(s) \/ WsgiData(s) \/ WsgiEndOfMessage(s) \/ WsgiNeedData(s)
  \/ WsgiRefuses(s) \/ WsgiAnswers(s) \/ WsgiCancelled(s)
=============================================================================
