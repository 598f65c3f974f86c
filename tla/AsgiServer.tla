----------------------------- MODULE AsgiServer -----------------------------
(***************************************************************************)
(* The ASGI adapter (asgi.py): the handler feeds the request to an app     *)
(* task through a queue while the app answers on the same connection; the  *)
(* handler and the app task interleave at their awaits.  The app is        *)
(* external: between its awaits it may receive, send, return or raise, and *)
(* it lets a cancellation end it.                                          *)
(***************************************************************************)
EXTENDS HttpServe

Put(r, message) == [r EXCEPT !.queue = Append(@, message)]

-----------------------------------------------------------------------------
\* _serve_stream()

AnswerUnlessStarted(r) == IF r.started THEN Finally(r) ELSE Answer(r)

AsgiRequest(s) ==
  /\ HasEvent(s, "request")
  /\ Step(s, [h[s] EXCEPT !.sent = "body", !.partial = 0, !.task = "new"])
  /\ UNCHANGED rest

\* Mutant: a body that is too large is refused, and read on.
AsgiDataReadOn(s) ==
  /\ HasEvent(s, "data")
  /\ LET r == [h[s] EXCEPT !.body = @ + 1, !.partial = 0] IN
     Step(s, IF r.body <= MaxBody THEN Put(r, "data")
             ELSE [Put(r, "disconnect") EXCEPT !.quit = TRUE])
  /\ UNCHANGED rest

\* Data is queued; too much of it cancels the app task and waits for it.
AsgiData(s) ==
  /\ HasEvent(s, "data")
  /\ LET r == [h[s] EXCEPT !.body = @ + 1, !.partial = 0] IN
     Step(s, IF r.body <= MaxBody THEN Put(r, "data")
             ELSE [Put(r, "disconnect") EXCEPT !.quit = TRUE, !.at = "rejecting"])
  /\ UNCHANGED rest

AsgiEndOfMessage(s) ==
  /\ HasEvent(s, "end")
  /\ Step(s, [Put(h[s], "end") EXCEPT !.sent = "done", !.at = "awaiting"])
  /\ UNCHANGED rest

\* RemoteProtocolError: 400, whatever the app has sent.
AsgiBadInput(s) ==
  /\ HasEvent(s, "bad")
  /\ Step(s, Answer(h[s]))
  /\ UNCHANGED rest

\* NEED_DATA: nothing more is read for an app that is done and has answered.
AsgiNeedData(s) ==
  /\ NeedsData(s)
  /\ Step(s, IF h[s].task = "done" /\ h[s].complete THEN Finally(h[s])
             ELSE [h[s] EXCEPT !.at = "reading"])
  /\ UNCHANGED rest

\* Mutant: EOF ends the handler without an answer, app or no app.
AsgiEofSilent(s) ==
  /\ ReadEnds(s)
  /\ Step(s, Finally(Put(h[s], "disconnect")))
  /\ UNCHANGED rest

AsgiEof(s) ==
  /\ ReadEnds(s)
  /\ Step(s, IF h[s].task = "none" THEN Answer(h[s])
             ELSE Finally([Put(h[s], "disconnect") EXCEPT !.fate = @ \cup {"eof"}]))
  /\ UNCHANGED rest

\* Mutant: read_timeout is not applied.
AsgiTimeoutNever(s) == FALSE /\ UNCHANGED vars

AsgiTimeout(s) ==
  /\ ReadEnds(s)
  /\ Step(s, AnswerUnlessStarted(
        IF h[s].task = "none" THEN h[s] ELSE Put(h[s], "disconnect")))
  /\ UNCHANGED rest

AsgiReadError(s) ==
  /\ ReadEnds(s)
  /\ Step(s, AnswerUnlessStarted(h[s]))
  /\ UNCHANGED rest

\* `await app_task' and the gather of _reject_running_app() end with the task.
AppAwaited(s) ==
  /\ h[s].at \in {"awaiting", "rejecting"} /\ h[s].task = "done" /\ Idle
  /\ Step(s, IF h[s].cancel \/ (h[s].at = "awaiting" /\ h[s].quit)
             THEN Finally(h[s]) ELSE AnswerUnlessStarted(h[s]))
  /\ UNCHANGED rest

\* The gather of the finally block.  A cancellation that arrives there leaves
\* the finally block before stream.close().
AppReaped(s) ==
  /\ h[s].at = "reaping" /\ h[s].task = "done" /\ Idle
  /\ Step(s, IF h[s].cancel THEN [h[s] EXCEPT !.at = "ended", !.cancel = FALSE]
             ELSE Finally(h[s]))
  /\ UNCHANGED rest

AsgiClient(s) == adapter = "asgi" /\ (AsgiEof(s) \/ AsgiReadError(s))

AsgiHandler(s) ==
  \/ AsgiRequest(s) \/ AsgiData(s) \/ AsgiEndOfMessage(s) \/ AsgiBadInput(s)
  \/ AsgiNeedData(s) \/ AsgiTimeout(s)
  \/ AppAwaited(s) \/ AppReaped(s)

-----------------------------------------------------------------------------
\* _dispatch_asgi(): the app task

App(s, where) ==
  adapter = "asgi" /\ Idle /\ h[s].task = where /\ ~h[s].quit

Drain(r, what) == [r EXCEPT !.task = "draining", !.doing = what]

\* The app raises, or conn.send() does under it: a response that was started is
\* left as it is, any other becomes a 500.
Raised(r) ==
  IF r.started THEN [r EXCEPT !.task = "done"]
  ELSE IF r.our = "ready" THEN Drain([r EXCEPT !.our = "done"], "apology")
  ELSE [r EXCEPT !.task = "done", !.our = "error"]

AppStarts(s) ==
  /\ App(s, "new")
  /\ Step(s, [h[s] EXCEPT !.task = "running"])
  /\ UNCHANGED rest

\* receive(); after the end of the request it returns a disconnect at once.
AppReceives(s) ==
  /\ App(s, "running") /\ ~h[s].over
  /\ Step(s, [h[s] EXCEPT !.task = "receiving"])
  /\ UNCHANGED rest

AppReceived(s) ==
  /\ App(s, "receiving") /\ h[s].queue # <<>>
  /\ Step(s, [h[s] EXCEPT !.task = "running", !.queue = Tail(@),
                          !.over = Head(h[s].queue) # "data"])
  /\ UNCHANGED rest

\* send() of http.response.start marks the response started after its drain.
AppSendsStart(s) ==
  /\ App(s, "running") /\ ~h[s].started
  /\ Step(s, IF h[s].our = "ready" THEN Drain([h[s] EXCEPT !.our = "body"], "start")
             ELSE Raised(h[s]))
  /\ UNCHANGED rest

\* send() of http.response.body starts a response that was not, and with the
\* last part completes it, before its drain.
AppSendsBody(s, more) ==
  /\ App(s, "running") /\ ~h[s].complete
  /\ Step(s, IF h[s].our = IF h[s].started THEN "body" ELSE "ready"
             THEN Drain([h[s] EXCEPT !.started = TRUE, !.complete = ~more,
                           !.our = IF more THEN "body" ELSE "done"], "body")
             ELSE Raised(h[s]))
  /\ UNCHANGED rest

\* A drain of send() ends; one that fails raises in the app, which may go on.
AppDrained(s, ok) ==
  /\ App(s, "draining") /\ h[s].doing \in {"start", "body"}
  /\ Step(s, [h[s] EXCEPT !.task = "running", !.doing = "none",
                          !.started = @ \/ (ok /\ h[s].doing = "start")])
  /\ UNCHANGED rest

\* The app returns: an incomplete response is completed, 204 when not started.
AppReturns(s) ==
  /\ App(s, "running")
  /\ Step(s, IF h[s].complete THEN [h[s] EXCEPT !.task = "done"]
             ELSE IF h[s].our = IF h[s].started THEN "body" ELSE "ready"
             THEN Drain([h[s] EXCEPT !.started = TRUE, !.complete = TRUE,
                                     !.our = "done"], "end")
             ELSE Raised(h[s]))
  /\ UNCHANGED rest

\* The app raises, after data that did not fit its own content-length perhaps.
AppRaises(s) ==
  /\ App(s, "running")
  /\ \E our \in {h[s].our} \cup IF h[s].our = "body" THEN {"error"} ELSE {} :
       Step(s, Raised([h[s] EXCEPT !.our = our]))
  /\ UNCHANGED rest

\* The drain of the epilogue or of the 500; only a 500 that was drained is
\* marked.
DispatchDrained(s, ok) ==
  /\ App(s, "draining") /\ h[s].doing \in {"end", "apology"}
  /\ Step(s, [h[s] EXCEPT !.task = "done", !.doing = "none",
                          !.started = @ \/ ok, !.complete = @ \/ ok])
  /\ UNCHANGED rest

AppCancelled(s) ==
  /\ adapter = "asgi" /\ Idle /\ h[s].quit /\ h[s].task \notin {"none", "done"}
  /\ Step(s, [h[s] EXCEPT !.task = "done", !.doing = "none"])
  /\ UNCHANGED rest

AsgiApp(s) ==
  \/ AppStarts(s) \/ AppReceives(s) \/ AppReceived(s) \/ AppSendsStart(s)
  \/ \E more \in BOOLEAN : AppSendsBody(s, more)
  \/ \E ok \in BOOLEAN : AppDrained(s, ok)
  \/ AppReturns(s) \/ AppRaises(s)
  \/ \E ok \in BOOLEAN : DispatchDrained(s, ok)
  \/ AppCancelled(s)
=============================================================================
