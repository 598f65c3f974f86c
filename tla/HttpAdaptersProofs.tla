------------------------- MODULE HttpAdaptersProofs -------------------------
(***************************************************************************)
(* Theorems about HttpAdapters: every stream is answered, released and     *)
(* kept within the limits, for any number of streams, any limits and any   *)
(* number of worker threads.                                               *)
(*                                                                         *)
(* Every step changes the record of one handler, or cancels all of them,   *)
(* so that the invariant is one of a single record: Good(adapter, h[s]).   *)
(* Its parts say what the flags of a handler still mean when the finally   *)
(* block, an except clause or the app task reads them several awaits       *)
(* after they were set.                                                    *)
(***************************************************************************)
EXTENDS HttpAdapters, FiniteSetTheorems, SequenceTheorems, TLAPS

Messages == {"data", "end", "disconnect"}

\* The set of handlers in TypeOK.
Places == Suspended \cup {"queued", "handed", "new", "parsing", "ended"}
Sides == {"idle", "body", "done"}
Ours == {"ready", "body", "done", "error"}
Ends == {"open", "closed"}
Fates == SUBSET {"cancelled", "eof"}
Tasks == {"none", "new", "running", "receiving", "draining", "pending", "done"}
Drains == {"none", "start", "body", "end", "apology"}
Partials == 0 .. MaxPartial + 1
Bodies == 0 .. MaxBody + 1

Handlers == [
  at : Places, sent : Sides, partial : Partials, body : Bodies, our : Ours,
  stream : Ends, cancel : BOOLEAN, fate : Fates, task : Tasks, doing : Drains,
  quit : BOOLEAN, queue : Seq(Messages), over : BOOLEAN, started : BOOLEAN,
  complete : BOOLEAN]

Unstarted == {"queued", "handed", "new"}
Reading == {"parsing", "reading"}

\* A cancellation is on record.  The flags of a response are set after its head
\* was sent.  A WSGI app runs on a whole request; what is queued for an ASGI app
\* was counted, and its end closes a body that was within the limit.
HasEnd(q) == \E i \in DOMAIN q : q[i] = "end"
DataIn(q) == Cardinality({i \in DOMAIN q : q[i] = "data"})

BodyOK(a, r) ==
  /\ a = "wsgi" /\ r.task # "none" => r.sent = "done" /\ r.body <= MaxBody
  /\ HasEnd(r.queue) => r.sent = "done" /\ r.body <= MaxBody
  /\ DataIn(r.queue) <= r.body /\ DataIn(r.queue) <= MaxBody

Sound(a, r) ==
  /\ r \in Handlers
  /\ r.cancel => "cancelled" \in r.fate
  /\ r.started \/ r.complete \/ r.doing # "none" => r.our # "ready"
  /\ BodyOK(a, r)

\* A handler that has not started has no task; one that still reads has not
\* told its app to quit and is within both limits.
ReadOK(r) ==
  /\ r.at \in Unstarted => r.task = "none"
  /\ r.at \in Unstarted \cup Reading => ~r.quit /\ r.body <= MaxBody
  /\ r.at \in Unstarted \cup {"reading"} => r.partial <= MaxPartial

\* An app task quits under a handler that awaits it only with that handler, and
\* a handler that has sent no head is on its way out for a reason.
ExitOK(r) ==
  /\ r.at = "awaiting" /\ r.quit => "cancelled" \in r.fate
  /\ r.at = "answering" => r.our # "ready"
  /\ r.at \in {"reaping", "closing"} /\ r.our = "ready" => r.fate # {}

\* The app task ends before the stream is closed.
EndOK(a, r) ==
  /\ r.at \in {"closing", "ended"} /\ a = "asgi" => r.task \in {"none", "done"}
  /\ r.at = "closing" => r.stream = "closed"
  /\ r.at = "ended" => r.stream = "closed" \/ "cancelled" \in r.fate

Good(a, r) == Sound(a, r) /\ ReadOK(r) /\ ExitOK(r) /\ EndOK(a, r)

GoodInv == \A s \in Streams : Good(adapter, h[s])
IInv == TypeOK /\ GoodInv

LEMMA HandlerTypes ==
  TypeOK <=> /\ adapter \in {"asgi", "wsgi"} /\ tunnel \in {"open", "closed", "lost"}
             /\ serve \in {"accepting", "gathering", "ended"}
             /\ caller \in {"serving", "cancelled"} /\ h \in [Streams -> Handlers]
BY DEF TypeOK, Handlers, Places, Sides, Ours, Ends, Fates, Tasks, Drains, Partials, Bodies, Messages

-----------------------------------------------------------------------------
\* request_queue

LEMMA DataIsFinite ==
  ASSUME NEW q \in Seq(Messages)
  PROVE  IsFiniteSet({i \in DOMAIN q : q[i] = "data"}) /\ DataIn(q) \in Nat
<1>1. DOMAIN q = 1 .. Len(q) /\ Len(q) \in Nat
  BY LenProperties
<1>2. IsFiniteSet(DOMAIN q)
  BY <1>1, FS_Interval
<1>3. {i \in DOMAIN q : q[i] = "data"} \in SUBSET DOMAIN q
  OBVIOUS
<1>4. IsFiniteSet({i \in DOMAIN q : q[i] = "data"})
  BY <1>2, <1>3, FS_Subset
<1> QED BY <1>4, FS_CardinalityType DEF DataIn

LEMMA DataIsNat == \A q \in Seq(Messages) : DataIn(q) \in Nat
BY DataIsFinite

LEMMA EmptyQueue == <<>> \in Seq(Messages) /\ ~HasEnd(<<>>) /\ DataIn(<<>>) = 0
<1>1. <<>> \in Seq(Messages) /\ DOMAIN <<>> = {}
  BY EmptySeq, LenProperties
<1>2. {i \in DOMAIN <<>> : <<>>[i] = "data"} = {}
  BY <1>1
<1> QED BY <1>1, <1>2, FS_EmptySet DEF HasEnd, DataIn

\* put() of a message.
LEMMA QueuePut ==
  ASSUME NEW q \in Seq(Messages), NEW m \in Messages
  PROVE  /\ Append(q, m) \in Seq(Messages)
         /\ HasEnd(Append(q, m)) <=> HasEnd(q) \/ m = "end"
         /\ DataIn(Append(q, m)) = IF m = "data" THEN DataIn(q) + 1 ELSE DataIn(q)
<1> DEFINE n == Len(q) + 1
<1>1. /\ Append(q, m) \in Seq(Messages) /\ Len(q) \in Nat
      /\ DOMAIN q = 1 .. Len(q) /\ DOMAIN Append(q, m) = 1 .. n
      /\ \A i \in 1 .. Len(q) : Append(q, m)[i] = q[i]
      /\ Append(q, m)[n] = m
  BY AppendProperties, LenProperties
<1>2. n \notin DOMAIN q /\ DOMAIN Append(q, m) = DOMAIN q \cup {n}
  BY <1>1
<1> HIDE DEF n
<1>3. HasEnd(Append(q, m)) <=> HasEnd(q) \/ m = "end"
  BY <1>1, <1>2 DEF HasEnd
<1>4. CASE m = "data"
  <2>1. {i \in DOMAIN Append(q, m) : Append(q, m)[i] = "data"}
          = {i \in DOMAIN q : q[i] = "data"} \cup {n}
    BY <1>1, <1>2, <1>4
  <2>2. DataIn(Append(q, m)) = DataIn(q) + 1
    BY <1>2, <2>1, DataIsFinite, FS_AddElement DEF DataIn
  <2> QED BY <1>1, <1>3, <1>4, <2>2
<1>5. CASE m # "data"
  <2>1. {i \in DOMAIN Append(q, m) : Append(q, m)[i] = "data"} = {i \in DOMAIN q : q[i] = "data"}
    BY <1>1, <1>2, <1>5
  <2> QED BY <1>1, <1>3, <1>5, <2>1 DEF DataIn
<1> QED BY <1>4, <1>5

\* get() of a message.
LEMMA QueueGet ==
  ASSUME NEW q \in Seq(Messages), q # <<>>
  PROVE  /\ Tail(q) \in Seq(Messages) /\ Head(q) \in Messages
         /\ HasEnd(Tail(q)) => HasEnd(q)
         /\ DataIn(Tail(q)) <= DataIn(q)
<1> DEFINE t == Tail(q)
           D == {i \in DOMAIN q : q[i] = "data"}
           E == {i \in DOMAIN t : t[i] = "data"}
           f == [i \in E |-> i + 1]
<1>1. /\ t \in Seq(Messages) /\ Head(q) \in Messages /\ Len(q) \in Nat \ {0}
      /\ DOMAIN q = 1 .. Len(q) /\ DOMAIN t = 1 .. Len(q) - 1
      /\ \A i \in 1 .. Len(q) - 1 : t[i] = q[i + 1]
  BY HeadTailProperties, LenProperties, EmptySeq
<1>2. \A i \in DOMAIN t : i + 1 \in DOMAIN q /\ t[i] = q[i + 1] /\ i \in Int
  BY <1>1
<1> HIDE DEF t
<1>3. f \in [E -> D] /\ \A i, j \in E : f[i] = f[j] => i = j
  BY <1>2
<1>4. f \in Injection(E, D)
  BY <1>3 DEF Injection, IsInjective
<1>5. Cardinality(E) <= Cardinality(D)
  BY <1>4, DataIsFinite, FS_Injection
<1>6. HasEnd(t) => HasEnd(q)
  BY <1>2 DEF HasEnd
<1> QED BY <1>1, <1>5, <1>6 DEF DataIn, t

-----------------------------------------------------------------------------
\* What the shared parts of the handlers do to a record

\* The finally block, entered with a head sent or with a reason.
LEMMA FinallyKeeps ==
  ASSUME NEW r, Sound(adapter, r), r.our # "ready" \/ r.fate # {}
  PROVE  Good(adapter, Finally(r))
<1>1. Finally(r) \in Handlers
  BY DEF Finally, Sound, Handlers, Places, Suspended, Ends
<1>2. Sound(adapter, Finally(r))
  BY <1>1 DEF Finally, Sound, BodyOK, Handlers
<1>3. ReadOK(Finally(r)) /\ ExitOK(Finally(r)) /\ EndOK(adapter, Finally(r))
  BY DEF Finally, Sound, ReadOK, ExitOK, EndOK, Handlers, Unstarted, Reading
<1> QED BY <1>2, <1>3 DEF Good

\* An error response, from wherever it is sent.
LEMMA AnswerKeeps ==
  ASSUME NEW r, Sound(adapter, r)
  PROVE  Good(adapter, Answer(r))
<1>1. CASE r.our = "ready"
  <2>1. Answer(r) = [r EXCEPT !.our = "done", !.at = "answering"]
    BY <1>1 DEF Answer
  <2>2. Answer(r) \in Handlers
    BY <2>1 DEF Sound, Handlers, Places, Suspended, Ours
  <2>3. Sound(adapter, Answer(r))
    BY <2>1, <2>2 DEF Sound, BodyOK, Handlers
  <2>4. ReadOK(Answer(r)) /\ ExitOK(Answer(r)) /\ EndOK(adapter, Answer(r))
    BY <2>1 DEF Sound, ReadOK, ExitOK, EndOK, Handlers, Unstarted, Reading
  <2> QED BY <2>3, <2>4 DEF Good
<1>2. CASE r.our # "ready"
  <2> DEFINE e == [r EXCEPT !.our = "error"]
  <2>1. Answer(r) = Finally(e)
    BY <1>2 DEF Answer
  <2>2. e \in Handlers /\ e.our = "error"
    BY DEF Sound, Handlers, Ours
  <2>3. Sound(adapter, e)
    BY <2>2 DEF Sound, BodyOK, Handlers
  <2> QED BY <2>1, <2>2, <2>3, FinallyKeeps
<1> QED BY <1>1, <1>2

LEMMA AnswerUnlessStartedKeeps ==
  ASSUME NEW r, Sound(adapter, r)
  PROVE  Good(adapter, AnswerUnlessStarted(r))
<1>1. CASE r.started
  BY <1>1, FinallyKeeps DEF AnswerUnlessStarted, Sound
<1>2. CASE ~r.started
  BY <1>2, AnswerKeeps DEF AnswerUnlessStarted
<1> QED BY <1>1, <1>2 DEF Sound, Handlers

\* A cancellation, wherever it finds the handler.
LEMMA CancelledKeeps ==
  ASSUME NEW r, Good(adapter, r)
  PROVE  Good(adapter, Cancelled(r))
<1>1. CASE r.at \in {"queued", "handed", "ended"}
  BY <1>1 DEF Cancelled
<1>2. CASE r.at \notin {"queued", "handed", "ended"}
  <2>1. Cancelled(r) = [r EXCEPT !.cancel = TRUE, !.fate = r.fate \cup {"cancelled"},
                          !.quit = r.quit \/ r.at \in {"awaiting", "rejecting", "reaping"}]
    BY <1>2 DEF Cancelled
  <2>2. Cancelled(r) \in Handlers
    <3>1. r \in Handlers
      BY DEF Good, Sound
    <3>2. r.fate \cup {"cancelled"} \in SUBSET {"cancelled", "eof"}
      BY <3>1 DEF Handlers, Fates
    <3>3. (r.quit \/ r.at \in {"awaiting", "rejecting", "reaping"}) \in BOOLEAN
      BY <3>1 DEF Handlers
    <3> QED BY <2>1, <3>1, <3>2, <3>3 DEF Handlers, Fates
  <2>3. Sound(adapter, Cancelled(r))
    BY <2>1, <2>2 DEF Good, Sound, BodyOK, Handlers
  <2>4. ReadOK(Cancelled(r)) /\ ExitOK(Cancelled(r)) /\ EndOK(adapter, Cancelled(r))
    BY <2>1 DEF Good, Sound, ReadOK, ExitOK, EndOK, Handlers, Unstarted, Reading
  <2> QED BY <2>3, <2>4 DEF Good
<1> QED BY <1>1, <1>2

\* A disconnect is no data and no end.
LEMMA DisconnectKeeps ==
  ASSUME NEW r, Sound(adapter, r)
  PROVE  LET p == Put(r, "disconnect") IN
         /\ Sound(adapter, p) /\ p.our = r.our /\ p.started = r.started /\ p.task = r.task
<1> DEFINE p == Put(r, "disconnect")
<1>1. p = [r EXCEPT !.queue = Append(r.queue, "disconnect")] /\ r \in Handlers
  BY DEF Put, Sound
<1>2. /\ Append(r.queue, "disconnect") \in Seq(Messages)
      /\ HasEnd(Append(r.queue, "disconnect")) <=> HasEnd(r.queue)
      /\ DataIn(Append(r.queue, "disconnect")) = DataIn(r.queue)
  <2>1. r.queue \in Seq(Messages) /\ "disconnect" \in Messages
    BY <1>1 DEF Handlers, Messages
  <2> QED BY <2>1, QueuePut
<1>3. p \in Handlers
  BY <1>1, <1>2 DEF Handlers
<1> QED BY <1>1, <1>2, <1>3 DEF Sound, BodyOK, Handlers

-----------------------------------------------------------------------------
\* The steps

LEMMA HandlersGood ==
  ASSUME IInv, NEW s \in Streams
  PROVE  Good(adapter, h[s])
BY DEF IInv, GoodInv

\* A step of one handler.
LEMMA StepKeeps ==
  ASSUME IInv, NEW s \in Streams, NEW r, Step(s, r), Good(adapter, r), UNCHANGED rest
  PROVE  IInv'
<1>1. /\ h' = [h EXCEPT ![s] = r] /\ h \in [Streams -> Handlers] /\ r \in Handlers
      /\ UNCHANGED <<adapter, tunnel, serve, caller>>
  BY HandlerTypes DEF Step, IInv, Good, Sound, rest
<1>2. h' \in [Streams -> Handlers]
  BY <1>1
<1>3. TypeOK'
  BY <1>1, <1>2 DEF IInv, TypeOK, Handlers, Places, Sides, Ours, Ends, Fates, Tasks, Drains,
     Partials, Bodies, Messages
<1>4. \A t \in Streams : Good(adapter, h'[t])
  BY <1>1 DEF IInv, GoodInv
<1> QED BY <1>1, <1>3, <1>4 DEF IInv, GoodInv

\* The counter of reads stays within its range.
LEMMA PartialBounds ==
  /\ 0 \in Partials
  /\ \A r : Good(adapter, r) /\ r.at = "reading" => r.partial + 1 \in Partials
BY HttpAssumption DEF Good, Sound, ReadOK, Handlers, Partials

\* An exception in the app, or under it.
LEMMA RaisedKeeps ==
  ASSUME adapter = "asgi", NEW r, Good(adapter, r), r.task = "running"
  PROVE  Good(adapter, Raised(r))
<1>1. r \in Handlers
  BY DEF Good, Sound
<1>2. Raised(r) \in Handlers
  BY <1>1 DEF Raised, Drain, Handlers, Tasks, Drains, Ours
<1>3. Sound(adapter, Raised(r))
  BY <1>1, <1>2 DEF Raised, Drain, Good, Sound, BodyOK, Handlers
<1>4. ReadOK(Raised(r)) /\ ExitOK(Raised(r)) /\ EndOK(adapter, Raised(r))
  BY <1>1 DEF Raised, Drain, Good, Sound, ReadOK, ExitOK, EndOK, Handlers, Unstarted, Reading
<1> QED BY <1>3, <1>4 DEF Good

-----------------------------------------------------------------------------
\* The steps of one handler

LEMMA AnsweredKeeps ==
  ASSUME IInv, NEW s \in Streams, Answered(s)
  PROVE  IInv'
<1>1. Good(adapter, h[s]) /\ h[s] \in Handlers
  BY HandlersGood DEF Good, Sound
<1>2. Step(s, Finally(h[s])) /\ UNCHANGED rest
  BY <1>1 DEF Answered
<1>3. Good(adapter, Finally(h[s]))
  BY <1>1, FinallyKeeps DEF Answered, Good, Sound, ExitOK
<1> QED BY <1>2, <1>3, StepKeeps

LEMMA ClosedKeeps ==
  ASSUME IInv, NEW s \in Streams, Closed(s)
  PROVE  IInv'
<1>1. Good(adapter, h[s]) /\ h[s] \in Handlers
  BY HandlersGood DEF Good, Sound
<1> DEFINE e == [h[s] EXCEPT !.at = "ended", !.cancel = FALSE]
<1>2. Step(s, e) /\ UNCHANGED rest
  BY <1>1 DEF Closed
<1>3. e \in Handlers
  BY <1>1 DEF Handlers, Places, Suspended
<1>4. Sound(adapter, e)
  BY <1>1, <1>3 DEF Closed, Good, Sound, ReadOK, BodyOK, Handlers, Unstarted, Reading
<1>5. ReadOK(e) /\ ExitOK(e) /\ EndOK(adapter, e)
  BY <1>1 DEF Closed, Good, Sound, ReadOK, ExitOK, EndOK, Handlers, Unstarted, Reading
<1> HIDE DEF e
<1> QED BY <1>2, <1>4, <1>5, StepKeeps DEF Good

LEMMA DeliverKeeps ==
  ASSUME IInv, NEW s \in Streams, Deliver(s)
  PROVE  IInv'
<1>1. Good(adapter, h[s]) /\ h[s] \in Handlers
  BY HandlersGood DEF Good, Sound
<1> DEFINE e == [h[s] EXCEPT !.at = "handed"]
<1>2. Step(s, e) /\ UNCHANGED rest
  BY <1>1 DEF Deliver
<1>3. e \in Handlers
  BY <1>1 DEF Handlers, Places, Suspended
<1>4. Sound(adapter, e)
  BY <1>1, <1>3 DEF Deliver, Good, Sound, ReadOK, BodyOK, Handlers, Unstarted, Reading
<1>5. ReadOK(e) /\ ExitOK(e) /\ EndOK(adapter, e)
  BY <1>1 DEF Deliver, Good, Sound, ReadOK, ExitOK, EndOK, Handlers, Unstarted, Reading
<1> HIDE DEF e
<1> QED BY <1>2, <1>4, <1>5, StepKeeps DEF Good

LEMMA HandlerStartsKeeps ==
  ASSUME IInv, NEW s \in Streams, HandlerStarts(s)
  PROVE  IInv'
<1>1. Good(adapter, h[s]) /\ h[s] \in Handlers
  BY HandlersGood DEF Good, Sound
<1>2. CASE h[s].cancel
  <2> DEFINE e == [h[s] EXCEPT !.at = "ended", !.cancel = FALSE]
  <2>1. Step(s, e) /\ UNCHANGED rest
    BY <1>1, <1>2 DEF HandlerStarts
  <2>2. e \in Handlers
    BY <1>1, <1>2 DEF Handlers, Places, Suspended
  <2>3. Sound(adapter, e)
    BY <1>1, <1>2, <2>2 DEF HandlerStarts, Good, Sound, ReadOK, BodyOK, Handlers, Unstarted, Reading
  <2>4. ReadOK(e) /\ ExitOK(e) /\ EndOK(adapter, e)
    BY <1>1, <1>2 DEF HandlerStarts, Good, Sound, ReadOK, ExitOK, EndOK, Handlers, Unstarted,
           Reading
  <2> HIDE DEF e
  <2> QED BY <2>1, <2>3, <2>4, StepKeeps DEF Good
<1>3. CASE ~h[s].cancel
  <2> DEFINE e == [h[s] EXCEPT !.at = "parsing"]
  <2>1. Step(s, e) /\ UNCHANGED rest
    BY <1>1, <1>3 DEF HandlerStarts
  <2>2. e \in Handlers
    BY <1>1, <1>3 DEF Handlers, Places, Suspended
  <2>3. Sound(adapter, e)
    BY <1>1, <1>3, <2>2 DEF HandlerStarts, Good, Sound, ReadOK, BodyOK, Handlers, Unstarted, Reading
  <2>4. ReadOK(e) /\ ExitOK(e) /\ EndOK(adapter, e)
    BY <1>1, <1>3 DEF HandlerStarts, Good, Sound, ReadOK, ExitOK, EndOK, Handlers, Unstarted,
           Reading
  <2> HIDE DEF e
  <2> QED BY <2>1, <2>3, <2>4, StepKeeps DEF Good
<1> QED BY <1>2, <1>3

LEMMA ReadDataKeeps ==
  ASSUME IInv, NEW s \in Streams, ReadData(s)
  PROVE  IInv'
<1>1. Good(adapter, h[s]) /\ h[s] \in Handlers
  BY HandlersGood DEF Good, Sound
<1> DEFINE e == [h[s] EXCEPT !.at = "parsing", !.partial = h[s].partial + 1]
<1>2. Step(s, e) /\ UNCHANGED rest
  BY <1>1 DEF ReadData
<1>3. e \in Handlers
  BY <1>1, PartialBounds DEF ReadData, Handlers, Places, Suspended, Partials
<1>4. Sound(adapter, e)
  BY <1>1, <1>3 DEF ReadData, Good, Sound, ReadOK, BodyOK, Handlers, Unstarted, Reading
<1>5. ReadOK(e) /\ ExitOK(e) /\ EndOK(adapter, e)
  BY <1>1 DEF ReadData, Good, Sound, ReadOK, ExitOK, EndOK, Handlers, Unstarted, Reading
<1> HIDE DEF e
<1> QED BY <1>2, <1>4, <1>5, StepKeeps DEF Good

LEMMA ReadCancelledKeeps ==
  ASSUME IInv, NEW s \in Streams, ReadCancelled(s)
  PROVE  IInv'
<1>1. Good(adapter, h[s]) /\ h[s] \in Handlers
  BY HandlersGood DEF Good, Sound
<1>2. Step(s, Finally(h[s])) /\ UNCHANGED rest
  BY <1>1 DEF ReadCancelled
<1>3. Good(adapter, Finally(h[s]))
  BY <1>1, FinallyKeeps DEF ReadCancelled, Good, Sound, ExitOK
<1> QED BY <1>2, <1>3, StepKeeps

LEMMA AsgiRequestKeeps ==
  ASSUME IInv, NEW s \in Streams, adapter = "asgi", AsgiRequest(s)
  PROVE  IInv'
<1>1. Good(adapter, h[s]) /\ h[s] \in Handlers
  BY HandlersGood DEF Good, Sound
<1> DEFINE e == [h[s] EXCEPT !.sent = "body", !.partial = 0, !.task = "new"]
<1>2. Step(s, e) /\ UNCHANGED rest
  BY <1>1 DEF AsgiRequest
<1>3. e \in Handlers
  BY <1>1, PartialBounds DEF AsgiRequest, Handlers, Sides, Partials, Tasks
<1>4. Sound(adapter, e)
  BY <1>1, <1>3 DEF AsgiRequest, HasEvent, Good, Sound, ReadOK, BodyOK, Handlers, Unstarted, Reading
<1>5. ReadOK(e) /\ ExitOK(e) /\ EndOK(adapter, e)
  BY <1>1 DEF AsgiRequest, HasEvent, Good, Sound, ReadOK, ExitOK, EndOK, Handlers, Unstarted,
         Reading
<1> HIDE DEF e
<1> QED BY <1>2, <1>4, <1>5, StepKeeps DEF Good

LEMMA AsgiBadInputKeeps ==
  ASSUME IInv, NEW s \in Streams, AsgiBadInput(s)
  PROVE  IInv'
<1>1. Good(adapter, h[s]) /\ h[s] \in Handlers
  BY HandlersGood DEF Good, Sound
<1>2. Step(s, Answer(h[s])) /\ UNCHANGED rest
  BY <1>1 DEF AsgiBadInput
<1>3. Good(adapter, Answer(h[s]))
  BY <1>1, AnswerKeeps DEF AsgiBadInput, HasEvent, Good, Sound, ExitOK
<1> QED BY <1>2, <1>3, StepKeeps

LEMMA AsgiNeedDataKeeps ==
  ASSUME IInv, NEW s \in Streams, AsgiNeedData(s)
  PROVE  IInv'
<1>1. Good(adapter, h[s]) /\ h[s] \in Handlers
  BY HandlersGood DEF Good, Sound
<1>2. CASE h[s].task = "done" /\ h[s].complete
  <2>1. Step(s, Finally(h[s])) /\ UNCHANGED rest
    BY <1>1, <1>2 DEF AsgiNeedData
  <2>2. Good(adapter, Finally(h[s]))
    BY <1>1, <1>2, FinallyKeeps DEF AsgiNeedData, NeedsData, Good, Sound, ExitOK
  <2> QED BY <2>1, <2>2, StepKeeps
<1>3. CASE ~(h[s].task = "done" /\ h[s].complete)
  <2> DEFINE e == [h[s] EXCEPT !.at = "reading"]
  <2>1. Step(s, e) /\ UNCHANGED rest
    BY <1>1, <1>3 DEF AsgiNeedData
  <2>2. e \in Handlers
    BY <1>1, <1>3 DEF Handlers, Places, Suspended
  <2>3. Sound(adapter, e)
    BY <1>1, <1>3, <2>2 DEF AsgiNeedData, NeedsData, Good, Sound, ReadOK, BodyOK, Handlers,
           Unstarted, Reading
  <2>4. ReadOK(e) /\ ExitOK(e) /\ EndOK(adapter, e)
    BY <1>1, <1>3 DEF AsgiNeedData, NeedsData, Good, Sound, ReadOK, ExitOK, EndOK, Handlers,
           Unstarted, Reading
  <2> HIDE DEF e
  <2> QED BY <2>1, <2>3, <2>4, StepKeeps DEF Good
<1> QED BY <1>2, <1>3

LEMMA AsgiReadErrorKeeps ==
  ASSUME IInv, NEW s \in Streams, AsgiReadError(s)
  PROVE  IInv'
<1>1. Good(adapter, h[s]) /\ h[s] \in Handlers
  BY HandlersGood DEF Good, Sound
<1>2. Step(s, AnswerUnlessStarted(h[s])) /\ UNCHANGED rest
  BY <1>1 DEF AsgiReadError
<1>3. Good(adapter, AnswerUnlessStarted(h[s]))
  BY <1>1, AnswerUnlessStartedKeeps DEF AsgiReadError, ReadEnds, Good, Sound, ExitOK
<1> QED BY <1>2, <1>3, StepKeeps

LEMMA AppStartsKeeps ==
  ASSUME IInv, NEW s \in Streams, AppStarts(s)
  PROVE  IInv'
<1>1. Good(adapter, h[s]) /\ h[s] \in Handlers
  BY HandlersGood DEF Good, Sound
<1> DEFINE e == [h[s] EXCEPT !.task = "running"]
<1>2. Step(s, e) /\ UNCHANGED rest
  BY <1>1 DEF AppStarts
<1>3. e \in Handlers
  BY <1>1 DEF Handlers, Tasks
<1>4. Sound(adapter, e)
  BY <1>1, <1>3 DEF AppStarts, App, Good, Sound, ReadOK, BodyOK, Handlers, Unstarted, Reading
<1>5. ReadOK(e) /\ ExitOK(e) /\ EndOK(adapter, e)
  BY <1>1 DEF AppStarts, App, Good, Sound, ReadOK, ExitOK, EndOK, Handlers, Unstarted, Reading
<1> HIDE DEF e
<1> QED BY <1>2, <1>4, <1>5, StepKeeps DEF Good

LEMMA AppReceivesKeeps ==
  ASSUME IInv, NEW s \in Streams, AppReceives(s)
  PROVE  IInv'
<1>1. Good(adapter, h[s]) /\ h[s] \in Handlers
  BY HandlersGood DEF Good, Sound
<1> DEFINE e == [h[s] EXCEPT !.task = "receiving"]
<1>2. Step(s, e) /\ UNCHANGED rest
  BY <1>1 DEF AppReceives
<1>3. e \in Handlers
  BY <1>1 DEF Handlers, Tasks
<1>4. Sound(adapter, e)
  BY <1>1, <1>3 DEF AppReceives, App, Good, Sound, ReadOK, BodyOK, Handlers, Unstarted, Reading
<1>5. ReadOK(e) /\ ExitOK(e) /\ EndOK(adapter, e)
  BY <1>1 DEF AppReceives, App, Good, Sound, ReadOK, ExitOK, EndOK, Handlers, Unstarted, Reading
<1> HIDE DEF e
<1> QED BY <1>2, <1>4, <1>5, StepKeeps DEF Good

LEMMA AppSendsStartKeeps ==
  ASSUME IInv, NEW s \in Streams, AppSendsStart(s)
  PROVE  IInv'
<1>1. Good(adapter, h[s]) /\ h[s] \in Handlers
  BY HandlersGood DEF Good, Sound
<1>2. CASE h[s].our = "ready"
  <2> DEFINE e == Drain([h[s] EXCEPT !.our = "body"], "start")
  <2>1. Step(s, e) /\ UNCHANGED rest
    BY <1>1, <1>2 DEF AppSendsStart
  <2>2. e \in Handlers
    BY <1>1, <1>2 DEF Drain, Handlers, Ours, Tasks, Drains
  <2>3. Sound(adapter, e)
    BY <1>1, <1>2, <2>2 DEF AppSendsStart, App, Drain, Good, Sound, ReadOK, BodyOK, Handlers,
           Unstarted, Reading
  <2>4. ReadOK(e) /\ ExitOK(e) /\ EndOK(adapter, e)
    BY <1>1, <1>2 DEF AppSendsStart, App, Drain, Good, Sound, ReadOK, ExitOK, EndOK, Handlers,
           Unstarted, Reading
  <2> HIDE DEF e
  <2> QED BY <2>1, <2>3, <2>4, StepKeeps DEF Good
<1>3. CASE h[s].our # "ready"
  <2>1. Step(s, Raised(h[s])) /\ UNCHANGED rest
    BY <1>1, <1>3 DEF AppSendsStart
  <2>2. Good(adapter, Raised(h[s]))
    BY <1>1, <1>3, RaisedKeeps DEF AppSendsStart, App, Good, Sound, ExitOK
  <2> QED BY <2>1, <2>2, StepKeeps
<1> QED BY <1>2, <1>3

LEMMA AppSendsBodyKeeps ==
  ASSUME IInv, NEW s \in Streams, NEW more \in BOOLEAN, AppSendsBody(s, more)
  PROVE  IInv'
<1>1. Good(adapter, h[s]) /\ h[s] \in Handlers
  BY HandlersGood DEF Good, Sound
<1>2. CASE h[s].our = IF h[s].started THEN "body" ELSE "ready"
  <2> DEFINE e == Drain([h[s] EXCEPT !.started = TRUE, !.complete = ~more, !.our = IF more THEN
         "body" ELSE "done"], "body")
  <2>1. Step(s, e) /\ UNCHANGED rest
    BY <1>1, <1>2 DEF AppSendsBody
  <2>2. e \in Handlers
    BY <1>1, <1>2 DEF Drain, Handlers, Ours, Tasks, Drains
  <2>3. Sound(adapter, e)
    BY <1>1, <1>2, <2>2 DEF AppSendsBody, App, Drain, Good, Sound, ReadOK, BodyOK, Handlers,
           Unstarted, Reading
  <2>4. ReadOK(e) /\ ExitOK(e) /\ EndOK(adapter, e)
    BY <1>1, <1>2 DEF AppSendsBody, App, Drain, Good, Sound, ReadOK, ExitOK, EndOK, Handlers,
           Unstarted, Reading
  <2> HIDE DEF e
  <2> QED BY <2>1, <2>3, <2>4, StepKeeps DEF Good
<1>3. CASE h[s].our # IF h[s].started THEN "body" ELSE "ready"
  <2>1. Step(s, Raised(h[s])) /\ UNCHANGED rest
    BY <1>1, <1>3 DEF AppSendsBody
  <2>2. Good(adapter, Raised(h[s]))
    BY <1>1, <1>3, RaisedKeeps DEF AppSendsBody, App, Good, Sound, ExitOK
  <2> QED BY <2>1, <2>2, StepKeeps
<1> QED BY <1>2, <1>3

LEMMA AppDrainedKeeps ==
  ASSUME IInv, NEW s \in Streams, NEW ok \in BOOLEAN, AppDrained(s, ok)
  PROVE  IInv'
<1>1. Good(adapter, h[s]) /\ h[s] \in Handlers
  BY HandlersGood DEF Good, Sound
<1> DEFINE e == [h[s] EXCEPT !.task = "running", !.doing = "none", !.started = h[s].started \/ (ok
       /\ h[s].doing = "start")]
<1>2. Step(s, e) /\ UNCHANGED rest
  BY <1>1 DEF AppDrained
<1>3. e \in Handlers
  BY <1>1 DEF Handlers, Tasks, Drains
<1>4. Sound(adapter, e)
  BY <1>1, <1>3 DEF AppDrained, App, Good, Sound, ReadOK, BodyOK, Handlers, Unstarted, Reading
<1>5. ReadOK(e) /\ ExitOK(e) /\ EndOK(adapter, e)
  BY <1>1 DEF AppDrained, App, Good, Sound, ReadOK, ExitOK, EndOK, Handlers, Unstarted, Reading
<1> HIDE DEF e
<1> QED BY <1>2, <1>4, <1>5, StepKeeps DEF Good

LEMMA AppReturnsKeeps ==
  ASSUME IInv, NEW s \in Streams, AppReturns(s)
  PROVE  IInv'
<1>1. Good(adapter, h[s]) /\ h[s] \in Handlers
  BY HandlersGood DEF Good, Sound
<1>2. CASE h[s].complete
  <2> DEFINE e == [h[s] EXCEPT !.task = "done"]
  <2>1. Step(s, e) /\ UNCHANGED rest
    BY <1>1, <1>2 DEF AppReturns
  <2>2. e \in Handlers
    BY <1>1, <1>2 DEF Handlers, Tasks
  <2>3. Sound(adapter, e)
    BY <1>1, <1>2, <2>2 DEF AppReturns, App, Good, Sound, ReadOK, BodyOK, Handlers, Unstarted,
           Reading
  <2>4. ReadOK(e) /\ ExitOK(e) /\ EndOK(adapter, e)
    BY <1>1, <1>2 DEF AppReturns, App, Good, Sound, ReadOK, ExitOK, EndOK, Handlers, Unstarted,
           Reading
  <2> HIDE DEF e
  <2> QED BY <2>1, <2>3, <2>4, StepKeeps DEF Good
<1>3. CASE ~h[s].complete /\ h[s].our = IF h[s].started THEN "body" ELSE "ready"
  <2> DEFINE e == Drain([h[s] EXCEPT !.started = TRUE, !.complete = TRUE, !.our = "done"], "end")
  <2>1. Step(s, e) /\ UNCHANGED rest
    BY <1>1, <1>3 DEF AppReturns
  <2>2. e \in Handlers
    BY <1>1, <1>3 DEF Drain, Handlers, Ours, Tasks, Drains
  <2>3. Sound(adapter, e)
    BY <1>1, <1>3, <2>2 DEF AppReturns, App, Drain, Good, Sound, ReadOK, BodyOK, Handlers,
           Unstarted, Reading
  <2>4. ReadOK(e) /\ ExitOK(e) /\ EndOK(adapter, e)
    BY <1>1, <1>3 DEF AppReturns, App, Drain, Good, Sound, ReadOK, ExitOK, EndOK, Handlers,
           Unstarted, Reading
  <2> HIDE DEF e
  <2> QED BY <2>1, <2>3, <2>4, StepKeeps DEF Good
<1>4. CASE ~h[s].complete /\ h[s].our # IF h[s].started THEN "body" ELSE "ready"
  <2>1. Step(s, Raised(h[s])) /\ UNCHANGED rest
    BY <1>1, <1>4 DEF AppReturns
  <2>2. Good(adapter, Raised(h[s]))
    BY <1>1, <1>4, RaisedKeeps DEF AppReturns, App, Good, Sound, ExitOK
  <2> QED BY <2>1, <2>2, StepKeeps
<1> QED BY <1>2, <1>3, <1>4

LEMMA DispatchDrainedKeeps ==
  ASSUME IInv, NEW s \in Streams, NEW ok \in BOOLEAN, DispatchDrained(s, ok)
  PROVE  IInv'
<1>1. Good(adapter, h[s]) /\ h[s] \in Handlers
  BY HandlersGood DEF Good, Sound
<1> DEFINE e == [h[s] EXCEPT !.task = "done", !.doing = "none", !.started = h[s].started \/ ok,
       !.complete = h[s].complete \/ ok]
<1>2. Step(s, e) /\ UNCHANGED rest
  BY <1>1 DEF DispatchDrained
<1>3. e \in Handlers
  BY <1>1 DEF Handlers, Tasks, Drains
<1>4. Sound(adapter, e)
  BY <1>1, <1>3 DEF DispatchDrained, App, Good, Sound, ReadOK, BodyOK, Handlers, Unstarted, Reading
<1>5. ReadOK(e) /\ ExitOK(e) /\ EndOK(adapter, e)
  BY <1>1 DEF DispatchDrained, App, Good, Sound, ReadOK, ExitOK, EndOK, Handlers, Unstarted, Reading
<1> HIDE DEF e
<1> QED BY <1>2, <1>4, <1>5, StepKeeps DEF Good

LEMMA AppCancelledKeeps ==
  ASSUME IInv, NEW s \in Streams, AppCancelled(s)
  PROVE  IInv'
<1>1. Good(adapter, h[s]) /\ h[s] \in Handlers
  BY HandlersGood DEF Good, Sound
<1> DEFINE e == [h[s] EXCEPT !.task = "done", !.doing = "none"]
<1>2. Step(s, e) /\ UNCHANGED rest
  BY <1>1 DEF AppCancelled
<1>3. e \in Handlers
  BY <1>1 DEF Handlers, Tasks, Drains
<1>4. Sound(adapter, e)
  BY <1>1, <1>3 DEF AppCancelled, Good, Sound, ReadOK, BodyOK, Handlers, Unstarted, Reading
<1>5. ReadOK(e) /\ ExitOK(e) /\ EndOK(adapter, e)
  BY <1>1 DEF AppCancelled, Good, Sound, ReadOK, ExitOK, EndOK, Handlers, Unstarted, Reading
<1> HIDE DEF e
<1> QED BY <1>2, <1>4, <1>5, StepKeeps DEF Good

LEMMA WsgiRequestKeeps ==
  ASSUME IInv, NEW s \in Streams, WsgiRequest(s)
  PROVE  IInv'
<1>1. Good(adapter, h[s]) /\ h[s] \in Handlers
  BY HandlersGood DEF Good, Sound
<1> DEFINE e == [h[s] EXCEPT !.sent = "body", !.partial = 0]
<1>2. Step(s, e) /\ UNCHANGED rest
  BY <1>1 DEF WsgiRequest
<1>3. e \in Handlers
  BY <1>1, PartialBounds DEF WsgiRequest, Handlers, Sides, Partials
<1>4. Sound(adapter, e)
  BY <1>1, <1>3 DEF WsgiRequest, HasEvent, Good, Sound, ReadOK, BodyOK, Handlers, Unstarted, Reading
<1>5. ReadOK(e) /\ ExitOK(e) /\ EndOK(adapter, e)
  BY <1>1 DEF WsgiRequest, HasEvent, Good, Sound, ReadOK, ExitOK, EndOK, Handlers, Unstarted,
         Reading
<1> HIDE DEF e
<1> QED BY <1>2, <1>4, <1>5, StepKeeps DEF Good

LEMMA WsgiEndOfMessageKeeps ==
  ASSUME IInv, NEW s \in Streams, WsgiEndOfMessage(s)
  PROVE  IInv'
<1>1. Good(adapter, h[s]) /\ h[s] \in Handlers
  BY HandlersGood DEF Good, Sound
<1> DEFINE e == [h[s] EXCEPT !.sent = "done", !.at = "working", !.task = "pending"]
<1>2. Step(s, e) /\ UNCHANGED rest
  BY <1>1 DEF WsgiEndOfMessage
<1>3. e \in Handlers
  BY <1>1 DEF Handlers, Sides, Places, Suspended, Tasks
<1>4. Sound(adapter, e)
  BY <1>1, <1>3 DEF WsgiEndOfMessage, HasEvent, Good, Sound, ReadOK, BodyOK, Handlers, Unstarted,
         Reading
<1>5. ReadOK(e) /\ ExitOK(e) /\ EndOK(adapter, e)
  BY <1>1 DEF WsgiEndOfMessage, HasEvent, Good, Sound, ReadOK, ExitOK, EndOK, Handlers, Unstarted,
         Reading
<1> HIDE DEF e
<1> QED BY <1>2, <1>4, <1>5, StepKeeps DEF Good

LEMMA WsgiNeedDataKeeps ==
  ASSUME IInv, NEW s \in Streams, WsgiNeedData(s)
  PROVE  IInv'
<1>1. Good(adapter, h[s]) /\ h[s] \in Handlers
  BY HandlersGood DEF Good, Sound
<1> DEFINE e == [h[s] EXCEPT !.at = "reading"]
<1>2. Step(s, e) /\ UNCHANGED rest
  BY <1>1 DEF WsgiNeedData
<1>3. e \in Handlers
  BY <1>1 DEF Handlers, Places, Suspended
<1>4. Sound(adapter, e)
  BY <1>1, <1>3 DEF WsgiNeedData, NeedsData, Good, Sound, ReadOK, BodyOK, Handlers, Unstarted,
         Reading
<1>5. ReadOK(e) /\ ExitOK(e) /\ EndOK(adapter, e)
  BY <1>1 DEF WsgiNeedData, NeedsData, Good, Sound, ReadOK, ExitOK, EndOK, Handlers, Unstarted,
         Reading
<1> HIDE DEF e
<1> QED BY <1>2, <1>4, <1>5, StepKeeps DEF Good

LEMMA WsgiRefusesKeeps ==
  ASSUME IInv, NEW s \in Streams, WsgiRefuses(s)
  PROVE  IInv'
<1>1. Good(adapter, h[s]) /\ h[s] \in Handlers
  BY HandlersGood DEF Good, Sound
<1>2. Step(s, Answer(h[s])) /\ UNCHANGED rest
  BY <1>1 DEF WsgiRefuses
<1>3. Good(adapter, Answer(h[s]))
  BY <1>1, AnswerKeeps DEF WsgiRefuses, Good, Sound, ExitOK
<1> QED BY <1>2, <1>3, StepKeeps

LEMMA WorkerStartsKeeps ==
  ASSUME IInv, NEW s \in Streams, WorkerStarts(s)
  PROVE  IInv'
<1>1. Good(adapter, h[s]) /\ h[s] \in Handlers
  BY HandlersGood DEF Good, Sound
<1> DEFINE e == [h[s] EXCEPT !.task = "running"]
<1>2. Step(s, e) /\ UNCHANGED rest
  BY <1>1 DEF WorkerStarts
<1>3. e \in Handlers
  BY <1>1 DEF Handlers, Tasks
<1>4. Sound(adapter, e)
  BY <1>1, <1>3 DEF WorkerStarts, Good, Sound, ReadOK, BodyOK, Handlers, Unstarted, Reading
<1>5. ReadOK(e) /\ ExitOK(e) /\ EndOK(adapter, e)
  BY <1>1 DEF WorkerStarts, Good, Sound, ReadOK, ExitOK, EndOK, Handlers, Unstarted, Reading
<1> HIDE DEF e
<1> QED BY <1>2, <1>4, <1>5, StepKeeps DEF Good

LEMMA WorkerEndsKeeps ==
  ASSUME IInv, NEW s \in Streams, WorkerEnds(s)
  PROVE  IInv'
<1>1. Good(adapter, h[s]) /\ h[s] \in Handlers
  BY HandlersGood DEF Good, Sound
<1> DEFINE e == [h[s] EXCEPT !.task = "done"]
<1>2. Step(s, e) /\ UNCHANGED rest
  BY <1>1 DEF WorkerEnds
<1>3. e \in Handlers
  BY <1>1 DEF Handlers, Tasks
<1>4. Sound(adapter, e)
  BY <1>1, <1>3 DEF WorkerEnds, Good, Sound, ReadOK, BodyOK, Handlers, Unstarted, Reading
<1>5. ReadOK(e) /\ ExitOK(e) /\ EndOK(adapter, e)
  BY <1>1 DEF WorkerEnds, Good, Sound, ReadOK, ExitOK, EndOK, Handlers, Unstarted, Reading
<1> HIDE DEF e
<1> QED BY <1>2, <1>4, <1>5, StepKeeps DEF Good

LEMMA AppReceivedKeeps ==
  ASSUME IInv, NEW s \in Streams, AppReceived(s)
  PROVE  IInv'
<1> DEFINE q == h[s].queue
           over == Head(q) # "data"
           e == [h[s] EXCEPT !.task = "running", !.queue = Tail(q), !.over = over]
<1>1. Good(adapter, h[s]) /\ h[s] \in Handlers
  BY HandlersGood DEF Good, Sound
<1>2. Step(s, e) /\ UNCHANGED rest
  BY DEF AppReceived
<1>3. /\ q \in Seq(Messages) /\ Tail(q) \in Seq(Messages) /\ over \in BOOLEAN
      /\ HasEnd(Tail(q)) => HasEnd(q)
      /\ DataIn(Tail(q)) <= DataIn(q) /\ DataIn(Tail(q)) \in Nat /\ DataIn(q) \in Nat
  <2>1. q \in Seq(Messages) /\ q # <<>>
    BY <1>1 DEF AppReceived, Handlers
  <2>2. /\ Tail(q) \in Seq(Messages)
        /\ HasEnd(Tail(q)) => HasEnd(q)
        /\ DataIn(Tail(q)) <= DataIn(q)
    BY <2>1, QueueGet
  <2>3. over \in BOOLEAN
    OBVIOUS
  <2>4. DataIn(Tail(q)) \in Nat /\ DataIn(q) \in Nat
    BY <2>1, <2>2, DataIsNat
  <2> HIDE DEF q, over
  <2> QED BY <2>1, <2>2, <2>3, <2>4
<1> HIDE DEF over
<1>4. e \in Handlers
  BY <1>1, <1>3 DEF Handlers, Tasks
<1>5. e.body = h[s].body /\ h[s].body \in Nat /\ MaxBody \in Nat
  BY <1>1, HttpAssumption DEF Handlers, Bodies
<1>6. BodyOK(adapter, e)
  BY <1>1, <1>3, <1>5 DEF AppReceived, App, Good, Sound, BodyOK, Handlers
<1>7. Sound(adapter, e)
  BY <1>1, <1>4, <1>6 DEF Good, Sound, Handlers
<1>8. ReadOK(e) /\ ExitOK(e) /\ EndOK(adapter, e)
  BY <1>1 DEF AppReceived, App, Good, Sound, ReadOK, ExitOK, EndOK, Handlers, Unstarted, Reading
<1> HIDE DEF e
<1> QED BY <1>2, <1>7, <1>8, StepKeeps DEF Good

\* The app may spoil its own response before it raises.
LEMMA AppRaisesKeeps ==
  ASSUME IInv, NEW s \in Streams, AppRaises(s)
  PROVE  IInv'
<1>1. Good(adapter, h[s]) /\ h[s] \in Handlers
  BY HandlersGood DEF Good, Sound
<1>2. PICK our \in {h[s].our} \cup IF h[s].our = "body" THEN {"error"} ELSE {} :
        Step(s, Raised([h[s] EXCEPT !.our = our]))
  BY DEF AppRaises
<1> DEFINE e == [h[s] EXCEPT !.our = our]
<1>3. our = h[s].our \/ (our = "error" /\ h[s].our = "body")
  BY <1>2
<1>4. e \in Handlers /\ e.task = "running" /\ adapter = "asgi" /\ UNCHANGED rest
  BY <1>1, <1>3 DEF AppRaises, App, Handlers, Ours
<1>5. Sound(adapter, e)
  BY <1>1, <1>3, <1>4 DEF Good, Sound, BodyOK, Handlers
<1>6. ReadOK(e) /\ ExitOK(e) /\ EndOK(adapter, e)
  BY <1>1, <1>3 DEF Good, Sound, ReadOK, ExitOK, EndOK, Handlers, Unstarted, Reading
<1> HIDE DEF e
<1>7. Good(adapter, Raised(e))
  BY <1>4, <1>5, <1>6, RaisedKeeps DEF Good
<1> QED BY <1>2, <1>4, <1>7, StepKeeps DEF e

\* A data event is counted, and queued or refused.
LEMMA AsgiDataKeeps ==
  ASSUME IInv, NEW s \in Streams, AsgiData(s)
  PROVE  IInv'
<1> DEFINE q == h[s].queue
           r == [h[s] EXCEPT !.body = h[s].body + 1, !.partial = 0]
<1>1. Good(adapter, h[s]) /\ h[s] \in Handlers
  BY HandlersGood DEF Good, Sound
<1>2. /\ h[s].at = "parsing" /\ h[s].sent = "body" /\ UNCHANGED rest
      /\ Step(s, IF r.body <= MaxBody THEN Put(r, "data")
                 ELSE [Put(r, "disconnect") EXCEPT !.quit = TRUE, !.at = "rejecting"])
  BY DEF AsgiData, HasEvent
<1>3. /\ q \in Seq(Messages) /\ DataIn(q) \in Nat /\ ~HasEnd(q) /\ h[s].body \in Nat
      /\ MaxBody \in Nat /\ h[s].body <= MaxBody /\ DataIn(q) <= h[s].body
      /\ adapter = "wsgi" => h[s].task = "none"
  <2>1. q \in Seq(Messages)
    BY <1>1 DEF Handlers
  <2>2. h[s].body \in Nat /\ MaxBody \in Nat /\ h[s].body <= MaxBody
    BY <1>1, <1>2, HttpAssumption DEF Good, ReadOK, Unstarted, Reading, Handlers, Bodies
  <2> QED BY <1>1, <1>2, <2>1, <2>2, DataIsNat DEF Good, Sound, BodyOK
<1>4. /\ \A m \in {"data", "disconnect"} :
           Append(q, m) \in Seq(Messages) /\ ~HasEnd(Append(q, m))
      /\ DataIn(Append(q, "data")) = DataIn(q) + 1
      /\ DataIn(Append(q, "disconnect")) = DataIn(q)
  BY <1>3, QueuePut DEF Messages
<1>5. r \in Handlers /\ r.body = h[s].body + 1 /\ r.queue = q
  <2>1. h[s].body + 1 \in Bodies /\ 0 \in Partials
    BY <1>3, PartialBounds DEF Bodies
  <2> QED BY <1>1, <2>1 DEF Handlers
<1>6. CASE r.body <= MaxBody
  <2> DEFINE e == Put(r, "data")
  <2>1. e \in Handlers /\ Step(s, e)
    BY <1>2, <1>4, <1>5, <1>6 DEF Put, Handlers
  <2>2. BodyOK(adapter, e)
    BY <1>1, <1>3, <1>4, <1>5, <1>6 DEF Put, BodyOK, Handlers
  <2>3. Sound(adapter, e)
    BY <1>1, <2>1, <2>2 DEF Put, Good, Sound, Handlers
  <2>4. ReadOK(e) /\ ExitOK(e) /\ EndOK(adapter, e)
    BY <1>1, <1>2, <1>5, <1>6 DEF Put, Good, ReadOK, ExitOK, EndOK, Handlers, Unstarted, Reading
  <2> HIDE DEF e
  <2> QED BY <1>2, <2>1, <2>3, <2>4, StepKeeps DEF Good
<1>7. CASE ~(r.body <= MaxBody)
  <2> DEFINE e == [Put(r, "disconnect") EXCEPT !.quit = TRUE, !.at = "rejecting"]
  <2>1. e \in Handlers /\ Step(s, e)
    BY <1>2, <1>4, <1>5, <1>7 DEF Put, Handlers, Places, Suspended
  <2>2. BodyOK(adapter, e)
    BY <1>1, <1>3, <1>4, <1>5, <1>7 DEF Put, BodyOK, Handlers
  <2>3. Sound(adapter, e)
    BY <1>1, <2>1, <2>2 DEF Put, Good, Sound, Handlers
  <2>4. ReadOK(e) /\ ExitOK(e) /\ EndOK(adapter, e)
    BY <1>5 DEF Put, ReadOK, ExitOK, EndOK, Handlers, Unstarted, Reading
  <2> HIDE DEF e
  <2> QED BY <1>2, <2>1, <2>3, <2>4, StepKeeps DEF Good
<1> QED BY <1>6, <1>7

LEMMA AsgiEndOfMessageKeeps ==
  ASSUME IInv, adapter = "asgi", NEW s \in Streams, AsgiEndOfMessage(s)
  PROVE  IInv'
<1> DEFINE q == h[s].queue
           e == [Put(h[s], "end") EXCEPT !.sent = "done", !.at = "awaiting"]
<1>1. Good(adapter, h[s]) /\ h[s] \in Handlers
  BY HandlersGood DEF Good, Sound
<1>2. h[s].at = "parsing" /\ h[s].sent = "body" /\ Step(s, e) /\ UNCHANGED rest
  BY DEF AsgiEndOfMessage, HasEvent
<1>3. Append(q, "end") \in Seq(Messages) /\ DataIn(Append(q, "end")) = DataIn(q)
  <2>1. q \in Seq(Messages) /\ "end" \in Messages
    BY <1>1 DEF Handlers, Messages
  <2> QED BY <2>1, QueuePut
<1>4. e \in Handlers
  BY <1>1, <1>3 DEF Put, Handlers, Sides, Places, Suspended
<1>5. BodyOK(adapter, e)
  BY <1>1, <1>2, <1>3 DEF Put, Good, Sound, ReadOK, BodyOK, Handlers, Unstarted, Reading
<1>6. Sound(adapter, e)
  BY <1>1, <1>4, <1>5 DEF Put, Good, Sound, Handlers
<1>7. ReadOK(e) /\ ExitOK(e) /\ EndOK(adapter, e)
  BY <1>1, <1>2 DEF Put, Good, ReadOK, ExitOK, EndOK, Handlers, Unstarted, Reading
<1> HIDE DEF e
<1> QED BY <1>2, <1>6, <1>7, StepKeeps DEF Good

\* EOF: 400 without an app, else the app is told and stopped.
LEMMA AsgiEofKeeps ==
  ASSUME IInv, NEW s \in Streams, AsgiEof(s)
  PROVE  IInv'
<1> DEFINE p == Put(h[s], "disconnect")
           e == [p EXCEPT !.fate = p.fate \cup {"eof"}]
<1>1. Good(adapter, h[s]) /\ Sound(adapter, h[s])
  BY HandlersGood DEF Good
<1>2. CASE h[s].task = "none"
  BY <1>1, <1>2, AnswerKeeps, StepKeeps DEF AsgiEof
<1>3. CASE h[s].task # "none"
  <2>1. Step(s, Finally(e)) /\ UNCHANGED rest
    BY <1>3 DEF AsgiEof
  <2>2. Sound(adapter, p) /\ p \in Handlers
    BY <1>1, DisconnectKeeps DEF Sound
  <2> HIDE DEF p
  <2>3. p.fate \cup {"eof"} \in Fates
    BY <2>2 DEF Handlers, Fates
  <2>4. e \in Handlers /\ e.fate # {} /\ e.fate = p.fate \cup {"eof"}
    BY <2>2, <2>3 DEF Handlers
  <2>5. Sound(adapter, e)
    BY <2>2, <2>4 DEF Sound, BodyOK, Handlers
  <2> HIDE DEF e
  <2> QED BY <2>1, <2>4, <2>5, FinallyKeeps, StepKeeps
<1> QED BY <1>2, <1>3

LEMMA AsgiTimeoutKeeps ==
  ASSUME IInv, NEW s \in Streams, AsgiTimeout(s)
  PROVE  IInv'
<1> DEFINE r == IF h[s].task = "none" THEN h[s] ELSE Put(h[s], "disconnect")
<1>1. Sound(adapter, h[s])
  BY HandlersGood DEF Good
<1>2. Sound(adapter, r)
  BY <1>1, DisconnectKeeps
<1>3. Step(s, AnswerUnlessStarted(r)) /\ UNCHANGED rest
  BY DEF AsgiTimeout
<1> HIDE DEF r
<1> QED BY <1>2, <1>3, AnswerUnlessStartedKeeps, StepKeeps

LEMMA AppAwaitedKeeps ==
  ASSUME IInv, NEW s \in Streams, AppAwaited(s)
  PROVE  IInv'
<1>1. Good(adapter, h[s]) /\ Sound(adapter, h[s])
  BY HandlersGood DEF Good
<1>2. CASE h[s].cancel \/ (h[s].at = "awaiting" /\ h[s].quit)
  <2>1. Step(s, Finally(h[s])) /\ UNCHANGED rest
    BY <1>2 DEF AppAwaited
  <2>2. h[s].fate # {}
    BY <1>1, <1>2 DEF Good, Sound, ExitOK
  <2> QED BY <1>1, <2>1, <2>2, FinallyKeeps, StepKeeps
<1>3. CASE ~(h[s].cancel \/ (h[s].at = "awaiting" /\ h[s].quit))
  <2>1. Step(s, AnswerUnlessStarted(h[s])) /\ UNCHANGED rest
    BY <1>3 DEF AppAwaited
  <2> QED BY <1>1, <2>1, AnswerUnlessStartedKeeps, StepKeeps
<1> QED BY <1>2, <1>3

LEMMA AppReapedKeeps ==
  ASSUME IInv, NEW s \in Streams, AppReaped(s)
  PROVE  IInv'
<1>1. Good(adapter, h[s]) /\ Sound(adapter, h[s]) /\ h[s] \in Handlers
  BY HandlersGood DEF Good, Sound
<1>2. CASE h[s].cancel
  <2> DEFINE e == [h[s] EXCEPT !.at = "ended", !.cancel = FALSE]
  <2>1. Step(s, e) /\ UNCHANGED rest
    BY <1>2 DEF AppReaped
  <2>2. e \in Handlers
    BY <1>1 DEF Handlers, Places
  <2>3. Sound(adapter, e)
    BY <1>1, <2>2 DEF Sound, BodyOK, Handlers
  <2>4. ReadOK(e) /\ ExitOK(e) /\ EndOK(adapter, e)
    BY <1>1, <1>2 DEF AppReaped, Sound, ReadOK, ExitOK, EndOK, Handlers, Unstarted, Reading
  <2> HIDE DEF e
  <2> QED BY <2>1, <2>3, <2>4, StepKeeps DEF Good
<1>3. CASE ~h[s].cancel
  <2>1. Step(s, Finally(h[s])) /\ UNCHANGED rest
    BY <1>3 DEF AppReaped
  <2>2. h[s].our # "ready" \/ h[s].fate # {}
    BY <1>1 DEF AppReaped, Good, ExitOK
  <2> QED BY <1>1, <2>1, <2>2, FinallyKeeps, StepKeeps
<1> QED BY <1>2, <1>3

LEMMA WsgiDataKeeps ==
  ASSUME IInv, NEW s \in Streams, WsgiData(s)
  PROVE  IInv'
<1> DEFINE r == [h[s] EXCEPT !.body = h[s].body + 1, !.partial = 0]
<1>1. Good(adapter, h[s]) /\ h[s] \in Handlers
  BY HandlersGood DEF Good, Sound
<1>2. /\ h[s].at = "parsing" /\ h[s].sent = "body" /\ UNCHANGED rest
      /\ Step(s, IF r.body <= MaxBody THEN r ELSE Answer(r))
  BY DEF WsgiData, HasEvent
<1>3. h[s].body \in Nat /\ MaxBody \in Nat /\ h[s].body <= MaxBody /\ DataIn(h[s].queue) \in Nat
  <2>1. h[s].queue \in Seq(Messages)
    BY <1>1 DEF Handlers
  <2>2. h[s].body \in Nat /\ MaxBody \in Nat /\ h[s].body <= MaxBody
    BY <1>1, <1>2, HttpAssumption DEF Good, ReadOK, Unstarted, Reading, Handlers, Bodies
  <2> QED BY <2>1, <2>2, DataIsNat
<1>4. r \in Handlers /\ r.body = h[s].body + 1
  <2>1. h[s].body + 1 \in Bodies /\ 0 \in Partials
    BY <1>3, PartialBounds DEF Bodies
  <2> QED BY <1>1, <2>1 DEF Handlers
<1>5. Sound(adapter, r)
  BY <1>1, <1>2, <1>3, <1>4 DEF Good, Sound, BodyOK, Handlers
<1>6. CASE r.body <= MaxBody
  <2>1. ReadOK(r) /\ ExitOK(r) /\ EndOK(adapter, r)
    BY <1>1, <1>2, <1>6 DEF Good, ReadOK, ExitOK, EndOK, Handlers, Unstarted, Reading
  <2> HIDE DEF r
  <2> QED BY <1>2, <1>5, <1>6, <2>1, StepKeeps DEF Good
<1>7. CASE ~(r.body <= MaxBody)
  <2> HIDE DEF r
  <2> QED BY <1>2, <1>5, <1>7, AnswerKeeps, StepKeeps
<1> QED BY <1>6, <1>7

LEMMA WsgiAnswersKeeps ==
  ASSUME IInv, NEW s \in Streams, WsgiAnswers(s)
  PROVE  IInv'
<1> DEFINE e == [h[s] EXCEPT !.our = "error"]
<1>1. Sound(adapter, h[s]) /\ h[s] \in Handlers
  BY HandlersGood DEF Good, Sound
<1>2. e \in Handlers /\ e.our = "error"
  BY <1>1 DEF Handlers, Ours
<1>3. Sound(adapter, e)
  BY <1>1, <1>2 DEF Sound, BodyOK, Handlers
<1>4. (Step(s, Answer(h[s])) \/ Step(s, Finally(e))) /\ UNCHANGED rest
  BY DEF WsgiAnswers
<1> HIDE DEF e
<1> QED BY <1>1, <1>2, <1>3, <1>4, AnswerKeeps, FinallyKeeps, StepKeeps

LEMMA WsgiCancelledKeeps ==
  ASSUME IInv, NEW s \in Streams, WsgiCancelled(s)
  PROVE  IInv'
<1> DEFINE t == IF h[s].task = "pending" THEN "none" ELSE h[s].task
           e == [h[s] EXCEPT !.task = t]
<1>1. Sound(adapter, h[s]) /\ h[s] \in Handlers
  BY HandlersGood DEF Good, Sound
<1>2. e \in Handlers /\ e.fate # {}
  BY <1>1 DEF WsgiCancelled, Sound, Handlers, Tasks
<1>3. Sound(adapter, e)
  BY <1>1, <1>2 DEF Sound, BodyOK, Handlers
<1>4. Step(s, Finally(e)) /\ UNCHANGED rest
  BY DEF WsgiCancelled
<1> HIDE DEF e
<1> QED BY <1>2, <1>3, <1>4, FinallyKeeps, StepKeeps

-----------------------------------------------------------------------------
\* serve()

\* serve() leaves its loop with every handler cancelled.
LEMMA LeaveKeeps ==
  ASSUME IInv, NEW f, Leave(f), \A t \in Streams : Good(adapter, f[t]),
         caller' \in {"serving", "cancelled"}, UNCHANGED <<adapter, tunnel>>
  PROVE  IInv'
<1>1. h' = [t \in Streams |-> Cancelled(f[t])] /\ serve' = "gathering"
  BY DEF Leave
<1>2. \A t \in Streams : Good(adapter, h'[t])
  BY <1>1, CancelledKeeps
<1>3. h' \in [Streams -> Handlers]
  BY <1>1, <1>2 DEF Good, Sound
<1>4. TypeOK'
  BY <1>1, <1>3 DEF IInv, TypeOK, Handlers, Places, Sides, Ours, Ends, Fates, Tasks, Drains,
     Partials, Bodies, Messages
<1> QED BY <1>2, <1>4 DEF IInv, GoodInv

\* A handler whose stream never reached it, or reaches it now.
LEMMA HandedKeeps ==
  ASSUME IInv, NEW s \in Streams, h[s].at = "handed"
  PROVE  /\ Good(adapter, [h[s] EXCEPT !.at = "new"])
         /\ Good(adapter, [h[s] EXCEPT !.at = "ended", !.stream = "closed"])
         /\ Good(adapter, [h[s] EXCEPT !.at = "ended", !.fate = {"cancelled"}])
<1>1. Good(adapter, h[s]) /\ Sound(adapter, h[s]) /\ h[s] \in Handlers
  BY HandlersGood DEF Good, Sound
<1>2. h[s].task = "none"
  BY <1>1 DEF Good, ReadOK, Unstarted
<1>3. Good(adapter, [h[s] EXCEPT !.at = "new"])
  <2> DEFINE e == [h[s] EXCEPT !.at = "new"]
  <2>1. e \in Handlers
    BY <1>1 DEF Handlers, Places
  <2>2. Sound(adapter, e)
    BY <1>1, <2>1 DEF Sound, BodyOK, Handlers
  <2>3. ReadOK(e) /\ ExitOK(e) /\ EndOK(adapter, e)
    BY <1>1, <1>2 DEF Good, ReadOK, ExitOK, EndOK, Handlers, Unstarted, Reading
  <2> QED BY <2>2, <2>3 DEF Good
<1>4. Good(adapter, [h[s] EXCEPT !.at = "ended", !.stream = "closed"])
  <2> DEFINE e == [h[s] EXCEPT !.at = "ended", !.stream = "closed"]
  <2>1. e \in Handlers
    BY <1>1 DEF Handlers, Places, Ends
  <2>2. Sound(adapter, e)
    BY <1>1, <2>1 DEF Sound, BodyOK, Handlers
  <2>3. ReadOK(e) /\ ExitOK(e) /\ EndOK(adapter, e)
    BY <1>1, <1>2 DEF Good, ReadOK, ExitOK, EndOK, Handlers, Unstarted, Reading
  <2> QED BY <2>2, <2>3 DEF Good
<1>5. Good(adapter, [h[s] EXCEPT !.at = "ended", !.fate = {"cancelled"}])
  <2> DEFINE e == [h[s] EXCEPT !.at = "ended", !.fate = {"cancelled"}]
  <2>1. e \in Handlers
    BY <1>1 DEF Handlers, Places, Fates
  <2>2. Sound(adapter, e)
    BY <1>1, <2>1 DEF Sound, BodyOK, Handlers
  <2>3. ReadOK(e) /\ ExitOK(e) /\ EndOK(adapter, e)
    BY <1>1, <1>2 DEF Good, ReadOK, ExitOK, EndOK, Handlers, Unstarted, Reading
  <2> QED BY <2>2, <2>3 DEF Good
<1> QED BY <1>3, <1>4, <1>5

LEMMA ServeAcceptsKeeps ==
  ASSUME IInv, NEW s \in Streams, ServeAccepts(s)
  PROVE  IInv'
<1>1. h \in [Streams -> Handlers] /\ \A t \in Streams : Good(adapter, h[t])
  BY HandlersGood, HandlerTypes DEF IInv
<1>2. /\ h[s].at = "handed" /\ UNCHANGED <<adapter, tunnel, caller>>
      /\ caller \in {"serving", "cancelled"}
  BY DEF ServeAccepts, IInv, TypeOK
<1>3. CASE Step(s, [h[s] EXCEPT !.at = "new"]) /\ UNCHANGED serve
  BY <1>2, <1>3, HandedKeeps, StepKeeps DEF rest
<1>4. CASE Leave([h EXCEPT ![s].at = "new"])
  <2> DEFINE f == [h EXCEPT ![s].at = "new"]
  <2>1. \A t \in Streams : Good(adapter, f[t])
    BY <1>1, <1>2, HandedKeeps
  <2> HIDE DEF f
  <2> QED BY <1>2, <1>4, <2>1, LeaveKeeps DEF f
<1>5. CASE Leave([h EXCEPT ![s].at = "ended", ![s].stream = "closed"])
  <2> DEFINE f == [h EXCEPT ![s].at = "ended", ![s].stream = "closed"]
  <2>1. \A t \in Streams : Good(adapter, f[t])
    BY <1>1, <1>2, HandedKeeps
  <2> HIDE DEF f
  <2> QED BY <1>2, <1>5, <2>1, LeaveKeeps DEF f
<1> QED BY <1>3, <1>4, <1>5 DEF ServeAccepts

LEMMA ServeCancelledKeeps ==
  ASSUME IInv, ServeCancelled
  PROVE  IInv'
<1> DEFINE f == [t \in Streams |->
             IF h[t].at = "handed" THEN [h[t] EXCEPT !.at = "ended", !.fate = {"cancelled"}]
             ELSE h[t]]
<1>1. Leave(f) /\ caller' \in {"serving", "cancelled"} /\ UNCHANGED <<adapter, tunnel>>
  BY DEF ServeCancelled
<1>2. \A t \in Streams : Good(adapter, f[t])
  BY HandedKeeps, HandlersGood
<1> HIDE DEF f
<1> QED BY <1>1, <1>2, LeaveKeeps

\* The other steps of serve() and of its tunnel change no handler.
LEMMA ServeKeeps ==
  ASSUME IInv, ServeLeaves \/ ServeEnds \/ TunnelEnds \/ UNCHANGED vars
  PROVE  IInv'
<1>1. CASE ServeLeaves
  <2>1. Leave(h) /\ caller' \in {"serving", "cancelled"} /\ UNCHANGED <<adapter, tunnel>>
    BY <1>1 DEF ServeLeaves, IInv, TypeOK
  <2> QED BY <2>1, HandlersGood, LeaveKeeps
<1>2. CASE ServeEnds \/ TunnelEnds \/ UNCHANGED vars
  <2>1. /\ h' = h /\ adapter' = adapter /\ tunnel' \in {"open", "closed", "lost"}
        /\ serve' \in {"accepting", "gathering", "ended"} /\ caller' \in {"serving", "cancelled"}
    BY <1>2 DEF ServeEnds, TunnelEnds, vars, rest, IInv, TypeOK
  <2>2. TypeOK'
    BY <2>1 DEF IInv, TypeOK
  <2> QED BY <2>1, <2>2 DEF IInv, GoodInv
<1> QED BY <1>1, <1>2

LEMMA InitIInv == Init => IInv
<1> SUFFICES ASSUME Init PROVE IInv
  OBVIOUS
<1>1. New \in Handlers
  BY HttpAssumption, EmptyQueue DEF New, Handlers, Places, Sides, Ours, Ends, Fates, Tasks, Drains,
     Partials, Bodies
<1>2. TypeOK
  <2>1. h \in [Streams -> Handlers]
    BY <1>1 DEF Init
  <2> QED BY <2>1, HandlerTypes DEF Init
<1>3. Good(adapter, New)
  <2>1. BodyOK(adapter, New)
    BY HttpAssumption, EmptyQueue DEF New, BodyOK
  <2> QED BY <1>1, <2>1, HttpAssumption
          DEF New, Good, Sound, ReadOK, ExitOK, EndOK, Unstarted, Reading
<1> QED BY <1>2, <1>3 DEF IInv, GoodInv, Init

\* The invariants above hold in every state of every run.
THEOREM Invariance == Spec => []IInv
<1>1. ASSUME IInv, [Next]_vars PROVE IInv'
  <2>1. ASSUME NEW s \in Streams, HandlerStarts(s) \/ ReadCancelled(s) \/ Closed(s)
        PROVE  IInv'
    BY <1>1, <2>1, HandlerStartsKeeps, ReadCancelledKeeps, ClosedKeeps
  <2>2. ASSUME NEW s \in Streams, adapter = "asgi", AsgiHandler(s)
        PROVE  IInv'
    BY <1>1, <2>2, AsgiRequestKeeps, AsgiDataKeeps, AsgiEndOfMessageKeeps, AsgiBadInputKeeps,
       AsgiNeedDataKeeps, AsgiTimeoutKeeps, AppAwaitedKeeps, AppReapedKeeps DEF AsgiHandler
  <2>3. ASSUME NEW s \in Streams, WsgiHandler(s)
        PROVE  IInv'
    BY <1>1, <2>3, WsgiRequestKeeps, WsgiDataKeeps, WsgiEndOfMessageKeeps, WsgiNeedDataKeeps,
       WsgiRefusesKeeps, WsgiAnswersKeeps, WsgiCancelledKeeps DEF WsgiHandler
  <2>4. ASSUME NEW s \in Streams, Deliver(s) \/ ReadData(s) \/ AsgiClient(s) \/ Answered(s)
        PROVE  IInv'
    BY <1>1, <2>4, DeliverKeeps, ReadDataKeeps, AsgiEofKeeps, AsgiReadErrorKeeps, AnsweredKeeps
       DEF AsgiClient
  <2>5. ASSUME NEW s \in Streams, AsgiApp(s)
        PROVE  IInv'
    BY <1>1, <2>5, AppStartsKeeps, AppReceivesKeeps, AppReceivedKeeps, AppSendsStartKeeps,
       AppSendsBodyKeeps, AppDrainedKeeps, AppReturnsKeeps, AppRaisesKeeps, DispatchDrainedKeeps,
       AppCancelledKeeps DEF AsgiApp
  <2>6. ASSUME NEW s \in Streams, WorkerStarts(s) \/ WorkerEnds(s)
        PROVE  IInv'
    BY <1>1, <2>6, WorkerStartsKeeps, WorkerEndsKeeps
  <2>7. ASSUME ServeLeaves \/ ServeEnds \/ ServeCancelled \/ TunnelEnds \/ UNCHANGED vars
        PROVE  IInv'
    BY <1>1, <2>7, ServeKeeps, ServeCancelledKeeps
  <2> QED BY <1>1, <2>1, <2>2, <2>3, <2>4, <2>5, <2>6, <2>7, ServeAcceptsKeeps
          DEF Next, Serve, Handler
<1> QED BY InitIInv, <1>1, PTL DEF Spec

-----------------------------------------------------------------------------
\* Every field of every handler holds a value the code can give it; the bounds
\* on body and partial are what max_body_size and max_header_size are for.
THEOREM TypeCorrect == Spec => []TypeOK
<1>1. IInv => TypeOK
  BY DEF IInv
<1> QED BY Invariance, <1>1, PTL

\* However the handler, the app and cancellations interleave, a stream that is
\* closed with nothing written on it was cancelled, or left by its client.
THEOREM EveryStreamAnswered == Spec => []NoSilentEnd
<1>1. IInv => NoSilentEnd
  BY DEF IInv, GoodInv, Good, ExitOK, NoSilentEnd
<1> QED BY Invariance, <1>1, PTL

\* A handler that is done has closed its stream and no app task of its own runs
\* on; only a cancelled one may leave the stream open.
THEOREM HandlersRelease == Spec => []EndedReleases
<1>1. IInv => EndedReleases
  BY DEF IInv, GoodInv, Good, EndOK, EndedReleases
<1> QED BY Invariance, <1>1, PTL

\* No app sees more than max_body_size, nor the end of a body that was refused,
\* and a WSGI app runs on a whole request.
THEOREM BodiesWithinLimit == Spec => []BodyWithinLimit
<1>1. ASSUME IInv, NEW s \in Streams
      PROVE  /\ adapter = "wsgi" /\ h[s].task # "none"
                  => h[s].sent = "done" /\ h[s].body <= MaxBody
             /\ h[s].body > MaxBody => \A i \in DOMAIN h[s].queue : h[s].queue[i] # "end"
             /\ Cardinality({i \in DOMAIN h[s].queue : h[s].queue[i] = "data"}) <= MaxBody
  <2>1. BodyOK(adapter, h[s]) /\ h[s].body \in Nat /\ MaxBody \in Nat
    BY <1>1, HandlersGood, HttpAssumption DEF Good, Sound, Handlers, Bodies
  <2> QED BY <2>1 DEF BodyOK, HasEnd, DataIn
<1>2. IInv => BodyWithinLimit
  BY <1>1 DEF BodyWithinLimit
<1> QED BY Invariance, <1>2, PTL
=====
