--------------------------- MODULE EngineDiscovery ---------------------------
(***************************************************************************)
(* The discovery of the mTLS engine API of one client                      *)
(* (engine_discovery.py): callers of resolve() share one background task   *)
(* and its answer is cached; a caller may give up, the lookup may fail or  *)
(* time out, and closing the client cancels it.                            *)
(*                                                                         *)
(* A lookup reads the headers of its response, then the body; the lifetime *)
(* of the answer counts from the end of the body.  A target is named by    *)
(* its project, the first label of an engine's host.                       *)
(***************************************************************************)
EXTENDS Naturals, FiniteSets

CONSTANTS
  Callers,     \* calls of resolve()
  Engines,
  EngineOf,    \* the engine a caller asks about
  ProjectOf,   \* engine -> the first label of its host
  Responses,   \* [project, complete, maxAge, age, noStore]: project is the one
               \* the document and its URL name, complete that all else in it is
               \* right; maxAge is Nothing when absent, age when not a number
  MaxLifetime, DefaultLifetime,   \* 86 400 and 3 600 seconds
  LookupTime,  \* the five seconds of _discover()
  MaxFlights,  \* bound on the discovery tasks of a history
  Horizon,     \* bound on the clock
  Nothing

ASSUME DiscoveryAssumption ==
  /\ EngineOf \in [Callers -> Engines]
  /\ \A r \in Responses : {r.maxAge, r.age} \subseteq Nat \cup {Nothing}
  /\ DefaultLifetime <= MaxLifetime
  /\ {MaxLifetime, DefaultLifetime, LookupTime, MaxFlights, Horizon} \subseteq Nat
  /\ ProjectOf \in [Engines -> {ProjectOf[e] : e \in Engines}]
  /\ Nothing \notin Engines \cup (1..MaxFlights)

Flights == 1..MaxFlights

VARIABLES
  closed,    \* _closed
  cache,     \* _cache: [engine, project, until] with the history of the entry,
             \* response and at, when its headers came; or Nothing
  pending,   \* _pending: the task of _discover() callers join
  flights,   \* how many tasks were created
  flight,    \* each task: "none", "running", "cancelling", and how it ended:
             \* "answer", "error", "cancelled"
  target,    \* the engine a running task asks about
  pc,        \* each caller: "idle", "waiting", "answered", "failed", "cancelled"
  joined,    \* the task a waiting caller waits for
  closer,    \* the call of close(): "idle", "joining", "returned"
  gaveUp,    \* history: callers whose own task was cancelled, and the closer's
  now,       \* time.monotonic()
  started,   \* when each running task started
  headers    \* what each running task has read: [response, at], or Nothing

timing == <<now, started, headers>>

vars == <<closed, cache, pending, flights, flight, target, pc, joined, closer, gaveUp, timing>>

Init ==
  /\ closed = FALSE /\ cache = Nothing /\ pending = Nothing /\ flights = 0
  /\ flight = [f \in Flights |-> "none"]
  /\ target = [f \in Flights |-> Nothing]
  /\ pc = [c \in Callers |-> "idle"]
  /\ joined = [c \in Callers |-> Nothing]
  /\ closer = "idle" /\ gaveUp = {}
  /\ now = 0
  /\ started = [f \in Flights |-> 0] /\ headers = [f \in Flights |-> Nothing]

InFlight(f) == flight[f] \in {"running", "cancelling"}

-----------------------------------------------------------------------------
\* The response of an engine

Lesser(a, b) == IF a < b THEN a ELSE b

\* Mutant: the time the response spent in caches is not subtracted.
LifetimeNoAge(r) ==
  IF r.noStore \/ r.age = Nothing THEN 0
  ELSE IF r.maxAge = Nothing THEN DefaultLifetime ELSE Lesser(r.maxAge, MaxLifetime)

Lifetime(r) ==
  LET whole == IF r.maxAge = Nothing THEN DefaultLifetime ELSE Lesser(r.maxAge, MaxLifetime)
  IN  IF r.noStore \/ r.age = Nothing THEN 0
      ELSE IF whole < r.age THEN 0 ELSE whole - r.age

\* _target(): the document must name the engine's own project.
ValidTarget(r, engine) == r.complete /\ r.project = ProjectOf[engine]

-----------------------------------------------------------------------------
\* resolve()

Cached(engine) == cache # Nothing /\ cache.engine = engine /\ cache.until > now

Refused(c) ==
  /\ pc[c] = "idle" /\ closed
  /\ pc' = [pc EXCEPT ![c] = "failed"]
  /\ UNCHANGED <<closed, cache, pending, flights, flight, target, joined, closer, gaveUp, timing>>

FromCache(c) ==
  /\ pc[c] = "idle" /\ ~closed /\ Cached(EngineOf[c])
  /\ pc' = [pc EXCEPT ![c] = "answered"]
  /\ UNCHANGED <<closed, cache, pending, flights, flight, target, joined, closer, gaveUp, timing>>

Join(c, f) ==
  /\ pc' = [pc EXCEPT ![c] = "waiting"]
  /\ joined' = [joined EXCEPT ![c] = f]

Starts(c) ==
  /\ pc[c] = "idle" /\ ~closed /\ ~Cached(EngineOf[c])
  /\ pending = Nothing /\ flights < MaxFlights
  /\ flights' = flights + 1
  /\ pending' = flights'
  /\ flight' = [flight EXCEPT ![flights'] = "running"]
  /\ target' = [target EXCEPT ![flights'] = EngineOf[c]]
  /\ started' = [started EXCEPT ![flights'] = now]
  /\ Join(c, flights')
  /\ UNCHANGED <<closed, cache, closer, gaveUp, now, headers>>

\* A pending task is joined, also when it asks about another engine.
Joins(c) ==
  /\ pc[c] = "idle" /\ ~closed /\ ~Cached(EngineOf[c]) /\ pending # Nothing
  /\ Join(c, pending)
  /\ UNCHANGED <<closed, cache, pending, flights, flight, target, closer, gaveUp, timing>>

\* asyncio.shield() hands the outcome of the task to each waiter.
WaiterWakes(c) ==
  /\ pc[c] = "waiting" /\ flight[joined[c]] \in {"answer", "error", "cancelled"}
  /\ pc' = [pc EXCEPT ![c] = CASE flight[joined[c]] = "answer" -> "answered"
                               [] flight[joined[c]] = "error" -> "failed"
                               [] OTHER -> "cancelled"]
  /\ joined' = [joined EXCEPT ![c] = Nothing]
  /\ UNCHANGED <<closed, cache, pending, flights, flight, target, closer, gaveUp, timing>>

\* Mutant: the task is awaited without shield().
WaiterGivesUpUnshielded(c) ==
  /\ pc[c] = "waiting"
  /\ pc' = [pc EXCEPT ![c] = "cancelled"]
  /\ joined' = [joined EXCEPT ![c] = Nothing]
  /\ gaveUp' = gaveUp \cup {c}
  /\ flight' = [flight EXCEPT ![joined[c]] = IF @ = "running" THEN "cancelling" ELSE @]
  /\ UNCHANGED <<closed, cache, pending, flights, target, closer, timing>>

WaiterGivesUp(c) ==
  /\ pc[c] = "waiting"
  /\ pc' = [pc EXCEPT ![c] = "cancelled"]
  /\ joined' = [joined EXCEPT ![c] = Nothing]
  /\ gaveUp' = gaveUp \cup {c}
  /\ UNCHANGED <<closed, cache, pending, flights, flight, target, closer, timing>>

-----------------------------------------------------------------------------
\* _discover() and _request(), and the done callback _finished()

Ends(f, outcome) ==
  /\ flight' = [flight EXCEPT ![f] = outcome]
  /\ started' = [started EXCEPT ![f] = 0]
  /\ headers' = [headers EXCEPT ![f] = Nothing]
  /\ target' = [target EXCEPT ![f] = Nothing]

HeadersArrive(f) ==
  /\ flight[f] = "running" /\ headers[f] = Nothing
  /\ \E r \in Responses : headers' = [headers EXCEPT ![f] = [response |-> r, at |-> now]]
  /\ UNCHANGED <<closed, cache, pending, flights, flight, target, pc, joined, closer, gaveUp, now, started>>

FlightAnswers(f) ==
  /\ flight[f] = "running" /\ headers[f] # Nothing
  /\ LET r == headers[f].response
     IN  /\ ValidTarget(r, target[f])
         /\ cache' = IF closed THEN cache
                     ELSE [ engine |-> target[f], project |-> r.project,
                            until |-> now + Lifetime(r),
                            response |-> r, at |-> headers[f].at ]
  /\ Ends(f, "answer")
  /\ UNCHANGED <<closed, pending, flights, pc, joined, closer, gaveUp, now>>

\* Mutant: no overall timeout (asyncio.wait_for of _discover()).
FlightNeverFails(f) == FALSE /\ UNCHANGED vars

\* An invalid response, a transport error or the five seconds of _discover().
FlightFails(f) ==
  /\ flight[f] = "running"
  /\ Ends(f, "error")
  /\ UNCHANGED <<closed, cache, pending, flights, pc, joined, closer, gaveUp, now>>

\* The cancellation ends the task - or asyncio.wait_for of Python 3.10 and 3.11
\* returns the answer that had just arrived, which close() kept out of the cache.
FlightCancelled(f) ==
  /\ flight[f] = "cancelling"
  /\ \E outcome \in {"cancelled", "answer"} : Ends(f, outcome)
  /\ UNCHANGED <<closed, cache, pending, flights, pc, joined, closer, gaveUp, now>>

Finished(f) ==
  /\ pending = f /\ ~InFlight(f)
  /\ pending' = Nothing
  /\ UNCHANGED <<closed, cache, flights, flight, target, pc, joined, closer, gaveUp, timing>>

\* Time passes, while no lookup is past its timeout or about to end.
Tick ==
  /\ now < Horizon
  /\ \A f \in Flights : InFlight(f) => flight[f] = "running" /\ now < started[f] + LookupTime
  /\ now' = now + 1
  /\ UNCHANGED <<closed, cache, pending, flights, flight, target, pc, joined, closer, gaveUp, started, headers>>

-----------------------------------------------------------------------------
\* close()

\* Mutant: the cache survives the close.
CloseKeepsCache ==
  /\ closer = "idle"
  /\ closed' = TRUE
  /\ closer' = IF pending = Nothing THEN "returned" ELSE "joining"
  /\ flight' = IF pending = Nothing THEN flight
               ELSE [flight EXCEPT ![pending] = IF @ = "running" THEN "cancelling" ELSE @]
  /\ UNCHANGED <<cache, pending, flights, target, pc, joined, gaveUp, timing>>

Close ==
  /\ closer = "idle"
  /\ closed' = TRUE /\ cache' = Nothing
  /\ closer' = IF pending = Nothing THEN "returned" ELSE "joining"
  /\ flight' = IF pending = Nothing THEN flight
               ELSE [flight EXCEPT ![pending] = IF @ = "running" THEN "cancelling" ELSE @]
  /\ UNCHANGED <<pending, flights, target, pc, joined, gaveUp, timing>>

\* The task ended, and its exception is suppressed.
CloseJoined ==
  /\ closer = "joining" /\ \A f \in Flights : ~InFlight(f)
  /\ closer' = "returned"
  /\ UNCHANGED <<closed, cache, pending, flights, flight, target, pc, joined, gaveUp, timing>>

\* The caller of close() is cancelled: that CancelledError is suppressed too, so
\* close() returns without having joined the task.
CloserCancelled ==
  /\ closer = "joining"
  /\ closer' = "returned"
  /\ gaveUp' = gaveUp \cup {Nothing}
  /\ UNCHANGED <<closed, cache, pending, flights, flight, target, pc, joined, timing>>

-----------------------------------------------------------------------------

Next ==
  \/ \E c \in Callers : \/ Refused(c) \/ FromCache(c) \/ Starts(c) \/ Joins(c)
                        \/ WaiterWakes(c) \/ WaiterGivesUp(c)
  \/ \E f \in Flights : HeadersArrive(f) \/ FlightAnswers(f) \/ FlightFails(f) \/ FlightCancelled(f) \/ Finished(f)
  \/ Tick \/ Close \/ CloseJoined \/ CloserCancelled

\* The timeout of _discover() expires and the event loop runs what is ready.
Fairness ==
  /\ \A c \in Callers : WF_vars(WaiterWakes(c))
  /\ \A f \in Flights : WF_vars(FlightFails(f)) /\ WF_vars(FlightCancelled(f)) /\ WF_vars(Finished(f))
  /\ WF_vars(CloseJoined)

Spec == Init /\ [][Next]_vars /\ Fairness

-----------------------------------------------------------------------------
\* Properties

\* Every variable holds a value the code can give it; the pending task is the
\* newest, and nothing is cached by a closed client.
TypeOK ==
  /\ closed \in BOOLEAN /\ flights \in 0..MaxFlights
  /\ cache \in {Nothing} \cup [ engine : Engines, project : {ProjectOf[e] : e \in Engines},
                               until : Nat, response : Responses, at : 0..Horizon ]
  /\ now \in 0..Horizon /\ started \in [Flights -> 0..Horizon]
  /\ headers \in [Flights -> {Nothing} \cup [response : Responses, at : 0..Horizon]]
  /\ pending \in {Nothing, flights}
  /\ flight \in [Flights -> {"none", "running", "cancelling", "answer", "error", "cancelled"}]
  /\ target \in [Flights -> Engines \cup {Nothing}]
  /\ pc \in [Callers -> {"idle", "waiting", "answered", "failed", "cancelled"}]
  /\ joined \in [Callers -> Flights \cup {Nothing}]
  /\ closer \in {"idle", "joining", "returned"} /\ gaveUp \subseteq Callers \cup {Nothing}
  /\ closed <=> closer # "idle"
  /\ closed => cache = Nothing

\* Concurrent callers share discovery: at most one lookup is under way, however
\* callers come, give up and come again, and it is the one that can be joined;
\* close() joins it after it cancelled it, so that nothing runs any more when it
\* returns, unless its own caller was cancelled; and who gets a CancelledError
\* asked for it or met the close of the client.  (README.md:296-298)
SharedLookup ==
  /\ \A f \in Flights : InFlight(f) => pending = f
  /\ closer = "returned" /\ Nothing \notin gaveUp => \A f \in Flights : ~InFlight(f)
  /\ \A c \in Callers : pc[c] = "cancelled" => c \in gaveUp \/ closed

\* A caller that does not wait gets an answer that is still good: the engine it
\* asks about was its subject, the address is of the engine's own project, and
\* the response, which allowed to keep it, is not older than it declared, but for
\* the time its body took, which a lookup bounds.  (README.md:294-303)
FreshTarget ==
  [][\A c \in Callers :
       pc[c] = "idle" /\ pc'[c] = "answered" =>
         LET r == cache.response
             declared == IF r.maxAge = Nothing THEN DefaultLifetime ELSE r.maxAge
         IN  /\ cache.engine = EngineOf[c] /\ r.project = ProjectOf[EngineOf[c]]
             /\ ~r.noStore /\ r.age # Nothing
             /\ r.age + (now - cache.at) < declared + LookupTime
             /\ now - cache.at < MaxLifetime + LookupTime]_vars

\* Every caller gets an answer, an error or a cancellation.
CallersEnd ==
  \A c \in Callers : pc[c] = "waiting" ~> pc[c] # "waiting"
=============================================================================
