------------------------ MODULE EngineDiscoveryProofs ------------------------
(***************************************************************************)
(* Theorems about EngineDiscovery: callers share one lookup, close() joins *)
(* it, and an answer from the cache is good, for any number of callers,    *)
(* engines and lookups, and for all responses and limits.                  *)
(*                                                                         *)
(* The argument for FreshTarget.  A lookup lasts at most LookupTime        *)
(* (TimeInv), so its entry ends at most LookupTime + Lifetime after its    *)
(* headers came (CacheInv); an entry that is used has not ended.           *)
(***************************************************************************)
EXTENDS EngineDiscovery, TLAPS

\* The lookup that runs is the one callers join, and only close() cancels it.
LookupInv ==
  /\ \A f \in Flights : InFlight(f) => pending = f /\ target[f] \in Engines
  /\ \A f \in Flights : flight[f] \in {"cancelling", "cancelled"} => closed
  /\ pending # Nothing => pending \in Flights
  /\ \A c \in Callers : pc[c] = "waiting" => joined[c] \in Flights

\* A lookup ends within its timeout; its headers came while it ran.
TimeInv ==
  \A f \in Flights :
    /\ InFlight(f) => started[f] <= now /\ now <= started[f] + LookupTime
    /\ headers[f] # Nothing =>
         InFlight(f) /\ started[f] <= headers[f].at /\ headers[f].at <= now

\* An entry is a valid answer about its engine and ends with its lifetime.
CacheInv ==
  cache # Nothing =>
    /\ cache.response.project = ProjectOf[cache.engine]
    /\ cache.at <= now
    /\ cache.until <= now \/ cache.until <= cache.at + LookupTime + Lifetime(cache.response)
    /\ Lifetime(cache.response) = 0 => cache.until <= now

IInv == TypeOK /\ LookupInv /\ SharedLookup /\ TimeInv /\ CacheInv

\* The lifetime of a response is a number of seconds within every limit.
LEMMA LifetimeBound ==
  ASSUME NEW r \in Responses
  PROVE  /\ Lifetime(r) \in Nat
         /\ Lifetime(r) > 0 =>
              /\ ~r.noStore /\ r.age # Nothing /\ r.age \in Nat
              /\ r.age + Lifetime(r) <= MaxLifetime
              /\ r.age + Lifetime(r) <= IF r.maxAge = Nothing THEN DefaultLifetime ELSE r.maxAge
<1>1. /\ r.maxAge \in Nat \cup {Nothing} /\ r.age \in Nat \cup {Nothing}
      /\ MaxLifetime \in Nat /\ DefaultLifetime \in Nat /\ DefaultLifetime <= MaxLifetime
  BY DiscoveryAssumption
<1>2. CASE r.noStore \/ r.age = Nothing
  BY <1>2 DEF Lifetime
<1>3. CASE ~r.noStore /\ r.age # Nothing /\ r.maxAge = Nothing
  BY <1>1, <1>3 DEF Lifetime
<1>4. CASE ~r.noStore /\ r.age # Nothing /\ r.maxAge # Nothing
  BY <1>1, <1>4 DEF Lifetime, Lesser
<1> QED BY <1>2, <1>3, <1>4

LEMMA InitIInv == Init => IInv
<1> SUFFICES ASSUME Init PROVE IInv
  OBVIOUS
<1>1. TypeOK
  <2>1. MaxFlights \in Nat /\ Horizon \in Nat
    BY DiscoveryAssumption
  <2>2. now \in 0..Horizon /\ flights \in 0..MaxFlights
    BY <2>1 DEF Init
  <2>3. started \in [Flights -> 0..Horizon]
    BY <2>1 DEF Init
  <2> QED BY <2>2, <2>3 DEF Init, TypeOK
<1>2. LookupInv /\ SharedLookup /\ TimeInv /\ CacheInv
  BY DEF Init, LookupInv, SharedLookup, TimeInv, CacheInv, InFlight
<1> QED BY <1>1, <1>2 DEF IInv

\* Every step keeps the types.
LEMMA StepKeepsTypes ==
  ASSUME TypeOK, LookupInv, TimeInv, [Next]_vars
  PROVE  TypeOK'
<1> USE DiscoveryAssumption DEF Flights, InFlight, timing, TypeOK, LookupInv, TimeInv
<1>1. ASSUME NEW c \in Callers, Refused(c) PROVE TypeOK'
  BY <1>1 DEF Refused
<1>2. ASSUME NEW c \in Callers, FromCache(c) PROVE TypeOK'
  BY <1>2 DEF FromCache
<1>3. ASSUME NEW c \in Callers, Starts(c) PROVE TypeOK'
  BY <1>3 DEF Starts, Join
<1>4. ASSUME NEW c \in Callers, Joins(c) PROVE TypeOK'
  BY <1>4 DEF Joins, Join
<1>5. ASSUME NEW c \in Callers, WaiterWakes(c) PROVE TypeOK'
  BY <1>5 DEF WaiterWakes
<1>6. ASSUME NEW c \in Callers, WaiterGivesUp(c) PROVE TypeOK'
  BY <1>6 DEF WaiterGivesUp
<1>7. ASSUME NEW f \in Flights, HeadersArrive(f) PROVE TypeOK'
  BY <1>7 DEF HeadersArrive
<1>8. ASSUME NEW f \in Flights, FlightAnswers(f) PROVE TypeOK'
  <2> DEFINE r == headers[f].response
  <2>1. /\ headers[f] \in [response : Responses, at : 0..Horizon]
        /\ target[f] \in Engines /\ r.project = ProjectOf[target[f]]
    BY <1>8 DEF FlightAnswers, ValidTarget
  <2>2. now + Lifetime(r) \in Nat
    BY <2>1, LifetimeBound
  <2>3. cache' \in {Nothing} \cup [ engine : Engines, project : {ProjectOf[e] : e \in Engines},
                                   until : Nat, response : Responses, at : 0..Horizon ]
    BY <1>8, <2>1, <2>2 DEF FlightAnswers
  <2>4. closed => cache' = Nothing
    BY <1>8 DEF FlightAnswers
  <2> QED BY <1>8, <2>3, <2>4, SMTT(30) DEF FlightAnswers, Ends
<1>9. ASSUME NEW f \in Flights, FlightFails(f) PROVE TypeOK'
  BY <1>9 DEF FlightFails, Ends
<1>10. ASSUME NEW f \in Flights, FlightCancelled(f) PROVE TypeOK'
  BY <1>10 DEF FlightCancelled, Ends
<1>11. ASSUME NEW f \in Flights, Finished(f) PROVE TypeOK'
  BY <1>11 DEF Finished
<1>12. CASE Tick
  BY <1>12 DEF Tick
<1>13. CASE Close
  BY <1>13 DEF Close
<1>14. CASE CloseJoined
  BY <1>14 DEF CloseJoined
<1>15. CASE CloserCancelled
  BY <1>15 DEF CloserCancelled
<1>16. CASE UNCHANGED vars
  BY <1>16 DEF vars
<1> QED BY <1>1, <1>2, <1>3, <1>4, <1>5, <1>6, <1>7, <1>8,
          <1>9, <1>10, <1>11, <1>12, <1>13, <1>14, <1>15, <1>16 DEF Next

\* Every step keeps the lookup that runs the pending one.
LEMMA StepKeepsLookup ==
  ASSUME TypeOK, LookupInv, [Next]_vars
  PROVE  LookupInv'
<1> USE DiscoveryAssumption DEF Flights, InFlight, timing, TypeOK, LookupInv
<1>1. ASSUME NEW c \in Callers, Refused(c) PROVE LookupInv'
  BY <1>1 DEF Refused
<1>2. ASSUME NEW c \in Callers, FromCache(c) PROVE LookupInv'
  BY <1>2 DEF FromCache
<1>3. ASSUME NEW c \in Callers, Starts(c) PROVE LookupInv'
  BY <1>3 DEF Starts, Join
<1>4. ASSUME NEW c \in Callers, Joins(c) PROVE LookupInv'
  BY <1>4 DEF Joins, Join
<1>5. ASSUME NEW c \in Callers, WaiterWakes(c) PROVE LookupInv'
  BY <1>5 DEF WaiterWakes
<1>6. ASSUME NEW c \in Callers, WaiterGivesUp(c) PROVE LookupInv'
  BY <1>6 DEF WaiterGivesUp
<1>7. ASSUME NEW f \in Flights, HeadersArrive(f) PROVE LookupInv'
  BY <1>7 DEF HeadersArrive
<1>8. ASSUME NEW f \in Flights, FlightAnswers(f) PROVE LookupInv'
  BY <1>8 DEF FlightAnswers, Ends
<1>9. ASSUME NEW f \in Flights, FlightFails(f) PROVE LookupInv'
  BY <1>9 DEF FlightFails, Ends
<1>10. ASSUME NEW f \in Flights, FlightCancelled(f) PROVE LookupInv'
  BY <1>10 DEF FlightCancelled, Ends
<1>11. ASSUME NEW f \in Flights, Finished(f) PROVE LookupInv'
  BY <1>11 DEF Finished
<1>12. CASE Tick
  BY <1>12 DEF Tick
<1>13. CASE Close
  BY <1>13 DEF Close
<1>14. CASE CloseJoined
  BY <1>14 DEF CloseJoined
<1>15. CASE CloserCancelled
  BY <1>15 DEF CloserCancelled
<1>16. CASE UNCHANGED vars
  BY <1>16 DEF vars
<1> QED BY <1>1, <1>2, <1>3, <1>4, <1>5, <1>6, <1>7, <1>8,
          <1>9, <1>10, <1>11, <1>12, <1>13, <1>14, <1>15, <1>16 DEF Next

\* Every step keeps SharedLookup.
LEMMA StepKeepsSharing ==
  ASSUME TypeOK, LookupInv, SharedLookup, [Next]_vars
  PROVE  SharedLookup'
<1> USE DiscoveryAssumption DEF Flights, InFlight, timing, TypeOK, LookupInv, SharedLookup
<1>1. ASSUME NEW c \in Callers, Refused(c) PROVE SharedLookup'
  BY <1>1 DEF Refused
<1>2. ASSUME NEW c \in Callers, FromCache(c) PROVE SharedLookup'
  BY <1>2 DEF FromCache
<1>3. ASSUME NEW c \in Callers, Starts(c) PROVE SharedLookup'
  BY <1>3 DEF Starts, Join
<1>4. ASSUME NEW c \in Callers, Joins(c) PROVE SharedLookup'
  BY <1>4 DEF Joins, Join
<1>5. ASSUME NEW c \in Callers, WaiterWakes(c) PROVE SharedLookup'
  BY <1>5 DEF WaiterWakes
<1>6. ASSUME NEW c \in Callers, WaiterGivesUp(c) PROVE SharedLookup'
  BY <1>6 DEF WaiterGivesUp
<1>7. ASSUME NEW f \in Flights, HeadersArrive(f) PROVE SharedLookup'
  BY <1>7 DEF HeadersArrive
<1>8. ASSUME NEW f \in Flights, FlightAnswers(f) PROVE SharedLookup'
  BY <1>8 DEF FlightAnswers, Ends
<1>9. ASSUME NEW f \in Flights, FlightFails(f) PROVE SharedLookup'
  BY <1>9 DEF FlightFails, Ends
<1>10. ASSUME NEW f \in Flights, FlightCancelled(f) PROVE SharedLookup'
  BY <1>10 DEF FlightCancelled, Ends
<1>11. ASSUME NEW f \in Flights, Finished(f) PROVE SharedLookup'
  BY <1>11 DEF Finished
<1>12. CASE Tick
  BY <1>12 DEF Tick
<1>13. CASE Close
  BY <1>13 DEF Close
<1>14. CASE CloseJoined
  BY <1>14 DEF CloseJoined
<1>15. CASE CloserCancelled
  BY <1>15 DEF CloserCancelled
<1>16. CASE UNCHANGED vars
  BY <1>16 DEF vars
<1> QED BY <1>1, <1>2, <1>3, <1>4, <1>5, <1>6, <1>7, <1>8,
          <1>9, <1>10, <1>11, <1>12, <1>13, <1>14, <1>15, <1>16 DEF Next

\* Every step keeps the times of a lookup in order.
LEMMA StepKeepsTime ==
  ASSUME TypeOK, LookupInv, TimeInv, [Next]_vars
  PROVE  TimeInv'
<1> USE DiscoveryAssumption DEF Flights, InFlight, timing, TypeOK, LookupInv, TimeInv
<1>1. ASSUME NEW c \in Callers, Refused(c) PROVE TimeInv'
  BY <1>1 DEF Refused
<1>2. ASSUME NEW c \in Callers, FromCache(c) PROVE TimeInv'
  BY <1>2 DEF FromCache
<1>3. ASSUME NEW c \in Callers, Starts(c) PROVE TimeInv'
  BY <1>3 DEF Starts, Join
<1>4. ASSUME NEW c \in Callers, Joins(c) PROVE TimeInv'
  BY <1>4 DEF Joins, Join
<1>5. ASSUME NEW c \in Callers, WaiterWakes(c) PROVE TimeInv'
  BY <1>5 DEF WaiterWakes
<1>6. ASSUME NEW c \in Callers, WaiterGivesUp(c) PROVE TimeInv'
  BY <1>6 DEF WaiterGivesUp
<1>7. ASSUME NEW f \in Flights, HeadersArrive(f) PROVE TimeInv'
  BY <1>7 DEF HeadersArrive
<1>8. ASSUME NEW f \in Flights, FlightAnswers(f) PROVE TimeInv'
  BY <1>8 DEF FlightAnswers, Ends
<1>9. ASSUME NEW f \in Flights, FlightFails(f) PROVE TimeInv'
  BY <1>9 DEF FlightFails, Ends
<1>10. ASSUME NEW f \in Flights, FlightCancelled(f) PROVE TimeInv'
  BY <1>10 DEF FlightCancelled, Ends
<1>11. ASSUME NEW f \in Flights, Finished(f) PROVE TimeInv'
  BY <1>11 DEF Finished
<1>12. CASE Tick
  BY <1>12 DEF Tick
<1>13. CASE Close
  BY <1>13 DEF Close
<1>14. CASE CloseJoined
  BY <1>14 DEF CloseJoined
<1>15. CASE CloserCancelled
  BY <1>15 DEF CloserCancelled
<1>16. CASE UNCHANGED vars
  BY <1>16 DEF vars
<1> QED BY <1>1, <1>2, <1>3, <1>4, <1>5, <1>6, <1>7, <1>8,
          <1>9, <1>10, <1>11, <1>12, <1>13, <1>14, <1>15, <1>16 DEF Next

\* Every step keeps the entry of the cache good.
LEMMA StepKeepsCache ==
  ASSUME TypeOK, LookupInv, TimeInv, CacheInv, [Next]_vars
  PROVE  CacheInv'
<1> USE DiscoveryAssumption DEF Flights, InFlight, timing, TypeOK, CacheInv
<1>1. ASSUME NEW c \in Callers, Refused(c) PROVE CacheInv'
  BY <1>1 DEF Refused
<1>2. ASSUME NEW c \in Callers, FromCache(c) PROVE CacheInv'
  BY <1>2 DEF FromCache
<1>3. ASSUME NEW c \in Callers, Starts(c) PROVE CacheInv'
  BY <1>3 DEF Starts, Join
<1>4. ASSUME NEW c \in Callers, Joins(c) PROVE CacheInv'
  BY <1>4 DEF Joins, Join
<1>5. ASSUME NEW c \in Callers, WaiterWakes(c) PROVE CacheInv'
  BY <1>5 DEF WaiterWakes
<1>6. ASSUME NEW c \in Callers, WaiterGivesUp(c) PROVE CacheInv'
  BY <1>6 DEF WaiterGivesUp
<1>7. ASSUME NEW f \in Flights, HeadersArrive(f) PROVE CacheInv'
  BY <1>7 DEF HeadersArrive
<1>8. ASSUME NEW f \in Flights, FlightAnswers(f) PROVE CacheInv'
  <2> DEFINE r == headers[f].response
  <2>1. /\ headers[f] \in [response : Responses, at : 0..Horizon]
        /\ headers[f].at <= now /\ now <= headers[f].at + LookupTime
        /\ r.project = ProjectOf[target[f]]
    BY <1>8 DEF FlightAnswers, ValidTarget, LookupInv, TimeInv
  <2>2. Lifetime(r) \in Nat
    BY <2>1, LifetimeBound
  <2>3. CASE closed
    BY <1>8, <2>3 DEF FlightAnswers
  <2>4. CASE ~closed
    <3>1. /\ cache'.engine = target[f] /\ cache'.until = now + Lifetime(r)
          /\ cache'.response = r /\ cache'.at = headers[f].at /\ now' = now
      BY <1>8, <2>4 DEF FlightAnswers
    <3> QED BY <2>1, <2>2, <3>1 DEF Lifetime
  <2> QED BY <2>3, <2>4
<1>9. ASSUME NEW f \in Flights, FlightFails(f) PROVE CacheInv'
  BY <1>9 DEF FlightFails, Ends
<1>10. ASSUME NEW f \in Flights, FlightCancelled(f) PROVE CacheInv'
  BY <1>10 DEF FlightCancelled, Ends
<1>11. ASSUME NEW f \in Flights, Finished(f) PROVE CacheInv'
  BY <1>11 DEF Finished
<1>12. CASE Tick
  BY <1>12 DEF Tick
<1>13. CASE Close
  BY <1>13 DEF Close
<1>14. CASE CloseJoined
  BY <1>14 DEF CloseJoined
<1>15. CASE CloserCancelled
  BY <1>15 DEF CloserCancelled
<1>16. CASE UNCHANGED vars
  BY <1>16 DEF vars
<1> QED BY <1>1, <1>2, <1>3, <1>4, <1>5, <1>6, <1>7, <1>8,
          <1>9, <1>10, <1>11, <1>12, <1>13, <1>14, <1>15, <1>16 DEF Next

-----------------------------------------------------------------------------
\* The inductive invariant holds in every reachable state.
THEOREM Invariance == Spec => []IInv
<1>1. IInv /\ [Next]_vars => IInv'
  BY StepKeepsTypes, StepKeepsLookup, StepKeepsSharing, StepKeepsTime, StepKeepsCache DEF IInv
<1> QED BY InitIInv, <1>1, PTL DEF Spec

\* The state of discovery keeps its types, and a closed one caches nothing.
THEOREM TypeCorrect == Spec => []TypeOK
<1>1. IInv => TypeOK
  BY DEF IInv
<1> QED BY Invariance, <1>1, PTL

\* Callers share one lookup, close() joins it, and nobody is cancelled by the
\* cancellation of another.
THEOREM LookupIsShared == Spec => []SharedLookup
<1>1. IInv => SharedLookup
  BY DEF IInv
<1> QED BY Invariance, <1>1, PTL

\* An answer from the cache is about the caller's engine, of its project, and no
\* older than its response allowed.
THEOREM CachedTargetIsFresh == Spec => FreshTarget
<1> DEFINE Good(c) ==
      LET r == cache.response
          declared == IF r.maxAge = Nothing THEN DefaultLifetime ELSE r.maxAge
      IN  /\ cache.engine = EngineOf[c] /\ r.project = ProjectOf[EngineOf[c]]
          /\ ~r.noStore /\ r.age # Nothing
          /\ r.age + (now - cache.at) < declared + LookupTime
          /\ now - cache.at < MaxLifetime + LookupTime
    Fresh == \A c \in Callers : pc[c] = "idle" /\ pc'[c] = "answered" => Good(c)
<1>1. IInv /\ [Next]_vars => [Fresh]_vars
  <2> SUFFICES ASSUME IInv, Next, NEW c \in Callers, pc[c] = "idle", pc'[c] = "answered"
               PROVE  Good(c)
    OBVIOUS
  <2>1. FromCache(c)
    BY DEF IInv, TypeOK, Next, timing, Refused, FromCache, Starts, Joins, Join, WaiterWakes,
           WaiterGivesUp, HeadersArrive, FlightAnswers, FlightFails, FlightCancelled, Finished,
           Tick, Close, CloseJoined, CloserCancelled
  <2> DEFINE r == cache.response
  <2>2. /\ cache # Nothing /\ cache.engine = EngineOf[c] /\ cache.until > now
        /\ r \in Responses /\ cache.at \in Nat /\ cache.until \in Nat /\ now \in Nat
        /\ LookupTime \in Nat /\ MaxLifetime \in Nat /\ DefaultLifetime \in Nat
    BY <2>1, DiscoveryAssumption DEF FromCache, Cached, IInv, TypeOK
  <2>3. /\ r.project = ProjectOf[EngineOf[c]]
        /\ cache.until <= cache.at + LookupTime + Lifetime(r) /\ Lifetime(r) # 0
    BY <2>2 DEF IInv, CacheInv
  <2>4. /\ Lifetime(r) \in Nat /\ ~r.noStore /\ r.age # Nothing /\ r.age \in Nat
        /\ r.age + Lifetime(r) <= MaxLifetime
        /\ r.age + Lifetime(r) <= IF r.maxAge = Nothing THEN DefaultLifetime ELSE r.maxAge
        /\ r.maxAge \in Nat \cup {Nothing}
    BY <2>2, <2>3, LifetimeBound, DiscoveryAssumption
  <2> QED BY <2>2, <2>3, <2>4
<1> QED BY Invariance, <1>1, PTL DEF Spec, FreshTarget
=============================================================================
