------------------------ MODULE ControlRequestsProofs ------------------------
(***************************************************************************)
(* Theorems about ControlRequests: no future is forgotten, client and      *)
(* engine agree on the open tunnels, and concurrent close_tunnel() calls   *)
(* share one request, for any number of calls and any length of the queues *)
(* on the control connection.                                              *)
(*                                                                         *)
(* The argument for AgreesWithEngine.  A request id is used once, so at    *)
(* most one message about its opening is on the wire, and while it is, the *)
(* future of the call is registered or the call gave up (WireInv).  The    *)
(* engine opens a tunnel once and says so before it can say that it        *)
(* closed: an "opened" whose tunnel is gone has the "closed" behind it.    *)
(*                                                                         *)
(* The argument for OneCloseRequest.  A request is written by the call     *)
(* that registers the future; it stays registered while the request is     *)
(* under way, or the tunnel is gone, unless a call for it gave up          *)
(* (ShareInv).                                                             *)
(***************************************************************************)
EXTENDS ControlRequests, FiniteSetTheorems, SequenceTheorems, TLAPS

\* Message i of s has this type and names c.
At(s, i, type, c) == i \in 1 .. Len(s) /\ s[i].type = type /\ s[i].id = c

\* Message i to the client answers the request of c.
Answers == {"opened", "refused", "malformed"}
AnswerAt(i, c) == \E type \in Answers : At(toClient, i, type, c)

\* A future exists from the first step of its call on.  A tunnel is known once
\* the future of its call has a result, and only known ones are closed.
CallInv ==
  /\ \A c \in Calls : pc[c] = "idle" => fut[c] = "none"
  /\ \A c \in aborted : pc[c] = "failed"
  /\ \A c \in tunnels \cup tunnelClosed : fut[c] = "result"
  /\ \A k \in Closers :
       /\ pc[k] \in {"locking", "waiting"} =>
            target[k] \in tunnels \cup tunnelClosed /\ joined[k] \in Closers
       /\ fut[k] = "error" => closed
  /\ closed => \A t \in Creators : pendingClose[t] = Nobody

\* Nobody at the other end has heard of a request that was not written.
Unheard(c) ==
  /\ \A i \in Nat : ~At(toEngine, i, "open", c) /\ ~AnswerAt(i, c) /\ ~At(toClient, i, "closed", c)
  /\ c \notin engineTunnels

\* While the channel is open a request or its one answer is on the wire, and the
\* future is still open; the word that a tunnel closed follows the word that it
\* opened.
FirstWord(c) ==
  /\ pc[c] \in {"idle", "locking"} => Unheard(c)
  /\ pc[c] = "locking" => c \in pendingTunnels

AskedOnce(c) ==
  \A i, j \in Nat : At(toEngine, i, "open", c) /\ At(toEngine, j, "open", c) => i = j

AnsweredOnce(c) == \A i, j \in Nat : AnswerAt(i, c) /\ AnswerAt(j, c) => i = j

AskedFirst(c) ==
  \A i \in Nat : At(toEngine, i, "open", c) =>
    /\ c \notin engineTunnels
    /\ \A j \in Nat : ~AnswerAt(j, c) /\ ~At(toClient, j, "closed", c)

FutureOpen(c) ==
  \A i \in Nat : At(toEngine, i, "open", c) \/ AnswerAt(i, c) =>
    fut[c] = "pending" /\ c \in pendingTunnels \cup aborted

ClosedLast(c) == \A i \in Nat : At(toClient, i, "closed", c) => c \notin engineTunnels

ClosedFollows(c) ==
  \A i \in Nat : At(toClient, i, "opened", c) =>
    c \in engineTunnels \/ \E j \in Nat : i < j /\ At(toClient, j, "closed", c)

WireInv ==
  ~closed =>
    \A c \in Creators :
      /\ FirstWord(c) /\ AskedOnce(c) /\ AnsweredOnce(c) /\ AskedFirst(c) /\ FutureOpen(c)
      /\ ClosedLast(c) /\ ClosedFollows(c)

\* AgreesWithEngine, in terms of positions.
EngineInv ==
  ~closed =>
    \A c \in Creators :
      /\ c \in tunnels \ engineTunnels => \E i \in Nat : At(toClient, i, "closed", c)
      /\ c \in engineTunnels \ (tunnels \cup aborted) =>
           \E i \in Nat : At(toClient, i, "opened", c)

\* A call for t gave up.
Abandoned(t) == \E k \in aborted : k \in Closers /\ target[k] = t

Writing(k, t) == pc[k] = "locking" /\ target[k] = t

\* Requests to close name known tunnels.  As long as no call for t gave up there
\* is at most one, and its future is registered unless the tunnel is gone.
ShareInv ==
  /\ \A i \in Nat, t \in Creators : At(toEngine, i, "close", t) => t \in tunnels \cup tunnelClosed
  /\ \A t \in Creators :
       \/ Abandoned(t)
       \/ /\ \A i, j \in Nat : At(toEngine, i, "close", t) /\ At(toEngine, j, "close", t) => i = j
          /\ \A k, l \in Closers : Writing(k, t) /\ Writing(l, t) => k = l
          /\ \A i \in Nat, k \in Closers : ~(At(toEngine, i, "close", t) /\ Writing(k, t))
          /\ pendingClose[t] # Nobody \/ t \notin tunnels
               \/ /\ \A i \in Nat : ~At(toEngine, i, "close", t)
                  /\ \A k \in Closers : ~Writing(k, t)

IInv == TypeOK /\ NothingForgotten /\ CallInv /\ WireInv /\ EngineInv /\ ShareInv

-----------------------------------------------------------------------------
\* Sequences of messages

\* new is old with one message more, old is new with one message less.
Extended(new, old, type, c) ==
  \E n \in Nat :
    /\ \A i, ty, d : At(old, i, ty, d) => i \in Nat /\ i < n
    /\ \A i \in Nat : \A ty, d :
         At(new, i, ty, d) <=> At(old, i, ty, d) \/ (i = n /\ ty = type /\ d = c)

Shifted(new, old) ==
  \A i \in Nat : \A ty, d : At(new, i, ty, d) <=> i # 0 /\ At(old, i + 1, ty, d)

\* A message has one type and one name.
LEMMA AtUnique ==
  ASSUME NEW s, NEW i, NEW type1, NEW type2, NEW c1, NEW c2,
         At(s, i, type1, c1), At(s, i, type2, c2)
  PROVE  type1 = type2 /\ c1 = c2
BY DEF At

LEMMA AppendExtends ==
  ASSUME NEW S, NEW s \in Seq(S), NEW m \in S
  PROVE  Extended(Append(s, m), s, m.type, m.id)
<1>1. /\ Len(s) + 1 \in Nat
      /\ \A i, ty, d : At(s, i, ty, d) => i \in Nat /\ i < Len(s) + 1
  BY LenProperties DEF At
<1>2. ASSUME NEW i \in Nat, NEW ty, NEW d
      PROVE  At(Append(s, m), i, ty, d) <=>
               At(s, i, ty, d) \/ (i = Len(s) + 1 /\ ty = m.type /\ d = m.id)
  BY LenProperties DEF At
<1> QED BY <1>1, <1>2 DEF Extended

LEMMA TailShifts ==
  ASSUME NEW S, NEW s \in Seq(S), s # <<>>
  PROVE  /\ Head(s) \in S
         /\ At(s, 1, Head(s).type, Head(s).id)
         /\ Shifted(Tail(s), s)
<1>1. /\ Head(s) \in S /\ Head(s) = s[1] /\ Len(s) \in Nat \ {0}
      /\ Len(Tail(s)) = Len(s) - 1
      /\ \A i \in 1 .. Len(Tail(s)) : Tail(s)[i] = s[i+1]
  BY HeadTailProperties, EmptySeq
<1>2. At(s, 1, Head(s).type, Head(s).id)
  BY <1>1 DEF At
<1>3. ASSUME NEW i \in Nat, NEW ty, NEW d
      PROVE  At(Tail(s), i, ty, d) <=> i # 0 /\ At(s, i + 1, ty, d)
  BY <1>1 DEF At
<1> QED BY <1>1, <1>2, <1>3 DEF Shifted

-----------------------------------------------------------------------------
\* The steps that touch the wire, in terms of positions

Asks(c) ==
  CreateWrite(c) /\ IF closed THEN toEngine' = toEngine ELSE Extended(toEngine', toEngine, "open", c)

AsksClose(k) ==
  /\ CloseWrite(k)
  /\ IF closed THEN toEngine' = toEngine ELSE Extended(toEngine', toEngine, "close", target[k])

ReadsClosed(c) ==
  /\ ~closed /\ At(toClient, 1, "closed", c) /\ Shifted(toClient', toClient)
  /\ HandleCloseTunnelRsp(c) /\ UNCHANGED closed /\ ReadVars

ReadsMalformed(c) ==
  /\ ~closed /\ c \in pendingTunnels /\ Shifted(toClient', toClient)
  /\ HandleMalformedRsp(c) /\ ReadVars

\* A malformed answer that nobody waits for is ignored like the others.
ReadsAnswer(c) ==
  /\ ~closed /\ Shifted(toClient', toClient)
  /\ At(toClient, 1, Head(toClient).type, c) /\ Head(toClient).type \in Answers
  /\ HandleOpenTunnelRsp(c) /\ UNCHANGED closed /\ ReadVars

EngineAnswers(c, type) ==
  /\ At(toEngine, 1, "open", c) /\ Shifted(toEngine', toEngine)
  /\ Extended(toClient', toClient, type, c)
  /\ engineTunnels' = IF type = "opened" THEN engineTunnels \cup {c} ELSE engineTunnels
  /\ EngineVars

EngineConfirms(t) ==
  /\ At(toEngine, 1, "close", t) /\ Shifted(toEngine', toEngine)
  /\ Extended(toClient', toClient, "closed", t)
  /\ engineTunnels' = engineTunnels \ {t}
  /\ EngineVars

EngineDropsOne(t) ==
  /\ t \in engineTunnels /\ toEngine' = toEngine
  /\ Extended(toClient', toClient, "closed", t)
  /\ engineTunnels' = engineTunnels \ {t}
  /\ EngineVars

LEMMA StepCases ==
  ASSUME TypeOK, CallInv, [Next]_vars
  PROVE  \/ \E c \in Creators : CreateBegin(c) \/ Asks(c) \/ CreateResume(c) \/ CreateAborts(c)
         \/ \E k \in Closers, t \in Creators : CloseBegin(k, t)
         \/ \E k \in Closers : AsksClose(k) \/ CloseResume(k) \/ CloseAborts(k)
         \/ \E c \in Creators : ReadsClosed(c) \/ ReadsMalformed(c) \/ ReadsAnswer(c)
         \/ ChannelEnds \/ ControlClose
         \/ \E c \in Creators, type \in Answers : EngineAnswers(c, type)
         \/ \E t \in Creators : EngineConfirms(t) \/ EngineDropsOne(t)
         \/ UNCHANGED vars
<1> USE DEF TypeOK
<1>1. ASSUME NEW m \in Message
      PROVE  Extended(Append(toEngine, m), toEngine, m.type, m.id)
  BY AppendExtends
<1>2. ASSUME NEW m \in Response
      PROVE  Extended(Append(toClient, m), toClient, m.type, m.id)
  BY AppendExtends
<1>3. toEngine # <<>> =>
        /\ Head(toEngine) \in Message
        /\ At(toEngine, 1, Head(toEngine).type, Head(toEngine).id)
        /\ Shifted(Tail(toEngine), toEngine)
  BY TailShifts
<1>4. toClient # <<>> =>
        /\ Head(toClient) \in Response
        /\ At(toClient, 1, Head(toClient).type, Head(toClient).id)
        /\ Shifted(Tail(toClient), toClient)
  BY TailShifts
<1>5. ASSUME NEW c \in Creators, CreateWrite(c) PROVE Asks(c)
  <2>1. [type |-> "open", id |-> c] \in Message
    BY DEF Message
  <2> QED BY <1>5, <1>1, <2>1 DEF Asks, CreateWrite, Send
<1>6. ASSUME NEW k \in Closers, CloseWrite(k) PROVE AsksClose(k)
  <2>1. target[k] \in Creators
    BY <1>6 DEF CallInv, CloseWrite
  <2>2. [type |-> "close", id |-> target[k]] \in Message
    BY <2>1 DEF Message
  <2> QED BY <1>6, <1>1, <2>2 DEF AsksClose, CloseWrite, Send
<1>7. ASSUME HandleMessage
      PROVE  \E c \in Creators : ReadsClosed(c) \/ ReadsMalformed(c) \/ ReadsAnswer(c)
  <2> DEFINE c == Head(toClient).id
             type == Head(toClient).type
  <2>1. c \in Creators /\ type \in {"opened", "refused", "malformed", "closed"}
    BY <1>4, <1>7 DEF HandleMessage, Response
  <2>2. At(toClient, 1, type, c) /\ Shifted(toClient', toClient) /\ ~closed /\ ReadVars
    BY <1>4, <1>7 DEF HandleMessage
  <2>3. CASE type = "closed"
    BY <1>7, <2>1, <2>2, <2>3 DEF HandleMessage, ReadsClosed
  <2>4. CASE type = "malformed" /\ c \in pendingTunnels
    BY <1>7, <2>1, <2>2, <2>4 DEF HandleMessage, ReadsMalformed
  <2>5. CASE type # "closed" /\ ~(type = "malformed" /\ c \in pendingTunnels)
    <3>1. HandleOpenTunnelRsp(c) /\ UNCHANGED closed
      BY <1>7, <2>5 DEF HandleMessage
    <3> QED BY <2>1, <2>2, <2>5, <3>1 DEF ReadsAnswer, Answers
  <2> QED BY <2>3, <2>4, <2>5
<1>8. ASSUME EngineOpens
      PROVE  \E c \in Creators, type \in Answers : EngineAnswers(c, type)
  <2> DEFINE c == Head(toEngine).id
  <2>1. c \in Creators /\ At(toEngine, 1, "open", c) /\ Shifted(toEngine', toEngine)
    BY <1>3, <1>8 DEF EngineOpens, Message
  <2>2. PICK type \in Answers :
          /\ toClient' = Append(toClient, [type |-> type, id |-> c])
          /\ engineTunnels' = IF type = "opened" THEN engineTunnels \cup {c} ELSE engineTunnels
    BY <1>8 DEF EngineOpens, Answers
  <2>3. [type |-> type, id |-> c] \in Response
    BY <2>1 DEF Response, Answers
  <2>4. EngineAnswers(c, type)
    BY <1>2, <1>8, <2>1, <2>2, <2>3 DEF EngineAnswers, EngineOpens
  <2> QED BY <2>1, <2>4
<1>9. ASSUME EngineCloses PROVE \E t \in Creators : EngineConfirms(t)
  <2> DEFINE t == Head(toEngine).id
  <2>1. t \in Creators /\ At(toEngine, 1, "close", t) /\ Shifted(toEngine', toEngine)
    BY <1>3, <1>9 DEF EngineCloses, Message
  <2>2. [type |-> "closed", id |-> t] \in Response
    BY <2>1 DEF Response
  <2>3. EngineConfirms(t)
    BY <1>2, <1>9, <2>1, <2>2 DEF EngineConfirms, EngineCloses
  <2> QED BY <2>1, <2>3
<1>10. ASSUME NEW t \in Creators, EngineDrops(t) PROVE EngineDropsOne(t)
  <2>1. [type |-> "closed", id |-> t] \in Response
    BY DEF Response
  <2> QED BY <1>2, <1>10, <2>1 DEF EngineDropsOne, EngineDrops
<1> QED BY <1>5, <1>6, <1>7, <1>8, <1>9, <1>10 DEF Next

-----------------------------------------------------------------------------
\* The steps that touch the wire keep WireInv

LEMMA AsksKeepsWire ==
  ASSUME TypeOK, NothingForgotten, CallInv, WireInv, NEW c \in Creators, Asks(c)
  PROVE  WireInv'
<1> SUFFICES ASSUME ~closed', NEW d \in Creators
             PROVE  (/\ FirstWord(d) /\ AskedOnce(d) /\ AnsweredOnce(d) /\ AskedFirst(d)
                     /\ FutureOpen(d) /\ ClosedLast(d) /\ ClosedFollows(d))'
  BY DEF WireInv
<1>1. /\ ~closed /\ pc[c] = "locking" /\ Extended(toEngine', toEngine, "open", c)
      /\ pc' = [pc EXCEPT ![c] = "waiting"]
      /\ UNCHANGED <<closed, fut, pendingTunnels, aborted, toClient, engineTunnels>>
  BY DEF Asks, CreateWrite, To, tableVars
<1>2. PICK n \in Nat :
        \A i \in Nat : \A ty, e :
          At(toEngine', i, ty, e) <=> At(toEngine, i, ty, e) \/ (i = n /\ ty = "open" /\ e = c)
  BY <1>1 DEF Extended
<1>3. /\ FirstWord(d) /\ AskedOnce(d) /\ AnsweredOnce(d) /\ AskedFirst(d) /\ FutureOpen(d)
      /\ ClosedLast(d) /\ ClosedFollows(d)
  BY <1>1 DEF WireInv
<1>4. c \in pendingTunnels /\ fut[c] = "pending" /\ Unheard(c)
  BY <1>1, RequestsAssumption DEF WireInv, FirstWord, NothingForgotten, Registered
<1>5. FirstWord(d)'
  BY <1>1, <1>2, <1>3, <1>4 DEF FirstWord, Unheard, AnswerAt, TypeOK, Calls
<1>6. AskedOnce(d)'
  BY <1>1, <1>2, <1>3, <1>4 DEF AskedOnce, Unheard
<1>7. AnsweredOnce(d)' /\ ClosedLast(d)' /\ ClosedFollows(d)'
  BY <1>1, <1>3 DEF AnsweredOnce, AnswerAt, ClosedLast, ClosedFollows
<1>8. AskedFirst(d)'
  BY <1>1, <1>2, <1>3, <1>4 DEF AskedFirst, Unheard, AnswerAt
<1>9. FutureOpen(d)'
  BY <1>1, <1>2, <1>3, <1>4 DEF FutureOpen, AnswerAt
<1> QED BY <1>5, <1>6, <1>7, <1>8, <1>9

\* The first message to the client is read.
LEMMA ReadsKeepsWire ==
  ASSUME TypeOK, NothingForgotten, CallInv, WireInv, NEW c \in Creators,
         ReadsClosed(c) \/ ReadsAnswer(c)
  PROVE  WireInv'
<1> SUFFICES ASSUME ~closed', NEW d \in Creators
             PROVE  (/\ FirstWord(d) /\ AskedOnce(d) /\ AnsweredOnce(d) /\ AskedFirst(d)
                     /\ FutureOpen(d) /\ ClosedLast(d) /\ ClosedFollows(d))'
  BY DEF WireInv
<1>1. /\ ~closed /\ UNCHANGED <<toEngine, engineTunnels, aborted, pc>>
      /\ \A i \in Nat : \A ty, e : At(toClient', i, ty, e) <=> i # 0 /\ At(toClient, i + 1, ty, e)
  BY DEF ReadsClosed, ReadsAnswer, ReadVars, Shifted
<1>2. /\ FirstWord(d) /\ AskedOnce(d) /\ AnsweredOnce(d) /\ AskedFirst(d) /\ FutureOpen(d)
      /\ ClosedLast(d) /\ ClosedFollows(d)
  BY <1>1 DEF WireInv
<1>3. \A i \in Nat : AnswerAt(i, d)' => i # 0 /\ i + 1 \in Nat /\ AnswerAt(i + 1, d)
  BY <1>1 DEF AnswerAt
<1>4. \/ pendingTunnels' = pendingTunnels /\ fut'[d] = fut[d]
      \/ AnswerAt(1, c) /\ pendingTunnels' = pendingTunnels \ {c} /\ (d = c \/ fut'[d] = fut[d])
  <2>1. CASE ReadsClosed(c)
    BY <2>1, RequestsAssumption DEF ReadsClosed, HandleCloseTunnelRsp, Settle, TypeOK, Calls
  <2>2. CASE ReadsAnswer(c)
    BY <2>2 DEF ReadsAnswer, HandleOpenTunnelRsp, Settle, TypeOK, Calls, AnswerAt
  <2> QED BY <2>1, <2>2
<1>5. FirstWord(d)'
  <2>1. pc[d] \in {"idle", "locking"} => Unheard(d)'
    BY <1>1, <1>2, <1>3 DEF FirstWord, Unheard
  <2>2. pc[d] = "locking" => d \in pendingTunnels'
    BY <1>2, <1>4 DEF FirstWord, Unheard
  <2> QED BY <1>1, <2>1, <2>2 DEF FirstWord
<1>6. AskedOnce(d)'
  BY <1>1, <1>2 DEF AskedOnce
<1>7. AnsweredOnce(d)'
  BY <1>2, <1>3 DEF AnsweredOnce
<1>8. AskedFirst(d)'
  BY <1>1, <1>2, <1>3 DEF AskedFirst
<1>9. FutureOpen(d)'
  <2> SUFFICES ASSUME NEW i \in Nat, At(toEngine, i, "open", d) \/ AnswerAt(i, d)'
               PROVE  (fut[d] = "pending" /\ d \in pendingTunnels \cup aborted)'
    BY <1>1 DEF FutureOpen
  <2>1. At(toEngine, i, "open", d) \/ (i # 0 /\ i + 1 \in Nat /\ AnswerAt(i + 1, d))
    BY <1>3
  <2>2. fut[d] = "pending" /\ d \in pendingTunnels \cup aborted
    BY <1>2, <2>1 DEF FutureOpen
  <2>3. d = c => ~AnswerAt(1, c)
    BY <1>2, <2>1 DEF AskedFirst, AnsweredOnce
  <2> QED BY <1>1, <1>4, <2>2, <2>3
<1>10. ClosedLast(d)'
  BY <1>1, <1>2 DEF ClosedLast
<1>11. ClosedFollows(d)'
  <2> SUFFICES ASSUME NEW i \in Nat, At(toClient', i, "opened", d), d \notin engineTunnels
               PROVE  \E j \in Nat : i < j /\ At(toClient', j, "closed", d)
    BY <1>1 DEF ClosedFollows
  <2>1. i + 1 \in Nat /\ At(toClient, i + 1, "opened", d)
    BY <1>1
  <2>2. PICK j \in Nat : i + 1 < j /\ At(toClient, j, "closed", d)
    BY <1>2, <2>1 DEF ClosedFollows
  <2>3. j - 1 \in Nat /\ j - 1 # 0 /\ i < j - 1 /\ (j - 1) + 1 = j
    BY <2>2
  <2>4. At(toClient', j - 1, "closed", d)
    BY <1>1, <2>2, <2>3
  <2> QED BY <2>3, <2>4
<1> QED BY <1>5, <1>6, <1>7, <1>8, <1>9, <1>10, <1>11

LEMMA AnswersKeepsWire ==
  ASSUME TypeOK, WireInv, NEW c \in Creators, NEW type \in Answers, EngineAnswers(c, type)
  PROVE  WireInv'
<1> SUFFICES ASSUME ~closed', NEW d \in Creators
             PROVE  (/\ FirstWord(d) /\ AskedOnce(d) /\ AnsweredOnce(d) /\ AskedFirst(d)
                     /\ FutureOpen(d) /\ ClosedLast(d) /\ ClosedFollows(d))'
  BY DEF WireInv
<1>1. /\ ~closed /\ UNCHANGED <<pendingTunnels, aborted, pc, fut>>
      /\ At(toEngine, 1, "open", c)
      /\ engineTunnels' = IF type = "opened" THEN engineTunnels \cup {c} ELSE engineTunnels
      /\ \A i \in Nat : \A ty, e : At(toEngine', i, ty, e) <=> i # 0 /\ At(toEngine, i + 1, ty, e)
  BY DEF EngineAnswers, EngineVars, tableVars, callVars, Shifted
<1>2. PICK n \in Nat :
        /\ \A i, ty, e : At(toClient, i, ty, e) => i \in Nat /\ i < n
        /\ \A i \in Nat : \A ty, e :
             At(toClient', i, ty, e) <=> At(toClient, i, ty, e) \/ (i = n /\ ty = type /\ e = c)
  BY DEF EngineAnswers, Extended
<1>3. /\ FirstWord(d) /\ AskedOnce(d) /\ AnsweredOnce(d) /\ AskedFirst(d) /\ FutureOpen(d)
      /\ ClosedLast(d) /\ ClosedFollows(d)
  BY <1>1 DEF WireInv
<1>4. \A i \in Nat : AnswerAt(i, d)' <=> AnswerAt(i, d) \/ (i = n /\ d = c)
  BY <1>2 DEF AnswerAt
<1>5. type # "closed"
  BY DEF Answers
<1>6. /\ pc[c] \notin {"idle", "locking"} /\ fut[c] = "pending" /\ c \in pendingTunnels \cup aborted
      /\ \A i \in Nat : ~AnswerAt(i, c) /\ ~At(toClient, i, "closed", c) /\ ~At(toEngine', i, "open", c)
  <2>1. AskedFirst(c) /\ AskedOnce(c) /\ FutureOpen(c) /\ FirstWord(c)
    BY <1>1 DEF WireInv
  <2>2. pc[c] \notin {"idle", "locking"} /\ fut[c] = "pending" /\ c \in pendingTunnels \cup aborted
    BY <1>1, <2>1 DEF FirstWord, FutureOpen, Unheard
  <2>3. ASSUME NEW i \in Nat, At(toEngine', i, "open", c) PROVE FALSE
    BY <1>1, <2>1, <2>3 DEF AskedOnce
  <2> QED BY <1>1, <2>1, <2>2, <2>3 DEF AskedFirst
<1>7. FirstWord(d)'
  <2>1. CASE d = c
    BY <1>1, <1>6, <2>1 DEF FirstWord
  <2>2. CASE d # c
    <3>1. Unheard(d) => Unheard(d)'
      BY <1>1, <1>2, <1>4, <2>2 DEF Unheard
    <3> QED BY <1>1, <1>3, <3>1 DEF FirstWord
  <2> QED BY <2>1, <2>2
<1>8. AskedOnce(d)'
  BY <1>1, <1>3 DEF AskedOnce
<1>9. AnsweredOnce(d)'
  BY <1>3, <1>4, <1>6 DEF AnsweredOnce
<1>10. AskedFirst(d)'
  <2>1. CASE d = c
    BY <1>6, <2>1 DEF AskedFirst
  <2>2. CASE d # c
    BY <1>1, <1>2, <1>3, <1>4, <2>2 DEF AskedFirst
  <2> QED BY <2>1, <2>2
<1>11. FutureOpen(d)'
  BY <1>1, <1>3, <1>4, <1>6 DEF FutureOpen
<1>12. ClosedLast(d)'
  BY <1>1, <1>2, <1>3, <1>5, <1>6 DEF ClosedLast
<1>13. ClosedFollows(d)'
  <2>1. CASE d = c /\ type = "opened"
    BY <1>1, <2>1 DEF ClosedFollows
  <2>2. CASE d # c \/ type # "opened"
    BY <1>1, <1>2, <1>3, <2>2 DEF ClosedFollows
  <2> QED BY <2>1, <2>2
<1> QED BY <1>7, <1>8, <1>9, <1>10, <1>11, <1>12, <1>13

\* The engine says that t closed: to a request, or on its own.
LEMMA ClosedKeepsWire ==
  ASSUME TypeOK, NothingForgotten, CallInv, ShareInv, WireInv, NEW t \in Creators,
         EngineConfirms(t) \/ EngineDropsOne(t)
  PROVE  WireInv'
<1> SUFFICES ASSUME ~closed', NEW d \in Creators
             PROVE  (/\ FirstWord(d) /\ AskedOnce(d) /\ AnsweredOnce(d) /\ AskedFirst(d)
                     /\ FutureOpen(d) /\ ClosedLast(d) /\ ClosedFollows(d))'
  BY DEF WireInv
<1>1. /\ ~closed /\ UNCHANGED <<pendingTunnels, aborted, pc, fut>>
      /\ engineTunnels' = engineTunnels \ {t}
      /\ \A i \in Nat : At(toEngine', i, "open", d) =>
           At(toEngine, i, "open", d) \/ (i + 1 \in Nat /\ i # 0 /\ At(toEngine, i + 1, "open", d))
  BY DEF EngineConfirms, EngineDropsOne, EngineVars, tableVars, callVars, Shifted
<1>2. PICK n \in Nat :
        /\ \A i, ty, e : At(toClient, i, ty, e) => i \in Nat /\ i < n
        /\ \A i \in Nat : \A ty, e :
             At(toClient', i, ty, e) <=> At(toClient, i, ty, e) \/ (i = n /\ ty = "closed" /\ e = t)
  BY DEF EngineConfirms, EngineDropsOne, Extended
<1>3. /\ FirstWord(d) /\ AskedOnce(d) /\ AnsweredOnce(d) /\ AskedFirst(d) /\ FutureOpen(d)
      /\ ClosedLast(d) /\ ClosedFollows(d)
  BY <1>1 DEF WireInv
<1>4. \A i \in Nat : AnswerAt(i, d)' <=> AnswerAt(i, d)
  BY <1>2 DEF AnswerAt, Answers
<1>5. AskedOnce(d)'
  BY <1>3 DEF AskedOnce, EngineConfirms, EngineDropsOne, Shifted
<1>6. pc[t] \notin {"idle", "locking"} /\ \A i \in Nat : ~At(toEngine, i, "open", t)
  <2>1. AskedFirst(t) /\ FutureOpen(t) /\ FirstWord(t)
    BY <1>1 DEF WireInv
  <2>2. CASE EngineConfirms(t)
    <3>1. t \in tunnels \cup tunnelClosed
      BY <2>2 DEF EngineConfirms, ShareInv
    <3>2. fut[t] = "result" /\ t \notin pendingTunnels
      BY <3>1, RequestsAssumption DEF CallInv, NothingForgotten, Registered, TypeOK
    <3>3. pc[t] # "idle"
      BY <3>2 DEF CallInv, Calls
    <3> QED BY <2>1, <3>2, <3>3 DEF FutureOpen, FirstWord
  <2>3. CASE EngineDropsOne(t)
    BY <2>1, <2>3 DEF EngineDropsOne, AskedFirst, FirstWord, Unheard
  <2> QED BY <2>2, <2>3
<1>7. FirstWord(d)'
  BY <1>1, <1>2, <1>3, <1>4, <1>6 DEF FirstWord, Unheard
<1>8. AnsweredOnce(d)'
  BY <1>3, <1>4 DEF AnsweredOnce
<1>9. AskedFirst(d)'
  BY <1>1, <1>2, <1>3, <1>4, <1>6 DEF AskedFirst
<1>10. FutureOpen(d)'
  BY <1>1, <1>3, <1>4 DEF FutureOpen
<1>11. ClosedLast(d)'
  BY <1>1, <1>2, <1>3 DEF ClosedLast
<1>12. ClosedFollows(d)'
  BY <1>1, <1>2, <1>3 DEF ClosedFollows
<1> QED BY <1>5, <1>7, <1>8, <1>9, <1>10, <1>11, <1>12

\* A step that moves no message about an opening: it may register a future that
\* the wire has not heard of, or end a call whose future is done.
LEMMA QuietKeepsWire ==
  ASSUME WireInv, ~closed, UNCHANGED <<toClient, engineTunnels>>,
         \A d \in Creators : \A i \in Nat :
           At(toEngine', i, "open", d) <=> At(toEngine, i, "open", d),
         \A d \in Creators :
           /\ pc'[d] \in {"idle", "locking"} => pc[d] \in {"idle", "locking"}
           /\ pc'[d] = "locking" => d \in pendingTunnels'
           /\ \/ pc[d] = "idle"
              \/ fut[d] = "pending" /\ d \in pendingTunnels \cup aborted =>
                   (fut[d] = "pending" /\ d \in pendingTunnels \cup aborted)'
  PROVE  WireInv'
<1> SUFFICES ASSUME ~closed', NEW d \in Creators
             PROVE  (/\ FirstWord(d) /\ AskedOnce(d) /\ AnsweredOnce(d) /\ AskedFirst(d)
                     /\ FutureOpen(d) /\ ClosedLast(d) /\ ClosedFollows(d))'
  BY DEF WireInv
<1>1. /\ FirstWord(d) /\ AskedOnce(d) /\ AnsweredOnce(d) /\ AskedFirst(d) /\ FutureOpen(d)
      /\ ClosedLast(d) /\ ClosedFollows(d)
  BY DEF WireInv
<1>2. \A i \in Nat : AnswerAt(i, d)' <=> AnswerAt(i, d)
  BY DEF AnswerAt
<1>3. FirstWord(d)'
  <2>1. Unheard(d) => Unheard(d)'
    BY <1>2 DEF Unheard
  <2> QED BY <1>1, <2>1 DEF FirstWord
<1>4. AskedOnce(d)' /\ AnsweredOnce(d)'
  BY <1>1, <1>2 DEF AskedOnce, AnsweredOnce
<1>5. AskedFirst(d)' /\ ClosedLast(d)' /\ ClosedFollows(d)'
  BY <1>1, <1>2 DEF AskedFirst, ClosedLast, ClosedFollows
<1>6. FutureOpen(d)'
  BY <1>1, <1>2 DEF FutureOpen, FirstWord, Unheard
<1> QED BY <1>3, <1>4, <1>5, <1>6

LEMMA CallsKeepWire ==
  ASSUME TypeOK, NothingForgotten, CallInv, WireInv,
         \/ \E c \in Creators : CreateBegin(c) \/ CreateResume(c)
         \/ \E k \in Closers : AsksClose(k)
  PROVE  WireInv'
<1> USE RequestsAssumption DEF Calls, TypeOK, tableVars, callVars, wireVars
<1>1. CASE closed'
  BY <1>1 DEF WireInv
<1>2. ASSUME NEW c \in Creators, CreateBegin(c), ~closed' PROVE WireInv'
  <2>1. ~closed /\ UNCHANGED <<toEngine, toClient, engineTunnels>>
    BY <1>2 DEF CreateBegin
  <2>2. \A d \in Creators :
          /\ pc'[d] \in {"idle", "locking"} => pc[d] \in {"idle", "locking"}
          /\ pc'[d] = "locking" => d \in pendingTunnels'
          /\ \/ pc[d] = "idle"
             \/ fut'[d] = fut[d] /\ (d \in pendingTunnels \cup aborted =>
                                     d \in pendingTunnels' \cup aborted')
    BY <1>2, <2>1 DEF CreateBegin, To, Settle, WireInv, FirstWord
  <2> QED BY <2>1, <2>2, QuietKeepsWire
<1>3. ASSUME NEW c \in Creators, CreateResume(c), ~closed' PROVE WireInv'
  <2>1. ~closed /\ UNCHANGED <<toEngine, toClient, engineTunnels>>
    BY <1>3 DEF CreateResume
  <2>2. \A d \in Creators :
          /\ pc'[d] \in {"idle", "locking"} => pc[d] \in {"idle", "locking"}
          /\ pc'[d] = "locking" => d \in pendingTunnels'
          /\ fut[d] = "pending" /\ d \in pendingTunnels \cup aborted =>
               fut'[d] = "pending" /\ d \in pendingTunnels' \cup aborted'
    BY <1>3, <2>1 DEF CreateResume, To, WireInv, FirstWord
  <2> QED BY <2>1, <2>2, QuietKeepsWire
<1>4. ASSUME NEW k \in Closers, AsksClose(k), ~closed' PROVE WireInv'
  <2>1. ~closed /\ UNCHANGED <<toClient, engineTunnels, fut, pendingTunnels, aborted>>
    BY <1>4 DEF AsksClose, CloseWrite
  <2>2. \A d \in Creators : \A i \in Nat :
          At(toEngine', i, "open", d) <=> At(toEngine, i, "open", d)
    BY <1>4, <2>1 DEF AsksClose, Extended
  <2>3. \A d \in Creators : pc'[d] = pc[d]
    BY <1>4 DEF AsksClose, CloseWrite, To
  <2>4. \A d \in Creators : pc'[d] = "locking" => d \in pendingTunnels'
    BY <2>1, <2>3 DEF WireInv, FirstWord
  <2> QED BY <2>1, <2>2, <2>3, <2>4, QuietKeepsWire
<1> QED BY <1>1, <1>2, <1>3, <1>4

-----------------------------------------------------------------------------
\* Client and engine: the first message to the client is read

LEMMA ReadsKeepsEngine ==
  ASSUME TypeOK, WireInv, EngineInv, NEW c \in Creators, ReadsClosed(c) \/ ReadsAnswer(c)
  PROVE  EngineInv'
<1> SUFFICES ASSUME NEW d \in Creators
             PROVE  /\ d \in tunnels' \ engineTunnels' =>
                         \E i \in Nat : At(toClient', i, "closed", d)
                    /\ d \in engineTunnels' \ (tunnels' \cup aborted') =>
                         \E i \in Nat : At(toClient', i, "opened", d)
  BY DEF EngineInv
<1>1. /\ ~closed /\ UNCHANGED <<engineTunnels, aborted>>
      /\ \A i \in Nat : \A ty, e : At(toClient', i, ty, e) <=> i # 0 /\ At(toClient, i + 1, ty, e)
  BY DEF ReadsClosed, ReadsAnswer, ReadVars, Shifted
<1>2. /\ d \in tunnels \ engineTunnels => \E i \in Nat : At(toClient, i, "closed", d)
      /\ d \in engineTunnels \ (tunnels \cup aborted) =>
           \E i \in Nat : At(toClient, i, "opened", d)
  BY <1>1 DEF EngineInv
<1>3. ASSUME NEW i \in Nat, NEW ty, At(toClient, i, ty, d), i # 1
      PROVE  \E j \in Nat : At(toClient', j, ty, d)
  <2>1. i \in Nat \ {0}
    BY <1>3 DEF At
  <2>2. i - 1 \in Nat /\ i - 1 # 0 /\ (i - 1) + 1 = i
    BY <1>3, <2>1
  <2> QED BY <1>1, <1>3, <2>2
<1>4. CASE ReadsClosed(c)
  <2>1. tunnels' = tunnels \ {c} /\ At(toClient, 1, "closed", c)
    BY <1>4 DEF ReadsClosed, HandleCloseTunnelRsp
  <2>2. c \notin engineTunnels
    BY <1>1, <2>1 DEF WireInv, ClosedLast
  <2>3. /\ \A i \in Nat : At(toClient, i, "closed", d) /\ d # c => i # 1
        /\ \A i \in Nat : At(toClient, i, "opened", d) => i # 1
    BY <2>1, AtUnique
  <2> QED BY <1>1, <1>2, <1>3, <2>1, <2>2, <2>3
<1>5. CASE ReadsAnswer(c)
  <2>1. PICK type \in Answers :
          /\ At(toClient, 1, type, c)
          /\ tunnels' = IF c \in pendingTunnels /\ type = "opened" THEN tunnels \cup {c} ELSE tunnels
    BY <1>5 DEF ReadsAnswer, HandleOpenTunnelRsp
  <2>2. \A i \in Nat : At(toClient, i, "closed", d) => i # 1
    BY <2>1, AtUnique DEF Answers
  <2>3. ASSUME d \in tunnels' \ engineTunnels'
        PROVE  \E i \in Nat : At(toClient, i, "closed", d)
    <3>1. CASE d \in tunnels
      BY <1>1, <1>2, <2>3, <3>1
    <3>2. CASE d = c /\ type = "opened"
      BY <1>1, <2>1, <2>3, <3>2 DEF WireInv, ClosedFollows
    <3> QED BY <2>1, <2>3, <3>1, <3>2
  <2>4. ASSUME NEW i \in Nat, At(toClient, i, "opened", d), i = 1, d \notin aborted
        PROVE  d \in tunnels'
    <3>1. d = c /\ type = "opened"
      BY <2>1, <2>4, AtUnique
    <3>2. AnswerAt(1, c)
      BY <2>1 DEF AnswerAt
    <3>3. c \in pendingTunnels
      BY <1>1, <2>4, <3>1, <3>2 DEF WireInv, FutureOpen
    <3> QED BY <2>1, <3>1, <3>3
  <2>5. d \in tunnels' \ engineTunnels' => \E i \in Nat : At(toClient', i, "closed", d)
    BY <1>3, <2>2, <2>3
  <2>6. d \in engineTunnels' \ (tunnels' \cup aborted') =>
          \E i \in Nat : At(toClient', i, "opened", d)
    <3>1. tunnels \subseteq tunnels'
      BY <2>1
    <3> QED BY <1>1, <1>2, <1>3, <2>4, <3>1
  <2> QED BY <2>5, <2>6
<1> QED BY <1>4, <1>5

-----------------------------------------------------------------------------
\* Requests to close

\* A creating call does not touch what the requests to close are about.
LEMMA CreatorsKeepShare ==
  ASSUME ShareInv, UNCHANGED <<tunnels, tunnelClosed, pendingClose, target>>,
         \A k \in Closers : pc'[k] = pc[k] /\ (k \in aborted' <=> k \in aborted),
         \A i \in Nat, t \in Creators : At(toEngine', i, "close", t) <=> At(toEngine, i, "close", t)
  PROVE  ShareInv'
<1>1. \A t \in Creators : Abandoned(t)' <=> Abandoned(t)
  BY DEF Abandoned
<1>2. \A k \in Closers, t \in Creators : Writing(k, t)' <=> Writing(k, t)
  BY DEF Writing
<1> QED BY <1>1, <1>2 DEF ShareInv

LEMMA CloseBeginKeepsShare ==
  ASSUME TypeOK, NothingForgotten, CallInv, ShareInv,
         NEW k \in Closers, NEW t \in Creators, CloseBegin(k, t)
  PROVE  ShareInv'
<1> USE RequestsAssumption DEF TypeOK, Calls
<1>1. /\ pc[k] = "idle" /\ UNCHANGED <<tunnels, tunnelClosed, aborted, toEngine>>
      /\ k \notin aborted
  BY DEF CloseBegin, CallInv, wireVars
<1>2. \A j \in Closers : j # k => pc'[j] = pc[j] /\ target'[j] = target[j]
  BY DEF CloseBegin, To
<1>3. \A d \in Creators : Abandoned(d)' <=> Abandoned(d)
  BY <1>1, <1>2 DEF Abandoned
<1>4. CASE pc'[k] # "locking"
  <2>1. UNCHANGED pendingClose
    BY <1>4 DEF CloseBegin, To
  <2>2. \A j \in Closers, d \in Creators : Writing(j, d)' <=> Writing(j, d)
    BY <1>1, <1>2, <1>4 DEF Writing
  <2> QED BY <1>1, <1>3, <2>1, <2>2 DEF ShareInv
<1>5. CASE pc'[k] = "locking"
  <2>1. /\ t \in tunnels /\ pendingClose[t] = Nobody /\ target'[k] = t
        /\ pendingClose' = [pendingClose EXCEPT ![t] = k]
    BY <1>5 DEF CloseBegin, To
  <2>2. \A j \in Closers, d \in Creators :
          Writing(j, d)' <=> Writing(j, d) \/ (j = k /\ d = t)
    BY <1>1, <1>2, <1>5, <2>1 DEF Writing
  <2>3. /\ pendingClose'[t] # Nobody
        /\ \A d \in Creators : d # t => pendingClose'[d] = pendingClose[d]
    BY <2>1
  <2>4. Abandoned(t) \/ (/\ \A i \in Nat : ~At(toEngine, i, "close", t)
                         /\ \A j \in Closers : ~Writing(j, t))
    BY <2>1 DEF ShareInv
  <2> QED BY <1>1, <1>3, <2>2, <2>3, <2>4 DEF ShareInv
<1> QED BY <1>4, <1>5

\* A tunnel that just opened has no request to close it.
LEMMA ReadsAnswerKeepsShare ==
  ASSUME TypeOK, NothingForgotten, CallInv, ShareInv, NEW c \in Creators, ReadsAnswer(c)
  PROVE  ShareInv'
<1>1. /\ UNCHANGED <<pc, target, aborted, toEngine, pendingClose, tunnelClosed>>
      /\ tunnels \subseteq tunnels'
      /\ tunnels' = tunnels \/ (c \in pendingTunnels /\ tunnels' = tunnels \cup {c})
  BY DEF ReadsAnswer, HandleOpenTunnelRsp, ReadVars
<1>2. c \in pendingTunnels => c \notin tunnels \cup tunnelClosed
  BY RequestsAssumption DEF NothingForgotten, CallInv, Registered
<1>3. c \in pendingTunnels =>
        /\ \A i \in Nat : ~At(toEngine, i, "close", c)
        /\ \A k \in Closers : ~Writing(k, c)
  BY <1>2 DEF ShareInv, CallInv, Writing
<1>4. \A d \in Creators : Abandoned(d)' <=> Abandoned(d)
  BY <1>1 DEF Abandoned
<1>5. \A k \in Closers, d \in Creators : Writing(k, d)' <=> Writing(k, d)
  BY <1>1 DEF Writing
<1> QED BY <1>1, <1>3, <1>4, <1>5 DEF ShareInv

\* The engine reads a message.
LEMMA ReadByEngineKeepsShare ==
  ASSUME ShareInv, Shifted(toEngine', toEngine), EngineVars
  PROVE  ShareInv'
<1>1. UNCHANGED <<pc, target, aborted, pendingClose, tunnels, tunnelClosed>>
  BY DEF EngineVars, tableVars, callVars
<1>2. \A i \in Nat : \A ty, e : At(toEngine', i, ty, e) <=> i # 0 /\ At(toEngine, i + 1, ty, e)
  BY DEF Shifted
<1>3. \A d \in Creators : Abandoned(d)' <=> Abandoned(d)
  BY <1>1 DEF Abandoned
<1>4. \A k \in Closers, d \in Creators : Writing(k, d)' <=> Writing(k, d)
  BY <1>1 DEF Writing
<1>5. ASSUME NEW i \in Nat, NEW d \in Creators, At(toEngine', i, "close", d)
      PROVE  d \in tunnels' \cup tunnelClosed'
  BY <1>1, <1>2, <1>5 DEF ShareInv
<1>6. ASSUME NEW d \in Creators, ~Abandoned(d)
      PROVE  /\ \A i, j \in Nat : At(toEngine', i, "close", d) /\ At(toEngine', j, "close", d) => i = j
             /\ \A i \in Nat, k \in Closers : ~(At(toEngine', i, "close", d) /\ Writing(k, d))
             /\ (\A i \in Nat : ~At(toEngine, i, "close", d)) =>
                  \A i \in Nat : ~At(toEngine', i, "close", d)
  BY <1>2, <1>6 DEF ShareInv
<1> QED BY <1>1, <1>3, <1>4, <1>5, <1>6 DEF ShareInv

-----------------------------------------------------------------------------

\* Calls, futures and tunnels.
LEMMA StepKeepsCalls ==
  ASSUME TypeOK, NothingForgotten, CallInv, [Next]_vars
  PROVE  NothingForgotten' /\ CallInv'
<1> USE RequestsAssumption DEF TypeOK, NothingForgotten, CallInv, Registered, Calls, callVars, wireVars, tableVars
<1>1. ASSUME NEW c \in Creators, CreateBegin(c) PROVE NothingForgotten' /\ CallInv'
  BY <1>1 DEF CreateBegin, To, Settle
<1>2. ASSUME NEW c \in Creators, Asks(c) PROVE NothingForgotten' /\ CallInv'
  BY <1>2 DEF Asks, CreateWrite, To
<1>3. ASSUME NEW c \in Creators, CreateResume(c) PROVE NothingForgotten' /\ CallInv'
  BY <1>3 DEF CreateResume, To
<1>4. ASSUME NEW c \in Creators, CreateAborts(c) PROVE NothingForgotten' /\ CallInv'
  BY <1>4 DEF CreateAborts, To
<1>5. ASSUME NEW k \in Closers, NEW t \in Creators, CloseBegin(k, t) PROVE NothingForgotten' /\ CallInv'
  <2>1. \A j \in Calls : j # k => pc'[j] = pc[j] /\ fut'[j] = fut[j]
    BY <1>5 DEF CloseBegin, To, Settle
  <2>2. /\ \A j \in Closers : j # k => target'[j] = target[j] /\ joined'[j] = joined[j]
        /\ pc[k] = "idle" /\ pc'[k] # "idle" /\ fut'[k] \in {"none", "pending"}
        /\ UNCHANGED <<tunnels, tunnelClosed, pendingTunnels, closed, aborted>>
    BY <1>5 DEF CloseBegin, To, Settle
  <2>3. \/ UNCHANGED pendingClose
        \/ ~closed /\ fut'[k] = "pending" /\ pendingClose' = [pendingClose EXCEPT ![t] = k]
    BY <1>5 DEF CloseBegin, Settle
  <2>4. k \notin Registered
    BY <2>2
  <2>5. NothingForgotten'
    BY <2>1, <2>2, <2>3, <2>4, SMTT(30)
  <2>6. pc'[k] \in {"locking", "waiting"} =>
          target'[k] \in tunnels \cup tunnelClosed /\ joined'[k] \in Closers
    BY <1>5 DEF CloseBegin, To
  <2>7. closed' => \A d \in Creators : pendingClose'[d] = Nobody
    BY <2>2, <2>3
  <2>8. /\ \A c \in Calls : pc'[c] = "idle" => fut'[c] = "none"
        /\ \A c \in aborted' : pc'[c] = "failed"
    <3>1. k \notin aborted
      BY <2>2
    <3> QED BY <2>1, <2>2, <3>1
  <2>11. \A c \in tunnels' \cup tunnelClosed' : fut'[c] = "result"
    <3>1. \A c \in tunnels \cup tunnelClosed : c \in Calls /\ c # k
      OBVIOUS
    <3> QED BY <2>1, <2>2, <3>1
  <2>9. \A j \in Closers :
          /\ pc'[j] \in {"locking", "waiting"} =>
               target'[j] \in tunnels' \cup tunnelClosed' /\ joined'[j] \in Closers
          /\ fut'[j] = "error" => closed'
    BY <2>1, <2>2, <2>6
  <2>10. CallInv'
    BY <2>7, <2>8, <2>9, <2>11
  <2> QED BY <2>5, <2>10
<1>6. ASSUME NEW k \in Closers, AsksClose(k) PROVE NothingForgotten' /\ CallInv'
  BY <1>6 DEF AsksClose, CloseWrite, To
<1>7. ASSUME NEW k \in Closers, CloseResume(k) PROVE NothingForgotten' /\ CallInv'
  BY <1>7 DEF CloseResume, To, Unregister
<1>8. ASSUME NEW k \in Closers, CloseAborts(k) PROVE NothingForgotten' /\ CallInv'
  BY <1>8 DEF CloseAborts, To, Unregister
<1>9. ASSUME NEW c \in Creators, ReadsClosed(c) PROVE NothingForgotten' /\ CallInv'
  BY <1>9 DEF ReadsClosed, HandleCloseTunnelRsp, Settle, ReadVars
<1>10. ASSUME NEW c \in Creators, ReadsMalformed(c) PROVE NothingForgotten' /\ CallInv'
  BY <1>10 DEF ReadsMalformed, HandleMalformedRsp, Finish, EmptyTables, Registered, ReadVars
<1>11. ASSUME NEW c \in Creators, ReadsAnswer(c) PROVE NothingForgotten' /\ CallInv'
  BY <1>11 DEF ReadsAnswer, HandleOpenTunnelRsp, Settle, ReadVars
<1>12. ASSUME ChannelEnds PROVE NothingForgotten' /\ CallInv'
  BY <1>12 DEF ChannelEnds, Finish, EmptyTables, Registered
<1>13. ASSUME ControlClose PROVE NothingForgotten' /\ CallInv'
  BY <1>13 DEF ControlClose
<1>14. ASSUME NEW c \in Creators, NEW type \in Answers, EngineAnswers(c, type) PROVE NothingForgotten' /\ CallInv'
  BY <1>14 DEF EngineAnswers, EngineVars
<1>15. ASSUME NEW t \in Creators, EngineConfirms(t) PROVE NothingForgotten' /\ CallInv'
  BY <1>15 DEF EngineConfirms, EngineVars
<1>16. ASSUME NEW t \in Creators, EngineDropsOne(t) PROVE NothingForgotten' /\ CallInv'
  BY <1>16 DEF EngineDropsOne, EngineVars
<1>17. CASE UNCHANGED vars
  BY <1>17 DEF vars
<1> QED BY <1>1, <1>2, <1>3, <1>4, <1>5, <1>6, <1>7,
            <1>8, <1>9, <1>10, <1>11, <1>12, <1>13, <1>14,
            <1>15, <1>16, <1>17, StepCases

\* Requests and answers.
LEMMA StepKeepsWire ==
  ASSUME TypeOK, NothingForgotten, CallInv, WireInv, ShareInv, [Next]_vars
  PROVE  WireInv'
<1> USE RequestsAssumption DEF TypeOK, NothingForgotten, CallInv, Registered, Calls, WireInv, FirstWord, AskedOnce, AnsweredOnce, AskedFirst, FutureOpen, ClosedLast, ClosedFollows, Unheard, AnswerAt, callVars, wireVars, tableVars
<1>1. ASSUME NEW c \in Creators, CreateBegin(c) PROVE WireInv'
  BY <1>1, CallsKeepWire
<1>2. ASSUME NEW c \in Creators, Asks(c) PROVE WireInv'
  BY <1>2, AsksKeepsWire
<1>3. ASSUME NEW c \in Creators, CreateResume(c) PROVE WireInv'
  BY <1>3, CallsKeepWire
<1>4. ASSUME NEW c \in Creators, CreateAborts(c) PROVE WireInv'
  BY <1>4 DEF CreateAborts, To
<1>5. ASSUME NEW k \in Closers, NEW t \in Creators, CloseBegin(k, t) PROVE WireInv'
  BY <1>5 DEF CloseBegin, To, Settle
<1>6. ASSUME NEW k \in Closers, AsksClose(k) PROVE WireInv'
  BY <1>6, CallsKeepWire
<1>7. ASSUME NEW k \in Closers, CloseResume(k) PROVE WireInv'
  BY <1>7 DEF CloseResume, To, Unregister
<1>8. ASSUME NEW k \in Closers, CloseAborts(k) PROVE WireInv'
  BY <1>8 DEF CloseAborts, To, Unregister
<1>9. ASSUME NEW c \in Creators, ReadsClosed(c) PROVE WireInv'
  BY <1>9, ReadsKeepsWire
<1>10. ASSUME NEW c \in Creators, ReadsMalformed(c) PROVE WireInv'
  BY <1>10 DEF ReadsMalformed, HandleMalformedRsp, Finish, EmptyTables, Registered, ReadVars
<1>11. ASSUME NEW c \in Creators, ReadsAnswer(c) PROVE WireInv'
  BY <1>11, ReadsKeepsWire
<1>12. ASSUME ChannelEnds PROVE WireInv'
  BY <1>12 DEF ChannelEnds, Finish, EmptyTables, Registered
<1>13. ASSUME ControlClose PROVE WireInv'
  BY <1>13 DEF ControlClose
<1>14. ASSUME NEW c \in Creators, NEW type \in Answers, EngineAnswers(c, type) PROVE WireInv'
  BY <1>14, AnswersKeepsWire
<1>15. ASSUME NEW t \in Creators, EngineConfirms(t) PROVE WireInv'
  BY <1>15, ClosedKeepsWire
<1>16. ASSUME NEW t \in Creators, EngineDropsOne(t) PROVE WireInv'
  BY <1>16, ClosedKeepsWire
<1>17. CASE UNCHANGED vars
  BY <1>17 DEF vars
<1> QED BY <1>1, <1>2, <1>3, <1>4, <1>5, <1>6, <1>7,
            <1>8, <1>9, <1>10, <1>11, <1>12, <1>13, <1>14,
            <1>15, <1>16, <1>17, StepCases

\* Client and engine.
LEMMA StepKeepsEngine ==
  ASSUME TypeOK, NothingForgotten, CallInv, WireInv, EngineInv, [Next]_vars
  PROVE  EngineInv'
<1> USE RequestsAssumption DEF TypeOK, NothingForgotten, CallInv, Registered, Calls, EngineInv, Answers, Extended, Shifted, WireInv, FirstWord, AskedOnce, AnsweredOnce, AskedFirst, FutureOpen, ClosedLast, ClosedFollows, Unheard, AnswerAt, callVars, wireVars, tableVars
<1>1. ASSUME NEW c \in Creators, CreateBegin(c) PROVE EngineInv'
  BY <1>1 DEF CreateBegin, To, Settle
<1>2. ASSUME NEW c \in Creators, Asks(c) PROVE EngineInv'
  BY <1>2 DEF Asks, CreateWrite, To
<1>3. ASSUME NEW c \in Creators, CreateResume(c) PROVE EngineInv'
  BY <1>3 DEF CreateResume, To
<1>4. ASSUME NEW c \in Creators, CreateAborts(c) PROVE EngineInv'
  BY <1>4 DEF CreateAborts, To
<1>5. ASSUME NEW k \in Closers, NEW t \in Creators, CloseBegin(k, t) PROVE EngineInv'
  BY <1>5 DEF CloseBegin, To, Settle
<1>6. ASSUME NEW k \in Closers, AsksClose(k) PROVE EngineInv'
  BY <1>6 DEF AsksClose, CloseWrite, To
<1>7. ASSUME NEW k \in Closers, CloseResume(k) PROVE EngineInv'
  BY <1>7 DEF CloseResume, To, Unregister
<1>8. ASSUME NEW k \in Closers, CloseAborts(k) PROVE EngineInv'
  BY <1>8 DEF CloseAborts, To, Unregister
<1>9. ASSUME NEW c \in Creators, ReadsClosed(c) PROVE EngineInv'
  BY <1>9, ReadsKeepsEngine
<1>10. ASSUME NEW c \in Creators, ReadsMalformed(c) PROVE EngineInv'
  BY <1>10 DEF ReadsMalformed, HandleMalformedRsp, Finish, EmptyTables, Registered, ReadVars
<1>11. ASSUME NEW c \in Creators, ReadsAnswer(c) PROVE EngineInv'
  BY <1>11, ReadsKeepsEngine
<1>12. ASSUME ChannelEnds PROVE EngineInv'
  BY <1>12 DEF ChannelEnds, Finish, EmptyTables, Registered
<1>13. ASSUME ControlClose PROVE EngineInv'
  BY <1>13 DEF ControlClose
<1>14. ASSUME NEW c \in Creators, NEW type \in Answers, EngineAnswers(c, type) PROVE EngineInv'
  BY <1>14 DEF EngineAnswers, EngineVars
<1>15. ASSUME NEW t \in Creators, EngineConfirms(t) PROVE EngineInv'
  BY <1>15 DEF EngineConfirms, EngineVars
<1>16. ASSUME NEW t \in Creators, EngineDropsOne(t) PROVE EngineInv'
  BY <1>16 DEF EngineDropsOne, EngineVars
<1>17. CASE UNCHANGED vars
  BY <1>17 DEF vars
<1> QED BY <1>1, <1>2, <1>3, <1>4, <1>5, <1>6, <1>7,
            <1>8, <1>9, <1>10, <1>11, <1>12, <1>13, <1>14,
            <1>15, <1>16, <1>17, StepCases

\* Requests to close.
LEMMA StepKeepsShare ==
  ASSUME TypeOK, NothingForgotten, CallInv, ShareInv, [Next]_vars
  PROVE  ShareInv'
<1> USE RequestsAssumption DEF TypeOK, NothingForgotten, CallInv, Registered, Calls, ShareInv, Abandoned, Writing, Extended, Shifted, callVars, wireVars, tableVars
<1>1. ASSUME NEW c \in Creators, CreateBegin(c) PROVE ShareInv'
  <2>1. /\ UNCHANGED <<tunnels, tunnelClosed, pendingClose, target, toEngine>>
        /\ \A k \in Closers : pc'[k] = pc[k] /\ (k \in aborted' <=> k \in aborted)
    BY <1>1 DEF CreateBegin, To, Settle
  <2> QED BY <2>1, CreatorsKeepShare
<1>2. ASSUME NEW c \in Creators, Asks(c) PROVE ShareInv'
  <2>1. /\ UNCHANGED <<tunnels, tunnelClosed, pendingClose, target>>
        /\ \A k \in Closers : pc'[k] = pc[k] /\ (k \in aborted' <=> k \in aborted)
    BY <1>2 DEF Asks, CreateWrite, To
  <2>2. \A i \in Nat, t \in Creators : At(toEngine', i, "close", t) <=> At(toEngine, i, "close", t)
    BY <1>2 DEF Asks
  <2> QED BY <2>1, <2>2, CreatorsKeepShare
<1>3. ASSUME NEW c \in Creators, CreateResume(c) PROVE ShareInv'
  <2>1. /\ UNCHANGED <<tunnels, tunnelClosed, pendingClose, target, toEngine>>
        /\ \A k \in Closers : pc'[k] = pc[k] /\ (k \in aborted' <=> k \in aborted)
    BY <1>3 DEF CreateResume, To
  <2> QED BY <2>1, CreatorsKeepShare
<1>4. ASSUME NEW c \in Creators, CreateAborts(c) PROVE ShareInv'
  <2>1. /\ UNCHANGED <<tunnels, tunnelClosed, pendingClose, target, toEngine>>
        /\ \A k \in Closers : pc'[k] = pc[k] /\ (k \in aborted' <=> k \in aborted)
    BY <1>4 DEF CreateAborts, To
  <2> QED BY <2>1, CreatorsKeepShare
<1>5. ASSUME NEW k \in Closers, NEW t \in Creators, CloseBegin(k, t) PROVE ShareInv'
  BY <1>5, CloseBeginKeepsShare
<1>6. ASSUME NEW k \in Closers, AsksClose(k) PROVE ShareInv'
  BY <1>6 DEF AsksClose, CloseWrite, To
<1>7. ASSUME NEW k \in Closers, CloseResume(k) PROVE ShareInv'
  BY <1>7 DEF CloseResume, To, Unregister
<1>8. ASSUME NEW k \in Closers, CloseAborts(k) PROVE ShareInv'
  BY <1>8 DEF CloseAborts, To, Unregister
<1>9. ASSUME NEW c \in Creators, ReadsClosed(c) PROVE ShareInv'
  BY <1>9 DEF ReadsClosed, HandleCloseTunnelRsp, Settle, ReadVars
<1>10. ASSUME NEW c \in Creators, ReadsMalformed(c) PROVE ShareInv'
  BY <1>10 DEF ReadsMalformed, HandleMalformedRsp, Finish, EmptyTables, Registered, ReadVars
<1>11. ASSUME NEW c \in Creators, ReadsAnswer(c) PROVE ShareInv'
  BY <1>11, ReadsAnswerKeepsShare
<1>12. ASSUME ChannelEnds PROVE ShareInv'
  BY <1>12 DEF ChannelEnds, Finish, EmptyTables, Registered
<1>13. ASSUME ControlClose PROVE ShareInv'
  BY <1>13 DEF ControlClose
<1>14. ASSUME NEW c \in Creators, NEW type \in Answers, EngineAnswers(c, type) PROVE ShareInv'
  BY <1>14, ReadByEngineKeepsShare DEF EngineAnswers
<1>15. ASSUME NEW t \in Creators, EngineConfirms(t) PROVE ShareInv'
  BY <1>15, ReadByEngineKeepsShare DEF EngineConfirms
<1>16. ASSUME NEW t \in Creators, EngineDropsOne(t) PROVE ShareInv'
  BY <1>16 DEF EngineDropsOne, EngineVars
<1>17. CASE UNCHANGED vars
  BY <1>17 DEF vars
<1> QED BY <1>1, <1>2, <1>3, <1>4, <1>5, <1>6, <1>7,
            <1>8, <1>9, <1>10, <1>11, <1>12, <1>13, <1>14,
            <1>15, <1>16, <1>17, StepCases

\* Every step keeps the types.
LEMMA StepKeepsTypes ==
  ASSUME TypeOK, NothingForgotten, CallInv, [Next]_vars
  PROVE  TypeOK'
<1> USE RequestsAssumption DEF TypeOK, Calls, Registered, tableVars, callVars, wireVars
<1>1. ASSUME NEW c \in Creators, CreateBegin(c) PROVE TypeOK'
  BY <1>1 DEF CreateBegin, To, Settle
<1>2. ASSUME NEW c \in Creators, CreateWrite(c) PROVE TypeOK'
  <2>1. toEngine' \in Seq(Message)
    BY <1>2, AppendProperties DEF CreateWrite, Send, Message
  <2> QED BY <1>2, <2>1 DEF CreateWrite, To
<1>3. ASSUME NEW c \in Creators, CreateResume(c) PROVE TypeOK'
  BY <1>3, SMTT(30) DEF CreateResume, To
<1>4. ASSUME NEW c \in Creators, CreateAborts(c) PROVE TypeOK'
  BY <1>4 DEF CreateAborts, To
<1>5. ASSUME NEW k \in Closers, NEW t \in Creators, CloseBegin(k, t) PROVE TypeOK'
  <2>1. \A d \in Creators : pendingClose[d] # k
    BY <1>5 DEF CloseBegin, CallInv, NothingForgotten
  <2>2. CASE UNCHANGED pendingClose
    BY <1>5, <2>1, <2>2, SMTT(30) DEF CloseBegin, To, Settle
  <2>3. CASE pendingClose' = [pendingClose EXCEPT ![t] = k] /\ pendingClose[t] = Nobody
    <3>1. /\ target' = [target EXCEPT ![k] = t] /\ joined' = [joined EXCEPT ![k] = k]
          /\ pendingClose' \in [Creators -> Closers \cup {Nobody}]
      BY <1>5, <2>3 DEF CloseBegin
    <3>2. \A d \in Creators : pendingClose'[d] # Nobody =>
            target'[pendingClose'[d]] = d /\ joined'[pendingClose'[d]] = pendingClose'[d]
      BY <2>1, <2>3, <3>1
    <3>3. pc' \in [Calls -> {"idle", "locking", "waiting", "returned", "failed"}]
      BY <1>5 DEF CloseBegin, To
    <3>4. fut' \in [Calls -> {"none", "pending", "result", "error"}]
      BY <1>5 DEF CloseBegin, Settle
    <3>5. /\ target' \in [Closers -> Creators \cup {Nobody}]
          /\ joined' \in [Closers -> Closers \cup {Nobody}]
      BY <3>1
    <3> QED BY <1>5, <3>1, <3>2, <3>3, <3>4, <3>5 DEF CloseBegin
  <2> QED BY <1>5, <2>2, <2>3 DEF CloseBegin
<1>6. ASSUME NEW k \in Closers, CloseWrite(k) PROVE TypeOK'
  <2>1. target[k] \in Creators
    BY <1>6 DEF CloseWrite, CallInv
  <2>2. toEngine' \in Seq(Message)
    BY <1>6, <2>1, AppendProperties DEF CloseWrite, Send, Message
  <2> QED BY <1>6, <2>2 DEF CloseWrite, To
<1>7. ASSUME NEW k \in Closers, CloseResume(k) PROVE TypeOK'
  BY <1>7 DEF CloseResume, To, Unregister
<1>8. ASSUME NEW k \in Closers, CloseAborts(k) PROVE TypeOK'
  <2>1. /\ pendingClose' \in [Creators -> Closers \cup {Nobody}]
        /\ \A d \in Creators : pendingClose'[d] \in {pendingClose[d], Nobody}
    BY <1>8 DEF CloseAborts, Unregister
  <2>2. UNCHANGED <<target, joined>>
    BY <1>8 DEF CloseAborts
  <2>3. pc' \in [Calls -> {"idle", "locking", "waiting", "returned", "failed"}]
    BY <1>8 DEF CloseAborts, To
  <2> QED BY <1>8, <2>1, <2>2, <2>3 DEF CloseAborts
<1>9. ASSUME HandleMessage PROVE TypeOK'
  <2>1. Head(toClient) \in Response /\ Tail(toClient) \in Seq(Response)
    BY <1>9, HeadTailProperties DEF HandleMessage
  <2>2. PICK c \in Creators :
          \/ HandleCloseTunnelRsp(c) /\ UNCHANGED closed
          \/ HandleMalformedRsp(c)
          \/ HandleOpenTunnelRsp(c) /\ UNCHANGED closed
    BY <1>9, <2>1 DEF HandleMessage, Response
  <2>3. toClient' = Tail(toClient) /\ ReadVars
    BY <1>9 DEF HandleMessage
  <2>4. CASE HandleCloseTunnelRsp(c) /\ UNCHANGED closed
    BY <2>1, <2>3, <2>4 DEF HandleCloseTunnelRsp, Settle, ReadVars
  <2>5. CASE HandleMalformedRsp(c)
    BY <2>1, <2>3, <2>5 DEF HandleMalformedRsp, Finish, EmptyTables, ReadVars
  <2>6. CASE HandleOpenTunnelRsp(c) /\ UNCHANGED closed
    BY <2>1, <2>3, <2>6 DEF HandleOpenTunnelRsp, Settle, ReadVars
  <2> QED BY <2>2, <2>4, <2>5, <2>6
<1>10. ASSUME ChannelEnds PROVE TypeOK'
  BY <1>10 DEF ChannelEnds, Finish, EmptyTables
<1>11. ASSUME ControlClose PROVE TypeOK'
  BY <1>11 DEF ControlClose
<1>12. ASSUME EngineOpens PROVE TypeOK'
  <2>1. Head(toEngine) \in Message /\ Tail(toEngine) \in Seq(Message)
    BY <1>12, HeadTailProperties DEF EngineOpens
  <2>2. \A type \in {"opened", "refused", "malformed"} :
          Append(toClient, [type |-> type, id |-> Head(toEngine).id]) \in Seq(Response)
    BY <2>1, AppendProperties DEF Message, Response
  <2>3. toClient' \in Seq(Response) /\ engineTunnels' \subseteq Creators /\ misled' \subseteq Creators
    BY <1>12, <2>1, <2>2 DEF EngineOpens, Message
  <2> QED BY <1>12, <2>1, <2>3 DEF EngineOpens, EngineVars
<1>13. ASSUME EngineCloses PROVE TypeOK'
  <2>1. Head(toEngine) \in Message /\ Tail(toEngine) \in Seq(Message)
    BY <1>13, HeadTailProperties DEF EngineCloses
  <2>2. toClient' \in Seq(Response)
    BY <1>13, <2>1, AppendProperties DEF EngineCloses, Message, Response
  <2> QED BY <1>13, <2>1, <2>2 DEF EngineCloses, EngineVars
<1>14. ASSUME NEW t \in Creators, EngineDrops(t) PROVE TypeOK'
  <2>1. toClient' \in Seq(Response)
    BY <1>14, AppendProperties DEF EngineDrops, Response
  <2> QED BY <1>14, <2>1 DEF EngineDrops, EngineVars
<1>15. CASE UNCHANGED vars
  BY <1>15 DEF vars
<1> QED BY <1>1, <1>2, <1>3, <1>4, <1>5, <1>6, <1>7, <1>8, <1>9, <1>10, <1>11,
           <1>12, <1>13, <1>14, <1>15 DEF Next

LEMMA InitIInv == Init => IInv
<1> SUFFICES ASSUME Init PROVE IInv
  OBVIOUS
<1>1. \A i, type, c : ~At(toEngine, i, type, c) /\ ~At(toClient, i, type, c)
  BY DEF Init, At
<1>2. TypeOK
  <2>1. toEngine \in Seq(Message) /\ toClient \in Seq(Response)
    BY EmptySeq DEF Init
  <2> QED BY <2>1 DEF Init, TypeOK, Calls
<1>3. NothingForgotten /\ CallInv
  BY DEF Init, NothingForgotten, CallInv, Registered, Calls
<1>4. WireInv /\ EngineInv
  BY <1>1 DEF Init, WireInv, FirstWord, AskedOnce, AnsweredOnce, AskedFirst, FutureOpen,
              ClosedLast, ClosedFollows, Unheard, AnswerAt, EngineInv, Calls
<1>5. ShareInv
  BY <1>1 DEF Init, ShareInv, Writing, Calls
<1> QED BY <1>2, <1>3, <1>4, <1>5 DEF IInv

\* The invariants above hold in every state of every run.
THEOREM Invariance == Spec => []IInv
<1>1. IInv /\ [Next]_vars => IInv'
  BY StepKeepsTypes, StepKeepsCalls, StepKeepsWire, StepKeepsEngine, StepKeepsShare DEF IInv
<1> QED BY InitIInv, <1>1, PTL DEF Spec

-----------------------------------------------------------------------------
\* Every variable holds a value the code can give it; a future registered for a
\* close belongs to a call for that tunnel.
THEOREM TypeCorrect == Spec => []TypeOK
<1>1. IInv => TypeOK
  BY DEF IInv
<1> QED BY Invariance, <1>1, PTL

\* A registered future is open, so that the read loop never resolves one twice;
\* every tunnel object a caller got is registered or closed; a closed channel
\* has none registered.
THEOREM FuturesAndTunnelsKept == Spec => []NothingForgotten
<1>1. IInv => NothingForgotten
  BY DEF IInv
<1> QED BY Invariance, <1>1, PTL

\* While the channel is open, a tunnel the client holds is open at the engine or
\* the word that it closed is on its way; a tunnel only the engine holds is one
\* whose caller gave up, or whose "opened" is on its way.
THEOREM ClientAgreesWithEngine == Spec => []AgreesWithEngine
<1>1. ASSUME IInv PROVE AgreesWithEngine
  <2>1. ASSUME NEW i \in Nat, NEW type, NEW t, At(toClient, i, type, t)
        PROVE  i \in DOMAIN toClient /\ toClient[i] = [type |-> type, id |-> t]
    <3>1. toClient \in Seq(Response)
      BY <1>1 DEF IInv, TypeOK
    <3>2. i \in DOMAIN toClient /\ toClient[i] \in Response
      BY <2>1, <3>1, LenProperties, ElementOfSeq DEF At
    <3> QED BY <2>1, <3>2 DEF At, Response
  <2>2. ASSUME ~closed, NEW t \in tunnels \ engineTunnels
        PROVE  \E i \in DOMAIN toClient : toClient[i] = [type |-> "closed", id |-> t]
    <3>1. t \in Creators
      BY <1>1, <2>2 DEF IInv, TypeOK
    <3>2. PICK i \in Nat : At(toClient, i, "closed", t)
      BY <1>1, <2>2, <3>1 DEF IInv, EngineInv
    <3> QED BY <2>1, <3>2
  <2>3. ASSUME ~closed, NEW t \in engineTunnels \ (tunnels \cup aborted)
        PROVE  \E i \in DOMAIN toClient : toClient[i] = [type |-> "opened", id |-> t]
    <3>1. t \in Creators
      BY <1>1, <2>3 DEF IInv, TypeOK
    <3>2. PICK i \in Nat : At(toClient, i, "opened", t)
      BY <1>1, <2>3, <3>1 DEF IInv, EngineInv
    <3> QED BY <2>1, <3>2
  <2> QED BY <2>2, <2>3 DEF AgreesWithEngine
<1> QED BY Invariance, <1>1, PTL

\* A set whose members are all equal has at most one.
LEMMA AtMostOne ==
  ASSUME NEW S, \A x, y \in S : x = y
  PROVE  ~(Cardinality(S) > 1)
<1>1. CASE S = {}
  BY <1>1, FS_EmptySet
<1>2. CASE S # {}
  <2>1. PICK x : S = {x}
    BY <1>2
  <2> QED BY <2>1, FS_Singleton
<1> QED BY <1>1, <1>2

\* Concurrent close_tunnel() calls for one tunnel share one request, as long as
\* none of them gives up.
THEOREM CloseRequestShared == Spec => []OneCloseRequest
<1>1. ASSUME IInv PROVE OneCloseRequest
  <2> SUFFICES ASSUME NEW t \in Creators, ~Abandoned(t)
               PROVE  ~(Cardinality(CloseRequests(t)) > 1)
    BY DEF OneCloseRequest, Abandoned
  <2>1. ASSUME NEW i \in DOMAIN toEngine, toEngine[i] = [type |-> "close", id |-> t]
        PROVE  i \in Nat /\ At(toEngine, i, "close", t)
    <3>1. DOMAIN toEngine = 1 .. Len(toEngine) /\ Len(toEngine) \in Nat
      BY <1>1, LenProperties DEF IInv, TypeOK
    <3> QED BY <2>1, <3>1 DEF At
  <2>2. /\ \A i, j \in Nat : At(toEngine, i, "close", t) /\ At(toEngine, j, "close", t) => i = j
        /\ \A k, l \in Closers : Writing(k, t) /\ Writing(l, t) => k = l
        /\ \A i \in Nat, k \in Closers : ~(At(toEngine, i, "close", t) /\ Writing(k, t))
    BY <1>1 DEF IInv, ShareInv
  <2>3. ASSUME NEW x \in CloseRequests(t), NEW y \in CloseRequests(t) PROVE x = y
    BY <2>1, <2>2 DEF CloseRequests, Writing
  <2> QED BY <2>3, AtMostOne
<1> QED BY Invariance, <1>1, PTL
=============================================================================
