---------------------------- MODULE TunnelProofs ----------------------------
(***************************************************************************)
(* Theorems about Tunnel: no accept() waits while a stream is queued, a    *)
(* stream has one owner, and closes release what they must and no more,    *)
(* for any number of streams, callers of accept() and forward_to(), and    *)
(* callers of close().                                                     *)
(*                                                                         *)
(* The argument for OneOwner.  A stream is delivered once (FreshInv), and  *)
(* every step that gives it a new owner - put(), accept(), a resumed       *)
(* future, a new relay - takes it from the one it had (OwnerInv).          *)
(*                                                                         *)
(* The argument for ClosesComplete.  A relay that runs is in the table of  *)
(* forward tasks (RelayInv); after a hard close no relay starts, so that   *)
(* the tasks close() gathers are all there will ever be (CloseInv).        *)
(***************************************************************************)
EXTENDS Tunnel, FiniteSetTheorems, SequenceTheorems, TLAPS

\* Element i of q is x.
At(q, i, x) == i \in 1 .. Len(q) /\ q[i] = x
InQueue(i, s) == At(queue, i, s)

\* A future holds a stream exactly when it has a result.
HandoffInv == \A a \in Callers : handoff[a] # {} <=> fut[a] = "result"

\* A stream that was not delivered is nowhere.
FreshInv ==
  \A s \in Streams \ offered :
    /\ s \notin sclosed /\ s \notin forwarded /\ relay[s] = "none"
    /\ \A i \in Nat : ~InQueue(i, s)
    /\ \A a \in Callers : s \notin handoff[a] /\ s \notin held[a]

\* A delivered stream has one place among the queue, the futures, the callers
\* and the relays,
OnePlace(s) ==
  /\ \A i, j \in Nat : InQueue(i, s) /\ InQueue(j, s) => i = j
  /\ \A i \in Nat, a \in Callers : InQueue(i, s) => s \notin handoff[a] /\ s \notin held[a]
  /\ \A i \in Nat : InQueue(i, s) => ~RelayActive(s)
  /\ \A a, b \in Callers :
       /\ s \in handoff[a] /\ s \in handoff[b] => a = b
       /\ s \in held[a] /\ s \in held[b] => a = b
       /\ ~(s \in handoff[a] /\ s \in held[b])
  /\ \A a \in Callers : s \in handoff[a] \cup held[a] => ~RelayActive(s)

\* and an open one has a place, unless it was lost.
SomePlace(s) ==
  s \in offered \ sclosed /\ s \notin dropped /\ relay[s] # "done" =>
    \/ \E i \in Nat : InQueue(i, s)
    \/ \E a \in Callers : s \in handoff[a] \cup held[a]
    \/ RelayActive(s)

OwnerInv == \A s \in Streams : OnePlace(s) /\ SomePlace(s)

\* A relay that runs is a forward task.
RelayInv == \A s \in Streams : RelayActive(s) => s \in forwarded

\* A tunnel that is closed hard is closed, and only such a tunnel is gathered:
\* no relay starts once close() gathers.
CloseInv ==
  /\ hardClosed => closed /\ forwarded \subseteq sclosed
  /\ closeErr = "tunnel" => hardClosed
  /\ \A k \in Closers :
       /\ closer[k] \in {"gathering", "returned"} => hardClosed
       /\ closer[k] = "gathering" => \A s \in Streams : RelayActive(s) => s \in awaited[k]
       /\ closer[k] = "returned" => \A s \in Streams : ~RelayActive(s)

IInv ==
  TypeOK /\ NothingStranded /\ HandoffInv /\ FreshInv /\ OwnerInv /\ RelayInv /\ CloseInv

-----------------------------------------------------------------------------
\* Sequences

\* new is old with x at its end; new is old without its head.
Added(new, old, x) ==
  \E n \in Nat :
    /\ \A y : ~At(old, n, y)
    /\ \A i \in Nat : \A y : At(new, i, y) <=> At(old, i, y) \/ (i = n /\ y = x)

Shifted(new, old) == \A i \in Nat : \A y : At(new, i, y) <=> i # 0 /\ At(old, i + 1, y)

LEMMA AtUnique ==
  ASSUME NEW q, NEW i, NEW x, NEW y, At(q, i, x), At(q, i, y)
  PROVE  x = y
BY DEF At

LEMMA EmptyAt == \A i, x : ~At(<<>>, i, x)
BY DEF At

LEMMA AppendAdds ==
  ASSUME NEW S, NEW q \in Seq(S), NEW x \in S
  PROVE  Append(q, x) \in Seq(S) /\ Added(Append(q, x), q, x)
<1>1. Append(q, x) \in Seq(S) /\ Len(q) + 1 \in Nat /\ \A y : ~At(q, Len(q) + 1, y)
  BY AppendProperties, LenProperties DEF At
<1>2. ASSUME NEW i \in Nat, NEW y
      PROVE  At(Append(q, x), i, y) <=> At(q, i, y) \/ (i = Len(q) + 1 /\ y = x)
  BY AppendProperties, LenProperties DEF At
<1> QED BY <1>1, <1>2 DEF Added

LEMMA TailShifts ==
  ASSUME NEW S, NEW q \in Seq(S), q # <<>>
  PROVE  /\ Head(q) \in S /\ Tail(q) \in Seq(S)
         /\ At(q, 1, Head(q)) /\ Shifted(Tail(q), q)
<1>1. /\ Head(q) \in S /\ Head(q) = q[1] /\ Len(q) \in Nat \ {0} /\ Tail(q) \in Seq(S)
      /\ Len(Tail(q)) = Len(q) - 1
      /\ \A i \in 1 .. Len(Tail(q)) : Tail(q)[i] = q[i+1]
  BY HeadTailProperties, EmptySeq
<1>2. At(q, 1, Head(q))
  BY <1>1 DEF At
<1>3. ASSUME NEW i \in Nat, NEW y
      PROVE  At(Tail(q), i, y) <=> i # 0 /\ At(q, i + 1, y)
  BY <1>1 DEF At
<1> QED BY <1>1, <1>2, <1>3 DEF Shifted

LEMMA ShiftedKeeps ==
  ASSUME NEW new, NEW old, Shifted(new, old), NEW h, At(old, 1, h),
         NEW i \in Nat, NEW y, At(old, i, y), y # h
  PROVE  \E j \in Nat : At(new, j, y)
<1>1. i # 0 /\ i # 1
  BY DEF At
<1>2. i - 1 \in Nat /\ i - 1 # 0 /\ (i - 1) + 1 = i
  BY <1>1
<1> QED BY <1>2 DEF Shifted

LEMMA MemberAt ==
  ASSUME NEW S, NEW q \in Seq(S)
  PROVE  ToSet(q) \subseteq S /\ \A x : x \in ToSet(q) <=> \E i \in Nat : At(q, i, x)
<1>1. DOMAIN q = 1 .. Len(q) /\ Len(q) \in Nat /\ \A i \in 1 .. Len(q) : q[i] \in S
  BY LenProperties, ElementOfSeq
<1> QED BY <1>1 DEF ToSet, At

LEMMA AppendMembers ==
  ASSUME NEW S, NEW q \in Seq(S), NEW x \in S
  PROVE  Append(q, x) \in Seq(S) /\ ToSet(Append(q, x)) = ToSet(q) \cup {x}
<1>1. Append(q, x) \in Seq(S) /\ Added(Append(q, x), q, x)
  BY AppendAdds
<1>2. PICK n \in Nat : \A i \in Nat : \A y : At(Append(q, x), i, y) <=> At(q, i, y) \/ (i = n /\ y = x)
  BY <1>1 DEF Added
<1>3. \A y : y \in ToSet(q) <=> \E i \in Nat : At(q, i, y)
  BY MemberAt
<1>4. \A y : y \in ToSet(Append(q, x)) <=> \E i \in Nat : At(Append(q, x), i, y)
  BY <1>1, MemberAt
<1>5. \A y : y \in ToSet(Append(q, x)) <=> y \in ToSet(q) \/ y = x
  BY <1>2, <1>3, <1>4, Zenon
<1> QED BY <1>1, <1>5

\* What is left of q behind position i.
LEMMA SuffixMembers ==
  ASSUME NEW S, NEW q \in Seq(S), NEW i \in 1 .. Len(q)
  PROVE  /\ SubSeq(q, i + 1, Len(q)) \in Seq(S)
         /\ \A j \in i + 1 .. Len(q) : q[j] \in ToSet(SubSeq(q, i + 1, Len(q)))
<1> DEFINE r == SubSeq(q, i + 1, Len(q))
<1>1. Len(q) \in Nat /\ i + 1 \in Int /\ Len(q) \in Int /\ i \in Nat /\ i + 1 \in Nat
  BY LenProperties
<1>2. /\ r \in Seq(S) /\ Len(r) = Len(q) - i
      /\ \A j \in 1 .. Len(q) - i : r[j] = q[i + j]
  BY <1>1, SubSeqProperties, ElementOfSeq
<1>3. ASSUME NEW j \in i + 1 .. Len(q) PROVE q[j] \in ToSet(r)
  <2> HIDE DEF r
  <2>1. j - i \in 1 .. Len(q) - i /\ i + (j - i) = j /\ j - i \in Nat
    BY <1>1
  <2>2. At(r, j - i, q[j])
    BY <1>2, <2>1 DEF At
  <2> QED BY <1>2, <2>1, <2>2, MemberAt
<1> QED BY <1>2, <1>3

LEMMA RemoveAtMembers ==
  ASSUME NEW S, NEW q \in Seq(S), NEW i \in 1 .. Len(q)
  PROVE  /\ RemoveAt(q, i) \in Seq(S)
         /\ \A j \in 1 .. Len(q) : j # i => q[j] \in ToSet(RemoveAt(q, i))
<1> DEFINE a == SubSeq(q, 1, i - 1)
           b == SubSeq(q, i + 1, Len(q))
<1>1. /\ Len(q) \in Nat /\ i - 1 \in Int /\ i + 1 \in Int /\ Len(q) \in Int /\ i \in Nat
  BY LenProperties
<1>2. /\ a \in Seq(S) /\ Len(a) = i - 1
      /\ \A j \in 1 .. i - 1 : a[j] = q[j]
  BY <1>1, SubSeqProperties, ElementOfSeq
<1>3. /\ b \in Seq(S) /\ Len(b) = Len(q) - i
      /\ \A j \in 1 .. Len(q) - i : b[j] = q[i + j]
  BY <1>1, SubSeqProperties, ElementOfSeq
<1> HIDE DEF a, b
<1>4. /\ a \o b \in Seq(S)
      /\ Len(a \o b) = Len(q) - 1
      /\ \A j \in 1 .. Len(q) - 1 : (a \o b)[j] = IF j <= i - 1 THEN a[j] ELSE b[j - (i - 1)]
  <2>1. Len(a) + Len(b) = Len(q) - 1
    BY <1>1, <1>2, <1>3
  <2>2. /\ a \o b \in Seq(S) /\ Len(a \o b) = Len(a) + Len(b)
        /\ \A j \in 1 .. Len(a) + Len(b) :
             (a \o b)[j] = IF j <= Len(a) THEN a[j] ELSE b[j - Len(a)]
    BY <1>2, <1>3, ConcatProperties
  <2>3. Len(a) = i - 1
    BY <1>2
  <2> QED BY <2>1, <2>2, <2>3
<1>5. ASSUME NEW j \in 1 .. Len(q), j # i PROVE q[j] \in ToSet(a \o b)
  <2>1. CASE j < i
    <3>1. j \in 1 .. i - 1 /\ j \in 1 .. Len(q) - 1 /\ j <= i - 1
      BY <1>1, <2>1
    <3>2. (a \o b)[j] = q[j]
      BY <1>2, <1>4, <3>1
    <3>3. At(a \o b, j, q[j]) /\ j \in Nat
      BY <1>4, <3>1, <3>2 DEF At
    <3> QED BY <1>4, <3>3, MemberAt
  <2>2. CASE i < j
    <3>1. /\ j - 1 \in 1 .. Len(q) - 1 /\ ~(j - 1 <= i - 1) /\ j - 1 \in Nat
          /\ (j - 1) - (i - 1) = j - i /\ j - i \in 1 .. Len(q) - i /\ i + (j - i) = j
      BY <1>1, <2>2
    <3>2. (a \o b)[j - 1] = q[j]
      BY <1>3, <1>4, <3>1
    <3> QED BY <1>4, <3>1, <3>2, MemberAt DEF At
  <2> QED BY <1>1, <1>5, <2>1, <2>2
<1> QED BY <1>4, <1>5 DEF RemoveAt, a, b

-----------------------------------------------------------------------------
\* What the steps do to the deques

\* put() hands the stream to a waiter, or queues it when nobody waits.
PutEffect(s) ==
  /\ queue' \in Seq(Streams) /\ waiters' \in Seq(Callers)
  /\ \/ \E a \in Callers :
          /\ fut[a] = "pending" /\ queue' = queue
          /\ fut' = [fut EXCEPT ![a] = "result"]
          /\ handoff' = [handoff EXCEPT ![a] = {s}]
          /\ \A b \in Callers : fut[b] = "pending" /\ b # a => b \in ToSet(waiters')
     \/ /\ \A b \in Callers : fut[b] # "pending"
        /\ Added(queue', queue, s) /\ UNCHANGED <<fut, handoff>>

LEMMA PutCases ==
  ASSUME TypeOK, NothingStranded, NEW s \in Streams, Put(s)
  PROVE  PutEffect(s)
<1> USE DEF PutEffect
<1>1. /\ DOMAIN waiters = 1 .. Len(waiters) /\ Len(waiters) \in Nat
      /\ \A i \in 1 .. Len(waiters) : waiters[i] \in Callers
  BY LenProperties, ElementOfSeq DEF TypeOK
<1>2. \A b \in Callers : fut[b] = "pending" => \E i \in PendingAt : waiters[i] = b
  BY <1>1 DEF NothingStranded, PendingAt, ToSet
<1>3. ASSUME NEW i \in PendingAt, \A j \in PendingAt : i <= j,
             waiters' = SubSeq(waiters, i + 1, Len(waiters)),
             fut' = [fut EXCEPT ![waiters[i]] = "result"],
             handoff' = [handoff EXCEPT ![waiters[i]] = {s}], UNCHANGED queue
      PROVE  /\ waiters' \in Seq(Callers)
             /\ waiters[i] \in Callers /\ fut[waiters[i]] = "pending"
             /\ \A b \in Callers : fut[b] = "pending" /\ b # waiters[i] => b \in ToSet(waiters')
  <2>1. i \in 1 .. Len(waiters) /\ waiters[i] \in Callers /\ fut[waiters[i]] = "pending"
    BY <1>1 DEF PendingAt
  <2>2. /\ waiters' \in Seq(Callers)
        /\ \A j \in i + 1 .. Len(waiters) : waiters[j] \in ToSet(waiters')
    BY <1>3, <2>1, SuffixMembers DEF TypeOK
  <2>3. ASSUME NEW b \in Callers, fut[b] = "pending", b # waiters[i]
        PROVE  b \in ToSet(waiters')
    <3>1. PICK j \in PendingAt : waiters[j] = b
      BY <1>2, <2>3
    <3>2. j \in 1 .. Len(waiters) /\ i <= j /\ i # j
      BY <1>1, <1>3, <2>3, <3>1 DEF PendingAt
    <3>3. j \in i + 1 .. Len(waiters)
      BY <1>1, <2>1, <3>2
    <3> QED BY <2>2, <3>1, <3>3
  <2> QED BY <2>1, <2>2, <2>3
<1>4. ASSUME PendingAt = {}, waiters' = <<>>, queue' = Append(queue, s), UNCHANGED <<fut, handoff>>
      PROVE  /\ queue' \in Seq(Streams) /\ waiters' \in Seq(Callers)
             /\ \A b \in Callers : fut[b] # "pending"
             /\ Added(queue', queue, s)
  BY <1>2, <1>4, AppendAdds, EmptySeq DEF TypeOK
<1>5. CASE PendingAt = {} /\ waiters' = <<>> /\ queue' = Append(queue, s) /\ UNCHANGED <<fut, handoff>>
  BY <1>4, <1>5
<1>6. CASE \E i \in PendingAt :
             /\ \A j \in PendingAt : i <= j
             /\ waiters' = SubSeq(waiters, i + 1, Len(waiters))
             /\ fut' = [fut EXCEPT ![waiters[i]] = "result"]
             /\ handoff' = [handoff EXCEPT ![waiters[i]] = {s}]
             /\ UNCHANGED queue
  <2>1. PICK i \in PendingAt :
          /\ \A j \in PendingAt : i <= j
          /\ waiters' = SubSeq(waiters, i + 1, Len(waiters))
          /\ fut' = [fut EXCEPT ![waiters[i]] = "result"]
          /\ handoff' = [handoff EXCEPT ![waiters[i]] = {s}]
          /\ UNCHANGED queue
    BY <1>6
  <2>2. /\ waiters' \in Seq(Callers) /\ waiters[i] \in Callers /\ fut[waiters[i]] = "pending"
        /\ \A b \in Callers : fut[b] = "pending" /\ b # waiters[i] => b \in ToSet(waiters')
    BY <1>3, <2>1
  <2> QED BY <2>1, <2>2 DEF TypeOK
<1> QED BY <1>5, <1>6 DEF Put

\* get() on an empty queue raises, or joins the waiters.
WaitEffect(a) ==
  /\ waiters' \in Seq(Callers)
  /\ \A b \in ToSet(waiters) : b \in ToSet(waiters')
  /\ \/ /\ closed /\ pc' = [pc EXCEPT ![a] = "ended"]
        /\ fut' = [fut EXCEPT ![a] = "none"]
     \/ /\ ~closed /\ a \in ToSet(waiters')
        /\ pc' = [pc EXCEPT ![a] = "waiting"]
        /\ fut' = [fut EXCEPT ![a] = "pending"]

LEMMA RaiseOrWaitCases ==
  ASSUME TypeOK, NEW a \in Callers, RaiseOrWait(a)
  PROVE  WaitEffect(a)
<1>1. waiters \in Seq(Callers)
  BY DEF TypeOK
<1>2. Append(waiters, a) \in Seq(Callers) /\ ToSet(Append(waiters, a)) = ToSet(waiters) \cup {a}
  BY <1>1, AppendMembers
<1> QED BY <1>1, <1>2 DEF RaiseOrWait, WaitEffect

\* A caller that leaves takes nobody else out of the deque.
ForgetEffect(a) ==
  /\ waiters' \in Seq(Callers)
  /\ \A b \in ToSet(waiters) : b # a => b \in ToSet(waiters')

LEMMA ForgetCases ==
  ASSUME TypeOK, NEW a \in Callers, Forget(a)
  PROVE  ForgetEffect(a)
<1> USE DEF ForgetEffect
<1>1. /\ DOMAIN waiters = 1 .. Len(waiters) /\ waiters \in Seq(Callers)
  BY LenProperties DEF TypeOK
<1>2. ASSUME NEW i \in DOMAIN waiters, waiters[i] = a, waiters' = RemoveAt(waiters, i)
      PROVE  /\ waiters' \in Seq(Callers)
             /\ \A b \in ToSet(waiters) : b # a => b \in ToSet(waiters')
  <2>1. /\ RemoveAt(waiters, i) \in Seq(Callers)
        /\ \A j \in 1 .. Len(waiters) : j # i => waiters[j] \in ToSet(RemoveAt(waiters, i))
    BY <1>1, <1>2, RemoveAtMembers
  <2>2. ASSUME NEW b \in ToSet(waiters), b # a PROVE b \in ToSet(waiters')
    <3>1. PICK j \in 1 .. Len(waiters) : waiters[j] = b
      BY <1>1, <2>2 DEF ToSet
    <3> QED BY <1>2, <2>1, <2>2, <3>1
  <2> QED BY <1>2, <2>1, <2>2
<1>3. CASE \E i \in DOMAIN waiters : waiters[i] = a /\ waiters' = RemoveAt(waiters, i)
  BY <1>2, <1>3
<1>4. CASE UNCHANGED waiters
  BY <1>1, <1>4
<1> QED BY <1>3, <1>4 DEF Forget

\* accept() takes the head of the queue.
HeadEffect(s) == queue' \in Seq(Streams) /\ InQueue(1, s) /\ Shifted(queue', queue)

LEMMA TakeHead ==
  ASSUME TypeOK, queue # <<>>, queue' = Tail(queue)
  PROVE  Head(queue) \in Streams /\ HeadEffect(Head(queue))
BY TailShifts DEF TypeOK, InQueue, HeadEffect

\* forward_to() starts a relay for the stream it was handed and for every
\* queued one.
Taken(s, taken) == s \in taken \/ \E i \in Nat : InQueue(i, s)

ForwardEffect(a, taken) ==
  /\ relay' \in [Streams -> {"none", "created", "dialing", "copying", "closing", "done"}]
  /\ \A s \in Streams : relay'[s] = IF Taken(s, taken) THEN "created" ELSE relay[s]
  /\ forwarded' \subseteq Streams
  /\ \A s \in Streams : s \in forwarded' <=> s \in forwarded \/ Taken(s, taken)
  /\ queue' = <<>> /\ <<>> \in Seq(Streams) /\ WaitEffect(a) /\ UNCHANGED relayCancel

LEMMA ForwardCases ==
  ASSUME TypeOK, NEW a \in Callers, NEW taken \in SUBSET Streams, ForwardAll(a, taken)
  PROVE  ForwardEffect(a, taken)
<1>1. ToSet(queue) \subseteq Streams /\ \A s : s \in ToSet(queue) <=> \E i \in Nat : InQueue(i, s)
  BY MemberAt DEF TypeOK, InQueue
<1>2. /\ relay' = [s \in Streams |-> IF s \in taken \cup ToSet(queue) THEN "created" ELSE relay[s]]
      /\ forwarded' = forwarded \cup (taken \cup ToSet(queue))
      /\ queue' = <<>> /\ RaiseOrWait(a) /\ UNCHANGED relayCancel
  BY DEF ForwardAll
<1>3. \A s \in Streams : s \in taken \cup ToSet(queue) <=> Taken(s, taken)
  BY <1>1 DEF Taken
<1>4. relay' \in [Streams -> {"none", "created", "dialing", "copying", "closing", "done"}]
  BY <1>2 DEF TypeOK
<1>5. \A s \in Streams : relay'[s] = IF Taken(s, taken) THEN "created" ELSE relay[s]
  BY <1>2, <1>3
<1>6. /\ forwarded' \subseteq Streams
      /\ \A s \in Streams : s \in forwarded' <=> s \in forwarded \/ Taken(s, taken)
  BY <1>1, <1>2, <1>3 DEF TypeOK
<1> QED BY <1>2, <1>4, <1>5, <1>6, EmptySeq, RaiseOrWaitCases DEF ForwardEffect

\* on_close() closes what is queued and, if it is hard, every forward task; only
\* the first one touches the queue.
CloseEffect(error, preserve) ==
  /\ hardClosed' = (hardClosed \/ ~preserve) /\ hardClosed' \in BOOLEAN
  /\ sclosed' \subseteq Streams
  /\ \A s \in Streams : s \in sclosed' <=>
       s \in sclosed \/ (\E i \in Nat : InQueue(i, s)) \/ (~preserve /\ s \in forwarded)
  /\ relayCancel' \subseteq Streams
  /\ \/ closed /\ UNCHANGED <<queueVars, fut>>
     \/ /\ ~closed /\ closeErr' = error /\ queue' = <<>> /\ waiters' = <<>>
        /\ <<>> \in Seq(Streams) /\ <<>> \in Seq(Callers)
        /\ fut' = [a \in Callers |-> IF fut[a] = "pending" THEN "error" ELSE fut[a]]

LEMMA OnCloseCases ==
  ASSUME TypeOK, NEW error \in {"tunnel", "control"}, NEW preserve \in BOOLEAN,
         OnClose(error, preserve)
  PROVE  CloseEffect(error, preserve)
<1> USE DEF CloseEffect
<1>1. ToSet(queue) \subseteq Streams /\ \A s : s \in ToSet(queue) <=> \E i \in Nat : InQueue(i, s)
  BY MemberAt DEF TypeOK, InQueue
<1>2. /\ hardClosed' = (hardClosed \/ ~preserve)
      /\ sclosed' = sclosed \cup ToSet(queue) \cup (IF preserve THEN {} ELSE forwarded)
      /\ relayCancel' = IF preserve THEN relayCancel
                        ELSE relayCancel \cup {s \in forwarded : RelayActive(s)}
  BY DEF OnClose
<1>3. sclosed' \subseteq Streams /\ relayCancel' \subseteq Streams
  BY <1>1, <1>2 DEF TypeOK
<1>4. \A s \in Streams : s \in sclosed' <=>
        s \in sclosed \/ (\E i \in Nat : InQueue(i, s)) \/ (~preserve /\ s \in forwarded)
  BY <1>1, <1>2
<1>5. CASE closed
  BY <1>2, <1>3, <1>4, <1>5 DEF OnClose, TypeOK
<1>6. CASE ~closed
  BY <1>2, <1>3, <1>4, <1>6, EmptySeq DEF OnClose, CloseQueue, TypeOK
<1> QED BY <1>5, <1>6

-----------------------------------------------------------------------------
LEMMA InitIInv == Init => IInv
<1> SUFFICES ASSUME Init PROVE IInv
  OBVIOUS
<1>1. <<>> \in Seq(Streams) /\ <<>> \in Seq(Callers)
  BY EmptySeq
<1>2. TypeOK
  BY <1>1 DEF Init, TypeOK
<1>3. NothingStranded /\ HandoffInv /\ RelayInv /\ CloseInv
  BY DEF Init, NothingStranded, HandoffInv, RelayInv, RelayActive, CloseInv, closed
<1>4. FreshInv /\ OwnerInv
  BY EmptyAt DEF Init, FreshInv, OwnerInv, OnePlace, SomePlace, InQueue, RelayActive
<1> QED BY <1>2, <1>3, <1>4 DEF IInv

\* The parts of TypeOK.
DequeTypes == queue \in Seq(Streams) /\ waiters \in Seq(Callers) /\ closeErr \in {"none", "tunnel", "control"}
CallerTypes ==
  /\ pc \in [Callers -> {"idle", "waiting", "ended"}]
  /\ held \in [Callers -> SUBSET Streams]
  /\ mustCancel \subseteq Callers /\ dropped \subseteq Streams
HandoffTypes == handoff \in [Callers -> SUBSET Streams]
FutureTypes == fut \in [Callers -> {"none", "pending", "result", "error", "cancelled"}]
FutureOfWaiting == \A a \in Callers : fut[a] # "none" <=> pc[a] = "waiting"
OtherTypes ==
  /\ hardClosed \in BOOLEAN /\ offered \subseteq Streams /\ sclosed \subseteq Streams
  /\ relay \in [Streams -> {"none", "created", "dialing", "copying", "closing", "done"}]
  /\ relayCancel \subseteq Streams /\ forwarded \subseteq Streams
  /\ closer \in [Closers -> {"idle", "requested", "gathering", "returned", "failed"}]
  /\ awaited \in [Closers -> SUBSET Streams]

\* Every step keeps the types.
LEMMA StepKeepsTypes ==
  ASSUME TypeOK, NothingStranded, [Next]_vars
  PROVE  TypeOK'
<1> USE TunnelAssumption DEF TypeOK, DequeTypes, CallerTypes, HandoffTypes, FutureTypes,
       FutureOfWaiting, OtherTypes, queueVars, callerVars, relayVars, closerVars
<1>1. ASSUME NEW s \in Streams, Deliver(s) PROVE TypeOK'
  <2>1. CASE closed
    BY <1>1, <2>1 DEF Deliver
  <2>2. CASE ~closed
    <3>1. PutEffect(s)
      BY <1>1, <2>2, PutCases DEF Deliver
    <3>2. DequeTypes' /\ CallerTypes' /\ OtherTypes'
      BY <1>1, <2>2, <3>1 DEF Deliver, PutEffect, Added
    <3>3. HandoffTypes'
      BY <3>1, SMTT(30) DEF PutEffect
    <3>4. FutureTypes'
      BY <3>1 DEF PutEffect
    <3>5. FutureOfWaiting'
      BY <1>1, <2>2, <3>1 DEF Deliver, PutEffect, Added
    <3> QED BY <3>2, <3>3, <3>4, <3>5
  <2> QED BY <2>1, <2>2
<1>2. ASSUME NEW s \in Streams, PumpEnds(s) PROVE TypeOK'
  BY <1>2 DEF PumpEnds, RelayVarsOnly
<1>3. ASSUME NEW s \in Streams, RelayStart(s) PROVE TypeOK'
  BY <1>3 DEF RelayStart, RelayVarsOnly
<1>4. ASSUME NEW s \in Streams, RelayDialed(s) PROVE TypeOK'
  BY <1>4 DEF RelayDialed, RelayVarsOnly
<1>5. ASSUME NEW s \in Streams, RelayDialFails(s) PROVE TypeOK'
  BY <1>5 DEF RelayDialFails, RelayVarsOnly
<1>6. ASSUME NEW s \in Streams, RelayFinally(s) PROVE TypeOK'
  BY <1>6 DEF RelayFinally, RelayVarsOnly
<1>7. ASSUME NEW s \in Streams, RelayDone(s) PROVE TypeOK'
  BY <1>7 DEF RelayDone, RelayVarsOnly
<1>8. ASSUME NEW s \in Streams, RelayReaped(s) PROVE TypeOK'
  BY <1>8 DEF RelayReaped, RelayVarsOnly
<1>9. ASSUME NEW a \in Callers, Accept(a) PROVE TypeOK'
  <2>1. CASE queue # <<>>
    <3>1. Head(queue) \in Streams /\ HeadEffect(Head(queue))
      BY <1>9, <2>1, TakeHead DEF Accept
    <3>2. DequeTypes'
      BY <1>9, <2>1, <3>1 DEF Accept, HeadEffect, Shifted
    <3>3. CallerTypes'
      BY <1>9, <2>1, <3>1 DEF Accept, HeadEffect, Shifted
    <3>4. HandoffTypes'
      BY <1>9, <2>1, <3>1 DEF Accept, HeadEffect, Shifted
    <3>5. FutureTypes'
      BY <1>9, <2>1, <3>1 DEF Accept, HeadEffect, Shifted
    <3>6. FutureOfWaiting'
      BY <1>9, <2>1, <3>1 DEF Accept, HeadEffect, Shifted
    <3>7. OtherTypes'
      BY <1>9, <2>1, <3>1 DEF Accept, HeadEffect, Shifted
    <3> QED BY <3>2, <3>3, <3>4, <3>5, <3>6, <3>7
  <2>2. CASE queue = <<>>
    <3>1. WaitEffect(a)
      BY <1>9, <2>2, RaiseOrWaitCases DEF Accept
    <3>2. DequeTypes'
      BY <1>9, <2>2, <3>1 DEF Accept, WaitEffect
    <3>3. CallerTypes'
      BY <1>9, <2>2, <3>1 DEF Accept, WaitEffect
    <3>4. HandoffTypes'
      BY <1>9, <2>2, <3>1 DEF Accept, WaitEffect
    <3>5. FutureTypes'
      BY <1>9, <2>2, <3>1 DEF Accept, WaitEffect
    <3>6. FutureOfWaiting'
      BY <1>9, <2>2, <3>1 DEF Accept, WaitEffect
    <3>7. OtherTypes'
      BY <1>9, <2>2, <3>1 DEF Accept, WaitEffect
    <3> QED BY <3>2, <3>3, <3>4, <3>5, <3>6, <3>7
  <2> QED BY <2>1, <2>2
<1>10. ASSUME NEW a \in Callers, Forward(a) PROVE TypeOK'
  <2>1. ForwardEffect(a, {})
    BY <1>10, ForwardCases DEF Forward
  <2>2. DequeTypes'
    BY <1>10, <2>1 DEF Forward, ForwardEffect, Taken, WaitEffect
  <2>3. CallerTypes'
    BY <1>10, <2>1 DEF Forward, ForwardEffect, Taken, WaitEffect
  <2>4. HandoffTypes'
    BY <1>10, <2>1 DEF Forward, ForwardEffect, Taken, WaitEffect
  <2>5. FutureTypes'
    BY <1>10, <2>1 DEF Forward, ForwardEffect, Taken, WaitEffect
  <2>6. FutureOfWaiting'
    BY <1>10, <2>1 DEF Forward, ForwardEffect, Taken, WaitEffect
  <2>7. OtherTypes'
    BY <1>10, <2>1 DEF Forward, ForwardEffect, Taken, WaitEffect
  <2> QED BY <2>2, <2>3, <2>4, <2>5, <2>6, <2>7
<1>11. ASSUME NEW a \in Callers, Resume(a), ResumeCancelled(a) PROVE TypeOK'
  <2>1. ForgetEffect(a)
    BY <1>11, ForgetCases DEF ResumeCancelled
  <2>2. DequeTypes'
    BY <1>11, <2>1 DEF Resume, ResumeCancelled, ForgetEffect
  <2>3. CallerTypes'
    BY <1>11, <2>1 DEF Resume, ResumeCancelled, ForgetEffect
  <2>4. HandoffTypes'
    BY <1>11, <2>1 DEF Resume, ResumeCancelled, ForgetEffect
  <2>5. FutureTypes'
    BY <1>11, <2>1 DEF Resume, ResumeCancelled, ForgetEffect
  <2>6. FutureOfWaiting'
    BY <1>11, <2>1 DEF Resume, ResumeCancelled, ForgetEffect
  <2>7. OtherTypes'
    BY <1>11, <2>1 DEF Resume, ResumeCancelled, ForgetEffect
  <2> QED BY <2>2, <2>3, <2>4, <2>5, <2>6, <2>7
<1>12. ASSUME NEW a \in Callers, Resume(a), ResumeWithStream(a) PROVE TypeOK'
  <2>1. CASE hardClosed
    <3>1. DequeTypes' /\ OtherTypes'
      BY <1>12, <2>1 DEF Resume, ResumeWithStream
    <3>2. CallerTypes' /\ HandoffTypes'
      BY <1>12, <2>1 DEF Resume, ResumeWithStream
    <3>3. FutureTypes'
      BY <1>12, <2>1 DEF Resume, ResumeWithStream
    <3>4. FutureOfWaiting'
      BY <1>12, <2>1 DEF Resume, ResumeWithStream
    <3> QED BY <3>1, <3>2, <3>3, <3>4
  <2>2. CASE ~hardClosed /\ a \in Acceptors
    BY <1>12, <2>2 DEF Resume, ResumeWithStream
  <2>3. CASE ~hardClosed /\ a \notin Acceptors
    <3>1. ForwardEffect(a, handoff[a])
      BY <1>12, <2>3, ForwardCases DEF ResumeWithStream, TypeOK
    <3>2. DequeTypes'
      BY <1>12, <2>3, <3>1 DEF Resume, ResumeWithStream, ForwardEffect, Taken, WaitEffect
    <3>3. CallerTypes'
      BY <1>12, <2>3, <3>1 DEF Resume, ResumeWithStream, ForwardEffect, Taken, WaitEffect
    <3>4. HandoffTypes'
      BY <1>12, <2>3, <3>1 DEF Resume, ResumeWithStream, ForwardEffect, Taken, WaitEffect
    <3>5. FutureTypes'
      BY <1>12, <2>3, <3>1 DEF Resume, ResumeWithStream, ForwardEffect, Taken, WaitEffect
    <3>6. FutureOfWaiting'
      BY <1>12, <2>3, <3>1 DEF Resume, ResumeWithStream, ForwardEffect, Taken, WaitEffect
    <3>7. OtherTypes'
      BY <1>12, <2>3, <3>1 DEF Resume, ResumeWithStream, ForwardEffect, Taken, WaitEffect
    <3> QED BY <3>2, <3>3, <3>4, <3>5, <3>6, <3>7
  <2> QED BY <2>1, <2>2, <2>3
<1>13. ASSUME NEW a \in Callers, Resume(a), ResumeWithError(a) PROVE TypeOK'
  BY <1>13 DEF Resume, ResumeWithError
<1>14. ASSUME NEW a \in Callers, Cancel(a) PROVE TypeOK'
  BY <1>14 DEF Cancel
<1>15. ASSUME NEW a \in Callers, NEW s \in Streams, CloseStream(a, s) PROVE TypeOK'
  BY <1>15 DEF CloseStream
<1>16. ASSUME NEW preserve \in BOOLEAN, ControlFinish(preserve) PROVE TypeOK'
  <2>1. CloseEffect("control", preserve)
    BY <1>16, OnCloseCases DEF ControlFinish
  <2>2. DequeTypes'
    BY <1>16, <2>1 DEF ControlFinish, OnCloseFrame, CloseEffect
  <2>3. CallerTypes'
    BY <1>16, <2>1 DEF ControlFinish, OnCloseFrame, CloseEffect
  <2>4. HandoffTypes'
    BY <1>16, <2>1 DEF ControlFinish, OnCloseFrame, CloseEffect
  <2>5. FutureTypes'
    BY <1>16, <2>1 DEF ControlFinish, OnCloseFrame, CloseEffect
  <2>6. FutureOfWaiting'
    BY <1>16, <2>1 DEF ControlFinish, OnCloseFrame, CloseEffect
  <2>7. OtherTypes'
    BY <1>16, <2>1 DEF ControlFinish, OnCloseFrame, CloseEffect
  <2> QED BY <2>2, <2>3, <2>4, <2>5, <2>6, <2>7
<1>17. ASSUME CloseTunnelRsp PROVE TypeOK'
  <2>1. CloseEffect("tunnel", FALSE)
    BY <1>17, OnCloseCases DEF CloseTunnelRsp
  <2>2. DequeTypes'
    BY <1>17, <2>1 DEF CloseTunnelRsp, OnCloseFrame, CloseEffect
  <2>3. CallerTypes'
    BY <1>17, <2>1 DEF CloseTunnelRsp, OnCloseFrame, CloseEffect
  <2>4. HandoffTypes'
    BY <1>17, <2>1 DEF CloseTunnelRsp, OnCloseFrame, CloseEffect
  <2>5. FutureTypes'
    BY <1>17, <2>1 DEF CloseTunnelRsp, OnCloseFrame, CloseEffect
  <2>6. FutureOfWaiting'
    BY <1>17, <2>1 DEF CloseTunnelRsp, OnCloseFrame, CloseEffect
  <2>7. OtherTypes'
    BY <1>17, <2>1 DEF CloseTunnelRsp, OnCloseFrame, CloseEffect
  <2> QED BY <2>2, <2>3, <2>4, <2>5, <2>6, <2>7
<1>18. ASSUME NEW k \in Closers, CloseBegin(k) PROVE TypeOK'
  <2>1. CASE closed
    <3>1. CloseEffect("tunnel", FALSE)
      BY <1>18, <2>1, OnCloseCases DEF CloseBegin
    <3>2. DequeTypes'
      BY <1>18, <2>1, <3>1 DEF CloseBegin, GatherForwarders, OnCloseFrame, CloseEffect
    <3>3. CallerTypes'
      BY <1>18, <2>1, <3>1 DEF CloseBegin, GatherForwarders, OnCloseFrame, CloseEffect
    <3>4. HandoffTypes'
      BY <1>18, <2>1, <3>1 DEF CloseBegin, GatherForwarders, OnCloseFrame, CloseEffect
    <3>5. FutureTypes'
      BY <1>18, <2>1, <3>1 DEF CloseBegin, GatherForwarders, OnCloseFrame, CloseEffect
    <3>6. FutureOfWaiting'
      BY <1>18, <2>1, <3>1 DEF CloseBegin, GatherForwarders, OnCloseFrame, CloseEffect
    <3>7. OtherTypes'
      BY <1>18, <2>1, <3>1 DEF CloseBegin, GatherForwarders, OnCloseFrame, CloseEffect
    <3> QED BY <3>2, <3>3, <3>4, <3>5, <3>6, <3>7
  <2>2. CASE ~closed
    BY <1>18, <2>2 DEF CloseBegin, OnCloseFrame
  <2> QED BY <2>1, <2>2
<1>19. ASSUME NEW k \in Closers, CloseConfirmed(k) PROVE TypeOK'
  BY <1>19 DEF CloseConfirmed, GatherForwarders
<1>20. ASSUME NEW k \in Closers, CloseFails(k) PROVE TypeOK'
  BY <1>20 DEF CloseFails
<1>21. ASSUME NEW k \in Closers, CloseCancelled(k) PROVE TypeOK'
  BY <1>21 DEF CloseCancelled
<1>22. ASSUME NEW k \in Closers, CloseReturns(k) PROVE TypeOK'
  BY <1>22 DEF CloseReturns
<1>23. CASE UNCHANGED vars
  BY <1>23 DEF vars
<1> QED BY <1>1, <1>2, <1>3, <1>4, <1>5, <1>6, <1>7, <1>8,
            <1>9, <1>10, <1>11, <1>12, <1>13, <1>14, <1>15, <1>16,
            <1>17, <1>18, <1>19, <1>20, <1>21, <1>22, <1>23 DEF Next, Relay, Resume

\* No step strands a waiter or a queued stream.
LEMMA StepKeepsWaiters ==
  ASSUME TypeOK, NothingStranded, [Next]_vars
  PROVE  NothingStranded'
<1> USE TunnelAssumption DEF TypeOK, NothingStranded, closed, queueVars, callerVars, relayVars,
       closerVars
<1>1. ASSUME NEW s \in Streams, Deliver(s) PROVE NothingStranded'
  <2>1. CASE closed
    BY <1>1, <2>1 DEF Deliver
  <2>2. CASE ~closed
    <3>1. PutEffect(s)
      BY <1>1, <2>2, PutCases DEF Deliver
    <3> QED BY <1>1, <2>2, <3>1 DEF Deliver, PutEffect, Added
  <2> QED BY <2>1, <2>2
<1>2. ASSUME NEW s \in Streams, PumpEnds(s) PROVE NothingStranded'
  BY <1>2 DEF PumpEnds, RelayVarsOnly
<1>3. ASSUME NEW s \in Streams, RelayStart(s) PROVE NothingStranded'
  BY <1>3 DEF RelayStart, RelayVarsOnly
<1>4. ASSUME NEW s \in Streams, RelayDialed(s) PROVE NothingStranded'
  BY <1>4 DEF RelayDialed, RelayVarsOnly
<1>5. ASSUME NEW s \in Streams, RelayDialFails(s) PROVE NothingStranded'
  BY <1>5 DEF RelayDialFails, RelayVarsOnly
<1>6. ASSUME NEW s \in Streams, RelayFinally(s) PROVE NothingStranded'
  BY <1>6 DEF RelayFinally, RelayVarsOnly
<1>7. ASSUME NEW s \in Streams, RelayDone(s) PROVE NothingStranded'
  BY <1>7 DEF RelayDone, RelayVarsOnly
<1>8. ASSUME NEW s \in Streams, RelayReaped(s) PROVE NothingStranded'
  BY <1>8 DEF RelayReaped, RelayVarsOnly
<1>9. ASSUME NEW a \in Callers, Accept(a) PROVE NothingStranded'
  <2>1. CASE queue # <<>>
    <3>1. Head(queue) \in Streams /\ HeadEffect(Head(queue))
      BY <1>9, <2>1, TakeHead DEF Accept
    <3> QED BY <1>9, <2>1, <3>1 DEF Accept, HeadEffect, Shifted
  <2>2. CASE queue = <<>>
    <3>1. WaitEffect(a)
      BY <1>9, <2>2, RaiseOrWaitCases DEF Accept
    <3> QED BY <1>9, <2>2, <3>1 DEF Accept, WaitEffect
  <2> QED BY <2>1, <2>2
<1>10. ASSUME NEW a \in Callers, Forward(a) PROVE NothingStranded'
  <2>1. ForwardEffect(a, {})
    BY <1>10, ForwardCases DEF Forward
  <2> QED BY <1>10, <2>1 DEF Forward, ForwardEffect, Taken, WaitEffect
<1>11. ASSUME NEW a \in Callers, Resume(a), ResumeCancelled(a) PROVE NothingStranded'
  <2>1. ForgetEffect(a)
    BY <1>11, ForgetCases DEF ResumeCancelled
  <2> QED BY <1>11, <2>1 DEF Resume, ResumeCancelled, ForgetEffect
<1>12. ASSUME NEW a \in Callers, Resume(a), ResumeWithStream(a) PROVE NothingStranded'
  <2>1. CASE hardClosed
    BY <1>12, <2>1 DEF Resume, ResumeWithStream
  <2>2. CASE ~hardClosed /\ a \in Acceptors
    BY <1>12, <2>2 DEF Resume, ResumeWithStream
  <2>3. CASE ~hardClosed /\ a \notin Acceptors
    <3>1. ForwardEffect(a, handoff[a])
      BY <1>12, <2>3, ForwardCases DEF ResumeWithStream, TypeOK
    <3> QED BY <1>12, <2>3, <3>1 DEF Resume, ResumeWithStream, ForwardEffect, Taken, WaitEffect
  <2> QED BY <2>1, <2>2, <2>3
<1>13. ASSUME NEW a \in Callers, Resume(a), ResumeWithError(a) PROVE NothingStranded'
  BY <1>13 DEF Resume, ResumeWithError
<1>14. ASSUME NEW a \in Callers, Cancel(a) PROVE NothingStranded'
  BY <1>14 DEF Cancel
<1>15. ASSUME NEW a \in Callers, NEW s \in Streams, CloseStream(a, s) PROVE NothingStranded'
  BY <1>15 DEF CloseStream
<1>16. ASSUME NEW preserve \in BOOLEAN, ControlFinish(preserve) PROVE NothingStranded'
  <2>1. CloseEffect("control", preserve)
    BY <1>16, OnCloseCases DEF ControlFinish
  <2> QED BY <1>16, <2>1 DEF ControlFinish, OnCloseFrame, CloseEffect
<1>17. ASSUME CloseTunnelRsp PROVE NothingStranded'
  <2>1. CloseEffect("tunnel", FALSE)
    BY <1>17, OnCloseCases DEF CloseTunnelRsp
  <2> QED BY <1>17, <2>1 DEF CloseTunnelRsp, OnCloseFrame, CloseEffect
<1>18. ASSUME NEW k \in Closers, CloseBegin(k) PROVE NothingStranded'
  <2>1. CASE closed
    <3>1. CloseEffect("tunnel", FALSE)
      BY <1>18, <2>1, OnCloseCases DEF CloseBegin
    <3> QED BY <1>18, <2>1, <3>1 DEF CloseBegin, GatherForwarders, OnCloseFrame, CloseEffect
  <2>2. CASE ~closed
    BY <1>18, <2>2 DEF CloseBegin, OnCloseFrame
  <2> QED BY <2>1, <2>2
<1>19. ASSUME NEW k \in Closers, CloseConfirmed(k) PROVE NothingStranded'
  BY <1>19 DEF CloseConfirmed, GatherForwarders
<1>20. ASSUME NEW k \in Closers, CloseFails(k) PROVE NothingStranded'
  BY <1>20 DEF CloseFails
<1>21. ASSUME NEW k \in Closers, CloseCancelled(k) PROVE NothingStranded'
  BY <1>21 DEF CloseCancelled
<1>22. ASSUME NEW k \in Closers, CloseReturns(k) PROVE NothingStranded'
  BY <1>22 DEF CloseReturns
<1>23. CASE UNCHANGED vars
  BY <1>23 DEF vars
<1> QED BY <1>1, <1>2, <1>3, <1>4, <1>5, <1>6, <1>7, <1>8,
            <1>9, <1>10, <1>11, <1>12, <1>13, <1>14, <1>15, <1>16,
            <1>17, <1>18, <1>19, <1>20, <1>21, <1>22, <1>23 DEF Next, Relay, Resume

\* A stream is handed to a future that gets its result in the same step.
LEMMA StepKeepsHandoffs ==
  ASSUME TypeOK, NothingStranded, HandoffInv, [Next]_vars
  PROVE  HandoffInv'
<1> USE TunnelAssumption DEF TypeOK, HandoffInv, queueVars, callerVars, relayVars, closerVars
<1>1. ASSUME NEW s \in Streams, Deliver(s) PROVE HandoffInv'
  <2>1. CASE closed
    BY <1>1, <2>1 DEF Deliver
  <2>2. CASE ~closed
    <3>1. PutEffect(s)
      BY <1>1, <2>2, PutCases DEF Deliver
    <3>2. ASSUME NEW a \in Callers, fut[a] = "pending", fut' = [fut EXCEPT ![a] = "result"],
                 handoff' = [handoff EXCEPT ![a] = {s}]
          PROVE  HandoffInv'
      BY <3>2
    <3>3. CASE UNCHANGED <<fut, handoff>>
      BY <3>3
    <3> QED BY <3>1, <3>2, <3>3 DEF PutEffect
  <2> QED BY <2>1, <2>2
<1>2. ASSUME NEW s \in Streams, PumpEnds(s) PROVE HandoffInv'
  BY <1>2 DEF PumpEnds, RelayVarsOnly
<1>3. ASSUME NEW s \in Streams, RelayStart(s) PROVE HandoffInv'
  BY <1>3 DEF RelayStart, RelayVarsOnly
<1>4. ASSUME NEW s \in Streams, RelayDialed(s) PROVE HandoffInv'
  BY <1>4 DEF RelayDialed, RelayVarsOnly
<1>5. ASSUME NEW s \in Streams, RelayDialFails(s) PROVE HandoffInv'
  BY <1>5 DEF RelayDialFails, RelayVarsOnly
<1>6. ASSUME NEW s \in Streams, RelayFinally(s) PROVE HandoffInv'
  BY <1>6 DEF RelayFinally, RelayVarsOnly
<1>7. ASSUME NEW s \in Streams, RelayDone(s) PROVE HandoffInv'
  BY <1>7 DEF RelayDone, RelayVarsOnly
<1>8. ASSUME NEW s \in Streams, RelayReaped(s) PROVE HandoffInv'
  BY <1>8 DEF RelayReaped, RelayVarsOnly
<1>9. ASSUME NEW a \in Callers, Accept(a) PROVE HandoffInv'
  <2>1. CASE queue # <<>>
    <3>1. Head(queue) \in Streams /\ HeadEffect(Head(queue))
      BY <1>9, <2>1, TakeHead DEF Accept
    <3> QED BY <1>9, <2>1, <3>1 DEF Accept, HeadEffect, Shifted
  <2>2. CASE queue = <<>>
    <3>1. WaitEffect(a)
      BY <1>9, <2>2, RaiseOrWaitCases DEF Accept
    <3> QED BY <1>9, <2>2, <3>1 DEF Accept, WaitEffect
  <2> QED BY <2>1, <2>2
<1>10. ASSUME NEW a \in Callers, Forward(a) PROVE HandoffInv'
  <2>1. ForwardEffect(a, {})
    BY <1>10, ForwardCases DEF Forward
  <2> QED BY <1>10, <2>1 DEF Forward, ForwardEffect, Taken, WaitEffect
<1>11. ASSUME NEW a \in Callers, Resume(a), ResumeCancelled(a) PROVE HandoffInv'
  <2>1. ForgetEffect(a)
    BY <1>11, ForgetCases DEF ResumeCancelled
  <2> QED BY <1>11, <2>1 DEF Resume, ResumeCancelled, ForgetEffect
<1>12. ASSUME NEW a \in Callers, Resume(a), ResumeWithStream(a) PROVE HandoffInv'
  <2>1. CASE hardClosed
    BY <1>12, <2>1 DEF Resume, ResumeWithStream
  <2>2. CASE ~hardClosed /\ a \in Acceptors
    BY <1>12, <2>2 DEF Resume, ResumeWithStream
  <2>3. CASE ~hardClosed /\ a \notin Acceptors
    <3>1. ForwardEffect(a, handoff[a])
      BY <1>12, <2>3, ForwardCases DEF ResumeWithStream, TypeOK
    <3> QED BY <1>12, <2>3, <3>1 DEF Resume, ResumeWithStream, ForwardEffect, Taken, WaitEffect
  <2> QED BY <2>1, <2>2, <2>3
<1>13. ASSUME NEW a \in Callers, Resume(a), ResumeWithError(a) PROVE HandoffInv'
  BY <1>13 DEF Resume, ResumeWithError
<1>14. ASSUME NEW a \in Callers, Cancel(a) PROVE HandoffInv'
  BY <1>14 DEF Cancel
<1>15. ASSUME NEW a \in Callers, NEW s \in Streams, CloseStream(a, s) PROVE HandoffInv'
  BY <1>15 DEF CloseStream
<1>16. ASSUME NEW preserve \in BOOLEAN, ControlFinish(preserve) PROVE HandoffInv'
  <2>1. CloseEffect("control", preserve)
    BY <1>16, OnCloseCases DEF ControlFinish
  <2> QED BY <1>16, <2>1 DEF ControlFinish, OnCloseFrame, CloseEffect
<1>17. ASSUME CloseTunnelRsp PROVE HandoffInv'
  <2>1. CloseEffect("tunnel", FALSE)
    BY <1>17, OnCloseCases DEF CloseTunnelRsp
  <2> QED BY <1>17, <2>1 DEF CloseTunnelRsp, OnCloseFrame, CloseEffect
<1>18. ASSUME NEW k \in Closers, CloseBegin(k) PROVE HandoffInv'
  <2>1. CASE closed
    <3>1. CloseEffect("tunnel", FALSE)
      BY <1>18, <2>1, OnCloseCases DEF CloseBegin
    <3> QED BY <1>18, <2>1, <3>1 DEF CloseBegin, GatherForwarders, OnCloseFrame, CloseEffect
  <2>2. CASE ~closed
    BY <1>18, <2>2 DEF CloseBegin, OnCloseFrame
  <2> QED BY <2>1, <2>2
<1>19. ASSUME NEW k \in Closers, CloseConfirmed(k) PROVE HandoffInv'
  BY <1>19 DEF CloseConfirmed, GatherForwarders
<1>20. ASSUME NEW k \in Closers, CloseFails(k) PROVE HandoffInv'
  BY <1>20 DEF CloseFails
<1>21. ASSUME NEW k \in Closers, CloseCancelled(k) PROVE HandoffInv'
  BY <1>21 DEF CloseCancelled
<1>22. ASSUME NEW k \in Closers, CloseReturns(k) PROVE HandoffInv'
  BY <1>22 DEF CloseReturns
<1>23. CASE UNCHANGED vars
  BY <1>23 DEF vars
<1> QED BY <1>1, <1>2, <1>3, <1>4, <1>5, <1>6, <1>7, <1>8,
            <1>9, <1>10, <1>11, <1>12, <1>13, <1>14, <1>15, <1>16,
            <1>17, <1>18, <1>19, <1>20, <1>21, <1>22, <1>23 DEF Next, Relay, Resume

\* A stream appears when it is delivered.
LEMMA StepKeepsFresh ==
  ASSUME TypeOK, NothingStranded, FreshInv, [Next]_vars
  PROVE  FreshInv'
<1> USE TunnelAssumption, EmptyAt DEF TypeOK, FreshInv, closed, InQueue, queueVars, callerVars,
       relayVars, closerVars
<1>1. ASSUME NEW s \in Streams, Deliver(s) PROVE FreshInv'
  <2>1. CASE closed
    BY <1>1, <2>1 DEF Deliver
  <2>2. CASE ~closed
    <3>1. PutEffect(s)
      BY <1>1, <2>2, PutCases DEF Deliver
    <3>2. \A t \in Streams \ offered' : t \in Streams \ offered /\ t # s
      BY <1>1 DEF Deliver
    <3>3. \A t \in Streams \ offered' : \A i \in Nat : ~At(queue', i, t)
      BY <3>1, <3>2 DEF PutEffect, Added
    <3>4. \A t \in Streams \ offered' : \A a \in Callers : t \notin handoff'[a]
      BY <3>1, <3>2 DEF PutEffect
    <3> QED BY <1>1, <2>2, <3>2, <3>3, <3>4 DEF Deliver
  <2> QED BY <2>1, <2>2
<1>2. ASSUME NEW s \in Streams, PumpEnds(s) PROVE FreshInv'
  BY <1>2 DEF PumpEnds, RelayVarsOnly
<1>3. ASSUME NEW s \in Streams, RelayStart(s) PROVE FreshInv'
  BY <1>3 DEF RelayStart, RelayVarsOnly
<1>4. ASSUME NEW s \in Streams, RelayDialed(s) PROVE FreshInv'
  BY <1>4 DEF RelayDialed, RelayVarsOnly
<1>5. ASSUME NEW s \in Streams, RelayDialFails(s) PROVE FreshInv'
  BY <1>5 DEF RelayDialFails, RelayVarsOnly
<1>6. ASSUME NEW s \in Streams, RelayFinally(s) PROVE FreshInv'
  BY <1>6 DEF RelayFinally, RelayVarsOnly
<1>7. ASSUME NEW s \in Streams, RelayDone(s) PROVE FreshInv'
  BY <1>7 DEF RelayDone, RelayVarsOnly
<1>8. ASSUME NEW s \in Streams, RelayReaped(s) PROVE FreshInv'
  BY <1>8 DEF RelayReaped, RelayVarsOnly
<1>9. ASSUME NEW a \in Callers, Accept(a) PROVE FreshInv'
  <2>1. CASE queue # <<>>
    <3>1. Head(queue) \in Streams /\ HeadEffect(Head(queue))
      BY <1>9, <2>1, TakeHead DEF Accept
    <3> QED BY <1>9, <2>1, <3>1 DEF Accept, HeadEffect, Shifted
  <2>2. CASE queue = <<>>
    <3>1. WaitEffect(a)
      BY <1>9, <2>2, RaiseOrWaitCases DEF Accept
    <3> QED BY <1>9, <2>2, <3>1 DEF Accept, WaitEffect
  <2> QED BY <2>1, <2>2
<1>10. ASSUME NEW a \in Callers, Forward(a) PROVE FreshInv'
  <2>1. ForwardEffect(a, {})
    BY <1>10, ForwardCases DEF Forward
  <2> QED BY <1>10, <2>1 DEF Forward, ForwardEffect, Taken, WaitEffect
<1>11. ASSUME NEW a \in Callers, Resume(a), ResumeCancelled(a) PROVE FreshInv'
  <2>1. ForgetEffect(a)
    BY <1>11, ForgetCases DEF ResumeCancelled
  <2> QED BY <1>11, <2>1 DEF Resume, ResumeCancelled, ForgetEffect
<1>12. ASSUME NEW a \in Callers, Resume(a), ResumeWithStream(a) PROVE FreshInv'
  <2>1. CASE hardClosed
    BY <1>12, <2>1 DEF Resume, ResumeWithStream
  <2>2. CASE ~hardClosed /\ a \in Acceptors
    BY <1>12, <2>2 DEF Resume, ResumeWithStream
  <2>3. CASE ~hardClosed /\ a \notin Acceptors
    <3>1. ForwardEffect(a, handoff[a])
      BY <1>12, <2>3, ForwardCases DEF ResumeWithStream, TypeOK
    <3> QED BY <1>12, <2>3, <3>1 DEF Resume, ResumeWithStream, ForwardEffect, Taken, WaitEffect
  <2> QED BY <2>1, <2>2, <2>3
<1>13. ASSUME NEW a \in Callers, Resume(a), ResumeWithError(a) PROVE FreshInv'
  BY <1>13 DEF Resume, ResumeWithError
<1>14. ASSUME NEW a \in Callers, Cancel(a) PROVE FreshInv'
  BY <1>14 DEF Cancel
<1>15. ASSUME NEW a \in Callers, NEW s \in Streams, CloseStream(a, s) PROVE FreshInv'
  BY <1>15 DEF CloseStream
<1>16. ASSUME NEW preserve \in BOOLEAN, ControlFinish(preserve) PROVE FreshInv'
  <2>1. CloseEffect("control", preserve)
    BY <1>16, OnCloseCases DEF ControlFinish
  <2> QED BY <1>16, <2>1 DEF ControlFinish, OnCloseFrame, CloseEffect
<1>17. ASSUME CloseTunnelRsp PROVE FreshInv'
  <2>1. CloseEffect("tunnel", FALSE)
    BY <1>17, OnCloseCases DEF CloseTunnelRsp
  <2> QED BY <1>17, <2>1 DEF CloseTunnelRsp, OnCloseFrame, CloseEffect
<1>18. ASSUME NEW k \in Closers, CloseBegin(k) PROVE FreshInv'
  <2>1. CASE closed
    <3>1. CloseEffect("tunnel", FALSE)
      BY <1>18, <2>1, OnCloseCases DEF CloseBegin
    <3> QED BY <1>18, <2>1, <3>1 DEF CloseBegin, GatherForwarders, OnCloseFrame, CloseEffect
  <2>2. CASE ~closed
    BY <1>18, <2>2 DEF CloseBegin, OnCloseFrame
  <2> QED BY <2>1, <2>2
<1>19. ASSUME NEW k \in Closers, CloseConfirmed(k) PROVE FreshInv'
  BY <1>19 DEF CloseConfirmed, GatherForwarders
<1>20. ASSUME NEW k \in Closers, CloseFails(k) PROVE FreshInv'
  BY <1>20 DEF CloseFails
<1>21. ASSUME NEW k \in Closers, CloseCancelled(k) PROVE FreshInv'
  BY <1>21 DEF CloseCancelled
<1>22. ASSUME NEW k \in Closers, CloseReturns(k) PROVE FreshInv'
  BY <1>22 DEF CloseReturns
<1>23. CASE UNCHANGED vars
  BY <1>23 DEF vars
<1> QED BY <1>1, <1>2, <1>3, <1>4, <1>5, <1>6, <1>7, <1>8,
            <1>9, <1>10, <1>11, <1>12, <1>13, <1>14, <1>15, <1>16,
            <1>17, <1>18, <1>19, <1>20, <1>21, <1>22, <1>23 DEF Next, Relay, Resume

\* A stream that gets a new place leaves the one it had.
LEMMA StepKeepsOnePlace ==
  ASSUME TypeOK, NothingStranded, HandoffInv, FreshInv, OwnerInv, [Next]_vars
  PROVE  \A t \in Streams : OnePlace(t)'
<1> USE TunnelAssumption, EmptyAt DEF TypeOK, HandoffInv, FreshInv, OwnerInv, OnePlace,
       RelayActive, closed, InQueue, queueVars, callerVars, relayVars, closerVars
<1>1. ASSUME NEW s \in Streams, Deliver(s) PROVE \A t \in Streams : OnePlace(t)'
  <2>1. CASE closed
    BY <1>1, <2>1 DEF Deliver
  <2>2. CASE ~closed
    <3>1. PutEffect(s) /\ s \notin offered /\ UNCHANGED <<held, relay>>
      BY <1>1, <2>2, PutCases DEF Deliver
    <3>2. ASSUME NEW a \in Callers, fut[a] = "pending", queue' = queue,
                 handoff' = [handoff EXCEPT ![a] = {s}], NEW t \in Streams
          PROVE  OnePlace(t)'
      <4>1. handoff[a] = {} /\ \A b \in Callers : handoff'[b] = IF b = a THEN {s} ELSE handoff[b]
        BY <3>2
      <4>2. CASE t = s
        BY <3>1, <3>2, <4>1, <4>2
      <4>3. CASE t # s
        BY <3>1, <3>2, <4>1, <4>3
      <4> QED BY <4>2, <4>3
    <3>3. ASSUME Added(queue', queue, s), UNCHANGED handoff, NEW t \in Streams
          PROVE  OnePlace(t)'
      <4>1. CASE t = s
        BY <3>1, <3>3, <4>1 DEF Added
      <4>2. CASE t # s
        BY <3>1, <3>3, <4>2 DEF Added
      <4> QED BY <4>1, <4>2
    <3> QED BY <3>1, <3>2, <3>3 DEF PutEffect
  <2> QED BY <2>1, <2>2
<1>2. ASSUME NEW s \in Streams, PumpEnds(s) PROVE \A t \in Streams : OnePlace(t)'
  BY <1>2 DEF PumpEnds, RelayVarsOnly
<1>3. ASSUME NEW s \in Streams, RelayStart(s) PROVE \A t \in Streams : OnePlace(t)'
  BY <1>3 DEF RelayStart, RelayVarsOnly
<1>4. ASSUME NEW s \in Streams, RelayDialed(s) PROVE \A t \in Streams : OnePlace(t)'
  BY <1>4 DEF RelayDialed, RelayVarsOnly
<1>5. ASSUME NEW s \in Streams, RelayDialFails(s) PROVE \A t \in Streams : OnePlace(t)'
  BY <1>5 DEF RelayDialFails, RelayVarsOnly
<1>6. ASSUME NEW s \in Streams, RelayFinally(s) PROVE \A t \in Streams : OnePlace(t)'
  BY <1>6 DEF RelayFinally, RelayVarsOnly
<1>7. ASSUME NEW s \in Streams, RelayDone(s) PROVE \A t \in Streams : OnePlace(t)'
  BY <1>7 DEF RelayDone, RelayVarsOnly
<1>8. ASSUME NEW s \in Streams, RelayReaped(s) PROVE \A t \in Streams : OnePlace(t)'
  BY <1>8 DEF RelayReaped, RelayVarsOnly
<1>9. ASSUME NEW a \in Callers, Accept(a) PROVE \A t \in Streams : OnePlace(t)'
  <2>1. CASE queue # <<>>
    <3>1. PICK h \in Streams : h = Head(queue) /\ HeadEffect(h)
      BY <1>9, <2>1, TakeHead DEF Accept
    <3>2. held' = [held EXCEPT ![a] = held[a] \cup {h}] /\ UNCHANGED <<handoff, relay>>
      BY <1>9, <2>1, <3>1 DEF Accept
    <3>3. At(queue, 1, h) /\ \A i \in Nat : \A y : At(queue', i, y) <=> i # 0 /\ At(queue, i + 1, y)
      BY <3>1 DEF HeadEffect, Shifted
    <3>4. \A i \in Nat : ~At(queue', i, h)
      BY <3>3
    <3>5. ASSUME NEW t \in Streams, t # h PROVE OnePlace(t)'
      BY <3>2, <3>3, <3>5
    <3>6. OnePlace(h)'
      BY <3>2, <3>3, <3>4
    <3> QED BY <3>5, <3>6
  <2>2. CASE queue = <<>>
    <3>1. WaitEffect(a)
      BY <1>9, <2>2, RaiseOrWaitCases DEF Accept
    <3> QED BY <1>9, <2>2, <3>1 DEF Accept, WaitEffect
  <2> QED BY <2>1, <2>2
<1>10. ASSUME NEW a \in Callers, Forward(a) PROVE \A t \in Streams : OnePlace(t)'
  <2>1. ForwardEffect(a, {})
    BY <1>10, ForwardCases DEF Forward
  <2> QED BY <1>10, <2>1 DEF Forward, ForwardEffect, Taken, WaitEffect
<1>11. ASSUME NEW a \in Callers, Resume(a), ResumeCancelled(a) PROVE \A t \in Streams : OnePlace(t)'
  <2>1. ForgetEffect(a)
    BY <1>11, ForgetCases DEF ResumeCancelled
  <2> QED BY <1>11, <2>1 DEF Resume, ResumeCancelled, ForgetEffect
<1>12. ASSUME NEW a \in Callers, Resume(a), ResumeWithStream(a) PROVE \A t \in Streams :
       OnePlace(t)'
  <2>1. CASE hardClosed
    BY <1>12, <2>1 DEF Resume, ResumeWithStream
  <2>2. CASE ~hardClosed /\ a \in Acceptors
    BY <1>12, <2>2 DEF Resume, ResumeWithStream
  <2>3. CASE ~hardClosed /\ a \notin Acceptors
    <3>1. ForwardEffect(a, handoff[a])
      BY <1>12, <2>3, ForwardCases DEF ResumeWithStream, TypeOK
    <3> QED BY <1>12, <2>3, <3>1 DEF Resume, ResumeWithStream, ForwardEffect, Taken, WaitEffect
  <2> QED BY <2>1, <2>2, <2>3
<1>13. ASSUME NEW a \in Callers, Resume(a), ResumeWithError(a) PROVE \A t \in Streams : OnePlace(t)'
  BY <1>13 DEF Resume, ResumeWithError
<1>14. ASSUME NEW a \in Callers, Cancel(a) PROVE \A t \in Streams : OnePlace(t)'
  BY <1>14 DEF Cancel
<1>15. ASSUME NEW a \in Callers, NEW s \in Streams, CloseStream(a, s) PROVE \A t \in Streams :
       OnePlace(t)'
  BY <1>15 DEF CloseStream
<1>16. ASSUME NEW preserve \in BOOLEAN, ControlFinish(preserve) PROVE \A t \in Streams :
       OnePlace(t)'
  <2>1. CloseEffect("control", preserve)
    BY <1>16, OnCloseCases DEF ControlFinish
  <2> QED BY <1>16, <2>1 DEF ControlFinish, OnCloseFrame, CloseEffect
<1>17. ASSUME CloseTunnelRsp PROVE \A t \in Streams : OnePlace(t)'
  <2>1. CloseEffect("tunnel", FALSE)
    BY <1>17, OnCloseCases DEF CloseTunnelRsp
  <2> QED BY <1>17, <2>1 DEF CloseTunnelRsp, OnCloseFrame, CloseEffect
<1>18. ASSUME NEW k \in Closers, CloseBegin(k) PROVE \A t \in Streams : OnePlace(t)'
  <2>1. CASE closed
    <3>1. CloseEffect("tunnel", FALSE)
      BY <1>18, <2>1, OnCloseCases DEF CloseBegin
    <3> QED BY <1>18, <2>1, <3>1 DEF CloseBegin, GatherForwarders, OnCloseFrame, CloseEffect
  <2>2. CASE ~closed
    BY <1>18, <2>2 DEF CloseBegin, OnCloseFrame
  <2> QED BY <2>1, <2>2
<1>19. ASSUME NEW k \in Closers, CloseConfirmed(k) PROVE \A t \in Streams : OnePlace(t)'
  BY <1>19 DEF CloseConfirmed, GatherForwarders
<1>20. ASSUME NEW k \in Closers, CloseFails(k) PROVE \A t \in Streams : OnePlace(t)'
  BY <1>20 DEF CloseFails
<1>21. ASSUME NEW k \in Closers, CloseCancelled(k) PROVE \A t \in Streams : OnePlace(t)'
  BY <1>21 DEF CloseCancelled
<1>22. ASSUME NEW k \in Closers, CloseReturns(k) PROVE \A t \in Streams : OnePlace(t)'
  BY <1>22 DEF CloseReturns
<1>23. CASE UNCHANGED vars
  BY <1>23 DEF vars
<1> QED BY <1>1, <1>2, <1>3, <1>4, <1>5, <1>6, <1>7, <1>8,
            <1>9, <1>10, <1>11, <1>12, <1>13, <1>14, <1>15, <1>16,
            <1>17, <1>18, <1>19, <1>20, <1>21, <1>22, <1>23 DEF Next, Relay, Resume

\* A stream that leaves its place has a new one, is closed or is lost.
LEMMA StepKeepsSomePlace ==
  ASSUME TypeOK, NothingStranded, HandoffInv, FreshInv, OwnerInv, [Next]_vars
  PROVE  \A t \in Streams : SomePlace(t)'
<1> USE TunnelAssumption, EmptyAt DEF TypeOK, HandoffInv, FreshInv, OwnerInv, SomePlace,
       RelayActive, closed, InQueue, queueVars, callerVars, relayVars, closerVars
<1>1. ASSUME NEW s \in Streams, Deliver(s) PROVE \A t \in Streams : SomePlace(t)'
  <2>1. CASE closed
    BY <1>1, <2>1 DEF Deliver
  <2>2. CASE ~closed
    <3>1. /\ PutEffect(s) /\ s \notin offered /\ offered' = offered \cup {s}
          /\ UNCHANGED <<held, relay, sclosed, dropped>>
      BY <1>1, <2>2, PutCases DEF Deliver
    <3>2. ASSUME NEW a \in Callers, fut[a] = "pending", queue' = queue,
                 handoff' = [handoff EXCEPT ![a] = {s}], NEW t \in Streams
          PROVE  SomePlace(t)'
      <4>1. handoff[a] = {} /\ \A b \in Callers : handoff'[b] = IF b = a THEN {s} ELSE handoff[b]
        BY <3>2
      <4>2. CASE t = s
        BY <4>1, <4>2
      <4>3. CASE t # s
        BY <3>1, <3>2, <4>1, <4>3
      <4> QED BY <4>2, <4>3
    <3>3. ASSUME Added(queue', queue, s), UNCHANGED handoff, NEW t \in Streams
          PROVE  SomePlace(t)'
      <4>1. CASE t = s
        BY <3>1, <3>3, <4>1 DEF Added
      <4>2. CASE t # s
        BY <3>1, <3>3, <4>2 DEF Added
      <4> QED BY <4>1, <4>2
    <3> QED BY <3>1, <3>2, <3>3 DEF PutEffect
  <2> QED BY <2>1, <2>2
<1>2. ASSUME NEW s \in Streams, PumpEnds(s) PROVE \A t \in Streams : SomePlace(t)'
  BY <1>2 DEF PumpEnds, RelayVarsOnly
<1>3. ASSUME NEW s \in Streams, RelayStart(s) PROVE \A t \in Streams : SomePlace(t)'
  BY <1>3 DEF RelayStart, RelayVarsOnly
<1>4. ASSUME NEW s \in Streams, RelayDialed(s) PROVE \A t \in Streams : SomePlace(t)'
  BY <1>4 DEF RelayDialed, RelayVarsOnly
<1>5. ASSUME NEW s \in Streams, RelayDialFails(s) PROVE \A t \in Streams : SomePlace(t)'
  BY <1>5 DEF RelayDialFails, RelayVarsOnly
<1>6. ASSUME NEW s \in Streams, RelayFinally(s) PROVE \A t \in Streams : SomePlace(t)'
  BY <1>6 DEF RelayFinally, RelayVarsOnly
<1>7. ASSUME NEW s \in Streams, RelayDone(s) PROVE \A t \in Streams : SomePlace(t)'
  BY <1>7 DEF RelayDone, RelayVarsOnly
<1>8. ASSUME NEW s \in Streams, RelayReaped(s) PROVE \A t \in Streams : SomePlace(t)'
  BY <1>8 DEF RelayReaped, RelayVarsOnly
<1>9. ASSUME NEW a \in Callers, Accept(a) PROVE \A t \in Streams : SomePlace(t)'
  <2>1. CASE queue # <<>>
    <3>1. PICK h \in Streams : h = Head(queue) /\ HeadEffect(h)
      BY <1>9, <2>1, TakeHead DEF Accept
    <3>2. /\ held' = [held EXCEPT ![a] = held[a] \cup {h}]
          /\ UNCHANGED <<handoff, relay, offered, sclosed, dropped>>
      BY <1>9, <2>1, <3>1 DEF Accept
    <3>3. At(queue, 1, h) /\ Shifted(queue', queue)
      BY <3>1 DEF HeadEffect
    <3>4. \A t \in Streams : t # h => \A i \in Nat : At(queue, i, t) => \E j \in Nat : At(queue',
           j, t)
      BY <3>3, ShiftedKeeps
    <3>5. ASSUME NEW t \in Streams, t # h PROVE SomePlace(t)'
      BY <3>2, <3>4, <3>5
    <3>6. SomePlace(h)'
      BY <3>2
    <3> QED BY <3>5, <3>6
  <2>2. CASE queue = <<>>
    <3>1. WaitEffect(a)
      BY <1>9, <2>2, RaiseOrWaitCases DEF Accept
    <3> QED BY <1>9, <2>2, <3>1 DEF Accept, WaitEffect
  <2> QED BY <2>1, <2>2
<1>10. ASSUME NEW a \in Callers, Forward(a) PROVE \A t \in Streams : SomePlace(t)'
  <2>1. ForwardEffect(a, {})
    BY <1>10, ForwardCases DEF Forward
  <2> QED BY <1>10, <2>1 DEF Forward, ForwardEffect, Taken, WaitEffect
<1>11. ASSUME NEW a \in Callers, Resume(a), ResumeCancelled(a) PROVE \A t \in Streams :
       SomePlace(t)'
  <2>1. ForgetEffect(a)
    BY <1>11, ForgetCases DEF ResumeCancelled
  <2> QED BY <1>11, <2>1 DEF Resume, ResumeCancelled, ForgetEffect
<1>12. ASSUME NEW a \in Callers, Resume(a), ResumeWithStream(a) PROVE \A t \in Streams :
       SomePlace(t)'
  <2>1. CASE hardClosed
    BY <1>12, <2>1 DEF Resume, ResumeWithStream
  <2>2. CASE ~hardClosed /\ a \in Acceptors
    BY <1>12, <2>2 DEF Resume, ResumeWithStream
  <2>3. CASE ~hardClosed /\ a \notin Acceptors
    <3>1. ForwardEffect(a, handoff[a])
      BY <1>12, <2>3, ForwardCases DEF ResumeWithStream, TypeOK
    <3> QED BY <1>12, <2>3, <3>1 DEF Resume, ResumeWithStream, ForwardEffect, Taken, WaitEffect
  <2> QED BY <2>1, <2>2, <2>3
<1>13. ASSUME NEW a \in Callers, Resume(a), ResumeWithError(a) PROVE \A t \in Streams :
       SomePlace(t)'
  BY <1>13 DEF Resume, ResumeWithError
<1>14. ASSUME NEW a \in Callers, Cancel(a) PROVE \A t \in Streams : SomePlace(t)'
  BY <1>14 DEF Cancel
<1>15. ASSUME NEW a \in Callers, NEW s \in Streams, CloseStream(a, s) PROVE \A t \in Streams :
       SomePlace(t)'
  BY <1>15 DEF CloseStream
<1>16. ASSUME NEW preserve \in BOOLEAN, ControlFinish(preserve) PROVE \A t \in Streams :
       SomePlace(t)'
  <2>1. CloseEffect("control", preserve)
    BY <1>16, OnCloseCases DEF ControlFinish
  <2> QED BY <1>16, <2>1 DEF ControlFinish, OnCloseFrame, CloseEffect
<1>17. ASSUME CloseTunnelRsp PROVE \A t \in Streams : SomePlace(t)'
  <2>1. CloseEffect("tunnel", FALSE)
    BY <1>17, OnCloseCases DEF CloseTunnelRsp
  <2> QED BY <1>17, <2>1 DEF CloseTunnelRsp, OnCloseFrame, CloseEffect
<1>18. ASSUME NEW k \in Closers, CloseBegin(k) PROVE \A t \in Streams : SomePlace(t)'
  <2>1. CASE closed
    <3>1. CloseEffect("tunnel", FALSE)
      BY <1>18, <2>1, OnCloseCases DEF CloseBegin
    <3> QED BY <1>18, <2>1, <3>1 DEF CloseBegin, GatherForwarders, OnCloseFrame, CloseEffect
  <2>2. CASE ~closed
    BY <1>18, <2>2 DEF CloseBegin, OnCloseFrame
  <2> QED BY <2>1, <2>2
<1>19. ASSUME NEW k \in Closers, CloseConfirmed(k) PROVE \A t \in Streams : SomePlace(t)'
  BY <1>19 DEF CloseConfirmed, GatherForwarders
<1>20. ASSUME NEW k \in Closers, CloseFails(k) PROVE \A t \in Streams : SomePlace(t)'
  BY <1>20 DEF CloseFails
<1>21. ASSUME NEW k \in Closers, CloseCancelled(k) PROVE \A t \in Streams : SomePlace(t)'
  BY <1>21 DEF CloseCancelled
<1>22. ASSUME NEW k \in Closers, CloseReturns(k) PROVE \A t \in Streams : SomePlace(t)'
  BY <1>22 DEF CloseReturns
<1>23. CASE UNCHANGED vars
  BY <1>23 DEF vars
<1> QED BY <1>1, <1>2, <1>3, <1>4, <1>5, <1>6, <1>7, <1>8,
            <1>9, <1>10, <1>11, <1>12, <1>13, <1>14, <1>15, <1>16,
            <1>17, <1>18, <1>19, <1>20, <1>21, <1>22, <1>23 DEF Next, Relay, Resume

\* A relay leaves the forward tasks when it is done.
LEMMA StepKeepsRelays ==
  ASSUME TypeOK, NothingStranded, RelayInv, [Next]_vars
  PROVE  RelayInv'
<1> USE TunnelAssumption DEF TypeOK, RelayInv, RelayActive, queueVars, callerVars, relayVars,
       closerVars
<1>1. ASSUME NEW s \in Streams, Deliver(s) PROVE RelayInv'
  <2>1. CASE closed
    BY <1>1, <2>1 DEF Deliver
  <2>2. CASE ~closed
    <3>1. PutEffect(s)
      BY <1>1, <2>2, PutCases DEF Deliver
    <3> QED BY <1>1, <2>2, <3>1 DEF Deliver, PutEffect, Added
  <2> QED BY <2>1, <2>2
<1>2. ASSUME NEW s \in Streams, PumpEnds(s) PROVE RelayInv'
  BY <1>2 DEF PumpEnds, RelayVarsOnly
<1>3. ASSUME NEW s \in Streams, RelayStart(s) PROVE RelayInv'
  BY <1>3 DEF RelayStart, RelayVarsOnly
<1>4. ASSUME NEW s \in Streams, RelayDialed(s) PROVE RelayInv'
  BY <1>4 DEF RelayDialed, RelayVarsOnly
<1>5. ASSUME NEW s \in Streams, RelayDialFails(s) PROVE RelayInv'
  BY <1>5 DEF RelayDialFails, RelayVarsOnly
<1>6. ASSUME NEW s \in Streams, RelayFinally(s) PROVE RelayInv'
  BY <1>6 DEF RelayFinally, RelayVarsOnly
<1>7. ASSUME NEW s \in Streams, RelayDone(s) PROVE RelayInv'
  BY <1>7 DEF RelayDone, RelayVarsOnly
<1>8. ASSUME NEW s \in Streams, RelayReaped(s) PROVE RelayInv'
  BY <1>8 DEF RelayReaped, RelayVarsOnly
<1>9. ASSUME NEW a \in Callers, Accept(a) PROVE RelayInv'
  <2>1. CASE queue # <<>>
    <3>1. Head(queue) \in Streams /\ HeadEffect(Head(queue))
      BY <1>9, <2>1, TakeHead DEF Accept
    <3> QED BY <1>9, <2>1, <3>1 DEF Accept, HeadEffect, Shifted
  <2>2. CASE queue = <<>>
    <3>1. WaitEffect(a)
      BY <1>9, <2>2, RaiseOrWaitCases DEF Accept
    <3> QED BY <1>9, <2>2, <3>1 DEF Accept, WaitEffect
  <2> QED BY <2>1, <2>2
<1>10. ASSUME NEW a \in Callers, Forward(a) PROVE RelayInv'
  <2>1. ForwardEffect(a, {})
    BY <1>10, ForwardCases DEF Forward
  <2> QED BY <1>10, <2>1 DEF Forward, ForwardEffect, Taken, WaitEffect
<1>11. ASSUME NEW a \in Callers, Resume(a), ResumeCancelled(a) PROVE RelayInv'
  <2>1. ForgetEffect(a)
    BY <1>11, ForgetCases DEF ResumeCancelled
  <2> QED BY <1>11, <2>1 DEF Resume, ResumeCancelled, ForgetEffect
<1>12. ASSUME NEW a \in Callers, Resume(a), ResumeWithStream(a) PROVE RelayInv'
  <2>1. CASE hardClosed
    BY <1>12, <2>1 DEF Resume, ResumeWithStream
  <2>2. CASE ~hardClosed /\ a \in Acceptors
    BY <1>12, <2>2 DEF Resume, ResumeWithStream
  <2>3. CASE ~hardClosed /\ a \notin Acceptors
    <3>1. ForwardEffect(a, handoff[a])
      BY <1>12, <2>3, ForwardCases DEF ResumeWithStream, TypeOK
    <3> QED BY <1>12, <2>3, <3>1 DEF Resume, ResumeWithStream, ForwardEffect, Taken, WaitEffect
  <2> QED BY <2>1, <2>2, <2>3
<1>13. ASSUME NEW a \in Callers, Resume(a), ResumeWithError(a) PROVE RelayInv'
  BY <1>13 DEF Resume, ResumeWithError
<1>14. ASSUME NEW a \in Callers, Cancel(a) PROVE RelayInv'
  BY <1>14 DEF Cancel
<1>15. ASSUME NEW a \in Callers, NEW s \in Streams, CloseStream(a, s) PROVE RelayInv'
  BY <1>15 DEF CloseStream
<1>16. ASSUME NEW preserve \in BOOLEAN, ControlFinish(preserve) PROVE RelayInv'
  <2>1. CloseEffect("control", preserve)
    BY <1>16, OnCloseCases DEF ControlFinish
  <2> QED BY <1>16, <2>1 DEF ControlFinish, OnCloseFrame, CloseEffect
<1>17. ASSUME CloseTunnelRsp PROVE RelayInv'
  <2>1. CloseEffect("tunnel", FALSE)
    BY <1>17, OnCloseCases DEF CloseTunnelRsp
  <2> QED BY <1>17, <2>1 DEF CloseTunnelRsp, OnCloseFrame, CloseEffect
<1>18. ASSUME NEW k \in Closers, CloseBegin(k) PROVE RelayInv'
  <2>1. CASE closed
    <3>1. CloseEffect("tunnel", FALSE)
      BY <1>18, <2>1, OnCloseCases DEF CloseBegin
    <3> QED BY <1>18, <2>1, <3>1 DEF CloseBegin, GatherForwarders, OnCloseFrame, CloseEffect
  <2>2. CASE ~closed
    BY <1>18, <2>2 DEF CloseBegin, OnCloseFrame
  <2> QED BY <2>1, <2>2
<1>19. ASSUME NEW k \in Closers, CloseConfirmed(k) PROVE RelayInv'
  BY <1>19 DEF CloseConfirmed, GatherForwarders
<1>20. ASSUME NEW k \in Closers, CloseFails(k) PROVE RelayInv'
  BY <1>20 DEF CloseFails
<1>21. ASSUME NEW k \in Closers, CloseCancelled(k) PROVE RelayInv'
  BY <1>21 DEF CloseCancelled
<1>22. ASSUME NEW k \in Closers, CloseReturns(k) PROVE RelayInv'
  BY <1>22 DEF CloseReturns
<1>23. CASE UNCHANGED vars
  BY <1>23 DEF vars
<1> QED BY <1>1, <1>2, <1>3, <1>4, <1>5, <1>6, <1>7, <1>8,
            <1>9, <1>10, <1>11, <1>12, <1>13, <1>14, <1>15, <1>16,
            <1>17, <1>18, <1>19, <1>20, <1>21, <1>22, <1>23 DEF Next, Relay, Resume

\* What a hard close reached stays reached.
LEMMA StepKeepsCloses ==
  ASSUME TypeOK, NothingStranded, RelayInv, CloseInv, [Next]_vars
  PROVE  CloseInv'
<1> USE TunnelAssumption, EmptyAt DEF TypeOK, RelayInv, RelayActive, CloseInv, closed, InQueue,
       queueVars, callerVars, relayVars, closerVars
<1>1. ASSUME NEW s \in Streams, Deliver(s) PROVE CloseInv'
  <2>1. CASE closed
    BY <1>1, <2>1 DEF Deliver
  <2>2. CASE ~closed
    <3>1. PutEffect(s)
      BY <1>1, <2>2, PutCases DEF Deliver
    <3> QED BY <1>1, <2>2, <3>1 DEF Deliver, PutEffect, Added
  <2> QED BY <2>1, <2>2
<1>2. ASSUME NEW s \in Streams, PumpEnds(s) PROVE CloseInv'
  BY <1>2 DEF PumpEnds, RelayVarsOnly
<1>3. ASSUME NEW s \in Streams, RelayStart(s) PROVE CloseInv'
  BY <1>3 DEF RelayStart, RelayVarsOnly
<1>4. ASSUME NEW s \in Streams, RelayDialed(s) PROVE CloseInv'
  BY <1>4 DEF RelayDialed, RelayVarsOnly
<1>5. ASSUME NEW s \in Streams, RelayDialFails(s) PROVE CloseInv'
  BY <1>5 DEF RelayDialFails, RelayVarsOnly
<1>6. ASSUME NEW s \in Streams, RelayFinally(s) PROVE CloseInv'
  BY <1>6 DEF RelayFinally, RelayVarsOnly
<1>7. ASSUME NEW s \in Streams, RelayDone(s) PROVE CloseInv'
  BY <1>7 DEF RelayDone, RelayVarsOnly
<1>8. ASSUME NEW s \in Streams, RelayReaped(s) PROVE CloseInv'
  BY <1>8 DEF RelayReaped, RelayVarsOnly
<1>9. ASSUME NEW a \in Callers, Accept(a) PROVE CloseInv'
  <2>1. CASE queue # <<>>
    <3>1. Head(queue) \in Streams /\ HeadEffect(Head(queue))
      BY <1>9, <2>1, TakeHead DEF Accept
    <3> QED BY <1>9, <2>1, <3>1 DEF Accept, HeadEffect, Shifted
  <2>2. CASE queue = <<>>
    <3>1. WaitEffect(a)
      BY <1>9, <2>2, RaiseOrWaitCases DEF Accept
    <3> QED BY <1>9, <2>2, <3>1 DEF Accept, WaitEffect
  <2> QED BY <2>1, <2>2
<1>10. ASSUME NEW a \in Callers, Forward(a) PROVE CloseInv'
  <2>1. ForwardEffect(a, {})
    BY <1>10, ForwardCases DEF Forward
  <2>2. CASE hardClosed
    <3>1. queue = <<>>
      BY <2>2 DEF NothingStranded
    <3>2. forwarded' \subseteq forwarded /\ \A s \in Streams : relay'[s] = relay[s]
      BY <2>1, <3>1 DEF ForwardEffect, Taken
    <3> QED BY <1>10, <2>2, <3>2 DEF Forward
  <2>3. CASE ~hardClosed
    BY <1>10, <2>3 DEF Forward
  <2> QED BY <2>2, <2>3
<1>11. ASSUME NEW a \in Callers, Resume(a), ResumeCancelled(a) PROVE CloseInv'
  <2>1. ForgetEffect(a)
    BY <1>11, ForgetCases DEF ResumeCancelled
  <2> QED BY <1>11, <2>1 DEF Resume, ResumeCancelled, ForgetEffect
<1>12. ASSUME NEW a \in Callers, Resume(a), ResumeWithStream(a) PROVE CloseInv'
  <2>1. CASE hardClosed
    BY <1>12, <2>1 DEF Resume, ResumeWithStream
  <2>2. CASE ~hardClosed /\ a \in Acceptors
    BY <1>12, <2>2 DEF Resume, ResumeWithStream
  <2>3. CASE ~hardClosed /\ a \notin Acceptors
    <3>1. ForwardEffect(a, handoff[a])
      BY <1>12, <2>3, ForwardCases DEF ResumeWithStream, TypeOK
    <3> QED BY <1>12, <2>3, <3>1 DEF Resume, ResumeWithStream, ForwardEffect, Taken, WaitEffect
  <2> QED BY <2>1, <2>2, <2>3
<1>13. ASSUME NEW a \in Callers, Resume(a), ResumeWithError(a) PROVE CloseInv'
  BY <1>13 DEF Resume, ResumeWithError
<1>14. ASSUME NEW a \in Callers, Cancel(a) PROVE CloseInv'
  BY <1>14 DEF Cancel
<1>15. ASSUME NEW a \in Callers, NEW s \in Streams, CloseStream(a, s) PROVE CloseInv'
  BY <1>15 DEF CloseStream
<1>16. ASSUME NEW preserve \in BOOLEAN, ControlFinish(preserve) PROVE CloseInv'
  <2>1. CloseEffect("control", preserve)
    BY <1>16, OnCloseCases DEF ControlFinish
  <2> QED BY <1>16, <2>1 DEF ControlFinish, OnCloseFrame, CloseEffect
<1>17. ASSUME CloseTunnelRsp PROVE CloseInv'
  <2>1. CloseEffect("tunnel", FALSE)
    BY <1>17, OnCloseCases DEF CloseTunnelRsp
  <2> QED BY <1>17, <2>1 DEF CloseTunnelRsp, OnCloseFrame, CloseEffect
<1>18. ASSUME NEW k \in Closers, CloseBegin(k) PROVE CloseInv'
  <2>1. CASE closed
    <3>1. CloseEffect("tunnel", FALSE)
      BY <1>18, <2>1, OnCloseCases DEF CloseBegin
    <3>2. hardClosed' /\ UNCHANGED <<closeErr, relay, forwarded>> /\ forwarded \subseteq sclosed'
      BY <1>18, <2>1, <3>1 DEF CloseBegin, OnCloseFrame, CloseEffect
    <3>3. /\ closer' = [closer EXCEPT ![k] = IF forwarded = {} THEN "returned" ELSE "gathering"]
          /\ awaited' = [awaited EXCEPT ![k] = forwarded]
      BY <1>18, <2>1 DEF CloseBegin, GatherForwarders
    <3> QED BY <2>1, <3>2, <3>3
  <2>2. CASE ~closed
    BY <1>18, <2>2 DEF CloseBegin, OnCloseFrame
  <2> QED BY <2>1, <2>2
<1>19. ASSUME NEW k \in Closers, CloseConfirmed(k) PROVE CloseInv'
  BY <1>19 DEF CloseConfirmed, GatherForwarders
<1>20. ASSUME NEW k \in Closers, CloseFails(k) PROVE CloseInv'
  BY <1>20 DEF CloseFails
<1>21. ASSUME NEW k \in Closers, CloseCancelled(k) PROVE CloseInv'
  BY <1>21 DEF CloseCancelled
<1>22. ASSUME NEW k \in Closers, CloseReturns(k) PROVE CloseInv'
  BY <1>22 DEF CloseReturns
<1>23. CASE UNCHANGED vars
  BY <1>23 DEF vars
<1> QED BY <1>1, <1>2, <1>3, <1>4, <1>5, <1>6, <1>7, <1>8,
            <1>9, <1>10, <1>11, <1>12, <1>13, <1>14, <1>15, <1>16,
            <1>17, <1>18, <1>19, <1>20, <1>21, <1>22, <1>23 DEF Next, Relay, Resume

\* What a step does once the tunnel is closed hard.
NoneAccepted == hardClosed => \A a \in Callers : held'[a] \subseteq held[a]
NoneForwarded == hardClosed => forwarded' \subseteq forwarded

\* After a hard close no caller gets a stream.
LEMMA OnlyOpenAccepts ==
  ASSUME TypeOK, NothingStranded, CloseInv, [Next]_vars
  PROVE  NoneAccepted
<1> USE TunnelAssumption DEF NoneAccepted, TypeOK, NothingStranded, CloseInv, closed, queueVars,
       callerVars, relayVars, closerVars
<1>1. ASSUME NEW s \in Streams, Deliver(s) PROVE NoneAccepted
  <2>1. CASE closed
    BY <1>1, <2>1 DEF Deliver
  <2>2. CASE ~closed
    <3>1. PutEffect(s)
      BY <1>1, <2>2, PutCases DEF Deliver
    <3> QED BY <1>1, <2>2, <3>1 DEF Deliver, PutEffect, Added
  <2> QED BY <2>1, <2>2
<1>2. ASSUME NEW s \in Streams, PumpEnds(s) PROVE NoneAccepted
  BY <1>2 DEF PumpEnds, RelayVarsOnly
<1>3. ASSUME NEW s \in Streams, RelayStart(s) PROVE NoneAccepted
  BY <1>3 DEF RelayStart, RelayVarsOnly
<1>4. ASSUME NEW s \in Streams, RelayDialed(s) PROVE NoneAccepted
  BY <1>4 DEF RelayDialed, RelayVarsOnly
<1>5. ASSUME NEW s \in Streams, RelayDialFails(s) PROVE NoneAccepted
  BY <1>5 DEF RelayDialFails, RelayVarsOnly
<1>6. ASSUME NEW s \in Streams, RelayFinally(s) PROVE NoneAccepted
  BY <1>6 DEF RelayFinally, RelayVarsOnly
<1>7. ASSUME NEW s \in Streams, RelayDone(s) PROVE NoneAccepted
  BY <1>7 DEF RelayDone, RelayVarsOnly
<1>8. ASSUME NEW s \in Streams, RelayReaped(s) PROVE NoneAccepted
  BY <1>8 DEF RelayReaped, RelayVarsOnly
<1>9. ASSUME NEW a \in Callers, Accept(a) PROVE NoneAccepted
  <2>1. CASE queue # <<>>
    <3>1. Head(queue) \in Streams /\ HeadEffect(Head(queue))
      BY <1>9, <2>1, TakeHead DEF Accept
    <3> QED BY <1>9, <2>1, <3>1 DEF Accept, HeadEffect, Shifted
  <2>2. CASE queue = <<>>
    <3>1. WaitEffect(a)
      BY <1>9, <2>2, RaiseOrWaitCases DEF Accept
    <3> QED BY <1>9, <2>2, <3>1 DEF Accept, WaitEffect
  <2> QED BY <2>1, <2>2
<1>10. ASSUME NEW a \in Callers, Forward(a) PROVE NoneAccepted
  <2>1. ForwardEffect(a, {})
    BY <1>10, ForwardCases DEF Forward
  <2> QED BY <1>10, <2>1 DEF Forward, ForwardEffect, Taken, WaitEffect
<1>11. ASSUME NEW a \in Callers, Resume(a), ResumeCancelled(a) PROVE NoneAccepted
  <2>1. ForgetEffect(a)
    BY <1>11, ForgetCases DEF ResumeCancelled
  <2> QED BY <1>11, <2>1 DEF Resume, ResumeCancelled, ForgetEffect
<1>12. ASSUME NEW a \in Callers, Resume(a), ResumeWithStream(a) PROVE NoneAccepted
  <2>1. CASE hardClosed
    BY <1>12, <2>1 DEF Resume, ResumeWithStream
  <2>2. CASE ~hardClosed /\ a \in Acceptors
    BY <1>12, <2>2 DEF Resume, ResumeWithStream
  <2>3. CASE ~hardClosed /\ a \notin Acceptors
    <3>1. ForwardEffect(a, handoff[a])
      BY <1>12, <2>3, ForwardCases DEF ResumeWithStream, TypeOK
    <3> QED BY <1>12, <2>3, <3>1 DEF Resume, ResumeWithStream, ForwardEffect, Taken, WaitEffect
  <2> QED BY <2>1, <2>2, <2>3
<1>13. ASSUME NEW a \in Callers, Resume(a), ResumeWithError(a) PROVE NoneAccepted
  BY <1>13 DEF Resume, ResumeWithError
<1>14. ASSUME NEW a \in Callers, Cancel(a) PROVE NoneAccepted
  BY <1>14 DEF Cancel
<1>15. ASSUME NEW a \in Callers, NEW s \in Streams, CloseStream(a, s) PROVE NoneAccepted
  BY <1>15 DEF CloseStream
<1>16. ASSUME NEW preserve \in BOOLEAN, ControlFinish(preserve) PROVE NoneAccepted
  <2>1. CloseEffect("control", preserve)
    BY <1>16, OnCloseCases DEF ControlFinish
  <2> QED BY <1>16, <2>1 DEF ControlFinish, OnCloseFrame, CloseEffect
<1>17. ASSUME CloseTunnelRsp PROVE NoneAccepted
  <2>1. CloseEffect("tunnel", FALSE)
    BY <1>17, OnCloseCases DEF CloseTunnelRsp
  <2> QED BY <1>17, <2>1 DEF CloseTunnelRsp, OnCloseFrame, CloseEffect
<1>18. ASSUME NEW k \in Closers, CloseBegin(k) PROVE NoneAccepted
  <2>1. CASE closed
    <3>1. CloseEffect("tunnel", FALSE)
      BY <1>18, <2>1, OnCloseCases DEF CloseBegin
    <3> QED BY <1>18, <2>1, <3>1 DEF CloseBegin, GatherForwarders, OnCloseFrame, CloseEffect
  <2>2. CASE ~closed
    BY <1>18, <2>2 DEF CloseBegin, OnCloseFrame
  <2> QED BY <2>1, <2>2
<1>19. ASSUME NEW k \in Closers, CloseConfirmed(k) PROVE NoneAccepted
  BY <1>19 DEF CloseConfirmed, GatherForwarders
<1>20. ASSUME NEW k \in Closers, CloseFails(k) PROVE NoneAccepted
  BY <1>20 DEF CloseFails
<1>21. ASSUME NEW k \in Closers, CloseCancelled(k) PROVE NoneAccepted
  BY <1>21 DEF CloseCancelled
<1>22. ASSUME NEW k \in Closers, CloseReturns(k) PROVE NoneAccepted
  BY <1>22 DEF CloseReturns
<1>23. CASE UNCHANGED vars
  BY <1>23 DEF vars
<1> QED BY <1>1, <1>2, <1>3, <1>4, <1>5, <1>6, <1>7, <1>8,
            <1>9, <1>10, <1>11, <1>12, <1>13, <1>14, <1>15, <1>16,
            <1>17, <1>18, <1>19, <1>20, <1>21, <1>22, <1>23 DEF Next, Relay, Resume

\* After a hard close no stream becomes a forward task.
LEMMA OnlyOpenForwards ==
  ASSUME TypeOK, NothingStranded, CloseInv, [Next]_vars
  PROVE  NoneForwarded
<1> USE TunnelAssumption, EmptyAt DEF NoneForwarded, TypeOK, NothingStranded, CloseInv, closed,
       InQueue, queueVars, callerVars, relayVars, closerVars
<1>1. ASSUME NEW s \in Streams, Deliver(s) PROVE NoneForwarded
  <2>1. CASE closed
    BY <1>1, <2>1 DEF Deliver
  <2>2. CASE ~closed
    <3>1. PutEffect(s)
      BY <1>1, <2>2, PutCases DEF Deliver
    <3> QED BY <1>1, <2>2, <3>1 DEF Deliver, PutEffect, Added
  <2> QED BY <2>1, <2>2
<1>2. ASSUME NEW s \in Streams, PumpEnds(s) PROVE NoneForwarded
  BY <1>2 DEF PumpEnds, RelayVarsOnly
<1>3. ASSUME NEW s \in Streams, RelayStart(s) PROVE NoneForwarded
  BY <1>3 DEF RelayStart, RelayVarsOnly
<1>4. ASSUME NEW s \in Streams, RelayDialed(s) PROVE NoneForwarded
  BY <1>4 DEF RelayDialed, RelayVarsOnly
<1>5. ASSUME NEW s \in Streams, RelayDialFails(s) PROVE NoneForwarded
  BY <1>5 DEF RelayDialFails, RelayVarsOnly
<1>6. ASSUME NEW s \in Streams, RelayFinally(s) PROVE NoneForwarded
  BY <1>6 DEF RelayFinally, RelayVarsOnly
<1>7. ASSUME NEW s \in Streams, RelayDone(s) PROVE NoneForwarded
  BY <1>7 DEF RelayDone, RelayVarsOnly
<1>8. ASSUME NEW s \in Streams, RelayReaped(s) PROVE NoneForwarded
  BY <1>8 DEF RelayReaped, RelayVarsOnly
<1>9. ASSUME NEW a \in Callers, Accept(a) PROVE NoneForwarded
  <2>1. CASE queue # <<>>
    <3>1. Head(queue) \in Streams /\ HeadEffect(Head(queue))
      BY <1>9, <2>1, TakeHead DEF Accept
    <3> QED BY <1>9, <2>1, <3>1 DEF Accept, HeadEffect, Shifted
  <2>2. CASE queue = <<>>
    <3>1. WaitEffect(a)
      BY <1>9, <2>2, RaiseOrWaitCases DEF Accept
    <3> QED BY <1>9, <2>2, <3>1 DEF Accept, WaitEffect
  <2> QED BY <2>1, <2>2
<1>10. ASSUME NEW a \in Callers, Forward(a) PROVE NoneForwarded
  <2>1. ForwardEffect(a, {})
    BY <1>10, ForwardCases DEF Forward
  <2> QED BY <1>10, <2>1 DEF Forward, ForwardEffect, Taken, WaitEffect
<1>11. ASSUME NEW a \in Callers, Resume(a), ResumeCancelled(a) PROVE NoneForwarded
  <2>1. ForgetEffect(a)
    BY <1>11, ForgetCases DEF ResumeCancelled
  <2> QED BY <1>11, <2>1 DEF Resume, ResumeCancelled, ForgetEffect
<1>12. ASSUME NEW a \in Callers, Resume(a), ResumeWithStream(a) PROVE NoneForwarded
  <2>1. CASE hardClosed
    BY <1>12, <2>1 DEF Resume, ResumeWithStream
  <2>2. CASE ~hardClosed /\ a \in Acceptors
    BY <1>12, <2>2 DEF Resume, ResumeWithStream
  <2>3. CASE ~hardClosed /\ a \notin Acceptors
    <3>1. ForwardEffect(a, handoff[a])
      BY <1>12, <2>3, ForwardCases DEF ResumeWithStream, TypeOK
    <3> QED BY <1>12, <2>3, <3>1 DEF Resume, ResumeWithStream, ForwardEffect, Taken, WaitEffect
  <2> QED BY <2>1, <2>2, <2>3
<1>13. ASSUME NEW a \in Callers, Resume(a), ResumeWithError(a) PROVE NoneForwarded
  BY <1>13 DEF Resume, ResumeWithError
<1>14. ASSUME NEW a \in Callers, Cancel(a) PROVE NoneForwarded
  BY <1>14 DEF Cancel
<1>15. ASSUME NEW a \in Callers, NEW s \in Streams, CloseStream(a, s) PROVE NoneForwarded
  BY <1>15 DEF CloseStream
<1>16. ASSUME NEW preserve \in BOOLEAN, ControlFinish(preserve) PROVE NoneForwarded
  <2>1. CloseEffect("control", preserve)
    BY <1>16, OnCloseCases DEF ControlFinish
  <2> QED BY <1>16, <2>1 DEF ControlFinish, OnCloseFrame, CloseEffect
<1>17. ASSUME CloseTunnelRsp PROVE NoneForwarded
  <2>1. CloseEffect("tunnel", FALSE)
    BY <1>17, OnCloseCases DEF CloseTunnelRsp
  <2> QED BY <1>17, <2>1 DEF CloseTunnelRsp, OnCloseFrame, CloseEffect
<1>18. ASSUME NEW k \in Closers, CloseBegin(k) PROVE NoneForwarded
  <2>1. CASE closed
    <3>1. CloseEffect("tunnel", FALSE)
      BY <1>18, <2>1, OnCloseCases DEF CloseBegin
    <3> QED BY <1>18, <2>1, <3>1 DEF CloseBegin, GatherForwarders, OnCloseFrame, CloseEffect
  <2>2. CASE ~closed
    BY <1>18, <2>2 DEF CloseBegin, OnCloseFrame
  <2> QED BY <2>1, <2>2
<1>19. ASSUME NEW k \in Closers, CloseConfirmed(k) PROVE NoneForwarded
  BY <1>19 DEF CloseConfirmed, GatherForwarders
<1>20. ASSUME NEW k \in Closers, CloseFails(k) PROVE NoneForwarded
  BY <1>20 DEF CloseFails
<1>21. ASSUME NEW k \in Closers, CloseCancelled(k) PROVE NoneForwarded
  BY <1>21 DEF CloseCancelled
<1>22. ASSUME NEW k \in Closers, CloseReturns(k) PROVE NoneForwarded
  BY <1>22 DEF CloseReturns
<1>23. CASE UNCHANGED vars
  BY <1>23 DEF vars
<1> QED BY <1>1, <1>2, <1>3, <1>4, <1>5, <1>6, <1>7, <1>8,
            <1>9, <1>10, <1>11, <1>12, <1>13, <1>14, <1>15, <1>16,
            <1>17, <1>18, <1>19, <1>20, <1>21, <1>22, <1>23 DEF Next, Relay, Resume

\* The soft close of an open tunnel closes the queued streams.
LEMMA SoftCloseTouchesQueued ==
  ASSUME TypeOK, [Next]_vars, ~closed, closed', ~hardClosed'
  PROVE  sclosed' = sclosed \cup ToSet(queue) /\ relayCancel' = relayCancel
<1> USE DEF TypeOK, closed, queueVars, callerVars, relayVars, closerVars
<1>1. ASSUME NEW preserve \in BOOLEAN, ControlFinish(preserve)
      PROVE  sclosed' = sclosed \cup ToSet(queue) /\ relayCancel' = relayCancel
  BY <1>1 DEF ControlFinish, OnClose
<1>2. ~CloseTunnelRsp /\ closeErr' # closeErr
  BY DEF CloseTunnelRsp, OnClose
<1>3. ASSUME NEW s \in Streams PROVE ~(Deliver(s) \/ PumpEnds(s) \/ Relay(s))
  BY <1>2 DEF Deliver, PumpEnds, Relay, RelayStart, RelayDialed, RelayDialFails, RelayFinally, RelayDone,
              RelayReaped, RelayVarsOnly
<1>4. ASSUME NEW a \in Callers PROVE ~(Accept(a) \/ Forward(a) \/ Resume(a) \/ Cancel(a))
  BY <1>2 DEF Accept, Forward, Resume, Cancel
<1>5. ASSUME NEW a \in Callers, NEW s \in Streams PROVE ~CloseStream(a, s)
  BY <1>2 DEF CloseStream
<1>6. ASSUME NEW k \in Closers
      PROVE  ~(CloseBegin(k) \/ CloseConfirmed(k) \/ CloseFails(k) \/ CloseCancelled(k) \/ CloseReturns(k))
  BY <1>2 DEF CloseBegin, CloseConfirmed, CloseFails, CloseCancelled, CloseReturns
<1>7. ~UNCHANGED vars
  BY <1>2 DEF vars
<1> QED BY <1>1, <1>2, <1>3, <1>4, <1>5, <1>6, <1>7 DEF Next

\* The invariants above hold in every state of every run.
THEOREM Invariance == Spec => []IInv
<1>1. IInv /\ [Next]_vars => IInv'
  BY StepKeepsTypes, StepKeepsWaiters, StepKeepsHandoffs, StepKeepsFresh, StepKeepsOnePlace,
     StepKeepsSomePlace, StepKeepsRelays, StepKeepsCloses DEF IInv, OwnerInv
<1> QED BY InitIInv, <1>1, PTL DEF Spec

-----------------------------------------------------------------------------
\* Every variable holds a value the code can give it, and a caller has a future
\* exactly while it is suspended in get().
THEOREM TypeCorrect == Spec => []TypeOK
<1>1. IInv => TypeOK
  BY DEF IInv
<1> QED BY Invariance, <1>1, PTL

\* put() and get() lose nobody: no stream is queued while an accept() waits for
\* one, cancelled waiters do not hide a live one from put() and close(), and a
\* closed tunnel holds no stream and keeps nobody waiting.
THEOREM NobodyStranded == Spec => []NothingStranded
<1>1. IInv => NothingStranded
  BY DEF IInv
<1> QED BY Invariance, <1>1, PTL

\* A set whose members are all equal has at most one.
LEMMA AtMostOne ==
  ASSUME NEW S, \A x, y \in S : x = y
  PROVE  Cardinality(S) <= 1
<1>1. CASE S = {}
  BY <1>1, FS_EmptySet
<1>2. CASE S # {}
  <2>1. PICK x \in S : S = {x}
    BY <1>2
  <2> QED BY <2>1, FS_Singleton
<1> QED BY <1>1, <1>2

LEMMA OwnersArePlaces ==
  ASSUME TypeOK, NEW s \in Streams
  PROVE  \A o : o \in Owners(s) <=>
           \/ \E i \in Nat : InQueue(i, s) /\ o = <<"queue", i>>
           \/ \E a \in Callers : s \in handoff[a] /\ o = <<"handoff", a>>
           \/ \E a \in Callers : s \in held[a] /\ o = <<"held", a>>
           \/ RelayActive(s) /\ o = <<"relay", s>>
<1>1. DOMAIN queue = 1 .. Len(queue) /\ Len(queue) \in Nat
  BY LenProperties DEF TypeOK
<1>2. \A i : i \in {j \in DOMAIN queue : queue[j] = s} <=> i \in Nat /\ InQueue(i, s)
  BY <1>1 DEF InQueue, At
<1> QED BY <1>2 DEF Owners

\* However deliveries, calls of accept() and forward_to(), cancellations and
\* closes interleave, a delivered stream is never in two places, an open one is
\* in one unless a cancelled accept() or a failed dial lost it, and a stream is
\* handed to no cancelled future.
THEOREM StreamsHaveOneOwner == Spec => []OneOwner
<1>1. ASSUME IInv PROVE OneOwner
  <2> USE <1>1 DEF IInv
  <2>1. \A a \in Callers : handoff[a] # {} <=> fut[a] = "result"
    BY DEF HandoffInv
  <2>2. ASSUME NEW s \in Streams
        PROVE  /\ Cardinality(Owners(s)) <= 1
               /\ (s \in offered \ sclosed /\ s \notin dropped /\ relay[s] # "done")
                    => Owners(s) # {}
    <3>1. \A o : o \in Owners(s) <=>
            \/ \E i \in Nat : InQueue(i, s) /\ o = <<"queue", i>>
            \/ \E a \in Callers : s \in handoff[a] /\ o = <<"handoff", a>>
            \/ \E a \in Callers : s \in held[a] /\ o = <<"held", a>>
            \/ RelayActive(s) /\ o = <<"relay", s>>
      BY OwnersArePlaces
    <3>2. OnePlace(s) /\ SomePlace(s)
      BY DEF OwnerInv
    <3>3. \A o, p \in Owners(s) : o = p
      BY <3>1, <3>2 DEF OnePlace
    <3>4. Cardinality(Owners(s)) <= 1
      BY <3>3, AtMostOne
    <3>5. (s \in offered \ sclosed /\ s \notin dropped /\ relay[s] # "done") => Owners(s) # {}
      BY <3>1, <3>2 DEF SomePlace
    <3> QED BY <3>4, <3>5
  <2> QED BY <2>1, <2>2 DEF OneOwner
<1> QED BY Invariance, <1>1, PTL

\* A hard close closes every stream in a forward task, whatever a soft close
\* before it spared, and close() returns only when no relay of the tunnel runs.
THEOREM ClosesReachEverything == Spec => []ClosesComplete
<1>1. IInv => ClosesComplete
  BY DEF IInv, CloseInv, ClosesComplete
<1> QED BY Invariance, <1>1, PTL

\* After a hard close nobody gets a stream any more, and the close of a lost
\* control channel touches queued streams only.
THEOREM ClosesTouchNothingElse == Spec => ClosesSelective
<1> DEFINE Selective ==
      /\ hardClosed => /\ \A a \in Callers : held'[a] \subseteq held[a]
                       /\ forwarded' \subseteq forwarded
      /\ ~closed /\ closed' /\ ~hardClosed'
           => /\ sclosed' = sclosed \cup ToSet(queue)
              /\ relayCancel' = relayCancel
<1>1. ASSUME IInv, [Next]_vars PROVE Selective
  <2>1. hardClosed => \A a \in Callers : held'[a] \subseteq held[a]
    BY <1>1, OnlyOpenAccepts DEF IInv, NoneAccepted
  <2>2. hardClosed => forwarded' \subseteq forwarded
    BY <1>1, OnlyOpenForwards DEF IInv, NoneForwarded
  <2>3. ~closed /\ closed' /\ ~hardClosed'
           => sclosed' = sclosed \cup ToSet(queue) /\ relayCancel' = relayCancel
    BY <1>1, SoftCloseTouchesQueued DEF IInv
  <2> QED BY <2>1, <2>2, <2>3
<1> QED BY Invariance, <1>1, PTL DEF Spec, ClosesSelective

\* An open stream that was delivered is still somebody's after a hard close: it
\* is held by the application or on its way to it, or its relay runs or ran, or
\* a cancelled accept() dropped it.  None is forgotten in the queue.
OpenAfterHardClose ==
  hardClosed => \A s \in offered \ sclosed :
    \/ \E a \in Callers : s \in handoff[a] \cup held[a]
    \/ s \in dropped \/ relay[s] = "done"

THEOREM HardCloseLeavesNoneQueued == Spec => []OpenAfterHardClose
<1>1. IInv => OpenAfterHardClose
  BY EmptyAt DEF IInv, TypeOK, CloseInv, RelayInv, OwnerInv, SomePlace, InQueue,
                 NothingStranded, OpenAfterHardClose
<1> QED BY Invariance, <1>1, PTL
=====
