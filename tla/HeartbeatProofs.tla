--------------------------- MODULE HeartbeatProofs ---------------------------
(***************************************************************************)
(* Theorems about Heartbeat: the client's deadline measures the silence of *)
(* the engine, a deadline above LongestSilence never fails the channel of  *)
(* a live engine, and no honest answer is refused, for every interval,     *)
(* policy, stall, delay and number of unanswered heartbeats.               *)
(*                                                                         *)
(* The argument.  Heartbeats reach the wire at most Period apart.  So the  *)
(* silence is bounded by the heartbeats skipped since the last frame: each *)
(* adds at most one Period to the age of the oldest heartbeat on the wire, *)
(* or, when the wire is empty, to the time since the last one was written. *)
(***************************************************************************)
EXTENDS Heartbeat, SequenceTheorems, TLAPS

\* The longest time between two heartbeats on the wire
Period == Interval + 2 * MaxStall

\* At least the time since the last heartbeat was put on the wire
SinceLast ==
  elapsed + (IF loop = "draining" THEN 0 ELSE MaxStall)
          + (IF loop = "locking" THEN Interval ELSE 0)

LoopInv ==
  /\ elapsed <= IF loop = "sleeping" THEN Interval ELSE MaxStall
  /\ timeout > 0 /\ chan # "refused" => heartbeat
  /\ wire # <<>> \/ loop # "sleeping" => heartbeat
  /\ engine = "silent" => wire = <<>>

\* The timer and the silence add up to the deadline.
TimerInv ==
  /\ timeout > 0 /\ chan \in {"open", "liveness"} => timer + quiet = timeout
  /\ chan = "liveness" => timer = 0 /\ timeout > 0

\* Heartbeats on the wire are at most a Period apart.
SpacingInv ==
  heartbeat =>
    /\ \A i \in 1 .. Len(wire) :
         /\ wire[i].age <= MaxDelay
         /\ i < Len(wire) => wire[i].age <= wire[i + 1].age + Period
    /\ wire # <<>> => wire[Len(wire)].age <= SinceLast

SilenceInv ==
  heartbeat /\ timeout > 0 /\ engine # "silent" =>
    IF wire = <<>> THEN quiet <= skipped * Period + SinceLast
                   ELSE quiet <= (skipped + 1) * Period + wire[1].age

\* What the engine may still answer is above what it answered and not above what
\* was sent.
AnswerInv ==
  engine = "up" =>
    /\ timeout = 0 => \A i \in 1 .. Len(wire) : wire[i].seq = 0
    /\ timeout > 0 =>
         /\ \A i \in 1 .. Len(wire) :
              /\ acknowledgement < wire[i].seq
              /\ wire[i].seq + (IF loop = "locking" THEN 1 ELSE 0) <= sequence
              /\ \A j \in 1 .. Len(wire) : i < j => wire[i].seq < wire[j].seq
         /\ loop = "locking" => acknowledgement < sequence

IInv == TypeOK /\ LoopInv /\ TimerInv /\ SpacingInv /\ SilenceInv /\ AnswerInv /\ HonestAnswersAccepted

Heartbeats == [seq : Nat, age : Nat]

-----------------------------------------------------------------------------
\* The wire

LEMMA EmptyWire ==
  ASSUME NEW s \in Seq(Heartbeats)
  PROVE  s = <<>> <=> Len(s) = 0
BY EmptySeq

LEMMA OneTaken ==
  ASSUME NEW s \in Seq(Heartbeats), s # <<>>
  PROVE  /\ Tail(s) \in Seq(Heartbeats) /\ Head(s) = s[1] /\ s[1] \in Heartbeats
         /\ Len(s) \in Nat \ {0} /\ Len(Tail(s)) = Len(s) - 1
         /\ Tail(s) = <<>> => Len(s) = 1
         /\ \A i \in 1 .. Len(s) - 1 : Tail(s)[i] = s[i + 1]
<1>1. Len(s) \in Nat \ {0} /\ Head(s) = s[1] /\ s[1] \in Heartbeats
  BY EmptySeq, LenProperties, ElementOfSeq
<1>2. /\ Tail(s) \in Seq(Heartbeats) /\ Len(Tail(s)) = Len(s) - 1
      /\ \A i \in 1 .. Len(Tail(s)) : Tail(s)[i] = s[i + 1]
  BY HeadTailProperties
<1>3. Tail(s) = <<>> => Len(s) = 1
  <2>1. Len(Tail(s)) # 0 => Tail(s) # <<>>
    BY <1>2, EmptyWire
  <2> QED BY <1>1, <1>2, <2>1
<1>4. \A i \in 1 .. Len(s) - 1 : Tail(s)[i] = s[i + 1]
  BY <1>1, <1>2
<1> QED BY <1>1, <1>2, <1>3, <1>4

LEMMA OneWritten ==
  ASSUME NEW s \in Seq(Heartbeats), NEW h \in Heartbeats
  PROVE  /\ Append(s, h) \in Seq(Heartbeats) /\ Append(s, h) # <<>>
         /\ Len(s) \in Nat /\ Len(Append(s, h)) = Len(s) + 1
         /\ \A i \in 1 .. Len(s) : Append(s, h)[i] = s[i]
         /\ Append(s, h)[Len(s) + 1] = h
BY AppendProperties, LenProperties

LEMMA AllOlder ==
  ASSUME NEW s \in Seq(Heartbeats),
         NEW t, t = [i \in DOMAIN s |-> [seq |-> s[i].seq, age |-> s[i].age + 1]]
  PROVE  /\ t \in Seq(Heartbeats) /\ Len(t) = Len(s) /\ Len(s) \in Nat
         /\ \A i \in 1 .. Len(s) : /\ t[i].seq = s[i].seq /\ t[i].age = s[i].age + 1
                                   /\ s[i] \in Heartbeats
         /\ t = <<>> <=> s = <<>>
<1>1. DOMAIN s = 1 .. Len(s) /\ Len(s) \in Nat /\ \A i \in 1 .. Len(s) : s[i] \in Heartbeats
  BY LenProperties, ElementOfSeq
<1>2. \A i \in 1 .. Len(s) : t[i] = [seq |-> s[i].seq, age |-> s[i].age + 1]
  BY <1>1
<1>3. \A i \in 1 .. Len(s) : t[i] \in Heartbeats
  BY <1>1, <1>2 DEF Heartbeats
<1>4. t \in [1 .. Len(s) -> Heartbeats]
  BY <1>1, <1>3
<1>5. t \in Seq(Heartbeats) /\ Len(t) = Len(s)
  BY <1>1, <1>4, SeqDef, LenProperties
<1>6. t = <<>> <=> s = <<>>
  BY <1>5, EmptySeq
<1> QED BY <1>1, <1>2, <1>5, <1>6

-----------------------------------------------------------------------------
\* The periods a silence spans

LEMMA Periods ==
  /\ Period \in Nat
  /\ \A n \in Nat : /\ n * Period \in Nat /\ (n + 1) * Period \in Nat
                     /\ (n + 1) * Period = n * Period + Period
BY HeartbeatAssumption DEF Period

LEMMA MorePeriods ==
  ASSUME NEW m \in Nat, NEW n \in Nat, m <= n
  PROVE  m * Period <= n * Period
<1>1. n - m \in Nat /\ (n - m) * Period >= 0
  BY Periods
<1>2. n * Period = m * Period + (n - m) * Period
  BY Periods
<1> QED BY <1>1, <1>2, Periods

-----------------------------------------------------------------------------
\* One lemma per conjunct of the invariant

\* The initial states: nothing was sent, and the timer is armed.
LEMMA InitIInv == Init => IInv
<1> SUFFICES ASSUME Init PROVE IInv
  OBVIOUS
<1> USE HeartbeatAssumption DEF Init
<1>1. PICK answer \in Answers \cup {Nothing} :
         /\ timeout = Negotiated(answer)
         /\ chan = IF Accepted(heartbeat, answer) THEN "open" ELSE "refused"
  OBVIOUS
<1>2. answer # Nothing => answer \in [interval : Nat, timeout : Nat]
  OBVIOUS
<1>3. timeout \in Nat /\ (timeout > 0 /\ chan # "refused" => heartbeat)
  BY <1>1, <1>2 DEF Negotiated, Accepted
<1>4. wire \in Seq(Heartbeats) /\ Len(wire) = 0
  BY EmptySeq
<1>5. chan \in {"refused", "open"}
  BY <1>1
<1> HIDE HeartbeatAssumption DEF Init
<1>6. /\ loop = "sleeping" /\ elapsed = Interval /\ sequence = 0 /\ acknowledgement = 0
      /\ timer = timeout /\ quiet = 0 /\ wire = <<>> /\ engine = "up" /\ skipped = 0
      /\ heartbeat \in BOOLEAN
  BY DEF Init
<1>7. TypeOK
  BY <1>3, <1>4, <1>5, <1>6, HeartbeatAssumption DEF TypeOK, Heartbeats
<1>8. LoopInv /\ TimerInv
  BY <1>3, <1>5, <1>6, HeartbeatAssumption DEF LoopInv, TimerInv
<1>9. SpacingInv /\ AnswerInv /\ HonestAnswersAccepted
  BY <1>4, <1>5, <1>6 DEF SpacingInv, AnswerInv, HonestAnswersAccepted
<1>10. SilenceInv
  <2>1. 0 * Period = 0
    BY Periods
  <2>2. SinceLast \in Nat
    BY <1>6, HeartbeatAssumption DEF SinceLast
  <2>3. skipped * Period + SinceLast \in Nat
    BY <1>6, <2>1, <2>2
  <2> QED BY <1>6, <2>3 DEF SilenceInv
<1> QED BY <1>7, <1>8, <1>9, <1>10 DEF IInv

\* Every step keeps the types.
LEMMA TypeStep ==
  ASSUME TypeOK, [Next]_vars
  PROVE  TypeOK'
<1> USE HeartbeatAssumption DEF TypeOK
<1>1. CASE BeginHeartbeat
  BY <1>1 DEF BeginHeartbeat, policyVars, engineVars
<1>2. CASE SendHeartbeat
  <2>1. [seq |-> IF timeout > 0 THEN sequence ELSE 0, age |-> 0] \in Heartbeats
    BY DEF Heartbeats
  <2>2. wire' \in Seq([seq : Nat, age : Nat])
    BY <1>2, <2>1, OneWritten DEF SendHeartbeat, Heartbeats
  <2> QED BY <1>2, <2>2 DEF SendHeartbeat, policyVars
<1>3. CASE HeartbeatSent
  BY <1>3 DEF HeartbeatSent, policyVars, engineVars
<1>4. CASE Acknowledge
  <2>1. wire' \in Seq([seq : Nat, age : Nat]) /\ Head(wire).seq \in Nat
    BY <1>4, OneTaken DEF Acknowledge, Heartbeats
  <2> QED BY <1>4, <2>1 DEF Acknowledge, HandleHeartbeat, ReadFrame, HeartbeatValid, policyVars
<1>5. CASE OtherFrame
  BY <1>5 DEF OtherFrame, ReadFrame, policyVars, engineVars
<1>6. CASE SkipHeartbeat
  <2>1. wire' \in Seq([seq : Nat, age : Nat])
    BY <1>6, OneTaken DEF SkipHeartbeat, Heartbeats
  <2> QED BY <1>6, <2>1 DEF SkipHeartbeat, policyVars
<1>7. CASE RogueHeartbeat
  BY <1>7 DEF RogueHeartbeat, HandleHeartbeat, ReadFrame, HeartbeatValid, policyVars
<1>8. CASE GoSilent
  BY <1>8 DEF GoSilent, policyVars
<1>9. CASE LivenessExpired \/ TransportFails
  BY <1>9 DEF LivenessExpired, TransportFails, policyVars, engineVars
<1>10. CASE Tick
  <2>1. wire' \in Seq([seq : Nat, age : Nat])
    BY <1>10, AllOlder DEF Tick, Heartbeats
  <2>2. timer' \in 0 .. timeout' /\ timeout' \in Nat /\ elapsed' \in Nat /\ quiet' \in Nat
    BY <1>10 DEF Tick, policyVars
  <2> QED BY <1>10, <2>1, <2>2 DEF Tick, policyVars
<1>11. CASE UNCHANGED vars
  BY <1>11 DEF vars, policyVars, engineVars
<1> QED BY <1>1, <1>2, <1>3, <1>4, <1>5, <1>6, <1>7, <1>8, <1>9, <1>10, <1>11 DEF Next

\* The loop is never late, and only a channel with heartbeats has a deadline.
LEMMA LoopStep ==
  ASSUME TypeOK, LoopInv, [Next]_vars
  PROVE  LoopInv'
<1> USE HeartbeatAssumption DEF TypeOK, LoopInv
<1>1. CASE BeginHeartbeat
  BY <1>1 DEF BeginHeartbeat, policyVars, engineVars
<1>2. CASE SendHeartbeat
  BY <1>2 DEF SendHeartbeat, policyVars
<1>3. CASE HeartbeatSent
  BY <1>3 DEF HeartbeatSent, policyVars, engineVars
<1>4. CASE Acknowledge
  BY <1>4 DEF Acknowledge, HandleHeartbeat, ReadFrame, HeartbeatValid, policyVars
<1>5. CASE OtherFrame
  BY <1>5 DEF OtherFrame, ReadFrame, policyVars, engineVars
<1>6. CASE SkipHeartbeat
  BY <1>6 DEF SkipHeartbeat, policyVars
<1>7. CASE RogueHeartbeat
  BY <1>7 DEF RogueHeartbeat, HandleHeartbeat, ReadFrame, policyVars
<1>8. CASE GoSilent
  BY <1>8 DEF GoSilent, policyVars
<1>9. CASE LivenessExpired \/ TransportFails
  BY <1>9 DEF LivenessExpired, TransportFails, policyVars, engineVars
<1>10. CASE Tick
  BY <1>10, AllOlder DEF Tick, policyVars, Heartbeats
<1>11. CASE UNCHANGED vars
  BY <1>11 DEF vars, policyVars, engineVars
<1> QED BY <1>1, <1>2, <1>3, <1>4, <1>5, <1>6, <1>7, <1>8, <1>9, <1>10, <1>11 DEF Next

\* Only reading a frame moves the deadline.
LEMMA TimerStep ==
  ASSUME TypeOK, TimerInv, [Next]_vars
  PROVE  TimerInv'
<1> USE HeartbeatAssumption DEF TypeOK, TimerInv
<1>1. CASE BeginHeartbeat
  BY <1>1 DEF BeginHeartbeat, policyVars, engineVars
<1>2. CASE SendHeartbeat
  BY <1>2 DEF SendHeartbeat, policyVars
<1>3. CASE HeartbeatSent
  BY <1>3 DEF HeartbeatSent, policyVars, engineVars
<1>4. CASE Acknowledge
  BY <1>4 DEF Acknowledge, HandleHeartbeat, ReadFrame, policyVars
<1>5. CASE OtherFrame
  BY <1>5 DEF OtherFrame, ReadFrame, policyVars
<1>6. CASE SkipHeartbeat
  BY <1>6 DEF SkipHeartbeat, policyVars
<1>7. CASE RogueHeartbeat
  BY <1>7 DEF RogueHeartbeat, HandleHeartbeat, ReadFrame, policyVars
<1>8. CASE GoSilent
  BY <1>8 DEF GoSilent, policyVars
<1>9. CASE LivenessExpired \/ TransportFails
  BY <1>9 DEF LivenessExpired, TransportFails, policyVars
<1>10. CASE Tick
  BY <1>10 DEF Tick, policyVars
<1>11. CASE UNCHANGED vars
  BY <1>11 DEF vars, policyVars
<1> QED BY <1>1, <1>2, <1>3, <1>4, <1>5, <1>6, <1>7, <1>8, <1>9, <1>10, <1>11 DEF Next

LEMMA SinceLastType ==
  ASSUME TypeOK, LoopInv
  PROVE  SinceLast \in Nat /\ SinceLast <= Period
<1> USE HeartbeatAssumption DEF TypeOK, LoopInv, SinceLast, Period
<1>1. CASE loop = "sleeping"
  BY <1>1
<1>2. CASE loop = "draining"
  BY <1>2
<1>3. CASE loop = "locking"
  BY <1>3
<1> QED BY <1>1, <1>2, <1>3 DEF TypeOK

\* What the steps that leave the wire and the loop alone preserve
LEMMA WireUntouched ==
  ASSUME SpacingInv, UNCHANGED <<heartbeat, wire, loop, elapsed>>
  PROVE  SpacingInv'
BY DEF SpacingInv, SinceLast

\* The loop keeps heartbeats at most a Period apart.
LEMMA SpacingStep ==
  ASSUME TypeOK, LoopInv, SpacingInv, [Next]_vars
  PROVE  SpacingInv'
<1> SUFFICES ASSUME heartbeat' PROVE SpacingInv'
  BY DEF SpacingInv
<1>1. wire \in Seq(Heartbeats) /\ Len(wire) \in Nat /\ heartbeat
  BY LenProperties DEF TypeOK, Heartbeats, Next, vars, policyVars, BeginHeartbeat, SendHeartbeat,
     HeartbeatSent, Acknowledge, OtherFrame, HandleHeartbeat, RogueHeartbeat, SkipHeartbeat,
     GoSilent, LivenessExpired, TransportFails, Tick
<1>2. \A i \in 1 .. Len(wire) : wire[i] \in Heartbeats /\ wire[i].age \in Nat
  <2>1. \A i \in 1 .. Len(wire) : wire[i] \in Heartbeats
    BY <1>1, ElementOfSeq
  <2> QED BY <2>1 DEF Heartbeats
<1>3. SinceLast \in Nat /\ SinceLast <= Period /\ Period \in Nat
  BY SinceLastType, Periods
<1>4. wire # <<>> => Len(wire) > 0
  BY <1>1, EmptySeq
<1>5. CASE BeginHeartbeat
  <2>1. UNCHANGED wire /\ SinceLast' = SinceLast
    BY <1>5, HeartbeatAssumption DEF BeginHeartbeat, engineVars, SinceLast
  <2> QED BY <1>1, <2>1 DEF SpacingInv
<1>6. CASE SendHeartbeat /\ engine = "silent"
  <2>1. wire' = <<>> /\ Len(wire') = 0
    BY <1>6 DEF SendHeartbeat, LoopInv
  <2> QED BY <2>1 DEF SpacingInv
<1>7. CASE SendHeartbeat /\ engine # "silent"
  <2> DEFINE h == [seq |-> IF timeout > 0 THEN sequence ELSE 0, age |-> 0]
  <2>1. h \in Heartbeats /\ wire' = Append(wire, h) /\ SinceLast' = 0
    BY <1>7 DEF SendHeartbeat, Heartbeats, TypeOK, SinceLast
  <2>2. /\ Len(wire') = Len(wire) + 1 /\ wire' # <<>>
        /\ \A i \in 1 .. Len(wire) : wire'[i] = wire[i]
        /\ wire'[Len(wire) + 1].age = 0
    BY <1>1, <2>1, OneWritten
  <2> HIDE DEF h
  <2>3. wire'[Len(wire')].age <= SinceLast'
    BY <1>1, <2>1, <2>2
  <2>4. ASSUME NEW i \in 1 .. Len(wire')
        PROVE  /\ wire'[i].age <= MaxDelay
               /\ i < Len(wire') => wire'[i].age <= wire'[i + 1].age + Period
    <3>1. CASE i = Len(wire) + 1
      BY <1>1, <2>2, <3>1, HeartbeatAssumption
    <3>2. CASE i = Len(wire) /\ i # 0
      <4>1. wire[i].age <= SinceLast /\ wire[i].age \in Nat /\ wire[i].age <= MaxDelay
        BY <1>1, <1>2, <1>4, <3>2, EmptySeq DEF SpacingInv
      <4> QED BY <1>1, <1>3, <2>2, <3>2, <4>1
    <3>3. CASE i < Len(wire)
      BY <1>1, <2>2, <3>3 DEF SpacingInv
    <3> QED BY <1>1, <2>2, <3>1, <3>2, <3>3
  <2> QED BY <2>3, <2>4 DEF SpacingInv
<1>8. CASE HeartbeatSent
  <2>1. UNCHANGED wire /\ SinceLast' = MaxStall /\ SinceLast <= MaxStall
    BY <1>8, HeartbeatAssumption DEF HeartbeatSent, engineVars, SinceLast, LoopInv, TypeOK
  <2>2. wire # <<>> => wire[Len(wire)].age <= SinceLast' /\ Len(wire) \in 1 .. Len(wire)
    BY <1>1, <1>2, <1>3, <1>4, <2>1, HeartbeatAssumption DEF SpacingInv
  <2> QED BY <1>1, <2>1, <2>2 DEF SpacingInv
<1>9. CASE Acknowledge \/ SkipHeartbeat
  <2>1. wire' = Tail(wire) /\ wire # <<>> /\ UNCHANGED <<loop, elapsed>>
    BY <1>9 DEF Acknowledge, HandleHeartbeat, SkipHeartbeat
  <2>2. /\ Len(wire') = Len(wire) - 1 /\ Len(wire) > 0 /\ (wire' = <<>> \/ Len(wire') > 0)
        /\ \A i \in 1 .. Len(wire) - 1 : wire'[i] = wire[i + 1]
        /\ SinceLast' = SinceLast
    BY <1>1, <1>4, <2>1, OneTaken, EmptySeq DEF SinceLast
  <2>3. ASSUME NEW i \in 1 .. Len(wire')
        PROVE  /\ wire'[i].age <= MaxDelay
               /\ i < Len(wire') => wire'[i].age <= wire'[i + 1].age + Period
    BY <1>1, <2>2 DEF SpacingInv
  <2>4. ASSUME wire' # <<>> PROVE wire'[Len(wire')].age <= SinceLast'
    BY <1>1, <2>1, <2>2, <2>4 DEF SpacingInv
  <2> QED BY <2>3, <2>4 DEF SpacingInv
<1>10. CASE OtherFrame \/ RogueHeartbeat \/ LivenessExpired \/ TransportFails \/ UNCHANGED vars
  BY <1>10, WireUntouched DEF OtherFrame, RogueHeartbeat, HandleHeartbeat, LivenessExpired,
     TransportFails, vars, policyVars, engineVars
<1>11. CASE GoSilent
  <2>1. wire' = <<>> /\ Len(wire') = 0
    BY <1>11 DEF GoSilent
  <2> QED BY <2>1 DEF SpacingInv
<1>12. CASE Tick
  <2>1. /\ Len(wire') = Len(wire) /\ (wire' = <<>> <=> wire = <<>>)
        /\ \A i \in 1 .. Len(wire) : wire'[i].age = wire[i].age + 1
    BY <1>1, <1>12, AllOlder DEF Tick
  <2>2. SinceLast' = SinceLast + 1
    BY <1>1, <1>12, HeartbeatAssumption DEF Tick, SinceLast, TypeOK
  <2>3. \A i \in 1 .. Len(wire) : wire[i].age < MaxDelay
    BY <1>1, <1>12, LenProperties DEF Tick
  <2>4. ASSUME NEW i \in 1 .. Len(wire')
        PROVE  /\ wire'[i].age <= MaxDelay
               /\ i < Len(wire') => wire'[i].age <= wire'[i + 1].age + Period
    <3>1. wire'[i].age <= MaxDelay
      BY <1>2, <2>1, <2>3, HeartbeatAssumption
    <3>2. ASSUME i < Len(wire') PROVE wire'[i].age <= wire'[i + 1].age + Period
      <4>1. /\ i + 1 \in 1 .. Len(wire) /\ wire[i].age <= wire[i + 1].age + Period
            /\ wire[i].age \in Nat /\ wire[i + 1].age \in Nat
        BY <1>1, <1>2, <2>1, <3>2 DEF SpacingInv
      <4> QED BY <1>3, <2>1, <4>1
    <3> QED BY <3>1, <3>2
  <2>5. ASSUME wire' # <<>> PROVE wire'[Len(wire')].age <= SinceLast'
    <3>1. /\ Len(wire) \in 1 .. Len(wire) /\ wire[Len(wire)].age <= SinceLast
          /\ wire[Len(wire)].age \in Nat
      BY <1>1, <1>2, <1>4, <2>1, <2>5 DEF SpacingInv
    <3> QED BY <1>3, <2>1, <2>2, <3>1
  <2> QED BY <2>4, <2>5 DEF SpacingInv
<1> QED BY <1>5, <1>6, <1>7, <1>8, <1>9, <1>10, <1>11, <1>12 DEF Next

\* Skipping, writing and waiting keep the bound on the silence.
LEMMA SilenceStep ==
  ASSUME TypeOK, LoopInv, SpacingInv, SilenceInv, [Next]_vars
  PROVE  SilenceInv'
<1> DEFINE Bound(n) == n * Period
<1> SUFFICES ASSUME heartbeat', timeout' > 0, engine' # "silent" PROVE SilenceInv'
  BY DEF SilenceInv
<1>1. UNCHANGED <<heartbeat, timeout>> /\ engine # "silent"
  BY DEF Next, vars, policyVars, engineVars, BeginHeartbeat, SendHeartbeat, HeartbeatSent,
     Acknowledge, OtherFrame, HandleHeartbeat, RogueHeartbeat, SkipHeartbeat, GoSilent,
     LivenessExpired, TransportFails, Tick
<1>2. /\ heartbeat /\ quiet \in Nat /\ skipped \in Nat
      /\ wire \in Seq(Heartbeats) /\ Len(wire) \in Nat /\ (wire # <<>> => Len(wire) > 0)
  BY <1>1, HeartbeatAssumption, LenProperties, EmptyWire DEF TypeOK, Heartbeats
<1>3. \A i \in 1 .. Len(wire) : wire[i] \in Heartbeats /\ wire[i].age \in Nat
  <2>1. \A i \in 1 .. Len(wire) : wire[i] \in Heartbeats
    BY <1>2, ElementOfSeq
  <2> QED BY <2>1 DEF Heartbeats
<1>4. /\ SinceLast \in Nat /\ SinceLast <= Period /\ Period \in Nat
      /\ Bound(skipped) \in Nat /\ Bound(skipped + 1) = Bound(skipped) + Period
      /\ Bound(skipped + 2) = Bound(skipped + 1) + Period
  <2>1. skipped + 1 \in Nat /\ skipped + 2 = (skipped + 1) + 1
    BY <1>2
  <2> QED BY <1>2, <2>1, SinceLastType, Periods
<1>5. /\ wire = <<>> => quiet <= Bound(skipped) + SinceLast
      /\ wire # <<>> => quiet <= Bound(skipped + 1) + wire[1].age
  BY <1>1 DEF SilenceInv
<1>6. SUFFICES /\ wire' = <<>> => quiet' <= Bound(skipped') + SinceLast'
               /\ wire' # <<>> => quiet' <= Bound(skipped' + 1) + wire'[1].age
  BY DEF SilenceInv
<1> HIDE DEF Bound
<1>7. CASE BeginHeartbeat
  <2>1. UNCHANGED <<wire, skipped, quiet>> /\ SinceLast' = SinceLast
    BY <1>7, HeartbeatAssumption DEF BeginHeartbeat, engineVars, SinceLast
  <2> QED BY <1>5, <2>1
<1>8. CASE SendHeartbeat
  <2> DEFINE h == [seq |-> IF timeout > 0 THEN sequence ELSE 0, age |-> 0]
  <2>1. /\ h \in Heartbeats /\ wire' = Append(wire, h)
        /\ UNCHANGED <<skipped, quiet>>
    BY <1>1, <1>8 DEF SendHeartbeat, Heartbeats, TypeOK
  <2>2. /\ wire' # <<>> /\ wire'[Len(wire) + 1].age = 0
        /\ \A i \in 1 .. Len(wire) : wire'[i] = wire[i]
    BY <1>2, <2>1, OneWritten
  <2> HIDE DEF h
  <2>3. CASE wire = <<>>
    <3>1. wire'[1].age = 0
      BY <1>2, <2>2, <2>3, EmptyWire
    <3> QED BY <1>2, <1>4, <1>5, <2>1, <2>2, <2>3, <3>1
  <2>4. CASE wire # <<>>
    <3>1. wire'[1] = wire[1]
      BY <1>2, <2>2, <2>4
    <3> QED BY <1>5, <2>1, <2>2, <2>4, <3>1
  <2> QED BY <2>3, <2>4
<1>9. CASE HeartbeatSent
  <2>1. UNCHANGED <<wire, skipped, quiet>> /\ SinceLast' \in Nat /\ SinceLast <= SinceLast'
    BY <1>9, HeartbeatAssumption DEF HeartbeatSent, engineVars, SinceLast, LoopInv, TypeOK
  <2> QED BY <1>2, <1>4, <1>5, <2>1
<1>10. CASE Acknowledge \/ OtherFrame \/ RogueHeartbeat
  <2>1. /\ quiet' = 0 /\ skipped' \in Nat /\ UNCHANGED <<loop, elapsed>>
        /\ wire' = wire \/ (wire # <<>> /\ wire' = Tail(wire))
    BY <1>2, <1>10 DEF Acknowledge, OtherFrame, RogueHeartbeat, HandleHeartbeat, ReadFrame,
       engineVars
  <2>2. SinceLast' \in Nat /\ Bound(skipped') \in Nat /\ Bound(skipped' + 1) \in Nat
    <3>1. SinceLast' = SinceLast
      BY <2>1 DEF SinceLast
    <3>2. skipped' \in Nat
      BY <2>1
    <3>3. Bound(skipped') \in Nat /\ Bound(skipped' + 1) \in Nat
      BY <3>2, Periods DEF Bound
    <3> QED BY <1>4, <3>1, <3>3
  <2>3. wire' # <<>> => wire'[1].age \in Nat
    <3>1. CASE wire' = wire
      BY <1>2, <1>3, <3>1
    <3>2. CASE wire # <<>> /\ wire' = Tail(wire) /\ wire' # <<>>
      <4>1. wire' \in Seq(Heartbeats) /\ Len(wire') = Len(wire) - 1 /\ wire'[1] = wire[2]
        BY <1>2, <3>2, OneTaken, EmptyWire
      <4> QED BY <1>2, <1>3, <3>2, <4>1, EmptyWire
    <3> QED BY <2>1, <3>1, <3>2
  <2> QED BY <2>1, <2>2, <2>3
<1>11. CASE SkipHeartbeat
  <2>1. /\ wire # <<>> /\ wire' = Tail(wire) /\ skipped' = skipped + 1
        /\ UNCHANGED <<quiet, loop, elapsed>>
    BY <1>11 DEF SkipHeartbeat
  <2>2. /\ Len(wire') = Len(wire) - 1 /\ (wire' = <<>> => Len(wire) = 1)
        /\ wire' # <<>> => Len(wire) >= 2 /\ wire'[1] = wire[2]
        /\ SinceLast' = SinceLast
    BY <1>2, <2>1, OneTaken, EmptyWire DEF SinceLast
  <2>3. quiet <= Bound(skipped + 1) + wire[1].age /\ wire[1].age \in Nat
    BY <1>2, <1>3, <1>5, <2>1
  <2>4. CASE wire' = <<>>
    <3>1. wire[1].age <= SinceLast
      BY <1>2, <2>1, <2>2, <2>4 DEF SpacingInv
    <3> QED BY <1>2, <1>4, <2>1, <2>2, <2>3, <2>4, <3>1, SMTT(30)
  <2>5. CASE wire' # <<>>
    <3>1. wire[1].age <= wire[2].age + Period /\ wire[2].age \in Nat
      BY <1>2, <1>3, <2>2, <2>5 DEF SpacingInv
    <3>2. skipped' + 1 = skipped + 2
      BY <1>2, <2>1
    <3>3. quiet <= Bound(skipped + 2) + wire[2].age
      <4> DEFINE b == Bound(skipped + 1)
                 a == wire[1].age
                 c == wire[2].age
      <4>1. b \in Nat /\ a \in Nat /\ c \in Nat /\ Period \in Nat /\ quiet \in Nat
        BY <1>2, <1>4, <2>3, <3>1
      <4>2. quiet <= b + a /\ a <= c + Period /\ Bound(skipped + 2) = b + Period
        BY <1>4, <2>3, <3>1
      <4> HIDE DEF a, b, c
      <4>3. quiet <= (b + Period) + c
        BY <4>1, <4>2
      <4> QED BY <4>2, <4>3 DEF b, c
    <3> QED BY <2>1, <2>2, <2>5, <3>2, <3>3
  <2> QED BY <2>4, <2>5
<1>12. CASE LivenessExpired \/ TransportFails \/ UNCHANGED vars
  <2>1. UNCHANGED <<wire, skipped, quiet, loop, elapsed>>
    BY <1>12 DEF LivenessExpired, TransportFails, vars, engineVars
  <2> QED BY <1>5, <2>1 DEF SinceLast
<1>13. CASE Tick
  <2>1. /\ wire' = <<>> <=> wire = <<>>
        /\ wire # <<>> => wire'[1].age = wire[1].age + 1 /\ wire[1].age \in Nat
    BY <1>2, <1>3, <1>13, AllOlder DEF Tick
  <2>2. SinceLast' = SinceLast + 1
    BY <1>2, <1>13, HeartbeatAssumption DEF Tick, SinceLast, TypeOK
  <2>3. UNCHANGED skipped /\ quiet' = quiet + 1
    BY <1>1, <1>13 DEF Tick
  <2> QED BY <1>2, <1>4, <1>5, <2>1, <2>2, <2>3, SMTT(30)
<1>14. CASE GoSilent
  BY <1>14 DEF GoSilent
<1> QED BY <1>7, <1>8, <1>9, <1>10, <1>11, <1>12, <1>13, <1>14 DEF Next

\* Writing numbers the heartbeats upwards, and answering takes the lowest.
LEMMA AnswerStep ==
  ASSUME TypeOK, LoopInv, AnswerInv, HonestAnswersAccepted, [Next]_vars
  PROVE  AnswerInv' /\ HonestAnswersAccepted'
<1> DEFINE Locking == IF loop = "locking" THEN 1 ELSE 0
<1>1. /\ wire \in Seq(Heartbeats) /\ Len(wire) \in Nat /\ (wire # <<>> => Len(wire) > 0)
      /\ sequence \in Nat /\ acknowledgement \in Nat /\ timeout \in Nat
  BY HeartbeatAssumption, LenProperties, EmptyWire DEF TypeOK, Heartbeats
<1>2. \A i \in 1 .. Len(wire) : wire[i].seq \in Nat
  <2>1. \A i \in 1 .. Len(wire) : wire[i] \in Heartbeats
    BY <1>1, ElementOfSeq
  <2> QED BY <2>1 DEF Heartbeats
<1>3. CASE engine' # "up"
  <2>1. AnswerInv'
    BY <1>3 DEF AnswerInv
  <2>2. HonestAnswersAccepted'
    <3>1. CASE engine' = "rogue"
      BY <3>1 DEF HonestAnswersAccepted
    <3>2. CASE engine' = "silent"
      <4>1. chan = "open" \/ (engine = "silent" /\ chan' = chan)
        BY <3>2 DEF Next, vars, policyVars, engineVars, BeginHeartbeat, SendHeartbeat,
           HeartbeatSent, Acknowledge, OtherFrame, HandleHeartbeat, RogueHeartbeat,
           SkipHeartbeat, GoSilent, LivenessExpired, TransportFails, Tick, ReadFrame
      <4>2. chan' \in {chan, "liveness", "transport"}
        BY <3>2 DEF Next, vars, policyVars, engineVars, BeginHeartbeat, SendHeartbeat,
           HeartbeatSent, Acknowledge, OtherFrame, HandleHeartbeat, RogueHeartbeat,
           SkipHeartbeat, GoSilent, LivenessExpired, TransportFails, Tick
      <4> QED BY <4>1, <4>2 DEF HonestAnswersAccepted
    <3>3. engine' \in {"up", "silent", "rogue"}
      BY TypeStep DEF TypeOK
    <3> QED BY <1>3, <3>1, <3>2, <3>3
  <2> QED BY <2>1, <2>2
<1>4. CASE engine' = "up"
  <2>1. engine = "up" /\ chan # "protocol" /\ UNCHANGED timeout /\ ~RogueHeartbeat /\ ~GoSilent
    BY <1>4 DEF HonestAnswersAccepted, Next, vars, policyVars, engineVars, BeginHeartbeat,
       SendHeartbeat, HeartbeatSent, Acknowledge, OtherFrame, HandleHeartbeat, RogueHeartbeat,
       SkipHeartbeat, GoSilent, LivenessExpired, TransportFails, Tick
  <2> USE DEF AnswerInv
  <2>2. CASE BeginHeartbeat
    <3>1. /\ UNCHANGED <<wire, acknowledgement, chan>> /\ sequence' = sequence + 1
          /\ loop = "sleeping" /\ loop' = "locking" /\ acknowledgement <= sequence
      BY <2>2 DEF BeginHeartbeat, engineVars, TypeOK
    <3>2. ASSUME timeout = 0 PROVE \A i \in 1 .. Len(wire') : wire'[i].seq = 0
      BY <2>1, <3>1, <3>2
    <3>3. ASSUME timeout > 0, NEW i \in 1 .. Len(wire')
          PROVE  /\ acknowledgement < wire'[i].seq /\ wire'[i].seq + 1 <= sequence'
                 /\ \A j \in 1 .. Len(wire') : i < j => wire'[i].seq < wire'[j].seq
      <4>1. /\ acknowledgement < wire[i].seq /\ wire[i].seq + 0 <= sequence
            /\ \A j \in 1 .. Len(wire) : i < j => wire[i].seq < wire[j].seq
        BY <2>1, <3>1, <3>3
      <4>2. wire[i].seq + 1 <= sequence + 1
        BY <1>1, <1>2, <3>1, <4>1
      <4> QED BY <3>1, <4>1, <4>2
    <3>4. acknowledgement' < sequence'
      BY <1>1, <3>1
    <3>5. timeout' = timeout /\ timeout' \in Nat
      BY <1>1, <2>1
    <3>6. AnswerInv'
      BY <3>1, <3>2, <3>3, <3>4, <3>5
    <3> QED BY <2>1, <3>1, <3>6 DEF HonestAnswersAccepted
  <2>3. CASE SendHeartbeat
    <3> DEFINE h == [seq |-> IF timeout > 0 THEN sequence ELSE 0, age |-> 0]
    <3>1. /\ h \in Heartbeats /\ wire' = Append(wire, h)
          /\ h.seq = IF timeout > 0 THEN sequence ELSE 0
          /\ UNCHANGED <<acknowledgement, chan, sequence>>
          /\ loop = "locking" /\ loop' = "draining"
      BY <1>1, <2>1, <2>3 DEF SendHeartbeat, Heartbeats
    <3>2. /\ Len(wire') = Len(wire) + 1 /\ wire'[Len(wire) + 1] = h
          /\ \A i \in 1 .. Len(wire) : wire'[i] = wire[i]
      BY <1>1, <3>1, OneWritten
    <3> HIDE DEF h
    <3>3. ASSUME timeout = 0 PROVE \A i \in 1 .. Len(wire') : wire'[i].seq = 0
      BY <1>1, <2>1, <3>1, <3>2, <3>3
    <3>4. ASSUME timeout > 0, NEW i \in 1 .. Len(wire')
          PROVE  /\ acknowledgement < wire'[i].seq /\ wire'[i].seq <= sequence
                 /\ \A j \in 1 .. Len(wire') : i < j => wire'[i].seq < wire'[j].seq
      <4>1. CASE i = Len(wire) + 1
        BY <1>1, <2>1, <3>1, <3>2, <3>4, <4>1
      <4>2. CASE i \in 1 .. Len(wire)
        <5>1. /\ acknowledgement < wire[i].seq /\ wire[i].seq + 1 <= sequence
              /\ \A j \in 1 .. Len(wire) : i < j => wire[i].seq < wire[j].seq
              /\ wire[i].seq \in Nat
          BY <1>1, <1>2, <2>1, <3>1, <3>4, <4>2
        <5>2. wire[i].seq < sequence
          BY <1>1, <5>1
        <5>3. ASSUME NEW j \in 1 .. Len(wire'), i < j PROVE wire'[i].seq < wire'[j].seq
          <6>1. CASE j = Len(wire) + 1
            BY <3>1, <3>2, <3>4, <4>2, <5>2, <6>1
          <6>2. CASE j \in 1 .. Len(wire)
            BY <3>2, <4>2, <5>1, <5>3, <6>2
          <6> QED BY <1>1, <3>2, <6>1, <6>2
        <5> QED BY <1>1, <3>2, <4>2, <5>1, <5>2, <5>3
      <4> QED BY <1>1, <3>2, <4>1, <4>2
    <3>5. \A i \in 1 .. Len(wire') : wire'[i].seq \in Nat
      BY <1>1, <1>2, <3>1, <3>2 DEF Heartbeats
    <3> QED BY <1>1, <2>1, <3>1, <3>3, <3>4, <3>5 DEF HonestAnswersAccepted
  <2>4. CASE HeartbeatSent
    <3>1. UNCHANGED <<wire, acknowledgement, chan, sequence>> /\ loop = "draining"
          /\ loop' = "sleeping"
      BY <2>4 DEF HeartbeatSent, engineVars
    <3> QED BY <2>1, <3>1 DEF HonestAnswersAccepted
  <2>5. CASE Acknowledge
    <3>1. /\ wire # <<>> /\ wire' = Tail(wire) /\ UNCHANGED <<sequence, loop>>
          /\ chan' = IF HeartbeatValid(0, Head(wire).seq) THEN "open" ELSE "protocol"
          /\ acknowledgement' = IF HeartbeatValid(0, Head(wire).seq) THEN Head(wire).seq
                                ELSE acknowledgement
      BY <2>5 DEF Acknowledge, HandleHeartbeat, ReadFrame
    <3>2. /\ Head(wire) = wire[1] /\ Len(wire') = Len(wire) - 1
          /\ \A i \in 1 .. Len(wire) - 1 : wire'[i] = wire[i + 1]
          /\ 1 \in 1 .. Len(wire)
      BY <1>1, <3>1, OneTaken
    <3>3. HeartbeatValid(0, wire[1].seq)
      BY <1>1, <1>2, <2>1, <3>1, <3>2 DEF HeartbeatValid, LoopInv
    <3>4. chan' = "open" /\ acknowledgement' = wire[1].seq
      BY <3>1, <3>2, <3>3
    <3>5. ASSUME timeout = 0 PROVE \A i \in 1 .. Len(wire') : wire'[i].seq = 0
      BY <1>1, <2>1, <3>2, <3>5
    <3>6. ASSUME timeout > 0, NEW i \in 1 .. Len(wire')
          PROVE  /\ wire[1].seq < wire'[i].seq /\ wire'[i].seq + Locking <= sequence
                 /\ \A j \in 1 .. Len(wire') : i < j => wire'[i].seq < wire'[j].seq
      <4>1. wire'[i] = wire[i + 1] /\ i + 1 \in 1 .. Len(wire) /\ 1 < i + 1
        BY <1>1, <3>2
      <4>2. ASSUME NEW j \in 1 .. Len(wire'), i < j PROVE wire'[i].seq < wire'[j].seq
        <5>1. wire'[j] = wire[j + 1] /\ j + 1 \in 1 .. Len(wire) /\ i + 1 < j + 1
          BY <1>1, <3>2, <4>2
        <5> QED BY <2>1, <3>6, <4>1, <5>1
      <4>3. wire[1].seq < wire'[i].seq /\ wire'[i].seq + Locking <= sequence
        BY <2>1, <3>2, <3>6, <4>1
      <4> QED BY <4>2, <4>3
    <3>7. timeout > 0 /\ loop = "locking" => wire[1].seq < sequence
      BY <1>1, <1>2, <2>1, <3>2
    <3> QED BY <2>1, <3>1, <3>4, <3>5, <3>6, <3>7 DEF HonestAnswersAccepted
  <2>6. CASE OtherFrame \/ LivenessExpired \/ TransportFails \/ UNCHANGED vars
    <3>1. UNCHANGED <<wire, acknowledgement, sequence, loop>> /\ chan' # "protocol"
      BY <2>1, <2>6 DEF OtherFrame, ReadFrame, LivenessExpired, TransportFails, vars,
         engineVars
    <3> QED BY <2>1, <3>1 DEF HonestAnswersAccepted
  <2>7. CASE SkipHeartbeat
    <3>1. /\ wire # <<>> /\ wire' = Tail(wire)
          /\ UNCHANGED <<sequence, acknowledgement, loop, chan>>
      BY <2>7 DEF SkipHeartbeat
    <3>2. /\ Len(wire') = Len(wire) - 1
          /\ \A i \in 1 .. Len(wire) - 1 : wire'[i] = wire[i + 1]
      BY <1>1, <3>1, OneTaken
    <3>3. \A i \in 1 .. Len(wire') :
            wire'[i] = wire[i + 1] /\ i + 1 \in 1 .. Len(wire)
      BY <1>1, <3>2
    <3>4. \A i, j \in 1 .. Len(wire') : i < j => i + 1 < j + 1
      BY <1>1, <3>2
    <3> QED BY <2>1, <3>1, <3>3, <3>4 DEF HonestAnswersAccepted
  <2>8. CASE Tick
    <3>1. UNCHANGED <<sequence, acknowledgement, loop, chan>>
      BY <2>8 DEF Tick
    <3>2. Len(wire') = Len(wire) /\ \A i \in 1 .. Len(wire) : wire'[i].seq = wire[i].seq
      BY <1>1, <2>8, AllOlder DEF Tick
    <3> QED BY <2>1, <3>1, <3>2 DEF HonestAnswersAccepted
  <2> QED BY <2>1, <2>2, <2>3, <2>4, <2>5, <2>6, <2>7, <2>8 DEF Next
<1> QED BY <1>3, <1>4

-----------------------------------------------------------------------------
\* The theorems

\* The invariant is inductive.
THEOREM Invariance == Spec => []IInv
<1>1. Init => IInv
  BY InitIInv
<1>2. IInv /\ [Next]_vars => IInv'
  BY TypeStep, LoopStep, TimerStep, SpacingStep, SilenceStep, AnswerStep DEF IInv
<1> QED BY <1>1, <1>2, PTL DEF Spec

\* The variables of the heartbeat keep their types: the timer stays within the
\* deadline and the acknowledgement within the sequence.
THEOREM TypeCorrect == Spec => []TypeOK
BY Invariance, PTL DEF IInv

\* Whatever the policy, the channel of a peer that sends nothing is open no longer
\* than the negotiated timeout, and is failed for nothing else than that silence.
THEOREM DeadlineMeasuresSilence == Spec => []ExpiryMeasuresSilence
<1>1. IInv => ExpiryMeasuresSilence
  BY DEF IInv, TypeOK, TimerInv, ExpiryMeasuresSilence
<1> QED BY <1>1, Invariance, PTL

\* A deadline above LongestSilence is safe: no combination of stalled writes,
\* delayed answers and unanswered heartbeats fails the channel of a live engine.
THEOREM LiveEngineNeverExpires == Spec => []NoSpuriousExpiry
<1>1. IInv => NoSpuriousExpiry
  <2> SUFFICES ASSUME IInv, chan = "liveness", LongestSilence < timeout, engine # "silent"
               PROVE  FALSE
    BY DEF NoSpuriousExpiry
  <2>1. /\ quiet = timeout /\ heartbeat /\ timeout > 0
        /\ quiet \in Nat /\ timeout \in Nat /\ skipped \in Nat /\ skipped <= MaxSkips
        /\ wire \in Seq(Heartbeats)
    BY HeartbeatAssumption DEF IInv, TypeOK, TimerInv, LoopInv, Heartbeats
  <2>2. /\ SinceLast \in Nat /\ SinceLast <= Period /\ Period \in Nat
        /\ skipped * Period \in Nat /\ (skipped + 1) * Period = skipped * Period + Period
    BY <2>1, SinceLastType, Periods DEF IInv
  <2>3. (skipped + 1) * Period <= (MaxSkips + 1) * Period
    BY <2>1, HeartbeatAssumption, MorePeriods
  <2>4. LongestSilence = (MaxSkips + 1) * Period + MaxDelay /\ (MaxSkips + 1) * Period \in Nat
    BY Periods, HeartbeatAssumption DEF LongestSilence, Period
  <2>5. CASE wire = <<>>
    <3>1. quiet <= skipped * Period + SinceLast
      BY <2>1, <2>5 DEF IInv, SilenceInv
    <3> QED BY <2>1, <2>2, <2>3, <2>4, <3>1, HeartbeatAssumption
  <2>6. CASE wire # <<>>
    <3>1. quiet <= (skipped + 1) * Period + wire[1].age
      BY <2>1, <2>6 DEF IInv, SilenceInv
    <3>2. 1 \in 1 .. Len(wire) /\ wire[1] \in Heartbeats
      BY <2>1, <2>6, OneTaken
    <3>3. wire[1].age <= MaxDelay /\ wire[1].age \in Nat
      BY <2>1, <3>2 DEF IInv, SpacingInv, Heartbeats
    <3> QED BY <2>1, <2>2, <2>3, <2>4, <3>1, <3>3, HeartbeatAssumption
  <2> QED BY <2>5, <2>6
<1> QED BY <1>1, Invariance, PTL

\* An engine that only answers what it was sent never fails the channel as a
\* protocol violation.
THEOREM HonestEngineAccepted == Spec => []HonestAnswersAccepted
<1>1. IInv => HonestAnswersAccepted
  BY DEF IInv
<1> QED BY <1>1, Invariance, PTL
=============================================================================
