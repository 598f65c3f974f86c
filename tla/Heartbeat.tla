------------------------------ MODULE Heartbeat ------------------------------
(***************************************************************************)
(* The heartbeat of a control channel and its liveness deadline, in        *)
(* discrete time: the policy connect() accepts (client.py), the heartbeat  *)
(* loop, the acknowledgements the reader checks and the timer every frame  *)
(* re-arms (control.py).                                                   *)
(*                                                                         *)
(* The engine, the network and the write path are external and described   *)
(* by bounds: a heartbeat waits at most MaxStall for the write lock and at *)
(* most MaxStall for the drain, an engine that is up answers the           *)
(* heartbeats in the order they were written, each within MaxDelay, and    *)
(* leaves at most MaxSkips in a row without an answer.                     *)
(***************************************************************************)
EXTENDS Integers, Sequences

CONSTANTS
  Interval,    \* heartbeat_interval
  MaxTimeout,  \* _MAX_HEARTBEAT_TIMEOUT_MS
  Answers,     \* liveness policies of OpenControlChannelRsp.Ok
  Nothing,     \* a response without a liveness policy
  MaxStall, MaxDelay, MaxSkips,
  MaxSequence  \* bound: time stops when a heartbeat beyond it is due

ASSUME HeartbeatAssumption ==
  /\ Interval \in Nat \ {0}
  /\ MaxTimeout \in Nat /\ MaxStall \in Nat /\ MaxDelay \in Nat
  /\ MaxSkips \in Nat /\ MaxSequence \in Nat
  /\ Nothing \notin Answers
  /\ Answers \subseteq [interval : Nat, timeout : Nat]

VARIABLES
  heartbeat,       \* ControlChannel._heartbeat
  timeout,         \* ControlChannel._heartbeat_timeout, 0 when not negotiated
  chan,            \* "refused" by connect(), "open", or failed: "liveness",
                   \* "protocol", "transport"
  sequence,        \* ControlChannel._heartbeat_sequence
  acknowledgement, \* ControlChannel._heartbeat_acknowledgement
  loop,            \* where the heartbeat loop is: "locking" and "draining" a
                   \* heartbeat, or "sleeping"
  elapsed,         \* and for how long
  timer,           \* time left to the deadline, while the liveness timer is armed
  wire,            \* heartbeats written and not answered yet, with their age
  engine,          \* "up", "silent", or "rogue": it sent a heartbeat of its own
  skipped,         \* heartbeats in a row the engine left without an answer
  quiet            \* history: time since the last frame was read

engineVars == <<wire, engine, skipped>>
policyVars == <<heartbeat, timeout>>
vars == <<policyVars, chan, sequence, acknowledgement, loop, elapsed, timer,
          engineVars, quiet>>

-----------------------------------------------------------------------------
\* connect() and the constructor

Accepted(hb, answer) ==
  \/ answer = Nothing
  \/ /\ hb /\ answer.interval = Interval
     /\ answer.interval <= answer.timeout /\ answer.timeout <= MaxTimeout

Negotiated(answer) == IF answer = Nothing THEN 0 ELSE answer.timeout

Init ==
  /\ heartbeat \in BOOLEAN
  /\ \E answer \in Answers \cup {Nothing} :
       /\ timeout = Negotiated(answer)
       /\ chan = IF Accepted(heartbeat, answer) THEN "open" ELSE "refused"
  /\ sequence = 0 /\ acknowledgement = 0
  /\ loop = "sleeping" /\ elapsed = Interval
  /\ timer = timeout
  /\ wire = <<>> /\ engine = "up" /\ skipped = 0
  /\ quiet = 0

-----------------------------------------------------------------------------
\* _heartbeat_loop(): the first heartbeat is due at once

BeginHeartbeat ==
  /\ chan = "open" /\ heartbeat
  /\ loop = "sleeping" /\ elapsed = Interval /\ sequence < MaxSequence
  /\ sequence' = sequence + 1
  /\ loop' = "locking" /\ elapsed' = 0
  /\ UNCHANGED <<policyVars, chan, acknowledgement, timer, engineVars, quiet>>

\* Mutant: writing re-arms the timer as well.
SendHeartbeatRearms ==
  /\ chan = "open" /\ loop = "locking"
  /\ wire' = IF engine = "silent" THEN wire
             ELSE Append(wire, [seq |-> IF timeout > 0 THEN sequence ELSE 0, age |-> 0])
  /\ loop' = "draining" /\ elapsed' = 0 /\ timer' = timeout
  /\ UNCHANGED <<policyVars, chan, sequence, acknowledgement, engine, skipped, quiet>>

\* A heartbeat carries a sequence number under a negotiated policy only.
SendHeartbeat ==
  /\ chan = "open" /\ loop = "locking"
  /\ wire' = IF engine = "silent" THEN wire
             ELSE Append(wire, [seq |-> IF timeout > 0 THEN sequence ELSE 0, age |-> 0])
  /\ loop' = "draining" /\ elapsed' = 0
  /\ UNCHANGED <<policyVars, chan, sequence, acknowledgement, timer, engine, skipped, quiet>>

HeartbeatSent ==
  /\ chan = "open" /\ loop = "draining"
  /\ loop' = "sleeping" /\ elapsed' = 0
  /\ UNCHANGED <<policyVars, chan, sequence, acknowledgement, timer, engineVars, quiet>>

-----------------------------------------------------------------------------
\* _read_loop()

\* Mutant: a frame does not re-arm the timer.
ReadFrameKeepsTimer(ok) ==
  /\ chan = "open"
  /\ chan' = IF ok THEN "open" ELSE "protocol"
  /\ quiet' = 0
  /\ UNCHANGED timer

\* The reader takes a frame of the engine; every frame it accepts re-arms the timer.
ReadFrame(ok) ==
  /\ chan = "open"
  /\ chan' = IF ok THEN "open" ELSE "protocol"
  /\ timer' = IF ok THEN timeout ELSE timer
  /\ quiet' = 0

\* Mutants: an answer is not compared with the sequence, or with an off-by-one.
HeartbeatValidUnbounded(seq, ack) ==
  /\ heartbeat
  /\ seq = 0
  /\ IF timeout = 0 THEN ack = 0 ELSE acknowledgement < ack

HeartbeatValidStrict(seq, ack) ==
  /\ heartbeat
  /\ seq = 0
  /\ IF timeout = 0 THEN ack = 0
     ELSE acknowledgement < ack /\ ack < sequence

HeartbeatValid(seq, ack) ==
  /\ heartbeat
  /\ seq = 0
  /\ IF timeout = 0 THEN ack = 0
     ELSE acknowledgement < ack /\ ack <= sequence

HandleHeartbeat(seq, ack) ==
  /\ ReadFrame(HeartbeatValid(seq, ack))
  /\ acknowledgement' = IF HeartbeatValid(seq, ack) THEN ack ELSE acknowledgement
  /\ UNCHANGED <<policyVars, sequence, loop, elapsed>>

Acknowledge ==
  /\ engine # "silent" /\ wire # <<>>
  /\ HandleHeartbeat(0, Head(wire).seq)
  /\ wire' = Tail(wire) /\ skipped' = 0
  /\ UNCHANGED engine

\* Any other message
OtherFrame ==
  /\ engine # "silent"
  /\ ReadFrame(TRUE)
  /\ UNCHANGED <<policyVars, sequence, acknowledgement, loop, elapsed, engineVars>>

-----------------------------------------------------------------------------
\* The engine

SkipHeartbeat ==
  /\ chan = "open" /\ engine # "silent" /\ wire # <<>> /\ skipped < MaxSkips
  /\ wire' = Tail(wire) /\ skipped' = skipped + 1
  /\ UNCHANGED <<policyVars, chan, sequence, acknowledgement, loop, elapsed, timer,
                 engine, quiet>>

\* A heartbeat message that answers nothing
RogueHeartbeat ==
  /\ engine # "silent"
  /\ \E seq \in {0, 1}, ack \in 0 .. sequence + 1 : HandleHeartbeat(seq, ack)
  /\ engine' = "rogue"
  /\ UNCHANGED <<wire, skipped>>

GoSilent ==
  /\ chan = "open" /\ engine # "silent"
  /\ engine' = "silent" /\ wire' = <<>>
  /\ UNCHANGED <<policyVars, chan, sequence, acknowledgement, loop, elapsed, timer,
                 skipped, quiet>>

-----------------------------------------------------------------------------
\* Time

LivenessExpired ==
  /\ chan = "open" /\ timeout > 0 /\ timer = 0
  /\ chan' = "liveness"
  /\ UNCHANGED <<policyVars, sequence, acknowledgement, loop, elapsed, timer,
                 engineVars, quiet>>

\* A write of the heartbeat loop or the read of the next frame fails.
TransportFails ==
  /\ chan = "open"
  /\ chan' = "transport"
  /\ UNCHANGED <<policyVars, sequence, acknowledgement, loop, elapsed, timer,
                 engineVars, quiet>>

\* Time passes when nothing is due: a timer runs when it is due, not later.
Tick ==
  /\ chan = "open"
  /\ timeout > 0 => timer > 0
  /\ heartbeat => elapsed < IF loop = "sleeping" THEN Interval ELSE MaxStall
  /\ \A i \in DOMAIN wire : wire[i].age < MaxDelay
  /\ timer' = IF timeout > 0 THEN timer - 1 ELSE timer
  /\ elapsed' = IF heartbeat THEN elapsed + 1 ELSE elapsed
  /\ wire' = [i \in DOMAIN wire |-> [seq |-> wire[i].seq, age |-> wire[i].age + 1]]
  /\ quiet' = IF timeout > 0 THEN quiet + 1 ELSE 0
  /\ UNCHANGED <<policyVars, chan, sequence, acknowledgement, loop, engine, skipped>>

Next ==
  \/ BeginHeartbeat \/ SendHeartbeat \/ HeartbeatSent
  \/ Acknowledge \/ OtherFrame
  \/ SkipHeartbeat \/ RogueHeartbeat \/ GoSilent
  \/ LivenessExpired \/ TransportFails \/ Tick

Spec == Init /\ [][Next]_vars

-----------------------------------------------------------------------------
\* Properties

TypeOK ==
  /\ heartbeat \in BOOLEAN
  /\ timeout \in Nat /\ timer \in 0 .. timeout
  /\ chan \in {"refused", "open", "liveness", "protocol", "transport"}
  /\ sequence \in 0 .. MaxSequence /\ acknowledgement \in 0 .. sequence
  /\ loop \in {"sleeping", "locking", "draining"} /\ elapsed \in Nat
  /\ wire \in Seq([seq : Nat, age : Nat])
  /\ engine \in {"up", "silent", "rogue"}
  /\ skipped \in 0 .. MaxSkips
  /\ quiet \in Nat

\* The longest a live engine can leave the client without a frame
LongestSilence == (MaxSkips + 1) * (Interval + 2 * MaxStall) + MaxDelay

\* _arm_liveness_timer(): a deadline longer than the longest silence of a live
\* engine never fails the channel of an engine that is up, whatever the stalls
\* of the writes, the delays of the answers and the heartbeats left unanswered.
NoSpuriousExpiry ==
  chan = "liveness" /\ LongestSilence < timeout => engine = "silent"

\* _liveness_expired(): the channel fails exactly when no frame was read for the
\* negotiated time; in particular the client's own heartbeats never hide the
\* silence of the engine.
ExpiryMeasuresSilence ==
  /\ chan = "open" /\ timeout > 0 => quiet <= timeout
  /\ chan = "liveness" => quiet = timeout

\* _handle_heartbeat(): whatever was skipped, delayed or still waiting for the
\* write lock, an answer to a heartbeat of this channel is never taken for an
\* invalid one.
HonestAnswersAccepted == chan = "protocol" => engine = "rogue"
=============================================================================
