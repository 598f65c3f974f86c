----------------------------- MODULE MCHeartbeat -----------------------------
(***************************************************************************)
(* Heartbeat in ticks of half an interval, with every kind of policy:      *)
(* without margin, below and above the longest silence, and invalid.       *)
(***************************************************************************)
EXTENDS Heartbeat

MCAnswers ==
  [interval : {Interval}, timeout : {Interval - 1, Interval, 8, 10, MaxTimeout + 1}]
    \cup {[interval |-> Interval + 1, timeout |-> 10]}
=============================================================================
