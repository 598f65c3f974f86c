----------------------------- MODULE FifoStation -----------------------------
(***************************************************************************)
(* What the proxy pool of a control channel promises, whatever its workers *)
(* do: a queueing station with Servers servers and Places waiting places.  *)
(* Requests enter service in the order they arrive; a request waits only   *)
(* while every server is busy; one that finds no place shuts the station.  *)
(***************************************************************************)
EXTENDS Naturals, Sequences, FiniteSets

CONSTANTS Requests, Servers, Places

VARIABLES
  arrived,   \* every request that came, in order
  served,    \* every request that entered service, in order
  line,      \* requests waiting
  busy,      \* requests in service
  shut

vars == <<arrived, served, line, busy, shut>>

Init == arrived = <<>> /\ served = <<>> /\ line = <<>> /\ busy = {} /\ shut = FALSE

Full == Cardinality(busy) >= Servers

Arrive(r) ==
  /\ ~shut /\ \A i \in DOMAIN arrived : arrived[i] # r
  /\ arrived' = Append(arrived, r)
  /\ \/ /\ ~Full
        /\ line = <<>>
        /\ busy' = busy \cup {r} /\ served' = Append(served, r)
        /\ UNCHANGED <<line, shut>>
     \/ /\ Full /\ Len(line) < Places
        /\ line' = Append(line, r)
        /\ UNCHANGED <<served, busy, shut>>
     \/ /\ Full /\ Len(line) >= Places
        /\ line' = <<>> /\ shut' = TRUE
        /\ UNCHANGED <<served, busy>>

\* A server that becomes free takes the head of the line at once.
Depart(r) ==
  /\ r \in busy
  /\ \/ /\ line = <<>>
        /\ busy' = busy \ {r}
        /\ UNCHANGED <<served, line, shut>>
     \/ /\ line # <<>>
        /\ busy' = (busy \ {r}) \cup {Head(line)}
        /\ served' = Append(served, Head(line))
        /\ line' = Tail(line)
        /\ UNCHANGED shut
     \/ /\ line' = <<>> /\ shut' = TRUE
        /\ busy' = busy \ {r}
        /\ UNCHANGED served
  /\ UNCHANGED arrived

Shut ==
  /\ line' = <<>> /\ shut' = TRUE
  /\ UNCHANGED <<arrived, served, busy>>

Next == Shut \/ \E r \in Requests : Arrive(r) \/ Depart(r)

Spec == Init /\ [][Next]_vars
=============================================================================
