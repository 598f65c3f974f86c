------------------------------ MODULE MCTunnel ------------------------------
(***************************************************************************)
(* Tunnel with two streams, one of them relayed to a peer that may stop    *)
(* reading, a task that accepts, one that forwards and one that closes.    *)
(***************************************************************************)
EXTENDS Tunnel

CONSTANTS s1, s2, app, fwd, k1

MCStreams == {s1, s2}
MCAcceptors == {app}
MCForwarders == {fwd}
MCClosers == {k1}
MCStalling == {s2}
=============================================================================
