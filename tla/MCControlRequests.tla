-------------------------- MODULE MCControlRequests --------------------------
(***************************************************************************)
(* ControlRequests with one create_tunnel() and three close_tunnel()       *)
(* calls: an owner, a caller that joins it, and a third call that begins   *)
(* after one of them gave up.                                              *)
(***************************************************************************)
EXTENDS ControlRequests

CONSTANTS c1, k1, k2, k3

MCCreators == {c1}
MCClosers == {k1, k2, k3}
=============================================================================
