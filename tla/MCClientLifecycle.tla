-------------------------- MODULE MCClientLifecycle --------------------------
(***************************************************************************)
(* ClientLifecycle with two controls: the application closes the first and *)
(* waits for it, the client closes both.                                   *)
(***************************************************************************)
EXTENDS ClientLifecycle, TLC

CONSTANTS c1, c2, k1, u1, w1

MCControls == {c1, c2}
MCClientClosers == {k1}
MCControlClosers == {u1}
MCWaiters == {w1}
MCTarget == (u1 :> c1) @@ (w1 :> c1)
=============================================================================
