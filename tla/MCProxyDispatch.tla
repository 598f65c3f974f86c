--------------------------- MODULE MCProxyDispatch ---------------------------
(***************************************************************************)
(* ProxyDispatch with a pool that three requests overflow, and two         *)
(* tunnels one of which may close while a handler dials for it.            *)
(***************************************************************************)
EXTENDS ProxyDispatch

CONSTANTS t1, t2

MCTunnels == {t1, t2}
MCTunnelOf == [r \in Requests |-> IF r = 2 THEN t2 ELSE t1]
=============================================================================
