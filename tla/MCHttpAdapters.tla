--------------------------- MODULE MCHttpAdapters ---------------------------
(***************************************************************************)
(* Both adapters, one per behaviour, with small limits: one stream for     *)
(* ASGI, whose app interleaves with its handler; two for WSGI, which share *)
(* one worker thread.                                                      *)
(***************************************************************************)
EXTENDS HttpAdapters

CONSTANTS s1, s2

MCStreams == {s1, s2}
MCDeliveries == [asgi |-> {s1}, wsgi |-> {s1, s2}]
=============================================================================
