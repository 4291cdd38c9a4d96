------------------------------- MODULE MCAsgi -------------------------------
(* Asgi on small instances: whose streams the requests come on. *)
EXTENDS Asgi

CONSTANTS c1, c2, i0

\* The first request of each of two connections.
TwoConnections == {<<c1, i0>>, <<c2, i0>>}
=============================================================================
