------------------------------- MODULE MCHttp3 -------------------------------
(* Http3 on a small instance: two requests of one connection.              *)
EXTENDS Http3

CONSTANTS c1, i0, i4

Requests == {<<c1, i0>>, <<c1, i4>>}
=============================================================================
