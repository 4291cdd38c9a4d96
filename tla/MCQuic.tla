------------------------------ MODULE MCQuic ------------------------------
(* Quic on small instances: which streams the clients open. *)
EXTENDS Quic

CONSTANTS c1, c2

TwoConns     == {c1, c2}
OneStream    == {<<c1, 0>>}
TwoStreams   == {<<c1, 0>>, <<c2, 0>>}
ThreeStreams == {<<c1, 0>>, <<c1, 4>>, <<c2, 0>>}
===========================================================================
