---------------------------- MODULE MCProtocol ----------------------------
(* Protocol on small instances: which kinds of request a client sends. *)
EXTENDS Protocol

Sync    == [coro |-> FALSE, raises |-> FALSE, last |-> FALSE, http10 |-> FALSE, big |-> FALSE]
Coro    == [Sync EXCEPT !.coro = TRUE]
Closing == [Sync EXCEPT !.last = TRUE]
Http10  == [Sync EXCEPT !.last = TRUE, !.http10 = TRUE]
Big     == [Sync EXCEPT !.big = TRUE]
Raising == [Sync EXCEPT !.raises = TRUE]

MixedKinds == {Sync, Coro, Http10, Big, Raising}
OnlyCoro   == {Coro}
===========================================================================
