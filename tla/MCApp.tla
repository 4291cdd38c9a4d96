-------------------------------- MODULE MCApp --------------------------------
(* One process on a small instance: how many clients it has. *)
EXTENDS App

CONSTANTS c1, c2

Clients == {c1, c2}
==============================================================================
