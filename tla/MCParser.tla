----------------------------- MODULE MCParser -----------------------------
(* Parser on a small instance: a buffer that short requests outgrow. *)
EXTENDS Parser
===========================================================================
