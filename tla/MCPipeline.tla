---------------------------- MODULE MCPipeline ----------------------------
(* Pipeline on a small instance; each .cfg picks the bounds. *)
EXTENDS Pipeline
===========================================================================
