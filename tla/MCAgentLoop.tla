---------------------------- MODULE MCAgentLoop ----------------------------
(***************************************************************************)
(* Model checking of AgentLoop: batches in which a write is asked for      *)
(* before reads, and in which a tool does not exist.                       *)
(***************************************************************************)
EXTENDS AgentLoop

MixedBatches == {<<"write", "read", "read">>, <<"unknown", "write", "write">>}
=============================================================================
