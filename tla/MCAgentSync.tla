----------------------------- MODULE MCAgentSync -----------------------------
(* AgentSync for TLC. *)
EXTENDS AgentSync, TLC

MCSlotOf == [f \in Forms |-> "station"]

==============================================================================
