---------------------------- MODULE MCAgentCalls ----------------------------
(* Small instances of AgentCalls: two handlers of one agent and one panel.  *)
EXTENDS AgentCalls

Spans == {[from |-> 0, to |-> 2]}

=============================================================================
