---------------------------- MODULE MCAgentLoop ----------------------------
(* Model values for the identities that can try to answer a paused turn.   *)
EXTENDS AgentLoop

CONSTANTS asker, stranger, nobody

MCCallers == {asker, stranger}
=============================================================================
