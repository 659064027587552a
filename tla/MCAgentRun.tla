----------------------------- MODULE MCAgentRun -----------------------------
\* A small instance of AgentRun for TLC: two sub-agents.
EXTENDS AgentRun
CONSTANTS a1, a2
MCSubAgents == <<a1, a2>>
=============================================================================
