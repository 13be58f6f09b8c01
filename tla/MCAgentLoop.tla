------------------------------ MODULE MCAgentLoop ------------------------------
\* AgentLoop with names for a run, a peer of it and a tool.
EXTENDS AgentLoop

CONSTANTS r1, r2, read
===============================================================================
