---- MODULE MCAgentSync ----
EXTENDS AgentSync, TLC
Beforehand == {{}, {2}}
====
