---- MODULE MCAgentHost ----
EXTENDS AgentHost, TLC
Symmetry == Permutations(Url \ Gathered)
====
