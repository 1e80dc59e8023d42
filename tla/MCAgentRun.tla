----------------------------- MODULE MCAgentRun -----------------------------
(* An instance of AgentRun for TLC. *)
EXTENDS AgentRun

CONSTANTS mine, other, page

\* The job of the call's own run is a search, the one of the other run a fetch.
MCOwner == [j \in Job |-> IF j = page THEN other ELSE mine]

\* The other run can submit its group a second time.
MCMaxSteps == [r \in Run |-> IF r = other THEN 3 ELSE 2]
=============================================================================
