---------------------------- MODULE MCRunReaders ----------------------------
(* An instance of RunReaders for TLC. *)
EXTENDS RunReaders

\* A command that sent its entry is left there: that it polls for the outcome is in
\* MCRunControl, and nothing that a reader reads depends on it.
SendOnly == \A c \in Client : at[c] \in {"start", "sending", "sent"} \/ told[c] = "refused"

\* A reader tells the run whose tool job is claimed no other than the one whose is queued.
NoToolClaim == \A r \in Run : tool[r] # "claimed"

\* To a reader, the steps of a run that resolved its question are like those before it.
Unresolved == \A r \in Run : answer[r] \in {"none", "open"}
=============================================================================
