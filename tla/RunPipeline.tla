---------------------------- MODULE RunPipeline ----------------------------
(***************************************************************************)
(* What a research run promises to whoever reads its record: a pipeline    *)
(* that is executed once.  There are no deliveries, crashes, memos, groups *)
(* or processes here.  A page enters the run once and gets one summary,    *)
(* the phases follow each other, each completed step counts once, and the  *)
(* run ends once, with a success only after every page has its summary.    *)
(* ResearchRun implements this specification over at-least-once steps.     *)
(***************************************************************************)
EXTENDS Integers, FiniteSets

CONSTANTS Url, MaxSources

VARIABLES
  phase,      (* the phase of the next step                                *)
  fetched,    (* the pages of the run                                      *)
  summaries,  (* the pages with a summary                                  *)
  steps,      (* the completed steps                                       *)
  outcome     (* "running", or how the run ended                           *)

vars == <<phase, fetched, summaries, steps, outcome>>

Init ==
  /\ phase = "Planning" /\ fetched = {} /\ summaries = {}
  /\ steps = 0 /\ outcome = "running"

\* A step that completes in the phases `from` and leaves the run in phase `to`.
Completes(from, to) ==
  /\ outcome = "running" /\ phase \in from
  /\ phase' = to /\ steps' = steps + 1

Plan       == Completes({"Planning"}, "Searching") /\ UNCHANGED <<fetched, summaries, outcome>>
Search     == /\ \E to \in {"Searching", "Fetching", "Investigating"} : Completes({"Searching"}, to)
              /\ UNCHANGED <<fetched, summaries, outcome>>
Synthesize == /\ Completes({"Synthesizing"}, "Writing")
              /\ UNCHANGED <<fetched, summaries, outcome>>

\* All the pages of the fetching phase at once.
Gather ==
  /\ Completes({"Fetching"}, "Summarizing")
  /\ \E s \in SUBSET Url : Cardinality(s) <= MaxSources /\ fetched' = s
  /\ UNCHANGED <<summaries, outcome>>

\* One page without a summary gets it; the last one ends the phase.
Summarise ==
  /\ \E u \in fetched \ summaries : summaries' = summaries \cup {u}
  /\ Completes({"Summarizing"}, IF summaries' = fetched THEN "Investigating" ELSE "Summarizing")
  /\ UNCHANGED <<fetched, outcome>>

NothingToSummarise ==
  /\ fetched = {}
  /\ Completes({"Summarizing"}, "Investigating")
  /\ UNCHANGED <<fetched, summaries, outcome>>

\* A turn of the agent, or the end of its investigation with new pages, each
\* with its summary.
Investigate == Completes({"Investigating"}, "Investigating") /\ UNCHANGED <<fetched, summaries, outcome>>
Conclude ==
  /\ Completes({"Investigating"}, "Synthesizing")
  /\ \E new \in SUBSET (Url \ summaries) :
        fetched' = fetched \cup new /\ summaries' = summaries \cup new
  /\ UNCHANGED outcome

Write ==
  /\ summaries = fetched
  /\ Completes({"Writing"}, "Writing")
  /\ outcome' = "succeeded"
  /\ UNCHANGED <<fetched, summaries>>

Stop ==
  /\ outcome = "running"
  /\ outcome' \in {"failed", "cancelled"}
  /\ UNCHANGED <<phase, fetched, summaries, steps>>

Next ==
  \/ Plan \/ Search \/ Gather \/ Summarise \/ NothingToSummarise
  \/ Investigate \/ Conclude \/ Synthesize \/ Write \/ Stop

Spec == Init /\ [][Next]_vars
=============================================================================
