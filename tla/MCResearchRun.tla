--------------------------- MODULE MCResearchRun ---------------------------
(* Instances of ResearchRun for TLC. *)
EXTENDS ResearchRun, TLC

\* The processes are interchangeable; the pages are not, since Front picks one.
Symmetry == Permutations(Process)
=============================================================================
