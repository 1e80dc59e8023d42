---------------------------- MODULE GroupMembers ----------------------------
(***************************************************************************)
(* What a run may rely on of the tool jobs that it submitted as the        *)
(* members of a group: a member ends once per submission, and a success is *)
(* never run again or lost.  Neither deliveries nor leases, calls, bounds  *)
(* or retries are here.  ToolJobs implements this specification from below.*)
(* From above, each group of ResearchRun is one of these, and each group   *)
(* of AgentHost, where the retention of the group may pass.                *)
(***************************************************************************)
CONSTANT Job

VARIABLE member   (* "none", "pending", "ok" or "failed", for each job *)

Init == member = [j \in Job |-> "none"]

\* The members of a submission run, unless they run or succeeded before.
Submit(jobs) ==
  member' = [j \in Job |-> IF j \in jobs /\ member[j] # "ok" THEN "pending" ELSE member[j]]

\* A member ends.
End(j) ==
  /\ member[j] = "pending"
  /\ \E end \in {"ok", "failed"} : member' = [member EXCEPT ![j] = end]

\* A cancellation ends members that no worker has.
Cancel(jobs) ==
  /\ \A j \in jobs : member[j] = "pending"
  /\ member' = [j \in Job |-> IF j \in jobs THEN "failed" ELSE member[j]]

Next ==
  \/ \E jobs \in SUBSET Job : Submit(jobs) \/ Cancel(jobs)
  \/ \E j \in Job : End(j)

Spec == Init /\ [][Next]_member

\* The retention of the group passes, which forgets its members but never an active one.
Expire ==
  /\ \A j \in Job : member[j] # "pending"
  /\ member' = [j \in Job |-> "none"]

ExpiringSpec == Init /\ [][Next \/ Expire]_member
=============================================================================
