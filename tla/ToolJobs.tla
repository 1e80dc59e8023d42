------------------------------ MODULE ToolJobs ------------------------------
(***************************************************************************)
(* The tool jobs of one process: the searches and fetches that a run       *)
(* submits as the members of a group, the queue that leases them to the    *)
(* slots of the tool runner, and the call that each delivery makes.        *)
(*                                                                         *)
(* Time passes in ticks.  A bound is met on its tick, and a lease is taken *)
(* back some time after its last one.  The answer of a call is its class,  *)
(* and the backoff of a retry is left out.  The claims of a process that   *)
(* crashed are in RunControl.                                              *)
(***************************************************************************)
EXTENDS Integers, FiniteSets

CONSTANTS
  Search, Fetch,            (* the jobs, by their tool                             *)
  Slot,                     (* the jobs that the runner executes at a time         *)
  Nobody,
  Lease,                    (* the lease of a claim, in ticks                      *)
  SearchBound, FetchBound,  (* SEARCH_CALL_TIMEOUT and FETCH_TIMEOUT, in ticks     *)
  MaxAttempts

Job == Search \cup Fetch

ASSUME ToolsAssumption ==
  /\ Search \cap Fetch = {} /\ Nobody \notin Job \cup Slot
  /\ {Lease, SearchBound, FetchBound, MaxAttempts} \subseteq Nat \ {0}

VARIABLES
  \* The queue: the status of each job, its deliveries so far, the slot that has its
  \* claim, the ticks left of the lease, and the jobs with a cancellation.
  status, attempts, holder, lease, flagged,
  \* The runner: "off", "running", "draining" or "stopped".
  runner,
  \* The slots: where they are, their job, the ticks left to the call, its result.
  at, task, timer, result

queue == <<status, attempts, holder, lease, flagged>>
slots == <<at, task, timer, result>>
tools == <<queue, runner, slots>>

ToolsInit ==
  /\ status = [j \in Job |-> "none"] /\ attempts = [j \in Job |-> 0]
  /\ holder = [j \in Job |-> Nobody] /\ lease = [j \in Job |-> 0] /\ flagged = {}
  /\ runner = "off"
  /\ at = [s \in Slot |-> "idle"] /\ task = [s \in Slot |-> Nobody]
  /\ timer = [s \in Slot |-> 0] /\ result = [s \in Slot |-> "none"]

-----------------------------------------------------------------------------
(* The errors of a call and their classes. *)

FetchErrors  == {"Transport", "ReadBody", "NonText", "Empty", "HTTP 3xx", "HTTP 404", "HTTP 429",
                 "HTTP 503"}
SearchErrors == {"AuthFailed", "RateLimit", "SearchTransport", "Other"}

fetch_kind(e) ==
  IF e \in {"Transport", "ReadBody", "HTTP 3xx", "HTTP 429", "HTTP 503"} THEN "transient"
  ELSE "permanent"

search_kind(e) == IF e = "AuthFailed" THEN "permanent" ELSE "transient"

classify(e) ==
  IF e \in FetchErrors THEN fetch_kind(e)
  ELSE IF e \in SearchErrors THEN search_kind(e)
  ELSE IF e = "Cancelled" THEN "permanent" ELSE "transient"   \* Timeout, Lease

-----------------------------------------------------------------------------
(* Groups. *)

MemberActive(j) == status[j] \in {"pending", "claimed"}

\* A faulty variant: a submission runs every member again that is not active.
FaultySubmits(jobs) == {j \in jobs : ~MemberActive(j)}

\* The members of a submission that run: those that neither are active nor succeeded.
Submits(jobs) == {j \in jobs : status[j] \in {"none", "failed"}}

SubmitJobs(jobs) ==
  /\ status' = [j \in Job |-> IF j \in Submits(jobs) THEN "pending" ELSE status[j]]
  /\ attempts' = [j \in Job |-> IF j \in Submits(jobs) THEN 0 ELSE attempts[j]]
  /\ flagged' = flagged \ Submits(jobs)
  /\ UNCHANGED <<holder, lease, runner, slots>>

\* The cancellation of a group ends its pending jobs and fires the token of the claimed.
CancelJobs(jobs) ==
  /\ status' = [j \in Job |-> IF j \in jobs /\ status[j] = "pending" THEN "failed" ELSE status[j]]
  /\ flagged' = flagged \cup {j \in jobs : status[j] = "claimed"}
  /\ UNCHANGED <<attempts, holder, lease, runner, slots>>

-----------------------------------------------------------------------------
(* The runner. *)

SpawnRunner == runner = "off" /\ runner' = "running" /\ UNCHANGED <<queue, slots>>

\* The runner takes no further job, and ends when its slots are free.
ShutDown == runner = "running" /\ runner' = "draining"

Stop ==
  /\ runner = "draining" /\ \A s \in Slot : at[s] = "idle"
  /\ runner' = "stopped"
  /\ UNCHANGED <<queue, slots>>

Claim(s, j) ==
  /\ runner = "running" /\ at[s] = "idle" /\ status[j] = "pending"
  /\ status' = [status EXCEPT ![j] = "claimed"]
  /\ attempts' = [attempts EXCEPT ![j] = @ + 1]
  /\ holder' = [holder EXCEPT ![j] = s] /\ lease' = [lease EXCEPT ![j] = Lease]
  /\ at' = [at EXCEPT ![s] = "start"] /\ task' = [task EXCEPT ![s] = j]
  /\ UNCHANGED <<flagged, runner, timer, result>>

\* The claim of a job whose lease passed goes back to the queue.
Requeue(j) ==
  /\ status[j] = "claimed" /\ lease[j] < 0
  /\ status' = [status EXCEPT ![j] = IF attempts[j] < MaxAttempts THEN "pending" ELSE "failed"]
  /\ holder' = [holder EXCEPT ![j] = Nobody] /\ lease' = [lease EXCEPT ![j] = 0]
  /\ UNCHANGED <<attempts, flagged, runner, slots>>

\* A bound that is due is met before time goes on.
Tick ==
  /\ \A s \in Slot : at[s] = "calling" => timer[s] > 0
  /\ \/ \E s \in Slot : at[s] = "calling"
     \/ \E j \in Job : status[j] = "claimed" /\ lease[j] >= 0
  /\ timer' = [s \in Slot |-> IF at[s] = "calling" THEN timer[s] - 1 ELSE timer[s]]
  /\ lease' = [j \in Job |-> IF status[j] = "claimed" /\ lease[j] >= 0 THEN lease[j] - 1 ELSE lease[j]]
  /\ UNCHANGED <<status, attempts, holder, flagged, runner, at, task, result>>

-----------------------------------------------------------------------------
(* A delivery: ToolJob::run. *)

bound(j) == IF j \in Search THEN SearchBound ELSE FetchBound

\* The call of the slot ends with an error or with its artifact.
Ends(s, class) ==
  /\ at' = [at EXCEPT ![s] = "settling"] /\ result' = [result EXCEPT ![s] = class]
  /\ timer' = [timer EXCEPT ![s] = 0]
  /\ UNCHANGED <<queue, runner, task>>

HasClaim(s) == task[s] \in Job /\ holder[task[s]] = s

\* The lease cannot be extended: the claim is lost, or the job is cancelled.
RefuseCall(s) ==
  /\ at[s] = "start"
  /\ \/ ~HasClaim(s) /\ Ends(s, classify("Lease"))
     \/ HasClaim(s) /\ task[s] \in flagged /\ Ends(s, classify("Cancelled"))

\* A faulty variant: the call relies on the lease of the claim.
FaultyExtended(j) == lease[j]

\* ensure_at_least: the lease covers the bound of the call.
Extended(j) == IF lease[j] < bound(j) THEN bound(j) ELSE lease[j]

\* The call begins with the extension of the lease, without an await between them.
StartCall(s) ==
  /\ at[s] = "start" /\ HasClaim(s) /\ task[s] \notin flagged
  /\ lease' = [lease EXCEPT ![task[s]] = Extended(task[s])]
  /\ timer' = [timer EXCEPT ![s] = bound(task[s])]
  /\ at' = [at EXCEPT ![s] = "calling"]
  /\ UNCHANGED <<status, attempts, holder, flagged, runner, task, result>>

\* The server answers, or the request fails.
Answer(s) ==
  /\ at[s] = "calling"
  /\ \/ Ends(s, "ok")
     \/ \E e \in (IF task[s] \in Search THEN SearchErrors ELSE FetchErrors) : Ends(s, classify(e))

TimeOut(s) ==
  /\ at[s] = "calling" /\ timer[s] = 0
  /\ Ends(s, classify("Timeout"))

AbortCall(s) ==
  /\ at[s] = "calling" /\ HasClaim(s) /\ task[s] \in flagged
  /\ Ends(s, classify("Cancelled"))

\* A faulty variant: the class of an error is stored for the status of the job.
FaultyOutcomes(j, class) ==
  CASE class = "transient" /\ attempts[j] < MaxAttempts -> {"pending"} [] OTHER -> {class}

\* What a delivery can leave of its job.  A cancelled job need not run again.
Outcomes(j, class) ==
  CASE class = "ok" -> {"ok"}
    [] class = "transient" /\ attempts[j] < MaxAttempts ->
         {"pending"} \cup (IF j \in flagged THEN {"failed"} ELSE {})
    [] OTHER -> {"failed"}

\* The queue rejects the settlement of a delivery that lost its claim.
Settle(s) ==
  /\ at[s] = "settling"
  /\ IF HasClaim(s)
     THEN /\ \E next \in Outcomes(task[s], result[s]) : status' = [status EXCEPT ![task[s]] = next]
          /\ holder' = [holder EXCEPT ![task[s]] = Nobody]
          /\ lease' = [lease EXCEPT ![task[s]] = 0]
     ELSE UNCHANGED <<status, holder, lease>>
  /\ at' = [at EXCEPT ![s] = "idle"] /\ task' = [task EXCEPT ![s] = Nobody]
  /\ result' = [result EXCEPT ![s] = "none"]
  /\ UNCHANGED <<attempts, flagged, runner, timer>>

-----------------------------------------------------------------------------

\* A step of the runner, its slots, its queue or the clock.
RunnerNext ==
  \/ Stop \/ Tick
  \/ \E j \in Job : Requeue(j)
  \/ \E s \in Slot : \/ RefuseCall(s) \/ StartCall(s) \/ Answer(s) \/ TimeOut(s) \/ AbortCall(s)
                     \/ Settle(s)
                     \/ \E j \in Job : Claim(s, j)

\* A step of whoever has the runner and its groups.
UserNext ==
  \/ SpawnRunner
  \/ ShutDown /\ UNCHANGED <<queue, slots>>
  \/ \E jobs \in SUBSET Job : SubmitJobs(jobs) \/ CancelJobs(jobs)

ToolsSpec == ToolsInit /\ [][RunnerNext \/ UserNext]_tools

\* The runner goes on, and so does time.  No server needs to answer, and the queue need not
\* take back a claim.
RunnerFair ==
  /\ WF_tools(Tick) /\ WF_tools(Stop)
  /\ \A j \in Job : SF_tools(\E s \in Slot : Claim(s, j))
  /\ \A s \in Slot : WF_tools(RefuseCall(s) \/ StartCall(s) \/ TimeOut(s) \/ AbortCall(s) \/ Settle(s))

-----------------------------------------------------------------------------
(* Properties. *)

\* Every variable of the tool jobs has its type.
ToolsTypeOK ==
  /\ status \in [Job -> {"none", "pending", "claimed", "ok", "failed"}]
  /\ attempts \in [Job -> Nat] /\ holder \in [Job -> Slot \cup {Nobody}]
  /\ lease \in [Job -> Int] /\ flagged \in SUBSET Job
  /\ runner \in {"off", "running", "draining", "stopped"}
  /\ at \in [Slot -> {"idle", "start", "calling", "settling"}]
  /\ task \in [Slot -> Job \cup {Nobody}]
  /\ timer \in [Slot -> Nat] /\ result \in [Slot -> {"none", "ok", "transient", "permanent"}]

\* A call runs under the claim of its job ("so a slow call cannot outlive the lease"):
\* no two deliveries make the call of a job at a time, and none is made in vain.
CallHasClaim == \A s \in Slot : at[s] = "calling" => HasClaim(s)

\* What the run sees of the jobs of its groups.
Members == INSTANCE GroupMembers WITH
  member <- [j \in Job |-> IF status[j] = "claimed" THEN "pending" ELSE status[j]]

\* Over deliveries that hang, lose their claim or are cancelled, a member ends once per
\* submission and keeps its success.
ImplementsMembers == Members!Spec
=============================================================================
