--------------------------- MODULE AgentRun_proofs ---------------------------
(* Theorems about ToolJobs and AgentRun, for every value of their constants. *)
EXTENDS AgentRun, TLAPS

ToolsNext == RunnerNext \/ UserNext

-----------------------------------------------------------------------------
(* Types, and the claims of the slots. *)

\* A claim has one slot, which works at it, and a call that runs ends before its lease.
ClaimInv ==
  /\ \A s \in Slot : at[s] # "idle" => task[s] \in Job
  /\ \A s \in Slot : at[s] = "idle" => task[s] = Nobody
  /\ \A j \in Job : status[j] = "claimed" => holder[j] \in Slot /\ task[holder[j]] = j
  /\ \A j \in Job : status[j] # "claimed" => holder[j] = Nobody
  /\ \A s \in Slot : at[s] = "calling" => holder[task[s]] = s /\ timer[s] <= lease[task[s]]

LEMMA JobBasics ==
  /\ Nobody \notin Job /\ Nobody \notin Slot
  /\ \A j \in Job : bound(j) \in Nat
  /\ {Lease, SearchBound, FetchBound, MaxAttempts} \subseteq Nat
BY ToolsAssumption DEF Job, bound

LEMMA ToolsInitInv == ToolsInit => ToolsTypeOK /\ ClaimInv
BY JobBasics DEF ToolsInit, ToolsTypeOK, ClaimInv

\* The class of an error is one of two.
LEMMA ClassOf == \A e : classify(e) \in {"transient", "permanent"}
BY DEF classify, fetch_kind, search_kind

LEMMA EndsKeeps ==
  ASSUME ToolsTypeOK, ClaimInv, NEW s \in Slot, at[s] # "idle",
         NEW class \in {"ok", "transient", "permanent"}, Ends(s, class)
  PROVE  ToolsTypeOK' /\ ClaimInv'
BY DEF Ends, ToolsTypeOK, ClaimInv, queue

LEMMA GroupKeeps ==
  ASSUME ToolsTypeOK, ClaimInv, NEW jobs \in SUBSET Job, SubmitJobs(jobs) \/ CancelJobs(jobs)
  PROVE  ToolsTypeOK' /\ ClaimInv'
<1>1. CASE SubmitJobs(jobs)
  <2>1. ToolsTypeOK'
    BY <1>1 DEF SubmitJobs, Submits, ToolsTypeOK, slots
  <2>2. \A j \in Job : (status'[j] = "claimed") = (status[j] = "claimed")
    BY <1>1 DEF SubmitJobs, Submits
  <2> QED  BY <1>1, <2>1, <2>2 DEF SubmitJobs, ClaimInv, slots
<1>2. CASE CancelJobs(jobs)
  <2>1. ToolsTypeOK'
    BY <1>2 DEF CancelJobs, ToolsTypeOK, slots
  <2>2. \A j \in Job : (status'[j] = "claimed") = (status[j] = "claimed")
    BY <1>2 DEF CancelJobs
  <2> QED  BY <1>2, <2>1, <2>2 DEF CancelJobs, ClaimInv, slots
<1> QED  BY <1>1, <1>2

LEMMA ClaimKeeps ==
  ASSUME ToolsTypeOK, ClaimInv, NEW s \in Slot, NEW j \in Job, Claim(s, j)
  PROVE  ToolsTypeOK' /\ ClaimInv'
<1>1. ToolsTypeOK'
  BY JobBasics DEF Claim, ToolsTypeOK
<1>2. ASSUME NEW t \in Slot, at'[t] = "calling"
      PROVE  holder'[task'[t]] = t /\ timer'[t] <= lease'[task'[t]]
  <2>1. t # s /\ at[t] = "calling" /\ task'[t] = task[t] /\ task[t] \in Job
    BY <1>2 DEF Claim, ToolsTypeOK, ClaimInv
  <2>2. task[t] # j
    BY <2>1, JobBasics DEF Claim, ClaimInv
  <2> QED  BY <2>1, <2>2 DEF Claim, ToolsTypeOK, ClaimInv
<1>3. ASSUME NEW k \in Job, status'[k] = "claimed"
      PROVE  holder'[k] \in Slot /\ task'[holder'[k]] = k
  <2>1. CASE k = j
    BY <2>1 DEF Claim, ToolsTypeOK
  <2>2. CASE k # j
    <3>1. status[k] = "claimed" /\ holder'[k] = holder[k] /\ holder[k] \in Slot
          /\ task[holder[k]] = k
      BY <1>3, <2>2 DEF Claim, ToolsTypeOK, ClaimInv
    <3>2. holder[k] # s
      BY <3>1, JobBasics DEF Claim, ClaimInv
    <3> QED  BY <3>1, <3>2 DEF Claim, ToolsTypeOK
  <2> QED  BY <2>1, <2>2
<1>4. \A t \in Slot : at'[t] # "idle" => task'[t] \in Job
  BY DEF Claim, ToolsTypeOK, ClaimInv
<1>5. \A t \in Slot : at'[t] = "idle" => task'[t] = Nobody
  BY DEF Claim, ToolsTypeOK, ClaimInv
<1>6. \A k \in Job : status'[k] # "claimed" => holder'[k] = Nobody
  BY DEF Claim, ToolsTypeOK, ClaimInv
<1> QED  BY <1>1, <1>2, <1>3, <1>4, <1>5, <1>6 DEF ClaimInv

\* A claim whose lease passed has no call: the bound of the call came before.
LEMMA RequeueKeeps ==
  ASSUME ToolsTypeOK, ClaimInv, NEW j \in Job, Requeue(j)
  PROVE  ToolsTypeOK' /\ ClaimInv'
<1>1. ToolsTypeOK'
  BY DEF Requeue, ToolsTypeOK, slots
<1>2. ASSUME NEW t \in Slot, at[t] = "calling" PROVE task[t] # j
  BY <1>2 DEF Requeue, ToolsTypeOK, ClaimInv
<1> QED  BY <1>1, <1>2 DEF Requeue, ToolsTypeOK, ClaimInv, slots

LEMMA StartKeeps ==
  ASSUME ToolsTypeOK, ClaimInv, NEW s \in Slot, StartCall(s)
  PROVE  ToolsTypeOK' /\ ClaimInv'
<1>1. task[s] \in Job /\ holder[task[s]] = s /\ bound(task[s]) \in Nat
  BY JobBasics DEF StartCall, HasClaim
<1>2. Extended(task[s]) \in Int /\ bound(task[s]) <= Extended(task[s])
  BY <1>1 DEF Extended, ToolsTypeOK
<1>3. ToolsTypeOK'
  BY <1>1, <1>2 DEF StartCall, ToolsTypeOK
<1>4. ASSUME NEW t \in Slot, at'[t] = "calling"
      PROVE  holder'[task'[t]] = t /\ timer'[t] <= lease'[task'[t]]
  <2>1. CASE t = s
    BY <1>1, <1>2, <2>1 DEF StartCall, ToolsTypeOK
  <2>2. CASE t # s
    <3>1. at[t] = "calling" /\ task[t] # task[s]
      BY <1>1, <1>4, <2>2 DEF StartCall, ToolsTypeOK, ClaimInv
    <3> QED  BY <2>2, <3>1 DEF StartCall, ToolsTypeOK, ClaimInv
  <2> QED  BY <2>1, <2>2
<1>5. \A t \in Slot : (at'[t] = "idle") = (at[t] = "idle")
  BY DEF StartCall, ToolsTypeOK
<1> QED  BY <1>3, <1>4, <1>5 DEF StartCall, ClaimInv

LEMMA SettleKeeps ==
  ASSUME ToolsTypeOK, ClaimInv, NEW s \in Slot, Settle(s)
  PROVE  ToolsTypeOK' /\ ClaimInv'
<1>0. \A j, class : Outcomes(j, class) \subseteq {"ok", "pending", "failed"}
  BY DEF Outcomes
<1>1. ToolsTypeOK'
  BY <1>0 DEF Settle, HasClaim, ToolsTypeOK
<1>2. /\ at' = [at EXCEPT ![s] = "idle"] /\ task' = [task EXCEPT ![s] = Nobody]
      /\ timer' = timer
  BY DEF Settle
<1>3. CASE HasClaim(s)
  <2>1. task[s] \in Job /\ holder[task[s]] = s
    BY <1>3 DEF HasClaim
  <2>2. /\ \A j \in Job \ {task[s]} : status'[j] = status[j] /\ holder'[j] = holder[j]
                                      /\ lease'[j] = lease[j]
        /\ status'[task[s]] # "claimed" /\ holder'[task[s]] = Nobody
    BY <1>0, <1>3, <2>1 DEF Settle, ToolsTypeOK
  <2>3. ASSUME NEW t \in Slot, at'[t] = "calling"
        PROVE  holder'[task'[t]] = t /\ timer'[t] <= lease'[task'[t]]
    <3>1. t # s /\ at[t] = "calling" /\ task'[t] = task[t] /\ task[t] \in Job
      BY <1>2, <2>3 DEF ToolsTypeOK, ClaimInv
    <3>2. task[t] # task[s]
      BY <2>1, <3>1 DEF ClaimInv
    <3> QED  BY <1>2, <2>2, <3>1, <3>2 DEF ClaimInv
  <2>4. ASSUME NEW k \in Job, status'[k] = "claimed"
        PROVE  holder'[k] \in Slot /\ task'[holder'[k]] = k
    <3>1. k # task[s] /\ holder'[k] = holder[k] /\ holder[k] \in Slot /\ task[holder[k]] = k
      BY <2>2, <2>4 DEF ClaimInv
    <3>2. holder[k] # s
      BY <3>1
    <3> QED  BY <1>2, <3>1, <3>2 DEF ToolsTypeOK
  <2>5. \A t \in Slot : (at'[t] # "idle" => task'[t] \in Job) /\ (at'[t] = "idle" => task'[t] = Nobody)
    BY <1>2 DEF ToolsTypeOK, ClaimInv
  <2>6. \A k \in Job : status'[k] # "claimed" => holder'[k] = Nobody
    BY <2>1, <2>2 DEF ClaimInv
  <2> QED  BY <1>1, <2>3, <2>4, <2>5, <2>6 DEF ClaimInv
<1>4. CASE ~HasClaim(s)
  <2>1. UNCHANGED <<status, holder, lease>>
    BY <1>4 DEF Settle
  <2>2. \A k \in Job : status[k] = "claimed" => holder[k] # s
    BY <1>4 DEF HasClaim, ClaimInv
  <2> QED  BY <1>1, <1>2, <2>1, <2>2 DEF ToolsTypeOK, ClaimInv
<1> QED  BY <1>3, <1>4

LEMMA TickKeeps == ASSUME ToolsTypeOK, ClaimInv, Tick PROVE ToolsTypeOK' /\ ClaimInv'
<1>1. \A s \in Slot : timer'[s] \in Nat
                      /\ (at[s] = "calling" => timer'[s] = timer[s] - 1)
  BY DEF Tick, ToolsTypeOK
<1>2. \A j \in Job : lease'[j] \in Int /\ lease'[j] >= lease[j] - 1
  BY DEF Tick, ToolsTypeOK
<1>3. ToolsTypeOK'
  BY <1>1, <1>2 DEF Tick, ToolsTypeOK
<1>4. ASSUME NEW s \in Slot, at'[s] = "calling"
      PROVE  holder'[task'[s]] = s /\ timer'[s] <= lease'[task'[s]]
  <2>1. at[s] = "calling" /\ task[s] \in Job /\ timer[s] <= lease[task[s]]
    BY <1>4 DEF Tick, ClaimInv
  <2>2. timer[s] \in Nat /\ lease[task[s]] \in Int
    BY <2>1 DEF ToolsTypeOK
  <2> QED  BY <1>1, <1>2, <2>1, <2>2 DEF Tick, ClaimInv
<1> QED  BY <1>3, <1>4 DEF Tick, ClaimInv

LEMMA ToolsStep == ASSUME ToolsTypeOK, ClaimInv, [ToolsNext]_tools PROVE ToolsTypeOK' /\ ClaimInv'
<1>1. CASE SpawnRunner \/ Stop \/ (ShutDown /\ UNCHANGED <<queue, slots>>)
  BY <1>1 DEF SpawnRunner, Stop, ShutDown, ToolsTypeOK, ClaimInv, queue, slots
<1>2. CASE Tick
  BY <1>2, TickKeeps
<1>3. ASSUME NEW j \in Job, Requeue(j) PROVE ToolsTypeOK' /\ ClaimInv'
  BY <1>3, RequeueKeeps
<1>4. ASSUME NEW s \in Slot,
             RefuseCall(s) \/ StartCall(s) \/ Answer(s) \/ TimeOut(s) \/ AbortCall(s) \/ Settle(s)
             \/ \E j \in Job : Claim(s, j)
      PROVE  ToolsTypeOK' /\ ClaimInv'
  <2>1. CASE RefuseCall(s) \/ Answer(s) \/ TimeOut(s) \/ AbortCall(s)
    BY <2>1, ClassOf, EndsKeeps DEF RefuseCall, Answer, TimeOut, AbortCall
  <2> QED  BY <1>4, <2>1, StartKeeps, SettleKeeps, ClaimKeeps
<1>5. ASSUME NEW jobs \in SUBSET Job, SubmitJobs(jobs) \/ CancelJobs(jobs)
      PROVE  ToolsTypeOK' /\ ClaimInv'
  BY <1>5, GroupKeeps
<1>6. CASE UNCHANGED tools
  BY <1>6 DEF tools, queue, slots, ToolsTypeOK, ClaimInv
<1> QED  BY <1>1, <1>2, <1>3, <1>4, <1>5, <1>6 DEF ToolsNext, RunnerNext, UserNext

ToolsInv == ToolsTypeOK /\ ClaimInv

LEMMA ToolsInvariant == ToolsSpec => []ToolsInv
<1>1. ToolsInit => ToolsInv
  BY ToolsInitInv DEF ToolsInv
<1>2. ToolsInv /\ [ToolsNext]_tools => ToolsInv'
  BY ToolsStep DEF ToolsInv
<1> QED  BY <1>1, <1>2, PTL DEF ToolsSpec, ToolsNext

\* A call runs under the claim of its job, for every lease and bound: the extension of the
\* lease is what makes it so.
THEOREM CallsHaveClaims == ToolsSpec => []CallHasClaim
<1>1. ToolsInv => CallHasClaim
  BY DEF ToolsInv, ClaimInv, CallHasClaim, HasClaim
<1> QED  BY <1>1, ToolsInvariant, PTL

-----------------------------------------------------------------------------
(* What a run may rely on. *)

seenMember == [j \in Job |-> IF status[j] = "claimed" THEN "pending" ELSE status[j]]

\* A job that alone changes ends or stays pending.
LEMMA OneEnds ==
  ASSUME ToolsTypeOK, NEW j \in Job, status[j] \in {"pending", "claimed"},
         NEW next \in {"pending", "claimed", "ok", "failed"},
         status' = [status EXCEPT ![j] = next]
  PROVE  [Members!Next]_seenMember
<1>1. \A k \in Job : seenMember'[k] = IF k = j THEN (IF next = "claimed" THEN "pending" ELSE next)
                                      ELSE seenMember[k]
  BY DEF seenMember, ToolsTypeOK
<1>2. CASE next \in {"pending", "claimed"}
  <2>1. seenMember' = seenMember
    BY <1>1, <1>2 DEF seenMember
  <2> QED  BY <2>1
<1>3. CASE next \in {"ok", "failed"}
  <2>1. seenMember[j] = "pending"
    BY DEF seenMember
  <2>2. seenMember' = [seenMember EXCEPT ![j] = next]
    BY <1>1, <1>3 DEF seenMember
  <2> QED  BY <1>3, <2>1, <2>2 DEF Members!Next, Members!End, seenMember
<1> QED  BY <1>2, <1>3

LEMMA GroupsImplement ==
  ASSUME ToolsTypeOK, NEW jobs \in SUBSET Job, SubmitJobs(jobs) \/ CancelJobs(jobs)
  PROVE  Members!Next
<1>1. CASE SubmitJobs(jobs)
  <2>1. seenMember' = [j \in Job |-> IF j \in jobs /\ seenMember[j] # "ok" THEN "pending"
                                     ELSE seenMember[j]]
    BY <1>1 DEF SubmitJobs, Submits, seenMember, ToolsTypeOK
  <2> QED  BY <2>1 DEF Members!Next, Members!Submit, seenMember
<1>2. CASE CancelJobs(jobs)
  <2> DEFINE gone == {j \in jobs : status[j] = "pending"}
  <2>1. seenMember' = [j \in Job |-> IF j \in gone THEN "failed" ELSE seenMember[j]]
    BY <1>2 DEF CancelJobs, seenMember, ToolsTypeOK
  <2>2. \A j \in gone : seenMember[j] = "pending"
    BY DEF seenMember
  <2>3. gone \in SUBSET Job
    OBVIOUS
  <2> HIDE DEF gone
  <2> QED  BY <2>1, <2>2, <2>3 DEF Members!Next, Members!Cancel, seenMember
<1> QED  BY <1>1, <1>2

LEMMA MembersStep ==
  ASSUME ToolsTypeOK, ClaimInv, [ToolsNext]_tools
  PROVE  [Members!Next]_seenMember
<1>1. CASE UNCHANGED status
  BY <1>1 DEF seenMember
<1>2. ASSUME NEW j \in Job, Requeue(j) PROVE [Members!Next]_seenMember
  BY <1>2, OneEnds DEF Requeue
<1>3. ASSUME NEW s \in Slot, NEW j \in Job, Claim(s, j) PROVE [Members!Next]_seenMember
  BY <1>3, OneEnds DEF Claim
<1>4. ASSUME NEW s \in Slot, Settle(s), HasClaim(s) PROVE [Members!Next]_seenMember
  <2>1. status[task[s]] = "claimed" /\ task[s] \in Job
    BY <1>4, JobBasics DEF HasClaim, ClaimInv
  <2>2. Outcomes(task[s], result[s]) \subseteq {"ok", "pending", "failed"}
    BY DEF Outcomes
  <2> QED  BY <1>4, <2>1, <2>2, OneEnds DEF Settle
<1>5. ASSUME NEW jobs \in SUBSET Job, SubmitJobs(jobs) \/ CancelJobs(jobs)
      PROVE  [Members!Next]_seenMember
  BY <1>5, GroupsImplement
<1> QED
  BY <1>1, <1>2, <1>3, <1>4, <1>5
     DEF ToolsNext, RunnerNext, UserNext, tools, queue, slots, SpawnRunner, Stop, ShutDown, Tick,
         RefuseCall, Answer, TimeOut, AbortCall, StartCall, Settle, Ends

\* Retries, lost claims, bounds and cancellations are invisible to the run: what it sees of
\* a member is a member that ends once per submission and keeps its success.
THEOREM ToolsImplementMembers == ToolsSpec => ImplementsMembers
<1>1. ToolsInit => Members!Init
  BY DEF ToolsInit, Members!Init, seenMember
<1>2. ToolsInv /\ [ToolsNext]_tools => [Members!Next]_seenMember
  BY MembersStep DEF ToolsInv
<1> QED
  BY <1>1, <1>2, ToolsInvariant, PTL
     DEF ToolsSpec, ToolsNext, ImplementsMembers, Members!Spec, seenMember

-----------------------------------------------------------------------------
(* The deliveries of a job. *)

\* A job that may be claimed again has an attempt left, and a claim is one of them.
RetriesBounded ==
  \A j \in Job : /\ attempts[j] <= MaxAttempts
                 /\ status[j] = "pending" => attempts[j] < MaxAttempts
                 /\ status[j] = "claimed" => attempts[j] > 0

LEMMA RetriesStep ==
  ASSUME ToolsInv, RetriesBounded, [ToolsNext]_tools
  PROVE  RetriesBounded'
<1> USE JobBasics DEF RetriesBounded, ToolsInv, ToolsTypeOK
<1>1. CASE UNCHANGED <<status, attempts>>
  BY <1>1
<1>2. ASSUME NEW j \in Job, Requeue(j) PROVE RetriesBounded'
  BY <1>2 DEF Requeue
<1>3. ASSUME NEW s \in Slot, NEW j \in Job, Claim(s, j) PROVE RetriesBounded'
  BY <1>3 DEF Claim
<1>4. ASSUME NEW s \in Slot, Settle(s), HasClaim(s) PROVE RetriesBounded'
  <2>1. status[task[s]] = "claimed" /\ task[s] \in Job /\ attempts' = attempts
    BY <1>4 DEF Settle, HasClaim, ClaimInv
  <2>2. \A next \in Outcomes(task[s], result[s]) :
          next \in {"ok", "failed"} \/ (next = "pending" /\ attempts[task[s]] < MaxAttempts)
    BY DEF Outcomes
  <2> QED  BY <1>4, <2>1, <2>2 DEF Settle
<1>5. ASSUME NEW jobs \in SUBSET Job, SubmitJobs(jobs) PROVE RetriesBounded'
  BY <1>5, ToolsAssumption DEF SubmitJobs, Submits
<1>6. ASSUME NEW jobs \in SUBSET Job, CancelJobs(jobs) PROVE RetriesBounded'
  BY <1>6 DEF CancelJobs
<1> QED
  BY <1>1, <1>2, <1>3, <1>4, <1>5, <1>6
     DEF ToolsNext, RunnerNext, UserNext, tools, queue, slots, SpawnRunner, Stop, ShutDown, Tick,
         RefuseCall, Answer, TimeOut, AbortCall, StartCall, Settle, Ends

\* Over lost claims, transient errors and cancellations, a member of a submission gets at most
\* MaxAttempts deliveries, and so at most as many calls of its tool; it never waits for one
\* that the queue would not give it.
THEOREM RetriesAreBounded == ToolsSpec => []RetriesBounded
<1>1. ToolsInit => RetriesBounded
  BY JobBasics, ToolsAssumption DEF ToolsInit, RetriesBounded
<1>2. ToolsInv /\ RetriesBounded /\ [ToolsNext]_tools => RetriesBounded'
  BY RetriesStep
<1> QED  BY <1>1, <1>2, ToolsInvariant, PTL DEF ToolsSpec, ToolsNext

-----------------------------------------------------------------------------
(* The call of the agent. *)

\* Whatever the call, its worker and its steps do, the tool jobs only see their operations.
LEMMA AgentUsesTools == [AgentNext]_agentVars => [ToolsNext]_tools
<1> SUFFICES ASSUME [AgentNext]_agentVars PROVE [ToolsNext]_tools
  OBVIOUS
<1>1. CASE CallNext
  BY <1>1
     DEF CallNext, CountFails, SpawnTools, BuildFails, SubmitRun, Terminates, WaitFails, WorkerEnds,
         DrainTools, Return, ToolsNext, UserNext
<1>2. \A r \in Run : Jobs(r) \in SUBSET Job /\ Open(r) \in SUBSET Job
  BY DEF Jobs, Open
<1>3. ASSUME NEW r \in Run, StepNext(r) \/ RunCancelled(r) \/ JoinFails(r)
      PROVE  [ToolsNext]_tools
  BY <1>2, <1>3
     DEF StepNext, TakeStep, StepEnds, StepWaits, RunEnds, WaitEnds, StartJoin, FinishJoin,
         RunCancelled, JoinFails, ToolsNext, UserNext
<1>4. CASE WorkerExits \/ WorkerDies \/ (RunnerNext /\ UNCHANGED agent) \/ UNCHANGED agentVars
  BY <1>4 DEF WorkerExits, WorkerDies, ToolsNext, agentVars
<1> QED  BY <1>1, <1>3, <1>4 DEF AgentNext

\* Each behaviour of the agent is one of its tool jobs.
THEOREM AgentImplementsTools == AgentSpec => ToolsSpec
<1>1. AgentInit => ToolsInit
  BY DEF AgentInit
<1> QED  BY <1>1, AgentUsesTools, PTL DEF AgentSpec, ToolsSpec, ToolsNext

\* Where the call is tells what runs: the tool runner from before the worker to after it,
\* and a step only with a worker.
CallInv ==
  /\ call = "start" => runner = "off"
  /\ call \in {"spawned", "waiting", "stopping"} => runner = "running"
  /\ call = "returned" => runner \in {"off", "stopped"}
  /\ worker \in {"polling", "stopping"} => call \in {"waiting", "stopping"}
  /\ Taken # {} => worker \in {"polling", "stopping"}
  /\ runner \in {"off", "stopped"} => \A s \in Slot : at[s] = "idle"

AgentInv == AgentTypeOK /\ ClaimInv /\ CallInv

LEMMA AgentInitInv == AgentInit => AgentInv
<1> SUFFICES ASSUME AgentInit PROVE AgentInv
  OBVIOUS
<1>1. ToolsTypeOK /\ ClaimInv
  BY ToolsInitInv DEF AgentInit
<1>2. AgentTypeOK
  BY <1>1, AgentAssumption DEF AgentInit, AgentTypeOK
<1>3. Taken = {}
  BY DEF AgentInit, Taken, InHand
<1> QED  BY <1>1, <1>2, <1>3 DEF AgentInit, AgentInv, CallInv, ToolsInit

\* The slots only work while there is a runner.
LEMMA SlotsNeedRunner ==
  ASSUME AgentInv, RunnerNext, UNCHANGED agent
  PROVE  CallInv'
<1>1. CASE UNCHANGED runner
  <2>1. ASSUME runner \in {"off", "stopped"} PROVE \A s \in Slot : at'[s] = "idle"
    <3>1. \A s \in Slot : at[s] = "idle"
      BY <2>1 DEF AgentInv, CallInv
    <3> QED
      BY <2>1, <3>1
         DEF RunnerNext, Stop, Tick, Requeue, RefuseCall, StartCall, Answer, TimeOut, AbortCall,
             Settle, Claim, slots
  <2> QED  BY <1>1, <2>1 DEF AgentInv, CallInv, agent, Taken
<1>2. CASE Stop
  BY <1>2 DEF Stop, slots, AgentInv, CallInv, agent, Taken
<1> QED
  BY <1>1, <1>2
     DEF RunnerNext, Tick, Requeue, RefuseCall, StartCall, Answer, TimeOut, AbortCall, Ends, Settle,
         Claim

LEMMA CallStep ==
  ASSUME AgentInv, CallNext
  PROVE  AgentTypeOK' /\ CallInv'
<1>0. ToolsTypeOK'
  BY AgentUsesTools, ToolsStep DEF AgentInv, AgentTypeOK, AgentNext
<1> USE DEF AgentInv, AgentTypeOK, CallInv, Goes, Tells, ToolsTypeOK
<1>1. CASE CountFails \/ Return
  BY <1>0, <1>1 DEF CountFails, Return, tools, queue, slots, Taken
<1>2. CASE SpawnTools
  BY <1>0, <1>2 DEF SpawnTools, SpawnRunner, Taken
<1>3. CASE BuildFails \/ WorkerEnds \/ DrainTools
  BY <1>0, <1>3 DEF BuildFails, WorkerEnds, DrainTools, ShutDown, WorkerStopped, queue, slots, Taken
<1>4. CASE SubmitRun
  BY <1>0, <1>4 DEF SubmitRun, tools, queue, slots
<1>5. CASE Terminates \/ WaitFails
  BY <1>0, <1>5 DEF Terminates, WaitFails, tools, queue, slots, Taken
<1> QED  BY <1>1, <1>2, <1>3, <1>4, <1>5 DEF CallNext

LEMMA WorkerStep ==
  ASSUME AgentInv,
         \/ \E r \in Run : StepNext(r) \/ RunCancelled(r) \/ JoinFails(r)
         \/ WorkerExits \/ WorkerDies
  PROVE  AgentTypeOK' /\ CallInv'
<1>0. ToolsTypeOK'
  BY AgentUsesTools, ToolsStep DEF AgentInv, AgentTypeOK, AgentNext
<1> USE DEF AgentInv, AgentTypeOK, CallInv, InHand
<1>1. UNCHANGED <<call, runner, at>>
  BY DEF StepNext, TakeStep, StepEnds, StepWaits, RunEnds, WaitEnds, StartJoin, FinishJoin,
         RunCancelled, JoinFails, WorkerExits, WorkerDies, SubmitJobs, CancelJobs, tools, queue, slots
<1>2. ASSUME NEW r \in Run, StepNext(r) \/ RunCancelled(r) \/ JoinFails(r)
      PROVE  /\ worker \in {"polling", "stopping"} /\ UNCHANGED <<worker, told>>
             /\ \E place \in {"pending", "waiting", "ended"} \cup InHand : Moves(r, place)
             /\ left' \in [Run -> Nat]
  BY <1>2
     DEF StepNext, TakeStep, StepEnds, StepWaits, RunEnds, WaitEnds, StartJoin, FinishJoin,
         RunCancelled, JoinFails
<1>3. ASSUME NEW r \in Run, StepNext(r) \/ RunCancelled(r) \/ JoinFails(r)
      PROVE  AgentTypeOK' /\ CallInv'
  BY <1>0, <1>1, <1>2, <1>3 DEF Moves, Taken
<1>4. CASE WorkerExits
  BY <1>0, <1>1, <1>4 DEF WorkerExits, Taken
<1>5. CASE WorkerDies
  <2>1. Taken' = {}
    BY <1>5 DEF WorkerDies, Taken
  <2> QED  BY <1>0, <1>1, <1>5, <2>1 DEF WorkerDies
<1> QED  BY <1>3, <1>4, <1>5

LEMMA AgentInvariant == AgentSpec => []AgentInv
<1>1. AgentInv /\ [AgentNext]_agentVars => AgentInv'
  <2> SUFFICES ASSUME AgentInv, [AgentNext]_agentVars PROVE AgentInv'
    OBVIOUS
  <2>1. ToolsTypeOK' /\ ClaimInv'
    BY AgentUsesTools, ToolsStep DEF AgentInv, AgentTypeOK
  <2>2. CASE RunnerNext /\ UNCHANGED agent
    BY <2>1, <2>2, SlotsNeedRunner DEF AgentInv, AgentTypeOK, agent
  <2>3. CASE UNCHANGED agentVars
    BY <2>1, <2>3 DEF agentVars, agent, tools, slots, AgentInv, AgentTypeOK, CallInv, Taken
  <2> QED  BY <2>1, <2>2, <2>3, CallStep, WorkerStep DEF AgentNext, AgentInv
<1> QED  BY <1>1, AgentInitInv, PTL DEF AgentSpec

\* The types, and with them that each action leaves a state of the system.
THEOREM AgentTypeCorrect == AgentSpec => []AgentTypeOK
<1>1. AgentInv => AgentTypeOK
  BY DEF AgentInv
<1> QED  BY <1>1, AgentInvariant, PTL

\* A step that joins its group always has a runner for the members.
THEOREM JoinsHaveRunners == AgentSpec => []JoinHasRunner
<1>1. AgentInv => JoinHasRunner
  BY DEF AgentInv, CallInv, JoinHasRunner, Taken, InHand
<1> QED  BY <1>1, AgentInvariant, PTL

\* On every path to its return the call first ends what it spawned.
THEOREM CallLeavesNothing == AgentSpec => []NothingOutlives
<1>1. AgentInv => NothingOutlives
  <2> SUFFICES ASSUME AgentInv, call = "returned" PROVE NothingOutlives
    BY DEF NothingOutlives
  <2>1. runner \in {"off", "stopped"} /\ \A s \in Slot : at[s] = "idle"
    BY DEF AgentInv, CallInv
  <2>2. \A s \in Slot : task[s] = Nobody
    BY <2>1 DEF AgentInv, ClaimInv
  <2>3. \A j \in Job : status[j] # "claimed"
    BY <2>2, JobBasics DEF AgentInv, ClaimInv
  <2> QED  BY <2>1, <2>3 DEF AgentInv, CallInv, NothingOutlives
<1> QED  BY <1>1, AgentInvariant, PTL
=============================================================================
