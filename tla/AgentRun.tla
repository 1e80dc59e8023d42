------------------------------ MODULE AgentRun ------------------------------
(***************************************************************************)
(* ResearchAgent::run: one call that runs a research run of its own in a   *)
(* store that may have other runs, with the worker of the workflow runtime *)
(* and the runner of the tool jobs that it spawns and has to stop.         *)
(*                                                                         *)
(* A step may submit the jobs of its run as a group and wait for it, and a *)
(* later one joins the group.  What else a step does is in ResearchRun.    *)
(***************************************************************************)
EXTENDS ToolJobs

CONSTANTS
  Run, Mine,   (* the runs of the store, and the one of the call        *)
  Owner,       (* the run of each job                                   *)
  MaxSteps     (* bound on the deliveries of the steps of each run      *)

ASSUME AgentAssumption == Mine \in Run /\ Owner \in [Job -> Run] /\ MaxSteps \in [Run -> Nat]

VARIABLES
  \* The call: where it is, and what it returned.
  call, told,
  \* The worker: "off", "polling", "stopping", "exited" or "gone".
  worker,
  \* The step of each run ("ended" for a run that terminated, with whatever outcome), and
  \* the deliveries that are left to the run.
  step, left

agent == <<call, told, worker, step, left>>
agentVars == <<tools, agent>>

InHand   == {"running", "joining", "joined"}
Taken    == {r \in Run : step[r] \in InHand}
Jobs(r)  == {j \in Job : Owner[j] = r}
Open(r)  == {j \in Jobs(r) : MemberActive(j)}

AgentInit ==
  /\ ToolsInit
  /\ call = "start" /\ told = "nothing" /\ worker = "off"
  /\ step \in [Run -> {"absent", "pending"}] /\ step[Mine] = "absent"
  /\ left = MaxSteps

Goes(place) == call' = place
Tells(words) == told' = words

-----------------------------------------------------------------------------
(* The call. *)

\* The queued runs are counted before anything is spawned.
CountFails ==
  /\ call = "start" /\ Goes("returned") /\ Tells("error")
  /\ UNCHANGED <<tools, worker, step, left>>

SpawnTools ==
  /\ call = "start" /\ Goes("spawned")
  /\ SpawnRunner
  /\ UNCHANGED <<told, worker, step, left>>

\* A faulty variant: the error returns before the tool runner is shut down.
FaultyBuildFails ==
  /\ call = "spawned" /\ Goes("returned") /\ Tells("error")
  /\ UNCHANGED <<tools, worker, step, left>>

\* The runtime is not built, or the run not submitted.
BuildFails ==
  /\ call = "spawned" /\ Goes("draining") /\ Tells("error")
  /\ ShutDown
  /\ UNCHANGED <<queue, slots, worker, step, left>>

\* The run is submitted, and then the worker is spawned.
SubmitRun ==
  /\ call = "spawned" /\ Goes("waiting")
  /\ step' = [step EXCEPT ![Mine] = "pending"] /\ worker' = "polling"
  /\ UNCHANGED <<tools, told, left>>

\* A faulty variant: the tool runner is told to stop together with the worker.
FaultyTerminates ==
  /\ call = "waiting" /\ step[Mine] = "ended"
  /\ Goes("stopping") /\ Tells("outcome")
  /\ worker' = IF worker = "polling" THEN "stopping" ELSE worker
  /\ ShutDown
  /\ UNCHANGED <<queue, slots, step, left>>

\* The wait has the termination of the run, and the worker is told to stop.
Terminates ==
  /\ call = "waiting" /\ step[Mine] = "ended"
  /\ Goes("stopping") /\ Tells("outcome")
  /\ worker' = IF worker = "polling" THEN "stopping" ELSE worker
  /\ UNCHANGED <<tools, step, left>>

\* The wait fails, which stops the worker as well.
WaitFails ==
  /\ call = "waiting"
  /\ Goes("stopping") /\ Tells("error")
  /\ worker' = IF worker = "polling" THEN "stopping" ELSE worker
  /\ UNCHANGED <<tools, step, left>>

WorkerStopped == worker \in {"exited", "gone"}

\* A faulty variant: the call awaits the termination only.
FaultyWorkerEnds == FALSE

\* The worker is gone before the call knows of a termination.
WorkerEnds ==
  /\ call = "waiting" /\ WorkerStopped
  /\ Goes("draining") /\ Tells("error")
  /\ ShutDown
  /\ UNCHANGED <<queue, slots, worker, step, left>>

\* The worker exited after the termination, and the tool runner follows.
DrainTools ==
  /\ call = "stopping" /\ WorkerStopped
  /\ Goes("draining")
  /\ ShutDown
  /\ UNCHANGED <<queue, slots, told, worker, step, left>>

Return ==
  /\ call = "draining" /\ runner = "stopped"
  /\ Goes("returned")
  /\ UNCHANGED <<tools, told, worker, step, left>>

-----------------------------------------------------------------------------
(* The worker and the steps that it executes. *)

Moves(r, place) == step' = [step EXCEPT ![r] = place]

\* One step at a time, of whatever run.
TakeStep(r) ==
  /\ worker = "polling" /\ Taken = {} /\ step[r] = "pending" /\ left[r] > 0
  /\ Moves(r, "running") /\ left' = [left EXCEPT ![r] = @ - 1]
  /\ UNCHANGED <<tools, call, told, worker>>

\* The step settles, or fails and is retried.
StepEnds(r) ==
  /\ worker \in {"polling", "stopping"} /\ step[r] \in {"running", "joined"} /\ left[r] > 0
  /\ Moves(r, "pending")
  /\ UNCHANGED <<tools, call, told, worker, left>>

\* The step submits the group and settles with a wait for it.
StepWaits(r) ==
  /\ worker \in {"polling", "stopping"} /\ step[r] = "running" /\ left[r] > 0
  /\ Jobs(r) # {} /\ SubmitJobs(Jobs(r))
  /\ Moves(r, "waiting")
  /\ UNCHANGED <<call, told, worker, left>>

\* A run that ends cancels the jobs that it owns.
RunEnds(r) ==
  /\ worker \in {"polling", "stopping"} /\ step[r] \in {"running", "joined"}
  /\ Moves(r, "ended") /\ CancelJobs(Jobs(r))
  /\ UNCHANGED <<call, told, worker, left>>

\* A cancellation ends a run without a claimed step.
RunCancelled(r) ==
  /\ worker = "polling" /\ step[r] \in {"pending", "waiting"}
  /\ Moves(r, "ended") /\ CancelJobs(Jobs(r))
  /\ UNCHANGED <<call, told, worker, left>>

\* The group ended, or the wait for it.
WaitEnds(r) ==
  /\ worker = "polling" /\ step[r] = "waiting"
  /\ Moves(r, "pending")
  /\ UNCHANGED <<tools, call, told, worker, left>>

\* The step after the wait cancels the members that outlasted it, and joins the group.
StartJoin(r) ==
  /\ worker \in {"polling", "stopping"} /\ step[r] = "running"
  /\ \E j \in Jobs(r) : status[j] # "none"
  /\ Moves(r, "joining") /\ CancelJobs(Open(r))
  /\ UNCHANGED <<call, told, worker, left>>

FinishJoin(r) ==
  /\ worker \in {"polling", "stopping"} /\ step[r] = "joining" /\ Open(r) = {}
  /\ Moves(r, "joined")
  /\ UNCHANGED <<tools, call, told, worker, left>>

\* The join outlasts its lease, and the step is retried while it has attempts.
JoinFails(r) ==
  /\ worker \in {"polling", "stopping"} /\ step[r] = "joining"
  /\ Moves(r, IF left[r] > 0 THEN "pending" ELSE "ended")
  /\ IF left[r] > 0 THEN UNCHANGED tools ELSE CancelJobs(Jobs(r))
  /\ UNCHANGED <<call, told, worker, left>>

\* A worker that was told to stop exits once its step settled.
WorkerExits ==
  /\ worker = "stopping" /\ Taken = {}
  /\ worker' = "exited"
  /\ UNCHANGED <<tools, call, told, step, left>>

\* The task of the worker fails or panics.  A claim it had stays in the queue.
WorkerDies ==
  /\ worker \in {"polling", "stopping"}
  /\ worker' = "gone"
  /\ step' = [r \in Run |-> IF r \in Taken THEN "claimed" ELSE step[r]]
  /\ UNCHANGED <<tools, call, told, left>>

-----------------------------------------------------------------------------

CallNext ==
  \/ CountFails \/ SpawnTools \/ BuildFails \/ SubmitRun
  \/ Terminates \/ WaitFails \/ WorkerEnds \/ DrainTools \/ Return

StepNext(r) ==
  \/ TakeStep(r) \/ StepEnds(r) \/ StepWaits(r) \/ RunEnds(r)
  \/ WaitEnds(r) \/ StartJoin(r) \/ FinishJoin(r)

AgentNext ==
  \/ CallNext
  \/ \E r \in Run : StepNext(r) \/ RunCancelled(r) \/ JoinFails(r)
  \/ WorkerExits \/ WorkerDies
  \/ RunnerNext /\ UNCHANGED agent

AgentSpec == AgentInit /\ [][AgentNext]_agentVars

\* The call, the worker and the tool runner go on.  No error and no cancellation is fair,
\* and neither is the answer of a server.
AgentFairSpec ==
  /\ AgentSpec
  /\ WF_agentVars(SpawnTools \/ SubmitRun \/ Terminates \/ WorkerEnds \/ DrainTools \/ Return)
  /\ WF_agentVars(\E r \in Run : StepNext(r)) /\ WF_agentVars(WorkerExits)
  /\ RunnerFair

-----------------------------------------------------------------------------
(* Properties. *)

\* Every variable has its type.
AgentTypeOK ==
  /\ ToolsTypeOK
  /\ call \in {"start", "spawned", "waiting", "stopping", "draining", "returned"}
  /\ told \in {"nothing", "outcome", "error"}
  /\ worker \in {"off", "polling", "stopping", "exited", "gone"}
  /\ step \in [Run -> {"absent", "pending", "waiting", "claimed", "ended"} \cup InHand]
  /\ left \in [Run -> Nat]

\* "Stop the JobRunner only after the workflow worker exits, because a draining step can
\* join a group of tool jobs": whoever's step joins, a runner executes what it waits for.
JoinHasRunner == \A r \in Run : step[r] = "joining" => runner = "running"

\* When the call returns, in whatever way, nothing that it spawned goes on: no worker, no
\* tool runner, no call of a tool, and no claim but the one of a worker that died.
NothingOutlives ==
  call = "returned" =>
    /\ runner \in {"off", "stopped"} /\ worker \notin {"polling", "stopping"}
    /\ \A s \in Slot : at[s] = "idle"
    /\ \A j \in Job : status[j] # "claimed"
    /\ Taken = {}

\* The call returns, also if its worker dies at any point and no server ever answers.
CallReturns == (call # "start") ~> (call = "returned")
=============================================================================
