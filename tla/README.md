# A TLA+ model of taquba-research

taquba-research is a durable research agent. A run plans sub-questions, searches
the web, fetches and summarises pages, lets an agent investigate what is still
missing, and writes a report. Each step of a run is a job of a queue
(taquba-workflow over taquba) that delivers it *at least once*, so every line of
the runner may execute again after a crash, in another process, beside a copy of
itself that has lost its claim. This directory models that program, checks the
models with TLC on small instances, and proves the properties that matter most
with TLAPS for every value of the constants.

Paths below are relative to the repository (`src/runner.rs`, ...).

## 1. The system

| Component | State it keeps | Operations | Interacts with |
|---|---|---|---|
| Research run: `runner.rs`, `state.rs` | `ResearchState`, the payload of the pending step: phase, queues of sub-questions and URLs, sources, usage, the agent's transcript, the pending question | `run_step` → `dispatch_phase` → `run_planning`, `run_searching`, `run_fetching`, `run_summarizing`, `run_investigating`, `run_synthesizing`, `run_writing`, `put_report`; `memoized`, `under_lease`, `resolve_reply` | queue, memo, job groups, model, report store, agent host |
| Agent host: `host/mod.rs`, `host/transcript.rs` | `AgentState`: the transcript, open calls, the question, turns used | `step` → `restore`/`rebuild`, `advance`, `call_model`, `dispatch`, `resolve`, `join` | model, memo, job groups of its turns, tools |
| Research tools: `investigate.rs` | none of its own: reads the transcript | `plan`, `key`, `page`, `chunk`, `reply_text`, `fetched`, `read_page` | agent host, tool jobs |
| Tool jobs: `tool_job.rs` | a job of a group: pending, claimed with a lease, succeeded with an output, failed | `run`, `bound`, `classify`, `idempotency_key`; the runner that leases them | search backend, HTTP, the group's owner |
| Command line: `bin/taquba_research/main.rs` | the process of a `run` or `resume`; none for a command, which reads the store and sends an inbox entry | `run`, `resume`, `reply`, `cancel`, `list`, `status`, `show`, `gc`, `init` | queue, inbox, beats of the writer, report blobs |
| Store view: `store.rs` | a reader of the store: a view that follows the writer with a lag | `StoreView`, `load_run`, `pending_cancellations`, `derive_display_status`, `count_waiting_step_jobs` | queue, inbox |
| Agent facade: `agent.rs`, `lib.rs` | one call: its worker and its tool runner | `ResearchAgent::run`: count, spawn, submit, wait, shut down | workflow runtime, tool jobs, the other runs of the store |
| Report: `report.rs`; search: `search/*.rs` | none | formatting; one HTTP request | - |

The workflow runtime (taquba, taquba-workflow, taquba-jobs) is outside the
repository. It is modelled from how `src/` uses it: a step is claimed by one
process at a time, a claim that is lost shows when the step settles, a step's
outcome commits with the next step, the memo belongs to one step, the members of
a group are keyed and only run without a recorded success, a group or a signal
wait ends with its event or its timeout, and the end of a run cancels what the
run owns. Opening the store for writing fences the process that had it and requeues
its claims; an inbox entry is drained by the writer, with its record and its effect in
one commit; a cancellation is a command of the control queue.

### What is hard

* **Redelivery.** A delivery can end at any await. What it wrote to the memo, the
  group and the report store stays; what it held in memory is gone.
* **Two processes.** `resume --force` starts a process while another still
  executes the step. The queue fences the loser at its settlement, the object
  store does not.
* **Waits.** The run waits for a group of fetches and for the user. Each wait races
  its timeout: a fetch succeeds while it is cancelled, a reply comes late.
* **Cancellation** fires at any await of a step, and at steps that wait. On its way it
  is an inbox entry, a queued command, a claimed command and a token, and the process
  can end at each of them.
* **Upgrades.** The serialized run of the agent may not decode after one, and is rebuilt
  from a transcript that can have open calls, with members in any state.
* **Lag.** `list`, `status` and `show` read through a view behind the writer, an inbox
  without lag, and the report blobs, one after the other; what they read moves on its way
  from one place to the next meanwhile.
* **Shutdown.** A call of the agent has a worker and a tool runner. The last step of the
  worker may wait for jobs of the runner; a worker may die; a server may never answer.
* **Two accounts of the same thing.** Usage, memo and payload; report and record;
  queue of pages and the group's results.

### What makes each component right

* Run: it pays once per reply it can keep, and once more per takeover at most; no page is
  lost or summarised twice; no success of a fetch is forgotten; `max_sources` holds over all searches; each
  source was fetched; one question at most, and its answer never changes; a
  success has its report; the run ends and releases its fetches.
* Agent host: each tool call has exactly one result, in whichever delivery;
  a rebuilt transcript has no open call; turns and usage are counted once.
* Tool jobs: a call runs under the claim of its job, however long it takes; a member ends
  once per submission and its success stays.
* Agent facade: the call returns and leaves nothing running; a step that joins has a runner.
* Readers: a displayed end is the end and a displayed success has its report; a
  cancellation that was sent is seen.
* Command line: a cancellation or a reply has its effect, whichever process drains it;
  what a command tells the user is so; a process that closes its queue leaves no claim, so
  that `resume` needs no `--force`, unless its worker failed.

## 2. Modules

| Module | Models |
|---|---|
| `RunPipeline` | abstract specification: the pipeline as a reader of the record sees it, executed once |
| `ResearchRun` | `runner.rs` with the queue, memo, groups, report store and the processes that execute it |
| `AgentTurns` | abstract specification: the dialogue of the agent, held once; both `AgentHost` and `ResearchRun` implement it |
| `RunQueue` | abstract specification: what the queue decides about one run; both `ResearchRun` and `RunControl` implement it |
| `AgentHost` | `host/mod.rs`, `host/transcript.rs` and the tools of `investigate.rs` |
| `RunControl` | `main.rs`: the processes of `run` and `resume`, and the commands beside them |
| `RunReaders` | `store.rs` and the commands `list`, `status`, `show` and `gc`, beside the processes of `RunControl` |
| `GroupMembers` | abstract specification: what a run may rely on of the members of its groups |
| `ToolJobs` | `tool_job.rs` and the runner that leases the jobs |
| `AgentRun` | `ResearchAgent::run` of `agent.rs` over `ToolJobs`, with the steps of several runs |
| `MCResearchRun`, `MCAgentHost`, `MCRunControl`, `MCRunReaders`, `MCAgentRun` | the instances for TLC |
| `ResearchRun_proofs`, `ResearchUsage_proofs`, `ResearchQueue_proofs`, `AgentHost_proofs`, `HostDialogue_proofs`, `RunControl_proofs`, `RunReaders_proofs`, `AgentRun_proofs` | the theorems |

`ResearchRun` is the run with its agent seen from outside, `AgentHost` the agent with the
run seen from inside, and `AgentTurns` is what the two agree on: the host promises
it, the run is shown to assume nothing else. `RunControl` has many runs, of which it
keeps what their queue has, and the processes around them; `RunQueue` is what `ResearchRun`
and each run of `RunControl` have in common, and both implement it. `RunReaders` extends
`RunControl` with those who only look. `AgentRun` extends `ToolJobs`, which implements
`GroupMembers`; each group of `ResearchRun` and of `AgentHost` is shown to be used as that
module says, so that the two layers fit there as well.

### ResearchRun

The variables have five owners, and what a step can lose depends on the owner.

* *Payload* (`ResearchState`, `state.rs`): `phase`, `toSearch`, `fetchQueue`,
  `fetchSubmitted`, `fetched`, `summarizeQueue`, `summaries`, `steps`, `usage`,
  `clarification`, and what the run sees of its agent: `turn`, `openCalls`,
  `wanted`, `openAsk`, `shown`. It changes only when a step settles.
* *Queue*: `status`, `claimant`, `attempts`, `signal`, `cancelRequested`.
* *Object store*: `memo` (of the pending step), `blob` (the report). Not fenced.
* *Groups*: `member[g][u]`, `cancelling`. Group 0 is the fetching phase, group `t`
  the fetches of the agent's reply `t`.
* *Memory* of each process: `pc`, `reply`, `tally`. Lost with the delivery.

`paid`, `dropped`, `faults` and `takeovers` are ghosts: replies the model gave, those lost
before the memo had them, the faults so far, and how many of them were takeovers.

One delivery of a step goes through

    Deliver -> [StartJoin -> FinishJoin] -> ReadMemo -> [CallModel -> WriteMemo]
            -> [SubmitFetches | SubmitTurn | PutReport] -> the step's settlement

where the brackets are steps that the phase may not need. Between any two,
`Interrupt` (crash, transient error, lost lease), `CancelStep`, `Takeover` and the
actions of the other processes, jobs and the user can happen. The settlements are
`RunPlanning` ... `RunWriting`, one per way a phase step can end. A settlement of
a process without the claim is impossible; its `Rejected` ends the delivery.

Abstractions:

* Sub-questions are counted; a page is its URL; a completed model call costs one token.
* The queues are sets. `Front` stands for `pop_front`: a fixed element of the set, the
  same in every delivery of a step. Nothing stated here depends on the order.
* The agent's reply is the set of pages it fetches, those of which it reads past the
  end, and whether it asks. Its searches are left out: their result is not a page
  of the run. The transcript itself belongs to the host.
* Prompts, citation numbers, layout, logging and progress events are left out.
* Branches that the code marks unreachable are left out.
* `Interrupt` stands for a lease that expires only together with the end of the
  delivery; two processes that execute one step come from `Takeover`.
* A step whose last delivery is lost fails its run at once. In the queue it is dead until
  the next worker ends the run (`store.rs:115`), which `RunControl` has.
* A finding whose page the tools do not have any more is skipped (`runner.rs:646`):
  `FinishInvestigation` adds any of the findings, as the retention of a group, which decides
  on it, is in `AgentHost` only.
* `Settle` and `Terminate` end the deliveries of fenced processes. Such a process could run
  on to its own settlement, which is rejected. What it does until then is a write to the memo
  or the groups of a step that is over, which nobody reads, or a model call, which counts as
  one that it made before the settlement.

### RunPipeline

Five variables: phase, pages, pages with a summary, completed steps, outcome. No
delivery, memo, group or process. `ImplementsPipeline` in `ResearchRun` is the
refinement with `outcome` read off `status`; a wait or a redelivery is a stutter.

### RunQueue

Four variables: the step of one run (pending, running, waiting or dead) or how the run
ended, its question, whether a reply came with the step, and whether a cancellation was
requested. It has no phase, process, memo, inbox or command. A lost delivery leaves the step
pending or dead (`Lose`), and a dead step fails its run and nothing else (`Bury`).
`ImplementsQueue` is the refinement: `ResearchRun` reads `state` off `status` and
`claimant`, and `sought` off the request; `RunControl` has one `RunQueue` per run, where
`sought` is the inbox entry of a `cancel` that was sent. What the one leaves out, the other
has: the settlements of a step here, the processes and commands around it there. Three
action properties of the module (`AskedOnce`, `AnswerKept`, `EndsOnce`) hold of whatever
implements it.

### AgentHost

| Variables | Code |
|---|---|
| `turn`, `calls`, `results` | the transcript: its replies, their calls and `RecordedResult`s |
| `left`, `decodes` | the serialized run: model calls left, and whether it decodes |
| `question`, `usage` | `Clarification` and `token_usage` of the run |
| `status`, `signal`, `memo` | the step in the queue |
| `member`, `cancelling` | the job group of each turn |
| `pc`, `held`, `reply`, `tally`, `budget` | the locals of `Host::step` |

One delivery goes through

    Deliver -> [StartJoin -> FinishJoin] -> Resolve | Rebuild
            -> AskUser | OutOfTurns | ReadMemo -> [CallModel -> WriteMemo]
            -> Submit -> WaitForGroup | WaitForReply | Continue | Done

`Interrupt` ends it anywhere, `Upgrade` makes the next one rebuild, `Expire` removes the
results of a group whose retention passed, and members end at any time.

Abstractions: a call is its tool, its page and whether it reads past the end; a result
is what became of the call, not its text; call ids are unique over the run; the memo of
the plans is left out, as a plan reads only what the reply fixes; a group does not
expire between two deliveries that share a reply (its retention is days); one process,
since `ResearchRun` has the takeovers. `ResearchRun` in turn has no rebuilt run.

### RunControl

| Variables | Code |
|---|---|
| `state`, `cancelling`, `tool`, `signal`, `answer` | the store: step of each run, cancellation, tool job, signal of the step, reply in the payload |
| `owner`, `beat` | the writer, and its beats (`writer_is_live`) |
| `outcome`, `command` | the record of each inbox entry, and the job of the control queue |
| `pc`, `target` | the processes: `resuming` (between the guard of `cmd_resume` and the open), `serving`, `draining` or `interrupted` (the worker stops), `leaving` (the tool runner stops) |
| `at`, `about`, `told` | the commands: where they are, their run, what they told the user |
| `faults`, `broken` | ghosts: the faults, and whether the last writer crashed or lost its worker |

A `run` opens the store at once (`StartRun`); a `resume` reads it (`Guard`, with or
without `--force`) and opens it later (`Resume`), with anything in between. A process
that lost the store fails at its next write (`Fenced`). A command reads the run
(`ReadRun`), sends its entry (`Send`), looks for a live writer (`ReadBeat`), and
polls (`PollReply`, `PollCancel`, `PollEnds`).

The `select!` of `finalize` has these ends: the run ended (`Finish`, then `ExitFailed` or
`Leave`), Ctrl+C or an error of the wait (`Interrupt`, then `Leave`), and a worker that fails
or panics before the run ended or while it drains after it (`WorkerFails`). `Leave` needs a
worker that drained; after `WorkerFails` its claims stay. Both go on to the tool runner and to
`close_queue`, which is an argument of `result.and(...)` and so evaluated on an error too:
the queue is closed cleanly with the claim of a failed worker's step or command in it. While
such a process leaves, nobody renews those claims, and they may pass (`ExpireStep`,
`ExpireCommand`). A step that loses its claim is pending again, or dead if the delivery was
its last: attempts are not counted, so that `Left` is either. A dead step still counts as a
run that did not end, for `resume`, `cancel` and `show`; a worker that serves ends it (`Bury`).
A submission that fails returns from `cmd_run` through `?` (`main.rs:815`) with the worker, the
tool runner and the queue as they are, and the process ends: for the store that is a `Crash`.

Abstractions: one question and one tool job per run at a time; each command is sent
once; a read is one step, so that a view that lags is a command that acts later; the
beats of a process that crashed may be recent or old; the deletion of an entry after its
record is in `RunReaders`.

### RunReaders

| Variables | Code |
|---|---|
| those of `RunControl` | the writer and the other commands; `Control` is any of their steps |
| `report`, `written`, `deleted` | the report blobs, the runs whose claimed step put one, the inbox entries whose object is gone |
| `kind`, `subject`, `place` | a reader: its command, its run, its next read |
| `seen`, `view` | what its view has of the runs, and of the control queue (the view moves with `Refresh`, at any time) |
| `listed`, `found`, `retried` | the inbox listing of `pending_cancellations`, what it found, the one retry of `read_store` |
| `shown` | what the command displays of each run |
| `sought` | ghost: the cancellations that this reading has to find |

`list` and `status` read the runs, then the inbox (a listing, then each entry), then the
queued and the claimed commands (`ReadRuns` -> `ListInbox` -> `ReadEntry` -> `ReadQueued` ->
`ReadClaimed` -> `Display`); `show` gets the report first and the state of the run only when
there is none. `PutReport`, `Delete` and `Collect` (`gc`) change what they read; `Settles`
ties the report to the step of `RunControl` that succeeds. `DisplayStatus` is
`derive_display_status` with its order: a terminal state, a dead step (which `list` and
`status` display as failed), the cancellation, the rest. `show` tells the state of a dead step
as that of a run without a report.

### ToolJobs and GroupMembers

`status`, `attempts`, `holder`, `lease` and `flagged` are the queue, `runner` the tool
runner, `at`, `task`, `timer` and `result` its slots. A delivery goes through

    Claim -> StartCall -> Answer | TimeOut | AbortCall -> Settle        (or RefuseCall -> Settle)

and `Requeue` takes back a claim whose lease passed, in between. Time is a `Tick` that every
bound and lease sees; a bound that is due is met before time goes on. `StartCall` extends the
lease by the bound of the call before it starts (`ToolJob::run`). An error is its class
(`classify`); backoff and texts are left out. `GroupMembers` has only a member's state: it
ends once per submission and keeps its success, until the retention of its group passes
(`Expire`, in `ExpiringSpec` only: the host has it, the run's own groups do not outlive it).

### AgentRun

`call` and `told` are where `ResearchAgent::run` is and what it returns, `worker` its
`WorkerHandle`, `step` and `left` the step of each run of the store and the deliveries left
to it. Every early return (`CountFails`, `BuildFails`) and each branch of the `select!`
(`Terminates`, `WaitFails`, `WorkerEnds`) is an action; the worker exits when its step has
settled (`WorkerExits`) or dies at any point (`WorkerDies`). Of a step only what touches the tool
jobs is kept: it submits a group and waits, and later joins it.

## 3. Runs

| Run | Instance | Checks |
|---|---|---|
| `research_run` | 1 page, 1 process, 2 turns, question, 2 deliveries, 2 faults, fairness | `TypeOK`, `UsageDrift`, `SourcesWereFetched`, `RunEnds`, `MembersReleased`, `ImplementsTurns`, `ImplementsQueue` |
| `research_gather` | 3 pages, cap of 2, 2 searches, 2 processes, no agent, 3 faults | `PagesAccounted`, `NoFetchLost`, `SourcesCapped`, `SucceededHasReport`, `PaidOnce`, `ReportMatchesRecord`, `ImplementsPipeline` |
| `research_usage` | 1 page, 1 fault | violated: `UsageCountsEveryCall` |
| `research_plan` | 1 page, no fault | violated: `EmptyPlanIsRetried` |
| `host_dialogue` | 1 page, 2 turns of up to 2 calls, question, 1 fault | `TypeOK`, `HistoryClosed`, `MembersHaveCalls`, `ReplyReachesCall`, `ImplementsTurns` |
| `host_rebuilt` | 2 pages, one of them gathered before, 3 turns of one call, question, 3 faults | `SuccessesReach`, `TurnsCounted`, `ResultsKept`, `ReadsRecordedPage` |
| `host_lost` | 1 page, 1 turn of 2 calls, 1 fault | violated: `LostIsError` |
| `host_refetch` | 1 page, 2 turns of one call, no fault | violated: `FetchedOnce` |
| `control_commands` | 1 run, 2 processes, a `cancel` and a `reply`, 2 faults, fairness | `TypeOK`, `DeliveredIsAnswer`, `ToldIsSo`, `ClosedLeavesNoClaim`, `CancelEnds`, `ReplyIsDrained`, `ImplementsQueue` |
| `control_claims` | 2 runs, 1 process, no command, 1 fault | violated: `NoClaimLeft` |
| `readers_view` | 1 run, 1 process, a `cancel`, one reader of any kind, 1 fault | `ReadersTypeOK`, `ShownIsSo`, `SucceededIsThere`, `CancellationSeen` |
| `agent_returns` | the call beside another run, 1 slot, a search of two ticks, a fetch of one, a lease of one, 2 attempts, fairness | `AgentTypeOK`, `CallHasClaim`, `JoinHasRunner`, `NothingOutlives`, `ImplementsMembers`, `CallReturns` |

**Bounds.** `MaxFaults` bounds interruptions and takeovers together. Each property
is about one step and its redeliveries or about one page; two faults suffice for a
fault in the step that recovers from the first. `MaxAttempts = 2` has a last
attempt and one before it. Three pages with a cap of two are the least with a page
left out, and two searches the least whose hits repeat. Two turns of the agent are
the least with a second question to refuse, and with a page of an earlier group.
For the host, two calls in a reply are the least with a question behind a group, or two
calls of one page; three turns of one call the least with a page read again after a
rebuilt turn. For the command line, two processes are the least with a takeover, one
`cancel` and one `reply` the least that race; two faults have a crash of the process
that took over. For a reader, one run and one cancellation are what a displayed line is
about, and one fault is a crash between two of its reads. For the tool jobs, a bound longer
than the lease is the least that needs the extension, and two attempts are a retry and a
last one; a second run is the least whose step the worker takes while the call waits. The
proofs of section 5 remove these bounds where they go through.

**Constraint of `control_commands`.** Of the two processes one is the first to open the store,
and `OtherFirst` (`MCRunControl`) says which. Until then they differ in their names only, so
that what is left out are the same behaviours with the names exchanged.

**Constraints of `readers_view`.** Readers change nothing that the others read, so the run
leaves out three things that no reader can tell (`MCRunReaders`): a `cancel` that sent its
entry does not poll (`SendOnly`; it does in `control_commands`), a claimed tool job
(`NoToolClaim`; its run reads as one whose job is queued) and the steps after the question was
resolved (`Unresolved`; they read like those before it). `RunReaders_proofs` has the four
properties without any of them.

**Deadlock** is not checked: a run that ended stops.

**What a takeover costs.** With one process, each reply that no crash dropped is in the memo
of its step or settles it. A fenced process may still receive a reply that nobody uses:
`PaidOnce` says that each takeover costs at most one. It may also write the report after the
record has settled, with its own count of the last call: `ReportMatchesRecord` says that
this is all the two can differ by, and that they agree if nobody took the run over.
`UsageDrift` states what the code does: a fault can lose the usage of one call, and no call
is counted twice. `research_gather` has the two processes of the first two, `research_run`
the agent of the third. `ResearchUsage_proofs` proves all three for any number of processes.

**Fairness** (`FairSpec`). A process that executes a step goes on with it, and an idle
one claims a pending step: workers poll, and after the last crash the user resumes.
`EndGroupWait` and `EndReplyWait` have timeouts in the code (`GROUP_WAIT` and the
clarification wait). `CancelUnclaimed` is a scan of the queue. A member that is
*cancelled* ends; one that is not may take for ever, which is why `StartJoin` has to
cancel what outlasted the wait. No fault and no user action is fair.

`FairSpec` of `RunControl`: a process that has the store executes steps, drains the inbox,
applies commands and ends; the queue claims in order, so that a run is claimed if it is
pending again and again (strong fairness of `Claim` per run); and the user resumes a run
that did not end while no process has the store, with `--force`, because a crash leaves
claims. Without that last assumption nothing happens to a command that was sent to a
store without a process, as its message says (main.rs:1452).

`RunnerFair` of `ToolJobs`: time passes, a delivery takes each of its own steps, and the
queue claims in order (strong fairness of `Claim` per job). No answer of a server is fair, nor is
`Requeue`: a bound has to do. `AgentFairSpec` adds that the call, the steps of the worker and
its exit go on, which are tasks of one runtime; no error, no cancellation and no failure of the
wait is fair.

Each property of a passing run has a *faulty variant* in the module (`Faulty...`): the
operation with a plausible bug, under which TLC finds that property violated.

## 4. Where code and documentation differ

* `UsageCountsEveryCall`: `state.rs:316` says that the usage is "across every LLM call
  made by this run". Planning, summaries, synthesis and report record usage inside
  the memoized future (`runner.rs:864`), so a redelivery that reads the memo counts
  nothing. The host records outside (`host/mod.rs:343`) and keeps the count.
* `EmptyPlanIsRetried`: a plan without sub-questions is a transient error, "will retry"
  (`runner.rs:362`), but the plan is memoized first. Every retry reads it again, and
  the run fails without a second call.
* `LostIsError`: `is_error` says "whether the call failed or never ran"
  (`host/transcript.rs:55`), but `rebuild` records a call that never ran without it
  (`host/mod.rs:230`). `resolve` sets it for the same text.
* `FetchedOnce`: a page is fetched once per run (`README.md:186`), but a call for a chunk past
  the end counts as a failure, so that the next call for the page does not find its group.
* `NoClaimLeft`: `finalize` drains the tool jobs "so its task exits before this fn returns"
  (`main.rs:983`), but a failed run ends the process before that (`main.rs:1033`). The
  worker serves all runs of the store, so a claimed job of another run can be left
  behind, and `resume` of that run then refuses without `--force`. `agent.rs` shuts the
  runner down in every case.

These have no run:

* The comment of `cmd_resume` says that it guards against a "finished, dead-lettered or unknown
  run" (`main.rs:838`), but only a terminated or an unknown one is refused: a dead step passes
  `Some(_) => {}` (`main.rs:861`), the worker ends its run as failed, and `resume` exits with that.
  `Guard` has what the code does.
* "workflow worker failed; run ... remains resumable" (`main.rs:978`): it is, but the claim of
  the failed worker's step stays, so that `resume` asks for `--force` although the queue was
  closed cleanly. `ClosedLeavesNoClaim` states both cases.
* After a cancel was applied to a run whose step is dead, `cancel` says that it "reached" the
  running step (`main.rs:1448`); the run then ends as failed. `ToldIsSo` allows for it.

The comment of the writing step, "a redelivered step rewrites the same memoized bytes"
(`runner.rs:300`), holds for the body only: the header has the time and the usage of the
delivery. `ReportMatchesRecord` states what holds instead.

## 5. Proofs

`ResearchRun_proofs` has the theorems, under `ConstantsAssumption` only: finite sets of
pages and processes, natural bounds, any number of turns, faults and redeliveries.

* `TypeCorrect`: `TypeOK` is not inductive alone. `StepFits` adds that a process that is
  past the start of a step is at a place of the *pending* step, with a reply that the
  model can give there, and that the memo has such a reply. `Settle` clears
  both, which is where the argument closes.
* `PagesAreAccounted` (`PagesInv`): pages and queues are empty before the fetching phase
  and the queue is empty after the summaries.
* `SuccessHasReport` (`ReportInv`): a process at `written` implies that the blob has the
  summaries of the pending step, also if another process wrote it.
* `NoFetchIsLost` (`FetchInv`): group 0 is empty before its submission, its members are
  those of the queue after it, a group that was joined has no active member, and later
  phases touch only later groups.
* `SourcesAreCapped` (`CapInv`): `FetchInv` makes members and queue one set, whose size
  `Admitted` bounds.
* `SourcesAreFetched` (`GotInv`): what is fetched, summarised or shown has a success,
  and a success stays (`SuccessStays`).
* `RunImplementsPipeline`: `PipelineSteps` maps each action to a step or a stutter of
  `RunPipeline`, with `PagesInv`, `CapInv` and `ClaimInv` (a claimed step is pending,
  so a run that ended does not move).
* `RunImplementsTurns` (`AgentInv`): a question that was not asked yet waits behind open calls,
  and an agent without a reply left nothing open. Each settlement in the investigating phase
  is then a step of `AgentTurns`, and everything else a stutter or its end.

`ResearchUsage_proofs`, under the same assumption: any pages, processes, turns, faults and
takeovers.

* `MemoInv`: who is past the model call of the pending step, fenced or not, has a memo to read
  again, and a success keeps that of the last step.
* `PaysOnce` (`WasteInv`): what was paid and neither settled, dropped nor in reach is at most
  one reply per takeover. A fenced process that is behind the pending step, or beside a memo,
  holds the reply that its takeover will waste; `Spare` counts the processes that may still do so.
* `UsageDrifts` (`DriftInv`): a settlement adds what the delivery tallied to `usage`, and its
  step counts one call in `SettledCalls` if it had a reply (`SettlementCounts`). A delivery that
  reads the memo tallies nothing, and there is one such delivery per fault at most. A
  fenced process cannot settle, so its tally counts for nothing.
* `ReportMatches` (`BlobInv`, `SoleInv`): who wrote the blob in the writing step had the usage
  of the payload and at most its last call; without a takeover the process that settles is
  the one that wrote last.

`ResearchQueue_proofs`, under the same assumption.

* `RunImplementsQueue` (`OpenInv`): a question is open only while the agent is not done, so each
  settlement either asks for the first time or decides on the answer. `QueueStep` maps each
  action to a step or a stutter of `RunQueue`.
* `RunAsksOnce`: the three action properties of `RunQueue` hold of the run.
* `RunUsesGroups`: each group of the run is used as `GroupMembers` says. Together with
  `ToolsImplementMembers` this closes the layer between the run and its tool jobs.

`AgentHost_proofs`, under `HostAssumption`: any pages, calls per reply, turns and faults.

* `HostTypeCorrect` (`TurnsInv`): a delivery knows how many calls are left and what they
  cost, which makes `TurnsCounted` inductive with the types.
* `HistoryIsClosed`: `TranscriptInv` says that only the last reply can have open calls, and
  what the delivery holds extends what the transcript has.
* `ResultsAreKept`: an action property, from the same invariant.
* `TurnsAreCounted`: usage and calls left follow the replies, from `TurnsInv`.
* `ReplyReaches` (`AskInv`): what the payload has of the question belongs to the open call that
  asked, in every delivery that holds a part of the transcript.
* `SuccessesAreRead` (`SuccessInv`): a call whose result is no success has no member that
  succeeded, because a group that was joined has no active member left to succeed.
* `MembersAreCalled` (`CallInv`): a step with a reply in the memo has a model call left and no
  open question, so that the step settles with that very reply and no other.
* `HostUsesGroups`: the group of each turn is a `GroupMembers` whose retention may pass.

`HostDialogue_proofs`, under the same assumption.

* `HostImplementsTurns`: the refinement of `AgentTurns`. What the dialogue shows of a page depends
  on the *first* turn whose transcript shows it, found by a search over a set of turns; the
  least of them exists by well-foundedness. `PageInv` and `SubmitInv` say that the group of that turn
  has ended for the page, so that what a reply still has to fetch is the same from its
  submission to its settlement. `DialogueStep` maps each action to a step or a stutter.
* `ReadsStay` (`StayInv`): a reply in the memo has no member for a page that an earlier turn read,
  and its step joined the last group, so that no page becomes readable after the plan. `HeldInv`
  says the same of the results that an interrupted delivery left behind.

`RunControl_proofs`, under `ControlAssumption`: any runs, processes, commands and faults.

* `ControlTypeCorrect`: the types.
* `DeliveredAnswers` (`AnswerInv`): a step that waits has an open question and no delivered
  reply, and a delivered one stays in the signal of its step until the payload has it.
* `CloseLeavesNoClaim` (`CloseInv`): a process that leaves has drained its steps and commands
  unless its worker failed, a process that opens the store takes every claim back, and after a
  clean close no process has the store. So a claimed step or command beside the last beat
  tells of a failed worker, and a claimed tool job does not occur.
* `ToldStaysSo` (`ToldInv`): a command is about a run that was submitted, and has taken its
  run once it was applied; `RunsGoForth` says that no later step undoes that, and that a dead
  step only ends as failed.
* `ControlImplementsQueue` (`EntryInv`): for each run, every step of every process and command
  is a step or a stutter of its `RunQueue`. A cancellation passes an inbox entry, a command of
  the control queue and the token of a step; each of them implies that the entry was sent, so
  that no run ends as cancelled without a `cancel`.
* `RunsEndOnce`: the action properties of `RunQueue`, for each run of the store.

`RunReaders_proofs`, under `ControlAssumption`: any runs, processes, commands, readers and lag.

* `ReadersTypeCorrect`: the types.
* `ShownStaysSo`, `SucceededIsInStore` (`FactsInv`): an end that a view has is the
  end still, and a dead step that it has is dead still or has failed its run; the facts that a
  reader displays stay once they are (`FactsStay`); the report precedes the settlement (`ReportInv`).
* `CancellationsAreSeen` (`SoughtInv`): a command moves from the inbox to the control queue and
  through it in one direction, in the order of the reads, so that a cancellation which the
  reading has not found is ahead of it. What breaks that order is named in the property: a
  command that is applied or requeued meanwhile, or a view behind the drain.
* `ReadersImplementControl`: the readers, the report blobs and `gc` change nothing of the
  processes, so `RunReaders` implements `RunControl`, and each of its runs `RunQueue`.

`AgentRun_proofs`, under `ToolsAssumption` and `AgentAssumption`: any jobs, slots, runs, leases, bounds.

* `CallsHaveClaims` (`ClaimInv`): a claim has one slot, and a call has less time left than
  the lease of its claim.
* `ToolsImplementMembers`: each step of the jobs is a step or a stutter of `GroupMembers`.
* `RetriesAreBounded`: a job that may be claimed has an attempt left, so a member gets at most
  `MaxAttempts` deliveries per submission, whoever loses its claim.
* `AgentImplementsTools`: the steps of `AgentRun` are steps of `ToolJobs`, so these three hold of it.
* `AgentTypeCorrect`, `JoinsHaveRunners`, `CallLeavesNothing` (`CallInv`): the runner runs from its
  spawn to the exit of the worker, and the call returns after the slots are free.

Each property that a passing run checks is a theorem, except for liveness.

Model-checked only: the liveness properties (`RunEnds`, `MembersReleased`, `CancelEnds`,
`ReplyIsDrained`, `CallReturns`), as liveness under fairness is out of the prover's reach.

## 6. Not modelled, and the plan

1. Composition: `ResearchRun` with the effect of `RunControl`'s takeovers on more than one
   run of a store.
2. The cap and order of the queues, the split of a text into chunks and the numbering of
   citations as functions over bounded inputs.

Not modelled:

* Of `status`, what it prints besides the state: the progress, the attempts and the open
  question. `state.rs:157` says that the question is there "while the run waits", and
  `summarize_state` gives it as long as it has no reply; `reply` tests the state of the run too.
* `init`, which probes the store once.
* Which outcome the call of the agent reports when its worker dies and its run terminates in
  the same moment: the `select!` may take either branch.
* A provider that repeats the id of a call over turns (`remove_result`, `host/mod.rs:177`).

Left out for good: HTTP and JSON formats, prompts, rendering, logging, the argument parser.
