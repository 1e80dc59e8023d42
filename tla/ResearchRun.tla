---------------------------- MODULE ResearchRun ----------------------------
(***************************************************************************)
(* A research run as runner.rs executes it: the seven phases, one workflow *)
(* step at a time, over a queue that delivers each step AT LEAST once.     *)
(*                                                                         *)
(* What survives a delivery: the payload of the pending step (the          *)
(* ResearchState), the step memo, the job groups and the report blob.      *)
(* What does not: everything a process holds between `run_step` and the    *)
(* settlement, which is pc, reply and tally here.                          *)
(*                                                                         *)
(* Abstractions.  Sub-questions are counted, not named.  A page is its     *)
(* URL.  The VecDeques of URLs are sets, because nothing below depends on  *)
(* their order: Front fixes the page that pop_front returns, the same one  *)
(* in each delivery of a step.  A completed model call costs one token.    *)
(* The search calls of the agent, whose results are not pages, are left to *)
(* the host.  The branches the code marks unreachable are left out.        *)
(***************************************************************************)
EXTENDS Integers, FiniteSets

CONSTANTS
  Url,          (* the pages the web search can return                     *)
  Process,      (* the processes that run a worker on the store            *)
  Nobody,       (* the claimant of a step that no process has claimed      *)
  Depth,        (* ResearchConfig::depth                                   *)
  MaxSources,   (* ResearchConfig::max_sources                             *)
  Turns,        (* ResearchConfig::investigation_turns                     *)
  CanAsk,       (* whether ResearchConfig::clarification_wait_secs is set  *)
  MaxAttempts,  (* the deliveries of a step before it is dead-lettered     *)
  MaxFaults     (* bound on interrupted deliveries and takeovers           *)

ASSUME ConstantsAssumption ==
  /\ IsFiniteSet(Url)
  /\ IsFiniteSet(Process)
  /\ Nobody \notin Process
  /\ {Depth, MaxSources, Turns, MaxFaults} \subseteq Nat
  /\ MaxAttempts \in Nat \ {0}
  /\ CanAsk \in BOOLEAN

VARIABLES
  \* The payload of the pending step, ResearchState.
  phase, toSearch, fetchQueue, fetchSubmitted, fetched, summarizeQueue,
  summaries, steps, usage, clarification,
  \* The agent run of the investigating phase, also in the payload: its model
  \* replies so far, and what the last reply left open.
  turn, openCalls, wanted, openAsk, shown,
  \* The step in the workflow queue.
  status, claimant, attempts, signal, cancelRequested,
  \* The object store, which does not fence a process that lost its claim.
  memo, blob,
  \* The job groups: group 0 has the fetches of the fetching phase and group t
  \* the fetches of reply t of the agent.
  member, cancelling,
  \* What each process holds in memory while it executes a step.
  pc, reply, tally,
  \* Ghosts: the model replies received, those lost before the memo had them,
  \* the faults so far, and how many of them were takeovers.
  paid, dropped, faults, takeovers

gather  == <<toSearch, fetchQueue, fetchSubmitted>>
pages   == <<fetched, summarizeQueue, summaries>>
agent   == <<turn, openCalls, wanted, openAsk, shown, clarification>>
payload == <<phase, gather, pages, agent, steps, usage>>
queue   == <<status, claimant, attempts, signal, cancelRequested>>
store   == <<memo, blob>>
groups  == <<member, cancelling>>
memory  == <<pc, reply, tally>>
ghosts  == <<paid, dropped, faults, takeovers>>
vars    == <<payload, queue, store, groups, memory, ghosts>>

-----------------------------------------------------------------------------
(* Values. *)

Phases == {"Planning", "Searching", "Fetching", "Summarizing",
           "Investigating", "Synthesizing", "Writing"}
Terminal == {"succeeded", "failed", "cancelled"}
Statuses == {"pending", "waitGroup", "waitReply"} \cup Terminal
Group == 0 .. Turns
MemberStates == {"none", "pending", "ok", "failed"}
Places == {"idle", "started", "joining", "joined", "calling", "replied",
           "ready", "submitted", "written"}

\* A reply of the model: a plan of n sub-questions, a summary of a page, the
\* text of a synthesis or a report, the tool calls of the agent (the pages it
\* fetches, those of which it asks for a chunk that does not exist, and
\* whether it asks the user) or its findings.
Reply == [kind : {"none", "plan", "summary", "text", "tools", "done", "malformed"},
          n : Nat, urls : SUBSET Url, past : SUBSET Url, ask : BOOLEAN]
ReplyOf(kind, n, urls, past, ask) ==
  [kind |-> kind, n |-> n, urls |-> urls, past |-> past, ask |-> ask]
NoReply == ReplyOf("none", 0, {}, {}, FALSE)

NoBlob == [written |-> FALSE, sources |-> {}, usage |-> 0]
Blob == [written : BOOLEAN, sources : SUBSET Url, usage : Nat]

Front(q) == CHOOSE u \in q : TRUE

-----------------------------------------------------------------------------

Init ==
  /\ phase = "Planning" /\ toSearch = 0
  /\ fetchQueue = {} /\ fetchSubmitted = FALSE
  /\ fetched = {} /\ summarizeQueue = {} /\ summaries = {}
  /\ steps = 0 /\ usage = 0
  /\ clarification = "none"
  /\ turn = 0 /\ openCalls = FALSE /\ wanted = {} /\ openAsk = FALSE /\ shown = {}
  /\ status = "pending" /\ claimant = Nobody /\ attempts = 0
  /\ signal = "none" /\ cancelRequested = FALSE
  /\ memo = NoReply /\ blob = NoBlob
  /\ member = [g \in Group |-> [u \in Url |-> "none"]]
  /\ cancelling = {}
  /\ pc = [p \in Process |-> "idle"]
  /\ reply = [p \in Process |-> NoReply]
  /\ tally = [p \in Process |-> 0]
  /\ paid = 0 /\ dropped = 0 /\ faults = 0 /\ takeovers = 0

-----------------------------------------------------------------------------
(* Deliveries and settlements. *)

\* A process claims the pending step and decodes its payload.
Deliver(p) ==
  /\ status = "pending" /\ claimant = Nobody /\ pc[p] = "idle"
  /\ claimant' = p
  /\ attempts' = attempts + 1
  /\ pc' = [pc EXCEPT ![p] = "started"]
  /\ reply' = [reply EXCEPT ![p] = NoReply]
  /\ tally' = [tally EXCEPT ![p] = usage]
  /\ UNCHANGED <<payload, status, signal, cancelRequested, store, groups, ghosts>>

\* A second process opens the store (`resume --force`) and claims the step of a
\* process that still runs.  The first one is fenced off the queue, not off the
\* object store.
Takeover(p) ==
  /\ status = "pending" /\ claimant \notin {Nobody, p} /\ pc[p] = "idle"
  /\ attempts < MaxAttempts /\ faults < MaxFaults
  /\ faults' = faults + 1 /\ takeovers' = takeovers + 1
  /\ claimant' = p
  /\ attempts' = attempts + 1
  /\ pc' = [pc EXCEPT ![p] = "started"]
  /\ reply' = [reply EXCEPT ![p] = NoReply]
  /\ tally' = [tally EXCEPT ![p] = usage]
  /\ UNCHANGED <<payload, status, signal, cancelRequested, store, groups, paid, dropped>>

\* The step goes back to the queue, or its run fails after the last attempt.
Release(p) ==
  /\ claimant = p
  /\ claimant' = Nobody
  /\ pc' = [pc EXCEPT ![p] = "idle"]
  /\ \/ attempts < MaxAttempts /\ UNCHANGED <<status, cancelling>>
     \/ attempts >= MaxAttempts /\ status' = "failed" /\ cancelling' = Group
  /\ UNCHANGED <<payload, attempts, signal, cancelRequested, store, member, reply,
                 tally, paid, takeovers>>

\* A crash, a transient error or an expired lease ends the delivery at any
\* await, without a settlement.
Interrupt(p) ==
  /\ pc[p] # "idle" /\ faults < MaxFaults
  /\ faults' = faults + 1
  /\ dropped' = dropped + (IF pc[p] = "replied" THEN 1 ELSE 0)
  /\ Release(p)

\* The settlement of a process without the claim is rejected.
Rejected(p) ==
  /\ pc[p] # "idle" /\ claimant # p
  /\ pc' = [pc EXCEPT ![p] = "idle"]
  /\ UNCHANGED <<payload, queue, store, groups, reply, tally, ghosts>>

\* The settlement of a step that is not the last: the payload, the progress and
\* the next step commit together.  The memo of the new step is empty.  A process
\* that still executes the old step can no longer change anything of the run, and
\* is idle from here on: the memo and the groups it may write belong to a step that
\* is over, and the call it may still pay for is one it could pay for before.
Settle(p, next) ==
  /\ claimant = p
  /\ status' = next /\ claimant' = Nobody /\ attempts' = 0 /\ signal' = "none"
  /\ memo' = NoReply
  /\ pc' = [q \in Process |-> "idle"]
  /\ reply' = [q \in Process |-> NoReply]
  /\ tally' = [q \in Process |-> 0]
  /\ usage' = tally[p]
  /\ UNCHANGED <<cancelRequested, blob, groups, ghosts>>

\* Faulty variants of Terminate: the settlement of a fenced process is accepted,
\* and the members of the groups have no owner.
FaultyTerminateUnfenced(p, end) ==
  /\ status' = end /\ claimant' = Nobody
  /\ cancelling' = Group
  /\ pc' = [pc EXCEPT ![p] = "idle"]
  /\ UNCHANGED <<attempts, signal, cancelRequested, store, member, reply, tally,
                 paid, faults, takeovers>>
FaultyTerminateUnowned(p, end) ==
  /\ claimant = p
  /\ status' = end /\ claimant' = Nobody
  /\ pc' = [pc EXCEPT ![p] = "idle"]
  /\ UNCHANGED <<attempts, signal, cancelRequested, store, groups, reply, tally,
                 paid, faults, takeovers>>

\* The termination of the run cancels the members of its groups.
Terminate(p, end) ==
  /\ claimant = p
  /\ status' = end /\ claimant' = Nobody
  /\ cancelling' = Group
  /\ pc' = [pc EXCEPT ![p] = "idle"]
  /\ UNCHANGED <<attempts, signal, cancelRequested, store, member, reply, tally,
                 paid, faults, takeovers>>

-----------------------------------------------------------------------------
(* The wait for a job group, at the start of the step after it. *)

Joins == \/ phase = "Fetching" /\ fetchSubmitted
         \/ phase = "Investigating" /\ openCalls
Joined == IF phase = "Fetching" THEN 0 ELSE turn
Prepared(p) == pc[p] = (IF Joins THEN "joined" ELSE "started")

Active(g) == \E u \in Url : member[g][u] = "pending"
Succeeded(g) == {u \in Url : member[g][u] = "ok"}

\* A submission runs only the members without a success.
Submitted(g, urls) ==
  [member EXCEPT ![g] = [u \in Url |->
     IF u \in urls /\ member[g][u] # "ok" THEN "pending" ELSE member[g][u]]]

\* A faulty variant: the members still active after the wait are not cancelled.
FaultyStartJoin(p) ==
  /\ pc[p] = "started" /\ Joins
  /\ pc' = [pc EXCEPT ![p] = "joining"]
  /\ UNCHANGED <<payload, queue, store, groups, reply, tally, ghosts>>

\* `status` of the group; active members have outlasted the wait and are cancelled.
StartJoin(p) ==
  /\ pc[p] = "started" /\ Joins
  /\ pc' = [pc EXCEPT ![p] = "joining"]
  /\ cancelling' = cancelling \cup (IF Active(Joined) THEN {Joined} ELSE {})
  /\ UNCHANGED <<payload, queue, store, member, reply, tally, ghosts>>

\* A faulty variant: the results are read while members are active.
FaultyFinishJoin(p) ==
  /\ pc[p] = "joining"
  /\ pc' = [pc EXCEPT ![p] = "joined"]
  /\ UNCHANGED <<payload, queue, store, groups, reply, tally, ghosts>>

\* `join` of the group returns when no member is active.
FinishJoin(p) ==
  /\ pc[p] = "joining" /\ ~Active(Joined)
  /\ pc' = [pc EXCEPT ![p] = "joined"]
  /\ UNCHANGED <<payload, queue, store, groups, reply, tally, ghosts>>

-----------------------------------------------------------------------------
(* The memoized model call of a step. *)

\* The run waits for the user before the next model call.
AskPending == openAsk /\ clarification = "none"

\* A faulty variant: the agent takes a turn past its limit.
FaultyNeedsModel ==
  \/ phase \in {"Planning", "Synthesizing", "Writing"}
  \/ phase = "Summarizing" /\ summarizeQueue # {}
  \/ phase = "Investigating" /\ turn <= Turns /\ ~AskPending

NeedsModel ==
  \/ phase \in {"Planning", "Synthesizing", "Writing"}
  \/ phase = "Summarizing" /\ summarizeQueue # {}
  \/ phase = "Investigating" /\ turn < Turns /\ ~AskPending

\* What the model may answer in the current phase.
Plans == {ReplyOf("plan", k, {}, {}, FALSE) : k \in 0 .. Depth + 1}
Summary(u) == ReplyOf("summary", 0, {u}, {}, FALSE)
MayAsk == {ask \in BOOLEAN : ask => CanAsk}
ToolCalls == UNION {{ReplyOf("tools", 0, us, past, ask) : past \in SUBSET us, ask \in MayAsk} :
                    us \in SUBSET Url}
Findings == {ReplyOf("done", 0, us, {}, FALSE) : us \in SUBSET Url}
NotFindings == ReplyOf("malformed", 0, {}, {}, FALSE)
Text == ReplyOf("text", 0, {}, {}, FALSE)

Answers == CASE phase = "Planning"      -> Plans
             [] phase = "Summarizing"   -> {Summary(Front(summarizeQueue))}
             [] phase = "Investigating" -> ToolCalls \cup Findings \cup {NotFindings}
             [] OTHER                   -> {Text}

\* The host counts the usage of a reply whether it is new or memoized; the other
\* phases count it inside the memoized call, so only when the model is called.
HostCount == IF phase = "Investigating" THEN 1 ELSE 0

\* A faulty variant: a redelivered step calls the model without a look at the memo.
FaultyReadMemo(p) ==
  /\ Prepared(p) /\ NeedsModel
  /\ pc' = [pc EXCEPT ![p] = "calling"]
  /\ UNCHANGED <<payload, queue, store, groups, reply, tally, ghosts>>

ReadMemo(p) ==
  /\ Prepared(p) /\ NeedsModel
  /\ IF memo = NoReply
     THEN /\ pc' = [pc EXCEPT ![p] = "calling"]
          /\ UNCHANGED <<reply, tally>>
     ELSE /\ pc' = [pc EXCEPT ![p] = "ready"]
          /\ reply' = [reply EXCEPT ![p] = memo]
          /\ tally' = [tally EXCEPT ![p] = @ + HostCount]
  /\ UNCHANGED <<payload, queue, store, groups, ghosts>>

\* A faulty variant: the host counts the usage inside the memoized call as well.
FaultyCallModel(p) ==
  /\ pc[p] = "calling"
  /\ \E r \in Answers : reply' = [reply EXCEPT ![p] = r]
  /\ tally' = [tally EXCEPT ![p] = @ + 1]
  /\ pc' = [pc EXCEPT ![p] = "replied"]
  /\ paid' = paid + 1
  /\ UNCHANGED <<payload, queue, store, groups, dropped, faults, takeovers>>

\* The model answers within the call bound.
CallModel(p) ==
  /\ pc[p] = "calling"
  /\ \E r \in Answers : reply' = [reply EXCEPT ![p] = r]
  /\ tally' = [tally EXCEPT ![p] = @ + (1 - HostCount)]
  /\ pc' = [pc EXCEPT ![p] = "replied"]
  /\ paid' = paid + 1
  /\ UNCHANGED <<payload, queue, store, groups, dropped, faults, takeovers>>

\* The memo receives the reply before the step uses it.
WriteMemo(p) ==
  /\ pc[p] = "replied"
  /\ memo' = reply[p]
  /\ tally' = [tally EXCEPT ![p] = @ + HostCount]
  /\ pc' = [pc EXCEPT ![p] = "ready"]
  /\ UNCHANGED <<payload, queue, blob, groups, reply, ghosts>>

\* An error that a retry cannot fix, of the model or the search: the run fails.
PermanentFailure(p) ==
  /\ \/ pc[p] = "calling"
     \/ pc[p] = "started" /\ phase = "Searching"
  /\ Terminate(p, "failed")
  /\ UNCHANGED <<payload, dropped>>

-----------------------------------------------------------------------------
(* Planning and searching. *)

Questions(r) == IF r.n < Depth THEN r.n ELSE Depth

RunPlanning(p) ==
  /\ phase = "Planning" /\ pc[p] = "ready" /\ Questions(reply[p]) > 0
  /\ toSearch' = Questions(reply[p])
  /\ phase' = "Searching"
  /\ steps' = steps + 1
  /\ Settle(p, "pending")
  /\ UNCHANGED <<fetchQueue, fetchSubmitted, pages, agent>>

\* "plan returned no sub-questions; will retry": a transient error.
RejectPlan(p) ==
  /\ phase = "Planning" /\ pc[p] = "ready" /\ Questions(reply[p]) = 0
  /\ Release(p)
  /\ UNCHANGED <<dropped, faults>>

\* A faulty variant: max_sources caps the hits of each search, not the queue.
FaultyAdmitted(hits) ==
  LET new == hits \ (fetched \cup fetchQueue)
  IN  {s \in SUBSET new : s = new \/ Cardinality(s) = MaxSources}

\* The hits that enter the fetch queue: the new ones, in the order of the
\* backend, until the queue holds max_sources.
Admitted(hits) ==
  LET new == hits \ (fetched \cup fetchQueue)
  IN  {s \in SUBSET new :
         \/ s = new /\ Cardinality(fetchQueue \cup s) <= MaxSources
         \/ Cardinality(fetchQueue \cup s) = MaxSources}

RunSearching(p) ==
  /\ phase = "Searching" /\ pc[p] = "started" /\ toSearch > 0
  /\ \E hits \in SUBSET Url : \E s \in Admitted(hits) : fetchQueue' = fetchQueue \cup s
  /\ toSearch' = toSearch - 1
  /\ phase' = IF toSearch' > 0 THEN "Searching"
              ELSE IF fetchQueue' = {} THEN "Investigating" ELSE "Fetching"
  /\ steps' = steps + 1
  /\ Settle(p, "pending")
  /\ UNCHANGED <<fetchSubmitted, pages, agent>>

-----------------------------------------------------------------------------
(* Fetching: one step submits the group, the step after the wait records it. *)

SubmitFetches(p) ==
  /\ phase = "Fetching" /\ pc[p] = "started" /\ ~fetchSubmitted /\ claimant = p
  /\ member' = Submitted(0, fetchQueue)
  /\ pc' = [pc EXCEPT ![p] = "submitted"]
  /\ UNCHANGED <<payload, queue, store, cancelling, reply, tally, ghosts>>

\* A wait is not a completed step.
WaitForFetches(p) ==
  /\ phase = "Fetching" /\ pc[p] = "submitted"
  /\ fetchSubmitted' = TRUE
  /\ Settle(p, "waitGroup")
  /\ UNCHANGED <<phase, toSearch, fetchQueue, pages, agent, steps>>

RecordFetches(p) ==
  /\ phase = "Fetching" /\ pc[p] = "joined"
  /\ LET got == fetchQueue \cap Succeeded(0)
     IN  /\ summarizeQueue' = summarizeQueue \cup got
         /\ fetched' = fetched \cup got
  /\ fetchQueue' = {} /\ fetchSubmitted' = FALSE
  /\ phase' = "Summarizing"
  /\ steps' = steps + 1
  /\ Settle(p, "pending")
  /\ UNCHANGED <<toSearch, summaries, agent>>

-----------------------------------------------------------------------------
(* Summarizing: one page per step. *)

\* A faulty variant: the phase ends one page early.
FaultyAfterSummary(q) == IF Cardinality(q) <= 1 THEN "Investigating" ELSE "Summarizing"

AfterSummary(q) == IF q = {} THEN "Investigating" ELSE "Summarizing"

RunSummarizing(p) ==
  /\ phase = "Summarizing" /\ pc[p] = "ready"
  /\ summaries' = summaries \cup reply[p].urls
  /\ summarizeQueue' = summarizeQueue \ {Front(summarizeQueue)}
  /\ phase' = AfterSummary(summarizeQueue')
  /\ steps' = steps + 1
  /\ Settle(p, "pending")
  /\ UNCHANGED <<gather, fetched, agent>>

\* Every fetch failed.
SkipSummaries(p) ==
  /\ phase = "Summarizing" /\ pc[p] = "started" /\ summarizeQueue = {}
  /\ phase' = "Investigating"
  /\ steps' = steps + 1
  /\ Settle(p, "pending")
  /\ UNCHANGED <<gather, pages, agent>>

-----------------------------------------------------------------------------
(* Investigating: one model call of the agent per step. *)

Investigates(p) == phase = "Investigating" /\ Turns > 0

\* A faulty variant: a fetch that failed counts as shown.
FaultyReturned == IF openCalls THEN wanted ELSE {}

\* The pages that the open calls of the last reply showed to the agent.
Returned == IF openCalls THEN wanted \cap Succeeded(turn) ELSE {}

\* A faulty variant: each step reads the signal again.
FaultyResolved == IF clarification = "none" THEN "none"
                  ELSE IF signal = "reply" THEN "given" ELSE "assumed"

\* The reply to the question, fixed by the first step after the wait.
Resolved == IF clarification # "asked" THEN clarification
            ELSE IF signal = "reply" THEN "given" ELSE "assumed"

SkipInvestigation(p) ==
  /\ phase = "Investigating" /\ pc[p] = "started" /\ Turns = 0
  /\ phase' = "Synthesizing"
  /\ steps' = steps + 1
  /\ Settle(p, "pending")
  /\ UNCHANGED <<gather, pages, agent>>

\* A question that waited for the tool calls of its reply: the run now waits
\* for the user, without a model call.
AskUser(p) ==
  /\ Investigates(p) /\ Prepared(p) /\ AskPending
  /\ clarification' = "asked"
  /\ shown' = shown \cup Returned
  /\ openCalls' = FALSE
  /\ Settle(p, "waitReply")
  /\ UNCHANGED <<phase, gather, pages, turn, wanted, openAsk, steps>>

OutOfTurns(p) ==
  /\ Investigates(p) /\ Prepared(p) /\ ~AskPending /\ turn = Turns
  /\ clarification' = Resolved
  /\ shown' = shown \cup Returned
  /\ openCalls' = FALSE /\ openAsk' = FALSE
  /\ phase' = "Synthesizing"
  /\ steps' = steps + 1
  /\ Settle(p, "pending")
  /\ UNCHANGED <<gather, pages, turn, wanted>>

\* The calls of the reply that become members of its group: a page of an earlier
\* group is read from there, and a second question is skipped.
NewFetches(r) == r.urls \ (fetched \cup shown \cup Returned)

\* A faulty variant: a later question is asked as well.
FaultyAsks(r) == r.ask

Asks(r) == r.ask /\ Resolved = "none"

\* A reply of tool calls that leaves no member open: the run goes on at once, or
\* waits for the user.
RunTurn(p) ==
  /\ Investigates(p) /\ pc[p] = "ready" /\ reply[p].kind = "tools"
  /\ NewFetches(reply[p]) = {}
  /\ turn' = turn + 1
  /\ shown' = shown \cup Returned
  /\ openCalls' = FALSE /\ openAsk' = Asks(reply[p])
  /\ IF Asks(reply[p])
     THEN clarification' = "asked" /\ Settle(p, "waitReply") /\ UNCHANGED steps
     ELSE clarification' = Resolved /\ Settle(p, "pending") /\ steps' = steps + 1
  /\ UNCHANGED <<phase, gather, pages, wanted>>

SubmitTurn(p) ==
  /\ Investigates(p) /\ pc[p] = "ready" /\ reply[p].kind = "tools" /\ claimant = p
  /\ NewFetches(reply[p]) # {}
  /\ member' = Submitted(turn + 1, NewFetches(reply[p]))
  /\ pc' = [pc EXCEPT ![p] = "submitted"]
  /\ UNCHANGED <<payload, queue, store, cancelling, reply, tally, ghosts>>

WaitForTurn(p) ==
  /\ Investigates(p) /\ pc[p] = "submitted"
  /\ turn' = turn + 1
  /\ shown' = shown \cup Returned
  /\ openCalls' = TRUE /\ wanted' = NewFetches(reply[p]) \ reply[p].past
  /\ openAsk' = Asks(reply[p])
  /\ clarification' = Resolved
  /\ steps' = steps + 1
  /\ Settle(p, "waitGroup")
  /\ UNCHANGED <<phase, gather, pages>>

\* The findings of the agent: one enters the run for a page that fetch_page
\* returned, that has no summary yet and that its group still has.
FinishInvestigation(p) ==
  /\ Investigates(p) /\ pc[p] = "ready" /\ reply[p].kind = "done"
  /\ \E added \in SUBSET ((reply[p].urls \cap (shown \cup Returned)) \ summaries) :
       /\ summaries' = summaries \cup added
       /\ fetched' = fetched \cup added
  /\ turn' = turn + 1
  /\ shown' = shown \cup Returned
  /\ openCalls' = FALSE /\ openAsk' = FALSE
  /\ clarification' = Resolved
  /\ phase' = "Synthesizing"
  /\ steps' = steps + 1
  /\ Settle(p, "pending")
  /\ UNCHANGED <<gather, summarizeQueue, wanted>>

\* An output that is not the JSON of an Investigation fails the run.
RejectFindings(p) ==
  /\ Investigates(p) /\ pc[p] = "ready" /\ reply[p].kind = "malformed"
  /\ Terminate(p, "failed")
  /\ UNCHANGED <<payload, dropped>>

-----------------------------------------------------------------------------
(* Synthesizing and writing. *)

RunSynthesizing(p) ==
  /\ phase = "Synthesizing" /\ pc[p] = "ready"
  /\ phase' = "Writing"
  /\ steps' = steps + 1
  /\ Settle(p, "pending")
  /\ UNCHANGED <<gather, pages, agent>>

\* A faulty variant: the header has the usage before the call of this step.
FaultyPutReport(p) ==
  /\ phase = "Writing" /\ pc[p] = "ready"
  /\ blob' = [written |-> TRUE, sources |-> summaries, usage |-> usage]
  /\ pc' = [pc EXCEPT ![p] = "written"]
  /\ UNCHANGED <<payload, queue, memo, groups, reply, tally, ghosts>>

\* The report blob, whose header has the token usage, is written before the
\* step settles.
PutReport(p) ==
  /\ phase = "Writing" /\ pc[p] = "ready"
  /\ blob' = [written |-> TRUE, sources |-> summaries, usage |-> tally[p]]
  /\ pc' = [pc EXCEPT ![p] = "written"]
  /\ UNCHANGED <<payload, queue, memo, groups, reply, tally, ghosts>>

\* A faulty variant: the step settles without the blob.
FaultyRunWriting(p) ==
  /\ phase = "Writing" /\ pc[p] \in {"ready", "written"}
  /\ steps' = steps + 1 /\ usage' = tally[p]
  /\ Terminate(p, "succeeded")
  /\ UNCHANGED <<phase, gather, pages, agent, dropped>>

RunWriting(p) ==
  /\ phase = "Writing" /\ pc[p] = "written"
  /\ steps' = steps + 1 /\ usage' = tally[p]
  /\ Terminate(p, "succeeded")
  /\ UNCHANGED <<phase, gather, pages, agent, dropped>>

-----------------------------------------------------------------------------
(* Cancellation, and what the run waits for. *)

RequestCancel ==
  /\ status \notin Terminal /\ ~cancelRequested
  /\ cancelRequested' = TRUE
  /\ UNCHANGED <<payload, status, claimant, attempts, signal, store, groups, memory, ghosts>>

\* A step that waits or that no process executes is cancelled in the queue.
CancelUnclaimed ==
  /\ cancelRequested /\ status \notin Terminal /\ claimant = Nobody
  /\ status' = "cancelled" /\ cancelling' = Group
  /\ UNCHANGED <<payload, claimant, attempts, signal, cancelRequested, store, member,
                 memory, ghosts>>

\* The token of a step that executes fires at an await: the phase work is
\* dropped, and the usage counted so far commits with the cancellation.
CancelStep(p) ==
  /\ cancelRequested /\ pc[p] # "idle"
  /\ usage' = tally[p]
  /\ dropped' = dropped + (IF pc[p] = "replied" THEN 1 ELSE 0)
  /\ Terminate(p, "cancelled")
  /\ UNCHANGED <<phase, gather, pages, agent, steps>>

\* A fetch ends with a page, or without one after its last attempt, at a
\* permanent error or at a cancellation.
MemberEnd(g, u) ==
  /\ member[g][u] = "pending"
  /\ \E end \in {"ok", "failed"} : member' = [member EXCEPT ![g][u] = end]
  /\ UNCHANGED <<payload, queue, store, cancelling, memory, ghosts>>

\* The members of the group ended, or GROUP_WAIT passed.
EndGroupWait ==
  /\ status = "waitGroup"
  /\ status' = "pending"
  /\ UNCHANGED <<payload, claimant, attempts, signal, cancelRequested, store, groups,
                 memory, ghosts>>

\* The user replied, or the wait for the reply passed.
EndReplyWait ==
  /\ status = "waitReply"
  /\ status' = "pending"
  /\ signal' \in {"reply", "none"}
  /\ UNCHANGED <<payload, claimant, attempts, cancelRequested, store, groups, memory,
                 ghosts>>

-----------------------------------------------------------------------------

\* What an executing process does next.
Work(p) ==
  \/ StartJoin(p) \/ FinishJoin(p) \/ ReadMemo(p) \/ CallModel(p) \/ WriteMemo(p)
  \/ RunPlanning(p) \/ RejectPlan(p) \/ RunSearching(p)
  \/ SubmitFetches(p) \/ WaitForFetches(p) \/ RecordFetches(p)
  \/ RunSummarizing(p) \/ SkipSummaries(p)
  \/ SkipInvestigation(p) \/ AskUser(p) \/ OutOfTurns(p) \/ RunTurn(p)
  \/ SubmitTurn(p) \/ WaitForTurn(p) \/ FinishInvestigation(p) \/ RejectFindings(p)
  \/ RunSynthesizing(p) \/ PutReport(p) \/ RunWriting(p)
  \/ Rejected(p)

\* What ends its delivery early.
Disturb(p) == Takeover(p) \/ Interrupt(p) \/ PermanentFailure(p) \/ CancelStep(p)

Next ==
  \/ \E p \in Process : Deliver(p) \/ Work(p) \/ Disturb(p)
  \/ \E g \in Group, u \in Url : MemberEnd(g, u)
  \/ EndGroupWait \/ EndReplyWait \/ RequestCancel \/ CancelUnclaimed

Spec == Init /\ [][Next]_vars

\* A process that executes a step goes on with it and an idle one claims the
\* pending step (a user resumes an interrupted run in the end); each wait of a
\* run has a timeout; a cancelled job ends.  A job that is not cancelled may
\* queue for as long as it likes, and no fault is ever owed.
Fairness ==
  /\ \A p \in Process : WF_vars(Deliver(p) \/ Work(p) \/ CancelStep(p))
  /\ WF_vars(EndGroupWait) /\ WF_vars(EndReplyWait) /\ WF_vars(CancelUnclaimed)
  /\ \A g \in Group, u \in Url : WF_vars(g \in cancelling /\ MemberEnd(g, u))

FairSpec == Spec /\ Fairness

-----------------------------------------------------------------------------
(* Properties. *)

\* Every variable has its type.
PayloadTypes ==
  /\ phase \in Phases /\ toSearch \in Nat
  /\ fetchQueue \in SUBSET Url /\ fetchSubmitted \in BOOLEAN
  /\ fetched \in SUBSET Url /\ summarizeQueue \in SUBSET Url /\ summaries \in SUBSET Url
  /\ steps \in Nat /\ usage \in Nat
AgentTypes ==
  /\ clarification \in {"none", "asked", "given", "assumed"}
  /\ turn \in Group /\ openCalls \in BOOLEAN /\ openAsk \in BOOLEAN
  /\ wanted \in SUBSET Url /\ shown \in SUBSET Url
QueueTypes ==
  /\ status \in Statuses /\ claimant \in Process \cup {Nobody} /\ attempts \in Nat
  /\ signal \in {"none", "reply"} /\ cancelRequested \in BOOLEAN
StoreTypes == memo \in Reply /\ blob \in Blob
GroupTypes == member \in [Group -> [Url -> MemberStates]] /\ cancelling \in SUBSET Group
MemoryTypes ==
  /\ pc \in [Process -> Places] /\ reply \in [Process -> Reply] /\ tally \in [Process -> Nat]
GhostTypes == paid \in Nat /\ dropped \in Nat /\ faults \in Nat /\ takeovers \in Nat

TypeOK ==
  /\ PayloadTypes /\ AgentTypes /\ QueueTypes /\ StoreTypes
  /\ GroupTypes /\ MemoryTypes /\ GhostTypes

\* A succeeded run has its report: the blob is written before the last step
\* settles, whatever deliveries of it came before (runner.rs:299).  The report
\* cites every source the run has.
SucceededHasReport ==
  status = "succeeded" => blob.written /\ blob.sources = summaries

\* No fetched page is lost on its way to the synthesis and none is summarised
\* twice: a page waits for its summary or has one, and the synthesis starts only
\* when all have one, over any redeliveries of the summarizing steps.
PagesAccounted ==
  /\ fetched = summaries \cup summarizeQueue
  /\ summaries \cap summarizeQueue = {}
  /\ phase \notin {"Fetching", "Summarizing"} => summarizeQueue = {}

\* The fetching phase leaves no success behind: a fetch that ends with a page
\* between the end of the wait and the cancellation of its group, or in the group
\* of an interrupted submission, is still a source of the run.
NoFetchLost ==
  phase \notin {"Planning", "Searching", "Fetching"} =>
    Succeeded(0) \subseteq fetched /\ ~Active(0)

\* Every source of the run is a page that a job fetched: a finding for a page that
\* the agent did not fetch, invented or refused, stays out of the report.
SourcesWereFetched ==
  \A u \in summaries : \E g \in Group : member[g][u] = "ok"

\* max_sources caps the pages of the fetching phase over all the searches.
SourcesCapped ==
  Cardinality({u \in Url : member[0][u] # "none"} \cup fetchQueue) <= MaxSources

\* The model calls of the settled steps: the plan, the summaries, the turns of the
\* agent, the synthesis and the report.
SettledCalls ==
  (IF phase # "Planning" THEN 1 ELSE 0) + Cardinality(summaries \cap Succeeded(0))
  + turn + (IF phase = "Writing" THEN 1 ELSE 0)
  + (IF status = "succeeded" THEN 1 ELSE 0)

\* The replies received that nothing accounts for: not that of a settled step, not in
\* the memo or in the hands of a process, and not lost in the gap before the memo had it.
Wasted ==
  paid - (SettledCalls + dropped
          + (IF memo # NoReply /\ status # "succeeded" THEN 1 ELSE 0)
          + Cardinality({p \in Process : pc[p] = "replied"}))

\* A retry does not pay for a model call again, and a process that took the step over
\* makes the run pay at most once more, for the reply of the one it fenced.
PaidOnce == Wasted \in 0 .. takeovers

\* The usage of the run misses a call only where a delivery was interrupted or taken
\* over, and counts none twice.  Only a cancelled step adds a call that did not settle.
UsageDrift ==
  usage \in (SettledCalls - faults) .. SettledCalls + (IF status = "cancelled" THEN 1 ELSE 0)

\* The report in the store shows the usage of the record of the run.  A fenced process
\* may write the report after the settlement, and its count of the last call may differ.
ReportMatchesRecord ==
  status = "succeeded" =>
    /\ blob.usage \in (usage - 1) .. (usage + 1)
    /\ takeovers = 0 => blob.usage = usage

\* The token usage of a succeeded run has every call whose reply the run used, as
\* state.rs:316 says of it ("across every LLM call made by this run").
UsageCountsEveryCall == status = "succeeded" => usage >= paid - dropped

\* A plan without sub-questions is a transient error "will retry" (runner.rs:363):
\* without faults, each attempt works on a plan of its own.
EmptyPlanIsRetried ==
  \A p \in Process :
    phase = "Planning" /\ pc[p] = "ready" /\ faults = 0 => paid = attempts

\* Seen through its payload and its outcome, the run is the pipeline executed once:
\* deliveries, waits and interruptions change nothing that a reader of it sees.
Outcome == IF status \in Terminal THEN status ELSE "running"
Pipeline == INSTANCE RunPipeline WITH outcome <- Outcome
ImplementsPipeline == Pipeline!Spec

\* The investigation, as the run sees its agent, is a dialogue that happens once, the
\* same one that AgentHost holds.
AgentQuestion == CASE AskPending -> "pending"
                   [] clarification = "asked" -> "waiting"
                   [] clarification \in {"given", "assumed"} -> "settled"
                   [] OTHER -> "none"
AgentOutcome == CASE phase \in {"Synthesizing", "Writing"} -> "ended"
                  [] phase \notin {"Synthesizing", "Writing"} /\ status \in {"failed", "cancelled"}
                       -> "stopped"
                  [] OTHER -> "running"
Dialogue == INSTANCE AgentTurns WITH open <- openCalls, question <- AgentQuestion,
                                     outcome <- AgentOutcome
ImplementsTurns == Dialogue!Spec

\* Seen from the queue, the steps of the run are decided once: over redeliveries and turns
\* the user is asked one question, and the first step after the wait decides between the
\* reply and the assumption for all later ones.
QueueState == CASE status = "pending" /\ claimant = Nobody -> "pending"
                [] status = "pending" /\ claimant # Nobody -> "running"
                [] status = "waitGroup" -> "group"
                [] status = "waitReply" -> "waiting"
                [] OTHER -> status
QueueQuestion == IF clarification = "asked" THEN "open" ELSE clarification
Queue == INSTANCE RunQueue WITH state <- QueueState, question <- QueueQuestion,
                                reply <- signal = "reply", sought <- cancelRequested
ImplementsQueue == Queue!Spec

\* Every run ends, over slow fetches, unanswered questions and interruptions.
RunEnds == <>(status \in Terminal)

\* A run that ended leaves no fetch active.
MembersReleased == (status \in Terminal) ~> (\A g \in Group : ~Active(g))
=============================================================================
