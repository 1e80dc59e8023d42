------------------------ MODULE ResearchQueue_proofs ------------------------
(* ResearchRun and the queue of its run, for every value of its constants. *)
EXTENDS ResearchRun_proofs

-----------------------------------------------------------------------------
(* The run implements the queue that decides each step of it once. *)

\* A question that is open belongs to an agent that is not done.
OpenInv == clarification = "asked" => phase = "Investigating" /\ Turns > 0

\* What the queue has of a step that a process executes.
LEMMA ClaimedRuns ==
  ASSUME ClaimInv, NEW p \in Process, claimant = p
  PROVE  status = "pending" /\ QueueState = "running"
BY ConstantsAssumption DEF ClaimInv, QueueState

\* A settlement asks the user, at most once, or it decides on the answer.
LEMMA SettlementDecides ==
  ASSUME TypeOK, OpenInv, NEW p \in Process, Settling(p)
  PROVE  /\ OpenInv'
         /\ \/ /\ Settle(p, "waitReply")
               /\ clarification = "none" /\ clarification' = "asked"
            \/ /\ Settle(p, "pending") \/ Settle(p, "waitGroup")
               /\ clarification' = Resolved
<1>0. Turns \in Nat /\ clarification \in {"none", "asked", "given", "assumed"}
  BY ConstantsAssumption DEF TypeOK, AgentTypes
<1>1. CASE \/ RunPlanning(p) \/ RunSearching(p) \/ WaitForFetches(p) \/ RecordFetches(p)
           \/ RunSummarizing(p) \/ SkipSummaries(p) \/ RunSynthesizing(p)
  <2>1. UNCHANGED agent /\ phase # "Investigating" /\ (Settle(p, "pending") \/ Settle(p, "waitGroup"))
    BY <1>1 DEF RunPlanning, RunSearching, WaitForFetches, RecordFetches, RunSummarizing,
       SkipSummaries, RunSynthesizing
  <2>2. clarification # "asked" /\ clarification' = clarification
    BY <2>1 DEF OpenInv, agent
  <2> QED  BY <2>1, <2>2 DEF OpenInv, Resolved
<1>2. CASE SkipInvestigation(p)
  <2>1. clarification # "asked" /\ clarification' = clarification /\ Settle(p, "pending")
    BY <1>2 DEF SkipInvestigation, OpenInv, agent
  <2> QED  BY <2>1 DEF OpenInv, Resolved
<1>3. CASE AskUser(p)
  BY <1>3 DEF AskUser, AskPending, Investigates, OpenInv
<1>4. CASE OutOfTurns(p) \/ FinishInvestigation(p) \/ WaitForTurn(p)
  <2>1. clarification' = Resolved /\ Resolved # "asked"
    BY <1>4 DEF OutOfTurns, FinishInvestigation, WaitForTurn, Resolved
  <2> QED  BY <1>4, <2>1 DEF OutOfTurns, FinishInvestigation, WaitForTurn, OpenInv
<1>5. CASE RunTurn(p)
  <2>1. phase' = "Investigating" /\ Turns > 0
    BY <1>5 DEF RunTurn, Investigates
  <2>2. CASE Asks(reply[p])
    <3>1. clarification = "none"
      BY <1>0, <2>2 DEF Asks, Resolved
    <3> QED  BY <1>5, <2>1, <2>2, <3>1 DEF RunTurn, OpenInv
  <2>3. CASE ~Asks(reply[p])
    BY <1>5, <2>1, <2>3 DEF RunTurn, OpenInv
  <2> QED  BY <2>2, <2>3
<1> QED  BY <1>1, <1>2, <1>3, <1>4, <1>5 DEF Settling

LEMMA OpenStep == TypeOK /\ OpenInv /\ [Next]_vars => OpenInv'
<1> SUFFICES ASSUME TypeOK, OpenInv, [Next]_vars PROVE OpenInv'
  OBVIOUS
<1>1. CASE \E p \in Process : Settling(p)
  BY <1>1, SettlementDecides
<1>2. CASE ~ \E p \in Process : Settling(p)
  BY <1>2, OtherSteps DEF OpenInv, agent
<1> QED  BY <1>1, <1>2

QueueStep == [Queue!Next]_(Queue!vars)

\* A settlement of the run is one of the queue.
LEMMA SettlementIsQueued ==
  ASSUME TypeOK, OpenInv, ClaimInv, NEW p \in Process, Settling(p)
  PROVE  QueueStep
<1>0. ASSUME NEW next, Settle(p, next)
      PROVE  /\ claimant = p /\ claimant' = Nobody /\ status' = next
             /\ signal' = "none" /\ UNCHANGED cancelRequested
  BY <1>0 DEF Settle
<1>1. CASE /\ Settle(p, "waitReply")
           /\ clarification = "none" /\ clarification' = "asked"
  <2>1. QueueState = "running" /\ QueueState' = "waiting"
    BY <1>0, <1>1, ClaimedRuns DEF QueueState
  <2> QED  BY <1>0, <1>1, <2>1 DEF QueueStep, Queue!Next, Queue!Ask, QueueQuestion
<1>2. CASE /\ Settle(p, "pending") \/ Settle(p, "waitGroup")
           /\ clarification' = Resolved
  <2>1. QueueState = "running" /\ QueueState' \in {"pending", "group"}
    BY <1>0, <1>2, ClaimedRuns DEF QueueState
  <2>2. QueueQuestion' = Queue!Resolved
    BY <1>2 DEF QueueQuestion, Resolved, Queue!Resolved, TypeOK, AgentTypes
  <2>3. (signal' = "reply") = FALSE /\ UNCHANGED cancelRequested
    BY <1>0, <1>2
  <2> QED  BY <2>1, <2>2, <2>3 DEF QueueStep, Queue!Next, Queue!Settle
<1> QED  BY <1>1, <1>2, SettlementDecides

\* A termination ends the run, and a delivery that is lost leaves the step or fails it.
LEMMA EndIsQueued ==
  ASSUME TypeOK, OpenInv, ClaimInv, NEW p \in Process, NEW end \in Terminal, Terminate(p, end),
         UNCHANGED clarification, end = "cancelled" => cancelRequested,
         end = "succeeded" => phase = "Writing"
  PROVE  QueueStep
<1>1. /\ QueueState = "running" /\ QueueState' = end
      /\ UNCHANGED <<signal, cancelRequested, QueueQuestion>>
  BY ClaimedRuns DEF Terminate, QueueState, Terminal, QueueQuestion
<1>2. CASE end \in {"failed", "cancelled"}
  BY <1>1, <1>2 DEF QueueStep, Queue!Next, Queue!Fail
<1>3. CASE end = "succeeded"
  <2>1. QueueQuestion = Queue!Resolved
    BY <1>3 DEF OpenInv, QueueQuestion, Queue!Resolved, TypeOK, AgentTypes
  <2> QED  BY <1>1, <1>3, <2>1 DEF QueueStep, Queue!Next, Queue!Succeed
<1> QED  BY <1>2, <1>3 DEF Terminal

LEMMA ReleaseIsQueued ==
  ASSUME ClaimInv, NEW p \in Process, Release(p)
  PROVE  QueueStep
<1>1. /\ claimant = p /\ claimant' = Nobody /\ status' \in {status, "failed"}
      /\ UNCHANGED <<signal, cancelRequested, clarification>>
  BY DEF Release, payload, agent
<1>2. /\ QueueState = "running" /\ QueueState' \in {"pending", "failed"}
      /\ UNCHANGED QueueQuestion
  BY <1>1, ClaimedRuns DEF QueueState, QueueQuestion
<1> QED  BY <1>1, <1>2 DEF QueueStep, Queue!Next, Queue!Lose, Queue!Fail

LEMMA RunQueues ==
  ASSUME TypeOK, OpenInv, ClaimInv, [Next]_vars
  PROVE  QueueStep
<1>1. ASSUME UNCHANGED <<agent, status, signal, cancelRequested>>,
             (claimant' = Nobody) = (claimant = Nobody)
      PROVE  QueueStep
  BY <1>1 DEF QueueStep, Queue!vars, QueueState, QueueQuestion, agent
<1>2. ASSUME NEW p \in Process, Deliver(p) PROVE QueueStep
  <2>1. QueueState = "pending" /\ QueueState' = "running"
    BY <1>2, ConstantsAssumption DEF Deliver, QueueState
  <2>2. UNCHANGED <<QueueQuestion, signal, cancelRequested>>
    BY <1>2 DEF Deliver, QueueQuestion, payload, agent
  <2> QED  BY <2>1, <2>2 DEF QueueStep, Queue!Next, Queue!Claim
<1>3. ASSUME NEW p \in Process, Takeover(p) PROVE QueueStep
  <2>1. UNCHANGED <<agent, status, signal, cancelRequested>> /\ claimant # Nobody /\ claimant' # Nobody
    BY <1>3, ConstantsAssumption DEF Takeover, payload
  <2> QED  BY <1>1, <2>1
<1>4. ASSUME NEW p \in Process,
             \/ StartJoin(p) \/ FinishJoin(p) \/ ReadMemo(p) \/ CallModel(p) \/ WriteMemo(p)
             \/ SubmitFetches(p) \/ SubmitTurn(p) \/ PutReport(p) \/ Rejected(p)
      PROVE  UNCHANGED <<agent, queue>>
  BY <1>4 DEF StartJoin, FinishJoin, ReadMemo, CallModel, WriteMemo, SubmitFetches, SubmitTurn,
     PutReport, Rejected, payload
<1>5. ASSUME NEW p \in Process, RejectPlan(p) \/ Interrupt(p) PROVE QueueStep
  BY <1>5, ReleaseIsQueued DEF RejectPlan, Interrupt
<1>6. ASSUME NEW p \in Process,
             PermanentFailure(p) \/ RejectFindings(p) \/ RunWriting(p) \/ CancelStep(p)
      PROVE  QueueStep
  BY <1>6, EndIsQueued DEF PermanentFailure, RejectFindings, RunWriting, CancelStep, payload, agent,
     Terminal
<1>7. ASSUME RequestCancel PROVE QueueStep
  <2>1. UNCHANGED <<QueueState, QueueQuestion, signal>> /\ cancelRequested' = TRUE
        /\ status \in Statuses
    BY <1>7 DEF RequestCancel, QueueState, QueueQuestion, payload, agent, TypeOK, QueueTypes
  <2>2. QueueState # "absent"
    BY <2>1 DEF QueueState, Statuses, Terminal
  <2> QED  BY <2>1, <2>2 DEF QueueStep, Queue!Next, Queue!Seek
<1>8. ASSUME CancelUnclaimed PROVE QueueStep
  <2>1. cancelRequested /\ UNCHANGED <<QueueQuestion, signal, cancelRequested>>
    BY <1>8 DEF CancelUnclaimed, QueueQuestion, payload, agent
  <2>2. QueueState \in {"pending", "waiting", "group"} /\ QueueState' = "cancelled"
    BY <1>8 DEF CancelUnclaimed, QueueState, TypeOK, QueueTypes, Statuses
  <2> QED  BY <2>1, <2>2 DEF QueueStep, Queue!Next, Queue!CancelIdle
<1>9. ASSUME EndGroupWait PROVE QueueStep
  <2>1. QueueState = "group" /\ QueueState' = "pending"
    BY <1>9 DEF EndGroupWait, QueueState, ClaimInv
  <2>2. UNCHANGED <<QueueQuestion, signal, cancelRequested>>
    BY <1>9 DEF EndGroupWait, QueueQuestion, payload, agent
  <2> QED  BY <2>1, <2>2 DEF QueueStep, Queue!Next, Queue!WakeGroup
<1>10. ASSUME EndReplyWait PROVE QueueStep
  <2>1. QueueState = "waiting" /\ QueueState' = "pending"
    BY <1>10 DEF EndReplyWait, QueueState, ClaimInv
  <2>2. UNCHANGED <<QueueQuestion, cancelRequested>>
    BY <1>10 DEF EndReplyWait, QueueQuestion, payload, agent
  <2> QED  BY <2>1, <2>2 DEF QueueStep, Queue!Next, Queue!WakeUser
<1>11. ASSUME UNCHANGED vars \/ \E g \in Group, u \in Url : MemberEnd(g, u)
       PROVE  UNCHANGED <<agent, queue>>
  BY <1>11 DEF vars, MemberEnd, payload
<1>12. ASSUME UNCHANGED <<agent, queue>> PROVE QueueStep
  BY <1>1, <1>12 DEF queue
<1> QED
  BY <1>2, <1>3, <1>4, <1>5, <1>6, <1>7, <1>8, <1>9, <1>10, <1>11, <1>12, SettlementIsQueued
     DEF Next, Work, Disturb, Settling

\* The run, with its phases, turns, processes and faults, is the queue of one run: each step
\* of it is decided once (runner.rs:170), and so is the question to the user.
THEOREM RunImplementsQueue == Spec => ImplementsQueue
<1>1. Init => Queue!Init /\ OpenInv /\ ClaimInv
  BY DEF Init, Queue!Init, QueueState, QueueQuestion, OpenInv, ClaimInv
<1>2. TypeOK /\ (OpenInv /\ ClaimInv) /\ [Next]_vars => (OpenInv /\ ClaimInv)' /\ QueueStep
  BY OpenStep, ClaimStep, RunQueues
<1> QED  BY <1>1, <1>2, TypeCorrect, PTL DEF Spec, ImplementsQueue, QueueStep, Queue!Spec

\* What a queue promises of the question and of the end of its run holds of the run: the
\* agent asks once, the answer is final, and a run ends once.
THEOREM RunAsksOnce == Spec => Queue!AskedOnce /\ Queue!AnswerKept /\ Queue!EndsOnce
<1> DEFINE Once == QueueState' = "waiting" /\ QueueState # "waiting" => QueueQuestion = "none"
           Kept == QueueQuestion \in {"given", "assumed"} => QueueQuestion' = QueueQuestion
           End == /\ QueueState \in Queue!Terminal => QueueState' = QueueState
                  /\ QueueState' = "cancelled" /\ QueueState # "cancelled" => cancelRequested
<1>1. [Queue!Next]_(Queue!vars) => [Once /\ Kept /\ End]_(Queue!vars)
  BY DEF Queue!Next, Queue!vars, Queue!Submit, Queue!Claim, Queue!Lose, Queue!Bury, Queue!Ask, Queue!Settle,
     Queue!Succeed, Queue!Fail, Queue!WakeUser, Queue!WakeGroup, Queue!CancelIdle, Queue!Seek,
     Queue!Resolved, Queue!Terminal
<1> HIDE DEF Once, Kept, End
<1>2. Queue!Spec => [][Once]_(Queue!vars) /\ [][Kept]_(Queue!vars) /\ [][End]_(Queue!vars)
  BY <1>1, PTL DEF Queue!Spec
<1>3. Queue!Spec => Queue!AskedOnce /\ Queue!AnswerKept /\ Queue!EndsOnce
  BY <1>2 DEF Once, Kept, End, Queue!AskedOnce, Queue!AnswerKept, Queue!EndsOnce
<1> QED  BY <1>3, RunImplementsQueue DEF ImplementsQueue

-----------------------------------------------------------------------------
(* The run uses its groups as the tool jobs let it. *)

\* The group g, as the jobs that are its members promise it.
Tools(g) == INSTANCE GroupMembers WITH Job <- Url, member <- member[g]

LEMMA MembersSubmitted ==
  ASSUME TypeOK, NEW g \in Group, NEW h \in Group, NEW urls \in SUBSET Url,
         member' = Submitted(h, urls)
  PROVE  [Tools(g)!Next]_(member[g])
<1>1. CASE g # h
  BY <1>1 DEF TypeOK, GroupTypes, Submitted
<1>2. CASE g = h
  <2>1. Tools(g)!Submit(urls)
    BY <1>2 DEF TypeOK, GroupTypes, Submitted, Tools!Submit
  <2> QED  BY <2>1 DEF Tools!Next
<1> QED  BY <1>1, <1>2

LEMMA GroupsStep ==
  ASSUME TypeOK, StepFits, [Next]_vars, NEW g \in Group
  PROVE  [Tools(g)!Next]_(member[g])
<1>1. ASSUME NEW p \in Process, SubmitFetches(p) PROVE [Tools(g)!Next]_(member[g])
  <2>1. member' = Submitted(0, fetchQueue) /\ fetchQueue \in SUBSET Url
    BY <1>1 DEF SubmitFetches, TypeOK, PayloadTypes
  <2> QED  BY <2>1, GroupZero, MembersSubmitted
<1>2. ASSUME NEW p \in Process, SubmitTurn(p) PROVE [Tools(g)!Next]_(member[g])
  <2>1. member' = Submitted(turn + 1, NewFetches(reply[p])) /\ NewFetches(reply[p]) \in SUBSET Url
    BY <1>2 DEF SubmitTurn, NewFetches, TypeOK, MemoryTypes, Reply
  <2>2. turn + 1 \in Group
    BY <1>2, ConstantsAssumption
       DEF SubmitTurn, Investigates, StepFits, NeedsModel, Group, TypeOK, AgentTypes
  <2> QED  BY <2>1, <2>2, MembersSubmitted
<1>3. ASSUME NEW h \in Group, NEW u \in Url, MemberEnd(h, u) PROVE [Tools(g)!Next]_(member[g])
  <2>1. CASE h # g
    BY <1>3, <2>1 DEF MemberEnd, TypeOK, GroupTypes
  <2>2. CASE h = g
    <3>1. Tools(g)!End(u)
      BY <1>3, <2>2 DEF MemberEnd, TypeOK, GroupTypes, Tools!End
    <3> QED  BY <3>1 DEF Tools!Next
  <2> QED  BY <2>1, <2>2
<1>4. CASE ~GroupSteps
  BY <1>4, OtherMembers
<1> QED  BY <1>1, <1>2, <1>3, <1>4 DEF GroupSteps

\* Every group of the run, over redelivered submissions, takeovers and cancellations, is what
\* ToolJobs implements: what the jobs promise is all that the run relies on.
THEOREM RunUsesGroups ==
  Spec => (\A g \in Group : Tools(g)!Init) /\ [][\A g \in Group : [Tools(g)!Next]_(member[g])]_vars
<1>1. Init => \A g \in Group : Tools(g)!Init
  BY DEF Init, Tools!Init
<1>2. TypeOK /\ StepFits /\ [Next]_vars => \A g \in Group : [Tools(g)!Next]_(member[g])
  BY GroupsStep
<1> QED  BY <1>1, <1>2, TypeCorrect, PTL DEF Spec
=============================================================================
