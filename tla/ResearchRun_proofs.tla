------------------------- MODULE ResearchRun_proofs -------------------------
(* Theorems about ResearchRun, for every value of its constants. *)
EXTENDS ResearchRun, FiniteSetTheorems, TLAPS

-----------------------------------------------------------------------------
(* Facts about the operators of the model. *)

\* The page that pop_front returns is in the queue.
LEMMA FrontInQueue ==
  ASSUME NEW q, q # {}
  PROVE  Front(q) \in q
BY DEF Front

\* A reply is built from its parts.
LEMMA ReplyParts ==
  ASSUME NEW k \in {"none", "plan", "summary", "text", "tools", "done", "malformed"},
         NEW n \in Nat, NEW us \in SUBSET Url, NEW past \in SUBSET Url, NEW ask \in BOOLEAN
  PROVE  ReplyOf(k, n, us, past, ask) \in Reply
BY DEF ReplyOf, Reply

\* An answer of the model is a reply.
LEMMA AnswersAreReplies ==
  ASSUME TypeOK, NEW r \in Answers, NeedsModel
  PROVE  r \in Reply
<1>0. {} \in SUBSET Url /\ FALSE \in BOOLEAN
  OBVIOUS
<1>1. ASSUME r \in Plans PROVE r \in Reply
  <2>1. PICK k \in 0 .. Depth + 1 : r = ReplyOf("plan", k, {}, {}, FALSE)
    BY <1>1 DEF Plans
  <2>2. k \in Nat
    BY ConstantsAssumption
  <2> QED  BY <1>0, <2>1, <2>2, ReplyParts
<1>2. ASSUME NEW u \in Url PROVE Summary(u) \in Reply
  BY <1>0, ReplyParts DEF Summary
<1>3. ASSUME r \in ToolCalls PROVE r \in Reply
  <2>1. PICK us \in SUBSET Url : \E past \in SUBSET us : \E ask \in MayAsk :
          r = ReplyOf("tools", 0, us, past, ask)
    BY <1>3 DEF ToolCalls
  <2>2. PICK past \in SUBSET us, ask \in MayAsk : r = ReplyOf("tools", 0, us, past, ask)
    BY <2>1
  <2>3. past \in SUBSET Url /\ ask \in BOOLEAN
    BY DEF MayAsk
  <2> QED  BY <2>2, <2>3, ReplyParts
<1>4. ASSUME r \in Findings PROVE r \in Reply
  <2>1. PICK us \in SUBSET Url : r = ReplyOf("done", 0, us, {}, FALSE)
    BY <1>4 DEF Findings
  <2> QED  BY <1>0, <2>1, ReplyParts
<1>5. NotFindings \in Reply /\ Text \in Reply
  BY <1>0, ReplyParts DEF NotFindings, Text
<1>6. CASE phase = "Planning"
  BY <1>1, <1>6 DEF Answers
<1>7. CASE phase = "Summarizing"
  <2>1. Front(summarizeQueue) \in Url
    BY <1>7, FrontInQueue DEF TypeOK, PayloadTypes, NeedsModel
  <2> QED  BY <1>2, <1>7, <2>1 DEF Answers
<1>8. CASE phase = "Investigating"
  BY <1>3, <1>4, <1>5, <1>8 DEF Answers
<1>9. CASE phase \in {"Synthesizing", "Writing"}
  BY <1>5, <1>9 DEF Answers
<1> QED  BY <1>6, <1>7, <1>8, <1>9 DEF NeedsModel

\* The pages that enter the fetch queue are pages.
LEMMA AdmittedArePages ==
  ASSUME NEW hits \in SUBSET Url, NEW s \in Admitted(hits)
  PROVE  s \in SUBSET Url
BY DEF Admitted

-----------------------------------------------------------------------------
(* Types, and where a process can be in the step that it executes. *)

\* The place of a process fits the pending step, and a reply in the memo or in
\* its hands is one that the model can give in that step.
StepFits ==
  /\ memo # NoReply => NeedsModel /\ memo \in Answers
  /\ \A p \in Process :
       /\ pc[p] \in {"joining", "joined"} => Joins
       /\ pc[p] \in {"calling", "replied", "ready"} => NeedsModel
       /\ pc[p] \in {"replied", "ready"} => reply[p] \in Answers
       /\ pc[p] = "submitted" => \/ phase = "Fetching" /\ ~fetchSubmitted
                                 \/ phase = "Investigating" /\ turn < Turns
       /\ pc[p] = "written" => phase = "Writing"

LEMMA InitTypes == Init => TypeOK /\ StepFits
<1> SUFFICES ASSUME Init PROVE TypeOK /\ StepFits
  OBVIOUS
<1>1. NoReply \in Reply
  BY ReplyParts DEF NoReply
<1>2. NoBlob \in Blob
  BY DEF NoBlob, Blob
<1>3. Turns \in Nat
  BY ConstantsAssumption
<1>4. TypeOK
  <2>1. PayloadTypes /\ GhostTypes
    BY DEF Init, PayloadTypes, GhostTypes, Phases
  <2>2. AgentTypes
    <3>1. 0 \in Group
      BY <1>3 DEF Group
    <3> QED  BY <3>1 DEF Init, AgentTypes
  <2>5. GroupTypes
    BY DEF Init, GroupTypes, MemberStates
  <2>3. QueueTypes /\ StoreTypes
    BY <1>1, <1>2 DEF Init, QueueTypes, StoreTypes, Statuses
  <2>4. MemoryTypes
    BY <1>1 DEF Init, MemoryTypes, Places
  <2> QED  BY <2>1, <2>2, <2>3, <2>4, <2>5 DEF TypeOK
<1>5. StepFits
  BY DEF Init, StepFits
<1> QED  BY <1>4, <1>5

\* What a settlement leaves behind has its types and fits the new step.
LEMMA SettleTypes ==
  ASSUME TypeOK, NEW p \in Process, NEW next \in Statuses, Settle(p, next)
  PROVE  /\ usage' \in Nat /\ QueueTypes' /\ StoreTypes' /\ GroupTypes' /\ MemoryTypes'
         /\ GhostTypes' /\ StepFits'
<1>1. NoReply \in Reply
  BY ReplyParts DEF NoReply
<1>2. usage' \in Nat /\ QueueTypes' /\ StoreTypes' /\ GroupTypes' /\ MemoryTypes' /\ GhostTypes'
  BY <1>1 DEF Settle, TypeOK, QueueTypes, StoreTypes, GroupTypes, MemoryTypes, GhostTypes,
     groups, ghosts, Places
<1>3. StepFits'
  BY DEF Settle, StepFits
<1> QED  BY <1>2, <1>3

\* The end of a step or of its delivery, without a new step.
LEMMA TerminateTypes ==
  ASSUME TypeOK, NEW p \in Process, NEW end \in Terminal, Terminate(p, end)
  PROVE  /\ QueueTypes' /\ StoreTypes' /\ GroupTypes' /\ MemoryTypes'
         /\ paid' \in Nat /\ faults' \in Nat /\ takeovers' \in Nat
BY DEF Terminate, TypeOK, QueueTypes, StoreTypes, GroupTypes, MemoryTypes, GhostTypes, store,
   Statuses, Places

LEMMA ReleaseTypes ==
  ASSUME TypeOK, NEW p \in Process, Release(p)
  PROVE  /\ PayloadTypes' /\ AgentTypes' /\ QueueTypes' /\ StoreTypes' /\ GroupTypes'
         /\ MemoryTypes' /\ paid' \in Nat /\ takeovers' \in Nat
BY DEF Release, TypeOK, PayloadTypes, AgentTypes, QueueTypes, StoreTypes, GroupTypes,
   MemoryTypes, GhostTypes, payload, gather, pages, agent, store, Statuses, Terminal, Places

\* The submission of a group changes its members only.
LEMMA SubmittedTypes ==
  ASSUME GroupTypes, NEW g \in Group, NEW urls
  PROVE  Submitted(g, urls) \in [Group -> [Url -> MemberStates]]
BY DEF GroupTypes, Submitted, MemberStates

\* Every step keeps the types.
LEMMA TypeStep == TypeOK /\ StepFits /\ [Next]_vars => TypeOK'
<1> SUFFICES ASSUME TypeOK, StepFits, [Next]_vars PROVE TypeOK'
  OBVIOUS
<1> USE DEF TypeOK, PayloadTypes, AgentTypes, QueueTypes, StoreTypes, GroupTypes, MemoryTypes,
            GhostTypes
<1>0. Turns \in Nat /\ NoReply \in Reply
  BY ConstantsAssumption, ReplyParts DEF NoReply
<1>1. ASSUME NEW p \in Process, Deliver(p) PROVE TypeOK'
  BY <1>1, <1>0 DEF Deliver, Places, payload, gather, pages, agent, queue, store, groups, memory,
     ghosts
<1>2. ASSUME NEW p \in Process, Takeover(p) PROVE TypeOK'
  BY <1>2, <1>0 DEF Takeover, Places, payload, gather, pages, agent, queue, store, groups, memory,
     ghosts
<1>3. ASSUME NEW p \in Process, Rejected(p) PROVE TypeOK'
  BY <1>3, <1>0 DEF Rejected, Places, payload, gather, pages, agent, queue, store, groups, memory,
     ghosts
<1>4. ASSUME NEW p \in Process, StartJoin(p) PROVE TypeOK'
  BY <1>4, <1>0 DEF StartJoin, Places, Joined, Group, payload, gather, pages, agent, queue, store,
     groups, memory, ghosts
<1>5. ASSUME NEW p \in Process, FinishJoin(p) PROVE TypeOK'
  BY <1>5, <1>0 DEF FinishJoin, Places, payload, gather, pages, agent, queue, store, groups,
     memory, ghosts
<1>6. ASSUME NEW p \in Process, ReadMemo(p) PROVE TypeOK'
  <2>1. HostCount \in Nat
    BY DEF HostCount
  <2> QED  BY <1>6, <2>1 DEF ReadMemo, Places, payload, gather, pages, agent, queue, store,
     groups, memory, ghosts
<1>7. ASSUME NEW p \in Process, CallModel(p) PROVE TypeOK'
  <2>1. 1 - HostCount \in Nat
    BY DEF HostCount
  <2>2. PICK r \in Answers : reply' = [reply EXCEPT ![p] = r]
    BY <1>7 DEF CallModel
  <2>3. r \in Reply
    BY <1>7, AnswersAreReplies DEF CallModel, StepFits
  <2> QED  BY <1>7, <2>1, <2>2, <2>3 DEF CallModel, Places, payload, gather, pages, agent, queue,
     store, groups, memory, ghosts
<1>8. ASSUME NEW p \in Process, WriteMemo(p) PROVE TypeOK'
  <2>1. HostCount \in Nat
    BY DEF HostCount
  <2> QED  BY <1>8, <2>1 DEF WriteMemo, Places, payload, gather, pages, agent, queue, store,
     groups, memory, ghosts
<1>9. ASSUME NEW p \in Process, PutReport(p) PROVE TypeOK'
  BY <1>9 DEF PutReport, Blob, Places, payload, gather, pages, agent, queue, store, groups,
     memory, ghosts
<1>10. ASSUME NEW p \in Process, SubmitFetches(p) PROVE TypeOK'
  <2>1. member' \in [Group -> [Url -> MemberStates]]
    BY <1>10, <1>0, SubmittedTypes DEF SubmitFetches, Group
  <2> QED  BY <1>10, <2>1 DEF SubmitFetches, Places, payload, gather, pages, agent, queue, store,
     groups, memory, ghosts
<1>11. ASSUME NEW p \in Process, SubmitTurn(p) PROVE TypeOK'
  <2>1. turn + 1 \in Group
    BY <1>11, <1>0 DEF SubmitTurn, Investigates, StepFits, NeedsModel, Group
  <2>2. member' \in [Group -> [Url -> MemberStates]]
    BY <1>11, <2>1, SubmittedTypes DEF SubmitTurn
  <2> QED  BY <1>11, <2>2 DEF SubmitTurn, Places, payload, gather, pages, agent, queue, store,
     groups, memory, ghosts
<1>12. ASSUME NEW p \in Process, RunPlanning(p) PROVE TypeOK'
  <2>0. Depth \in Nat /\ reply[p].n \in Nat
    BY ConstantsAssumption DEF Reply
  <2>1. Settle(p, "pending")
    BY <1>12 DEF RunPlanning
  <2>2. /\ usage' \in Nat /\ QueueTypes' /\ StoreTypes' /\ GroupTypes' /\ MemoryTypes'
        /\ GhostTypes'
    BY <2>1, SettleTypes DEF Statuses, Terminal
  <2>8. PayloadTypes'
    BY <1>12, <2>0, <2>2 DEF RunPlanning, Questions, Phases, gather, pages, agent
  <2>9. AgentTypes'
    BY <1>12, <1>0, <2>0, <2>2 DEF RunPlanning, Questions, Phases, gather, pages, agent
  <2> QED  BY <2>2, <2>8, <2>9
<1>13. ASSUME NEW p \in Process, RunSearching(p) PROVE TypeOK'
  <2>0. fetchQueue' \in SUBSET Url
    BY <1>13, AdmittedArePages DEF RunSearching
  <2>1. Settle(p, "pending")
    BY <1>13 DEF RunSearching
  <2>2. /\ usage' \in Nat /\ QueueTypes' /\ StoreTypes' /\ GroupTypes' /\ MemoryTypes'
        /\ GhostTypes'
    BY <2>1, SettleTypes DEF Statuses, Terminal
  <2>8. PayloadTypes'
    BY <1>13, <2>0, <2>2 DEF RunSearching, Phases, pages, agent
  <2>9. AgentTypes'
    BY <1>13, <1>0, <2>0, <2>2 DEF RunSearching, Phases, pages, agent
  <2> QED  BY <2>2, <2>8, <2>9
<1>14. ASSUME NEW p \in Process, WaitForFetches(p) PROVE TypeOK'
  <2>1. Settle(p, "waitGroup")
    BY <1>14 DEF WaitForFetches
  <2>2. /\ usage' \in Nat /\ QueueTypes' /\ StoreTypes' /\ GroupTypes' /\ MemoryTypes'
        /\ GhostTypes'
    BY <2>1, SettleTypes DEF Statuses, Terminal
  <2>8. PayloadTypes'
    BY <1>14, <2>2 DEF WaitForFetches, pages, agent
  <2>9. AgentTypes'
    BY <1>14, <1>0, <2>2 DEF WaitForFetches, pages, agent
  <2> QED  BY <2>2, <2>8, <2>9
<1>15. ASSUME NEW p \in Process, RecordFetches(p) PROVE TypeOK'
  <2>0. /\ summarizeQueue' \in SUBSET Url /\ fetched' \in SUBSET Url /\ phase' \in Phases
        /\ fetchQueue' \in SUBSET Url /\ fetchSubmitted' \in BOOLEAN /\ steps' = steps + 1
        /\ toSearch' = toSearch /\ summaries' = summaries
    BY <1>15 DEF RecordFetches, Phases
  <2>1. Settle(p, "pending")
    BY <1>15 DEF RecordFetches
  <2>2. /\ usage' \in Nat /\ QueueTypes' /\ StoreTypes' /\ GroupTypes' /\ MemoryTypes'
        /\ GhostTypes'
    BY <2>1, SettleTypes DEF Statuses, Terminal
  <2>8. PayloadTypes'
    BY <2>0, <2>2
  <2>9. AgentTypes'
    BY <1>15, <1>0, <2>0, <2>2 DEF RecordFetches, agent
  <2> QED  BY <2>2, <2>8, <2>9
<1>16. ASSUME NEW p \in Process, RunSummarizing(p) PROVE TypeOK'
  <2>0. reply[p].urls \in SUBSET Url
    BY DEF Reply
  <2>1. Settle(p, "pending")
    BY <1>16 DEF RunSummarizing
  <2>2. /\ usage' \in Nat /\ QueueTypes' /\ StoreTypes' /\ GroupTypes' /\ MemoryTypes'
        /\ GhostTypes'
    BY <2>1, SettleTypes DEF Statuses, Terminal
  <2>8. PayloadTypes'
    BY <1>16, <2>0, <2>2 DEF RunSummarizing, AfterSummary, Phases, gather, agent
  <2>9. AgentTypes'
    BY <1>16, <1>0, <2>0, <2>2 DEF RunSummarizing, AfterSummary, Phases, gather, agent
  <2> QED  BY <2>2, <2>8, <2>9
<1>17. ASSUME NEW p \in Process, SkipSummaries(p) PROVE TypeOK'
  <2>1. Settle(p, "pending")
    BY <1>17 DEF SkipSummaries
  <2>2. /\ usage' \in Nat /\ QueueTypes' /\ StoreTypes' /\ GroupTypes' /\ MemoryTypes'
        /\ GhostTypes'
    BY <2>1, SettleTypes DEF Statuses, Terminal
  <2>8. PayloadTypes'
    BY <1>17, <2>2 DEF SkipSummaries, Phases, gather, pages, agent
  <2>9. AgentTypes'
    BY <1>17, <1>0, <2>2 DEF SkipSummaries, Phases, gather, pages, agent
  <2> QED  BY <2>2, <2>8, <2>9
<1>18. ASSUME NEW p \in Process, SkipInvestigation(p) PROVE TypeOK'
  <2>1. Settle(p, "pending")
    BY <1>18 DEF SkipInvestigation
  <2>2. /\ usage' \in Nat /\ QueueTypes' /\ StoreTypes' /\ GroupTypes' /\ MemoryTypes'
        /\ GhostTypes'
    BY <2>1, SettleTypes DEF Statuses, Terminal
  <2>8. PayloadTypes'
    BY <1>18, <2>2 DEF SkipInvestigation, Phases, gather, pages, agent
  <2>9. AgentTypes'
    BY <1>18, <1>0, <2>2 DEF SkipInvestigation, Phases, gather, pages, agent
  <2> QED  BY <2>2, <2>8, <2>9
<1>19. ASSUME NEW p \in Process, AskUser(p) PROVE TypeOK'
  <2>0. Returned \in SUBSET Url
    BY DEF Returned
  <2>1. Settle(p, "waitReply")
    BY <1>19 DEF AskUser
  <2>2. /\ usage' \in Nat /\ QueueTypes' /\ StoreTypes' /\ GroupTypes' /\ MemoryTypes'
        /\ GhostTypes'
    BY <2>1, SettleTypes DEF Statuses, Terminal
  <2>8. PayloadTypes'
    BY <1>19, <2>0, <2>2 DEF AskUser, gather, pages
  <2>9. AgentTypes'
    BY <1>19, <1>0, <2>0, <2>2 DEF AskUser, gather, pages
  <2> QED  BY <2>2, <2>8, <2>9
<1>20. ASSUME NEW p \in Process, OutOfTurns(p) PROVE TypeOK'
  <2>0. Returned \in SUBSET Url
    BY DEF Returned
  <2>5. Resolved \in {"none", "asked", "given", "assumed"}
    BY DEF Resolved
  <2>1. Settle(p, "pending")
    BY <1>20 DEF OutOfTurns
  <2>2. /\ usage' \in Nat /\ QueueTypes' /\ StoreTypes' /\ GroupTypes' /\ MemoryTypes'
        /\ GhostTypes'
    BY <2>1, SettleTypes DEF Statuses, Terminal
  <2>8. PayloadTypes'
    BY <1>20, <2>0, <2>5, <2>2 DEF OutOfTurns, Phases, gather, pages
  <2>9. AgentTypes'
    BY <1>20, <1>0, <2>0, <2>5, <2>2 DEF OutOfTurns, Phases, gather, pages
  <2> QED  BY <2>2, <2>8, <2>9
<1>21. ASSUME NEW p \in Process, RunTurn(p) PROVE TypeOK'
  <2>0. Returned \in SUBSET Url
    BY DEF Returned
  <2>1. PICK next \in {"pending", "waitReply"} : Settle(p, next)
    BY <1>21 DEF RunTurn
  <2>2. /\ usage' \in Nat /\ QueueTypes' /\ StoreTypes' /\ GroupTypes' /\ MemoryTypes'
        /\ GhostTypes'
    BY <2>1, SettleTypes DEF Statuses, Terminal
  <2>3. turn + 1 \in Group
    BY <1>21, <1>0 DEF RunTurn, Investigates, StepFits, NeedsModel, Group
  <2>4. reply[p].ask \in BOOLEAN
    BY DEF Reply
  <2>5. Resolved \in {"none", "asked", "given", "assumed"}
    BY DEF Resolved
  <2>6. PayloadTypes'
    <3>1. steps' \in Nat
      BY <1>21 DEF RunTurn
    <3> QED  BY <1>21, <2>2, <3>1 DEF RunTurn, gather, pages
  <2>7. AgentTypes'
    BY <1>21, <2>0, <2>3, <2>4, <2>5 DEF RunTurn, Asks
  <2> QED  BY <2>2, <2>6, <2>7
<1>22. ASSUME NEW p \in Process, WaitForTurn(p) PROVE TypeOK'
  <2>0. Returned \in SUBSET Url
    BY DEF Returned
  <2>3. turn + 1 \in Group
    BY <1>22, <1>0 DEF WaitForTurn, Investigates, StepFits, NeedsModel, Group
  <2>4. reply[p].ask \in BOOLEAN /\ reply[p].urls \in SUBSET Url
    BY DEF Reply
  <2>1. Settle(p, "waitGroup")
    BY <1>22 DEF WaitForTurn
  <2>2. /\ usage' \in Nat /\ QueueTypes' /\ StoreTypes' /\ GroupTypes' /\ MemoryTypes'
        /\ GhostTypes'
    BY <2>1, SettleTypes DEF Statuses, Terminal
  <2>8. PayloadTypes'
    BY <1>22, <2>0, <2>3, <2>4, <2>2 DEF WaitForTurn, NewFetches, Asks, Resolved, gather, pages
  <2>9. AgentTypes'
    BY <1>22, <1>0, <2>0, <2>3, <2>4, <2>2 DEF WaitForTurn, NewFetches, Asks, Resolved, gather,
       pages
  <2> QED  BY <2>2, <2>8, <2>9
<1>23. ASSUME NEW p \in Process, FinishInvestigation(p) PROVE TypeOK'
  <2>1. Settle(p, "pending")
    BY <1>23 DEF FinishInvestigation
  <2>2. /\ usage' \in Nat /\ QueueTypes' /\ StoreTypes' /\ GroupTypes' /\ MemoryTypes'
        /\ GhostTypes'
    BY <2>1, SettleTypes DEF Statuses, Terminal
  <2>3. turn + 1 \in Group
    BY <1>23, <1>0 DEF FinishInvestigation, Investigates, StepFits, NeedsModel, Group
  <2>4. /\ Returned \in SUBSET Url /\ reply[p].urls \in SUBSET Url
        /\ Resolved \in {"none", "asked", "given", "assumed"}
    BY DEF Returned, Resolved, Reply
  <2>5. summaries' \in SUBSET Url /\ fetched' \in SUBSET Url
    BY <1>23, <2>4 DEF FinishInvestigation
  <2>6. PayloadTypes'
    BY <1>23, <2>2, <2>5 DEF FinishInvestigation, Phases, gather
  <2>7. AgentTypes'
    BY <1>23, <2>3, <2>4 DEF FinishInvestigation
  <2> QED  BY <2>2, <2>6, <2>7
<1>24. ASSUME NEW p \in Process, RunSynthesizing(p) PROVE TypeOK'
  <2>1. Settle(p, "pending")
    BY <1>24 DEF RunSynthesizing
  <2>2. /\ usage' \in Nat /\ QueueTypes' /\ StoreTypes' /\ GroupTypes' /\ MemoryTypes'
        /\ GhostTypes'
    BY <2>1, SettleTypes DEF Statuses, Terminal
  <2>8. PayloadTypes'
    BY <1>24, <2>2 DEF RunSynthesizing, Phases, gather, pages, agent
  <2>9. AgentTypes'
    BY <1>24, <1>0, <2>2 DEF RunSynthesizing, Phases, gather, pages, agent
  <2> QED  BY <2>2, <2>8, <2>9
<1>25. ASSUME NEW p \in Process, PermanentFailure(p) PROVE TypeOK'
  <2>1. Terminate(p, "failed")
    BY <1>25 DEF PermanentFailure
  <2>2. /\ QueueTypes' /\ StoreTypes' /\ GroupTypes' /\ MemoryTypes'
        /\ paid' \in Nat /\ faults' \in Nat /\ takeovers' \in Nat
    BY <2>1, TerminateTypes DEF Terminal
  <2> QED  BY <1>25, <2>2 DEF PermanentFailure, payload, gather, pages, agent
<1>26. ASSUME NEW p \in Process, RejectFindings(p) PROVE TypeOK'
  <2>1. Terminate(p, "failed")
    BY <1>26 DEF RejectFindings
  <2>2. /\ QueueTypes' /\ StoreTypes' /\ GroupTypes' /\ MemoryTypes'
        /\ paid' \in Nat /\ faults' \in Nat /\ takeovers' \in Nat
    BY <2>1, TerminateTypes DEF Terminal
  <2> QED  BY <1>26, <2>2 DEF RejectFindings, payload, gather, pages, agent
<1>27. ASSUME NEW p \in Process, RunWriting(p) PROVE TypeOK'
  <2>1. Terminate(p, "succeeded")
    BY <1>27 DEF RunWriting
  <2>2. /\ QueueTypes' /\ StoreTypes' /\ GroupTypes' /\ MemoryTypes'
        /\ paid' \in Nat /\ faults' \in Nat /\ takeovers' \in Nat
    BY <2>1, TerminateTypes DEF Terminal
  <2> QED  BY <1>27, <2>2 DEF RunWriting, gather, pages, agent
<1>28. ASSUME NEW p \in Process, CancelStep(p) PROVE TypeOK'
  <2>1. Terminate(p, "cancelled")
    BY <1>28 DEF CancelStep
  <2>2. /\ QueueTypes' /\ StoreTypes' /\ GroupTypes' /\ MemoryTypes'
        /\ paid' \in Nat /\ faults' \in Nat /\ takeovers' \in Nat
    BY <2>1, TerminateTypes DEF Terminal
  <2> QED  BY <1>28, <2>2 DEF CancelStep, gather, pages, agent
<1>29. ASSUME NEW p \in Process, Interrupt(p) PROVE TypeOK'
  BY <1>29, ReleaseTypes DEF Interrupt
<1>30. ASSUME NEW p \in Process, RejectPlan(p) PROVE TypeOK'
  BY <1>30, ReleaseTypes DEF RejectPlan
<1>31. ASSUME RequestCancel PROVE TypeOK'
  BY <1>31 DEF RequestCancel, Statuses, Terminal, payload, gather, pages, agent, queue, store,
     groups, memory, ghosts
<1>32. ASSUME CancelUnclaimed PROVE TypeOK'
  BY <1>32 DEF CancelUnclaimed, Statuses, Terminal, payload, gather, pages, agent, queue, store,
     groups, memory, ghosts
<1>33. ASSUME EndGroupWait PROVE TypeOK'
  BY <1>33 DEF EndGroupWait, Statuses, Terminal, payload, gather, pages, agent, queue, store,
     groups, memory, ghosts
<1>34. ASSUME EndReplyWait PROVE TypeOK'
  BY <1>34 DEF EndReplyWait, Statuses, Terminal, payload, gather, pages, agent, queue, store,
     groups, memory, ghosts
<1>35. ASSUME NEW g \in Group, NEW u \in Url, MemberEnd(g, u) PROVE TypeOK'
  BY <1>35 DEF MemberEnd, MemberStates, payload, gather, pages, agent, queue, store, groups,
     memory, ghosts
<1>36. ASSUME UNCHANGED vars PROVE TypeOK'
  BY <1>36 DEF vars, payload, gather, pages, agent, queue, store, groups, memory, ghosts
<1> QED
  BY <1>1, <1>2, <1>3, <1>4, <1>5, <1>6, <1>7, <1>8, <1>9, <1>10, <1>11, <1>12, <1>13,
     <1>14, <1>15, <1>16, <1>17, <1>18, <1>19, <1>20, <1>21, <1>22, <1>23, <1>24, <1>25,
     <1>26, <1>27, <1>28, <1>29, <1>30, <1>31, <1>32, <1>33, <1>34, <1>35, <1>36 DEF Next,
     Work, Disturb

\* The steps that commit a new payload, and all the others.
Settling(p) ==
  \/ RunPlanning(p) \/ RunSearching(p) \/ WaitForFetches(p) \/ RecordFetches(p)
  \/ RunSummarizing(p) \/ SkipSummaries(p)
  \/ SkipInvestigation(p) \/ AskUser(p) \/ OutOfTurns(p) \/ RunTurn(p)
  \/ WaitForTurn(p) \/ FinishInvestigation(p) \/ RunSynthesizing(p)

LEMMA SettlingSettles ==
  ASSUME NEW p \in Process, Settling(p)
  PROVE  \E next \in Statuses : Settle(p, next)
BY DEF Settling, RunPlanning, RunSearching, WaitForFetches, RecordFetches, RunSummarizing,
   SkipSummaries, SkipInvestigation, AskUser, OutOfTurns, RunTurn, WaitForTurn,
   FinishInvestigation, RunSynthesizing, Statuses

LEMMA OtherSteps ==
  ASSUME [Next]_vars, ~ \E p \in Process : Settling(p)
  PROVE  UNCHANGED <<phase, gather, pages, agent>>
<1> USE DEF payload
<1>1. ASSUME NEW p \in Process, Deliver(p) PROVE UNCHANGED <<phase, gather, pages, agent>>
  BY <1>1 DEF Deliver
<1>2. ASSUME NEW p \in Process, Takeover(p) PROVE UNCHANGED <<phase, gather, pages, agent>>
  BY <1>2 DEF Takeover
<1>3. ASSUME NEW p \in Process, StartJoin(p) PROVE UNCHANGED <<phase, gather, pages, agent>>
  BY <1>3 DEF StartJoin
<1>4. ASSUME NEW p \in Process, FinishJoin(p) PROVE UNCHANGED <<phase, gather, pages, agent>>
  BY <1>4 DEF FinishJoin
<1>5. ASSUME NEW p \in Process, ReadMemo(p) PROVE UNCHANGED <<phase, gather, pages, agent>>
  BY <1>5 DEF ReadMemo
<1>6. ASSUME NEW p \in Process, CallModel(p) PROVE UNCHANGED <<phase, gather, pages, agent>>
  BY <1>6 DEF CallModel
<1>7. ASSUME NEW p \in Process, WriteMemo(p) PROVE UNCHANGED <<phase, gather, pages, agent>>
  BY <1>7 DEF WriteMemo
<1>8. ASSUME NEW p \in Process, Rejected(p) PROVE UNCHANGED <<phase, gather, pages, agent>>
  BY <1>8 DEF Rejected
<1>9. ASSUME NEW p \in Process, SubmitFetches(p) PROVE UNCHANGED <<phase, gather, pages, agent>>
  BY <1>9 DEF SubmitFetches
<1>10. ASSUME NEW p \in Process, SubmitTurn(p) PROVE UNCHANGED <<phase, gather, pages, agent>>
  BY <1>10 DEF SubmitTurn
<1>11. ASSUME NEW p \in Process, PutReport(p) PROVE UNCHANGED <<phase, gather, pages, agent>>
  BY <1>11 DEF PutReport
<1>12. ASSUME NEW p \in Process, RejectPlan(p) PROVE UNCHANGED <<phase, gather, pages, agent>>
  BY <1>12 DEF RejectPlan, Release
<1>13. ASSUME NEW p \in Process, Interrupt(p) PROVE UNCHANGED <<phase, gather, pages, agent>>
  BY <1>13 DEF Interrupt, Release
<1>14. ASSUME NEW p \in Process, PermanentFailure(p) PROVE UNCHANGED <<phase, gather, pages, agent>>
  BY <1>14 DEF PermanentFailure
<1>15. ASSUME NEW p \in Process, RejectFindings(p) PROVE UNCHANGED <<phase, gather, pages, agent>>
  BY <1>15 DEF RejectFindings
<1>16. ASSUME NEW p \in Process, RunWriting(p) PROVE UNCHANGED <<phase, gather, pages, agent>>
  BY <1>16 DEF RunWriting
<1>17. ASSUME NEW p \in Process, CancelStep(p) PROVE UNCHANGED <<phase, gather, pages, agent>>
  BY <1>17 DEF CancelStep
<1>18. ASSUME RequestCancel PROVE UNCHANGED <<phase, gather, pages, agent>>
  BY <1>18 DEF RequestCancel
<1>19. ASSUME CancelUnclaimed PROVE UNCHANGED <<phase, gather, pages, agent>>
  BY <1>19 DEF CancelUnclaimed
<1>20. ASSUME EndGroupWait PROVE UNCHANGED <<phase, gather, pages, agent>>
  BY <1>20 DEF EndGroupWait
<1>21. ASSUME EndReplyWait PROVE UNCHANGED <<phase, gather, pages, agent>>
  BY <1>21 DEF EndReplyWait
<1>22. ASSUME NEW g \in Group, NEW u \in Url, MemberEnd(g, u)
       PROVE  UNCHANGED <<phase, gather, pages, agent>>
  BY <1>22 DEF MemberEnd
<1>23. ASSUME UNCHANGED vars PROVE UNCHANGED <<phase, gather, pages, agent>>
  BY <1>23 DEF vars
<1> QED
  BY <1>1, <1>2, <1>3, <1>4, <1>5, <1>6, <1>7, <1>8, <1>9, <1>10, <1>11, <1>12, <1>13,
     <1>14, <1>15, <1>16, <1>17, <1>18, <1>19, <1>20, <1>21, <1>22, <1>23 DEF Next, Work,
     Disturb, Settling

LEMMA OtherStepsFit ==
  ASSUME UNCHANGED <<phase, gather, pages, agent>>
  PROVE  NeedsModel' = NeedsModel /\ Answers' = Answers /\ Joins' = Joins
<1>1. NeedsModel' = NeedsModel
  BY DEF NeedsModel, AskPending, pages, agent
<1>2. Answers' = Answers
  BY DEF Answers, pages
<1>3. Joins' = Joins
  BY DEF Joins, gather, agent
<1> QED  BY <1>1, <1>2, <1>3

LEMMA FitsStep == TypeOK /\ StepFits /\ [Next]_vars => StepFits'
<1> SUFFICES ASSUME TypeOK, StepFits, [Next]_vars PROVE StepFits'
  OBVIOUS
<1>1. CASE \E p \in Process : Settling(p)
  BY <1>1, SettlingSettles, SettleTypes
<1>2. CASE ~ \E p \in Process : Settling(p)
  <2>1. /\ NeedsModel' = NeedsModel /\ Answers' = Answers /\ Joins' = Joins
        /\ phase' = phase /\ fetchSubmitted' = fetchSubmitted /\ turn' = turn
    BY <1>2, OtherSteps, OtherStepsFit DEF gather, agent
  <2>2. pc \in [Process -> Places] /\ reply \in [Process -> Reply]
    BY DEF TypeOK, MemoryTypes
  <2> USE <2>1, <2>2 DEF StepFits
  <2>3. ASSUME NEW p \in Process, Deliver(p) PROVE StepFits'
    BY <2>3 DEF Deliver, store
  <2>4. ASSUME NEW p \in Process, Takeover(p) PROVE StepFits'
    BY <2>4 DEF Takeover, store
  <2>5. ASSUME NEW p \in Process, StartJoin(p) PROVE StepFits'
    BY <2>5 DEF StartJoin, store
  <2>6. ASSUME NEW p \in Process, FinishJoin(p) PROVE StepFits'
    BY <2>6 DEF FinishJoin, store
  <2>7. ASSUME NEW p \in Process, ReadMemo(p) PROVE StepFits'
    BY <2>7 DEF ReadMemo, store
  <2>8. ASSUME NEW p \in Process, CallModel(p) PROVE StepFits'
    BY <2>8 DEF CallModel, store
  <2>9. ASSUME NEW p \in Process, WriteMemo(p) PROVE StepFits'
    BY <2>9 DEF WriteMemo
  <2>10. ASSUME NEW p \in Process, Rejected(p) PROVE StepFits'
    BY <2>10 DEF Rejected, store
  <2>11. ASSUME NEW p \in Process, SubmitFetches(p) PROVE StepFits'
    BY <2>11 DEF SubmitFetches, store
  <2>12. ASSUME NEW p \in Process, SubmitTurn(p) PROVE StepFits'
    BY <2>12 DEF SubmitTurn, Investigates, NeedsModel, store
  <2>13. ASSUME NEW p \in Process, PutReport(p) PROVE StepFits'
    BY <2>13 DEF PutReport
  <2>14. ASSUME NEW p \in Process, RejectPlan(p) PROVE StepFits'
    BY <2>14 DEF RejectPlan, Release, store
  <2>15. ASSUME NEW p \in Process, Interrupt(p) PROVE StepFits'
    BY <2>15 DEF Interrupt, Release, store
  <2>16. ASSUME NEW p \in Process, PermanentFailure(p) PROVE StepFits'
    BY <2>16 DEF PermanentFailure, Terminate, store
  <2>17. ASSUME NEW p \in Process, RejectFindings(p) PROVE StepFits'
    BY <2>17 DEF RejectFindings, Terminate, store
  <2>18. ASSUME NEW p \in Process, RunWriting(p) PROVE StepFits'
    BY <2>18 DEF RunWriting, Terminate, store
  <2>19. ASSUME NEW p \in Process, CancelStep(p) PROVE StepFits'
    BY <2>19 DEF CancelStep, Terminate, store
  <2>20. ASSUME RequestCancel PROVE StepFits'
    BY <2>20 DEF RequestCancel, store, memory
  <2>21. ASSUME CancelUnclaimed PROVE StepFits'
    BY <2>21 DEF CancelUnclaimed, store, memory
  <2>22. ASSUME EndGroupWait PROVE StepFits'
    BY <2>22 DEF EndGroupWait, store, memory
  <2>23. ASSUME EndReplyWait PROVE StepFits'
    BY <2>23 DEF EndReplyWait, store, memory
  <2>24. ASSUME NEW g \in Group, NEW u \in Url, MemberEnd(g, u) PROVE StepFits'
    BY <2>24 DEF MemberEnd, store, memory
  <2>25. ASSUME UNCHANGED vars PROVE StepFits'
    BY <2>25 DEF vars, store, memory
  <2> QED
    BY <1>2, <2>3, <2>4, <2>5, <2>6, <2>7, <2>8, <2>9, <2>10, <2>11, <2>12, <2>13, <2>14,
       <2>15, <2>16, <2>17, <2>18, <2>19, <2>20, <2>21, <2>22, <2>23, <2>24, <2>25 DEF
       Next, Work, Disturb, Settling
<1> QED  BY <1>1, <1>2

\* Every variable keeps its type, and a process is at a place of the pending step.
THEOREM TypeCorrect == Spec => [](TypeOK /\ StepFits)
<1>1. TypeOK /\ StepFits /\ [Next]_vars => (TypeOK /\ StepFits)'
  BY TypeStep, FitsStep
<1> QED  BY <1>1, InitTypes, PTL DEF Spec

-----------------------------------------------------------------------------
(* The pages of the run. *)

\* No page enters the run before the fetching phase ends, and the summarizing phase
\* is at an end with its queue.
PagesInv ==
  /\ PagesAccounted
  /\ phase = "Summarizing" /\ summarizeQueue = {} => fetched = {}
  /\ phase \in {"Planning", "Searching", "Fetching"} => fetched = {} /\ summaries = {}

LEMMA PagesStep == TypeOK /\ StepFits /\ PagesInv /\ [Next]_vars => PagesInv'
<1> SUFFICES ASSUME TypeOK, StepFits, PagesInv, [Next]_vars PROVE PagesInv'
  OBVIOUS
<1> USE DEF PagesInv, PagesAccounted
<1>1. CASE ~ \E p \in Process : Settling(p)
  BY <1>1, OtherSteps DEF pages
<1>2. ASSUME NEW p \in Process, RunSummarizing(p) PROVE PagesInv'
  <2>1. summarizeQueue # {} /\ reply[p].urls = {Front(summarizeQueue)}
    BY <1>2 DEF RunSummarizing, StepFits, NeedsModel, Answers, Summary, ReplyOf
  <2>2. Front(summarizeQueue) \in summarizeQueue
    BY <2>1, FrontInQueue
  <2>3. phase' = IF summarizeQueue' = {} THEN "Investigating" ELSE "Summarizing"
    BY <1>2 DEF RunSummarizing, AfterSummary
  <2> QED  BY <1>2, <2>1, <2>2, <2>3 DEF RunSummarizing
<1>3. ASSUME NEW p \in Process, RecordFetches(p) PROVE PagesInv'
  <2>1. fetched' = summarizeQueue' /\ summaries' = {} /\ phase' = "Summarizing"
    BY <1>3 DEF RecordFetches
  <2> QED  BY <2>1
<1>4. ASSUME NEW p \in Process, FinishInvestigation(p) PROVE PagesInv'
  BY <1>4 DEF FinishInvestigation, Investigates
<1>5. ASSUME NEW p \in Process, RunPlanning(p) PROVE PagesInv'
  BY <1>5 DEF RunPlanning, Investigates, pages
<1>6. ASSUME NEW p \in Process, RunSearching(p) PROVE PagesInv'
  BY <1>6 DEF RunSearching, Investigates, pages
<1>7. ASSUME NEW p \in Process, WaitForFetches(p) PROVE PagesInv'
  BY <1>7 DEF WaitForFetches, Investigates, pages
<1>8. ASSUME NEW p \in Process, SkipSummaries(p) PROVE PagesInv'
  BY <1>8 DEF SkipSummaries, Investigates, pages
<1>9. ASSUME NEW p \in Process, SkipInvestigation(p) PROVE PagesInv'
  BY <1>9 DEF SkipInvestigation, Investigates, pages
<1>10. ASSUME NEW p \in Process, AskUser(p) PROVE PagesInv'
  BY <1>10 DEF AskUser, Investigates, pages
<1>11. ASSUME NEW p \in Process, OutOfTurns(p) PROVE PagesInv'
  BY <1>11 DEF OutOfTurns, Investigates, pages
<1>12. ASSUME NEW p \in Process, RunTurn(p) PROVE PagesInv'
  BY <1>12 DEF RunTurn, Investigates, pages
<1>13. ASSUME NEW p \in Process, WaitForTurn(p) PROVE PagesInv'
  BY <1>13 DEF WaitForTurn, Investigates, pages
<1>14. ASSUME NEW p \in Process, RunSynthesizing(p) PROVE PagesInv'
  BY <1>14 DEF RunSynthesizing, Investigates, pages
<1> QED
  BY <1>1, <1>2, <1>3, <1>4, <1>5, <1>6, <1>7, <1>8, <1>9, <1>10, <1>11, <1>12, <1>13,
     <1>14 DEF Settling

\* No fetched page is lost on its way to the synthesis and none is summarised twice.
THEOREM PagesAreAccounted == Spec => []PagesAccounted
<1>1. Init => PagesInv
  BY DEF Init, PagesInv, PagesAccounted
<1>2. PagesInv => PagesAccounted
  BY DEF PagesInv
<1> QED  BY <1>1, <1>2, TypeCorrect, PagesStep, PTL DEF Spec

-----------------------------------------------------------------------------
(* The report. *)

\* A report in the store is that of the sources the run has, and the writing step
\* settles after it: also when another process wrote it.
ReportInv ==
  /\ blob.written => phase = "Writing" /\ blob.sources = summaries
  /\ \A p \in Process : pc[p] = "written" => blob.written
  /\ status = "succeeded" => blob.written

LEMMA ReportStep == TypeOK /\ StepFits /\ ReportInv /\ [Next]_vars => ReportInv'
<1> SUFFICES ASSUME TypeOK, StepFits, ReportInv, [Next]_vars PROVE ReportInv'
  OBVIOUS
<1> USE DEF ReportInv
<1>0. pc \in [Process -> Places]
  BY DEF TypeOK, MemoryTypes
<1>1. ASSUME NEW p \in Process, Settling(p) PROVE ReportInv'
  <2>1. PICK next \in {"pending", "waitGroup", "waitReply"} : Settle(p, next)
    BY <1>1 DEF Settling, RunPlanning, RunSearching, WaitForFetches, RecordFetches,
       RunSummarizing, SkipSummaries, SkipInvestigation, AskUser, OutOfTurns, RunTurn,
       WaitForTurn, FinishInvestigation, RunSynthesizing
  <2>2. phase # "Writing"
    BY <1>1 DEF Settling, RunPlanning, RunSearching, WaitForFetches, RecordFetches,
       RunSummarizing, SkipSummaries, SkipInvestigation, AskUser, OutOfTurns, RunTurn,
       WaitForTurn, FinishInvestigation, RunSynthesizing, Investigates
  <2>3. ~blob.written /\ blob' = blob
    BY <2>1, <2>2 DEF Settle
  <2>4. \A q \in Process : pc'[q] = "idle"
    BY <2>1 DEF Settle
  <2>5. status' # "succeeded"
    BY <2>1 DEF Settle
  <2> QED  BY <2>3, <2>4, <2>5
<1>2. CASE ~ \E p \in Process : Settling(p)
  <2>1. phase' = phase /\ summaries' = summaries
    BY <1>2, OtherSteps DEF pages
  <2> USE <1>0, <2>1
  <2>2. ASSUME NEW p \in Process, Deliver(p) PROVE ReportInv'
    BY <2>2 DEF Deliver, store, queue
  <2>3. ASSUME NEW p \in Process, Takeover(p) PROVE ReportInv'
    BY <2>3 DEF Takeover, store, queue
  <2>4. ASSUME NEW p \in Process, StartJoin(p) PROVE ReportInv'
    BY <2>4 DEF StartJoin, store, queue
  <2>5. ASSUME NEW p \in Process, FinishJoin(p) PROVE ReportInv'
    BY <2>5 DEF FinishJoin, store, queue
  <2>6. ASSUME NEW p \in Process, ReadMemo(p) PROVE ReportInv'
    BY <2>6 DEF ReadMemo, store, queue
  <2>7. ASSUME NEW p \in Process, CallModel(p) PROVE ReportInv'
    BY <2>7 DEF CallModel, store, queue
  <2>8. ASSUME NEW p \in Process, WriteMemo(p) PROVE ReportInv'
    BY <2>8 DEF WriteMemo, store, queue
  <2>9. ASSUME NEW p \in Process, Rejected(p) PROVE ReportInv'
    BY <2>9 DEF Rejected, store, queue
  <2>10. ASSUME NEW p \in Process, SubmitFetches(p) PROVE ReportInv'
    BY <2>10 DEF SubmitFetches, store, queue
  <2>11. ASSUME NEW p \in Process, SubmitTurn(p) PROVE ReportInv'
    BY <2>11 DEF SubmitTurn, store, queue
  <2>12. ASSUME NEW p \in Process, PutReport(p) PROVE ReportInv'
    BY <2>12 DEF PutReport, store, queue
  <2>13. ASSUME NEW p \in Process, RejectPlan(p) PROVE ReportInv'
    BY <2>13 DEF RejectPlan, Release, store, queue
  <2>14. ASSUME NEW p \in Process, Interrupt(p) PROVE ReportInv'
    BY <2>14 DEF Interrupt, Release, store, queue
  <2>15. ASSUME NEW p \in Process, PermanentFailure(p) PROVE ReportInv'
    BY <2>15 DEF PermanentFailure, Terminate, store, queue
  <2>16. ASSUME NEW p \in Process, RejectFindings(p) PROVE ReportInv'
    BY <2>16 DEF RejectFindings, Terminate, store, queue
  <2>17. ASSUME NEW p \in Process, RunWriting(p) PROVE ReportInv'
    BY <2>17 DEF RunWriting, Terminate, store, queue
  <2>18. ASSUME NEW p \in Process, CancelStep(p) PROVE ReportInv'
    BY <2>18 DEF CancelStep, Terminate, store, queue
  <2>19. ASSUME RequestCancel PROVE ReportInv'
    BY <2>19 DEF RequestCancel, store, memory
  <2>20. ASSUME CancelUnclaimed PROVE ReportInv'
    BY <2>20 DEF CancelUnclaimed, store, memory
  <2>21. ASSUME EndGroupWait PROVE ReportInv'
    BY <2>21 DEF EndGroupWait, store, memory
  <2>22. ASSUME EndReplyWait PROVE ReportInv'
    BY <2>22 DEF EndReplyWait, store, memory
  <2>23. ASSUME NEW g \in Group, NEW u \in Url, MemberEnd(g, u) PROVE ReportInv'
    BY <2>23 DEF MemberEnd, store, memory, queue
  <2>24. ASSUME UNCHANGED vars PROVE ReportInv'
    BY <2>24 DEF vars, store, memory, queue
  <2> QED
    BY <1>2, <2>2, <2>3, <2>4, <2>5, <2>6, <2>7, <2>8, <2>9, <2>10, <2>11, <2>12, <2>13,
       <2>14, <2>15, <2>16, <2>17, <2>18, <2>19, <2>20, <2>21, <2>22, <2>23, <2>24 DEF
       Next, Work, Disturb, Settling
<1> QED  BY <1>1, <1>2

\* A succeeded run has the report of its sources, over any redeliveries and takeovers.
THEOREM SuccessHasReport == Spec => []SucceededHasReport
<1>1. Init => ReportInv
  BY DEF Init, ReportInv, NoBlob
<1>2. ReportInv => SucceededHasReport
  BY DEF ReportInv, SucceededHasReport
<1> QED  BY <1>1, <1>2, TypeCorrect, ReportStep, PTL DEF Spec

-----------------------------------------------------------------------------
(* The members of the groups. *)

\* A submission leaves the members of the other groups alone, touches the URLs it
\* names and keeps every success.
LEMMA SubmittedMembers ==
  ASSUME GroupTypes, NEW g \in Group, NEW urls, NEW h \in Group, NEW u \in Url
  PROVE  /\ h # g => Submitted(g, urls)[h][u] = member[h][u]
         /\ u \notin urls => Submitted(g, urls)[h][u] = member[h][u]
         /\ member[h][u] = "ok" => Submitted(g, urls)[h][u] = "ok"
BY DEF GroupTypes, Submitted

\* The steps that change a member.
GroupSteps ==
  \/ \E p \in Process : SubmitFetches(p) \/ SubmitTurn(p)
  \/ \E g \in Group, u \in Url : MemberEnd(g, u)

LEMMA OtherMembers ==
  ASSUME [Next]_vars, ~GroupSteps
  PROVE  member' = member
<1>1. ASSUME NEW p \in Process, Settling(p) PROVE member' = member
  <2>1. PICK next \in Statuses : Settle(p, next)
    BY <1>1, SettlingSettles
  <2> QED  BY <2>1 DEF Settle, groups
<1>2. ASSUME NEW p \in Process, Deliver(p) PROVE member' = member
  BY <1>2 DEF Deliver, groups
<1>3. ASSUME NEW p \in Process, Takeover(p) PROVE member' = member
  BY <1>3 DEF Takeover, groups
<1>4. ASSUME NEW p \in Process, StartJoin(p) PROVE member' = member
  BY <1>4 DEF StartJoin, groups
<1>5. ASSUME NEW p \in Process, FinishJoin(p) PROVE member' = member
  BY <1>5 DEF FinishJoin, groups
<1>6. ASSUME NEW p \in Process, ReadMemo(p) PROVE member' = member
  BY <1>6 DEF ReadMemo, groups
<1>7. ASSUME NEW p \in Process, CallModel(p) PROVE member' = member
  BY <1>7 DEF CallModel, groups
<1>8. ASSUME NEW p \in Process, WriteMemo(p) PROVE member' = member
  BY <1>8 DEF WriteMemo, groups
<1>9. ASSUME NEW p \in Process, Rejected(p) PROVE member' = member
  BY <1>9 DEF Rejected, groups
<1>10. ASSUME NEW p \in Process, PutReport(p) PROVE member' = member
  BY <1>10 DEF PutReport, groups
<1>11. ASSUME NEW p \in Process, RejectPlan(p) PROVE member' = member
  BY <1>11 DEF RejectPlan, Release, groups
<1>12. ASSUME NEW p \in Process, Interrupt(p) PROVE member' = member
  BY <1>12 DEF Interrupt, Release, groups
<1>13. ASSUME NEW p \in Process, PermanentFailure(p) PROVE member' = member
  BY <1>13 DEF PermanentFailure, Terminate, groups
<1>14. ASSUME NEW p \in Process, RejectFindings(p) PROVE member' = member
  BY <1>14 DEF RejectFindings, Terminate, groups
<1>15. ASSUME NEW p \in Process, RunWriting(p) PROVE member' = member
  BY <1>15 DEF RunWriting, Terminate, groups
<1>16. ASSUME NEW p \in Process, CancelStep(p) PROVE member' = member
  BY <1>16 DEF CancelStep, Terminate, groups
<1>17. ASSUME RequestCancel PROVE member' = member
  BY <1>17 DEF RequestCancel, groups
<1>18. ASSUME CancelUnclaimed PROVE member' = member
  BY <1>18 DEF CancelUnclaimed, groups
<1>19. ASSUME EndGroupWait PROVE member' = member
  BY <1>19 DEF EndGroupWait, groups
<1>20. ASSUME EndReplyWait PROVE member' = member
  BY <1>20 DEF EndReplyWait, groups
<1>21. ASSUME UNCHANGED vars PROVE member' = member
  BY <1>21 DEF vars, groups
<1> QED
  BY <1>1, <1>2, <1>3, <1>4, <1>5, <1>6, <1>7, <1>8, <1>9, <1>10, <1>11, <1>12, <1>13,
     <1>14, <1>15, <1>16, <1>17, <1>18, <1>19, <1>20, <1>21 DEF Next, Work, Disturb,
     Settling, GroupSteps

\* Group 0 has members from the fetching phase on, those of the fetch queue, and
\* none of them is active once a process has joined it.
FetchInv ==
  /\ phase \in {"Planning", "Searching"} => \A u \in Url : member[0][u] = "none"
  /\ phase = "Fetching" =>
       /\ \A u \in Url : member[0][u] # "none" => u \in fetchQueue
       /\ \A p \in Process : pc[p] = "joined" => ~Active(0)
  /\ NoFetchLost

LEMMA GroupZero == 0 \in Group
BY ConstantsAssumption DEF Group

LEMMA FetchStep == TypeOK /\ StepFits /\ FetchInv /\ [Next]_vars => FetchInv'
<1> SUFFICES ASSUME TypeOK, StepFits, FetchInv, [Next]_vars PROVE FetchInv'
  OBVIOUS
<1> USE DEF FetchInv, NoFetchLost, Active, Succeeded
<1>0. /\ pc \in [Process -> Places] /\ member \in [Group -> [Url -> MemberStates]]
      /\ turn \in Group /\ fetchQueue \in SUBSET Url /\ phase \in Phases
  BY DEF TypeOK, MemoryTypes, GroupTypes, AgentTypes, PayloadTypes
<1>1. ASSUME NEW p \in Process, Settling(p) PROVE FetchInv'
  <2>1. PICK next \in Statuses : Settle(p, next)
    BY <1>1, SettlingSettles
  <2>2. member' = member /\ \A q \in Process : pc'[q] = "idle"
    BY <2>1 DEF Settle, groups
  <2>3. CASE RunPlanning(p)
    BY <1>0, <2>2, <2>3 DEF RunPlanning, Investigates, Phases, AfterSummary, gather, pages
  <2>4. CASE RunSearching(p)
    BY <1>0, <2>2, <2>4 DEF RunSearching, Investigates, Phases, AfterSummary, gather, pages
  <2>5. CASE WaitForFetches(p)
    BY <1>0, <2>2, <2>5 DEF WaitForFetches, Investigates, Phases, AfterSummary, gather, pages
  <2>6. CASE RecordFetches(p)
    <3>1. ~Active(0) /\ Succeeded(0) \subseteq fetchQueue
      BY <1>0, <2>6 DEF RecordFetches
    <3>2. Succeeded(0) \subseteq fetched' /\ phase' = "Summarizing"
      BY <2>6, <3>1 DEF RecordFetches
    <3> QED  BY <2>2, <3>1, <3>2
  <2>7. CASE RunSummarizing(p)
    BY <1>0, <2>2, <2>7 DEF RunSummarizing, Investigates, Phases, AfterSummary, gather, pages
  <2>8. CASE SkipSummaries(p)
    BY <1>0, <2>2, <2>8 DEF SkipSummaries, Investigates, Phases, AfterSummary, gather, pages
  <2>9. CASE SkipInvestigation(p)
    BY <1>0, <2>2, <2>9 DEF SkipInvestigation, Investigates, Phases, AfterSummary, gather, pages
  <2>10. CASE AskUser(p)
    BY <1>0, <2>2, <2>10 DEF AskUser, Investigates, Phases, AfterSummary, gather, pages
  <2>11. CASE OutOfTurns(p)
    BY <1>0, <2>2, <2>11 DEF OutOfTurns, Investigates, Phases, AfterSummary, gather, pages
  <2>12. CASE RunTurn(p)
    BY <1>0, <2>2, <2>12 DEF RunTurn, Investigates, Phases, AfterSummary, gather, pages
  <2>13. CASE WaitForTurn(p)
    BY <1>0, <2>2, <2>13 DEF WaitForTurn, Investigates, Phases, AfterSummary, gather, pages
  <2>14. CASE FinishInvestigation(p)
    BY <1>0, <2>2, <2>14 DEF FinishInvestigation, Investigates, Phases, AfterSummary, gather, pages
  <2>15. CASE RunSynthesizing(p)
    BY <1>0, <2>2, <2>15 DEF RunSynthesizing, Investigates, Phases, AfterSummary, gather, pages
  <2> QED
    BY <1>1, <2>3, <2>4, <2>5, <2>6, <2>7, <2>8, <2>9, <2>10, <2>11, <2>12, <2>13, <2>14,
       <2>15 DEF Settling
<1>2. ASSUME NEW p \in Process, FinishJoin(p) PROVE FetchInv'
  <2>1. member' = member /\ UNCHANGED <<phase, gather, pages, agent>>
    BY <1>2 DEF FinishJoin, groups, payload
  <2>2. phase = "Fetching" => ~Active(0)
    BY <1>2 DEF FinishJoin, Joined
  <2> QED  BY <2>1, <2>2 DEF gather, pages
<1>3. ASSUME NEW p \in Process, SubmitFetches(p) PROVE FetchInv'
  <2>1. phase = "Fetching" /\ ~fetchSubmitted /\ member' = Submitted(0, fetchQueue)
    BY <1>3 DEF SubmitFetches
  <2>2. \A u \in Url : member'[0][u] # "none" => u \in fetchQueue
    BY <2>1, SubmittedMembers, GroupZero DEF TypeOK
  <2>3. \A q \in Process : pc'[q] # "joined"
    BY <1>0, <1>3, <2>1 DEF SubmitFetches, StepFits, Joins
  <2>4. UNCHANGED <<phase, gather, pages, agent>>
    BY <1>3 DEF SubmitFetches, payload
  <2> QED  BY <2>1, <2>2, <2>3, <2>4 DEF gather
<1>4. ASSUME NEW p \in Process, SubmitTurn(p) PROVE FetchInv'
  <2>1. turn + 1 \in Group /\ turn + 1 # 0
    BY <1>0, <1>4, ConstantsAssumption DEF SubmitTurn, Investigates, StepFits, NeedsModel, Group
  <2>2. \A u \in Url : member'[0][u] = member[0][u]
    BY <1>4, <2>1, SubmittedMembers, GroupZero DEF SubmitTurn, TypeOK
  <2>3. phase = "Investigating" /\ UNCHANGED <<phase, gather, pages, agent>>
    BY <1>4 DEF SubmitTurn, Investigates, payload
  <2> QED  BY <2>2, <2>3 DEF pages
<1>5. ASSUME NEW g \in Group, NEW u \in Url, MemberEnd(g, u) PROVE FetchInv'
  <2>1. pc' = pc /\ UNCHANGED <<phase, gather, pages, agent>>
    BY <1>5 DEF MemberEnd, payload, memory
  <2>2. PICK end \in {"ok", "failed"} : member' = [member EXCEPT ![g][u] = end]
    BY <1>5 DEF MemberEnd
  <2>3. CASE g # 0
    <3>1. \A v \in Url : member'[0][v] = member[0][v]
      BY <1>0, <2>2, <2>3, GroupZero
    <3> QED  BY <2>1, <3>1 DEF gather, pages
  <2>4. CASE g = 0
    <3>1. phase = "Fetching" /\ member[0][u] = "pending"
      BY <1>0, <1>5, <2>4 DEF MemberEnd, Phases
    <3>2. \A v \in Url : member'[0][v] # "none" => member[0][v] # "none"
      BY <1>0, <2>2, <2>4, <3>1, GroupZero
    <3>3. \A v \in Url : member'[0][v] = "pending" => member[0][v] = "pending"
      BY <1>0, <2>2, <2>4, <3>1, GroupZero
    <3> QED  BY <2>1, <3>1, <3>2, <3>3 DEF gather
  <2> QED  BY <2>3, <2>4
<1>6. ASSUME ~GroupSteps, ~ \E p \in Process : Settling(p) \/ FinishJoin(p) PROVE FetchInv'
  <2>1. member' = member /\ UNCHANGED <<phase, gather, pages, agent>>
    BY <1>6, OtherMembers, OtherSteps
  <2>2. \A q \in Process : pc'[q] = "joined" => pc[q] = "joined"
    <3>1. ASSUME NEW p \in Process, Deliver(p)
          PROVE  \A q \in Process : pc'[q] = "joined" => pc[q] = "joined"
      BY <1>0, <3>1 DEF Deliver
    <3>2. ASSUME NEW p \in Process, Takeover(p)
          PROVE  \A q \in Process : pc'[q] = "joined" => pc[q] = "joined"
      BY <1>0, <3>2 DEF Takeover
    <3>3. ASSUME NEW p \in Process, StartJoin(p)
          PROVE  \A q \in Process : pc'[q] = "joined" => pc[q] = "joined"
      BY <1>0, <3>3 DEF StartJoin
    <3>4. ASSUME NEW p \in Process, ReadMemo(p)
          PROVE  \A q \in Process : pc'[q] = "joined" => pc[q] = "joined"
      BY <1>0, <3>4 DEF ReadMemo
    <3>5. ASSUME NEW p \in Process, CallModel(p)
          PROVE  \A q \in Process : pc'[q] = "joined" => pc[q] = "joined"
      BY <1>0, <3>5 DEF CallModel
    <3>6. ASSUME NEW p \in Process, WriteMemo(p)
          PROVE  \A q \in Process : pc'[q] = "joined" => pc[q] = "joined"
      BY <1>0, <3>6 DEF WriteMemo
    <3>7. ASSUME NEW p \in Process, Rejected(p)
          PROVE  \A q \in Process : pc'[q] = "joined" => pc[q] = "joined"
      BY <1>0, <3>7 DEF Rejected
    <3>8. ASSUME NEW p \in Process, PutReport(p)
          PROVE  \A q \in Process : pc'[q] = "joined" => pc[q] = "joined"
      BY <1>0, <3>8 DEF PutReport
    <3>9. ASSUME NEW p \in Process, RejectPlan(p)
          PROVE  \A q \in Process : pc'[q] = "joined" => pc[q] = "joined"
      BY <1>0, <3>9 DEF RejectPlan, Release
    <3>10. ASSUME NEW p \in Process, Interrupt(p)
           PROVE  \A q \in Process : pc'[q] = "joined" => pc[q] = "joined"
      BY <1>0, <3>10 DEF Interrupt, Release
    <3>11. ASSUME NEW p \in Process, PermanentFailure(p)
           PROVE  \A q \in Process : pc'[q] = "joined" => pc[q] = "joined"
      BY <1>0, <3>11 DEF PermanentFailure, Terminate
    <3>12. ASSUME NEW p \in Process, RejectFindings(p)
           PROVE  \A q \in Process : pc'[q] = "joined" => pc[q] = "joined"
      BY <1>0, <3>12 DEF RejectFindings, Terminate
    <3>13. ASSUME NEW p \in Process, RunWriting(p)
           PROVE  \A q \in Process : pc'[q] = "joined" => pc[q] = "joined"
      BY <1>0, <3>13 DEF RunWriting, Terminate
    <3>14. ASSUME NEW p \in Process, CancelStep(p)
           PROVE  \A q \in Process : pc'[q] = "joined" => pc[q] = "joined"
      BY <1>0, <3>14 DEF CancelStep, Terminate
    <3>15. ASSUME RequestCancel PROVE pc' = pc
      BY <3>15 DEF RequestCancel, memory
    <3>16. ASSUME CancelUnclaimed PROVE pc' = pc
      BY <3>16 DEF CancelUnclaimed, memory
    <3>17. ASSUME EndGroupWait PROVE pc' = pc
      BY <3>17 DEF EndGroupWait, memory
    <3>18. ASSUME EndReplyWait PROVE pc' = pc
      BY <3>18 DEF EndReplyWait, memory
    <3>19. ASSUME UNCHANGED vars PROVE pc' = pc
      BY <3>19 DEF vars, memory
    <3> QED
      BY <1>6, <3>1, <3>2, <3>3, <3>4, <3>5, <3>6, <3>7, <3>8, <3>9, <3>10, <3>11, <3>12,
         <3>13, <3>14, <3>15, <3>16, <3>17, <3>18, <3>19 DEF Next, Work, Disturb,
         Settling, GroupSteps
  <2> QED  BY <2>1, <2>2 DEF gather, pages
<1> QED  BY <1>1, <1>2, <1>3, <1>4, <1>5, <1>6 DEF GroupSteps

\* The fetching phase leaves no success behind.
THEOREM NoFetchIsLost == Spec => []NoFetchLost
<1>1. Init => FetchInv
  BY GroupZero DEF Init, FetchInv, NoFetchLost
<1>2. FetchInv => NoFetchLost
  BY DEF FetchInv
<1> QED  BY <1>1, <1>2, TypeCorrect, FetchStep, PTL DEF Spec

\* max_sources caps the members of the fetch group and the URLs still queued for it.
CapInv == FetchInv /\ SourcesCapped

LEMMA CapStep == TypeOK /\ StepFits /\ CapInv /\ [Next]_vars => SourcesCapped'
<1> SUFFICES ASSUME TypeOK, StepFits, CapInv, [Next]_vars PROVE SourcesCapped'
  OBVIOUS
<1> DEFINE Tried == {u \in Url : member[0][u] # "none"}
<1>0. /\ member \in [Group -> [Url -> MemberStates]] /\ turn \in Group
      /\ fetchQueue \in SUBSET Url /\ IsFiniteSet(Url) /\ MaxSources \in Nat
  BY ConstantsAssumption DEF TypeOK, GroupTypes, AgentTypes, PayloadTypes
<1>1. ASSUME Tried' \cup fetchQueue' \subseteq Tried \cup fetchQueue PROVE SourcesCapped'
  <2>1. IsFiniteSet(Tried \cup fetchQueue)
    <3>1. Tried \cup fetchQueue \subseteq Url
      BY <1>0
    <3> QED  BY <1>0, <3>1, FS_Subset
  <2>2. /\ Cardinality(Tried' \cup fetchQueue') <= Cardinality(Tried \cup fetchQueue)
        /\ Cardinality(Tried' \cup fetchQueue') \in Nat
        /\ Cardinality(Tried \cup fetchQueue) \in Nat
    BY <1>1, <2>1, FS_Subset, FS_CardinalityType
  <2>3. Cardinality(Tried \cup fetchQueue) <= MaxSources
    BY DEF CapInv, SourcesCapped
  <2> QED  BY <1>0, <2>2, <2>3 DEF SourcesCapped
<1>2. ASSUME NEW p \in Process, RunSearching(p) PROVE SourcesCapped'
  <2>1. PICK hits \in SUBSET Url : \E s \in Admitted(hits) : fetchQueue' = fetchQueue \cup s
    BY <1>2 DEF RunSearching
  <2>2. PICK s \in Admitted(hits) : fetchQueue' = fetchQueue \cup s
    BY <2>1
  <2>3. Cardinality(fetchQueue \cup s) <= MaxSources
    BY <1>0, <2>2 DEF Admitted
  <2>4. Settle(p, "pending") /\ phase = "Searching"
    BY <1>2 DEF RunSearching
  <2>5. Tried' = {}
    BY <2>4 DEF Settle, groups, CapInv, FetchInv
  <2>6. Tried' \cup fetchQueue' = fetchQueue \cup s
    BY <2>2, <2>5
  <2> QED  BY <2>3, <2>6 DEF SourcesCapped
<1>3. ASSUME NEW p \in Process, Settling(p), ~RunSearching(p) PROVE SourcesCapped'
  <2>1. PICK next \in Statuses : Settle(p, next)
    BY <1>3, SettlingSettles
  <2>2. member' = member
    BY <2>1 DEF Settle, groups
  <2>3. fetchQueue' \subseteq fetchQueue
    BY <1>3 DEF Settling, RunPlanning, WaitForFetches, RecordFetches, RunSummarizing,
       SkipSummaries, SkipInvestigation, AskUser, OutOfTurns, RunTurn, WaitForTurn,
       FinishInvestigation, RunSynthesizing, gather
  <2> QED  BY <1>1, <2>2, <2>3
<1>4. ASSUME NEW p \in Process, SubmitFetches(p) PROVE SourcesCapped'
  <2>1. member' = Submitted(0, fetchQueue) /\ fetchQueue' = fetchQueue
    BY <1>4 DEF SubmitFetches, payload, gather
  <2>2. \A u \in Url : u \notin fetchQueue => member'[0][u] = member[0][u]
    BY <2>1, SubmittedMembers, GroupZero DEF TypeOK
  <2> QED  BY <1>1, <2>1, <2>2
<1>5. ASSUME NEW p \in Process, SubmitTurn(p) PROVE SourcesCapped'
  <2>1. turn + 1 \in Group /\ turn + 1 # 0
    BY <1>0, <1>5, ConstantsAssumption DEF SubmitTurn, Investigates, StepFits, NeedsModel, Group
  <2>2. \A u \in Url : member'[0][u] = member[0][u]
    BY <1>5, <2>1, SubmittedMembers, GroupZero DEF SubmitTurn, TypeOK
  <2>3. fetchQueue' = fetchQueue
    BY <1>5 DEF SubmitTurn, payload, gather
  <2> QED  BY <1>1, <2>2, <2>3
<1>6. ASSUME NEW g \in Group, NEW u \in Url, MemberEnd(g, u) PROVE SourcesCapped'
  <2>1. PICK end \in {"ok", "failed"} : member' = [member EXCEPT ![g][u] = end]
    BY <1>6 DEF MemberEnd
  <2>2. \A v \in Url : member'[0][v] # "none" => member[0][v] # "none"
    BY <1>0, <1>6, <2>1, GroupZero DEF MemberEnd
  <2>3. fetchQueue' = fetchQueue
    BY <1>6 DEF MemberEnd, payload, gather
  <2> QED  BY <1>1, <2>2, <2>3
<1>7. ASSUME ~GroupSteps, ~ \E p \in Process : Settling(p) PROVE SourcesCapped'
  <2>1. member' = member /\ fetchQueue' = fetchQueue
    BY <1>7, OtherMembers, OtherSteps DEF gather
  <2> QED  BY <1>1, <2>1
<1> QED  BY <1>2, <1>3, <1>4, <1>5, <1>6, <1>7 DEF GroupSteps

LEMMA CapInit == Init => CapInv
<1>1. Init => FetchInv
  BY GroupZero DEF Init, FetchInv, NoFetchLost
<1>2. Init => SourcesCapped
  <2> SUFFICES ASSUME Init PROVE SourcesCapped
    OBVIOUS
  <2>1. {u \in Url : member[0][u] # "none"} \cup fetchQueue = {}
    BY GroupZero DEF Init
  <2>2. Cardinality({}) = 0 /\ MaxSources \in Nat
    BY FS_EmptySet, ConstantsAssumption
  <2> QED  BY <2>1, <2>2 DEF SourcesCapped
<1> QED  BY <1>1, <1>2 DEF CapInv

\* The cap holds over all the searches of the run.
THEOREM SourcesAreCapped == Spec => []SourcesCapped
<1>2. TypeOK /\ StepFits /\ CapInv /\ [Next]_vars => CapInv'
  BY FetchStep, CapStep DEF CapInv
<1>3. CapInv => SourcesCapped
  BY DEF CapInv
<1> QED  BY CapInit, <1>2, <1>3, TypeCorrect, PTL DEF Spec

\* Every page of the run, and every page that the agent saw, has a member with a
\* success, which no later submission takes back.
Fetched(u) == \E g \in Group : member[g][u] = "ok"
GotInv == \A u \in fetched \cup summaries \cup shown : Fetched(u)

LEMMA SuccessStays ==
  ASSUME TypeOK, StepFits, [Next]_vars, NEW u \in Url, Fetched(u)
  PROVE  Fetched(u)'
<1> USE DEF Fetched
<1>0. member \in [Group -> [Url -> MemberStates]] /\ turn \in Group
  BY DEF TypeOK, GroupTypes, AgentTypes
<1>1. PICK g \in Group : member[g][u] = "ok"
  OBVIOUS
<1>2. ASSUME NEW p \in Process, SubmitFetches(p) PROVE member'[g][u] = "ok"
  BY <1>1, <1>2, SubmittedMembers, GroupZero DEF SubmitFetches, TypeOK
<1>3. ASSUME NEW p \in Process, SubmitTurn(p) PROVE member'[g][u] = "ok"
  <2>1. turn + 1 \in Group
    BY <1>0, <1>3, ConstantsAssumption DEF SubmitTurn, Investigates, StepFits, NeedsModel, Group
  <2> QED  BY <1>1, <1>3, <2>1, SubmittedMembers DEF SubmitTurn, TypeOK
<1>4. ASSUME NEW h \in Group, NEW v \in Url, MemberEnd(h, v) PROVE member'[g][u] = "ok"
  BY <1>0, <1>1, <1>4 DEF MemberEnd
<1>5. ASSUME ~GroupSteps PROVE member'[g][u] = "ok"
  BY <1>1, <1>5, OtherMembers
<1> QED  BY <1>2, <1>3, <1>4, <1>5 DEF GroupSteps, Group

LEMMA GotStep ==
  TypeOK /\ StepFits /\ PagesInv /\ GotInv /\ [Next]_vars => GotInv'
<1> SUFFICES ASSUME TypeOK, StepFits, PagesInv, GotInv, [Next]_vars,
                    NEW u, u \in (fetched \cup summaries \cup shown)'
             PROVE  Fetched(u)'
  BY DEF GotInv
<1> DEFINE Known == fetched \cup summaries \cup shown
<1>0. /\ Known \in SUBSET Url /\ Known' \in SUBSET Url
      /\ turn \in Group /\ 0 \in Group /\ Returned \subseteq Succeeded(turn)
  BY TypeStep, GroupZero DEF TypeOK, PayloadTypes, AgentTypes, Returned
<1>1. Known' \subseteq Known \cup Succeeded(0) \cup Succeeded(turn)
  <2>1. CASE ~ \E p \in Process : Settling(p)
    BY <2>1, OtherSteps DEF pages, agent
  <2>2. ASSUME NEW p \in Process, RunSummarizing(p)
        PROVE  Known' \subseteq Known \cup Succeeded(0) \cup Succeeded(turn)
    <3>1. summarizeQueue # {} /\ reply[p].urls = {Front(summarizeQueue)}
      BY <2>2 DEF RunSummarizing, StepFits, NeedsModel, Answers, Summary, ReplyOf
    <3>2. Front(summarizeQueue) \in fetched
      BY <3>1, FrontInQueue DEF PagesInv, PagesAccounted
    <3> QED  BY <2>2, <3>1, <3>2 DEF RunSummarizing, agent
  <2>3. ASSUME NEW p \in Process, RecordFetches(p)
        PROVE  Known' \subseteq Known \cup Succeeded(0) \cup Succeeded(turn)
    BY <2>3 DEF RecordFetches, agent
  <2>4. ASSUME NEW p \in Process, RunPlanning(p)
        PROVE  Known' \subseteq Known \cup Succeeded(0) \cup Succeeded(turn)
    BY <1>0, <2>4 DEF RunPlanning, pages, agent
  <2>5. ASSUME NEW p \in Process, RunSearching(p)
        PROVE  Known' \subseteq Known \cup Succeeded(0) \cup Succeeded(turn)
    BY <1>0, <2>5 DEF RunSearching, pages, agent
  <2>6. ASSUME NEW p \in Process, WaitForFetches(p)
        PROVE  Known' \subseteq Known \cup Succeeded(0) \cup Succeeded(turn)
    BY <1>0, <2>6 DEF WaitForFetches, pages, agent
  <2>7. ASSUME NEW p \in Process, SkipSummaries(p)
        PROVE  Known' \subseteq Known \cup Succeeded(0) \cup Succeeded(turn)
    BY <1>0, <2>7 DEF SkipSummaries, pages, agent
  <2>8. ASSUME NEW p \in Process, SkipInvestigation(p)
        PROVE  Known' \subseteq Known \cup Succeeded(0) \cup Succeeded(turn)
    BY <1>0, <2>8 DEF SkipInvestigation, pages, agent
  <2>9. ASSUME NEW p \in Process, AskUser(p)
        PROVE  Known' \subseteq Known \cup Succeeded(0) \cup Succeeded(turn)
    BY <1>0, <2>9 DEF AskUser, pages, agent
  <2>10. ASSUME NEW p \in Process, OutOfTurns(p)
         PROVE  Known' \subseteq Known \cup Succeeded(0) \cup Succeeded(turn)
    BY <1>0, <2>10 DEF OutOfTurns, pages, agent
  <2>11. ASSUME NEW p \in Process, RunTurn(p)
         PROVE  Known' \subseteq Known \cup Succeeded(0) \cup Succeeded(turn)
    BY <1>0, <2>11 DEF RunTurn, pages, agent
  <2>12. ASSUME NEW p \in Process, WaitForTurn(p)
         PROVE  Known' \subseteq Known \cup Succeeded(0) \cup Succeeded(turn)
    BY <1>0, <2>12 DEF WaitForTurn, pages, agent
  <2>13. ASSUME NEW p \in Process, FinishInvestigation(p)
         PROVE  Known' \subseteq Known \cup Succeeded(0) \cup Succeeded(turn)
    BY <1>0, <2>13 DEF FinishInvestigation, pages, agent
  <2>14. ASSUME NEW p \in Process, RunSynthesizing(p)
         PROVE  Known' \subseteq Known \cup Succeeded(0) \cup Succeeded(turn)
    BY <1>0, <2>14 DEF RunSynthesizing, pages, agent
  <2> QED
    BY <2>1, <2>2, <2>3, <2>4, <2>5, <2>6, <2>7, <2>8, <2>9, <2>10, <2>11, <2>12, <2>13,
       <2>14 DEF Settling
<1>2. Fetched(u) /\ u \in Url
  BY <1>0, <1>1 DEF GotInv, Fetched, Succeeded
<1> QED  BY <1>2, SuccessStays

\* Every source of the run is a page that a job fetched.
THEOREM SourcesAreFetched == Spec => []SourcesWereFetched
<1>1. Init => PagesInv /\ GotInv
  BY DEF Init, PagesInv, PagesAccounted, GotInv
<1>2. TypeOK /\ StepFits /\ (PagesInv /\ GotInv) /\ [Next]_vars => (PagesInv /\ GotInv)'
  BY PagesStep, GotStep
<1>3. GotInv => SourcesWereFetched
  BY DEF GotInv, SourcesWereFetched, Fetched
<1> QED  BY <1>1, <1>2, <1>3, TypeCorrect, PTL DEF Spec

-----------------------------------------------------------------------------
(* The run implements the pipeline. *)

\* A claimed step is pending: what a process settles has not ended.
ClaimInv == claimant # Nobody => status = "pending"

LEMMA ClaimStep == ClaimInv /\ [Next]_vars => ClaimInv'
<1> SUFFICES ASSUME ClaimInv, [Next]_vars PROVE ClaimInv'
  OBVIOUS
<1> USE DEF ClaimInv
<1>1. ASSUME NEW p \in Process, Settling(p) PROVE ClaimInv'
  BY <1>1, SettlingSettles DEF Settle
<1>2. ASSUME NEW p \in Process, Deliver(p) PROVE ClaimInv'
  BY <1>2 DEF Deliver, queue
<1>3. ASSUME NEW p \in Process, Takeover(p) PROVE ClaimInv'
  BY <1>3 DEF Takeover, queue
<1>4. ASSUME NEW p \in Process, StartJoin(p) PROVE ClaimInv'
  BY <1>4 DEF StartJoin, queue
<1>5. ASSUME NEW p \in Process, FinishJoin(p) PROVE ClaimInv'
  BY <1>5 DEF FinishJoin, queue
<1>6. ASSUME NEW p \in Process, ReadMemo(p) PROVE ClaimInv'
  BY <1>6 DEF ReadMemo, queue
<1>7. ASSUME NEW p \in Process, CallModel(p) PROVE ClaimInv'
  BY <1>7 DEF CallModel, queue
<1>8. ASSUME NEW p \in Process, WriteMemo(p) PROVE ClaimInv'
  BY <1>8 DEF WriteMemo, queue
<1>9. ASSUME NEW p \in Process, Rejected(p) PROVE ClaimInv'
  BY <1>9 DEF Rejected, queue
<1>10. ASSUME NEW p \in Process, SubmitFetches(p) PROVE ClaimInv'
  BY <1>10 DEF SubmitFetches, queue
<1>11. ASSUME NEW p \in Process, SubmitTurn(p) PROVE ClaimInv'
  BY <1>11 DEF SubmitTurn, queue
<1>12. ASSUME NEW p \in Process, PutReport(p) PROVE ClaimInv'
  BY <1>12 DEF PutReport, queue
<1>13. ASSUME NEW p \in Process, RejectPlan(p) PROVE ClaimInv'
  BY <1>13 DEF RejectPlan, Release, queue
<1>14. ASSUME NEW p \in Process, Interrupt(p) PROVE ClaimInv'
  BY <1>14 DEF Interrupt, Release, queue
<1>15. ASSUME NEW p \in Process, PermanentFailure(p) PROVE ClaimInv'
  BY <1>15 DEF PermanentFailure, Terminate, queue
<1>16. ASSUME NEW p \in Process, RejectFindings(p) PROVE ClaimInv'
  BY <1>16 DEF RejectFindings, Terminate, queue
<1>17. ASSUME NEW p \in Process, RunWriting(p) PROVE ClaimInv'
  BY <1>17 DEF RunWriting, Terminate, queue
<1>18. ASSUME NEW p \in Process, CancelStep(p) PROVE ClaimInv'
  BY <1>18 DEF CancelStep, Terminate, queue
<1>19. ASSUME RequestCancel PROVE ClaimInv'
  BY <1>19 DEF RequestCancel
<1>20. ASSUME CancelUnclaimed PROVE ClaimInv'
  BY <1>20 DEF CancelUnclaimed
<1>21. ASSUME EndGroupWait PROVE ClaimInv'
  BY <1>21 DEF EndGroupWait
<1>22. ASSUME EndReplyWait PROVE ClaimInv'
  BY <1>22 DEF EndReplyWait
<1>23. ASSUME NEW g \in Group, NEW u \in Url, MemberEnd(g, u) PROVE ClaimInv'
  BY <1>23 DEF MemberEnd, queue
<1>24. ASSUME UNCHANGED vars PROVE ClaimInv'
  BY <1>24 DEF vars, queue
<1> QED
  BY <1>1, <1>2, <1>3, <1>4, <1>5, <1>6, <1>7, <1>8, <1>9, <1>10, <1>11, <1>12, <1>13,
     <1>14, <1>15, <1>16, <1>17, <1>18, <1>19, <1>20, <1>21, <1>22, <1>23, <1>24 DEF Next,
     Work, Disturb, Settling

\* What a settlement does to the outcome: the run goes on.
LEMMA SettleRunning ==
  ASSUME ClaimInv, NEW p \in Process, NEW next \in {"pending", "waitGroup", "waitReply"},
         Settle(p, next)
  PROVE  Outcome = "running" /\ Outcome' = "running"
BY ConstantsAssumption DEF ClaimInv, Settle, Outcome, Terminal

\* The end of the run is the end of the pipeline.
LEMMA TerminateOutcome ==
  ASSUME ClaimInv, NEW p \in Process, NEW end \in Terminal, Terminate(p, end)
  PROVE  Outcome = "running" /\ Outcome' = end
BY ConstantsAssumption DEF ClaimInv, Terminate, Outcome, Terminal

PipelineStep == Pipeline!Next \/ UNCHANGED <<phase, fetched, summaries, steps, Outcome>>

LEMMA PipelineSteps ==
  ASSUME TypeOK, StepFits, PagesInv, CapInv, ClaimInv, [Next]_vars
  PROVE  PipelineStep
<1> USE DEF PipelineStep
<1>0. steps \in Nat /\ fetched \in SUBSET Url /\ summaries \in SUBSET Url /\ fetchQueue \in SUBSET Url
  BY DEF TypeOK, PayloadTypes
<1>1. ASSUME NEW p \in Process, RunPlanning(p) PROVE PipelineStep
  <2>1. Outcome = "running" /\ Outcome' = "running"
    BY <1>1, SettleRunning DEF RunPlanning
  <2>2. Pipeline!Plan
    BY <1>1, <2>1 DEF RunPlanning, Pipeline!Plan, Pipeline!Completes, pages
  <2> QED  BY <2>2 DEF Pipeline!Next
<1>2. ASSUME NEW p \in Process, RunSearching(p) PROVE PipelineStep
  <2>1. Outcome = "running" /\ Outcome' = "running"
    BY <1>2, SettleRunning DEF RunSearching
  <2>2. Pipeline!Search
    BY <1>2, <2>1 DEF RunSearching, Pipeline!Search, Pipeline!Completes, pages
  <2> QED  BY <2>2 DEF Pipeline!Next
<1>3. ASSUME NEW p \in Process, WaitForFetches(p) PROVE PipelineStep
  <2>1. Outcome = "running" /\ Outcome' = "running"
    BY <1>3, SettleRunning DEF WaitForFetches
  <2> QED  BY <1>3, <2>1 DEF WaitForFetches, pages
<1>4. ASSUME NEW p \in Process, AskUser(p) PROVE PipelineStep
  <2>1. Outcome = "running" /\ Outcome' = "running"
    BY <1>4, SettleRunning DEF AskUser
  <2> QED  BY <1>4, <2>1 DEF AskUser, pages
<1>5. ASSUME NEW p \in Process, RecordFetches(p) PROVE PipelineStep
  <2>1. Outcome = "running" /\ Outcome' = "running"
    BY <1>5, SettleRunning DEF RecordFetches
  <2>2. fetched' \subseteq fetchQueue /\ summaries' = summaries
    BY <1>5 DEF RecordFetches, PagesInv
  <2>3. Cardinality(fetched') <= MaxSources
    <3>1. Cardinality({u \in Url : member[0][u] # "none"} \cup fetchQueue) <= MaxSources
      BY DEF CapInv, SourcesCapped
    <3>2. IsFiniteSet({u \in Url : member[0][u] # "none"} \cup fetchQueue)
      <4>1. {u \in Url : member[0][u] # "none"} \cup fetchQueue \subseteq Url
        BY <1>0
      <4> QED  BY <4>1, FS_Subset, ConstantsAssumption
    <3>3. fetched' \subseteq {u \in Url : member[0][u] # "none"} \cup fetchQueue
      BY <2>2
    <3>4. /\ Cardinality(fetched') <= Cardinality({u \in Url : member[0][u] # "none"} \cup fetchQueue)
          /\ Cardinality(fetched') \in Nat
          /\ Cardinality({u \in Url : member[0][u] # "none"} \cup fetchQueue) \in Nat
      BY <3>2, <3>3, FS_Subset, FS_CardinalityType
    <3> QED  BY <3>1, <3>4, ConstantsAssumption
  <2>4. fetched' \in SUBSET Url
    BY <1>0, <2>2
  <2>5. phase = "Fetching" /\ phase' = "Summarizing" /\ steps' = steps + 1
    BY <1>5 DEF RecordFetches
  <2>6. Pipeline!Gather
    <3>1. Pipeline!Completes({"Fetching"}, "Summarizing")
      BY <2>1, <2>5 DEF Pipeline!Completes
    <3>2. \E s \in SUBSET Url : Cardinality(s) <= MaxSources /\ fetched' = s
      BY <2>3, <2>4
    <3>3. \A S : Pipeline!Cardinality(S) = Cardinality(S)
      BY DEF Pipeline!Cardinality, Cardinality
    <3> QED  BY <2>1, <2>2, <3>1, <3>2, <3>3 DEF Pipeline!Gather
  <2> QED  BY <2>6 DEF Pipeline!Next
<1>6. ASSUME NEW p \in Process, RunSummarizing(p) PROVE PipelineStep
  <2>1. Outcome = "running" /\ Outcome' = "running"
    BY <1>6, SettleRunning DEF RunSummarizing
  <2>2. summarizeQueue # {} /\ reply[p].urls = {Front(summarizeQueue)}
    BY <1>6 DEF RunSummarizing, StepFits, NeedsModel, Answers, Summary, ReplyOf
  <2>3. Front(summarizeQueue) \in fetched \ summaries
    BY <2>2, FrontInQueue DEF PagesInv, PagesAccounted
  <2>4. summaries' = summaries \cup {Front(summarizeQueue)} /\ fetched' = fetched
    BY <1>6, <2>2 DEF RunSummarizing
  <2>5. summaries' = fetched' <=> summarizeQueue' = {}
    BY <1>6, <2>3, <2>4 DEF RunSummarizing, PagesInv, PagesAccounted
  <2>6. phase' = IF summaries' = fetched THEN "Investigating" ELSE "Summarizing"
    BY <1>6, <2>4, <2>5 DEF RunSummarizing, AfterSummary
  <2>7. Pipeline!Summarise
    BY <1>6, <2>1, <2>3, <2>4, <2>6 DEF RunSummarizing, Pipeline!Summarise, Pipeline!Completes
  <2> QED  BY <2>7 DEF Pipeline!Next
<1>7. ASSUME NEW p \in Process, SkipSummaries(p) PROVE PipelineStep
  <2>1. Outcome = "running" /\ Outcome' = "running"
    BY <1>7, SettleRunning DEF SkipSummaries
  <2>2. fetched = {}
    BY <1>7 DEF SkipSummaries, PagesInv
  <2> QED  BY <1>7, <2>1, <2>2 DEF SkipSummaries, Pipeline!Next, Pipeline!NothingToSummarise,
           Pipeline!Completes, pages
<1>8. ASSUME NEW p \in Process, SkipInvestigation(p) PROVE PipelineStep
  <2>1. Outcome = "running" /\ Outcome' = "running"
    BY <1>8, SettleRunning DEF SkipInvestigation
  <2>2. fetched' = fetched \cup {} /\ summaries' = summaries \cup {}
    BY <1>8 DEF SkipInvestigation, pages
  <2>3. Pipeline!Conclude
    BY <1>8, <2>1, <2>2 DEF SkipInvestigation, Pipeline!Conclude, Pipeline!Completes, pages
  <2> QED  BY <2>3 DEF Pipeline!Next
<1>9. ASSUME NEW p \in Process, OutOfTurns(p) PROVE PipelineStep
  <2>1. Outcome = "running" /\ Outcome' = "running"
    BY <1>9, SettleRunning DEF OutOfTurns
  <2>2. fetched' = fetched \cup {} /\ summaries' = summaries \cup {}
    BY <1>9 DEF OutOfTurns, pages
  <2>3. Pipeline!Conclude
    BY <1>9, <2>1, <2>2 DEF OutOfTurns, Pipeline!Conclude, Pipeline!Completes, pages, Investigates
  <2> QED  BY <2>3 DEF Pipeline!Next
<1>10. ASSUME NEW p \in Process, RunTurn(p) PROVE PipelineStep
  <2>1. Outcome = "running" /\ Outcome' = "running"
    BY <1>10, SettleRunning DEF RunTurn
  <2>2. phase' = phase /\ fetched' = fetched /\ summaries' = summaries
    BY <1>10 DEF RunTurn, pages
  <2>3. phase = "Investigating" /\ (steps' = steps \/ steps' = steps + 1)
    BY <1>10 DEF RunTurn, Investigates
  <2> QED  BY <2>1, <2>2, <2>3 DEF Pipeline!Next, Pipeline!Investigate, Pipeline!Completes
<1>11. ASSUME NEW p \in Process, WaitForTurn(p) PROVE PipelineStep
  <2>1. Outcome = "running" /\ Outcome' = "running"
    BY <1>11, SettleRunning DEF WaitForTurn
  <2>2. Pipeline!Investigate
    BY <1>11, <2>1 DEF WaitForTurn, Pipeline!Investigate, Pipeline!Completes, pages, Investigates
  <2> QED  BY <2>2 DEF Pipeline!Next
<1>12. ASSUME NEW p \in Process, FinishInvestigation(p) PROVE PipelineStep
  <2>1. Outcome = "running" /\ Outcome' = "running"
    BY <1>12, SettleRunning DEF FinishInvestigation
  <2>2. PICK added \in SUBSET ((reply[p].urls \cap (shown \cup Returned)) \ summaries) :
          summaries' = summaries \cup added /\ fetched' = fetched \cup added
    BY <1>12 DEF FinishInvestigation
  <2>3. added \in SUBSET (Url \ summaries)
    <3>1. shown \cup Returned \subseteq Url
      BY DEF TypeOK, AgentTypes, Returned
    <3> QED  BY <3>1
  <2>4. phase = "Investigating" /\ phase' = "Synthesizing" /\ steps' = steps + 1
    BY <1>12 DEF FinishInvestigation, Investigates
  <2>5. Pipeline!Conclude
    BY <2>1, <2>2, <2>3, <2>4 DEF Pipeline!Conclude, Pipeline!Completes
  <2> QED  BY <2>5 DEF Pipeline!Next
<1>13. ASSUME NEW p \in Process, RunSynthesizing(p) PROVE PipelineStep
  <2>1. Outcome = "running" /\ Outcome' = "running"
    BY <1>13, SettleRunning DEF RunSynthesizing
  <2>2. Pipeline!Synthesize
    BY <1>13, <2>1 DEF RunSynthesizing, Pipeline!Synthesize, Pipeline!Completes, pages
  <2> QED  BY <2>2 DEF Pipeline!Next
<1>14. ASSUME NEW p \in Process, RunWriting(p) PROVE PipelineStep
  <2>1. Outcome = "running" /\ Outcome' = "succeeded"
    BY <1>14, TerminateOutcome DEF RunWriting, Terminal
  <2>2. summaries = fetched
    BY <1>14 DEF RunWriting, PagesInv, PagesAccounted
  <2> QED  BY <1>14, <2>1, <2>2 DEF RunWriting, Pipeline!Next, Pipeline!Write, Pipeline!Completes,
     pages
<1>15. ASSUME NEW p \in Process, PermanentFailure(p) PROVE PipelineStep
  <2>1. Outcome = "running" /\ Outcome' = "failed"
    BY <1>15, TerminateOutcome DEF PermanentFailure, Terminal
  <2> QED  BY <1>15, <2>1 DEF PermanentFailure, Pipeline!Next, Pipeline!Stop, payload, pages
<1>16. ASSUME NEW p \in Process, RejectFindings(p) PROVE PipelineStep
  <2>1. Outcome = "running" /\ Outcome' = "failed"
    BY <1>16, TerminateOutcome DEF RejectFindings, Terminal
  <2> QED  BY <1>16, <2>1 DEF RejectFindings, Pipeline!Next, Pipeline!Stop, payload, pages
<1>17. ASSUME NEW p \in Process, CancelStep(p) PROVE PipelineStep
  <2>1. Outcome = "running" /\ Outcome' = "cancelled"
    BY <1>17, TerminateOutcome DEF CancelStep, Terminal
  <2> QED  BY <1>17, <2>1 DEF CancelStep, Pipeline!Next, Pipeline!Stop, payload, pages
<1>18. ASSUME NEW p \in Process, RejectPlan(p) PROVE PipelineStep
  <2>1. Outcome = "running" /\ (status' = status \/ status' = "failed")
    BY <1>18, ConstantsAssumption DEF RejectPlan, Release, ClaimInv, Outcome, Terminal
  <2>2. UNCHANGED <<phase, fetched, summaries, steps>>
    BY <1>18 DEF RejectPlan, Release, payload, pages
  <2> QED  BY <2>1, <2>2 DEF Pipeline!Next, Pipeline!Stop, Outcome, Terminal
<1>19. ASSUME NEW p \in Process, Interrupt(p) PROVE PipelineStep
  <2>1. Outcome = "running" /\ (status' = status \/ status' = "failed")
    BY <1>19, ConstantsAssumption DEF Interrupt, Release, ClaimInv, Outcome, Terminal
  <2>2. UNCHANGED <<phase, fetched, summaries, steps>>
    BY <1>19 DEF Interrupt, Release, payload, pages
  <2> QED  BY <2>1, <2>2 DEF Pipeline!Next, Pipeline!Stop, Outcome, Terminal
<1>20. ASSUME CancelUnclaimed PROVE PipelineStep
  <2>1. Outcome = "running" /\ Outcome' = "cancelled"
    BY <1>20 DEF CancelUnclaimed, Outcome, Terminal
  <2> QED  BY <1>20, <2>1 DEF CancelUnclaimed, Pipeline!Next, Pipeline!Stop, payload, pages
<1>21. ASSUME NEW p \in Process, Deliver(p) PROVE PipelineStep
  BY <1>21 DEF Deliver, Outcome, payload, pages, queue
<1>22. ASSUME NEW p \in Process, Takeover(p) PROVE PipelineStep
  BY <1>22 DEF Takeover, Outcome, payload, pages, queue
<1>23. ASSUME NEW p \in Process, StartJoin(p) PROVE PipelineStep
  BY <1>23 DEF StartJoin, Outcome, payload, pages, queue
<1>24. ASSUME NEW p \in Process, FinishJoin(p) PROVE PipelineStep
  BY <1>24 DEF FinishJoin, Outcome, payload, pages, queue
<1>25. ASSUME NEW p \in Process, ReadMemo(p) PROVE PipelineStep
  BY <1>25 DEF ReadMemo, Outcome, payload, pages, queue
<1>26. ASSUME NEW p \in Process, CallModel(p) PROVE PipelineStep
  BY <1>26 DEF CallModel, Outcome, payload, pages, queue
<1>27. ASSUME NEW p \in Process, WriteMemo(p) PROVE PipelineStep
  BY <1>27 DEF WriteMemo, Outcome, payload, pages, queue
<1>28. ASSUME NEW p \in Process, Rejected(p) PROVE PipelineStep
  BY <1>28 DEF Rejected, Outcome, payload, pages, queue
<1>29. ASSUME NEW p \in Process, SubmitFetches(p) PROVE PipelineStep
  BY <1>29 DEF SubmitFetches, Outcome, payload, pages, queue
<1>30. ASSUME NEW p \in Process, SubmitTurn(p) PROVE PipelineStep
  BY <1>30 DEF SubmitTurn, Outcome, payload, pages, queue
<1>31. ASSUME NEW p \in Process, PutReport(p) PROVE PipelineStep
  BY <1>31 DEF PutReport, Outcome, payload, pages, queue
<1>32. ASSUME RequestCancel PROVE PipelineStep
  BY <1>32 DEF RequestCancel, Outcome, Terminal, payload, pages
<1>33. ASSUME EndGroupWait PROVE PipelineStep
  BY <1>33 DEF EndGroupWait, Outcome, Terminal, payload, pages
<1>34. ASSUME EndReplyWait PROVE PipelineStep
  BY <1>34 DEF EndReplyWait, Outcome, Terminal, payload, pages
<1>35. ASSUME NEW g \in Group, NEW u \in Url, MemberEnd(g, u) PROVE PipelineStep
  BY <1>35 DEF MemberEnd, Outcome, payload, pages, queue
<1>36. ASSUME UNCHANGED vars PROVE PipelineStep
  BY <1>36 DEF vars, Outcome, payload, pages, queue
<1> QED
  BY <1>1, <1>2, <1>3, <1>4, <1>5, <1>6, <1>7, <1>8, <1>9, <1>10, <1>11, <1>12, <1>13,
     <1>14, <1>15, <1>16, <1>17, <1>18, <1>19, <1>20, <1>21, <1>22, <1>23, <1>24, <1>25,
     <1>26, <1>27, <1>28, <1>29, <1>30, <1>31, <1>32, <1>33, <1>34, <1>35, <1>36 DEF Next,
     Work, Disturb

\* The run, with its deliveries, waits and processes, implements the pipeline that is
\* executed once.
THEOREM RunImplementsPipeline == Spec => ImplementsPipeline
<1>1. Init => Pipeline!Init
  BY DEF Init, Pipeline!Init, Outcome, Terminal
<1>2. Init => (PagesInv /\ CapInv) /\ ClaimInv
  <2>1. Init => PagesInv
    BY DEF Init, PagesInv, PagesAccounted
  <2>2. Init => ClaimInv
    BY DEF Init, ClaimInv
  <2> QED  BY <2>1, <2>2, CapInit
<1>3. TypeOK /\ StepFits /\ ((PagesInv /\ CapInv) /\ ClaimInv) /\ [Next]_vars
        => ((PagesInv /\ CapInv) /\ ClaimInv)'
  BY PagesStep, FetchStep, CapStep, ClaimStep DEF CapInv
<1>4. TypeOK /\ StepFits /\ ((PagesInv /\ CapInv) /\ ClaimInv) /\ [Next]_vars
        => [Pipeline!Next]_(Pipeline!vars)
  BY PipelineSteps DEF PipelineStep, Pipeline!vars
<1> QED  BY <1>1, <1>2, <1>3, <1>4, TypeCorrect, PTL DEF Spec, ImplementsPipeline, Pipeline!Spec

-----------------------------------------------------------------------------
(* The run holds the dialogue of its agent once. *)

\* A question that is not asked yet waits behind open calls, and an agent without a reply
\* has left nothing open.
AgentInv ==
  /\ AskPending => openCalls
  /\ turn = 0 => clarification = "none" /\ ~openCalls /\ ~openAsk

TurnsStep == Dialogue!Next \/ UNCHANGED <<turn, openCalls, shown, AgentQuestion, AgentOutcome>>

\* What is left of the question, by its parts.
LEMMA QuestionIs ==
  ASSUME AgentTypes
  PROVE  /\ AskPending => AgentQuestion = "pending"
         /\ clarification = "asked" => AgentQuestion = "waiting"
         /\ clarification \in {"given", "assumed"} => AgentQuestion = "settled"
         /\ clarification = "none" /\ ~openAsk => AgentQuestion = "none"
BY DEF AgentQuestion, AskPending, AgentTypes

LEMMA OutcomeIs ==
  /\ phase \in {"Synthesizing", "Writing"} => AgentOutcome = "ended"
  /\ phase \notin {"Synthesizing", "Writing"} /\ status \in {"failed", "cancelled"}
       => AgentOutcome = "stopped"
  /\ phase \notin {"Synthesizing", "Writing"} /\ status \notin {"failed", "cancelled"}
       => AgentOutcome = "running"
BY DEF AgentOutcome

\* The steps before and after the investigation, and those that are not a settlement, leave
\* the dialogue alone.
LEMMA AgentLeft ==
  ASSUME UNCHANGED agent
  PROVE  /\ AgentInv => AgentInv'
         /\ UNCHANGED <<turn, openCalls, shown, AgentQuestion>>
BY DEF agent, AgentInv, AskPending, AgentQuestion

\* The agent reads the results of open calls only, and a question resolves once.
LEMMA ReadsAndResolves ==
  ASSUME TypeOK, shown' = shown \cup Returned
  PROVE  /\ Dialogue!Reads
         /\ clarification = "none" => Resolved = "none"
         /\ clarification # "none" => Resolved \in {"given", "assumed"}
<1>1. Returned \in SUBSET Url /\ (Returned # {} => openCalls)
  BY DEF Returned, Succeeded
<1>2. Dialogue!Reads
  BY <1>1 DEF Dialogue!Reads
<1> QED  BY <1>2 DEF Resolved, TypeOK, AgentTypes

LEMMA TurnsInit == Init => Dialogue!Init /\ AgentInv
BY DEF Init, Dialogue!Init, AgentInv, AskPending, AgentQuestion, AgentOutcome

\* The settlements of the investigating phase are the steps of the dialogue.
LEMMA DialogueSteps ==
  ASSUME TypeOK, TypeOK', StepFits, AgentInv, ClaimInv, NEW p \in Process,
         \/ SkipInvestigation(p) \/ AskUser(p) \/ OutOfTurns(p) \/ RunTurn(p)
         \/ WaitForTurn(p) \/ FinishInvestigation(p)
  PROVE  AgentInv' /\ Dialogue!Next
<1>1. /\ phase = "Investigating" /\ status = "pending"
      /\ \E next \in {"pending", "waitGroup", "waitReply"} : Settle(p, next)
  BY ConstantsAssumption DEF SkipInvestigation, AskUser, OutOfTurns, RunTurn, WaitForTurn,
     FinishInvestigation, Investigates, Settle, ClaimInv
<1>2. status' \notin {"failed", "cancelled"}
  BY <1>1 DEF Settle
<1>3. AgentOutcome = "running"
  BY <1>1, OutcomeIs
<1>4. phase' = "Investigating" => AgentOutcome' = "running"
  BY <1>2 DEF AgentOutcome
<1>5. phase' = "Synthesizing" => AgentOutcome' = "ended"
  BY DEF AgentOutcome
<1>6. /\ AskPending => AgentQuestion = "pending"
      /\ clarification = "asked" => AgentQuestion = "waiting"
      /\ clarification \in {"given", "assumed"} => AgentQuestion = "settled"
      /\ clarification = "none" /\ ~openAsk => AgentQuestion = "none"
  BY QuestionIs DEF TypeOK
<1>7. /\ AskPending' => AgentQuestion' = "pending"
      /\ clarification' = "asked" => AgentQuestion' = "waiting"
      /\ clarification' \in {"given", "assumed"} => AgentQuestion' = "settled"
      /\ clarification' = "none" /\ ~openAsk' => AgentQuestion' = "none"
  <2>1. AgentTypes'
    BY DEF TypeOK
  <2> QED  BY <2>1 DEF AgentQuestion, AskPending, AgentTypes
<1>8. /\ turn \in Nat /\ Turns \in Nat /\ clarification \in {"none", "asked", "given", "assumed"}
      /\ clarification' \in {"none", "asked", "given", "assumed"}
      /\ openAsk \in BOOLEAN /\ openAsk' \in BOOLEAN /\ openCalls \in BOOLEAN
  BY ConstantsAssumption DEF TypeOK, AgentTypes, Group
<1>9. pc[p] \in {"ready", "submitted"} => turn < Turns
  BY <1>1 DEF StepFits, NeedsModel
<1>10. CASE SkipInvestigation(p)
  <2>1. UNCHANGED agent /\ Turns = 0 /\ turn = 0 /\ phase' = "Synthesizing"
    BY <1>10 DEF SkipInvestigation, TypeOK, AgentTypes, Group
  <2>2. AgentInv' /\ UNCHANGED <<turn, openCalls, shown, AgentQuestion>>
    BY <2>1, AgentLeft
  <2>3. openCalls = FALSE /\ AgentQuestion = "none"
    BY <1>6, <1>8, <2>1 DEF AgentInv
  <2>4. Dialogue!Reads
    <3>1. {} \in SUBSET Url /\ shown' = shown \cup {}
      BY <2>2
    <3> QED  BY <3>1 DEF Dialogue!Reads
  <2>5. Dialogue!Conclude
    BY <1>3, <1>5, <2>1, <2>2, <2>3, <2>4 DEF Dialogue!Conclude, Dialogue!Question
  <2> QED  BY <2>2, <2>5 DEF Dialogue!Next
<1>11. CASE AskUser(p)
  <2>1. /\ AskPending /\ clarification' = "asked" /\ shown' = shown \cup Returned
        /\ openCalls' = FALSE /\ UNCHANGED <<phase, turn>>
    BY <1>11 DEF AskUser
  <2>2. Dialogue!Reads
    BY <2>1, ReadsAndResolves
  <2>3. openCalls /\ turn # 0
    BY <2>1 DEF AgentInv
  <2>4. Dialogue!Ask
    BY <1>1, <1>3, <1>4, <1>6, <1>7, <2>1, <2>2, <2>3 DEF Dialogue!Ask
  <2>5. AgentInv'
    BY <2>1, <2>3 DEF AgentInv, AskPending
  <2> QED  BY <2>4, <2>5 DEF Dialogue!Next
<1>12. CASE OutOfTurns(p) \/ FinishInvestigation(p)
  <2>1. /\ clarification' = Resolved /\ shown' = shown \cup Returned
        /\ openCalls' = FALSE /\ openAsk' = FALSE /\ phase' = "Synthesizing"
        /\ \/ turn < Turns /\ turn' = turn + 1
           \/ turn = Turns /\ turn' = turn /\ Turns > 0
    BY <1>9, <1>12 DEF OutOfTurns, FinishInvestigation, Investigates
  <2>2. ~AskPending
    BY <1>12 DEF OutOfTurns, FinishInvestigation, StepFits, NeedsModel, Investigates
  <2>3. /\ Dialogue!Reads
        /\ clarification = "none" => Resolved = "none"
        /\ clarification # "none" => Resolved \in {"given", "assumed"}
    BY <2>1, ReadsAndResolves
  <2>4. Dialogue!Question /\ AgentQuestion' \in {"none", "settled"}
    <3>1. CASE clarification = "none"
      BY <1>6, <1>7, <1>8, <2>1, <2>2, <2>3, <3>1 DEF Dialogue!Question, AskPending
    <3>2. CASE clarification # "none"
      BY <1>6, <1>7, <1>8, <2>1, <2>3, <3>2 DEF Dialogue!Question
    <3> QED  BY <3>1, <3>2
  <2>5. Dialogue!Conclude
    BY <1>3, <1>5, <2>1, <2>3, <2>4 DEF Dialogue!Conclude
  <2>6. AgentInv'
    BY <1>8, <2>1 DEF AgentInv, AskPending
  <2> QED  BY <2>5, <2>6 DEF Dialogue!Next
<1>13. CASE RunTurn(p) \/ WaitForTurn(p)
  <2>1. /\ shown' = shown \cup Returned /\ phase' = phase
        /\ turn < Turns /\ turn' = turn + 1 /\ openCalls' \in BOOLEAN
        /\ openAsk' = Asks(reply[p])
    BY <1>9, <1>13 DEF RunTurn, WaitForTurn
  <2>2. \/ clarification' = Resolved /\ (openAsk' => openCalls')
        \/ clarification' = "asked" /\ Asks(reply[p])
    BY <1>13 DEF RunTurn, WaitForTurn
  <2>3. /\ Dialogue!Reads
        /\ clarification = "none" => Resolved = "none"
        /\ clarification # "none" => Resolved \in {"given", "assumed"}
    BY <2>1, ReadsAndResolves
  <2>4. AskPending' => openCalls'
    BY <2>2 DEF AskPending
  <2>5. Dialogue!Question /\ (AgentQuestion' = "pending" => openCalls')
    <3>1. CASE clarification = "none"
      <4>1. AgentQuestion \in {"none", "pending"}
        BY <1>6, <1>8, <3>1 DEF AskPending
      <4>2. clarification' \in {"none", "asked"}
        BY <2>2, <2>3, <3>1
      <4>3. AgentQuestion' \in {"none", "pending", "waiting"}
        BY <1>7, <1>8, <4>2 DEF AskPending
      <4>4. AgentQuestion' = "pending" => AskPending'
        BY <1>7, <1>8, <4>2 DEF AskPending
      <4> QED  BY <2>4, <4>1, <4>3, <4>4 DEF Dialogue!Question
    <3>2. CASE clarification # "none"
      <4>1. clarification' \in {"given", "assumed"}
        BY <2>2, <2>3, <3>2 DEF Asks
      <4>2. AgentQuestion \in {"waiting", "settled"} /\ AgentQuestion' = "settled"
        BY <1>6, <1>7, <1>8, <3>2, <4>1
      <4> QED  BY <4>2 DEF Dialogue!Question
    <3> QED  BY <3>1, <3>2
  <2>6. Dialogue!Turn
    BY <1>1, <1>3, <1>4, <2>1, <2>3, <2>5 DEF Dialogue!Turn
  <2>7. AgentInv'
    BY <1>8, <2>1, <2>4 DEF AgentInv
  <2> QED  BY <2>6, <2>7 DEF Dialogue!Next
<1> QED  BY <1>10, <1>11, <1>12, <1>13

TurnsInv == TypeOK /\ StepFits /\ AgentInv /\ ClaimInv

LEMMA TurnsSteps ==
  ASSUME TurnsInv, TypeOK', [Next]_vars
  PROVE  AgentInv' /\ TurnsStep
<1> USE DEF TurnsInv, TurnsStep
\* A step that leaves the agent alone and moves neither the phase nor the status.
<1>0. ASSUME UNCHANGED agent, AgentOutcome' = AgentOutcome PROVE AgentInv' /\ TurnsStep
  BY <1>0, AgentLeft
\* The end of the run outside of the dialogue, or after it.
<1>1. ASSUME UNCHANGED <<phase, agent>>, status \notin Terminal, status' \in {"failed", "cancelled"}
      PROVE  AgentInv' /\ TurnsStep
  <2>1. AgentInv' /\ UNCHANGED <<turn, openCalls, shown, AgentQuestion>>
    BY <1>1, AgentLeft
  <2>2. CASE phase \in {"Synthesizing", "Writing"}
    <3>1. AgentOutcome = "ended" /\ AgentOutcome' = "ended"
      BY <1>1, <2>2 DEF AgentOutcome
    <3> QED  BY <2>1, <3>1
  <2>3. CASE phase \notin {"Synthesizing", "Writing"}
    <3>1. AgentOutcome = "running"
      BY <1>1, <2>3, OutcomeIs DEF Terminal
    <3>2. AgentOutcome' = "stopped"
      BY <1>1, <2>3 DEF AgentOutcome
    <3>3. Dialogue!Stop
      BY <2>1, <3>1, <3>2 DEF Dialogue!Stop
    <3> QED  BY <2>1, <3>3 DEF Dialogue!Next
  <2> QED  BY <2>2, <2>3
<1>2. ASSUME NEW p \in Process, NEW end \in {"failed", "cancelled"}, Terminate(p, end),
             UNCHANGED <<phase, agent>>
      PROVE  AgentInv' /\ TurnsStep
  <2>1. status = "pending" /\ status' = end
    BY <1>2, ConstantsAssumption DEF Terminate, ClaimInv
  <2> QED  BY <1>1, <1>2, <2>1 DEF Terminal
<1>3. ASSUME NEW p \in Process, Release(p) PROVE AgentInv' /\ TurnsStep
  <2>1. status = "pending" /\ UNCHANGED <<phase, agent>>
    BY <1>3, ConstantsAssumption DEF Release, ClaimInv, payload
  <2>2. CASE status' = status
    BY <1>0, <2>1, <2>2 DEF AgentOutcome
  <2>3. CASE status' = "failed"
    BY <1>1, <2>1, <2>3 DEF Terminal
  <2> QED  BY <1>3, <2>2, <2>3 DEF Release
<1>4. ASSUME NEW p \in Process, Settling(p) PROVE AgentInv' /\ TurnsStep
  <2>1. CASE \/ SkipInvestigation(p) \/ AskUser(p) \/ OutOfTurns(p) \/ RunTurn(p)
             \/ WaitForTurn(p) \/ FinishInvestigation(p)
    BY <2>1, DialogueSteps
  <2>2. CASE \/ RunPlanning(p) \/ RunSearching(p) \/ WaitForFetches(p) \/ RecordFetches(p)
             \/ RunSummarizing(p) \/ SkipSummaries(p) \/ RunSynthesizing(p)
    <3>1. /\ UNCHANGED agent /\ status = "pending"
          /\ status' \in {"pending", "waitGroup", "waitReply"}
          /\ (phase' \in {"Synthesizing", "Writing"}) <=> (phase \in {"Synthesizing", "Writing"})
      BY <2>2, ConstantsAssumption DEF RunPlanning, RunSearching, WaitForFetches, RecordFetches,
         RunSummarizing, AfterSummary, SkipSummaries, RunSynthesizing, Settle, ClaimInv
    <3>2. AgentOutcome' = AgentOutcome
      BY <3>1 DEF AgentOutcome
    <3> QED  BY <1>0, <3>1, <3>2
  <2> QED  BY <1>4, <2>1, <2>2 DEF Settling
<1>5. ASSUME UNCHANGED <<phase, agent, status>> PROVE AgentInv' /\ TurnsStep
  BY <1>0, <1>5 DEF AgentOutcome
<1>6. ASSUME NEW p \in Process,
             \/ Deliver(p) \/ Takeover(p) \/ StartJoin(p) \/ FinishJoin(p) \/ ReadMemo(p)
             \/ CallModel(p) \/ WriteMemo(p) \/ Rejected(p) \/ SubmitFetches(p) \/ SubmitTurn(p)
             \/ PutReport(p)
      PROVE  AgentInv' /\ TurnsStep
  <2>1. UNCHANGED <<phase, agent, status>>
    BY <1>6 DEF Deliver, Takeover, StartJoin, FinishJoin, ReadMemo, CallModel, WriteMemo, Rejected,
       SubmitFetches, SubmitTurn, PutReport, payload, queue
  <2> QED  BY <1>5, <2>1
<1>7. ASSUME NEW p \in Process, RejectPlan(p) \/ Interrupt(p) PROVE AgentInv' /\ TurnsStep
  BY <1>3, <1>7 DEF RejectPlan, Interrupt
<1>8. ASSUME NEW p \in Process, PermanentFailure(p) \/ RejectFindings(p) \/ CancelStep(p)
      PROVE  AgentInv' /\ TurnsStep
  BY <1>2, <1>8 DEF PermanentFailure, RejectFindings, CancelStep, payload
<1>9. ASSUME NEW p \in Process, RunWriting(p) PROVE AgentInv' /\ TurnsStep
  <2>1. UNCHANGED <<phase, agent>> /\ phase = "Writing"
    BY <1>9 DEF RunWriting
  <2> QED  BY <1>0, <2>1 DEF AgentOutcome
<1>10. ASSUME CancelUnclaimed PROVE AgentInv' /\ TurnsStep
  BY <1>1, <1>10 DEF CancelUnclaimed, payload
<1>11. ASSUME EndGroupWait \/ EndReplyWait PROVE AgentInv' /\ TurnsStep
  <2>1. UNCHANGED <<phase, agent>> /\ status \in {"waitGroup", "waitReply"} /\ status' = "pending"
    BY <1>11 DEF EndGroupWait, EndReplyWait, payload
  <2> QED  BY <1>0, <2>1 DEF AgentOutcome
<1>12. ASSUME \/ RequestCancel \/ UNCHANGED vars
              \/ \E g \in Group, u \in Url : MemberEnd(g, u)
       PROVE  AgentInv' /\ TurnsStep
  BY <1>5, <1>12 DEF RequestCancel, MemberEnd, vars, payload, queue
<1> QED
  BY <1>4, <1>6, <1>7, <1>8, <1>9, <1>10, <1>11, <1>12 DEF Next, Work, Disturb, Settling

\* The run, with its deliveries, waits and faults, holds the dialogue of its agent once.
THEOREM RunImplementsTurns == Spec => ImplementsTurns
<1>1. Init => ClaimInv
  BY DEF Init, ClaimInv
<1>2. (TypeOK /\ StepFits) /\ (TypeOK /\ StepFits)' /\ (AgentInv /\ ClaimInv) /\ [Next]_vars
        => (AgentInv /\ ClaimInv)' /\ [Dialogue!Next]_(Dialogue!vars)
  BY TurnsSteps, ClaimStep DEF TurnsInv, TurnsStep, Dialogue!vars
<1> QED  BY <1>1, <1>2, TurnsInit, TypeCorrect, PTL DEF Spec, ImplementsTurns, Dialogue!Spec
=============================================================================
