------------------------ MODULE ResearchUsage_proofs ------------------------
(***************************************************************************)
(* What a run pays for and counts, over any number of processes,           *)
(* interrupted deliveries, takeovers, pages and turns.  A fenced process   *)
(* may still receive a reply that nobody uses and write the report: the    *)
(* takeovers bound what that costs.                                        *)
(***************************************************************************)
EXTENDS ResearchRun_proofs

-----------------------------------------------------------------------------
(* The model calls of the settled steps. *)

\* The summaries of the summarizing phase; the findings of the agent are not among them.
Summarized == summaries \cap Succeeded(0)

\* A page that waits for its summary was fetched by the fetching phase.
QueueInv == summarizeQueue \subseteq Succeeded(0)

LEMMA GatheredAreCounted ==
  ASSUME TypeOK
  PROVE  Cardinality(Summarized) \in Nat /\ IsFiniteSet(Summarized) /\ SettledCalls \in Nat
<1>1. IsFiniteSet(Summarized)
  BY FS_Subset, ConstantsAssumption DEF Summarized, Succeeded
<1>2. Cardinality(Summarized) \in Nat
  BY <1>1, FS_CardinalityType
<1>3. turn \in Nat
  BY ConstantsAssumption DEF TypeOK, AgentTypes, Group
<1> QED  BY <1>1, <1>2, <1>3 DEF SettledCalls, Summarized

\* A success of the fetching phase stays, and what is summarised has ended there.
LEMMA SuccessesStay ==
  ASSUME TypeOK, StepFits, PagesInv, FetchInv, [Next]_vars
  PROVE  /\ Succeeded(0) \subseteq Succeeded(0)'
         /\ summaries \cap Succeeded(0)' = Summarized
<1> USE GroupZero DEF Succeeded, Summarized
<1>0. /\ member \in [Group -> [Url -> MemberStates]] /\ turn \in Group /\ phase \in Phases
      /\ summaries \in SUBSET Url
  BY DEF TypeOK, GroupTypes, AgentTypes, PayloadTypes
<1>1. \/ summaries = {}
      \/ phase \notin {"Planning", "Searching", "Fetching"} /\ ~Active(0)
  BY DEF PagesInv, FetchInv, NoFetchLost
<1>2. ASSUME NEW p \in Process, SubmitFetches(p)
      PROVE  Succeeded(0) \subseteq Succeeded(0)' /\ summaries \cap Succeeded(0)' = Summarized
  <2>1. summaries = {}
    BY <1>1, <1>2 DEF SubmitFetches
  <2>2. \A u \in Url : member[0][u] = "ok" => member'[0][u] = "ok"
    BY <1>2, SubmittedMembers DEF SubmitFetches, TypeOK
  <2> QED  BY <2>1, <2>2
<1>3. ASSUME NEW p \in Process, SubmitTurn(p)
      PROVE  Succeeded(0) \subseteq Succeeded(0)' /\ summaries \cap Succeeded(0)' = Summarized
  <2>1. turn + 1 \in Group /\ turn + 1 # 0
    BY <1>0, <1>3, ConstantsAssumption DEF SubmitTurn, Investigates, StepFits, NeedsModel, Group
  <2>2. \A u \in Url : member'[0][u] = member[0][u]
    BY <1>3, <2>1, SubmittedMembers DEF SubmitTurn, TypeOK
  <2> QED  BY <2>2
<1>4. ASSUME NEW g \in Group, NEW v \in Url, MemberEnd(g, v)
      PROVE  Succeeded(0) \subseteq Succeeded(0)' /\ summaries \cap Succeeded(0)' = Summarized
  <2>1. \A u \in Url : member[0][u] = "ok" => member'[0][u] = "ok"
    BY <1>0, <1>4 DEF MemberEnd
  <2>2. CASE summaries = {}
    BY <2>1, <2>2
  <2>3. CASE ~Active(0)
    <3>1. g # 0
      BY <1>4, <2>3 DEF MemberEnd, Active
    <3>2. \A u \in Url : member'[0][u] = member[0][u]
      BY <1>0, <1>4, <3>1 DEF MemberEnd
    <3> QED  BY <3>2
  <2> QED  BY <1>1, <2>2, <2>3
<1>5. CASE ~GroupSteps
  BY <1>5, OtherMembers
<1> QED  BY <1>2, <1>3, <1>4, <1>5 DEF GroupSteps

LEMMA QueueStep ==
  ASSUME TypeOK, StepFits, PagesInv, FetchInv, QueueInv, [Next]_vars
  PROVE  QueueInv'
<1>1. Succeeded(0) \subseteq Succeeded(0)'
  BY SuccessesStay
<1>2. summarizeQueue' \subseteq summarizeQueue \cup Succeeded(0)
  <2>1. CASE ~ \E p \in Process : Settling(p)
    BY <2>1, OtherSteps DEF pages
  <2>2. ASSUME NEW p \in Process, Settling(p)
        PROVE  summarizeQueue' \subseteq summarizeQueue \cup Succeeded(0)
    BY <2>2 DEF Settling, RunPlanning, RunSearching, WaitForFetches, RecordFetches, RunSummarizing,
       SkipSummaries, SkipInvestigation, AskUser, OutOfTurns, RunTurn, WaitForTurn,
       FinishInvestigation, RunSynthesizing, pages
  <2> QED  BY <2>1, <2>2
<1> QED  BY <1>1, <1>2 DEF QueueInv

-----------------------------------------------------------------------------
(* The memo and the places of the processes. *)

Early == {"started", "joining", "joined", "calling"}
Late == {"ready", "submitted", "written"}

\* A process that goes on after another one took its step.
Fenced(p) == pc[p] # "idle" /\ claimant # p

\* The delivery has the reply of its step, and the memo has one too.
HasReply(p) == pc[p] \in Late /\ phase # "Fetching"

MemoInv ==
  /\ \A p \in Process : /\ claimant = p => pc[p] # "idle"
                        /\ HasReply(p) => memo # NoReply
  /\ status = "succeeded" => phase = "Writing" /\ memo # NoReply

KnownInv ==
  TypeOK /\ StepFits /\ ClaimInv /\ PagesInv /\ FetchInv /\ QueueInv /\ MemoInv

LEMMA AnswersAreCalls ==
  ASSUME NeedsModel, NEW r \in Answers
  PROVE  r # NoReply
<1>1. r.kind # "none"
  BY DEF NeedsModel, Answers, Plans, Summary, ToolCalls, Findings, NotFindings, Text, ReplyOf
<1> QED  BY <1>1 DEF NoReply, ReplyOf

LEMMA NobodyIsNone == ASSUME NEW p \in Process PROVE p # Nobody
BY ConstantsAssumption

\* A settlement leaves nobody with the step.
LEMMA SettledState ==
  ASSUME TypeOK, NEW p \in Process, Settling(p)
  PROVE  /\ claimant = p /\ claimant' = Nobody /\ memo' = NoReply /\ usage' = tally[p]
         /\ pc' = [q \in Process |-> "idle"] /\ tally' = [q \in Process |-> 0]
         /\ status' \in Statuses \ {"succeeded"}
         /\ UNCHANGED <<blob, groups, paid, dropped, faults, takeovers>>
BY DEF Settling, RunPlanning, RunSearching, WaitForFetches, RecordFetches, RunSummarizing,
   SkipSummaries, SkipInvestigation, AskUser, OutOfTurns, RunTurn, WaitForTurn,
   FinishInvestigation, RunSynthesizing, Settle, Statuses, Terminal, ghosts

LEMMA MemoStep ==
  ASSUME TypeOK, StepFits, ClaimInv, MemoInv, [Next]_vars
  PROVE  MemoInv'
<1> USE NobodyIsNone DEF MemoInv, HasReply, Late
<1>0. /\ pc \in [Process -> Places] /\ reply \in [Process -> Reply]
      /\ claimant \in Process \cup {Nobody}
  BY DEF TypeOK, MemoryTypes, QueueTypes
<1>1. ASSUME NEW p \in Process, Settling(p) PROVE MemoInv'
  BY <1>1, SettledState
<1>2. CASE ~ \E p \in Process : Settling(p)
  <2>0. phase' = phase
    BY <1>2, OtherSteps
  <2>1. ASSUME NEW p \in Process, Deliver(p) PROVE MemoInv'
    BY <1>0, <2>0, <2>1 DEF Deliver, store
  <2>2. ASSUME NEW p \in Process, Takeover(p) PROVE MemoInv'
    BY <1>0, <2>0, <2>2 DEF Takeover, store
  <2>3. ASSUME NEW p \in Process, StartJoin(p) \/ FinishJoin(p) PROVE MemoInv'
    BY <1>0, <2>0, <2>3 DEF StartJoin, FinishJoin, queue, store
  <2>4. ASSUME NEW p \in Process, ReadMemo(p) PROVE MemoInv'
    BY <1>0, <2>0, <2>4 DEF ReadMemo, queue, store
  <2>5. ASSUME NEW p \in Process, CallModel(p) PROVE MemoInv'
    BY <1>0, <2>0, <2>5 DEF CallModel, queue, store
  <2>6. ASSUME NEW p \in Process, WriteMemo(p) PROVE MemoInv'
    <3>1. reply[p] # NoReply
      BY <2>6, AnswersAreCalls DEF WriteMemo, StepFits
    <3> QED  BY <1>0, <2>0, <2>6, <3>1 DEF WriteMemo, queue
  <2>7. ASSUME NEW p \in Process, Rejected(p) PROVE MemoInv'
    BY <1>0, <2>0, <2>7 DEF Rejected, queue, store
  <2>8. ASSUME NEW p \in Process, SubmitFetches(p) PROVE MemoInv'
    BY <1>0, <2>0, <2>8 DEF SubmitFetches, queue, store
  <2>9. ASSUME NEW p \in Process, SubmitTurn(p) PROVE MemoInv'
    BY <1>0, <2>0, <2>9 DEF SubmitTurn, Investigates, queue, store
  <2>10. ASSUME NEW p \in Process, PutReport(p) PROVE MemoInv'
    BY <1>0, <2>0, <2>10 DEF PutReport, queue
  <2>11. ASSUME NEW p \in Process, RejectPlan(p) \/ Interrupt(p) PROVE MemoInv'
    BY <1>0, <2>0, <2>11 DEF RejectPlan, Interrupt, Release, store, ClaimInv
  <2>12. ASSUME NEW p \in Process, PermanentFailure(p) \/ RejectFindings(p) \/ CancelStep(p)
         PROVE  MemoInv'
    BY <1>0, <2>0, <2>12 DEF PermanentFailure, RejectFindings, CancelStep, Terminate, store
  <2>13. ASSUME NEW p \in Process, RunWriting(p) PROVE MemoInv'
    BY <1>0, <2>0, <2>13 DEF RunWriting, Terminate, store
  <2>14. CASE RequestCancel \/ CancelUnclaimed \/ EndGroupWait \/ EndReplyWait \/ UNCHANGED vars
              \/ \E g \in Group, u \in Url : MemberEnd(g, u)
    BY <2>0, <2>14 DEF RequestCancel, CancelUnclaimed, EndGroupWait, EndReplyWait, MemberEnd, vars,
       queue, store, memory
  <2> QED
    BY <1>2, <2>1, <2>2, <2>3, <2>4, <2>5, <2>6, <2>7, <2>8, <2>9, <2>10, <2>11, <2>12, <2>13,
       <2>14 DEF Next, Work, Disturb, Settling
<1> QED  BY <1>1, <1>2

LEMMA KnownStep == ASSUME KnownInv, [Next]_vars PROVE KnownInv'
BY TypeStep, FitsStep, PagesStep, FetchStep, ClaimStep, QueueStep, MemoStep DEF KnownInv

-----------------------------------------------------------------------------
(* Each settlement of a model step counts one call, and nothing else does. *)

LEMMA SettledIs ==
  SettledCalls = (IF phase # "Planning" THEN 1 ELSE 0) + Cardinality(Summarized) + turn
                 + (IF phase = "Writing" THEN 1 ELSE 0) + (IF status = "succeeded" THEN 1 ELSE 0)
BY DEF SettledCalls, Summarized

\* A step settles with a reply if and only if it needs one.
LEMMA SettlesWithReply ==
  ASSUME TypeOK, StepFits, MemoInv, NEW p \in Process, Settling(p)
  PROVE  \/ /\ NeedsModel /\ memo # NoReply /\ HasReply(p)
            /\ phase = "Planning" => Questions(reply[p]) > 0
         \/ /\ ~NeedsModel /\ memo = NoReply
            /\ pc[p] \in Early \/ (pc[p] = "submitted" /\ phase = "Fetching")
<1>0. turn \in Nat /\ Turns \in Nat
  BY ConstantsAssumption DEF TypeOK, AgentTypes, Group
<1>1. CASE RunPlanning(p)
  BY <1>1 DEF RunPlanning, NeedsModel, MemoInv, HasReply, Late
<1>2. ASSUME ~NeedsModel, pc[p] \in {"started", "joined"} \/ (pc[p] = "submitted" /\ phase = "Fetching")
      PROVE  memo = NoReply /\ (pc[p] \in Early \/ (pc[p] = "submitted" /\ phase = "Fetching"))
  BY <1>2 DEF StepFits, Early
<1>3. CASE RunSearching(p) \/ WaitForFetches(p) \/ RecordFetches(p)
  <2>1. ~NeedsModel
    BY <1>3 DEF RunSearching, WaitForFetches, RecordFetches, NeedsModel
  <2>2. pc[p] \in {"started", "joined"} \/ (pc[p] = "submitted" /\ phase = "Fetching")
    BY <1>3 DEF RunSearching, WaitForFetches, RecordFetches
  <2> QED  BY <1>2, <2>1, <2>2
<1>4. CASE RunSummarizing(p) \/ RunSynthesizing(p)
  BY <1>4 DEF RunSummarizing, RunSynthesizing, StepFits, MemoInv, HasReply, Late
<1>5. CASE SkipSummaries(p) \/ SkipInvestigation(p) \/ AskUser(p) \/ OutOfTurns(p)
  <2>1. ~NeedsModel
    BY <1>0, <1>5 DEF SkipSummaries, SkipInvestigation, AskUser, OutOfTurns, Investigates,
       NeedsModel
  <2>2. pc[p] \in {"started", "joined"}
    BY <1>5 DEF SkipSummaries, SkipInvestigation, AskUser, OutOfTurns, Prepared
  <2> QED  BY <1>2, <2>1, <2>2
<1>6. CASE RunTurn(p) \/ WaitForTurn(p) \/ FinishInvestigation(p)
  BY <1>6 DEF RunTurn, WaitForTurn, FinishInvestigation, Investigates, StepFits, MemoInv, HasReply,
     Late
<1> QED  BY <1>1, <1>3, <1>4, <1>5, <1>6 DEF Settling

LEMMA SettlementCounts ==
  ASSUME KnownInv, NEW p \in Process, Settling(p)
  PROVE  SettledCalls' = SettledCalls + (IF NeedsModel THEN 1 ELSE 0)
<1> USE DEF KnownInv
<1>0. /\ turn \in Nat /\ Turns \in Nat /\ Cardinality(Summarized) \in Nat /\ IsFiniteSet(Summarized)
  BY GatheredAreCounted, ConstantsAssumption DEF TypeOK, AgentTypes, Group
<1>1. status = "pending" /\ status' # "succeeded" /\ member' = member
  BY <1>0, NobodyIsNone DEF Settling, RunPlanning, RunSearching, WaitForFetches, RecordFetches,
     RunSummarizing, SkipSummaries, SkipInvestigation, AskUser, OutOfTurns, RunTurn, WaitForTurn,
     FinishInvestigation, RunSynthesizing, Settle, ClaimInv, groups
<1>2. Succeeded(0)' = Succeeded(0)
  BY <1>1 DEF Succeeded
<1>3. SettledCalls' = (IF phase' # "Planning" THEN 1 ELSE 0) + Cardinality(Summarized') + turn'
                      + (IF phase' = "Writing" THEN 1 ELSE 0)
  <2>1. SettledCalls' = (IF phase' # "Planning" THEN 1 ELSE 0) + Cardinality(Summarized') + turn'
                        + (IF phase' = "Writing" THEN 1 ELSE 0) + (IF status' = "succeeded" THEN 1 ELSE 0)
    BY DEF SettledCalls, Summarized
  <2>2. turn' \in Nat
    BY <1>0, ConstantsAssumption DEF Settling, RunPlanning, RunSearching, WaitForFetches,
       RecordFetches, RunSummarizing, SkipSummaries, SkipInvestigation, AskUser, OutOfTurns, RunTurn,
       WaitForTurn, FinishInvestigation, RunSynthesizing, agent
  <2>3. IsFiniteSet(Summarized')
    BY <1>2, FS_Subset, ConstantsAssumption DEF Summarized, Succeeded
  <2>4. Cardinality(Summarized') \in Nat
    BY <2>3, FS_CardinalityType
  <2> QED  BY <1>1, <2>1, <2>2, <2>4
<1>4. SettledCalls = (IF phase # "Planning" THEN 1 ELSE 0) + Cardinality(Summarized) + turn
                     + (IF phase = "Writing" THEN 1 ELSE 0)
  BY <1>0, <1>1, SettledIs
<1>5. summaries' = summaries => Cardinality(Summarized') = Cardinality(Summarized)
  BY <1>2 DEF Summarized
<1>6. CASE RunPlanning(p)
  BY <1>0, <1>3, <1>4, <1>5, <1>6 DEF RunPlanning, NeedsModel, pages, agent
<1>7. CASE RunSearching(p) \/ WaitForFetches(p) \/ RecordFetches(p)
  BY <1>0, <1>3, <1>4, <1>5, <1>7 DEF RunSearching, WaitForFetches, RecordFetches, NeedsModel,
     pages, agent
<1>8. CASE RunSummarizing(p)
  <2>1. NeedsModel /\ summarizeQueue # {} /\ reply[p] \in Answers
    BY <1>0, <1>8 DEF RunSummarizing, StepFits, NeedsModel
  <2>2. reply[p].urls = {Front(summarizeQueue)}
    BY <1>8, <2>1 DEF RunSummarizing, Answers, Summary, ReplyOf
  <2>3. Front(summarizeQueue) \in Succeeded(0) /\ Front(summarizeQueue) \notin summaries
    BY <2>1, FrontInQueue DEF QueueInv, PagesInv, PagesAccounted
  <2>4. Summarized' = Summarized \cup {Front(summarizeQueue)}
    BY <1>2, <1>8, <2>2, <2>3 DEF RunSummarizing, Summarized
  <2>5. Cardinality(Summarized') = Cardinality(Summarized) + 1
    BY <1>0, <2>3, <2>4, FS_AddElement DEF Summarized
  <2> QED  BY <1>0, <1>3, <1>4, <1>8, <2>1, <2>5 DEF RunSummarizing, AfterSummary, agent
<1>9. CASE SkipSummaries(p)
  BY <1>0, <1>3, <1>4, <1>5, <1>9 DEF SkipSummaries, NeedsModel, pages, agent
<1>10. CASE SkipInvestigation(p)
  BY <1>0, <1>3, <1>4, <1>5, <1>10 DEF SkipInvestigation, NeedsModel, pages, agent
<1>11. CASE AskUser(p) \/ OutOfTurns(p)
  BY <1>0, <1>3, <1>4, <1>5, <1>11 DEF AskUser, OutOfTurns, Investigates, NeedsModel, pages
<1>12. CASE RunTurn(p) \/ WaitForTurn(p)
  <2>1. NeedsModel
    BY <1>12, SettlesWithReply DEF Early, RunTurn, WaitForTurn, Investigates
  <2> QED  BY <1>0, <1>3, <1>4, <1>5, <1>12, <2>1 DEF RunTurn, WaitForTurn, Investigates, pages
<1>13. CASE FinishInvestigation(p)
  <2>1. NeedsModel
    BY <1>0, <1>13 DEF FinishInvestigation, StepFits
  <2>2. phase = "Investigating" /\ phase' = "Synthesizing" /\ turn' = turn + 1
    BY <1>13 DEF FinishInvestigation, Investigates
  <2>3. Succeeded(0) \subseteq summaries
    BY <2>2 DEF FetchInv, NoFetchLost, PagesInv, PagesAccounted
  <2>4. Summarized' = Summarized
    BY <1>2, <1>13, <2>3 DEF FinishInvestigation, Summarized
  <2> QED  BY <1>0, <1>3, <1>4, <2>1, <2>2, <2>4
<1>14. CASE RunSynthesizing(p)
  BY <1>0, <1>3, <1>4, <1>5, <1>14 DEF RunSynthesizing, NeedsModel, pages, agent
<1> QED
  BY <1>6, <1>7, <1>8, <1>9, <1>10, <1>11, <1>12, <1>13, <1>14 DEF Settling

\* The last step counts the call of the report, and the other steps none.
LEMMA OthersCount ==
  ASSUME TypeOK, StepFits, ClaimInv, PagesInv, FetchInv, [Next]_vars,
         ~ \E p \in Process : Settling(p)
  PROVE  SettledCalls' = SettledCalls + (IF status' = "succeeded" /\ status # "succeeded" THEN 1 ELSE 0)
                         - (IF status' # "succeeded" /\ status = "succeeded" THEN 1 ELSE 0)
<1>1. UNCHANGED <<phase, pages, agent>>
  BY OtherSteps
<1>2. Summarized' = Summarized
  BY <1>1, SuccessesStay DEF Summarized, pages
<1>3. Cardinality(Summarized) \in Nat /\ turn \in Nat
  BY GatheredAreCounted, ConstantsAssumption DEF TypeOK, AgentTypes, Group
<1>4. SettledCalls' = (IF phase' # "Planning" THEN 1 ELSE 0) + Cardinality(Summarized') + turn'
                      + (IF phase' = "Writing" THEN 1 ELSE 0) + (IF status' = "succeeded" THEN 1 ELSE 0)
  BY DEF SettledCalls, Summarized
<1> QED  BY <1>1, <1>2, <1>3, <1>4, SettledIs DEF agent

-----------------------------------------------------------------------------
-----------------------------------------------------------------------------
(* The usage that each delivery counted. *)

\* The tokens of the model call of a delivery, before which the run had u.
TallyFits(u) ==
  \A p \in Process :
    /\ pc[p] \in Early \/ (pc[p] = "submitted" /\ phase = "Fetching") => tally[p] = u
    /\ pc[p] = "replied" => tally[p] = u + (1 - HostCount)
    /\ HasReply(p) => /\ tally[p] \in u .. (u + 1)
                      /\ phase = "Investigating" => tally[p] = u + 1

LEMMA HostCounts == HostCount \in {0, 1} /\ (HostCount = 1 <=> phase = "Investigating")
BY DEF HostCount

\* Only a delivery that starts takes the usage of the payload.
LEMMA TallyFitsStep ==
  ASSUME KnownInv, [Next]_vars, ~ \E p \in Process : Settling(p),
         NEW u \in Int, TallyFits(u), status = "pending" => u = usage
  PROVE  TallyFits(u)'
<1> USE DEF TallyFits, HasReply, Early, Late
<1>0. /\ pc \in [Process -> Places] /\ tally \in [Process -> Nat] /\ u \in Int
      /\ HostCount \in {0, 1} /\ (HostCount = 1 <=> phase = "Investigating")
      /\ phase' = phase /\ HostCount' = HostCount
  BY OtherSteps, HostCounts DEF KnownInv, TypeOK, MemoryTypes, HostCount
<1>1. ASSUME NEW p \in Process, Deliver(p) \/ Takeover(p) PROVE TallyFits(u)'
  <2>1. pc' = [pc EXCEPT ![p] = "started"] /\ tally' = [tally EXCEPT ![p] = u]
    BY <1>1 DEF Deliver, Takeover
  <2> QED  BY <1>0, <2>1
<1>2. ASSUME NEW p \in Process, StartJoin(p) \/ FinishJoin(p) PROVE TallyFits(u)'
  <2>1. /\ pc[p] \in {"started", "joining"} /\ tally' = tally
        /\ \E at \in {"joining", "joined"} : pc' = [pc EXCEPT ![p] = at]
    BY <1>2 DEF StartJoin, FinishJoin
  <2> QED  BY <1>0, <2>1
<1>3. ASSUME NEW p \in Process, ReadMemo(p) PROVE TallyFits(u)'
  <2>1. pc[p] \in {"started", "joined"}
    BY <1>3 DEF ReadMemo, Prepared
  <2>2. CASE memo = NoReply
    <3>1. pc' = [pc EXCEPT ![p] = "calling"] /\ tally' = tally
      BY <1>3, <2>2 DEF ReadMemo
    <3> QED  BY <1>0, <2>1, <3>1
  <2>3. CASE memo # NoReply
    <3>1. pc' = [pc EXCEPT ![p] = "ready"] /\ tally' = [tally EXCEPT ![p] = @ + HostCount]
      BY <1>3, <2>3 DEF ReadMemo
    <3> QED  BY <1>0, <2>1, <3>1
  <2> QED  BY <2>2, <2>3
<1>4. ASSUME NEW p \in Process, CallModel(p) PROVE TallyFits(u)'
  <2>1. /\ pc[p] = "calling" /\ pc' = [pc EXCEPT ![p] = "replied"]
        /\ tally' = [tally EXCEPT ![p] = @ + (1 - HostCount)]
    BY <1>4 DEF CallModel
  <2> QED  BY <1>0, <2>1
<1>5. ASSUME NEW p \in Process, WriteMemo(p) PROVE TallyFits(u)'
  <2>1. /\ pc[p] = "replied" /\ pc' = [pc EXCEPT ![p] = "ready"]
        /\ tally' = [tally EXCEPT ![p] = @ + HostCount]
    BY <1>5 DEF WriteMemo
  <2>2. tally[p] = u + (1 - HostCount)
    BY <2>1
  <2>3. tally'[p] = u + 1 /\ pc'[p] = "ready"
    BY <1>0, <2>1, <2>2
  <2>4. \A q \in Process : q # p => pc'[q] = pc[q] /\ tally'[q] = tally[q]
    BY <1>0, <2>1
  <2> QED  BY <1>0, <2>3, <2>4
<1>6. ASSUME NEW p \in Process, SubmitFetches(p) PROVE TallyFits(u)'
  <2>1. /\ pc[p] = "started" /\ phase = "Fetching" /\ tally' = tally
        /\ pc' = [pc EXCEPT ![p] = "submitted"]
    BY <1>6 DEF SubmitFetches
  <2> QED  BY <1>0, <2>1
<1>7. ASSUME NEW p \in Process, SubmitTurn(p) \/ PutReport(p) PROVE TallyFits(u)'
  <2>1. /\ pc[p] = "ready" /\ phase # "Fetching" /\ tally' = tally
        /\ \E at \in {"submitted", "written"} : pc' = [pc EXCEPT ![p] = at]
    BY <1>7 DEF SubmitTurn, PutReport, Investigates
  <2> QED  BY <1>0, <2>1
<1>8. ASSUME NEW p \in Process, pc' = [pc EXCEPT ![p] = "idle"], tally' = tally PROVE TallyFits(u)'
  BY <1>0, <1>8
<1>9. ASSUME NEW p \in Process,
             Rejected(p) \/ RejectPlan(p) \/ Interrupt(p) \/ PermanentFailure(p)
               \/ RejectFindings(p) \/ CancelStep(p) \/ RunWriting(p)
      PROVE  pc' = [pc EXCEPT ![p] = "idle"] /\ tally' = tally
  BY <1>9 DEF Rejected, RejectPlan, Interrupt, Release, PermanentFailure, RejectFindings,
     CancelStep,
     RunWriting, Terminate
<1>10. CASE RequestCancel \/ CancelUnclaimed \/ EndGroupWait \/ EndReplyWait \/ UNCHANGED vars
            \/ \E g \in Group, v \in Url : MemberEnd(g, v)
  <2>1. pc' = pc /\ tally' = tally
    BY <1>10 DEF RequestCancel, CancelUnclaimed, EndGroupWait, EndReplyWait, MemberEnd, vars, memory
  <2> QED  BY <1>0, <2>1
<1> QED
  BY <1>1, <1>2, <1>3, <1>4, <1>5, <1>6, <1>7, <1>8, <1>9, <1>10 DEF Next, Work, Disturb, Settling

\* A run that ended changes no more in the queue, and nothing settles.
LEMMA EndedStays ==
  ASSUME KnownInv, [Next]_vars, status \in Terminal
  PROVE  UNCHANGED <<status, claimant, usage>> /\ claimant = Nobody
         /\ ~ \E p \in Process : Settling(p)
<1>0. claimant = Nobody /\ status \notin {"pending", "waitGroup", "waitReply"}
  BY DEF KnownInv, ClaimInv, Terminal
<1>1. \A p \in Process : claimant # p
  BY <1>0, NobodyIsNone
<1>2. ~ \E p \in Process : Settling(p)
  BY <1>1, SettledState DEF KnownInv
<1> HIDE DEF Settling
<1> USE DEF payload, queue
<1>3. ASSUME NEW p \in Process, Work(p) PROVE UNCHANGED <<status, claimant, usage>>
  BY <1>1, <1>2, <1>3 DEF Work, Settling, StartJoin, FinishJoin, ReadMemo, CallModel, WriteMemo,
     RejectPlan,
     Release, SubmitFetches, SubmitTurn, RejectFindings, Terminate, PutReport, RunWriting, Rejected
<1>4. ASSUME NEW p \in Process, Deliver(p) \/ Disturb(p) PROVE UNCHANGED <<status, claimant, usage>>
  BY <1>0, <1>1, <1>4 DEF Deliver, Disturb, Takeover, Interrupt, Release, PermanentFailure,
     CancelStep, Terminate
<1>5. ASSUME NEW g \in Group, NEW v \in Url, MemberEnd(g, v)
      PROVE  UNCHANGED <<status, claimant, usage>>
  BY <1>5 DEF MemberEnd
<1>6. CASE RequestCancel
  BY <1>0, <1>2, <1>6 DEF RequestCancel
<1>7. CASE UNCHANGED vars
  BY <1>0, <1>2, <1>7 DEF vars
<1>8. CASE EndGroupWait \/ EndReplyWait \/ CancelUnclaimed
  BY <1>0, <1>8 DEF EndGroupWait, EndReplyWait, CancelUnclaimed
<1> QED  BY <1>0, <1>2, <1>3, <1>4, <1>5, <1>6, <1>7, <1>8 DEF Next

\* What a step that does not settle may do to the usage of the run.
LEMMA UsageMoves ==
  ASSUME KnownInv, [Next]_vars, ~ \E p \in Process : Settling(p)
  PROVE  \/ /\ usage' = usage /\ faults' \in {faults, faults + 1}
            /\ status' = status \/ (status \notin Terminal /\ status' # "succeeded")
         \/ \E p \in Process : RunWriting(p) \/ CancelStep(p)
<1> USE DEF payload, queue, ghosts
<1>1. CASE status \in Terminal
  <2>1. UNCHANGED <<status, claimant, usage>> /\ \A p \in Process : claimant # p
    BY <1>1, EndedStays, NobodyIsNone
  <2>2. faults' \in {faults, faults + 1}
    <3>1. ASSUME NEW p \in Process, Work(p) PROVE faults' = faults
      BY <2>1, <3>1 DEF Work, Settling, StartJoin, FinishJoin, ReadMemo, CallModel, WriteMemo,
         RejectPlan,
         Release, SubmitFetches, SubmitTurn, RejectFindings, Terminate, PutReport, RunWriting, Rejected
    <3>2. ASSUME NEW p \in Process, Deliver(p) \/ Disturb(p) PROVE faults' \in {faults, faults + 1}
      BY <3>2 DEF Deliver, Disturb, Takeover, Interrupt, PermanentFailure, CancelStep, Terminate
    <3>3. ASSUME NEW g \in Group, NEW v \in Url, MemberEnd(g, v) PROVE faults' = faults
      BY <3>3 DEF MemberEnd
    <3>4. CASE EndGroupWait \/ EndReplyWait \/ RequestCancel \/ CancelUnclaimed \/ UNCHANGED vars
      BY <3>4 DEF EndGroupWait, EndReplyWait, RequestCancel, CancelUnclaimed, vars
    <3> QED  BY <3>1, <3>2, <3>3, <3>4 DEF Next
  <2> QED  BY <2>1, <2>2
<1>2. CASE status \notin Terminal
  <2>1. ASSUME NEW p \in Process, Deliver(p) \/ Takeover(p)
        PROVE  usage' = usage /\ faults' \in {faults, faults + 1} /\ status' = status
    BY <2>1 DEF Deliver, Takeover
  <2>2. ASSUME NEW p \in Process,
               \/ StartJoin(p) \/ FinishJoin(p) \/ ReadMemo(p) \/ CallModel(p) \/ WriteMemo(p)
               \/ SubmitFetches(p) \/ SubmitTurn(p) \/ PutReport(p) \/ Rejected(p)
        PROVE  usage' = usage /\ faults' = faults /\ status' = status
    BY <2>2 DEF StartJoin, FinishJoin, ReadMemo, CallModel, WriteMemo, SubmitFetches, SubmitTurn,
       PutReport, Rejected
  <2>3. ASSUME NEW p \in Process, RejectPlan(p) \/ Interrupt(p)
        PROVE  usage' = usage /\ faults' \in {faults, faults + 1}
               /\ (status' = status \/ status' # "succeeded")
    BY <2>3 DEF RejectPlan, Interrupt, Release
  <2>4. ASSUME NEW p \in Process, PermanentFailure(p) \/ RejectFindings(p)
        PROVE  usage' = usage /\ faults' = faults /\ status' # "succeeded"
    BY <2>4 DEF PermanentFailure, RejectFindings, Terminate
  <2>5. CASE RequestCancel \/ UNCHANGED vars \/ \E g \in Group, v \in Url : MemberEnd(g, v)
    <3>1. usage' = usage /\ faults' = faults /\ status' = status
      BY <2>5 DEF RequestCancel, MemberEnd, vars
    <3> QED  BY <3>1
  <2>6. CASE CancelUnclaimed \/ EndGroupWait \/ EndReplyWait
    <3>1. usage' = usage /\ faults' = faults /\ status' # "succeeded"
      BY <2>6 DEF CancelUnclaimed, EndGroupWait, EndReplyWait
    <3> QED  BY <1>2, <3>1
  <2> QED
    BY <1>2, <2>1, <2>2, <2>3, <2>4, <2>5, <2>6 DEF Next, Work, Disturb, Settling
<1> QED  BY <1>1, <1>2

-----------------------------------------------------------------------------
(* The calls that the usage of the run misses. *)

\* The calls of the settled steps that the usage of the run has not.
Missed == SettledCalls - usage

\* A plan that every delivery rejects.
Rejects == phase = "Planning" /\ Questions(memo) = 0

\* Nothing interrupted the pending step or took it over: a delivery that has a reply made
\* the call, and nobody left one in the memo that would not be counted.
Quiet ==
  /\ \A p \in Process : ~Fenced(p)
  /\ \A p \in Process : HasReply(p) => reply[p] = memo /\ (Rejects \/ tally[p] = usage + 1)
  /\ memo # NoReply /\ phase # "Investigating" => Rejects \/ \E p \in Process : HasReply(p)

\* The run missed no more calls than it had faults, and the fault of a pending step that
\* is not quiet has not been charged yet.
DriftInv ==
  /\ Missed \in (IF status = "cancelled" THEN -1 ELSE 0) .. faults
  /\ status \notin Terminal => TallyFits(usage) /\ (Quiet \/ Missed < faults)

LEMMA QuietStep ==
  ASSUME KnownInv, KnownInv', [Next]_vars, ~ \E p \in Process : Settling(p),
         status' \notin Terminal, usage' = usage, faults' \notin {faults + 1},
         TallyFits(usage), Quiet
  PROVE  Quiet'
<1> USE NobodyIsNone DEF Quiet, Fenced, HasReply, Early, Late
<1>0. /\ pc \in [Process -> Places] /\ reply \in [Process -> Reply] /\ tally \in [Process -> Nat]
      /\ claimant \in Process \cup {Nobody} /\ faults \in Nat /\ usage \in Nat
      /\ HostCount \in {0, 1} /\ (HostCount = 1 <=> phase = "Investigating")
      /\ phase' = phase
  BY OtherSteps, HostCounts DEF KnownInv, TypeOK, MemoryTypes, QueueTypes, GhostTypes, PayloadTypes
<1>1. memo' = memo => Rejects' = Rejects
  BY <1>0 DEF Rejects, Questions
<1>2. \A p, q \in Process : pc[p] # "idle" /\ pc[q] # "idle" => p = q
  OBVIOUS
<1>3. ASSUME NEW p \in Process, Deliver(p) PROVE Quiet'
  <2>1. /\ pc' = [pc EXCEPT ![p] = "started"] /\ pc[p] = "idle" /\ claimant = Nobody /\ claimant' = p
        /\ tally' = [tally EXCEPT ![p] = usage] /\ reply' = [reply EXCEPT ![p] = NoReply]
        /\ memo' = memo
    BY <1>3 DEF Deliver, store
  <2> QED  BY <1>0, <1>1, <2>1
<1>4. ASSUME NEW p \in Process, Takeover(p) \/ Interrupt(p) PROVE FALSE
  BY <1>4 DEF Takeover, Interrupt
<1>5. ASSUME NEW p \in Process, Rejected(p) PROVE FALSE
  BY <1>5 DEF Rejected
<1>6. ASSUME NEW p \in Process, StartJoin(p) \/ FinishJoin(p) PROVE Quiet'
  <2>1. /\ pc[p] \in {"started", "joining"} /\ tally' = tally /\ reply' = reply
        /\ memo' = memo /\ claimant' = claimant
        /\ \E at \in {"joining", "joined"} : pc' = [pc EXCEPT ![p] = at]
    BY <1>6 DEF StartJoin, FinishJoin, queue, store
  <2> QED  BY <1>0, <1>1, <2>1
<1>7. ASSUME NEW p \in Process, ReadMemo(p) PROVE Quiet'
  <2>1. pc[p] \in {"started", "joined"} /\ memo' = memo /\ claimant' = claimant
    BY <1>7 DEF ReadMemo, Prepared, queue, store
  <2>2. CASE memo = NoReply
    <3>1. pc' = [pc EXCEPT ![p] = "calling"] /\ tally' = tally /\ reply' = reply
      BY <1>7, <2>2 DEF ReadMemo
    <3> QED  BY <1>0, <1>1, <2>1, <2>2, <3>1
  <2>3. CASE memo # NoReply
    <3>1. /\ pc' = [pc EXCEPT ![p] = "ready"] /\ tally' = [tally EXCEPT ![p] = @ + HostCount]
          /\ reply' = [reply EXCEPT ![p] = memo]
      BY <1>7, <2>3 DEF ReadMemo
    <3>2. phase = "Investigating" \/ Rejects
      <4>1. \A q \in Process : ~HasReply(q)
        BY <1>2, <2>1
      <4> QED  BY <2>3, <4>1
    <3>3. tally[p] = usage
      BY <2>1 DEF TallyFits
    <3>4. Rejects \/ tally'[p] = usage' + 1
      BY <1>0, <3>1, <3>2, <3>3
    <3>5. Rejects => phase # "Fetching"
      BY DEF Rejects
    <3> QED  BY <1>0, <1>1, <1>2, <2>1, <2>3, <3>1, <3>2, <3>4, <3>5
  <2> QED  BY <2>2, <2>3
<1>8. ASSUME NEW p \in Process, CallModel(p) PROVE Quiet'
  <2>1. /\ pc[p] = "calling" /\ pc' = [pc EXCEPT ![p] = "replied"] /\ memo' = memo
        /\ claimant' = claimant /\ \E r : reply' = [reply EXCEPT ![p] = r]
        /\ \E k : tally' = [tally EXCEPT ![p] = k]
    BY <1>8 DEF CallModel, queue, store
  <2> QED  BY <1>0, <1>1, <2>1
<1>9. ASSUME NEW p \in Process, WriteMemo(p) PROVE Quiet'
  <2>1. /\ pc[p] = "replied" /\ pc' = [pc EXCEPT ![p] = "ready"] /\ memo' = reply[p]
        /\ tally' = [tally EXCEPT ![p] = @ + HostCount] /\ reply' = reply /\ claimant' = claimant
    BY <1>9 DEF WriteMemo, queue
  <2>2. tally[p] = usage + (1 - HostCount)
    BY <2>1 DEF TallyFits
  <2>3. tally'[p] = usage' + 1
    BY <1>0, <2>1, <2>2
  <2>4. phase # "Fetching"
    BY <2>1 DEF KnownInv, StepFits, NeedsModel
  <2>5. \A q \in Process : q # p => pc'[q] = "idle"
    BY <1>0, <1>2, <2>1
  <2>6. pc'[p] = "ready" /\ reply'[p] = memo'
    BY <1>0, <2>1
  <2> QED  BY <1>0, <2>1, <2>3, <2>4, <2>5, <2>6
<1>10. ASSUME NEW p \in Process, SubmitFetches(p) PROVE Quiet'
  <2>1. /\ pc[p] = "started" /\ phase = "Fetching" /\ tally' = tally /\ reply' = reply
        /\ memo' = memo /\ claimant' = claimant /\ pc' = [pc EXCEPT ![p] = "submitted"]
    BY <1>10 DEF SubmitFetches, queue, store
  <2> QED  BY <1>0, <1>1, <2>1
<1>11. ASSUME NEW p \in Process, SubmitTurn(p) \/ PutReport(p) PROVE Quiet'
  <2>1. /\ pc[p] = "ready" /\ phase # "Fetching" /\ tally' = tally /\ reply' = reply
        /\ memo' = memo /\ claimant' = claimant
        /\ \E at \in {"submitted", "written"} : pc' = [pc EXCEPT ![p] = at]
    BY <1>11 DEF SubmitTurn, PutReport, Investigates, queue, store
  <2> QED  BY <1>0, <1>1, <2>1
<1>12. ASSUME NEW p \in Process, RejectPlan(p) PROVE Quiet'
  <2>1. /\ pc[p] = "ready" /\ phase = "Planning" /\ Questions(reply[p]) = 0 /\ memo' = memo
        /\ pc' = [pc EXCEPT ![p] = "idle"] /\ tally' = tally /\ reply' = reply
        /\ claimant = p /\ claimant' = Nobody
    BY <1>12 DEF RejectPlan, Release, store
  <2>2. Rejects
    BY <2>1 DEF Rejects, Questions
  <2> QED  BY <1>0, <1>1, <1>2, <2>1, <2>2
<1>13. ASSUME NEW p \in Process,
              PermanentFailure(p) \/ RejectFindings(p) \/ CancelStep(p) \/ RunWriting(p)
       PROVE  FALSE
  BY <1>13 DEF PermanentFailure, RejectFindings, CancelStep, RunWriting, Terminate, Terminal
<1>14. CASE RequestCancel \/ EndGroupWait \/ EndReplyWait \/ UNCHANGED vars
            \/ \E g \in Group, v \in Url : MemberEnd(g, v)
  <2>1. UNCHANGED <<pc, tally, reply, memo, claimant>>
    BY <1>14 DEF RequestCancel, EndGroupWait, EndReplyWait, MemberEnd, vars, memory, store, queue
  <2> QED  BY <1>0, <1>1, <2>1
<1>15. ~CancelUnclaimed
  BY DEF CancelUnclaimed, Terminal
<1> QED
  BY <1>3, <1>4, <1>5, <1>6, <1>7, <1>8, <1>9, <1>10, <1>11, <1>12, <1>13, <1>14, <1>15
  DEF Next, Work, Disturb, Settling

\* A settlement with a reply misses its call only in a step that is not quiet.
LEMMA DriftSettles ==
  ASSUME KnownInv, DriftInv, NEW p \in Process, Settling(p)
  PROVE  DriftInv'
<1>0. /\ SettledCalls \in Nat /\ usage \in Nat /\ faults \in Nat
      /\ tally \in [Process -> Nat] /\ status = "pending"
  BY GatheredAreCounted, SettledState, NobodyIsNone
  DEF KnownInv, ClaimInv, TypeOK, MemoryTypes, PayloadTypes, GhostTypes
<1>1. /\ pc' = [q \in Process |-> "idle"] /\ memo' = NoReply /\ usage' = tally[p] /\ faults' = faults
      /\ claimant = p
  BY SettledState DEF KnownInv
<1>2. TallyFits(usage) /\ (Quiet \/ Missed < faults) /\ Missed \in 0 .. faults
  BY <1>0 DEF DriftInv, Terminal
<1>3. SettledCalls' - tally[p] \in 0 .. faults
  <2>1. CASE NeedsModel
    <3>1. SettledCalls' = SettledCalls + 1
      BY <2>1, SettlementCounts
    <3>2. HasReply(p) /\ (phase = "Planning" => Questions(reply[p]) > 0)
      BY <2>1, SettlesWithReply DEF KnownInv
    <3>3. tally[p] \in usage .. (usage + 1)
      BY <1>2, <3>2 DEF TallyFits
    <3>4. Quiet => tally[p] = usage + 1
      <4>1. Quiet => reply[p] = memo /\ (Rejects \/ tally[p] = usage + 1)
        BY <3>2 DEF Quiet
      <4>2. reply[p] = memo => ~Rejects
        BY <3>2 DEF Rejects, Questions
      <4> QED  BY <4>1, <4>2
    <3> QED  BY <1>0, <1>2, <3>1, <3>3, <3>4 DEF Missed
  <2>2. CASE ~NeedsModel
    <3>1. SettledCalls' = SettledCalls
      BY <1>0, <2>2, SettlementCounts
    <3>2. tally[p] = usage
      BY <1>2, <2>2, SettlesWithReply DEF TallyFits, KnownInv
    <3> QED  BY <1>2, <3>1, <3>2 DEF Missed
  <2> QED  BY <2>1, <2>2
<1>4. Missed' \in 0 .. faults'
  BY <1>1, <1>3 DEF Missed
<1>5. TallyFits(usage)' /\ Quiet'
  BY <1>1 DEF TallyFits, Quiet, HasReply, Early, Late, Fenced
<1> QED  BY <1>0, <1>1, <1>4, <1>5 DEF DriftInv

LEMMA DriftStep ==
  ASSUME KnownInv, KnownInv', DriftInv, [Next]_vars
  PROVE  DriftInv'
<1>0. /\ SettledCalls \in Nat /\ usage \in Nat /\ faults \in Nat /\ tally \in [Process -> Nat]
  BY GatheredAreCounted DEF KnownInv, TypeOK, MemoryTypes, PayloadTypes, GhostTypes
<1>1. CASE \E p \in Process : Settling(p)
  BY <1>1, DriftSettles
<1>2. CASE ~ \E p \in Process : Settling(p)
  <2>1. SettledCalls' = SettledCalls + (IF status' = "succeeded" /\ status # "succeeded" THEN 1 ELSE 0)
                        - (IF status' # "succeeded" /\ status = "succeeded" THEN 1 ELSE 0)
    BY <1>2, OthersCount DEF KnownInv
  <2>2. ASSUME usage' = usage, faults' \in {faults, faults + 1},
               status' = status \/ (status \notin Terminal /\ status' # "succeeded")
        PROVE  DriftInv'
    <3>1. Missed' = Missed /\ Missed \in (IF status = "cancelled" THEN -1 ELSE 0) .. faults
      <4>1. SettledCalls' = SettledCalls
        BY <1>0, <2>1, <2>2 DEF Terminal
      <4> QED  BY <2>2, <4>1 DEF Missed, DriftInv
    <3>2. status = "cancelled" => status' = "cancelled"
      BY <2>2 DEF Terminal
    <3>3. Missed' \in (IF status' = "cancelled" THEN -1 ELSE 0) .. faults'
      BY <1>0, <2>2, <3>1, <3>2
    <3>4. ASSUME status' \notin Terminal PROVE TallyFits(usage)' /\ (Quiet' \/ Missed' < faults')
      <4>1. status \notin Terminal /\ TallyFits(usage) /\ (Quiet \/ Missed < faults)
        BY <2>2, <3>4 DEF DriftInv
      <4>2. TallyFits(usage)'
        <5>1. \A u \in Int : u = usage => TallyFits(u)'
          BY <1>2, <4>1, TallyFitsStep
        <5> QED  BY <1>0, <2>2, <5>1
      <4>3. CASE faults' = faults + 1
        BY <1>0, <3>1, <4>2, <4>3
      <4>4. CASE faults' # faults + 1 /\ Quiet
        BY <1>2, <2>2, <3>4, <4>1, <4>2, <4>4, QuietStep
      <4>5. CASE faults' = faults /\ Missed < faults
        BY <3>1, <4>2, <4>5
      <4> QED  BY <2>2, <4>1, <4>3, <4>4, <4>5
    <3> QED  BY <3>3, <3>4 DEF DriftInv
  <2>3. ASSUME NEW p \in Process, RunWriting(p) \/ CancelStep(p) PROVE DriftInv'
    <3>1. /\ pc[p] # "idle" /\ claimant = p /\ usage' = tally[p] /\ faults' = faults
          /\ RunWriting(p) => pc[p] = "written" /\ phase = "Writing" /\ status' = "succeeded"
          /\ CancelStep(p) => status' = "cancelled"
      BY <2>3 DEF RunWriting, CancelStep, Terminate
    <3>2. status = "pending"
      BY <3>1, NobodyIsNone DEF KnownInv, ClaimInv
    <3>3. TallyFits(usage) /\ (Quiet \/ Missed < faults) /\ Missed \in 0 .. faults
      BY <3>2 DEF DriftInv, Terminal
    <3>4. CASE RunWriting(p)
      <4>1. HasReply(p) /\ ~Rejects
        BY <3>1, <3>4 DEF HasReply, Late, Rejects
      <4>2. tally[p] \in usage .. (usage + 1) /\ (Quiet => tally[p] = usage + 1)
        BY <3>3, <4>1 DEF TallyFits, Quiet
      <4>3. SettledCalls' = SettledCalls + 1
        BY <1>0, <2>1, <3>1, <3>2, <3>4
      <4>4. Missed' \in 0 .. faults'
        BY <1>0, <3>1, <3>3, <4>2, <4>3 DEF Missed
      <4> QED  BY <3>1, <3>4, <4>4 DEF DriftInv, Terminal
    <3>5. CASE CancelStep(p)
      <4>1. tally[p] \in usage .. (usage + 1)
        <5>1. pc[p] \in Early \cup Late \cup {"replied"}
          <6>1. pc[p] \in Places
            BY DEF KnownInv, TypeOK, MemoryTypes
          <6> QED  BY <3>1, <6>1 DEF Places, Early, Late
        <5>2. pc[p] \in Late /\ phase = "Fetching" => pc[p] = "submitted"
          BY DEF KnownInv, StepFits, NeedsModel, Late
        <5> QED  BY <1>0, <3>3, <5>1, <5>2, HostCounts DEF TallyFits, HasReply
      <4>2. SettledCalls' = SettledCalls
        BY <1>0, <2>1, <3>1, <3>2, <3>5
      <4>3. Missed' \in -1 .. faults'
        BY <1>0, <3>1, <3>3, <4>1, <4>2 DEF Missed
      <4> QED  BY <3>1, <3>5, <4>3 DEF DriftInv, Terminal
    <3> QED  BY <2>3, <3>4, <3>5
  <2> QED  BY <1>2, <2>2, <2>3, UsageMoves
<1> QED  BY <1>1, <1>2

-----------------------------------------------------------------------------
(* The usage in the header of the report. *)

\* A header has the usage of a delivery of the writing step; after the settlement of the
\* step, those that were fenced counted on from what the run had before it.
BlobInv ==
  /\ status \notin Terminal =>
       \A p \in Process : pc[p] = "written" => blob.usage \in usage .. (usage + 1)
  /\ status = "succeeded" =>
       \E u \in {usage, usage - 1} : TallyFits(u) /\ blob.usage \in u .. (u + 1)

\* Without a takeover the process that executes the step has it.
SoleInv ==
  takeovers = 0 =>
    /\ \A p \in Process : ~Fenced(p) /\ (pc[p] = "written" => blob.usage = tally[p])
    /\ status = "succeeded" => blob.usage = usage

LEMMA BlobMoves ==
  ASSUME KnownInv, [Next]_vars
  PROVE  \/ blob' = blob /\ \A p \in Process : pc'[p] = "written" => pc[p] = "written"
         \/ \E p \in Process : PutReport(p)
<1>0. pc \in [Process -> Places]
  BY DEF KnownInv, TypeOK, MemoryTypes
<1> USE DEF store
<1>1. ASSUME NEW p \in Process, Settling(p) PROVE blob' = blob /\ \A q \in Process : pc'[q] = "idle"
  BY <1>1, SettledState DEF KnownInv
<1>2. ASSUME NEW p \in Process, blob' = blob,
             \E at : at # "written" /\ pc' = [pc EXCEPT ![p] = at]
      PROVE  blob' = blob /\ \A q \in Process : pc'[q] = "written" => pc[q] = "written"
  BY <1>0, <1>2
<1>3. ASSUME NEW p \in Process, Deliver(p) \/ Takeover(p) \/ Interrupt(p) \/ RejectPlan(p)
      PROVE  blob' = blob /\ \E at : at # "written" /\ pc' = [pc EXCEPT ![p] = at]
  BY <1>3 DEF Deliver, Takeover, Interrupt, RejectPlan, Release
<1>4. ASSUME NEW p \in Process, \/ PermanentFailure(p) \/ RejectFindings(p) \/ CancelStep(p)
                                \/ RunWriting(p) \/ Rejected(p)
      PROVE  blob' = blob /\ \E at : at # "written" /\ pc' = [pc EXCEPT ![p] = at]
  BY <1>4 DEF PermanentFailure, RejectFindings, CancelStep, RunWriting, Terminate, Rejected
<1>5. ASSUME NEW p \in Process, StartJoin(p) \/ FinishJoin(p) \/ ReadMemo(p) \/ CallModel(p)
      PROVE  blob' = blob /\ \E at : at # "written" /\ pc' = [pc EXCEPT ![p] = at]
  BY <1>5 DEF StartJoin, FinishJoin, ReadMemo, CallModel
<1>6. ASSUME NEW p \in Process, WriteMemo(p) \/ SubmitFetches(p) \/ SubmitTurn(p)
      PROVE  blob' = blob /\ \E at : at # "written" /\ pc' = [pc EXCEPT ![p] = at]
  BY <1>6 DEF WriteMemo, SubmitFetches, SubmitTurn
<1>7. CASE RequestCancel \/ CancelUnclaimed \/ EndGroupWait \/ EndReplyWait \/ UNCHANGED vars
           \/ \E g \in Group, v \in Url : MemberEnd(g, v)
  BY <1>7 DEF RequestCancel, CancelUnclaimed, EndGroupWait, EndReplyWait, MemberEnd, vars, memory
<1> QED
  BY <1>1, <1>2, <1>3, <1>4, <1>5, <1>6, <1>7 DEF Next, Work, Disturb, Settling

LEMMA BlobStep ==
  ASSUME KnownInv, KnownInv', DriftInv, DriftInv', BlobInv, [Next]_vars
  PROVE  BlobInv'
<1>0. /\ usage \in Nat /\ tally \in [Process -> Nat] /\ pc \in [Process -> Places]
      /\ blob \in Blob /\ blob' \in Blob
  BY DEF KnownInv, TypeOK, MemoryTypes, PayloadTypes, StoreTypes
<1>1. ASSUME NEW p \in Process, Settling(p) PROVE BlobInv'
  <2>1. status' # "succeeded" /\ \A q \in Process : pc'[q] = "idle"
    BY <1>1, SettledState DEF KnownInv
  <2> QED  BY <2>1 DEF BlobInv
<1>2. CASE ~ \E p \in Process : Settling(p)
  <2>0. phase' = phase
    BY <1>2, OtherSteps
  <2>1. ASSUME NEW p \in Process, PutReport(p), NEW u \in Int, TallyFits(u)
        PROVE  blob'.usage \in u .. (u + 1)
    <3>1. HasReply(p) /\ blob'.usage = tally[p]
      BY <2>1 DEF PutReport, HasReply, Late
    <3> QED  BY <2>1, <3>1 DEF TallyFits
  <2>2. ASSUME status' \notin Terminal, NEW q \in Process, pc'[q] = "written"
        PROVE  blob'.usage \in usage' .. (usage' + 1)
    <3>1. usage' = usage /\ status \notin Terminal
      <4>1. ~ \E p \in Process : RunWriting(p) \/ CancelStep(p)
        BY <2>2 DEF RunWriting, CancelStep, Terminate, Terminal
      <4> QED  BY <1>2, <2>2, <4>1, UsageMoves
    <3>2. CASE \E p \in Process : PutReport(p)
      <4>1. TallyFits(usage)
        BY <3>1 DEF DriftInv
      <4> QED  BY <1>0, <2>1, <3>1, <3>2, <4>1
    <3>3. CASE ~ \E p \in Process : PutReport(p)
      BY <2>2, <3>1, <3>3, BlobMoves DEF BlobInv
    <3> QED  BY <3>2, <3>3
  <2>3. ASSUME status' = "succeeded"
        PROVE  \E u \in {usage', usage' - 1} : TallyFits(u)' /\ blob'.usage \in u .. (u + 1)
    <3>1. CASE \E p \in Process : RunWriting(p)
      <4>1. PICK p \in Process : RunWriting(p)
        BY <3>1
      <4>2. /\ pc[p] = "written" /\ phase = "Writing" /\ usage' = tally[p] /\ claimant = p
            /\ blob' = blob
        BY <4>1 DEF RunWriting, Terminate, store
      <4>3. status = "pending"
        BY <4>2, NobodyIsNone DEF KnownInv, ClaimInv
      <4>4. TallyFits(usage) /\ blob.usage \in usage .. (usage + 1)
        BY <4>2, <4>3 DEF DriftInv, BlobInv, Terminal
      <4>5. tally[p] \in usage .. (usage + 1)
        BY <4>2, <4>4 DEF TallyFits, HasReply, Late
      <4>6. \A u \in Int : u = usage => TallyFits(u)'
        BY <1>2, <4>4, TallyFitsStep
      <4>7. PICK u \in Int : u = usage /\ TallyFits(u)'
        BY <1>0, <4>6
      <4> QED  BY <1>0, <4>2, <4>4, <4>5, <4>7
    <3>2. CASE ~ \E p \in Process : RunWriting(p)
      <4>1. usage' = usage /\ status = "succeeded"
        <5>1. ~ \E p \in Process : CancelStep(p)
          BY <2>3 DEF CancelStep, Terminate
        <5> QED  BY <1>2, <2>3, <3>2, <5>1, UsageMoves
      <4>2. PICK u \in {usage, usage - 1} : TallyFits(u) /\ blob.usage \in u .. (u + 1)
        BY <4>1 DEF BlobInv
      <4>3. u \in Int
        BY <1>0
      <4>4. TallyFits(u)'
        BY <1>2, <4>1, <4>2, <4>3, TallyFitsStep
      <4>5. blob'.usage \in u .. (u + 1)
        BY <2>1, <4>2, <4>3, BlobMoves
      <4> QED  BY <4>1, <4>2, <4>4, <4>5
    <3> QED  BY <3>1, <3>2
  <2> QED  BY <2>2, <2>3 DEF BlobInv
<1> QED  BY <1>1, <1>2

LEMMA SoleStep ==
  ASSUME KnownInv, SoleInv, [Next]_vars
  PROVE  SoleInv'
<1> USE NobodyIsNone DEF SoleInv, Fenced
<1> SUFFICES ASSUME takeovers' = 0 PROVE SoleInv'
  OBVIOUS
<1>0. /\ pc \in [Process -> Places] /\ claimant \in Process \cup {Nobody}
      /\ tally \in [Process -> Nat] /\ takeovers \in Nat
  BY DEF KnownInv, TypeOK, MemoryTypes, QueueTypes, GhostTypes
<1>1. ASSUME NEW p \in Process, Settling(p) PROVE SoleInv'
  BY <1>1, SettledState DEF KnownInv
<1>2. ASSUME NEW p \in Process, Deliver(p) PROVE SoleInv'
  BY <1>0, <1>2 DEF Deliver, ghosts, payload, store
<1>3. ASSUME NEW p \in Process, Takeover(p) PROVE FALSE
  BY <1>0, <1>3 DEF Takeover
<1>4. ASSUME NEW p \in Process, Rejected(p) PROVE SoleInv'
  BY <1>0, <1>4 DEF Rejected, ghosts
<1>5. ASSUME NEW p \in Process, StartJoin(p) \/ FinishJoin(p) \/ SubmitFetches(p) \/ SubmitTurn(p)
      PROVE  SoleInv'
  BY <1>0, <1>5 DEF StartJoin, FinishJoin, SubmitFetches, SubmitTurn, ghosts, payload, queue, store
<1>6. ASSUME NEW p \in Process, ReadMemo(p) \/ CallModel(p) \/ WriteMemo(p) PROVE SoleInv'
  BY <1>0, <1>6 DEF ReadMemo, Prepared, CallModel, WriteMemo, ghosts, payload, queue, store
<1>7. ASSUME NEW p \in Process, PutReport(p) PROVE SoleInv'
  <2>1. /\ pc' = [pc EXCEPT ![p] = "written"] /\ blob'.usage = tally[p] /\ tally' = tally
        /\ UNCHANGED <<claimant, status, takeovers>> /\ pc[p] # "idle"
    BY <1>7 DEF PutReport, queue, ghosts
  <2>2. claimant = p /\ status = "pending"
    BY <1>0, <2>1 DEF KnownInv, ClaimInv
  <2> QED  BY <1>0, <2>1, <2>2
<1>8. ASSUME NEW p \in Process, RejectPlan(p) \/ Interrupt(p) PROVE SoleInv'
  BY <1>0, <1>8 DEF RejectPlan, Interrupt, Release, payload, store, KnownInv, ClaimInv
<1>9. ASSUME NEW p \in Process, PermanentFailure(p) \/ RejectFindings(p) \/ CancelStep(p)
      PROVE  SoleInv'
  BY <1>0, <1>9 DEF PermanentFailure, RejectFindings, CancelStep, Terminate, store
<1>10. ASSUME NEW p \in Process, RunWriting(p) PROVE SoleInv'
  BY <1>0, <1>10 DEF RunWriting, Terminate, store
<1>11. CASE RequestCancel \/ CancelUnclaimed \/ EndGroupWait \/ EndReplyWait \/ UNCHANGED vars
            \/ \E g \in Group, v \in Url : MemberEnd(g, v)
  BY <1>11 DEF RequestCancel, CancelUnclaimed, EndGroupWait, EndReplyWait, MemberEnd, vars,
     payload, queue, store, memory, ghosts
<1> QED
  BY <1>1, <1>2, <1>3, <1>4, <1>5, <1>6, <1>7, <1>8, <1>9, <1>10, <1>11
  DEF Next, Work, Disturb, Settling

-----------------------------------------------------------------------------
(* The replies that the model gave. *)

Replied == {p \in Process : pc[p] = "replied"}

\* The fenced deliveries that may still make a call or have a reply that nobody needs.
Spare == {p \in Process : Fenced(p) /\ pc[p] \in Early \cup {"replied"}}

\* A fenced delivery left its reply in the memo behind the back of the one that has the
\* step, which has called the model too.
Behind == memo # NoReply /\ \E p \in Process : claimant = p /\ pc[p] \in {"calling", "replied"}

One(b) == IF b THEN 1 ELSE 0

\* Each takeover costs one reply at most: it was wasted, a fenced delivery will waste it,
\* or the delivery that has the step will.
WasteInv ==
  /\ Wasted \in Nat
  /\ Wasted + Cardinality(Spare) + One(Behind) <= takeovers

\* What one process adds to or takes from a set of processes.
LEMMA OneMore ==
  ASSUME NEW S \in SUBSET Process, NEW T \in SUBSET Process, NEW p, S \ {p} = T \ {p}
  PROVE  /\ Cardinality(S) \in Nat /\ Cardinality(T) \in Nat
         /\ Cardinality(T) = Cardinality(S) + One(p \in T) - One(p \in S)
<1>1. IsFiniteSet(S) /\ IsFiniteSet(T)
  BY FS_Subset, ConstantsAssumption
<1>2. Cardinality(S) \in Nat /\ Cardinality(T) \in Nat
  BY <1>1, FS_CardinalityType
<1>3. Cardinality(S \ {p}) = Cardinality(S) - One(p \in S)
  BY <1>1, <1>2, FS_RemoveElement DEF One
<1>4. Cardinality(T \ {p}) = Cardinality(T) - One(p \in T)
  BY <1>1, <1>2, FS_RemoveElement DEF One
<1> QED  BY <1>2, <1>3, <1>4 DEF One

\* A step of one delivery moves that process only.
LEMMA Counts ==
  ASSUME NEW p \in Process,
         \A q \in Process : q # p => pc'[q] = pc[q] /\ (claimant' = q <=> claimant = q)
  PROVE  /\ Cardinality(Replied) \in Nat /\ Cardinality(Spare) \in Nat
         /\ Cardinality(Replied') \in Nat /\ Cardinality(Spare') \in Nat
         /\ Cardinality(Replied') = Cardinality(Replied) + One(pc'[p] = "replied") - One(pc[p] = "replied")
         /\ Cardinality(Spare') = Cardinality(Spare) + One(p \in Spare') - One(p \in Spare)
<1>1. Replied \ {p} = Replied' \ {p} /\ Replied \in SUBSET Process /\ Replied' \in SUBSET Process
  BY DEF Replied
<1>2. Spare \ {p} = Spare' \ {p} /\ Spare \in SUBSET Process /\ Spare' \in SUBSET Process
  BY DEF Spare, Fenced
<1>3. (p \in Replied <=> pc[p] = "replied") /\ (p \in Replied' <=> pc'[p] = "replied")
  BY DEF Replied
<1>4. Cardinality(Replied') = Cardinality(Replied) + One(p \in Replied') - One(p \in Replied)
  BY <1>1, OneMore
<1>5. One(p \in Replied') = One(pc'[p] = "replied") /\ One(p \in Replied) = One(pc[p] = "replied")
  BY <1>3 DEF One
<1> QED  BY <1>1, <1>2, <1>4, <1>5, OneMore

\* The end of a delivery wastes its reply if the delivery was fenced, and nothing otherwise.
LEMMA WasteLeaves ==
  ASSUME KnownInv, WasteInv, NEW p \in Process, pc[p] # "idle", pc' = [pc EXCEPT ![p] = "idle"],
         claimant' = (IF claimant = p THEN Nobody ELSE claimant),
         UNCHANGED <<paid, memo, takeovers>>,
         dropped' = dropped + One(claimant = p /\ pc[p] = "replied"),
         SettledCalls' = SettledCalls + One(status' = "succeeded" /\ status # "succeeded"),
         status = "succeeded" => status' = "succeeded",
         status' = "succeeded" => memo # NoReply
  PROVE  WasteInv'
<1>0. /\ pc \in [Process -> Places] /\ claimant \in Process \cup {Nobody} /\ p # Nobody
      /\ paid \in Nat /\ dropped \in Nat /\ takeovers \in Nat /\ SettledCalls \in Nat
  BY GatheredAreCounted, NobodyIsNone DEF KnownInv, TypeOK, MemoryTypes, QueueTypes, GhostTypes
<1>1. \A q \in Process : q # p => pc'[q] = pc[q] /\ (claimant' = q <=> claimant = q)
  BY <1>0, NobodyIsNone
<1>2. p \notin Spare' /\ (claimant # p /\ pc[p] = "replied" => p \in Spare)
  BY <1>0 DEF Spare, Fenced
<1>3. Behind' => Behind
  BY <1>0, <1>1 DEF Behind
<1>4. /\ Cardinality(Replied) \in Nat /\ Cardinality(Spare) \in Nat
      /\ Cardinality(Replied') \in Nat /\ Cardinality(Spare') \in Nat
      /\ Cardinality(Replied') = Cardinality(Replied) + One(pc'[p] = "replied") - One(pc[p] = "replied")
      /\ Cardinality(Spare') = Cardinality(Spare) + One(p \in Spare') - One(p \in Spare)
  BY <1>1, Counts
<1>5. pc'[p] = "idle"
  BY <1>0
<1>6. Wasted' = Wasted + One(claimant # p /\ pc[p] = "replied")
  <2>1. /\ Wasted' = paid' - (SettledCalls' + dropped' + One(memo' # NoReply /\ status' # "succeeded")
                              + Cardinality(Replied'))
        /\ Wasted = paid - (SettledCalls + dropped + One(memo # NoReply /\ status # "succeeded")
                            + Cardinality(Replied))
    BY DEF Wasted, Replied, One
  <2>2. SettledCalls' + One(memo' # NoReply /\ status' # "succeeded")
        = SettledCalls + One(memo # NoReply /\ status # "succeeded")
    BY <1>0 DEF One
  <2>3. dropped' + Cardinality(Replied') + One(claimant # p /\ pc[p] = "replied")
        = dropped + Cardinality(Replied)
    BY <1>0, <1>4, <1>5 DEF One
  <2>4. /\ SettledCalls' \in Nat /\ dropped' \in Nat /\ Cardinality(Replied') \in Nat
        /\ One(memo' # NoReply /\ status' # "succeeded") \in Nat
        /\ One(memo # NoReply /\ status # "succeeded") \in Nat
        /\ One(claimant # p /\ pc[p] = "replied") \in Nat
    BY <1>0, <1>4, <1>5 DEF One
  <2> QED  BY <1>0, <1>4, <2>1, <2>2, <2>3, <2>4
<1> QED  BY <1>0, <1>2, <1>3, <1>4, <1>6 DEF WasteInv, One

\* A step of a delivery that goes on keeps the balance of what it adds and what it uses up.
LEMMA WasteGoesOn ==
  ASSUME KnownInv, WasteInv, NEW p \in Process, NEW made \in Nat,
         \A q \in Process : q # p => pc'[q] = pc[q],
         UNCHANGED <<status, claimant, dropped, takeovers>>,
         SettledCalls' = SettledCalls, paid' = paid + made,
         made + One(pc[p] = "replied") + One(memo # NoReply /\ status # "succeeded")
           >= One(pc'[p] = "replied") + One(memo' # NoReply /\ status # "succeeded"),
         made + One(pc[p] = "replied") + One(memo # NoReply /\ status # "succeeded")
           + One(p \in Spare') + One(Behind')
           <= One(pc'[p] = "replied") + One(memo' # NoReply /\ status # "succeeded")
              + One(p \in Spare) + One(Behind)
  PROVE  WasteInv'
<1>0. /\ paid \in Nat /\ dropped \in Nat /\ takeovers \in Nat /\ SettledCalls \in Nat
  BY GatheredAreCounted DEF KnownInv, TypeOK, GhostTypes
<1>1. \A q \in Process : q # p => pc'[q] = pc[q] /\ (claimant' = q <=> claimant = q)
  OBVIOUS
<1>2. /\ Cardinality(Replied) \in Nat /\ Cardinality(Spare) \in Nat
      /\ Cardinality(Replied') \in Nat /\ Cardinality(Spare') \in Nat
      /\ Cardinality(Replied') = Cardinality(Replied) + One(pc'[p] = "replied") - One(pc[p] = "replied")
      /\ Cardinality(Spare') = Cardinality(Spare) + One(p \in Spare') - One(p \in Spare)
  BY <1>1, Counts
<1>3. /\ One(pc'[p] = "replied") \in Nat /\ One(pc[p] = "replied") \in Nat
      /\ One(p \in Spare') \in Nat /\ One(p \in Spare) \in Nat /\ One(Behind) \in Nat /\ One(Behind') \in Nat
      /\ One(memo # NoReply /\ status # "succeeded") \in Nat
      /\ One(memo' # NoReply /\ status # "succeeded") \in Nat
  BY DEF One
<1>4. Wasted' = Wasted + made + One(pc[p] = "replied") + One(memo # NoReply /\ status # "succeeded")
                - One(pc'[p] = "replied") - One(memo' # NoReply /\ status # "succeeded")
  <2>1. /\ Wasted' = paid' - (SettledCalls' + dropped' + One(memo' # NoReply /\ status # "succeeded")
                              + Cardinality(Replied'))
        /\ Wasted = paid - (SettledCalls + dropped + One(memo # NoReply /\ status # "succeeded")
                            + Cardinality(Replied))
    BY DEF Wasted, Replied, One
  <2> QED  BY <1>0, <1>2, <1>3, <2>1
<1>5. One(Behind)' = One(Behind')
  BY DEF One
<1> QED  BY <1>0, <1>2, <1>3, <1>4, <1>5 DEF WasteInv

LEMMA WasteStarts ==
  ASSUME KnownInv, WasteInv, NEW p \in Process, Deliver(p) \/ Takeover(p), SettledCalls' = SettledCalls
  PROVE  WasteInv'
<1>0. /\ pc \in [Process -> Places] /\ claimant \in Process \cup {Nobody} /\ p # Nobody
      /\ paid \in Nat /\ dropped \in Nat /\ takeovers \in Nat /\ SettledCalls \in Nat
  BY GatheredAreCounted, NobodyIsNone DEF KnownInv, TypeOK, MemoryTypes, QueueTypes, GhostTypes
<1>1. /\ pc[p] = "idle" /\ pc' = [pc EXCEPT ![p] = "started"] /\ claimant' = p
      /\ UNCHANGED <<paid, dropped, memo, status>>
  BY DEF Deliver, Takeover, store, ghosts
<1>2. Replied' = Replied
  BY <1>0, <1>1 DEF Replied
<1>3. Wasted' = Wasted
  BY <1>1, <1>2 DEF Wasted, Replied
<1>4. ~Behind'
  BY <1>0, <1>1 DEF Behind
<1>5. Spare \in SUBSET Process /\ Spare' \in SUBSET Process
  BY DEF Spare
<1>6. CASE Deliver(p)
  <2>1. claimant = Nobody /\ takeovers' = takeovers
    BY <1>6 DEF Deliver, ghosts
  <2>2. Spare' = Spare
    BY <1>0, <1>1, <2>1, NobodyIsNone DEF Spare, Fenced
  <2>3. Cardinality(Spare) \in Nat
    BY <1>5, OneMore
  <2> QED  BY <1>0, <1>3, <1>4, <2>1, <2>2, <2>3 DEF WasteInv, One
<1>7. CASE Takeover(p)
  <2>1. claimant \in Process \ {p} /\ takeovers' = takeovers + 1
    BY <1>0, <1>7 DEF Takeover
  <2>2. claimant \notin Spare /\ Spare' \ {claimant} = Spare \ {claimant}
    BY <1>0, <1>1, <2>1 DEF Spare, Fenced
  <2>3. /\ Cardinality(Spare') = Cardinality(Spare) + One(claimant \in Spare')
        /\ Cardinality(Spare') \in Nat /\ Cardinality(Spare) \in Nat
    BY <1>5, <2>2, OneMore DEF One
  <2> QED  BY <1>0, <1>3, <1>4, <2>1, <2>3 DEF WasteInv, One
<1> QED  BY <1>6, <1>7

\* A settlement wastes the replies of the fenced deliveries, and its own reply is counted.
LEMMA WasteSettles ==
  ASSUME KnownInv, WasteInv, NEW p \in Process, Settling(p)
  PROVE  WasteInv'
<1>0. /\ paid \in Nat /\ dropped \in Nat /\ takeovers \in Nat /\ SettledCalls \in Nat
      /\ p # Nobody
  BY GatheredAreCounted, NobodyIsNone DEF KnownInv, TypeOK, GhostTypes
<1>1. /\ claimant = p /\ claimant' = Nobody /\ memo' = NoReply /\ pc' = [q \in Process |-> "idle"]
      /\ UNCHANGED <<paid, dropped, takeovers>>
  BY SettledState DEF KnownInv
<1>2. status = "pending"
  BY <1>0, <1>1 DEF KnownInv, ClaimInv
<1>3. SettledCalls' = SettledCalls + One(memo # NoReply)
  BY <1>0, SettlementCounts, SettlesWithReply DEF KnownInv, One
<1>4. Replied \subseteq Spare
  <2>1. pc[p] # "replied"
    BY SettlesWithReply DEF KnownInv, HasReply, Late, Early
  <2> QED  BY <1>1, <2>1 DEF Replied, Spare, Fenced
<1>5. Replied' = {} /\ Spare' = {} /\ ~Behind'
  BY <1>1 DEF Replied, Spare, Fenced, Behind
<1>6. /\ Cardinality(Replied) \in Nat /\ Cardinality(Spare) \in Nat
      /\ Cardinality(Replied) <= Cardinality(Spare)
  <2>1. IsFiniteSet(Spare)
    BY FS_Subset, ConstantsAssumption DEF Spare
  <2> QED  BY <1>4, <2>1, FS_Subset, FS_CardinalityType
<1>7. Cardinality({}) = 0
  BY FS_EmptySet
<1>8. Wasted' = Wasted + Cardinality(Replied)
  <2>1. /\ Wasted' = paid - (SettledCalls' + dropped + 0 + 0)
        /\ Wasted = paid - (SettledCalls + dropped + One(memo # NoReply) + Cardinality(Replied))
    BY <1>1, <1>2, <1>5, <1>7 DEF Wasted, Replied, One
  <2>2. One(memo # NoReply) \in Nat
    BY DEF One
  <2> QED  BY <1>0, <1>3, <1>6, <2>1, <2>2
<1> QED  BY <1>0, <1>1, <1>5, <1>6, <1>7, <1>8 DEF WasteInv, One

LEMMA WasteStep ==
  ASSUME KnownInv, KnownInv', WasteInv, [Next]_vars
  PROVE  WasteInv'
<1>0. /\ pc \in [Process -> Places] /\ reply \in [Process -> Reply]
      /\ claimant \in Process \cup {Nobody} /\ SettledCalls \in Nat
  BY GatheredAreCounted DEF KnownInv, TypeOK, MemoryTypes, QueueTypes
<1>1. CASE \E p \in Process : Settling(p)
  BY <1>1, WasteSettles
<1>2. CASE ~ \E p \in Process : Settling(p)
  <2>0. SettledCalls' = SettledCalls + (IF status' = "succeeded" /\ status # "succeeded" THEN 1 ELSE 0)
                        - (IF status' # "succeeded" /\ status = "succeeded" THEN 1 ELSE 0)
    BY <1>2, OthersCount DEF KnownInv
  <2>1. \/ status' = status /\ SettledCalls' = SettledCalls
        \/ SettledCalls' # SettledCalls
        \/ status # "succeeded" /\ status' # "succeeded" /\ SettledCalls' = SettledCalls
    BY <1>0, <2>0
  <2>2. status' = status => SettledCalls' = SettledCalls
    BY <1>0, <2>0
  <2>3. ASSUME NEW p \in Process, Deliver(p) \/ Takeover(p) PROVE WasteInv'
    <3>1. status' = status
      BY <2>3 DEF Deliver, Takeover
    <3> QED  BY <2>2, <2>3, <3>1, WasteStarts
  <2>4. ASSUME NEW p \in Process, NEW at \in Places \ {"replied"}, pc[p] \in Early \cup {"ready"},
               pc[p] \in Early \/ at \notin Early, pc' = [pc EXCEPT ![p] = at],
               UNCHANGED <<status, claimant, memo, paid, dropped, takeovers>>,
               at = "calling" => pc[p] = "calling" \/ memo = NoReply
        PROVE  WasteInv'
    <3>1. /\ pc[p] # "replied" /\ pc'[p] # "replied" /\ (p \in Spare' => p \in Spare)
          /\ \A q \in Process : q # p => pc'[q] = pc[q]
      BY <1>0, <2>4 DEF Spare, Fenced, Early
    <3>2. Behind' => Behind
      BY <1>0, <2>4, <3>1 DEF Behind
    <3>3. 0 \in Nat /\ paid \in Nat
      BY DEF KnownInv, TypeOK, GhostTypes
    <3>4. One(p \in Spare') + One(Behind') <= One(p \in Spare) + One(Behind)
      BY <3>1, <3>2 DEF One
    <3>5. /\ One(pc[p] = "replied") = 0 /\ One(pc'[p] = "replied") = 0
          /\ One(memo' # NoReply /\ status # "succeeded") = One(memo # NoReply /\ status # "succeeded")
          /\ One(memo # NoReply /\ status # "succeeded") \in Nat
          /\ One(p \in Spare') \in Nat /\ One(Behind') \in Nat /\ One(p \in Spare) \in Nat /\ One(Behind) \in Nat
      BY <2>4, <3>1 DEF One
    <3>6. paid' = paid + 0
      BY <2>4, <3>3
    <3>7. /\ 0 + One(pc[p] = "replied") + One(memo # NoReply /\ status # "succeeded")
             >= One(pc'[p] = "replied") + One(memo' # NoReply /\ status # "succeeded")
          /\ 0 + One(pc[p] = "replied") + One(memo # NoReply /\ status # "succeeded")
             + One(p \in Spare') + One(Behind')
             <= One(pc'[p] = "replied") + One(memo' # NoReply /\ status # "succeeded")
                + One(p \in Spare) + One(Behind)
      BY <3>4, <3>5
    <3> QED  BY <2>2, <2>4, <3>1, <3>3, <3>6, <3>7, WasteGoesOn
  <2>5. ASSUME NEW p \in Process, StartJoin(p) \/ FinishJoin(p) \/ SubmitFetches(p) PROVE WasteInv'
    <3>1. PICK at \in {"joining", "joined", "submitted"} : pc' = [pc EXCEPT ![p] = at]
      BY <2>5 DEF StartJoin, FinishJoin, SubmitFetches
    <3>2. /\ pc[p] \in Early /\ UNCHANGED <<status, claimant, memo, paid, dropped, takeovers>>
      BY <2>5 DEF StartJoin, FinishJoin, SubmitFetches, Early, queue, store, ghosts
    <3> QED  BY <2>4, <3>1, <3>2 DEF Places
  <2>6. ASSUME NEW p \in Process, ReadMemo(p) PROVE WasteInv'
    <3>1. PICK at \in {"calling", "ready"} : pc' = [pc EXCEPT ![p] = at] /\ (at = "calling" => memo = NoReply)
      BY <2>6 DEF ReadMemo
    <3>2. /\ pc[p] \in Early /\ UNCHANGED <<status, claimant, memo, paid, dropped, takeovers>>
      BY <2>6 DEF ReadMemo, Prepared, Early, queue, store, ghosts
    <3> QED  BY <2>4, <3>1, <3>2 DEF Places
  <2>7. ASSUME NEW p \in Process, SubmitTurn(p) \/ PutReport(p) PROVE WasteInv'
    <3>1. PICK at \in {"submitted", "written"} : pc' = [pc EXCEPT ![p] = at]
      BY <2>7 DEF SubmitTurn, PutReport
    <3>2. /\ pc[p] = "ready" /\ UNCHANGED <<status, claimant, memo, paid, dropped, takeovers>>
      BY <2>7 DEF SubmitTurn, PutReport, queue, store, ghosts
    <3>3. at \notin Early /\ at \in Places \ {"replied"} /\ at # "calling"
      BY DEF Early, Places
    <3> QED  BY <2>4, <3>1, <3>2, <3>3
  <2>8. ASSUME NEW p \in Process, CallModel(p) PROVE WasteInv'
    <3>1. /\ pc[p] = "calling" /\ pc' = [pc EXCEPT ![p] = "replied"] /\ paid' = paid + 1
          /\ UNCHANGED <<status, claimant, memo, dropped, takeovers>>
      BY <2>8 DEF CallModel, queue, store
    <3>2. /\ \A q \in Process : q # p => pc'[q] = pc[q]
          /\ pc'[p] = "replied" /\ (p \in Spare' <=> p \in Spare)
      BY <1>0, <3>1 DEF Spare, Fenced, Early
    <3>3. Behind' <=> Behind
      BY <1>0, <3>1 DEF Behind
    <3>4. /\ One(pc[p] = "replied") = 0 /\ One(pc'[p] = "replied") = 1
          /\ One(memo' # NoReply /\ status # "succeeded") = One(memo # NoReply /\ status # "succeeded")
          /\ One(memo # NoReply /\ status # "succeeded") \in Nat
          /\ One(p \in Spare') = One(p \in Spare) /\ One(Behind') = One(Behind)
          /\ One(p \in Spare) \in Nat /\ One(Behind) \in Nat /\ 1 \in Nat
      BY <3>1, <3>2, <3>3 DEF One
    <3> QED  BY <2>2, <3>1, <3>2, <3>4, WasteGoesOn
  <2>9. ASSUME NEW p \in Process, WriteMemo(p) PROVE WasteInv'
    <3>1. /\ pc[p] = "replied" /\ pc' = [pc EXCEPT ![p] = "ready"] /\ memo' = reply[p]
          /\ UNCHANGED <<status, claimant, paid, dropped, takeovers>>
      BY <2>9 DEF WriteMemo, queue, ghosts
    <3>2. /\ \A q \in Process : q # p => pc'[q] = pc[q]
          /\ pc'[p] = "ready" /\ p \notin Spare' /\ (p \in Spare <=> claimant # p)
      BY <1>0, <3>1 DEF Spare, Fenced, Early
    <3>3. memo' # NoReply
      BY <2>9, <3>1, AnswersAreCalls DEF WriteMemo, KnownInv, StepFits
    <3>4. claimant = p => ~Behind' /\ (memo # NoReply => Behind)
      BY <1>0, <3>1, <3>2 DEF Behind
    <3>5. memo # NoReply /\ Behind' => Behind
      BY <1>0, <3>1, <3>2 DEF Behind
    <3>6. status = "succeeded" => claimant # p /\ memo # NoReply
      BY NobodyIsNone DEF KnownInv, MemoInv, ClaimInv
    <3>7. /\ 0 \in Nat /\ paid' = paid + 0
      BY <3>1 DEF KnownInv, TypeOK, GhostTypes
    <3>8. One(pc[p] = "replied") = 1 /\ One(pc'[p] = "replied") = 0 /\ One(p \in Spare') = 0
      BY <3>1, <3>2 DEF One
    <3>9. /\ 0 + One(pc[p] = "replied") + One(memo # NoReply /\ status # "succeeded")
             >= One(pc'[p] = "replied") + One(memo' # NoReply /\ status # "succeeded")
          /\ 0 + One(pc[p] = "replied") + One(memo # NoReply /\ status # "succeeded")
             + One(p \in Spare') + One(Behind')
             <= One(pc'[p] = "replied") + One(memo' # NoReply /\ status # "succeeded")
                + One(p \in Spare) + One(Behind)
      BY <3>2, <3>3, <3>4, <3>5, <3>6, <3>8 DEF One
    <3> QED  BY <2>2, <3>1, <3>2, <3>7, <3>9, WasteGoesOn
  <2>10. ASSUME NEW p \in Process, Rejected(p) PROVE WasteInv'
    <3>1. /\ pc[p] # "idle" /\ claimant # p /\ pc' = [pc EXCEPT ![p] = "idle"]
          /\ UNCHANGED <<status, claimant, memo, paid, dropped, takeovers>>
      BY <2>10 DEF Rejected, queue, store, ghosts
    <3>2. dropped' = dropped + One(claimant = p /\ pc[p] = "replied")
      BY <3>1 DEF One, KnownInv, TypeOK, GhostTypes
    <3>3. SettledCalls' = SettledCalls + One(status' = "succeeded" /\ status # "succeeded")
      BY <1>0, <2>2, <3>1 DEF One
    <3>4. status' = "succeeded" => memo # NoReply
      BY <3>1 DEF KnownInv, MemoInv
    <3> QED  BY <3>1, <3>2, <3>3, <3>4, WasteLeaves
  <2>11. ASSUME NEW p \in Process,
                \/ RejectPlan(p) \/ Interrupt(p) \/ PermanentFailure(p) \/ RejectFindings(p)
                \/ CancelStep(p) \/ RunWriting(p)
         PROVE  WasteInv'
    <3>1. /\ pc[p] # "idle" /\ claimant = p /\ claimant' = Nobody /\ pc' = [pc EXCEPT ![p] = "idle"]
          /\ UNCHANGED <<memo, paid, takeovers>>
      BY <2>11 DEF RejectPlan, Interrupt, Release, PermanentFailure, RejectFindings, CancelStep,
         RunWriting,
         Terminate, store, ghosts
    <3>2. dropped' = dropped + One(claimant = p /\ pc[p] = "replied")
      <4>1. dropped \in Nat
        BY DEF KnownInv, TypeOK, GhostTypes
      <4>2. CASE Interrupt(p) \/ CancelStep(p)
        BY <3>1, <4>1, <4>2 DEF Interrupt, CancelStep, One
      <4>3. CASE RejectPlan(p) \/ PermanentFailure(p) \/ RejectFindings(p) \/ RunWriting(p)
        BY <3>1, <4>1, <4>3 DEF RejectPlan, PermanentFailure, RejectFindings, RunWriting, One
      <4> QED  BY <2>11, <4>2, <4>3
    <3>3. status = "pending"
      BY <3>1, NobodyIsNone DEF KnownInv, ClaimInv
    <3>4. SettledCalls' = SettledCalls + One(status' = "succeeded" /\ status # "succeeded")
      BY <1>0, <2>0, <3>3 DEF One
    <3>5. status' = "succeeded" => memo # NoReply
      BY <3>1 DEF KnownInv, MemoInv
    <3> QED  BY <3>1, <3>2, <3>3, <3>4, <3>5, WasteLeaves
  <2>12. ASSUME UNCHANGED <<pc, claimant, memo, paid, dropped, takeovers>>,
                status' = status \/ (status # "succeeded" /\ status' # "succeeded")
         PROVE  WasteInv'
    <3>1. SettledCalls' = SettledCalls
      BY <1>0, <2>0, <2>12
    <3>2. Wasted' = Wasted /\ Spare' = Spare /\ (Behind' <=> Behind)
      BY <2>12, <3>1 DEF Wasted, Spare, Fenced, Behind
    <3> QED  BY <2>12, <3>2 DEF WasteInv, One
  <2>13. CASE RequestCancel \/ UNCHANGED vars \/ \E g \in Group, v \in Url : MemberEnd(g, v)
    <3>1. UNCHANGED <<pc, claimant, memo, paid, dropped, takeovers, status>>
      BY <2>13 DEF RequestCancel, MemberEnd, vars, queue, store, memory, ghosts
    <3> QED  BY <2>12, <3>1
  <2>14. CASE CancelUnclaimed \/ EndGroupWait \/ EndReplyWait
    <3>1. /\ UNCHANGED <<pc, claimant, memo, paid, dropped, takeovers>>
          /\ status # "succeeded" /\ status' # "succeeded"
      BY <2>14 DEF CancelUnclaimed, EndGroupWait, EndReplyWait, store, memory, ghosts, Terminal
    <3> QED  BY <2>12, <3>1
  <2> QED
    BY <1>2, <2>3, <2>5, <2>6, <2>7, <2>8, <2>9, <2>10, <2>11, <2>13, <2>14
    DEF Next, Work, Disturb, Settling
<1> QED  BY <1>1, <1>2

-----------------------------------------------------------------------------
(* The theorems. *)

UsageInv == KnownInv /\ DriftInv /\ BlobInv /\ SoleInv /\ WasteInv

LEMMA UsageInit == ASSUME Init PROVE UsageInv
<1>1. TypeOK /\ StepFits
  BY InitTypes
<1>2. PagesInv /\ ClaimInv /\ QueueInv
  BY DEF Init, PagesInv, PagesAccounted, ClaimInv, QueueInv
<1>3. FetchInv
  BY CapInit DEF CapInv
<1>4. /\ \A p \in Process : pc[p] = "idle" /\ claimant # p
      /\ memo = NoReply /\ claimant = Nobody /\ status = "pending"
      /\ usage = 0 /\ paid = 0 /\ dropped = 0 /\ faults = 0 /\ takeovers = 0
  BY NobodyIsNone DEF Init
<1>5. SettledCalls = 0
  <2>1. Summarized = {}
    BY DEF Init, Summarized
  <2>2. Cardinality(Summarized) = 0
    BY <2>1, FS_EmptySet
  <2> QED  BY <2>2, SettledIs DEF Init
<1>6. KnownInv
  BY <1>1, <1>2, <1>3, <1>4 DEF KnownInv, MemoInv, HasReply, Late
<1>7. DriftInv
  BY <1>4, <1>5 DEF DriftInv, Missed, TallyFits, Quiet, HasReply, Fenced, Early, Late
<1>8. BlobInv /\ SoleInv
  BY <1>4 DEF BlobInv, SoleInv, Fenced
<1>9. WasteInv
  <2>1. Replied = {} /\ Spare = {} /\ ~Behind
    BY <1>4 DEF Replied, Spare, Fenced, Behind
  <2>2. Wasted = 0 /\ Cardinality(Spare) = 0
    BY <1>4, <1>5, <2>1, FS_EmptySet DEF Wasted, Replied
  <2> QED  BY <1>4, <2>1, <2>2 DEF WasteInv, One
<1> QED  BY <1>6, <1>7, <1>8, <1>9 DEF UsageInv

LEMMA UsageStep == ASSUME UsageInv, [Next]_vars PROVE UsageInv'
BY KnownStep, DriftStep, BlobStep, SoleStep, WasteStep DEF UsageInv

LEMMA UsageInvariant == Spec => []UsageInv
<1>1. Init => UsageInv
  BY UsageInit
<1>2. UsageInv /\ [Next]_vars => UsageInv'
  BY UsageStep
<1> QED  BY <1>1, <1>2, PTL DEF Spec

\* A retry pays for no model call again, and each takeover for one at most.
THEOREM PaysOnce == Spec => []PaidOnce
<1>1. UsageInv => PaidOnce
  <2> SUFFICES ASSUME UsageInv PROVE Wasted \in 0 .. takeovers
    BY DEF PaidOnce
  <2>1. Cardinality(Spare) \in Nat
    BY OneMore DEF Spare
  <2>2. takeovers \in Nat
    BY DEF UsageInv, KnownInv, TypeOK, GhostTypes
  <2> QED  BY <2>1, <2>2 DEF UsageInv, WasteInv, One
<1> QED  BY <1>1, UsageInvariant, PTL

\* The usage of the run misses at most one call per interruption or takeover and counts
\* none twice, over any number of processes.
THEOREM UsageDrifts == Spec => []UsageDrift
<1>1. UsageInv => UsageDrift
  <2> SUFFICES ASSUME UsageInv PROVE UsageDrift
    OBVIOUS
  <2>1. SettledCalls \in Nat /\ usage \in Nat /\ faults \in Nat
    BY GatheredAreCounted DEF UsageInv, KnownInv, TypeOK, PayloadTypes, GhostTypes
  <2>2. Missed \in (IF status = "cancelled" THEN -1 ELSE 0) .. faults
    BY DEF UsageInv, DriftInv
  <2> QED  BY <2>1, <2>2 DEF Missed, UsageDrift
<1> QED  BY <1>1, UsageInvariant, PTL

\* The report shows the usage of the record of the run, except for the last call where a
\* fenced process wrote it.
THEOREM ReportMatches == Spec => []ReportMatchesRecord
<1>1. UsageInv => ReportMatchesRecord
  <2> SUFFICES ASSUME UsageInv, status = "succeeded"
               PROVE  /\ blob.usage \in (usage - 1) .. (usage + 1)
                      /\ takeovers = 0 => blob.usage = usage
    BY DEF ReportMatchesRecord
  <2>1. usage \in Nat
    BY DEF UsageInv, KnownInv, TypeOK, PayloadTypes
  <2>2. PICK u \in {usage, usage - 1} : blob.usage \in u .. (u + 1)
    BY DEF UsageInv, BlobInv
  <2>3. takeovers = 0 => blob.usage = usage
    BY DEF UsageInv, SoleInv
  <2> QED  BY <2>1, <2>2, <2>3
<1> QED  BY <1>1, UsageInvariant, PTL
=============================================================================
