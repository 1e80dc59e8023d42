-------------------------- MODULE AgentHost_proofs --------------------------
(* Theorems about AgentHost, for every value of its constants. *)
EXTENDS AgentHost, FiniteSetTheorems, TLAPS

-----------------------------------------------------------------------------
(* Types, and the count of the turns. *)

\* Places with a reply, and those after the usage of it is counted.
Counted == {"ready", "submitted"}
WithReply == {"calling", "replied"} \cup Counted

\* A delivery knows how many calls are left and what they cost, and is past the
\* model call only if there was one left.
TurnsInv ==
  /\ TurnsCounted
  /\ pc # "idle" => /\ status = "pending"
                    /\ budget = Turns - turn
                    /\ tally = turn + (IF pc \in Counted THEN 1 ELSE 0)
  /\ pc \in WithReply => turn < Turns

LEMMA NoReplyIsReply == NoReply \in Reply /\ NoResults \in [Slot -> Results]
BY DEF NoReply, Reply, Call, NoResults, Results

LEMMA HostInit == Init => TypeOK /\ TurnsInv
BY HostAssumption, NoReplyIsReply
   DEF Init, TypeOK, TranscriptTypes, TurnsInv, TurnsCounted, WithReply, Counted, Turn

\* The results that a step gives are results.
LEMMA MemberResultType ==
  ASSUME NEW g, NEW i, NEW r \in {"lost", "lostUnmarked"}
  PROVE  MemberResult(g, i, r) \in Results
BY DEF MemberResult, Render, Chunk, Results

LEMMA PlanType ==
  ASSUME NEW r \in Reply
  PROVE  Plan(r) \in [Slot -> Results]
<1> SUFFICES ASSUME NEW i \in Slot PROVE Planned(r, i) \in Results
  BY DEF Plan
<1>1. r[i] \in Call
  BY DEF Reply
<1>2. r[i] = NoCall \/ r[i].tool \in {"fetch", "search", "ask", "invalid"}
  BY <1>1 DEF Call, CallOf
<1> QED  BY <1>2 DEF Planned, Chunk, Results

LEMMA SettleTypes ==
  ASSUME TypeOK, NEW next \in {"pending", "waitGroup", "waitReply", "done", "outOfTurns"},
         Settle(next), question' \in {"none", "asked", "given", "assumed"},
         TranscriptTypes', left' \in Turn
  PROVE  TypeOK'
<1>1. 0 \in Turn
  BY HostAssumption DEF Turn
<1>2. status' \in {"pending", "waitGroup", "waitReply", "done", "outOfTurns", "failed"}
  BY DEF Settle
<1> QED
  BY <1>1, <1>2, NoReplyIsReply DEF TypeOK, Settle, groups

\* The reply to the question is of its type.
LEMMA ResolvedType ==
  ASSUME TypeOK
  PROVE  Resolved \in {"none", "given", "assumed"}
BY DEF Resolved, TypeOK

\* A step that ends without a reply of the model records the results it resolved.
LEMMA HeldRecorded ==
  ASSUME TypeOK, results' = [results EXCEPT ![turn] = held], UNCHANGED <<turn, calls>>
  PROVE  TranscriptTypes'
BY DEF TypeOK, TranscriptTypes

LEMMA RecordTypes ==
  ASSUME TypeOK, TurnsInv, Record, pc \in Counted
  PROVE  /\ TranscriptTypes' /\ left' \in Turn
         /\ turn' = turn + 1 /\ turn < Turns /\ turn + 1 \in Turn
         /\ left' = Turns - turn'
<1>1. turn < Turns /\ turn + 1 \in Turn /\ budget - 1 \in Turn /\ budget = Turns - turn
  BY HostAssumption DEF TypeOK, TranscriptTypes, TurnsInv, Counted, WithReply, Turn
<1>2. Plan(reply) \in [Slot -> Results]
  BY PlanType DEF TypeOK
<1>3. calls' \in [Turn -> Reply] /\ results' \in [Turn -> [Slot -> Results]]
  BY <1>1, <1>2 DEF Record, TypeOK, TranscriptTypes
<1> QED
  BY <1>1, <1>3, HostAssumption DEF Record, TranscriptTypes, TypeOK, Turn

LEMMA HostStep == TypeOK /\ TurnsInv /\ [Next]_vars => TypeOK' /\ TurnsInv'
<1> SUFFICES ASSUME TypeOK, TurnsInv, [Next]_vars PROVE TypeOK' /\ TurnsInv'
  OBVIOUS
<1> USE DEF TypeOK, TurnsInv, TurnsCounted
<1>0. turn \in 0 .. Turns /\ Turns \in Nat /\ left \in 0 .. Turns /\ usage \in Nat
  BY HostAssumption DEF Turn, TranscriptTypes
<1>1. CASE Deliver
  BY <1>0, <1>1, NoReplyIsReply
     DEF Deliver, payload, queue, groups, Counted, WithReply, TranscriptTypes
<1>2. CASE StartJoin
  BY <1>0, <1>2 DEF StartJoin, payload, queue, Counted, WithReply, TranscriptTypes
<1>3. CASE FinishJoin
  BY <1>0, <1>3 DEF FinishJoin, payload, queue, groups, Counted, WithReply, TranscriptTypes
<1>4. CASE Resolve
  <2>1. held' \in [Slot -> Results]
    <3> SUFFICES ASSUME NEW i \in Slot PROVE held'[i] \in Results
      BY <1>4 DEF Resolve
    <3>1. MemberResult(turn, i, "lost") \in Results
      BY MemberResultType
    <3> QED  BY <1>4, <3>1 DEF Resolve, Results
  <2> QED
    BY <1>0, <1>4, <2>1 DEF Resolve, payload, queue, groups, Counted, WithReply, TranscriptTypes
<1>5. CASE Rebuild
  <2>1. held' \in [Slot -> Results]
    <3> SUFFICES ASSUME NEW i \in Slot PROVE held'[i] \in Results
      BY <1>5 DEF Rebuild
    <3>1. MemberResult(turn, i, "lostUnmarked") \in Results
      BY MemberResultType
    <3> QED  BY <1>5, <3>1 DEF Rebuild, Results
  <2>2. budget' \in Turn
    BY <1>0, <1>5 DEF Rebuild, Turn
  <2> QED
    BY <1>0, <1>5, <2>1, <2>2
       DEF Rebuild, payload, queue, groups, Counted, WithReply, TranscriptTypes
<1>6. CASE AskUser
  <2>1. TypeOK'
    BY <1>6, HeldRecorded, SettleTypes DEF AskUser
  <2> QED  BY <1>0, <1>6, <2>1 DEF AskUser, Settle, Counted, WithReply
<1>7. CASE OutOfTurns
  <2>1. TypeOK'
    BY <1>7, HeldRecorded, SettleTypes, ResolvedType DEF OutOfTurns
  <2> QED  BY <1>0, <1>7, <2>1 DEF OutOfTurns, Settle, Counted, WithReply
<1>8. CASE ReadMemo
  <2>1. memo # Missing => memo \in Reply
    OBVIOUS
  <2>2. turn < Turns
    BY <1>0, <1>8 DEF ReadMemo, Turn
  <2> QED
    BY <1>0, <1>8, <2>1, <2>2
       DEF ReadMemo, payload, queue, groups, Counted, WithReply, TranscriptTypes
<1>9. CASE CallModel
  BY <1>0, <1>9
     DEF CallModel, Answers, payload, queue, groups, Counted, WithReply, TranscriptTypes
<1>10. CASE WriteMemo
  BY <1>0, <1>10 DEF WriteMemo, payload, groups, Counted, WithReply, TranscriptTypes
<1>11. CASE Submit
  <2>1. member' \in [Turn -> [Key -> {"none", "pending", "ok", "failed"}]]
    BY <1>0, <1>11, HostAssumption DEF Submit, Turn, WithReply, Counted
  <2> QED
    BY <1>0, <1>11, <2>1 DEF Submit, payload, queue, Counted, WithReply, TranscriptTypes
<1>12. CASE WaitForGroup
  <2>1. TypeOK'
    BY <1>12, RecordTypes, SettleTypes, ResolvedType DEF WaitForGroup, Counted
  <2>2. turn' = turn + 1 /\ left' = Turns - turn'
    BY <1>12, RecordTypes DEF WaitForGroup, Counted
  <2> QED  BY <1>0, <1>12, <2>1, <2>2 DEF WaitForGroup, Settle, Counted, WithReply
<1>13. CASE WaitForReply
  <2>1. TypeOK'
    BY <1>13, RecordTypes, SettleTypes DEF WaitForReply, Counted
  <2>2. turn' = turn + 1 /\ left' = Turns - turn'
    BY <1>13, RecordTypes DEF WaitForReply, Counted
  <2> QED  BY <1>0, <1>13, <2>1, <2>2 DEF WaitForReply, Settle, Counted, WithReply
<1>14. CASE Continue
  <2>1. TypeOK'
    BY <1>14, RecordTypes, SettleTypes, ResolvedType DEF Continue, Counted
  <2>2. turn' = turn + 1 /\ left' = Turns - turn'
    BY <1>14, RecordTypes DEF Continue, Counted
  <2> QED  BY <1>0, <1>14, <2>1, <2>2 DEF Continue, Settle, Counted, WithReply
<1>15. CASE Done
  <2>1. TypeOK'
    BY <1>15, RecordTypes, SettleTypes, ResolvedType DEF Done, Counted
  <2>2. turn' = turn + 1 /\ left' = Turns - turn'
    BY <1>15, RecordTypes DEF Done, Counted
  <2> QED  BY <1>0, <1>15, <2>1, <2>2 DEF Done, Settle, Counted, WithReply
<1>16. CASE Interrupt
  BY <1>0, <1>16 DEF Interrupt, payload, queue, groups, Counted, WithReply, TranscriptTypes
<1>17. CASE Upgrade
  <2>1. decodes' \in BOOLEAN
    BY <1>17 DEF Upgrade
  <2>2. UNCHANGED <<turn, calls, results, left, question, usage, queue, groups, memory>>
        /\ faults' = faults + 1
    BY <1>17 DEF Upgrade
  <2> QED
    BY <1>0, <2>1, <2>2 DEF queue, groups, memory, Counted, WithReply, TranscriptTypes
<1>18. CASE PermanentFailure
  <2>1. cancelling' \in SUBSET Turn
    BY <1>18 DEF PermanentFailure
  <2> QED
    BY <1>0, <1>18, <2>1 DEF PermanentFailure, payload, Counted, WithReply, TranscriptTypes
<1>19. CASE EndGroupWait
  BY <1>0, <1>19 DEF EndGroupWait, payload, groups, memory, Counted, WithReply, TranscriptTypes
<1>20. CASE EndReplyWait
  BY <1>0, <1>20 DEF EndReplyWait, payload, groups, memory, Counted, WithReply, TranscriptTypes
<1>21. ASSUME NEW g \in Turn, Expire(g) PROVE TypeOK' /\ TurnsInv'
  <2>1. member' \in [Turn -> [Key -> {"none", "pending", "ok", "failed"}]]
    BY <1>21 DEF Expire
  <2> QED
    BY <1>0, <1>21, <2>1 DEF Expire, payload, queue, memory, Counted, WithReply, TranscriptTypes
<1>22. ASSUME NEW g \in Turn, NEW k \in Key, MemberEnd(g, k) PROVE TypeOK' /\ TurnsInv'
  <2>1. member' \in [Turn -> [Key -> {"none", "pending", "ok", "failed"}]]
    BY <1>22 DEF MemberEnd
  <2> QED
    BY <1>0, <1>22, <2>1
       DEF MemberEnd, payload, queue, memory, Counted, WithReply, TranscriptTypes
<1>23. CASE UNCHANGED vars
  BY <1>0, <1>23
     DEF vars, payload, queue, groups, memory, Counted, WithReply, TranscriptTypes
<1> QED
  BY <1>1, <1>2, <1>3, <1>4, <1>5, <1>6, <1>7, <1>8, <1>9, <1>10, <1>11, <1>12, <1>13,
     <1>14, <1>15, <1>16, <1>17, <1>18, <1>19, <1>20, <1>21, <1>22, <1>23 DEF Next, Work

\* Every variable keeps its type, and the turns, their usage and the calls left agree
\* at each settlement and in each delivery.
THEOREM HostTypeCorrect == Spec => [](TypeOK /\ TurnsCounted)
<1>1. TypeOK /\ TurnsInv => TypeOK /\ TurnsCounted
  BY DEF TurnsInv
<1> QED  BY HostInit, HostStep, <1>1, PTL DEF Spec

\* The usage and the calls left to the run follow its replies.
THEOREM TurnsAreCounted == Spec => []TurnsCounted
<1>1. TypeOK /\ TurnsCounted => TurnsCounted
  OBVIOUS
<1> QED  BY HostTypeCorrect, <1>1, PTL

-----------------------------------------------------------------------------
(* The transcript: nothing recorded changes, and the history is closed. *)

\* Each earlier reply has all its results, there is nothing after the last reply, and
\* a delivery holds what the transcript has of it; past the model call, all of it.
TranscriptInv ==
  /\ \A t \in Turn : t > turn => calls[t] = NoReply /\ results[t] = NoResults
  /\ \A t \in Turn, i \in Slot : t < turn /\ calls[t][i] # NoCall => results[t][i] # "none"
  /\ pc # "idle" => \A i \in Slot : results[turn][i] # "none" => held[i] = results[turn][i]
  /\ pc \in WithReply => \A i \in Slot : calls[turn][i] # NoCall => held[i] # "none"

LEMMA TranscriptInit == Init => TranscriptInv
BY HostAssumption DEF Init, TranscriptInv, WithReply, Counted, Turn, NoResults, NoReply

\* A settlement without a reply closes what it resolved, and opens nothing.
LEMMA HeldKept ==
  ASSUME TypeOK, TranscriptInv, pc # "idle", pc' = "idle",
         results' = [results EXCEPT ![turn] = held], UNCHANGED <<turn, calls>>
  PROVE  /\ TranscriptInv'
         /\ \A t \in Turn, i \in Slot :
              results[t][i] # "none" => results'[t][i] = results[t][i]
<1>1. turn \in Turn /\ \A t \in Turn : results'[t] = IF t = turn THEN held ELSE results[t]
  BY DEF TypeOK, TranscriptTypes
<1>2. turn \in 0 .. Turns /\ Turns \in Nat
  BY <1>1, HostAssumption DEF Turn
<1> QED  BY <1>1, <1>2 DEF TranscriptInv, WithReply, Counted, Turn

\* A settlement with a reply appends it.
LEMMA RecordKept ==
  ASSUME TypeOK, TurnsInv, TranscriptInv, Record, pc \in Counted, pc' = "idle"
  PROVE  /\ TranscriptInv'
         /\ \A t \in Turn, i \in Slot :
              results[t][i] # "none" => results'[t][i] = results[t][i]
<1>1. turn' = turn + 1 /\ turn \in Turn /\ turn + 1 \in Turn /\ turn < Turns
  BY RecordTypes DEF TypeOK, TranscriptTypes
<1>2. turn \in 0 .. Turns /\ Turns \in Nat
  BY <1>1, HostAssumption DEF Turn
<1>3. \A t \in Turn :
        /\ calls'[t] = IF t = turn + 1 THEN reply ELSE calls[t]
        /\ results'[t] = IF t = turn + 1 THEN Plan(reply)
                         ELSE IF t = turn THEN held ELSE results[t]
  BY <1>1, <1>2 DEF Record, TypeOK, TranscriptTypes
<1>4. ASSUME NEW t \in Turn, t > turn'
      PROVE  calls'[t] = NoReply /\ results'[t] = NoResults
  BY <1>1, <1>2, <1>3, <1>4 DEF TranscriptInv, Turn
<1>5. ASSUME NEW t \in Turn, NEW i \in Slot, t < turn', calls'[t][i] # NoCall
      PROVE  results'[t][i] # "none"
  <2>1. CASE t = turn
    BY <1>1, <1>2, <1>3, <1>5, <2>1 DEF TranscriptInv, WithReply
  <2>2. CASE t < turn
    BY <1>1, <1>2, <1>3, <1>5, <2>2 DEF TranscriptInv, Turn
  <2> QED  BY <1>1, <1>2, <1>5, <2>1, <2>2 DEF Turn
<1>6. ASSUME NEW t \in Turn, NEW i \in Slot, results[t][i] # "none"
      PROVE  results'[t][i] = results[t][i]
  <2>1. t # turn + 1
    BY <1>1, <1>2, <1>6 DEF TranscriptInv, NoResults
  <2>2. t = turn => held[i] = results[t][i]
    BY <1>6 DEF TranscriptInv, Counted
  <2> QED  BY <1>3, <2>1, <2>2
<1>7. TranscriptInv'
  BY <1>4, <1>5 DEF TranscriptInv, WithReply, Counted
<1> QED  BY <1>6, <1>7

\* A settlement, with a reply or without one.
Settles ==
  /\ pc # "idle" /\ pc' = "idle"
  /\ \/ Record /\ pc \in Counted
     \/ results' = [results EXCEPT ![turn] = held] /\ UNCHANGED <<turn, calls>>

\* Every other step leaves the transcript as it is, and what the delivery holds of it,
\* but for Deliver, Resolve and Rebuild.
Keeps ==
  /\ UNCHANGED <<turn, calls, results>>
  /\ pc' # "idle" => pc # "idle" /\ held' = held
  /\ pc' \in WithReply /\ pc \notin WithReply => pc = "resolved" /\ ~Asks

LEMMA HostSteps ==
  ASSUME [Next]_vars
  PROVE  Settles \/ Keeps \/ Deliver \/ Resolve \/ Rebuild
<1> USE DEF Keeps, WithReply, Counted
<1>1. CASE StartJoin \/ FinishJoin
  BY <1>1 DEF StartJoin, FinishJoin, payload
<1>2. CASE ReadMemo
  BY <1>2 DEF ReadMemo, payload
<1>3. CASE CallModel \/ WriteMemo
  BY <1>3 DEF CallModel, WriteMemo, payload
<1>4. CASE Submit
  BY <1>4 DEF Submit, payload
<1>5. CASE AskUser \/ OutOfTurns
  BY <1>5 DEF AskUser, OutOfTurns, Settle, Settles
<1>6. CASE WaitForGroup \/ WaitForReply \/ Continue \/ Done
  BY <1>6 DEF WaitForGroup, WaitForReply, Continue, Done, Settle, Settles
<1>7. CASE Interrupt \/ PermanentFailure
  BY <1>7 DEF Interrupt, PermanentFailure, payload
<1>8. CASE Upgrade
  BY <1>8 DEF Upgrade, memory
<1>9. CASE EndGroupWait \/ EndReplyWait
  BY <1>9 DEF EndGroupWait, EndReplyWait, payload, memory
<1>10. ASSUME NEW g \in Turn, Expire(g) PROVE Keeps
  BY <1>10 DEF Expire, payload, memory
<1>11. ASSUME NEW g \in Turn, NEW k \in Key, MemberEnd(g, k) PROVE Keeps
  BY <1>11 DEF MemberEnd, payload, memory
<1>12. CASE UNCHANGED vars
  BY <1>12 DEF vars, payload, memory
<1> QED
  BY <1>1, <1>2, <1>3, <1>4, <1>5, <1>6, <1>7, <1>8, <1>9, <1>10, <1>11, <1>12
     DEF Next, Work

LEMMA TranscriptStep ==
  ASSUME TypeOK, TurnsInv, TranscriptInv, [Next]_vars
  PROVE  /\ TranscriptInv'
         /\ \A t \in Turn, i \in Slot :
              results[t][i] # "none" => results'[t][i] = results[t][i]
<1>1. CASE Settles
  BY <1>1, HeldKept, RecordKept DEF Settles
<1>2. CASE Keeps
  <2>1. ~Asks => \A i \in Slot : calls[turn][i] # NoCall => held[i] # "none"
    BY DEF Asks, Unanswered
  <2> QED  BY <1>2, <2>1 DEF Keeps, TranscriptInv, WithReply, Counted
<1>3. CASE Deliver
  BY <1>3 DEF Deliver, TranscriptInv, payload, WithReply, Counted
<1>4. CASE Resolve
  <2>1. pc' = "resolved" /\ pc # "idle" /\ UNCHANGED <<turn, calls, results>>
    BY <1>4 DEF Resolve, payload
  <2>2. ASSUME NEW i \in Slot, results[turn][i] # "none" PROVE held'[i] = held[i]
    <3>1. i \notin Open
      BY <2>2 DEF Open, Unanswered
    <3> QED  BY <1>4, <3>1 DEF Resolve
  <2> QED  BY <2>1, <2>2 DEF TranscriptInv, WithReply, Counted
<1>5. CASE Rebuild
  <2>1. pc' = "resolved" /\ pc # "idle" /\ UNCHANGED <<turn, calls, results>>
    BY <1>5 DEF Rebuild, payload
  <2>2. ASSUME NEW i \in Slot, results[turn][i] # "none" PROVE held'[i] = held[i]
    <3>1. i \notin Open
      BY <2>2 DEF Open, Unanswered
    <3> QED  BY <1>5, <3>1 DEF Rebuild
  <2> QED  BY <2>1, <2>2 DEF TranscriptInv, WithReply, Counted
<1> QED  BY <1>1, <1>2, <1>3, <1>4, <1>5, HostSteps

HostInv == TypeOK /\ TurnsInv /\ TranscriptInv

LEMMA HostInvariant == Spec => []HostInv
<1>1. Init => HostInv
  BY HostInit, TranscriptInit DEF HostInv
<1>2. HostInv /\ [Next]_vars => HostInv'
  BY HostStep, TranscriptStep DEF HostInv
<1> QED  BY <1>1, <1>2, PTL DEF Spec

\* The model is never called with a call of its history unanswered.
THEOREM HistoryIsClosed == Spec => []HistoryClosed
<1>1. HostInv => HistoryClosed
  <2> SUFFICES ASSUME HostInv, pc = "calling", NEW t \in 0 .. turn, NEW i \in Slot,
                      calls[t][i] # NoCall
               PROVE  Known(t)[i] # "none"
    BY DEF HistoryClosed
  <2>1. turn \in 0 .. Turns /\ Turns \in Nat
    BY HostAssumption DEF HostInv, TypeOK, TranscriptTypes, Turn
  <2>2. t \in Turn /\ t <= turn
    BY <2>1 DEF Turn
  <2>3. CASE t = turn
    BY <2>3 DEF HostInv, TranscriptInv, WithReply, Known
  <2>4. CASE t # turn
    BY <2>1, <2>2, <2>4 DEF HostInv, TranscriptInv, Known
  <2> QED  BY <2>3, <2>4
<1> QED  BY <1>1, HostInvariant, PTL

\* What the transcript has of a call never changes.
THEOREM ResultsAreKept == Spec => ResultsKept
<1>1. HostInv /\ [Next]_vars =>
        [\A t \in Turn, i \in Slot :
           results[t][i] # "none" => (results'[t][i] = results[t][i])]_vars
  BY TranscriptStep DEF HostInv
<1> QED  BY <1>1, HostInvariant, PTL DEF Spec, ResultsKept

-----------------------------------------------------------------------------
(* The question of the run and its reply. *)

Before == {"started", "joining", "joined"}
Past == {"resolved"} \cup WithReply

\* The call that asks and has no result.
OpenQuestions == Open \cap Questions(calls[turn])

\* At most one call waits for the user, alone once the run asked, and the reply is the
\* result of that call.  A delivery that resolved the results has the same of them.
AskInv ==
  /\ question \in {"none", "asked"} => \A t \in Turn, i \in Slot : results[t][i] # "reply"
  /\ question \in {"given", "assumed"} =>
       \E t0 \in Turn, i0 \in Slot : \A t \in Turn, i \in Slot :
         results[t][i] = "reply" <=> (t = t0 /\ i = i0)
  /\ question = "asked" => \E i0 \in Slot : Open = {i0} /\ OpenQuestions = {i0}
  /\ question \in {"given", "assumed"} => OpenQuestions = {}
  /\ \A i, j \in OpenQuestions : i = j
  /\ question # "none" => CanAsk
  /\ pc \in Before => held = results[turn]
  /\ pc \in Past =>
       /\ \A i \in Slot : held[i] = "reply"
                            <=> (results[turn][i] = "reply" \/ (question = "asked" /\ i \in Open))
       /\ Asks <=> (decodes /\ MayAsk /\ OpenQuestions # {})
       /\ Unanswered(calls[turn], held) \subseteq OpenQuestions

LEMMA AskingDepends ==
  ASSUME TypeOK
  PROVE  /\ MayAsk <=> (CanAsk /\ question = "none")
         /\ Replied <=> (CanAsk /\ question # "none")
         /\ Resolved = "none" <=> question = "none"
         /\ question \in {"given", "assumed"} => Resolved = question
         /\ question = "asked" => Resolved \in {"given", "assumed"}
BY DEF MayAsk, Replied, Resolved, TypeOK

LEMMA AskInit == Init => AskInv
<1> SUFFICES ASSUME Init PROVE AskInv
  OBVIOUS
<1>1. turn \in Turn /\ Open = {}
  BY HostAssumption DEF Init, Open, Unanswered, NoReply, Turn
<1> QED
  BY <1>1 DEF Init, AskInv, OpenQuestions, NoResults, Before, Past, WithReply, Counted

\* What a step leaves as it is.
LEMMA AskKept ==
  ASSUME TypeOK, AskInv, UNCHANGED <<turn, calls, results, question>>,
         pc' \in Before => pc \in Before /\ held' = held,
         pc' \in Past => pc \in Past /\ held' = held /\ decodes' = decodes /\ signal' = signal
  PROVE  AskInv'
<1>1. Open' = Open /\ OpenQuestions' = OpenQuestions
  BY DEF Open, OpenQuestions, Unanswered, Questions
<1>2. pc' \in Past => /\ Asks' = Asks /\ MayAsk' = MayAsk
                      /\ Unanswered(calls[turn], held)' = Unanswered(calls[turn], held)
  BY DEF Asks, Unanswered, MayAsk, Resolved
<1> QED  BY <1>1, <1>2 DEF AskInv

\* The result of a call is never open and no reply.
LEMMA MemberResultIs ==
  ASSUME NEW g, NEW i, NEW r \in {"lost", "lostUnmarked"}
  PROVE  MemberResult(g, i, r) \notin {"none", "reply"}
BY DEF MemberResult, Render, Chunk

\* What the resolution makes of the open calls.
LEMMA ResolveEffect ==
  ASSUME TypeOK, AskInv, Resolve \/ Rebuild
  PROVE  /\ pc \in Before /\ pc' = "resolved" /\ UNCHANGED <<payload, queue, groups, reply>>
         /\ \A i \in Slot : i \notin Open => held'[i] = results[turn][i]
         /\ \A i \in Open \ OpenQuestions : held'[i] \notin {"none", "reply"}
         /\ \A i \in OpenQuestions : held'[i] = "reply" <=> Replied
         /\ \A i \in OpenQuestions : held'[i] = "none" <=> (decodes /\ MayAsk)
<1>1. pc \in Before /\ held = results[turn]
  BY DEF Resolve, Rebuild, AskInv, Before
<1>2. pc' = "resolved" /\ UNCHANGED <<payload, queue, groups, reply>>
  BY DEF Resolve, Rebuild
<1>3. \A i \in Slot : i \notin Open => held'[i] = results[turn][i]
  BY <1>1 DEF Resolve, Rebuild
<1>4. Open \subseteq Slot /\ \A i \in Open : i \in OpenQuestions <=> i \in Questions(calls[turn])
  BY DEF Open, Unanswered, OpenQuestions
<1>5. ASSUME NEW i \in Open \ OpenQuestions PROVE held'[i] \notin {"none", "reply"}
  <2>1. i \in Slot /\ i \notin Questions(calls[turn])
    BY <1>4
  <2>2. \/ held'[i] = MemberResult(turn, i, "lost")
        \/ held'[i] = MemberResult(turn, i, "lostUnmarked")
    BY <2>1 DEF Resolve, Rebuild
  <2> QED  BY <2>2, MemberResultIs
<1>6. ASSUME NEW i \in OpenQuestions
      PROVE  /\ held'[i] = "reply" <=> Replied
             /\ held'[i] = "none" <=> (decodes /\ MayAsk)
  <2>1. i \in Slot /\ i \in Open /\ i \in Questions(calls[turn])
    BY <1>4 DEF OpenQuestions
  <2>2. ~(MayAsk /\ Replied)
    BY AskingDepends
  <2>3. CASE Resolve
    <3>1. OpenQuestions = {i}
      BY DEF AskInv
    <3>2. First({i}) = i
      BY <2>1 DEF First, Slot
    <3>3. held'[i] = IF Replied THEN "reply" ELSE IF MayAsk THEN "none" ELSE "skipped"
      BY <2>1, <2>3, <3>1, <3>2 DEF Resolve, OpenQuestions
    <3> QED  BY <2>2, <2>3, <3>3 DEF Resolve
  <2>4. CASE Rebuild
    <3>1. held'[i] = IF Replied THEN "reply" ELSE "lostUnmarked"
      BY <2>1, <2>4 DEF Rebuild
    <3> QED  BY <2>4, <3>1 DEF Rebuild
  <2> QED  BY <2>3, <2>4
<1> QED  BY <1>1, <1>2, <1>3, <1>5, <1>6

LEMMA ResolveKeepsAsk ==
  ASSUME TypeOK, AskInv, Resolve \/ Rebuild
  PROVE  AskInv'
<1>1. /\ pc' = "resolved" /\ UNCHANGED <<payload, queue>>
      /\ \A i \in Slot : i \notin Open => held'[i] = results[turn][i]
      /\ \A i \in Open \ OpenQuestions : held'[i] \notin {"none", "reply"}
      /\ \A i \in OpenQuestions : held'[i] = "reply" <=> Replied
      /\ \A i \in OpenQuestions : held'[i] = "none" <=> (decodes /\ MayAsk)
  BY ResolveEffect
<1>2. UNCHANGED <<turn, calls, results, question, decodes, signal>>
  BY <1>1 DEF payload, queue
<1>3. Open' = Open /\ OpenQuestions' = OpenQuestions /\ MayAsk' = MayAsk
      /\ Unanswered(calls[turn], held)' = {i \in Slot : calls[turn][i] # NoCall /\ held'[i] = "none"}
  BY <1>2 DEF Open, OpenQuestions, Unanswered, Questions, MayAsk, Resolved
<1>4. /\ Open \subseteq Slot /\ OpenQuestions \subseteq Open
      /\ \A i \in Slot : i \notin Open /\ calls[turn][i] # NoCall => results[turn][i] # "none"
      /\ \A i \in Open : results[turn][i] = "none" /\ calls[turn][i] # NoCall
  BY DEF Open, Unanswered, OpenQuestions
<1>5. Unanswered(calls[turn], held)' = IF decodes /\ MayAsk THEN OpenQuestions ELSE {}
  <2>1. ASSUME NEW i \in Slot
        PROVE  (calls[turn][i] # NoCall /\ held'[i] = "none")
                 <=> (decodes /\ MayAsk /\ i \in OpenQuestions)
    <3>1. CASE i \notin Open
      BY <1>1, <1>4, <3>1
    <3>2. CASE i \in Open \ OpenQuestions
      BY <1>1, <3>2
    <3>3. CASE i \in OpenQuestions
      <4>1. held'[i] = "none" <=> (decodes /\ MayAsk)
        BY <1>1, <3>3
      <4>2. calls[turn][i] # NoCall
        BY <1>4, <3>3
      <4> QED  BY <3>3, <4>1, <4>2
    <3> QED  BY <3>1, <3>2, <3>3
  <2> QED  BY <1>3, <1>4, <2>1
<1>6. \A i \in Slot : held'[i] = "reply"
                        <=> (results[turn][i] = "reply" \/ (question = "asked" /\ i \in Open))
  <2>1. question = "asked" => Open = OpenQuestions /\ Replied
    BY AskingDepends DEF AskInv
  <2>2. OpenQuestions # {} /\ Replied => question = "asked"
    BY AskingDepends DEF AskInv, TypeOK
  <2> SUFFICES ASSUME NEW i \in Slot
               PROVE  held'[i] = "reply"
                        <=> (results[turn][i] = "reply" \/ (question = "asked" /\ i \in Open))
    OBVIOUS
  <2>3. CASE i \notin Open
    BY <1>1, <2>3
  <2>4. CASE i \in Open \ OpenQuestions
    <3>1. held'[i] # "reply"
      BY <1>1, <2>4
    <3>2. results[turn][i] # "reply" /\ question # "asked"
      BY <1>4, <2>1, <2>4
    <3> QED  BY <3>1, <3>2
  <2>5. CASE i \in OpenQuestions
    <3>1. held'[i] = "reply" <=> Replied
      BY <1>1, <2>5
    <3>2. results[turn][i] # "reply" /\ i \in Open
      BY <1>4, <2>5
    <3>3. Replied <=> question = "asked"
      BY <2>1, <2>2, <2>5
    <3> QED  BY <3>1, <3>2, <3>3
  <2> QED  BY <2>3, <2>4, <2>5
<1>7. Asks' <=> (decodes' /\ MayAsk' /\ OpenQuestions' # {})
  BY <1>2, <1>3, <1>5 DEF Asks
<1>8. Unanswered(calls[turn], held)' \subseteq OpenQuestions'
  BY <1>3, <1>5
<1> QED
  BY <1>1, <1>2, <1>3, <1>6, <1>7, <1>8 DEF AskInv, Before

\* A settlement without a reply of the model records what was resolved.
LEMMA HeldKeepsAsk ==
  ASSUME TypeOK, TranscriptInv, AskInv, pc = "resolved", pc' = "idle",
         results' = [results EXCEPT ![turn] = held], UNCHANGED <<turn, calls>>,
         \/ Asks /\ question' = "asked"
         \/ ~Asks /\ question' = Resolved
  PROVE  AskInv'
<1>1. turn \in Turn /\ \A t \in Turn : results'[t] = IF t = turn THEN held ELSE results[t]
  BY DEF TypeOK, TranscriptTypes
<1>2. Open' = Unanswered(calls[turn], held)
  BY <1>1 DEF Open, Unanswered
<1>3. /\ \A i \in Slot : held[i] = "reply"
                           <=> (results[turn][i] = "reply" \/ (question = "asked" /\ i \in Open))
      /\ Asks <=> (decodes /\ MayAsk /\ OpenQuestions # {})
      /\ Unanswered(calls[turn], held) \subseteq OpenQuestions
  BY DEF AskInv, Past
<1>4. pc' \notin Before /\ pc' \notin Past
  BY DEF Before, Past, WithReply, Counted
<1>5. OpenQuestions' = Open' /\ Open' \subseteq OpenQuestions
  BY <1>2, <1>3 DEF OpenQuestions, Questions
<1>6. CASE Asks
  <2>1. question = "none" /\ CanAsk /\ Open' # {}
    BY <1>2, <1>3, <1>6, AskingDepends DEF Asks
  <2>2. \A t \in Turn, i \in Slot : results'[t][i] # "reply"
    BY <1>1, <1>3, <2>1 DEF AskInv
  <2>3. PICK i0 \in Slot : Open' = {i0}
    BY <1>5, <2>1 DEF AskInv, OpenQuestions, Open, Unanswered
  <2> QED  BY <1>4, <1>5, <1>6, <2>1, <2>2, <2>3 DEF AskInv
<1>7. CASE ~Asks
  <2>1. Open' = {} /\ OpenQuestions' = {}
    BY <1>2, <1>5, <1>7 DEF Asks
  <2>2. CASE question = "none"
    <3>1. question' = "none" /\ \A t \in Turn, i \in Slot : results'[t][i] # "reply"
      BY <1>1, <1>3, <1>7, <2>2, AskingDepends DEF AskInv
    <3> QED  BY <1>4, <2>1, <3>1 DEF AskInv
  <2>3. CASE question = "asked"
    <3>1. question' \in {"given", "assumed"} /\ CanAsk
      BY <1>7, <2>3, AskingDepends DEF AskInv
    <3>2. PICK i0 \in Slot : Open = {i0}
      BY <2>3 DEF AskInv
    <3>3. \A t \in Turn, i \in Slot : results'[t][i] = "reply" <=> (t = turn /\ i = i0)
      BY <1>1, <1>3, <2>3, <3>2 DEF AskInv
    <3>4. \E t0 \in Turn, j0 \in Slot : \A t \in Turn, i \in Slot :
            results'[t][i] = "reply" <=> (t = t0 /\ i = j0)
      BY <1>1, <3>3
    <3> QED  BY <1>4, <2>1, <3>1, <3>4 DEF AskInv
  <2>4. CASE question \in {"given", "assumed"}
    <3>1. question' = question /\ CanAsk
      BY <1>7, <2>4, AskingDepends DEF AskInv
    <3>2. ASSUME NEW t \in Turn, NEW i \in Slot
          PROVE  results'[t][i] = "reply" <=> results[t][i] = "reply"
      <4>1. CASE t = turn
        BY <1>1, <1>3, <2>4, <4>1
      <4>2. CASE t # turn
        BY <1>1, <4>2
      <4> QED  BY <4>1, <4>2
    <3>3. \E t0 \in Turn, j0 \in Slot : \A t \in Turn, i \in Slot :
            results[t][i] = "reply" <=> (t = t0 /\ i = j0)
      BY <2>4 DEF AskInv
    <3>4. \E t0 \in Turn, j0 \in Slot : \A t \in Turn, i \in Slot :
            results'[t][i] = "reply" <=> (t = t0 /\ i = j0)
      BY <3>2, <3>3
    <3> QED  BY <1>4, <2>1, <2>4, <3>1, <3>4 DEF AskInv
  <2> QED  BY <2>2, <2>3, <2>4 DEF TypeOK
<1> QED  BY <1>6, <1>7

\* What the plan of a reply leaves open.
LEMMA PlanAsks ==
  ASSUME NEW r \in Reply
  PROVE  /\ \A i \in Slot : Planned(r, i) # "reply"
         /\ \A i \in Questions(r) : Planned(r, i) = "none" => MayAsk /\ i = First(Questions(r))
         /\ Members(r) = {} =>
              \A i \in Slot : r[i] # NoCall /\ Planned(r, i) = "none" => i \in Questions(r)
<1>1. ASSUME NEW i \in Slot
      PROVE  /\ r[i] = NoCall \/ r[i].tool \in {"fetch", "search", "ask", "invalid"}
             /\ r[i].tool = "ask" => r[i] # NoCall
  <2>1. r[i] \in Call
    BY DEF Reply
  <2>2. r[i] = NoCall \/ r[i].tool \in {"fetch", "search", "ask", "invalid"}
    BY <2>1 DEF Call, CallOf
  <2>3. NoCall.tool = "none"
    BY DEF NoCall, CallOf
  <2> QED  BY <2>2, <2>3
<1>2. ASSUME NEW i \in Slot PROVE Planned(r, i) # "reply"
  BY <1>1 DEF Planned, Chunk
<1>3. ASSUME NEW i \in Questions(r), Planned(r, i) = "none"
      PROVE  MayAsk /\ i = First(Questions(r))
  BY <1>1, <1>3 DEF Planned, Questions
<1>4. ASSUME Members(r) = {}, NEW i \in Slot, r[i] # NoCall, Planned(r, i) = "none"
      PROVE  i \in Questions(r)
  <2>1. i \notin ToolCalls(r)
    BY <1>4 DEF Members
  <2> QED  BY <1>1, <1>4, <2>1 DEF ToolCalls, Questions, Planned
<1> QED  BY <1>2, <1>3, <1>4

\* A settlement with a reply appends at most one call that asks.
LEMMA RecordKeepsAsk ==
  ASSUME TypeOK, TurnsInv, TranscriptInv, AskInv, Record, pc \in Counted, pc' = "idle",
         \/ question' = Resolved
         \/ question' = "asked" /\ Members(reply) = {} /\ AsksIn(reply)
  PROVE  AskInv'
<1>1. turn' = turn + 1 /\ turn \in Turn /\ turn + 1 \in Turn /\ turn # turn + 1
  BY RecordTypes, HostAssumption DEF TypeOK, TranscriptTypes, Turn
<1>2. /\ calls'[turn + 1] = reply
      /\ \A t \in Turn : results'[t] = IF t = turn + 1 THEN Plan(reply)
                                       ELSE IF t = turn THEN held ELSE results[t]
  BY <1>1 DEF Record, TypeOK, TranscriptTypes
<1>3. /\ reply \in Reply
      /\ Members(reply) = {} =>
           \A i \in Slot : reply[i] # NoCall /\ Planned(reply, i) = "none" => i \in Questions(reply)
      /\ \A i \in Questions(reply) :
           Planned(reply, i) = "none" => MayAsk /\ i = First(Questions(reply))
      /\ \A i \in Slot : Plan(reply)[i] = Planned(reply, i) /\ Planned(reply, i) # "reply"
  BY PlanAsks DEF TypeOK, Plan
<1>4. Open' = {i \in Slot : reply[i] # NoCall /\ Planned(reply, i) = "none"}
  BY <1>1, <1>2, <1>3 DEF Open, Unanswered
<1>5. OpenQuestions' = Open' \cap Questions(reply)
  BY <1>1, <1>2 DEF OpenQuestions, Questions
<1>6. \A i \in OpenQuestions' : MayAsk /\ i = First(Questions(reply))
  BY <1>3, <1>4, <1>5
<1>7. pc' \notin Before /\ pc' \notin Past
  BY DEF Before, Past, WithReply, Counted
<1>8. \A i \in Slot : held[i] = "reply"
                        <=> (results[turn][i] = "reply" \/ (question = "asked" /\ i \in Open))
  BY DEF AskInv, Past, WithReply
<1>9. \A i \in Slot : results[turn + 1][i] # "reply"
  BY <1>1, HostAssumption DEF TranscriptInv, NoResults, Turn
<1>10. ASSUME NEW t \in Turn, NEW i \in Slot
       PROVE  results'[t][i] = "reply"
                <=> (results[t][i] = "reply" \/ (t = turn /\ question = "asked" /\ i \in Open))
  <2>1. CASE t = turn + 1
    BY <1>1, <1>2, <1>3, <1>9, <2>1
  <2>2. CASE t = turn
    BY <1>1, <1>2, <1>8, <2>2
  <2>3. CASE t # turn /\ t # turn + 1
    BY <1>2, <2>3
  <2> QED  BY <2>1, <2>2, <2>3
<1>11. \A i, j \in OpenQuestions' : i = j
  BY <1>6
<1>12. CASE question = "none"
  <2>1. \A t \in Turn, i \in Slot : results'[t][i] # "reply"
    BY <1>10, <1>12 DEF AskInv
  <2>2. CASE question' = Resolved
    <3>1. question' = "none"
      BY <1>12, <2>2, AskingDepends
    <3> QED  BY <1>7, <1>11, <2>1, <3>1 DEF AskInv
  <2>3. CASE question' = "asked" /\ Members(reply) = {} /\ AsksIn(reply)
    <3>1. PICK i0 \in Slot : i0 \in Questions(reply) /\ Planned(reply, i0) = "none"
      BY <2>3 DEF AsksIn, Questions
    <3>2. CanAsk /\ reply[i0] # NoCall
      <4>1. MayAsk
        BY <1>3, <3>1
      <4>2. NoCall.tool = "none" /\ reply[i0].tool = "ask"
        BY <3>1 DEF NoCall, CallOf, Questions
      <4> QED  BY <4>1, <4>2 DEF MayAsk
    <3>3. i0 \in Open' /\ i0 \in OpenQuestions'
      BY <1>4, <1>5, <3>1, <3>2
    <3>4. Open' = OpenQuestions'
      BY <1>3, <1>4, <1>5, <2>3
    <3>5. Open' = {i0} /\ OpenQuestions' = {i0}
      BY <1>11, <3>3, <3>4
    <3> QED  BY <1>7, <1>11, <2>1, <2>3, <3>2, <3>5 DEF AskInv
  <2> QED  BY <2>2, <2>3
<1>13. CASE question # "none"
  <2>1. ~MayAsk
    BY <1>13, AskingDepends
  <2>2. OpenQuestions' = {}
    BY <1>6, <2>1
  <2>3. question' = Resolved /\ ~AsksIn(reply)
    BY <1>3, <2>1 DEF AsksIn
  <2>4. question' \in {"given", "assumed"} /\ CanAsk
    BY <1>13, <2>3, AskingDepends DEF AskInv, TypeOK
  <2>5. \E t0 \in Turn, j0 \in Slot : \A t \in Turn, i \in Slot :
          results'[t][i] = "reply" <=> (t = t0 /\ i = j0)
    <3>1. CASE question = "asked"
      <4>1. PICK i0 \in Slot : Open = {i0}
        BY <3>1 DEF AskInv
      <4>2. \A t \in Turn, i \in Slot : results[t][i] # "reply"
        BY <3>1 DEF AskInv
      <4>3. \A t \in Turn, i \in Slot : results'[t][i] = "reply" <=> (t = turn /\ i = i0)
        BY <1>10, <3>1, <4>1, <4>2
      <4> QED  BY <1>1, <4>3
    <3>2. CASE question \in {"given", "assumed"}
      <4>1. \A t \in Turn, i \in Slot : results'[t][i] = "reply" <=> results[t][i] = "reply"
        BY <1>10, <3>2
      <4>2. \E t0 \in Turn, j0 \in Slot : \A t \in Turn, i \in Slot :
              results[t][i] = "reply" <=> (t = t0 /\ i = j0)
        BY <3>2 DEF AskInv
      <4> QED  BY <4>1, <4>2
    <3> QED  BY <1>13, <3>1, <3>2 DEF TypeOK
  <2> QED  BY <1>7, <2>2, <2>4, <2>5 DEF AskInv
<1> QED  BY <1>12, <1>13

LEMMA AskStep ==
  ASSUME TypeOK, TurnsInv, TranscriptInv, AskInv, [Next]_vars
  PROVE  AskInv'
<1> USE DEF Before, Past, WithReply, Counted
<1>1. CASE Deliver
  <2>1. /\ UNCHANGED <<turn, calls, results, question>> /\ pc' = "started"
        /\ held' = results'[turn']
    BY <1>1 DEF Deliver, payload
  <2>2. Open' = Open /\ OpenQuestions' = OpenQuestions
    BY <2>1 DEF Open, OpenQuestions, Unanswered, Questions
  <2> QED  BY <2>1, <2>2 DEF AskInv
<1>2. CASE StartJoin \/ FinishJoin
  BY <1>2, AskKept DEF StartJoin, FinishJoin, payload
<1>3. CASE Resolve \/ Rebuild
  BY <1>3, ResolveKeepsAsk
<1>4. CASE AskUser \/ OutOfTurns
  BY <1>4, HeldKeepsAsk DEF AskUser, OutOfTurns, Settle
<1>5. CASE ReadMemo
  BY <1>5, AskKept DEF ReadMemo, payload, queue
<1>6. CASE CallModel \/ WriteMemo
  BY <1>6, AskKept DEF CallModel, WriteMemo, payload, queue
<1>7. CASE Submit
  BY <1>7, AskKept DEF Submit, payload, queue
<1>8. CASE WaitForGroup \/ WaitForReply \/ Continue \/ Done
  BY <1>8, RecordKeepsAsk DEF WaitForGroup, WaitForReply, Continue, Done, Settle
<1>9. CASE Interrupt \/ PermanentFailure
  BY <1>9, AskKept DEF Interrupt, PermanentFailure, payload
<1>10. CASE Upgrade
  BY <1>10, AskKept DEF Upgrade, memory
<1>11. CASE EndGroupWait \/ EndReplyWait
  <2>1. pc = "idle" /\ pc' = "idle"
    BY <1>11 DEF EndGroupWait, EndReplyWait, memory, TurnsInv
  <2> QED  BY <1>11, <2>1, AskKept DEF EndGroupWait, EndReplyWait, payload
<1>12. ASSUME NEW g \in Turn, Expire(g) PROVE AskInv'
  BY <1>12, AskKept DEF Expire, payload, queue, memory
<1>13. ASSUME NEW g \in Turn, NEW k \in Key, MemberEnd(g, k) PROVE AskInv'
  BY <1>13, AskKept DEF MemberEnd, payload, queue, memory
<1>14. CASE UNCHANGED vars
  BY <1>14, AskKept DEF vars, payload, queue, memory
<1> QED
  BY <1>1, <1>2, <1>3, <1>4, <1>5, <1>6, <1>7, <1>8, <1>9, <1>10, <1>11, <1>12, <1>13, <1>14
     DEF Next, Work

\* The reply of the user, or the assumption, is the result of the call that asked and of
\* no other, and the run waits for it with no other call open.
THEOREM ReplyReaches == Spec => []ReplyReachesCall
<1>1. Init => AskInv
  BY AskInit
<1>2. HostInv /\ AskInv /\ [Next]_vars => AskInv'
  BY AskStep DEF HostInv
<1>3. HostInv /\ AskInv => ReplyReachesCall
  <2> SUFFICES ASSUME HostInv, AskInv PROVE ReplyReachesCall
    OBVIOUS
  <2> DEFINE got == {c \in Turn \X Slot : results[c[1]][c[2]] = "reply"}
  <2>1. question \in {"none", "asked"} => Cardinality(got) = 0
    <3>1. question \in {"none", "asked"} => got = {}
      BY DEF AskInv
    <3> QED  BY <3>1, FS_EmptySet
  <2>2. question \in {"given", "assumed"} => Cardinality(got) = 1
    <3> SUFFICES ASSUME question \in {"given", "assumed"} PROVE Cardinality(got) = 1
      OBVIOUS
    <3>1. PICK t0 \in Turn, i0 \in Slot : \A t \in Turn, i \in Slot :
            results[t][i] = "reply" <=> (t = t0 /\ i = i0)
      BY DEF AskInv
    <3>2. got = {<<t0, i0>>}
      BY <3>1
    <3> QED  BY <3>2, FS_Singleton
  <2>3. question = "asked" => /\ Cardinality(Unanswered(calls[turn], results[turn])) = 1
                              /\ Unanswered(calls[turn], results[turn])
                                   \subseteq Questions(calls[turn])
    <3> SUFFICES ASSUME question = "asked"
                 PROVE  /\ Cardinality(Open) = 1
                        /\ Open \subseteq Questions(calls[turn])
      BY DEF Open
    <3>1. PICK i0 \in Slot : Open = {i0} /\ OpenQuestions = {i0}
      BY DEF AskInv
    <3> QED  BY <3>1, FS_Singleton DEF OpenQuestions
  <2> QED  BY <2>1, <2>2, <2>3 DEF ReplyReachesCall, HostInv, TypeOK
<1> QED  BY <1>1, <1>2, <1>3, HostInvariant, PTL DEF Spec

-----------------------------------------------------------------------------
(* The members of the groups and the calls that they are for. *)

\* A call whose result is not the success has no member with a success.
Reached(g, i, res) ==
  \/ res[i] \in {"none", Chunk(calls[g][i])}
  \/ member[g][KeyOf(calls[g], i)] \in {"none", "failed"}

\* This holds of the transcript and of what the delivery resolved, and a group that was
\* joined has no active member.
SuccessInv ==
  /\ \A g \in Turn : g <= turn => \A i \in ToolCalls(calls[g]) : Reached(g, i, results[g])
  /\ pc \in Past => \A i \in ToolCalls(calls[turn]) : Reached(turn, i, held)
  /\ pc = "joined" => ~Active(turn)

LEMMA KeyOfIsKey ==
  ASSUME NEW r \in Reply, NEW i \in ToolCalls(r)
  PROVE  KeyOf(r, i) \in Key
<1>1. i \in Slot /\ r[i] \in Call /\ r[i].tool \in {"fetch", "search"}
  BY DEF ToolCalls, Reply
<1>2. r[i].tool = "fetch" => r[i].url \in Url
  BY <1>1 DEF Call, CallOf, NoCall
<1> QED  BY <1>1, <1>2 DEF KeyOf, Key

\* A success does not come from a member that ended otherwise.
LEMMA SuccessKept ==
  ASSUME TypeOK, SuccessInv, UNCHANGED <<turn, calls, results>>,
         pc' \in Past => pc \in Past /\ held' = held,
         pc' = "joined" => pc = "joined",
         \A g \in Turn, k \in Key : g <= turn =>
           /\ member[g][k] \in {"none", "failed"} => member'[g][k] \in {"none", "failed"}
           /\ member'[g][k] = "pending" => member[g][k] = "pending"
  PROVE  SuccessInv'
<1>1. ASSUME NEW g \in Turn, g <= turn, NEW i \in ToolCalls(calls[g]), NEW res,
             Reached(g, i, res)
      PROVE  Reached(g, i, res)'
  <2>1. KeyOf(calls[g], i) \in Key
    BY KeyOfIsKey DEF TypeOK, TranscriptTypes
  <2> QED  BY <1>1, <2>1 DEF Reached
<1>2. turn \in Turn /\ turn <= turn
  BY HostAssumption DEF TypeOK, TranscriptTypes, Turn
<1>3. Active(turn)' => Active(turn)
  BY <1>2 DEF Active
<1>4. \A g \in Turn : g <= turn =>
        \A i \in ToolCalls(calls[g]) : Reached(g, i, results[g])'
  BY <1>1 DEF SuccessInv
<1>5. pc' \in Past => \A i \in ToolCalls(calls[turn]) : Reached(turn, i, held)'
  BY <1>1, <1>2 DEF SuccessInv
<1> QED  BY <1>3, <1>4, <1>5 DEF SuccessInv

\* The result of a call from a member that is not active.
LEMMA MemberResultReaches ==
  ASSUME NEW g \in Turn, NEW i, NEW r,
         member[g][KeyOf(calls[g], i)] \in {"none", "ok", "failed"}
  PROVE  \/ MemberResult(g, i, r) = Chunk(calls[g][i])
         \/ member[g][KeyOf(calls[g], i)] \in {"none", "failed"}
BY DEF MemberResult, Render

LEMMA ResolveReaches ==
  ASSUME TypeOK, AskInv, SuccessInv, Resolve \/ Rebuild
  PROVE  SuccessInv'
<1>1. /\ pc' = "resolved" /\ UNCHANGED <<payload, queue, groups, reply>>
      /\ \A i \in Slot : i \notin Open => held'[i] = results[turn][i]
  BY ResolveEffect
<1>2. UNCHANGED <<turn, calls, results, member>>
  BY <1>1 DEF payload, groups
<1>3. turn \in Turn /\ turn <= turn /\ calls[turn] \in Reply
      /\ member[turn] \in [Key -> {"none", "pending", "ok", "failed"}]
  BY HostAssumption DEF TypeOK, TranscriptTypes, Turn
<1>4. ASSUME NEW i \in ToolCalls(calls[turn]) PROVE Reached(turn, i, held)'
  <2>1. i \in Slot /\ i \notin Questions(calls[turn]) /\ KeyOf(calls[turn], i) \in Key
    BY <1>3, KeyOfIsKey DEF ToolCalls, Questions
  <2>2. CASE i \notin Open
    <3>1. Reached(turn, i, results[turn]) /\ held'[i] = results[turn][i]
      BY <1>1, <1>3, <2>1, <2>2 DEF SuccessInv
    <3> QED  BY <1>2, <3>1 DEF Reached
  <2>3. CASE i \in Open
    <3>1. pc = "joined"
      BY <2>3 DEF Joins, Resolve, Rebuild
    <3>2. member[turn][KeyOf(calls[turn], i)] \in {"none", "ok", "failed"}
      BY <1>3, <2>1, <3>1 DEF SuccessInv, Active
    <3>3. \/ held'[i] = MemberResult(turn, i, "lost")
          \/ held'[i] = MemberResult(turn, i, "lostUnmarked")
      BY <2>1, <2>3 DEF Resolve, Rebuild
    <3> QED  BY <1>2, <1>3, <3>2, <3>3, MemberResultReaches DEF Reached
  <2> QED  BY <2>2, <2>3
<1>5. \A g \in Turn : g <= turn' =>
        \A i \in ToolCalls(calls[g])' : Reached(g, i, results[g])'
  <2> SUFFICES ASSUME NEW g \in Turn, g <= turn', NEW i \in ToolCalls(calls[g])'
               PROVE  Reached(g, i, results[g])'
    OBVIOUS
  <2>1. g <= turn /\ i \in ToolCalls(calls[g])
    BY <1>2 DEF ToolCalls
  <2>2. Reached(g, i, results[g])
    BY <2>1 DEF SuccessInv
  <2> QED  BY <1>2, <2>2 DEF Reached
<1>6. \A i \in ToolCalls(calls[turn])' : Reached(turn, i, held)'
  BY <1>2, <1>4 DEF ToolCalls
<1> QED  BY <1>1, <1>2, <1>5, <1>6 DEF SuccessInv, Reached

LEMMA SettleReaches ==
  ASSUME TypeOK, TurnsInv, SuccessInv, pc \in Past, pc' = "idle", UNCHANGED member,
         \/ Record /\ pc \in Counted
         \/ results' = [results EXCEPT ![turn] = held] /\ UNCHANGED <<turn, calls>>
  PROVE  SuccessInv'
<1>1. turn \in Turn /\ turn \in Nat /\ turn' \in Turn
  BY RecordTypes, HostAssumption DEF TypeOK, TranscriptTypes, Turn
<1>2. /\ \A g \in Turn : g <= turn =>
           calls'[g] = calls[g] /\ results'[g] = IF g = turn THEN held ELSE results[g]
      /\ \A g \in Turn : g <= turn' /\ ~(g <= turn) =>
           calls'[g] = reply /\ results'[g] = Plan(reply)
  <2>1. CASE Record /\ pc \in Counted
    <3>1. turn' = turn + 1 /\ turn + 1 \in Turn
      BY <2>1, RecordTypes
    <3>2. \A g \in Turn : g \in Nat
      BY HostAssumption DEF Turn
    <3> QED  BY <1>1, <2>1, <3>1, <3>2 DEF Record, TypeOK, TranscriptTypes
  <2>2. CASE results' = [results EXCEPT ![turn] = held] /\ UNCHANGED <<turn, calls>>
    BY <1>1, <2>2 DEF TypeOK, TranscriptTypes
  <2> QED  BY <2>1, <2>2
<1>3. ASSUME NEW g \in Turn, g <= turn', NEW i \in ToolCalls(calls'[g])
      PROVE  Reached(g, i, results[g])'
  <2>1. CASE g <= turn
    <3>1. CASE g = turn
      BY <1>1, <1>2, <1>3, <2>1, <3>1 DEF SuccessInv, Reached
    <3>2. CASE g # turn
      BY <1>1, <1>2, <1>3, <2>1, <3>2 DEF SuccessInv, Reached
    <3> QED  BY <3>1, <3>2
  <2>2. CASE ~(g <= turn)
    <3>1. calls'[g] = reply /\ results'[g] = Plan(reply)
      BY <1>2, <1>3, <2>2
    <3>2. i \in Slot /\ reply[i].tool \in {"fetch", "search"}
      BY <1>3, <3>1 DEF ToolCalls
    <3>3. reply[i] # NoCall
      <4>1. NoCall.tool = "none"
        BY DEF NoCall, CallOf
      <4> QED  BY <3>2, <4>1
    <3>4. Planned(reply, i) \in {"none", Chunk(reply[i])}
      BY <3>2, <3>3 DEF Planned
    <3> QED  BY <3>1, <3>2, <3>4 DEF Reached, Plan
  <2> QED  BY <2>1, <2>2
<1>4. pc' \notin Past /\ pc' # "joined"
  BY DEF Past, WithReply, Counted
<1> QED  BY <1>3, <1>4 DEF SuccessInv

LEMMA SuccessInit == Init => SuccessInv
<1> SUFFICES ASSUME Init PROVE SuccessInv
  OBVIOUS
<1>1. NoCall.tool = "none"
  BY DEF NoCall, CallOf
<1> QED
  BY <1>1 DEF Init, SuccessInv, Reached, NoReply, NoResults, ToolCalls, Past, WithReply, Counted

LEMMA SuccessStep ==
  ASSUME TypeOK, TurnsInv, AskInv, SuccessInv, [Next]_vars
  PROVE  SuccessInv'
<1> USE DEF Past, WithReply, Counted
<1>0. turn \in Nat /\ \A g \in Turn : g \in Nat /\ (g <= turn => g # turn + 1)
  BY HostAssumption DEF TypeOK, TranscriptTypes, Turn
<1>1. CASE Deliver \/ StartJoin
  BY <1>1, SuccessKept DEF Deliver, StartJoin, payload, groups
<1>2. CASE FinishJoin
  <2>1. UNCHANGED <<turn, calls, results, member>> /\ pc' = "joined" /\ ~Active(turn)
    BY <1>2 DEF FinishJoin, payload, groups
  <2> QED  BY <2>1 DEF SuccessInv, Reached, Active
<1>3. CASE Resolve \/ Rebuild
  BY <1>3, ResolveReaches
<1>4. CASE AskUser \/ OutOfTurns
  BY <1>4, SettleReaches DEF AskUser, OutOfTurns, Settle, groups
<1>5. CASE ReadMemo \/ CallModel \/ WriteMemo
  BY <1>5, SuccessKept DEF ReadMemo, CallModel, WriteMemo, payload, groups
<1>6. CASE Submit
  <2>1. \A g \in Turn : g <= turn => member'[g] = member[g]
    BY <1>0, <1>6 DEF Submit, TypeOK
  <2> QED  BY <1>6, <2>1, SuccessKept DEF Submit, payload
<1>7. CASE WaitForGroup \/ WaitForReply \/ Continue \/ Done
  BY <1>7, SettleReaches DEF WaitForGroup, WaitForReply, Continue, Done, Settle, groups
<1>8. CASE Interrupt \/ PermanentFailure
  BY <1>8, SuccessKept DEF Interrupt, PermanentFailure, payload, groups
<1>9. CASE Upgrade
  BY <1>9, SuccessKept DEF Upgrade, memory, groups
<1>10. CASE EndGroupWait \/ EndReplyWait
  BY <1>10, SuccessKept DEF EndGroupWait, EndReplyWait, payload, groups, memory
<1>11. ASSUME NEW g \in Turn, Expire(g) PROVE SuccessInv'
  <2>1. \A h \in Turn, k \in Key : member'[h][k] = IF h = g THEN "none" ELSE member[h][k]
    BY <1>11 DEF Expire, TypeOK
  <2> QED  BY <1>11, <2>1, SuccessKept DEF Expire, payload, memory
<1>12. ASSUME NEW g \in Turn, NEW k \in Key, MemberEnd(g, k) PROVE SuccessInv'
  <2>1. PICK end \in {"ok", "failed"} :
          \A h \in Turn, l \in Key :
            member'[h][l] = IF h = g /\ l = k THEN end ELSE member[h][l]
    BY <1>12 DEF MemberEnd, TypeOK
  <2>2. member[g][k] = "pending"
    BY <1>12 DEF MemberEnd
  <2> QED  BY <1>12, <2>1, <2>2, SuccessKept DEF MemberEnd, payload, memory
<1>13. CASE UNCHANGED vars
  BY <1>13, SuccessKept DEF vars, payload, groups, memory
<1> QED
  BY <1>1, <1>2, <1>3, <1>4, <1>5, <1>6, <1>7, <1>8, <1>9, <1>10, <1>11, <1>12, <1>13
     DEF Next, Work

\* A call whose member succeeded has the success as its result, over joins that cancel,
\* redeliveries, rebuilt runs and expired groups.
THEOREM SuccessesAreRead == Spec => []SuccessesReach
<1>1. Init => AskInv /\ SuccessInv
  BY AskInit, SuccessInit
<1>2. HostInv /\ (AskInv /\ SuccessInv) /\ [Next]_vars => (AskInv /\ SuccessInv)'
  BY AskStep, SuccessStep DEF HostInv
<1>3. HostInv /\ (AskInv /\ SuccessInv) => SuccessesReach
  <2> SUFFICES ASSUME HostInv, SuccessInv, NEW g \in 0 .. turn, NEW i \in ToolCalls(calls[g]),
                      member[g][KeyOf(calls[g], i)] = "ok", results[g][i] # "none"
               PROVE  results[g][i] = Chunk(calls[g][i])
    BY DEF SuccessesReach
  <2>1. g \in Turn /\ g <= turn
    BY HostAssumption DEF HostInv, TypeOK, TranscriptTypes, Turn
  <2> QED  BY <2>1 DEF SuccessInv, Reached
<1> QED  BY <1>1, <1>2, <1>3, HostInvariant, PTL DEF Spec

-----------------------------------------------------------------------------
(* The members of the groups belong to the reply that the step keeps. *)

\* A step with a memo has a turn left and no question, so that it settles with the reply.
CallInv ==
  /\ MembersHaveCalls
  /\ pc \in Counted => memo = reply
  /\ pc \in {"calling", "replied"} => memo = Missing
  /\ memo # Missing => turn < Turns /\ ~(decodes /\ MayAsk /\ OpenQuestions # {})

\* The call of the reply r that the member k is for.
CalledBy(r, k) == \E i \in ToolCalls(r) : KeyOf(r, i) = k

LEMMA CalledMembers ==
  MembersHaveCalls <=>
    \A g \in Turn, k \in Key : member[g][k] # "none" =>
      /\ g <= turn => calls[g] # Missing /\ g <= turn + 1 /\ CalledBy(calls[g], k)
      /\ ~(g <= turn) => memo # Missing /\ g <= turn + 1 /\ CalledBy(memo, k)
BY DEF MembersHaveCalls, CalledBy

LEMMA CallsKept ==
  ASSUME TypeOK, CallInv, UNCHANGED <<turn, calls, results, question, memo>>,
         decodes' => decodes,
         pc' \in Counted => \/ pc \in Counted /\ reply' = reply
                            \/ memo # Missing /\ reply' = memo,
         pc' \in {"calling", "replied"} => pc \in {"calling", "replied"} \/ memo = Missing,
         \A g \in Turn, k \in Key : member'[g][k] # "none" => member[g][k] # "none"
  PROVE  CallInv'
<1>1. MembersHaveCalls'
  BY CalledMembers DEF CallInv, MembersHaveCalls
<1>2. OpenQuestions' = OpenQuestions
  BY DEF Open, OpenQuestions, Unanswered, Questions
<1>3. MayAsk' => MayAsk
  BY DEF MayAsk, Resolved, TypeOK
<1> QED  BY <1>1, <1>2, <1>3 DEF CallInv

LEMMA SettleKeepsCalls ==
  ASSUME TypeOK, TurnsInv, AskInv, CallInv, pc' = "idle", memo' = Missing, UNCHANGED member,
         \/ Record /\ pc \in Counted
         \/ UNCHANGED <<turn, calls>> /\ memo = Missing
  PROVE  CallInv'
<1>1. turn \in Nat /\ \A g \in Turn : g \in Nat
  BY HostAssumption DEF TypeOK, TranscriptTypes, Turn
<1>2. CASE Record /\ pc \in Counted
  <2>1. turn' = turn + 1 /\ turn + 1 \in Turn /\ calls' = [calls EXCEPT ![turn + 1] = reply]
    BY <1>2, RecordTypes DEF Record
  <2>2. memo = reply /\ reply # Missing
    BY <1>2, HostAssumption DEF CallInv, TypeOK
  <2>3. ASSUME NEW g \in Turn, NEW k \in Key, member[g][k] # "none"
        PROVE  g <= turn + 1 /\ calls'[g] # Missing /\ CalledBy(calls'[g], k)
    <3>1. CASE g <= turn
      <4>1. calls'[g] = calls[g]
        BY <1>1, <2>1, <3>1 DEF TypeOK, TranscriptTypes
      <4> QED  BY <2>3, <3>1, <4>1, CalledMembers DEF CallInv
    <3>2. CASE ~(g <= turn)
      <4>1. g <= turn + 1 /\ CalledBy(memo, k)
        BY <2>3, <3>2, CalledMembers DEF CallInv
      <4>2. calls'[g] = reply
        BY <1>1, <2>1, <3>2, <4>1 DEF TypeOK, TranscriptTypes
      <4> QED  BY <2>2, <4>1, <4>2
    <3> QED  BY <3>1, <3>2
  <2>4. MembersHaveCalls'
    BY <1>1, <2>1, <2>3 DEF MembersHaveCalls, CalledBy
  <2> QED  BY <2>4 DEF CallInv, Counted
<1>3. CASE UNCHANGED <<turn, calls>> /\ memo = Missing
  <2>1. MembersHaveCalls'
    BY <1>3 DEF CallInv, MembersHaveCalls
  <2> QED  BY <2>1 DEF CallInv, Counted
<1> QED  BY <1>2, <1>3

LEMMA SubmitKeepsCalls ==
  ASSUME TypeOK, TurnsInv, AskInv, CallInv, Submit
  PROVE  CallInv'
<1>1. /\ turn \in Nat /\ turn + 1 \in Turn /\ ~(turn + 1 <= turn)
      /\ \A g \in Turn : g \in Nat
  BY HostAssumption
     DEF Submit, TypeOK, TranscriptTypes, TurnsInv, WithReply, Counted, Turn
<1>2. memo = reply /\ memo # Missing /\ UNCHANGED <<turn, calls, memo, reply>>
  BY HostAssumption DEF Submit, CallInv, Counted, TypeOK, payload, queue
<1>3. ASSUME NEW g \in Turn, NEW k \in Key, member'[g][k] # "none"
      PROVE  member[g][k] # "none" \/ (g = turn + 1 /\ CalledBy(reply, k))
  <2>1. CASE g = turn + 1 /\ k \in Members(reply)
    BY <2>1 DEF Members, CalledBy
  <2>2. CASE ~(g = turn + 1 /\ k \in Members(reply))
    BY <1>1, <1>3, <2>2 DEF Submit, TypeOK
  <2> QED  BY <2>1, <2>2
<1>4. ASSUME NEW g \in Turn, NEW k \in Key, member'[g][k] # "none"
      PROVE  /\ g <= turn => calls[g] # Missing /\ g <= turn + 1 /\ CalledBy(calls[g], k)
             /\ ~(g <= turn) => memo # Missing /\ g <= turn + 1 /\ CalledBy(memo, k)
  <2>1. CASE member[g][k] # "none"
    BY <2>1, CalledMembers DEF CallInv
  <2>2. CASE g = turn + 1 /\ CalledBy(reply, k)
    BY <1>1, <1>2, <2>2
  <2> QED  BY <1>3, <1>4, <2>1, <2>2
<1>5. MembersHaveCalls'
  BY <1>2, <1>4 DEF MembersHaveCalls, CalledBy
<1>6. OpenQuestions' = OpenQuestions /\ MayAsk' = MayAsk /\ decodes' = decodes
  BY DEF Submit, payload, queue, Open, OpenQuestions, Unanswered, Questions, MayAsk, Resolved
<1>7. pc' = "submitted"
  BY DEF Submit
<1> QED  BY <1>2, <1>5, <1>6, <1>7 DEF CallInv

LEMMA CallStep ==
  ASSUME HostInv, AskInv, CallInv, [Next]_vars
  PROVE  CallInv'
<1> USE DEF Counted
<1>0. TypeOK /\ TurnsInv /\ TranscriptInv
  BY DEF HostInv
<1>1. CASE Deliver \/ StartJoin \/ FinishJoin
  BY <1>0, <1>1, CallsKept DEF Deliver, StartJoin, FinishJoin, payload, queue, groups
<1>2. CASE Resolve \/ Rebuild
  BY <1>0, <1>2, CallsKept DEF Resolve, Rebuild, payload, queue, groups
<1>3. CASE AskUser \/ OutOfTurns
  <2>1. memo = Missing
    <3>1. CASE AskUser
      BY <3>1 DEF AskUser, CallInv, AskInv, Past
    <3>2. CASE OutOfTurns
      <4>1. turn \in Nat /\ Turns \in Nat /\ budget = 0 /\ budget = Turns - turn
        BY <1>0, <3>2, HostAssumption
           DEF OutOfTurns, TurnsInv, TypeOK, TranscriptTypes, Turn
      <4> QED  BY <4>1 DEF CallInv
    <3> QED  BY <1>3, <3>1, <3>2
  <2> QED  BY <1>0, <1>3, <2>1, SettleKeepsCalls DEF AskUser, OutOfTurns, Settle, groups
<1>4. CASE ReadMemo
  BY <1>0, <1>4, CallsKept DEF ReadMemo, payload, queue, groups
<1>5. CASE CallModel
  BY <1>0, <1>5, CallsKept DEF CallModel, payload, queue, groups
<1>6. CASE WriteMemo
  <2>1. /\ memo = Missing /\ memo' = reply /\ reply' = reply /\ pc' = "ready"
        /\ UNCHANGED <<payload, groups, signal>>
    BY <1>6 DEF WriteMemo, CallInv
  <2>2. turn < Turns /\ UNCHANGED <<turn, calls, member>>
    BY <1>0, <1>6, <2>1 DEF WriteMemo, TurnsInv, WithReply, payload, groups
  <2>3. MembersHaveCalls'
    BY <2>1, <2>2 DEF CallInv, MembersHaveCalls
  <2>4. ~(decodes /\ MayAsk /\ OpenQuestions # {})
    <3>1. ~Asks
      BY <1>0, <1>6 DEF WriteMemo, TranscriptInv, WithReply, Asks, Unanswered
    <3> QED  BY <1>6, <3>1 DEF WriteMemo, AskInv, Past, WithReply
  <2>5. OpenQuestions' = OpenQuestions /\ MayAsk' = MayAsk /\ decodes' = decodes
    BY <2>1 DEF payload, Open, OpenQuestions, Unanswered, Questions, MayAsk, Resolved
  <2> QED  BY <2>1, <2>2, <2>3, <2>4, <2>5 DEF CallInv
<1>7. CASE Submit
  BY <1>0, <1>7, SubmitKeepsCalls
<1>8. CASE WaitForGroup \/ WaitForReply \/ Continue \/ Done
  BY <1>0, <1>8, SettleKeepsCalls DEF WaitForGroup, WaitForReply, Continue, Done, Settle, groups
<1>9. CASE Interrupt \/ PermanentFailure
  BY <1>0, <1>9, CallsKept DEF Interrupt, PermanentFailure, payload, queue, groups
<1>10. CASE Upgrade
  BY <1>0, <1>10, CallsKept DEF Upgrade, queue, groups, memory
<1>11. CASE EndGroupWait \/ EndReplyWait
  BY <1>0, <1>11, CallsKept DEF EndGroupWait, EndReplyWait, payload, groups, memory
<1>12. ASSUME NEW g \in Turn, Expire(g) PROVE CallInv'
  <2>1. \A h \in Turn, k \in Key : member'[h][k] = IF h = g THEN "none" ELSE member[h][k]
    BY <1>0, <1>12 DEF Expire, TypeOK
  <2> QED  BY <1>0, <1>12, <2>1, CallsKept DEF Expire, payload, queue, memory
<1>13. ASSUME NEW g \in Turn, NEW k \in Key, MemberEnd(g, k) PROVE CallInv'
  <2>1. \A h \in Turn, l \in Key :
          h # g \/ l # k => member'[h][l] = member[h][l]
    BY <1>0, <1>13 DEF MemberEnd, TypeOK
  <2>2. member[g][k] = "pending"
    BY <1>13 DEF MemberEnd
  <2> QED  BY <1>0, <1>13, <2>1, <2>2, CallsKept DEF MemberEnd, payload, queue, memory
<1>14. CASE UNCHANGED vars
  BY <1>0, <1>14, CallsKept DEF vars, payload, queue, groups, memory
<1> QED
  BY <1>1, <1>2, <1>3, <1>4, <1>5, <1>6, <1>7, <1>8, <1>9, <1>10, <1>11, <1>12, <1>13, <1>14
     DEF Next, Work

\* A member runs only for a call of a reply that the memo or the transcript has: the memo
\* is written before the submission, and a step that has one settles with its reply.
THEOREM MembersAreCalled == Spec => []MembersHaveCalls
<1>1. Init => AskInv /\ CallInv
  BY AskInit DEF Init, CallInv, MembersHaveCalls, Counted
<1>2. HostInv /\ (AskInv /\ CallInv) /\ [Next]_vars => (AskInv /\ CallInv)'
  BY AskStep, CallStep DEF HostInv
<1>3. AskInv /\ CallInv => MembersHaveCalls
  BY DEF CallInv
<1> QED  BY <1>1, <1>2, <1>3, HostInvariant, PTL DEF Spec

-----------------------------------------------------------------------------
(* The host uses its groups as the tool jobs let it. *)

\* The group g, as the jobs that are its members promise it.
Tools(g) == INSTANCE GroupMembers WITH Job <- Key, member <- member[g]
ToolsStep(g) == [Tools(g)!Next \/ Tools(g)!Expire]_(member[g])

LEMMA GroupsStep ==
  ASSUME HostInv, [Next]_vars, NEW g \in Turn
  PROVE  ToolsStep(g)
<1>0. TypeOK /\ TurnsInv
  BY DEF HostInv
<1> USE DEF ToolsStep
<1>1. CASE Submit
  <2>1. turn + 1 \in Turn /\ pc = "ready"
    BY <1>0, <1>1, HostAssumption DEF Submit, TypeOK, TranscriptTypes, TurnsInv, WithReply, Counted,
       Turn
  <2>2. CASE g # turn + 1
    BY <1>0, <1>1, <2>1, <2>2 DEF Submit, TypeOK
  <2>3. CASE g = turn + 1
    <3>1. member'[g] = [k \in Key |-> IF k \in Members(reply) /\ member[g][k] # "ok"
                                      THEN "pending" ELSE member[g][k]]
      BY <1>0, <1>1, <2>1, <2>3 DEF Submit, TypeOK
    <3>2. Members(reply) \cap Key \in SUBSET Key
      OBVIOUS
    <3>3. Tools(g)!Submit(Members(reply) \cap Key)
      BY <3>1 DEF Tools!Submit
    <3> QED  BY <3>2, <3>3 DEF Tools!Next
  <2> QED  BY <2>2, <2>3
<1>2. ASSUME NEW h \in Turn, Expire(h) PROVE ToolsStep(g)
  <2>1. CASE g # h
    BY <1>0, <1>2, <2>1 DEF Expire, TypeOK
  <2>2. CASE g = h
    BY <1>0, <1>2, <2>2 DEF Expire, Active, TypeOK, Tools!Expire
  <2> QED  BY <2>1, <2>2
<1>3. ASSUME NEW h \in Turn, NEW k \in Key, MemberEnd(h, k) PROVE ToolsStep(g)
  <2>1. CASE g # h
    BY <1>0, <1>3, <2>1 DEF MemberEnd, TypeOK
  <2>2. CASE g = h
    <3>1. Tools(g)!End(k)
      BY <1>0, <1>3, <2>2 DEF MemberEnd, TypeOK, Tools!End
    <3> QED  BY <3>1 DEF Tools!Next
  <2> QED  BY <2>1, <2>2
<1>4. CASE UNCHANGED member
  BY <1>4
<1>5. CASE Next
  <2>1. CASE Work /\ ~Submit
    BY <1>4, <2>1 DEF Work, Deliver, StartJoin, FinishJoin, Resolve, Rebuild, AskUser, OutOfTurns,
       ReadMemo, CallModel, WriteMemo, WaitForGroup, WaitForReply, Continue, Done, Settle, groups
  <2>2. CASE Interrupt \/ Upgrade \/ PermanentFailure \/ EndGroupWait \/ EndReplyWait
    BY <1>4, <2>2 DEF Interrupt, Upgrade, PermanentFailure, EndGroupWait, EndReplyWait, groups
  <2> QED  BY <1>1, <1>2, <1>3, <1>5, <2>1, <2>2 DEF Next
<1> QED  BY <1>4, <1>5 DEF vars, groups

\* Every group of the agent, over redelivered submissions and the retention that forgets it,
\* is what ToolJobs implements: an active member is never forgotten, a success never lost but
\* with its whole group.
THEOREM HostUsesGroups == Spec => (\A g \in Turn : Tools(g)!Init) /\ [][\A g \in Turn : ToolsStep(g)]_vars
<1>1. Init => \A g \in Turn : Tools(g)!Init
  BY DEF Init, Tools!Init
<1>2. HostInv /\ [Next]_vars => \A g \in Turn : ToolsStep(g)
  BY GroupsStep
<1> QED  BY <1>1, <1>2, HostInvariant, PTL DEF Spec
=============================================================================
