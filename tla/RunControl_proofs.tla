------------------------- MODULE RunControl_proofs -------------------------
(* Theorems about RunControl, for every value of its constants. *)
EXTENDS RunControl, TLAPS

-----------------------------------------------------------------------------
(* Types. *)

LEMMA ControlInit == Init => TypeOK
<1> SUFFICES ASSUME Init PROVE TypeOK
  OBVIOUS
<1>1. (CHOOSE r \in Run : TRUE) \in Run
  BY ControlAssumption
<1> QED
  BY <1>1 DEF Init, TypeOK, Unfinished, Active, Terminal

LEMMA OpeningTypes ==
  ASSUME TypeOK, Takes
  PROVE  faults' \in Nat /\ broken' \in BOOLEAN
<1>1. broken' = FALSE
  BY DEF Takes
<1>2. faults' \in Nat
  BY DEF TypeOK, Takes
<1> QED
  BY <1>1, <1>2

\* The actions of the processes that open the store, and of those that end.
LEMMA ProcessTypes ==
  ASSUME TypeOK, NEW p \in Process, NEW r \in Run,
         \/ StartRun(p, r) \/ Guard(p, r, FALSE) \/ Guard(p, r, TRUE)
         \/ Resume(p) \/ Fenced(p) \/ Crash(p) \/ Finish(p) \/ Interrupt(p)
         \/ WorkerFails(p) \/ ExitFailed(p) \/ Leave(p) \/ Close(p)
  PROVE  TypeOK'
<1>1. CASE StartRun(p, r)
  <2>1. PICK place \in Left : state' = [Requeued(place) EXCEPT ![r] = "pending"]
    BY <1>1 DEF StartRun
  <2>2. Requeued(place) \in [Run -> {"absent"} \cup Unfinished \cup Terminal]
    BY DEF TypeOK, Requeued, Left, Unfinished, Active
  <2>3. state' \in [Run -> {"absent"} \cup Unfinished \cup Terminal]
    BY <2>1, <2>2 DEF Unfinished, Active
  <2>4. faults' \in Nat /\ broken' \in BOOLEAN
    BY <1>1, OpeningTypes DEF StartRun
  <2> QED
    BY <1>1, <2>3, <2>4 DEF TypeOK, StartRun, Open, Goes, clients
<1>2. CASE Guard(p, r, FALSE) \/ Guard(p, r, TRUE)
  BY <1>2 DEF TypeOK, Guard, Goes, store, writer, entries, clients, ghosts
<1>3. CASE Resume(p)
  <2>1. state' \in [Run -> {"absent"} \cup Unfinished \cup Terminal]
    BY <1>3 DEF TypeOK, Resume, Requeued, Left, Unfinished, Active
  <2>2. faults' \in Nat /\ broken' \in BOOLEAN
    BY <1>3, OpeningTypes DEF Resume
  <2> QED
    BY <1>3, <2>1, <2>2 DEF TypeOK, Resume, Open, Goes, clients
<1>4. CASE Fenced(p)
  BY <1>4 DEF TypeOK, Fenced, Goes, store, writer, entries, clients, ghosts
<1>5. CASE Crash(p)
  <2>1. pc' = [pc EXCEPT ![p] = "off"] /\ faults' = faults + 1
    BY <1>5 DEF Crash, Goes
  <2>2. broken \in BOOLEAN /\ Holds(p) \in BOOLEAN
    BY DEF TypeOK, Holds
  <2>3. broken' \in BOOLEAN
    BY <1>5, <2>2 DEF Crash
  <2> QED
    BY <1>5, <2>1, <2>3 DEF TypeOK, Crash, store, writer, entries, clients
<1>6. CASE Finish(p) \/ Interrupt(p) \/ ExitFailed(p) \/ Leave(p)
  BY <1>6 DEF TypeOK, Finish, Interrupt, ExitFailed, Leave, Goes,
              store, writer, entries, clients, ghosts
<1>7. CASE Close(p)
  BY <1>7 DEF TypeOK, Close, Goes, store, writer, entries, clients, ghosts
<1>8. CASE WorkerFails(p)
  <2>1. PICK there \in {"off", "leaving"} : pc' = [pc EXCEPT ![p] = there]
    BY <1>8 DEF WorkerFails, Goes
  <2>2. faults' = faults + 1 /\ broken' = TRUE
    BY <1>8 DEF WorkerFails
  <2> QED
    BY <1>8, <2>1, <2>2 DEF TypeOK, WorkerFails, store, writer, entries, clients
<1> QED
  BY <1>1, <1>2, <1>3, <1>4, <1>5, <1>6, <1>7, <1>8

\* The actions of the steps and the tool jobs.
LEMMA JobTypes ==
  ASSUME TypeOK, NEW p \in Process, NEW r \in Run,
         Claim(p, r) \/ StepEnd(p, r) \/ StepRetry(p, r) \/ ToolClaim(p, r)
         \/ ToolEnd(p, r) \/ WaitEnds(p, r) \/ Bury(p, r) \/ ExpireStep(p, r)
  PROVE  TypeOK'
<1>1. Resolved(r) \in {"none", "open", "assumed"} \cup Client
  BY DEF TypeOK, Resolved
<1>2. CASE StepEnd(p, r)
  BY <1>1, <1>2
     DEF TypeOK, StepEnd, writer, entries, workers, clients, ghosts, Unfinished, Active, Terminal
<1>3. CASE Claim(p, r) \/ StepRetry(p, r) \/ WaitEnds(p, r)
  BY <1>3 DEF TypeOK, Claim, StepRetry, WaitEnds, writer, entries, workers, clients, ghosts,
              Unfinished, Active, Terminal
<1>4. CASE ToolClaim(p, r) \/ ToolEnd(p, r)
  BY <1>4 DEF TypeOK, ToolClaim, ToolEnd, writer, entries, workers, clients, ghosts,
              Unfinished, Active, Terminal
<1>5. CASE Bury(p, r) \/ ExpireStep(p, r)
  BY <1>5 DEF TypeOK, Bury, ExpireStep, Left, writer, entries, workers, clients, ghosts,
              Unfinished, Active, Terminal
<1> QED
  BY <1>2, <1>3, <1>4, <1>5

\* The actions of the inbox and the control queue.
LEMMA InboxTypes ==
  ASSUME TypeOK, NEW p \in Process, NEW c \in Client,
         \/ DrainCancel(p, c) \/ DrainReply(p, c) \/ ClaimCommand(p, c) \/ ApplyCancel(p, c)
         \/ ExpireCommand(p, c)
  PROVE  TypeOK'
<1>1. CASE DrainCancel(p, c) \/ ClaimCommand(p, c) \/ ExpireCommand(p, c)
  BY <1>1 DEF TypeOK, DrainCancel, ClaimCommand, ExpireCommand, Record, store, writer, workers, clients, ghosts
<1>2. CASE DrainReply(p, c)
  BY <1>2 DEF TypeOK, DrainReply, Record, writer, workers, clients, ghosts, Unfinished, Active
<1>3. CASE ApplyCancel(p, c)
  BY <1>3 DEF TypeOK, ApplyCancel, writer, workers, clients, ghosts, Unfinished, Active, Terminal
<1> QED
  BY <1>1, <1>2, <1>3

\* The actions of the commands.
LEMMA ClientTypes ==
  ASSUME TypeOK, NEW c \in Client,
         ReadRun(c) \/ Send(c) \/ ReadBeat(c) \/ PollReply(c) \/ PollCancel(c)
         \/ ReadState(c) \/ PollEnds(c)
  PROVE  TypeOK'
<1>1. CASE ReadRun(c) \/ Send(c) \/ ReadBeat(c) \/ PollEnds(c)
  BY <1>1 DEF TypeOK, ReadRun, Send, ReadBeat, PollEnds, Moves, Tells,
              store, writer, entries, workers, ghosts
<1>2. CASE PollReply(c) \/ PollCancel(c) \/ ReadState(c)
  BY <1>2 DEF TypeOK, PollReply, PollCancel, ReadState, Moves, Tells,
              store, writer, entries, workers, ghosts
<1> QED
  BY <1>1, <1>2

LEMMA ControlStep == TypeOK /\ [Next]_vars => TypeOK'
<1> SUFFICES ASSUME TypeOK, [Next]_vars PROVE TypeOK'
  OBVIOUS
<1>1. CASE UNCHANGED vars
  BY <1>1 DEF TypeOK, vars, store, writer, entries, workers, clients, ghosts
<1>2. CASE Next
  BY <1>2, ControlAssumption, ProcessTypes, JobTypes, InboxTypes, ClientTypes DEF Next
<1> QED
  BY <1>1, <1>2

\* The type invariant of the processes, the store, the inbox and the commands.
THEOREM ControlTypeCorrect == Spec => []TypeOK
<1> QED
  BY ControlInit, ControlStep, PTL DEF Spec

-----------------------------------------------------------------------------
(* The answer to the question of a run. *)

\* A step that waits has an open question, and no delivered reply.  A delivered reply
\* is the signal of its step until the payload has it.
Answered(c) ==
  LET r == about[c]
  IN  \/ answer[r] = c
      \/ /\ answer[r] = "open"
         /\ \/ signal[r] = c /\ state[r] \in {"pending", "running", "dead"}
            \/ state[r] \in {"cancelled", "failed"}

AnswerInv ==
  /\ \A r \in Run : state[r] = "waiting" => answer[r] = "open"
  /\ \A c \in Client : outcome[c] = "delivered" => Answered(c)

LEMMA ClientIsNoWord == \A c \in Client : c \notin {"none", "open", "assumed"}
BY ControlAssumption

\* Opening the store keeps the signals, and requeues a step without its end.
LEMMA OpenKeepsAnswers ==
  ASSUME TypeOK, AnswerInv, NEW p \in Process, NEW r \in Run,
         StartRun(p, r) \/ Resume(p)
  PROVE  AnswerInv'
<1>1. /\ UNCHANGED <<answer, signal, about, outcome>>
      /\ \A s \in Run : \/ state'[s] = state[s]
                        \/ state[s] \in {"absent", "running"} /\ state'[s] \in {"pending", "dead"}
  <2>1. CASE StartRun(p, r)
    BY <2>1 DEF TypeOK, StartRun, Open, Requeued, Left, clients
  <2>2. CASE Resume(p)
    BY <2>2 DEF TypeOK, Resume, Open, Requeued, Left, clients
  <2> QED
    BY <2>1, <2>2
<1>2. \A c \in Client : about[c] \in Run
  BY DEF TypeOK
<1> QED
  BY <1>1, <1>2 DEF AnswerInv, Answered

\* The step that reads the signal fixes the answer, or ends the run without a report.
LEMMA StepKeepsAnswers ==
  ASSUME TypeOK, AnswerInv, NEW p \in Process, NEW r \in Run, StepEnd(p, r)
  PROVE  AnswerInv'
<1>1. PICK next \in {"pending", "waiting", "group"} \cup Terminal :
        /\ next = "waiting" => answer[r] = "none"
        /\ state' = [state EXCEPT ![r] = next]
        /\ answer' = [answer EXCEPT ![r] = IF next = "waiting" THEN "open"
                                           ELSE IF next \in {"cancelled", "failed"}
                                                THEN answer[r] ELSE Resolved(r)]
  BY DEF StepEnd
<1>2. /\ state[r] = "running" /\ UNCHANGED <<outcome, about>>
      /\ signal' = [signal EXCEPT ![r] = "none"]
  BY DEF StepEnd, entries, clients
<1>3. \A s \in Run : state'[s] = "waiting" => answer'[s] = "open"
  BY <1>1 DEF TypeOK, AnswerInv
<1>4. ASSUME NEW c \in Client, outcome'[c] = "delivered"
      PROVE  Answered(c)'
  <2>1. Answered(c) /\ about[c] \in Run /\ about'[c] = about[c]
    BY <1>2, <1>4 DEF AnswerInv, TypeOK
  <2>2. CASE about[c] # r
    BY <2>1, <2>2, <1>1, <1>2 DEF Answered, TypeOK
  <2>3. CASE about[c] = r
    <3>1. answer[r] = c \/ (answer[r] = "open" /\ signal[r] = c)
      BY <2>1, <2>3, <1>2 DEF Answered
    <3>2. Resolved(r) = c
      BY <3>1, ClientIsNoWord DEF Resolved
    <3>3. next # "waiting"
      BY <3>1, <1>1, ClientIsNoWord
    <3>4. answer'[r] = c \/ (answer'[r] = answer[r] /\ state'[r] \in {"cancelled", "failed"})
      BY <3>2, <3>3, <1>1 DEF TypeOK
    <3> QED
      BY <3>1, <3>4, <2>1, <2>3 DEF Answered
  <2> QED
    BY <2>2, <2>3
<1> QED
  BY <1>3, <1>4 DEF AnswerInv

\* The steps and tool jobs that leave the signals and the payload alone.
LEMMA JobsKeepAnswers ==
  ASSUME TypeOK, AnswerInv, NEW p \in Process, NEW r \in Run,
         \/ Claim(p, r) \/ StepRetry(p, r) \/ ToolClaim(p, r) \/ ToolEnd(p, r) \/ WaitEnds(p, r)
         \/ ExpireStep(p, r)
  PROVE  AnswerInv'
<1>1. /\ UNCHANGED <<answer, signal, outcome, about>>
      /\ \A s \in Run : \/ state'[s] = state[s]
                        \/ /\ state[s] \in {"pending", "running"}
                           /\ state'[s] \in {"pending", "running", "dead"}
                        \/ state[s] \in {"waiting", "group"} /\ state'[s] = "pending"
  BY DEF TypeOK, Claim, StepRetry, ToolClaim, ToolEnd, WaitEnds, ExpireStep, Left, entries, clients
<1>2. \A c \in Client : about[c] \in Run
  BY DEF TypeOK
<1> QED
  BY <1>1, <1>2, ClientIsNoWord DEF AnswerInv, Answered

\* A dead step ends its run without a report.
LEMMA BuryKeepsAnswers ==
  ASSUME TypeOK, AnswerInv, NEW p \in Process, NEW r \in Run, Bury(p, r)
  PROVE  AnswerInv'
<1>1. /\ UNCHANGED <<answer, outcome, about>> /\ state[r] = "dead"
      /\ state' = [state EXCEPT ![r] = "failed"] /\ signal' = [signal EXCEPT ![r] = "none"]
  BY DEF Bury, entries, clients
<1>2. \A c \in Client : about[c] \in Run /\ (Answered(c) => Answered(c)')
  BY <1>1 DEF TypeOK, Answered
<1> QED
  BY <1>1, <1>2 DEF AnswerInv, TypeOK

\* A reply is delivered to a step that waits, so that it is the first of its run.
LEMMA ReplyKeepsAnswers ==
  ASSUME TypeOK, AnswerInv, NEW p \in Process, NEW c \in Client, DrainReply(p, c)
  PROVE  AnswerInv'
<1>1. UNCHANGED <<answer, about>> /\ about[c] \in Run
  BY DEF DrainReply, clients, TypeOK
<1>2. CASE state[about[c]] # "waiting"
  <2>1. UNCHANGED <<state, signal>> /\ outcome' = [outcome EXCEPT ![c] = "notWaiting"]
    BY <1>2 DEF DrainReply, Record
  <2> QED
    BY <1>1, <2>1 DEF AnswerInv, Answered, TypeOK
<1>3. CASE state[about[c]] = "waiting"
  <2>1. /\ outcome' = [outcome EXCEPT ![c] = "delivered"]
        /\ state' = [state EXCEPT ![about[c]] = "pending"]
        /\ signal' = [signal EXCEPT ![about[c]] = c]
    BY <1>3 DEF DrainReply, Record
  <2>2. answer[about[c]] = "open"
    BY <1>1, <1>3 DEF AnswerInv
  <2>3. ASSUME NEW d \in Client, outcome'[d] = "delivered"
        PROVE  Answered(d)'
    <3>1. CASE d = c
      BY <3>1, <1>1, <2>1, <2>2 DEF Answered, TypeOK
    <3>2. CASE d # c
      <4>1. Answered(d) /\ about[d] \in Run
        BY <2>1, <2>3, <3>2 DEF AnswerInv, TypeOK
      <4>2. about[d] # about[c]
        BY <4>1, <1>3, <2>2, ClientIsNoWord DEF Answered
      <4> QED
        BY <4>1, <4>2, <1>1, <2>1 DEF Answered, TypeOK
    <3> QED
      BY <3>1, <3>2
  <2>4. \A s \in Run : state'[s] = "waiting" => answer'[s] = "open"
    BY <1>1, <2>1 DEF AnswerInv, TypeOK
  <2> QED
    BY <2>3, <2>4 DEF AnswerInv
<1> QED
  BY <1>2, <1>3

\* A cancellation ends the run of a reply before its step reads it.
LEMMA CommandsKeepAnswers ==
  ASSUME TypeOK, AnswerInv, NEW p \in Process, NEW c \in Client,
         DrainCancel(p, c) \/ ClaimCommand(p, c) \/ ApplyCancel(p, c) \/ ExpireCommand(p, c)
  PROVE  AnswerInv'
<1>1. /\ UNCHANGED <<answer, signal, about>>
      /\ \A d \in Client : outcome'[d] = "delivered" => outcome[d] = "delivered"
      /\ \A s \in Run : state'[s] = state[s] \/ (state[s] \in Active /\ state'[s] = "cancelled")
  BY DEF TypeOK, DrainCancel, ClaimCommand, ApplyCancel, ExpireCommand, Record, store, clients, Active
<1>2. \A d \in Client : about[d] \in Run
  BY DEF TypeOK
<1> QED
  BY <1>1, <1>2 DEF AnswerInv, Answered

\* Every other action leaves all of it alone.
LEMMA OthersKeepAnswers ==
  ASSUME AnswerInv, UNCHANGED <<state, signal, answer, outcome, about>>
  PROVE  AnswerInv'
BY DEF AnswerInv, Answered

LEMMA AnswerStep == TypeOK /\ AnswerInv /\ [Next]_vars => AnswerInv'
<1> SUFFICES ASSUME TypeOK, AnswerInv, [Next]_vars PROVE AnswerInv'
  OBVIOUS
<1>1. CASE UNCHANGED vars
  BY <1>1, OthersKeepAnswers DEF vars, store, entries, clients
<1>2. ASSUME NEW p \in Process, Fenced(p) \/ Crash(p) \/ Finish(p) \/ Interrupt(p)
                                \/ WorkerFails(p) \/ ExitFailed(p) \/ Leave(p) \/ Close(p)
      PROVE  AnswerInv'
  <2>1. UNCHANGED <<state, signal, answer, outcome, about>>
    BY <1>2 DEF Fenced, Crash, Finish, Interrupt, WorkerFails, ExitFailed, Leave, Close, store,
                entries, clients
  <2> QED
    BY <2>1, OthersKeepAnswers
<1>3. ASSUME NEW p \in Process, NEW r \in Run, Guard(p, r, FALSE) \/ Guard(p, r, TRUE)
      PROVE  AnswerInv'
  BY <1>3, OthersKeepAnswers DEF Guard, store, entries, clients
<1>4. ASSUME NEW c \in Client, ReadRun(c) \/ Send(c) \/ ReadBeat(c) \/ PollReply(c)
                               \/ PollCancel(c) \/ ReadState(c) \/ PollEnds(c)
      PROVE  AnswerInv'
  <2>1. UNCHANGED <<state, signal, answer, outcome, about>>
    BY <1>4 DEF ReadRun, Send, ReadBeat, PollReply, PollCancel, ReadState, PollEnds, store, entries
  <2> QED
    BY <2>1, OthersKeepAnswers
<1>5. CASE Next
  BY <1>2, <1>3, <1>4, <1>5, ControlAssumption, OpenKeepsAnswers, StepKeepsAnswers, JobsKeepAnswers,
     BuryKeepsAnswers, ReplyKeepsAnswers, CommandsKeepAnswers DEF Next
<1> QED
  BY <1>1, <1>5

\* A reply whose delivery was recorded is the answer of its run, over crashes, takeovers
\* and retries (resolve_reply, runner.rs:221).
THEOREM DeliveredAnswers == Spec => []DeliveredIsAnswer
<1>1. Init => AnswerInv
  BY DEF Init, AnswerInv
<1>2. AnswerInv => DeliveredIsAnswer
  BY DEF AnswerInv, Answered, DeliveredIsAnswer
<1> QED
  BY <1>1, <1>2, AnswerStep, ControlTypeCorrect, PTL DEF Spec

-----------------------------------------------------------------------------
(* The clean close. *)

\* A process that leaves has ended its steps and its commands, unless its worker failed,
\* and after the close no process has the store.
CloseInv ==
  /\ \A p \in Process : owner = p /\ pc[p] = "leaving" => broken \/ Drained
  /\ beat = "closed" => ~LiveOwner
  /\ ClosedLeavesNoClaim

\* A process with the store lets no step and no command be claimed once it leaves.
LEMMA WorkKeepsClose ==
  ASSUME TypeOK, CloseInv, NEW p \in Process, Holds(p),
         UNCHANGED <<owner, beat, pc, broken>>,
         \A q \in Process : owner = q /\ pc[q] = "leaving" /\ Drained => Drained'
  PROVE  CloseInv'
<1>1. beat' # "closed"
  BY DEF CloseInv, LiveOwner
<1>2. \A q \in Process : owner' = q /\ pc'[q] = "leaving" => broken' \/ Drained'
  BY DEF CloseInv
<1> QED
  BY <1>1, <1>2 DEF CloseInv, ClosedLeavesNoClaim

\* What neither touches the claims nor gives a process the store.
LEMMA OthersKeepClose ==
  ASSUME TypeOK, CloseInv, UNCHANGED <<state, tool, command, owner, beat>>, broken => broken',
         \A q \in Process : /\ pc'[q] = "leaving" => pc[q] = "leaving"
                            /\ pc[q] \in {"off", "resuming"} => pc'[q] \in {"off", "resuming"}
  PROVE  CloseInv'
<1>1. Claimed' = Claimed /\ (Drained => Drained')
  BY DEF Claimed, Drained
<1>2. \A q \in Process : owner' = q /\ pc'[q] = "leaving" => broken' \/ Drained'
  BY <1>1 DEF CloseInv
<1>3. ~LiveOwner => ~LiveOwner'
  BY DEF LiveOwner, Holds
<1> QED
  BY <1>1, <1>2, <1>3 DEF CloseInv, ClosedLeavesNoClaim

LEMMA CloseStep == TypeOK /\ CloseInv /\ [Next]_vars => CloseInv'
<1> SUFFICES ASSUME TypeOK, CloseInv, [Next]_vars PROVE CloseInv'
  OBVIOUS
<1>1. CASE UNCHANGED vars
  BY <1>1, OthersKeepClose DEF vars, store, writer, entries, workers, ghosts
<1>2. ASSUME NEW p \in Process, NEW r \in Run, StartRun(p, r) \/ Resume(p)
      PROVE  CloseInv'
  <2>1. owner' = p /\ beat' = "live" /\ pc'[p] = "serving"
    BY <1>2 DEF StartRun, Resume, Open, Goes, TypeOK
  <2> QED
    BY <2>1 DEF CloseInv, ClosedLeavesNoClaim
<1>3. ASSUME NEW p \in Process, NEW r \in Run,
             \/ Guard(p, r, FALSE) \/ Guard(p, r, TRUE) \/ Fenced(p) \/ Crash(p)
             \/ Finish(p) \/ Interrupt(p) \/ ExitFailed(p)
      PROVE  CloseInv'
  <2>1. UNCHANGED <<state, tool, command, owner, beat>>
    BY <1>3 DEF Guard, Fenced, Crash, Finish, Interrupt, ExitFailed, store, writer, entries
  <2>3. broken => broken'
    BY <1>3 DEF Guard, Fenced, Crash, Finish, Interrupt, ExitFailed, ghosts
  <2>2. PICK place \in {"off", "resuming", "draining", "interrupted"} :
          /\ pc' = [pc EXCEPT ![p] = place]
          /\ pc[p] \in {"off", "resuming"} => place \in {"off", "resuming"}
    BY <1>3 DEF Guard, Fenced, Crash, Finish, Interrupt, ExitFailed, Goes, Serves
  <2> QED
    BY <2>1, <2>2, <2>3, OthersKeepClose DEF TypeOK
<1>4. ASSUME NEW p \in Process, Leave(p)
      PROVE  CloseInv'
  <2>1. /\ UNCHANGED <<state, tool, command, owner, beat>> /\ Drained
        /\ owner = p /\ pc[p] \notin {"off", "resuming"}
    BY <1>4 DEF Leave, store, writer, entries
  <2>2. Drained' /\ beat' # "closed"
    BY <2>1 DEF Drained, CloseInv, LiveOwner, Holds
  <2> QED
    BY <2>2 DEF CloseInv, ClosedLeavesNoClaim
<1>5. ASSUME NEW p \in Process, Close(p)
      PROVE  CloseInv'
  <2>1. /\ UNCHANGED <<state, tool, command, owner, broken>> /\ owner = p /\ pc[p] = "leaving"
        /\ pc' = [pc EXCEPT ![p] = "off"] /\ \A r \in Run : tool[r] # "claimed"
    BY <1>5 DEF Close, Goes, store, entries, ghosts
  <2>2. broken \/ Drained
    BY <2>1 DEF CloseInv
  <2>3. ClosedLeavesNoClaim'
    BY <2>1, <2>2 DEF Drained, Claimed, ClosedLeavesNoClaim
  <2>4. ~LiveOwner' /\ \A q \in Process : owner' = q => pc'[q] = "off"
    BY <2>1 DEF LiveOwner, Holds, TypeOK
  <2> QED
    BY <2>3, <2>4 DEF CloseInv
<1>10. ASSUME NEW p \in Process, WorkerFails(p)
       PROVE  CloseInv'
  <2>1. owner = p /\ pc[p] \notin {"off", "resuming"} /\ UNCHANGED beat /\ broken'
    BY <1>10 DEF WorkerFails, Employs, writer
  <2>2. beat' # "closed"
    BY <2>1 DEF CloseInv, LiveOwner, Holds
  <2> QED
    BY <2>1, <2>2 DEF CloseInv, ClosedLeavesNoClaim
<1>6. ASSUME NEW p \in Process, NEW r \in Run,
             \/ Claim(p, r) \/ StepEnd(p, r) \/ StepRetry(p, r) \/ Bury(p, r)
             \/ ToolClaim(p, r) \/ ToolEnd(p, r) \/ WaitEnds(p, r) \/ ExpireStep(p, r)
      PROVE  CloseInv'
  <2>1. Holds(p) /\ UNCHANGED <<owner, beat, pc, command, broken>>
    BY <1>6 DEF Claim, StepEnd, StepRetry, Bury, ToolClaim, ToolEnd, WaitEnds, ExpireStep, Holds,
                Serves, Employs, Unattended, writer, workers, entries, ghosts
  <2>2. ASSUME NEW q \in Process, owner = q, pc[q] = "leaving", Drained
        PROVE  Drained'
    <3>1. ToolEnd(p, r)
      BY <1>6, <2>2
         DEF Claim, StepEnd, StepRetry, Bury, ToolClaim, WaitEnds, ExpireStep, Serves, Employs, Drained
    <3> QED
      BY <2>1, <2>2, <3>1 DEF ToolEnd, Drained, TypeOK
  <2> QED
    BY <2>1, <2>2, WorkKeepsClose
<1>7. ASSUME NEW p \in Process, NEW c \in Client,
             \/ DrainCancel(p, c) \/ DrainReply(p, c) \/ ClaimCommand(p, c) \/ ApplyCancel(p, c)
             \/ ExpireCommand(p, c)
      PROVE  CloseInv'
  <2>1. Holds(p) /\ UNCHANGED <<owner, beat, pc, broken>>
    BY <1>7 DEF DrainCancel, DrainReply, ClaimCommand, ApplyCancel, ExpireCommand, Holds, Serves,
                Employs, Unattended, writer, workers, ghosts
  <2>2. ASSUME NEW q \in Process, owner = q, pc[q] = "leaving", Drained
        PROVE  Drained'
    <3>1. CASE DrainCancel(p, c)
      BY <2>2, <3>1 DEF DrainCancel, Drained, TypeOK, store
    <3>2. CASE DrainReply(p, c)
      BY <2>2, <3>2 DEF DrainReply, Drained, TypeOK
    <3>3. CASE ClaimCommand(p, c) \/ ApplyCancel(p, c) \/ ExpireCommand(p, c)
      BY <2>2, <3>3 DEF ClaimCommand, ApplyCancel, ExpireCommand, Serves, Employs, Drained
    <3> QED
      BY <1>7, <3>1, <3>2, <3>3
  <2> QED
    BY <2>1, <2>2, WorkKeepsClose
<1>8. ASSUME NEW c \in Client, ReadRun(c) \/ Send(c) \/ ReadBeat(c) \/ PollReply(c)
                               \/ PollCancel(c) \/ ReadState(c) \/ PollEnds(c)
      PROVE  CloseInv'
  <2>1. UNCHANGED <<state, tool, command, owner, beat, pc, broken>>
    BY <1>8 DEF ReadRun, Send, ReadBeat, PollReply, PollCancel, ReadState, PollEnds,
                store, writer, entries, workers, ghosts
  <2> QED
    BY <2>1, OthersKeepClose
<1>9. CASE Next
  BY <1>2, <1>3, <1>4, <1>5, <1>6, <1>7, <1>8, <1>9, <1>10, ControlAssumption DEF Next
<1> QED
  BY <1>1, <1>9

\* After the close of the queue, which the tool runner's shut-down precedes, no tool job is
\* claimed, and a step or a command only if the worker of the last writer failed, which the
\* close does not tell (close_queue, main.rs:908, after main.rs:977).
THEOREM CloseLeavesNoClaim == Spec => []ClosedLeavesNoClaim
<1>1. Init => CloseInv
  BY ControlAssumption DEF Init, CloseInv, ClosedLeavesNoClaim
<1>2. CloseInv => ClosedLeavesNoClaim
  BY DEF CloseInv
<1> QED
  BY <1>1, <1>2, CloseStep, ControlTypeCorrect, PTL DEF Spec

-----------------------------------------------------------------------------
(* What `cancel` tells. *)

\* The run ended, or its step is dead or has the cancellation.
Taken(r) == r \in cancelling \/ state[r] = "dead" \/ Ended(r)

\* A command is about a run that was submitted, and takes its run once it was applied.
ToldInv ==
  /\ \A c \in Client : at[c] # "start" => state[about[c]] # "absent"
  /\ \A c \in Client : command[c] # "none" => at[c] # "start"
  /\ \A c \in Client : command[c] = "done" \/ at[c] = "reading" => Taken(about[c])
  /\ ToldIsSo

\* A run that has begun stays so, one that ended stays as it ended, one with a dead step
\* fails, and a cancellation that a step has does not go before the run.
GoesForth(r) ==
  /\ state[r] # "absent" => state'[r] # "absent"
  /\ Ended(r) => state'[r] = state[r]
  /\ state[r] = "dead" => state'[r] \in {"dead", "failed"}
  /\ Taken(r) => Taken(r)'

LEMMA RunsGoForth ==
  ASSUME TypeOK, ToldInv, [Next]_vars, NEW s \in Run
  PROVE  GoesForth(s)
<1>1. CASE UNCHANGED <<state, cancelling>>
  BY <1>1 DEF GoesForth, Taken, Ended
<1>2. ASSUME NEW p \in Process, NEW r \in Run, StartRun(p, r) \/ Resume(p)
      PROVE  GoesForth(s)
  <2>1. /\ UNCHANGED cancelling
        /\ \/ state'[s] = state[s]
           \/ state[s] \in {"absent", "running"} /\ state'[s] \in {"pending", "dead"}
    <3>1. CASE StartRun(p, r)
      BY <3>1 DEF TypeOK, StartRun, Open, Requeued, Left
    <3>2. CASE Resume(p)
      BY <3>2 DEF TypeOK, Resume, Open, Requeued, Left
    <3> QED
      BY <1>2, <3>1, <3>2
  <2> QED
    BY <2>1 DEF GoesForth, Taken, Ended, Terminal
<1>3. ASSUME NEW p \in Process, NEW r \in Run, StepEnd(p, r)
      PROVE  GoesForth(s)
  <2>1. PICK next \in {"pending", "waiting", "group"} \cup Terminal :
          /\ r \in cancelling => next \in Terminal
          /\ state' = [state EXCEPT ![r] = next]
    BY <1>3 DEF StepEnd
  <2>2. state[r] = "running" /\ cancelling' = cancelling \ {r}
    BY <1>3 DEF StepEnd
  <2> QED
    BY <2>1, <2>2 DEF TypeOK, GoesForth, Taken, Ended, Terminal
<1>4. ASSUME NEW p \in Process, NEW r \in Run,
             Claim(p, r) \/ StepRetry(p, r) \/ ToolClaim(p, r) \/ ToolEnd(p, r) \/ WaitEnds(p, r)
      PROVE  GoesForth(s)
  <2>1. /\ UNCHANGED cancelling
        /\ \/ state'[s] = state[s]
           \/ state[s] \in Active /\ state'[s] \in Active
    BY <1>4 DEF TypeOK, Claim, StepRetry, ToolClaim, ToolEnd, WaitEnds, Active
  <2> QED
    BY <2>1 DEF GoesForth, Taken, Ended, Terminal, Active
<1>11. ASSUME NEW p \in Process, NEW r \in Run, Bury(p, r) \/ ExpireStep(p, r)
       PROVE  GoesForth(s)
  <2>1. \/ /\ Bury(p, r) /\ state[r] = "dead" /\ state' = [state EXCEPT ![r] = "failed"]
           /\ cancelling' = cancelling \ {r}
        \/ /\ ExpireStep(p, r) /\ state[r] = "running" /\ UNCHANGED cancelling
           /\ \E place \in Left : state' = [state EXCEPT ![r] = place]
    BY <1>11 DEF Bury, ExpireStep
  <2> QED
    BY <2>1 DEF TypeOK, GoesForth, Taken, Ended, Terminal, Left
<1>5. ASSUME NEW p \in Process, NEW c \in Client, DrainReply(p, c)
      PROVE  GoesForth(s)
  <2>1. /\ UNCHANGED cancelling
        /\ \/ state'[s] = state[s]
           \/ state[s] \in Active /\ state'[s] \in Active
    BY <1>5 DEF TypeOK, DrainReply, Active
  <2> QED
    BY <2>1 DEF GoesForth, Taken, Ended, Terminal, Active
<1>6. ASSUME NEW p \in Process, NEW c \in Client, ApplyCancel(p, c)
      PROVE  GoesForth(s)
  <2>1. about[c] \in Run /\ state[about[c]] # "absent"
    BY <1>6 DEF ApplyCancel, ToldInv, TypeOK
  <2>2. /\ cancelling' = CASE state[about[c]] = "running" -> cancelling \cup {about[c]}
                           [] state[about[c]] = "dead" -> cancelling
                           [] OTHER -> cancelling \ {about[c]}
        /\ state' = [state EXCEPT ![about[c]] = IF @ \in Active \ {"running"} THEN "cancelled"
                                                ELSE @]
    BY <1>6 DEF ApplyCancel
  <2>3. CASE s # about[c]
    <3>1. state'[s] = state[s] /\ (s \in cancelling => s \in cancelling')
      BY <2>1, <2>2, <2>3 DEF TypeOK
    <3> QED
      BY <3>1 DEF GoesForth, Taken, Ended
  <2>4. CASE s = about[c] /\ state[s] \in {"running", "dead"} \cup Terminal
    <3>1. state'[s] = state[s]
      BY <2>1, <2>2, <2>4 DEF TypeOK, Active, Terminal
    <3>2. state[s] \notin Terminal => (s \in cancelling => s \in cancelling')
      BY <2>2, <2>4 DEF Terminal
    <3> QED
      BY <3>1, <3>2 DEF GoesForth, Taken, Ended
  <2>5. CASE s = about[c] /\ state[s] \in Active \ {"running"}
    <3>1. state'[s] = "cancelled"
      BY <2>1, <2>2, <2>5 DEF TypeOK
    <3> QED
      BY <2>5, <3>1 DEF GoesForth, Taken, Ended, Terminal, Active
  <2> QED
    BY <2>1, <2>3, <2>4, <2>5 DEF TypeOK, Unfinished, Active
<1>7. ASSUME NEW p \in Process, NEW r \in Run,
             \/ Guard(p, r, FALSE) \/ Guard(p, r, TRUE) \/ Fenced(p) \/ Crash(p) \/ Finish(p)
             \/ Interrupt(p) \/ WorkerFails(p) \/ ExitFailed(p) \/ Leave(p) \/ Close(p)
      PROVE  UNCHANGED <<state, cancelling>>
  BY <1>7 DEF Guard, Fenced, Crash, Finish, Interrupt, WorkerFails, ExitFailed, Leave, Close, store
<1>8. ASSUME NEW p \in Process, NEW c \in Client, DrainCancel(p, c) \/ ClaimCommand(p, c) \/ ExpireCommand(p, c)
      PROVE  UNCHANGED <<state, cancelling>>
  BY <1>8 DEF DrainCancel, ClaimCommand, ExpireCommand, store
<1>9. ASSUME NEW c \in Client, ReadRun(c) \/ Send(c) \/ ReadBeat(c) \/ PollReply(c)
                               \/ PollCancel(c) \/ ReadState(c) \/ PollEnds(c)
      PROVE  UNCHANGED <<state, cancelling>>
  BY <1>9 DEF ReadRun, Send, ReadBeat, PollReply, PollCancel, ReadState, PollEnds, store
<1>10. CASE Next
  BY <1>1, <1>2, <1>3, <1>4, <1>5, <1>6, <1>7, <1>8, <1>9, <1>10, <1>11, ControlAssumption DEF Next
<1> QED
  BY <1>1, <1>10 DEF vars, store

\* A step that leaves the command alone leaves what is true of it.
Keeps(c) ==
  /\ about'[c] = about[c]
  /\ command'[c] # command[c] =>
       /\ command'[c] \in {"queued", "claimed", "done"} /\ at[c] # "start" /\ at'[c] # "start"
       /\ command'[c] = "done" => Taken(about[c])'
  /\ at[c] # "start" => at'[c] # "start"
  /\ at'[c] # at[c] => /\ state[about[c]] # "absent"
                       /\ at'[c] = "reading" => command[c] = "done"
  /\ told'[c] # told[c] =>
       \/ told'[c] \notin {"cancelled", "terminated", "reached"}
       \/ at[c] = "reading" /\ UNCHANGED state /\ LET r == about[c] IN
            /\ told'[c] = "cancelled" => state[r] = "cancelled"
            /\ told'[c] = "terminated" => state[r] \in {"succeeded", "failed"}
            /\ told'[c] = "reached" => ~Ended(r)

LEMMA CommandsAreKept ==
  ASSUME TypeOK, ToldInv, [Next]_vars, NEW c \in Client
  PROVE  Keeps(c)
<1>1. CASE UNCHANGED <<clients, command>>
  BY <1>1 DEF Keeps, clients
<1>2. ASSUME NEW p \in Process, NEW r \in Run, StartRun(p, r) \/ Resume(p)
      PROVE  Keeps(c)
  <2>1. /\ UNCHANGED clients
        /\ command' = [d \in Client |-> IF command[d] = "claimed" THEN "queued" ELSE command[d]]
    BY <1>2 DEF StartRun, Resume, Open
  <2>2. command'[c] # command[c] => command[c] = "claimed" /\ command'[c] = "queued"
    BY <2>1
  <2> QED
    BY <2>1, <2>2 DEF Keeps, clients, ToldInv
<1>3. ASSUME NEW p \in Process, NEW d \in Client,
             DrainCancel(p, d) \/ ClaimCommand(p, d) \/ ApplyCancel(p, d) \/ ExpireCommand(p, d)
      PROVE  Keeps(c)
  <2>1. UNCHANGED clients /\ at[d] # "start"
    BY <1>3 DEF DrainCancel, ClaimCommand, ApplyCancel, ExpireCommand, Sent, ToldInv
  <2>2. CASE d # c
    <3>1. command'[c] = command[c]
      BY <1>3, <2>2 DEF DrainCancel, ClaimCommand, ApplyCancel, ExpireCommand, TypeOK
    <3> QED
      BY <2>1, <3>1 DEF Keeps, clients
  <2>3. CASE d = c /\ (DrainCancel(p, d) \/ ClaimCommand(p, d) \/ ExpireCommand(p, d))
    <3>1. command'[c] \in {"queued", "claimed"}
      BY <2>3 DEF DrainCancel, ClaimCommand, ExpireCommand, TypeOK
    <3> QED
      BY <2>1, <2>3, <3>1 DEF Keeps, clients
  <2>4. CASE d = c /\ ApplyCancel(p, d)
    <3>1. command'[c] = "done"
      BY <2>4 DEF ApplyCancel, TypeOK
    <3>2. about[c] \in Run /\ state[about[c]] \in Unfinished \cup Terminal /\ about' = about
      BY <2>1, <2>4 DEF ToldInv, TypeOK, clients
    <3>3. about[c] \in cancelling' \/ state'[about[c]] \in Terminal \cup {"dead"}
      BY <2>4, <3>2 DEF ApplyCancel, TypeOK, Unfinished, Active, Terminal
    <3> QED
      BY <2>1, <2>4, <3>1, <3>2, <3>3 DEF Keeps, clients, Taken, Ended
  <2> QED
    BY <1>3, <2>2, <2>3, <2>4
<1>4. ASSUME NEW d \in Client, ReadRun(d)
      PROVE  Keeps(c)
  <2>1. /\ UNCHANGED <<about, command>> /\ state[about[d]] # "absent"
        /\ \/ at' = [at EXCEPT ![d] = "sending"] /\ UNCHANGED told
           \/ at' = [at EXCEPT ![d] = "end"] /\ told' = [told EXCEPT ![d] = "refused"]
    BY <1>4 DEF ReadRun, Moves, Tells, entries
  <2> QED
    BY <2>1 DEF Keeps, TypeOK
<1>5. ASSUME NEW d \in Client, Send(d) \/ ReadBeat(d) \/ PollReply(d) \/ PollEnds(d)
      PROVE  Keeps(c)
  <2>1. /\ UNCHANGED <<about, command>> /\ at[d] # "start"
        /\ \E place \in {"sent", "polling", "end"} : at' = [at EXCEPT ![d] = place]
        /\ \/ UNCHANGED told
           \/ \E words \in {"sent", "delivered", "notWaiting"} : told' = [told EXCEPT ![d] = words]
    BY <1>5 DEF Send, ReadBeat, PollReply, PollEnds, Moves, Tells, entries
  <2>2. state[about[d]] # "absent"
    BY <2>1 DEF ToldInv
  <2> QED
    BY <2>1, <2>2 DEF Keeps, TypeOK
<1>6. ASSUME NEW d \in Client, PollCancel(d)
      PROVE  Keeps(c)
  <2>1. /\ UNCHANGED <<about, command, told>> /\ at[d] # "start" /\ command[d] = "done"
        /\ at' = [at EXCEPT ![d] = "reading"]
    BY <1>6 DEF PollCancel, Moves, entries
  <2>2. state[about[d]] # "absent"
    BY <2>1 DEF ToldInv
  <2> QED
    BY <2>1, <2>2 DEF Keeps, TypeOK
<1>7. ASSUME NEW d \in Client, ReadState(d)
      PROVE  Keeps(c)
  <2>1. /\ UNCHANGED <<about, command, state>> /\ at[d] = "reading"
        /\ at' = [at EXCEPT ![d] = "end"]
        /\ told' = [told EXCEPT ![d] =
                      CASE state[about[d]] = "cancelled" -> "cancelled"
                        [] state[about[d]] \in {"succeeded", "failed"} -> "terminated"
                        [] OTHER -> "reached"]
    BY <1>7 DEF ReadState, Moves, Tells, entries, store
  <2>2. state[about[d]] # "absent"
    BY <2>1 DEF ToldInv
  <2>3. CASE d # c
    BY <2>1, <2>3 DEF Keeps, TypeOK
  <2>4. CASE d = c
    <3>1. /\ told'[c] = "cancelled" => state[about[c]] = "cancelled"
          /\ told'[c] = "terminated" => state[about[c]] \in {"succeeded", "failed"}
          /\ told'[c] = "reached" => ~Ended(about[c])
      BY <2>1, <2>4 DEF TypeOK, Ended, Terminal
    <3> QED
      BY <2>1, <2>2, <2>4, <3>1 DEF Keeps, TypeOK
  <2> QED
    BY <2>3, <2>4
<1>8. ASSUME NEW p \in Process, NEW r \in Run,
             \/ Guard(p, r, FALSE) \/ Guard(p, r, TRUE) \/ Fenced(p) \/ Crash(p) \/ Finish(p)
             \/ Interrupt(p) \/ WorkerFails(p) \/ ExitFailed(p) \/ Leave(p) \/ Close(p)
      PROVE  UNCHANGED <<clients, command>>
  BY <1>8 DEF Guard, Fenced, Crash, Finish, Interrupt, WorkerFails, ExitFailed, Leave, Close, entries
<1>9. ASSUME NEW p \in Process, NEW r \in Run,
             \/ Claim(p, r) \/ StepEnd(p, r) \/ StepRetry(p, r) \/ Bury(p, r)
             \/ ToolClaim(p, r) \/ ToolEnd(p, r) \/ WaitEnds(p, r) \/ ExpireStep(p, r)
      PROVE  UNCHANGED <<clients, command>>
  BY <1>9 DEF Claim, StepEnd, StepRetry, ToolClaim, ToolEnd, WaitEnds, Bury, ExpireStep, entries
<1>10. ASSUME NEW p \in Process, NEW d \in Client, DrainReply(p, d)
       PROVE  UNCHANGED <<clients, command>>
  BY <1>10 DEF DrainReply
<1>11. CASE Next
  BY <1>1, <1>2, <1>3, <1>4, <1>5, <1>6, <1>7, <1>8, <1>9, <1>10, <1>11, ControlAssumption DEF Next
<1> QED
  BY <1>1, <1>11 DEF vars, entries

LEMMA ToldStep == TypeOK /\ ToldInv /\ [Next]_vars => ToldInv'
<1> SUFFICES ASSUME TypeOK, ToldInv, [Next]_vars PROVE ToldInv'
  OBVIOUS
<1> SUFFICES ASSUME NEW c \in Client
             PROVE  /\ at'[c] # "start" => state'[about'[c]] # "absent"
                    /\ command'[c] # "none" => at'[c] # "start"
                    /\ command'[c] = "done" \/ at'[c] = "reading" => Taken(about[c])'
                    /\ told'[c] = "cancelled" => state'[about'[c]] = "cancelled"
                    /\ told'[c] = "terminated" => state'[about'[c]] \in {"succeeded", "failed"}
                    /\ told'[c] = "reached" => Taken(about[c])'
  BY DEF ToldInv, ToldIsSo, Taken
<1>1. Keeps(c) /\ about[c] \in Run /\ GoesForth(about[c])
  BY CommandsAreKept, RunsGoForth DEF TypeOK
<1>2. about'[c] = about[c]
  BY <1>1 DEF Keeps
<1>3. Taken(about[c]) => Taken(about[c])'
  BY <1>1, <1>2 DEF GoesForth, Taken, Ended
<1>4. at'[c] # "start" => state'[about'[c]] # "absent"
  BY <1>1, <1>2 DEF Keeps, GoesForth, ToldInv
<1>5. command'[c] # "none" => at'[c] # "start"
  BY <1>1 DEF Keeps, ToldInv
<1>6. command'[c] = "done" \/ at'[c] = "reading" => Taken(about[c])'
  BY <1>1, <1>3 DEF Keeps, ToldInv
<1>7. CASE told'[c] = told[c]
  <2>1. /\ told[c] = "cancelled" => state'[about[c]] = "cancelled"
        /\ told[c] = "terminated" => state'[about[c]] \in {"succeeded", "failed"}
        /\ told[c] = "reached" => Taken(about[c])
    BY <1>1 DEF ToldInv, ToldIsSo, GoesForth, Ended, Terminal, Taken
  <2> QED
    BY <1>2, <1>3, <1>4, <1>5, <1>6, <1>7, <2>1
<1>8. CASE told'[c] # told[c]
  <2>1. /\ told'[c] = "cancelled" => state'[about[c]] = "cancelled"
        /\ told'[c] = "terminated" => state'[about[c]] \in {"succeeded", "failed"}
        /\ told'[c] = "reached" => Taken(about[c])
    BY <1>1, <1>8 DEF Keeps, ToldInv
  <2> QED
    BY <1>2, <1>3, <1>4, <1>5, <1>6, <2>1
<1> QED
  BY <1>7, <1>8

\* What `cancel` told about the run is and stays so (cmd_cancel, main.rs:1436).
THEOREM ToldStaysSo == Spec => []ToldIsSo
<1>1. Init => ToldInv
  BY DEF Init, ToldInv, ToldIsSo
<1>2. ToldInv => ToldIsSo
  BY DEF ToldInv
<1> QED
  BY <1>1, <1>2, ToldStep, ControlTypeCorrect, PTL DEF Spec

-----------------------------------------------------------------------------
(* The entries of the inbox and the commands that come from them. *)

\* A command is at least where it was.
Behind(before, after) ==
  \/ before = "none"
  \/ before = "queued" /\ after # "none"
  \/ before = "claimed" /\ after \in {"claimed", "done"}
  \/ before = after

\* A command of the control queue comes from an entry that a writer drained, and a step
\* has the cancellation of a command.
EntryInv ==
  /\ \A c \in Client : (command[c] # "none") <=> (c \in Cancel /\ outcome[c] # "none")
  /\ \A c \in Client : outcome[c] # "none" => Sent(c)
  /\ \A r \in cancelling : \E c \in Cancel : Sent(c) /\ about[c] = r

\* The command goes back to the queue: another process opens the store, or the lease of a
\* failed worker passes.
Requeuing(c) == command[c] = "claimed" /\ command'[c] = "queued"

\* An entry that is sent stays so, and its command goes forth with it.
Forth(c) ==
  /\ about'[c] = about[c]
  /\ Sent(c) => Sent(c)'
  /\ outcome[c] # "none" => outcome'[c] # "none"
  /\ ~Requeuing(c) => Behind(command[c], command'[c])
  /\ (command'[c] # "none") <=> (c \in Cancel /\ outcome'[c] # "none")
  /\ outcome'[c] # "none" => Sent(c)'

LEMMA ClientsGoForth ==
  ASSUME TypeOK, EntryInv, NEW c \in Client, NEW e \in Client,
         \/ ReadRun(e) \/ Send(e) \/ ReadBeat(e) \/ PollReply(e) \/ PollCancel(e)
         \/ ReadState(e) \/ PollEnds(e)
  PROVE  Forth(c)
<1>1. UNCHANGED <<about, outcome, command>>
  BY DEF ReadRun, Send, ReadBeat, PollReply, PollCancel, ReadState, PollEnds, entries
<1>2. Sent(c) => Sent(c)'
  <2>1. CASE e # c
    <3>1. at'[c] = at[c] /\ told'[c] = told[c]
      BY <2>1
         DEF ReadRun, Send, ReadBeat, PollReply, PollCancel, ReadState, PollEnds, Moves, Tells, TypeOK
    <3> QED  BY <3>1 DEF Sent
  <2>2. CASE e = c /\ (ReadRun(e) \/ Send(e))
    BY <2>2 DEF ReadRun, Send, Sent
  <2>3. CASE e = c /\ (ReadBeat(e) \/ PollReply(e) \/ PollCancel(e) \/ PollEnds(e))
    BY <2>3 DEF ReadBeat, PollReply, PollCancel, PollEnds, Moves, Tells, TypeOK, Sent
  <2>4. CASE e = c /\ ReadState(e)
    BY <2>4 DEF ReadState, Moves, Tells, TypeOK, Sent
  <2> QED  BY <2>1, <2>2, <2>3, <2>4
<1> QED  BY <1>1, <1>2 DEF Forth, Behind, EntryInv

LEMMA CommandsGoForth ==
  ASSUME TypeOK, EntryInv, NEW c \in Client, NEW p \in Process, NEW e \in Client,
         \/ DrainCancel(p, e) \/ DrainReply(p, e) \/ ClaimCommand(p, e) \/ ApplyCancel(p, e)
         \/ ExpireCommand(p, e)
  PROVE  Forth(c)
<1> USE DEF Forth, Behind, EntryInv
<1>1. UNCHANGED clients
  BY DEF DrainCancel, DrainReply, ClaimCommand, ApplyCancel, ExpireCommand
<1>2. Sent(c)' = Sent(c) /\ about'[c] = about[c]
  BY <1>1 DEF clients, Sent
<1>3. CASE DrainCancel(p, e)
  <2>1. e \in Cancel /\ Sent(e) /\ outcome[e] = "none" /\ command[e] = "none"
    BY <1>3 DEF DrainCancel, CommandInbox
  <2>2. /\ outcome'[c] = IF c = e THEN "enqueued" ELSE outcome[c]
        /\ command'[c] = IF c = e THEN "queued" ELSE command[c]
    BY <1>3 DEF DrainCancel, Record, TypeOK
  <2> QED  BY <1>2, <2>1, <2>2
<1>4. CASE DrainReply(p, e)
  <2>1. e \notin Cancel /\ Sent(e) /\ UNCHANGED command
    BY <1>4, ControlAssumption DEF DrainReply, SignalInbox
  <2>2. c # e => outcome'[c] = outcome[c]
    BY <1>4 DEF DrainReply, Record, TypeOK
  <2>3. outcome'[e] # "none"
    BY <1>4 DEF DrainReply, Record, TypeOK
  <2> QED  BY <1>2, <2>1, <2>2, <2>3
<1>5. CASE ClaimCommand(p, e)
  <2>1. command'[c] = IF c = e THEN "claimed" ELSE command[c]
    BY <1>5 DEF ClaimCommand, TypeOK
  <2>2. command[e] = "queued" /\ UNCHANGED outcome
    BY <1>5 DEF ClaimCommand
  <2> QED  BY <1>2, <2>1, <2>2
<1>6. CASE ApplyCancel(p, e)
  <2>1. command'[c] = IF c = e THEN "done" ELSE command[c]
    BY <1>6 DEF ApplyCancel, TypeOK
  <2>2. command[e] = "claimed" /\ UNCHANGED outcome
    BY <1>6 DEF ApplyCancel
  <2> QED  BY <1>2, <2>1, <2>2
<1>7. CASE ExpireCommand(p, e)
  <2>1. command'[c] = IF c = e THEN "queued" ELSE command[c]
    BY <1>7 DEF ExpireCommand, TypeOK
  <2>2. command[e] = "claimed" /\ UNCHANGED outcome
    BY <1>7 DEF ExpireCommand
  <2> QED  BY <1>2, <2>1, <2>2 DEF Requeuing
<1> QED  BY <1>3, <1>4, <1>5, <1>6, <1>7

LEMMA EntriesGoForth ==
  ASSUME TypeOK, EntryInv, [Next]_vars, NEW c \in Client
  PROVE  Forth(c)
<1>1. CASE UNCHANGED <<clients, entries>>
  BY <1>1 DEF Forth, Behind, EntryInv, clients, entries, Sent
<1>2. ASSUME NEW p \in Process, NEW r \in Run, StartRun(p, r) \/ Resume(p)
      PROVE  Forth(c)
  <2>1. /\ UNCHANGED <<clients, outcome>>
        /\ command' = [d \in Client |-> IF command[d] = "claimed" THEN "queued" ELSE command[d]]
    BY <1>2 DEF StartRun, Resume, Open
  <2>2. command'[c] = IF command[c] = "claimed" THEN "queued" ELSE command[c]
    BY <2>1
  <2>3. ~Requeuing(c) => Behind(command[c], command'[c])
    <3>1. CASE command[c] = "claimed" /\ c \in Cancel
      BY <2>2, <3>1 DEF Requeuing
    <3>2. CASE command[c] # "claimed"
      BY <2>2, <3>2 DEF Behind
    <3> QED  BY <3>1, <3>2 DEF EntryInv
  <2>4. Sent(c)' = Sent(c) /\ about'[c] = about[c]
    BY <2>1 DEF clients, Sent
  <2> QED  BY <2>1, <2>2, <2>3, <2>4 DEF Forth, EntryInv
<1>3. ASSUME NEW p \in Process, NEW r \in Run,
             \/ Guard(p, r, FALSE) \/ Guard(p, r, TRUE) \/ Fenced(p) \/ Crash(p) \/ Finish(p)
             \/ Interrupt(p) \/ WorkerFails(p) \/ ExitFailed(p) \/ Leave(p) \/ Close(p)
      PROVE  UNCHANGED <<clients, entries>>
  BY <1>3 DEF Guard, Fenced, Crash, Finish, Interrupt, WorkerFails, ExitFailed, Leave, Close
<1>4. ASSUME NEW p \in Process, NEW r \in Run,
             \/ Claim(p, r) \/ StepEnd(p, r) \/ StepRetry(p, r) \/ Bury(p, r)
             \/ ToolClaim(p, r) \/ ToolEnd(p, r) \/ WaitEnds(p, r) \/ ExpireStep(p, r)
      PROVE  UNCHANGED <<clients, entries>>
  BY <1>4 DEF Claim, StepEnd, StepRetry, ToolClaim, ToolEnd, WaitEnds, Bury, ExpireStep
<1>5. CASE Next
  BY <1>1, <1>2, <1>3, <1>4, <1>5, ClientsGoForth, CommandsGoForth, ControlAssumption DEF Next
<1> QED  BY <1>1, <1>5 DEF vars

\* A step has a cancellation that a command applied.
LEMMA CancellingGrows ==
  ASSUME [Next]_vars
  PROVE  \/ cancelling' \subseteq cancelling
         \/ \E c \in Client : command[c] = "claimed" /\ cancelling' \subseteq cancelling \cup {about[c]}
<1>1. ASSUME NEW p \in Process, NEW c \in Client, ApplyCancel(p, c)
      PROVE  command[c] = "claimed" /\ cancelling' \subseteq cancelling \cup {about[c]}
  BY <1>1 DEF ApplyCancel
<1>2. ASSUME NEW p \in Process, NEW r \in Run,
             \/ StartRun(p, r) \/ Resume(p)
             \/ Guard(p, r, FALSE) \/ Guard(p, r, TRUE) \/ Fenced(p) \/ Crash(p) \/ Finish(p)
             \/ Interrupt(p) \/ WorkerFails(p) \/ ExitFailed(p) \/ Leave(p) \/ Close(p)
      PROVE  UNCHANGED cancelling
  BY <1>2
     DEF StartRun, Resume, Open, Guard, Fenced, Crash, Finish, Interrupt, WorkerFails, ExitFailed, Leave, Close,
         store
<1>3. ASSUME NEW p \in Process, NEW r \in Run,
             \/ Claim(p, r) \/ StepEnd(p, r) \/ StepRetry(p, r) \/ Bury(p, r)
             \/ ToolClaim(p, r) \/ ToolEnd(p, r) \/ WaitEnds(p, r) \/ ExpireStep(p, r)
      PROVE  cancelling' \subseteq cancelling
  BY <1>3 DEF Claim, StepEnd, StepRetry, ToolClaim, ToolEnd, WaitEnds, Bury, ExpireStep
<1>4. ASSUME NEW p \in Process, NEW c \in Client,
             DrainCancel(p, c) \/ DrainReply(p, c) \/ ClaimCommand(p, c) \/ ExpireCommand(p, c)
      PROVE  UNCHANGED cancelling
  BY <1>4 DEF DrainCancel, DrainReply, ClaimCommand, ExpireCommand, store
<1>5. ASSUME NEW c \in Client,
             \/ ReadRun(c) \/ Send(c) \/ ReadBeat(c) \/ PollReply(c) \/ PollCancel(c)
             \/ ReadState(c) \/ PollEnds(c)
      PROVE  UNCHANGED cancelling
  BY <1>5 DEF ReadRun, Send, ReadBeat, PollReply, PollCancel, ReadState, PollEnds, store
<1>6. CASE Next
  BY <1>1, <1>2, <1>3, <1>4, <1>5, <1>6, ControlAssumption DEF Next
<1> QED  BY <1>6 DEF vars, store

LEMMA EntryStep ==
  ASSUME TypeOK, EntryInv, [Next]_vars
  PROVE  EntryInv'
<1>1. \A c \in Client : Forth(c)
  BY EntriesGoForth
<1>2. ASSUME NEW r \in cancelling' PROVE \E c \in Cancel : Sent(c)' /\ about'[c] = r
  <2>1. \E c \in Cancel : Sent(c) /\ about[c] = r
    BY <1>2, CancellingGrows DEF EntryInv
  <2> QED  BY <1>1, <2>1 DEF Forth, Client
<1> QED  BY <1>1, <1>2 DEF EntryInv, Forth

ControlInv == TypeOK /\ ToldInv /\ EntryInv

LEMMA ControlInvInit == Init => ControlInv
BY ControlInit DEF Init, ControlInv, ToldInv, ToldIsSo, EntryInv

LEMMA ControlInvStep == ASSUME ControlInv, [Next]_vars PROVE ControlInv'
BY ControlStep, ToldStep, EntryStep DEF ControlInv

-----------------------------------------------------------------------------
(* Each run has a queue that decides every step of it once. *)

\* A cancellation is only requested of a run that was submitted, and stays requested.
LEMMA SoughtStays ==
  ASSUME ControlInv, ControlInv', [Next]_vars, NEW r \in Run
  PROVE  /\ Sought(r) => Sought(r)'
         /\ Sought(r)' => state'[r] # "absent"
<1>1. \A c \in Client : Forth(c)
  BY EntriesGoForth DEF ControlInv
<1>2. \A c \in Client : Sent(c)' => state'[about'[c]] # "absent"
  BY DEF ControlInv, ToldInv, Sent
<1> QED  BY <1>1, <1>2 DEF Forth, Sought, Client

LEMMA ClientsLeaveSought ==
  ASSUME UNCHANGED clients, NEW r \in Run
  PROVE  Sought(r)' = Sought(r)
BY DEF clients, Sought, Sent

\* What a step does to the run of the queue, without the cancellations.
LEMMA GivenIsOpen ==
  ASSUME TypeOK, NEW r \in Run
  PROVE  /\ Given(r) = "open" <=> answer[r] = "open"
         /\ Given(r) = "none" <=> answer[r] = "none"
         /\ answer[r] \in Client <=> Given(r) = "given"
BY ClientIsNoWord DEF Given, TypeOK

\* A step whose run the action leaves alone, with the same requests, is a stutter.
LEMMA OtherRuns ==
  ASSUME NEW r \in Run, state'[r] = state[r], answer'[r] = answer[r], signal'[r] = signal[r],
         Sought(r)' = Sought(r)
  PROVE  QueueStep(r)
BY DEF QueueStep, Queue!vars, Given

LEMMA OpenIsQueued ==
  ASSUME TypeOK, NEW p \in Process, NEW s \in Run, NEW r \in Run, StartRun(p, s) \/ Resume(p)
  PROVE  QueueStep(r)
<1>1. /\ UNCHANGED <<answer, signal, clients>>
      /\ \/ state'[r] = state[r]
         \/ state[r] = "absent" /\ state'[r] = "pending"
         \/ state[r] = "running" /\ state'[r] \in {"pending", "dead"}
  <2>1. CASE StartRun(p, s)
    BY <2>1 DEF StartRun, Open, Requeued, Left, TypeOK
  <2>2. CASE Resume(p)
    BY <2>2 DEF Resume, Open, Requeued, Left, TypeOK
  <2> QED  BY <2>1, <2>2
<1>2. Sought(r)' = Sought(r) /\ Given(r)' = Given(r)
  BY <1>1, ClientsLeaveSought DEF Given
<1>3. CASE state'[r] = state[r]
  BY <1>1, <1>2, <1>3, OtherRuns
<1>4. CASE state[r] = "absent" /\ state'[r] = "pending"
  BY <1>1, <1>2, <1>4 DEF QueueStep, Queue!Next, Queue!Submit
<1>5. CASE state[r] = "running" /\ state'[r] \in {"pending", "dead"}
  BY <1>1, <1>2, <1>5 DEF QueueStep, Queue!Next, Queue!Lose
<1> QED  BY <1>1, <1>3, <1>4, <1>5

LEMMA StepIsQueued ==
  ASSUME ControlInv, NEW p \in Process, NEW r \in Run, StepEnd(p, r)
  PROVE  QueueStep(r)
<1>0. TypeOK /\ EntryInv
  BY DEF ControlInv
<1>1. PICK next \in {"pending", "waiting", "group"} \cup Terminal :
        /\ next = "cancelled" => r \in cancelling
        /\ next = "waiting" => answer[r] = "none"
        /\ state' = [state EXCEPT ![r] = next]
        /\ answer' = [answer EXCEPT ![r] = IF next = "waiting" THEN "open"
                                           ELSE IF next \in {"cancelled", "failed"} THEN answer[r]
                                           ELSE Resolved(r)]
  BY DEF StepEnd, Terminal
<1>2. state[r] = "running" /\ state'[r] = next /\ signal'[r] = "none" /\ UNCHANGED clients
  BY <1>0, <1>1 DEF StepEnd, TypeOK
<1>3. Sought(r)' = Sought(r)
  BY <1>2, ClientsLeaveSought
<1>4. CASE next = "waiting"
  <2>1. answer[r] = "none" /\ answer'[r] = "open"
    BY <1>0, <1>1, <1>4 DEF TypeOK
  <2>2. Given(r) = "none" /\ Given(r)' = "open"
    BY <2>1, ClientIsNoWord DEF Given
  <2> QED  BY <1>2, <1>3, <1>4, <2>2 DEF QueueStep, Queue!Next, Queue!Ask
<1>5. CASE next \in {"cancelled", "failed"}
  <2>1. Given(r)' = Given(r)
    BY <1>0, <1>1, <1>5 DEF Given, TypeOK
  <2>2. next = "cancelled" => Sought(r)
    BY <1>0, <1>1 DEF EntryInv, Sought
  <2> QED  BY <1>2, <1>3, <1>5, <2>1, <2>2 DEF QueueStep, Queue!Next, Queue!Fail
<1>6. CASE next \in {"pending", "group", "succeeded"}
  <2>1. answer'[r] = Resolved(r)
    BY <1>0, <1>1, <1>6 DEF TypeOK
  <2>2. Given(r)' = Queue(r)!Resolved
    <3>1. CASE answer[r] # "open"
      BY <1>0, <2>1, <3>1, GivenIsOpen DEF Resolved, Given, Queue!Resolved
    <3>2. CASE answer[r] = "open" /\ signal[r] = "none"
      BY <1>0, <2>1, <3>2, GivenIsOpen, ClientIsNoWord DEF Resolved, Given, Queue!Resolved
    <3>3. CASE answer[r] = "open" /\ signal[r] # "none"
      <4>1. signal[r] \in Client
        BY <1>0, <3>3 DEF TypeOK
      <4> QED  BY <1>0, <2>1, <3>3, <4>1, GivenIsOpen DEF Resolved, Given, Queue!Resolved
    <3> QED  BY <3>1, <3>2, <3>3
  <2> QED  BY <1>2, <1>3, <1>6, <2>2 DEF QueueStep, Queue!Next, Queue!Settle, Queue!Succeed
<1> QED  BY <1>1, <1>4, <1>5, <1>6 DEF Terminal

LEMMA JobsAreQueued ==
  ASSUME ControlInv, NEW p \in Process, NEW s \in Run, NEW r \in Run,
         \/ Claim(p, s) \/ StepEnd(p, s) \/ StepRetry(p, s) \/ Bury(p, s)
         \/ ToolClaim(p, s) \/ ToolEnd(p, s) \/ WaitEnds(p, s) \/ ExpireStep(p, s)
  PROVE  QueueStep(r)
<1>0. TypeOK
  BY DEF ControlInv
<1>1. Sought(r)' = Sought(r)
  BY ClientsLeaveSought
     DEF Claim, StepEnd, StepRetry, ToolClaim, ToolEnd, WaitEnds, Bury, ExpireStep
<1>2. CASE s # r
  <2>1. state'[r] = state[r] /\ answer'[r] = answer[r] /\ signal'[r] = signal[r]
    <3>1. CASE StepEnd(p, s)
      BY <1>0, <1>2, <3>1 DEF StepEnd, TypeOK
    <3>2. CASE Claim(p, s) \/ StepRetry(p, s) \/ ToolClaim(p, s) \/ ToolEnd(p, s) \/ WaitEnds(p, s)
      BY <1>0, <1>2, <3>2 DEF Claim, StepRetry, ToolClaim, ToolEnd, WaitEnds, TypeOK
    <3>3. CASE Bury(p, s) \/ ExpireStep(p, s)
      BY <1>0, <1>2, <3>3 DEF Bury, ExpireStep, TypeOK
    <3> QED  BY <3>1, <3>2, <3>3
  <2> QED  BY <1>1, <2>1, OtherRuns
<1>3. CASE s = r /\ StepEnd(p, s)
  BY <1>3, StepIsQueued
<1>5. CASE s = r /\ Bury(p, s)
  <2>1. /\ UNCHANGED answer /\ signal'[r] = "none"
        /\ state[r] = "dead" /\ state'[r] = "failed"
    BY <1>0, <1>5 DEF Bury, TypeOK
  <2>2. Given(r)' = Given(r)
    BY <2>1 DEF Given
  <2> QED  BY <1>1, <2>1, <2>2 DEF QueueStep, Queue!Next, Queue!Bury
<1>4. CASE s = r /\ ~StepEnd(p, s) /\ ~Bury(p, s)
  <2>1. /\ UNCHANGED <<answer, signal>>
        /\ \/ state[r] = "pending" /\ state'[r] = "running"
           \/ state[r] = "running" /\ state'[r] \in {"pending", "dead"}
           \/ state[r] \in {"waiting", "group"} /\ state'[r] = "pending"
           \/ state'[r] = state[r]
    BY <1>0, <1>4 DEF Claim, StepRetry, ToolClaim, ToolEnd, WaitEnds, ExpireStep, Left, TypeOK
  <2>2. Given(r)' = Given(r) /\ (signal'[r] # "none") = (signal[r] # "none")
    BY <2>1 DEF Given
  <2>3. CASE state'[r] = state[r]
    BY <1>1, <2>1, <2>3, OtherRuns
  <2>4. CASE state[r] = "pending" /\ state'[r] = "running"
    BY <1>1, <2>2, <2>4 DEF QueueStep, Queue!Next, Queue!Claim
  <2>5. CASE state[r] = "running" /\ state'[r] \in {"pending", "dead"}
    BY <1>1, <2>2, <2>5 DEF QueueStep, Queue!Next, Queue!Lose
  <2>6. CASE state[r] = "waiting" /\ state'[r] = "pending"
    BY <1>1, <2>2, <2>6 DEF QueueStep, Queue!Next, Queue!WakeUser
  <2>7. CASE state[r] = "group" /\ state'[r] = "pending"
    BY <1>1, <2>2, <2>7 DEF QueueStep, Queue!Next, Queue!WakeGroup
  <2> QED  BY <2>1, <2>3, <2>4, <2>5, <2>6, <2>7
<1> QED  BY <1>2, <1>3, <1>4, <1>5

LEMMA EntriesAreQueued ==
  ASSUME ControlInv, NEW p \in Process, NEW c \in Client, NEW r \in Run,
         \/ DrainCancel(p, c) \/ DrainReply(p, c) \/ ClaimCommand(p, c) \/ ApplyCancel(p, c)
         \/ ExpireCommand(p, c)
  PROVE  QueueStep(r)
<1>0. TypeOK /\ EntryInv
  BY DEF ControlInv
<1>1. Sought(r)' = Sought(r) /\ UNCHANGED answer
  BY ClientsLeaveSought DEF DrainCancel, DrainReply, ClaimCommand, ApplyCancel, ExpireCommand, store
<1>2. Given(r)' = Given(r)
  BY <1>1 DEF Given
<1>3. CASE state'[r] = state[r] /\ signal'[r] = signal[r]
  BY <1>1, <1>3, OtherRuns
<1>4. CASE DrainReply(p, c) /\ state[r] = "waiting" /\ about[c] = r
  <2>1. state'[r] = "pending" /\ signal'[r] = c
    BY <1>0, <1>4 DEF DrainReply, TypeOK
  <2> QED  BY <1>1, <1>2, <1>4, <2>1, ClientIsNoWord DEF QueueStep, Queue!Next, Queue!WakeUser
<1>5. CASE ApplyCancel(p, c) /\ state[r] \in Active \ {"running"} /\ about[c] = r
  <2>1. state'[r] = "cancelled" /\ UNCHANGED signal
    BY <1>0, <1>5 DEF ApplyCancel, TypeOK
  <2>2. Sought(r)
    BY <1>0, <1>5 DEF ApplyCancel, EntryInv, Sought
  <2>3. state[r] \in {"pending", "waiting", "group"}
    BY <1>5 DEF Active
  <2> QED  BY <1>1, <1>2, <2>1, <2>2, <2>3 DEF QueueStep, Queue!Next, Queue!CancelIdle
<1>6. \/ state'[r] = state[r] /\ signal'[r] = signal[r]
      \/ DrainReply(p, c) /\ state[r] = "waiting" /\ about[c] = r
      \/ ApplyCancel(p, c) /\ state[r] \in Active \ {"running"} /\ about[c] = r
  BY <1>0 DEF DrainCancel, DrainReply, ClaimCommand, ApplyCancel, ExpireCommand, store, TypeOK
<1> QED  BY <1>3, <1>4, <1>5, <1>6

LEMMA CommandsAreQueued ==
  ASSUME ControlInv, ControlInv', NEW c \in Client, NEW r \in Run, [Next]_vars,
         \/ ReadRun(c) \/ Send(c) \/ ReadBeat(c) \/ PollReply(c) \/ PollCancel(c)
         \/ ReadState(c) \/ PollEnds(c)
  PROVE  QueueStep(r)
<1>1. UNCHANGED <<state, answer, signal>>
  BY DEF ReadRun, Send, ReadBeat, PollReply, PollCancel, ReadState, PollEnds, store
<1>2. CASE Sought(r)' = Sought(r)
  BY <1>1, <1>2, OtherRuns
<1>3. CASE Sought(r)' # Sought(r)
  <2>1. Sought(r)' /\ state[r] # "absent" /\ Given(r)' = Given(r)
    BY <1>1, <1>3, SoughtStays DEF Given, Sought
  <2> QED  BY <1>1, <2>1 DEF QueueStep, Queue!Next, Queue!Seek
<1> QED  BY <1>2, <1>3

LEMMA ControlQueues ==
  ASSUME ControlInv, ControlInv', [Next]_vars, NEW r \in Run
  PROVE  QueueStep(r)
<1>0. TypeOK
  BY DEF ControlInv
<1>1. ASSUME UNCHANGED <<store, clients>>
      PROVE  QueueStep(r)
  BY <1>1, ClientsLeaveSought, OtherRuns DEF store
<1>2. ASSUME NEW p \in Process, NEW s \in Run,
             \/ Guard(p, s, FALSE) \/ Guard(p, s, TRUE) \/ Fenced(p) \/ Crash(p) \/ Finish(p)
             \/ Interrupt(p) \/ WorkerFails(p) \/ ExitFailed(p) \/ Leave(p) \/ Close(p)
      PROVE  UNCHANGED <<store, clients>>
  BY <1>2 DEF Guard, Fenced, Crash, Finish, Interrupt, WorkerFails, ExitFailed, Leave, Close
<1>3. CASE Next
  BY <1>0, <1>1, <1>2, <1>3, OpenIsQueued, JobsAreQueued, EntriesAreQueued, CommandsAreQueued,
     ControlAssumption DEF Next
<1> QED  BY <1>1, <1>3 DEF vars

\* What the next theorem says of each step, with its invariant discharged.
LEMMA QueuesStep == Spec => [][\A s \in Run : QueueStep(s)]_vars
<1>1. ControlInv /\ ControlInv' /\ [Next]_vars => \A s \in Run : QueueStep(s)
  BY ControlQueues
<1>2. ControlInv /\ [Next]_vars => ControlInv'
  BY ControlInvStep
<1> QED  BY <1>1, <1>2, ControlInvInit, PTL DEF Spec

\* The processes and the commands around a run are the queue of that run: over claims,
\* crashes, takeovers, replies and cancellations, each step of it is decided once, the
\* user is asked once, and only a requested cancellation ends it as cancelled.
THEOREM ControlImplementsQueue == Spec => ImplementsQueue
<1>1. Init => \A r \in Run : Queue(r)!Init
  <2> SUFFICES ASSUME Init, NEW r \in Run PROVE Queue(r)!Init
    OBVIOUS
  <2>1. state[r] = "absent" /\ signal[r] = "none" /\ answer[r] = "none"
    BY DEF Init
  <2>2. ~Sought(r)
    BY DEF Init, Sought, Sent, Client
  <2>3. Given(r) = "none"
    BY <2>1, ClientIsNoWord DEF Given
  <2> QED  BY <2>1, <2>2, <2>3 DEF Queue!Init
<1>2. ControlInv /\ ControlInv' /\ [Next]_vars => \A r \in Run : QueueStep(r)
  BY ControlQueues
<1>3. ControlInv /\ [Next]_vars => ControlInv'
  BY ControlInvStep
<1> QED
  BY <1>1, <1>2, <1>3, ControlInvInit, PTL DEF Spec, ImplementsQueue

\* What the queue of a run promises holds of each run of a store: the user is asked once, an
\* answer is final, and a run ends once and as cancelled only after a `cancel` was sent.
THEOREM RunsEndOnce ==
  Spec => \A r \in Run : Queue(r)!AskedOnce /\ Queue(r)!AnswerKept /\ Queue(r)!EndsOnce
<1> SUFFICES ASSUME NEW r \in Run
             PROVE  Spec => Queue(r)!AskedOnce /\ Queue(r)!AnswerKept /\ Queue(r)!EndsOnce
  OBVIOUS
<1> DEFINE Once == state[r]' = "waiting" /\ state[r] # "waiting" => Given(r) = "none"
           Kept == Given(r) \in {"given", "assumed"} => Given(r)' = Given(r)
           End == /\ state[r] \in Queue(r)!Terminal => state[r]' = state[r]
                  /\ state[r]' = "cancelled" /\ state[r] # "cancelled" => Sought(r)
<1>1. QueueStep(r) => [Once /\ Kept /\ End]_(Queue(r)!vars)
  BY DEF QueueStep, Queue!Next, Queue!vars, Queue!Submit, Queue!Claim, Queue!Lose, Queue!Bury, Queue!Ask,
     Queue!Settle, Queue!Succeed, Queue!Fail, Queue!WakeUser, Queue!WakeGroup, Queue!CancelIdle,
     Queue!Seek, Queue!Resolved, Queue!Terminal
<1> DEFINE all == \A s \in Run : QueueStep(s)
           seen == Queue(r)!vars
<1>2. UNCHANGED vars => UNCHANGED seen
  BY DEF vars, store, clients, Queue!vars, Given, Sought, Sent
<1>3. all => [Once /\ Kept /\ End]_seen
  BY <1>1
<1>4. Spec => [][all]_vars
  BY QueuesStep
<1> HIDE DEF Once, Kept, End, all, seen
<1>5. Spec => [][Once]_seen /\ [][Kept]_seen /\ [][End]_seen
  BY <1>2, <1>3, <1>4, PTL
<1> QED  BY <1>5 DEF Once, Kept, End, seen, Queue!AskedOnce, Queue!AnswerKept, Queue!EndsOnce
=============================================================================
