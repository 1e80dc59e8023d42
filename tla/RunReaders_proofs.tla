------------------------- MODULE RunReaders_proofs -------------------------
(* Theorems about RunReaders, for every value of its constants. *)
EXTENDS RunReaders, RunControl_proofs

-----------------------------------------------------------------------------
(* The steps of the runs, as the readers need them. *)

\* A run only succeeds by the end of its step.
LEMMA StepsSucceed ==
  ASSUME TypeOK, [Next]_vars, NEW r \in Run, state'[r] = "succeeded"
  PROVE  state[r] \in {"running", "succeeded"}
<1>1. ASSUME NEW p \in Process, NEW s \in Run, StartRun(p, s) \/ Resume(p)
      PROVE  state'[r] = state[r] \/ state'[r] \in {"pending", "dead"}
  <2>1. CASE StartRun(p, s)
    <3>1. PICK left \in Left : state' = [Requeued(left) EXCEPT ![s] = "pending"]
      BY <2>1 DEF StartRun
    <3> QED  BY <3>1 DEF Requeued, Left, TypeOK
  <2>2. CASE Resume(p)
    <3>1. PICK left \in Left : state' = Requeued(left)
      BY <2>2 DEF Resume
    <3> QED  BY <3>1 DEF Requeued, Left, TypeOK
  <2> QED  BY <1>1, <2>1, <2>2
<1>2. ASSUME NEW p \in Process, NEW s \in Run, StepEnd(p, s)
      PROVE  state'[r] = state[r] \/ state[r] = "running"
  BY <1>2 DEF StepEnd, TypeOK
<1>3. ASSUME NEW p \in Process, NEW s \in Run,
             \/ Claim(p, s) \/ StepRetry(p, s) \/ ToolClaim(p, s) \/ ToolEnd(p, s)
             \/ WaitEnds(p, s) \/ Bury(p, s) \/ ExpireStep(p, s)
      PROVE  state'[r] = state[r] \/ state'[r] \in Unfinished \cup {"failed"}
  BY <1>3 DEF Claim, StepRetry, ToolClaim, ToolEnd, WaitEnds, Bury, ExpireStep, Left, TypeOK,
              Unfinished, Active
<1>4. ASSUME NEW p \in Process, NEW s \in Run,
             \/ Guard(p, s, FALSE) \/ Guard(p, s, TRUE) \/ Fenced(p) \/ Crash(p) \/ Finish(p)
             \/ Interrupt(p) \/ WorkerFails(p) \/ ExitFailed(p) \/ Leave(p) \/ Close(p)
      PROVE  UNCHANGED state
  BY <1>4 DEF Guard, Fenced, Crash, Finish, Interrupt, WorkerFails, ExitFailed, Leave, Close, store
<1>5. ASSUME NEW p \in Process, NEW c \in Client,
             \/ DrainCancel(p, c) \/ DrainReply(p, c) \/ ClaimCommand(p, c) \/ ApplyCancel(p, c)
             \/ ExpireCommand(p, c)
      PROVE  state'[r] = state[r] \/ state'[r] \in {"pending", "cancelled"}
  BY <1>5 DEF DrainCancel, DrainReply, ClaimCommand, ApplyCancel, ExpireCommand, store, TypeOK
<1>6. ASSUME NEW c \in Client,
             \/ ReadRun(c) \/ Send(c) \/ ReadBeat(c) \/ PollReply(c) \/ PollCancel(c)
             \/ ReadState(c) \/ PollEnds(c)
      PROVE  UNCHANGED state
  BY <1>6 DEF ReadRun, Send, ReadBeat, PollReply, PollCancel, ReadState, PollEnds, store
<1>7. CASE Next
  BY <1>1, <1>2, <1>3, <1>4, <1>5, <1>6, <1>7, ControlAssumption DEF Next, Unfinished, Active
<1> QED  BY <1>7 DEF vars, store

-----------------------------------------------------------------------------
(* Types. *)

StateType == {"absent"} \cup Unfinished \cup Terminal

LEMMA ReadersInitTypes == ReadersInit => ReadersTypeOK
<1> SUFFICES ASSUME ReadersInit PROVE ReadersTypeOK
  OBVIOUS
<1>1. TypeOK
  BY ControlInit DEF ReadersInit
<1> QED  BY <1>1 DEF ReadersInit, ReadersTypeOK, Nothing, TypeOK, Displays

\* What is displayed of a state.
LEMMA DisplayTypes ==
  ASSUME NEW run \in StateType, NEW b \in BOOLEAN
  PROVE  /\ DisplayStatus(run, b) \in Displays /\ Refusal(run) \in Displays
         /\ DisplayStatus(run, b) \in Terminal =>
              run = DisplayStatus(run, b) \/ (run = "dead" /\ DisplayStatus(run, b) = "failed")
         /\ Refusal(run) \in Terminal => run = Refusal(run)
         /\ DisplayStatus(run, b) = "cancellation" => b
         /\ DisplayStatus(run, b) \in {"waiting", "running", "queued"} => run \in Active /\ ~b
         /\ Refusal(run) \notin {"cancellation", "waiting", "running", "queued"}
BY DEF StateType, DisplayStatus, Refusal, Displays, Unfinished, Active, Terminal

\* Which step a step of the whole is.
WriterStep ==
  \/ Control
  \/ \E p \in Process : \/ \E r \in Run : PutReport(p, r)
                        \/ \E c \in Client : Delete(p, c)
  \/ \E r \in Run : Collect(r)

ReaderStep(d) ==
  \/ GetReport(d) \/ OpenReader(d) \/ Refresh(d) \/ ReadFails(d) \/ ReadFailsAgain(d)
  \/ ReadRuns(d) \/ ListInbox(d) \/ ReadQueued(d) \/ ReadClaimed(d) \/ Display(d)
  \/ \E c \in Cancel : ReadEntry(d, c)

LEMMA EveryStep ==
  ASSUME [ReadersNext]_readerVars
  PROVE  \/ WriterStep
         \/ \E d \in Reader : ReaderStep(d)
         \/ UNCHANGED readerVars
BY DEF ReadersNext, WriterStep, ReaderStep

\* The processes and the commands take their own steps.
LEMMA WriterSteps ==
  ASSUME WriterStep
  PROVE  /\ [Next]_vars
         /\ UNCHANGED <<given, place, view, seen, listed, found, retried, shown>>
         /\ \A d \in Reader : sought'[d] = sought[d] \/ sought'[d] = sought[d] \ Requeues
         /\ Control \/ UNCHANGED <<vars, sought>>
BY DEF WriterStep, Control, PutReport, Delete, Collect, reading

LEMMA ReadersLeave ==
  ASSUME NEW d \in Reader, ReaderStep(d)
  PROVE  UNCHANGED <<vars, objects, given>>
BY DEF ReaderStep, GetReport, OpenReader, Opened, Refresh, ReadFails, ReadFailsAgain, ReadRuns,
       ListInbox, ReadQueued, ReadClaimed, Display, ReadEntry, Unread

LEMMA ControlPart == ASSUME [ReadersNext]_readerVars PROVE [Next]_vars
<1>1. CASE WriterStep
  BY <1>1, WriterSteps
<1>2. ASSUME NEW d \in Reader, ReaderStep(d) PROVE [Next]_vars
  BY <1>2, ReadersLeave
<1>3. CASE UNCHANGED readerVars
  BY <1>3 DEF readerVars
<1> QED  BY <1>1, <1>2, <1>3, EveryStep

\* The readers neither disturb nor help the processes and the commands: whatever holds of
\* the runs of a store holds beside readers, the queue of each run included.
THEOREM ReadersImplementControl == ReadersSpec => Spec /\ ImplementsQueue
<1>1. ReadersInit => Init
  BY DEF ReadersInit
<1>2. [ReadersNext]_readerVars => [Next]_vars
  BY ControlPart
<1> QED  BY <1>1, <1>2, ControlImplementsQueue, PTL DEF ReadersSpec, Spec

LEMMA WriterTypes ==
  ASSUME ReadersTypeOK, WriterStep
  PROVE  ReadersTypeOK'
<1>1. TypeOK'
  BY WriterSteps, ControlStep DEF ReadersTypeOK
<1>2. /\ report' \in [Run -> {"none", "stored", "deleted"}] /\ written' \in SUBSET Run
      /\ deleted' \in SUBSET Client
  BY DEF WriterStep, Control, Settles, PutReport, Delete, Collect, ReadersTypeOK
<1>3. sought' \in [Reader -> SUBSET Cancel]
  BY DEF WriterStep, Control, PutReport, Delete, Collect, reading, ReadersTypeOK
<1> QED  BY <1>1, <1>2, <1>3, WriterSteps DEF ReadersTypeOK, given

LEMMA ReportShown ==
  ASSUME ReadersTypeOK, NEW d \in Reader,
         shown' = shown \/ shown' = [shown EXCEPT ![d][subject[d]] = "report"]
  PROVE  /\ shown' \in [Reader -> [Run -> Displays]]
         /\ \A e \in Reader, r \in Run : shown'[e][r] = shown[e][r] \/ shown'[e][r] = "report"
<1>1. "report" \in Displays /\ subject[d] \in Run /\ shown \in [Reader -> [Run -> Displays]]
  BY DEF Displays, ReadersTypeOK
<1>2. CASE shown' = shown
  BY <1>1, <1>2
<1>3. CASE shown' = [shown EXCEPT ![d][subject[d]] = "report"]
  BY <1>1, <1>3
<1> QED  BY <1>2, <1>3

LEMMA ReaderTypes ==
  ASSUME ReadersTypeOK, NEW d \in Reader, ReaderStep(d)
  PROVE  ReadersTypeOK'
<1>1. TypeOK'
  BY ReadersLeave, ControlStep DEF ReadersTypeOK
<1>2. /\ UNCHANGED <<report, written, deleted, kind, subject>>
  BY ReadersLeave DEF objects, given
<1>3. /\ Runs \in [state : [Run -> StateType], cancelling : SUBSET Run]
      /\ Nothing \in [state : [Run -> StateType], cancelling : SUBSET Run]
      /\ command \in [Client -> {"none", "queued", "claimed", "done"}]
      /\ [c \in Client |-> "none"] \in [Client -> {"none", "queued", "claimed", "done"}]
      /\ Inbox \in SUBSET Cancel /\ Awaiting \in SUBSET Cancel
      /\ \A s : Commands(d, s) \in SUBSET Cancel
  BY DEF ReadersTypeOK, TypeOK, Runs, Nothing, StateType, Inbox, Awaiting, Commands
<1>4. \A here \in {"runs", "inbox", "queued", "claimed"} :
        After(here) \in {"inbox", "queued", "claimed", "display"}
  BY DEF After
<1> USE <1>1, <1>2 DEF ReadersTypeOK, StateType, Going
<1>5. CASE GetReport(d)
  <2>1. /\ place' = [place EXCEPT ![d] = "end"] \/ place' = [place EXCEPT ![d] = "missing"]
        /\ UNCHANGED <<view, seen, listed, found, retried, sought>>
    BY <1>5 DEF GetReport
  <2>2. shown' = shown \/ shown' = [shown EXCEPT ![d][subject[d]] = "report"]
    BY <1>5 DEF GetReport
  <2>3. shown' \in [Reader -> [Run -> Displays]]
    BY <2>2, ReportShown
  <2> QED  BY <2>1, <2>3
<1>6. CASE OpenReader(d) \/ ReadFails(d)
  <2>1. /\ UNCHANGED shown
        /\ place' = [place EXCEPT ![d] = "runs"]
        /\ seen' = [seen EXCEPT ![d] = Runs] /\ view' = [view EXCEPT ![d] = command]
        /\ listed' = [listed EXCEPT ![d] = {}] /\ found' = [found EXCEPT ![d] = {}]
        /\ sought' = [sought EXCEPT ![d] = Awaiting]
        /\ retried' = retried \/ retried' = [retried EXCEPT ![d] = TRUE]
    BY <1>6 DEF OpenReader, ReadFails, Opened
  <2> QED  BY <1>3, <2>1
<1>7. CASE Refresh(d)
  BY <1>3, <1>7 DEF Refresh
<1>8. CASE ReadFailsAgain(d)
  BY <1>3, <1>8 DEF ReadFailsAgain, Closes
<1>9. CASE ReadRuns(d)
  BY <1>4, <1>9 DEF ReadRuns
<1>10. CASE ListInbox(d)
  BY <1>3, <1>4, <1>10 DEF ListInbox
<1>11. CASE ReadQueued(d) \/ ReadClaimed(d)
  <2>1. UNCHANGED <<seen, view, listed, retried, shown>>
    BY <1>11 DEF ReadQueued, ReadClaimed
  <2>2. \E there \in {"queued", "claimed", "display"} : place' = [place EXCEPT ![d] = there]
    BY <1>11 DEF ReadQueued, ReadClaimed, After
  <2>3. found' \in [Reader -> SUBSET Cancel] /\ sought' \in [Reader -> SUBSET Cancel]
    <3>1. CASE ReadQueued(d)
      BY <1>3, <3>1 DEF ReadQueued, Finds
    <3>2. CASE ReadClaimed(d)
      BY <1>3, <3>2 DEF ReadClaimed, Finds
    <3> QED  BY <1>11, <3>1, <3>2
  <2> QED  BY <2>1, <2>2, <2>3
<1>12. ASSUME NEW c \in Cancel, ReadEntry(d, c) PROVE ReadersTypeOK'
  BY <1>3, <1>4, <1>12 DEF ReadEntry, Finds
<1>13. CASE Display(d)
  <2>1. /\ place' \in [Reader -> {"start", "missing", "runs", "inbox", "entries", "queued",
                                  "claimed", "display", "end"}]
        /\ seen' \in [Reader -> [state : [Run -> StateType], cancelling : SUBSET Run]]
        /\ view' \in [Reader -> [Client -> {"none", "queued", "claimed", "done"}]]
        /\ listed' \in [Reader -> SUBSET Cancel] /\ found' \in [Reader -> SUBSET Cancel]
        /\ sought' \in [Reader -> SUBSET Cancel] /\ UNCHANGED retried
    BY <1>3, <1>13 DEF Display, Closes
  <2>2. \A r \in Run : seen[d].state[r] \in StateType
    OBVIOUS
  <2>3. shown' \in [Reader -> [Run -> Displays]]
    BY <1>13, <2>2, DisplayTypes DEF Display, Displays
  <2> QED  BY <2>1, <2>3
<1> QED
  BY <1>5, <1>6, <1>7, <1>8, <1>9, <1>10, <1>11, <1>12, <1>13 DEF ReaderStep

LEMMA ReadersTypeStep == ASSUME ReadersTypeOK, [ReadersNext]_readerVars PROVE ReadersTypeOK'
<1>1. CASE UNCHANGED readerVars
  <2>1. TypeOK'
    BY <1>1, ControlStep DEF readerVars, ReadersTypeOK
  <2> QED  BY <1>1, <2>1 DEF readerVars, objects, given, reading, ReadersTypeOK
<1> QED  BY <1>1, EveryStep, WriterTypes, ReaderTypes

THEOREM ReadersTypeCorrect == ReadersSpec => []ReadersTypeOK
BY ReadersInitTypes, ReadersTypeStep, PTL DEF ReadersSpec

-----------------------------------------------------------------------------
(* What is shown, and the reports. *)

\* A run that the writer or a step has as succeeded has its report in the store.
ReportInv == \A r \in Run : r \in written \/ state[r] = "succeeded" => report[r] # "none"

\* A run that ended is as it was since, and one with a dead step may have failed.
Since(before, now) ==
  /\ before \in Terminal => now = before
  /\ before = "dead" => now \in {"dead", "failed"}

\* An end, a dead step and a cancellation that a reader read are so, and what it has of
\* the control queue are cancellations that were sent.
ViewInv ==
  /\ \A d \in Reader, r \in Run :
       /\ Since(seen[d].state[r], state[r])
       /\ r \in seen[d].cancelling => Sought(r)
  /\ \A d \in Reader, c \in Client : view[d][c] # "none" => c \in Cancel /\ Sent(c)
  /\ \A d \in Reader, c \in Cancel : c \in found[d] => Sent(c)
  /\ ShownIsSo

LEMMA ReportStep ==
  ASSUME ReadersTypeOK, ReportInv, [ReadersNext]_readerVars
  PROVE  ReportInv'
<1>1. CASE Control
  <2> SUFFICES ASSUME NEW r \in Run, r \in written' \/ state'[r] = "succeeded"
               PROVE  report'[r] # "none"
    BY DEF ReportInv
  <2>1. UNCHANGED report /\ written' \subseteq written
    BY <1>1 DEF Control, Settles
  <2>2. CASE r \in written'
    BY <2>1, <2>2 DEF ReportInv
  <2>3. CASE state'[r] = "succeeded"
    <3>1. state[r] \in {"running", "succeeded"}
      BY <1>1, <2>3, StepsSucceed DEF Control, ReadersTypeOK
    <3>2. state[r] = "running" => r \in written
      BY <1>1, <2>3 DEF Control, Settles, Unclaimed
    <3> QED  BY <2>1, <3>1, <3>2 DEF ReportInv
  <2> QED  BY <2>2, <2>3
<1>2. ASSUME NEW p \in Process, NEW r \in Run, PutReport(p, r) PROVE ReportInv'
  BY <1>2 DEF PutReport, ReportInv, ReadersTypeOK, vars, store
<1>3. ASSUME NEW r \in Run, Collect(r) PROVE ReportInv'
  BY <1>3 DEF Collect, ReportInv, ReadersTypeOK, vars, store
<1>4. ASSUME NEW p \in Process, NEW c \in Client, Delete(p, c) PROVE ReportInv'
  BY <1>4 DEF Delete, ReportInv, vars, store
<1>5. ASSUME NEW d \in Reader, ReaderStep(d) PROVE ReportInv'
  BY <1>5, ReadersLeave DEF objects, ReportInv, vars, store
<1>6. CASE UNCHANGED readerVars
  BY <1>6 DEF readerVars, objects, ReportInv, vars, store
<1> QED  BY <1>1, <1>2, <1>3, <1>4, <1>5, <1>6, EveryStep DEF WriterStep

\* What was sent and what ended stays so.
LEMMA FactsStay ==
  ASSUME ControlInv, [Next]_vars
  PROVE  /\ \A r \in Run : Since(state[r], state'[r])
         /\ \A c \in Client : Sent(c) => Sent(c)'
         /\ \A r \in Run : Sought(r) => Sought(r)'
<1>1. \A r \in Run : Since(state[r], state'[r])
  BY RunsGoForth DEF ControlInv, GoesForth, Ended, Since
<1>2. \A c \in Client : Forth(c)
  BY EntriesGoForth DEF ControlInv
<1> QED  BY <1>1, <1>2 DEF Forth, Sought, Client

LEMMA ViewWriterStep ==
  ASSUME ReadersTypeOK, ControlInv, ViewInv, WriterStep
  PROVE  ViewInv'
<1>1. /\ \A r \in Run : Since(state[r], state'[r])
      /\ \A c \in Client : Sent(c) => Sent(c)'
      /\ \A r \in Run : Sought(r) => Sought(r)'
  BY FactsStay, WriterSteps
<1>2. UNCHANGED <<seen, view, found, shown, kind>>
  BY WriterSteps DEF given
<1>3. ShownIsSo'
  BY <1>1, <1>2 DEF ViewInv, ShownIsSo, Sought, Since, Terminal
<1>4. \A d \in Reader, r \in Run : Since(seen'[d].state[r], state'[r])
  BY <1>1, <1>2 DEF ViewInv, Since, Terminal
<1> QED  BY <1>1, <1>2, <1>3, <1>4 DEF ViewInv, Client

\* A display of a fact that holds leaves them as they are.
LEMMA ShownStays ==
  ASSUME ShownIsSo, UNCHANGED <<state, about, kind>>, \A c \in Client : Sent(c)' = Sent(c),
         \A e \in Reader, r \in Run :
           \/ shown'[e][r] = shown[e][r]
           \/ /\ shown'[e][r] \in Terminal =>
                   \/ state[r] = shown'[e][r]
                   \/ kind[e] # "show" /\ shown'[e][r] = "failed" /\ state[r] = "dead"
              /\ shown'[e][r] = "cancellation" => Sought(r)
  PROVE  ShownIsSo'
BY DEF ShownIsSo, Sought, Client

LEMMA ViewReaderStep ==
  ASSUME ReadersTypeOK, ControlInv, ViewInv, NEW d \in Reader, ReaderStep(d)
  PROVE  ViewInv'
<1>1. UNCHANGED vars
  BY ReadersLeave
<1>0. UNCHANGED kind
  BY ReadersLeave DEF given
<1>2. UNCHANGED <<state, cancelling, command, about>> /\ \A c \in Client : Sent(c)' = Sent(c)
  BY <1>1 DEF vars, store, entries, clients, Sent
<1>3. /\ \A r \in Run : Sought(r)' = Sought(r)
  BY <1>2 DEF Sought, Client
<1>4. /\ \A r \in Run : r \in Runs.cancelling => Sought(r)
      /\ \A c \in Client : command[c] # "none" => c \in Cancel /\ Sent(c)
  BY DEF ControlInv, EntryInv, Runs, Sought
<1>5. ASSUME shown' = shown PROVE ShownIsSo'
  BY <1>0, <1>2, <1>5, ShownStays DEF ViewInv
<1> USE <1>0, <1>2, <1>3, <1>4 DEF ViewInv, ReadersTypeOK
<1>6. CASE GetReport(d)
  <2>1. UNCHANGED <<seen, view, found>>
    BY <1>6 DEF GetReport
  <2>2. shown' = shown \/ shown' = [shown EXCEPT ![d][subject[d]] = "report"]
    BY <1>6 DEF GetReport
  <2>3. \A e \in Reader, r \in Run : shown'[e][r] = shown[e][r] \/ shown'[e][r] = "report"
    BY <2>2, ReportShown
  <2>4. "report" \notin Terminal /\ "report" # "cancellation"
    BY DEF Terminal
  <2>5. ShownIsSo'
    BY <2>3, <2>4, ShownStays
  <2> QED  BY <2>1, <2>5 DEF Client
<1>17. ASSUME UNCHANGED shown,
              \A e \in Reader : /\ seen'[e] = seen[e] \/ seen'[e] = Runs
                                /\ view'[e] = view[e] \/ view'[e] = command
                                /\ found'[e] = found[e] \/ found'[e] = {}
       PROVE  ViewInv'
  <2>1. Runs.state = state
    BY DEF Runs
  <2>2. ASSUME NEW e \in Reader, NEW r \in Run
        PROVE  /\ Since(seen'[e].state[r], state'[r])
               /\ r \in seen'[e].cancelling => Sought(r)'
    <3>1. CASE seen'[e] = seen[e]
      BY <3>1
    <3>2. CASE seen'[e] = Runs
      BY <2>1, <3>2 DEF Since
    <3> QED  BY <1>17, <3>1, <3>2
  <2>3. ASSUME NEW e \in Reader, NEW c \in Client, view'[e][c] # "none"
        PROVE  c \in Cancel /\ Sent(c)'
    BY <1>17, <2>3
  <2>4. ASSUME NEW e \in Reader, NEW c \in Cancel, c \in found'[e] PROVE Sent(c)'
    BY <1>17, <2>4 DEF Client
  <2> QED  BY <1>5, <1>17, <2>2, <2>3, <2>4
<1>7. CASE OpenReader(d) \/ ReadFails(d)
  <2>1. /\ UNCHANGED shown /\ found' = [found EXCEPT ![d] = {}]
        /\ seen' = [seen EXCEPT ![d] = Runs] /\ view' = [view EXCEPT ![d] = command]
    BY <1>7 DEF OpenReader, ReadFails, Opened
  <2>2. \A e \in Reader : /\ seen'[e] = seen[e] \/ seen'[e] = Runs
                          /\ view'[e] = view[e] \/ view'[e] = command
                          /\ found'[e] = found[e] \/ found'[e] = {}
    BY <2>1
  <2> QED  BY <1>5, <1>17, <2>1, <2>2
<1>8. CASE Refresh(d)
  <2>1. /\ UNCHANGED <<shown, found>> /\ view' = [view EXCEPT ![d] = command]
        /\ seen' = seen \/ seen' = [seen EXCEPT ![d] = Runs]
    BY <1>8 DEF Refresh
  <2>2. \A e \in Reader : /\ seen'[e] = seen[e] \/ seen'[e] = Runs
                          /\ view'[e] = view[e] \/ view'[e] = command
                          /\ found'[e] = found[e] \/ found'[e] = {}
    BY <2>1
  <2> QED  BY <1>5, <1>17, <2>1, <2>2
<1>9. ASSUME Closes(d)
      PROVE  /\ \A e \in Reader, r \in Run :
                  /\ Since(seen'[e].state[r], state'[r])
                  /\ r \in seen'[e].cancelling => Sought(r)'
             /\ \A e \in Reader, c \in Client : view'[e][c] # "none" => c \in Cancel /\ Sent(c)'
             /\ \A e \in Reader, c \in Cancel : c \in found'[e] => Sent(c)'
  <2>1. Nothing.cancelling = {} /\ \A r \in Run : Since(Nothing.state[r], state[r])
    BY DEF Nothing, Since, Terminal
  <2>2. /\ seen' = [seen EXCEPT ![d] = Nothing]
        /\ view' = [view EXCEPT ![d] = [c \in Client |-> "none"]]
        /\ found' = [found EXCEPT ![d] = {}]
    BY <1>9 DEF Closes
  <2> QED  BY <2>1, <2>2 DEF Client
<1>10. CASE ReadFailsAgain(d)
  BY <1>5, <1>9, <1>10 DEF ReadFailsAgain
<1>11. CASE ReadRuns(d)
  BY <1>5, <1>11 DEF ReadRuns, Client
<1>12. CASE ListInbox(d)
  BY <1>5, <1>12 DEF ListInbox, Client
<1>13. ASSUME NEW here \in SUBSET Cancel, \A c \in here : Sent(c),
              found' = [found EXCEPT ![d] = @ \cup here], UNCHANGED <<seen, view, shown>>
       PROVE  ViewInv'
  BY <1>5, <1>13 DEF Client
<1>14. CASE ReadQueued(d) \/ ReadClaimed(d)
  <2>1. \A s \in {"queued", "claimed"} : \A c \in Commands(d, s) : c \in Cancel /\ Sent(c)
    BY DEF Commands, Client
  <2> QED  BY <1>13, <1>14, <2>1 DEF ReadQueued, ReadClaimed, Finds
<1>15. ASSUME NEW c \in Cancel, ReadEntry(d, c) PROVE ViewInv'
  <2>1. {c} \cap Inbox \in SUBSET Cancel /\ \A e \in {c} \cap Inbox : Sent(e)
    BY DEF Inbox
  <2> QED  BY <1>13, <1>15, <2>1 DEF ReadEntry, Finds
<1>16. CASE Display(d)
  <2>1. ASSUME NEW r \in Run
        PROVE  /\ shown'[d][r] \in Terminal =>
                    \/ state[r] = shown'[d][r]
                    \/ kind[d] # "show" /\ shown'[d][r] = "failed" /\ state[r] = "dead"
               /\ shown'[d][r] = "cancellation" => Sought(r)
    <3> DEFINE known == \/ r \in seen[d].cancelling
                        \/ \E c \in found[d] : about[c] = r
    <3>1. known => Sought(r)
      BY DEF Sought
    <3>2. /\ seen[d].state[r] \in StateType /\ known \in BOOLEAN
          /\ \/ shown'[d][r] = "nothing"
             \/ shown'[d][r] = Refusal(seen[d].state[r])
             \/ kind[d] # "show" /\ shown'[d][r] = DisplayStatus(seen[d].state[r], known)
      BY <1>16 DEF Display, StateType
    <3>3. Since(seen[d].state[r], state[r])
      OBVIOUS
    <3> HIDE DEF known
    <3>4. CASE shown'[d][r] = "nothing"
      BY <3>4 DEF Terminal
    <3>5. CASE shown'[d][r] = Refusal(seen[d].state[r])
      BY <3>2, <3>3, <3>5, DisplayTypes DEF Since
    <3>6. CASE kind[d] # "show" /\ shown'[d][r] = DisplayStatus(seen[d].state[r], known)
      BY <3>1, <3>2, <3>3, <3>6, DisplayTypes DEF Since
    <3> QED  BY <3>2, <3>4, <3>5, <3>6
  <2>2. \A e \in Reader : e # d => shown'[e] = shown[e]
    BY <1>16 DEF Display
  <2>3. ShownIsSo'
    BY <2>1, <2>2, ShownStays
  <2> QED  BY <1>9, <1>16, <2>3 DEF Display
<1> QED
  BY <1>6, <1>7, <1>8, <1>10, <1>11, <1>12, <1>14, <1>15, <1>16 DEF ReaderStep

LEMMA ViewStep ==
  ASSUME ReadersTypeOK, ControlInv, ViewInv, [ReadersNext]_readerVars
  PROVE  ViewInv'
<1>1. CASE UNCHANGED readerVars
  <2>1. UNCHANGED <<state, about, at, told, seen, view, found, shown, kind>>
    BY <1>1 DEF readerVars, vars, store, clients, reading, given
  <2> QED  BY <2>1 DEF ViewInv, ShownIsSo, Sought, Sent
<1> QED  BY <1>1, EveryStep, ViewWriterStep, ViewReaderStep

FactsInv == ReadersTypeOK /\ ControlInv /\ ReportInv /\ ViewInv

LEMMA FactsInitially == ReadersInit => FactsInv
<1> SUFFICES ASSUME ReadersInit PROVE FactsInv
  OBVIOUS
<1>1. ReadersTypeOK /\ ControlInv /\ Init
  BY ReadersInitTypes, ControlInvInit DEF ReadersInit
<1>2. ReportInv
  BY <1>1 DEF ReportInv, ReadersInit, Init
<1>3. ViewInv
  <2>1. \A c \in Client : command[c] = "none"
    BY <1>1 DEF Init
  <2> QED  BY <2>1 DEF ViewInv, ShownIsSo, Since, ReadersInit, Nothing, Terminal, Client
<1> QED  BY <1>1, <1>2, <1>3 DEF FactsInv

LEMMA FactsInvariant == ReadersSpec => []FactsInv
<1>1. FactsInv /\ [ReadersNext]_readerVars => FactsInv'
  BY ReadersTypeStep, ControlInvStep, ControlPart, ReportStep, ViewStep DEF FactsInv
<1> QED  BY <1>1, FactsInitially, PTL DEF ReadersSpec

\* A success or a cancellation that `list`, `status` or `show` tells is the end of the run
\* and stays so, a failure is so or is told of a dead step, whose run ends in no other way,
\* and a requested cancellation that they tell was sent, with any number of readers,
\* processes and commands (derive_display_status, store.rs:165).
THEOREM ShownStaysSo == ReadersSpec => []ShownIsSo
<1>1. FactsInv => ShownIsSo
  BY DEF FactsInv, ViewInv
<1> QED  BY <1>1, FactsInvariant, PTL

\* The report of a run that is told as succeeded is or was in the object store: the step
\* that settles it put it there, in this or an earlier delivery.
THEOREM SucceededIsInStore == ReadersSpec => []SucceededIsThere
<1>1. FactsInv => SucceededIsThere
  <2> SUFFICES ASSUME FactsInv, NEW d \in Reader, NEW r \in Run, shown[d][r] = "succeeded"
               PROVE  report[r] # "none"
    BY DEF SucceededIsThere
  <2>1. state[r] = "succeeded"
    BY DEF FactsInv, ViewInv, ShownIsSo, Terminal
  <2> QED  BY <2>1 DEF FactsInv, ReportInv
<1> QED  BY <1>1, FactsInvariant, PTL

-----------------------------------------------------------------------------
(* The cancellations that a reading misses. *)

\* An entry only goes from the inbox once its command is in the control queue.  What a
\* reader sought is where it has still to look, or it was applied.
SoughtOf(d, c) ==
  /\ Sent(c) /\ Behind(view[d][c], command[c])
  /\ place[d] = "entries" => c \in listed[d] \cup deleted
  /\ place[d] \in {"queued", "claimed"} => c \in deleted
  /\ place[d] = "claimed" => view[d][c] \in {"claimed", "done"}
  /\ place[d] = "display" /\ Looks(d) => command[c] = "done"

SoughtInv ==
  /\ \A c \in deleted : outcome[c] # "none"
  /\ \A d \in Reader : \A c \in sought[d] : SoughtOf(d, c)

LEMMA BehindIsOrder ==
  /\ \A v : Behind(v, v)
  /\ \A u, v, w : Behind(u, v) /\ Behind(v, w) => Behind(u, w)
  /\ \A w : Behind("done", w) => w = "done"
BY DEF Behind

LEMMA LooksStays ==
  ASSUME NEW d \in Reader, UNCHANGED <<seen, given>> PROVE Looks(d)' = Looks(d)
BY DEF Looks, given

LEMMA SoughtWriterStep ==
  ASSUME FactsInv, SoughtInv, WriterStep
  PROVE  SoughtInv'
<1>1. \A c \in Client : Forth(c)
  BY WriterSteps, EntriesGoForth DEF FactsInv, ControlInv
<1>2. deleted \subseteq deleted' /\ \A c \in deleted' : outcome'[c] # "none"
  <2>1. CASE Control
    BY <1>1, <2>1 DEF Control, SoughtInv, Forth, FactsInv, ReadersTypeOK
  <2>2. ASSUME NEW p \in Process, NEW r \in Run, PutReport(p, r)
        PROVE  deleted \subseteq deleted' /\ \A c \in deleted' : outcome'[c] # "none"
    BY <2>2 DEF PutReport, SoughtInv, vars, entries
  <2>3. ASSUME NEW r \in Run, Collect(r)
        PROVE  deleted \subseteq deleted' /\ \A c \in deleted' : outcome'[c] # "none"
    BY <2>3 DEF Collect, SoughtInv, vars, entries
  <2>4. ASSUME NEW p \in Process, NEW c \in Client, Delete(p, c)
        PROVE  deleted \subseteq deleted' /\ \A e \in deleted' : outcome'[e] # "none"
    BY <2>4 DEF Delete, SoughtInv, vars, entries
  <2> QED  BY <2>1, <2>2, <2>3, <2>4 DEF WriterStep
<1>3. ASSUME NEW d \in Reader, NEW c \in sought'[d] PROVE SoughtOf(d, c)'
  <2>1. c \in sought[d] /\ c \in Cancel /\ c \in Client
    BY <1>3, WriterSteps DEF FactsInv, ReadersTypeOK, Client
  <2>2. Behind(command[c], command'[c])
    <3>1. CASE Control
      <4>1. c \notin Requeues
        BY <1>3, <3>1 DEF Control
      <4> QED  BY <1>1, <2>1, <4>1 DEF Forth, Requeues, Requeuing
    <3>2. CASE UNCHANGED <<vars, sought>>
      BY <3>2, BehindIsOrder DEF vars, entries
    <3> QED  BY <3>1, <3>2, WriterSteps
  <2>3. SoughtOf(d, c) /\ Sent(c)'
    BY <1>1, <2>1 DEF SoughtInv, SoughtOf, Forth
  <2>4. UNCHANGED <<view, place, listed, seen, given>>
    BY WriterSteps
  <2>5. Behind(view'[d][c], command'[c]) /\ (command[c] = "done" => command'[c] = "done")
    BY <2>2, <2>3, <2>4, BehindIsOrder DEF SoughtOf
  <2>6. Looks(d)' = Looks(d)
    BY <2>4, LooksStays
  <2> QED  BY <1>2, <2>3, <2>4, <2>5, <2>6 DEF SoughtOf
<1> QED  BY <1>2, <1>3 DEF SoughtInv

LEMMA SoughtReaderStep ==
  ASSUME FactsInv, SoughtInv, NEW d \in Reader, ReaderStep(d)
  PROVE  SoughtInv'
<1>1. UNCHANGED <<vars, objects, given>>
  BY ReadersLeave
<1>2. /\ UNCHANGED <<command, deleted, outcome, given>> /\ \A c \in Client : Sent(c)' = Sent(c)
  BY <1>1 DEF vars, objects, entries, clients, Sent
<1>3. ReadersTypeOK /\ Cancel \subseteq Client
  BY DEF FactsInv, Client
<1>4. \A e \in Reader : e # d => /\ view'[e] = view[e] /\ place'[e] = place[e] /\ seen'[e] = seen[e]
                                 /\ listed'[e] = listed[e] /\ sought'[e] = sought[e]
  BY <1>3
     DEF ReaderStep, GetReport, OpenReader, Opened, Refresh, ReadFails, ReadFailsAgain, Closes,
         ReadRuns, ListInbox, ReadQueued, ReadClaimed, Display, ReadEntry, Finds, Going, ReadersTypeOK
<1>5. SUFFICES ASSUME NEW c \in sought'[d] PROVE SoughtOf(d, c)'
  <2>1. ASSUME NEW e \in Reader, e # d, NEW c \in sought'[e] PROVE SoughtOf(e, c)'
    <3>1. SoughtOf(e, c) /\ c \in Client
      BY <1>3, <1>4, <2>1 DEF SoughtInv, ReadersTypeOK
    <3>2. Looks(e)' = Looks(e)
      BY <1>2, <1>4, <2>1 DEF Looks, given
    <3> QED  BY <1>2, <1>4, <2>1, <3>1, <3>2 DEF SoughtOf
  <2> QED  BY <1>2, <1>5, <2>1 DEF SoughtInv
<1> USE <1>2 DEF Going, ReadersTypeOK
<1>6. CASE OpenReader(d) \/ ReadFails(d)
  <2>1. place'[d] = "runs" /\ view'[d] = command /\ c \in Awaiting
    BY <1>3, <1>5, <1>6 DEF OpenReader, ReadFails, Opened
  <2> QED  BY <1>3, <2>1, BehindIsOrder DEF SoughtOf, Awaiting
<1>7. CASE Display(d) \/ ReadFailsAgain(d)
  BY <1>3, <1>5, <1>7 DEF Display, ReadFailsAgain, Closes
<1>8. ASSUME sought' = sought
      PROVE  c \in Client /\ SoughtOf(d, c)
  BY <1>3, <1>5, <1>8 DEF SoughtInv
<1>9. CASE GetReport(d)
  <2>1. place'[d] \in {"end", "missing"} /\ UNCHANGED <<view, sought>>
    BY <1>3, <1>9 DEF GetReport
  <2> QED  BY <1>8, <2>1 DEF SoughtOf
<1>10. CASE Refresh(d)
  <2>1. /\ UNCHANGED <<place, listed, sought>> /\ view'[d] = command
        /\ place[d] \notin {"display"} /\ place[d] # "start"
    BY <1>3, <1>10 DEF Refresh, Reads
  <2>2. place[d] = "claimed" => command[c] \in {"claimed", "done"}
    BY <1>8, <2>1 DEF SoughtOf, Behind
  <2> QED  BY <1>8, <2>1, <2>2, BehindIsOrder DEF SoughtOf
<1>11. CASE ReadRuns(d)
  <2>1. /\ UNCHANGED <<view, seen, listed, sought>>
        /\ place'[d] = IF Looks(d) THEN "inbox" ELSE "display"
    BY <1>3, <1>11 DEF ReadRuns, After
  <2>2. Looks(d)' = Looks(d)
    BY <2>1, LooksStays
  <2> QED  BY <1>8, <2>1, <2>2 DEF SoughtOf
<1>12. CASE ListInbox(d)
  <2>1. /\ UNCHANGED <<view, sought>> /\ listed'[d] = Inbox
        /\ place'[d] = IF Inbox = {} THEN "queued" ELSE "entries"
    BY <1>3, <1>12 DEF ListInbox, After
  <2>2. c \in Cancel
    BY <1>3, <1>5, <2>1
  <2>3. c \in Inbox \/ c \in deleted
    BY <1>8, <2>1, <2>2 DEF SoughtOf, Inbox
  <2> QED  BY <1>8, <2>1, <2>3 DEF SoughtOf
<1>13. ASSUME NEW b \in Cancel, ReadEntry(d, b) PROVE SoughtOf(d, c)'
  <2>1. /\ UNCHANGED view /\ listed'[d] = listed[d] \ {b} /\ place[d] = "entries"
        /\ sought'[d] = sought[d] \ ({b} \cap Inbox)
        /\ place'[d] = IF listed[d] = {b} THEN "queued" ELSE "entries"
    BY <1>3, <1>13 DEF ReadEntry, Finds, After
  <2>2. c \in Cancel /\ SoughtOf(d, c)
    BY <1>3, <1>5, <2>1 DEF SoughtInv
  <2>3. c = b => c \in deleted
    BY <1>5, <2>1, <2>2 DEF SoughtOf, Inbox
  <2> QED  BY <1>3, <2>1, <2>2, <2>3 DEF SoughtOf
<1>14. CASE ReadQueued(d)
  <2>1. /\ UNCHANGED <<view, listed>> /\ place[d] = "queued" /\ place'[d] = "claimed"
        /\ sought'[d] = sought[d] \ (Commands(d, "queued") \cup Lags(d))
    BY <1>3, <1>14 DEF ReadQueued, Finds, After
  <2>2. c \in Cancel /\ SoughtOf(d, c) /\ c \in deleted
    BY <1>3, <1>5, <2>1 DEF SoughtInv, SoughtOf
  <2>3. command[c] # "none"
    BY <1>3, <2>2 DEF SoughtInv, FactsInv, ControlInv, EntryInv
  <2>4. view[d][c] \in {"claimed", "done"}
    BY <1>3, <1>5, <2>1, <2>2, <2>3 DEF Commands, Lags
  <2> QED  BY <1>3, <2>1, <2>2, <2>4 DEF SoughtOf
<1>15. CASE ReadClaimed(d)
  <2>1. /\ UNCHANGED <<view, listed>> /\ place[d] = "claimed" /\ place'[d] = "display"
        /\ sought'[d] = sought[d] \ Commands(d, "claimed")
    BY <1>3, <1>15 DEF ReadClaimed, Finds, After
  <2>2. c \in Cancel /\ SoughtOf(d, c)
    BY <1>3, <1>5, <2>1 DEF SoughtInv
  <2>3. view[d][c] = "done" /\ command[c] = "done"
    BY <1>5, <2>1, <2>2, BehindIsOrder DEF SoughtOf, Commands
  <2> QED  BY <1>3, <2>1, <2>2, <2>3 DEF SoughtOf
<1> QED
  BY <1>6, <1>7, <1>9, <1>10, <1>11, <1>12, <1>13, <1>14, <1>15 DEF ReaderStep

LEMMA SoughtInvariant == ReadersSpec => []SoughtInv
<1>1. ReadersInit => SoughtInv
  BY DEF ReadersInit, SoughtInv
<1>2. FactsInv /\ SoughtInv /\ [ReadersNext]_readerVars => SoughtInv'
  <2> SUFFICES ASSUME FactsInv, SoughtInv, [ReadersNext]_readerVars PROVE SoughtInv'
    OBVIOUS
  <2>1. CASE UNCHANGED readerVars
    <3>1. UNCHANGED <<at, told, command, outcome, deleted, view, place, listed, seen, sought, given>>
      BY <2>1 DEF readerVars, vars, objects, entries, clients, reading
    <3>2. \A d \in Reader : Looks(d)' = Looks(d)
      BY <3>1, LooksStays
    <3> QED  BY <3>1, <3>2 DEF SoughtInv, SoughtOf, Sent
  <2> QED  BY <2>1, EveryStep, SoughtWriterStep, SoughtReaderStep
<1> QED  BY <1>1, <1>2, FactsInvariant, PTL DEF ReadersSpec

\* The reading order, the inbox before the control queue and there the queued commands
\* before the claimed ones, finds a cancellation on its way through the writer.
THEOREM CancellationsAreSeen == ReadersSpec => CancellationSeen
<1>1. ASSUME FactsInv, SoughtInv, NEW d \in Reader, NEW c \in sought[d], Display(d),
             shown'[d][about[c]] \in {"waiting", "running", "queued"}
      PROVE  command[c] = "done"
  <2> DEFINE r == about[c]
             known == \/ r \in seen[d].cancelling
                      \/ \E b \in found[d] : about[b] = r
  <2>1. /\ place[d] = "display" /\ SoughtOf(d, c)
    BY <1>1 DEF Display, SoughtInv
  <2>2. /\ r \in Run /\ seen[d].state[r] \in StateType /\ known \in BOOLEAN
    BY <1>1 DEF FactsInv, ReadersTypeOK, TypeOK, StateType, Client
  <2>3. shown'[d][r] = IF kind[d] # "list" /\ r # subject[d] THEN "nothing"
                       ELSE IF kind[d] = "show" THEN Refusal(seen[d].state[r])
                       ELSE DisplayStatus(seen[d].state[r], known)
    BY <1>1, <2>2 DEF Display, FactsInv, ReadersTypeOK
  <2>4. Refusal(seen[d].state[r]) \notin {"waiting", "running", "queued"}
    BY <2>2, DisplayTypes
  <2>5. /\ kind[d] = "list" \/ r = subject[d]
        /\ kind[d] # "show"
        /\ DisplayStatus(seen[d].state[r], known) \in {"waiting", "running", "queued"}
    BY <1>1, <2>3, <2>4
  <2>6. seen[d].state[r] \in Active /\ r \notin seen[d].cancelling
    BY <2>2, <2>5, DisplayTypes
  <2>7. kind[d] \in {"list", "status", "show"}
    BY <1>1 DEF FactsInv, ReadersTypeOK
  <2>8. Looks(d)
    BY <2>2, <2>5, <2>6, <2>7 DEF Looks, Unfinished
  <2> QED  BY <2>1, <2>8 DEF SoughtOf
<1>2. FactsInv /\ SoughtInv /\ [ReadersNext]_readerVars =>
        [\A d \in Reader : \A c \in sought[d] :
           Display(d) /\ shown'[d][about[c]] \in {"waiting", "running", "queued"} =>
             command[c] = "done"]_readerVars
  BY <1>1
<1> QED  BY <1>2, FactsInvariant, SoughtInvariant, PTL DEF ReadersSpec, CancellationSeen
=============================================================================
