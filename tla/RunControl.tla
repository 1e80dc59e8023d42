----------------------------- MODULE RunControl -----------------------------
(***************************************************************************)
(* The command line around the runs of one store: `run` and `resume`, the  *)
(* processes that write the store and execute its jobs, and `cancel` and   *)
(* `reply`, which read it and leave an entry in the inbox of the writer.   *)
(*                                                                         *)
(* A run is what the queue has of it: a step that waits for a claim, runs, *)
(* waits for the user or for the tool jobs that it submitted.  What a step *)
(* does is in ResearchRun.  A run has one question and one tool job at a   *)
(* time.  A read of the store is one step, so a reader that lags behind    *)
(* the writer is one that acts later on what it read.                      *)
(***************************************************************************)
EXTENDS Naturals, FiniteSets

CONSTANTS
  Run,
  Process,    (* the processes of `run` and `resume`, one after the other or beside *)
  Cancel,     (* the `cancel` commands, each sent once                     *)
  Reply,      (* the `reply` commands, each sent once                      *)
  Nobody,
  MaxFaults   (* bound on the crashes, interrupts, failed workers and takeovers of a
                 live process *)

Client == Cancel \cup Reply

ASSUME ControlAssumption ==
  /\ Run # {} /\ Nobody \notin Process /\ MaxFaults \in Nat
  /\ Cancel \cap Reply = {} /\ Client \cap {"none", "open", "assumed"} = {}

VARIABLES
  \* The store: the step, the running runs with a cancellation, the tool job, the
  \* reply that the step has as its signal and the one that the payload has.
  state, cancelling, tool, signal, answer,
  \* The process that wrote the store last, and what its beats tell.
  owner, beat,
  \* The outcome of the entries of the inbox, and the jobs of the control queue.
  outcome, command,
  \* The `run` and `resume` processes: where they are and the run they wait for.
  pc, target,
  \* The commands: what they are about, where they are and what they told the user.
  at, about, told,
  \* Ghost: the faults so far, and whether the process that wrote the store last crashed
  \* or lost its worker.
  faults, broken

store    == <<state, cancelling, tool, signal, answer>>
writer   == <<owner, beat>>
entries  == <<outcome, command>>
workers  == <<pc, target>>
clients  == <<at, about, told>>
ghosts   == <<faults, broken>>
vars     == <<store, writer, entries, workers, clients, ghosts>>

Terminal == {"succeeded", "failed", "cancelled"}
Active   == {"pending", "running", "waiting", "group"}

\* The queue dead-letters a step of which no attempt is left outside of a worker.  Its
\* run did not end: the next worker does that.
Unfinished == Active \cup {"dead"}
Ended(r) == state[r] \in Terminal

Init ==
  /\ state = [r \in Run |-> "absent"] /\ cancelling = {} /\ tool = [r \in Run |-> "none"]
  /\ signal = [r \in Run |-> "none"] /\ answer = [r \in Run |-> "none"]
  /\ owner = Nobody /\ beat = "none"
  /\ outcome = [c \in Client |-> "none"] /\ command = [c \in Client |-> "none"]
  /\ pc = [p \in Process |-> "off"] /\ target = [p \in Process |-> CHOOSE r \in Run : TRUE]
  /\ at = [c \in Client |-> "start"] /\ about \in [Client -> Run] /\ told = [c \in Client |-> "nothing"]
  /\ faults = 0 /\ broken = FALSE

-----------------------------------------------------------------------------
(* `run` and `resume`. *)

\* The process has the store and its worker takes steps; it has the store and its
\* tool jobs run; it has the store.
Holds(p)   == owner = p /\ pc[p] \notin {"off", "resuming"}
Serves(p)  == owner = p /\ pc[p] = "serving"
Employs(p) == owner = p /\ pc[p] \in {"serving", "draining", "interrupted"}

Goes(p, place) == pc' = [pc EXCEPT ![p] = place]

\* The claims that a reader counts.
Claimed == {r \in Run : state[r] = "running" \/ tool[r] = "claimed"}

\* Opening the writer fences the one before it and requeues its claims.  The claim
\* counted as an attempt of the step, which may have been the last one.
Requeued(place) == [r \in Run |-> IF state[r] = "running" THEN place ELSE state[r]]
Left == {"pending", "dead"}

Open(p) ==
  /\ tool' = [r \in Run |-> IF tool[r] = "claimed" THEN "queued" ELSE tool[r]]
  /\ command' = [c \in Client |-> IF command[c] = "claimed" THEN "queued" ELSE command[c]]
  /\ owner' = p /\ beat' = "live"
  /\ UNCHANGED <<cancelling, signal, answer, outcome, clients>>

\* To open the store of a process that lives is a fault of the user.
LiveOwner == \E p \in Process : Holds(p)
Takes == /\ LiveOwner => faults < MaxFaults
         /\ faults' = faults + (IF LiveOwner THEN 1 ELSE 0)
         /\ broken' = FALSE

\* `run` opens the store without a look at it, and submits its run.
StartRun(p, r) ==
  /\ pc[p] = "off" /\ state[r] = "absent"
  /\ Takes /\ Open(p)
  /\ \E place \in Left : state' = [Requeued(place) EXCEPT ![r] = "pending"]
  /\ Goes(p, "serving") /\ target' = [target EXCEPT ![p] = r]

\* `resume` reads the store first, and refuses while it sees a claim.  It lets a run
\* with a dead step pass.
Guard(p, r, force) ==
  /\ pc[p] = "off" /\ state[r] \in Unfinished
  /\ Claimed = {} \/ force
  /\ Goes(p, "resuming") /\ target' = [target EXCEPT ![p] = r]
  /\ UNCHANGED <<store, writer, entries, clients, ghosts>>

Resume(p) ==
  /\ pc[p] = "resuming"
  /\ Takes /\ Open(p)
  /\ \E place \in Left : state' = Requeued(place)
  /\ Goes(p, "serving")
  /\ UNCHANGED target

\* A process without the store fails at its next write.
Fenced(p) ==
  /\ owner # p /\ pc[p] \notin {"off", "resuming"}
  /\ Goes(p, "off")
  /\ UNCHANGED <<store, writer, entries, target, clients, ghosts>>

Crash(p) ==
  /\ pc[p] # "off" /\ faults < MaxFaults
  /\ Goes(p, "off")
  /\ faults' = faults + 1 /\ broken' = (broken \/ Holds(p))
  /\ UNCHANGED <<store, writer, entries, target, clients>>

-----------------------------------------------------------------------------
(* The steps and the tool jobs of the runs. *)

\* One claimer takes the steps of every run of the store.
Claim(p, r) ==
  /\ Serves(p) /\ state[r] = "pending" /\ \A s \in Run : state[s] # "running"
  /\ state' = [state EXCEPT ![r] = "running"]
  /\ UNCHANGED <<cancelling, tool, signal, answer, writer, entries, workers, clients, ghosts>>

\* A faulty variant: each step resolves the question anew from its own signal.
FaultyResolved(r) == IF answer[r] = "none" THEN "none"
                     ELSE IF signal[r] = "none" THEN "assumed" ELSE signal[r]

\* The answer that the payload of the run has after its step.
Resolved(r) == IF answer[r] # "open" THEN answer[r]
               ELSE IF signal[r] = "none" THEN "assumed" ELSE signal[r]

\* The step of a run with a cancellation ends the run, as cancelled unless the step
\* had its end before the token fired.  A step after the end of its wait cancels the
\* tool job that no process claimed, and waits for the claimed one.  A step that
\* fails leaves the payload as it was.
StepEnd(p, r) ==
  /\ Employs(p) /\ state[r] = "running" /\ tool[r] # "claimed"
  /\ \E next \in (IF r \in cancelling THEN {} ELSE {"pending", "waiting", "group"})
                 \cup Terminal :
       /\ next = "cancelled" => r \in cancelling
       /\ next = "waiting" => answer[r] = "none"
       /\ state' = [state EXCEPT ![r] = next]
       /\ answer' = [answer EXCEPT ![r] = IF next = "waiting" THEN "open"
                                          ELSE IF next \in {"cancelled", "failed"} THEN answer[r]
                                          ELSE Resolved(r)]
       /\ tool' = [tool EXCEPT ![r] = IF next = "group" THEN "queued" ELSE "none"]
  /\ signal' = [signal EXCEPT ![r] = "none"]
  /\ cancelling' = cancelling \ {r}
  /\ UNCHANGED <<writer, entries, workers, clients, ghosts>>

\* The step failed and has attempts left.
StepRetry(p, r) ==
  /\ Employs(p) /\ state[r] = "running" /\ tool[r] # "claimed" /\ r \notin cancelling
  /\ state' = [state EXCEPT ![r] = "pending"]
  /\ tool' = [tool EXCEPT ![r] = "none"]
  /\ UNCHANGED <<cancelling, signal, answer, writer, entries, workers, clients, ghosts>>

ToolClaim(p, r) ==
  /\ Employs(p) /\ tool[r] = "queued"
  /\ tool' = [tool EXCEPT ![r] = "claimed"]
  /\ UNCHANGED <<state, cancelling, signal, answer, writer, entries, workers, clients, ghosts>>

\* The last tool job of the group ends, and the wait with it.
ToolEnd(p, r) ==
  /\ Holds(p) /\ tool[r] = "claimed"
  /\ tool' = [tool EXCEPT ![r] = "none"]
  /\ state' = [state EXCEPT ![r] = IF @ = "group" THEN "pending" ELSE @]
  /\ UNCHANGED <<cancelling, signal, answer, writer, entries, workers, clients, ghosts>>

\* The wait for the user ends without a reply, or the one for the tool jobs before them.
WaitEnds(p, r) ==
  /\ Serves(p) /\ state[r] \in {"waiting", "group"}
  /\ state' = [state EXCEPT ![r] = "pending"]
  /\ UNCHANGED <<cancelling, tool, signal, answer, writer, entries, workers, clients, ghosts>>

\* A worker ends the run of a dead step as failed.
Bury(p, r) ==
  /\ Serves(p) /\ state[r] = "dead"
  /\ state' = [state EXCEPT ![r] = "failed"]
  /\ tool' = [tool EXCEPT ![r] = IF @ = "queued" THEN "none" ELSE @]
  /\ signal' = [signal EXCEPT ![r] = "none"]
  /\ cancelling' = cancelling \ {r}
  /\ UNCHANGED <<answer, writer, entries, workers, clients, ghosts>>

-----------------------------------------------------------------------------
(* The end of a process. *)

\* The run of the process ended, so its worker takes no further step.
Finish(p) ==
  /\ Serves(p) /\ Ended(target[p])
  /\ Goes(p, "draining")
  /\ UNCHANGED <<store, writer, entries, target, clients, ghosts>>

\* Ctrl+C, or an error of the wait for the run: the worker stops with its claims settled.
Interrupt(p) ==
  /\ Serves(p) /\ faults < MaxFaults
  /\ Goes(p, "interrupted")
  /\ faults' = faults + 1
  /\ UNCHANGED <<store, writer, entries, target, clients, broken>>

\* The worker fails or panics, with its claims left as they are.  The process ends as it
\* does otherwise: the run that failed exits at once, any other end goes on to the tool
\* runner and to the close of the queue.
WorkerFails(p) ==
  /\ Employs(p) /\ faults < MaxFaults
  /\ Goes(p, IF pc[p] = "draining" /\ state[target[p]] = "failed" THEN "off" ELSE "leaving")
  /\ faults' = faults + 1 /\ broken' = TRUE
  /\ UNCHANGED <<store, writer, entries, target, clients>>

\* The store of the process is open, and nobody renews the leases of the failed worker.
Unattended(p) == Holds(p) /\ ~Employs(p)

ExpireStep(p, r) ==
  /\ Unattended(p) /\ state[r] = "running"
  /\ \E place \in Left : state' = [state EXCEPT ![r] = place]
  /\ UNCHANGED <<cancelling, tool, signal, answer, writer, entries, workers, clients, ghosts>>

ExpireCommand(p, c) ==
  /\ Unattended(p) /\ command[c] = "claimed"
  /\ command' = [command EXCEPT ![c] = "queued"]
  /\ UNCHANGED <<store, writer, outcome, workers, clients, ghosts>>

Drained == /\ \A r \in Run : state[r] # "running"
           /\ \A c \in Client : command[c] # "claimed"

\* The worker stopped after the termination: a failed run exits at once.
ExitFailed(p) ==
  /\ owner = p /\ pc[p] = "draining" /\ Drained
  /\ state[target[p]] = "failed"
  /\ Goes(p, "off")
  /\ UNCHANGED <<store, writer, entries, target, clients, ghosts>>

\* Any other end shuts the tool runner down.
Leave(p) ==
  /\ owner = p /\ pc[p] \in {"draining", "interrupted"} /\ Drained
  /\ pc[p] = "draining" => state[target[p]] # "failed"
  /\ Goes(p, "leaving")
  /\ UNCHANGED <<store, writer, entries, target, clients, ghosts>>

\* A faulty variant: the queue is closed while the tool runner still drains.
FaultyClose(p) ==
  /\ owner = p /\ pc[p] = "leaving"
  /\ beat' = "closed"
  /\ Goes(p, "off")
  /\ UNCHANGED <<store, owner, entries, target, clients, ghosts>>

\* The tool runner drained, and the last beat marks a clean close.
Close(p) ==
  /\ owner = p /\ pc[p] = "leaving" /\ \A r \in Run : tool[r] # "claimed"
  /\ beat' = "closed"
  /\ Goes(p, "off")
  /\ UNCHANGED <<store, owner, entries, target, clients, ghosts>>

-----------------------------------------------------------------------------
(* The inbox and the control queue. *)

\* The entry of the command is in the object store.  It goes after its record, and
\* an entry with a record has no further effect.
Sent(c) == at[c] \notin {"start", "sending"} /\ told[c] # "refused"

Record(c, result) == outcome' = [outcome EXCEPT ![c] = result]

\* A faulty variant: the control queue has no inbox.
FaultyCommandInbox == {}

\* The inbox of the control queue has the cancellations.
CommandInbox == Cancel

\* A faulty variant: the workflow queue has no inbox.
FaultySignalInbox == {}

\* The inbox of the workflow queue has the replies.
SignalInbox == Reply

\* The writer commits the record of an entry with its effect.
DrainCancel(p, c) ==
  /\ Holds(p) /\ c \in CommandInbox /\ Sent(c) /\ outcome[c] = "none"
  /\ Record(c, "enqueued") /\ command' = [command EXCEPT ![c] = "queued"]
  /\ UNCHANGED <<store, writer, workers, clients, ghosts>>

DrainReply(p, c) ==
  /\ Holds(p) /\ c \in SignalInbox /\ Sent(c) /\ outcome[c] = "none"
  /\ IF state[about[c]] = "waiting"
     THEN /\ Record(c, "delivered")
          /\ state' = [state EXCEPT ![about[c]] = "pending"]
          /\ signal' = [signal EXCEPT ![about[c]] = c]
     ELSE Record(c, "notWaiting") /\ UNCHANGED <<state, signal>>
  /\ UNCHANGED <<cancelling, tool, answer, writer, command, workers, clients, ghosts>>

ClaimCommand(p, c) ==
  /\ Serves(p) /\ command[c] = "queued"
  /\ command' = [command EXCEPT ![c] = "claimed"]
  /\ UNCHANGED <<store, writer, outcome, workers, clients, ghosts>>

\* A cancellation ends a run without a claimed step, and fires the token of the
\* step otherwise.  Either way it cancels the tool jobs.  A dead step is past both.
ApplyCancel(p, c) ==
  LET r == about[c]
  IN  /\ Employs(p) /\ command[c] = "claimed"
      /\ command' = [command EXCEPT ![c] = "done"]
      /\ cancelling' = CASE state[r] = "running" -> cancelling \cup {r}
                         [] state[r] = "dead" -> cancelling
                         [] OTHER -> cancelling \ {r}
      /\ state' = [state EXCEPT ![r] = IF @ \in Active \ {"running"} THEN "cancelled" ELSE @]
      /\ tool' = [tool EXCEPT ![r] = IF @ = "queued" THEN "none" ELSE @]
      /\ UNCHANGED <<signal, answer, writer, outcome, workers, clients, ghosts>>

-----------------------------------------------------------------------------
(* `cancel` and `reply`. *)

Moves(c, place) == at' = [at EXCEPT ![c] = place]
Tells(c, words) == Moves(c, "end") /\ told' = [told EXCEPT ![c] = words]

\* A cancellation needs a run that did not end, a reply one that waits.
ReadRun(c) ==
  /\ at[c] = "start" /\ state[about[c]] # "absent"
  /\ IF \/ c \in Cancel /\ ~Ended(about[c])
        \/ c \in Reply /\ state[about[c]] = "waiting" /\ answer[about[c]] = "open"
     THEN Moves(c, "sending") /\ UNCHANGED told
     ELSE Tells(c, "refused")
  /\ UNCHANGED <<store, writer, entries, workers, about, ghosts>>

Send(c) ==
  /\ at[c] = "sending"
  /\ Moves(c, "sent")
  /\ UNCHANGED <<store, writer, entries, workers, about, told, ghosts>>

\* Without a live writer the command does not wait for one.  The beats of a process
\* that crashed are recent for a while.
ReadBeat(c) ==
  /\ at[c] = "sent"
  /\ \/ beat = "live" /\ Moves(c, "polling") /\ UNCHANGED told
     \/ ~LiveOwner /\ Tells(c, "sent")
  /\ UNCHANGED <<store, writer, entries, workers, about, ghosts>>

\* A faulty variant: any record is taken for the outcome of a reply.
FaultyPollReply(c) ==
  /\ at[c] = "polling" /\ outcome[c] # "none"
  /\ Tells(c, outcome[c])
  /\ UNCHANGED <<store, writer, entries, workers, about, ghosts>>

\* The poll finds the record of the reply.
PollReply(c) ==
  /\ at[c] = "polling" /\ outcome[c] \in {"delivered", "notWaiting"}
  /\ Tells(c, outcome[c])
  /\ UNCHANGED <<store, writer, entries, workers, about, ghosts>>

\* A faulty variant: the record of the entry is taken for the end of the command.
FaultyPollCancel(c) ==
  /\ at[c] = "polling" /\ outcome[c] = "enqueued"
  /\ Moves(c, "reading")
  /\ UNCHANGED <<store, writer, entries, workers, about, told, ghosts>>

\* The poll finds the command applied, and reads the run then.
PollCancel(c) ==
  /\ at[c] = "polling" /\ command[c] = "done"
  /\ Moves(c, "reading")
  /\ UNCHANGED <<store, writer, entries, workers, about, told, ghosts>>

ReadState(c) ==
  /\ at[c] = "reading"
  /\ Tells(c, CASE state[about[c]] = "cancelled" -> "cancelled"
                [] state[about[c]] \in {"succeeded", "failed"} -> "terminated"
                [] OTHER -> "reached")
  /\ UNCHANGED <<store, writer, entries, workers, about, ghosts>>

\* The wait for the writer ends.
PollEnds(c) ==
  /\ at[c] = "polling"
  /\ Tells(c, "sent")
  /\ UNCHANGED <<store, writer, entries, workers, about, ghosts>>

-----------------------------------------------------------------------------

Next ==
  \/ \E p \in Process :
       \/ Resume(p) \/ Fenced(p) \/ Crash(p)
       \/ Finish(p) \/ Interrupt(p) \/ WorkerFails(p) \/ ExitFailed(p) \/ Leave(p) \/ Close(p)
       \/ \E r \in Run : \/ StartRun(p, r) \/ Guard(p, r, FALSE) \/ Guard(p, r, TRUE)
                         \/ Claim(p, r) \/ StepEnd(p, r) \/ StepRetry(p, r)
                         \/ ToolClaim(p, r) \/ ToolEnd(p, r) \/ WaitEnds(p, r)
                         \/ Bury(p, r) \/ ExpireStep(p, r)
       \/ \E c \in Client : \/ DrainCancel(p, c) \/ DrainReply(p, c)
                            \/ ClaimCommand(p, c) \/ ApplyCancel(p, c)
                            \/ ExpireCommand(p, c)
  \/ \E c \in Client : \/ ReadRun(c) \/ Send(c) \/ ReadBeat(c) \/ PollReply(c)
                       \/ PollCancel(c) \/ ReadState(c) \/ PollEnds(c)

Spec == Init /\ [][Next]_vars

\* A process that has the store goes on, and the user resumes a run that did not end
\* while no process has the store.  The queue claims in order, so that no run starves
\* behind another.  No fault and no further command is fair.
FairSpec ==
  /\ Spec
  /\ WF_vars(~LiveOwner /\ \E p \in Process, r \in Run : Guard(p, r, TRUE))
  /\ WF_vars(\E p \in Process : Resume(p))
  /\ WF_vars(\E p \in Process : Finish(p) \/ ExitFailed(p) \/ Leave(p) \/ Close(p))
  /\ \A r \in Run :
       /\ SF_vars(\E p \in Process : Claim(p, r))
       /\ WF_vars(\E p \in Process : StepEnd(p, r))
       /\ WF_vars(\E p \in Process : ToolEnd(p, r))
       /\ WF_vars(\E p \in Process : Bury(p, r))
  /\ \A c \in Client :
       /\ WF_vars(\E p \in Process : DrainCancel(p, c) \/ DrainReply(p, c))
       /\ WF_vars(\E p \in Process : ClaimCommand(p, c))
       /\ WF_vars(\E p \in Process : ApplyCancel(p, c))

-----------------------------------------------------------------------------
(* Properties. *)

\* Every variable has its type.
TypeOK ==
  /\ state \in [Run -> {"absent"} \cup Unfinished \cup Terminal]
  /\ cancelling \in SUBSET Run /\ tool \in [Run -> {"none", "queued", "claimed"}]
  /\ signal \in [Run -> {"none"} \cup Client]
  /\ answer \in [Run -> {"none", "open", "assumed"} \cup Client]
  /\ owner \in Process \cup {Nobody} /\ beat \in {"none", "live", "closed"}
  /\ outcome \in [Client -> {"none", "enqueued", "delivered", "notWaiting"}]
  /\ command \in [Client -> {"none", "queued", "claimed", "done"}]
  /\ pc \in [Process -> {"off", "resuming", "serving", "draining", "interrupted",
                         "leaving"}]
  /\ target \in [Process -> Run]
  /\ at \in [Client -> {"start", "sending", "sent", "polling", "reading", "end"}]
  /\ about \in [Client -> Run]
  /\ told \in [Client -> {"nothing", "refused", "sent", "delivered", "notWaiting", "cancelled",
                          "terminated", "reached"}]
  /\ faults \in Nat /\ broken \in BOOLEAN

\* A reply whose delivery was recorded is the answer of the run, over crashes and
\* takeovers and retries of the step that reads it, unless that step ends the run
\* without a report.
DeliveredIsAnswer ==
  \A c \in Client : outcome[c] = "delivered" =>
    LET r == about[c]
    IN  \/ answer[r] = c
        \/ answer[r] = "open" /\ (signal[r] = c \/ state[r] \in {"cancelled", "failed"})

\* What `cancel` told the user about the run is and stays so.  That the cancellation
\* reached the step is also what it tells of a dead one.
ToldIsSo ==
  \A c \in Client :
    LET r == about[c]
    IN  /\ told[c] = "cancelled" => state[r] = "cancelled"
        /\ told[c] = "terminated" => state[r] \in {"succeeded", "failed"}
        /\ told[c] = "reached" => r \in cancelling \/ state[r] = "dead" \/ Ended(r)

\* After a clean close no tool job is claimed, and no step and no command either unless
\* the worker of the process failed: only then does `resume` find a claim of a process
\* that closed its queue, and needs --force.
ClosedLeavesNoClaim ==
  beat = "closed" =>
    /\ \A r \in Run : tool[r] # "claimed"
    /\ broken \/ (Claimed = {} /\ \A c \in Client : command[c] # "claimed")

\* Seen from one run, the processes and the commands are a queue that decides each step
\* of it once: over claims, takeovers, replies and cancellations of several actors, the
\* step, the question and the request of the run go as ResearchRun has them.
Given(r) == IF answer[r] \in Client THEN "given" ELSE answer[r]
Sought(r) == \E c \in Cancel : Sent(c) /\ about[c] = r
Queue(r) == INSTANCE RunQueue WITH state <- state[r], question <- Given(r),
                                   reply <- signal[r] # "none", sought <- Sought(r)
QueueStep(r) == [Queue(r)!Next]_(Queue(r)!vars)
ImplementsQueue == (\A r \in Run : Queue(r)!Init) /\ [][\A r \in Run : QueueStep(r)]_vars

\* A cancellation that is in the inbox ends its run, whatever process drains,
\* claims or applies it, as long as the user resumes.
CancelEnds == \A c \in Cancel : Sent(c) ~> Ended(about[c])

\* A reply in the inbox gets its outcome, unless the run ends before.
ReplyIsDrained ==
  \A c \in Reply : Sent(c) ~> outcome[c] # "none" \/ Ended(about[c])

\* "Drain the tool JobRunner so its task exits before this fn returns."
\* (main.rs:983): no claim outlasts a process that neither crashed nor lost its worker.
NoClaimLeft == ~broken /\ ~LiveOwner => Claimed = {}
=============================================================================
