----------------------------- MODULE RunReaders -----------------------------
(***************************************************************************)
(* `list`, `status`, `show` and `gc` beside the processes and commands of  *)
(* RunControl.  They write nothing to the queue, so that what they tell is *)
(* what they read: a view of the store that follows the writer with a lag, *)
(* the inbox, which is in the object store and has no lag, and the reports.*)
(*                                                                         *)
(* The step that writes the report puts it before it settles, and the      *)
(* writer deletes the object of an entry after it recorded the entry.      *)
(***************************************************************************)
EXTENDS RunControl

CONSTANT Reader   (* the commands `list`, `status` and `show`, each given once *)

VARIABLES
  \* The report of each run in the object store, the runs whose claimed step put its own,
  \* and the entries whose object is gone.
  report, written, deleted,
  \* The readers: what they are, the run they are about, where they are.
  kind, subject, place,
  \* What the reader sees of the runs, until it read them, and of the control queue; the
  \* entries of the inbox that it has still to read, the cancellations that it found, and
  \* whether it began anew.
  seen, view, listed, found, retried,
  \* What the reader displays of each run.
  shown,
  \* Ghost: the cancellations that awaited a writer when the reading began, without those
  \* that the reader found or could not find.
  sought

objects    == <<report, written, deleted>>
given      == <<kind, subject>>
reading    == <<place, view, seen, listed, found, retried, sought>>
readerVars == <<vars, objects, given, reading, shown>>

\* What a view of the store has of the runs: a dead step is no longer cancelling.  The one
\* of the commands is `command`.
Runs == [state |-> state, cancelling |-> {r \in cancelling : state[r] # "dead"}]

Nothing == [state |-> [r \in Run |-> "absent"], cancelling |-> {}]

ReadersInit ==
  /\ Init
  /\ report = [r \in Run |-> "none"] /\ written = {} /\ deleted = {}
  /\ kind \in [Reader -> {"list", "status", "show"}] /\ subject \in [Reader -> Run]
  /\ place = [d \in Reader |-> "start"]
  /\ seen = [d \in Reader |-> Nothing] /\ view = [d \in Reader |-> command]
  /\ listed = [d \in Reader |-> {}] /\ found = [d \in Reader |-> {}]
  /\ retried = [d \in Reader |-> FALSE]
  /\ shown = [d \in Reader |-> [r \in Run |-> "nothing"]]
  /\ sought = [d \in Reader |-> {}]

-----------------------------------------------------------------------------
(* The writer, and `gc`. *)

\* The step that writes the report puts the blob.
PutReport(p, r) ==
  /\ Employs(p) /\ state[r] = "running" /\ tool[r] # "claimed" /\ r \notin written
  /\ report' = [report EXCEPT ![r] = "stored"] /\ written' = written \cup {r}
  /\ UNCHANGED <<vars, deleted, given, reading, shown>>

\* The runs whose step settles or loses its claim.
Unclaimed == {r \in Run : state[r] = "running" /\ state'[r] # "running"}

\* A faulty variant: the step settles first, and its report is put after that.
FaultySettles ==
  /\ \A r \in Unclaimed \cap written : state'[r] \notin {"waiting", "group"}
  /\ written' = written \ Unclaimed

\* A step succeeds once it put the report, and goes on to no other phase after that.
Settles ==
  /\ \A r \in Unclaimed : state'[r] = "succeeded" => r \in written
  /\ \A r \in Unclaimed \cap written : state'[r] \notin {"waiting", "group"}
  /\ written' = written \ Unclaimed

\* The commands that go back to the queue.
Requeues == {c \in Cancel : command[c] = "claimed" /\ command'[c] = "queued"}

\* The processes and the commands beside the readers.
Control ==
  /\ Next /\ Settles
  /\ sought' = [d \in Reader |-> sought[d] \ Requeues]
  /\ UNCHANGED <<report, deleted, given, place, view, seen, listed, found, retried, shown>>

\* The writer deletes the object of an entry after the commit of its record.
Delete(p, c) ==
  /\ Holds(p) /\ outcome[c] # "none" /\ c \notin deleted
  /\ deleted' = deleted \cup {c}
  /\ UNCHANGED <<vars, report, written, given, reading, shown>>

\* `gc` deletes a report that its filter matches, of whatever run.
Collect(r) ==
  /\ report[r] = "stored"
  /\ report' = [report EXCEPT ![r] = "deleted"]
  /\ UNCHANGED <<vars, written, deleted, given, reading, shown>>

-----------------------------------------------------------------------------
(* The readers. *)

\* The cancellations that are objects of the inbox.
Inbox == {c \in Cancel : Sent(c)} \ deleted

\* The cancellations that await a writer, or that a writer did not apply yet.
Awaiting == {c \in Cancel : Sent(c) /\ command[c] # "done"}

Going(d, there) == place' = [place EXCEPT ![d] = there]

Unread == UNCHANGED <<vars, objects, given>>

\* A new reader has the latest view.
Opened(d) ==
  /\ Going(d, "runs")
  /\ seen' = [seen EXCEPT ![d] = Runs] /\ view' = [view EXCEPT ![d] = command]
  /\ listed' = [listed EXCEPT ![d] = {}] /\ found' = [found EXCEPT ![d] = {}]
  /\ sought' = [sought EXCEPT ![d] = Awaiting]
  /\ Unread /\ UNCHANGED shown

\* `show` gets the report, and opens the store only for the reason that there is none.
GetReport(d) ==
  /\ place[d] = "start" /\ kind[d] = "show"
  /\ IF report[subject[d]] = "stored"
     THEN Going(d, "end") /\ shown' = [shown EXCEPT ![d][subject[d]] = "report"]
     ELSE Going(d, "missing") /\ UNCHANGED shown
  /\ Unread /\ UNCHANGED <<view, seen, listed, found, retried, sought>>

\* The reader is closed, and has nothing left of what it read.
Closes(d) ==
  /\ Going(d, "end")
  /\ seen' = [seen EXCEPT ![d] = Nothing] /\ view' = [view EXCEPT ![d] = [c \in Client |-> "none"]]
  /\ listed' = [listed EXCEPT ![d] = {}] /\ found' = [found EXCEPT ![d] = {}]
  /\ sought' = [sought EXCEPT ![d] = {}]

OpenReader(d) ==
  /\ place[d] = IF kind[d] = "show" THEN "missing" ELSE "start"
  /\ Opened(d) /\ UNCHANGED retried

Reads(d) == place[d] \notin {"start", "missing", "display", "end"}

\* The reader polls, and its view moves to the latest.  What was read stays.
Refresh(d) ==
  /\ Reads(d)
  /\ seen' = [seen EXCEPT ![d] = IF place[d] = "runs" THEN Runs ELSE @]
  /\ view' = [view EXCEPT ![d] = command]
  /\ Unread /\ UNCHANGED <<place, listed, found, retried, sought, shown>>

\* A read fails, as on an object that was collected under the view.  One retry has a new
\* reader.  `status` reads the progress and the step of the run last.
Failing(d) == Reads(d) \/ (kind[d] = "status" /\ place[d] = "display")

ReadFails(d) ==
  /\ Failing(d) /\ ~retried[d]
  /\ Opened(d) /\ retried' = [retried EXCEPT ![d] = TRUE]

ReadFailsAgain(d) ==
  /\ Failing(d) /\ retried[d]
  /\ Closes(d)
  /\ Unread /\ UNCHANGED <<retried, shown>>

\* A faulty variant: the control queue is read before the inbox.
FaultyAfter(here) ==
  CASE here = "runs" -> "queued" [] here = "queued" -> "claimed"
    [] here = "claimed" -> "inbox" [] here = "inbox" -> "display"

\* The order of the reads: the inbox, whose entries go on to the control queue, then its
\* pending and its claimed jobs.
After(here) ==
  CASE here = "runs" -> "inbox" [] here = "inbox" -> "queued"
    [] here = "queued" -> "claimed" [] here = "claimed" -> "display"

\* `list` looks for cancellations if a run did not end, and `status` if its run is and the
\* store has no cancellation of it.
Looks(d) ==
  IF kind[d] = "list" THEN \E r \in Run : seen[d].state[r] \in Unfinished
  ELSE /\ kind[d] = "status"
       /\ seen[d].state[subject[d]] \in Unfinished /\ subject[d] \notin seen[d].cancelling

ReadRuns(d) ==
  /\ place[d] = "runs"
  /\ Going(d, IF Looks(d) THEN After("runs") ELSE "display")
  /\ Unread /\ UNCHANGED <<view, seen, listed, found, retried, sought, shown>>

ListInbox(d) ==
  /\ place[d] = "inbox"
  /\ listed' = [listed EXCEPT ![d] = Inbox]
  /\ Going(d, IF Inbox = {} THEN After("inbox") ELSE "entries")
  /\ Unread /\ UNCHANGED <<view, seen, found, retried, sought, shown>>

\* The reader found these cancellations, and the ones that its view lacks it cannot find.
Finds(d, here, lacking) ==
  /\ found' = [found EXCEPT ![d] = @ \cup here]
  /\ sought' = [sought EXCEPT ![d] = @ \ (here \cup lacking)]

\* A listed entry counts if its object is still there.
ReadEntry(d, c) ==
  /\ place[d] = "entries" /\ c \in listed[d]
  /\ listed' = [listed EXCEPT ![d] = @ \ {c}]
  /\ Finds(d, {c} \cap Inbox, {})
  /\ Going(d, IF listed[d] = {c} THEN After("inbox") ELSE "entries")
  /\ Unread /\ UNCHANGED <<view, seen, retried, shown>>

\* The commands of the view that have this status.
Commands(d, status) == {c \in Cancel : view[d][c] = status}

\* The view lags behind the writer that drained these.
Lags(d) == {c \in Commands(d, "none") : command[c] # "none"}

ReadQueued(d) ==
  /\ place[d] = "queued"
  /\ Finds(d, Commands(d, "queued"), Lags(d))
  /\ Going(d, After("queued"))
  /\ Unread /\ UNCHANGED <<view, seen, listed, retried, shown>>

ReadClaimed(d) ==
  /\ place[d] = "claimed"
  /\ Finds(d, Commands(d, "claimed"), {})
  /\ Going(d, After("claimed"))
  /\ Unread /\ UNCHANGED <<view, seen, listed, retried, shown>>

\* A faulty variant: a cancellation that was sent is taken for one that had its effect.
FaultyDisplayStatus(run, cancel_requested) ==
  CASE run \in Terminal -> run
    [] run = "dead" -> "failed"
    [] run \in Active /\ cancel_requested -> "cancelled"
    [] run = "waiting" /\ ~cancel_requested -> "waiting"
    [] run \in {"running", "group"} /\ ~cancel_requested -> "running"
    [] run = "pending" /\ ~cancel_requested -> "queued"
    [] OTHER -> "nothing"

\* An end comes before a cancellation, and that before the other states.  The run of a
\* dead step is displayed as failed before it ends.
DisplayStatus(run, cancel_requested) ==
  CASE run \in Terminal -> run
    [] run = "dead" -> "failed"
    [] run \in Active /\ cancel_requested -> "cancellation"
    [] run = "waiting" /\ ~cancel_requested -> "waiting"
    [] run \in {"running", "group"} /\ ~cancel_requested -> "running"
    [] run = "pending" /\ ~cancel_requested -> "queued"
    [] OTHER -> "nothing"

\* A faulty variant: `show` takes the state of the queue for what it displays.
FaultyRefusal(run) == run

\* What `show` says of a run without a report.
Refusal(run) == IF run \in Unfinished THEN "unfinished" ELSE DisplayStatus(run, FALSE)

Display(d) ==
  /\ place[d] = "display" /\ Closes(d)
  /\ shown' = [shown EXCEPT ![d] = [r \in Run |->
       IF kind[d] # "list" /\ r # subject[d] THEN "nothing"
       ELSE IF kind[d] = "show" THEN Refusal(seen[d].state[r])
       ELSE DisplayStatus(seen[d].state[r], \/ r \in seen[d].cancelling
                                            \/ \E c \in found[d] : about[c] = r)]]
  /\ Unread /\ UNCHANGED retried

-----------------------------------------------------------------------------

ReadersNext ==
  \/ Control
  \/ \E p \in Process : \/ \E r \in Run : PutReport(p, r)
                        \/ \E c \in Client : Delete(p, c)
  \/ \E r \in Run : Collect(r)
  \/ \E d \in Reader : \/ GetReport(d) \/ OpenReader(d) \/ Refresh(d)
                       \/ ReadFails(d) \/ ReadFailsAgain(d)
                       \/ ReadRuns(d) \/ ListInbox(d) \/ ReadQueued(d) \/ ReadClaimed(d)
                       \/ Display(d)
                       \/ \E c \in Cancel : ReadEntry(d, c)

ReadersSpec == ReadersInit /\ [][ReadersNext]_readerVars

-----------------------------------------------------------------------------
(* Properties. *)

\* What the commands of the repository display of a run.
Displays == {"nothing", "report", "unfinished", "cancellation", "waiting", "running", "queued"}
            \cup Terminal

\* Every variable of the readers has its type.
ReadersTypeOK ==
  /\ TypeOK
  /\ report \in [Run -> {"none", "stored", "deleted"}] /\ written \in SUBSET Run
  /\ deleted \in SUBSET Client
  /\ kind \in [Reader -> {"list", "status", "show"}] /\ subject \in [Reader -> Run]
  /\ place \in [Reader -> {"start", "missing", "runs", "inbox", "entries", "queued", "claimed",
                           "display", "end"}]
  /\ seen \in [Reader -> [state : [Run -> {"absent"} \cup Unfinished \cup Terminal],
                          cancelling : SUBSET Run]]
  /\ view \in [Reader -> [Client -> {"none", "queued", "claimed", "done"}]]
  /\ listed \in [Reader -> SUBSET Cancel] /\ found \in [Reader -> SUBSET Cancel]
  /\ retried \in [Reader -> BOOLEAN]
  /\ shown \in [Reader -> [Run -> Displays]]
  /\ sought \in [Reader -> SUBSET Cancel]

\* A reading of `list` or `status` misses a cancellation that was sent before it only if
\* a writer applied the command meanwhile or took it back to its queue, or if the view of
\* the reader lagged behind the writer that drained its entry (pending_cancellations).
CancellationSeen ==
  [][\A d \in Reader : \A c \in sought[d] :
       Display(d) /\ shown'[d][about[c]] \in {"waiting", "running", "queued"} =>
         command[c] = "done"]_readerVars

\* A success or a cancellation that a reader displays is the end of the run and stays so.
\* A failure is its end too, or `list` and `status` have it of a dead step: then no other
\* end can follow, over whatever reply, cancellation or resume.  A requested cancellation
\* that a reader displays was sent.
ShownIsSo ==
  \A d \in Reader, r \in Run :
    /\ shown[d][r] \in Terminal =>
         \/ state[r] = shown[d][r]
         \/ kind[d] # "show" /\ shown[d][r] = "failed" /\ state[r] = "dead"
    /\ shown[d][r] = "cancellation" => \E c \in Cancel : Sent(c) /\ about[c] = r

\* A user who is told that the run succeeded finds its report with `show`, unless `gc`
\* deleted it ("The canonical report blob is written by the terminal path in every case").
SucceededIsThere ==
  \A d \in Reader, r \in Run : shown[d][r] = "succeeded" => report[r] # "none"
=============================================================================
