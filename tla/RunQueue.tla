------------------------------ MODULE RunQueue ------------------------------
(***************************************************************************)
(* What the workflow queue promises about ONE run: its step, the one       *)
(* question it may put to the user and the cancellation it may get.  A     *)
(* step is pending, runs, or waits for the user or for its tool jobs; a    *)
(* delivery of it may be lost, and the step is dead if that was its last;  *)
(* what it settles is decided once.  There are no phases, processes,       *)
(* memos, inboxes or commands here.                                        *)
(*                                                                         *)
(* ResearchRun implements this specification with its steps, RunControl    *)
(* with the processes and the commands around each of its runs: what one   *)
(* of them leaves to the other fits.                                       *)
(***************************************************************************)

VARIABLES
  state,     (* the step of the run, or how the run ended                  *)
  question,  (* "none", "open", or the answer of the payload: "given" by
                the user or "assumed"                                      *)
  reply,     (* a reply of the user came with the step                     *)
  sought     (* a cancellation was requested                               *)

vars == <<state, question, reply, sought>>

Terminal == {"succeeded", "failed", "cancelled"}

Init ==
  /\ state \in {"absent", "pending"}
  /\ question = "none" /\ reply = FALSE /\ sought = FALSE

Submit ==
  /\ state = "absent" /\ state' = "pending"
  /\ UNCHANGED <<question, reply, sought>>

Claim ==
  /\ state = "pending" /\ state' = "running"
  /\ UNCHANGED <<question, reply, sought>>

\* The delivery ends without a settlement: the same step is pending again, or dead.
Lose ==
  /\ state = "running" /\ state' \in {"pending", "dead"}
  /\ UNCHANGED <<question, reply, sought>>

\* A dead step fails its run, and nothing else comes of it.
Bury ==
  /\ state = "dead" /\ state' = "failed"
  /\ reply' \in {reply, FALSE}
  /\ UNCHANGED <<question, sought>>

\* The first step after the wait for the user fixes the answer.
Resolved == IF question # "open" THEN question
            ELSE IF reply THEN "given" ELSE "assumed"

\* A run asks at most once, and never again after its answer.
Ask ==
  /\ state = "running" /\ question = "none"
  /\ state' = "waiting" /\ question' = "open" /\ reply' = FALSE
  /\ UNCHANGED sought

Settle ==
  /\ state = "running" /\ state' \in {"pending", "group"}
  /\ question' = Resolved /\ reply' = FALSE
  /\ UNCHANGED sought

Succeed ==
  /\ state = "running" /\ state' = "succeeded"
  /\ question' = Resolved /\ reply' \in {reply, FALSE}
  /\ UNCHANGED sought

\* A run is cancelled only on request, and a failed step leaves the payload.
Fail ==
  /\ state = "running" /\ state' \in {"failed", "cancelled"}
  /\ state' = "cancelled" => sought
  /\ reply' \in {reply, FALSE}
  /\ UNCHANGED <<question, sought>>

\* The user replied or the wait passed.
WakeUser ==
  /\ state = "waiting" /\ state' = "pending"
  /\ reply' \in BOOLEAN
  /\ UNCHANGED <<question, sought>>

WakeGroup ==
  /\ state = "group" /\ state' = "pending"
  /\ UNCHANGED <<question, reply, sought>>

\* A step that no process executes is cancelled where it is.
CancelIdle ==
  /\ sought /\ state \in {"pending", "waiting", "group"}
  /\ state' = "cancelled"
  /\ UNCHANGED <<question, reply, sought>>

Seek ==
  /\ state # "absent" /\ sought' = TRUE
  /\ UNCHANGED <<state, question, reply>>

Next ==
  \/ Submit \/ Claim \/ Lose \/ Bury \/ Ask \/ Settle \/ Succeed \/ Fail
  \/ WakeUser \/ WakeGroup \/ CancelIdle \/ Seek

Spec == Init /\ [][Next]_vars

-----------------------------------------------------------------------------

\* The user is asked one question per run.
AskedOnce == [][state' = "waiting" /\ state # "waiting" => question = "none"]_vars

\* A reply given in time is never turned into an assumption, nor the other way.
AnswerKept == [][(question \in {"given", "assumed"}) => (question' = question)]_vars

\* A run ends once, and as cancelled only on request.
EndsOnce ==
  [][/\ (state \in Terminal) => (state' = state)
     /\ state' = "cancelled" /\ state # "cancelled" => sought]_vars
=============================================================================
