----------------------------- MODULE AgentTurns -----------------------------
(***************************************************************************)
(* What the investigation of a run promises to the run: a dialogue with    *)
(* the model that happens once.  A turn is one reply of the model.  The    *)
(* pages of its tool calls reach the agent at the latest with the next     *)
(* turn, the user is asked once at most, and the dialogue ends once.       *)
(*                                                                         *)
(* AgentHost, which executes the dialogue, and ResearchRun, which sees it  *)
(* from outside, both implement this specification.                        *)
(***************************************************************************)
EXTENDS Naturals

CONSTANTS Url, Turns

VARIABLES
  turn,      (* the replies so far                                         *)
  open,      (* whether calls of the last reply wait for their results     *)
  shown,     (* the pages fetched for the agent that it has read           *)
  question,  (* "none", "pending" behind open calls, "waiting" for the user,
                or "settled"                                               *)
  outcome    (* "running", "ended", or "stopped" from outside              *)

vars == <<turn, open, shown, question, outcome>>

Init == turn = 0 /\ open = FALSE /\ shown = {} /\ question = "none" /\ outcome = "running"

\* The agent reads the results of the open calls, and only of those.
Reads == \E new \in SUBSET Url : (new # {} => open) /\ shown' = shown \cup new

\* The question of the run settles with the reply to it.  A pending one may be
\* dropped with the result of its call, and asked anew.
Question ==
  \/ question \in {"none", "pending"} /\ question' \in {"none", "pending", "waiting"}
  \/ question \in {"waiting", "settled"} /\ question' = "settled"

\* A reply of the model.  A question waits behind the other calls of its reply.
Turn ==
  /\ outcome = "running" /\ turn < Turns
  /\ turn' = turn + 1
  /\ Reads /\ Question
  /\ open' \in BOOLEAN /\ (question' = "pending" => open')
  /\ UNCHANGED outcome

\* The question is next, without a reply of the model.
Ask ==
  /\ outcome = "running" /\ open /\ question = "pending"
  /\ question' = "waiting"
  /\ Reads /\ open' = FALSE
  /\ UNCHANGED <<turn, outcome>>

\* The findings are a reply too; without them the agent used up its turns.
Conclude ==
  /\ outcome = "running"
  /\ \/ turn < Turns /\ turn' = turn + 1
     \/ turn = Turns /\ turn' = turn
  /\ Reads /\ open' = FALSE
  /\ Question /\ question' \in {"none", "settled"}
  /\ outcome' = "ended"

Stop ==
  /\ outcome = "running"
  /\ outcome' = "stopped"
  /\ UNCHANGED <<turn, open, shown, question>>

Next == Turn \/ Ask \/ Conclude \/ Stop

Spec == Init /\ [][Next]_vars
=============================================================================
