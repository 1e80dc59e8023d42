------------------------------ MODULE AgentHost ------------------------------
(***************************************************************************)
(* The host of the investigating agent: one model call per workflow step,  *)
(* the tool calls of each reply as the members of a job group, and a run   *)
(* that is rebuilt from its transcript when it does not decode.            *)
(*                                                                         *)
(* A reply is a function from call positions to calls.  The id of a call   *)
(* is its turn and position, which takes the ids of the provider to be     *)
(* unique.  The reply without a call is the output of the agent.  A result *)
(* is what became of the call, not its text.  The plan of a call reads     *)
(* what no step changes before its reply is settled, so the memo of plans  *)
(* adds nothing to the memo of the reply and is left out.                  *)
(*                                                                         *)
(* One process at a time executes the step: ResearchRun has the takeovers. *)
(***************************************************************************)
EXTENDS Integers, FiniteSets

CONSTANTS
  Url,        (* the pages the agent can ask for                           *)
  NoPage,     (* the page of a call that fetches none                      *)
  Missing,    (* the memo of a step that has no reply yet                  *)
  Gathered,   (* the pages that the fetch group of the run has             *)
  Calls,      (* the calls of a reply are at the positions 1 .. Calls      *)
  Turns,      (* max_turns of the RunSpec                                  *)
  CanAsk,     (* whether `ask` is other than Off                           *)
  MaxFaults   (* bound on interruptions, upgrades and expired groups       *)

VARIABLES
  \* AgentState and what the run keeps with it: the replies, the results that
  \* the transcript has, the model calls left to the serialized run, whether it
  \* decodes, the clarification and the usage.
  turn, calls, results, left, decodes, question, usage,
  \* The step in the workflow queue, and its memo.
  status, signal, memo,
  \* The members of the group of each turn, and the cancelled groups.
  member, cancelling,
  \* The delivery: the results of the last reply, the reply, usage and calls left.
  pc, held, reply, tally, budget,
  \* Ghost: the faults so far.
  faults

payload == <<turn, calls, results, left, decodes, question, usage>>
queue   == <<status, signal, memo>>
groups  == <<member, cancelling>>
memory  == <<pc, held, reply, tally, budget>>
vars    == <<payload, queue, groups, memory, faults>>

-----------------------------------------------------------------------------
(* Calls, results and members. *)

Slot == 1 .. Calls
Turn == 0 .. Turns

CallOf(tool, url, past) == [tool |-> tool, url |-> url, past |-> past]
NoCall == CallOf("none", NoPage, FALSE)

\* A fetch_page call for a chunk of a page (`past` its last one or not), a
\* web_search, ask_user, or a call whose arguments do not decode.
Call == {NoCall} \cup {CallOf("fetch", u, past) : u \in Url, past \in BOOLEAN}
        \cup {CallOf(tool, NoPage, FALSE) : tool \in {"search", "ask", "invalid"}}

Reply == [Slot -> Call]
NoReply == [i \in Slot |-> NoCall]

ASSUME HostAssumption ==
  /\ IsFiniteSet(Url) /\ NoPage \notin Url /\ Missing \notin Reply
  /\ Gathered \subseteq Url
  /\ {Calls, Turns, MaxFaults} \subseteq Nat
  /\ CanAsk \in BOOLEAN


\* What the model can reply: its calls take the first positions.  A call of a
\* tool without a definition, ask_user included, fails the step.
Answers == {r \in Reply : /\ \A i \in Slot : r[i] = NoCall => \A j \in i .. Calls : r[j] = NoCall
                          /\ CanAsk \/ \A i \in Slot : r[i].tool # "ask"}

\* "lost" is the text of a lost result as an error, "lostUnmarked" without.
Results == {"none", "ok", "failed", "skipped", "reply", "lost", "lostUnmarked"}
NoResults == [i \in Slot |-> "none"]
IsError(result) == result \in {"failed", "skipped", "lost"}

\* The result of a call that has its page or its search results, and of a call
\* whose member is in state m.
Chunk(call) == IF call.past THEN "failed" ELSE "ok"
Render(call, m) == IF m = "ok" THEN Chunk(call) ELSE "failed"

\* The key of the member that executes the call at position i.
Key == {<<"fetch", u>> : u \in Url} \cup {<<"search", i>> : i \in Slot}
KeyOf(r, i) == IF r[i].tool = "fetch" THEN <<"fetch", r[i].url>> ELSE <<"search", i>>

ToolCalls(r) == {i \in Slot : r[i].tool \in {"fetch", "search"}}
Questions(r) == {i \in Slot : r[i].tool = "ask"}
First(slots) == CHOOSE i \in slots : \A j \in slots : i <= j

Unanswered(r, res) == {i \in Slot : r[i] # NoCall /\ res[i] = "none"}

\* A faulty variant: a call with a result counts as open.
FaultyOpen == {i \in Slot : calls[turn][i] # NoCall}

\* The open calls of the last reply, and those of them with a member.
Open == Unanswered(calls[turn], results[turn])
Joins == Open \cap ToolCalls(calls[turn]) # {}

Active(g) == \E k \in Key : member[g][k] = "pending"

-----------------------------------------------------------------------------

Init ==
  /\ turn = 0 /\ calls = [t \in Turn |-> NoReply] /\ results = [t \in Turn |-> NoResults]
  /\ left = Turns /\ decodes = TRUE /\ question = "none" /\ usage = 0
  /\ status = "pending" /\ signal = "none" /\ memo = Missing
  /\ member = [t \in Turn |-> [k \in Key |-> "none"]] /\ cancelling = {}
  /\ pc = "idle" /\ held = NoResults /\ reply = NoReply /\ tally = 0 /\ budget = 0
  /\ faults = 0

-----------------------------------------------------------------------------
(* Deliveries. *)

\* A process claims the step and decodes its payload.
Deliver ==
  /\ status = "pending" /\ pc = "idle"
  /\ pc' = "started"
  /\ held' = results[turn] /\ reply' = NoReply
  /\ tally' = usage /\ budget' = left
  /\ UNCHANGED <<payload, queue, groups, faults>>

\* A crash or a transient error ends the delivery at any await.
Interrupt ==
  /\ pc # "idle" /\ faults < MaxFaults
  /\ faults' = faults + 1
  /\ pc' = "idle"
  /\ UNCHANGED <<payload, queue, groups, held, reply, tally, budget>>

\* An upgrade of Rig between two deliveries: the serialized run does not decode.
Upgrade ==
  /\ pc = "idle" /\ decodes /\ turn > 0 /\ faults < MaxFaults
  /\ faults' = faults + 1
  /\ decodes' = FALSE
  /\ UNCHANGED <<turn, calls, results, left, question, usage, queue, groups, memory>>

\* The retention of a group passes after its last member ended, though not between
\* the deliveries that share a reply.
Expire(g) ==
  /\ pc = "idle" /\ memo = Missing /\ status # "waitGroup"
  /\ ~Active(g) /\ faults < MaxFaults
  /\ \E k \in Key : member[g][k] # "none"
  /\ faults' = faults + 1
  /\ member' = [member EXCEPT ![g] = [k \in Key |-> "none"]]
  /\ UNCHANGED <<payload, queue, cancelling, memory>>

\* The step settles: the payload and the next step commit together.
Settle(next) ==
  /\ status' = next /\ signal' = "none" /\ memo' = Missing
  /\ usage' = tally
  /\ decodes' = TRUE
  /\ pc' = "idle" /\ held' = NoResults /\ reply' = NoReply /\ tally' = 0 /\ budget' = 0
  /\ UNCHANGED <<groups, faults>>

-----------------------------------------------------------------------------
(* The results of the previous reply. *)

\* `status` of the group of the turn; what outlasted the wait is cancelled.
StartJoin ==
  /\ pc = "started" /\ Joins
  /\ cancelling' = cancelling \cup (IF Active(turn) THEN {turn} ELSE {})
  /\ pc' = "joining"
  /\ UNCHANGED <<payload, queue, member, held, reply, tally, budget, faults>>

\* A faulty variant: the results are read while members are active.
FaultyFinishJoin ==
  /\ pc = "joining"
  /\ pc' = "joined"
  /\ UNCHANGED <<payload, queue, groups, held, reply, tally, budget, faults>>

\* `join` of the group returns when no member is active.
FinishJoin ==
  /\ pc = "joining" /\ ~Active(turn)
  /\ pc' = "joined"
  /\ UNCHANGED <<payload, queue, groups, held, reply, tally, budget, faults>>

\* The reply to the question, fixed by the first step after the wait.
Resolved == IF question # "asked" THEN question
            ELSE IF signal = "reply" THEN "given" ELSE "assumed"
Replied == CanAsk /\ Resolved # "none"
MayAsk == CanAsk /\ Resolved = "none"

\* The result of a call from its member in the group g, or `otherwise`.
MemberResult(g, i, otherwise) ==
  LET m == member[g][KeyOf(calls[g], i)]
  IN  IF m = "none" THEN otherwise ELSE Render(calls[g][i], m)

\* The question of a run that decodes waits once more, any other call of the
\* reply receives its result.
Resolve ==
  /\ pc = (IF Joins THEN "joined" ELSE "started") /\ decodes
  /\ LET asked == Open \cap Questions(calls[turn])
     IN  held' = [i \in Slot |->
           IF i \notin Open THEN held[i]
           ELSE IF i \in asked
                THEN IF Replied THEN "reply"
                     ELSE IF MayAsk /\ i = First(asked) THEN "none" ELSE "skipped"
           ELSE MemberResult(turn, i, "lost")]
  /\ pc' = "resolved"
  /\ UNCHANGED <<payload, queue, groups, reply, tally, budget, faults>>

\* A faulty variant: a rebuilt run starts over with all its model calls.
FaultyRebuild ==
  /\ pc = (IF Joins THEN "joined" ELSE "started") /\ ~decodes
  /\ held' = [i \in Slot |->
       IF i \notin Open THEN held[i]
       ELSE IF i \in Questions(calls[turn])
            THEN IF Replied THEN "reply" ELSE "lostUnmarked"
       ELSE MemberResult(turn, i, "lostUnmarked")]
  /\ budget' = Turns
  /\ pc' = "resolved"
  /\ UNCHANGED <<payload, queue, groups, reply, tally, faults>>

\* A rebuilt run has the model calls that its transcript leaves, and a result for
\* each call of it.
Rebuild ==
  /\ pc = (IF Joins THEN "joined" ELSE "started") /\ ~decodes
  /\ held' = [i \in Slot |->
       IF i \notin Open THEN held[i]
       ELSE IF i \in Questions(calls[turn])
            THEN IF Replied THEN "reply" ELSE "lostUnmarked"
       ELSE MemberResult(turn, i, "lostUnmarked")]
  /\ budget' = Turns - turn
  /\ pc' = "resolved"
  /\ UNCHANGED <<payload, queue, groups, reply, tally, faults>>

\* A faulty variant: a question that waited for the group is forgotten.
FaultyAsks == ~Joins /\ Unanswered(calls[turn], held) # {}

\* The question that the results leave open.
Asks == Unanswered(calls[turn], held) # {}

\* A faulty variant: the run waits, and does not record that it asked.
FaultyAskUser ==
  /\ pc = "resolved" /\ Asks
  /\ results' = [results EXCEPT ![turn] = held]
  /\ question' = Resolved /\ left' = budget
  /\ Settle("waitReply")
  /\ UNCHANGED <<turn, calls>>

\* The run waits for the user, without a model call.
AskUser ==
  /\ pc = "resolved" /\ Asks
  /\ results' = [results EXCEPT ![turn] = held]
  /\ question' = "asked" /\ left' = budget
  /\ Settle("waitReply")
  /\ UNCHANGED <<turn, calls>>

OutOfTurns ==
  /\ pc = "resolved" /\ ~Asks /\ budget = 0
  /\ results' = [results EXCEPT ![turn] = held]
  /\ question' = Resolved /\ left' = budget
  /\ Settle("outOfTurns")
  /\ UNCHANGED <<turn, calls>>

-----------------------------------------------------------------------------
(* The model call of the step. *)

\* Faulty variants: a redelivered step calls the model without a look at the memo,
\* and a miss of the memo is taken for a reply.
FaultyReadMemoAgain ==
  /\ pc = "resolved" /\ ~Asks /\ budget > 0
  /\ pc' = "calling"
  /\ UNCHANGED <<payload, queue, groups, held, reply, tally, budget, faults>>
FaultyReadMemoMiss ==
  /\ pc = "resolved" /\ ~Asks /\ budget > 0
  /\ pc' = "ready" /\ reply' = memo /\ tally' = tally + 1
  /\ UNCHANGED <<payload, queue, groups, held, budget, faults>>

ReadMemo ==
  /\ pc = "resolved" /\ ~Asks /\ budget > 0
  /\ IF memo = Missing
     THEN pc' = "calling" /\ UNCHANGED <<reply, tally>>
     ELSE pc' = "ready" /\ reply' = memo /\ tally' = tally + 1
  /\ UNCHANGED <<payload, queue, groups, held, budget, faults>>

CallModel ==
  /\ pc = "calling"
  /\ reply' \in Answers
  /\ pc' = "replied"
  /\ UNCHANGED <<payload, queue, groups, held, tally, budget, faults>>

\* The memo has the reply, and only then its usage counts.
WriteMemo ==
  /\ pc = "replied"
  /\ memo' = reply
  /\ tally' = tally + 1
  /\ pc' = "ready"
  /\ UNCHANGED <<payload, status, signal, groups, held, reply, budget, faults>>

\* A permanent error of the model, or a reply with a call of an undefined tool.
PermanentFailure ==
  /\ pc \in {"calling", "ready"}
  /\ status' = "failed" /\ cancelling' = Turn
  /\ pc' = "idle"
  /\ UNCHANGED <<payload, signal, memo, member, held, reply, tally, budget, faults>>

-----------------------------------------------------------------------------
(* The tool calls of the reply. *)

\* The results before the reply of this step.
Known(t) == IF t = turn THEN held ELSE results[t]

\* The turn of the first successful fetch_page call of the page u, or 0.
Shows(t, u) == \E i \in Slot : /\ calls[t][i].tool = "fetch" /\ calls[t][i].url = u
                               /\ Known(t)[i] # "none" /\ ~IsError(Known(t)[i])
FetchedAt(u) == LET ts == {t \in Turn : Shows(t, u)} IN IF ts = {} THEN 0 ELSE First(ts)

\* A faulty variant: only the fetching phase is looked at.
FaultyHasPage(u) == u \in Gathered

\* Whether an earlier group has the page.
HasPage(u) == u \in Gathered \/ member[FetchedAt(u)][<<"fetch", u>>] = "ok"

\* A faulty variant: each question of the reply is asked.
FaultyPlanned(r, i) ==
  CASE r[i] = NoCall          -> "none"
    [] r[i].tool = "ask"      -> IF MayAsk THEN "none" ELSE "skipped"
    [] r[i].tool = "invalid"  -> "failed"
    [] r[i].tool = "search"   -> "none"
    [] r[i].tool = "fetch"    -> IF HasPage(r[i].url) THEN Chunk(r[i]) ELSE "none"

\* What a call of the reply receives at once, "none" for the call that stays open.
Planned(r, i) ==
  CASE r[i] = NoCall          -> "none"
    [] r[i].tool = "ask"      -> IF MayAsk /\ i = First(Questions(r)) THEN "none" ELSE "skipped"
    [] r[i].tool = "invalid"  -> "failed"
    [] r[i].tool = "search"   -> "none"
    [] r[i].tool = "fetch"    -> IF HasPage(r[i].url) THEN Chunk(r[i]) ELSE "none"
Plan(r) == [i \in Slot |-> Planned(r, i)]

\* The members of the group: calls with one key share a member.
Members(r) == {KeyOf(r, i) : i \in {j \in ToolCalls(r) : Planned(r, j) = "none"}}
AsksIn(r) == \E i \in Questions(r) : Planned(r, i) = "none"

\* The records after the reply of the step.
Record ==
  /\ turn' = turn + 1
  /\ calls' = [calls EXCEPT ![turn + 1] = reply]
  /\ results' = [results EXCEPT ![turn] = held, ![turn + 1] = Plan(reply)]
  /\ left' = budget - 1

\* A submission runs only the members without a success.
Submit ==
  /\ pc = "ready" /\ Members(reply) # {}
  /\ member' = [member EXCEPT ![turn + 1] = [k \in Key |->
                  IF k \in Members(reply) /\ member[turn + 1][k] # "ok"
                  THEN "pending" ELSE member[turn + 1][k]]]
  /\ pc' = "submitted"
  /\ UNCHANGED <<payload, queue, cancelling, held, reply, tally, budget, faults>>

WaitForGroup ==
  /\ pc = "submitted"
  /\ Record /\ question' = Resolved
  /\ Settle("waitGroup")

\* The question is all that the reply leaves open.
WaitForReply ==
  /\ pc = "ready" /\ Members(reply) = {} /\ AsksIn(reply)
  /\ Record /\ question' = "asked"
  /\ Settle("waitReply")

Continue ==
  /\ pc = "ready" /\ reply # NoReply /\ Members(reply) = {} /\ ~AsksIn(reply)
  /\ Record /\ question' = Resolved
  /\ Settle("pending")

\* The agent returned its output.
Done ==
  /\ pc = "ready" /\ reply = NoReply
  /\ Record /\ question' = Resolved
  /\ Settle("done")

-----------------------------------------------------------------------------
(* What the run waits for. *)

MemberEnd(g, k) ==
  /\ member[g][k] = "pending"
  /\ \E end \in {"ok", "failed"} : member' = [member EXCEPT ![g][k] = end]
  /\ UNCHANGED <<payload, queue, cancelling, memory, faults>>

EndGroupWait ==
  /\ status = "waitGroup"
  /\ status' = "pending"
  /\ UNCHANGED <<payload, signal, memo, groups, memory, faults>>

EndReplyWait ==
  /\ status = "waitReply"
  /\ status' = "pending" /\ signal' \in {"reply", "none"}
  /\ UNCHANGED <<payload, memo, groups, memory, faults>>

-----------------------------------------------------------------------------

Work ==
  \/ Deliver \/ StartJoin \/ FinishJoin \/ Resolve \/ Rebuild
  \/ AskUser \/ OutOfTurns \/ ReadMemo \/ CallModel \/ WriteMemo
  \/ Submit \/ WaitForGroup \/ WaitForReply \/ Continue \/ Done

Next ==
  \/ Work \/ Interrupt \/ Upgrade \/ PermanentFailure
  \/ EndGroupWait \/ EndReplyWait
  \/ \E g \in Turn : Expire(g) \/ \E k \in Key : MemberEnd(g, k)

Spec == Init /\ [][Next]_vars

-----------------------------------------------------------------------------
(* Properties. *)

\* Every variable has its type.
TranscriptTypes ==
  /\ turn \in Turn /\ calls \in [Turn -> Reply] /\ results \in [Turn -> [Slot -> Results]]
TypeOK ==
  /\ TranscriptTypes
  /\ left \in Turn /\ decodes \in BOOLEAN /\ usage \in Nat
  /\ question \in {"none", "asked", "given", "assumed"}
  /\ status \in {"pending", "waitGroup", "waitReply", "done", "outOfTurns", "failed"}
  /\ signal \in {"none", "reply"} /\ memo \in Reply \cup {Missing}
  /\ member \in [Turn -> [Key -> {"none", "pending", "ok", "failed"}]]
  /\ cancelling \in SUBSET Turn
  /\ pc \in {"idle", "started", "joining", "joined", "resolved", "calling", "replied",
             "ready", "submitted"}
  /\ held \in [Slot -> Results] /\ reply \in Reply /\ tally \in Nat /\ budget \in Turn
  /\ faults \in Nat

\* The model is called with a closed history: over waits, redeliveries, rebuilt
\* runs and expired groups, every call of every earlier reply has its result.
HistoryClosed ==
  pc = "calling" =>
    \A t \in 0 .. turn, i \in Slot : calls[t][i] # NoCall => Known(t)[i] # "none"

\* A member runs only for a call of the reply that its group belongs to, or of the
\* reply that the memo has: the calls of a reply that was lost never run.
MembersHaveCalls ==
  \A g \in Turn, k \in Key :
    member[g][k] # "none" =>
      LET r == IF g <= turn THEN calls[g] ELSE memo
      IN  r # Missing /\ g <= turn + 1 /\ \E i \in ToolCalls(r) : KeyOf(r, i) = k

\* The agent reads what its members returned: a call whose member succeeded has that
\* success as its result, also where the wait ran out, the members were cancelled
\* or the run was rebuilt.
SuccessesReach ==
  \A g \in 0 .. turn : \A i \in ToolCalls(calls[g]) :
    member[g][KeyOf(calls[g], i)] = "ok" /\ results[g][i] # "none" =>
      results[g][i] = Chunk(calls[g][i])

\* The reply of the user, or the assumption in its place, reaches the call that
\* asked and no other, and the run waits with no other call open.
ReplyReachesCall ==
  LET got  == {c \in Turn \X Slot : results[c[1]][c[2]] = "reply"}
      rest == Unanswered(calls[turn], results[turn])
  IN  /\ Cardinality(got) = (IF question \in {"given", "assumed"} THEN 1 ELSE 0)
      /\ question = "asked" /\ status # "failed" =>
           Cardinality(rest) = 1 /\ rest \subseteq Questions(calls[turn])

\* The usage and the calls left to the run follow the replies of its transcript,
\* each counted once, over redeliveries and over rebuilt runs.
TurnsCounted == usage = turn /\ left = Turns - turn

\* A result that the transcript has never changes.
ResultsKept ==
  [][\A t \in Turn, i \in Slot :
       results[t][i] # "none" => (results'[t][i] = results[t][i])]_vars

\* A page that the agent has read is read from the group of the turn that read it
\* first, and not fetched again while that group lasts: over redeliveries of the step
\* that plans the call, and over a run that is rebuilt between them.
ReadsRecordedPage ==
  [][\A u \in Url, t \in 0 .. turn :
       /\ turn < Turns /\ Shows(t, u) /\ \A s \in 0 .. t - 1 : ~Shows(s, u)
       /\ member[t][<<"fetch", u>>] = "ok"
       => (member'[turn + 1][<<"fetch", u>>] = member[turn + 1][<<"fetch", u>>])]_vars

\* RecordedResult.is_error: "Whether the call failed or never ran" (transcript.rs:55).
LostIsError == \A t \in Turn, i \in Slot : results[t][i] # "lostUnmarked"

\* "A page is fetched once per run": a later call for the page receives the
\* recorded page (README.md:186).
FetchedOnce ==
  [][\A u \in Url, g \in Turn :
       /\ member[g][<<"fetch", u>>] = "ok"
       => \A t \in Turn \ {g} :
            (member'[t][<<"fetch", u>>] = "pending") => member[t][<<"fetch", u>>] = "pending"]_vars

\* Seen from the run, the host holds a dialogue that happens once.
Shown == {u \in Url \ Gathered : \E t \in Turn, i \in Slot :
            /\ calls[t][i].tool = "fetch" /\ calls[t][i].url = u
            /\ results[t][i] = "ok"}
Question == IF question \in {"given", "assumed"} THEN "settled"
            ELSE IF question = "asked" THEN "waiting"
            ELSE IF Open \cap Questions(calls[turn]) # {} THEN "pending" ELSE "none"
Outcome == CASE status \in {"done", "outOfTurns"} -> "ended"
             [] status = "failed" -> "stopped"
             [] OTHER -> "running"
Dialogue == INSTANCE AgentTurns WITH open <- Joins, shown <- Shown, question <- Question,
                                   outcome <- Outcome
ImplementsTurns == Dialogue!Spec
=============================================================================
