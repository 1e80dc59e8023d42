------------------------- MODULE HostDialogue_proofs -------------------------
(***************************************************************************)
(* The host implements AgentTurns: over redeliveries, rebuilt runs, joins  *)
(* that cancel and expired groups, the run sees a dialogue that happens    *)
(* once.  For every value of the constants.                                *)
(***************************************************************************)
EXTENDS AgentHost_proofs, WellFoundedInduction

-----------------------------------------------------------------------------
(* The turn that first showed a page. *)

Less == {ss \in Nat \X Nat : ss[1] < ss[2]}

LEMMA LeastOf ==
  ASSUME NEW T \in SUBSET Nat, T # {}
  PROVE  \E m \in T : \A k \in T : m <= k
<1>1. IsWellFoundedOn(Less, Nat)
  BY NatLessThanWellFounded DEF OpToRel, Less
<1>2. PICK m \in T : \A k \in T : <<k, m>> \notin Less
  BY <1>1, WFMin
<1>3. ASSUME NEW k \in T PROVE m <= k
  <2>1. <<k, m>> \notin Less
    BY <1>2
  <2> QED  BY <2>1 DEF Less
<1> QED  BY <1>2, <1>3

LEMMA FirstIsLeast ==
  ASSUME NEW T \in SUBSET Nat, T # {}
  PROVE  First(T) \in T /\ \A k \in T : First(T) <= k
BY LeastOf DEF First

\* Whether the results `res` of the turn t show the page u.
Showing(t, u, res) == \E i \in Slot : /\ calls[t][i].tool = "fetch" /\ calls[t][i].url = u
                                      /\ res[i] # "none" /\ ~IsError(res[i])

LEMMA ShowsKnown ==
  ASSUME NEW t, NEW u
  PROVE  Shows(t, u) <=> Showing(t, u, Known(t))
BY DEF Shows, Showing

\* A page is shown in turns up to the last one, and the first is its group.
LEMMA FetchedAtIs ==
  ASSUME HostInv, NEW u \in Url
  PROVE  \/ FetchedAt(u) = 0 /\ \A t \in Turn : ~Shows(t, u)
         \/ /\ FetchedAt(u) \in Turn /\ FetchedAt(u) <= turn /\ Shows(FetchedAt(u), u)
            /\ \A s \in Turn : s < FetchedAt(u) => ~Shows(s, u)
<1> DEFINE ts == {t \in Turn : Shows(t, u)}
<1>1. FetchedAt(u) = IF ts = {} THEN 0 ELSE First(ts)
  BY DEF FetchedAt
<1>2. ts \in SUBSET Nat /\ turn \in Nat
  BY HostAssumption DEF HostInv, TypeOK, TranscriptTypes, Turn
<1>3. CASE ts # {}
  <2>1. First(ts) \in ts /\ \A k \in ts : First(ts) <= k
    BY <1>2, <1>3, FirstIsLeast
  <2>2. ASSUME NEW t \in ts PROVE t <= turn
    <3>1. PICK i \in Slot : calls[t][i].tool = "fetch"
      BY DEF Shows
    <3>2. NoCall.tool = "none"
      BY DEF NoCall, CallOf
    <3>3. calls[t] # NoReply
      BY <3>1, <3>2 DEF NoReply
    <3> QED  BY <1>2, <3>3 DEF HostInv, TranscriptInv
  <2>3. \A s \in Turn : s < First(ts) => ~Shows(s, u)
    <3> SUFFICES ASSUME NEW s \in Turn, s < First(ts), Shows(s, u) PROVE FALSE
      OBVIOUS
    <3>1. s \in ts /\ First(ts) <= s
      BY <2>1
    <3> QED  BY <1>2, <2>1, <3>1
  <2> QED  BY <1>1, <1>3, <2>1, <2>2, <2>3
<1>4. CASE ts = {}
  BY <1>1, <1>4
<1> QED  BY <1>3, <1>4

-----------------------------------------------------------------------------
(* The groups that a plan looks at do not change while a step has a reply. *)

\* The first group that shows a page has no active member for it, as a group that was
\* joined has none; a question waits behind another call, or was asked.
PageInv ==
  /\ calls[0] = NoReply
  /\ \A t \in Turn, u \in Url :
       /\ t <= turn /\ u \notin Gathered /\ Showing(t, u, results[t])
       /\ \A s \in Turn : s < t => ~Showing(s, u, results[s])
       => member[t][<<"fetch", u>>] # "pending"
  /\ pc \in Past /\ Joins => ~Active(turn)
  /\ question = "none" /\ OpenQuestions # {} => Joins

\* What was submitted waits for its group.
SubmitInv == pc = "submitted" => Members(reply) # {}

\* All that is known of the host.
KnownInv == HostInv /\ AskInv /\ SuccessInv /\ CallInv

LEMMA NumbersOf ==
  ASSUME HostInv
  PROVE  /\ turn \in Nat /\ turn \in Turn /\ turn <= turn /\ 0 \in Turn /\ 0 <= turn
         /\ \A t \in Turn : t \in Nat /\ 0 <= t
BY HostAssumption DEF HostInv, TypeOK, TranscriptTypes, Turn

\* The results that the delivery knows show a page first in a group that has ended for it.
LEMMA FirstHasEnded ==
  ASSUME KnownInv, PageInv, pc \in Past, NEW u \in Url, u \notin Gathered,
         NEW t \in Turn, t <= turn, Shows(t, u), \A s \in Turn : s < t => ~Shows(s, u)
  PROVE  member[t][<<"fetch", u>>] # "pending"
<1>1. turn \in Nat /\ \A s \in Turn : s \in Nat
  BY NumbersOf DEF KnownInv
<1>2. \A s \in Turn : s < t => ~Showing(s, u, results[s])
  BY <1>1, ShowsKnown DEF Known
<1>3. CASE Showing(t, u, results[t])
  BY <1>2, <1>3 DEF PageInv
<1>4. CASE ~Showing(t, u, results[t])
  <2>1. t = turn
    BY <1>4, ShowsKnown DEF Known
  <2>2. PICK i \in Slot : /\ calls[turn][i].tool = "fetch" /\ calls[turn][i].url = u
                          /\ held[i] # "none" /\ ~IsError(held[i])
    BY <2>1 DEF Shows, Known
  <2>3. results[turn][i] = "none"
    <3>1. results[turn][i] # "none" => held[i] = results[turn][i]
      BY DEF KnownInv, HostInv, TranscriptInv, Past, WithReply, Counted
    <3> QED  BY <1>4, <2>1, <2>2, <3>1 DEF Showing
  <2>4. calls[turn][i] # NoCall
    <3>1. NoCall.tool = "none"
      BY DEF NoCall, CallOf
    <3> QED  BY <2>2, <3>1
  <2>5. Joins
    BY <2>2, <2>3, <2>4 DEF Joins, Open, Unanswered, ToolCalls
  <2>6. ~Active(turn)
    BY <2>5 DEF PageInv
  <2>7. <<"fetch", u>> \in Key
    BY DEF Key
  <2> QED  BY <2>1, <2>6, <2>7 DEF Active
<1> QED  BY <1>3, <1>4

\* No call is in the turn before the first reply, and no member in its group.
LEMMA NoFirstGroup ==
  ASSUME KnownInv, PageInv, NEW u \in Url
  PROVE  member[0][<<"fetch", u>>] = "none"
<1> SUFFICES ASSUME member[0][<<"fetch", u>>] # "none" PROVE FALSE
  OBVIOUS
<1>1. <<"fetch", u>> \in Key /\ 0 \in Turn /\ 0 <= turn
  BY NumbersOf DEF Key, KnownInv
<1>2. PICK i \in ToolCalls(calls[0]) : KeyOf(calls[0], i) = <<"fetch", u>>
  BY <1>1 DEF KnownInv, CallInv, MembersHaveCalls
<1>3. NoCall.tool = "none"
  BY DEF NoCall, CallOf
<1> QED  BY <1>2, <1>3 DEF PageInv, NoReply, ToolCalls

\* The page that a plan finds was shown by a turn that is known.
LEMMA PageIsShown ==
  ASSUME KnownInv, PageInv, pc \in Past, NEW u \in Url, u \notin Gathered, HasPage(u)
  PROVE  \E t \in Turn : /\ t <= turn /\ Shows(t, u)
                         /\ \E i \in Slot : /\ calls[t][i].tool = "fetch"
                                            /\ calls[t][i].url = u /\ Known(t)[i] = "ok"
<1> DEFINE t == FetchedAt(u)
<1>1. member[t][<<"fetch", u>>] = "ok"
  BY DEF HasPage
<1>2. t # 0
  BY <1>1, NoFirstGroup
<1>3. t \in Turn /\ t <= turn /\ Shows(t, u)
  BY <1>2, FetchedAtIs DEF KnownInv
<1>4. PICK i \in Slot : /\ calls[t][i].tool = "fetch" /\ calls[t][i].url = u
                        /\ Known(t)[i] # "none" /\ ~IsError(Known(t)[i])
  BY <1>3 DEF Shows
<1>5. i \in ToolCalls(calls[t]) /\ KeyOf(calls[t], i) = <<"fetch", u>>
  BY <1>4 DEF ToolCalls, KeyOf
<1>6. Reached(t, i, Known(t))
  BY <1>3, <1>5 DEF KnownInv, SuccessInv, Known
<1>7. Known(t)[i] \in {"none", Chunk(calls[t][i])}
  BY <1>1, <1>5, <1>6 DEF Reached
<1>8. Known(t)[i] = "ok"
  BY <1>4, <1>7 DEF Chunk, IsError
<1> QED  BY <1>3, <1>4, <1>8

\* The pages that a plan finds, where no group of a turn so far changes but for members
\* that were active.
LEMMA PagesKept ==
  ASSUME KnownInv, PageInv, pc \in Past, UNCHANGED <<turn, calls, results, held>>,
         \A g \in Turn, k \in Key :
           g <= turn /\ member[g][k] # "pending" => member'[g][k] = member[g][k],
         NEW u \in Url
  PROVE  HasPage(u)' = HasPage(u)
<1>1. FetchedAt(u)' = FetchedAt(u)
  BY DEF FetchedAt, Shows, Known
<1>2. <<"fetch", u>> \in Key /\ 0 \in Turn /\ 0 <= turn
  BY NumbersOf DEF Key, KnownInv
<1>3. CASE u \in Gathered
  BY <1>3 DEF HasPage
<1>4. CASE u \notin Gathered
  <2>1. FetchedAt(u) \in Turn /\ FetchedAt(u) <= turn
    BY <1>2, FetchedAtIs DEF KnownInv
  <2>2. member[FetchedAt(u)][<<"fetch", u>>] # "pending"
    <3>1. CASE FetchedAt(u) = 0
      BY <3>1, NoFirstGroup
    <3>2. CASE FetchedAt(u) # 0
      <4>1. Shows(FetchedAt(u), u) /\ \A s \in Turn : s < FetchedAt(u) => ~Shows(s, u)
        BY <3>2, FetchedAtIs DEF KnownInv
      <4> QED  BY <1>4, <2>1, <4>1, FirstHasEnded
    <3> QED  BY <3>1, <3>2
  <2>3. member'[FetchedAt(u)][<<"fetch", u>>] = member[FetchedAt(u)][<<"fetch", u>>]
    BY <1>2, <2>1, <2>2
  <2> QED  BY <1>1, <2>3 DEF HasPage
<1> QED  BY <1>3, <1>4

\* The members of a reply stay the same with the pages.
LEMMA MembersKept ==
  ASSUME KnownInv, PageInv, pc \in Past,
         UNCHANGED <<turn, calls, results, question, signal, held, reply>>,
         \A g \in Turn, k \in Key :
           g <= turn /\ member[g][k] # "pending" => member'[g][k] = member[g][k]
  PROVE  Members(reply)' = Members(reply)
<1>1. reply \in Reply
  BY DEF KnownInv, HostInv, TypeOK
<1>2. ASSUME NEW i \in ToolCalls(reply) PROVE Planned(reply, i)' = Planned(reply, i)
  <2>1. i \in Slot /\ reply[i] \in Call /\ reply[i].tool \in {"fetch", "search"}
    BY <1>1 DEF ToolCalls, Reply
  <2>2. reply[i] # NoCall
    BY <2>1 DEF NoCall, CallOf
  <2>3. CASE reply[i].tool = "search"
    BY <2>2, <2>3 DEF Planned
  <2>4. CASE reply[i].tool = "fetch"
    <3>1. reply[i].url \in Url
      BY <2>1, <2>4 DEF Call, CallOf, NoCall
    <3>2. HasPage(reply[i].url)' = HasPage(reply[i].url)
      BY <3>1, PagesKept
    <3> QED  BY <2>2, <2>4, <3>2 DEF Planned
  <2> QED  BY <2>1, <2>3, <2>4
<1>3. ToolCalls(reply)' = ToolCalls(reply) /\ \A i \in Slot : KeyOf(reply, i)' = KeyOf(reply, i)
  BY DEF ToolCalls, KeyOf
<1>4. ToolCalls(reply) \subseteq Slot
  BY DEF ToolCalls
<1> QED  BY <1>2, <1>3, <1>4 DEF Members

-----------------------------------------------------------------------------
(* The invariant of the groups. *)

LEMMA PageKept ==
  ASSUME KnownInv, PageInv, UNCHANGED <<turn, calls, results, question>>,
         pc' \in Past => pc \in Past,
         \A g \in Turn, k \in Key :
           g <= turn /\ member'[g][k] = "pending" => member[g][k] = "pending"
  PROVE  PageInv'
<1>1. turn \in Turn /\ turn <= turn
  BY NumbersOf DEF KnownInv
<1>2. Open' = Open /\ OpenQuestions' = OpenQuestions /\ Joins' = Joins
  BY DEF Open, OpenQuestions, Unanswered, Questions, Joins, ToolCalls
<1>3. Active(turn)' => Active(turn)
  BY <1>1 DEF Active
<1>4. ASSUME NEW t \in Turn, NEW u \in Url, t <= turn, u \notin Gathered,
             Showing(t, u, results[t])', \A s \in Turn : s < t => ~Showing(s, u, results[s])'
      PROVE  member'[t][<<"fetch", u>>] # "pending"
  <2>1. \A s \in Turn : Showing(s, u, results[s])' <=> Showing(s, u, results[s])
    BY DEF Showing
  <2>2. member[t][<<"fetch", u>>] # "pending"
    BY <1>4, <2>1 DEF PageInv
  <2>3. <<"fetch", u>> \in Key
    BY DEF Key
  <2> QED  BY <1>4, <2>2, <2>3
<1>5. calls'[0] = NoReply
  BY DEF PageInv
<1>6. pc' \in Past /\ Joins' => ~Active(turn)'
  BY <1>2, <1>3 DEF PageInv
<1>7. question' = "none" /\ OpenQuestions' # {} => Joins'
  BY <1>2 DEF PageInv
<1> QED  BY <1>4, <1>5, <1>6, <1>7 DEF PageInv

\* A settlement keeps what the delivery knows of the turns so far.
LEMMA SettledKnown ==
  ASSUME KnownInv, pc \in Past,
         \/ Record /\ pc \in Counted
         \/ results' = [results EXCEPT ![turn] = held] /\ UNCHANGED <<turn, calls>>
  PROVE  \A t \in Turn : t <= turn => results'[t] = Known(t) /\ calls'[t] = calls[t]
<1>1. /\ turn \in Turn /\ turn \in Nat /\ \A t \in Turn : t \in Nat
  BY NumbersOf DEF KnownInv
<1>2. CASE Record /\ pc \in Counted
  <2>1. turn + 1 \in Turn /\ \A t \in Turn : t <= turn => t # turn + 1
    BY <1>1, <1>2, RecordTypes DEF KnownInv, HostInv
  <2> QED  BY <1>1, <1>2, <2>1 DEF Record, Known, KnownInv, HostInv, TypeOK, TranscriptTypes
<1>3. CASE results' = [results EXCEPT ![turn] = held] /\ UNCHANGED <<turn, calls>>
  BY <1>1, <1>3 DEF Known, KnownInv, HostInv, TypeOK, TranscriptTypes
<1> QED  BY <1>2, <1>3

\* What a recorded reply leaves open.
LEMMA RecordOpens ==
  ASSUME KnownInv, Record, pc \in Counted
  PROVE  /\ turn' = turn + 1 /\ turn + 1 \in Turn
         /\ calls'[turn + 1] = reply /\ results'[turn + 1] = Plan(reply)
         /\ Open' = {i \in Slot : reply[i] # NoCall /\ Planned(reply, i) = "none"}
         /\ OpenQuestions' = Open' \cap Questions(reply)
         /\ Joins' <=> Members(reply) # {}
<1>1. turn' = turn + 1 /\ turn \in Turn /\ turn + 1 \in Turn /\ reply \in Reply
  BY RecordTypes DEF KnownInv, HostInv, TypeOK, TranscriptTypes
<1>2. calls'[turn + 1] = reply /\ results'[turn + 1] = Plan(reply)
  BY <1>1 DEF Record, KnownInv, HostInv, TypeOK, TranscriptTypes
<1>3. Open' = {i \in Slot : reply[i] # NoCall /\ Planned(reply, i) = "none"}
  BY <1>1, <1>2 DEF Open, Unanswered, Plan
<1>4. OpenQuestions' = Open' \cap Questions(reply)
  BY <1>1, <1>2 DEF OpenQuestions, Questions
<1>5. Joins' <=> Open' \cap ToolCalls(reply) # {}
  BY <1>1, <1>2 DEF Joins, ToolCalls
<1>6. \A i \in ToolCalls(reply) : i \in Slot /\ reply[i] # NoCall
  BY DEF ToolCalls, NoCall, CallOf
<1>7. Open' \cap ToolCalls(reply) = {i \in ToolCalls(reply) : Planned(reply, i) = "none"}
  BY <1>3, <1>6
<1>8. Joins' <=> Members(reply) # {}
  BY <1>5, <1>7 DEF Members
<1> QED  BY <1>1, <1>2, <1>3, <1>4, <1>8

\* A settlement: a page that is shown first by the new reply has a group before it.
LEMMA SettleKeepsPages ==
  ASSUME KnownInv, PageInv, pc \in Past, pc' = "idle", UNCHANGED member,
         \/ Record /\ pc \in Counted
         \/ results' = [results EXCEPT ![turn] = held] /\ UNCHANGED <<turn, calls>>,
         question' = "none" /\ OpenQuestions' # {} => Joins'
  PROVE  PageInv'
<1>1. /\ turn \in Turn /\ turn \in Nat /\ 0 \in Turn /\ 0 <= turn
      /\ \A t \in Turn : t \in Nat
  BY NumbersOf DEF KnownInv
<1>2. \A t \in Turn : t <= turn => results'[t] = Known(t) /\ calls'[t] = calls[t]
  BY SettledKnown
<1>3. \A t \in Turn, u \in Url : t <= turn => (Showing(t, u, results[t])' <=> Shows(t, u))
  BY <1>2 DEF Showing, Shows
<1>4. \/ turn' = turn
      \/ Record /\ turn' = turn + 1 /\ pc \in Counted
  BY RecordOpens
<1>5. ASSUME NEW t \in Turn, NEW u \in Url, t <= turn', u \notin Gathered,
             Showing(t, u, results[t])', \A s \in Turn : s < t => ~Showing(s, u, results[s])'
      PROVE  member'[t][<<"fetch", u>>] # "pending"
  <2>1. CASE t <= turn
    <3>1. Shows(t, u)
      BY <1>3, <1>5, <2>1
    <3>2. \A s \in Turn : s < t => ~Shows(s, u)
      BY <1>1, <1>3, <1>5, <2>1
    <3> QED  BY <1>5, <2>1, <3>1, <3>2, FirstHasEnded
  <2>2. CASE ~(t <= turn)
    <3>1. t = turn + 1 /\ Record /\ pc \in Counted
      BY <1>1, <1>4, <1>5, <2>2
    <3>2. calls'[t] = reply /\ results'[t] = Plan(reply)
      BY <3>1, RecordOpens
    <3>3. PICK i \in Slot : /\ reply[i].tool = "fetch" /\ reply[i].url = u
                            /\ Planned(reply, i) # "none"
      BY <1>5, <3>2 DEF Showing, Plan
    <3>4. HasPage(u)
      BY <3>3 DEF Planned, NoCall, CallOf
    <3>5. PICK s \in Turn : s <= turn /\ Shows(s, u)
      BY <1>5, <3>4, PageIsShown
    <3>6. s < t
      BY <1>1, <3>1, <3>5
    <3> QED  BY <1>3, <1>5, <3>5, <3>6
  <2> QED  BY <2>1, <2>2
<1>6. calls'[0] = NoReply
  BY <1>1, <1>2 DEF PageInv
<1>7. pc' \notin Past
  BY DEF Past, WithReply, Counted
<1> QED  BY <1>5, <1>6, <1>7 DEF PageInv

LEMMA PageInit == Init => PageInv /\ SubmitInv
<1> SUFFICES ASSUME Init PROVE PageInv /\ SubmitInv
  OBVIOUS
<1>1. 0 \in Turn /\ NoCall.tool = "none"
  BY HostAssumption DEF Turn, NoCall, CallOf
<1>2. calls[0] = NoReply /\ \A t \in Turn, i \in Slot : calls[t][i] = NoCall
  BY <1>1 DEF Init, NoReply
<1>3. Open = {} /\ OpenQuestions = {}
  BY <1>1, <1>2 DEF Init, Open, OpenQuestions, Unanswered
<1>4. \A t \in Turn, u \in Url : ~Showing(t, u, results[t])
  BY <1>1, <1>2 DEF Showing
<1> QED  BY <1>2, <1>3, <1>4 DEF Init, PageInv, SubmitInv, Past, WithReply, Counted

LEMMA PageStep ==
  ASSUME KnownInv, PageInv, SubmitInv, [Next]_vars
  PROVE  PageInv' /\ SubmitInv'
<1> USE DEF Past, WithReply, Counted
<1>0. /\ turn \in Turn /\ turn \in Nat /\ turn <= turn
      /\ \A t \in Turn : t \in Nat /\ (t <= turn => t # turn + 1)
  BY NumbersOf DEF KnownInv
<1>1. CASE Deliver \/ StartJoin \/ FinishJoin \/ Interrupt \/ PermanentFailure
  BY <1>1, PageKept
     DEF Deliver, StartJoin, FinishJoin, Interrupt, PermanentFailure, payload, groups, SubmitInv
<1>2. CASE Resolve \/ Rebuild
  <2>1. /\ UNCHANGED <<turn, calls, results, question, member>> /\ pc' = "resolved"
        /\ Joins => pc = "joined"
    BY <1>2 DEF Resolve, Rebuild, payload, groups
  <2>2. Open' = Open /\ OpenQuestions' = OpenQuestions /\ Joins' = Joins
    BY <2>1 DEF Open, OpenQuestions, Unanswered, Questions, Joins, ToolCalls
  <2>3. Joins' => ~Active(turn)'
    BY <2>1, <2>2 DEF KnownInv, SuccessInv, Active
  <2>4. \A t \in Turn, u \in Url : Showing(t, u, results[t])' <=> Showing(t, u, results[t])
    BY <2>1 DEF Showing
  <2> QED  BY <2>1, <2>2, <2>3, <2>4 DEF PageInv, SubmitInv
<1>3. CASE AskUser
  BY <1>3, SettleKeepsPages DEF AskUser, Settle, groups, SubmitInv
<1>4. CASE OutOfTurns
  <2>1. Open' = Unanswered(calls[turn], held)
    BY <1>0, <1>4 DEF OutOfTurns, Open, Unanswered, KnownInv, HostInv, TypeOK, TranscriptTypes
  <2>2. OpenQuestions' = {}
    BY <1>4, <2>1 DEF OutOfTurns, Asks, OpenQuestions
  <2> QED  BY <1>4, <2>2, SettleKeepsPages DEF OutOfTurns, Settle, groups, SubmitInv
<1>5. CASE ReadMemo \/ CallModel \/ WriteMemo
  BY <1>5, PageKept DEF ReadMemo, CallModel, WriteMemo, payload, groups, SubmitInv
<1>6. CASE Submit
  <2>1. /\ UNCHANGED <<turn, calls, results, question, signal, held, reply>>
        /\ pc \in Past /\ pc' = "submitted"
        /\ Members(reply) # {} /\ \A g \in Turn : g <= turn => member'[g] = member[g]
    BY <1>0, <1>6 DEF Submit, payload, queue, KnownInv, HostInv, TypeOK
  <2>2. PageInv'
    BY <2>1, PageKept
  <2>3. Members(reply)' = Members(reply)
    BY <2>1, MembersKept
  <2> QED  BY <2>1, <2>2, <2>3 DEF SubmitInv
<1>7. CASE WaitForGroup
  <2>1. Members(reply) # {} /\ Record /\ pc \in Counted
    BY <1>7 DEF WaitForGroup, SubmitInv
  <2>2. Joins'
    BY <2>1, RecordOpens
  <2> QED  BY <1>7, <2>1, <2>2, SettleKeepsPages DEF WaitForGroup, Settle, groups, SubmitInv
<1>8. CASE WaitForReply
  BY <1>8, SettleKeepsPages DEF WaitForReply, Settle, groups, SubmitInv
<1>9. CASE Continue \/ Done
  <2>1. Record /\ pc \in Counted /\ ~AsksIn(reply)
    <3>1. NoCall.tool = "none"
      BY DEF NoCall, CallOf
    <3> QED  BY <1>9, <3>1 DEF Continue, Done, AsksIn, Questions, NoReply
  <2>2. OpenQuestions' = {}
    BY <2>1, RecordOpens DEF AsksIn
  <2> QED  BY <1>9, <2>1, <2>2, SettleKeepsPages DEF Continue, Done, Settle, groups, SubmitInv
<1>10. CASE Upgrade \/ EndGroupWait \/ EndReplyWait
  <2>1. pc' = "idle"
    BY <1>10 DEF Upgrade, EndGroupWait, EndReplyWait, memory, KnownInv, HostInv, TurnsInv
  <2> QED
    BY <1>10, <2>1, PageKept
       DEF Upgrade, EndGroupWait, EndReplyWait, payload, groups, memory, SubmitInv
<1>11. ASSUME NEW g \in Turn, Expire(g) PROVE PageInv' /\ SubmitInv'
  <2>1. \A h \in Turn, k \in Key : member'[h][k] = IF h = g THEN "none" ELSE member[h][k]
    BY <1>11 DEF Expire, KnownInv, HostInv, TypeOK
  <2> QED  BY <1>11, <2>1, PageKept DEF Expire, payload, memory, SubmitInv
<1>12. ASSUME NEW g \in Turn, NEW k \in Key, MemberEnd(g, k) PROVE PageInv' /\ SubmitInv'
  <2>1. PICK end \in {"ok", "failed"} :
          \A h \in Turn, l \in Key :
            member'[h][l] = IF h = g /\ l = k THEN end ELSE member[h][l]
    BY <1>12 DEF MemberEnd, KnownInv, HostInv, TypeOK
  <2>2. /\ member[g][k] = "pending"
        /\ UNCHANGED <<turn, calls, results, question, signal, held, reply, pc>>
    BY <1>12 DEF MemberEnd, payload, queue, memory
  <2>3. PageInv'
    BY <2>1, <2>2, PageKept
  <2>4. pc \in Past => Members(reply)' = Members(reply)
    BY <2>1, <2>2, MembersKept
  <2> QED  BY <2>2, <2>3, <2>4 DEF SubmitInv
<1>13. CASE UNCHANGED vars
  <2>1. Members(reply)' = Members(reply)
    BY <1>13 DEF vars, payload, queue, groups, memory, Members, ToolCalls, KeyOf, Planned,
                 HasPage, FetchedAt, Shows, Known, MayAsk, Resolved, Questions, Chunk, First
  <2> QED  BY <1>13, <2>1, PageKept DEF vars, payload, groups, memory, SubmitInv
<1> QED
  BY <1>1, <1>2, <1>3, <1>4, <1>5, <1>6, <1>7, <1>8, <1>9, <1>10, <1>11, <1>12, <1>13
     DEF Next, Work

-----------------------------------------------------------------------------
(* The refinement. *)

\* What a settlement shows to the agent comes from calls that were open.
LEMMA ShownGrows ==
  ASSUME KnownInv, PageInv, pc \in Past, [Next]_vars,
         \/ Record /\ pc \in Counted
         \/ results' = [results EXCEPT ![turn] = held] /\ UNCHANGED <<turn, calls>>
  PROVE  Dialogue!Reads
<1>1. /\ turn \in Turn /\ turn \in Nat /\ turn <= turn
      /\ \A t \in Turn : t \in Nat
  BY NumbersOf DEF KnownInv
<1>2. \A t \in Turn : t <= turn => results'[t] = Known(t) /\ calls'[t] = calls[t]
  BY SettledKnown
<1>3. ASSUME NEW u \in Shown PROVE u \in Shown'
  <2>1. PICK t \in Turn, i \in Slot : /\ calls[t][i].tool = "fetch" /\ calls[t][i].url = u
                                      /\ results[t][i] = "ok"
    BY DEF Shown
  <2>2. t <= turn
    BY <1>1, <2>1 DEF KnownInv, HostInv, TranscriptInv, NoResults
  <2>3. results'[t][i] = "ok"
    BY <2>1, TranscriptStep DEF KnownInv, HostInv
  <2>4. u \in Url \ Gathered
    BY DEF Shown
  <2> QED  BY <1>2, <2>1, <2>2, <2>3, <2>4 DEF Shown
<1>4. ASSUME NEW u \in Url \ Gathered, NEW t \in Turn, t <= turn, NEW i \in Slot,
             calls[t][i].tool = "fetch", calls[t][i].url = u, Known(t)[i] = "ok"
      PROVE  u \in Shown \/ Joins
  <2>1. CASE results[t][i] = "ok"
    BY <1>4, <2>1 DEF Shown
  <2>2. CASE results[t][i] # "ok"
    <3>1. t = turn /\ held[i] = "ok"
      BY <1>4, <2>2 DEF Known
    <3>2. results[turn][i] = "none"
      BY <2>2, <3>1 DEF KnownInv, HostInv, TranscriptInv, Past, WithReply, Counted
    <3>3. calls[turn][i] # NoCall
      <4>1. NoCall.tool = "none"
        BY DEF NoCall, CallOf
      <4> QED  BY <1>4, <3>1, <4>1
    <3> QED  BY <1>4, <3>1, <3>2, <3>3 DEF Joins, Open, Unanswered, ToolCalls
  <2> QED  BY <2>1, <2>2
<1>5. ASSUME NEW u \in Shown' PROVE u \in Shown \/ Joins
  <2>1. PICK t \in Turn, i \in Slot : /\ calls'[t][i].tool = "fetch" /\ calls'[t][i].url = u
                                      /\ results'[t][i] = "ok"
    BY DEF Shown
  <2>2. u \in Url \ Gathered
    BY DEF Shown
  <2>3. CASE t <= turn
    BY <1>2, <1>4, <2>1, <2>2, <2>3
  <2>4. CASE ~(t <= turn)
    <3>1. \/ UNCHANGED <<turn, calls>> /\ results'[t] = results[t]
          \/ Record /\ pc \in Counted
      BY <1>1, <2>4 DEF KnownInv, HostInv, TypeOK, TranscriptTypes
    <3>2. CASE UNCHANGED <<turn, calls>> /\ results'[t] = results[t]
      BY <2>1, <2>2, <3>2 DEF Shown
    <3>3. CASE Record /\ pc \in Counted
      <4>1. CASE t = turn + 1
        <5>1. calls'[t] = reply /\ results'[t] = Plan(reply)
          BY <3>3, <4>1, RecordOpens
        <5>2. reply[i].tool = "fetch" /\ reply[i].url = u /\ Planned(reply, i) = "ok"
          BY <2>1, <5>1 DEF Plan
        <5>3. HasPage(u)
          BY <5>2 DEF Planned, NoCall, CallOf
        <5> QED  BY <1>4, <2>2, <5>3, PageIsShown
      <4>2. CASE t # turn + 1
        <5>1. calls'[t] = calls[t] /\ results'[t] = results[t]
          BY <1>1, <2>4, <3>3, <4>2 DEF Record, KnownInv, HostInv, TypeOK, TranscriptTypes
        <5> QED  BY <2>1, <2>2, <5>1 DEF Shown
      <4> QED  BY <4>1, <4>2
    <3> QED  BY <3>1, <3>2, <3>3
  <2> QED  BY <2>3, <2>4
<1>6. Shown' \ Shown \in SUBSET Url /\ Shown' = Shown \cup (Shown' \ Shown)
  BY <1>3 DEF Shown
<1>7. Shown' \ Shown # {} => Joins
  BY <1>5
<1> QED  BY <1>6, <1>7 DEF Dialogue!Reads

\* What the run sees of the question.
LEMMA QuestionSeen ==
  ASSUME KnownInv
  PROVE  /\ question \in {"given", "assumed"} => Question = "settled"
         /\ question = "asked" => Question = "waiting"
         /\ question = "none" => Question = IF OpenQuestions # {} THEN "pending" ELSE "none"
BY DEF Question, OpenQuestions, KnownInv, HostInv, TypeOK

\* A settlement that does not ask settles the question if it was asked.
LEMMA QuestionResolves ==
  ASSUME KnownInv, KnownInv', question' = Resolved
  PROVE  /\ Dialogue!Question
         /\ Question' = "pending" => OpenQuestions' # {}
         /\ OpenQuestions' = {} => Question' \in {"none", "settled"}
<1>1. CASE question = "none"
  <2>1. question' = "none"
    BY <1>1, AskingDepends DEF KnownInv, HostInv
  <2>2. Question' = IF OpenQuestions' # {} THEN "pending" ELSE "none"
    BY <2>1 DEF Question, OpenQuestions
  <2> QED  BY <1>1, <2>2, QuestionSeen DEF Dialogue!Question
<1>2. CASE question # "none"
  <2>1. question' \in {"given", "assumed"}
    BY <1>2, AskingDepends DEF KnownInv, HostInv, TypeOK
  <2>2. Question' = "settled"
    BY <2>1 DEF Question
  <2>3. Question \in {"waiting", "settled"}
    BY <1>2, QuestionSeen DEF KnownInv, HostInv, TypeOK
  <2> QED  BY <2>2, <2>3 DEF Dialogue!Question
<1> QED  BY <1>1, <1>2

\* A step that keeps the payload is none of the dialogue, unless it stops the run.
LEMMA PayloadKept ==
  ASSUME UNCHANGED <<turn, calls, results, question>>
  PROVE  UNCHANGED <<turn, Joins, Shown, Question>>
<1>1. Open' = Open
  BY DEF Open, Unanswered
<1> QED  BY <1>1 DEF Joins, Shown, Question, ToolCalls, Questions

LEMMA DialogueInit == Init => Dialogue!Init
<1> SUFFICES ASSUME Init PROVE Dialogue!Init
  OBVIOUS
<1>1. 0 \in Turn /\ NoCall.tool = "none"
  BY HostAssumption DEF Turn, NoCall, CallOf
<1>2. \A t \in Turn, i \in Slot : calls[t][i] = NoCall /\ results[t][i] = "none"
  BY <1>1 DEF Init, NoReply, NoResults
<1>3. Open = {}
  BY <1>1, <1>2 DEF Init, Open, Unanswered
<1>4. Joins = FALSE /\ Shown = {} /\ Question = "none" /\ Outcome = "running"
  BY <1>2, <1>3 DEF Init, Joins, Shown, Question, Outcome
<1> QED  BY <1>4 DEF Init, Dialogue!Init

LEMMA DialogueStep ==
  ASSUME KnownInv, KnownInv', PageInv, SubmitInv, [Next]_vars
  PROVE  [Dialogue!Next]_(Dialogue!vars)
<1> USE DEF Past, WithReply, Counted
<1>0. /\ turn \in Nat /\ Turns \in Nat /\ turn <= Turns
      /\ pc # "idle" => status = "pending" /\ budget = Turns - turn
      /\ pc \in WithReply => turn < Turns
      /\ pc # "idle" => Outcome = "running"
  BY HostAssumption
     DEF KnownInv, HostInv, TypeOK, TranscriptTypes, TurnsInv, Turn, Outcome
<1>1. ASSUME UNCHANGED <<payload, status>> PROVE [Dialogue!Next]_(Dialogue!vars)
  BY <1>1, PayloadKept DEF payload, Outcome, Dialogue!vars
<1>2. CASE Deliver \/ StartJoin \/ FinishJoin \/ Resolve \/ Rebuild
  BY <1>1, <1>2 DEF Deliver, StartJoin, FinishJoin, Resolve, Rebuild, queue
<1>3. CASE ReadMemo \/ CallModel \/ WriteMemo \/ Submit \/ Interrupt
  BY <1>1, <1>3 DEF ReadMemo, CallModel, WriteMemo, Submit, Interrupt, queue
<1>4. CASE AskUser
  <2>1. /\ turn' = turn /\ question' = "asked" /\ status' = "waitReply" /\ pc \in Past
        /\ results' = [results EXCEPT ![turn] = held] /\ UNCHANGED calls
    BY <1>4 DEF AskUser, Settle
  <2>2. Asks /\ question = "none" /\ OpenQuestions # {}
    BY <1>4, AskingDepends DEF AskUser, KnownInv, HostInv, AskInv
  <2>3. Joins /\ Question = "pending"
    BY <2>2, QuestionSeen DEF PageInv
  <2>4. Open' \subseteq OpenQuestions
    BY <2>1 DEF Open, Unanswered, KnownInv, HostInv, TypeOK, TranscriptTypes, AskInv
  <2>5. Joins' = FALSE
    BY <2>1, <2>4 DEF Joins, OpenQuestions, Questions, ToolCalls
  <2>6. Question' = "waiting" /\ Outcome' = "running"
    BY <2>1 DEF Question, Outcome
  <2>7. Dialogue!Reads
    BY <2>1, ShownGrows
  <2> QED
    BY <1>0, <1>4, <2>1, <2>3, <2>5, <2>6, <2>7
       DEF AskUser, Dialogue!Next, Dialogue!Ask
<1>5. CASE OutOfTurns
  <2>1. /\ turn' = turn /\ question' = Resolved /\ status' = "outOfTurns" /\ pc \in Past
        /\ results' = [results EXCEPT ![turn] = held] /\ UNCHANGED calls
        /\ ~Asks /\ budget = 0 /\ pc # "idle"
    BY <1>5 DEF OutOfTurns, Settle
  <2>2. Open' = {} /\ turn = Turns
    BY <1>0, <2>1
       DEF Open, Unanswered, KnownInv, HostInv, TypeOK, TranscriptTypes, Asks
  <2>3. Joins' = FALSE /\ OpenQuestions' = {} /\ Outcome' = "ended"
    BY <2>1, <2>2 DEF Joins, OpenQuestions, Outcome
  <2>4. Dialogue!Question /\ Question' \in {"none", "settled"}
    BY <2>1, <2>3, QuestionResolves
  <2>5. Dialogue!Reads
    BY <2>1, ShownGrows
  <2> QED
    BY <1>0, <2>1, <2>2, <2>3, <2>4, <2>5 DEF Dialogue!Next, Dialogue!Conclude
<1>6. ASSUME Record, pc \in Counted
      PROVE  /\ turn' = turn + 1 /\ turn < Turns /\ pc # "idle" /\ Dialogue!Reads
             /\ Joins' \in BOOLEAN /\ (Joins' <=> Members(reply) # {})
             /\ OpenQuestions' # {} => AsksIn(reply)
  <2>1. Dialogue!Reads
    BY <1>6, ShownGrows
  <2>2. Joins' \in BOOLEAN
    BY DEF Joins
  <2> QED  BY <1>0, <1>6, <2>1, <2>2, RecordOpens DEF AsksIn
<1>7. CASE WaitForGroup
  <2>1. /\ Record /\ pc \in Counted /\ question' = Resolved /\ status' = "waitGroup"
        /\ Members(reply) # {}
    BY <1>7 DEF WaitForGroup, Settle, SubmitInv
  <2>2. Outcome' = "running" /\ Joins'
    BY <1>6, <2>1 DEF Outcome
  <2>3. Dialogue!Question
    BY <2>1, QuestionResolves
  <2> QED  BY <1>0, <1>6, <2>1, <2>2, <2>3 DEF Dialogue!Next, Dialogue!Turn
<1>8. CASE WaitForReply
  <2>1. /\ Record /\ pc \in Counted /\ question' = "asked" /\ status' = "waitReply"
        /\ AsksIn(reply)
    BY <1>8 DEF WaitForReply, Settle
  <2>2. question = "none"
    <3>1. MayAsk
      BY <2>1, PlanAsks DEF AsksIn, KnownInv, HostInv, TypeOK
    <3> QED  BY <3>1, AskingDepends DEF KnownInv, HostInv
  <2>3. Question \in {"none", "pending"} /\ Question' = "waiting" /\ Outcome' = "running"
    BY <2>1, <2>2, QuestionSeen DEF Question, Outcome
  <2> QED
    BY <1>0, <1>6, <2>1, <2>3 DEF Dialogue!Next, Dialogue!Turn, Dialogue!Question
<1>9. CASE Continue
  <2>1. /\ Record /\ pc \in Counted /\ question' = Resolved /\ status' = "pending"
        /\ ~AsksIn(reply)
    BY <1>9 DEF Continue, Settle
  <2>2. Outcome' = "running" /\ OpenQuestions' = {}
    BY <1>6, <2>1 DEF Outcome
  <2>3. Dialogue!Question /\ Question' # "pending"
    BY <2>1, <2>2, QuestionResolves
  <2> QED  BY <1>0, <1>6, <2>1, <2>2, <2>3 DEF Dialogue!Next, Dialogue!Turn
<1>10. CASE Done
  <2>1. /\ Record /\ pc \in Counted /\ question' = Resolved /\ status' = "done"
        /\ reply = NoReply
    BY <1>10 DEF Done, Settle
  <2>2. Open' = {}
    BY <2>1, RecordOpens DEF NoReply
  <2>3. Joins' = FALSE /\ OpenQuestions' = {} /\ Outcome' = "ended"
    BY <2>1, <2>2 DEF Joins, OpenQuestions, Outcome
  <2>4. Dialogue!Question /\ Question' \in {"none", "settled"}
    BY <2>1, <2>3, QuestionResolves
  <2> QED  BY <1>0, <1>6, <2>1, <2>3, <2>4 DEF Dialogue!Next, Dialogue!Conclude
<1>11. CASE PermanentFailure
  <2>1. UNCHANGED <<turn, Joins, Shown, Question>>
    BY <1>11, PayloadKept DEF PermanentFailure, payload
  <2>2. Outcome = "running" /\ Outcome' = "stopped"
    BY <1>0, <1>11 DEF PermanentFailure, Outcome
  <2> QED  BY <2>1, <2>2 DEF Dialogue!Next, Dialogue!Stop
<1>12. CASE Upgrade
  <2>1. UNCHANGED <<turn, Joins, Shown, Question>>
    BY <1>12, PayloadKept DEF Upgrade
  <2> QED  BY <1>12, <2>1 DEF Upgrade, queue, Outcome, Dialogue!vars
<1>13. CASE EndGroupWait \/ EndReplyWait
  <2>1. UNCHANGED <<turn, Joins, Shown, Question>>
    BY <1>13, PayloadKept DEF EndGroupWait, EndReplyWait, payload
  <2> QED  BY <1>13, <2>1 DEF EndGroupWait, EndReplyWait, Outcome, Dialogue!vars
<1>14. ASSUME NEW g \in Turn, Expire(g) PROVE [Dialogue!Next]_(Dialogue!vars)
  BY <1>1, <1>14 DEF Expire, queue
<1>15. ASSUME NEW g \in Turn, NEW k \in Key, MemberEnd(g, k)
       PROVE  [Dialogue!Next]_(Dialogue!vars)
  BY <1>1, <1>15 DEF MemberEnd, queue
<1>16. CASE UNCHANGED vars
  BY <1>1, <1>16 DEF vars, queue
<1> QED
  BY <1>2, <1>3, <1>4, <1>5, <1>7, <1>8, <1>9, <1>10, <1>11, <1>12, <1>13, <1>14, <1>15, <1>16
     DEF Next, Work

\* The host holds the dialogue of AgentTurns, once, for any number of redeliveries,
\* rebuilt runs and expired groups.
THEOREM HostImplementsTurns == Spec => ImplementsTurns
<1> DEFINE Inv == KnownInv /\ PageInv /\ SubmitInv
<1>1. Init => Inv
  <2>1. Init => CallInv
    BY DEF Init, CallInv, MembersHaveCalls, Counted
  <2> QED  BY <2>1, HostInit, TranscriptInit, AskInit, SuccessInit, PageInit DEF KnownInv, HostInv
<1>2. Inv /\ [Next]_vars => Inv'
  BY HostStep, TranscriptStep, AskStep, SuccessStep, CallStep, PageStep DEF KnownInv, HostInv
<1>3. Inv /\ Inv' /\ [Next]_vars => [Dialogue!Next]_(Dialogue!vars)
  BY DialogueStep
<1>4. Init => Dialogue!Init
  BY DialogueInit
<1> QED  BY <1>1, <1>2, <1>3, <1>4, PTL DEF Spec, ImplementsTurns, Dialogue!Spec

-----------------------------------------------------------------------------
(* A page that was read is not fetched again. *)

\* What the delivery holds, also after it ended: results of the transcript, and those of
\* members that succeeded.
HeldInv ==
  /\ \A i \in Slot : results[turn][i] # "none" /\ held[i] # "none" => held[i] = results[turn][i]
  /\ \A i \in ToolCalls(calls[turn]) : Reached(turn, i, held)

\* The page u was read first in the turn t, or will be once the results are resolved.
Reads(t, u) ==
  /\ t <= turn /\ member[t][<<"fetch", u>>] = "ok"
  /\ \/ Showing(t, u, results[t])
     \/ t = turn /\ \E i \in Slot : /\ calls[t][i].tool = "fetch" /\ calls[t][i].url = u
                                    /\ results[t][i] = "none" /\ ~calls[t][i].past
  /\ \A s \in Turn : s < t => ~Showing(s, u, results[s])

\* A reply in the memo has no member for a page that was read, and follows a join.
StayInv ==
  /\ \A u \in Gathered, g \in Turn : member[g][<<"fetch", u>>] = "none"
  /\ memo # Missing /\ Joins => ~Active(turn)
  /\ memo # Missing => \A u \in Url, t \in Turn :
       Reads(t, u) => member[turn + 1][<<"fetch", u>>] = "none"

\* What a delivery that ended held stays true of the transcript and the group.
LEMMA HeldStep ==
  ASSUME KnownInv, KnownInv', HeldInv, [Next]_vars
  PROVE  HeldInv'
<1> USE DEF Past, WithReply, Counted
<1>0. /\ TypeOK /\ turn \in Turn /\ turn <= turn /\ calls[turn] \in Reply
      /\ turn' \in Turn /\ turn' <= turn'
  BY NumbersOf, HostAssumption DEF KnownInv, HostInv, TypeOK, TranscriptTypes, Turn
<1>1. CASE pc' # "idle"
  <2>1. \A i \in Slot : results'[turn'][i] # "none" => held'[i] = results'[turn'][i]
    BY <1>1 DEF KnownInv, HostInv, TranscriptInv
  <2>2. pc' \in Past => \A i \in ToolCalls(calls[turn])' : Reached(turn, i, held)'
    BY DEF KnownInv, SuccessInv
  <2>3. pc' \in Before => \A i \in ToolCalls(calls[turn])' : Reached(turn, i, held)'
    BY <1>0 DEF KnownInv, SuccessInv, AskInv, Reached
  <2>4. pc' \in Before \/ pc' \in Past
    BY <1>1 DEF KnownInv, HostInv, TypeOK, Before
  <2> QED  BY <2>1, <2>2, <2>3, <2>4 DEF HeldInv
<1>2. ASSUME held' = NoResults PROVE HeldInv'
  <2>1. \A i \in Slot : held'[i] = "none"
    BY <1>2 DEF NoResults
  <2>2. ToolCalls(calls[turn])' \subseteq Slot
    BY DEF ToolCalls
  <2> QED  BY <2>1, <2>2 DEF HeldInv, Reached
<1>3. ASSUME UNCHANGED <<turn, calls, results, held>>,
             \A k \in Key : member[turn][k] \in {"none", "failed"}
                              => member'[turn][k] \in {"none", "failed"}
      PROVE  HeldInv'
  <2>1. \A i \in ToolCalls(calls[turn]) : KeyOf(calls[turn], i) \in Key
    BY <1>0, KeyOfIsKey
  <2>2. ToolCalls(calls[turn])' = ToolCalls(calls[turn])
    BY <1>3 DEF ToolCalls
  <2>3. ASSUME NEW i \in ToolCalls(calls[turn]) PROVE Reached(turn, i, held)'
    <3>1. KeyOf(calls[turn], i)' = KeyOf(calls[turn], i)
      BY <1>3 DEF KeyOf
    <3> QED  BY <1>3, <2>1, <3>1 DEF HeldInv, Reached
  <2> QED  BY <1>3, <2>2, <2>3 DEF HeldInv
<1>4. CASE Deliver \/ StartJoin \/ FinishJoin \/ Resolve \/ Rebuild \/ ReadMemo \/ CallModel
           \/ WriteMemo \/ Submit
  <2>1. pc' # "idle"
    BY <1>4 DEF Deliver, StartJoin, FinishJoin, Resolve, Rebuild, ReadMemo, CallModel, WriteMemo,
                Submit
  <2> QED  BY <1>1, <2>1
<1>5. CASE AskUser \/ OutOfTurns \/ WaitForGroup \/ WaitForReply \/ Continue \/ Done
  BY <1>2, <1>5 DEF AskUser, OutOfTurns, WaitForGroup, WaitForReply, Continue, Done, Settle
<1>6. CASE Interrupt \/ PermanentFailure \/ Upgrade \/ EndGroupWait \/ EndReplyWait
           \/ UNCHANGED vars
  BY <1>3, <1>6 DEF Interrupt, PermanentFailure, Upgrade, EndGroupWait, EndReplyWait, vars,
                    payload, groups, memory
<1>7. ASSUME NEW g \in Turn, Expire(g) PROVE HeldInv'
  <2>1. \A k \in Key : member'[turn][k] \in {"none", member[turn][k]}
    BY <1>0, <1>7 DEF Expire, TypeOK
  <2> QED  BY <1>3, <1>7, <2>1 DEF Expire, payload, memory
<1>8. ASSUME NEW g \in Turn, NEW k \in Key, MemberEnd(g, k) PROVE HeldInv'
  <2>1. \A l \in Key : member[turn][l] # "pending" => member'[turn][l] = member[turn][l]
    BY <1>0, <1>8 DEF MemberEnd, TypeOK
  <2> QED  BY <1>3, <1>8, <2>1 DEF MemberEnd, payload, memory
<1> QED
  BY <1>4, <1>5, <1>6, <1>7, <1>8 DEF Next, Work

\* A turn that shows the page first, from a group that has it, reads it.
LEMMA ShownIsRead ==
  ASSUME KnownInv, HeldInv, NEW u \in Url, NEW t \in Turn, t <= turn, Shows(t, u),
         member[t][<<"fetch", u>>] = "ok", \A s \in Turn : s < t => ~Shows(s, u)
  PROVE  Reads(t, u)
<1>1. turn \in Nat /\ \A s \in Turn : s \in Nat
  BY NumbersOf DEF KnownInv
<1>2. \A s \in Turn : s < t => ~Showing(s, u, results[s])
  BY <1>1, ShowsKnown DEF Known
<1>3. CASE t # turn
  BY <1>2, <1>3, ShowsKnown DEF Known, Reads
<1>4. CASE t = turn
  <2>1. PICK i \in Slot : /\ calls[turn][i].tool = "fetch" /\ calls[turn][i].url = u
                          /\ held[i] # "none" /\ ~IsError(held[i])
    BY <1>4 DEF Shows, Known
  <2>2. CASE results[turn][i] # "none"
    BY <1>2, <1>4, <2>1, <2>2 DEF HeldInv, Showing, Reads
  <2>3. CASE results[turn][i] = "none"
    <3>1. i \in ToolCalls(calls[turn]) /\ KeyOf(calls[turn], i) = <<"fetch", u>>
      BY <2>1 DEF ToolCalls, KeyOf
    <3>2. held[i] = Chunk(calls[turn][i])
      BY <1>4, <2>1, <3>1 DEF HeldInv, Reached
    <3>3. ~calls[turn][i].past
      BY <2>1, <3>2 DEF Chunk, IsError
    <3> QED  BY <1>2, <1>4, <2>1, <2>3, <3>3 DEF Reads
  <2> QED  BY <2>2, <2>3
<1> QED  BY <1>3, <1>4

\* No reply fetches a page that was read.
LEMMA ReadIsNoMember ==
  ASSUME KnownInv, pc = "ready", NEW u \in Url,
         u \in Gathered \/ \E t \in Turn : Reads(t, u)
  PROVE  <<"fetch", u>> \notin Members(reply)
<1>1. turn \in Nat /\ \A s \in Turn : s \in Nat
  BY NumbersOf DEF KnownInv
<1>2. ASSUME NEW t \in Turn, Reads(t, u) PROVE HasPage(u)
  <2>1. \A s \in Turn : s < t => ~Shows(s, u)
    BY <1>1, <1>2, ShowsKnown DEF Reads, Known
  <2>2. ASSUME Showing(t, u, results[t]) PROVE Shows(t, u)
    <3>1. PICK i \in Slot : /\ calls[t][i].tool = "fetch" /\ calls[t][i].url = u
                            /\ results[t][i] # "none" /\ ~IsError(results[t][i])
      BY <2>2 DEF Showing
    <3>2. Known(t)[i] = results[t][i]
      BY <3>1 DEF Known, KnownInv, HostInv, TranscriptInv
    <3> QED  BY <3>1, <3>2 DEF Shows
  <2>3. ASSUME ~Showing(t, u, results[t]) PROVE Shows(t, u)
    <3>1. PICK i \in Slot : /\ calls[t][i].tool = "fetch" /\ calls[t][i].url = u
                            /\ ~calls[t][i].past
      BY <1>2, <2>3 DEF Reads
    <3>2. t = turn
      BY <1>2, <2>3 DEF Reads
    <3>3. i \in ToolCalls(calls[t]) /\ KeyOf(calls[t], i) = <<"fetch", u>> /\ calls[t][i] # NoCall
      BY <3>1 DEF ToolCalls, KeyOf, NoCall, CallOf
    <3>4. held[i] # "none"
      BY <3>2, <3>3 DEF KnownInv, HostInv, TranscriptInv, WithReply, Counted
    <3>5. Reached(t, i, held)
      BY <3>2, <3>3 DEF KnownInv, SuccessInv, Past, WithReply, Counted
    <3>6. held[i] = "ok"
      BY <1>2, <3>1, <3>3, <3>4, <3>5 DEF Reads, Reached, Chunk
    <3> QED  BY <3>1, <3>2, <3>6 DEF Shows, Known, IsError
  <2>4. Shows(t, u)
    BY <2>2, <2>3
  <2>5. FetchedAt(u) = t
    <3>1. /\ FetchedAt(u) \in Turn /\ Shows(FetchedAt(u), u)
          /\ \A s \in Turn : s < FetchedAt(u) => ~Shows(s, u)
      BY <2>4, FetchedAtIs DEF KnownInv
    <3>2. ~(FetchedAt(u) < t) /\ ~(t < FetchedAt(u))
      BY <2>1, <2>4, <3>1
    <3> QED  BY <1>1, <3>1, <3>2
  <2> QED  BY <1>2, <2>5 DEF HasPage, Reads
<1>3. HasPage(u)
  BY <1>2 DEF HasPage
<1>4. ASSUME NEW i \in ToolCalls(reply), KeyOf(reply, i) = <<"fetch", u>>
      PROVE  Planned(reply, i) # "none"
  <2>1. reply[i].tool = "fetch" /\ reply[i].url = u
    BY <1>4 DEF KeyOf
  <2>2. reply[i] # NoCall
    BY <2>1 DEF NoCall, CallOf
  <2> QED  BY <1>3, <2>1, <2>2 DEF Planned, Chunk
<1> QED  BY <1>4 DEF Members

\* Only a step with a reply in its memo has members in the next group, for pages not read.
LEMMA StayStep ==
  ASSUME KnownInv, PageInv, StayInv, [Next]_vars
  PROVE  StayInv'
<1> USE DEF Past, WithReply, Counted
<1>0. /\ TypeOK /\ turn \in Turn /\ turn \in Nat /\ turn <= turn
      /\ \A t \in Turn : t \in Nat /\ (t <= turn => t # turn + 1)
      /\ \A u \in Url : <<"fetch", u>> \in Key
      /\ memo # Missing => turn + 1 \in Turn
  BY NumbersOf, HostAssumption DEF KnownInv, HostInv, CallInv, Key, Turn
<1>1. ASSUME UNCHANGED member, memo' = Missing PROVE StayInv'
  BY <1>1 DEF StayInv
<1>2. ASSUME UNCHANGED <<turn, calls, results, memo, member>> PROVE StayInv'
  BY <1>2 DEF StayInv, Reads, Showing, Joins, Open, Unanswered, ToolCalls, Active
<1>3. CASE AskUser \/ OutOfTurns \/ WaitForGroup \/ WaitForReply \/ Continue \/ Done
  BY <1>1, <1>3
     DEF AskUser, OutOfTurns, WaitForGroup, WaitForReply, Continue, Done, Settle, groups
<1>4. CASE \/ Deliver \/ StartJoin \/ FinishJoin \/ Resolve \/ Rebuild \/ ReadMemo \/ CallModel
           \/ Interrupt \/ Upgrade \/ PermanentFailure \/ EndGroupWait \/ EndReplyWait
           \/ UNCHANGED vars
  BY <1>2, <1>4
     DEF Deliver, StartJoin, FinishJoin, Resolve, Rebuild, ReadMemo, CallModel, Interrupt, Upgrade,
         PermanentFailure, EndGroupWait, EndReplyWait, vars, payload, queue, groups, memory
<1>5. CASE WriteMemo
  <2>1. /\ memo = Missing /\ pc \in Past /\ UNCHANGED <<turn, calls, results, member>>
    BY <1>5 DEF WriteMemo, payload, groups, KnownInv, CallInv
  <2>2. Joins' = Joins /\ Active(turn)' = Active(turn)
    BY <2>1 DEF Joins, Open, Unanswered, ToolCalls, Active
  <2>3. Joins => ~Active(turn)
    BY <2>1 DEF PageInv
  <2>4. ASSUME memo' # Missing, NEW u \in Url PROVE member[turn + 1][<<"fetch", u>>] = "none"
    <3>1. turn + 1 \in Turn /\ ~(turn + 1 <= turn)
      BY <1>0, <1>5, HostAssumption DEF WriteMemo, KnownInv, HostInv, TurnsInv, Turn
    <3> QED  BY <1>0, <2>1, <3>1 DEF KnownInv, CallInv, MembersHaveCalls
  <2> QED  BY <2>1, <2>2, <2>3, <2>4 DEF StayInv
<1>6. CASE Submit
  <2>1. /\ UNCHANGED <<turn, calls, results, memo>> /\ pc = "ready"
        /\ turn + 1 \in Turn
        /\ \A g \in Turn : g # turn + 1 => member'[g] = member[g]
        /\ \A k \in Key : k \notin Members(reply) => member'[turn + 1][k] = member[turn + 1][k]
    <3>1. turn + 1 \in Turn
      BY <1>0, <1>6, HostAssumption DEF Submit, KnownInv, HostInv, TurnsInv, Turn
    <3> QED  BY <1>0, <1>6, <3>1 DEF Submit, payload, queue, TypeOK
  <2>2. \A u \in Gathered, g \in Turn : member'[g][<<"fetch", u>>] = "none"
    BY <1>0, <2>1, ReadIsNoMember, HostAssumption DEF StayInv
  <2>3. memo # Missing /\ Joins' => ~Active(turn)'
    BY <1>0, <2>1 DEF StayInv, Joins, Open, Unanswered, ToolCalls, Active
  <2>4. ASSUME memo # Missing, NEW u \in Url, NEW t \in Turn, Reads(t, u)'
        PROVE  member'[turn + 1][<<"fetch", u>>] = "none"
    <3>1. t <= turn
      BY <2>1, <2>4 DEF Reads
    <3>2. Reads(t, u)
      BY <1>0, <2>1, <2>4, <3>1 DEF Reads, Showing
    <3> QED  BY <1>0, <2>1, <2>4, <3>2, ReadIsNoMember DEF StayInv
  <2> QED  BY <2>1, <2>2, <2>3, <2>4 DEF StayInv
<1>7. ASSUME NEW g \in Turn, Expire(g) PROVE StayInv'
  <2>1. \A h \in Turn, k \in Key : member'[h][k] = IF h = g THEN "none" ELSE member[h][k]
    BY <1>0, <1>7 DEF Expire, TypeOK
  <2>2. memo' = Missing
    BY <1>7 DEF Expire, queue
  <2> QED  BY <1>0, <2>1, <2>2, HostAssumption DEF StayInv
<1>8. ASSUME NEW g \in Turn, NEW k \in Key, MemberEnd(g, k) PROVE StayInv'
  <2>1. /\ \A h \in Turn, l \in Key :
             member[h][l] # "pending" => member'[h][l] = member[h][l]
        /\ \A h \in Turn, l \in Key : member'[h][l] = "pending" => member[h][l] = "pending"
        /\ UNCHANGED <<turn, calls, results, memo>>
    BY <1>0, <1>8 DEF MemberEnd, TypeOK, payload, queue
  <2>2. Joins' = Joins /\ (Active(turn)' => Active(turn))
    BY <1>0, <2>1 DEF Joins, Open, Unanswered, ToolCalls, Active
  <2>3. ASSUME memo # Missing, NEW u \in Url, NEW t \in Turn, Reads(t, u)'
        PROVE  Reads(t, u)
    <3>1. /\ \A s \in Turn : Showing(s, u, results[s])' <=> Showing(s, u, results[s])
          /\ t <= turn /\ member'[t][<<"fetch", u>>] = "ok"
      BY <2>1, <2>3 DEF Reads, Showing
    <3>2. member[t][<<"fetch", u>>] # "pending"
      <4>1. CASE u \in Gathered
        BY <4>1 DEF StayInv
      <4>2. CASE u \notin Gathered /\ Showing(t, u, results[t])
        BY <2>1, <2>3, <3>1, <4>2 DEF PageInv, Reads
      <4>3. CASE ~Showing(t, u, results[t])
        <5>1. PICK i \in Slot : /\ calls[t][i].tool = "fetch" /\ results[t][i] = "none"
          BY <2>1, <2>3, <3>1, <4>3 DEF Reads
        <5>2. t = turn
          BY <2>1, <2>3, <3>1, <4>3 DEF Reads
        <5>3. Joins
          BY <5>1, <5>2 DEF Joins, Open, Unanswered, ToolCalls, NoCall, CallOf
        <5>4. ~Active(turn)
          BY <2>3, <5>3 DEF StayInv
        <5> QED  BY <1>0, <5>2, <5>4 DEF Active
      <4> QED  BY <4>1, <4>2, <4>3
    <3>3. member[t][<<"fetch", u>>] = "ok"
      BY <1>0, <2>1, <3>1, <3>2
    <3> QED  BY <2>1, <2>3, <3>1, <3>3 DEF Reads
  <2>4. ASSUME NEW u \in Gathered, NEW h \in Turn PROVE member'[h][<<"fetch", u>>] = "none"
    <3>1. member[h][<<"fetch", u>>] = "none" /\ <<"fetch", u>> \in Key
      BY <1>0, HostAssumption DEF StayInv
    <3> QED  BY <2>1, <3>1
  <2>5. ASSUME memo # Missing, NEW u \in Url, NEW t \in Turn, Reads(t, u)'
        PROVE  member'[turn + 1][<<"fetch", u>>] = "none"
    BY <1>0, <2>1, <2>3, <2>5 DEF StayInv
  <2> QED  BY <2>1, <2>2, <2>4, <2>5 DEF StayInv
<1> QED
  BY <1>3, <1>4, <1>5, <1>6, <1>7, <1>8 DEF Next, Work

\* No step changes the member of a page in the next group, once an earlier one has it.
LEMMA ReadsStep ==
  ASSUME KnownInv, HeldInv, StayInv, [Next]_vars, NEW u \in Url, NEW t \in Turn,
         turn < Turns, Reads(t, u)
  PROVE  member'[turn + 1][<<"fetch", u>>] = member[turn + 1][<<"fetch", u>>]
<1>0. /\ TypeOK /\ turn \in Nat /\ turn + 1 \in Turn /\ ~(turn + 1 <= turn)
      /\ <<"fetch", u>> \in Key
  BY NumbersOf, HostAssumption DEF KnownInv, HostInv, Key, Turn
<1>1. memo = Missing => member[turn + 1][<<"fetch", u>>] = "none"
  BY <1>0 DEF KnownInv, CallInv, MembersHaveCalls
<1>2. CASE Submit
  <2>1. <<"fetch", u>> \notin Members(reply)
    BY <1>2, ReadIsNoMember DEF Submit
  <2> QED  BY <1>0, <1>2, <2>1 DEF Submit, TypeOK
<1>3. ASSUME NEW g \in Turn, Expire(g)
      PROVE  member'[turn + 1][<<"fetch", u>>] = member[turn + 1][<<"fetch", u>>]
  BY <1>0, <1>1, <1>3 DEF Expire, TypeOK
<1>4. ASSUME NEW g \in Turn, NEW k \in Key, MemberEnd(g, k)
      PROVE  member'[turn + 1][<<"fetch", u>>] = member[turn + 1][<<"fetch", u>>]
  <2>1. member[turn + 1][<<"fetch", u>>] = "none"
    BY <1>1 DEF StayInv
  <2> QED  BY <1>0, <1>4, <2>1 DEF MemberEnd, TypeOK
<1>5. CASE \/ AskUser \/ OutOfTurns \/ WaitForGroup \/ WaitForReply \/ Continue \/ Done
           \/ Deliver \/ StartJoin \/ FinishJoin \/ Resolve \/ Rebuild \/ ReadMemo \/ CallModel
           \/ WriteMemo \/ Interrupt \/ Upgrade \/ PermanentFailure \/ EndGroupWait
           \/ EndReplyWait \/ UNCHANGED vars
  BY <1>5
     DEF AskUser, OutOfTurns, WaitForGroup, WaitForReply, Continue, Done, Settle, Deliver,
         StartJoin, FinishJoin, Resolve, Rebuild, ReadMemo, CallModel, WriteMemo, Interrupt, Upgrade,
         PermanentFailure, EndGroupWait, EndReplyWait, vars, groups
<1> QED
  BY <1>2, <1>3, <1>4, <1>5 DEF Next, Work

LEMMA ReadsInit == Init => HeldInv /\ StayInv
<1> SUFFICES ASSUME Init PROVE HeldInv /\ StayInv
  OBVIOUS
<1>1. turn = 0 /\ 0 \in Turn /\ NoCall.tool = "none"
  BY HostAssumption DEF Init, Turn, NoCall, CallOf
<1>2. \A i \in Slot : held[i] = "none"
  BY DEF Init, NoResults
<1>3. ToolCalls(calls[turn]) \subseteq Slot
  BY DEF ToolCalls
<1>4. \A u \in Url : <<"fetch", u>> \in Key
  BY DEF Key
<1> QED  BY <1>1, <1>2, <1>3, <1>4, HostAssumption DEF Init, HeldInv, StayInv, Reached

\* A page that the agent has read is read from the group that fetched it, over
\* redeliveries, rebuilt runs and expired groups of the host.
THEOREM ReadsStay == Spec => ReadsRecordedPage
<1> DEFINE Inv == KnownInv /\ PageInv /\ SubmitInv
           All == Inv /\ HeldInv /\ StayInv
           Stays == \A u \in Url, t \in 0 .. turn :
             /\ turn < Turns /\ Shows(t, u) /\ \A s \in 0 .. t - 1 : ~Shows(s, u)
             /\ member[t][<<"fetch", u>>] = "ok"
             => (member'[turn + 1][<<"fetch", u>>] = member[turn + 1][<<"fetch", u>>])
<1>1. Init => All
  <2>1. Init => CallInv
    BY DEF Init, CallInv, MembersHaveCalls, Counted
  <2> QED
    BY <2>1, HostInit, TranscriptInit, AskInit, SuccessInit, PageInit, ReadsInit
       DEF KnownInv, HostInv
<1>2. All /\ [Next]_vars => All'
  <2>1. Inv /\ [Next]_vars => Inv'
    BY HostStep, TranscriptStep, AskStep, SuccessStep, CallStep, PageStep DEF KnownInv, HostInv
  <2> QED  BY <2>1, HeldStep, StayStep
<1>3. All /\ [Next]_vars => Stays
  <2> SUFFICES ASSUME All, [Next]_vars, NEW u \in Url, NEW t \in 0 .. turn,
                      turn < Turns, Shows(t, u), \A s \in 0 .. t - 1 : ~Shows(s, u),
                      member[t][<<"fetch", u>>] = "ok"
               PROVE  member'[turn + 1][<<"fetch", u>>] = member[turn + 1][<<"fetch", u>>]
    OBVIOUS
  <2>1. t \in Turn /\ t <= turn /\ \A s \in Turn : s < t => s \in 0 .. t - 1
    BY HostAssumption DEF KnownInv, HostInv, TypeOK, TranscriptTypes, Turn
  <2>2. Reads(t, u)
    BY <2>1, ShownIsRead
  <2> QED  BY <2>1, <2>2, ReadsStep
<1>4. Spec => []All
  BY <1>1, <1>2, PTL DEF Spec
<1> QED  BY <1>2, <1>3, <1>4, PTL DEF Spec, ReadsRecordedPage
=============================================================================
