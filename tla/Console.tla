------------------------------- MODULE Console -------------------------------
(***************************************************************************)
(* One conversation as the console shows it (ui/hooks/use-stream-chat.ts,  *)
(* ui/lib/stream-messages.ts, ui/lib/steps.ts) while the engine works      *)
(* through its turns, pauses them for a question, loses a run and is       *)
(* started again.  The engine is here what it puts on the wire: frames of  *)
(* the transcript, the answer and turns channels, stage events             *)
(* (serve/events.py).  The page may be reloaded at any moment.             *)
(*                                                                         *)
(* The stream keeps its order and the SDK hands the page what came before  *)
(* it ends a run, so an event and its arrival are one step; what the page  *)
(* itself decides are steps of their own.  Copy, labels and layout are     *)
(* left out.  A frame is its own id.                                       *)
(***************************************************************************)
EXTENDS Naturals, TLC, SequencesExt, FiniteSetsExt

CONSTANTS
  MaxTurns,         \* questions asked on the thread
  Retained,         \* turn rows the engine keeps (MAX_TURNS_RETAINED)
  MaxPauses,        \* questions the engine asks back
  MaxCuts,          \* runs lost and engine processes restarted
  MaxReloads        \* reloads of the page

ASSUME ConsoleAssumption ==
  /\ MaxTurns \in Nat /\ MaxPauses \in Nat /\ MaxCuts \in Nat /\ MaxReloads \in Nat
  /\ Retained \in Nat \ {0}

VARIABLES
  frames,           \* the transcript on the thread
  turns,            \* rows of finished turns: [turn, stated]
  answer,           \* the turn whose answer the answer channel holds, or 0
  at,               \* where the run is
  pauses,           \* the questions asked back so far
  counter,          \* the engine process's event counter
  cuts,
  loaded,           \* the page has read the head of the thread
  loading,          \* stream.isLoading: "no", "sending" until the frame is up, "yes"
  fetched,          \* the turn rows of the last read of the head
  carried,          \* whether the streamed values carry them just now
  partial,          \* whether a frame of an open agent loop is streamed
  steps,            \* the live timeline
  missed,           \* the page did not see this run from its start
  completedSteps, completedAnswers,  \* captured as runs finished, by frame
  clarified,        \* the questions answered on this page
  heldTurns,
  reloads

engine == <<frames, turns, answer, at, pauses, counter, cuts>>
page   == <<loaded, loading, fetched, carried, partial, steps, missed, completedSteps,
            completedAnswers, clarified, heldTurns, reloads>>
vars   == <<engine, page>>

Frame(type, turn) == [type |-> type, turn |-> turn]
turn == Cardinality({i \in DOMAIN frames : frames[i].type = "human"})

----------------------------------------------------------------------------
(* Stage events and the timeline. *)

\* serve/events.emit: events in the order written, numbered by the process.
\* A rail's id holds the turn, a tool's its call.
Rail(step) == <<step, turn, 0>>
ask_user   == <<"ask_user", turn, pauses>>
Event(id, status) == [id |-> id, status |-> status]

nextPosition_by_counter(prev, first) == first
nextPosition(prev, first) == IF prev = << >> THEN first ELSE Max({s.seq : s \in Range(prev)}) + 1

\* One event folded into the rows, by id; a row keeps the place it got.
reduceSteps(prev, ev) ==
  LET same == {i \in DOMAIN prev : prev[i].key = ev.id}
      row(seq) == [key |-> ev.id, seq |-> seq,
                   status |-> IF ev.status = "start" THEN "running" ELSE ev.status]
      next == IF same = {} THEN Append(prev, row(nextPosition(prev, ev.seq)))
              ELSE [i \in DOMAIN prev |-> IF i \in same THEN row(prev[i].seq) ELSE prev[i]]
  IN  SortSeq(next, LAMBDA a, b : a.seq < b.seq)

Streaming == loaded /\ loading = "yes"

Emits(events) ==
  /\ counter' = counter + Len(events)
  /\ steps' = IF Streaming
              THEN FoldLeft(LAMBDA prev, i : reduceSteps(prev, events[i] @@ [seq |-> counter + i]),
                            steps, [i \in DOMAIN events |-> i])
              ELSE steps

----------------------------------------------------------------------------
(* The transcript. *)

\* What stream.messages holds.
Messages == frames \o IF partial THEN <<Frame("call", turn)>> ELSE << >>

isAiFrame(f) == f.type \in {"call", "answer"}
isInternalFrame(f) == f.type = "tool"
LastOf(messages, P(_)) ==
  LET found == {i \in DOMAIN messages : P(messages[i])} IN IF found = {} THEN 0 ELSE Max(found)
lastHumanIndex(messages) == LastOf(messages, LAMBDA f : f.type = "human")
lastAiIndex(messages) == LastOf(messages, isAiFrame)

\* The last agent frame of its turn, tool frames aside.
isTurnFinalAi(messages, i) ==
  /\ isAiFrame(messages[i])
  /\ \A j \in i + 1 .. Len(messages) :
       ~isInternalFrame(messages[j]) =>
         \E k \in i + 1 .. j : messages[k].type = "human"

turnFinalAiFrames_counting_answers(messages) ==
  [i \in {i \in DOMAIN messages : isTurnFinalAi(messages, i)} |->
     Cardinality({j \in 1 .. i : isTurnFinalAi(messages, j)})]
\* The frames that carry an answer, and the question each stands under.
turnFinalAiFrames(messages) ==
  [i \in {i \in DOMAIN messages : isTurnFinalAi(messages, i)} |->
     Cardinality({j \in 1 .. i : messages[j].type = "human"})]

\* The question a row is placed under: the one it states, else the next.
Placed(rows) ==
  LET Place[i \in 0 .. Len(rows)] ==
        IF i = 0 THEN 0 ELSE IF rows[i].stated THEN rows[i].turn ELSE Place[i - 1] + 1
  IN  [i \in DOMAIN rows |-> Place[i]]

\* The record of each finished turn by the frame that carries its answer.
turnAnswersByMessageId(rows, messages) ==
  LET final == turnFinalAiFrames(messages)
      placed == Placed(rows)
      held(i) == {r \in DOMAIN rows : placed[r] = final[i]}
  IN  [f \in {messages[i] : i \in {i \in DOMAIN final : held(i) # {}}} |->
         LET i == CHOOSE i \in DOMAIN final : messages[i] = f IN rows[Max(held(i))].turn]

liveTurns == IF loaded /\ (loading # "yes" \/ carried) THEN fetched ELSE << >>
rowsUsed  == IF Len(liveTurns) >= Len(heldTurns) THEN liveTurns ELSE heldTurns

HoldsTurns_latest == heldTurns' = liveTurns'
\* Every render keeps the longest list of rows it was given.
HoldsTurns == heldTurns' = IF ~loaded' THEN << >>
                           ELSE IF Len(liveTurns') > Len(heldTurns) THEN liveTurns' ELSE heldTurns

answerFor(f) ==
  IF f \in DOMAIN completedAnswers THEN completedAnswers[f]
  ELSE LET rebuilt == turnAnswersByMessageId(rowsUsed, Messages)
       IN  IF f \in DOMAIN rebuilt THEN rebuilt[f] ELSE 0

awaitingClarification == loaded /\ loading = "no" /\ at = "paused"
idle == loading = "no" /\ ~awaitingClarification

\* What the transcript shows for a frame: a card with a turn's record, the
\* frame's text, or nothing.
Bubble(i) ==
  LET f == Messages[i]
      newest == lastAiIndex(Messages) = i /\ i > lastHumanIndex(Messages)
      text == IF f.type = "answer" THEN "text" ELSE "none"
      record == IF newest /\ idle /\ answer # 0 THEN answer
                ELSE IF isTurnFinalAi(Messages, i) THEN answerFor(f) ELSE 0
  IN  [shows |-> IF record # 0 THEN "card"
                 ELSE IF \/ isTurnFinalAi(Messages, i) /\ i < lastHumanIndex(Messages)
                         \/ newest /\ idle
                      THEN text
                      ELSE "none",
       record |-> record]

\* The card of an answer that came without a frame.
ChannelCard ==
  IF idle /\ answer # 0 /\ lastAiIndex(Messages) <= lastHumanIndex(Messages) THEN answer ELSE 0

----------------------------------------------------------------------------
(* The rows beside the transcript: what the user was asked is joined on by *)
(* the question's id.                                                      *)

Question(row) == row.key[1] = "ask_user"
mergedClarificationRow_unchanged(row) == row
\* The user's own reply settles a row the engine has not settled yet.
mergedClarificationRow(row) ==
  [row EXCEPT !.status = IF @ = "running" /\ row.key \in DOMAIN clarified
                         THEN clarified[row.key] ELSE @]

withClarifications_inventing_all(rows, asked) ==
  [i \in DOMAIN rows |-> mergedClarificationRow(rows[i])]
  \o SetToSeq({[key |-> q, seq |-> 0, status |-> "running"] : 
                 q \in {q \in asked \cup DOMAIN clarified : \A i \in DOMAIN rows : rows[i].key # q}})
\* Only the question on screen may add a row of its own.
withClarifications(rows, asked) ==
  [i \in DOMAIN rows |-> mergedClarificationRow(rows[i])]
  \o SetToSeq({[key |-> q, seq |-> 0, status |-> "running"] :
                 q \in {q \in asked : \A i \in DOMAIN rows : rows[i].key # q}})

liveFacts == IF awaitingClarification THEN {ask_user} \ DOMAIN clarified ELSE {}
Displayed ==
  IF Streaming \/ loading = "sending" \/ awaitingClarification
  THEN withClarifications(steps, liveFacts) ELSE << >>

\* The trace under a frame's card: the captured one.  A record holds no
\* stage events, so a trace that was not captured cannot be rebuilt.
stepsFor(f) ==
  IF f \in DOMAIN completedSteps THEN withClarifications(completedSteps[f], {}) ELSE << >>

----------------------------------------------------------------------------
(* The page. *)

Init ==
  /\ frames = << >> /\ turns = << >> /\ answer = 0 /\ at = "no"
  /\ pauses = 0 /\ counter = 0 /\ cuts = 0
  /\ loaded = TRUE /\ loading = "no" /\ fetched = << >> /\ carried = FALSE /\ partial = FALSE
  /\ steps = << >> /\ missed = FALSE /\ heldTurns = << >>
  /\ completedSteps = << >> /\ completedAnswers = << >> /\ clarified = << >> /\ reloads = 0

captures == <<completedSteps, completedAnswers>>

\* send: the page holds the head until the run streams.  The run is posted, and its question is not on screen yet.
send ==
  /\ loaded /\ idle /\ at = "no" /\ turn < MaxTurns
  /\ loading' = "sending" /\ at' = "posted"
  /\ steps' = << >> /\ missed' = FALSE /\ carried' = TRUE
  /\ UNCHANGED <<frames, turns, answer, pauses, counter, cuts, loaded, fetched, partial, captures,
                 clarified, reloads>>

\* respondClarification.
respondClarification ==
  /\ awaitingClarification
  /\ \E reply \in {"ok", "declined"} : clarified' = (ask_user :> reply) @@ clarified
  /\ loading' = "yes" /\ at' = "resuming" /\ carried' = TRUE
  /\ UNCHANGED <<frames, turns, answer, pauses, counter, cuts, loaded, fetched, partial,
                 steps, missed, captures, reloads>>

\* Another values frame, with or without the turns channel.
Streams ==
  /\ Streaming
  /\ carried' = ~carried
  /\ UNCHANGED <<engine, loaded, loading, fetched, partial, steps, missed, captures, clarified, reloads>>

\* A reload drops what only the page held.
Reload ==
  /\ loaded /\ reloads < MaxReloads
  /\ reloads' = reloads + 1
  /\ loaded' = FALSE /\ loading' = "no" /\ fetched' = << >> /\ carried' = FALSE /\ partial' = FALSE
  /\ steps' = << >> /\ missed' = TRUE
  /\ completedSteps' = << >> /\ completedAnswers' = << >> /\ clarified' = << >>
  /\ UNCHANGED engine

\* reconnectOnMount: the head of the thread, then the run if one is live.
Mount ==
  /\ ~loaded
  /\ loaded' = TRUE /\ fetched' = turns /\ carried' = TRUE
  /\ loading' = IF at \in {"no", "paused"} THEN "no" ELSE "yes"
  /\ UNCHANGED <<engine, partial, steps, missed, captures, clarified, reloads>>

\* The page reads the head when its run ends, and onFinish captures the trace
\* and the answer under the last frame that is not a question.
onFinish ==
  IF ~loaded THEN UNCHANGED <<loading, fetched, captures>>
  ELSE LET last == LastOf(frames', LAMBDA f : f.type # "human")
           under(f, value, prev) == (f :> value) @@ prev
       IN  /\ loading' = "no" /\ fetched' = turns'
           /\ completedSteps' = IF last = 0 \/ steps' = << >> THEN completedSteps
                                ELSE under(frames'[last], steps', completedSteps)
           /\ completedAnswers' = IF last = 0 \/ answer' = 0 THEN completedAnswers
                                  ELSE under(frames'[last], answer', completedAnswers)

----------------------------------------------------------------------------
(* The run. *)

\* What a step of a run that goes on leaves alone.
RunGoesOn == UNCHANGED <<turns, cuts, loaded, loading, fetched, carried, missed, captures, clarified, reloads>>

\* The question is on the thread, and on screen.
Arrives ==
  /\ at = "posted" /\ at' = "accept"
  /\ frames' = Append(frames, Frame("human", turn + 1))
  /\ loading' = IF loading = "sending" THEN "yes" ELSE loading
  /\ UNCHANGED <<turns, answer, pauses, counter, cuts, loaded, fetched, carried, partial, steps,
                 missed, captures, clarified, reloads>>

\* accept clears the answer of the turn before.
Accept ==
  /\ at = "accept" /\ at' = "rails" /\ answer' = 0
  /\ Emits(<<Event(Rail("accept"), "start"), Event(Rail("accept"), "ok")>>)
  /\ UNCHANGED <<frames, pauses, partial>> /\ RunGoesOn

\* A rail ends the turn: refuse says so in a frame, a decline leaves none (and
\* a crash, which looks the same here).
RailEnds ==
  /\ at = "rails" /\ at' = "stamp"
  /\ \E status \in {"refused", "declined"} :
       /\ Emits(<<Event(Rail("guard"), "start"), Event(Rail("guard"), status)>>)
       /\ frames' = IF status = "refused" THEN Append(frames, Frame("answer", turn)) ELSE frames
  /\ UNCHANGED <<answer, pauses, partial>> /\ RunGoesOn

RailsPass ==
  /\ at = "rails" /\ at' = "agent"
  /\ Emits(<<Event(Rail("guard"), "start"), Event(Rail("guard"), "ok"),
             Event(Rail("agent_core"), "start")>>)
  /\ UNCHANGED <<frames, answer, pauses, partial>> /\ RunGoesOn

\* The agent loop runs, for the first time or after a reply.
Looping == {"agent", "continued"}

\* A token of the agent loop.
Says ==
  /\ at \in Looping /\ Streaming /\ ~partial /\ partial' = TRUE
  /\ UNCHANGED <<frames, answer, at, pauses, counter, steps>> /\ RunGoesOn

\* ask_user opens its row and pauses the run.
Asks ==
  /\ at \in Looping /\ pauses < MaxPauses
  /\ at' = "paused" /\ pauses' = pauses + 1 /\ partial' = FALSE
  /\ counter' = counter + 1
  /\ steps' = IF Streaming
              THEN reduceSteps(steps, [id |-> <<"ask_user", turn, pauses + 1>>, status |-> "start",
                                       seq |-> counter + 1])
              ELSE steps
  /\ UNCHANGED <<frames, turns, answer, cuts, loaded, carried, missed, clarified, reloads>>
  /\ onFinish

\* The resumed run opens the rows of the paused nodes again.
Replays ==
  /\ at = "resuming" /\ at' = "replayed"
  /\ Emits(<<Event(Rail("agent_core"), "start"), Event(ask_user, "start")>>)
  /\ UNCHANGED <<frames, answer, pauses, partial>> /\ RunGoesOn

\* The reply settles the question's row; a caller who was not asked ends the
\* loop.
Resolves ==
  /\ at = "replayed"
  /\ \E status \in {"ok", "declined", "refused"} :
       /\ at' = IF status = "refused" THEN "stamp" ELSE "continued"
       /\ Emits(<<Event(ask_user, status)>> \o
                (IF status = "refused" THEN <<Event(Rail("agent_core"), "error")>> ELSE << >>))
  /\ UNCHANGED <<frames, answer, pauses, partial>> /\ RunGoesOn

\* agent_core returns the loop's frames: all of them, or those it had when it
\* died.
AgentEnds ==
  /\ at \in Looping /\ at' = "stamp" /\ partial' = FALSE
  /\ \E status \in {"ok", "error"} :
       /\ Emits(<<Event(Rail("agent_core"), status)>>)
       /\ \E made \in IF status = "ok" THEN {<<"call", "tool", "answer">>}
                      ELSE {<< >>, <<"call", "tool">>} :
            frames' = frames \o [i \in DOMAIN made |-> Frame(made[i], turn)]
  /\ UNCHANGED <<answer, pauses>> /\ RunGoesOn

Stamp ==
  /\ at = "stamp" /\ at' = "record" /\ answer' = turn
  /\ Emits(<<Event(Rail("stamp"), "ok")>>)
  /\ UNCHANGED <<frames, pauses, partial>> /\ RunGoesOn

\* record adds the row, the channel keeps the newest, and the run is over.
\* A turn states its number if it called a model.
Record ==
  /\ at = "record" /\ at' = "no"
  /\ \E stated \in BOOLEAN :
       /\ (\E i \in DOMAIN frames : frames[i].turn = turn /\ frames[i].type = "call") => stated
       /\ LET rows == Append(turns, [turn |-> turn, stated |-> stated])
          IN turns' = IF Len(rows) > Retained THEN Tail(rows) ELSE rows
  /\ UNCHANGED <<frames, answer, pauses, counter, cuts, loaded, carried, partial, steps, missed,
                 clarified, reloads>>
  /\ onFinish

\* The run is lost, with the engine's process: onError, and no capture.  Until
\* agent_core returns, the head of the thread holds the question the loop
\* paused on: a run lost on its way on from there leaves it to be asked again.
Cut ==
  /\ cuts < MaxCuts /\ cuts' = cuts + 1
  /\ at # "no"
  /\ at' = IF at \in {"paused", "resuming", "replayed", "continued"} THEN "paused" ELSE "no"
  /\ counter' = 0 /\ partial' = FALSE /\ loading' = "no"
  /\ UNCHANGED <<frames, turns, answer, pauses, loaded, fetched, carried, steps, missed, captures,
                 clarified, reloads>>

Next ==
  /\ \/ send \/ respondClarification \/ Streams \/ Reload \/ Mount
     \/ Arrives \/ Accept \/ RailEnds \/ RailsPass \/ Says \/ Asks \/ Replays \/ Resolves
     \/ AgentEnds \/ Stamp \/ Record \/ Cut
  /\ HoldsTurns

Spec == Init /\ [][Next]_vars

----------------------------------------------------------------------------
(* Properties. *)

Stages == <<"accept", "guard", "agent_core", "ask_user", "stamp">>
Place(row) == 10 * (CHOOSE i \in DOMAIN Stages : Stages[i] = row.key[1]) + row.key[3]

\* The page has seen this question settled, by its user or by the engine.
SettledOnce(q) ==
  q \in DOMAIN clarified \/ \E i \in DOMAIN steps : steps[i].key = q /\ steps[i].status # "running"

\* The rows tell the turn's own story: one for each step, in the order the
\* turn takes them, across a pause in which the engine was started again; the
\* question the user is asked is among them once and open, and one the user
\* answered is not open any more.  The two meet when a resumed run is lost and
\* its question is on screen again: only then is the user asked without an
\* open row, and only of a question the page has seen settled.
TimelineFollowsTheTurn ==
  LET rows == Displayed
  IN  /\ \A i, j \in DOMAIN rows : rows[i].key = rows[j].key => i = j
      /\ \A i \in DOMAIN rows : rows[i].key[2] = turn
      /\ ~missed => \A i, j \in DOMAIN rows : i < j => Place(rows[i]) < Place(rows[j])
      /\ awaitingClarification =>
           \/ \E i \in DOMAIN rows : rows[i].key = ask_user /\ rows[i].status = "running"
           \/ cuts > 0 /\ SettledOnce(ask_user)
      /\ \A i \in DOMAIN rows : rows[i].key \in DOMAIN clarified => rows[i].status # "running"

\* Every row but the first with no number follows the row of the turn before.
Countable(rows) ==
  \A i \in DOMAIN rows : rows[i].stated \/ Placed(rows)[i] = rows[i].turn

Recorded(t) == \E i \in DOMAIN turns : turns[i].turn = t

\* The answer of a finished turn stays on screen, whatever the run after it
\* does, and a record the thread still holds is on its card, as long as the
\* stream carries the rows or the thread has dropped none.  A card shows its
\* own turn; the one exception is a later turn that left no frame, or had none
\* when it paused, whose answer or trace onFinish puts under the last frame.
FinishedAnswersStay ==
  loaded =>
    \A i \in DOMAIN frames :
      LET f == frames[i]
          bubble == Bubble(i)
          asks(g, t, q) == \E k \in DOMAIN completedSteps[g] : completedSteps[g][k].key = <<"ask_user", t, q>>
          frameless(t) == \A k \in DOMAIN frames : frames[k].turn = t => frames[k].type = "human"
      IN  isTurnFinalAi(Messages, i) =>
            /\ f.type = "answer" /\ (f.turn < turn \/ at = "no") => bubble.shows # "none"
            /\ /\ Recorded(f.turn) /\ Countable(rowsUsed)
               /\ turn <= Retained \/ liveTurns # << >>
               => bubble.shows = "card"
            /\ bubble.record # 0 /\ Countable(rowsUsed) =>
                 bubble.record = f.turn \/ (bubble.record > f.turn /\ frameless(bubble.record))
            /\ \A k \in DOMAIN stepsFor(f) :
                 LET row == stepsFor(f)[k]
                     t == row.key[2]
                 IN  \/ t = f.turn /\ row.status # "running"
                     \/ t > f.turn /\ (frameless(t) \/ \E q \in 1 .. pauses : asks(f, t, q))
=============================================================================
