----------------------------- MODULE ServeTurn -----------------------------
(***************************************************************************)
(* A conversation thread on the served graph: accept in front of the rail, *)
(* the rail's conditional edges, wrap_node's crash marker, the channel     *)
(* reducers, agent_core as one step (AgentLoop is its inside), the         *)
(* observers behind it, stamp, record, and the bounded turn history.       *)
(*                                                                         *)
(* A thread serves one turn after another over the same channels.  Every   *)
(* node commits a checkpoint, and a run can be cut between two of them: a  *)
(* reader presses Stop, or the process ends.  The next message then starts *)
(* again at accept, over whatever the channels hold.                       *)
(*                                                                         *)
(* Channels keep the source's names.  "missing" is a channel nothing has   *)
(* written; LangGraph assigns the first write to it raw, past the reducer. *)
(***************************************************************************)
EXTENDS Integers, FiniteSets, SequencesExt

CONSTANTS
    MaxTurnsRetained,   \* MAX_TURNS_RETAINED (25 in the code)
    MaxTurns,           \* bound: messages sent to the thread
    MaxCuts             \* bound: runs cut short

ASSUME RetentionAssumption == MaxTurnsRetained \in Nat \ {0, 1}
ASSUME TurnBounds == MaxTurns \in Nat /\ MaxCuts \in Nat

Turns == 1 .. MaxTurns

VARIABLES
    node,          \* the node about to run, "paused", or "idle"
    sent,          \* messages sent so far: the current turn's number
    said,          \* what _last_human finds in the conversation
    cuts,          \* runs cut short so far

    path_kind, failure,       \* terminal channels, each with a reducer
    guard,                    \* the guard's verdict
    execution,                \* the ledger's terminal, or "none"
    generated_sql,            \* an executed statement is recorded
    turn_id,                  \* the turn the channels are about; 0 for none
    turn_started_at,          \* the turn whose start the clock holds; 0 for none
    clarifications,           \* rows of every turn of the thread
    clarifications_mined,     \* the ones mine_corpus has reported
    answer,                   \* what stamp wrote, as a set of at most one
    turns,                    \* the archived turns

    reply,         \* the reply a resumed agent_core is applying, or "none"
    folds,         \* corpus files: how often a clarification was folded in
    happened,      \* history: what this run did
    raisedAt,      \* history: the first node of this run that raised, or "none"
    overrun,       \* history: nodes that worked after this run had ended
    recorded       \* history: turns that were ever archived

threadVars  == <<node, sent, said, cuts>>
endVars     == <<path_kind, failure>>
turnVars    == <<guard, execution, generated_sql, turn_id, turn_started_at>>
clarVars    == <<clarifications, clarifications_mined, reply, folds>>
outVars     == <<answer, turns, recorded>>
historyVars == <<happened, raisedAt, overrun>>
vars        == <<threadVars, endVars, turnVars, clarVars, outVars, historyVars>>
-----------------------------------------------------------------------------
(* Reducers.                                                               *)
RESET == "reset"

TERMINAL_PATH_KINDS == {"refuse", "decline", "crashed"}

cleared(left) == IF left \in {RESET, "missing"} THEN "none" ELSE left

(* settle_path_kind and settle_failure are one rule: the first value wins, *)
(* None writes nothing, RESET clears.  A second failure is only named in   *)
(* the first one's detail, which is abstracted.                            *)
settle(left, right) ==
    IF right = RESET THEN "none"
    ELSE IF cleared(left) = "none" THEN right
    ELSE cleared(left)

Write(channel, value) == IF channel = "missing" THEN value ELSE settle(channel, value)

(* keep_turns: upsert by turn_id, then drop the oldest rows beyond the cap *)
(* and say on the oldest survivor how many are gone.  What a row says of   *)
(* its turn is the answer's and is abstracted.                             *)
ElidedOf(rows) == FoldSeq(LAMBDA row, n : row.elided + n, Len(rows), rows)

DropOldest(rows) ==
    LET extra == Len(rows) - MaxTurnsRetained
        kept  == SubSeq(rows, extra + 1, Len(rows))
    IN IF extra <= 0 THEN rows
       ELSE [kept EXCEPT ![1].elided = @ + ElidedOf(SubSeq(rows, 1, extra))]

keep_turns_without_upsert(rows, entry) == DropOldest(Append(rows, entry))

keep_turns(rows, entry) ==
    LET at == {i \in DOMAIN rows : rows[i].id = entry.id}
    IN DropOldest(IF at = {} THEN Append(rows, entry)
                  ELSE [i \in DOMAIN rows |-> IF i \in at THEN entry ELSE rows[i]])
-----------------------------------------------------------------------------
(* The conditional edges: where the graph goes after node n, given what    *)
(* the channels hold once n has written.                                   *)
RailOrder == <<"accept", "guard", "rewrite", "negative_gate", "facets", "route", "resolve",
               "connect", "assemble", "abstain", "agent_core", "reflect", "mine_corpus",
               "mine_mistakes", "narrate", "stamp">>

Behind(n) == RailOrder[1 + CHOOSE i \in DOMAIN RailOrder : RailOrder[i] = n]

Successor_reflecting_again(n) == IF n = "reflect" THEN "agent_core" ELSE Behind(n)

Successor(n) == Behind(n)

(* Plain edges: nothing is read between these nodes.                       *)
Unconditional == {"facets", "agent_core", "reflect", "mine_corpus", "mine_mistakes", "narrate"}

After_without_negative_check(n, kind, verdict) ==
    IF n \in Unconditional \cup {"negative_gate"} THEN Successor(n)
    ELSE IF kind = "crashed" THEN "stamp"
    ELSE IF n = "guard" /\ verdict = "blocked" THEN "refuse"
    ELSE IF n \in {"route", "connect", "abstain"} /\ kind = "decline" THEN "decline"
    ELSE IF n \in {"resolve", "assemble"} /\ kind \in TERMINAL_PATH_KINDS THEN "stamp"
    ELSE Successor(n)

After(n, kind, verdict) ==
    IF n \in Unconditional THEN Successor(n)
    ELSE IF kind = "crashed" THEN "stamp"
    ELSE IF n = "guard" /\ verdict = "blocked" THEN "refuse"
    ELSE IF n \in {"route", "connect", "abstain"} /\ kind = "decline" THEN "decline"
    ELSE IF n \in {"resolve", "assemble"} /\ kind \in TERMINAL_PATH_KINDS THEN "stamp"
    ELSE Successor(n)
-----------------------------------------------------------------------------
Init ==
    /\ node = "idle" /\ sent = 0 /\ said = "nothing" /\ cuts = 0
    /\ path_kind = "missing" /\ failure = "missing"
    /\ guard = "none" /\ execution = "none" /\ generated_sql = FALSE
    /\ turn_id = 0 /\ turn_started_at = 0
    /\ clarifications = {} /\ clarifications_mined = {} /\ reply = "none"
    /\ folds = [t \in Turns |-> 0]
    /\ answer = {} /\ turns = << >> /\ recorded = {}
    /\ happened = {} /\ raisedAt = "none" /\ overrun = {}

(* A message arrives: with text, with spaces only, or with no content at   *)
(* all, which _last_human skips.  A paused thread refuses it.              *)
Ask ==
    /\ node = "idle" /\ sent < MaxTurns
    /\ \E message \in {"text", "spaces", "empty"} :
         said' = IF message = "empty" THEN said ELSE message
    /\ node' = "accept" /\ sent' = sent + 1
    /\ happened' = {} /\ raisedAt' = "none" /\ overrun' = {}
    /\ UNCHANGED <<cuts, endVars, turnVars, clarVars, outVars>>

(* Stop, or the end of the process, between two checkpoints.               *)
Cut ==
    /\ node \notin {"idle", "paused"} /\ cuts < MaxCuts
    /\ node' = "idle" /\ cuts' = cuts + 1 /\ reply' = "none"
    /\ UNCHANGED <<sent, said, endVars, turnVars, clarifications, clarifications_mined,
                   folds, outVars, historyVars>>

(* What wrap_node does around every node: stamp the clock if none is set.  *)
Began == turn_started_at' = IF turn_started_at = 0 THEN sent ELSE turn_started_at

(* A run has ended once a node of it raised, blocked or declined.          *)
Ended == raisedAt # "none" \/ happened \cap {"blocked", "declined"} # {}

(* The nodes between guard and the agent that cost a model call, a search  *)
(* or a statement.                                                         *)
Costly == {"facets", "route", "resolve", "connect", "assemble", "abstain", "agent_core"}

Does(event, raised) ==
    /\ happened' = happened \cup event
    /\ raisedAt' = IF raised /\ raisedAt = "none" THEN node ELSE raisedAt
    /\ overrun' = IF Ended /\ node \in Costly THEN overrun \cup {node} ELSE overrun

Did(event) == Does(event, FALSE)

Raised(event) == Does(event, TRUE)

Keeps == UNCHANGED <<sent, said, cuts, outVars>>

(* These nodes return at once when the turn has already ended.             *)
Guarded == {"route", "resolve", "connect", "assemble", "abstain", "agent_core", "reflect",
            "narrate"}

Stands == node \in Guarded /\ path_kind \in TERMINAL_PATH_KINDS

(* The terminal guard: an empty update.                                    *)
PassesBy ==
    /\ Stands
    /\ Began
    /\ node' = After(node, path_kind, guard)
    /\ reply' = "none"
    /\ UNCHANGED <<endVars, guard, execution, generated_sql, turn_id, clarifications,
                   clarifications_mined, folds, historyVars>>
    /\ Keeps

(* accept raises: the last message is blank, or no session can be built.   *)
(* wrap_node writes the crash marker and nothing else.                     *)
AcceptRaises ==
    /\ node = "accept" /\ said # "nothing"
    /\ path_kind' = Write(path_kind, "crashed") /\ failure' = Write(failure, "accept")
    /\ Began
    /\ Raised({"unaccepted"})
    /\ node' = After("accept", path_kind', guard)
    /\ UNCHANGED <<guard, execution, generated_sql, turn_id, clarVars>>
    /\ Keeps

(* Session.turn's PER_TURN_RESET.  The clock's reset never reaches the     *)
(* channel: _without_cleared_clock drops it from the update.               *)
ClearsTheTurn ==
    /\ guard' = "none" /\ execution' = "none" /\ generated_sql' = FALSE
    /\ answer' = {}
    /\ Began

(* No message has any content: the turn is cleared and marked crashed, and *)
(* keeps the identity the channels had.                                    *)
AcceptFindsNoQuestion ==
    /\ node = "accept" /\ said = "nothing"
    /\ ClearsTheTurn
    /\ path_kind' = Write(path_kind, "crashed") /\ failure' = Write(failure, "accept")
    /\ Raised({})
    /\ node' = After("accept", path_kind', guard')
    /\ UNCHANGED <<sent, said, cuts, turn_id, clarVars, turns, recorded>>

AcceptTurn ==
    /\ node = "accept" /\ said = "text"
    /\ ClearsTheTurn
    /\ path_kind' = Write(path_kind, RESET) /\ failure' = Write(failure, RESET)
    /\ turn_id' = sent
    /\ Did({})
    /\ node' = After("accept", path_kind', guard')
    /\ UNCHANGED <<sent, said, cuts, clarVars, turns, recorded>>
-----------------------------------------------------------------------------
(* The rail.  A node that ends the turn has already routed the graph by    *)
(* what it wrote.                                                          *)
Works(n) == node = n /\ ~Stands /\ Began

Moves(n) == node' = After(n, path_kind', guard')

RailKeeps == UNCHANGED <<execution, generated_sql, turn_id, clarVars>> /\ Keeps

(* Any of these may raise: wrap_node turns it into the crash marker.  The  *)
(* facets have an action of their own; reflect and narrate catch.          *)
MayRaise == {"guard", "rewrite", "negative_gate", "route", "resolve", "connect", "assemble",
             "abstain", "agent_core", "mine_corpus", "mine_mistakes"}

RailRaises(n) ==
    /\ n \in MayRaise /\ Works(n)
    /\ path_kind' = Write(path_kind, "crashed") /\ failure' = Write(failure, n)
    /\ Raised({})
    /\ reply' = "none"
    /\ UNCHANGED <<guard, execution, generated_sql, turn_id, clarifications,
                   clarifications_mined, folds>>
    /\ Keeps
    /\ Moves(n)

(* guard_node writes a verdict and no path kind.  "clear" stands for       *)
(* error_failed_open too: a scope model that errors lets the question by.  *)
Guard ==
    /\ Works("guard")
    /\ guard' \in {"clear", "blocked"}
    /\ Did(IF guard' = "blocked" THEN {"blocked"} ELSE {})
    /\ UNCHANGED endVars
    /\ RailKeeps
    /\ Moves("guard")

(* Nodes that succeed and change nothing modelled here.  The negative gate *)
(* is a stub that never hits.                                              *)
RailPasses(n) ==
    /\ n \in {"rewrite", "negative_gate", "route", "resolve", "connect", "assemble", "abstain",
             "reflect", "mine_mistakes", "narrate"}
    /\ Works(n)
    /\ Did({})
    /\ UNCHANGED <<endVars, guard>>
    /\ RailKeeps
    /\ Moves(n)

(* The fan-out is one super-step of five facets: when several raise, the   *)
(* reducers settle the concurrent markers to one.  The facet results are   *)
(* abstracted: no edge reads them.                                         *)
RunFacets ==
    /\ Works("facets")
    /\ \E raised \in BOOLEAN :
         /\ path_kind' = IF raised THEN Write(path_kind, "crashed") ELSE path_kind
         /\ failure' = IF raised THEN Write(failure, "facets") ELSE failure
         /\ Does({}, raised)
    /\ UNCHANGED guard
    /\ RailKeeps
    /\ Moves("facets")

(* route finds no schema, connect no join path, abstain no evidence.       *)
Declines(n) ==
    /\ n \in {"route", "connect", "abstain"} /\ Works(n)
    /\ path_kind' = Write(path_kind, "decline")
    /\ Did({"declined"})
    /\ UNCHANGED <<failure, guard>>
    /\ RailKeeps
    /\ Moves(n)

(* The terminal nodes mark the turn and go to stamp.                       *)
Terminal(n, kind) ==
    /\ Works(n)
    /\ path_kind' = Write(path_kind, kind)
    /\ Did({})
    /\ node' = "stamp"
    /\ UNCHANGED <<failure, guard>>
    /\ RailKeeps

refuse_node  == Terminal("refuse", "refuse")
decline_node == Terminal("decline", "decline")
-----------------------------------------------------------------------------
(* agent_core.  ask_user's interrupt leaves the node without an update; a  *)
(* reply re-executes it.  A declined question is neither folded nor        *)
(* caveated, so here it is no question.  Bound: one question per run.      *)
ReplyKinds == {"answered", "deferred"}

AgentPauses ==
    /\ node = "agent_core" /\ ~Stands /\ reply = "none"
    /\ node' = "paused"
    /\ UNCHANGED <<endVars, turnVars, clarVars, historyVars>>
    /\ Keeps

AgentResumes ==
    /\ node = "paused"
    /\ reply' \in ReplyKinds
    /\ node' = "agent_core"
    /\ UNCHANGED <<endVars, turnVars, clarifications, clarifications_mined, folds, historyVars>>
    /\ Keeps

(* What the ledger can say at the end: a refusal because a check raised is *)
(* told from a refusal by a layer.                                         *)
LedgerSays == {"no_sql", "answered", "refused", "guardrail_error", "capped"}

AgentRows == IF reply = "none" THEN {}
             ELSE {[id |-> sent, turn_id |-> turn_id, kind |-> reply]}

(* The loop returns its ledger whether it finished or died.                *)
AgentFinishes ==
    /\ Works("agent_core")
    /\ \E terminal \in LedgerSays, executed \in BOOLEAN, died \in BOOLEAN :
         /\ terminal = "answered" => executed
         /\ terminal \in {"no_sql", "refused", "guardrail_error"} => ~executed
         /\ execution' = terminal
         /\ generated_sql' = (generated_sql \/ executed)
         /\ path_kind' = Write(path_kind, IF died THEN "crashed" ELSE "answered")
         /\ failure' = IF died THEN Write(failure, "agent_core") ELSE failure
         /\ Does({terminal} \cup ({reply} \cap {"deferred"}), died)
    /\ clarifications' = clarifications \cup AgentRows
    /\ reply' = "none"
    /\ UNCHANGED <<guard, turn_id, clarifications_mined, folds>>
    /\ Keeps
    /\ Moves("agent_core")

(* _stub, when no agent model is configured.                               *)
AgentStub ==
    /\ Works("agent_core") /\ reply = "none"
    /\ path_kind' = Write(path_kind, "answered")
    /\ Did({"no_sql"})
    /\ UNCHANGED <<failure, guard>>
    /\ RailKeeps
    /\ Moves("agent_core")
-----------------------------------------------------------------------------
(* mine_corpus folds every clarification of the thread it has not reported *)
(* yet into the corpus on disk; what it reports is committed only with the *)
(* node's update.  Off unless enable_clarification_to_draft.               *)
Pending == {row \in clarifications : row.id \notin clarifications_mined}

Foldable(rows) == {row.id : row \in {r \in rows : r.kind = "answered"}}

MineFolds_without_dedup ==
    /\ node = "mine_corpus"
    /\ folds' = [t \in Turns |-> IF t \in Foldable(clarifications) THEN folds[t] + 1 ELSE folds[t]]
    /\ node' = "mine_corpus_reports"
    /\ UNCHANGED <<endVars, turnVars, clarifications, clarifications_mined, reply, historyVars>>
    /\ Keeps

MineFolds ==
    /\ node = "mine_corpus" /\ Pending # {}
    /\ folds' = [t \in Turns |-> IF t \in Foldable(Pending) THEN folds[t] + 1 ELSE folds[t]]
    /\ node' = "mine_corpus_reports"
    /\ UNCHANGED <<endVars, turnVars, clarifications, clarifications_mined, reply, historyVars>>
    /\ Keeps

MineReports ==
    /\ node = "mine_corpus_reports"
    /\ Began
    /\ clarifications_mined' = clarifications_mined \cup {row.id : row \in Pending}
    /\ node' = Successor("mine_corpus")
    /\ UNCHANGED <<endVars, guard, execution, generated_sql, turn_id, clarifications,
                   reply, folds, historyVars>>
    /\ Keeps

MineSkips ==
    /\ Works("mine_corpus")
    /\ Did({})
    /\ UNCHANGED <<endVars, guard>>
    /\ RailKeeps
    /\ Moves("mine_corpus")
-----------------------------------------------------------------------------
(* stamp.                                                                  *)
classify_outcome(refused_by, has_sql, terminal) ==
    IF refused_by = "guardrail_error" THEN "crashed"
    ELSE IF refused_by = "attempt_cap" THEN "capped"
    ELSE IF refused_by # "none" THEN "refused"
    ELSE IF has_sql THEN "answered"
    ELSE IF terminal = "no_sql" THEN "no_sql"
    ELSE "crashed"

(* _execution: a turn nothing wrote a ledger for attempted nothing.        *)
Ledger == IF execution = "none" THEN "no_sql" ELSE execution

(* _path_signals on a turn the agent loop finished: the ledger decides.    *)
LedgerRefusal ==
    CASE Ledger = "capped"          -> "attempt_cap"
      [] Ledger = "refused"         -> "guardrail"
      [] Ledger = "guardrail_error" -> "guardrail_error"
      [] OTHER                      -> "none"

Outcome(kind, fault) ==
    IF kind = "crashed" \/ fault # "none" THEN "crashed"
    ELSE IF kind = "refuse" THEN classify_outcome("guard", FALSE, "none")
    ELSE IF kind = "decline" THEN classify_outcome("no_schema_matched", FALSE, "none")
    ELSE IF kind = "answered" THEN
           classify_outcome(LedgerRefusal, generated_sql /\ LedgerRefusal = "none", Ledger)
    ELSE classify_outcome("none", generated_sql, "none")

(* _reliability: this turn's deferred questions, and only this turn's.     *)
Caveat == \E row \in clarifications : row.turn_id = turn_id /\ row.kind = "deferred"

Stamps(outcome) ==
    /\ node = "stamp"
    /\ answer' = {[id |-> turn_id, outcome |-> outcome, failed_stage |-> cleared(failure),
                   caveat |-> Caveat, clock |-> turn_started_at]}
    /\ node' = "record"
    /\ UNCHANGED <<sent, said, cuts, endVars, turnVars, clarVars, turns, recorded, historyVars>>

Stamp_reading_raw_channels ==
    Stamps(Outcome(path_kind, IF failure = "missing" THEN "none" ELSE failure))

Stamp == Stamps(Outcome(cleared(path_kind), cleared(failure)))

(* record: the finished turn onto the thread's history.  A turn with no    *)
(* identity is not recorded.                                               *)
Record ==
    /\ node = "record"
    /\ \E a \in answer :
         IF a.id = 0
           THEN UNCHANGED <<turns, recorded>>
           ELSE /\ turns' = keep_turns(turns, [id |-> a.id, elided |-> 0])
                /\ recorded' = recorded \cup {a.id}
    /\ node' = "idle"
    /\ UNCHANGED <<sent, said, cuts, endVars, turnVars, clarVars, answer, historyVars>>
-----------------------------------------------------------------------------
Rail == \/ AcceptRaises \/ AcceptFindsNoQuestion \/ AcceptTurn \/ PassesBy
        \/ \E n \in MayRaise : RailRaises(n)
        \/ Guard \/ \E n \in Costly \cup {"rewrite", "negative_gate", "reflect",
                                          "mine_mistakes", "narrate"} : RailPasses(n)
        \/ RunFacets \/ \E n \in {"route", "connect", "abstain"} : Declines(n)
        \/ refuse_node \/ decline_node
        \/ AgentFinishes \/ AgentStub \/ MineFolds \/ MineReports \/ MineSkips
        \/ Stamp \/ Record

(* Nobody asks, or nobody answers.                                         *)
Rest == node \in {"idle", "paused"} /\ UNCHANGED vars

Next == Ask \/ Cut \/ Rail \/ AgentPauses \/ AgentResumes \/ Rest

Spec == Init /\ [][Next]_vars

(* The graph runtime runs the next node; a human need not answer, and      *)
(* nobody need ask again.                                                  *)
FairSpec == Spec /\ WF_vars(Rail)
-----------------------------------------------------------------------------
Nodes == {"idle", "paused", "accept", "refuse", "decline", "stamp", "record",
          "mine_corpus_reports", "facets", "reflect", "narrate"} \cup MayRaise

Stages == MayRaise \cup {"accept", "facets"}

PathKinds == TERMINAL_PATH_KINDS \cup {"missing", RESET, "none", "answered"}

Failures == Stages \cup {"missing", RESET, "none"}

Outcomes == {"answered", "refused", "capped", "no_sql", "crashed"}

(* Every variable has its type.                                            *)
TypeOK ==
    /\ node \in Nodes /\ sent \in 0 .. MaxTurns /\ cuts \in 0 .. MaxCuts
    /\ said \in {"nothing", "text", "spaces"}
    /\ path_kind \in PathKinds /\ failure \in Failures
    /\ guard \in {"none", "clear", "blocked"}
    /\ execution \in LedgerSays \cup {"none"} /\ generated_sql \in BOOLEAN
    /\ turn_id \in 0 .. MaxTurns /\ turn_started_at \in 0 .. MaxTurns
    /\ clarifications \subseteq [id : Turns, turn_id : Turns, kind : ReplyKinds]
    /\ clarifications_mined \subseteq Turns
    /\ reply \in ReplyKinds \cup {"none"}
    /\ folds \in [Turns -> Nat]
    /\ answer \subseteq [id : 0 .. MaxTurns, outcome : Outcomes, caveat : BOOLEAN,
                         failed_stage : Stages \cup {"none"}, clock : 0 .. MaxTurns]
    /\ turns \in Seq([id : Turns, elided : Nat])
    /\ Len(turns) <= MaxTurnsRetained
    /\ recorded \subseteq Turns
    /\ happened \subseteq LedgerSays \cup {"unaccepted", "blocked", "declined", "deferred"}
    /\ raisedAt \in Stages \cup {"none"}
    /\ overrun \subseteq Costly

(* Once a turn that accept admitted has crashed, been blocked or declined, *)
(* no node behind it searches, calls a model or sends a statement, through *)
(* every conditional edge and terminal guard of the rail.                  *)
NothingCostlyAfterTheEnd == "unaccepted" \notin happened => overrun = {}

(* The outcome stamp derives from the channels is the one that follows from *)
(* what the run really did: a crash anywhere is a crash, even behind an    *)
(* answer; a refusal, a decline, a cap and a broken checker stay apart;    *)
(* nothing is called answered unless a statement ran; the stage blamed for *)
(* a crash is the first one that raised; and the caveat is about a         *)
(* question deferred in this turn, not in an earlier one of the thread.    *)
Verdict ==
    IF raisedAt # "none" THEN "crashed"
    ELSE IF happened \cap {"blocked", "declined", "refused"} # {} THEN "refused"
    ELSE IF "capped" \in happened THEN "capped"
    ELSE IF "guardrail_error" \in happened THEN "crashed"
    ELSE IF "answered" \in happened THEN "answered"
    ELSE "no_sql"

OutcomeTellsWhatHappened ==
    node = "record" =>
        \A a \in answer :
            /\ a.outcome = Verdict
            /\ "unaccepted" \notin happened =>
                   a.failed_stage = raisedAt /\ (a.caveat <=> "deferred" \in happened)

(* The history holds every recorded turn once, oldest first, except the    *)
(* oldest ones beyond the cap, and it says how many those are.             *)
HistoryAccountsForEveryTurn ==
    /\ \A i, j \in DOMAIN turns : i < j => turns[i].id < turns[j].id
    /\ \A i \in DOMAIN turns : i > 1 => turns[i].elided = 0
    /\ turns # << >> => turns[1].elided + Len(turns) = Cardinality(recorded)

(* A clarification is folded into the corpus once, but for a run cut       *)
(* between the write and the checkpoint that reports it; and none is       *)
(* reported that was answered and not folded.                              *)
MinedOnceButForCuts ==
    /\ \A t \in Turns : folds[t] <= 1 + cuts
    /\ \A row \in clarifications :
         row.id \in clarifications_mined /\ row.kind = "answered" => folds[row.id] >= 1

(* Every message is answered: the rail reaches stamp and record, or waits  *)
(* for a human, or was cut.                                                *)
EveryMessageIsAnswered == node = "accept" ~> node \in {"record", "paused", "idle"}
-----------------------------------------------------------------------------
(* Why these hold: the invariant that is inductive, in parts.              *)
BeforeTheAgent == {"guard", "rewrite", "negative_gate", "facets", "route", "resolve", "connect",
                   "assemble", "abstain", "agent_core", "paused"}

AfterTheAgent == {"reflect", "mine_corpus", "mine_corpus_reports", "mine_mistakes", "narrate",
                  "stamp", "record"}

Serving == node \notin {"idle", "accept"}

Accepted == Serving /\ "unaccepted" \notin happened

(* A run starts with nothing done, the channels are about the message that *)
(* accept admitted last, and before it admits one every message ends at    *)
(* stamp.                                                                  *)
TurnsAreNumbered ==
    /\ turn_id <= sent
    /\ node = "accept" =>
         turn_id < sent /\ happened = {} /\ raisedAt = "none" /\ overrun = {}
    /\ Accepted => turn_id = IF raisedAt = "accept" THEN 0 ELSE sent
    /\ turn_id = 0 =>
         path_kind \in {"missing", "crashed"} /\ node \in {"idle", "accept", "stamp", "record"}
    /\ said = "nothing" => turn_id = 0 /\ failure \in {"missing", "accept"}

(* The failure channel names the node that raised first, and a message     *)
(* accept could not admit leaves some failure in it.                       *)
FailureIsTheFirst ==
    /\ Accepted => cleared(failure) = raisedAt
    /\ Serving /\ ~Accepted => raisedAt = "accept" /\ cleared(failure) # "none"

(* On the way to the agent a run that ended is marked, and stands before a *)
(* node with a terminal guard; one that goes on has written nothing.       *)
EndsAreMarked ==
    /\ Accepted /\ node \in BeforeTheAgent =>
         /\ happened = {} /\ execution = "none" /\ ~generated_sql
         /\ IF raisedAt = "none" THEN path_kind \in {RESET, "none"}
            ELSE path_kind = "crashed" /\ node \in Guarded
    /\ Accepted /\ node = "refuse" =>
         happened = {"blocked"} /\ raisedAt = "none" /\ path_kind \in {RESET, "none"}
    /\ Accepted /\ node = "decline" =>
         happened = {"declined"} /\ raisedAt = "none" /\ path_kind = "decline"

(* Behind the agent the channels of a run in which nothing raised say what *)
(* it did.                                                                 *)
ChannelsTell ==
    Accepted /\ node \in AfterTheAgent /\ raisedAt = "none" =>
        \/ path_kind = "refuse" /\ happened = {"blocked"}
        \/ path_kind = "decline" /\ happened = {"declined"}
        \/ /\ path_kind = "answered"
           /\ happened \ {"deferred"} = {Ledger}
           /\ Ledger = "answered" => generated_sql
           /\ Ledger = "no_sql" => ~generated_sql

(* A clarification belongs to a run that has passed the agent, and to the  *)
(* turn the channels were about then.                                      *)
RowsBelongToTheirTurn ==
    /\ \A row \in clarifications : row.id <= sent /\ row.turn_id <= turn_id
    /\ node \in BeforeTheAgent \cup {"accept", "refuse", "decline"} =>
         \A row \in clarifications : row.id < sent /\ row.turn_id < sent

(* The caveat of an admitted turn is about a question deferred in it.      *)
CaveatIsTheTurns == Accepted => (Caveat <=> "deferred" \in happened)

AnswerIsTheTurns == node = "record" => \E a \in answer : answer = {a} /\ a.id = turn_id

(* The newest archived turn is the last one recorded, and a row counts     *)
(* dropped turns only once the history is full.                            *)
HistoryEndsWithTheLast ==
    /\ Len(turns) <= MaxTurnsRetained
    /\ \A id \in recorded : id <= turn_id
    /\ recorded = {} <=> turns = << >>
    /\ \A i \in DOMAIN turns : turns[i].id \in recorded
    /\ turn_id \in recorded => turns[Len(turns)].id = turn_id
    /\ turns # << >> /\ turns[1].elided > 0 => Len(turns) = MaxTurnsRetained

(* What is folded and not reported was folded by the node that is about to *)
(* report it, or by a run that was cut there.                              *)
FoldsAreReported ==
    /\ \A t \in Turns \ clarifications_mined :
         folds[t] <= cuts + (IF node = "mine_corpus_reports" /\ t \in Foldable(Pending)
                               THEN 1 ELSE 0)
    /\ node = "mine_corpus_reports" => \A t \in Foldable(Pending) : folds[t] >= 1
    /\ \A t \in clarifications_mined : t <= sent
    /\ node \in BeforeTheAgent \cup {"accept"} => sent \notin clarifications_mined
=============================================================================
