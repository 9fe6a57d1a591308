------------------------------ MODULE AgentLoop ------------------------------
(***************************************************************************)
(* One execution of the agent_core node: the nested create_agent loop, the *)
(* tools it dispatches, the two enforcers of run_query_attempt_cap, the    *)
(* ask_user pause and its identity-bound resume, the ledger channels, and  *)
(* the soft and hard walls around the whole loop.                          *)
(*                                                                         *)
(* The unit of progress is LangGraph's super-step.  A super-step commits   *)
(* its tasks' writes together, when every task has finished; a raise       *)
(* discards them; an interrupt keeps the finished siblings' writes pending *)
(* until the resume finishes the super-step.  _run reads one frame per     *)
(* committed super-step, so what it holds when the loop dies is exactly    *)
(* the committed channels.                                                 *)
(*                                                                         *)
(* Tool calls are numbered in the order the model proposes them, so a call *)
(* id is an index into the sequence tool.                                  *)
(***************************************************************************)
EXTENDS Integers, Sequences, FiniteSets

CONSTANTS
    Cap,             \* GovernancePolicy.run_query_attempt_cap
    RecursionLimit,  \* agent_recursion_limit: super-steps of one invocation
    HasWall,         \* agent_node_timeout_s > 0: the soft wall is armed
    Callers,         \* identities a run can arrive with
    Nobody,          \* the absent identity
    Asker,           \* the identity checkpointed with the paused turn
    MaxCalls,        \* bound: tool calls the model proposes in the turn
    MaxParallel,     \* bound: tool calls in one AI message
    MaxPauses        \* bound: times a human resumes the turn

ASSUME CapAssumption == Cap \in Nat
ASSUME RecursionAssumption == RecursionLimit \in Nat \ {0}
ASSUME WallAssumption == HasWall \in BOOLEAN
ASSUME CallerAssumption == Asker \in Callers
ASSUME BoundAssumption ==
    MaxCalls \in Nat /\ MaxParallel \in Nat /\ MaxPauses \in Nat

CallIds == 1 .. MaxCalls

(* The tools, by what they do to the turn.  "read" stands for read_body,   *)
(* inspect_schema and state_assumption, which build no statement.          *)
Tools == {"run_query", "sample_rows", "ask_user", "read"}

(* The tools that send a statement to the engine, and so owe a ledger row. *)
StatementTools == {"run_query", "sample_rows"}

VARIABLES
    pc,            \* the node the nested graph is about to run
    steps,         \* super-steps taken by this invocation
    late,          \* the soft wall has expired
    pauses,        \* resumes so far
    failure,       \* how the loop died: _run's second result

    tool,          \* AI messages: the tool of each proposed call
    replied,       \* calls whose ToolMessage is committed
    blocked,       \* calls the cap middleware answered instead of the tool
    counted,       \* calls thread_tool_call_count counts

    task,          \* the Send task of each call
    pendingRow,    \* the ledger row a finished task will commit, if any
    pendingReply,  \* the clarification a finished task will commit, if any
    fetched,       \* run_query calls whose payload is a result table

    ledger,        \* attempts_by_call, committed
    clarified,     \* clarifications_by_call, committed
    result_table,  \* the call whose table the turn returns, if any

    inFlight,      \* AttemptBook._in_flight of this node execution
    latch,         \* pending_clarification of this node execution
    resume,        \* the Command(resume=...) being applied, if any

    sends,         \* how often the engine received each call's statement
    words,         \* what each ask_user call asks, by the first call to ask it
    homework       \* clarifications.jsonl: the row of each question

loopVars  == <<pc, steps, late, pauses, failure>>
msgVars   == <<tool, replied, blocked, counted>>
writes    == <<pendingRow, pendingReply, fetched>>
channels  == <<ledger, clarified, result_table>>
nodeVars  == <<inFlight, latch, resume>>
world     == <<sends, words, homework>>
vars      == <<loopVars, msgVars, task, writes, channels, nodeVars, world>>
-----------------------------------------------------------------------------
(* Ledger rows (AttemptRecord).  "layer" is any layer verdict that blocked *)
(* the statement.  A row claims a statement only when it passed: a refused *)
(* attempt's executed_sql is None.                                         *)
Reasons == {"passed", "layer", "guardrail_error", "attempt_cap"}
Paths   == {"agent", "sample"}
Rows    == [path : Paths, reason : Reasons]

Row(path, reason) == [path |-> path, reason |-> reason]

PathOf(c) == IF tool[c] = "run_query" THEN "agent" ELSE "sample"

pipeline_error_attempt(path) == Row(path, "guardrail_error")

cap_attempt == Row("agent", "attempt_cap")

(* What a human can reply, and as whom.                                    *)
ReplyKinds == {"answered", "deferred", "declined"}
Answers    == [caller : Callers, kind : ReplyKinds]

(* The call-keyed channels map every key to a set of at most one entry.    *)
CAP_LEDGER_KEY == 0
Keys == CallIds \cup {CAP_LEDGER_KEY}

Absent(keys) == [k \in keys |-> {}]

merge_by_call_keeping_right(left, right) == right

(* merge_by_call: right wins per key.                                      *)
merge_by_call(left, right) ==
    [k \in DOMAIN left |-> IF right[k] = {} THEN left[k] ELSE right[k]]

(* The committed run_query attempts, and only those.                       *)
Chargeable(rows) ==
    {k \in DOMAIN rows :
        \E r \in rows[k] : r.path # "sample" /\ r.reason # "attempt_cap"}

charged(rows) == Cardinality(Chargeable(rows) \cup inFlight)

admit(rows, c) == c \in Chargeable(rows) \cup inFlight \/ charged(rows) < Cap

(* execution_from_attempts: the turn's terminal, read off the ledger.  The  *)
(* cap is tested before the pass: an earlier success does not undo it.     *)
answering_attempts(rows) ==
    {r \in UNION {rows[k] : k \in DOMAIN rows} : r.path # "sample"}

execution_from_attempts(rows) ==
    LET reasons == {r.reason : r \in answering_attempts(rows)} IN
    IF reasons = {} THEN "no_sql"
    ELSE IF "attempt_cap" \in reasons THEN "capped"
    ELSE IF "passed" \in reasons THEN "answered"
    ELSE "refused"

(* The calls whose statement the ledger says the engine received.          *)
Recorded(rows, paths) ==
    {c \in CallIds : \E r \in rows[c] : r.path \in paths /\ r.reason = "passed"}

(* The newest of a set of calls, as a set.                                 *)
Newest(calls) == {c \in calls : \A d \in calls : d <= c}

(* The newest AI message's calls with no ToolMessage yet: what the tools   *)
(* node dispatches, one Send per call.                                     *)
Pending == DOMAIN tool \ replied
-----------------------------------------------------------------------------
Init ==
    /\ pc = "model" /\ steps = 0 /\ late = FALSE /\ pauses = 0 /\ failure = "none"
    /\ tool = << >> /\ replied = {} /\ blocked = {} /\ counted = {}
    /\ task = [c \in CallIds |-> "none"]
    /\ pendingRow = Absent(CallIds) /\ pendingReply = Absent(CallIds) /\ fetched = {}
    /\ ledger = Absent(Keys) /\ clarified = Absent(CallIds) /\ result_table = {}
    /\ inFlight = {} /\ latch = {} /\ resume = {}
    /\ sends = [c \in CallIds |-> 0]
    /\ words = [c \in CallIds |-> 0] /\ homework = [q \in CallIds |-> "none"]

(* A super-step starts only between frames, where the soft wall and the    *)
(* recursion limit are checked.                                            *)
BetweenFrames == pc \in {"model", "after_model", "dispatch"}

StepStarts(node) == pc = node /\ ~late /\ steps < RecursionLimit

Die(how) == pc' = "done" /\ failure' = how

(* The model node calls the provider.                                      *)
CallModel ==
    /\ StepStarts("model")
    /\ pc' = "calling"
    /\ UNCHANGED <<steps, late, pauses, failure, msgVars, task, writes, channels,
                   nodeVars, world>>

(* It answers with an AI message proposing n further tool calls, possibly  *)
(* none, which is the final answer.                                        *)
ModelReplies ==
    /\ pc = "calling"
    /\ \E n \in 0 .. MaxParallel :
         /\ Len(tool) + n <= MaxCalls
         /\ \E calls \in [1 .. n -> Tools] : tool' = tool \o calls
    /\ pc' = "after_model" /\ steps' = steps + 1
    /\ UNCHANGED <<late, pauses, failure, replied, blocked, counted, task, writes,
                   channels, nodeVars, world>>

(* A provider error leaves the loop through _run's except clause.          *)
ModelRaises ==
    /\ pc = "calling"
    /\ Die("raised")
    /\ UNCHANGED <<steps, late, pauses, msgVars, task, writes, channels, nodeVars, world>>

(* ToolCallLimitMiddleware's separation of one AI message's run_query      *)
(* calls: in order, the ones the thread limit still has room for.          *)
WithinLimit(rq, allowed) ==
    /\ allowed \subseteq rq
    /\ \A a \in allowed, b \in rq \ allowed : a < b
    /\ Cardinality(counted \cup allowed) <= Cap
    /\ allowed = rq \/ Cardinality(counted \cup allowed) = Cap

(* _CapEndsTheTurn.after_model.  When a call is blocked the turn ends here: *)
(* the blocked calls and the calls to other tools are answered, the cap    *)
(* row is written, and the graph jumps to its end.                         *)
AfterModel ==
    /\ StepStarts("after_model")
    /\ LET rq == {c \in Pending : tool[c] = "run_query"} IN
       \E allowed \in SUBSET rq :
         /\ WithinLimit(rq, allowed)
         /\ counted' = counted \cup allowed
         /\ blocked' = blocked \cup (rq \ allowed)
         /\ IF allowed = rq
              THEN /\ pc' = IF Pending = {} THEN "done" ELSE "dispatch"
                   /\ UNCHANGED <<replied, ledger>>
              ELSE /\ pc' = "done"
                   /\ replied' = replied \cup (Pending \ allowed)
                   /\ ledger' = [ledger EXCEPT ![CAP_LEDGER_KEY] = {cap_attempt}]
    /\ steps' = steps + 1
    /\ UNCHANGED <<late, pauses, failure, tool, task, writes, clarified, result_table,
                   nodeVars, world>>

(* The tools node: one Send task per pending call.                         *)
Dispatch ==
    /\ StepStarts("dispatch")
    /\ pc' = "tools"
    /\ task' = [c \in CallIds |-> IF c \in Pending THEN "ready" ELSE task[c]]
    /\ UNCHANGED <<steps, late, pauses, failure, msgVars, writes, channels, nodeVars, world>>
-----------------------------------------------------------------------------
(* Steps of one Send task.                                                 *)
Runs(c, t, from) == pc = "tools" /\ c \in DOMAIN tool /\ tool[c] \in t /\ task[c] = from

To(c, to) == task' = [task EXCEPT ![c] = to]

FinishesWith(c, rows) ==
    To(c, "finished") /\ pendingRow' = [pendingRow EXCEPT ![c] = rows]

(* A call that never reaches its effect: a tool that builds no statement,  *)
(* arguments that fail the tool's schema, a question that leaks a schema   *)
(* identifier.  The replayed question passed these once and does again.    *)
NoEffect(c) ==
    /\ Runs(c, Tools, "ready")
    /\ resume = {}
    /\ To(c, "finished")
    /\ UNCHANGED <<loopVars, msgVars, writes, channels, nodeVars, world>>

(* run_query: the book admits the call and the statement goes to a thread, *)
(* or refuses it, which writes the cap row and ends nothing.               *)
RunQueryStarts(c) ==
    /\ Runs(c, {"run_query"}, "ready")
    /\ IF admit(ledger, c)
         THEN /\ inFlight' = inFlight \cup {c}
              /\ To(c, "running")
              /\ UNCHANGED pendingRow
         ELSE /\ FinishesWith(c, {cap_attempt})
              /\ UNCHANGED inFlight
    /\ UNCHANGED <<loopVars, msgVars, pendingReply, fetched, channels, latch, resume, world>>

SampleStarts(c) ==
    /\ Runs(c, {"sample_rows"}, "ready")
    /\ To(c, "running")
    /\ UNCHANGED <<loopVars, msgVars, writes, channels, nodeVars, world>>

(* The sampled column is out of scope: no statement is ever built.         *)
SampleOutOfScope(c) ==
    /\ Runs(c, {"sample_rows"}, "running")
    /\ To(c, "finished")
    /\ UNCHANGED <<loopVars, msgVars, writes, channels, nodeVars, world>>

(* prepare() raised before a verdict existed: a row, and a refund.         *)
CheckerRaises(c) ==
    /\ Runs(c, StatementTools, "running")
    /\ FinishesWith(c, {pipeline_error_attempt(PathOf(c))})
    /\ inFlight' = inFlight \ {c}
    /\ UNCHANGED <<loopVars, msgVars, pendingReply, fetched, channels, latch, resume, world>>

(* GovernanceUsageError is no verdict: a wiring failure leaves the tool and *)
(* ends the loop, with the call still charged.                             *)
CheckerMisused(c) ==
    /\ Runs(c, StatementTools, "running")
    /\ Die("raised") /\ To(c, "finished")
    /\ UNCHANGED <<steps, late, pauses, msgVars, writes, channels, nodeVars, world>>

(* A layer refused it: nothing was sent and the row says so.               *)
StatementRefused(c) ==
    /\ Runs(c, StatementTools, "running")
    /\ FinishesWith(c, {Row(PathOf(c), "layer")})
    /\ UNCHANGED <<loopVars, msgVars, pendingReply, fetched, channels, nodeVars, world>>

(* The statement cleared every layer and connector.execute sent it.        *)
StatementSent(c) ==
    /\ Runs(c, StatementTools, "running")
    /\ sends' = [sends EXCEPT ![c] = @ + 1]
    /\ To(c, "sent")
    /\ UNCHANGED <<loopVars, msgVars, writes, channels, nodeVars, words, homework>>

(* It returned a table, or the driver failed.  The row says passed either  *)
(* way; only run_query's payload is lifted as a result table.              *)
StatementReturns(c) ==
    /\ Runs(c, StatementTools, "sent")
    /\ FinishesWith(c, {Row(PathOf(c), "passed")})
    /\ \/ UNCHANGED fetched
       \/ tool[c] = "run_query" /\ fetched' = fetched \cup {c}
    /\ UNCHANGED <<loopVars, msgVars, pendingReply, channels, nodeVars, world>>
-----------------------------------------------------------------------------
(* ask_user.  One question outstanding: with the latch taken the call is   *)
(* answered at once with a refusal.  A question's id is a digest of the    *)
(* turn and of its words, so a call asks a question of its own or one an   *)
(* earlier call has asked; replayed, it asks in the same words.            *)
Wordings(c) == IF words[c] # 0 THEN {words[c]} ELSE {c} \cup ({words[d] : d \in CallIds} \ {0})

AskRefused(c) ==
    /\ Runs(c, {"ask_user"}, "ready")
    /\ latch # {}
    /\ To(c, "finished")
    /\ UNCHANGED <<loopVars, msgVars, writes, channels, nodeVars, world>>

AskOpens_without_latch(c) ==
    /\ Runs(c, {"ask_user"}, "ready")
    /\ latch' = latch \cup {c}
    /\ \E q \in Wordings(c) : words' = [words EXCEPT ![c] = q]
    /\ To(c, "asking")
    /\ UNCHANGED <<loopVars, msgVars, writes, channels, inFlight, resume, sends, homework>>

AskOpens(c) ==
    /\ Runs(c, {"ask_user"}, "ready")
    /\ latch = {}
    /\ latch' = {c}
    /\ \E q \in Wordings(c) : words' = [words EXCEPT ![c] = q]
    /\ To(c, "asking")
    /\ UNCHANGED <<loopVars, msgVars, writes, channels, inFlight, resume, sends, homework>>

(* _log_live_clarification, idempotent by id: a question that is listed    *)
(* keeps its row as it is, whatever became of it.  Then interrupt(), which *)
(* raises on the first pass and returns the resume value on the replay.    *)
AskLogs_after_the_interrupt(c) ==
    /\ Runs(c, {"ask_user"}, "asking")
    /\ homework' = [homework EXCEPT ![words[c]] = IF resume = {} THEN @ ELSE "open"]
    /\ To(c, IF resume = {} THEN "paused" ELSE "answering")
    /\ UNCHANGED <<loopVars, msgVars, writes, channels, nodeVars, sends, words>>

AskLogs(c) ==
    /\ Runs(c, {"ask_user"}, "asking")
    /\ homework' = [homework EXCEPT ![words[c]] = IF @ = "none" THEN "open" ELSE @]
    /\ To(c, IF resume = {} THEN "paused" ELSE "answering")
    /\ UNCHANGED <<loopVars, msgVars, writes, channels, nodeVars, sends, words>>

(* authorise_resume: an absent identity on either side is a mismatch.      *)
ResumeAuthorised == \E r \in resume : r.caller = Asker /\ r.caller # Nobody

(* _close_live_clarification: a declined question stays open homework.     *)
Closes(c) ==
    homework' = [homework EXCEPT ![words[c]] =
                    IF \E r \in resume : r.kind = "answered" THEN "answered"
                    ELSE IF \E r \in resume : r.kind = "deferred" THEN "deferred"
                    ELSE @]

AskAnswered_by_anyone(c) ==
    /\ Runs(c, {"ask_user"}, "answering")
    /\ latch' = latch \ {c}
    /\ Closes(c)
    /\ To(c, "finished") /\ pendingReply' = [pendingReply EXCEPT ![c] = resume]
    /\ resume' = {}
    /\ UNCHANGED <<loopVars, msgVars, pendingRow, fetched, channels, inFlight, sends, words>>

(* The authorised reply gives the latch back, closes the row it opened and *)
(* becomes the tool's answer.                                              *)
AskAnswered(c) ==
    /\ Runs(c, {"ask_user"}, "answering")
    /\ ResumeAuthorised
    /\ latch' = latch \ {c}
    /\ Closes(c)
    /\ To(c, "finished") /\ pendingReply' = [pendingReply EXCEPT ![c] = resume]
    /\ resume' = {}
    /\ UNCHANGED <<loopVars, msgVars, pendingRow, fetched, channels, inFlight, sends, words>>

(* ResumeRejected leaves the tool and ends the loop; the reply is consumed *)
(* and recorded nowhere.                                                   *)
AskRejected(c) ==
    /\ Runs(c, {"ask_user"}, "answering")
    /\ ~ResumeAuthorised
    /\ Die("raised")
    /\ resume' = {}
    /\ UNCHANGED <<steps, late, pauses, msgVars, task, writes, channels, inFlight, latch, world>>

(* clarifications.jsonl cannot be written while the question is logged or  *)
(* closed: the tool raises and the super-step is discarded.                *)
HomeworkWriteFails(c) ==
    /\ Runs(c, {"ask_user"}, "asking") \/ (Runs(c, {"ask_user"}, "answering") /\ ResumeAuthorised)
    /\ Die("raised")
    /\ UNCHANGED <<steps, late, pauses, msgVars, task, writes, channels, nodeVars, world>>
-----------------------------------------------------------------------------
(* Every task finished: the super-step commits all of its writes.          *)
PendingLedger ==
    [k \in Keys |->
        IF k = CAP_LEDGER_KEY
          THEN {cap_attempt} \cap UNION {pendingRow[c] : c \in Pending}
          ELSE IF k \in Pending THEN pendingRow[k] \ {cap_attempt} ELSE {}]

PendingReplies == [c \in CallIds |-> IF c \in Pending THEN pendingReply[c] ELSE {}]

CommitTools ==
    /\ pc = "tools"
    /\ \A c \in Pending : task[c] = "finished"
    /\ ledger' = merge_by_call(ledger, PendingLedger)
    /\ clarified' = merge_by_call(clarified, PendingReplies)
    /\ result_table' = Newest(result_table \cup (fetched \cap Pending))
    /\ replied' = DOMAIN tool
    /\ pc' = "model" /\ steps' = steps + 1
    /\ UNCHANGED <<late, pauses, failure, tool, blocked, counted, task, writes, nodeVars, world>>

(* GraphInterrupt is re-raised once the siblings have finished: the turn   *)
(* waits for a human with their writes pending.                            *)
Pause ==
    /\ pc = "tools"
    /\ \A c \in Pending : task[c] \in {"finished", "paused"}
    /\ \E c \in Pending : task[c] = "paused"
    /\ pc' = "paused"
    /\ UNCHANGED <<steps, late, pauses, failure, msgVars, task, writes, channels, nodeVars, world>>

(* A resume re-executes the node body: a new book, a new latch, a new wall *)
(* and a new recursion budget; only the interrupted task re-runs.          *)
NewExecution(caller, kind) ==
    /\ pc = "paused" /\ pauses < MaxPauses
    /\ pc' = "tools" /\ pauses' = pauses + 1 /\ steps' = 0 /\ late' = FALSE
    /\ resume' = {[caller |-> caller, kind |-> kind]}
    /\ inFlight' = {} /\ latch' = {}

ResumeTurn_rerunning_siblings(caller, kind) ==
    /\ NewExecution(caller, kind)
    /\ task' = [c \in CallIds |-> IF c \in Pending THEN "ready" ELSE task[c]]
    /\ UNCHANGED <<failure, msgVars, writes, channels, world>>

ResumeTurn(caller, kind) ==
    /\ NewExecution(caller, kind)
    /\ task' = [c \in CallIds |-> IF task[c] = "paused" THEN "ready" ELSE task[c]]
    /\ UNCHANGED <<failure, msgVars, writes, channels, world>>
-----------------------------------------------------------------------------
(* The walls.  _run reads the clock between frames (soft) and bounds the   *)
(* wait for one frame by soft + grace (hard).                              *)
ClockExpires ==
    /\ HasWall /\ ~late
    /\ pc \notin {"paused", "done"}
    /\ late' = TRUE
    /\ UNCHANGED <<pc, steps, pauses, failure, msgVars, task, writes, channels, nodeVars, world>>

SoftWall_without_grace ==
    /\ (BetweenFrames \/ pc = "tools") /\ late
    /\ Die("soft_wall")
    /\ UNCHANGED <<steps, late, pauses, msgVars, task, writes, channels, nodeVars, world>>

SoftWall ==
    /\ BetweenFrames /\ late
    /\ Die("soft_wall")
    /\ UNCHANGED <<steps, late, pauses, msgVars, task, writes, channels, nodeVars, world>>

HardWall_on_the_model_only ==
    /\ pc = "calling" /\ late
    /\ Die("hard_wall")
    /\ UNCHANGED <<steps, late, pauses, msgVars, task, writes, channels, nodeVars, world>>

HardWall ==
    /\ pc \in {"calling", "tools"} /\ late
    /\ Die("hard_wall")
    /\ UNCHANGED <<steps, late, pauses, msgVars, task, writes, channels, nodeVars, world>>

(* GraphRecursionError.                                                    *)
RecursionWall ==
    /\ BetweenFrames /\ ~late /\ steps >= RecursionLimit
    /\ Die("raised")
    /\ UNCHANGED <<steps, late, pauses, msgVars, task, writes, channels, nodeVars, world>>

(* A cancelled task's to_thread worker keeps running after the loop died.  *)
OrphanSends(c) ==
    /\ pc = "done" /\ failure \in {"raised", "hard_wall"}
    /\ c \in DOMAIN tool /\ tool[c] \in StatementTools /\ task[c] = "running"
    /\ sends' = [sends EXCEPT ![c] = @ + 1]
    /\ To(c, "sent")
    /\ UNCHANGED <<loopVars, msgVars, writes, channels, nodeVars, words, homework>>

(* The turn is over, or nobody ever answers.                               *)
Rest == pc \in {"done", "paused"} /\ UNCHANGED vars
-----------------------------------------------------------------------------
TaskStep(c) ==
    \/ NoEffect(c) \/ RunQueryStarts(c) \/ SampleStarts(c) \/ SampleOutOfScope(c)
    \/ CheckerRaises(c) \/ CheckerMisused(c) \/ StatementRefused(c) \/ StatementSent(c) \/ StatementReturns(c)
    \/ AskRefused(c) \/ AskOpens(c) \/ AskLogs(c) \/ AskAnswered(c) \/ AskRejected(c)
    \/ HomeworkWriteFails(c) \/ OrphanSends(c)

Next ==
    \/ CallModel \/ ModelReplies \/ ModelRaises \/ AfterModel \/ Dispatch
    \/ \E c \in CallIds : TaskStep(c)
    \/ CommitTools \/ Pause
    \/ \E caller \in Callers, kind \in ReplyKinds : ResumeTurn(caller, kind)
    \/ ClockExpires \/ SoftWall \/ HardWall \/ RecursionWall
    \/ Rest

Spec == Init /\ [][Next]_vars

(* Only the clock is fair: a provider or a statement may hang for ever.    *)
ClockFairness == WF_vars(ClockExpires) /\ WF_vars(SoftWall) /\ WF_vars(HardWall)

FairSpec == Spec /\ ClockFairness
-----------------------------------------------------------------------------
(* Every variable has its type.                                            *)
TypeOK ==
    /\ pc \in {"model", "calling", "after_model", "dispatch", "tools", "paused", "done"}
    /\ steps \in Nat /\ late \in BOOLEAN /\ pauses \in Nat
    /\ failure \in {"none", "raised", "soft_wall", "hard_wall"}
    /\ tool \in Seq(Tools) /\ Len(tool) <= MaxCalls
    /\ replied \subseteq CallIds /\ blocked \subseteq CallIds /\ counted \subseteq CallIds
    /\ task \in [CallIds -> {"none", "ready", "running", "sent", "asking", "paused",
                             "answering", "finished"}]
    /\ pendingRow \in [CallIds -> SUBSET Rows]
    /\ pendingReply \in [CallIds -> SUBSET Answers]
    /\ fetched \subseteq CallIds
    /\ ledger \in [Keys -> SUBSET Rows]
    /\ clarified \in [CallIds -> SUBSET Answers]
    /\ result_table \subseteq CallIds
    /\ inFlight \subseteq CallIds /\ latch \subseteq CallIds
    /\ resume \subseteq Answers
    /\ sends \in [CallIds -> Nat]
    /\ words \in [CallIds -> 0 .. MaxCalls]
    /\ homework \in [CallIds -> {"none", "open", "answered", "deferred"}]

(* The run_query statements the engine has received.                       *)
Sent == {c \in DOMAIN tool : tool[c] = "run_query" /\ sends[c] > 0}

(* However the turn is paused, resumed and cut, the engine receives at     *)
(* most run_query_attempt_cap governed statements, and none of any tool    *)
(* twice: a resume re-executes the node but not its finished siblings.     *)
StatementBudget ==
    /\ Cardinality(Sent) <= Cap
    /\ \A c \in CallIds : sends[c] <= 1

(* AttemptBook's claim: both enforcers count the same population, so on    *)
(* the agent path the middleware always trips first and the book never     *)
(* refuses a call the model was allowed to make.                           *)
BookIsOnlyABackstop ==
    \A c \in CallIds : Runs(c, {"run_query"}, "ready") => admit(ledger, c)

(* No statement is claimed that was not sent; and one that was sent and is *)
(* not on the ledger belongs to a super-step still running or paused, or   *)
(* to one that a raise or the hard wall discarded.  The soft wall and the  *)
(* cap lose nothing.                                                       *)
LedgerAccountsForTheEngine ==
    LET claimed  == Recorded(ledger, Paths)
        received == {c \in CallIds : sends[c] > 0}
    IN /\ claimed \subseteq received
       /\ claimed = received \/ pc \in {"tools", "paused"} \/ failure \in {"raised", "hard_wall"}

(* The table a turn shows was returned by a statement its ledger records:  *)
(* the two channels merge by different rules and stay together even when   *)
(* parallel calls, a pause or a crash come between them.                   *)
TableHasItsStatement == result_table \subseteq Recorded(ledger, {"agent"})

Asked(c) == task[c] \in {"asking", "paused", "answering"}

(* The calls that asked a question and got a reply that is no decline.     *)
SettledBy(q) ==
    {c \in CallIds : words[c] = q /\ \E r \in pendingReply[c] : r.kind # "declined"}

(* At most one question is outstanding: two would cross-wire the reply.    *)
(* And the latch holds exactly that question, so that after the reply the  *)
(* next one may pause the turn again.                                      *)
OneQuestionOutstanding ==
    /\ pc \in {"tools", "paused"} => \A c, d \in CallIds : Asked(c) /\ Asked(d) => c = d
    /\ pc \notin {"paused", "done"} => latch = {c \in CallIds : Asked(c)}

(* A question that pauses the turn is on the admin's list before anybody   *)
(* sees it, and its row says what came of it: open until a reply that is   *)
(* no decline, and then the newest such reply to a call in these words.    *)
(* Only the caller who was asked is heard: no reply of another, nor of a   *)
(* caller without a name, reaches the transcript or closes the row.        *)
HomeworkFollowsTheQuestion ==
    /\ \A c \in CallIds :
         /\ task[c] \in {"paused", "answering"} => homework[words[c]] # "none"
         /\ \A r \in pendingReply[c] \cup clarified[c] : r.caller = Asker /\ Asker # Nobody
    /\ \A q \in CallIds :
         IF SettledBy(q) = {} THEN homework[q] \in {"none", "open"}
         ELSE \A c \in Newest(SettledBy(q)) : \A r \in pendingReply[c] : homework[q] = r.kind

(* What a turn promises of its governed statements, whatever it does inside. *)
Phase ==
    IF pc = "paused" THEN "waiting"
    ELSE IF pc # "done" THEN "running"
    ELSE IF failure \in {"none", "soft_wall"} THEN "over"
    ELSE "cut"

Promise == INSTANCE GovernedBudget
    WITH Calls <- CallIds, Budget <- Cap, phase <- Phase, sent <- Sent,
         recorded <- Recorded(ledger, {"agent"})

(* The agent loop implements the promise of GovernedBudget.                *)
KeepsThePromise == Promise!Spec

(* With a wall armed, a turn that is running stops running: nothing the    *)
(* provider or the engine does keeps it from ending or waiting for a human. *)
TurnReturns == pc \notin {"paused", "done"} ~> pc \in {"paused", "done"}

-----------------------------------------------------------------------------
(* Why the promise is kept: the invariant that is inductive, in parts.     *)

(* A call has a task once it is dispatched, and only a committed super-step *)
(* answers it; the loop dies with undelivered tasks only on a raise or the *)
(* hard wall.                                                              *)
TasksFollowCalls ==
    /\ replied \subseteq DOMAIN tool
    /\ pc \in {"model", "calling"} => replied = DOMAIN tool
    /\ \A c \in CallIds \ DOMAIN tool : task[c] = "none"
    /\ \A c \in replied : task[c] \in {"none", "finished"}
    /\ \A c \in Pending :
         task[c] # "none" => pc \in {"tools", "paused"} \/ failure \in {"raised", "hard_wall"}
    /\ pc # "done" => failure = "none"

(* The middleware has counted every run_query call that got a task, so the *)
(* book counts nothing the middleware did not.                             *)
BothEnforcersCountTheSame ==
    /\ Cardinality(counted) <= Cap
    /\ \A c \in DOMAIN tool :
         tool[c] = "run_query" /\ (task[c] # "none" \/ (pc = "dispatch" /\ c \in Pending)) =>
             c \in counted
    /\ inFlight \subseteq counted
    /\ \A c \in CallIds : \A r \in ledger[c] \cup pendingRow[c] :
         r.path = "agent" /\ r.reason # "attempt_cap" => c \in counted
    /\ ledger[CAP_LEDGER_KEY] \subseteq {cap_attempt}

Passed(rows) == {r \in rows : r.reason = "passed"}

(* A task has sent its statement when it waits for the engine or holds a   *)
(* passed row, and the ledger holds the passed rows of the answered calls. *)
RowsFollowSends ==
    /\ \A c \in CallIds :
         /\ sends[c] = IF task[c] = "sent" \/ Passed(pendingRow[c]) # {} THEN 1 ELSE 0
         /\ task[c] # "finished" => pendingRow[c] = {}
         /\ \A r \in Passed(pendingRow[c]) : c \in DOMAIN tool /\ r.path = PathOf(c)
         /\ task[c] \in {"running", "sent"} => c \in DOMAIN tool
         /\ c \in replied => Passed(ledger[c]) = Passed(pendingRow[c])
         /\ c \notin replied => ledger[c] = {}

WhyThePromiseIsKept == TasksFollowCalls /\ BothEnforcersCountTheSame /\ RowsFollowSends

(* A fetched table belongs to a run_query call whose passed row waits with *)
(* it for the super-step to commit.                                        *)
FetchedMeansPassed ==
    \A c \in fetched : c \in DOMAIN tool /\ Row("agent", "passed") \in pendingRow[c]

WhyTheTableHasItsStatement == FetchedMeansPassed /\ TableHasItsStatement

(* While the turn waits for a human no task is inside a question; one reply *)
(* is applied at a time, and only a finished task holds one.               *)
OneReplyAtATime ==
    /\ pc = "paused" => \A c \in CallIds : task[c] \notin {"asking", "answering"}
    /\ \A r, s \in resume : r = s
    /\ \A c \in CallIds : task[c] # "finished" => pendingReply[c] = {}

Open(c) == c \in Pending /\ task[c] # "finished"

(* A resumed super-step has one task left, the one that asked, and whoever *)
(* is still to ask was proposed after every call that has its reply.       *)
RepliesComeInOrder ==
    /\ resume # {} /\ pc # "done" =>
         /\ pc = "tools"
         /\ \E c \in CallIds :
              /\ Open(c) /\ tool[c] = "ask_user" /\ task[c] # "paused"
              /\ \A d \in CallIds : Open(d) => d = c
    /\ pc = "paused" =>
         /\ \E c \in Pending : task[c] = "paused"
         /\ \A c \in Pending : task[c] \in {"finished", "paused"}
    /\ pc \in {"after_model", "dispatch"} => \A d \in replied, c \in Pending : d < c
    /\ pc \in {"tools", "paused"} =>
         \A c, d \in CallIds : Open(c) /\ pendingReply[d] # {} => d < c
    /\ \A c \in CallIds : Asked(c) => words[c] # 0 /\ tool[c] = "ask_user"

WhyQuestionsStayApart ==
    OneReplyAtATime /\ RepliesComeInOrder /\ OneQuestionOutstanding /\ HomeworkFollowsTheQuestion
=============================================================================
