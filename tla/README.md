# governed-bi: a TLA+ model

governed-bi answers business questions over a database.  A LangGraph rail accepts a
message, retrieves from a curated corpus, lets an agent loop propose SQL that is checked
before it is sent, and records what happened.  Around it readers report answers and
explain refusals, administrators answer questions, and their answers become corpus facts.
A console shows the conversation, and a driver measures the whole over a set of questions.

This directory models that system in TLA+, checks the models with TLC and proves what
matters most with TLAPS.  Paths are relative to `src/governed_bi/` of the repository
unless they say otherwise; `PROJECT.json` maps every definition that models code to the
lines it stands for, and lists every hazard at the line where it bites with the
properties about it.

## 1.  Inventory

| Component | State | Operations | Interacts with | What makes it correct |
|---|---|---|---|---|
| Agent loop: `serve/nodes/agent_core.py`, `agent_state.py`, `tools.py`, `ledger.py`, `resume.py` | messages, call-keyed ledger and replies, tool-call counter, attempt book, pause latch, clock | model call, after-model cap, parallel tools, commit, pause, resume, soft and hard wall | provider, engine, human, ledger file | statements within the cap, each on the ledger, one question at a time, heard from its asker only, every turn returns |
| Rail and turn channels: `serve/graph.py`, `wrap.py`, `accept.py`, `state.py`, `nodes/*` | terminal channels with reducers, per-turn channels, clarifications, turn history | a node per super-step, crash marker, reset, stamp, record | agent loop, corpus fold | nothing runs after the end, the outcome says what happened, nothing leaks between turns |
| Clarification ledger: `curator/clarifications.py`, `clarification.py`, routes | `clarifications.jsonl`, one fact per question text | log, close, answer, restate, follow up, fold, mark, append, cancel, scan | live turns, admin routes, corpus | no question is lost, none folded twice, a fact has its warrant |
| Feedback and trust loop: `curator/feedback.py`, `api/feedback_routes.py`, `api/trust_loop_routes.py` | `feedback.jsonl` | file, correct, dismiss, fold, raised-by-thread, funnel | corpus, turn log | as the ledger; the counters count what they say |
| Setup wizard: `curator/gaps.py`, `gap_joins.py`, `elicitation*.py`, `candidate_rules.py`, `scan_report.py` | none of its own; records on the ledger | measure, derive, order, drop what is answered, append, report | database through governed reads, ledger, corpus | every question reachable, none asked twice, mappings wait for contested columns |
| Corpus drafts: `corpus/drafts.py`, `curator/enhancer.py` | one YAML file per asset with a status | submit, approve, resolve a conflict | folds, session | only what was pending is certified |
| Session cache: `api/graph_app.py`, `serve/runtime.py` | session, its generation, the corpus generation, trusted constants | rebuild, `corpus_changed`, `trust`, read | accept, routes, all nodes | an approval reaches the next turn; constants and session agree |
| Runtime overrides: `serve/runtime_overrides.py` | file and cache | set, clear, read | settings routes | a switch that returned is in force |
| Corpus as served: `serve/session.py`, `retrieve/structure.py`, `corpus/schema.py` | none | withhold, bind, join graph, references, tags | retrieval, browsing | withholding never breaks a sound corpus |
| Access: `govern/access.py`, `bounds.py`, `serve/context.py` `withheld_by_grant` | the policy file | load, compose roles, resolve, narrow | retrieval, tools, browsing, governance | nothing withheld is named or read |
| Retrieval: `serve/nodes/facets.py`, `route_retrieve.py`, `pass_two.py`, `assemble.py`, `abstain.py`, `retrieve/*` | per-turn channels | five facets, route, pass two, resolve, connect, assemble, abstain | rail, corpus | prompt, licence and tools agree; what is offered can be joined |
| Statement governance: `govern/*`, `serve/fetch.py` | none (a verdict per statement) | canonicalise, bind, layers, limit, execute | tools, scans, engine | what was approved is what is read; a cut result says so |
| Search index: `retrieve/index.py`, `vector_cache.py` | rows of vectors that outlive the process | build, compare, mint a canary, embed, load | gateway | an index lies in one embedding space |
| Proxy token: `model/proxy_gateway.py` | token and time behind a lock | cached read, mint, forced mint after a 401 | all model calls | one mint per expiry, a retry is newer |
| Connectors: `datasource/*` | one cached handle | connect, execute, classify, discard | tools, scans | a lost handle is not blamed on the SQL |
| Turn log: `api/thread_turns.py` | the threads' own state | list, find | trust loop | a complete scan counted everything |
| Browsing: `api/browse.py`, `routes.py`, `visibility.py` | none | rows, pages, graphs, bounded views, relations | session, grant | nothing hidden without saying so, nothing withheld shown |
| Evaluation: `tools/run_datalake_eval.py`, `eval/harness.py`, `eval/provenance.py`, `measure/gates.py` | one artifact, a pool of workers | start, refuse, resume, answer, append, report, gates | serving graph | one treatment per artifact, the report covers the arm |
| Console: `ui/hooks/use-stream-chat.ts`, `ui/lib/steps.ts`, `stream-messages.ts`; `serve/events.py` | timeline rows, captured records, held history | fold events, place records, capture, reload | stream of the rail | the timeline tells its own turn; finished answers stay |
| Model providers, registers, statistics | none | - | - | section 11 |

The hard behaviours: parallel tool tasks whose writes commit together or not at all; a
pause that re-executes a node but not its finished siblings; channels that outlive a turn;
a run cut between two checkpoints; whole-file rewrites from several threads; caches
rebuilt while they are read; one handle and one token under many threads; rows of vectors
that outlive the model that made them; a measurement killed and resumed over one file; a
page that sees only part of a stream.

## 2.  Modules

| Part | Modules | Run |
|---|---|---|
| Agent loop | `AgentLoop`, its abstract promise `GovernedBudget`, `MCAgentLoop`, `AgentLoopProofs` | `agent_loop_safety` |
| Rail | `ServeTurn`, `ServeTurnProofs` | `serve_turn` |
| Trust loop | `WholeFile` (a list in a file) and `AdminRequests` (threads) under `ClarificationLedger` and `FeedbackLedger`; `TurnLog`; `TrustLoop` composes them; `QuestionQueue` is the abstract list; `MCTrustLoop`, `TrustLoopProofs` | `trust_loop` |
| Setup wizard | `SetupSchema` (names), `SetupDetectors` (one scan of a world), `SetupScan` (scans, answers, changes), `MCSetupScan`, `SetupScanProofs` | `setup_scan` |
| Serving process | `ProcessThreads` under `CorpusDrafts`, `SessionCache`, `RuntimeOverrides`; `ServingProcess` composes them; `MCServingProcess`, `ProcessProofs` | `serving_process`, `serving_halves` |
| Statements | `GovernedStatement`, `MCGovernedStatement`, `GovernedStatementProofs` | `statement` |
| Corpus, access, retrieval, browsing | `CorpusStructure`, `AccessGrant`, `Retrieval`, `Browse`, each extending the one before; `MCRetrieval`, `RetrievalProofs` | `retrieval` |
| Clients | `WorkerThreads` under `Connector` and `ProxyToken`, composed by `Backends`; `VectorSpace`; `MCClients` composes all; `ProcessProofs` | `clients` |
| Evaluation | `EvalRun`, `EvalRunProofs` | `eval_run`, `eval_torn_tail` |
| Console | `Console` | `console` |

The strengthenings the proofs need stand at the end of the module they are about, under
*Why these hold*; TLC has checked each on the bounds of the module's run.

`AgentLoop` is the inside of `ServeTurn`'s `AgentFinishes` and `AgentPauses`, which yield
a ledger terminal; `Retrieval` is the inside of the rail's nodes before them;
`GovernedStatement` is what one `run_query` or `sample_rows` of the loop does.  The `log`
and `close` jobs of `ClarificationLedger` are `AgentLoop`'s `AskLogs` and `Closes`, its
`mine` job is `ServeTurn`'s `MineFolds`, and its questions of a scan are what `SetupScan`
derives.  `CorpusDrafts` is what a fold or an approval does to one file.  `Console` reads
the channels whose writers `ServeTurn` models.

## 3.  One turn

### AgentLoop

`tool[c]` is the tool of the c-th proposed call: calls are numbered in the order the model
proposes them.  `task[c]` is where its `Send` task stands; `pendingRow`, `pendingReply`
and `fetched` are writes a finished task will commit; `ledger`, `clarified` and
`result_table` are the committed channels.  `counted` is `ToolCallLimitMiddleware`'s
thread count and `inFlight` the `AttemptBook`'s set, which a resume empties with the node
execution that held it.  `latch` is `pending_clarification`.  `sends` and `homework` are
outside the process: what the engine received, and the rows of the ledger file.  A row's id
is a digest of the turn and the question (`tools.py:604`), so `homework` goes by wording and
not by call: `words[c]` is what the c-th call asks in, words of its own or those of an
earlier call, and `_log_live_clarification` leaves a row it finds alone.

A super-step commits its tasks' writes together when all have finished (`CommitTools`); a
raise discards them; an interrupt keeps them until the resume.  `AfterModel` is
`_CapEndsTheTurn.after_model` with the separation of calls it extends.  The soft wall acts
between frames only, the hard wall in one; the thread of a cancelled task keeps running
(`OrphanSends`).  The verdict of a statement is a choice between sent, refused and a
checker that raised - out of the turn when it was called wrongly (`CheckerMisused`), into
a refusal otherwise; `read` is every tool that builds no statement; time is one bit.

*Run.*  Four calls, two in one message, two pauses, a cap of one, a recursion limit of six:
they reach parallel calls that straddle the cap, a question beside a statement, a second
question after the first in the same words or in others, a blocked call after a pause, and
each wall in each phase.  One is the smallest cap at which a second budget would show; the
theorems cover the others.  *Fairness* is the clock's alone (`ClockExpires`, `SoftWall`,
`HardWall`): `asyncio` timers fire, while a provider, a statement and a human may take for
ever.

### ServeTurn

Channels keep their names.  `missing` is a channel nothing has written, since LangGraph
assigns the first write past the reducer.  `happened`, `raisedAt` and `overrun` are
history variables saying what the run did, against which the outcome is judged.  `After`
is the conditional edges, `Began` what `wrap_node` does around each node, `Cut` ends a run
between two checkpoints; the next message starts at `accept` over what the channels hold.
`MineFolds` and `MineReports` are separate because the fold writes a file and the
checkpoint comes after.

*Run.*  Three messages over a history of two with one cut anywhere: enough to drop a row
and carry the count of the dropped forward, and to start over the marks of a cut run.
`RetentionAssumption` asks for a history of two rows or more (the code has 25): with one,
an upsert of that row would forget the count.  *Fairness*: the runtime runs the next node
(`WF(Rail)`); nobody need ask or answer.  Two properties except a turn that accept could
not admit (section 9).

### GovernedStatement

A statement is an outer scope, possibly an inner one correlated to it, with up to three
sources, and one column reference.  Every column folds to one name, so a column of a table
is its spelling: what case folding can confuse is all there is.  Actions: `run_query` or
`sample_rows`, `Canonicalises`, `Checks`, `Limits`, `Executes`; the engine resolves the
reference by its own rules in `Executes`, and `ReadsWhatItBound` compares the two.

*Run.*  Two tables in two schemas that share the name `t`, two spellings, one alias, and
every assignment of dispositions and licences: shadowing, ambiguity and exact against
folded names all occur.  `max_rows = 1` makes the extra row the forced limit asks for
decide.

## 4.  Corpus, access, retrieval and browsing

These four modules are layers of one specification.  The first two are functions of
constants; `Retrieval` has the state of a turn; `Browse` answers requests over the same
session.

**CorpusStructure.**  An asset is a record of what it says about others: type, schema, name,
required endpoints, assets pointed at, tables cited, foreign keys and the names its ON
clause spells; `class_for` holds which fields each asset type of `corpus/schema.py` has, and
the corpus assumption checks every asset against it.  `Place` is the order the files were
loaded in.  Every closure of the code - what leaves with a withheld asset, what a hit refers
to, what a join graph connects, the terms that lead to something withheld - is one operator,
`Spread`.  A table's id stands for its qualified name.  Negative examples have no part in
the join graph and are left out.

**AccessGrant.**  Policy files, the loader's refusals, the composition of roles, folding
of keys, the withheld set - the terms read once, in `Place`'s order - and the bounds of the
tools, with the columns a curator marked suspect: `hard_block_suspect` is on by default, and
the layers refuse such a column to `run_query` and `sample_rows` alike while the prompt
shows it with its mark (`govern/check.py:316`).  The properties do not use any of
these: `NotForThem` and `RowsNotForThem` read the policy file role by role.  A row
predicate is its table and its enforcement; its expression is never read by the code.

**Retrieval.**  `Facets`, `FACET_TARGETS`, `FACET_CHANNELS` and `FACET_EXTRACTS` are the
code's tables.  A facet records, channel by channel, whether it ran: its restatement of
the question may fail, the embedding may fail, there may be no embedder.  Scores are
abstracted: a facet one of whose scoring channels ran hits any assets of its types up to
`depth`, any schema with a hit may rank, and a full budget may cut any hits of its type.
What follows the scores is exact: the shortlist, candidates of the second pass, carried
untagged hits, budgets, the closure of references, components and Steiner points, the
crossing cap, the narrowing of what a dropped component leaves, the completed joins, the
block with its folded columns and its eviction ladder, rules, caveats, the policy of
abstention and the bounds of the tools.

**Browse.**  Rows with filters, order and pages; both graphs; the bounded view with its
kinds, focus, radius, budget and boundary; a column's relations; the counts.  An answer
depends on corpus, grant and request only, so it is judged once for each (`Opened`).  A
summary, a statement's SQL or an ON clause is text the code does not narrow; a name inside
a text is not a name in the model.

*Run.*  Seventeen assets of seven types over two schemas: a chain of joins that leaves the
schema and returns, so that a Steiner point, a crossing and an over-long path happen; a
table that stands alone; a suspect column with the block on; a term, two terms bound to it,
one loaded before it and one after, a metric and an example that reach across.  Budgets of
two tables, one term, one hit per channel, one schema on the shortlist, one Steiner point,
blocks of two lines (the ladder drops bodies and tables) and of twenty.  Any subset of a
table and a column is withheld, and `WithholdingNeverBreaksTheCorpus` withholds any two
more.  Askers: no policy; a clerk to whom one table is withheld; clerk and buyer, denied one
column; auditor and buyer, with every table, a denial and predicates of both enforcements; a
stranger; two that never start.  Keys are in other cases and one is bare.  Every combination
of three schemas, three focuses, two radii around a focus, two kinds and three budgets is
asked of both graphs.  The view keeps of the facets what later nodes read, so states that
differ in discarded hits are one, and of a turn that crashed which facets are still to run.

## 5.  What people say, and what becomes of it

### TrustLoop

`ledger` and `reports` are files as rows by id; `torn` says a file does not parse.  A caller
is a thread inside a handler; `todo` is what is left of its reads and writes in the order
the handler makes them, so one table, `Handler`, says which steps each route and tool makes.
`Opens` empties the file, `Fills` writes what was prepared: `open("w")` and the close of its
buffer.  A fact is per question text, since an asset's id is a digest of the question; a
text is a model value, and restating an engineering question gives it another one.  The
enhancer's decision and every swallowed failure are one choice: the fold wrote its fact or
nothing.  A live question may be asked again in its words, and then pauses its turn over the
row that is there.  `TurnLog` keeps the turns of conversations, drops rows beyond the cap
and scans the newest thread first.

*Run.*  Four scenes: one thread and five requests on the questions, enough for a scan,
both halves of a hybrid question, a join question, a repeated answer and a certification;
two threads, three requests and an end of the process; one thread with a question, three
requests on reports and three turns over a history of two; two threads on the reports with
an end of the process.  The two files share no id and no fact, so scenes need not multiply
them.  With one writer the question file implements `QuestionQueue`, where a write counts
from its start; what needs one writer says `OneWriter`, the rest holds of any threads.

### SetupScan

A world is what the database answers and the session's corpus declares; `SetupDetectors`
derives every question of a scan from the world it is given, with the governed reads that
may refuse a column, the pair, key and value bounds, and the stamping of which question
waits for which.  `SetupScan` drops what the corpus of the moment answers, compares with the
ledger, appends, takes answers, folds them and scans again, while worlds change, a term is
certified and the ledger is lost.  Which names read alike is a constant; two columns' values
overlap when they are of one domain; `MAX_VALUE_READS`, ranking, wording, audience and
cardinality labels are left out.

*Run.*  Five worlds over ten columns of two tables: look-alike keys, a price stored twice,
a region under three names, an unreadable column, a suspect one, an excluded table.  Two
scans, two answers and two changes are enough to answer a question, lose or change what it
stood on and derive it again.

## 6.  The serving process

`ServingProcess` composes three files and caches under threads: a fold, an approval and a
resolution as the reads and writes they make, with a failure between two files;
`session_from_environment`, `_install`, `corpus_changed` and `trust` as the steps other
threads can see; `set_override` and `clear_override` as copy, emptying, filling and
replacement, of a switch that may already be so.  `owed`, `promised` and `raced` are history
variables that remember which approvals have returned and which turns began after.

*Run.*  Two threads, two facts, two answers, two switches, three requests and an end of
the process: each pair of requests overlaps at every step, with a third before or after.
Both threads, both answers and both switches are interchangeable.  `serving_halves` is the
disagreement of section 9.

## 7.  Clients of other services

`Backends` puts two threads through statements over one cached Postgres handle and model
calls over one token, while the server drops handles and refuses tokens.  `VectorSpace`
has processes that build indexes from a store that outlives them, while summaries are
rewritten and the gateway is repointed to another model behind the same id; a vector is
what it embeds and the space it lies in, and two agree exactly when their spaces do.  One
process at a time uses the store and builds are serial in it; one embedder id and width,
since rows of others are under other keys.

*Run.*  The two parts share no state, so each is explored with the other at its start.
Four summaries, so that three probes leave one out; two assets, two spaces; two threads,
four handles, four tokens, two expiries: a handle is replaced while another thread still
holds the one before, and both threads see one expiry.

## 8.  Measuring and showing

### EvalRun

The driver is started up to three times over one artifact with other corpora, treatments,
limits and workers, and killed between any two steps, inside a resume's rewrite of the
artifact too.  It refuses to append, to mix
treatments, to keep a crashed row; workers answer, the main thread appends one row at a
time, the report reads the file and the gates judge it.  A question is its index; three
knobs stand for the 47, one of each kind the register distinguishes (comparability,
operational, scope).

*Run.*  Three questions, two corpora, two treatments, limits two and three, two workers, one
kill: a resume that finishes what a narrower start began, rows out of order, a crashed row
replaced.  `eval_torn_tail` adds a kill inside the write of a line.  *Fairness*: the main
thread and each worker go on (`WF(Main)`, `WF(Work(w))`), since a question ends - the walls
of the agent loop see to that (`TurnReturns`).

### Console

The engine is what it puts on the wire: frames of the transcript, the answer and turns
channels, stage events.  The stream keeps its order, so an event and its arrival are one
step; capturing, placing, reading the head and reloading are the page's own.  A resume
commits nothing until `agent_core` returns, so a run lost before that leaves its question
pending (`Cut`), and the page asks it again.  A reload
drops what only the page had.

*Run.*  Three turns, a history of two, one pause, one lost run, one reload: a turn split
over two streams, an engine started again that counts from one, a dropped row, a record the
page missed.  `TimelineFollowsTheTurn` excepts from its order a run whose start the page did
not see, and asks without an open row only what a lost run had settled (section 9);
`FinishedAnswersStay` says when a record must be on its card (its rows can be counted, and
the stream carries rows or nothing was dropped) and which later turns may stand in for it
(section 9).

## 9.  Where code and documents differ

Two runs expect a violation, with the line they contradict in `PROJECT.json`:

- `serving_halves`: `_install` replaces the session and then the constants every running
  turn reads, so a turn can retrieve from a corpus other than the one its digest names
  (`api/graph_app.py:105`).
- `eval_torn_tail`: a resume keeps a torn last line and glues the next row to it; the
  report raises on it (`tools/run_datalake_eval.py:559`).

The rest were met while reading; the models follow the code, and no run is about them.

**Agent loop and rail.**
- Of two `run_query` calls that straddle the cap the allowed one is neither run nor
  answered (`serve/nodes/agent_core.py:519`; `docs/adr/0006:822` and
  `tests/serve/test_the_attempt_cap_ends_the_turn.py:259` expect every call to be).
- A raise of a sibling task discards the ledger row of a statement that finished
  (`agent_core.py:226` against the comment at `:160`).
- A question asked again in the same words in one turn pauses over the row of the first
  (`serve/tools.py:294`), which a reply may have closed: an abandoned pause is then not
  homework, against "it still shows up in the admin's `/clarifications` ledger as homework"
  (`:268`).  `HomeworkFollowsTheQuestion` says what such a row says: what the newest reply
  to these words was.
- A turn asked without an identity can be answered by nobody.
- A thread's clock is set once and never cleared (`serve/wrap.py:122` against
  `serve/state.py:736`).
- An accept that raises on a later turn lets the rail run on the previous turn's channels
  (`wrap.py:105` against `serve/graph.py:48`).
- A call the book refunds after a checker error still counts in the middleware
  (`serve/tools.py:454`).
- When a later statement clears every layer and fails in the driver, the turn shows an
  earlier statement's table beside the later one's SQL.

**Question and report files.**
- Two overlapping writers lose a logged question (`curator/clarifications.py:292`, `:386`
  against the docstring at `:398`); a process that ends between the emptying and the
  rewriting loses the list (`:294`).  With two writers `NothingRaisedIsLost` and
  `ProposedHasItsWarrant` fail.
- A second answer to a certified question makes it a proposal again
  (`corpus/store.py:255` against `serve/nodes/mine_corpus.py:55`).
- A fold whose every write failed is marked converted (`curator/clarification.py:212`,
  `:305`); answering a converted record changes the ledger and not the corpus;
  `fold_ledger_answer_into_corpus` says a live turn never touches the ledger's status,
  which `close_live_clarification` does.
- `curator/feedback.py` has the same unlocked rewrites; correcting a converted report
  changes the report and not the fact; a dismissal's check and its write are two reads;
  two reports on one question share a fact, so a dismissed one can read certified.

**Turn log.**
- `list_turns` stops after the thread that reaches the limit, so a newer turn of a thread
  updated earlier can be missing from "newest turns first".
- Truncation by `_MAX_THREADS` and by dropped history rows is not on the wire, so
  `possibly_truncated` can be false of a cut list; a report whose turn was dropped leaves
  the list of what its thread raised.

**Setup wizard.**
- `still_open` and `settled` can share a scope (`curator/scan_report.py:82`, "Four buckets,
  disjoint by construction").
- A column in two clusters waits for the last only (`curator/gaps.py:530`), and questions
  already on the ledger are not stamped again (`api/elicitation_routes.py:257`).
- Answering a stranded record again after its prerequisite reports it settled while its
  fact stays a draft (`scan_report.py:131`).
- A join follow-up queued by an answer is not compared with the corpus; a question whose
  text quotes counts, or a definition, is not recognised once the ledger is lost and the
  counts moved; keyword questions are asked of excluded columns too.

**Serving process.**
- `resolve_conflict_route` never calls `corpus_changed`; a candidate kept as
  `keep_existing` can still be approved; approving and then resolving with `replace` is an
  unhandled `DraftNotPending`.
- `_install` records the generation at install, so an approval during a rebuild is
  missed until the next; `from_corpus_dir` reads the assets before it computes the digest.
- A fold again overwrites an excluded or certified file; its `existing` facts include the
  fact itself.
- Two switches can undo each other, and a crash can leave an empty override file or one
  that differs from the cache the process had.

**Access, retrieval, browsing.**
- `withheld_by_grant` reads the terms once, in the order they were loaded
  (`serve/context.py:592`).  A term bound to a term that is loaded after it, and that leads
  to a denied column, is not withheld and names the withheld one, against "a **term** is
  withheld when its `binding` points at a withheld asset" (`:516`);
  `retrieve/structure.py:449` calls such chains legitimate.  `NothingWithheldIsNamed` and
  its theorem except exactly these terms (`Overtaken`); the run's corpus holds one.
- A suspect column is in the prompt and a tool refuses it (`serve/fetch.py:545` tells of a
  time when one of two tools did).  `PromptAndLicenceAgree` says which: what is offered and
  refused is what is suspect, while the block is on.
- A key without its schema is accepted at load (`govern/access.py` `_require_keys`) and
  names nothing, since no default schema is given where the grant is resolved
  (`govern/identifiers.py`: "Two parts is table.column").  Predicates that spell one table
  with and without its schema escape the conflict check; the refusal then wins.
- `ports.py:341` says the policy is called once per turn; `api/graph_app.py:291` asks it
  once per session, for one principal.
- A foreign key to a column a curator excluded keeps its id on the served row
  (`serve/session.py:336` strips other fields), and the browse rows name it.
- `_vector_for` of the second pass drops what became of its embedding, so a turn whose
  second pass could not embed still records the first pass's `ran` and is answered by the
  abstention policy, whose rule is there because "the tables this turn worked from were
  chosen by a retriever that is not the declared one".  A utility model that says nothing
  marks `extraction` failed, so with the policy on every such turn is withheld.
- Tables that `resolve` pulls in outside the shortlist are not counted as crossings
  (`docs/adr/0006:561`, `0005:1182`, `0005:1408`).
- The prompt can show columns of a dropped table whose schema survives; several components
  of which each is over the bound decline as `missing_join_path`; `graph_app` does not
  refuse the fatal problems `build_structure` reports.
- A focus that is no candidate is ignored and still echoed as applied
  (`api/browse.py:391`, `:466`); boundary stubs of the knowledge graph give joins as
  `in_scope_table`; `term.related_terms` is not narrowed; `related_to_column` compares
  table names as written.

**Clients.**
- Discard closes the handle cached at that moment (docstring: "the handle it just failed
  on"); `_connection_is_unusable` says it is reached without an sqlstate only, and is for
  any class but four; a check and a connect by two threads can leak a handle.
- N requests in flight that see a 401 mint N tokens.
- `retrieve/index.py` names one unchecked case.  Others: a process that has verified its
  store embeds misses in a new space once its gateway is repointed; a cold process
  compares one reused row and mints no canary, so the next one mints after three probes
  and a mixed store of four rows can pass; a gateway pointed back hides mixed rows.
  `moved` marks all of them and the property and the theorem exempt it.

**Evaluation.**
- The resume guard compares the comparability knobs only, while the register's
  `scope_identity` and `resume_drift_keys` call scope and operational changes fatal; a
  pinned run into an unpinned artifact is not caught; turns that abstain before routing
  carry no corpus, so mixed corpora can go unseen.
- A resume empties the artifact and then writes the kept rows
  (`tools/run_datalake_eval.py:584`): killed in between, it loses every one of them, against
  "Crash-safe, resumable" (`:1`).  `MeasuredRowsSurvive` names that step beside
  `--truncate`.  With one worker a question that raises ends the arm, with a pool it does
  not; a pool left on an exception still answers what was submitted, unrecorded.

**Console** (paths under `src/ui`).
- `onFinish` (`hooks/use-stream-chat.ts:289`) stores a turn's record under the last frame
  that is not a human's.  A turn that declines writes no frame, and one at a pause has
  none yet, so the previous turn's card is overwritten, against the comment at `:247`
  ("a lookup on an identity rather than a position that can shift").
- The comment at `:414` says the channel is append-only; `keep_turns` caps it, so at the
  cap held rows freeze and an uncaptured newest card can vanish during the next run, and
  placement by arrival starts at slot 0 after rows were dropped (`lib/stream-messages.ts`).
- A resumed run that is lost brings its question back on screen while `clarified` still
  holds it (`hooks/use-stream-chat.ts:336`): its row reads answered or declined, or is gone
  with an engine started again, against "a prompt on screen with nothing beside it in the
  trace reads as 'nothing happened'" (`:168`) and the comment at `:470`.
- A run lost before accept's reset leaves the previous answer in `values.answer`, shown
  under the new question.
- `ask_user` emits status `deferred` (`serve/tools.py:747`), which is not in the client's
  `StepStatus`; `buildStepsFromLedger` is given an object and returns no rows.

## 10.  What is proved

Every theorem is proved from the named assumptions on constants in the modules and from
nothing else; none of the properties is inductive by itself.

`AgentLoopProofs`, for every cap, recursion limit, set of callers and bound (natural
numbers, a Boolean, `Asker \in Callers`): `TypeCorrect`; `Invariance`; `BudgetHolds`,
`BackstopOnly`, `LedgerAccounts`; `TablesAreAccountedFor`, `QuestionsStayApart`,
`HomeworkIsTrue`; `ImplementsThePromise`, that is `GovernedBudget` under the refinement
mapping.  The inductive invariant `WhyThePromiseIsKept` has three parts.
`TasksFollowCalls`: a call gets a task once it is dispatched and only a committed
super-step answers it.  `BothEnforcersCountTheSame`: every `run_query` with a task was
counted by the middleware, so the book's set and the ledger's chargeable rows are within a
set of at most `Cap` calls.  `RowsFollowSends`: what was sent is what a task is waiting
for or holds a passed row of, and answered calls have those rows on the ledger.  A table
keeps its statement because a fetched table waits for the commit together with a passed
row (`FetchedMeansPassed`).  Questions stay apart because no task is inside a question
while the turn waits for a human, one reply is applied at a time, and only a finished task
holds one (`OneReplyAtATime`).  A row says what the newest reply to its words was because
replies come in the order of the calls: whoever is still to ask was proposed after every
call that has its reply (`RepliesComeInOrder`).

`ServeTurnProofs`, for any number of messages and cuts and any history of two rows or
more (`RetentionAssumption`): `ServeTurnInvariance`,
`ServeTurnTypeCorrect`, `NothingIsSpentAfterTheEnd`, `OutcomesAreTrue`,
`HistoryIsComplete`, `MinedOnce`.  The rail is cut at the agent.  Before it a run that
ended is marked by a terminal and stands before a node with a guard, and one that goes on
has written nothing (`EndsAreMarked`); behind it the channels of a run in which nothing
raised say what it did (`ChannelsTell`); on both sides the failure channel names the first
node that raised (`FailureIsTheFirst`).  The caveat needs that a clarification belongs to
the turn the channels were about (`RowsBelongToTheirTurn`), since the channels outlive the
turn.  For the history, an upsert either replaces the newest row, whose turn is the last
one recorded, or appends one and, at the cap, carries the count of the dropped row to the
next (`HistoryEndsWithTheLast`): with one row there would be no next, hence the assumption.
A fold that is not reported is that of the node about to report it, or of a cut
(`FoldsAreReported`).

`GovernedStatementProofs`, for any finite tables, spellings and aliases in any schemas, any
dispositions, licence and limits (`StatementAssumption`: a schema and a name tell a table,
and no table is without a name): `StatementInvariance`, `StatementTypeCorrect`,
`ReadsWhatWasApproved`, `CutsAreTold`.  The step that matters is `EngineAgrees`: when the
reference binds to a table, the engine's own search - the nearest scope with such a column,
an error if two sources of it have one - finds that source or none.  It rests on the
canonical spelling being one that a licensed table has (`CanonicalIsServed`), and for
`sample_rows` on the statement naming one column of one table (`SamplesOneColumn`).

`EvalRunProofs`, for any questions, corpora, knob values, limits, workers and starts
(`EvalAssumption`): `EvalInvariance`, `EvalTypeCorrect`, `TreatmentsStayApart`,
`ReportsCoverTheArm`, `PaidRowsSurvive`.  The invariant says that no question has two lines
and that a start keeps each covered question in exactly one place - a line, a future, a
worker or the queue (`EveryQuestionHasItsPlace`), so that a file with nothing left to ask
is the arm; that the measured rows agree with each other, and from the resume on with the
start that adds to them (`RowsAreOfOneTreatment`), since a resume refused what does not;
and that memory holds the measured rows of a file about to be emptied
(`MemoryIsTheFile`); `PaidRowsSurvive` names the two steps that lose one.  It is about
`Spec`, with the kill inside a resume's rewrite and without torn lines: with them
`ReportCoversTheArm` is false (section 9).  `KeptLines` and `SequenceOfASet` say what the
resume's loop and the choice of an order return for every input; the library's induction
takes an operator and cannot be used here, so they go by induction over sets of numbers
(`UpTo`, from the well-foundedness of the naturals).

`ProcessProofs` has the theorems of the serving process and of its clients.  Of the serving
process, for any threads, facts, answers, switches, requests and process
ends (`DraftsAssumption`, `BoundsAssumption`): `ServingInvariance`, `ServingTypeCorrect`,
`CertifiedWasPending`, `SwitchesHold`, `ApprovalsAreServed`.  The invariant is one part
per file and cache, which the steps of the other parts leave alone.  For drafts: what an
admin thread holds was on file, and pending if it is more than a draft.  For switches: a
thread that fills the file carries what it copied, unless two overlapped.  For the
session: what is owed is visible, and a session whose generation is current, or that a
thread is about to install, serves it unless an approval landed during a rebuild.

Of the clients, for any threads, handles, tokens and expiries, without assumptions:
`BackendsInvariance`, `BlipsAreClassified`, `NextCallReconnects`, `RetriesAreNewer`,
`ExpiryMintsOnce`.  Handles are numbered as they are opened and the cache holds none an
error was reported about; a token is minted when the cache's is expired under the lock,
and each mint spends an expiry or was forced.

Of the vectors, for any assets, texts and spaces (`VectorAssumption`: the canary is no
summary, and rows have a first): `VectorInvariance`, `ServedInOneSpace`.  Until a gateway
moves under a process that has compared the store, the store holds one space, and from the
comparison on it is the gateway's; one probe then speaks for every row.

`TrustLoopProofs`, for any questions, explanations, reports, threads, turns and bounds:
`ListsTypeCorrect`, `FoldsAreAlwaysTrue`, `OneWriterAlwaysHolds`,
`ProposalsHaveTheirWarrant`, `CorrectionsAreAlwaysTrue`, `OneReporterAlwaysHolds`,
`ConvertedWasAlwaysFolded`, `TurnsAlwaysStayApart`, `NothingRaisedIsEverLost`,
`TheFileIsOneQueue`, `TheFunnelIsWhatItSays`.  The assumptions: the functions over questions
and reports have the domains the code gives them (`LedgerAssumption`, `FeedbackAssumption`),
a live question goes by its turn and its words, the others by a digest under a scope of
their kind (`IdsAssumption`), the two lists share no id (`RaisedAssumption`), and a process
has finitely many threads (`ScenesAssumption`).  The invariant comes in layers.

- Of any threads and any end of the process: what is left of a handler belongs to the
  request it answers (`LedgerShape`, `FeedbackShape`), and a row or a report claims no
  fold that was not tried (`FoldsAreTrue`, `CorrectionsAreTrue`).
- Of a list with one writer (`AloneHolds`, `ReporterAlone`): the rows are on file or, from
  the truncation to the close, in the writer's hands (`FileKeeps`); whoever answers holds
  the row that is on file (`HoldsTheRow`); a row that was converted stays answered, unless
  its own reader defers it (`AnsweredStays`); and a fold is on record once, under the
  wording it was folded with, or the next write records it (`FoldedOnce`,
  `AsksWhatWasFolded`).
- Of its warrant (`WarrantFor`): each of a row's prerequisites was answered or is among
  those it waits for, in the file, in what is about to be written and in what a handler
  read before.  `ProposalsHaveTheirWarrant` supposes that nothing else is worded as a
  scan's question (`ScansWordTheirOwn`), because a scan takes a prerequisite for settled
  when a fact has the digest of its wording: two questions in the same words would settle
  each other.  The run's questions are worded so.

`NothingRaisedIsEverLost` and `TheFunnelIsWhatItSays` suppose that one request reads every
thread (`Cardinality(Conversations) <= MaxThreads`; `_MAX_THREADS` is 1000): beyond it a
turn of an unread thread raises what no thread shows, and a scan that says it was complete
has not counted it.  The run's threads are no more than one request reads.  In
`TheFileIsOneQueue` the abstract list moves when the file is opened for writing, which
`FileKeeps` records as the step it is about to be (`ListStep`); the prepared rows are read,
changed and written in three steps of the handler.

`TheFunnelIsWhatItSays` has two halves.  A scan that says it was complete counted all: the
fold over newer threads is the number of turns they hold (`SumOfTurns`, since a turn is one
row of one thread, `TurnsStayApart`), so the newest thread that was passed over would have
had a full list of newer turns (`AShortScanIsWhole`), and so would the newest turn that was
dropped (`AShortListIsAll`).  The funnel narrows with one writer: behind a fact in an
explained question's words stands a fold of an explanation, behind a corrected one a report
on file (`FactsWereRaised`, checked by TLC before it was proved), and each of these is an
entrance (`TheFunnelNarrows`).  It supposes, besides `ScansWordTheirOwn` and finitely many
records, that no question of another kind is worded as an explained one
(`ExplanationsWordTheirOwn`): a live question in the same words would certify the fact
without the entrance.  The run's questions are worded so.

`SetupScanProofs`, for any finite worlds - schemas, measurements, look-alike names, corpora -
and any history of scans, answers, losses and changes (`ScanAssumption`): `LedgerIsInOrder`,
`ScansAreAccountedFor`, `AnsweredIsNotAskedAgain`, `EveryQuestionIsReached`,
`ContestedColumnsAreGated`.  The invariant `SetupInv` says of every row that it waits for
rows of the ledger, and in one order: questions about copies wait for none, those about
terms for copies, the rest for either (`WaitsInOrder`).  Reachability follows: an order of
the kinds leaves no question behind, and each round of answers that adds none has added
all.  That the report accounts for a scan needs that what is stranded is what was answered
with a prerequisite unmet, in the ledger the scan read.

`RetrievalProofs`, for any corpus that is sound and whose assets have the fields of their
types (`CorpusAssumption`, `CorpusIsSound`), any policy files, principals, spellings,
scores, budgets and caps: `WithholdingIsSafe`, `RetrievalIsInOrder`, `OffersCanBeJoined`,
`OfferIsUsable`, `WithheldStaysUnnamed`.

- Closures: `SpreadIsLeast` says that `Spread` is closed and inside every closed set that
  holds what it starts from; nearly every use of a closure rests on one half of that.
- Joins: a greedy tree hangs together at each step (`NearestPathJoins`, `ConnectJoins`), so
  a licence of whole trees connects what the graph connects (`TreesKeepJoined`), and the
  joins completed between its tables are in the prompt, since an eviction drops tables and
  the columns under them only (`BlockSays`).
- Withholding by a curator: an endpoint binds in what is served as in the whole corpus
  (`StillBinds`, `ServedOf`), because everything that required a withheld table left.
- Withholding by a grant: a grant says what the file says role by role (`GrantSays`), an
  endpoint that binds to a table names it (`EndpointIsNamed`), so what may not be named is
  withheld (`HiddenIsWithheld`), and neither a prompt, a tool nor a browse answer holds
  anything withheld (`TurnTells`, `NamesNone`).
- The turn (`TurnInv`, with `LicenceInv`, `BlockInv`, `FacetsInv`, `AbstentionInv`): at each
  stage of a turn that goes on, the licence is the tables of what was found and pulled in,
  and the block is what may be rendered less the evicted.

`WithheldStaysUnnamed` has no hypothesis on the order terms are loaded in.  It excepts the
terms that were read before a hidden term they lead to (`Overtaken`): a term that leads to
something hidden and is not among them was withheld when it was read (`LeadsOnlyAhead`).

Only model-checked: `TurnReturns`, `EveryMessageIsAnswered` and `ArmEnds`, since liveness
under fairness is out of the prover's reach, and the deadlock freedom of the runs that check
it; `BrowsingHidesNothing`, whose pages and bounded views count what comes before a row and
grow a walk node by node; everything about the console, whose timeline is a fold that sorts
at every event and whose rows are placed by a recursive function: both are induction over
data.

## 11.  Not modelled

- Model providers and embedders (`model/provider.py`, `*_embedder.py`): calls of libraries
  without state of their own; in the models a provider answers, raises or hangs.
- Registers (`register/*`): declarations and the tests of them.  What they say of knobs,
  facets, channels and outcomes is in the modules that use it.
- Statistics (`measure/stats.py`, `selective.py`, `signals.py`, `eval/power.py`): numbers
  in floating point.  Grading and reports are functions of finished rows.
- Ranking (`retrieve/lexical.py`, `semantic.py`, `fuse.py`): floating-point sums; a choice
  in `Retrieval`.
- Texts: parsing and hashing of YAML, prompts, narration, reflection, the mining of
  mistakes, labels and markdown.
- LangGraph and its SQLite saver: one checkpoint per committed node or super-step is
  assumed, and tasks of a super-step commit together.
- Within modelled parts: retrieval hooks, pinned schemas, the negative gate and the path
  without an index; the function list, structural rules and question guard of governance
  (a structural rule is a choice to refuse); tokens and settings of the HTTP surface; the
  building of a serving stack from its environment.

`PROJECT.json` gives each component's reason.  Next, if the project goes on:
the bounded views and the console's reducer as theorems,
and the eviction of finished threads by the driver.

## 12.  Running

`tlc -workers 2 -config <cfg> <module>` for each run of `PROJECT.json`, and `tlapm <module>`
for each module whose name ends in `Proofs`.  The longest run takes about two and a half
minutes; the proofs take about a quarter of an hour, half of it `TrustLoopProofs`.
