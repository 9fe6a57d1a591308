-------------------------------- MODULE EvalRun --------------------------------
(***************************************************************************)
(* A measurement of the datalake and the artifact it leaves on disk        *)
(* (tools/run_datalake_eval.py main, eval/harness.py, eval/provenance.py,  *)
(* the gates of measure/gates.py).  The driver is started, interrupted and *)
(* started again over the same file: it refuses to append, to mix two      *)
(* treatments or to keep a crashed row; a pool of workers answers the      *)
(* questions and the main thread appends one line per answer, in the order *)
(* of completion; the report reads the whole file.  A question is its      *)
(* index, what a row says of its turn is an outcome, and of the 47 knobs   *)
(* three are kept: one the register calls comparability (top_n), one       *)
(* operational (workers), one scope (limit).                               *)
(***************************************************************************)
EXTENDS Naturals, Sequences, SequencesExt, FiniteSets, TLC

CONSTANTS
    NQuestions,   \* the dataset: questions 1 .. NQuestions
    Corpora,      \* corpus_content_hash values
    TopNs,        \* values of --top-n
    MaxWorkers,   \* --workers is 1 .. MaxWorkers
    Limits,       \* values of --limit
    MaxLaunches,  \* bound: accepted starts of the driver
    MaxCrashes    \* bound: questions that raise, per start

ASSUME EvalAssumption ==
    /\ NQuestions \in Nat \ {0}
    /\ Limits \subseteq 1 .. NQuestions
    /\ MaxWorkers \in Nat \ {0}
    /\ MaxLaunches \in Nat /\ MaxCrashes \in Nat

VARIABLES
    file,    \* [exists, lines, open]; open: the last line has no newline yet
    phase,   \* where the driver is
    conf,    \* what this start of the driver was given
    kept,    \* the lines a resume decided to keep
    todo,    \* questions no worker has taken
    busy,    \* worker -> its question, 0 when it has none
    done,    \* futures that finished and the main thread has not seen
    crashes, \* questions that raised in this start
    launches,
    last     \* how the last start of the driver ended

vars == <<file, phase, conf, kept, todo, busy, done, crashes, launches, last>>

Workers == 1 .. MaxWorkers
Unstamped == "no_corpus"
Confs == [corpus_content_hash : Corpora, top_n : TopNs, workers : Workers,
          limit : Limits, resume : BOOLEAN]
Outcomes == {"answered", "clarification", "crashed"}
Rows == [question_id : 1 .. NQuestions, outcome : Outcomes,
         corpus_content_hash : Corpora \cup {Unstamped}, top_n : TopNs,
         workers : Workers, limit : Limits]
\* A line json.loads refuses: the beginning of a row, or of one row and a whole second one.
Unreadable == [question_id |-> 0, outcome |-> "unreadable"]

\* load_questions: the population this start covers.
Covered(limit) == 1 .. limit
Elements(s) == {s[i] : i \in DOMAIN s}
Readable(line) == line.outcome # "unreadable"
Measured(line) == line.outcome \notin {"unreadable", "crashed"}
QuestionsOf(lines) == {line.question_id : line \in Elements(lines)}

(***************************************************************************)
(* What a row carries.  A turn that paused for a clarification never       *)
(* reached stamp and names no corpus; the harness's own crashed row has    *)
(* the knobs and no corpus either.                                         *)
(***************************************************************************)
project_turn(q, outcome) ==
    [question_id |-> q, outcome |-> outcome,
     corpus_content_hash |->
         IF outcome = "answered" THEN conf.corpus_content_hash ELSE Unstamped,
     top_n |-> conf.top_n, workers |-> conf.workers, limit |-> conf.limit]

(***************************************************************************)
(* The refusals of eval/provenance.py.                                     *)
(***************************************************************************)
append_refusal(resume, truncate) ==
    ~resume /\ ~truncate /\ file.exists /\ file.lines # <<>>

_identity_problem(rows, want) ==
    \E row \in Elements(rows) : row.corpus_content_hash \notin {Unstamped, want}

_knob_problem_never(rows, want) == FALSE
\* comparability_keys() only.
_knob_problem(rows, want) == \E row \in Elements(rows) : row.top_n # want

resume_identity_problem(rows, c) ==
    \/ _identity_problem(rows, c.corpus_content_hash)
    \/ _knob_problem(rows, c.top_n)
    \/ ~(QuestionsOf(rows) \subseteq Covered(c.limit))

(***************************************************************************)
(* The gates the report prints.                                            *)
(***************************************************************************)
_outcome_gate(rows) == \A row \in Elements(rows) : row.outcome # "crashed"

_corpus_content_hash_gate(rows) ==
    LET reached_stamp == {row \in Elements(rows) : row.outcome # "clarification"}
    IN /\ reached_stamp # {}
       /\ \E c \in Corpora : \A row \in reached_stamp : row.corpus_content_hash = c

\* resume_drift_keys(): comparability, operational and scope.
_knobs_resolved_gate(rows) ==
    Cardinality({<<row.top_n, row.workers, row.limit>> : row \in Elements(rows)}) = 1

quotable(rows) ==
    _outcome_gate(rows) /\ _corpus_content_hash_gate(rows) /\ _knobs_resolved_gate(rows)

(***************************************************************************)
(* The file.                                                               *)
(***************************************************************************)
WithLine(f, row) ==
    IF f.open
    THEN [f EXCEPT !.lines[Len(f.lines)] = Unreadable, !.open = FALSE]
    ELSE [f EXCEPT !.lines = Append(@, row)]

\* The process ends inside the write: some of the line is out, or all but its newline.
TornLine(f, row) ==
    IF f.open
    THEN {[f EXCEPT !.lines[Len(f.lines)] = Unreadable]}
    ELSE {[f EXCEPT !.lines = Append(@, line), !.open = TRUE] : line \in {Unreadable, row}}

Emptied(f) == [f EXCEPT !.lines = <<>>, !.open = FALSE]

----------------------------------------------------------------------------
Init ==
    /\ file = [exists |-> FALSE, lines |-> <<>>, open |-> FALSE]
    /\ phase = "idle"
    /\ conf \in {c \in Confs : c.workers = 1 /\ ~c.resume}
    /\ kept = <<>> /\ todo = <<>>
    /\ busy = [w \in Workers |-> 0]
    /\ done = {}
    /\ crashes = 0 /\ launches = 0
    /\ last = "never"

\* The end of a start, however it came: threads, futures and the handle go with the process.
Ends(how) ==
    /\ phase' = "idle" /\ last' = how
    /\ kept' = <<>> /\ todo' = <<>> /\ done' = {}
    /\ busy' = [w \in Workers |-> 0]
    /\ crashes' = 0

(***************************************************************************)
(* main up to the resume block.  A start that is refused here leaves no    *)
(* trace, so it is no step: contradicting flags, a file that would be      *)
(* appended to, and the refusals that read no state of the model (a        *)
(* credential, an --arm profile of another corpus, sibling artifacts       *)
(* beside a missing one).                                                  *)
(***************************************************************************)
flag_conflict(resume, truncate) == resume /\ truncate

Launch(c, truncate) ==
    /\ phase = "idle" /\ launches < MaxLaunches
    /\ ~flag_conflict(c.resume, truncate)
    /\ ~append_refusal(c.resume, truncate)
    /\ conf' = c
    /\ file' = IF truncate /\ file.exists THEN Emptied(file) ELSE file
    /\ phase' = "resuming"
    /\ launches' = launches + 1
    /\ last' = "running"
    /\ UNCHANGED <<kept, todo, busy, done, crashes>>

(***************************************************************************)
(* The resume block: unreadable and crashed lines are dropped, the rest is *)
(* compared with this start, and the file is rewritten only when a crashed *)
(* line was dropped.                                                       *)
(***************************************************************************)
Kept_answered_only(lines) == SelectSeq(lines, LAMBDA line : line.outcome = "answered")
Kept(lines) ==
    LET rows[n \in 0 .. Len(lines)] ==
            IF n = 0 THEN <<>>
            ELSE IF Measured(lines[n]) THEN Append(rows[n - 1], lines[n])
            ELSE rows[n - 1]
    IN rows[Len(lines)]
NotDone_by_position(limit, rows) == SetToSeq(Covered(limit) \ 1 .. Len(rows))
NotDone(limit, rows) == SetToSeq(Covered(limit) \ QuestionsOf(rows))
Retrying(lines) == \E line \in Elements(lines) : line.outcome = "crashed"

Resume ==
    /\ phase = "resuming"
    /\ LET continuing == conf.resume /\ file.exists
           rows == IF continuing THEN Kept(file.lines) ELSE <<>>
           left == NotDone(conf.limit, rows)
       IN \/ /\ resume_identity_problem(rows, conf)
             /\ Ends("refused")
             /\ UNCHANGED <<file, conf, launches>>
          \/ /\ ~resume_identity_problem(rows, conf)
             /\ todo' = left
             /\ kept' = IF continuing /\ Retrying(file.lines) THEN rows ELSE <<>>
             /\ phase' = IF continuing /\ Retrying(file.lines) THEN "rewriting" ELSE "opening"
             /\ UNCHANGED <<file, conf, busy, done, crashes, launches, last>>

\* out_path.write_text(body): the file is emptied, then written.
Empty ==
    /\ phase = "rewriting"
    /\ file' = Emptied(file)
    /\ phase' = "rewritten"
    /\ UNCHANGED <<conf, kept, todo, busy, done, crashes, launches, last>>

Rewrite ==
    /\ phase = "rewritten"
    /\ file' = [file EXCEPT !.lines = kept]
    /\ kept' = <<>>
    /\ phase' = "opening"
    /\ UNCHANGED <<conf, todo, busy, done, crashes, launches, last>>

Open ==
    /\ phase = "opening"
    /\ \/ /\ todo = <<>>
          /\ Ends("nothing_to_do")
          /\ UNCHANGED <<file, conf, launches>>
       \/ /\ todo # <<>>
          /\ file' = [file EXCEPT !.exists = TRUE]
          /\ phase' = "serving"
          /\ UNCHANGED <<conf, kept, todo, busy, done, crashes, launches, last>>

(***************************************************************************)
(* run_arm.  One worker is a loop that writes before it goes on; more are  *)
(* a pool whose threads take the questions in their order.  A pool that is *)
(* being left still runs every question that was submitted.                *)
(***************************************************************************)
Serial == conf.workers = 1

Begin_only_while_serving(w) ==
    /\ phase = "serving"
    /\ w \in 1 .. conf.workers
    /\ busy[w] = 0 /\ todo # <<>>
    /\ Serial => done = {}
    /\ busy' = [busy EXCEPT ![w] = Head(todo)]
    /\ todo' = Tail(todo)
    /\ UNCHANGED <<file, phase, conf, kept, done, crashes, launches, last>>
Begin(w) ==
    /\ phase \in {"serving", "draining"}
    /\ w \in 1 .. conf.workers
    /\ busy[w] = 0 /\ todo # <<>>
    /\ Serial => done = {}
    /\ busy' = [busy EXCEPT ![w] = Head(todo)]
    /\ todo' = Tail(todo)
    /\ UNCHANGED <<file, phase, conf, kept, done, crashes, launches, last>>

\* _run_one returned: a graded row.
Answer(w, outcome) ==
    /\ busy[w] # 0
    /\ done' = done \cup {project_turn(busy[w], outcome)}
    /\ busy' = [busy EXCEPT ![w] = 0]
    /\ UNCHANGED <<file, phase, conf, kept, todo, crashes, launches, last>>

\* _run_one raised: a crashed row in a pool, the end of the arm in the loop.
CrashedRow(w) == done' = done \cup {project_turn(busy[w], "crashed")}

Raise(w) ==
    /\ busy[w] # 0 /\ crashes < MaxCrashes
    /\ \/ /\ Serial
          /\ Ends("arm_raised")
          /\ UNCHANGED <<file, conf, launches>>
       \/ /\ ~Serial
          /\ CrashedRow(w)
          /\ busy' = [busy EXCEPT ![w] = 0]
          /\ crashes' = crashes + 1
          /\ UNCHANGED <<file, phase, conf, kept, todo, launches, last>>

\* worker_state raised: the future holds the exception, not a row.
NoGraph(q) == [project_turn(q, "crashed") EXCEPT !.outcome = "raised"]
CannotBuild(w) ==
    /\ busy[w] # 0 /\ ~Serial /\ crashes < MaxCrashes
    /\ done' = done \cup {NoGraph(busy[w])}
    /\ busy' = [busy EXCEPT ![w] = 0]
    /\ crashes' = crashes + 1
    /\ UNCHANGED <<file, phase, conf, kept, todo, launches, last>>

\* An exception in the loop of the main thread: the pool is left, waiting for its threads.
ArmRaises ==
    \/ /\ Serial
       /\ Ends("arm_raised")
       /\ UNCHANGED <<file, conf, launches>>
    \/ /\ ~Serial
       /\ phase' = "draining"
       /\ UNCHANGED <<file, conf, kept, todo, busy, done, crashes, launches, last>>

\* as_completed yields a future; on_row appends its line.
Take(row) ==
    /\ phase = "serving" /\ row \in done
    /\ \/ /\ row.outcome # "raised"
          /\ file' = WithLine(file, row)
          /\ done' = done \ {row}
          /\ UNCHANGED <<phase, conf, kept, todo, busy, crashes, launches, last>>
       \/ row.outcome = "raised" /\ ArmRaises

\* The disk refuses the line.
WriterRaises(row) ==
    /\ phase = "serving" /\ row \in done
    /\ row.outcome # "raised" /\ crashes < MaxCrashes
    /\ ArmRaises

Drained ==
    /\ phase = "draining" /\ todo = <<>>
    /\ \A w \in Workers : busy[w] = 0
    /\ Ends("arm_raised")
    /\ UNCHANGED <<file, conf, launches>>

Close ==
    /\ phase = "serving" /\ todo = <<>> /\ done = {}
    /\ \A w \in Workers : busy[w] = 0
    /\ phase' = "reporting"
    /\ UNCHANGED <<file, conf, kept, todo, busy, done, crashes, launches, last>>

\* print_report reads every line of the file; Population.of refuses a repeated question.
Report ==
    /\ phase = "reporting"
    /\ LET readable == \A line \in Elements(file.lines) : Readable(line)
           once == Cardinality(QuestionsOf(file.lines)) = Len(file.lines)
       IN Ends(CASE ~(readable /\ once) -> "report_raised"
                 [] readable /\ once /\ quotable(file.lines) -> "quotable"
                 [] OTHER -> "reported")
    /\ UNCHANGED <<file, conf, launches>>

\* The process is killed; inside the rewrite of a resume it leaves an empty file.
Kill ==
    /\ phase # "idle"
    /\ Ends("killed")
    /\ UNCHANGED <<file, conf, launches>>

\* The process is killed inside the write of a line.
KillInsideAppend(row) ==
    /\ phase = "serving" /\ row \in done /\ row.outcome # "raised"
    /\ file' \in TornLine(file, row)
    /\ Ends("killed")
    /\ UNCHANGED <<conf, launches>>

Start == \E c \in Confs, truncate \in BOOLEAN : Launch(c, truncate)

Work(w) ==
    \/ Begin(w)
    \/ \E outcome \in Outcomes : Answer(w, outcome)
    \/ Raise(w)
    \/ CannotBuild(w)

Main ==
    \/ Resume \/ Empty \/ Rewrite \/ Open
    \/ \E row \in done : Take(row) \/ WriterRaises(row)
    \/ Drained \/ Close \/ Report

Next ==
    \/ Start
    \/ \E w \in Workers : Work(w)
    \/ Main
    \/ Kill

TornWrite == \E row \in done : KillInsideAppend(row)

(***************************************************************************)
(* A thread that can go on does: every request has a timeout and a bounded *)
(* number of retries.  Nobody has to start the driver again.               *)
(***************************************************************************)
Spec == Init /\ [][Next]_vars
\* The same driver when the process may also end inside the write of a line.
TornSpec == Init /\ [][Next \/ TornWrite]_vars
FairSpec == Spec /\ WF_vars(Main) /\ \A w \in Workers : WF_vars(Work(w))

----------------------------------------------------------------------------
\* Every variable has its type.
TypeOK ==
    /\ file.exists \in BOOLEAN /\ file.open \in BOOLEAN
    /\ Elements(file.lines) \subseteq Rows \cup {Unreadable}
    /\ file.open => file.lines # <<>>
    /\ phase \in {"idle", "resuming", "rewriting", "rewritten", "opening", "serving",
                  "draining", "reporting"}
    /\ conf \in Confs
    /\ Elements(kept) \subseteq Rows
    /\ Elements(todo) \subseteq 1 .. NQuestions
    /\ busy \in [Workers -> 0 .. NQuestions]
    /\ crashes \in 0 .. MaxCrashes /\ launches \in 0 .. MaxLaunches

(***************************************************************************)
(* "Two treatments in one artifact is not an arm": however often the       *)
(* driver is stopped and started, the measured rows of the file share      *)
(* their comparability knob, and those that name a corpus name one.        *)
(***************************************************************************)
OneTreatmentPerArtifact ==
    LET rows == {line \in Elements(file.lines) : Measured(line)}
        corpora == {row.corpus_content_hash : row \in rows} \ {Unstamped}
    IN /\ Cardinality(corpora) <= 1
       /\ Cardinality({row.top_n : row \in rows}) <= 1

(***************************************************************************)
(* When the driver comes to its report, the report is over the arm: each   *)
(* covered question has one line, every line can be read, and no question  *)
(* was dropped because it crashed, because the start before was cut, or    *)
(* because a sibling finished first.                                       *)
(***************************************************************************)
ReportCoversTheArm ==
    /\ last # "report_raised"
    /\ last \in {"reported", "quotable"} =>
           /\ QuestionsOf(file.lines) = Covered(conf.limit)
           /\ Len(file.lines) = conf.limit

(***************************************************************************)
(* A row that was paid for stays, in the file or, while a resume rewrites  *)
(* it, in memory.  Two steps take one away: a start with --truncate, which *)
(* leaves none, and the death of a resume between the emptying of the file *)
(* and its writing, when memory had the only copy.  No refusal, dropped    *)
(* crash, raise of a worker or of the disk, and no kill elsewhere does.    *)
(***************************************************************************)
PaidFor(lines, held) == {line \in Elements(lines) \cup Elements(held) : Measured(line)}
Truncated == phase = "idle" /\ phase' = "resuming" /\ ~conf'.resume /\ file'.lines = <<>>
DiesRewriting == phase = "rewritten" /\ last' = "killed" /\ conf.resume /\ file.lines = <<>>
MeasuredRowsSurvive ==
    [][PaidFor(file.lines, kept) \subseteq PaidFor(file'.lines, kept')
         \/ Truncated \/ DiesRewriting]_vars

\* A start of the driver ends: no future is waited for that nobody completes.
ArmEnds == phase # "idle" ~> phase = "idle"

----------------------------------------------------------------------------
(***************************************************************************)
(* Why these hold: what is true at every step of Spec, and entails them.   *)
(***************************************************************************)
\* What a future of the pool holds: a row, or the exception of worker_state.
Futures == [question_id : 1 .. NQuestions, outcome : Outcomes \cup {"raised"},
            corpus_content_hash : Corpora \cup {Unstamped}, top_n : TopNs,
            workers : Workers, limit : Limits]
AtRest == todo = <<>> /\ done = {} /\ \A w \in Workers : busy[w] = 0
\* The rows the next line joins: the file's, or memory's while a resume rewrites it.
Secured == IF phase \in {"rewriting", "rewritten"} THEN kept ELSE file.lines
Answered == {row.question_id : row \in done}
Asked == {busy[w] : w \in Workers} \ {0}

\* Without a torn write the file is whole rows; what is not yet a file is empty.
FileIsWhole ==
    /\ file \in [exists : BOOLEAN, lines : Seq(Rows), open : {FALSE}]
    /\ ~file.exists \/ phase = "rewritten" => file.lines = <<>>
    /\ phase \notin {"idle", "resuming", "opening"} => file.exists

\* What each phase holds beside the file.
PhaseHolds ==
    /\ kept \in Seq(Rows) /\ todo \in Seq(1 .. NQuestions) /\ done \subseteq Futures
    /\ phase \notin {"rewriting", "rewritten"} => kept = <<>>
    /\ phase \in {"idle", "resuming", "reporting"} => AtRest
    /\ phase \in {"rewriting", "rewritten", "opening"} => done = {} /\ Asked = {}
    /\ phase = "resuming" /\ ~conf.resume => file.lines = <<>>
    /\ phase \in {"rewriting", "rewritten"} => conf.resume
    /\ phase # "idle" => last = "running"

OncePerQuestion(lines) ==
    \A i, j \in DOMAIN lines : lines[i].question_id = lines[j].question_id => i = j

\* No question has two lines; a start keeps each covered one in exactly one place.
EveryQuestionHasItsPlace ==
    /\ OncePerQuestion(file.lines) /\ OncePerQuestion(kept)
    /\ phase \notin {"idle", "resuming"} =>
        Covered(conf.limit) = QuestionsOf(Secured) \cup Answered \cup Asked \cup Elements(todo)
    /\ \A i, j \in DOMAIN todo : todo[i] = todo[j] => i = j
    /\ \A v, w \in Workers : busy[v] = busy[w] /\ busy[v] # 0 => v = w
    /\ \A r1, r2 \in done : r1.question_id = r2.question_id => r1 = r2
    /\ Answered \cap QuestionsOf(Secured) = {}
    /\ Asked \cap (QuestionsOf(Secured) \cup Answered) = {}
    /\ Elements(todo) \cap (QuestionsOf(Secured) \cup Answered \cup Asked) = {}

OfOneTreatment(r1, r2) ==
    /\ r1.top_n = r2.top_n
    /\ \/ Unstamped \in {r1.corpus_content_hash, r2.corpus_content_hash}
       \/ r1.corpus_content_hash = r2.corpus_content_hash
OfThisStart(row) ==
    /\ row.top_n = conf.top_n
    /\ row.corpus_content_hash \in {Unstamped, conf.corpus_content_hash}

\* Rows agree with each other, and from its resume on with the start that adds to them.
RowsAreOfOneTreatment ==
    /\ \A r1, r2 \in PaidFor(file.lines, kept) : OfOneTreatment(r1, r2)
    /\ phase \notin {"idle", "resuming"} =>
        \A row \in PaidFor(file.lines, kept) \cup done : OfThisStart(row)

\* While the file is to be rewritten, memory holds its measured rows and no other.
MemoryIsTheFile ==
    phase = "rewriting" =>
        Elements(kept) = {line \in Elements(file.lines) : Measured(line)}

\* A report that was printed was of the whole arm.
ReportStands ==
    last \in {"reported", "quotable"} => phase = "idle"

WhyTheArtifactStands ==
    /\ TypeOK /\ FileIsWhole /\ PhaseHolds /\ EveryQuestionHasItsPlace
    /\ RowsAreOfOneTreatment /\ MemoryIsTheFile /\ ReportStands /\ ReportCoversTheArm

=============================================================================
