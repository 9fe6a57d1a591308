----------------------------- MODULE SetupScan -----------------------------
(***************************************************************************)
(* The setup wizard: POST /elicitation/generate measures the database,     *)
(* derives every question its detectors can ground, drops what the corpus  *)
(* already answers and appends the rest to the ledger                      *)
(* (api/elicitation_routes.py, curator/candidate_rules.py,                 *)
(* scan_report.py); an admin answers in any order, and a scan runs again   *)
(* over what changed.                                                      *)
(*                                                                         *)
(* SetupDetectors says what a scan of a world derives; worlds change.      *)
(* A question is its scope, of which its id is a hash, and what its text   *)
(* says: the wording follows the severity and the counts it quotes.        *)
(* Threads and the file are the business of ClarificationLedger.           *)
(***************************************************************************)
EXTENDS SetupDetectors

CONSTANTS
    Worlds,   \* what the database and the session's corpus may be
    MaxScans, MaxAnswers, MaxChanges   \* bounds

VARIABLES
    world,      \* the measurements and declarations a scan would find now
    ledger,     \* scope -> the wizard's record
    facts,      \* clarification-derived facts of the corpus
    certified,  \* terms a curator defined and certified
    report,     \* what the last scan derived and said
    scans, answers, changes

vars == <<world, ledger, facts, certified, report, scans, answers, changes>>

NoReport == [derived |-> {}, new |-> {}, still_open |-> {}, settled |-> {}, stranded |-> {}]

Init ==
    /\ world \in Worlds
    /\ ledger = [s \in {} |-> {}]
    /\ facts = {} /\ certified = {}
    /\ report = NoReport
    /\ scans = 0 /\ answers = 0 /\ changes = 0
----------------------------------------------------------------------------
Derivation == [w \in Worlds |-> [found |-> Derived(w), contested |-> ContestedPairs(w)]]

(***************************************************************************)
(* What the corpus of this moment, not the session's, already answers.     *)
(***************************************************************************)
Question(scope, says) == [scope |-> scope, says |-> says]
Answered(scope, says) == \E f \in facts : f.question = Question(scope, says)

AlreadyAnswered_by_term(q) == q.scope.kind = "term" /\ q.scope.of \subseteq certified

AlreadyAnswered(q) ==
    \/ Answered(q.scope, q.says)
    \/ q.scope.kind = "term" /\ q.scope.of \subseteq certified

drop_already_answered_keeping_edges(candidates) ==
    LET settled == {q \in candidates : AlreadyAnswered(q)}
    IN [kept |-> candidates \ settled, settled |-> {q.scope : q \in settled}]

drop_already_answered(candidates) ==
    LET settled == {q \in candidates : AlreadyAnswered(q)}
        gone == {q.scope : q \in settled}
    IN [kept |-> {[q EXCEPT !.blocked_by = @ \ gone] : q \in candidates \ settled},
        settled |-> gone]

(***************************************************************************)
(* The report, over the ledger as it stood before the scan.                *)
(***************************************************************************)
Open == {s \in DOMAIN ledger : ledger[s].status = "open"}
AnsweredRows == {s \in DOMAIN ledger : ledger[s].status = "answered"}
Stranded == {s \in AnsweredRows : ledger[s].unmet # {}}

diff_scan_against_ledger_counting_stranded(presented, settled_by_corpus) ==
    [new |-> presented \ DOMAIN ledger,
     still_open |-> Open,
     settled |-> AnsweredRows \cup settled_by_corpus,
     stranded |-> Stranded,
     derived |-> presented \cup settled_by_corpus]

diff_scan_against_ledger(presented, settled_by_corpus) ==
    [new |-> presented \ DOMAIN ledger,
     still_open |-> Open,
     settled |-> (AnsweredRows \ Stranded) \cup (settled_by_corpus \ Stranded),
     stranded |-> Stranded,
     derived |-> presented \cup settled_by_corpus]

Row(q) == [says |-> q.says, category |-> q.category, names |-> q.names,
           blocked_by |-> q.blocked_by, status |-> "open", unmet |-> {}, converted |-> FALSE]

elicitation_generate ==
    /\ scans < MaxScans /\ scans' = scans + 1
    /\ LET sorted == drop_already_answered(Derivation[world].found)
           diff == diff_scan_against_ledger({q.scope : q \in sorted.kept}, sorted.settled)
           row(s) == Row(CHOOSE q \in sorted.kept : q.scope = s)
       IN /\ report' = diff
          /\ ledger' = [s \in DOMAIN ledger \cup diff.new |->
                            IF s \in diff.new THEN row(s) ELSE ledger[s]]
    /\ UNCHANGED <<world, facts, certified, answers, changes>>
----------------------------------------------------------------------------
(***************************************************************************)
(* POST /clarifications/{id}/answer on a wizard record, open or not.  The  *)
(* stamp says which prerequisites were open; the fold takes the text as it *)
(* stood, lands as a draft when any were, runs once per record, and may    *)
(* write nothing.                                                          *)
(***************************************************************************)
unmet_prerequisites(s) == ledger[s].blocked_by \ AnsweredRows

Folded(s, unmet) ==
    LET fact == [question |-> Question(s, ledger[s].says),
                 status |-> IF unmet # {} THEN "draft" ELSE "proposed"]
    IN {f \in facts : f.question # fact.question} \cup {fact}

\* The pick of an engineering answer on another table than the expected one,
\* which is that of the first of its columns.
ExpectedTable(s) == TableOf[SelectSeq(ById, LAMBDA c : c \in ledger[s].names)[1]]
Elsewhere(s) == {c \in ledger[s].names : s.kind = "termcolumn" /\ TableOf[c] # ExpectedTable(s)}

maybe_generate_join_followup(s, c) ==
    [scope |-> Scope("join", {TableOf[c], ExpectedTable(s)}), category |-> "D",
     says |-> <<"T3", c>>, names |-> {c}, blocked_by |-> {}]

\* The engineering half of a business answer, unless it is answered.
Restated(s) == {e \in Open : s.kind = "term" /\ e = Scope("termcolumn", s.of)}

AnswerWith(s, joins) ==
    LET unmet == unmet_prerequisites(s)
        fresh == {j \in joins : j.scope \notin DOMAIN ledger}
        becomes(r) ==
            CASE r = s -> [ledger[s] EXCEPT !.status = "answered", !.unmet = unmet, !.converted = TRUE]
              [] r \in Restated(s) -> [ledger[r] EXCEPT !.says = <<@[1], "quoted">>]
              [] r \in {j.scope : j \in fresh} -> Row(CHOOSE j \in fresh : j.scope = r)
              [] OTHER -> ledger[r]
    IN /\ ledger' = [r \in DOMAIN ledger \cup {j.scope : j \in fresh} |-> becomes(r)]
       /\ IF ledger[s].converted THEN UNCHANGED facts ELSE facts' \in {facts, Folded(s, unmet)}

answer_clarification_route(s) ==
    /\ answers < MaxAnswers /\ answers' = answers + 1
    /\ \/ AnswerWith(s, {})
       \/ \E c \in Elsewhere(s) : AnswerWith(s, {maybe_generate_join_followup(s, c)})
    /\ UNCHANGED <<world, certified, report, scans, changes>>

(***************************************************************************)
(* What happens around the wizard: rows and declarations change, a curator *)
(* certifies a definition of a term, the ledger is lost and the facts stay.*)
(***************************************************************************)
Changes == changes < MaxChanges /\ changes' = changes + 1 /\ UNCHANGED <<facts, report, scans, answers>>

WorldChanges ==
    /\ \E w \in Worlds \ {world} : world' = w
    /\ Changes /\ UNCHANGED <<ledger, certified>>

CertifyTerm ==
    /\ \E t \in Terms \ certified : certified' = certified \cup {t}
    /\ Changes /\ UNCHANGED <<world, ledger>>

LoseLedger ==
    /\ DOMAIN ledger # {}
    /\ ledger' = [s \in {} |-> {}]
    /\ Changes /\ UNCHANGED <<world, certified>>

Next ==
    \/ elicitation_generate
    \/ \E s \in DOMAIN ledger : answer_clarification_route(s)
    \/ WorldChanges \/ CertifyTerm \/ LoseLedger

Spec == Init /\ [][Next]_vars
----------------------------------------------------------------------------
Gated(s) == ledger[s].category \in {"A", "B", "E"}

(***************************************************************************)
(* No question waits for ever: every question that an open one waits for   *)
(* is on the ledger, and answering open questions in some order reaches    *)
(* each of them with its prerequisites met.  It takes a dropped, a lost or *)
(* a mutual prerequisite to strand one.                                    *)
(***************************************************************************)
EveryQuestionCanBeReached ==
    LET met[n \in 0 .. Cardinality(Open)] ==
            IF n = 0 THEN AnsweredRows
            ELSE LET before == met[n - 1]
                 IN before \cup {s \in Open : ledger[s].blocked_by \subseteq before}
    IN Open \subseteq met[Cardinality(Open)]

(***************************************************************************)
(* A mapping is not asked for on a column that may be a decoy: a question  *)
(* a scan adds about a contested column waits for a question about the     *)
(* pair, unless the corpus already has an answer about one of its pairs.   *)
(***************************************************************************)
PairIsSettled(p) == Answered(Scope("duplicate", p), <<"T1", world.differing[p]>>)
About(c) == {p \in Derivation[world].contested : c \in p}

ContestedColumnsWait ==
    [][\A s \in DOMAIN ledger' \ DOMAIN ledger :
           Gated(s)' => \A c \in ledger'[s].names :
               \/ About(c) = {}
               \/ \E p \in About(c) : \/ PairIsSettled(p)
                                     \/ Scope("duplicate", p) \in ledger'[s].blocked_by]_vars

(***************************************************************************)
(* The report accounts for the scan: every question it derived is new,     *)
(* still open, settled or stranded, and an answer that is stuck as a draft *)
(* for want of its prerequisite is never counted among the settled.        *)
(***************************************************************************)
ReportAccountsForTheScan ==
    /\ report.derived \subseteq
           report.new \cup report.still_open \cup report.settled \cup report.stranded
    /\ report.new \cap (report.still_open \cup report.settled \cup report.stranded) = {}
    /\ report.stranded \cap (report.still_open \cup report.settled) = {}

(***************************************************************************)
(* Nobody is asked what the corpus already holds, though the ledger was    *)
(* lost or another scan derives the question again.  Two questions are     *)
(* excepted, which no scan words: a restated one can come to quote a       *)
(* definition it quoted before, and an answer queues its join follow-up    *)
(* without a look at the corpus.                                           *)
(***************************************************************************)
NothingIsAskedTwice ==
    \A s \in Open :
        \/ ledger[s].says[2] = "quoted" \/ s.kind = "join"
        \/ ~Answered(s, ledger[s].says)
=============================================================================
