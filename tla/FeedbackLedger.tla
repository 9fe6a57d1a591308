--------------------------- MODULE FeedbackLedger ---------------------------
(***************************************************************************)
(* feedback.jsonl: the answers a reader called wrong, what the admin made  *)
(* of each report, and the facts the corrections are folded into.  A file  *)
(* of its own, written whole by routes in worker threads like the          *)
(* questions', under other ids and other facts.                            *)
(***************************************************************************)
EXTENDS AdminRequests

CONSTANTS
    Reports,       \* reports a reader can file: a digest of turn, question and answer
    QuestionOf,    \* the question each is about
    ReportedTurn   \* the turn it is about

ASSUME FeedbackAssumption ==
    DOMAIN QuestionOf = Reports /\ ReportedTurn \in [Reports -> Nat]

Questions == {QuestionOf[r] : r \in Reports}

VARIABLES
    reports,       \* the file: the rows by id
    reportsTorn,
    rtodo, rjob, rprepared, rwriting, rrecord,    \* each caller's handler, as in the ledger
    facts,         \* the fact folded from each question
    reported,      \* handlers entered
    filed,         \* history: reports that were ever in the file
    corrections    \* history: folds submitted for each report

feedbackVars ==
    <<reports, reportsTorn, rtodo, rjob, rprepared, rwriting, rrecord, facts, reported,
      filed, corrections>>

File == INSTANCE WholeFile
    WITH file <- reports, torn <- reportsTorn, todo <- rtodo, prepared <- rprepared,
         writing <- rwriting
-----------------------------------------------------------------------------
Report == [status |-> "open", converted |-> FALSE]

ReportHandler(op) ==
    CASE op = "file"    -> <<"append">>
      [] op = "correct" -> <<"answer", "fold", "mark">>
      [] op = "dismiss" -> <<"check", "dismiss">>

FeedbackInit ==
    /\ reports = File!Empty /\ reportsTorn = FALSE
    /\ rtodo = [c \in Callers |-> << >>]
    /\ rjob = [c \in Callers |-> "none"]
    /\ rprepared = [c \in Callers |-> File!Empty]
    /\ rwriting = [c \in Callers |-> "no"]
    /\ rrecord = [c \in Callers |-> {}]
    /\ facts = [q \in Questions |-> "none"]
    /\ reported = 0 /\ filed = {} /\ corrections = [r \in Reports |-> 0]

EnterReport(c, op, r) ==
    /\ c \in scene.callers /\ rtodo[c] = << >> /\ reported < scene.reports
    /\ reported' = reported + 1
    /\ rjob' = [rjob EXCEPT ![c] = r]
    /\ rtodo' = [rtodo EXCEPT ![c] = ReportHandler(op)]
    /\ rrecord' = [rrecord EXCEPT ![c] = {}]
    /\ UNCHANGED <<reports, reportsTorn, rprepared, rwriting, facts, filed, corrections>>

(* The reader sees the answer first.                                       *)
file_feedback_route(c) ==
    \E r \in Reports : ReportedTurn[r] <= served /\ EnterReport(c, "file", r)

answer_feedback_route(c) == \E r \in filed : EnterReport(c, "correct", r)

dismiss_feedback_route(c) == \E r \in filed : EnterReport(c, "dismiss", r)

FeedbackEnters(c) ==
    file_feedback_route(c) \/ answer_feedback_route(c) \/ dismiss_feedback_route(c)
-----------------------------------------------------------------------------
Kept == <<rjob, facts, reported, corrections>>

(* A reader who sends one report twice gets the row that is there.         *)
file_report(c) ==
    /\ File!Reads(c, "append")
    /\ IF rjob[c] \in DOMAIN reports THEN File!Returns(c)
       ELSE File!Writes(c, File!Extend(reports, rjob[c], Report))
    /\ UNCHANGED <<rrecord, filed, Kept>>

(* Whatever the row's status was.                                          *)
answer_report(c) ==
    /\ File!Reads(c, "answer")
    /\ LET row == [reports[rjob[c]] EXCEPT !.status = "answered"] IN
       /\ rrecord' = [rrecord EXCEPT ![c] = IF rjob[c] \in DOMAIN reports THEN {row} ELSE {}]
       /\ File!Replaces(c, rjob[c], row)
    /\ UNCHANGED <<filed, Kept>>

(* Proposed, always; the enhancer may find the fact there already, and a   *)
(* failure of any kind is swallowed.  A converted row is not folded again. *)
fold_report_into_corpus(c) ==
    /\ File!At(c, "fold")
    /\ \E row \in rrecord[c] :
         IF row.converted THEN File!Returns(c) /\ UNCHANGED <<facts, corrections>>
         ELSE /\ facts' \in {facts, [facts EXCEPT ![QuestionOf[rjob[c]]] = "proposed"]}
              /\ corrections' = [corrections EXCEPT ![rjob[c]] = @ + 1]
              /\ File!GoesOn(c, 1)
    /\ UNCHANGED <<rrecord, filed, rjob, reported>>

MarkReport(c) ==
    /\ File!Reads(c, "mark")
    /\ File!Replaces(c, rjob[c], [reports[rjob[c]] EXCEPT !.converted = TRUE])
    /\ UNCHANGED <<rrecord, filed, Kept>>

CheckDismiss_without_status(c) ==
    /\ File!Reads(c, "check")
    /\ IF rjob[c] \in DOMAIN reports THEN File!GoesOn(c, 1) ELSE File!Returns(c)
    /\ UNCHANGED <<rrecord, filed, Kept>>

(* dismiss_report refuses an answered report, and replaces the row from a  *)
(* read of its own.                                                        *)
CheckDismiss(c) ==
    /\ File!Reads(c, "check")
    /\ IF rjob[c] \in DOMAIN reports /\ reports[rjob[c]].status # "answered"
         THEN File!GoesOn(c, 1)
         ELSE File!Returns(c)
    /\ UNCHANGED <<rrecord, filed, Kept>>

Dismiss(c) ==
    /\ File!Reads(c, "dismiss")
    /\ File!Replaces(c, rjob[c], [reports[rjob[c]] EXCEPT !.status = "dismissed"])
    /\ UNCHANGED <<rrecord, filed, Kept>>

(* A file that does not parse raises out of the handler.                   *)
ReportReadRaises(c) ==
    /\ rtodo[c] # << >> /\ rwriting[c] = "no" /\ reportsTorn /\ Head(rtodo[c]) # "fold"
    /\ File!Returns(c)
    /\ UNCHANGED <<rrecord, filed, Kept>>

OpensReports(c) == File!Empties(c) /\ UNCHANGED <<rrecord, filed, Kept>>

FillsReports(c) ==
    /\ File!GoOut(c)
    /\ filed' = filed \cup DOMAIN rprepared[c]
    /\ UNCHANGED <<rrecord, Kept>>

(* approve_draft: the admin certifies the fact.                            *)
CertifyCorrection(q) ==
    /\ facts[q] = "proposed"
    /\ facts' = [facts EXCEPT ![q] = "certified"]
    /\ UNCHANGED <<reports, reportsTorn, rtodo, rjob, rprepared, rwriting, rrecord, reported,
                   filed, corrections>>

FeedbackStops ==
    /\ File!Stops
    /\ UNCHANGED <<rjob, rrecord, facts, reported, filed, corrections>>

FeedbackStep(c) ==
    \/ FeedbackEnters(c) \/ OpensReports(c) \/ FillsReports(c) \/ ReportReadRaises(c)
    \/ file_report(c) \/ answer_report(c) \/ fold_report_into_corpus(c) \/ MarkReport(c)
    \/ CheckDismiss(c) \/ Dismiss(c)
-----------------------------------------------------------------------------
ReportRows == [status : {"open", "answered", "dismissed"}, converted : BOOLEAN]

IsReports(rows) == DOMAIN rows \subseteq Reports /\ \A r \in DOMAIN rows : rows[r] \in ReportRows

(* Every variable has its type.                                            *)
FeedbackTypeOK ==
    /\ IsReports(reports) /\ reportsTorn \in BOOLEAN
    /\ rjob \in [Callers -> Reports \cup {"none"}]
    /\ \A c \in Callers : IsReports(rprepared[c]) /\ rrecord[c] \subseteq ReportRows
    /\ rwriting \in [Callers -> {"no", "opens", "fills"}]
    /\ facts \in [Questions -> {"none", "proposed", "certified"}]
    /\ reported \in Nat /\ filed \subseteq Reports /\ corrections \in [Reports -> Nat]
=============================================================================
