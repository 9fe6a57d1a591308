------------------------ MODULE ClarificationLedger ------------------------
(***************************************************************************)
(* clarifications.jsonl, the admin's queue of questions, and the corpus    *)
(* facts its answers are folded into.                                      *)
(*                                                                         *)
(* The writers are routes that FastAPI runs in worker threads (answer,     *)
(* cancel, a refused reader's explanation, the wizard's scan) and the      *)
(* ask_user tool of a served turn, in a thread of its own.  A caller here  *)
(* is one such thread, and its job is the sequence of reads and writes its *)
(* handler makes.                                                          *)
(***************************************************************************)
EXTENDS AdminRequests

CONSTANTS
    Live,         \* questions ask_user can raise
    Ranking,      \* the ones of basis ranking_ambiguity
    Scanned,      \* questions a scan proposes
    Explained,    \* explanations a refused reader can file
    TurnOf,       \* the turn that filed an explanation first, which its row keeps
    Blockers,     \* [Scanned -> SUBSET Scanned], blocked_by
    EngOf,        \* the engineering half of each business question
    JoinOf,       \* the join question an engineering answer can raise
    TextOf,       \* each record's question text
    Requoted      \* each engineering question's text once it quotes the definition

Joins == {JoinOf[e] : e \in DOMAIN JoinOf}
Ids   == Live \cup Scanned \cup Explained \cup Joins
Texts == {TextOf[i] : i \in Ids} \cup {Requoted[e] : e \in DOMAIN Requoted}

ASSUME LedgerAssumption ==
    /\ Ranking \subseteq Live /\ Blockers \in [Scanned -> SUBSET Scanned]
    /\ \A b \in DOMAIN EngOf : b \in Scanned /\ EngOf[b] \in DOMAIN Requoted
    /\ DOMAIN Requoted \subseteq Scanned /\ DOMAIN JoinOf \subseteq Scanned
    /\ Ids \subseteq DOMAIN TextOf

(* A live question goes by its turn and its words, the others by a digest  *)
(* under a scope of their kind.                                            *)
ASSUME IdsAssumption ==
    /\ Live \cap (Scanned \cup Explained \cup Joins) = {}
    /\ Scanned \cap (Explained \cup Joins) = {} /\ Explained \cap Joins = {}

VARIABLES
    ledger,      \* the file: the rows by id; empty while a writer has it open
    torn,        \* the file does not parse
    todo,        \* what is left of each caller's handler
    job,         \* what each caller was asked
    prepared,    \* the file contents a caller is about to write
    writing,     \* a caller's progress in one write
    record,      \* the row a caller's answer returned, as a set
    paused,      \* live questions whose turn waits for its reader
    corpus,      \* the fact folded from each question text
    jobs, crashes,
    logged,      \* history: rows that were ever in the file
    wasAnswered, \* history: rows that were ever answered in the file
    folded       \* history: what each record's ledger folds submitted, in order

caller  == <<todo, job, prepared, writing, record>>
history == <<logged, wasAnswered, folded>>
ledgerVars == <<ledger, torn, caller, paused, corpus, jobs, crashes, history>>

INSTANCE WholeFile WITH file <- ledger
-----------------------------------------------------------------------------
Statuses == {"open", "answered", "deferred", "cancelled"}

Rows == [status : Statuses, text : Texts, blocked_by : SUBSET Scanned,
         unmet : SUBSET Scanned, converted : BOOLEAN]

Row(id, status, blocked_by) ==
    [status |-> status, text |-> TextOf[id], blocked_by |-> blocked_by,
     unmet |-> {}, converted |-> FALSE]

AnsweredIn(rows) == {i \in DOMAIN rows : rows[i].status = "answered"}

unmet_prerequisites(rows, id) ==
    IF id \in DOMAIN rows THEN rows[id].blocked_by \ AnsweredIn(rows) ELSE {}

(* The reads and writes each handler makes, in order.  A resumed turn      *)
(* replays the log of its question before it closes it.                    *)
Handler(op, reply) ==
    CASE op = "ask"     -> <<"log">>
      [] op = "resume"  -> IF reply = "declined" THEN <<"log">>
                           ELSE <<"log", "exists", "close", "mine">>
      [] op = "answer"  -> <<"warrant", "answer", "followup", "requote", "restate", "fold", "mark">>
      [] op = "explain" -> <<"append", "stored", "fold", "mark">>
      [] op = "cancel"  -> <<"check", "cancel">>
      [] op = "scan"    -> <<"scan", "propose">>

Jobs == [op : {"ask", "resume", "answer", "explain", "cancel", "scan"},
         id : Ids \cup {"none"},
         reply : {"none", "answered", "deferred", "declined", "text", "blank", "elsewhere"}]

NoJob == [op |-> "scan", id |-> "none", reply |-> "none"]
-----------------------------------------------------------------------------
LedgerInit ==
    /\ ledger = Empty /\ torn = FALSE
    /\ todo = [c \in Callers |-> << >>]
    /\ job = [c \in Callers |-> NoJob]
    /\ prepared = [c \in Callers |-> Empty]
    /\ writing = [c \in Callers |-> "no"]
    /\ record = [c \in Callers |-> {}]
    /\ paused = {}
    /\ corpus = [t \in Texts |-> "none"]
    /\ jobs = 0 /\ crashes = 0
    /\ logged = {} /\ wasAnswered = {} /\ folded = [i \in Ids |-> << >>]

Enter(c, op, id, reply) ==
    /\ c \in scene.callers /\ todo[c] = << >> /\ jobs < scene.jobs
    /\ jobs' = jobs + 1
    /\ job' = [job EXCEPT ![c] = [op |-> op, id |-> id, reply |-> reply]]
    /\ todo' = [todo EXCEPT ![c] = Handler(op, reply)]
    /\ record' = [record EXCEPT ![c] = {}]
    /\ UNCHANGED <<ledger, torn, prepared, writing, corpus, crashes, history>>

(* The turn of a question may ask it again once it is answered.            *)
AskUser(c) ==
    \E q \in Live \ (paused \cup {job[d].id : d \in {d \in Callers : todo[d] # << >>}}) :
        Enter(c, "ask", q, "none") /\ UNCHANGED paused

ResumeTurn(c) ==
    \E q \in paused, reply \in {"answered", "deferred", "declined"} :
        Enter(c, "resume", q, reply) /\ paused' = paused \ {q}

answer_clarification_route(c) ==
    \E id \in Ids, reply \in {"text", "blank", "elsewhere"} :
        /\ reply = "elsewhere" => id \in DOMAIN JoinOf
        /\ id \in logged
        /\ Enter(c, "answer", id, reply) /\ UNCHANGED paused

clarification_from_refusal_route(c) ==
    \E id \in Explained :
        /\ scene.turns > 0 => TurnOf[id] <= served
        /\ Enter(c, "explain", id, "text") /\ UNCHANGED paused

cancel_clarification_route(c) ==
    \E id \in logged : Enter(c, "cancel", id, "none") /\ UNCHANGED paused

elicitation_scan_route(c) == Enter(c, "scan", "none", "none") /\ UNCHANGED paused
-----------------------------------------------------------------------------
Id(c) == job[c].id

Others == <<job, corpus, jobs, crashes, history>>

(* ask_user pauses its turn once its question is in the file.              *)
PausesWhenAsked(c) == IF job[c].op = "ask" THEN paused \cup {Id(c)} ELSE paused

(* write_clarifications.                                                   *)
Opens(c) == Empties(c) /\ UNCHANGED <<record, paused, Others>>

Fills(c) ==
    /\ GoOut(c)
    /\ logged' = logged \cup DOMAIN prepared[c]
    /\ wasAnswered' = wasAnswered \cup AnsweredIn(prepared[c])
    /\ paused' = IF Head(todo[c]) = "log" THEN PausesWhenAsked(c) ELSE paused
    /\ UNCHANGED <<record, job, corpus, jobs, crashes, folded>>

(* A file that does not parse raises out of the handler.                   *)
ReadRaises(c) ==
    /\ todo[c] # << >> /\ writing[c] = "no" /\ torn
    /\ Head(todo[c]) \notin {"fold", "mine", "propose"}
    /\ Head(todo[c]) = "stored" => record[c] = {}
    /\ Returns(c)
    /\ UNCHANGED <<record, paused, Others>>
-----------------------------------------------------------------------------
(* _log_live_clarification, idempotent by id.                              *)
Log(c) ==
    /\ Reads(c, "log")
    /\ IF Id(c) \in DOMAIN ledger
         THEN GoesOn(c, 1) /\ paused' = PausesWhenAsked(c)
         ELSE /\ Writes(c, Extend(ledger, Id(c), Row(Id(c), "open", {})))
              /\ UNCHANGED paused
    /\ UNCHANGED <<record, Others>>

(* close_live_clarification: a missing row is let go, the present one is   *)
(* replaced whatever its status.                                           *)
Exists(c) ==
    /\ Reads(c, "exists")
    /\ IF Id(c) \in DOMAIN ledger THEN GoesOn(c, 1) ELSE GoesOn(c, 2)
    /\ UNCHANGED <<record, paused, Others>>

Close(c) ==
    /\ Reads(c, "close")
    /\ Replaces(c, Id(c), [ledger[Id(c)] EXCEPT !.status = job[c].reply])
    /\ UNCHANGED <<record, paused, Others>>

(* answer_clarification: the warrant from one read, the row from another.  *)
Warrant(c) ==
    /\ Reads(c, "warrant")
    /\ record' = [record EXCEPT ![c] = {[unmet |-> unmet_prerequisites(ledger, Id(c))]}]
    /\ GoesOn(c, 1)
    /\ UNCHANGED <<paused, Others>>

AnsweredRow(c) ==
    [ledger[Id(c)] EXCEPT !.status = "answered", !.unmet = (CHOOSE r \in record[c] : TRUE).unmet]

Answer(c) ==
    /\ Reads(c, "answer")
    /\ IF Id(c) \in DOMAIN ledger
         THEN record' = [record EXCEPT ![c] = {AnsweredRow(c)}]
         ELSE UNCHANGED record
    /\ Replaces(c, Id(c), AnsweredRow(c))
    /\ UNCHANGED <<paused, Others>>

(* An engineering answer on another table than expected raises the join    *)
(* question, once per scope.                                               *)
Followup(c) ==
    /\ Reads(c, "followup")
    /\ IF job[c].reply = "elsewhere" /\ JoinOf[Id(c)] \notin DOMAIN ledger
         THEN Writes(c, Extend(ledger, JoinOf[Id(c)], Row(JoinOf[Id(c)], "open", {})))
         ELSE GoesOn(c, 1)
    /\ UNCHANGED <<record, paused, Others>>

Requote_of_answered(c) ==
    /\ Reads(c, "requote")
    /\ IF Id(c) \in DOMAIN EngOf /\ job[c].reply # "blank" /\ EngOf[Id(c)] \in DOMAIN ledger
         THEN GoesOn(c, 1)
         ELSE GoesOn(c, 2)
    /\ UNCHANGED <<record, paused, Others>>

(* A business definition is quoted to the engineering question waiting for *)
(* it, unless that one is answered.                                        *)
Requote(c) ==
    /\ Reads(c, "requote")
    /\ IF /\ Id(c) \in DOMAIN EngOf
          /\ job[c].reply # "blank"
          /\ EngOf[Id(c)] \in DOMAIN ledger \ AnsweredIn(ledger)
         THEN GoesOn(c, 1)
         ELSE GoesOn(c, 2)
    /\ UNCHANGED <<record, paused, Others>>

Restate(c) ==
    /\ Reads(c, "restate")
    /\ LET eng == EngOf[Id(c)] IN
       IF eng \in DOMAIN ledger
         THEN Writes(c, [ledger EXCEPT ![eng].text = Requoted[eng]])
         ELSE Returns(c)
    /\ UNCHANGED <<record, paused, Others>>
-----------------------------------------------------------------------------
(* fold_answered_clarification: one corpus file per question text, written *)
(* whole.  The enhancer may call the answer a duplicate, and a failure of  *)
(* any kind is swallowed: then nothing is written.                         *)
Folds(text, status) ==
    corpus' \in {corpus, [corpus EXCEPT ![text] = status]}

Warranted_always(row) == "proposed"

Warranted(row) == IF row.unmet # {} THEN "draft" ELSE "proposed"

(* fold_ledger_answer_into_corpus.                                         *)
Fold(c) ==
    /\ At(c, "fold")
    /\ \E row \in record[c] :
         IF row.converted \/ Id(c) \in Ranking \/ job[c].reply = "blank"
           THEN Returns(c) /\ UNCHANGED <<corpus, folded>>
           ELSE /\ Folds(row.text, Warranted(row))
                /\ folded' = [folded EXCEPT ![Id(c)] = Append(@, [text |-> row.text, status |-> Warranted(row)])]
                /\ GoesOn(c, 1)
    /\ UNCHANGED <<record, paused, job, jobs, crashes, logged, wasAnswered>>

Mark_without_write(c) ==
    /\ Reads(c, "mark")
    /\ GoesOn(c, 1)
    /\ UNCHANGED <<record, paused, Others>>

Mark_before_answering(c) ==
    /\ Reads(c, "mark")
    /\ Writes(c, [i \in DOMAIN ledger |-> [ledger[i] EXCEPT !.converted = TRUE]])
    /\ UNCHANGED <<record, paused, Others>>

Mark(c) ==
    /\ Reads(c, "mark")
    /\ Replaces(c, Id(c), [ledger[Id(c)] EXCEPT !.converted = TRUE])
    /\ UNCHANGED <<record, paused, Others>>

(* mine_corpus, later in the turn that asked, when the knob is on.         *)
Mine(c) ==
    /\ At(c, "mine")
    /\ IF job[c].reply = "answered" /\ Id(c) \notin Ranking
         THEN Folds(TextOf[Id(c)], "proposed")
         ELSE UNCHANGED corpus
    /\ GoesOn(c, 1)
    /\ UNCHANGED <<record, paused, job, jobs, crashes, history>>

(* A refused reader's explanation is answered the moment it exists.        *)
AppendIfNew(c) ==
    /\ Reads(c, "append")
    /\ LET row == Row(Id(c), "answered", {}) IN
       IF Id(c) \in DOMAIN ledger
         THEN GoesOn(c, 1) /\ UNCHANGED record
         ELSE /\ Writes(c, Extend(ledger, Id(c), row))
              /\ record' = [record EXCEPT ![c] = {row}]
    /\ UNCHANGED <<paused, Others>>

Stored(c) ==
    /\ At(c, "stored")
    /\ IF record[c] # {} THEN GoesOn(c, 1) /\ UNCHANGED record
       ELSE /\ ~torn
            /\ IF Id(c) \in DOMAIN ledger
                 THEN GoesOn(c, 1) /\ record' = [record EXCEPT ![c] = {ledger[Id(c)]}]
                 ELSE Returns(c) /\ UNCHANGED record
    /\ UNCHANGED <<paused, Others>>

Check_without_status(c) ==
    /\ Reads(c, "check")
    /\ IF Id(c) \in DOMAIN ledger /\ Id(c) \in Ranking THEN GoesOn(c, 1) ELSE Returns(c)
    /\ UNCHANGED <<record, paused, Others>>

(* cancel_clarification: the status is tested on one read and replaced on  *)
(* another.                                                                *)
Check(c) ==
    /\ Reads(c, "check")
    /\ IF Id(c) \in DOMAIN ledger \ AnsweredIn(ledger) /\ Id(c) \in Ranking
         THEN GoesOn(c, 1)
         ELSE Returns(c)
    /\ UNCHANGED <<record, paused, Others>>

Cancel(c) ==
    /\ Reads(c, "cancel")
    /\ Replaces(c, Id(c), [ledger[Id(c)] EXCEPT !.status = "cancelled"])
    /\ UNCHANGED <<record, paused, Others>>

(* A scan reads the file before it measures the database.                  *)
Scan(c) ==
    /\ Reads(c, "scan")
    /\ prepared' = [prepared EXCEPT ![c] = ledger]
    /\ todo' = [todo EXCEPT ![c] = Tail(@)]
    /\ UNCHANGED <<ledger, torn, writing, record, paused, Others>>

Propose_writing_only_new(c) ==
    /\ At(c, "propose")
    /\ LET new == Scanned \ DOMAIN prepared[c] IN
       IF new = {} THEN GoesOn(c, 1) ELSE Writes(c, [i \in new |-> Row(i, "open", Blockers[i])])
    /\ UNCHANGED <<record, paused, Others>>

(* Afterwards it proposes what is neither on the list it read nor answered *)
(* in the corpus; a prerequisite the corpus settles blocks nothing.        *)
Propose(c) ==
    /\ At(c, "propose")
    /\ LET existing == prepared[c]
           settled == {i \in Scanned : corpus[TextOf[i]] # "none"}
           new == Scanned \ (settled \cup DOMAIN existing)
       IN IF new = {} THEN GoesOn(c, 1)
          ELSE Writes(c, [i \in DOMAIN existing \cup new |->
                            IF i \in DOMAIN existing THEN existing[i]
                            ELSE Row(i, "open", Blockers[i] \ settled)])
    /\ UNCHANGED <<record, paused, Others>>
-----------------------------------------------------------------------------
(* approve_draft: only a proposed fact is certified.                       *)
approve_draft(t) ==
    /\ corpus[t] = "proposed"
    /\ corpus' = [corpus EXCEPT ![t] = "certified"]
    /\ UNCHANGED <<ledger, torn, caller, paused, jobs, crashes, history>>

(* The process ends: every thread with it.  A turn that waits for its      *)
(* reader is a checkpoint and still waits, and so does one whose resume    *)
(* had not left the tool.                                                  *)
LedgerStops ==
    /\ crashes < scene.crashes
    /\ crashes' = crashes + 1
    /\ Stops
    /\ paused' = paused \cup {Id(c) : c \in {d \in Callers :
                                      job[d].op = "resume" /\ todo[d] \notin {<< >>, <<"mine">>}}}
    /\ UNCHANGED <<job, record, corpus, jobs, history>>

HandlerStep(c) ==
    \/ Opens(c) \/ Fills(c) \/ ReadRaises(c)
    \/ Log(c) \/ Exists(c) \/ Close(c) \/ Mine(c)
    \/ Warrant(c) \/ Answer(c) \/ Followup(c) \/ Requote(c) \/ Restate(c) \/ Fold(c) \/ Mark(c)
    \/ AppendIfNew(c) \/ Stored(c) \/ Check(c) \/ Cancel(c)
    \/ Scan(c) \/ Propose(c)

EntersAny(c) ==
    \/ AskUser(c) \/ ResumeTurn(c) \/ answer_clarification_route(c)
    \/ clarification_from_refusal_route(c) \/ cancel_clarification_route(c)
    \/ elicitation_scan_route(c)

LedgerStep(c) == EntersAny(c) \/ HandlerStep(c)
-----------------------------------------------------------------------------
Stages == {"log", "exists", "close", "mine", "warrant", "answer", "followup", "requote",
           "restate", "fold", "mark", "append", "stored", "check", "cancel", "scan", "propose"}

IsFile(rows) == DOMAIN rows \subseteq Ids /\ \A i \in DOMAIN rows : rows[i] \in Rows

(* Every variable has its type.                                            *)
LedgerTypeOK ==
    /\ IsFile(ledger) /\ torn \in BOOLEAN
    /\ \A c \in Callers : \A k \in DOMAIN todo[c] : todo[c][k] \in Stages
    /\ job \in [Callers -> Jobs]
    /\ \A c \in Callers : IsFile(prepared[c])
    /\ writing \in [Callers -> {"no", "opens", "fills"}]
    /\ \A c \in Callers : record[c] \subseteq Rows \cup [unmet : SUBSET Scanned]
    /\ paused \subseteq Live
    /\ corpus \in [Texts -> {"none", "draft", "proposed", "certified"}]
    /\ jobs \in Nat /\ crashes \in Nat
    /\ logged \subseteq Ids /\ wasAnswered \subseteq Ids
    /\ \A i \in Ids : \A k \in DOMAIN folded[i] :
         folded[i][k] \in [text : Texts, status : {"draft", "proposed"}]

(* Nothing else is worded as what a scan asks, and nothing of another kind *)
(* as a question that readers explained.                                   *)
ScansWordTheirOwn ==
    /\ \A i \in Scanned : \A j \in Ids \ {i} : TextOf[j] # TextOf[i]
    /\ \A i \in Scanned : \A e \in DOMAIN Requoted : Requoted[e] # TextOf[i]

ExplanationsWordTheirOwn ==
    \A i \in Explained :
        /\ \A j \in Ids \ Explained : TextOf[j] # TextOf[i]
        /\ \A e \in DOMAIN Requoted : Requoted[e] # TextOf[i]

(* A fact is proposed for certification only if every question its answer  *)
(* depended on had been answered: one answered ahead of them is a draft.   *)
ProposedHasItsWarrant ==
    OneWriter => \A i \in Scanned : \A k \in DOMAIN folded[i] :
        folded[i][k].status = "proposed" => Blockers[i] \subseteq wasAnswered

(* The rows a reader of the list would see, a write counting from its      *)
(* start.                                                                  *)
View ==
    IF \E c \in Callers : writing[c] = "fills"
      THEN prepared[CHOOSE c \in Callers : writing[c] = "fills"]
      ELSE ledger

Queue == INSTANCE QuestionQueue
    WITH Questions <- Ids,
         status <- [i \in Ids |-> IF i \in DOMAIN View THEN View[i].status ELSE "none"],
         converted <- {i \in DOMAIN View : View[i].converted}

(* With one writer the file behaves as the one list QuestionQueue          *)
(* describes.                                                              *)
ActsAsOneQueue ==
    /\ OneWriter => Queue!Init
    /\ [][OneWriter => Queue!Next]_(Queue!vars)

=============================================================================
