------------------------- MODULE TrustLoopProofs -------------------------
(***************************************************************************)
(* The invariants of the admin's two lists for any questions, reports,     *)
(* threads and bounds.  What holds of any threads comes first, then what a *)
(* list with one writer promises.                                          *)
(***************************************************************************)
EXTENDS TrustLoop, FiniteSetTheorems, SequenceTheorems, WellFoundedInduction, TLAPS

-----------------------------------------------------------------------------
(* What is left of a handler, by the request it answers.                   *)
Left(j, left) ==
    \/ left = << >>
    \/ j.op = "ask" /\ left = <<"log">>
    \/ j.op = "resume" /\ j.reply = "declined" /\ left = <<"log">>
    \/ /\ j.op = "resume" /\ j.reply # "declined"
       /\ left \in {<<"log", "exists", "close", "mine">>, <<"exists", "close", "mine">>,
                    <<"close", "mine">>, <<"mine">>}
    \/ /\ j.op = "answer"
       /\ left \in {<<"warrant", "answer", "followup", "requote", "restate", "fold", "mark">>,
                    <<"answer", "followup", "requote", "restate", "fold", "mark">>,
                    <<"followup", "requote", "restate", "fold", "mark">>,
                    <<"requote", "restate", "fold", "mark">>,
                    <<"restate", "fold", "mark">>, <<"fold", "mark">>, <<"mark">>}
    \/ /\ j.op = "explain"
       /\ left \in {<<"append", "stored", "fold", "mark">>, <<"stored", "fold", "mark">>,
                    <<"fold", "mark">>, <<"mark">>}
    \/ j.op = "cancel" /\ left \in {<<"check", "cancel">>, <<"cancel">>}
    \/ j.op = "scan" /\ left \in {<<"scan", "propose">>, <<"propose">>}

(* What a request of each kind can be about.                               *)
JobFits(j) ==
    /\ j.op \in {"ask", "resume"} => j.id \in Live
    /\ j.op = "resume" => j.reply \in {"answered", "deferred", "declined"}
    /\ j.op \in {"answer", "cancel"} => j.id \in Ids
    /\ j.op = "answer" => j.reply \in {"text", "blank", "elsewhere"}
    /\ j.op = "answer" /\ j.reply = "elsewhere" => j.id \in DOMAIN JoinOf
    /\ j.op = "explain" => j.id \in Explained /\ j.reply = "text"

WritingStages == {"log", "close", "answer", "followup", "restate", "mark", "append", "cancel",
                  "propose"}

Stage(left) == IF left = << >> THEN "none" ELSE Head(left)

StageOf(c) == Stage(todo[c])

(* Where a handler is and what it holds.                                   *)
ThreadHolds(c) ==
    /\ c \notin scene.callers => todo[c] = << >>
    /\ Left(job[c], todo[c])
    /\ todo[c] # << >> => JobFits(job[c])
    /\ writing[c] # "no" => StageOf(c) \in WritingStages
    /\ StageOf(c) = "answer" /\ writing[c] = "no" =>
         record[c] # {} /\ record[c] \subseteq [unmet : SUBSET Scanned]
    /\ StageOf(c) = "answer" /\ writing[c] # "no" => record[c] \subseteq Rows
    /\ StageOf(c) \in {"followup", "requote", "restate", "fold", "mark", "stored"} =>
         record[c] \subseteq Rows
    /\ StageOf(c) = "append" /\ writing[c] = "no" => record[c] = {}
    /\ StageOf(c) = "append" /\ writing[c] # "no" => record[c] \subseteq Rows
    /\ StageOf(c) = "restate" => Id(c) \in DOMAIN EngOf
    /\ StageOf(c) = "cancel" => Id(c) \in Ranking

Files == UNION {[S -> Rows] : S \in SUBSET Ids}

FoldEntries == [text : Texts, status : {"draft", "proposed"}]

ThreadsHold == \A c \in Callers : ThreadHolds(c)

FileTyped ==
    /\ ledger \in Files /\ torn \in BOOLEAN
    /\ todo \in [Callers -> Seq(Stages)] /\ prepared \in [Callers -> Files]
    /\ writing \in [Callers -> {"no", "opens", "fills"}]

RestTyped ==
    /\ job \in [Callers -> Jobs]
    /\ record \in [Callers -> SUBSET (Rows \cup [unmet : SUBSET Scanned])]
    /\ paused \subseteq Live
    /\ corpus \in [Texts -> {"none", "draft", "proposed", "certified"}]
    /\ jobs \in Nat /\ crashes \in Nat
    /\ logged \subseteq Ids /\ wasAnswered \subseteq Ids
    /\ folded \in [Ids -> Seq(FoldEntries)]

LedgerShape ==
    /\ scene \in Scenes /\ FileTyped /\ RestTyped
    /\ ThreadsHold
-----------------------------------------------------------------------------
(* Any threads: rows claim no conversion that was not tried, and a cancelled *)
(* row is of the basis that is never folded.                               *)
IsTrue(i, row, folds) ==
    /\ row.converted => folds[i] # << >>
    /\ row.status = "cancelled" => i \in Ranking

RowsAreTrue(rows) == \A i \in DOMAIN rows : IsTrue(i, rows[i], folded)

FoldsAreTrue ==
    /\ RowsAreTrue(ledger) /\ \A c \in Callers : RowsAreTrue(prepared[c])
    /\ \A i \in Ranking : folded[i] = << >>
    /\ \A c \in Callers : StageOf(c) = "mark" => folded[Id(c)] # << >>
-----------------------------------------------------------------------------
(* One writer.  What the file is about to be is the file, or what is being *)
(* written.                                                                *)
Upcoming(c) == IF writing[c] = "no" THEN ledger ELSE prepared[c]

StatusIn(rows) == [i \in Ids |-> IF i \in DOMAIN rows THEN rows[i].status ELSE "none"]

ConvertedIn(rows) == {i \in DOMAIN rows : rows[i].converted}

(* A step of the abstract list from one file to another, or none.          *)
ListStep(s, k, s2, k2) ==
    \/ s2 = s /\ k2 = k
    \/ \E new \in SUBSET Ids :
         /\ \A q \in new : s[q] = "none"
         /\ s2 = [q \in Ids |-> IF q \in new THEN "open" ELSE s[q]] /\ k2 = k
    \/ \E q \in Ids :
         \/ s2 = [s EXCEPT ![q] = "answered"] /\ k2 = k
         \/ s[q] # "none" /\ s2 = [s EXCEPT ![q] = "deferred"] /\ k2 = k
         \/ s[q] \in {"open", "deferred", "cancelled"} /\ s2 = [s EXCEPT ![q] = "cancelled"] /\ k2 = k
         \/ s[q] = "answered" /\ q \notin k /\ k2 = k \cup {q} /\ s2 = s

(* The file is whole and keeps every row; while it is open for writing,    *)
(* the rows are in memory.                                                 *)
FileKeeps(c) ==
    /\ ~torn
    /\ writing[c] # "fills" => logged \subseteq DOMAIN ledger
    /\ writing[c] # "no" => logged \subseteq DOMAIN prepared[c]
    /\ writing[c] = "fills" => ledger = Empty
    /\ StageOf(c) = "propose" /\ writing[c] = "no" => prepared[c] = ledger
    /\ writing[c] = "opens" =>
         ListStep(StatusIn(ledger), ConvertedIn(ledger),
                  StatusIn(prepared[c]), ConvertedIn(prepared[c]))

(* Who answers holds the very row that is on file, and folds its text.     *)
HoldsTheRow(c) ==
    /\ \/ StageOf(c) \in {"followup", "requote", "restate", "fold"}
       \/ StageOf(c) \in {"answer", "append"} /\ writing[c] # "no"
       \/ StageOf(c) = "mark" /\ writing[c] = "no"
       => /\ Id(c) \in DOMAIN Upcoming(c) /\ record[c] = {Upcoming(c)[Id(c)]}
          /\ Upcoming(c)[Id(c)].status = "answered"
    /\ StageOf(c) = "stored" =>
         record[c] = {} \/ (Id(c) \in DOMAIN ledger /\ record[c] = {ledger[Id(c)]})
    /\ StageOf(c) = "restate" /\ writing[c] = "no" =>
         EngOf[Id(c)] \in DOMAIN ledger \ AnsweredIn(ledger)
    /\ StageOf(c) = "cancel" /\ writing[c] = "no" =>
         Id(c) \in DOMAIN ledger \ AnsweredIn(ledger)

(* A converted question stays answered but for a live one's own reader.    *)
AnsweredStays(rows) ==
    \A i \in DOMAIN rows :
        /\ rows[i].converted /\ i \notin Live => rows[i].status = "answered"
        /\ i \in Explained => rows[i].status = "answered"

AsksWhatWasFolded(rows) ==
    \A i \in DOMAIN rows : rows[i].converted =>
        Len(folded[i]) = 1 /\ folded[i][1].text = rows[i].text

(* A fold is on record, or is about to be.                                 *)
FoldedOnce(c) ==
    \A i \in Ids : folded[i] # << >> =>
        /\ Len(folded[i]) = 1
        /\ i \in DOMAIN Upcoming(c) /\ folded[i][1].text = Upcoming(c)[i].text
        /\ \/ Upcoming(c)[i].converted
           \/ StageOf(c) = "mark" /\ writing[c] = "no" /\ Id(c) = i

AloneHolds(c) ==
    /\ FileKeeps(c) /\ HoldsTheRow(c)
    /\ AnsweredStays(ledger) /\ AnsweredStays(prepared[c])
    /\ AsksWhatWasFolded(ledger) /\ AsksWhatWasFolded(prepared[c])
    /\ FoldedOnce(c)

OneWriterHolds == OneWriter => \A c \in scene.callers : AloneHolds(c)
-----------------------------------------------------------------------------
(* The warrant.  A prerequisite that no longer blocks a row was answered,  *)
(* if what a scan asks is worded by nothing else.                          *)
Wordings(i) == {TextOf[i]} \cup (IF i \in DOMAIN Requoted THEN {Requoted[i]} ELSE {})

RowWaits(i, row) ==
    /\ row.text \in Wordings(i)
    /\ i \in Scanned => Blockers[i] \subseteq row.blocked_by \cup wasAnswered

RowsWait(rows) == \A i \in DOMAIN rows : RowWaits(i, rows[i])

(* Who answers carries what was unmet, and who folds the text to fold.     *)
Carries(c) ==
    \/ StageOf(c) \in {"followup", "requote", "restate", "fold"}
    \/ StageOf(c) = "answer" /\ writing[c] # "no"

AnswersWait(c) ==
    /\ StageOf(c) = "answer" /\ writing[c] = "no" /\ Id(c) \in Scanned \cap DOMAIN ledger =>
         \A r \in record[c] : Blockers[Id(c)] \subseteq r.unmet \cup wasAnswered
    /\ Carries(c) =>
         \A r \in record[c] :
            /\ r.text \in Wordings(Id(c))
            /\ Id(c) \in Scanned => Blockers[Id(c)] \subseteq r.unmet \cup wasAnswered

FactsHaveAnswers == \A i \in Scanned : corpus[TextOf[i]] # "none" => i \in wasAnswered

ProposalsAreWarranted ==
    \A i \in Scanned : \A k \in DOMAIN folded[i] :
        folded[i][k].status = "proposed" => Blockers[i] \subseteq wasAnswered

WarrantFor(c) ==
    /\ FactsHaveAnswers /\ ProposalsAreWarranted
    /\ AnsweredIn(ledger) \subseteq wasAnswered
    /\ RowsWait(ledger) /\ RowsWait(prepared[c]) /\ AnswersWait(c)

WarrantHolds == OneWriter => \A c \in scene.callers : WarrantFor(c)
-----------------------------------------------------------------------------
(* The reports, in the same layers.                                        *)
ReportLeft(left) ==
    left \in {<< >>, <<"append">>, <<"answer", "fold", "mark">>, <<"fold", "mark">>, <<"mark">>,
              <<"check", "dismiss">>, <<"dismiss">>}

ReportStage(c) == Stage(rtodo[c])

ReportStages == {"append", "answer", "fold", "mark", "check", "dismiss"}

ReportFiles == UNION {[S -> ReportRows] : S \in SUBSET Reports}

ReporterHolds(c) ==
    /\ c \notin scene.callers => rtodo[c] = << >>
    /\ ReportLeft(rtodo[c])
    /\ rtodo[c] # << >> => rjob[c] \in Reports
    /\ rwriting[c] # "no" => ReportStage(c) \in {"append", "answer", "mark", "dismiss"}

ReportersHold == \A c \in Callers : ReporterHolds(c)

FeedbackShape ==
    /\ reports \in ReportFiles /\ reportsTorn \in BOOLEAN
    /\ rtodo \in [Callers -> Seq(ReportStages)] /\ rjob \in [Callers -> Reports \cup {"none"}]
    /\ rprepared \in [Callers -> ReportFiles]
    /\ rwriting \in [Callers -> {"no", "opens", "fills"}]
    /\ rrecord \in [Callers -> SUBSET ReportRows]
    /\ facts \in [Questions -> {"none", "proposed", "certified"}]
    /\ reported \in Nat /\ filed \subseteq Reports /\ corrections \in [Reports -> Nat]
    /\ ReportersHold

ReportsAreTrue(rows) == \A r \in DOMAIN rows : rows[r].converted => corrections[r] > 0

CorrectionsAreTrue ==
    /\ ReportsAreTrue(reports) /\ \A c \in Callers : ReportsAreTrue(rprepared[c])
    /\ \A c \in Callers : ReportStage(c) = "mark" => corrections[rjob[c]] > 0

UpcomingReports(c) == IF rwriting[c] = "no" THEN reports ELSE rprepared[c]

ReportsKept(c) ==
    /\ ~reportsTorn
    /\ rwriting[c] # "fills" => filed \subseteq DOMAIN reports
    /\ rwriting[c] # "no" => filed \subseteq DOMAIN rprepared[c]
    /\ rwriting[c] = "fills" => reports = File!Empty
    /\ rwriting[c] = "no" => rprepared[c] = File!Empty

HoldsTheReport(c) ==
    /\ \/ ReportStage(c) = "fold"
       \/ ReportStage(c) = "answer" /\ rwriting[c] # "no"
       \/ ReportStage(c) = "mark" /\ rwriting[c] = "no"
       => /\ rjob[c] \in DOMAIN UpcomingReports(c)
          /\ rrecord[c] = {UpcomingReports(c)[rjob[c]]}
          /\ UpcomingReports(c)[rjob[c]].status = "answered"
    /\ ReportStage(c) = "dismiss" /\ rwriting[c] = "no" =>
         rjob[c] \in DOMAIN reports /\ reports[rjob[c]].status # "answered"

CorrectedWasAnswered(rows) ==
    \A r \in DOMAIN rows : corrections[r] > 0 => rows[r].status = "answered"

CorrectedOnce(c) ==
    \A r \in Reports : corrections[r] > 0 =>
        /\ corrections[r] = 1 /\ r \in DOMAIN UpcomingReports(c)
        /\ \/ UpcomingReports(c)[r].converted
           \/ ReportStage(c) = "mark" /\ rwriting[c] = "no" /\ rjob[c] = r

ReporterAlone(c) ==
    /\ ReportsKept(c) /\ HoldsTheReport(c)
    /\ CorrectedWasAnswered(reports) /\ CorrectedWasAnswered(rprepared[c])
    /\ CorrectedOnce(c)

OneReporterHolds == OneWriter => \A c \in scene.callers : ReporterAlone(c)
-----------------------------------------------------------------------------
(* A turn's number is given once, to one row of one thread.                *)
TurnRows == [id : Nat, outcome : {"refused", "answered"}]

TurnsStayApart ==
    /\ served \in Nat
    /\ turns \in [Conversations -> Seq(TurnRows)]
    /\ \A t \in Conversations : \A k \in DOMAIN turns[t] : turns[t][k].id <= served
    /\ \A t, u \in Conversations : \A j \in DOMAIN turns[t], k \in DOMAIN turns[u] :
         turns[t][j].id = turns[u][k].id => t = u /\ j = k
-----------------------------------------------------------------------------
(* The facts that can be counted as approved: a fold of an explanation     *)
(* stands behind one, or a report on file.                                 *)
ExplainedFactsWereFolded ==
    \A i \in Explained : corpus[TextOf[i]] # "none" =>
        \E j \in Explained : TextOf[j] = TextOf[i] /\ folded[j] # << >>

CorrectedFactsWereFiled ==
    /\ \A r \in Reports : facts[QuestionOf[r]] # "none" =>
         \E p \in filed : QuestionOf[p] = QuestionOf[r]
    /\ DOMAIN reports \subseteq filed

FactsWereRaised == OneWriter => ExplainedFactsWereFolded /\ CorrectedFactsWereFiled
-----------------------------------------------------------------------------
(* The tables of handlers.                                                 *)
LEMMA TailIsTheRest ==
    ASSUME NEW S, NEW s \in Seq(S), s # << >>
    PROVE  /\ SubSeq(s, 2, Len(s)) = Tail(s) /\ Tail(s) \in Seq(S)
           /\ Tail(s) # << >> => SubSeq(s, 3, Len(s)) = Tail(Tail(s))
  <1>1. SubSeq(s, 2, Len(s)) = Tail(s) /\ Tail(s) \in Seq(S) /\ Len(Tail(s)) = Len(s) - 1
    BY TailIsSubSeq, HeadTailProperties
  <1>2. ASSUME Tail(s) # << >>
        PROVE  SubSeq(s, 3, Len(s)) = Tail(Tail(s))
    <2>1. 2 \in 1 .. Len(s) /\ Len(s) \in 2 .. Len(s)
      BY <1>1, <1>2, EmptySeq, LenProperties
    <2>2. Tail(SubSeq(s, 2, Len(s))) = SubSeq(s, 2 + 1, Len(s))
      BY <2>1, HeadTailOfSubSeq
    <2> QED  BY <2>2, <1>1
  <1> QED  BY <1>1, <1>2

(* Every part of a handler is a sequence of stages.                        *)
LEMMA PartsAreSequences ==
    ASSUME NEW j, NEW left, Left(j, left)
    PROVE  left \in Seq(Stages)
  <1>1. /\ << >> \in Seq(Stages) /\ <<"log">> \in Seq(Stages) /\ <<"mine">> \in Seq(Stages)
        /\ <<"mark">> \in Seq(Stages) /\ <<"cancel">> \in Seq(Stages) /\ <<"propose">> \in Seq(Stages)
    BY DEF Stages
  <1>2. /\ <<"close", "mine">> \in Seq(Stages) /\ <<"exists", "close", "mine">> \in Seq(Stages)
        /\ <<"log", "exists", "close", "mine">> \in Seq(Stages)
    BY DEF Stages
  <1>3. /\ <<"fold", "mark">> \in Seq(Stages) /\ <<"restate", "fold", "mark">> \in Seq(Stages)
        /\ <<"stored", "fold", "mark">> \in Seq(Stages)
        /\ <<"append", "stored", "fold", "mark">> \in Seq(Stages)
        /\ <<"check", "cancel">> \in Seq(Stages) /\ <<"scan", "propose">> \in Seq(Stages)
    BY DEF Stages
  <1>4. /\ <<"requote", "restate", "fold", "mark">> \in Seq(Stages)
        /\ <<"followup", "requote", "restate", "fold", "mark">> \in Seq(Stages)
    BY DEF Stages
  <1>5. <<"answer", "followup", "requote", "restate", "fold", "mark">> \in Seq(Stages)
    BY DEF Stages
  <1>6. <<"warrant", "answer", "followup", "requote", "restate", "fold", "mark">> \in Seq(Stages)
    BY DEF Stages
  <1> QED  BY <1>1, <1>2, <1>3, <1>4, <1>5, <1>6 DEF Left

LEMMA HandlerStarts ==
    ASSUME NEW op \in {"ask", "resume", "answer", "explain", "cancel", "scan"}, NEW reply, NEW id
    PROVE  /\ Left([op |-> op, id |-> id, reply |-> reply], Handler(op, reply))
           /\ Handler(op, reply) # << >>
           /\ Head(Handler(op, reply)) \in {"log", "warrant", "append", "check", "scan"}
           /\ op = "explain" <=> Head(Handler(op, reply)) = "append"
  BY DEF Left, Handler

(* One step of a handler.                                                  *)
LEMMA HandlerGoesOn ==
    ASSUME NEW j, NEW left, Left(j, left), left # << >>
    PROVE  /\ Left(j, Tail(left))
           /\ Head(left) = "log" => Stage(Tail(left)) \in {"none", "exists"}
           /\ Head(left) = "exists" => Stage(Tail(left)) = "close"
           /\ Head(left) = "close" => Stage(Tail(left)) = "mine"
           /\ Head(left) \in {"mine", "mark", "cancel", "propose"} => Tail(left) = << >>
           /\ Head(left) = "warrant" => Stage(Tail(left)) = "answer"
           /\ Head(left) = "answer" => Stage(Tail(left)) = "followup"
           /\ Head(left) = "followup" => Stage(Tail(left)) = "requote"
           /\ Head(left) = "requote" => Stage(Tail(left)) = "restate"
           /\ Head(left) = "restate" => Stage(Tail(left)) = "fold"
           /\ Head(left) = "append" => Stage(Tail(left)) = "stored"
           /\ Head(left) = "stored" => Stage(Tail(left)) = "fold"
           /\ Head(left) = "fold" => Stage(Tail(left)) = "mark"
           /\ Head(left) = "check" => Stage(Tail(left)) = "cancel"
           /\ Head(left) = "scan" => Stage(Tail(left)) = "propose"
  <1>1. CASE left = <<"log">>
    BY <1>1 DEF Left, Stage
  <1>2. CASE left = <<"log", "exists", "close", "mine">>
    BY <1>2 DEF Left, Stage
  <1>3. CASE left = <<"exists", "close", "mine">>
    BY <1>3 DEF Left, Stage
  <1>4. CASE left = <<"close", "mine">>
    BY <1>4 DEF Left, Stage
  <1>5. CASE left = <<"mine">>
    BY <1>5 DEF Left, Stage
  <1>6. CASE left = <<"warrant", "answer", "followup", "requote", "restate", "fold", "mark">>
    BY <1>6 DEF Left, Stage
  <1>7. CASE left = <<"answer", "followup", "requote", "restate", "fold", "mark">>
    BY <1>7 DEF Left, Stage
  <1>8. CASE left = <<"followup", "requote", "restate", "fold", "mark">>
    BY <1>8 DEF Left, Stage
  <1>9. CASE left = <<"requote", "restate", "fold", "mark">>
    BY <1>9 DEF Left, Stage
  <1>10. CASE left = <<"restate", "fold", "mark">>
    BY <1>10 DEF Left, Stage
  <1>11. CASE left = <<"fold", "mark">>
    BY <1>11 DEF Left, Stage
  <1>12. CASE left = <<"mark">>
    BY <1>12 DEF Left, Stage
  <1>13. CASE left = <<"append", "stored", "fold", "mark">>
    BY <1>13 DEF Left, Stage
  <1>14. CASE left = <<"stored", "fold", "mark">>
    BY <1>14 DEF Left, Stage
  <1>15. CASE left = <<"check", "cancel">>
    BY <1>15 DEF Left, Stage
  <1>16. CASE left = <<"cancel">>
    BY <1>16 DEF Left, Stage
  <1>17. CASE left = <<"scan", "propose">>
    BY <1>17 DEF Left, Stage
  <1>18. CASE left = <<"propose">>
    BY <1>18 DEF Left, Stage
  <1> QED
    BY <1>1, <1>2, <1>3, <1>4, <1>5, <1>6, <1>7, <1>8, <1>9, <1>10, <1>11, <1>12, <1>13, <1>14, <1>15, <1>16, <1>17, <1>18 DEF Left

(* As the handlers advance: one step, or two where one is skipped.         *)
LEMMA HandlerAdvances ==
    ASSUME NEW j, NEW left, Left(j, left), left # << >>
    PROVE  /\ SubSeq(left, 2, Len(left)) = Tail(left) /\ Left(j, Tail(left))
           /\ Head(left) \in {"exists", "requote"} =>
                /\ SubSeq(left, 3, Len(left)) = Tail(Tail(left)) /\ Left(j, Tail(Tail(left)))
           /\ Head(left) = "exists" => Stage(Tail(Tail(left))) = "mine"
           /\ Head(left) = "requote" => Stage(Tail(Tail(left))) = "fold"
  <1>1. /\ left \in Seq(Stages) /\ Left(j, Tail(left))
        /\ SubSeq(left, 2, Len(left)) = Tail(left)
    BY PartsAreSequences, HandlerGoesOn, TailIsTheRest
  <1>2. ASSUME Head(left) \in {"exists", "requote"}
        PROVE  /\ SubSeq(left, 3, Len(left)) = Tail(Tail(left)) /\ Left(j, Tail(Tail(left)))
               /\ Head(left) = "exists" => Stage(Tail(Tail(left))) = "mine"
               /\ Head(left) = "requote" => Stage(Tail(Tail(left))) = "fold"
    <2>1. Tail(left) # << >> /\ Head(Tail(left)) \in {"close", "restate"}
      BY <1>1, <1>2, HandlerGoesOn DEF Stage
    <2>2. Head(left) = "exists" => Head(Tail(left)) = "close"
      BY <1>1, <1>2, HandlerGoesOn DEF Stage
    <2>3. SubSeq(left, 3, Len(left)) = Tail(Tail(left))
      BY <1>1, <2>1, TailIsTheRest
    <2> QED  BY <1>1, <1>2, <2>1, <2>2, <2>3, HandlerGoesOn DEF Stage
  <1> QED  BY <1>1, <1>2

(* Which request is at which stage.                                        *)
LEMMA StageTellsTheRequest ==
    ASSUME NEW j, NEW left, Left(j, left), left # << >>
    PROVE  /\ Head(left) = "log" => j.op \in {"ask", "resume"}
           /\ Head(left) \in {"exists", "close", "mine"} => j.op = "resume" /\ j.reply # "declined"
           /\ Head(left) \in {"warrant", "answer", "followup", "requote", "restate"} => j.op = "answer"
           /\ Head(left) \in {"append", "stored"} => j.op = "explain"
           /\ Head(left) \in {"fold", "mark"} => j.op \in {"answer", "explain"}
           /\ Head(left) \in {"check", "cancel"} => j.op = "cancel"
           /\ Head(left) \in {"scan", "propose"} => j.op = "scan"
           /\ Head(left) \in Stages
  BY DEF Left, Stages
-----------------------------------------------------------------------------
(* Files.                                                                  *)
LEMMA FilesAre ==
    ASSUME NEW rows
    PROVE  rows \in Files <=> DOMAIN rows \subseteq Ids /\ rows \in [DOMAIN rows -> Rows]
  <1>1. ASSUME rows \in Files
        PROVE  DOMAIN rows \subseteq Ids /\ rows \in [DOMAIN rows -> Rows]
    <2>1. PICK S \in SUBSET Ids : rows \in [S -> Rows]
      BY <1>1 DEF Files
    <2> QED  BY <2>1
  <1>2. ASSUME DOMAIN rows \subseteq Ids, rows \in [DOMAIN rows -> Rows]
        PROVE  rows \in Files
    BY <1>2 DEF Files
  <1> QED  BY <1>1, <1>2

LEMMA EmptyIsAFile == Empty \in Files /\ DOMAIN Empty = {}
  <1>1. Empty \in [{} -> Rows] /\ DOMAIN Empty = {}
    BY DEF Empty
  <1> QED  BY <1>1, FilesAre

LEMMA ExtendedFile ==
    ASSUME NEW rows \in Files, NEW id \in Ids, NEW row \in Rows
    PROVE  /\ Extend(rows, id, row) \in Files
           /\ DOMAIN Extend(rows, id, row) = DOMAIN rows \cup {id}
           /\ Extend(rows, id, row)[id] = row
           /\ \A i \in DOMAIN rows \ {id} : Extend(rows, id, row)[i] = rows[i]
  <1>1. DOMAIN rows \subseteq Ids /\ rows \in [DOMAIN rows -> Rows]
    BY FilesAre
  <1>2. Extend(rows, id, row) \in [DOMAIN rows \cup {id} -> Rows]
    BY <1>1 DEF Extend
  <1> QED  BY <1>1, <1>2, FilesAre DEF Extend

LEMMA ReplacedInFile ==
    ASSUME NEW rows \in Files, NEW id \in DOMAIN rows, NEW row \in Rows
    PROVE  /\ [rows EXCEPT ![id] = row] \in Files
           /\ DOMAIN [rows EXCEPT ![id] = row] = DOMAIN rows
           /\ [rows EXCEPT ![id] = row][id] = row
           /\ \A i \in DOMAIN rows \ {id} : [rows EXCEPT ![id] = row][i] = rows[i]
  <1>1. DOMAIN rows \subseteq Ids /\ rows \in [DOMAIN rows -> Rows]
    BY FilesAre
  <1>2. [rows EXCEPT ![id] = row] \in [DOMAIN rows -> Rows]
    BY <1>1
  <1> QED  BY <1>1, <1>2, FilesAre

LEMMA NewRow ==
    ASSUME NEW id \in Ids, NEW status \in Statuses, NEW waits \in SUBSET Scanned
    PROVE  Row(id, status, waits) \in Rows
  BY DEF Row, Rows, Texts

(* What one step of a handler does to the file and to the threads.         *)
LEMMA StepOn ==
    ASSUME FileTyped, NEW c \in Callers, ThreadHolds(c), todo[c] # << >>, GoesOn(c, 1)
    PROVE  /\ FileTyped' /\ UNCHANGED <<ledger, torn, prepared, writing>>
           /\ todo' = [todo EXCEPT ![c] = Tail(todo[c])]
           /\ Left(job[c], Tail(todo[c]))
  <1>1. Left(job[c], todo[c])
    BY DEF ThreadHolds
  <1>2. SubSeq(todo[c], 2, Len(todo[c])) = Tail(todo[c]) /\ Left(job[c], Tail(todo[c]))
    BY <1>1, HandlerAdvances
  <1>3. Tail(todo[c]) \in Seq(Stages)
    BY <1>2, PartsAreSequences
  <1>4. /\ todo' = [todo EXCEPT ![c] = SubSeq(todo[c], 2, Len(todo[c]))]
        /\ UNCHANGED <<ledger, torn, prepared, writing>>
    BY DEF GoesOn
  <1> QED  BY <1>2, <1>3, <1>4 DEF FileTyped

LEMMA StepOver ==
    ASSUME FileTyped, NEW c \in Callers, ThreadHolds(c), todo[c] # << >>,
           Head(todo[c]) \in {"exists", "requote"}, GoesOn(c, 2)
    PROVE  /\ FileTyped' /\ UNCHANGED <<ledger, torn, prepared, writing>>
           /\ todo' = [todo EXCEPT ![c] = Tail(Tail(todo[c]))]
           /\ Left(job[c], Tail(Tail(todo[c])))
  <1>1. Left(job[c], todo[c])
    BY DEF ThreadHolds
  <1>2. /\ SubSeq(todo[c], 2 + 1, Len(todo[c])) = Tail(Tail(todo[c]))
        /\ Left(job[c], Tail(Tail(todo[c])))
    BY <1>1, HandlerAdvances
  <1>3. Tail(Tail(todo[c])) \in Seq(Stages)
    BY <1>2, PartsAreSequences
  <1> QED  BY <1>2, <1>3 DEF FileTyped, GoesOn

LEMMA StepOut ==
    ASSUME FileTyped, NEW c \in Callers, Returns(c)
    PROVE  /\ FileTyped' /\ UNCHANGED <<ledger, torn, writing>>
           /\ todo' = [todo EXCEPT ![c] = << >>]
           /\ prepared' = [prepared EXCEPT ![c] = Empty]
  <1>1. << >> \in Seq(Stages) /\ Empty \in Files
    BY EmptyIsAFile
  <1> QED  BY <1>1 DEF FileTyped, Returns

LEMMA StepWrites ==
    ASSUME FileTyped, NEW c \in Callers, NEW rows \in Files, Writes(c, rows)
    PROVE  /\ FileTyped' /\ UNCHANGED <<ledger, torn, todo>>
           /\ prepared' = [prepared EXCEPT ![c] = rows]
           /\ writing' = [writing EXCEPT ![c] = "opens"]
  BY DEF FileTyped, Writes

LEMMA StepEmpties ==
    ASSUME FileTyped, NEW c \in Callers, Empties(c)
    PROVE  /\ FileTyped' /\ UNCHANGED <<todo, prepared>>
           /\ ledger' = Empty /\ torn' = FALSE
           /\ writing[c] = "opens" /\ writing' = [writing EXCEPT ![c] = "fills"]
  BY EmptyIsAFile DEF FileTyped, Empties

LEMMA StepFills ==
    ASSUME FileTyped, NEW c \in Callers, ThreadHolds(c), GoOut(c)
    PROVE  /\ FileTyped' /\ ledger' = prepared[c]
           /\ torn' \in {FALSE, DOMAIN ledger # {} /\ ledger # prepared[c]}
           /\ todo[c] # << >> /\ todo' = [todo EXCEPT ![c] = Tail(todo[c])]
           /\ Left(job[c], Tail(todo[c]))
           /\ writing[c] = "fills" /\ writing' = [writing EXCEPT ![c] = "no"]
           /\ prepared' = [prepared EXCEPT ![c] = Empty]
  <1>1. Left(job[c], todo[c]) /\ todo[c] # << >>
    BY DEF ThreadHolds, GoOut, StageOf, Stage, WritingStages
  <1>2. Left(job[c], Tail(todo[c])) /\ Tail(todo[c]) \in Seq(Stages)
    BY <1>1, HandlerAdvances, PartsAreSequences
  <1>3. torn' \in BOOLEAN
    <2>1. torn' = FALSE \/ torn' = (DOMAIN ledger # {} /\ ledger # prepared[c])
      BY Zenon DEF GoOut
    <2>2. (DOMAIN ledger # {} /\ ledger # prepared[c]) \in BOOLEAN
      OBVIOUS
    <2> QED  BY Zenon, <2>1, <2>2
  <1> QED  BY <1>1, <1>2, <1>3, EmptyIsAFile DEF FileTyped, GoOut

(* A thread a step does not touch.                                         *)
LEMMA OtherThreads ==
    ASSUME NEW d \in Callers, ThreadHolds(d), scene' = scene, todo'[d] = todo[d],
           job'[d] = job[d], writing'[d] = writing[d], record'[d] = record[d]
    PROVE  ThreadHolds(d)'
  BY DEF ThreadHolds, StageOf, Id
-----------------------------------------------------------------------------
LEMMA ShapeFrom ==
    ASSUME LedgerShape, NEW c \in Callers, scene' = scene, FileTyped', RestTyped', ThreadHolds(c)',
           \A d \in Callers \ {c} :
               /\ todo'[d] = todo[d] /\ job'[d] = job[d]
               /\ writing'[d] = writing[d] /\ record'[d] = record[d]
    PROVE  LedgerShape'
  <1>1. \A d \in Callers \ {c} : ThreadHolds(d)'
    BY OtherThreads DEF LedgerShape, ThreadsHold
  <1> QED  BY <1>1 DEF LedgerShape, ThreadsHold

LEMMA ShapeAtFirst == LedgerInit /\ scene \in Scenes => LedgerShape
  <1> SUFFICES ASSUME LedgerInit, scene \in Scenes
               PROVE  LedgerShape
    OBVIOUS
  <1>1. FileTyped
    <2>1. << >> \in Seq(Stages) /\ Empty \in Files
      BY EmptyIsAFile
    <2> QED  BY <2>1 DEF FileTyped, LedgerInit
  <1>2. RestTyped
    <2>1. NoJob \in Jobs /\ << >> \in Seq(FoldEntries)
      BY DEF NoJob, Jobs
    <2> QED  BY <2>1 DEF RestTyped, LedgerInit
  <1>3. \A c \in Callers : ThreadHolds(c)
    BY DEF ThreadHolds, LedgerInit, StageOf, Stage, Left, WritingStages
  <1> QED  BY <1>1, <1>2, <1>3 DEF LedgerShape, ThreadsHold

LEMMA EnterKeepsShape ==
    ASSUME LedgerShape, scene' = scene, NEW c \in Callers,
           NEW op \in {"ask", "resume", "answer", "explain", "cancel", "scan"},
           NEW id \in Ids \cup {"none"},
           NEW reply \in {"none", "answered", "deferred", "declined", "text", "blank", "elsewhere"},
           JobFits([op |-> op, id |-> id, reply |-> reply]),
           Enter(c, op, id, reply), paused' \subseteq Live
    PROVE  LedgerShape'
  <1> DEFINE j == [op |-> op, id |-> id, reply |-> reply]
  <1>1. FileTyped /\ RestTyped /\ ThreadHolds(c) /\ j \in Jobs
    BY DEF LedgerShape, ThreadsHold, Jobs
  <1>2. writing[c] = "no"
    BY <1>1 DEF ThreadHolds, Enter, StageOf, Stage, WritingStages, FileTyped
  <1>3. /\ Left(j, Handler(op, reply)) /\ Handler(op, reply) # << >>
        /\ Head(Handler(op, reply)) \in {"log", "warrant", "append", "check", "scan"}
    BY HandlerStarts
  <1>4. Handler(op, reply) \in Seq(Stages)
    BY <1>3, PartsAreSequences
  <1> HIDE DEF j
  <1>5. todo' = [todo EXCEPT ![c] = Handler(op, reply)] /\ job' = [job EXCEPT ![c] = j]
    BY DEF Enter, j
  <1>6. FileTyped'
    BY <1>1, <1>4, <1>5 DEF FileTyped, Enter
  <1>7. RestTyped'
    BY <1>1, <1>5 DEF RestTyped, Enter, history
  <1>8. /\ todo'[c] = Handler(op, reply) /\ job'[c] = j /\ record'[c] = {} /\ writing'[c] = "no"
        /\ c \in scene.callers
    BY <1>1, <1>2, <1>5 DEF FileTyped, RestTyped, Enter
  <1>9. StageOf(c)' \in {"log", "warrant", "append", "check", "scan"}
    BY <1>3, <1>8 DEF StageOf, Stage
  <1>10. ThreadHolds(c)'
    BY <1>3, <1>8, <1>9 DEF ThreadHolds, j
  <1> QED
    BY <1>1, <1>5, <1>6, <1>7, <1>10, ShapeFrom DEF FileTyped, RestTyped, Enter

LEMMA EntersKeepShape ==
    ASSUME LedgerShape, scene' = scene, NEW c \in Callers, EntersAny(c)
    PROVE  LedgerShape'
  <1>0. paused \subseteq Live /\ logged \subseteq Ids
    BY DEF LedgerShape, RestTyped
  <1>1. CASE AskUser(c)
    <2>1. PICK q \in Live : Enter(c, "ask", q, "none") /\ UNCHANGED paused
      BY <1>1 DEF AskUser
    <2>2. JobFits([op |-> "ask", id |-> q, reply |-> "none"])
      BY DEF JobFits
    <2> QED  BY <1>0, <2>1, <2>2, EnterKeepsShape DEF Ids
  <1>2. CASE ResumeTurn(c)
    <2>1. PICK q \in paused, reply \in {"answered", "deferred", "declined"} :
            Enter(c, "resume", q, reply) /\ paused' = paused \ {q}
      BY <1>2 DEF ResumeTurn
    <2>2. JobFits([op |-> "resume", id |-> q, reply |-> reply])
      BY <1>0 DEF JobFits
    <2> QED  BY <1>0, <2>1, <2>2, EnterKeepsShape DEF Ids
  <1>3. CASE answer_clarification_route(c)
    <2>1. PICK id \in Ids, reply \in {"text", "blank", "elsewhere"} :
            /\ reply = "elsewhere" => id \in DOMAIN JoinOf
            /\ Enter(c, "answer", id, reply) /\ UNCHANGED paused
      BY <1>3 DEF answer_clarification_route
    <2>2. JobFits([op |-> "answer", id |-> id, reply |-> reply])
      BY <2>1 DEF JobFits
    <2> QED  BY <1>0, <2>1, <2>2, EnterKeepsShape
  <1>4. CASE clarification_from_refusal_route(c)
    <2>1. PICK id \in Explained : Enter(c, "explain", id, "text") /\ UNCHANGED paused
      BY <1>4 DEF clarification_from_refusal_route
    <2>2. JobFits([op |-> "explain", id |-> id, reply |-> "text"])
      BY DEF JobFits
    <2> QED  BY <1>0, <2>1, <2>2, EnterKeepsShape DEF Ids
  <1>5. CASE cancel_clarification_route(c)
    <2>1. PICK id \in logged : Enter(c, "cancel", id, "none") /\ UNCHANGED paused
      BY <1>5 DEF cancel_clarification_route
    <2>2. JobFits([op |-> "cancel", id |-> id, reply |-> "none"])
      BY <1>0 DEF JobFits
    <2> QED  BY <1>0, <2>1, <2>2, EnterKeepsShape
  <1>6. CASE elicitation_scan_route(c)
    <2>1. JobFits([op |-> "scan", id |-> "none", reply |-> "none"])
      BY DEF JobFits
    <2> QED  BY <1>0, <1>6, <2>1, EnterKeepsShape DEF elicitation_scan_route
  <1> QED  BY <1>1, <1>2, <1>3, <1>4, <1>5, <1>6 DEF EntersAny

LEMMA OpensKeepsShape ==
    ASSUME LedgerShape, scene' = scene, NEW c \in Callers, Opens(c)
    PROVE  LedgerShape'
  <1>1. FileTyped /\ RestTyped /\ ThreadHolds(c)
    BY DEF LedgerShape, ThreadsHold
  <1>2. /\ FileTyped' /\ UNCHANGED <<todo, prepared>> /\ writing[c] = "opens"
        /\ writing' = [writing EXCEPT ![c] = "fills"]
    BY <1>1, StepEmpties DEF Opens
  <1>3. RestTyped'
    BY <1>1 DEF RestTyped, Opens, Others, history
  <1>4. ThreadHolds(c)'
    BY <1>1, <1>2 DEF ThreadHolds, StageOf, Id, Opens, Others, FileTyped
  <1> QED  BY <1>2, <1>3, <1>4, ShapeFrom DEF Opens, Others, FileTyped

LEMMA FillsKeepsShape ==
    ASSUME LedgerShape, scene' = scene, NEW c \in Callers, Fills(c)
    PROVE  LedgerShape'
  <1>1. FileTyped /\ RestTyped /\ ThreadHolds(c)
    BY DEF LedgerShape, ThreadsHold
  <1>2. /\ FileTyped' /\ ledger' = prepared[c] /\ todo[c] # << >>
        /\ todo' = [todo EXCEPT ![c] = Tail(todo[c])] /\ Left(job[c], Tail(todo[c]))
        /\ writing[c] = "fills" /\ writing' = [writing EXCEPT ![c] = "no"]
    BY <1>1, StepFills DEF Fills
  <1>3. RestTyped'
    <2>1. DOMAIN prepared[c] \subseteq Ids /\ AnsweredIn(prepared[c]) \subseteq Ids
      BY <1>1, FilesAre DEF FileTyped, AnsweredIn
    <2>2. paused' \subseteq Live
      BY <1>1, <1>2 DEF Fills, PausesWhenAsked, RestTyped, ThreadHolds, JobFits, Id
    <2> QED  BY <1>1, <2>1, <2>2 DEF RestTyped, Fills
  <1>4. /\ todo'[c] = Tail(todo[c]) /\ job'[c] = job[c] /\ record'[c] = record[c]
        /\ writing'[c] = "no"
    BY <1>1, <1>2 DEF FileTyped, Fills
  <1>5. ThreadHolds(c)'
    <2>1. /\ StageOf(c)' = Stage(Tail(todo[c])) /\ StageOf(c) = Head(todo[c])
          /\ StageOf(c) \in WritingStages
      <3>1. StageOf(c)' = Stage(Tail(todo[c]))
        BY <1>4 DEF StageOf
      <3>2. StageOf(c) = Head(todo[c])
        BY <1>2 DEF StageOf, Stage
      <3>3. StageOf(c) \in WritingStages
        BY <1>1, <1>2 DEF ThreadHolds
      <3> QED  BY <3>1, <3>2, <3>3
    <2>2. Left(job[c], todo[c])
      BY <1>1 DEF ThreadHolds
    <2>3. /\ StageOf(c)' \in {"none", "exists", "mine", "followup", "requote", "fold", "stored"}
          /\ StageOf(c)' \in {"followup", "requote", "fold", "stored"} =>
               StageOf(c) \in {"answer", "followup", "restate", "append"}
      BY <1>2, <2>1, <2>2, HandlerGoesOn DEF WritingStages, Stage
    <2> QED  BY <1>1, <1>2, <1>4, <2>1, <2>3 DEF ThreadHolds, Id
  <1> QED  BY <1>1, <1>2, <1>3, <1>4, <1>5, ShapeFrom DEF Fills, FileTyped

(* A step that reads, and goes on or returns.                              *)
LEMMA GoingOnKeepsShape ==
    ASSUME LedgerShape, scene' = scene, NEW c \in Callers, todo[c] # << >>, writing[c] = "no",
           GoesOn(c, 1), UNCHANGED job, RestTyped',
           \A d \in Callers \ {c} : record'[d] = record[d],
           \/ Head(todo[c]) \in {"log", "exists", "close", "mine", "scan"}
           \/ Head(todo[c]) = "append" /\ record'[c] = {}
           \/ Head(todo[c]) \in {"stored", "followup", "fold"} /\ record'[c] \subseteq Rows
           \/ Head(todo[c]) = "warrant" /\ record'[c] # {} /\ record'[c] \subseteq [unmet : SUBSET Scanned]
           \/ Head(todo[c]) = "requote" /\ record'[c] \subseteq Rows /\ Id(c) \in DOMAIN EngOf
           \/ Head(todo[c]) = "check" /\ Id(c) \in Ranking
    PROVE  LedgerShape'
  <1>1. FileTyped /\ RestTyped /\ ThreadHolds(c)
    BY DEF LedgerShape, ThreadsHold
  <1>2. /\ FileTyped' /\ UNCHANGED <<ledger, torn, prepared, writing>>
        /\ todo' = [todo EXCEPT ![c] = Tail(todo[c])] /\ Left(job[c], Tail(todo[c]))
    BY <1>1, StepOn
  <1>3. todo'[c] = Tail(todo[c]) /\ StageOf(c)' = Stage(Tail(todo[c])) /\ StageOf(c) = Head(todo[c])
    <2>1. todo'[c] = Tail(todo[c])
      BY <1>1, <1>2 DEF FileTyped
    <2>2. StageOf(c)' = Stage(Tail(todo[c]))
      BY <2>1 DEF StageOf
    <2> QED  BY <2>1, <2>2 DEF StageOf, Stage
  <1>4. Left(job[c], todo[c])
    BY <1>1 DEF ThreadHolds
  <1>5. ThreadHolds(c)'
    BY <1>1, <1>2, <1>3, <1>4, HandlerGoesOn DEF ThreadHolds, Id, Stage
  <1> QED  BY <1>1, <1>2, <1>5, ShapeFrom DEF FileTyped

LEMMA GoingOverKeepsShape ==
    ASSUME LedgerShape, scene' = scene, NEW c \in Callers, todo[c] # << >>, writing[c] = "no",
           GoesOn(c, 2), UNCHANGED <<job, record>>, RestTyped',
           Head(todo[c]) \in {"exists", "requote"}
    PROVE  LedgerShape'
  <1>1. FileTyped /\ RestTyped /\ ThreadHolds(c)
    BY DEF LedgerShape, ThreadsHold
  <1>2. /\ FileTyped' /\ UNCHANGED <<ledger, torn, prepared, writing>>
        /\ todo' = [todo EXCEPT ![c] = Tail(Tail(todo[c]))] /\ Left(job[c], Tail(Tail(todo[c])))
    BY <1>1, StepOver
  <1>3. /\ todo'[c] = Tail(Tail(todo[c])) /\ StageOf(c)' = Stage(Tail(Tail(todo[c])))
        /\ StageOf(c) = Head(todo[c])
    <2>1. todo'[c] = Tail(Tail(todo[c]))
      BY <1>1, <1>2 DEF FileTyped
    <2>2. StageOf(c)' = Stage(Tail(Tail(todo[c])))
      BY <2>1 DEF StageOf
    <2> QED  BY <2>1, <2>2 DEF StageOf, Stage
  <1>4. Left(job[c], todo[c])
    BY <1>1 DEF ThreadHolds
  <1>5. ThreadHolds(c)'
    BY <1>1, <1>2, <1>3, <1>4, HandlerAdvances DEF ThreadHolds, Id
  <1> QED  BY <1>1, <1>2, <1>5, ShapeFrom DEF FileTyped

LEMMA ReturningKeepsShape ==
    ASSUME LedgerShape, scene' = scene, NEW c \in Callers, todo[c] # << >>, writing[c] = "no",
           Returns(c), UNCHANGED <<job, record>>, RestTyped'
    PROVE  LedgerShape'
  <1>1. FileTyped /\ RestTyped /\ ThreadHolds(c)
    BY DEF LedgerShape, ThreadsHold
  <1>2. /\ FileTyped' /\ UNCHANGED <<ledger, torn, writing>>
        /\ todo' = [todo EXCEPT ![c] = << >>] /\ prepared' = [prepared EXCEPT ![c] = Empty]
    BY <1>1, StepOut
  <1>3. todo'[c] = << >> /\ StageOf(c)' = "none"
    BY <1>1, <1>2 DEF FileTyped, StageOf, Stage
  <1>4. ThreadHolds(c)'
    BY <1>1, <1>2, <1>3 DEF ThreadHolds, Left
  <1> QED  BY <1>1, <1>2, <1>4, ShapeFrom DEF FileTyped

LEMMA WritingKeepsShape ==
    ASSUME LedgerShape, scene' = scene, NEW c \in Callers, todo[c] # << >>, writing[c] = "no",
           NEW rows \in Files, Writes(c, rows), UNCHANGED job, RestTyped',
           \A d \in Callers \ {c} : record'[d] = record[d],
           \/ Head(todo[c]) \in {"log", "close", "followup", "restate", "mark", "cancel", "propose"}
              /\ UNCHANGED record
           \/ Head(todo[c]) \in {"answer", "append"} /\ record'[c] \subseteq Rows
    PROVE  LedgerShape'
  <1>1. FileTyped /\ RestTyped /\ ThreadHolds(c)
    BY DEF LedgerShape, ThreadsHold
  <1>2. /\ FileTyped' /\ UNCHANGED <<ledger, torn, todo>>
        /\ prepared' = [prepared EXCEPT ![c] = rows]
        /\ writing' = [writing EXCEPT ![c] = "opens"]
    BY <1>1, StepWrites
  <1>3. writing'[c] = "opens" /\ StageOf(c)' = StageOf(c) /\ StageOf(c) = Head(todo[c])
    BY <1>1, <1>2 DEF FileTyped, StageOf, Stage
  <1>4. ThreadHolds(c)'
    BY <1>1, <1>2, <1>3 DEF ThreadHolds, Id, WritingStages
  <1> QED  BY <1>1, <1>2, <1>4, ShapeFrom DEF FileTyped

LEMMA ChangedRow ==
    ASSUME NEW row \in Rows
    PROVE  /\ \A s \in Statuses : [row EXCEPT !.status = s] \in Rows
           /\ [row EXCEPT !.converted = TRUE] \in Rows
           /\ \A t \in Texts : [row EXCEPT !.text = t] \in Rows
           /\ \A s \in Statuses, u \in SUBSET Scanned : [row EXCEPT !.status = s, !.unmet = u] \in Rows
  BY DEF Rows

LEMMA RowOnFile ==
    ASSUME NEW rows \in Files, NEW i \in DOMAIN rows
    PROVE  rows[i] \in Rows /\ i \in Ids
  BY FilesAre

LEMMA RestStaysTyped ==
    ASSUME RestTyped, UNCHANGED <<record, paused, Others>>
    PROVE  RestTyped'
  BY DEF RestTyped, Others, history

(* Whether a step reads at its stage.                                      *)
LEMMA ReadsAt ==
    ASSUME NEW c, NEW stage, At(c, stage)
    PROVE  todo[c] # << >> /\ writing[c] = "no" /\ Head(todo[c]) = stage /\ StageOf(c) = stage
  BY DEF At, StageOf, Stage

LEMMA WarrantFits ==
    ASSUME NEW rows \in Files, NEW id
    PROVE  unmet_prerequisites(rows, id) \in SUBSET Scanned
  BY FilesAre DEF unmet_prerequisites, Rows

LEMMA AnsweredRowFits ==
    ASSUME LedgerShape, NEW c \in Callers, Reads(c, "answer"), Id(c) \in DOMAIN ledger
    PROVE  AnsweredRow(c) \in Rows
  <1>1. /\ record[c] # {} /\ record[c] \subseteq [unmet : SUBSET Scanned]
        /\ ledger[Id(c)] \in Rows
    BY ReadsAt, RowOnFile DEF LedgerShape, ThreadsHold, ThreadHolds, Reads, FileTyped
  <1>2. (CHOOSE r \in record[c] : TRUE) \in record[c]
    BY <1>1
  <1>3. (CHOOSE r \in record[c] : TRUE).unmet \in SUBSET Scanned
    BY <1>1, <1>2
  <1>4. \A w \in SUBSET Scanned : [ledger[Id(c)] EXCEPT !.status = "answered", !.unmet = w] \in Rows
    BY <1>1, ChangedRow DEF Statuses
  <1> DEFINE u == (CHOOSE r \in record[c] : TRUE).unmet
  <1>5. AnsweredRow(c) = [ledger[Id(c)] EXCEPT !.status = "answered", !.unmet = u]
    BY DEF AnsweredRow
  <1>6. u \in SUBSET Scanned
    BY <1>3
  <1> HIDE DEF u
  <1>7. [ledger[Id(c)] EXCEPT !.status = "answered", !.unmet = u] \in Rows
    BY Zenon, <1>4, <1>6
  <1> QED  BY Zenon, <1>5, <1>7

LEMMA AnsweringKeepsShape ==
    ASSUME LedgerShape, scene' = scene, NEW c \in Callers,
           Warrant(c) \/ Answer(c) \/ Followup(c) \/ Requote(c) \/ Restate(c) \/ Mark(c)
    PROVE  LedgerShape'
  <1>0. FileTyped /\ RestTyped /\ ThreadHolds(c) /\ Left(job[c], todo[c])
    BY DEF LedgerShape, ThreadsHold, ThreadHolds
  <1>1. CASE Warrant(c)
    <2>1. todo[c] # << >> /\ writing[c] = "no" /\ Head(todo[c]) = "warrant"
      BY <1>1, ReadsAt DEF Warrant, Reads
    <2>2. unmet_prerequisites(ledger, Id(c)) \in SUBSET Scanned
      BY <1>0, WarrantFits DEF FileTyped
    <2>3. /\ record' = [record EXCEPT ![c] = {[unmet |-> unmet_prerequisites(ledger, Id(c))]}]
          /\ record'[c] = {[unmet |-> unmet_prerequisites(ledger, Id(c))]}
          /\ UNCHANGED <<paused, Others>> /\ GoesOn(c, 1)
      BY <1>0, <1>1 DEF Warrant, RestTyped
    <2>4. RestTyped'
      BY <1>0, <2>2, <2>3 DEF RestTyped, Others, history
    <2>5. /\ record'[c] # {} /\ record'[c] \subseteq [unmet : SUBSET Scanned]
          /\ \A d \in Callers \ {c} : record'[d] = record[d]
      <3>1. [unmet |-> unmet_prerequisites(ledger, Id(c))] \in [unmet : SUBSET Scanned]
        BY <2>2
      <3>2. record'[c] # {} /\ record'[c] \subseteq [unmet : SUBSET Scanned]
        BY <2>3, <3>1
      <3>3. \A d \in Callers \ {c} : record'[d] = record[d]
        BY <1>0, <2>3 DEF RestTyped
      <3> QED  BY <3>2, <3>3
    <2>6. GoesOn(c, 1) /\ UNCHANGED job
      BY <2>3 DEF Others
    <2> QED  BY <2>1, <2>4, <2>5, <2>6, GoingOnKeepsShape
  <1>2. CASE Answer(c)
    <2>1. todo[c] # << >> /\ writing[c] = "no" /\ Head(todo[c]) = "answer" /\ Reads(c, "answer")
      BY <1>2, ReadsAt DEF Answer, Reads
    <2>2. CASE Id(c) \in DOMAIN ledger
      <3>1. AnsweredRow(c) \in Rows
        BY <2>1, <2>2, AnsweredRowFits
      <3>2. [ledger EXCEPT ![Id(c)] = AnsweredRow(c)] \in Files
        BY <1>0, <2>2, <3>1, ReplacedInFile DEF FileTyped
      <3>3. /\ record' = [record EXCEPT ![c] = {AnsweredRow(c)}]
            /\ Writes(c, [ledger EXCEPT ![Id(c)] = AnsweredRow(c)])
            /\ UNCHANGED <<paused, Others>>
        BY <1>2, <2>2 DEF Answer, Replaces
      <3>4. RestTyped' /\ record'[c] \subseteq Rows
        BY <1>0, <3>1, <3>3 DEF RestTyped, Others, history
      <3> QED  BY <1>0, <2>1, <3>2, <3>3, <3>4, WritingKeepsShape DEF Others, RestTyped
    <2>3. CASE Id(c) \notin DOMAIN ledger
      <3>1. Returns(c) /\ UNCHANGED <<record, paused, Others>>
        BY <1>2, <2>3 DEF Answer, Replaces
      <3> QED  BY <1>0, <2>1, <3>1, RestStaysTyped, ReturningKeepsShape DEF Others
    <2> QED  BY <2>2, <2>3
  <1>3. CASE Followup(c)
    <2>1. /\ todo[c] # << >> /\ writing[c] = "no" /\ Head(todo[c]) = "followup"
          /\ record[c] \subseteq Rows /\ job[c].op = "answer" /\ JobFits(job[c])
      BY <1>0, <1>3, ReadsAt, StageTellsTheRequest DEF Followup, Reads, ThreadHolds
    <2>2. UNCHANGED <<record, paused, Others>> /\ UNCHANGED job /\ RestTyped'
      BY <1>0, <1>3, RestStaysTyped DEF Followup, Others
    <2>3. CASE job[c].reply = "elsewhere" /\ JoinOf[Id(c)] \notin DOMAIN ledger
      <3>1. JoinOf[Id(c)] \in Ids
        BY <2>1, <2>3 DEF JobFits, Id, Ids, Joins
      <3>2. Row(JoinOf[Id(c)], "open", {}) \in Rows
        BY <3>1, NewRow DEF Statuses
      <3>3. Extend(ledger, JoinOf[Id(c)], Row(JoinOf[Id(c)], "open", {})) \in Files
        BY <1>0, <3>1, <3>2, ExtendedFile DEF FileTyped
      <3> QED  BY <1>3, <2>1, <2>2, <2>3, <3>3, WritingKeepsShape DEF Followup
    <2>4. CASE ~(job[c].reply = "elsewhere" /\ JoinOf[Id(c)] \notin DOMAIN ledger)
      <3>1. GoesOn(c, 1)
        BY <1>3, <2>4 DEF Followup
      <3> QED  BY <2>1, <2>2, <3>1, GoingOnKeepsShape
    <2> QED  BY <2>3, <2>4
  <1>4. CASE Requote(c)
    <2>1. /\ todo[c] # << >> /\ writing[c] = "no" /\ Head(todo[c]) = "requote"
          /\ record[c] \subseteq Rows
      BY <1>0, <1>4, ReadsAt DEF Requote, Reads, ThreadHolds
    <2>2. UNCHANGED <<record, paused, Others>> /\ UNCHANGED job /\ RestTyped'
      BY <1>0, <1>4, RestStaysTyped DEF Requote, Others
    <2>3. (GoesOn(c, 1) /\ Id(c) \in DOMAIN EngOf) \/ GoesOn(c, 2)
      BY <1>4 DEF Requote
    <2> QED  BY <2>1, <2>2, <2>3, GoingOnKeepsShape, GoingOverKeepsShape
  <1>5. CASE Restate(c)
    <2>1. /\ todo[c] # << >> /\ writing[c] = "no" /\ Head(todo[c]) = "restate"
          /\ Id(c) \in DOMAIN EngOf
      BY <1>0, <1>5, ReadsAt DEF Restate, Reads, ThreadHolds
    <2>2. UNCHANGED <<record, paused, Others>> /\ UNCHANGED job /\ RestTyped'
      BY <1>0, <1>5, RestStaysTyped DEF Restate, Others
    <2>3. CASE EngOf[Id(c)] \in DOMAIN ledger
      <3>1. ledger[EngOf[Id(c)]] \in Rows /\ Requoted[EngOf[Id(c)]] \in Texts
        BY <1>0, <2>1, <2>3, RowOnFile, LedgerAssumption DEF FileTyped, Texts
      <3>2. [ledger EXCEPT ![EngOf[Id(c)]].text = Requoted[EngOf[Id(c)]]] \in Files
        <4>1. [ledger[EngOf[Id(c)]] EXCEPT !.text = Requoted[EngOf[Id(c)]]] \in Rows
          BY <3>1, ChangedRow
        <4>2. [ledger EXCEPT ![EngOf[Id(c)]] =
                 [ledger[EngOf[Id(c)]] EXCEPT !.text = Requoted[EngOf[Id(c)]]]] \in Files
          BY <1>0, <2>3, <4>1, ReplacedInFile DEF FileTyped
        <4> QED  BY <4>2
      <3> QED  BY <1>5, <2>1, <2>2, <2>3, <3>2, WritingKeepsShape DEF Restate
    <2>4. CASE EngOf[Id(c)] \notin DOMAIN ledger
      BY <1>5, <2>1, <2>2, <2>4, ReturningKeepsShape DEF Restate
    <2> QED  BY <2>3, <2>4
  <1>6. CASE Mark(c)
    <2>1. todo[c] # << >> /\ writing[c] = "no" /\ Head(todo[c]) = "mark"
      BY <1>6, ReadsAt DEF Mark, Reads
    <2>2. UNCHANGED <<record, paused, Others>> /\ UNCHANGED job /\ RestTyped'
      BY <1>0, <1>6, RestStaysTyped DEF Mark, Others
    <2>3. CASE Id(c) \in DOMAIN ledger
      <3>1. [ledger EXCEPT ![Id(c)] = [ledger[Id(c)] EXCEPT !.converted = TRUE]] \in Files
        BY <1>0, <2>3, RowOnFile, ReplacedInFile, ChangedRow DEF FileTyped
      <3>2. Writes(c, [ledger EXCEPT ![Id(c)] = [ledger[Id(c)] EXCEPT !.converted = TRUE]])
        BY <1>6, <2>3 DEF Mark, Replaces
      <3> QED  BY <2>1, <2>2, <3>1, <3>2, WritingKeepsShape
    <2>4. CASE Id(c) \notin DOMAIN ledger
      <3>1. Returns(c)
        BY <1>6, <2>4 DEF Mark, Replaces
      <3> QED  BY <2>1, <2>2, <3>1, ReturningKeepsShape
    <2> QED  BY <2>3, <2>4
  <1> QED  BY <1>1, <1>2, <1>3, <1>4, <1>5, <1>6

LEMMA FoldingKeepsShape ==
    ASSUME LedgerShape, scene' = scene, NEW c \in Callers, Fold(c)
    PROVE  LedgerShape'
  <1>0. FileTyped /\ RestTyped /\ ThreadHolds(c) /\ Left(job[c], todo[c])
    BY DEF LedgerShape, ThreadsHold, ThreadHolds
  <1>1. /\ todo[c] # << >> /\ writing[c] = "no" /\ Head(todo[c]) = "fold"
        /\ record[c] \subseteq Rows /\ Id(c) \in Ids
    BY <1>0, ReadsAt, StageTellsTheRequest DEF Fold, ThreadHolds, JobFits, Id, Ids
  <1>2. UNCHANGED <<record, paused, job, jobs, crashes, logged, wasAnswered>>
    BY DEF Fold
  <1>3. PICK row \in record[c] :
          IF row.converted \/ Id(c) \in Ranking \/ job[c].reply = "blank"
            THEN Returns(c) /\ UNCHANGED <<corpus, folded>>
            ELSE /\ Folds(row.text, Warranted(row))
                 /\ folded' = [folded EXCEPT ![Id(c)] =
                                 Append(folded[Id(c)], [text |-> row.text, status |-> Warranted(row)])]
                 /\ GoesOn(c, 1)
    BY DEF Fold
  <1>4. CASE Returns(c) /\ UNCHANGED <<corpus, folded>>
    <2>1. RestTyped'
      BY <1>0, <1>2, <1>4 DEF RestTyped
    <2> QED  BY <1>1, <1>2, <1>4, <2>1, ReturningKeepsShape
  <1>5. CASE /\ Folds(row.text, Warranted(row))
             /\ folded' = [folded EXCEPT ![Id(c)] =
                             Append(folded[Id(c)], [text |-> row.text, status |-> Warranted(row)])]
             /\ GoesOn(c, 1)
    <2>1. row.text \in Texts /\ Warranted(row) \in {"draft", "proposed"}
      BY <1>1 DEF Rows, Warranted
    <2>2. corpus' \in [Texts -> {"none", "draft", "proposed", "certified"}]
      BY <1>0, <1>5, <2>1 DEF Folds, RestTyped
    <2>3. [text |-> row.text, status |-> Warranted(row)] \in FoldEntries
      BY <2>1 DEF FoldEntries
    <2>4. Append(folded[Id(c)], [text |-> row.text, status |-> Warranted(row)]) \in Seq(FoldEntries)
      BY <1>0, <1>1, <2>3, AppendProperties DEF RestTyped
    <2>5. folded' \in [Ids -> Seq(FoldEntries)]
      BY <1>0, <1>5, <2>4 DEF RestTyped
    <2>6. RestTyped'
      BY <1>0, <1>2, <2>2, <2>5 DEF RestTyped
    <2> QED  BY <1>1, <1>2, <1>5, <2>6, GoingOnKeepsShape
  <1> QED  BY <1>3, <1>4, <1>5

LEMMA AskingKeepsShape ==
    ASSUME LedgerShape, scene' = scene, NEW c \in Callers,
           Log(c) \/ Exists(c) \/ Close(c) \/ Mine(c)
    PROVE  LedgerShape'
  <1>0. FileTyped /\ RestTyped /\ ThreadHolds(c) /\ Left(job[c], todo[c])
    BY DEF LedgerShape, ThreadsHold, ThreadHolds
  <1>1. CASE Log(c)
    <2>1. todo[c] # << >> /\ writing[c] = "no" /\ Head(todo[c]) = "log" /\ Id(c) \in Ids
      BY <1>0, <1>1, ReadsAt, StageTellsTheRequest DEF Log, Reads, ThreadHolds, JobFits, Id, Ids
    <2>2. UNCHANGED <<record, Others>> /\ UNCHANGED job /\ RestTyped'
      <3>1. UNCHANGED <<record, Others>>
        BY <1>1 DEF Log
      <3>2. job[c].op = "ask" => Id(c) \in Live
        BY <1>0, <2>1 DEF ThreadHolds, JobFits, Id
      <3>3. paused' \subseteq Live
        BY <1>0, <1>1, <3>2 DEF Log, PausesWhenAsked, RestTyped
      <3> QED  BY <1>0, <3>1, <3>3 DEF RestTyped, Others, history
    <2>3. Row(Id(c), "open", {}) \in Rows
      BY <2>1, NewRow DEF Statuses
    <2>4. Extend(ledger, Id(c), Row(Id(c), "open", {})) \in Files
      BY <1>0, <2>1, <2>3, ExtendedFile DEF FileTyped
    <2>5. GoesOn(c, 1) \/ Writes(c, Extend(ledger, Id(c), Row(Id(c), "open", {})))
      BY <1>1 DEF Log
    <2> QED  BY <2>1, <2>2, <2>4, <2>5, GoingOnKeepsShape, WritingKeepsShape
  <1>2. CASE Exists(c)
    <2>1. todo[c] # << >> /\ writing[c] = "no" /\ Head(todo[c]) = "exists"
      BY <1>2, ReadsAt DEF Exists, Reads
    <2>2. UNCHANGED <<record, paused, Others>> /\ UNCHANGED job /\ RestTyped'
      BY <1>0, <1>2, RestStaysTyped DEF Exists, Others
    <2>3. GoesOn(c, 1) \/ GoesOn(c, 2)
      BY <1>2 DEF Exists
    <2> QED  BY <2>1, <2>2, <2>3, GoingOnKeepsShape, GoingOverKeepsShape
  <1>3. CASE Close(c)
    <2>1. /\ todo[c] # << >> /\ writing[c] = "no" /\ Head(todo[c]) = "close"
          /\ job[c].reply \in {"answered", "deferred"}
      BY <1>0, <1>3, ReadsAt, StageTellsTheRequest DEF Close, Reads, ThreadHolds, JobFits
    <2>2. UNCHANGED <<record, paused, Others>> /\ UNCHANGED job /\ RestTyped'
      BY <1>0, <1>3, RestStaysTyped DEF Close, Others
    <2>3. CASE Id(c) \in DOMAIN ledger
      <3>1. [ledger EXCEPT ![Id(c)] = [ledger[Id(c)] EXCEPT !.status = job[c].reply]] \in Files
        BY <1>0, <2>1, <2>3, RowOnFile, ReplacedInFile, ChangedRow DEF FileTyped, Statuses
      <3>2. Writes(c, [ledger EXCEPT ![Id(c)] = [ledger[Id(c)] EXCEPT !.status = job[c].reply]])
        BY <1>3, <2>3 DEF Close, Replaces
      <3> QED  BY <2>1, <2>2, <3>1, <3>2, WritingKeepsShape
    <2>4. CASE Id(c) \notin DOMAIN ledger
      <3>1. Returns(c)
        BY <1>3, <2>4 DEF Close, Replaces
      <3> QED  BY <2>1, <2>2, <3>1, ReturningKeepsShape
    <2> QED  BY <2>3, <2>4
  <1>4. CASE Mine(c)
    <2>1. todo[c] # << >> /\ writing[c] = "no" /\ Head(todo[c]) = "mine" /\ Id(c) \in Ids
      BY <1>0, <1>4, ReadsAt, StageTellsTheRequest DEF Mine, ThreadHolds, JobFits, Id, Ids
    <2>2. UNCHANGED <<record, paused, job, jobs, crashes, history>> /\ GoesOn(c, 1)
      BY <1>4 DEF Mine
    <2>3. corpus' = corpus \/ Folds(TextOf[Id(c)], "proposed")
      BY <1>4 DEF Mine
    <2>4. corpus' \in [Texts -> {"none", "draft", "proposed", "certified"}]
      BY <1>0, <2>1, <2>3 DEF Folds, RestTyped, Texts
    <2>5. RestTyped'
      BY <1>0, <2>2, <2>4 DEF RestTyped, history
    <2> QED  BY <2>1, <2>2, <2>5, GoingOnKeepsShape
  <1> QED  BY <1>1, <1>2, <1>3, <1>4

LEMMA ExplainingKeepsShape ==
    ASSUME LedgerShape, scene' = scene, NEW c \in Callers,
           AppendIfNew(c) \/ Stored(c) \/ Check(c) \/ Cancel(c)
    PROVE  LedgerShape'
  <1>0. FileTyped /\ RestTyped /\ ThreadHolds(c) /\ Left(job[c], todo[c])
    BY DEF LedgerShape, ThreadsHold, ThreadHolds
  <1>1. CASE AppendIfNew(c)
    <2> DEFINE row == Row(Id(c), "answered", {})
    <2>1. /\ todo[c] # << >> /\ writing[c] = "no" /\ Head(todo[c]) = "append" /\ Id(c) \in Ids
          /\ record[c] = {}
      BY <1>0, <1>1, ReadsAt, StageTellsTheRequest DEF AppendIfNew, Reads, ThreadHolds, JobFits, Id, Ids
    <2>2. row \in Rows
      BY <2>1, NewRow DEF Statuses
    <2>3. Extend(ledger, Id(c), row) \in Files
      BY <1>0, <2>1, <2>2, ExtendedFile DEF FileTyped
    <2>4. /\ UNCHANGED <<paused, Others>>
          /\ \/ GoesOn(c, 1) /\ UNCHANGED record
             \/ Writes(c, Extend(ledger, Id(c), row)) /\ record' = [record EXCEPT ![c] = {row}]
      BY <1>1 DEF AppendIfNew
    <2> HIDE DEF row
    <2>5. RestTyped' /\ UNCHANGED job
      BY <1>0, <2>2, <2>4 DEF RestTyped, Others, history
    <2>6. CASE GoesOn(c, 1) /\ UNCHANGED record
      BY <2>1, <2>5, <2>6, GoingOnKeepsShape
    <2>7. CASE Writes(c, Extend(ledger, Id(c), row)) /\ record' = [record EXCEPT ![c] = {row}]
      <3>1. record'[c] \subseteq Rows /\ \A d \in Callers \ {c} : record'[d] = record[d]
        BY <1>0, <2>2, <2>7 DEF RestTyped
      <3> QED  BY <2>1, <2>3, <2>5, <2>7, <3>1, WritingKeepsShape
    <2> QED  BY <2>4, <2>6, <2>7
  <1>2. CASE Stored(c)
    <2>1. /\ todo[c] # << >> /\ writing[c] = "no" /\ Head(todo[c]) = "stored"
          /\ record[c] \subseteq Rows
      BY <1>0, <1>2, ReadsAt DEF Stored, ThreadHolds
    <2>2. /\ UNCHANGED <<paused, Others>>
          /\ \/ GoesOn(c, 1) /\ UNCHANGED record
             \/ /\ Id(c) \in DOMAIN ledger /\ GoesOn(c, 1)
                /\ record' = [record EXCEPT ![c] = {ledger[Id(c)]}]
             \/ Returns(c) /\ UNCHANGED record
      BY <1>2 DEF Stored
    <2>3. UNCHANGED job
      BY <2>2 DEF Others
    <2>4. CASE UNCHANGED record
      <3>1. RestTyped'
        BY <1>0, <2>2, <2>4, RestStaysTyped
      <3>2. CASE GoesOn(c, 1)
        BY <2>1, <2>3, <2>4, <3>1, <3>2, GoingOnKeepsShape
      <3>3. CASE Returns(c)
        BY <2>1, <2>3, <2>4, <3>1, <3>3, ReturningKeepsShape
      <3> QED  BY <2>1, <2>2, <2>4, <3>2, <3>3
    <2>5. CASE /\ Id(c) \in DOMAIN ledger /\ GoesOn(c, 1)
               /\ record' = [record EXCEPT ![c] = {ledger[Id(c)]}]
      <3>1. ledger[Id(c)] \in Rows
        BY <1>0, <2>5, RowOnFile DEF FileTyped
      <3>2. RestTyped' /\ record'[c] \subseteq Rows /\ \A d \in Callers \ {c} : record'[d] = record[d]
        BY <1>0, <2>2, <2>5, <3>1 DEF RestTyped, Others, history
      <3> QED  BY <2>1, <2>3, <2>5, <3>2, GoingOnKeepsShape
    <2> QED  BY <2>2, <2>4, <2>5
  <1>3. CASE Check(c)
    <2>1. todo[c] # << >> /\ writing[c] = "no" /\ Head(todo[c]) = "check"
      BY <1>3, ReadsAt DEF Check, Reads
    <2>2. UNCHANGED <<record, paused, Others>> /\ UNCHANGED job /\ RestTyped'
      BY <1>0, <1>3, RestStaysTyped DEF Check, Others
    <2>3. (GoesOn(c, 1) /\ Id(c) \in Ranking) \/ Returns(c)
      BY <1>3 DEF Check
    <2> QED  BY <2>1, <2>2, <2>3, GoingOnKeepsShape, ReturningKeepsShape
  <1>4. CASE Cancel(c)
    <2>1. todo[c] # << >> /\ writing[c] = "no" /\ Head(todo[c]) = "cancel"
      BY <1>4, ReadsAt DEF Cancel, Reads
    <2>2. UNCHANGED <<record, paused, Others>> /\ UNCHANGED job /\ RestTyped'
      BY <1>0, <1>4, RestStaysTyped DEF Cancel, Others
    <2>3. CASE Id(c) \in DOMAIN ledger
      <3>1. [ledger EXCEPT ![Id(c)] = [ledger[Id(c)] EXCEPT !.status = "cancelled"]] \in Files
        BY <1>0, <2>3, RowOnFile, ReplacedInFile, ChangedRow DEF FileTyped, Statuses
      <3>2. Writes(c, [ledger EXCEPT ![Id(c)] = [ledger[Id(c)] EXCEPT !.status = "cancelled"]])
        BY <1>4, <2>3 DEF Cancel, Replaces
      <3> QED  BY <2>1, <2>2, <3>1, <3>2, WritingKeepsShape
    <2>4. CASE Id(c) \notin DOMAIN ledger
      <3>1. Returns(c)
        BY <1>4, <2>4 DEF Cancel, Replaces
      <3> QED  BY <2>1, <2>2, <3>1, ReturningKeepsShape
    <2> QED  BY <2>3, <2>4
  <1> QED  BY <1>1, <1>2, <1>3, <1>4

ProposedRows(rows, new, settled) ==
    [i \in DOMAIN rows \cup new |-> IF i \in DOMAIN rows THEN rows[i]
                                    ELSE Row(i, "open", Blockers[i] \ settled)]

LEMMA ProposedFile ==
    ASSUME NEW rows \in Files, NEW new \in SUBSET Scanned, NEW settled
    PROVE  /\ ProposedRows(rows, new, settled) \in Files
           /\ DOMAIN ProposedRows(rows, new, settled) = DOMAIN rows \cup new
           /\ \A i \in DOMAIN rows : ProposedRows(rows, new, settled)[i] = rows[i]
           /\ \A i \in new \ DOMAIN rows :
                ProposedRows(rows, new, settled)[i] = Row(i, "open", Blockers[i] \ settled)
  <1>1. DOMAIN rows \subseteq Ids /\ rows \in [DOMAIN rows -> Rows]
    BY FilesAre
  <1>2. \A i \in new : Row(i, "open", Blockers[i] \ settled) \in Rows
    BY LedgerAssumption, NewRow DEF Ids, Statuses
  <1>3. /\ DOMAIN ProposedRows(rows, new, settled) = DOMAIN rows \cup new
        /\ ProposedRows(rows, new, settled) \in [DOMAIN rows \cup new -> Rows]
    BY <1>1, <1>2 DEF ProposedRows
  <1>4. ProposedRows(rows, new, settled) \in Files
    BY <1>1, <1>3, FilesAre DEF Ids
  <1> QED  BY <1>3, <1>4 DEF ProposedRows

(* A scan writes what it proposes beside what it read, or goes on.         *)
LEMMA WhatProposeDoes ==
    ASSUME NEW c, Propose(c)
    PROVE  /\ At(c, "propose") /\ UNCHANGED <<record, paused, Others>>
           /\ GoesOn(c, 1) \/ \E new \in SUBSET Scanned :
                /\ new \cap DOMAIN prepared[c] = {}
                /\ Writes(c, ProposedRows(prepared[c], new, {i \in Scanned : corpus[TextOf[i]] # "none"}))
  BY DEF Propose, ProposedRows

LEMMA ScanningKeepsShape ==
    ASSUME LedgerShape, scene' = scene, NEW c \in Callers,
           Scan(c) \/ Propose(c) \/ ReadRaises(c)
    PROVE  LedgerShape'
  <1>0. FileTyped /\ RestTyped /\ ThreadHolds(c) /\ Left(job[c], todo[c])
    BY DEF LedgerShape, ThreadsHold, ThreadHolds
  <1>1. CASE Scan(c)
    <2>1. todo[c] # << >> /\ writing[c] = "no" /\ Head(todo[c]) = "scan" /\ c \in scene.callers
      BY <1>0, <1>1, ReadsAt DEF Scan, Reads, ThreadHolds
    <2>2. UNCHANGED <<record, paused, Others>> /\ UNCHANGED job /\ RestTyped'
      BY <1>0, <1>1, RestStaysTyped DEF Scan, Others
    <2>3. /\ prepared' = [prepared EXCEPT ![c] = ledger] /\ todo' = [todo EXCEPT ![c] = Tail(todo[c])]
          /\ UNCHANGED <<ledger, torn, writing>>
      BY <1>1 DEF Scan
    <2>4. Left(job[c], Tail(todo[c])) /\ Stage(Tail(todo[c])) = "propose"
      BY <1>0, <2>1, HandlerGoesOn
    <2>5. FileTyped'
      <3>1. Tail(todo[c]) \in Seq(Stages)
        BY <2>4, PartsAreSequences
      <3> QED  BY <1>0, <2>3, <3>1 DEF FileTyped
    <2>6. todo'[c] = Tail(todo[c]) /\ StageOf(c)' = "propose"
      BY <1>0, <2>3, <2>4 DEF FileTyped, StageOf
    <2>7. ThreadHolds(c)'
      BY <1>0, <2>1, <2>2, <2>3, <2>4, <2>6 DEF ThreadHolds
    <2> QED  BY <1>0, <2>2, <2>3, <2>5, <2>7, ShapeFrom DEF FileTyped
  <1>2. CASE Propose(c)
    <2>1. todo[c] # << >> /\ writing[c] = "no" /\ Head(todo[c]) = "propose"
      BY <1>2, WhatProposeDoes, ReadsAt
    <2>2. UNCHANGED <<record, paused, Others>> /\ UNCHANGED job /\ RestTyped'
      BY <1>0, <1>2, WhatProposeDoes, RestStaysTyped DEF Others
    <2>3. CASE GoesOn(c, 1)
      <3>1. Tail(todo[c]) = << >>
        BY <1>0, <2>1, HandlerGoesOn
      <3>2. /\ FileTyped' /\ UNCHANGED <<ledger, torn, prepared, writing>>
            /\ todo' = [todo EXCEPT ![c] = Tail(todo[c])]
        BY <1>0, <2>1, <2>3, StepOn
      <3>3. todo'[c] = << >> /\ StageOf(c)' = "none"
        BY <1>0, <3>1, <3>2 DEF FileTyped, StageOf, Stage
      <3>4. ThreadHolds(c)'
        BY <1>0, <2>1, <2>2, <3>2, <3>3 DEF ThreadHolds, Left
      <3> QED  BY <1>0, <2>2, <3>2, <3>4, ShapeFrom DEF FileTyped
    <2>4. ASSUME NEW new \in SUBSET Scanned,
                 Writes(c, ProposedRows(prepared[c], new, {i \in Scanned : corpus[TextOf[i]] # "none"}))
          PROVE  LedgerShape'
      <3>1. prepared[c] \in Files
        BY <1>0 DEF FileTyped
      <3>2. ProposedRows(prepared[c], new, {i \in Scanned : corpus[TextOf[i]] # "none"}) \in Files
        BY <3>1, ProposedFile
      <3> QED  BY <2>1, <2>2, <2>4, <3>2, WritingKeepsShape
    <2> QED  BY <1>2, <2>3, <2>4, WhatProposeDoes
  <1>3. CASE ReadRaises(c)
    <2>1. UNCHANGED job /\ RestTyped'
      BY <1>0, <1>3, RestStaysTyped DEF ReadRaises, Others
    <2> QED  BY <1>3, <2>1, ReturningKeepsShape DEF ReadRaises
  <1> QED  BY <1>1, <1>2, <1>3

LEMMA HandlersKeepShape ==
    ASSUME LedgerShape, scene' = scene, NEW c \in Callers, LedgerStep(c)
    PROVE  LedgerShape'
  BY EntersKeepShape, OpensKeepsShape, FillsKeepsShape, AnsweringKeepsShape, FoldingKeepsShape,
     AskingKeepsShape, ExplainingKeepsShape, ScanningKeepsShape DEF LedgerStep, HandlerStep

LEMMA StopsKeepsShape ==
    ASSUME LedgerShape, scene' = scene, LedgerStops
    PROVE  LedgerShape'
  <1>0. FileTyped /\ RestTyped
    BY DEF LedgerShape
  <1>1. /\ todo' = [c \in Callers |-> << >>] /\ writing' = [c \in Callers |-> "no"]
        /\ prepared' = [c \in Callers |-> Empty] /\ UNCHANGED <<ledger, torn>>
    BY <1>0 DEF LedgerStops, Stops, FileTyped
  <1>2. FileTyped'
    <2>1. << >> \in Seq(Stages) /\ Empty \in Files
      BY EmptyIsAFile
    <2> QED  BY <1>0, <1>1, <2>1 DEF FileTyped
  <1>3. RestTyped'
    <2>1. \A d \in Callers : job[d].op = "resume" /\ todo[d] # << >> => Id(d) \in Live
      BY DEF LedgerShape, ThreadsHold, ThreadHolds, JobFits, Id
    <2>2. paused' \subseteq Live
      BY <1>0, <2>1 DEF LedgerStops, RestTyped
    <2> QED  BY <1>0, <2>2 DEF RestTyped, LedgerStops, history
  <1>4. \A c \in Callers : ThreadHolds(c)'
    BY <1>1 DEF ThreadHolds, Left, StageOf, Stage
  <1> QED  BY <1>2, <1>3, <1>4 DEF LedgerShape, ThreadsHold

LEMMA ApprovalKeepsShape ==
    ASSUME LedgerShape, scene' = scene, NEW t \in Texts, approve_draft(t)
    PROVE  LedgerShape'
  BY DEF LedgerShape, FileTyped, RestTyped, ThreadsHold, ThreadHolds, StageOf, Id,
         approve_draft, caller, history

LEMMA IdleKeepsShape ==
    ASSUME LedgerShape, scene' = scene, UNCHANGED ledgerVars
    PROVE  LedgerShape'
  BY DEF LedgerShape, FileTyped, RestTyped, ThreadsHold, ThreadHolds, StageOf, Id,
         ledgerVars, caller, history

LEMMA ShapeStep ==
    ASSUME LedgerShape, [Next]_loopVars
    PROVE  LedgerShape'
  <1>1. CASE OnTheLedger
    BY <1>1, HandlersKeepShape, ApprovalKeepsShape DEF OnTheLedger
  <1>2. CASE ProcessEnds
    BY <1>2, StopsKeepsShape DEF ProcessEnds
  <1>3. CASE OnTheReports \/ TurnServed \/ UNCHANGED loopVars
    BY <1>3, IdleKeepsShape DEF OnTheReports, TurnServed, record_node, loopVars
  <1> QED  BY <1>1, <1>2, <1>3 DEF Next, Waits

(* Every row and every handler is well formed: a handler is at a stage of  *)
(* its own request and holds what that stage needs.                        *)
THEOREM LedgerShapeHolds == Spec => []LedgerShape
  <1>1. Init => LedgerShape
    BY ShapeAtFirst DEF Init
  <1> QED  BY <1>1, ShapeStep, PTL DEF Spec
-----------------------------------------------------------------------------
(* What each step does, in the terms of the invariants: it goes on to a    *)
(* stage, leaves, or puts rows where they wait to be written.              *)
OthersStay(c) == \A d \in Callers \ {c} : todo'[d] = todo[d]

GoesTo(c, stages) ==
    /\ UNCHANGED <<ledger, torn, prepared, writing>>
    /\ StageOf(c)' \in stages /\ OthersStay(c)

Leaves(c) ==
    /\ UNCHANGED <<ledger, torn, writing>>
    /\ StageOf(c)' = "none" /\ OthersStay(c)
    /\ prepared' = [prepared EXCEPT ![c] = Empty]

Puts(c, rows) ==
    /\ rows \in Files
    /\ UNCHANGED <<ledger, torn, todo>> /\ StageOf(c)' = StageOf(c) /\ OthersStay(c)
    /\ prepared' = [prepared EXCEPT ![c] = rows]
    /\ writing' = [writing EXCEPT ![c] = "opens"]

Differs(old, new, id, row) ==
    /\ DOMAIN new = DOMAIN old \cup {id} /\ new[id] = row /\ row \in Rows /\ id \in Ids
    /\ \A i \in DOMAIN old \ {id} : new[i] = old[i]

(* One row put in place of, or beside, those on file.                      *)
PutsRow(c, id, row) ==
    \E rows \in Files : Puts(c, rows) /\ Differs(ledger, rows, id, row)

AtStage(c, stage) ==
    /\ todo[c] # << >> /\ writing[c] = "no" /\ Head(todo[c]) = stage /\ StageOf(c) = stage
    /\ c \in scene.callers

LEMMA OnStage ==
    ASSUME LedgerShape, NEW c \in Callers, NEW stage, At(c, stage)
    PROVE  /\ AtStage(c, stage) /\ FileTyped /\ RestTyped /\ ThreadHolds(c)
           /\ Left(job[c], todo[c]) /\ JobFits(job[c])
  <1>1. FileTyped /\ RestTyped /\ ThreadHolds(c)
    BY DEF LedgerShape, ThreadsHold
  <1>2. todo[c] # << >> /\ writing[c] = "no" /\ Head(todo[c]) = stage /\ StageOf(c) = stage
    BY ReadsAt
  <1> QED  BY <1>1, <1>2 DEF AtStage, ThreadHolds

LEMMA GoOnTo ==
    ASSUME LedgerShape, NEW c \in Callers, NEW stage, AtStage(c, stage), GoesOn(c, 1)
    PROVE  GoesTo(c, {Stage(Tail(todo[c]))})
  <1>1. FileTyped /\ ThreadHolds(c)
    BY DEF LedgerShape, ThreadsHold
  <1>2. /\ UNCHANGED <<ledger, torn, prepared, writing>>
        /\ todo' = [todo EXCEPT ![c] = Tail(todo[c])]
    BY <1>1, StepOn DEF AtStage
  <1>3. todo'[c] = Tail(todo[c])
    BY <1>1, <1>2 DEF FileTyped
  <1> QED  BY <1>1, <1>2, <1>3 DEF GoesTo, OthersStay, StageOf, FileTyped

LEMMA GoOver ==
    ASSUME LedgerShape, NEW c \in Callers, NEW stage \in {"exists", "requote"}, AtStage(c, stage),
           GoesOn(c, 2)
    PROVE  GoesTo(c, {Stage(Tail(Tail(todo[c])))})
  <1>1. FileTyped /\ ThreadHolds(c)
    BY DEF LedgerShape, ThreadsHold
  <1>2. /\ UNCHANGED <<ledger, torn, prepared, writing>>
        /\ todo' = [todo EXCEPT ![c] = Tail(Tail(todo[c]))]
    BY <1>1, StepOver DEF AtStage
  <1>3. todo'[c] = Tail(Tail(todo[c]))
    BY <1>1, <1>2 DEF FileTyped
  <1> QED  BY <1>1, <1>2, <1>3 DEF GoesTo, OthersStay, StageOf, FileTyped

LEMMA ReturningLeaves ==
    ASSUME LedgerShape, NEW c \in Callers, Returns(c)
    PROVE  Leaves(c)
  <1>1. FileTyped
    BY DEF LedgerShape
  <1>2. /\ UNCHANGED <<ledger, torn, writing>> /\ todo' = [todo EXCEPT ![c] = << >>]
        /\ prepared' = [prepared EXCEPT ![c] = Empty]
    BY <1>1, StepOut
  <1>3. todo'[c] = << >>
    BY <1>1, <1>2 DEF FileTyped
  <1> QED  BY <1>1, <1>2, <1>3 DEF Leaves, OthersStay, StageOf, Stage, FileTyped

LEMMA PutRows ==
    ASSUME LedgerShape, NEW c \in Callers, NEW rows \in Files, Writes(c, rows)
    PROVE  Puts(c, rows)
  <1>1. /\ UNCHANGED <<ledger, torn, todo>> /\ prepared' = [prepared EXCEPT ![c] = rows]
        /\ writing' = [writing EXCEPT ![c] = "opens"]
    BY StepWrites DEF LedgerShape
  <1>2. StageOf(c)' = StageOf(c)
    BY <1>1 DEF StageOf
  <1> QED  BY <1>1, <1>2 DEF Puts, OthersStay

LEMMA PutsAnother ==
    ASSUME LedgerShape, NEW c \in Callers, NEW id \in Ids, NEW row \in Rows, id \notin DOMAIN ledger,
           Writes(c, Extend(ledger, id, row))
    PROVE  PutsRow(c, id, row)
  <1>1. ledger \in Files
    BY DEF LedgerShape, FileTyped
  <1>2. /\ Extend(ledger, id, row) \in Files
        /\ Differs(ledger, Extend(ledger, id, row), id, row)
    BY <1>1, ExtendedFile DEF Differs
  <1> QED  BY <1>2, PutRows DEF PutsRow

LEMMA PutsInPlace ==
    ASSUME LedgerShape, NEW c \in Callers, NEW id \in DOMAIN ledger, NEW row \in Rows,
           Writes(c, [ledger EXCEPT ![id] = row])
    PROVE  PutsRow(c, id, row)
  <1>1. ledger \in Files
    BY DEF LedgerShape, FileTyped
  <1>2. /\ [ledger EXCEPT ![id] = row] \in Files
        /\ Differs(ledger, [ledger EXCEPT ![id] = row], id, row)
    BY <1>1, ReplacedInFile, RowOnFile DEF Differs
  <1> QED  BY <1>2, PutRows DEF PutsRow

Quiet == UNCHANGED <<job, corpus, logged, wasAnswered, folded>>

LEMMA WhatLogDoes ==
    ASSUME LedgerShape, NEW c \in Callers, Log(c)
    PROVE  /\ AtStage(c, "log") /\ Quiet /\ UNCHANGED record /\ Id(c) \in Live /\ ~torn
           /\ \/ GoesTo(c, {"none", "exists"})
              \/ Id(c) \notin DOMAIN ledger /\ PutsRow(c, Id(c), Row(Id(c), "open", {}))
  <1>1. At(c, "log") /\ ~torn /\ UNCHANGED <<record, Others>>
    BY DEF Log, Reads
  <1>2. AtStage(c, "log") /\ Left(job[c], todo[c]) /\ JobFits(job[c])
    BY <1>1, OnStage
  <1>3. Id(c) \in Live /\ Stage(Tail(todo[c])) \in {"none", "exists"}
    BY <1>2, StageTellsTheRequest, HandlerGoesOn DEF AtStage, JobFits, Id
  <1>4. Id(c) \in Ids /\ Row(Id(c), "open", {}) \in Rows
    BY <1>3, NewRow DEF Ids, Statuses
  <1>5. CASE Id(c) \in DOMAIN ledger
    <2>1. GoesOn(c, 1)
      BY <1>5 DEF Log
    <2> QED  BY <1>1, <1>2, <1>3, <2>1, GoOnTo DEF Quiet, Others, history, GoesTo
  <1>6. CASE Id(c) \notin DOMAIN ledger
    <2>1. Writes(c, Extend(ledger, Id(c), Row(Id(c), "open", {})))
      BY <1>6 DEF Log
    <2> QED  BY <1>1, <1>2, <1>3, <1>4, <1>6, <2>1, PutsAnother DEF Quiet, Others, history
  <1> QED  BY <1>5, <1>6

LEMMA WhatExistsDoes ==
    ASSUME LedgerShape, NEW c \in Callers, Exists(c)
    PROVE  AtStage(c, "exists") /\ Quiet /\ UNCHANGED record /\ GoesTo(c, {"close", "mine"})
  <1>1. At(c, "exists") /\ UNCHANGED <<record, paused, Others>>
    BY DEF Exists, Reads
  <1>2. AtStage(c, "exists") /\ Left(job[c], todo[c])
    BY <1>1, OnStage
  <1>3. Stage(Tail(todo[c])) = "close" /\ Stage(Tail(Tail(todo[c]))) = "mine"
    BY <1>2, HandlerGoesOn, HandlerAdvances DEF AtStage
  <1>4. GoesOn(c, 1) \/ GoesOn(c, 2)
    BY DEF Exists
  <1> QED  BY <1>1, <1>2, <1>3, <1>4, GoOnTo, GoOver DEF Quiet, Others, history, GoesTo

LEMMA WhatCloseDoes ==
    ASSUME LedgerShape, NEW c \in Callers, Close(c)
    PROVE  /\ AtStage(c, "close") /\ Quiet /\ UNCHANGED record /\ Id(c) \in Live
           /\ job[c].reply \in {"answered", "deferred"}
           /\ \/ Leaves(c)
              \/ /\ Id(c) \in DOMAIN ledger
                 /\ PutsRow(c, Id(c), [ledger[Id(c)] EXCEPT !.status = job[c].reply])
  <1>1. At(c, "close") /\ UNCHANGED <<record, paused, Others>>
    BY DEF Close, Reads
  <1>2. AtStage(c, "close") /\ Left(job[c], todo[c]) /\ JobFits(job[c]) /\ ledger \in Files
    BY <1>1, OnStage DEF FileTyped
  <1>3. Id(c) \in Live /\ job[c].reply \in {"answered", "deferred"}
    BY <1>2, StageTellsTheRequest DEF AtStage, JobFits, Id
  <1>4. CASE Id(c) \in DOMAIN ledger
    <2>1. Writes(c, [ledger EXCEPT ![Id(c)] = [ledger[Id(c)] EXCEPT !.status = job[c].reply]])
      BY <1>4 DEF Close, Replaces
    <2>2. [ledger[Id(c)] EXCEPT !.status = job[c].reply] \in Rows
      BY <1>2, <1>3, <1>4, RowOnFile, ChangedRow DEF Statuses
    <2> QED  BY <1>1, <1>2, <1>3, <1>4, <2>1, <2>2, PutsInPlace DEF Quiet, Others, history
  <1>5. CASE Id(c) \notin DOMAIN ledger
    <2>1. Returns(c)
      BY <1>5 DEF Close, Replaces
    <2> QED  BY <1>1, <1>2, <1>3, <2>1, ReturningLeaves DEF Quiet, Others, history
  <1> QED  BY <1>4, <1>5

LEMMA WhatMineDoes ==
    ASSUME LedgerShape, NEW c \in Callers, Mine(c)
    PROVE  /\ AtStage(c, "mine") /\ GoesTo(c, {"none"}) /\ Id(c) \in Live
           /\ UNCHANGED <<job, record, logged, wasAnswered, folded>>
           /\ corpus' = corpus \/ Folds(TextOf[Id(c)], "proposed")
  <1>1. At(c, "mine") /\ GoesOn(c, 1) /\ UNCHANGED <<record, paused, job, jobs, crashes, history>>
    BY DEF Mine
  <1>2. AtStage(c, "mine") /\ Left(job[c], todo[c]) /\ JobFits(job[c])
    BY <1>1, OnStage
  <1>3. Id(c) \in Live /\ Stage(Tail(todo[c])) = "none"
    BY <1>2, StageTellsTheRequest, HandlerGoesOn DEF AtStage, JobFits, Id, Stage
  <1>4. corpus' = corpus \/ Folds(TextOf[Id(c)], "proposed")
    BY DEF Mine
  <1> QED  BY <1>1, <1>2, <1>3, <1>4, GoOnTo DEF history, GoesTo

LEMMA WhatWarrantDoes ==
    ASSUME LedgerShape, NEW c \in Callers, Warrant(c)
    PROVE  /\ AtStage(c, "warrant") /\ Quiet /\ GoesTo(c, {"answer"})
           /\ record' = [record EXCEPT ![c] = {[unmet |-> unmet_prerequisites(ledger, Id(c))]}]
  <1>1. At(c, "warrant") /\ GoesOn(c, 1) /\ UNCHANGED <<paused, Others>>
    BY DEF Warrant, Reads
  <1>2. AtStage(c, "warrant") /\ Left(job[c], todo[c])
    BY <1>1, OnStage
  <1>3. Stage(Tail(todo[c])) = "answer"
    BY <1>2, HandlerGoesOn DEF AtStage
  <1>4. record' = [record EXCEPT ![c] = {[unmet |-> unmet_prerequisites(ledger, Id(c))]}]
    BY DEF Warrant
  <1> QED  BY <1>1, <1>2, <1>3, <1>4, GoOnTo DEF Quiet, Others, history, GoesTo

LEMMA WhatAnswerDoes ==
    ASSUME LedgerShape, NEW c \in Callers, Answer(c)
    PROVE  /\ AtStage(c, "answer") /\ Quiet /\ Id(c) \in Ids
           /\ \/ Leaves(c) /\ UNCHANGED record
              \/ /\ Id(c) \in DOMAIN ledger /\ PutsRow(c, Id(c), AnsweredRow(c))
                 /\ record' = [record EXCEPT ![c] = {AnsweredRow(c)}]
  <1>1. At(c, "answer") /\ Reads(c, "answer") /\ UNCHANGED <<paused, Others>>
    BY DEF Answer, Reads
  <1>2. AtStage(c, "answer") /\ Left(job[c], todo[c]) /\ JobFits(job[c])
    BY <1>1, OnStage
  <1>3. Id(c) \in Ids
    BY <1>2, StageTellsTheRequest DEF AtStage, JobFits, Id
  <1>4. CASE Id(c) \in DOMAIN ledger
    <2>1. /\ Writes(c, [ledger EXCEPT ![Id(c)] = AnsweredRow(c)])
          /\ record' = [record EXCEPT ![c] = {AnsweredRow(c)}]
      BY <1>4 DEF Answer, Replaces
    <2>2. AnsweredRow(c) \in Rows
      BY <1>1, <1>4, AnsweredRowFits
    <2> QED  BY <1>1, <1>2, <1>3, <1>4, <2>1, <2>2, PutsInPlace DEF Quiet, Others, history
  <1>5. CASE Id(c) \notin DOMAIN ledger
    <2>1. Returns(c) /\ UNCHANGED record
      BY <1>5 DEF Answer, Replaces
    <2> QED  BY <1>1, <1>2, <1>3, <2>1, ReturningLeaves DEF Quiet, Others, history
  <1> QED  BY <1>4, <1>5

LEMMA WhatFollowupDoes ==
    ASSUME LedgerShape, NEW c \in Callers, Followup(c)
    PROVE  /\ AtStage(c, "followup") /\ Quiet /\ UNCHANGED record
           /\ \/ GoesTo(c, {"requote"})
              \/ \E id \in Joins : id \notin DOMAIN ledger /\ PutsRow(c, id, Row(id, "open", {}))
  <1>1. At(c, "followup") /\ UNCHANGED <<record, paused, Others>>
    BY DEF Followup, Reads
  <1>2. AtStage(c, "followup") /\ Left(job[c], todo[c]) /\ JobFits(job[c])
    BY <1>1, OnStage
  <1>3. Stage(Tail(todo[c])) = "requote" /\ job[c].op = "answer"
    BY <1>2, HandlerGoesOn, StageTellsTheRequest DEF AtStage
  <1>4. CASE job[c].reply = "elsewhere" /\ JoinOf[Id(c)] \notin DOMAIN ledger
    <2>1. JoinOf[Id(c)] \in Joins /\ Row(JoinOf[Id(c)], "open", {}) \in Rows /\ JoinOf[Id(c)] \in Ids
      BY <1>2, <1>3, <1>4, NewRow DEF JobFits, Id, Joins, Ids, Statuses
    <2>2. Writes(c, Extend(ledger, JoinOf[Id(c)], Row(JoinOf[Id(c)], "open", {})))
      BY <1>4 DEF Followup
    <2>3. PutsRow(c, JoinOf[Id(c)], Row(JoinOf[Id(c)], "open", {}))
      BY <1>4, <2>1, <2>2, PutsAnother
    <2> QED  BY <1>1, <1>2, <1>4, <2>1, <2>3 DEF Quiet, Others, history
  <1>5. CASE ~(job[c].reply = "elsewhere" /\ JoinOf[Id(c)] \notin DOMAIN ledger)
    <2>1. GoesOn(c, 1)
      BY <1>5 DEF Followup
    <2> QED  BY <1>1, <1>2, <1>3, <2>1, GoOnTo DEF Quiet, Others, history, GoesTo
  <1> QED  BY <1>4, <1>5

LEMMA WhatRequoteDoes ==
    ASSUME LedgerShape, NEW c \in Callers, Requote(c)
    PROVE  /\ AtStage(c, "requote") /\ Quiet /\ UNCHANGED record
           /\ \/ GoesTo(c, {"fold"})
              \/ /\ GoesTo(c, {"restate"}) /\ Id(c) \in DOMAIN EngOf
                 /\ EngOf[Id(c)] \in DOMAIN ledger \ AnsweredIn(ledger)
  <1>1. At(c, "requote") /\ UNCHANGED <<record, paused, Others>>
    BY DEF Requote, Reads
  <1>2. AtStage(c, "requote") /\ Left(job[c], todo[c])
    BY <1>1, OnStage
  <1>3. Stage(Tail(todo[c])) = "restate" /\ Stage(Tail(Tail(todo[c]))) = "fold"
    BY <1>2, HandlerGoesOn, HandlerAdvances DEF AtStage
  <1>4. \/ GoesOn(c, 2)
        \/ /\ GoesOn(c, 1) /\ Id(c) \in DOMAIN EngOf
           /\ EngOf[Id(c)] \in DOMAIN ledger \ AnsweredIn(ledger)
    BY DEF Requote
  <1> QED  BY <1>1, <1>2, <1>3, <1>4, GoOnTo, GoOver DEF Quiet, Others, history, GoesTo

LEMMA WhatRestateDoes ==
    ASSUME LedgerShape, NEW c \in Callers, Restate(c)
    PROVE  /\ AtStage(c, "restate") /\ Quiet /\ UNCHANGED record
           /\ Id(c) \in DOMAIN EngOf /\ EngOf[Id(c)] \in DOMAIN Requoted
           /\ \/ Leaves(c)
              \/ /\ EngOf[Id(c)] \in DOMAIN ledger
                 /\ PutsRow(c, EngOf[Id(c)],
                            [ledger[EngOf[Id(c)]] EXCEPT !.text = Requoted[EngOf[Id(c)]]])
  <1> DEFINE e == EngOf[Id(c)]
  <1>1. At(c, "restate") /\ UNCHANGED <<record, paused, Others>>
    BY DEF Restate, Reads
  <1>2. AtStage(c, "restate") /\ ThreadHolds(c) /\ ledger \in Files
    BY <1>1, OnStage DEF FileTyped
  <1>3. Id(c) \in DOMAIN EngOf /\ e \in DOMAIN Requoted /\ Requoted[e] \in Texts
    BY <1>2, LedgerAssumption DEF AtStage, ThreadHolds, Texts
  <1>4. CASE e \in DOMAIN ledger
    <2>1. Writes(c, [ledger EXCEPT ![e].text = Requoted[e]])
      BY <1>4 DEF Restate
    <2> HIDE DEF e
    <2>2. [ledger EXCEPT ![e].text = Requoted[e]] = [ledger EXCEPT ![e] = [ledger[e] EXCEPT !.text = Requoted[e]]]
      OBVIOUS
    <2>3. [ledger[e] EXCEPT !.text = Requoted[e]] \in Rows
      BY <1>2, <1>3, <1>4, RowOnFile, ChangedRow
    <2>4. PutsRow(c, e, [ledger[e] EXCEPT !.text = Requoted[e]])
      BY <1>4, <2>1, <2>2, <2>3, PutsInPlace
    <2> QED  BY <1>1, <1>2, <1>3, <1>4, <2>4 DEF Quiet, Others, history, e
  <1>5. CASE e \notin DOMAIN ledger
    <2>1. Returns(c)
      BY <1>5 DEF Restate
    <2> QED  BY <1>1, <1>2, <1>3, <2>1, ReturningLeaves DEF Quiet, Others, history
  <1> QED  BY <1>4, <1>5

FoldEntry(row) == [text |-> row.text, status |-> Warranted(row)]

LEMMA WhatFoldDoes ==
    ASSUME LedgerShape, NEW c \in Callers, Fold(c)
    PROVE  /\ AtStage(c, "fold") /\ Id(c) \in Ids /\ UNCHANGED <<job, record, logged, wasAnswered>>
           /\ \/ Leaves(c) /\ UNCHANGED <<corpus, folded>>
              \/ \E row \in record[c] :
                   /\ ~row.converted /\ Id(c) \notin Ranking /\ GoesTo(c, {"mark"}) /\ row \in Rows
                   /\ corpus' = corpus \/ corpus' = [corpus EXCEPT ![row.text] = Warranted(row)]
                   /\ folded' = [folded EXCEPT ![Id(c)] = Append(folded[Id(c)], FoldEntry(row))]
  <1>1. At(c, "fold") /\ UNCHANGED <<record, paused, job, jobs, crashes, logged, wasAnswered>>
    BY DEF Fold
  <1>2. AtStage(c, "fold") /\ Left(job[c], todo[c]) /\ JobFits(job[c]) /\ ThreadHolds(c)
    BY <1>1, OnStage
  <1>3. Id(c) \in Ids /\ Stage(Tail(todo[c])) = "mark" /\ record[c] \subseteq Rows
    BY <1>2, HandlerGoesOn, StageTellsTheRequest DEF AtStage, JobFits, Id, Ids, ThreadHolds
  <1>4. PICK row \in record[c] :
          IF row.converted \/ Id(c) \in Ranking \/ job[c].reply = "blank"
            THEN Returns(c) /\ UNCHANGED <<corpus, folded>>
            ELSE /\ Folds(row.text, Warranted(row))
                 /\ folded' = [folded EXCEPT ![Id(c)] =
                                 Append(folded[Id(c)], [text |-> row.text, status |-> Warranted(row)])]
                 /\ GoesOn(c, 1)
    BY DEF Fold
  <1>5. CASE row.converted \/ Id(c) \in Ranking \/ job[c].reply = "blank"
    BY <1>1, <1>2, <1>3, <1>4, <1>5, ReturningLeaves
  <1>6. CASE ~(row.converted \/ Id(c) \in Ranking \/ job[c].reply = "blank")
    <2>1. GoesTo(c, {"mark"})
      BY <1>2, <1>3, <1>4, <1>6, GoOnTo
    <2>2. corpus' = corpus \/ corpus' = [corpus EXCEPT ![row.text] = Warranted(row)]
      BY <1>4, <1>6 DEF Folds
    <2>3. folded' = [folded EXCEPT ![Id(c)] = Append(folded[Id(c)], FoldEntry(row))]
      BY <1>4, <1>6 DEF FoldEntry
    <2> QED  BY <1>1, <1>2, <1>3, <1>6, <2>1, <2>2, <2>3
  <1> QED  BY <1>5, <1>6

LEMMA WhatMarkDoes ==
    ASSUME LedgerShape, NEW c \in Callers, Mark(c)
    PROVE  /\ AtStage(c, "mark") /\ Quiet /\ UNCHANGED record
           /\ \/ Id(c) \notin DOMAIN ledger /\ Leaves(c)
              \/ /\ Id(c) \in DOMAIN ledger
                 /\ PutsRow(c, Id(c), [ledger[Id(c)] EXCEPT !.converted = TRUE])
  <1>1. At(c, "mark") /\ UNCHANGED <<record, paused, Others>>
    BY DEF Mark, Reads
  <1>2. AtStage(c, "mark") /\ ledger \in Files
    BY <1>1, OnStage DEF FileTyped
  <1>3. CASE Id(c) \in DOMAIN ledger
    <2>1. Writes(c, [ledger EXCEPT ![Id(c)] = [ledger[Id(c)] EXCEPT !.converted = TRUE]])
      BY <1>3 DEF Mark, Replaces
    <2>2. [ledger[Id(c)] EXCEPT !.converted = TRUE] \in Rows
      BY <1>2, <1>3, RowOnFile, ChangedRow
    <2> QED  BY <1>1, <1>2, <1>3, <2>1, <2>2, PutsInPlace DEF Quiet, Others, history
  <1>4. CASE Id(c) \notin DOMAIN ledger
    <2>1. Returns(c)
      BY <1>4 DEF Mark, Replaces
    <2> QED  BY <1>1, <1>2, <1>4, <2>1, ReturningLeaves DEF Quiet, Others, history
  <1> QED  BY <1>3, <1>4

LEMMA WhatAppendDoes ==
    ASSUME LedgerShape, NEW c \in Callers, AppendIfNew(c)
    PROVE  /\ AtStage(c, "append") /\ Quiet /\ Id(c) \in Explained
           /\ \/ GoesTo(c, {"stored"}) /\ UNCHANGED record
              \/ /\ Id(c) \notin DOMAIN ledger /\ PutsRow(c, Id(c), Row(Id(c), "answered", {}))
                 /\ record' = [record EXCEPT ![c] = {Row(Id(c), "answered", {})}]
  <1>1. At(c, "append") /\ UNCHANGED <<paused, Others>>
    BY DEF AppendIfNew, Reads
  <1>2. AtStage(c, "append") /\ Left(job[c], todo[c]) /\ JobFits(job[c])
    BY <1>1, OnStage
  <1>3. Id(c) \in Explained /\ Stage(Tail(todo[c])) = "stored"
    BY <1>2, HandlerGoesOn, StageTellsTheRequest DEF AtStage, JobFits, Id
  <1>4. Id(c) \in Ids /\ Row(Id(c), "answered", {}) \in Rows
    BY <1>3, NewRow DEF Ids, Statuses
  <1>5. CASE Id(c) \in DOMAIN ledger
    <2>1. GoesOn(c, 1) /\ UNCHANGED record
      BY <1>5 DEF AppendIfNew
    <2> QED  BY <1>1, <1>2, <1>3, <2>1, GoOnTo DEF Quiet, Others, history, GoesTo
  <1>6. CASE Id(c) \notin DOMAIN ledger
    <2>1. /\ Writes(c, Extend(ledger, Id(c), Row(Id(c), "answered", {})))
          /\ record' = [record EXCEPT ![c] = {Row(Id(c), "answered", {})}]
      BY <1>6 DEF AppendIfNew
    <2> QED  BY <1>1, <1>2, <1>3, <1>4, <1>6, <2>1, PutsAnother DEF Quiet, Others, history
  <1> QED  BY <1>5, <1>6

LEMMA WhatStoredDoes ==
    ASSUME LedgerShape, NEW c \in Callers, Stored(c)
    PROVE  /\ AtStage(c, "stored") /\ Quiet /\ Id(c) \in Explained
           /\ \/ GoesTo(c, {"fold"}) /\ UNCHANGED record /\ record[c] # {}
              \/ /\ GoesTo(c, {"fold"}) /\ Id(c) \in DOMAIN ledger
                 /\ record' = [record EXCEPT ![c] = {ledger[Id(c)]}]
              \/ Leaves(c) /\ UNCHANGED record
  <1>1. At(c, "stored") /\ UNCHANGED <<paused, Others>>
    BY DEF Stored
  <1>2. AtStage(c, "stored") /\ Left(job[c], todo[c]) /\ JobFits(job[c])
    BY <1>1, OnStage
  <1>3. Id(c) \in Explained /\ Stage(Tail(todo[c])) = "fold"
    BY <1>2, HandlerGoesOn, StageTellsTheRequest DEF AtStage, JobFits, Id
  <1>4. \/ GoesOn(c, 1) /\ UNCHANGED record /\ record[c] # {}
        \/ GoesOn(c, 1) /\ Id(c) \in DOMAIN ledger /\ record' = [record EXCEPT ![c] = {ledger[Id(c)]}]
        \/ Returns(c) /\ UNCHANGED record
    BY DEF Stored
  <1> QED  BY <1>1, <1>2, <1>3, <1>4, GoOnTo, ReturningLeaves DEF Quiet, Others, history

LEMMA WhatCheckDoes ==
    ASSUME LedgerShape, NEW c \in Callers, Check(c)
    PROVE  /\ AtStage(c, "check") /\ Quiet /\ UNCHANGED record
           /\ \/ Leaves(c)
              \/ /\ GoesTo(c, {"cancel"}) /\ Id(c) \in Ranking
                 /\ Id(c) \in DOMAIN ledger \ AnsweredIn(ledger)
  <1>1. At(c, "check") /\ UNCHANGED <<record, paused, Others>>
    BY DEF Check, Reads
  <1>2. AtStage(c, "check") /\ Left(job[c], todo[c])
    BY <1>1, OnStage
  <1>3. Stage(Tail(todo[c])) = "cancel"
    BY <1>2, HandlerGoesOn DEF AtStage
  <1>4. \/ GoesOn(c, 1) /\ Id(c) \in DOMAIN ledger \ AnsweredIn(ledger) /\ Id(c) \in Ranking
        \/ Returns(c)
    BY DEF Check
  <1> QED  BY <1>1, <1>2, <1>3, <1>4, GoOnTo, ReturningLeaves DEF Quiet, Others, history

LEMMA WhatCancelDoes ==
    ASSUME LedgerShape, NEW c \in Callers, Cancel(c)
    PROVE  /\ AtStage(c, "cancel") /\ Quiet /\ UNCHANGED record /\ Id(c) \in Ranking
           /\ \/ Leaves(c)
              \/ /\ Id(c) \in DOMAIN ledger
                 /\ PutsRow(c, Id(c), [ledger[Id(c)] EXCEPT !.status = "cancelled"])
  <1>1. At(c, "cancel") /\ UNCHANGED <<record, paused, Others>>
    BY DEF Cancel, Reads
  <1>2. AtStage(c, "cancel") /\ ThreadHolds(c) /\ ledger \in Files
    BY <1>1, OnStage DEF FileTyped
  <1>3. Id(c) \in Ranking
    BY <1>2 DEF ThreadHolds, AtStage
  <1>4. CASE Id(c) \in DOMAIN ledger
    <2>1. Writes(c, [ledger EXCEPT ![Id(c)] = [ledger[Id(c)] EXCEPT !.status = "cancelled"]])
      BY <1>4 DEF Cancel, Replaces
    <2>2. [ledger[Id(c)] EXCEPT !.status = "cancelled"] \in Rows
      BY <1>2, <1>4, RowOnFile, ChangedRow DEF Statuses
    <2> QED  BY <1>1, <1>2, <1>3, <1>4, <2>1, <2>2, PutsInPlace DEF Quiet, Others, history
  <1>5. CASE Id(c) \notin DOMAIN ledger
    <2>1. Returns(c)
      BY <1>5 DEF Cancel, Replaces
    <2> QED  BY <1>1, <1>2, <1>3, <2>1, ReturningLeaves DEF Quiet, Others, history
  <1> QED  BY <1>4, <1>5

LEMMA WhatScanDoes ==
    ASSUME LedgerShape, NEW c \in Callers, Scan(c)
    PROVE  /\ AtStage(c, "scan") /\ Quiet /\ UNCHANGED <<ledger, torn, writing, record>> /\ ~torn
           /\ StageOf(c)' = "propose" /\ OthersStay(c)
           /\ prepared' = [prepared EXCEPT ![c] = ledger]
  <1>1. At(c, "scan") /\ UNCHANGED <<record, paused, Others>> /\ ~torn
    BY DEF Scan, Reads
  <1>2. AtStage(c, "scan") /\ Left(job[c], todo[c]) /\ FileTyped
    BY <1>1, OnStage
  <1>3. /\ prepared' = [prepared EXCEPT ![c] = ledger] /\ todo' = [todo EXCEPT ![c] = Tail(todo[c])]
        /\ UNCHANGED <<ledger, torn, writing>>
    BY DEF Scan
  <1>4. Stage(Tail(todo[c])) = "propose"
    BY <1>2, HandlerGoesOn DEF AtStage
  <1>5. todo'[c] = Tail(todo[c])
    BY <1>2, <1>3 DEF FileTyped
  <1>6. StageOf(c)' = "propose" /\ OthersStay(c)
    BY <1>2, <1>3, <1>4, <1>5 DEF StageOf, OthersStay, FileTyped
  <1> QED  BY <1>1, <1>2, <1>3, <1>6 DEF Quiet, Others, history

Settles == {i \in Scanned : corpus[TextOf[i]] # "none"}

LEMMA WhatProposingDoes ==
    ASSUME LedgerShape, NEW c \in Callers, Propose(c)
    PROVE  /\ AtStage(c, "propose") /\ Quiet /\ UNCHANGED record
           /\ \/ GoesTo(c, {"none"})
              \/ \E new \in SUBSET Scanned :
                   /\ new \cap DOMAIN prepared[c] = {}
                   /\ Puts(c, ProposedRows(prepared[c], new, Settles))
  <1>1. At(c, "propose") /\ UNCHANGED <<record, paused, Others>>
    BY WhatProposeDoes
  <1>2. AtStage(c, "propose") /\ Left(job[c], todo[c]) /\ FileTyped
    BY <1>1, OnStage
  <1>3. Stage(Tail(todo[c])) = "none" /\ prepared[c] \in Files
    BY <1>2, HandlerGoesOn DEF AtStage, Stage, FileTyped
  <1>4. CASE GoesOn(c, 1)
    BY <1>1, <1>2, <1>3, <1>4, GoOnTo DEF Quiet, Others, history, GoesTo
  <1>5. ASSUME NEW new \in SUBSET Scanned, new \cap DOMAIN prepared[c] = {},
               Writes(c, ProposedRows(prepared[c], new, Settles))
        PROVE  Puts(c, ProposedRows(prepared[c], new, Settles))
    BY <1>3, <1>5, ProposedFile, PutRows
  <1> QED  BY <1>1, <1>2, <1>4, <1>5, WhatProposeDoes DEF Quiet, Others, history, Settles

LEMMA WhatRaisingDoes ==
    ASSUME LedgerShape, NEW c \in Callers, ReadRaises(c)
    PROVE  torn /\ Leaves(c) /\ Quiet /\ UNCHANGED record /\ writing[c] = "no" /\ c \in scene.callers
  BY ReturningLeaves DEF ReadRaises, Quiet, Others, history, LedgerShape, ThreadsHold, ThreadHolds

LEMMA WhatOpeningDoes ==
    ASSUME LedgerShape, NEW c \in Callers, Opens(c)
    PROVE  /\ writing[c] = "opens" /\ Quiet /\ UNCHANGED <<record, todo, prepared>>
           /\ StageOf(c)' = StageOf(c) /\ ledger' = Empty /\ torn' = FALSE
           /\ writing' = [writing EXCEPT ![c] = "fills"] /\ c \in scene.callers
  <1>1. /\ UNCHANGED <<todo, prepared>> /\ writing[c] = "opens" /\ ledger' = Empty /\ torn' = FALSE
        /\ writing' = [writing EXCEPT ![c] = "fills"]
    BY StepEmpties DEF Opens, LedgerShape
  <1>2. c \in scene.callers
    BY <1>1 DEF LedgerShape, ThreadsHold, ThreadHolds, StageOf, Stage, WritingStages
  <1> QED  BY <1>1, <1>2 DEF Opens, Quiet, Others, history, StageOf

LEMMA WhatFillingDoes ==
    ASSUME LedgerShape, NEW c \in Callers, Fills(c)
    PROVE  /\ writing[c] = "fills" /\ UNCHANGED <<job, corpus, folded, record>>
           /\ c \in scene.callers /\ ledger' = prepared[c]
           /\ torn' \in {FALSE, DOMAIN ledger # {} /\ ledger # prepared[c]}
           /\ writing' = [writing EXCEPT ![c] = "no"] /\ prepared' = [prepared EXCEPT ![c] = Empty]
           /\ logged' = logged \cup DOMAIN prepared[c]
           /\ wasAnswered' = wasAnswered \cup AnsweredIn(prepared[c])
           /\ OthersStay(c) /\ todo[c] # << >> /\ Left(job[c], todo[c])
           /\ StageOf(c) = Head(todo[c]) /\ StageOf(c) \in WritingStages
           /\ StageOf(c)' = Stage(Tail(todo[c]))
  <1>1. /\ ledger' = prepared[c] /\ writing[c] = "fills" /\ todo[c] # << >>
        /\ torn' \in {FALSE, DOMAIN ledger # {} /\ ledger # prepared[c]}
        /\ todo' = [todo EXCEPT ![c] = Tail(todo[c])]
        /\ writing' = [writing EXCEPT ![c] = "no"] /\ prepared' = [prepared EXCEPT ![c] = Empty]
    BY StepFills DEF Fills, LedgerShape, ThreadsHold
  <1>2. c \in scene.callers /\ Left(job[c], todo[c]) /\ StageOf(c) \in WritingStages
    BY <1>1 DEF LedgerShape, ThreadsHold, ThreadHolds, StageOf, Stage, WritingStages
  <1>3. todo'[c] = Tail(todo[c]) /\ OthersStay(c)
    <2>1. todo \in [Callers -> Seq(Stages)]
      BY DEF LedgerShape, FileTyped
    <2> QED  BY <1>1, <2>1 DEF OthersStay
  <1>4. StageOf(c)' = Stage(Tail(todo[c]))
    BY <1>3 DEF StageOf
  <1>5. StageOf(c) = Head(todo[c])
    BY <1>1 DEF StageOf, Stage
  <1> QED  BY <1>1, <1>2, <1>3, <1>4, <1>5 DEF Fills

LEMMA WhatEnteringDoes ==
    ASSUME LedgerShape, NEW c \in Callers, EntersAny(c)
    PROVE  /\ c \in scene.callers /\ todo[c] = << >> /\ writing[c] = "no" /\ OthersStay(c)
           /\ UNCHANGED <<ledger, torn, prepared, writing, corpus, logged, wasAnswered, folded>>
           /\ StageOf(c)' \in {"log", "warrant", "append", "check", "scan"}
           /\ \A d \in Callers \ {c} : job'[d] = job[d]
           /\ record' = [record EXCEPT ![c] = {}]
  <1>0. paused \subseteq Live /\ logged \subseteq Ids
    BY DEF LedgerShape, RestTyped
  <1>1. PICK op \in {"ask", "resume", "answer", "explain", "cancel", "scan"},
             id \in Ids \cup {"none"},
             reply \in {"none", "answered", "deferred", "declined", "text", "blank", "elsewhere"} :
          Enter(c, op, id, reply)
    BY <1>0 DEF Ids, EntersAny, AskUser, ResumeTurn, answer_clarification_route,
           clarification_from_refusal_route, cancel_clarification_route, elicitation_scan_route
  <1>2. /\ c \in scene.callers /\ todo[c] = << >> /\ record' = [record EXCEPT ![c] = {}]
        /\ job' = [job EXCEPT ![c] = [op |-> op, id |-> id, reply |-> reply]]
        /\ todo' = [todo EXCEPT ![c] = Handler(op, reply)]
        /\ UNCHANGED <<ledger, torn, prepared, writing, corpus, logged, wasAnswered, folded>>
    BY <1>1 DEF Enter, history
  <1>3. todo \in [Callers -> Seq(Stages)] /\ job \in [Callers -> Jobs]
        /\ writing \in [Callers -> {"no", "opens", "fills"}]
    BY DEF LedgerShape, FileTyped, RestTyped
  <1>4. todo'[c] = Handler(op, reply) /\ OthersStay(c)
    BY <1>2, <1>3 DEF OthersStay
  <1>5. StageOf(c)' \in {"log", "warrant", "append", "check", "scan"}
    BY <1>4, HandlerStarts DEF StageOf, Stage
  <1>6. writing[c] = "no"
    BY <1>2, <1>3 DEF LedgerShape, ThreadsHold, ThreadHolds, StageOf, Stage, WritingStages
  <1>7. \A d \in Callers \ {c} : job'[d] = job[d]
    BY <1>2, <1>3
  <1> QED  BY <1>2, <1>4, <1>5, <1>6, <1>7
-----------------------------------------------------------------------------
(* Any threads.  A step that folds nothing leaves the claims true if what  *)
(* it puts in a file claims no more than is so.                            *)
LEMMA ClaimsStay ==
    ASSUME LedgerShape, FoldsAreTrue, NEW c \in Callers, UNCHANGED <<job, folded>>, OthersStay(c),
           RowsAreTrue(ledger'), RowsAreTrue(prepared'[c]),
           \A d \in Callers \ {c} : prepared'[d] = prepared[d],
           StageOf(c)' = "mark" => StageOf(c) = "mark"
    PROVE  FoldsAreTrue'
  <1>2. \A d \in Callers : StageOf(d)' = "mark" => StageOf(d) = "mark"
    BY DEF OthersStay, StageOf
  <1>3. \A d \in Callers : StageOf(d)' = "mark" => folded'[Id(d)'] # << >>
    BY <1>2 DEF FoldsAreTrue, Id
  <1>4. \A d \in Callers : RowsAreTrue(prepared'[d])
    BY DEF FoldsAreTrue
  <1>5. /\ \A i \in DOMAIN ledger' : IsTrue(i, ledger'[i], folded')
        /\ \A d \in Callers : \A i \in DOMAIN prepared'[d] : IsTrue(i, prepared'[d][i], folded')
    BY <1>4 DEF RowsAreTrue
  <1> QED  BY <1>3, <1>5 DEF FoldsAreTrue, RowsAreTrue, IsTrue

LEMMA EmptyClaimsNothing == RowsAreTrue(Empty)
  BY EmptyIsAFile DEF RowsAreTrue

LEMMA GoingClaimsNothing ==
    ASSUME LedgerShape, FoldsAreTrue, NEW c \in Callers, UNCHANGED <<job, folded>>,
           NEW stages, "mark" \notin stages, GoesTo(c, stages)
    PROVE  FoldsAreTrue'
  BY ClaimsStay DEF GoesTo, FoldsAreTrue

LEMMA LeavingClaimsNothing ==
    ASSUME LedgerShape, FoldsAreTrue, NEW c \in Callers, UNCHANGED <<job, folded>>, Leaves(c)
    PROVE  FoldsAreTrue'
  <1>1. prepared'[c] = Empty /\ \A d \in Callers \ {c} : prepared'[d] = prepared[d]
    BY DEF Leaves, LedgerShape, FileTyped
  <1> QED  BY <1>1, ClaimsStay, EmptyClaimsNothing DEF Leaves, FoldsAreTrue

LEMMA PuttingClaimsTheRows ==
    ASSUME LedgerShape, FoldsAreTrue, NEW c \in Callers, UNCHANGED <<job, folded>>,
           NEW rows, Puts(c, rows), RowsAreTrue(rows)
    PROVE  FoldsAreTrue'
  <1>1. prepared'[c] = rows /\ \A d \in Callers \ {c} : prepared'[d] = prepared[d]
    BY DEF Puts, LedgerShape, FileTyped
  <1> QED  BY <1>1, ClaimsStay DEF Puts, FoldsAreTrue

LEMMA PuttingClaimsTheRow ==
    ASSUME LedgerShape, FoldsAreTrue, NEW c \in Callers, UNCHANGED <<job, folded>>,
           NEW id, NEW row, PutsRow(c, id, row), IsTrue(id, row, folded)
    PROVE  FoldsAreTrue'
  <1>1. PICK rows \in Files : Puts(c, rows) /\ Differs(ledger, rows, id, row)
    BY DEF PutsRow
  <1>2. RowsAreTrue(rows)
    BY <1>1 DEF Differs, RowsAreTrue, FoldsAreTrue
  <1> QED  BY <1>1, <1>2, PuttingClaimsTheRows

(* What becomes of a row, field by field.                                  *)
LEMMA ChangedFields ==
    ASSUME NEW row \in Rows
    PROVE  /\ \A s : LET new == [row EXCEPT !.status = s] IN
                /\ new.status = s /\ new.text = row.text /\ new.blocked_by = row.blocked_by
                /\ new.converted = row.converted
           /\ LET new == [row EXCEPT !.converted = TRUE] IN
                /\ new.status = row.status /\ new.text = row.text
                /\ new.blocked_by = row.blocked_by /\ new.converted = TRUE
           /\ \A t : LET new == [row EXCEPT !.text = t] IN
                /\ new.status = row.status /\ new.text = t /\ new.blocked_by = row.blocked_by
                /\ new.converted = row.converted
           /\ \A u : LET new == [row EXCEPT !.status = "answered", !.unmet = u] IN
                /\ new.status = "answered" /\ new.text = row.text /\ new.unmet = u
                /\ new.blocked_by = row.blocked_by /\ new.converted = row.converted
  BY DEF Rows

LEMMA AnsweredRowIs ==
    ASSUME LedgerShape, NEW c \in Callers, Answer(c), Id(c) \in DOMAIN ledger
    PROVE  /\ AnsweredRow(c) \in Rows /\ AnsweredRow(c).status = "answered"
           /\ AnsweredRow(c).text = ledger[Id(c)].text
           /\ AnsweredRow(c).converted = ledger[Id(c)].converted
           /\ AnsweredRow(c).blocked_by = ledger[Id(c)].blocked_by
           /\ \E r \in record[c] : AnsweredRow(c).unmet = r.unmet
  <1>1. AnsweredRow(c) \in Rows /\ ledger[Id(c)] \in Rows
    BY AnsweredRowFits, RowOnFile DEF Answer, LedgerShape, FileTyped
  <1>2. record[c] # {}
    BY ReadsAt DEF LedgerShape, ThreadsHold, ThreadHolds, Reads, Answer
  <1>3. (CHOOSE r \in record[c] : TRUE) \in record[c]
    BY <1>2
  <1> DEFINE u == (CHOOSE r \in record[c] : TRUE).unmet
  <1>4. AnsweredRow(c) = [ledger[Id(c)] EXCEPT !.status = "answered", !.unmet = u]
    BY DEF AnsweredRow
  <1>5. \E r \in record[c] : u = r.unmet
    BY <1>3
  <1> HIDE DEF u
  <1> QED  BY <1>1, <1>4, <1>5, ChangedFields

LEMMA ProposedRowsAre ==
    ASSUME LedgerShape, NEW c \in Callers, NEW new \in SUBSET Scanned,
           new \cap DOMAIN prepared[c] = {}
    PROVE  /\ ProposedRows(prepared[c], new, Settles) \in Files
           /\ DOMAIN ProposedRows(prepared[c], new, Settles) = DOMAIN prepared[c] \cup new
           /\ \A i \in DOMAIN prepared[c] :
                ProposedRows(prepared[c], new, Settles)[i] = prepared[c][i]
           /\ \A i \in new :
                ProposedRows(prepared[c], new, Settles)[i] = Row(i, "open", Blockers[i] \ Settles)
  <1>1. prepared[c] \in Files
    BY DEF LedgerShape, FileTyped
  <1>2. \A i \in new : i \in new \ DOMAIN prepared[c]
    OBVIOUS
  <1>3. ASSUME NEW settled, NEW rows, rows = ProposedRows(prepared[c], new, settled)
        PROVE  /\ rows \in Files /\ DOMAIN rows = DOMAIN prepared[c] \cup new
               /\ \A i \in DOMAIN prepared[c] : rows[i] = prepared[c][i]
               /\ \A i \in new : rows[i] = Row(i, "open", Blockers[i] \ settled)
    <2>1. rows \in Files /\ DOMAIN rows = DOMAIN prepared[c] \cup new
      BY <1>1, <1>3, ProposedFile
    <2>2. \A i \in DOMAIN prepared[c] : rows[i] = prepared[c][i]
      BY <1>3 DEF ProposedRows
    <2>3. \A i \in new : rows[i] = Row(i, "open", Blockers[i] \ settled)
      BY <1>2, <1>3 DEF ProposedRows
    <2> QED  BY <2>1, <2>2, <2>3
  <1> QED  BY <1>3

(* A fold is added to the history of its record.                           *)
LEMMA FoldIsAdded ==
    ASSUME LedgerShape, NEW id \in Ids, NEW row \in Rows,
           folded' = [folded EXCEPT ![id] = Append(folded[id], FoldEntry(row))]
    PROVE  /\ FoldEntry(row) \in FoldEntries /\ folded[id] \in Seq(FoldEntries)
           /\ folded'[id] = Append(folded[id], FoldEntry(row)) /\ folded'[id] # << >>
           /\ Len(folded'[id]) = Len(folded[id]) + 1
           /\ \A i \in Ids \ {id} : folded'[i] = folded[i]
           /\ \A i \in Ids : folded[i] # << >> => folded'[i] # << >>
  <1>1. FoldEntry(row) \in FoldEntries
    BY DEF FoldEntry, FoldEntries, Rows, Warranted
  <1>2. folded \in [Ids -> Seq(FoldEntries)]
    BY DEF LedgerShape, RestTyped
  <1>3. /\ folded'[id] = Append(folded[id], FoldEntry(row))
        /\ \A i \in Ids \ {id} : folded'[i] = folded[i]
    BY <1>2
  <1>4. folded[id] \in Seq(FoldEntries)
    BY <1>2
  <1>5. /\ Len(Append(folded[id], FoldEntry(row))) = Len(folded[id]) + 1
        /\ Append(folded[id], FoldEntry(row)) # << >>
    BY <1>1, <1>4, AppendProperties
  <1> QED  BY <1>1, <1>3, <1>4, <1>5

LEMMA AnsweringClaims ==
    ASSUME LedgerShape, FoldsAreTrue, NEW c \in Callers,
           Warrant(c) \/ Answer(c) \/ Followup(c) \/ Requote(c) \/ Restate(c)
    PROVE  FoldsAreTrue'
  <1>0. ledger \in Files /\ \A i \in DOMAIN ledger : IsTrue(i, ledger[i], folded)
    BY DEF LedgerShape, FileTyped, FoldsAreTrue, RowsAreTrue
  <1>1. CASE Warrant(c)
    BY <1>1, WhatWarrantDoes, GoingClaimsNothing DEF Quiet
  <1>2. CASE Answer(c)
    <2>1. Id(c) \in DOMAIN ledger => IsTrue(Id(c), AnsweredRow(c), folded)
      BY <1>0, <1>2, AnsweredRowIs DEF IsTrue
    <2> QED  BY <1>2, <2>1, WhatAnswerDoes, LeavingClaimsNothing, PuttingClaimsTheRow DEF Quiet
  <1>3. CASE Followup(c)
    <2>1. \A id : IsTrue(id, Row(id, "open", {}), folded)
      BY DEF IsTrue, Row
    <2> QED  BY <1>3, <2>1, WhatFollowupDoes, GoingClaimsNothing, PuttingClaimsTheRow DEF Quiet
  <1>4. CASE Requote(c)
    BY <1>4, WhatRequoteDoes, GoingClaimsNothing DEF Quiet
  <1>5. CASE Restate(c)
    <2>1. \A e \in DOMAIN ledger : \A t : IsTrue(e, [ledger[e] EXCEPT !.text = t], folded)
      BY <1>0, RowOnFile, ChangedFields DEF IsTrue
    <2> QED  BY <1>5, <2>1, WhatRestateDoes, LeavingClaimsNothing, PuttingClaimsTheRow DEF Quiet
  <1> QED  BY <1>1, <1>2, <1>3, <1>4, <1>5

LEMMA AskingClaims ==
    ASSUME LedgerShape, FoldsAreTrue, NEW c \in Callers, Log(c) \/ Exists(c) \/ Close(c) \/ Mine(c)
    PROVE  FoldsAreTrue'
  <1>0. ledger \in Files /\ \A i \in DOMAIN ledger : IsTrue(i, ledger[i], folded)
    BY DEF LedgerShape, FileTyped, FoldsAreTrue, RowsAreTrue
  <1>1. CASE Log(c)
    <2>1. \A id : IsTrue(id, Row(id, "open", {}), folded)
      BY DEF IsTrue, Row
    <2> QED  BY <1>1, <2>1, WhatLogDoes, GoingClaimsNothing, PuttingClaimsTheRow DEF Quiet
  <1>2. CASE Exists(c)
    BY <1>2, WhatExistsDoes, GoingClaimsNothing DEF Quiet
  <1>3. CASE Close(c)
    <2>1. \A i \in DOMAIN ledger : \A s \in {"answered", "deferred"} :
            IsTrue(i, [ledger[i] EXCEPT !.status = s], folded)
      BY <1>0, RowOnFile, ChangedFields DEF IsTrue
    <2> QED  BY <1>3, <2>1, WhatCloseDoes, LeavingClaimsNothing, PuttingClaimsTheRow DEF Quiet
  <1>4. CASE Mine(c)
    BY <1>4, WhatMineDoes, GoingClaimsNothing
  <1> QED  BY <1>1, <1>2, <1>3, <1>4

LEMMA OtherHandlersClaim ==
    ASSUME LedgerShape, FoldsAreTrue, NEW c \in Callers,
           \/ Mark(c) \/ AppendIfNew(c) \/ Stored(c) \/ Check(c) \/ Cancel(c) \/ Scan(c)
           \/ Propose(c) \/ ReadRaises(c)
    PROVE  FoldsAreTrue'
  <1>0. ledger \in Files /\ \A i \in DOMAIN ledger : IsTrue(i, ledger[i], folded)
    BY DEF LedgerShape, FileTyped, FoldsAreTrue, RowsAreTrue
  <1>1. CASE Mark(c)
    <2>1. AtStage(c, "mark") => folded[Id(c)] # << >>
      BY DEF FoldsAreTrue, AtStage
    <2>2. AtStage(c, "mark") /\ Id(c) \in DOMAIN ledger =>
            IsTrue(Id(c), [ledger[Id(c)] EXCEPT !.converted = TRUE], folded)
      BY <1>0, <2>1, RowOnFile, ChangedFields DEF IsTrue
    <2> QED  BY <1>1, <2>2, WhatMarkDoes, LeavingClaimsNothing, PuttingClaimsTheRow DEF Quiet
  <1>2. CASE AppendIfNew(c)
    <2>1. \A id : IsTrue(id, Row(id, "answered", {}), folded)
      BY DEF IsTrue, Row
    <2> QED  BY <1>2, <2>1, WhatAppendDoes, GoingClaimsNothing, PuttingClaimsTheRow DEF Quiet
  <1>3. CASE Stored(c)
    BY <1>3, WhatStoredDoes, GoingClaimsNothing, LeavingClaimsNothing DEF Quiet
  <1>4. CASE Check(c)
    BY <1>4, WhatCheckDoes, GoingClaimsNothing, LeavingClaimsNothing DEF Quiet
  <1>5. CASE Cancel(c)
    <2>1. Id(c) \in Ranking /\ Id(c) \in DOMAIN ledger =>
            IsTrue(Id(c), [ledger[Id(c)] EXCEPT !.status = "cancelled"], folded)
      BY <1>0, RowOnFile, ChangedFields DEF IsTrue
    <2> QED  BY <1>5, <2>1, WhatCancelDoes, LeavingClaimsNothing, PuttingClaimsTheRow DEF Quiet
  <1>6. CASE Scan(c)
    <2>1. /\ prepared'[c] = ledger /\ \A d \in Callers \ {c} : prepared'[d] = prepared[d]
          /\ ledger' = ledger /\ StageOf(c)' = "propose" /\ OthersStay(c) /\ UNCHANGED <<job, folded>>
      BY <1>6, WhatScanDoes DEF LedgerShape, FileTyped, Quiet
    <2> QED  BY <2>1, ClaimsStay DEF FoldsAreTrue
  <1>7. CASE Propose(c)
    <2>1. UNCHANGED <<job, folded>>
      BY <1>7, WhatProposingDoes DEF Quiet
    <2>2. CASE GoesTo(c, {"none"})
      BY <2>1, <2>2, GoingClaimsNothing
    <2>3. ASSUME NEW new \in SUBSET Scanned, new \cap DOMAIN prepared[c] = {},
                 Puts(c, ProposedRows(prepared[c], new, Settles))
          PROVE  FoldsAreTrue'
      <3>1. \A i : IsTrue(i, Row(i, "open", Blockers[i] \ Settles), folded)
        BY DEF IsTrue, Row
      <3>2. ASSUME NEW rows, rows = ProposedRows(prepared[c], new, Settles)
            PROVE  RowsAreTrue(rows)
        <4>1. /\ DOMAIN rows = DOMAIN prepared[c] \cup new
              /\ \A i \in DOMAIN prepared[c] : rows[i] = prepared[c][i]
              /\ \A i \in new : rows[i] = Row(i, "open", Blockers[i] \ Settles)
          BY <2>3, <3>2, ProposedRowsAre
        <4>2. \A i \in DOMAIN prepared[c] : IsTrue(i, prepared[c][i], folded)
          BY DEF FoldsAreTrue, RowsAreTrue
        <4> QED  BY <3>1, <4>1, <4>2 DEF RowsAreTrue
      <3> QED  BY <2>1, <2>3, <3>2, PuttingClaimsTheRows
    <2> QED  BY <1>7, <2>2, <2>3, WhatProposingDoes
  <1>8. CASE ReadRaises(c)
    BY <1>8, WhatRaisingDoes, LeavingClaimsNothing DEF Quiet
  <1> QED  BY <1>1, <1>2, <1>3, <1>4, <1>5, <1>6, <1>7, <1>8

LEMMA FoldingClaims ==
    ASSUME LedgerShape, FoldsAreTrue, NEW c \in Callers, Fold(c)
    PROVE  FoldsAreTrue'
  <1>1. CASE Leaves(c) /\ UNCHANGED <<corpus, folded>>
    BY <1>1, WhatFoldDoes, LeavingClaimsNothing
  <1>2. ASSUME NEW row \in Rows, Id(c) \notin Ranking, GoesTo(c, {"mark"}),
               folded' = [folded EXCEPT ![Id(c)] = Append(folded[Id(c)], FoldEntry(row))]
        PROVE  FoldsAreTrue'
    <2>1. Id(c) \in Ids /\ UNCHANGED job
      BY WhatFoldDoes
    <2>2. /\ folded'[Id(c)] # << >> /\ \A i \in Ids \ {Id(c)} : folded'[i] = folded[i]
          /\ \A i \in Ids : folded[i] # << >> => folded'[i] # << >>
      BY <1>2, <2>1, FoldIsAdded
    <2>3. \A rows \in Files : RowsAreTrue(rows) => \A i \in DOMAIN rows : IsTrue(i, rows[i], folded')
      BY <2>2, RowOnFile DEF RowsAreTrue, IsTrue
    <2>4. /\ UNCHANGED <<ledger, prepared>> /\ ledger \in Files /\ \A d \in Callers : prepared[d] \in Files
      BY <1>2 DEF GoesTo, LedgerShape, FileTyped
    <2>5. \A d \in Callers \ {c} : StageOf(d)' = StageOf(d)
      BY <1>2 DEF GoesTo, OthersStay, StageOf
    <2>6. \A d \in Callers : StageOf(d)' = "mark" => folded'[Id(d)'] # << >>
      <3>1. \A d \in Callers : StageOf(d) = "mark" => Id(d) \in Ids
        BY StageTellsTheRequest DEF LedgerShape, ThreadsHold, ThreadHolds, JobFits, StageOf, Stage, Id, Ids
      <3> QED  BY <2>1, <2>2, <2>5, <3>1 DEF FoldsAreTrue, Id
    <2>7. \A i \in Ranking : folded'[i] = << >>
      BY <1>2, <2>2, LedgerAssumption DEF FoldsAreTrue, Ids
    <2> QED  BY <2>3, <2>4, <2>6, <2>7 DEF FoldsAreTrue, RowsAreTrue
  <1> QED  BY <1>1, <1>2, WhatFoldDoes

LEMMA EmptyingClaims ==
    ASSUME LedgerShape, FoldsAreTrue, NEW c \in Callers, Opens(c) \/ Fills(c) \/ EntersAny(c)
    PROVE  FoldsAreTrue'
  <1>1. CASE Opens(c)
    <2>1. /\ ledger' = Empty /\ UNCHANGED <<prepared, todo, job, folded>>
      BY <1>1, WhatOpeningDoes DEF Quiet
    <2> QED  BY <2>1, ClaimsStay, EmptyClaimsNothing DEF FoldsAreTrue, OthersStay, StageOf
  <1>2. CASE Fills(c)
    <2>1. /\ ledger' = prepared[c] /\ prepared'[c] = Empty /\ UNCHANGED <<job, folded>>
          /\ OthersStay(c) /\ \A d \in Callers \ {c} : prepared'[d] = prepared[d]
      BY <1>2, WhatFillingDoes DEF LedgerShape, FileTyped
    <2>2. /\ StageOf(c)' = Stage(Tail(todo[c])) /\ todo[c] # << >> /\ Left(job[c], todo[c])
          /\ Head(todo[c]) \in WritingStages
      BY <1>2, WhatFillingDoes
    <2>3. StageOf(c)' # "mark"
      BY <2>2, HandlerGoesOn DEF WritingStages, Stage
    <2> QED  BY <2>1, <2>3, ClaimsStay, EmptyClaimsNothing DEF FoldsAreTrue
  <1>3. CASE EntersAny(c)
    <2>1. /\ OthersStay(c) /\ UNCHANGED <<ledger, prepared, folded>> /\ StageOf(c)' # "mark"
          /\ \A d \in Callers \ {c} : job'[d] = job[d]
      BY <1>3, WhatEnteringDoes
    <2>2. \A d \in Callers \ {c} : StageOf(d)' = StageOf(d)
      BY <2>1 DEF OthersStay, StageOf
    <2> QED  BY <2>1, <2>2 DEF FoldsAreTrue, RowsAreTrue, Id
  <1> QED  BY <1>1, <1>2, <1>3

LEMMA FoldsStayTrue ==
    ASSUME LedgerShape, FoldsAreTrue, [Next]_loopVars
    PROVE  FoldsAreTrue'
  <1>1. ASSUME NEW c \in Callers, LedgerStep(c)
        PROVE  FoldsAreTrue'
    BY <1>1, AnsweringClaims, AskingClaims, OtherHandlersClaim, FoldingClaims, EmptyingClaims
       DEF LedgerStep, HandlerStep
  <1>2. ASSUME UNCHANGED <<ledger, todo, job, prepared, folded>>
        PROVE  FoldsAreTrue'
    BY <1>2 DEF FoldsAreTrue, RowsAreTrue, StageOf, Id
  <1>3. CASE LedgerStops
    <2>1. /\ \A c \in Callers : todo'[c] = << >> /\ prepared'[c] = Empty
          /\ UNCHANGED <<ledger, job, folded>>
      BY <1>3 DEF LedgerStops, Stops, history, LedgerShape, FileTyped
    <2>2. \A c \in Callers : StageOf(c)' = "none"
      BY <2>1 DEF StageOf, Stage
    <2> QED  BY <2>1, <2>2, EmptyIsAFile DEF FoldsAreTrue, RowsAreTrue
  <1>4. ASSUME NEW t \in Texts, approve_draft(t)
        PROVE  UNCHANGED <<ledger, todo, job, prepared, folded>>
    BY <1>4 DEF approve_draft, caller, history
  <1>5. CASE OnTheLedger
    BY <1>1, <1>2, <1>4, <1>5 DEF OnTheLedger
  <1>6. CASE OnTheReports \/ TurnServed \/ UNCHANGED loopVars
    BY <1>2, <1>6 DEF OnTheReports, TurnServed, record_node, loopVars, ledgerVars, caller, history
  <1> QED  BY <1>3, <1>5, <1>6 DEF Next, Waits, ProcessEnds

(* No row claims a conversion that was not tried, and no question that is  *)
(* chosen among readings left a fact, whatever threads interleave and      *)
(* wherever the process ends.                                              *)
THEOREM FoldsAreAlwaysTrue == Spec => []FoldsAreTrue
  <1>1. Init => FoldsAreTrue
    <2> SUFFICES ASSUME LedgerInit
                 PROVE  FoldsAreTrue
      BY DEF Init
    <2>1. \A c \in Callers : prepared[c] = Empty /\ StageOf(c) = "none"
      BY DEF LedgerInit, StageOf, Stage
    <2>2. ledger = Empty /\ \A i \in Ranking : folded[i] = << >>
      BY LedgerAssumption DEF LedgerInit, Ids
    <2> QED  BY <2>1, <2>2, EmptyIsAFile DEF FoldsAreTrue, RowsAreTrue
  <1>2. LedgerShape /\ FoldsAreTrue /\ [Next]_loopVars => FoldsAreTrue'
    BY FoldsStayTrue
  <1> QED  BY <1>1, <1>2, LedgerShapeHolds, PTL DEF Spec
-----------------------------------------------------------------------------
(* One writer.  A step that goes on, leaves, or puts rows where they wait  *)
(* keeps the promises, by what it does to the writer's stage.              *)
FoldsRest == UNCHANGED <<job, logged, folded>>

LEMMA AloneGoing ==
    ASSUME LedgerShape, NEW c \in Callers, AloneHolds(c), writing[c] = "no", FoldsRest,
           NEW stages, "propose" \notin stages, GoesTo(c, stages), StageOf(c) # "mark",
           HoldsTheRow(c)'
    PROVE  AloneHolds(c)'
  <1>1. /\ UNCHANGED <<ledger, torn, prepared, writing, logged, folded>>
        /\ StageOf(c)' # "propose" /\ writing'[c] = "no"
    BY DEF GoesTo, FoldsRest
  <1>2. FileKeeps(c)'
    BY <1>1 DEF AloneHolds, FileKeeps
  <1>3. /\ AnsweredStays(ledger)' /\ AnsweredStays(prepared[c])'
        /\ AsksWhatWasFolded(ledger)' /\ AsksWhatWasFolded(prepared[c])'
    BY <1>1 DEF AloneHolds, AnsweredStays, AsksWhatWasFolded
  <1>4. FoldedOnce(c)'
    BY <1>1 DEF AloneHolds, FoldedOnce, Upcoming
  <1> QED  BY <1>2, <1>3, <1>4 DEF AloneHolds

LEMMA AloneLeaving ==
    ASSUME LedgerShape, NEW c \in Callers, AloneHolds(c), writing[c] = "no", FoldsRest,
           Leaves(c), StageOf(c) # "mark"
    PROVE  AloneHolds(c)'
  <1>1. /\ UNCHANGED <<ledger, torn, writing, logged, folded>> /\ prepared'[c] = Empty
        /\ StageOf(c)' = "none" /\ writing'[c] = "no"
    BY DEF Leaves, FoldsRest, LedgerShape, FileTyped
  <1>2. FileKeeps(c)'
    BY <1>1 DEF AloneHolds, FileKeeps
  <1>3. AnsweredStays(ledger)' /\ AnsweredStays(prepared[c])'
    BY <1>1, EmptyIsAFile DEF AloneHolds, AnsweredStays
  <1>4. AsksWhatWasFolded(ledger)' /\ AsksWhatWasFolded(prepared[c])'
    BY <1>1, EmptyIsAFile DEF AloneHolds, AsksWhatWasFolded
  <1>5. FoldedOnce(c)'
    BY <1>1 DEF AloneHolds, FoldedOnce, Upcoming
  <1>6. HoldsTheRow(c)'
    BY <1>1 DEF HoldsTheRow
  <1> QED  BY <1>2, <1>3, <1>4, <1>5, <1>6 DEF AloneHolds

(* What a row that is put on the list must be.                             *)
RowStays(i, row) ==
    /\ row.converted /\ i \notin Live => row.status = "answered"
    /\ i \in Explained => row.status = "answered"
    /\ row.converted <=> folded[i] # << >>
    /\ row.converted => Len(folded[i]) = 1 /\ folded[i][1].text = row.text

LEMMA AlonePutting ==
    ASSUME LedgerShape, NEW c \in Callers, AloneHolds(c), writing[c] = "no", FoldsRest,
           NEW rows, Puts(c, rows), DOMAIN ledger \subseteq DOMAIN rows,
           \A i \in DOMAIN rows : \/ i \in DOMAIN ledger /\ rows[i] = ledger[i]
                                  \/ RowStays(i, rows[i]),
           StageOf(c) = "mark" => Id(c) \in DOMAIN rows /\ RowStays(Id(c), rows[Id(c)]),
           ListStep(StatusIn(ledger), ConvertedIn(ledger), StatusIn(rows), ConvertedIn(rows)),
           HoldsTheRow(c)'
    PROVE  AloneHolds(c)'
  <1>1. /\ UNCHANGED <<ledger, torn, logged, folded>> /\ prepared'[c] = rows
        /\ StageOf(c)' = StageOf(c) /\ writing'[c] = "opens"
    BY DEF Puts, FoldsRest, LedgerShape, FileTyped
  <1>2. FileKeeps(c)'
    <2>1. ListStep(StatusIn(ledger), ConvertedIn(ledger), StatusIn(prepared[c]), ConvertedIn(prepared[c]))'
      BY <1>1 DEF StatusIn, ConvertedIn
    <2> QED  BY <1>1, <2>1 DEF AloneHolds, FileKeeps
  <1>3. AnsweredStays(ledger)' /\ AnsweredStays(prepared[c])'
    BY <1>1 DEF AloneHolds, AnsweredStays, RowStays
  <1>4. AsksWhatWasFolded(ledger)' /\ AsksWhatWasFolded(prepared[c])'
    BY <1>1 DEF AloneHolds, AsksWhatWasFolded, RowStays
  <1>5. FoldedOnce(c)'
    <2> SUFFICES ASSUME NEW i \in Ids, folded[i] # << >>
                 PROVE  /\ Len(folded[i]) = 1 /\ i \in DOMAIN rows /\ folded[i][1].text = rows[i].text
                        /\ rows[i].converted
      BY <1>1 DEF FoldedOnce, Upcoming
    <2>1. /\ Len(folded[i]) = 1 /\ i \in DOMAIN ledger /\ folded[i][1].text = ledger[i].text
          /\ ledger[i].converted \/ (StageOf(c) = "mark" /\ Id(c) = i)
      BY DEF AloneHolds, FoldedOnce, Upcoming
    <2> QED  BY <2>1 DEF RowStays
  <1> QED  BY <1>2, <1>3, <1>4, <1>5 DEF AloneHolds

LEMMA RowListed ==
    ASSUME NEW rows \in Files, NEW new \in Files, NEW id \in Ids, NEW row \in Rows,
           Differs(rows, new, id, row)
    PROVE  /\ StatusIn(new) = [StatusIn(rows) EXCEPT ![id] = row.status]
           /\ ConvertedIn(new) = (ConvertedIn(rows) \ {id}) \cup {i \in {id} : row.converted}
  <1>1. /\ DOMAIN new = DOMAIN rows \cup {id} /\ new[id] = row
        /\ \A i \in DOMAIN rows \ {id} : new[i] = rows[i]
    BY DEF Differs
  <1>2. StatusIn(new) = [StatusIn(rows) EXCEPT ![id] = row.status]
    BY <1>1 DEF StatusIn
  <1>3. ConvertedIn(new) = (ConvertedIn(rows) \ {id}) \cup {i \in {id} : row.converted}
    BY <1>1 DEF ConvertedIn
  <1> QED  BY <1>2, <1>3

(* The row of a question, as the abstract list takes it.                   *)
RowMoves(rows, id, row) ==
    \/ /\ row.converted <=> id \in ConvertedIn(rows)
       /\ \/ id \notin DOMAIN rows /\ row.status = "open"
          \/ row.status = "answered"
          \/ id \in DOMAIN rows /\ row.status \in {"deferred", rows[id].status}
          \/ id \in DOMAIN rows /\ rows[id].status # "answered" /\ row.status = "cancelled"
    \/ id \in DOMAIN rows /\ row.converted /\ row.status = "answered" /\ rows[id].status = "answered"

LEMMA MovesAreSteps ==
    ASSUME NEW rows \in Files, NEW new \in Files, NEW id \in Ids, NEW row \in Rows,
           Differs(rows, new, id, row), RowMoves(rows, id, row)
    PROVE  ListStep(StatusIn(rows), ConvertedIn(rows), StatusIn(new), ConvertedIn(new))
  <1> DEFINE s == StatusIn(rows)
             k == ConvertedIn(rows)
             s2 == StatusIn(new)
             k2 == ConvertedIn(new)
  <1>1. s2 = [s EXCEPT ![id] = row.status] /\ k2 = (k \ {id}) \cup {i \in {id} : row.converted}
    BY RowListed
  <1>2. /\ DOMAIN s = Ids /\ s = [i \in Ids |-> s[i]]
        /\ id \in DOMAIN rows => s[id] = rows[id].status /\ rows[id].status \in Statuses
        /\ id \notin DOMAIN rows => s[id] = "none" /\ id \notin k
    BY RowOnFile DEF StatusIn, ConvertedIn, Rows
  <1>3. id \in DOMAIN rows => (id \in k <=> rows[id].converted)
    BY DEF ConvertedIn
  <1>4. CASE row.converted <=> id \in k
    <2>1. k2 = k
      BY <1>1, <1>4
    <2> HIDE DEF s, k, s2, k2
    <2>2. CASE id \notin DOMAIN rows /\ row.status = "open"
      <3>1. s2 = [q \in Ids |-> IF q \in {id} THEN "open" ELSE s[q]] /\ \A q \in {id} : s[q] = "none"
        BY <1>1, <1>2, <2>2
      <3>2. \E S \in SUBSET Ids : /\ \A q \in S : s[q] = "none"
                                  /\ s2 = [q \in Ids |-> IF q \in S THEN "open" ELSE s[q]] /\ k2 = k
        <4>1. {id} \in SUBSET Ids
          OBVIOUS
        <4> QED  BY Zenon, <2>1, <3>1, <4>1
      <3> QED  BY <3>2 DEF ListStep, s, k, s2, k2
    <2>3. CASE row.status = "answered"
      BY <1>1, <2>1, <2>3 DEF ListStep, s, k, s2, k2
    <2>4. CASE id \in DOMAIN rows /\ row.status = "deferred"
      <3>1. s[id] # "none"
        BY <1>2, <2>4 DEF Statuses
      <3> QED  BY <1>1, <2>1, <2>4, <3>1 DEF ListStep, s, k, s2, k2
    <2>5. CASE id \in DOMAIN rows /\ row.status = rows[id].status
      <3>1. s2 = s
        BY <1>1, <1>2, <2>5
      <3> QED  BY <2>1, <3>1 DEF ListStep, s, k, s2, k2
    <2>6. CASE id \in DOMAIN rows /\ rows[id].status # "answered" /\ row.status = "cancelled"
      <3>1. s[id] \in {"open", "deferred", "cancelled"}
        BY <1>2, <2>6 DEF Statuses
      <3> QED  BY <1>1, <2>1, <2>6, <3>1 DEF ListStep, s, k, s2, k2
    <2>7. \/ id \notin DOMAIN rows /\ row.status = "open"
          \/ row.status = "answered"
          \/ id \in DOMAIN rows /\ row.status = "deferred"
          \/ id \in DOMAIN rows /\ row.status = rows[id].status
          \/ id \in DOMAIN rows /\ rows[id].status # "answered" /\ row.status = "cancelled"
      BY DEF RowMoves
    <2> QED  BY <2>2, <2>3, <2>4, <2>5, <2>6, <2>7
  <1>5. CASE /\ id \in DOMAIN rows /\ row.converted /\ row.status = "answered"
             /\ rows[id].status = "answered" /\ id \notin k
    <2>1. k2 = k \cup {id}
      BY <1>1, <1>5
    <2>2. s2 = s /\ s[id] = "answered"
      BY <1>1, <1>2, <1>5
    <2> QED  BY <1>5, <2>1, <2>2 DEF ListStep
  <1> QED  BY <1>4, <1>5 DEF RowMoves

(* What one writer's list tells of the folds.                              *)
LEMMA ListTellsTheFolds ==
    ASSUME LedgerShape, FoldsAreTrue, NEW c \in Callers, AloneHolds(c), writing[c] = "no"
    PROVE  /\ \A i \in Ids \ DOMAIN ledger : folded[i] = << >>
           /\ \A i \in DOMAIN ledger : /\ ledger[i] \in Rows /\ i \in Ids
                                       /\ ledger[i].converted => folded[i] # << >>
           /\ \A i \in DOMAIN ledger : folded[i] # << >> =>
                Len(folded[i]) = 1 /\ folded[i][1].text = ledger[i].text
           /\ StageOf(c) # "mark" =>
                \A i \in DOMAIN ledger : folded[i] # << >> => ledger[i].converted
  <1>1. ledger \in Files
    BY DEF LedgerShape, FileTyped
  <1>2. \A i \in DOMAIN ledger : ledger[i] \in Rows /\ i \in Ids
    BY <1>1, RowOnFile
  <1>3. \A i \in DOMAIN ledger : ledger[i].converted => folded[i] # << >>
    BY DEF FoldsAreTrue, RowsAreTrue, IsTrue
  <1>4. \A i \in Ids : folded[i] # << >> =>
          /\ Len(folded[i]) = 1 /\ i \in DOMAIN ledger /\ folded[i][1].text = ledger[i].text
          /\ ledger[i].converted \/ StageOf(c) = "mark"
    BY DEF AloneHolds, FoldedOnce, Upcoming
  <1> QED  BY <1>2, <1>3, <1>4

LEMMA AlonePuttingRow ==
    ASSUME LedgerShape, NEW c \in Callers, AloneHolds(c), writing[c] = "no", FoldsRest,
           NEW id, NEW row, PutsRow(c, id, row), RowStays(id, row), RowMoves(ledger, id, row),
           StageOf(c) \in {"log", "close", "answer", "followup", "restate", "mark", "append", "cancel"},
           StageOf(c) = "mark" => id = Id(c),
           StageOf(c) \in {"followup", "restate"} => id # Id(c) /\ UNCHANGED record,
           StageOf(c) \in {"answer", "append"} =>
             id = Id(c) /\ record'[c] = {row} /\ row.status = "answered"
    PROVE  AloneHolds(c)'
  <1>1. PICK rows \in Files : Puts(c, rows) /\ Differs(ledger, rows, id, row)
    BY DEF PutsRow
  <1>2. /\ DOMAIN rows = DOMAIN ledger \cup {id} /\ rows[id] = row /\ row \in Rows /\ id \in Ids
        /\ \A i \in DOMAIN ledger \ {id} : rows[i] = ledger[i]
    BY <1>1 DEF Differs
  <1>3. ListStep(StatusIn(ledger), ConvertedIn(ledger), StatusIn(rows), ConvertedIn(rows))
    BY <1>1, <1>2, MovesAreSteps DEF LedgerShape, FileTyped
  <1>4. /\ prepared'[c] = rows /\ writing'[c] = "opens" /\ StageOf(c)' = StageOf(c)
        /\ Id(c)' = Id(c)
    BY <1>1 DEF Puts, LedgerShape, FileTyped, FoldsRest, Id
  <1>5. HoldsTheRow(c)'
    <2>1. CASE StageOf(c) \in {"followup", "restate"}
      <3>1. /\ Id(c) \in DOMAIN ledger /\ record[c] = {ledger[Id(c)]}
            /\ ledger[Id(c)].status = "answered"
        BY <2>1 DEF AloneHolds, HoldsTheRow, Upcoming
      <3>2. Id(c) \in DOMAIN rows /\ rows[Id(c)] = ledger[Id(c)]
        BY <1>2, <2>1, <3>1
      <3> QED  BY <1>4, <2>1, <3>1, <3>2 DEF HoldsTheRow, Upcoming
    <2>2. CASE StageOf(c) \in {"answer", "append"}
      BY <1>2, <1>4, <2>2 DEF HoldsTheRow, Upcoming
    <2>3. CASE StageOf(c) \in {"log", "close", "mark", "cancel"}
      BY <1>4, <2>3 DEF HoldsTheRow
    <2> QED  BY <2>1, <2>2, <2>3
  <1>6. \A i \in DOMAIN rows : \/ i \in DOMAIN ledger /\ rows[i] = ledger[i]
                               \/ RowStays(i, rows[i])
    BY <1>2
  <1> QED  BY <1>1, <1>2, <1>3, <1>5, <1>6, AlonePutting

LEMMA AloneAsking ==
    ASSUME LedgerShape, FoldsAreTrue, NEW c \in Callers, AloneHolds(c),
           Log(c) \/ Exists(c) \/ Close(c) \/ Mine(c)
    PROVE  AloneHolds(c)'
  <1>1. CASE Log(c)
    <2>1. /\ AtStage(c, "log") /\ writing[c] = "no" /\ StageOf(c) = "log" /\ FoldsRest
          /\ Id(c) \in Live /\ Id(c) \in Ids \ Explained
      BY <1>1, WhatLogDoes, IdsAssumption DEF AtStage, Quiet, FoldsRest, Ids
    <2>2. CASE GoesTo(c, {"none", "exists"})
      <3>1. HoldsTheRow(c)'
        BY <2>2 DEF HoldsTheRow, GoesTo
      <3> QED  BY <2>1, <2>2, <3>1, AloneGoing
    <2>3. CASE Id(c) \notin DOMAIN ledger /\ PutsRow(c, Id(c), Row(Id(c), "open", {}))
      <3>1. folded[Id(c)] = << >>
        BY <2>1, <2>3, ListTellsTheFolds
      <3>2. RowStays(Id(c), Row(Id(c), "open", {})) /\ RowMoves(ledger, Id(c), Row(Id(c), "open", {}))
        BY <2>1, <2>3, <3>1 DEF RowStays, RowMoves, Row, ConvertedIn
      <3> QED  BY <2>1, <2>3, <3>2, AlonePuttingRow
    <2> QED  BY <1>1, <2>2, <2>3, WhatLogDoes
  <1>2. CASE Exists(c)
    <2>1. /\ GoesTo(c, {"close", "mine"}) /\ writing[c] = "no" /\ StageOf(c) = "exists" /\ FoldsRest
      BY <1>2, WhatExistsDoes DEF AtStage, Quiet, FoldsRest
    <2>2. HoldsTheRow(c)'
      BY <2>1 DEF HoldsTheRow, GoesTo
    <2> QED  BY <2>1, <2>2, AloneGoing
  <1>3. CASE Close(c)
    <2>1. /\ AtStage(c, "close") /\ writing[c] = "no" /\ StageOf(c) = "close" /\ FoldsRest
          /\ Id(c) \in Live /\ Id(c) \in Ids \ Explained /\ job[c].reply \in {"answered", "deferred"}
      BY <1>3, WhatCloseDoes, IdsAssumption DEF AtStage, Quiet, FoldsRest, Ids
    <2>2. CASE Leaves(c)
      BY <2>1, <2>2, AloneLeaving
    <2>3. ASSUME Id(c) \in DOMAIN ledger, NEW row, row = [ledger[Id(c)] EXCEPT !.status = job[c].reply],
                 PutsRow(c, Id(c), row)
          PROVE  AloneHolds(c)'
      <3>1. /\ row.converted = ledger[Id(c)].converted /\ row.text = ledger[Id(c)].text
            /\ row.status \in {"answered", "deferred"}
        BY <2>1, <2>3, ListTellsTheFolds, ChangedFields
      <3>2. RowStays(Id(c), row) /\ RowMoves(ledger, Id(c), row)
        BY <2>1, <2>3, <3>1, ListTellsTheFolds DEF RowStays, RowMoves, ConvertedIn
      <3> QED  BY <2>1, <2>3, <3>2, AlonePuttingRow
    <2> QED  BY <1>3, <2>2, <2>3, WhatCloseDoes
  <1>4. CASE Mine(c)
    <2>1. GoesTo(c, {"none"}) /\ writing[c] = "no" /\ StageOf(c) = "mine" /\ FoldsRest
      BY <1>4, WhatMineDoes DEF AtStage, FoldsRest
    <2>2. HoldsTheRow(c)'
      BY <2>1 DEF HoldsTheRow, GoesTo
    <2> QED  BY <2>1, <2>2, AloneGoing
  <1> QED  BY <1>1, <1>2, <1>3, <1>4

LEMMA AloneAnswering ==
    ASSUME LedgerShape, FoldsAreTrue, NEW c \in Callers, AloneHolds(c),
           Warrant(c) \/ Answer(c) \/ Followup(c) \/ Requote(c) \/ Restate(c)
    PROVE  AloneHolds(c)'
  <1>1. CASE Warrant(c)
    <2>1. GoesTo(c, {"answer"}) /\ writing[c] = "no" /\ StageOf(c) = "warrant" /\ FoldsRest
      BY <1>1, WhatWarrantDoes DEF AtStage, Quiet, FoldsRest
    <2>2. HoldsTheRow(c)'
      BY <2>1 DEF HoldsTheRow, GoesTo
    <2> QED  BY <2>1, <2>2, AloneGoing
  <1>2. CASE Answer(c)
    <2>1. writing[c] = "no" /\ StageOf(c) = "answer" /\ FoldsRest /\ Id(c) \in Ids
      BY <1>2, WhatAnswerDoes DEF AtStage, Quiet, FoldsRest
    <2>2. CASE Leaves(c)
      BY <2>1, <2>2, AloneLeaving
    <2>3. CASE /\ Id(c) \in DOMAIN ledger /\ PutsRow(c, Id(c), AnsweredRow(c))
               /\ record' = [record EXCEPT ![c] = {AnsweredRow(c)}]
      <3>1. /\ AnsweredRow(c).converted = ledger[Id(c)].converted /\ AnsweredRow(c).status = "answered"
            /\ AnsweredRow(c).text = ledger[Id(c)].text
        BY <1>2, <2>3, AnsweredRowIs
      <3>2. RowStays(Id(c), AnsweredRow(c)) /\ RowMoves(ledger, Id(c), AnsweredRow(c))
        BY <2>1, <2>3, <3>1, ListTellsTheFolds DEF RowStays, RowMoves, ConvertedIn
      <3>3. record'[c] = {AnsweredRow(c)}
        BY <2>3 DEF LedgerShape, RestTyped
      <3> QED  BY <2>1, <2>3, <3>1, <3>2, <3>3, AlonePuttingRow
    <2> QED  BY <1>2, <2>2, <2>3, WhatAnswerDoes
  <1>3. CASE Followup(c)
    <2>1. /\ writing[c] = "no" /\ StageOf(c) = "followup" /\ FoldsRest /\ UNCHANGED record
      BY <1>3, WhatFollowupDoes DEF AtStage, Quiet, FoldsRest
    <2>2. /\ Id(c) \in DOMAIN ledger /\ record[c] = {ledger[Id(c)]}
          /\ ledger[Id(c)].status = "answered"
      BY <2>1 DEF AloneHolds, HoldsTheRow, Upcoming
    <2>3. CASE GoesTo(c, {"requote"})
      <3>1. HoldsTheRow(c)'
        BY <2>1, <2>2, <2>3 DEF HoldsTheRow, GoesTo, Upcoming, FoldsRest, Id
      <3> QED  BY <2>1, <2>3, <3>1, AloneGoing
    <2>4. ASSUME NEW id \in Joins, id \notin DOMAIN ledger, PutsRow(c, id, Row(id, "open", {}))
          PROVE  AloneHolds(c)'
      <3>1. id \in Ids \ Explained /\ id # Id(c)
        BY <2>2, <2>4, IdsAssumption DEF Ids
      <3>2. folded[id] = << >>
        BY <2>1, <2>4, <3>1, ListTellsTheFolds
      <3>3. RowStays(id, Row(id, "open", {})) /\ RowMoves(ledger, id, Row(id, "open", {}))
        BY <2>4, <3>1, <3>2 DEF RowStays, RowMoves, Row, ConvertedIn
      <3> QED  BY <2>1, <2>4, <3>1, <3>3, AlonePuttingRow
    <2> QED  BY <1>3, <2>3, <2>4, WhatFollowupDoes
  <1>4. CASE Requote(c)
    <2>1. /\ writing[c] = "no" /\ StageOf(c) = "requote" /\ FoldsRest /\ UNCHANGED record
      BY <1>4, WhatRequoteDoes DEF AtStage, Quiet, FoldsRest
    <2>2. /\ Id(c) \in DOMAIN ledger /\ record[c] = {ledger[Id(c)]}
          /\ ledger[Id(c)].status = "answered"
      BY <2>1 DEF AloneHolds, HoldsTheRow, Upcoming
    <2>3. CASE GoesTo(c, {"fold"})
      <3>1. HoldsTheRow(c)'
        BY <2>1, <2>2, <2>3 DEF HoldsTheRow, GoesTo, Upcoming, FoldsRest, Id
      <3> QED  BY <2>1, <2>3, <3>1, AloneGoing
    <2>4. CASE GoesTo(c, {"restate"}) /\ EngOf[Id(c)] \in DOMAIN ledger \ AnsweredIn(ledger)
      <3>1. HoldsTheRow(c)'
        BY <2>1, <2>2, <2>4 DEF HoldsTheRow, GoesTo, Upcoming, FoldsRest, Id, AnsweredIn
      <3> QED  BY <2>1, <2>4, <3>1, AloneGoing
    <2> QED  BY <1>4, <2>3, <2>4, WhatRequoteDoes
  <1>5. CASE Restate(c)
    <2> DEFINE e == EngOf[Id(c)]
    <2>1. /\ writing[c] = "no" /\ StageOf(c) = "restate" /\ FoldsRest /\ UNCHANGED record
          /\ e \in DOMAIN Requoted
      BY <1>5, WhatRestateDoes DEF AtStage, Quiet, FoldsRest
    <2>2. /\ e \in DOMAIN ledger \ AnsweredIn(ledger) /\ ledger[Id(c)].status = "answered"
          /\ Id(c) \in DOMAIN ledger
      BY <2>1 DEF AloneHolds, HoldsTheRow, Upcoming
    <2>3. e \in Ids \ (Live \cup Explained) /\ e # Id(c)
      BY <2>1, <2>2, IdsAssumption, LedgerAssumption DEF Ids, AnsweredIn
    <2>4. ~ledger[e].converted /\ folded[e] = << >>
      <3>1. ~ledger[e].converted
        BY <2>2, <2>3 DEF AloneHolds, AnsweredStays, AnsweredIn
      <3> QED  BY <2>1, <2>2, <3>1, ListTellsTheFolds
    <2>5. CASE Leaves(c)
      BY <2>1, <2>5, AloneLeaving
    <2>6. ASSUME NEW row, row = [ledger[e] EXCEPT !.text = Requoted[e]], PutsRow(c, e, row)
          PROVE  AloneHolds(c)'
      <3>1. row.converted = ledger[e].converted /\ row.status = ledger[e].status
        BY <2>2, <2>1, <2>6, ListTellsTheFolds, ChangedFields
      <3>2. RowStays(e, row) /\ RowMoves(ledger, e, row)
        BY <2>2, <2>3, <2>4, <3>1 DEF RowStays, RowMoves, ConvertedIn
      <3> QED  BY <2>1, <2>3, <2>6, <3>2, AlonePuttingRow
    <2> QED  BY <1>5, <2>5, <2>6, WhatRestateDoes
  <1> QED  BY <1>1, <1>2, <1>3, <1>4, <1>5

LEMMA AloneFolding ==
    ASSUME LedgerShape, FoldsAreTrue, NEW c \in Callers, AloneHolds(c), Fold(c)
    PROVE  AloneHolds(c)'
  <1>1. /\ writing[c] = "no" /\ StageOf(c) = "fold" /\ Id(c) \in Ids /\ UNCHANGED <<job, record, logged>>
    BY WhatFoldDoes DEF AtStage
  <1>2. /\ Id(c) \in DOMAIN ledger /\ record[c] = {ledger[Id(c)]} /\ ledger[Id(c)].status = "answered"
    BY <1>1 DEF AloneHolds, HoldsTheRow, Upcoming
  <1>3. CASE Leaves(c) /\ UNCHANGED <<corpus, folded>>
    BY <1>1, <1>3, AloneLeaving DEF FoldsRest
  <1>4. ASSUME NEW row \in record[c], ~row.converted, GoesTo(c, {"mark"}), row \in Rows,
               folded' = [folded EXCEPT ![Id(c)] = Append(folded[Id(c)], FoldEntry(row))]
        PROVE  AloneHolds(c)'
    <2>1. row = ledger[Id(c)] /\ ~ledger[Id(c)].converted /\ folded[Id(c)] = << >>
      <3>1. row = ledger[Id(c)]
        BY <1>2, <1>4
      <3> QED  BY <1>1, <1>2, <1>4, <3>1, ListTellsTheFolds
    <2>2. /\ folded'[Id(c)] = Append(folded[Id(c)], FoldEntry(row)) /\ FoldEntry(row) \in FoldEntries
          /\ Len(folded'[Id(c)]) = Len(folded[Id(c)]) + 1
          /\ \A i \in Ids \ {Id(c)} : folded'[i] = folded[i]
      BY <1>1, <1>4, FoldIsAdded
    <2>3. Len(folded'[Id(c)]) = 1 /\ folded'[Id(c)][1].text = ledger[Id(c)].text
      <3>1. folded'[Id(c)] = <<FoldEntry(row)>>
        BY <2>1, <2>2
      <3> QED  BY <2>1, <3>1 DEF FoldEntry
    <2>4. /\ UNCHANGED <<ledger, torn, prepared, writing>> /\ StageOf(c)' = "mark" /\ Id(c)' = Id(c)
      BY <1>1, <1>4 DEF GoesTo, Id
    <2>5. FileKeeps(c)'
      BY <1>1, <2>4 DEF AloneHolds, FileKeeps
    <2>6. HoldsTheRow(c)'
      BY <1>1, <1>2, <2>4 DEF HoldsTheRow, Upcoming
    <2>7. AnsweredStays(ledger)' /\ AnsweredStays(prepared[c])'
      BY <2>4 DEF AloneHolds, AnsweredStays
    <2>8. ledger \in Files /\ prepared[c] \in Files
      BY DEF LedgerShape, FileTyped
    <2>9. ASSUME NEW rows \in Files, AsksWhatWasFolded(rows), NEW i \in DOMAIN rows, rows[i].converted
          PROVE  Len(folded'[i]) = 1 /\ folded'[i][1].text = rows[i].text
      <3>1. Len(folded[i]) = 1 /\ folded[i][1].text = rows[i].text /\ i \in Ids
        BY <2>9, RowOnFile DEF AsksWhatWasFolded
      <3>2. i # Id(c)
        BY <2>1, <3>1
      <3> QED  BY <2>2, <3>1, <3>2
    <2>10. AsksWhatWasFolded(ledger)' /\ AsksWhatWasFolded(prepared[c])'
      BY <2>4, <2>8, <2>9 DEF AloneHolds, AsksWhatWasFolded
    <2>11. FoldedOnce(c)'
      BY <1>1, <1>2, <2>2, <2>3, <2>4 DEF AloneHolds, FoldedOnce, Upcoming
    <2> QED  BY <2>5, <2>6, <2>7, <2>10, <2>11 DEF AloneHolds
  <1> QED  BY <1>3, <1>4, WhatFoldDoes

LEMMA AloneExplaining ==
    ASSUME LedgerShape, FoldsAreTrue, NEW c \in Callers, AloneHolds(c),
           Mark(c) \/ AppendIfNew(c) \/ Stored(c)
    PROVE  AloneHolds(c)'
  <1>1. CASE Mark(c)
    <2>1. writing[c] = "no" /\ StageOf(c) = "mark" /\ FoldsRest
      BY <1>1, WhatMarkDoes DEF AtStage, Quiet, FoldsRest
    <2>2. Id(c) \in DOMAIN ledger /\ ledger[Id(c)].status = "answered" /\ folded[Id(c)] # << >>
      BY <2>1 DEF AloneHolds, HoldsTheRow, Upcoming, FoldsAreTrue
    <2> DEFINE row == [ledger[Id(c)] EXCEPT !.converted = TRUE]
    <2>3. PutsRow(c, Id(c), row)
      BY <1>1, <2>2, WhatMarkDoes
    <2>4. row.converted /\ row.text = ledger[Id(c)].text /\ row.status = "answered"
      BY <2>1, <2>2, ListTellsTheFolds, ChangedFields
    <2> HIDE DEF row
    <2>5. RowStays(Id(c), row) /\ RowMoves(ledger, Id(c), row)
      BY <2>1, <2>2, <2>4, ListTellsTheFolds DEF RowStays, RowMoves
    <2> QED  BY <2>1, <2>3, <2>5, AlonePuttingRow
  <1>2. CASE AppendIfNew(c)
    <2>1. /\ writing[c] = "no" /\ StageOf(c) = "append" /\ FoldsRest /\ Id(c) \in Explained
          /\ Id(c) \in Ids \ Live
      BY <1>2, WhatAppendDoes, IdsAssumption DEF AtStage, Quiet, FoldsRest, Ids
    <2>2. CASE GoesTo(c, {"stored"}) /\ UNCHANGED record
      <3>1. record[c] = {}
        BY <2>1 DEF LedgerShape, ThreadsHold, ThreadHolds
      <3>2. HoldsTheRow(c)'
        BY <2>2, <3>1 DEF HoldsTheRow, GoesTo
      <3> QED  BY <2>1, <2>2, <3>2, AloneGoing
    <2>3. ASSUME Id(c) \notin DOMAIN ledger, NEW row, row = Row(Id(c), "answered", {}),
                 PutsRow(c, Id(c), row), record' = [record EXCEPT ![c] = {row}]
          PROVE  AloneHolds(c)'
      <3>1. folded[Id(c)] = << >>
        BY <2>1, <2>3, ListTellsTheFolds
      <3>2. RowStays(Id(c), row) /\ RowMoves(ledger, Id(c), row) /\ row.status = "answered"
        BY <2>1, <2>3, <3>1 DEF RowStays, RowMoves, Row, ConvertedIn
      <3>3. record'[c] = {row}
        BY <2>3 DEF LedgerShape, RestTyped
      <3> QED  BY <2>1, <2>3, <3>2, <3>3, AlonePuttingRow
    <2> QED  BY <1>2, <2>2, <2>3, WhatAppendDoes
  <1>3. CASE Stored(c)
    <2>1. writing[c] = "no" /\ StageOf(c) = "stored" /\ FoldsRest /\ Id(c) \in Explained
      BY <1>3, WhatStoredDoes DEF AtStage, Quiet, FoldsRest
    <2>2. Id(c) \in DOMAIN ledger => ledger[Id(c)].status = "answered"
      BY <2>1 DEF AloneHolds, AnsweredStays
    <2>3. CASE GoesTo(c, {"fold"}) /\ UNCHANGED record /\ record[c] # {}
      <3>1. Id(c) \in DOMAIN ledger /\ record[c] = {ledger[Id(c)]}
        BY <2>1, <2>3 DEF AloneHolds, HoldsTheRow
      <3>2. HoldsTheRow(c)'
        BY <2>1, <2>2, <2>3, <3>1 DEF HoldsTheRow, GoesTo, Upcoming, FoldsRest, Id
      <3> QED  BY <2>1, <2>3, <3>2, AloneGoing
    <2>4. CASE /\ GoesTo(c, {"fold"}) /\ Id(c) \in DOMAIN ledger
               /\ record' = [record EXCEPT ![c] = {ledger[Id(c)]}]
      <3>1. record'[c] = {ledger[Id(c)]}
        BY <2>4 DEF LedgerShape, RestTyped
      <3>2. HoldsTheRow(c)'
        BY <2>1, <2>2, <2>4, <3>1 DEF HoldsTheRow, GoesTo, Upcoming, FoldsRest, Id
      <3> QED  BY <2>1, <2>4, <3>2, AloneGoing
    <2>5. CASE Leaves(c)
      BY <2>1, <2>5, AloneLeaving
    <2> QED  BY <1>3, <2>3, <2>4, <2>5, WhatStoredDoes
  <1> QED  BY <1>1, <1>2, <1>3

LEMMA AloneCancelling ==
    ASSUME LedgerShape, FoldsAreTrue, NEW c \in Callers, AloneHolds(c), Check(c) \/ Cancel(c)
    PROVE  AloneHolds(c)'
  <1>1. CASE Check(c)
    <2>1. writing[c] = "no" /\ StageOf(c) = "check" /\ FoldsRest
      BY <1>1, WhatCheckDoes DEF AtStage, Quiet, FoldsRest
    <2>2. CASE GoesTo(c, {"cancel"}) /\ Id(c) \in DOMAIN ledger \ AnsweredIn(ledger)
      <3>1. HoldsTheRow(c)'
        BY <2>1, <2>2 DEF HoldsTheRow, GoesTo, FoldsRest, Id, AnsweredIn
      <3> QED  BY <2>1, <2>2, <3>1, AloneGoing
    <2> QED  BY <1>1, <2>1, <2>2, WhatCheckDoes, AloneLeaving
  <1>2. CASE Cancel(c)
    <2>1. /\ writing[c] = "no" /\ StageOf(c) = "cancel" /\ FoldsRest /\ Id(c) \in Live
          /\ Id(c) \in Ids \ Explained
      BY <1>2, WhatCancelDoes, LedgerAssumption, IdsAssumption DEF AtStage, Quiet, FoldsRest, Ids
    <2>2. CASE Leaves(c)
      BY <2>1, <2>2, AloneLeaving
    <2>3. ASSUME Id(c) \in DOMAIN ledger, NEW row, row = [ledger[Id(c)] EXCEPT !.status = "cancelled"],
                 PutsRow(c, Id(c), row)
          PROVE  AloneHolds(c)'
      <3>1. /\ row.converted = ledger[Id(c)].converted /\ row.text = ledger[Id(c)].text
            /\ row.status = "cancelled"
        BY <2>1, <2>3, ListTellsTheFolds, ChangedFields
      <3>2. ledger[Id(c)].status # "answered"
        BY <2>1, <2>3 DEF AloneHolds, HoldsTheRow, AnsweredIn
      <3>3. RowStays(Id(c), row) /\ RowMoves(ledger, Id(c), row)
        BY <2>1, <2>3, <3>1, <3>2, ListTellsTheFolds DEF RowStays, RowMoves, ConvertedIn
      <3> QED  BY <2>1, <2>3, <3>3, AlonePuttingRow
    <2> QED  BY <1>2, <2>2, <2>3, WhatCancelDoes
  <1> QED  BY <1>1, <1>2

LEMMA AloneScanning ==
    ASSUME LedgerShape, FoldsAreTrue, NEW c \in Callers, AloneHolds(c), Scan(c) \/ Propose(c)
    PROVE  AloneHolds(c)'
  <1>1. CASE Scan(c)
    <2>1. /\ writing[c] = "no" /\ StageOf(c) = "scan" /\ FoldsRest /\ StageOf(c)' = "propose"
          /\ UNCHANGED <<ledger, torn, writing>> /\ prepared'[c] = ledger
      BY <1>1, WhatScanDoes DEF AtStage, Quiet, FoldsRest, LedgerShape, FileTyped
    <2>2. FileKeeps(c)'
      BY <2>1 DEF AloneHolds, FileKeeps, FoldsRest
    <2>3. HoldsTheRow(c)'
      BY <2>1 DEF HoldsTheRow
    <2>4. /\ AnsweredStays(ledger)' /\ AnsweredStays(prepared[c])'
          /\ AsksWhatWasFolded(ledger)' /\ AsksWhatWasFolded(prepared[c])'
      BY <2>1 DEF AloneHolds, AnsweredStays, AsksWhatWasFolded, FoldsRest
    <2>5. FoldedOnce(c)'
      BY <2>1 DEF AloneHolds, FoldedOnce, Upcoming, FoldsRest
    <2> QED  BY <2>2, <2>3, <2>4, <2>5 DEF AloneHolds
  <1>2. CASE Propose(c)
    <2>1. writing[c] = "no" /\ StageOf(c) = "propose" /\ FoldsRest
      BY <1>2, WhatProposingDoes DEF AtStage, Quiet, FoldsRest
    <2>2. CASE GoesTo(c, {"none"})
      <3>1. HoldsTheRow(c)'
        BY <2>2 DEF HoldsTheRow, GoesTo
      <3> QED  BY <2>1, <2>2, <3>1, AloneGoing
    <2>3. ASSUME NEW new \in SUBSET Scanned, new \cap DOMAIN prepared[c] = {},
                 NEW rows, rows = ProposedRows(prepared[c], new, Settles), Puts(c, rows)
          PROVE  AloneHolds(c)'
      <3>1. prepared[c] = ledger
        BY <2>1 DEF AloneHolds, FileKeeps
      <3>2. /\ rows \in Files /\ DOMAIN rows = DOMAIN ledger \cup new
            /\ \A i \in DOMAIN ledger : rows[i] = ledger[i]
            /\ \A i \in new : rows[i] = Row(i, "open", Blockers[i] \ Settles)
        BY <2>3, <3>1, ProposedRowsAre
      <3>3. \A i \in new : rows[i].status = "open" /\ rows[i].converted = FALSE
        BY <3>2 DEF Row
      <3>4. \A i \in new : i \in Ids \ Explained /\ i \notin DOMAIN ledger /\ folded[i] = << >>
        BY <2>1, <2>3, <3>1, IdsAssumption, ListTellsTheFolds DEF Ids
      <3>5. \A i \in DOMAIN rows : \/ i \in DOMAIN ledger /\ rows[i] = ledger[i]
                                   \/ RowStays(i, rows[i])
        BY <3>2, <3>3, <3>4 DEF RowStays
      <3>6. ListStep(StatusIn(ledger), ConvertedIn(ledger), StatusIn(rows), ConvertedIn(rows))
        <4>1. ConvertedIn(rows) = ConvertedIn(ledger)
          BY <3>2, <3>3 DEF ConvertedIn
        <4>2. \A q \in new : StatusIn(ledger)[q] = "none"
          BY <3>4 DEF StatusIn
        <4>3. StatusIn(rows) = [q \in Ids |-> IF q \in new THEN "open" ELSE StatusIn(ledger)[q]]
          BY <3>2, <3>3, <3>4 DEF StatusIn
        <4>4. new \in SUBSET Ids
          BY DEF Ids
        <4> QED  BY Zenon, <4>1, <4>2, <4>3, <4>4 DEF ListStep
      <3>7. HoldsTheRow(c)'
        BY <2>1, <2>3 DEF HoldsTheRow, Puts
      <3> QED  BY <2>1, <2>3, <3>2, <3>5, <3>6, <3>7, AlonePutting
    <2> QED  BY <1>2, <2>2, <2>3, WhatProposingDoes
  <1> QED  BY <1>1, <1>2

LEMMA AloneWriting ==
    ASSUME LedgerShape, NEW c \in Callers, AloneHolds(c), Opens(c) \/ Fills(c) \/ ReadRaises(c)
    PROVE  AloneHolds(c)'
  <1>0. ThreadHolds(c) /\ FileTyped
    BY DEF LedgerShape, ThreadsHold
  <1>1. CASE Opens(c)
    <2>1. /\ writing[c] = "opens" /\ UNCHANGED <<job, logged, folded, record, prepared>>
          /\ StageOf(c)' = StageOf(c) /\ ledger' = Empty /\ torn' = FALSE /\ writing'[c] = "fills"
      BY <1>0, <1>1, WhatOpeningDoes DEF Quiet, FileTyped
    <2>2. FileKeeps(c)'
      BY <2>1 DEF AloneHolds, FileKeeps
    <2>3. HoldsTheRow(c)'
      BY <1>0, <2>1 DEF AloneHolds, HoldsTheRow, Upcoming, Id, ThreadHolds, WritingStages
    <2>4. /\ AnsweredStays(ledger)' /\ AnsweredStays(prepared[c])'
          /\ AsksWhatWasFolded(ledger)' /\ AsksWhatWasFolded(prepared[c])'
      BY <2>1, EmptyIsAFile DEF AloneHolds, AnsweredStays, AsksWhatWasFolded
    <2>5. FoldedOnce(c)'
      BY <2>1 DEF AloneHolds, FoldedOnce, Upcoming
    <2> QED  BY <2>2, <2>3, <2>4, <2>5 DEF AloneHolds
  <1>2. CASE Fills(c)
    <2>1. /\ writing[c] = "fills" /\ UNCHANGED <<job, folded, record>> /\ ledger' = prepared[c]
          /\ writing'[c] = "no" /\ prepared'[c] = Empty /\ logged' = logged \cup DOMAIN prepared[c]
      BY <1>0, <1>2, WhatFillingDoes DEF FileTyped
    <2>2. torn' = FALSE
      <3>1. DOMAIN ledger = {}
        BY <2>1, EmptyIsAFile DEF AloneHolds, FileKeeps
      <3>2. torn' \in {FALSE, DOMAIN ledger # {} /\ ledger # prepared[c]}
        BY <1>2, WhatFillingDoes
      <3> QED  BY Zenon, <3>1, <3>2
    <2>3. /\ StageOf(c)' = Stage(Tail(todo[c])) /\ StageOf(c) = Head(todo[c])
          /\ StageOf(c) \in WritingStages /\ todo[c] # << >> /\ Left(job[c], todo[c])
      BY <1>2, WhatFillingDoes
    <2>4. /\ StageOf(c)' \in {"none", "exists", "mine", "followup", "requote", "fold", "stored"}
          /\ StageOf(c)' \in {"followup", "requote", "fold"} =>
               StageOf(c) \in {"answer", "followup", "restate"}
          /\ StageOf(c)' = "stored" => StageOf(c) = "append"
      BY <2>3, HandlerGoesOn DEF WritingStages, Stage
    <2>5. logged' \subseteq DOMAIN prepared[c] /\ FileKeeps(c)'
      BY <2>1, <2>2, <2>4 DEF AloneHolds, FileKeeps
    <2>6. HoldsTheRow(c)'
      BY <2>1, <2>4 DEF AloneHolds, HoldsTheRow, Upcoming, Id
    <2>7. /\ AnsweredStays(ledger)' /\ AnsweredStays(prepared[c])'
          /\ AsksWhatWasFolded(ledger)' /\ AsksWhatWasFolded(prepared[c])'
      BY <2>1, EmptyIsAFile DEF AloneHolds, AnsweredStays, AsksWhatWasFolded
    <2>8. FoldedOnce(c)'
      BY <2>1 DEF AloneHolds, FoldedOnce, Upcoming
    <2> QED  BY <2>5, <2>6, <2>7, <2>8 DEF AloneHolds
  <1>3. CASE ReadRaises(c)
    BY <1>3, WhatRaisingDoes DEF AloneHolds, FileKeeps
  <1> QED  BY <1>1, <1>2, <1>3

LEMMA AloneEntering ==
    ASSUME LedgerShape, NEW c \in Callers, AloneHolds(c), EntersAny(c)
    PROVE  AloneHolds(c)'
  <1>1. /\ writing[c] = "no" /\ UNCHANGED <<ledger, torn, prepared, writing, logged, folded>>
        /\ StageOf(c)' \in {"log", "warrant", "append", "check", "scan"} /\ todo[c] = << >>
    BY WhatEnteringDoes
  <1>2. StageOf(c) = "none"
    BY <1>1 DEF StageOf, Stage
  <1>3. FileKeeps(c)'
    BY <1>1 DEF AloneHolds, FileKeeps
  <1>4. HoldsTheRow(c)'
    BY <1>1 DEF HoldsTheRow
  <1>5. /\ AnsweredStays(ledger)' /\ AnsweredStays(prepared[c])'
        /\ AsksWhatWasFolded(ledger)' /\ AsksWhatWasFolded(prepared[c])'
    BY <1>1 DEF AloneHolds, AnsweredStays, AsksWhatWasFolded
  <1>6. FoldedOnce(c)'
    BY <1>1, <1>2 DEF AloneHolds, FoldedOnce, Upcoming
  <1> QED  BY <1>3, <1>4, <1>5, <1>6 DEF AloneHolds

LEMMA OnlyCallersAct ==
    ASSUME LedgerShape, NEW c \in Callers, LedgerStep(c)
    PROVE  c \in scene.callers
  <1>1. todo[c] # << >> => c \in scene.callers
    BY DEF LedgerShape, ThreadsHold, ThreadHolds
  <1>2. CASE EntersAny(c) \/ Opens(c) \/ Fills(c) \/ ReadRaises(c)
    BY <1>2, WhatEnteringDoes, WhatOpeningDoes, WhatFillingDoes, WhatRaisingDoes
  <1>3. CASE \/ Log(c) \/ Exists(c) \/ Close(c) \/ Mine(c) \/ Warrant(c) \/ Answer(c)
             \/ Followup(c) \/ Requote(c) \/ Restate(c)
    BY <1>1, <1>3 DEF Log, Exists, Close, Mine, Warrant, Answer, Followup, Requote, Restate, Reads, At
  <1>4. CASE \/ Fold(c) \/ Mark(c) \/ AppendIfNew(c) \/ Stored(c) \/ Check(c) \/ Cancel(c)
             \/ Scan(c) \/ Propose(c)
    BY <1>1, <1>4 DEF Fold, Mark, AppendIfNew, Stored, Check, Cancel, Scan, Propose, Reads, At
  <1> QED  BY <1>2, <1>3, <1>4 DEF LedgerStep, HandlerStep

LEMMA TheOneWriter ==
    ASSUME scene \in Scenes, OneWriter
    PROVE  \E a \in Callers : scene.callers = {a} /\ scene.crashes = 0
  <1>1. scene.callers \subseteq Callers /\ IsFiniteSet(scene.callers)
    BY ScenesAssumption, FS_Subset
  <1>2. \E a : scene.callers = {a}
    BY <1>1, FS_Singleton DEF OneWriter
  <1> QED  BY <1>1, <1>2 DEF OneWriter

(* The writer's handler keeps every promise at each of its steps.          *)
LEMMA AloneStep ==
    ASSUME LedgerShape, FoldsAreTrue, NEW c \in Callers, AloneHolds(c), LedgerStep(c)
    PROVE  AloneHolds(c)'
  BY AloneAsking, AloneAnswering, AloneFolding, AloneExplaining, AloneCancelling, AloneScanning,
     AloneWriting, AloneEntering DEF LedgerStep, HandlerStep

LEMMA AloneIdling ==
    ASSUME NEW c \in Callers, AloneHolds(c),
           UNCHANGED <<ledger, torn, todo, job, prepared, writing, record, logged, folded>>
    PROVE  AloneHolds(c)'
  <1>0. /\ UNCHANGED <<ledger, torn, writing, record, logged, folded, prepared>>
        /\ StageOf(c)' = StageOf(c) /\ Id(c)' = Id(c) /\ Upcoming(c)' = Upcoming(c)
        /\ AnsweredIn(ledger)' = AnsweredIn(ledger)
    BY DEF StageOf, Id, Upcoming, AnsweredIn
  <1>1. FileKeeps(c)'
    <2>1. ListStep(StatusIn(ledger), ConvertedIn(ledger), StatusIn(prepared[c]), ConvertedIn(prepared[c]))'
          = ListStep(StatusIn(ledger), ConvertedIn(ledger), StatusIn(prepared[c]), ConvertedIn(prepared[c]))
      BY <1>0 DEF StatusIn, ConvertedIn
    <2> QED  BY <1>0, <2>1 DEF AloneHolds, FileKeeps
  <1>2. HoldsTheRow(c)'
    BY <1>0 DEF AloneHolds, HoldsTheRow
  <1>3. /\ AnsweredStays(ledger)' /\ AnsweredStays(prepared[c])'
        /\ AsksWhatWasFolded(ledger)' /\ AsksWhatWasFolded(prepared[c])'
    BY <1>0 DEF AloneHolds, AnsweredStays, AsksWhatWasFolded
  <1>4. FoldedOnce(c)'
    BY <1>0 DEF AloneHolds, FoldedOnce
  <1> QED  BY <1>1, <1>2, <1>3, <1>4 DEF AloneHolds

LEMMA OneWriterStep ==
    ASSUME LedgerShape, FoldsAreTrue, OneWriterHolds, [Next]_loopVars
    PROVE  OneWriterHolds'
  <1>0. scene' = scene /\ scene \in Scenes
    BY DEF Next, OnTheLedger, OnTheReports, TurnServed, ProcessEnds, Waits, loopVars, LedgerShape
  <1>1. CASE ~OneWriter
    BY <1>0, <1>1 DEF OneWriterHolds, OneWriter
  <1>2. CASE OneWriter
    <2>1. PICK a \in Callers : scene.callers = {a} /\ scene.crashes = 0
      BY <1>0, <1>2, TheOneWriter
    <2>2. AloneHolds(a) /\ (AloneHolds(a)' => OneWriterHolds')
      BY <1>0, <1>2, <2>1 DEF OneWriterHolds
    <2>3. ASSUME NEW c \in Callers, LedgerStep(c)
          PROVE  OneWriterHolds'
      BY <2>1, <2>2, <2>3, OnlyCallersAct, AloneStep
    <2>4. ASSUME UNCHANGED <<ledger, torn, todo, job, prepared, writing, record, logged, folded>>
          PROVE  OneWriterHolds'
      BY <2>2, <2>4, AloneIdling
    <2>5. ~LedgerStops
      BY <2>1 DEF LedgerStops, LedgerShape, RestTyped
    <2>6. CASE OnTheLedger
      BY <2>3, <2>4, <2>6 DEF OnTheLedger, approve_draft, caller, history
    <2>7. CASE OnTheReports \/ TurnServed \/ UNCHANGED loopVars
      BY <2>4, <2>7 DEF OnTheReports, TurnServed, record_node, loopVars, ledgerVars, caller, history
    <2> QED  BY <2>5, <2>6, <2>7 DEF Next, Waits, ProcessEnds
  <1> QED  BY <1>1, <1>2

(* With one writer the list is whole: it keeps every row that was ever on  *)
(* it, whoever answers holds the row that is on file, and what a record    *)
(* was folded under is what it still asks.                                 *)
THEOREM OneWriterAlwaysHolds == Spec => []OneWriterHolds
  <1>1. Init => OneWriterHolds
    <2> SUFFICES ASSUME LedgerInit, NEW c \in Callers
                 PROVE  AloneHolds(c)
      <3>1. Init => \A c \in scene.callers : c \in Callers
        BY ScenesAssumption DEF Init
      <3> QED  BY <3>1 DEF Init, OneWriterHolds
    <2>1. /\ ledger = Empty /\ prepared[c] = Empty /\ writing[c] = "no" /\ torn = FALSE
          /\ StageOf(c) = "none" /\ logged = {} /\ \A i \in Ids : folded[i] = << >>
      BY DEF LedgerInit, StageOf, Stage
    <2>2. FileKeeps(c) /\ HoldsTheRow(c)
      BY <2>1 DEF FileKeeps, HoldsTheRow
    <2>3. /\ AnsweredStays(ledger) /\ AnsweredStays(prepared[c])
          /\ AsksWhatWasFolded(ledger) /\ AsksWhatWasFolded(prepared[c])
      BY <2>1, EmptyIsAFile DEF AnsweredStays, AsksWhatWasFolded
    <2>4. FoldedOnce(c)
      BY <2>1 DEF FoldedOnce
    <2> QED  BY <2>2, <2>3, <2>4 DEF AloneHolds
  <1>2. LedgerShape /\ FoldsAreTrue /\ OneWriterHolds /\ [Next]_loopVars => OneWriterHolds'
    BY OneWriterStep
  <1> QED  BY <1>1, <1>2, LedgerShapeHolds, FoldsAreAlwaysTrue, PTL DEF Spec
-----------------------------------------------------------------------------
(* One writer's warrant.                                                   *)
LEMMA WarrantStays ==
    ASSUME NEW c \in Callers, WarrantFor(c), wasAnswered \subseteq wasAnswered', UNCHANGED folded,
           \A i \in Scanned : corpus'[TextOf[i]] # "none" => i \in wasAnswered',
           AnsweredIn(ledger') \subseteq wasAnswered', RowsWait(ledger'), RowsWait(prepared'[c]),
           AnswersWait(c)'
    PROVE  WarrantFor(c)'
  <1>1. FactsHaveAnswers'
    BY DEF FactsHaveAnswers
  <1>2. ProposalsAreWarranted'
    BY DEF WarrantFor, ProposalsAreWarranted
  <1>3. RowsWait(ledger)' /\ RowsWait(prepared[c])'
    BY DEF RowsWait, RowWaits
  <1>4. (AnsweredIn(ledger) \subseteq wasAnswered)'
    BY DEF AnsweredIn
  <1> QED  BY <1>1, <1>2, <1>3, <1>4 DEF WarrantFor

LEMMA AnswersGoOn ==
    ASSUME NEW c \in Callers, AnswersWait(c), wasAnswered \subseteq wasAnswered',
           record'[c] = record[c], job' = job,
           StageOf(c)' = "answer" => writing'[c] # "no",
           Carries(c)' => Carries(c)
    PROVE  AnswersWait(c)'
  BY DEF AnswersWait, Id

(* A step that answers and folds nothing.                                  *)
LEMMA WarrantQuietly ==
    ASSUME NEW c \in Callers, WarrantFor(c), UNCHANGED <<wasAnswered, folded, ledger>>,
           \A i \in Scanned : corpus'[TextOf[i]] # "none" => i \in wasAnswered,
           RowsWait(prepared'[c]), AnswersWait(c)'
    PROVE  WarrantFor(c)'
  BY WarrantStays DEF WarrantFor

LEMMA WarrantGoing ==
    ASSUME NEW c \in Callers, WarrantFor(c), UNCHANGED <<wasAnswered, folded>>,
           \A i \in Scanned : corpus'[TextOf[i]] # "none" => i \in wasAnswered,
           NEW stages, GoesTo(c, stages), AnswersWait(c)'
    PROVE  WarrantFor(c)'
  <1>1. UNCHANGED <<ledger, prepared>>
    BY DEF GoesTo
  <1> QED  BY <1>1, WarrantQuietly DEF WarrantFor

LEMMA WarrantLeaving ==
    ASSUME LedgerShape, NEW c \in Callers, WarrantFor(c), UNCHANGED <<corpus, wasAnswered, folded>>,
           Leaves(c)
    PROVE  WarrantFor(c)'
  <1>1. ledger' = ledger /\ prepared'[c] = Empty /\ StageOf(c)' = "none"
    BY DEF Leaves, LedgerShape, FileTyped
  <1>2. RowsWait(Empty)
    BY EmptyIsAFile DEF RowsWait
  <1>3. AnswersWait(c)'
    BY <1>1 DEF AnswersWait, Carries
  <1> QED  BY <1>1, <1>2, <1>3, WarrantQuietly DEF WarrantFor, FactsHaveAnswers

LEMMA WarrantPutting ==
    ASSUME LedgerShape, NEW c \in Callers, WarrantFor(c), UNCHANGED <<corpus, wasAnswered, folded>>,
           NEW id, NEW row, PutsRow(c, id, row), RowWaits(id, row), AnswersWait(c)'
    PROVE  WarrantFor(c)'
  <1>1. PICK rows \in Files : Puts(c, rows) /\ Differs(ledger, rows, id, row)
    BY DEF PutsRow
  <1>2. RowsWait(rows)
    BY <1>1 DEF Differs, RowsWait, WarrantFor
  <1>3. ledger' = ledger /\ prepared'[c] = rows
    BY <1>1 DEF Puts, LedgerShape, FileTyped
  <1> QED  BY <1>2, <1>3, WarrantQuietly DEF WarrantFor, FactsHaveAnswers

(* Putting a row changes neither the stage nor what is carried there.      *)
LEMMA PuttingCarries ==
    ASSUME LedgerShape, NEW c \in Callers, AnswersWait(c), writing[c] = "no",
           UNCHANGED <<job, wasAnswered, record>>, NEW id, NEW row, PutsRow(c, id, row),
           StageOf(c) # "answer"
    PROVE  AnswersWait(c)'
  <1>1. StageOf(c)' = StageOf(c) /\ writing'[c] = "opens"
    BY DEF PutsRow, Puts, LedgerShape, FileTyped
  <1> QED  BY <1>1, AnswersGoOn DEF Carries

LEMMA WarrantAsking ==
    ASSUME LedgerShape, ScansWordTheirOwn, NEW c \in Callers, WarrantFor(c),
           Log(c) \/ Exists(c) \/ Close(c) \/ Mine(c)
    PROVE  WarrantFor(c)'
  <1>0. AnswersWait(c) /\ FactsHaveAnswers /\ ledger \in Files /\ RowsWait(ledger)
    BY DEF WarrantFor, LedgerShape, FileTyped
  <1>1. CASE Log(c)
    <2>1. /\ AtStage(c, "log") /\ Quiet /\ UNCHANGED record /\ Id(c) \in Live
      BY <1>1, WhatLogDoes
    <2>2. CASE GoesTo(c, {"none", "exists"})
      <3>1. AnswersWait(c)'
        BY <2>2 DEF AnswersWait, Carries, GoesTo
      <3> QED  BY <1>0, <2>1, <2>2, <3>1, WarrantGoing DEF Quiet, FactsHaveAnswers
    <2>3. CASE PutsRow(c, Id(c), Row(Id(c), "open", {}))
      <3>1. RowWaits(Id(c), Row(Id(c), "open", {}))
        BY <2>1, IdsAssumption DEF RowWaits, Row, Wordings
      <3>2. AnswersWait(c)'
        BY <1>0, <2>1, <2>3, PuttingCarries DEF Quiet, AtStage
      <3> QED  BY <2>1, <2>3, <3>1, <3>2, WarrantPutting DEF Quiet
    <2> QED  BY <1>1, <2>2, <2>3, WhatLogDoes
  <1>2. CASE Exists(c)
    <2>1. Quiet /\ GoesTo(c, {"close", "mine"})
      BY <1>2, WhatExistsDoes
    <2>2. AnswersWait(c)'
      BY <2>1 DEF AnswersWait, Carries, GoesTo
    <2> QED  BY <1>0, <2>1, <2>2, WarrantGoing DEF Quiet, FactsHaveAnswers
  <1>3. CASE Close(c)
    <2>1. AtStage(c, "close") /\ Quiet /\ UNCHANGED record
      BY <1>3, WhatCloseDoes
    <2>2. CASE Leaves(c)
      BY <2>1, <2>2, WarrantLeaving DEF Quiet
    <2>3. ASSUME Id(c) \in DOMAIN ledger, NEW row, row = [ledger[Id(c)] EXCEPT !.status = job[c].reply],
                 PutsRow(c, Id(c), row)
          PROVE  WarrantFor(c)'
      <3>1. row.text = ledger[Id(c)].text /\ row.blocked_by = ledger[Id(c)].blocked_by
        BY <1>0, <2>3, RowOnFile, ChangedFields
      <3>2. RowWaits(Id(c), row)
        BY <1>0, <2>3, <3>1 DEF RowsWait, RowWaits
      <3>3. AnswersWait(c)'
        BY <1>0, <2>1, <2>3, PuttingCarries DEF Quiet, AtStage
      <3> QED  BY <2>1, <2>3, <3>2, <3>3, WarrantPutting DEF Quiet
    <2> QED  BY <1>3, <2>2, <2>3, WhatCloseDoes
  <1>4. CASE Mine(c)
    <2>1. /\ GoesTo(c, {"none"}) /\ UNCHANGED <<wasAnswered, folded>> /\ Id(c) \in Live
          /\ corpus' = corpus \/ Folds(TextOf[Id(c)], "proposed")
      BY <1>4, WhatMineDoes
    <2>2. AnswersWait(c)'
      BY <2>1 DEF AnswersWait, Carries, GoesTo
    <2>3. \A i \in Scanned : TextOf[i] # TextOf[Id(c)] /\ TextOf[i] \in Texts
      BY <2>1, IdsAssumption DEF ScansWordTheirOwn, Ids, Texts
    <2>4. \A i \in Scanned : corpus'[TextOf[i]] = corpus[TextOf[i]]
      BY <2>1, <2>3 DEF Folds, LedgerShape, RestTyped
    <2> QED  BY <1>0, <2>1, <2>2, <2>4, WarrantGoing DEF FactsHaveAnswers
  <1> QED  BY <1>1, <1>2, <1>3, <1>4

LEMMA WarrantAnswering ==
    ASSUME LedgerShape, ScansWordTheirOwn, NEW c \in Callers, WarrantFor(c),
           Warrant(c) \/ Answer(c) \/ Followup(c) \/ Requote(c) \/ Restate(c)
    PROVE  WarrantFor(c)'
  <1>0. /\ AnswersWait(c) /\ FactsHaveAnswers /\ ledger \in Files /\ RowsWait(ledger)
        /\ AnsweredIn(ledger) \subseteq wasAnswered
    BY DEF WarrantFor, LedgerShape, FileTyped
  <1>1. CASE Warrant(c)
    <2>1. /\ GoesTo(c, {"answer"}) /\ Quiet /\ writing[c] = "no"
          /\ record' = [record EXCEPT ![c] = {[unmet |-> unmet_prerequisites(ledger, Id(c))]}]
      BY <1>1, WhatWarrantDoes DEF AtStage
    <2>2. record'[c] = {[unmet |-> unmet_prerequisites(ledger, Id(c))]}
      BY <2>1 DEF LedgerShape, RestTyped
    <2>3. Id(c) \in Scanned \cap DOMAIN ledger =>
            Blockers[Id(c)] \subseteq unmet_prerequisites(ledger, Id(c)) \cup wasAnswered
      BY <1>0 DEF RowsWait, RowWaits, unmet_prerequisites
    <2>4. /\ UNCHANGED <<ledger, wasAnswered>> /\ Id(c)' = Id(c) /\ ~Carries(c)'
      BY <2>1 DEF GoesTo, Quiet, Id, Carries
    <2>5. \A r \in record'[c] : r.unmet = unmet_prerequisites(ledger, Id(c))
      BY <2>2
    <2>6. AnswersWait(c)'
      BY <2>3, <2>4, <2>5 DEF AnswersWait
    <2> QED  BY <1>0, <2>1, <2>6, WarrantGoing DEF Quiet, FactsHaveAnswers
  <1>2. CASE Answer(c)
    <2>1. Quiet /\ writing[c] = "no" /\ StageOf(c) = "answer"
      BY <1>2, WhatAnswerDoes DEF AtStage
    <2>2. CASE Leaves(c)
      BY <2>1, <2>2, WarrantLeaving DEF Quiet
    <2>3. CASE /\ Id(c) \in DOMAIN ledger /\ PutsRow(c, Id(c), AnsweredRow(c))
               /\ record' = [record EXCEPT ![c] = {AnsweredRow(c)}]
      <3>1. /\ AnsweredRow(c).text = ledger[Id(c)].text
            /\ AnsweredRow(c).blocked_by = ledger[Id(c)].blocked_by
            /\ \E r \in record[c] : AnsweredRow(c).unmet = r.unmet
        BY <1>2, <2>3, AnsweredRowIs
      <3>2. RowWaits(Id(c), AnsweredRow(c))
        BY <1>0, <2>3, <3>1 DEF RowsWait, RowWaits
      <3>3. Id(c) \in Scanned => Blockers[Id(c)] \subseteq AnsweredRow(c).unmet \cup wasAnswered
        BY <1>0, <2>1, <2>3, <3>1 DEF AnswersWait
      <3>4. /\ record'[c] = {AnsweredRow(c)} /\ writing'[c] = "opens" /\ Id(c)' = Id(c)
            /\ wasAnswered' = wasAnswered
        BY <2>1, <2>3 DEF LedgerShape, FileTyped, RestTyped, PutsRow, Puts, Quiet, Id
      <3>5. AnswersWait(c)'
        BY <3>2, <3>3, <3>4 DEF AnswersWait, RowWaits
      <3> QED  BY <2>1, <2>3, <3>2, <3>5, WarrantPutting DEF Quiet
    <2> QED  BY <1>2, <2>2, <2>3, WhatAnswerDoes
  <1>3. CASE Followup(c)
    <2>1. AtStage(c, "followup") /\ Quiet /\ UNCHANGED record
      BY <1>3, WhatFollowupDoes
    <2>2. CASE GoesTo(c, {"requote"})
      <3>1. AnswersWait(c)'
        BY <1>0, <2>1, <2>2, AnswersGoOn DEF Carries, GoesTo, Quiet, AtStage
      <3> QED  BY <1>0, <2>1, <2>2, <3>1, WarrantGoing DEF Quiet, FactsHaveAnswers
    <2>3. ASSUME NEW id \in Joins, PutsRow(c, id, Row(id, "open", {}))
          PROVE  WarrantFor(c)'
      <3>1. RowWaits(id, Row(id, "open", {}))
        BY IdsAssumption DEF RowWaits, Row, Wordings
      <3>2. AnswersWait(c)'
        BY <1>0, <2>1, <2>3, PuttingCarries DEF Quiet, AtStage
      <3> QED  BY <2>1, <2>3, <3>1, <3>2, WarrantPutting DEF Quiet
    <2> QED  BY <1>3, <2>2, <2>3, WhatFollowupDoes
  <1>4. CASE Requote(c)
    <2>1. /\ AtStage(c, "requote") /\ Quiet /\ UNCHANGED record
          /\ GoesTo(c, {"fold"}) \/ GoesTo(c, {"restate"})
      BY <1>4, WhatRequoteDoes
    <2>2. AnswersWait(c)'
      BY <1>0, <2>1, AnswersGoOn DEF Carries, GoesTo, Quiet, AtStage
    <2> QED  BY <1>0, <2>1, <2>2, WarrantGoing DEF Quiet, FactsHaveAnswers
  <1>5. CASE Restate(c)
    <2> DEFINE e == EngOf[Id(c)]
    <2>1. AtStage(c, "restate") /\ Quiet /\ UNCHANGED record /\ e \in DOMAIN Requoted
      BY <1>5, WhatRestateDoes
    <2>2. CASE Leaves(c)
      BY <2>1, <2>2, WarrantLeaving DEF Quiet
    <2>3. ASSUME e \in DOMAIN ledger, NEW row, row = [ledger[e] EXCEPT !.text = Requoted[e]],
                 PutsRow(c, e, row)
          PROVE  WarrantFor(c)'
      <3>1. row.text = Requoted[e] /\ row.blocked_by = ledger[e].blocked_by
        BY <1>0, <2>3, RowOnFile, ChangedFields
      <3>2. RowWaits(e, row)
        BY <1>0, <2>1, <2>3, <3>1 DEF RowsWait, RowWaits, Wordings
      <3>3. AnswersWait(c)'
        BY <1>0, <2>1, <2>3, PuttingCarries DEF Quiet, AtStage
      <3> QED  BY <2>1, <2>3, <3>2, <3>3, WarrantPutting DEF Quiet
    <2> QED  BY <1>5, <2>2, <2>3, WhatRestateDoes
  <1> QED  BY <1>1, <1>2, <1>3, <1>4, <1>5

LEMMA WarrantFolding ==
    ASSUME LedgerShape, ScansWordTheirOwn, NEW c \in Callers, AloneHolds(c), WarrantFor(c), Fold(c)
    PROVE  WarrantFor(c)'
  <1>0. /\ AnswersWait(c) /\ FactsHaveAnswers /\ ProposalsAreWarranted
        /\ AnsweredIn(ledger) \subseteq wasAnswered
    BY DEF WarrantFor
  <1>1. /\ AtStage(c, "fold") /\ Id(c) \in Ids /\ UNCHANGED <<job, record, wasAnswered>>
    BY WhatFoldDoes
  <1>2. Id(c) \in wasAnswered
    BY <1>0, <1>1 DEF AtStage, AloneHolds, HoldsTheRow, Upcoming, AnsweredIn
  <1>3. CASE Leaves(c) /\ UNCHANGED <<corpus, folded>>
    BY <1>1, <1>3, WarrantLeaving
  <1>4. ASSUME NEW row \in record[c], GoesTo(c, {"mark"}), row \in Rows,
               corpus' = corpus \/ corpus' = [corpus EXCEPT ![row.text] = Warranted(row)],
               folded' = [folded EXCEPT ![Id(c)] = Append(folded[Id(c)], FoldEntry(row))]
        PROVE  WarrantFor(c)'
    <2>1. /\ row.text \in Wordings(Id(c))
          /\ Id(c) \in Scanned => Blockers[Id(c)] \subseteq row.unmet \cup wasAnswered
      BY <1>0, <1>1, <1>4 DEF AnswersWait, Carries, AtStage
    <2>2. \A i \in Scanned : i # Id(c) => TextOf[i] # row.text
      BY <1>1, <2>1 DEF ScansWordTheirOwn, Wordings
    <2>3. FactsHaveAnswers'
      <3>1. \A i \in Scanned : i # Id(c) => corpus'[TextOf[i]] = corpus[TextOf[i]]
        BY <1>4, <2>2 DEF LedgerShape, RestTyped, Ids, Texts
      <3> QED  BY <1>0, <1>1, <1>2, <3>1 DEF FactsHaveAnswers
    <2>4. ProposalsAreWarranted'
      <3> SUFFICES ASSUME NEW i \in Scanned, NEW k \in DOMAIN folded'[i],
                          folded'[i][k].status = "proposed"
                   PROVE  Blockers[i] \subseteq wasAnswered
        BY <1>1 DEF ProposalsAreWarranted
      <3>1. /\ folded'[Id(c)] = Append(folded[Id(c)], FoldEntry(row)) /\ folded[Id(c)] \in Seq(FoldEntries)
            /\ FoldEntry(row) \in FoldEntries /\ \A q \in Ids \ {Id(c)} : folded'[q] = folded[q]
        BY <1>1, <1>4, FoldIsAdded
      <3>2. CASE i # Id(c)
        BY <1>0, <3>1, <3>2 DEF ProposalsAreWarranted, Ids
      <3>3. CASE i = Id(c) /\ k \in DOMAIN folded[i]
        <4>1. folded'[i][k] = folded[i][k]
          BY <3>1, <3>3, AppendProperties
        <4> QED  BY <1>0, <3>3, <4>1 DEF ProposalsAreWarranted
      <3>4. CASE i = Id(c) /\ k \notin DOMAIN folded[i]
        <4>1. folded'[i][k] = FoldEntry(row)
          BY <3>1, <3>4, AppendProperties
        <4>2. row.unmet = {}
          BY <4>1 DEF FoldEntry, Warranted
        <4> QED  BY <2>1, <3>4, <4>2
      <3> QED  BY <3>2, <3>3, <3>4
    <2>5. UNCHANGED <<ledger, prepared, wasAnswered>> /\ StageOf(c)' = "mark"
      BY <1>1, <1>4 DEF GoesTo
    <2>6. AnswersWait(c)'
      BY <2>5 DEF AnswersWait, Carries
    <2>7. RowsWait(ledger)' /\ RowsWait(prepared[c])' /\ (AnsweredIn(ledger) \subseteq wasAnswered)'
      BY <2>5 DEF WarrantFor, RowsWait, RowWaits, AnsweredIn
    <2> QED  BY <2>3, <2>4, <2>6, <2>7 DEF WarrantFor
  <1> QED  BY <1>3, <1>4, WhatFoldDoes

LEMMA WarrantElsewhere ==
    ASSUME LedgerShape, FoldsAreTrue, NEW c \in Callers, AloneHolds(c), WarrantFor(c),
           Mark(c) \/ AppendIfNew(c) \/ Stored(c) \/ Check(c) \/ Cancel(c)
    PROVE  WarrantFor(c)'
  <1>0. /\ AnswersWait(c) /\ FactsHaveAnswers /\ ledger \in Files /\ RowsWait(ledger)
        /\ AnsweredIn(ledger) \subseteq wasAnswered
    BY DEF WarrantFor, LedgerShape, FileTyped
  <1>1. CASE Mark(c)
    <2>1. AtStage(c, "mark") /\ Quiet /\ UNCHANGED record
      BY <1>1, WhatMarkDoes
    <2>2. CASE Leaves(c)
      BY <2>1, <2>2, WarrantLeaving DEF Quiet
    <2>3. ASSUME Id(c) \in DOMAIN ledger, NEW row, row = [ledger[Id(c)] EXCEPT !.converted = TRUE],
                 PutsRow(c, Id(c), row)
          PROVE  WarrantFor(c)'
      <3>1. row.text = ledger[Id(c)].text /\ row.blocked_by = ledger[Id(c)].blocked_by
        BY <1>0, <2>3, RowOnFile, ChangedFields
      <3>2. RowWaits(Id(c), row)
        BY <1>0, <2>3, <3>1 DEF RowsWait, RowWaits
      <3>3. AnswersWait(c)'
        BY <1>0, <2>1, <2>3, PuttingCarries DEF Quiet, AtStage
      <3> QED  BY <2>1, <2>3, <3>2, <3>3, WarrantPutting DEF Quiet
    <2> QED  BY <1>1, <2>2, <2>3, WhatMarkDoes
  <1>2. CASE AppendIfNew(c)
    <2>1. AtStage(c, "append") /\ Quiet /\ Id(c) \in Explained
      BY <1>2, WhatAppendDoes
    <2>2. CASE GoesTo(c, {"stored"})
      <3>1. AnswersWait(c)'
        BY <2>2 DEF AnswersWait, Carries, GoesTo
      <3> QED  BY <1>0, <2>1, <2>2, <3>1, WarrantGoing DEF Quiet, FactsHaveAnswers
    <2>3. CASE PutsRow(c, Id(c), Row(Id(c), "answered", {}))
      <3>1. RowWaits(Id(c), Row(Id(c), "answered", {}))
        BY <2>1, IdsAssumption DEF RowWaits, Row, Wordings
      <3>2. StageOf(c)' = "append"
        BY <2>1, <2>3 DEF PutsRow, Puts, AtStage
      <3>3. AnswersWait(c)'
        BY <3>2 DEF AnswersWait, Carries
      <3> QED  BY <2>1, <2>3, <3>1, <3>3, WarrantPutting DEF Quiet
    <2> QED  BY <1>2, <2>2, <2>3, WhatAppendDoes
  <1>3. CASE Stored(c)
    <2>1. AtStage(c, "stored") /\ Quiet /\ Id(c) \in Explained
      BY <1>3, WhatStoredDoes
    <2>2. Id(c) \notin Scanned
      BY <2>1, IdsAssumption
    <2>3. CASE Leaves(c)
      BY <2>1, <2>3, WarrantLeaving DEF Quiet
    <2>4. CASE GoesTo(c, {"fold"}) /\ Id(c) \in DOMAIN ledger /\ record'[c] = {ledger[Id(c)]}
      <3>1. Id(c)' = Id(c) /\ StageOf(c)' = "fold"
        BY <2>1, <2>4 DEF Quiet, Id, GoesTo
      <3>2. ledger[Id(c)].text \in Wordings(Id(c))
        BY <1>0, <2>4 DEF RowsWait, RowWaits
      <3>3. AnswersWait(c)'
        BY <2>2, <2>4, <3>1, <3>2 DEF AnswersWait
      <3> QED  BY <1>0, <2>1, <2>4, <3>3, WarrantGoing DEF Quiet, FactsHaveAnswers
    <2>5. GoesTo(c, {"fold"}) => Id(c) \in DOMAIN ledger /\ record'[c] = {ledger[Id(c)]}
      <3>1. record[c] = {} \/ (Id(c) \in DOMAIN ledger /\ record[c] = {ledger[Id(c)]})
        BY <2>1 DEF AloneHolds, HoldsTheRow, AtStage
      <3>2. ~(GoesTo(c, {"fold"}) /\ Leaves(c))
        BY DEF GoesTo, Leaves
      <3> QED  BY <1>3, <3>1, <3>2, WhatStoredDoes DEF LedgerShape, RestTyped
    <2> QED  BY <1>3, <2>3, <2>4, <2>5, WhatStoredDoes
  <1>4. CASE Check(c)
    <2>1. Quiet /\ (Leaves(c) \/ GoesTo(c, {"cancel"}))
      BY <1>4, WhatCheckDoes
    <2>2. CASE Leaves(c)
      BY <2>1, <2>2, WarrantLeaving DEF Quiet
    <2>3. CASE GoesTo(c, {"cancel"})
      <3>1. AnswersWait(c)'
        BY <2>3 DEF AnswersWait, Carries, GoesTo
      <3> QED  BY <1>0, <2>1, <2>3, <3>1, WarrantGoing DEF Quiet, FactsHaveAnswers
    <2> QED  BY <2>1, <2>2, <2>3
  <1>5. CASE Cancel(c)
    <2>1. AtStage(c, "cancel") /\ Quiet /\ UNCHANGED record
      BY <1>5, WhatCancelDoes
    <2>2. CASE Leaves(c)
      BY <2>1, <2>2, WarrantLeaving DEF Quiet
    <2>3. ASSUME Id(c) \in DOMAIN ledger, NEW row, row = [ledger[Id(c)] EXCEPT !.status = "cancelled"],
                 PutsRow(c, Id(c), row)
          PROVE  WarrantFor(c)'
      <3>1. row.text = ledger[Id(c)].text /\ row.blocked_by = ledger[Id(c)].blocked_by
        BY <1>0, <2>3, RowOnFile, ChangedFields
      <3>2. RowWaits(Id(c), row)
        BY <1>0, <2>3, <3>1 DEF RowsWait, RowWaits
      <3>3. AnswersWait(c)'
        BY <1>0, <2>1, <2>3, PuttingCarries DEF Quiet, AtStage
      <3> QED  BY <2>1, <2>3, <3>2, <3>3, WarrantPutting DEF Quiet
    <2> QED  BY <1>5, <2>2, <2>3, WhatCancelDoes
  <1> QED  BY <1>1, <1>2, <1>3, <1>4, <1>5

LEMMA WarrantScanning ==
    ASSUME LedgerShape, NEW c \in Callers, AloneHolds(c), WarrantFor(c), Scan(c) \/ Propose(c)
    PROVE  WarrantFor(c)'
  <1>0. FactsHaveAnswers /\ RowsWait(ledger) /\ RowsWait(prepared[c])
    BY DEF WarrantFor
  <1>1. CASE Scan(c)
    <2>1. /\ UNCHANGED <<ledger, corpus, wasAnswered, folded>> /\ StageOf(c)' = "propose"
          /\ prepared'[c] = ledger
      BY <1>1, WhatScanDoes DEF Quiet, LedgerShape, FileTyped
    <2>2. AnswersWait(c)'
      BY <2>1 DEF AnswersWait, Carries
    <2> QED  BY <1>0, <2>1, <2>2, WarrantQuietly DEF FactsHaveAnswers
  <1>2. CASE Propose(c)
    <2>1. AtStage(c, "propose") /\ Quiet
      BY <1>2, WhatProposingDoes
    <2>2. CASE GoesTo(c, {"none"})
      <3>1. AnswersWait(c)'
        BY <2>2 DEF AnswersWait, Carries, GoesTo
      <3> QED  BY <1>0, <2>1, <2>2, <3>1, WarrantGoing DEF Quiet, FactsHaveAnswers
    <2>3. ASSUME NEW new \in SUBSET Scanned, new \cap DOMAIN prepared[c] = {},
                 NEW rows, rows = ProposedRows(prepared[c], new, Settles), Puts(c, rows)
          PROVE  WarrantFor(c)'
      <3>1. /\ DOMAIN rows = DOMAIN prepared[c] \cup new
            /\ \A i \in DOMAIN prepared[c] : rows[i] = prepared[c][i]
            /\ \A i \in new : rows[i] = Row(i, "open", Blockers[i] \ Settles)
        BY <2>3, ProposedRowsAre
      <3>2. \A i \in new : Blockers[i] \subseteq Scanned
        BY LedgerAssumption
      <3>3. \A i \in new : Blockers[i] \subseteq (Blockers[i] \ Settles) \cup wasAnswered
        BY <1>0, <3>2 DEF FactsHaveAnswers, Settles
      <3>4. \A i \in new : RowWaits(i, Row(i, "open", Blockers[i] \ Settles))
        BY <3>3 DEF RowWaits, Row, Wordings
      <3>5. \A i \in DOMAIN prepared[c] : RowWaits(i, prepared[c][i])
        BY <1>0 DEF RowsWait
      <3>6. RowsWait(rows)
        BY <3>1, <3>4, <3>5 DEF RowsWait
      <3>7. prepared'[c] = rows /\ ledger' = ledger /\ StageOf(c)' = "propose"
        BY <2>1, <2>3 DEF Puts, AtStage, LedgerShape, FileTyped
      <3>8. AnswersWait(c)'
        BY <3>7 DEF AnswersWait, Carries
      <3> QED  BY <1>0, <2>1, <3>6, <3>7, <3>8, WarrantQuietly DEF Quiet, FactsHaveAnswers
    <2> QED  BY <1>2, <2>2, <2>3, WhatProposingDoes
  <1> QED  BY <1>1, <1>2

LEMMA WarrantWriting ==
    ASSUME LedgerShape, NEW c \in Callers, AloneHolds(c), WarrantFor(c),
           Opens(c) \/ Fills(c) \/ ReadRaises(c) \/ EntersAny(c)
    PROVE  WarrantFor(c)'
  <1>0. /\ AnswersWait(c) /\ FactsHaveAnswers /\ RowsWait(ledger) /\ RowsWait(prepared[c])
        /\ AnsweredIn(ledger) \subseteq wasAnswered
    BY DEF WarrantFor
  <1>1. CASE Opens(c)
    <2>1. /\ writing[c] = "opens" /\ UNCHANGED <<corpus, wasAnswered, folded, record, job, prepared>>
          /\ StageOf(c)' = StageOf(c) /\ ledger' = Empty /\ writing'[c] = "fills"
      BY <1>1, WhatOpeningDoes DEF Quiet, LedgerShape, FileTyped
    <2>2. AnswersWait(c)'
      BY <1>0, <2>1, AnswersGoOn DEF Carries
    <2>3. RowsWait(Empty) /\ AnsweredIn(Empty) = {}
      BY EmptyIsAFile DEF RowsWait, AnsweredIn
    <2> QED  BY <1>0, <2>1, <2>2, <2>3, WarrantStays DEF FactsHaveAnswers
  <1>2. CASE Fills(c)
    <2>1. /\ writing[c] = "fills" /\ UNCHANGED <<corpus, folded, record, job>> /\ ledger' = prepared[c]
          /\ writing'[c] = "no" /\ prepared'[c] = Empty
          /\ wasAnswered' = wasAnswered \cup AnsweredIn(prepared[c])
      BY <1>2, WhatFillingDoes DEF LedgerShape, FileTyped
    <2>2. /\ StageOf(c)' = Stage(Tail(todo[c])) /\ StageOf(c) = Head(todo[c])
          /\ StageOf(c) \in WritingStages /\ todo[c] # << >> /\ Left(job[c], todo[c])
      BY <1>2, WhatFillingDoes
    <2>3. /\ StageOf(c)' # "answer"
          /\ Carries(c)' => Carries(c)
      <3>1. /\ StageOf(c)' \in {"none", "exists", "mine", "followup", "requote", "fold", "stored"}
            /\ StageOf(c)' \in {"followup", "requote", "fold"} =>
                 StageOf(c) \in {"answer", "followup", "restate"}
        BY <2>2, HandlerGoesOn DEF WritingStages, Stage
      <3> QED  BY <2>1, <3>1 DEF Carries
    <2>4. AnswersWait(c)'
      BY <1>0, <2>1, <2>3, AnswersGoOn
    <2>5. RowsWait(Empty)
      BY EmptyIsAFile DEF RowsWait
    <2> QED  BY <1>0, <2>1, <2>4, <2>5, WarrantStays DEF FactsHaveAnswers
  <1>3. CASE ReadRaises(c)
    BY <1>3, WhatRaisingDoes DEF AloneHolds, FileKeeps
  <1>4. CASE EntersAny(c)
    <2>1. /\ UNCHANGED <<ledger, prepared, corpus, wasAnswered, folded>>
          /\ StageOf(c)' \in {"log", "warrant", "append", "check", "scan"}
      BY <1>4, WhatEnteringDoes
    <2>2. AnswersWait(c)'
      BY <2>1 DEF AnswersWait, Carries
    <2> QED  BY <1>0, <2>1, <2>2, WarrantQuietly DEF FactsHaveAnswers
  <1> QED  BY <1>1, <1>2, <1>3, <1>4

LEMMA WarrantIdling ==
    ASSUME NEW c \in Callers, WarrantFor(c),
           UNCHANGED <<ledger, todo, job, prepared, writing, record, wasAnswered, folded>>,
           \A i \in Scanned : corpus'[TextOf[i]] # "none" => corpus[TextOf[i]] # "none"
    PROVE  WarrantFor(c)'
  <1>1. StageOf(c)' = StageOf(c) /\ Id(c)' = Id(c) /\ Carries(c)' = Carries(c)
    BY DEF StageOf, Id, Carries
  <1>2. AnswersWait(c)'
    BY <1>1 DEF WarrantFor, AnswersWait
  <1> QED  BY <1>2, WarrantQuietly DEF WarrantFor, FactsHaveAnswers

LEMMA WarrantStep ==
    ASSUME ScansWordTheirOwn, LedgerShape, FoldsAreTrue, OneWriterHolds, WarrantHolds,
           [Next]_loopVars
    PROVE  WarrantHolds'
  <1>0. scene' = scene /\ scene \in Scenes
    BY DEF Next, OnTheLedger, OnTheReports, TurnServed, ProcessEnds, Waits, loopVars, LedgerShape
  <1>1. CASE ~OneWriter
    BY <1>0, <1>1 DEF WarrantHolds, OneWriter
  <1>2. CASE OneWriter
    <2>1. PICK a \in Callers : scene.callers = {a} /\ scene.crashes = 0
      BY <1>0, <1>2, TheOneWriter
    <2>2. AloneHolds(a) /\ WarrantFor(a) /\ (WarrantFor(a)' => WarrantHolds')
      BY <1>0, <1>2, <2>1 DEF OneWriterHolds, WarrantHolds
    <2>3. ASSUME NEW c \in Callers, LedgerStep(c)
          PROVE  WarrantHolds'
      <3>1. c = a
        BY <2>1, <2>3, OnlyCallersAct
      <3>2. WarrantFor(c)'
        BY <2>2, <2>3, <3>1, WarrantAsking, WarrantAnswering, WarrantFolding, WarrantElsewhere,
           WarrantScanning, WarrantWriting DEF LedgerStep, HandlerStep
      <3> QED  BY <2>2, <3>1, <3>2
    <2>4. ASSUME UNCHANGED <<ledger, todo, job, prepared, writing, record, wasAnswered, folded>>,
                 \A i \in Scanned : corpus'[TextOf[i]] # "none" => corpus[TextOf[i]] # "none"
          PROVE  WarrantHolds'
      BY <2>2, <2>4, WarrantIdling
    <2>5. ASSUME NEW t \in Texts, approve_draft(t)
          PROVE  WarrantHolds'
      <3>1. \A i \in Scanned : corpus'[TextOf[i]] # "none" => corpus[TextOf[i]] # "none"
        BY <2>5 DEF approve_draft, LedgerShape, RestTyped
      <3> QED  BY <2>4, <2>5, <3>1 DEF approve_draft, caller, history
    <2>6. CASE OnTheLedger
      BY <2>3, <2>5, <2>6 DEF OnTheLedger
    <2>7. CASE OnTheReports \/ TurnServed \/ UNCHANGED loopVars
      BY <2>4, <2>7 DEF OnTheReports, TurnServed, record_node, loopVars, ledgerVars, caller, history
    <2>8. ~LedgerStops
      BY <2>1 DEF LedgerStops, LedgerShape, RestTyped
    <2> QED  BY <2>6, <2>7, <2>8 DEF Next, Waits, ProcessEnds
  <1> QED  BY <1>1, <1>2

(* With one writer, whoever folds an answer folds its record's own words   *)
(* and carries the questions it depended on that nobody had answered.      *)
LEMMA WarrantAlwaysHolds ==
    ASSUME ScansWordTheirOwn
    PROVE  Spec => []WarrantHolds
  <1>1. Init => WarrantHolds
    <2> SUFFICES ASSUME LedgerInit, NEW c \in Callers
                 PROVE  WarrantFor(c)
      <3>1. Init => \A c \in scene.callers : c \in Callers
        BY ScenesAssumption DEF Init
      <3> QED  BY <3>1 DEF Init, WarrantHolds
    <2>1. /\ ledger = Empty /\ prepared[c] = Empty /\ StageOf(c) = "none"
          /\ \A i \in Ids : folded[i] = << >>
      BY DEF LedgerInit, StageOf, Stage
    <2>2. FactsHaveAnswers
      BY DEF FactsHaveAnswers, LedgerInit, Texts, Ids
    <2>3. ProposalsAreWarranted
      BY <2>1 DEF ProposalsAreWarranted, Ids
    <2>4. AnsweredIn(ledger) = {} /\ RowsWait(ledger) /\ RowsWait(prepared[c])
      BY <2>1, EmptyIsAFile DEF AnsweredIn, RowsWait
    <2>5. AnswersWait(c)
      BY <2>1 DEF AnswersWait, Carries
    <2> QED  BY <2>2, <2>3, <2>4, <2>5 DEF WarrantFor
  <1>2. LedgerShape /\ FoldsAreTrue /\ OneWriterHolds /\ WarrantHolds /\ [Next]_loopVars
          => WarrantHolds'
    BY WarrantStep
  <1> QED
    BY <1>1, <1>2, LedgerShapeHolds, FoldsAreAlwaysTrue, OneWriterAlwaysHolds, PTL DEF Spec

(* A fact is proposed for certification only if every question its answer  *)
(* depended on had been answered, where no other question is worded as one *)
(* a scan asks: a scan finds a prerequisite settled by its wording.        *)
THEOREM ProposalsHaveTheirWarrant ==
    ASSUME ScansWordTheirOwn
    PROVE  Spec => []ProposedHasItsWarrant
  <1>1. LedgerShape /\ WarrantHolds => ProposedHasItsWarrant
    <2> SUFFICES ASSUME scene \in Scenes, WarrantHolds, OneWriter
                 PROVE  ProposalsAreWarranted
      BY DEF ProposedHasItsWarrant, ProposalsAreWarranted, LedgerShape
    <2> QED  BY TheOneWriter DEF WarrantHolds, WarrantFor
  <1> QED  BY <1>1, LedgerShapeHolds, WarrantAlwaysHolds, PTL
-----------------------------------------------------------------------------
(* The reports.  Their handlers and their file.                            *)
LEMMA ReportHandlerGoesOn ==
    ASSUME NEW left, ReportLeft(left), left # << >>
    PROVE  /\ ReportLeft(Tail(left)) /\ left \in Seq(ReportStages) /\ Tail(left) \in Seq(ReportStages)
           /\ SubSeq(left, 2, Len(left)) = Tail(left)
           /\ Head(left) \in ReportStages
           /\ Head(left) \in {"append", "mark", "dismiss"} => Tail(left) = << >>
           /\ Head(left) = "answer" => Stage(Tail(left)) = "fold"
           /\ Head(left) = "fold" => Stage(Tail(left)) = "mark"
           /\ Head(left) = "check" => Stage(Tail(left)) = "dismiss"
  <1>1. /\ <<"append">> \in Seq(ReportStages) /\ <<"mark">> \in Seq(ReportStages)
        /\ <<"fold", "mark">> \in Seq(ReportStages) /\ <<"dismiss">> \in Seq(ReportStages)
        /\ <<"check", "dismiss">> \in Seq(ReportStages)
    BY DEF ReportStages
  <1>2. <<"answer", "fold", "mark">> \in Seq(ReportStages)
    BY DEF ReportStages
  <1>3. left \in Seq(ReportStages)
    BY <1>1, <1>2 DEF ReportLeft
  <1>4. SubSeq(left, 2, Len(left)) = Tail(left) /\ Tail(left) \in Seq(ReportStages)
    BY <1>3, TailIsTheRest
  <1>5. /\ ReportLeft(Tail(left))
        /\ Head(left) \in ReportStages
        /\ Head(left) \in {"append", "mark", "dismiss"} => Tail(left) = << >>
        /\ Head(left) = "answer" => Stage(Tail(left)) = "fold"
        /\ Head(left) = "fold" => Stage(Tail(left)) = "mark"
        /\ Head(left) = "check" => Stage(Tail(left)) = "dismiss"
    <2>1. CASE left = <<"append">>
      BY <2>1 DEF ReportLeft, Stage, ReportStages
    <2>5. CASE left = <<"mark">>
      BY <2>5 DEF ReportLeft, Stage, ReportStages
    <2>6. CASE left = <<"dismiss">>
      BY <2>6 DEF ReportLeft, Stage, ReportStages
    <2>2. CASE left = <<"answer", "fold", "mark">>
      BY <2>2 DEF ReportLeft, Stage, ReportStages
    <2>3. CASE left = <<"fold", "mark">>
      BY <2>3 DEF ReportLeft, Stage, ReportStages
    <2>4. CASE left = <<"check", "dismiss">>
      BY <2>4 DEF ReportLeft, Stage, ReportStages
    <2> QED  BY <2>1, <2>2, <2>3, <2>4, <2>5, <2>6 DEF ReportLeft
  <1> QED  BY <1>3, <1>4, <1>5

LEMMA ReportFilesAre ==
    ASSUME NEW rows
    PROVE  rows \in ReportFiles <=> DOMAIN rows \subseteq Reports /\ rows \in [DOMAIN rows -> ReportRows]
  <1>1. ASSUME rows \in ReportFiles
        PROVE  DOMAIN rows \subseteq Reports /\ rows \in [DOMAIN rows -> ReportRows]
    <2>1. PICK S \in SUBSET Reports : rows \in [S -> ReportRows]
      BY <1>1 DEF ReportFiles
    <2> QED  BY <2>1
  <1>2. ASSUME DOMAIN rows \subseteq Reports, rows \in [DOMAIN rows -> ReportRows]
        PROVE  rows \in ReportFiles
    BY <1>2 DEF ReportFiles
  <1> QED  BY <1>1, <1>2

LEMMA NoReportsIsAFile == File!Empty \in ReportFiles /\ DOMAIN File!Empty = {}
  <1>1. File!Empty \in [{} -> ReportRows] /\ DOMAIN File!Empty = {}
    BY DEF File!Empty
  <1> QED  BY <1>1, ReportFilesAre

ReportsDiffer(old, new, r, row) ==
    /\ new \in ReportFiles /\ DOMAIN new = DOMAIN old \cup {r} /\ new[r] = row /\ row \in ReportRows
    /\ \A q \in DOMAIN old \ {r} : new[q] = old[q]

LEMMA ChangedReports ==
    ASSUME NEW rows \in ReportFiles, NEW r \in Reports, NEW row \in ReportRows
    PROVE  /\ ReportsDiffer(rows, File!Extend(rows, r, row), r, row)
           /\ r \in DOMAIN rows => ReportsDiffer(rows, [rows EXCEPT ![r] = row], r, row)
  <1>1. DOMAIN rows \subseteq Reports /\ rows \in [DOMAIN rows -> ReportRows]
    BY ReportFilesAre
  <1>2. /\ File!Extend(rows, r, row) \in [DOMAIN rows \cup {r} -> ReportRows]
        /\ File!Extend(rows, r, row)[r] = row
        /\ \A q \in DOMAIN rows \ {r} : File!Extend(rows, r, row)[q] = rows[q]
    BY <1>1 DEF File!Extend
  <1>3. ReportsDiffer(rows, File!Extend(rows, r, row), r, row)
    BY <1>1, <1>2, ReportFilesAre DEF ReportsDiffer
  <1>4. ASSUME r \in DOMAIN rows
        PROVE  ReportsDiffer(rows, [rows EXCEPT ![r] = row], r, row)
    <2>1. [rows EXCEPT ![r] = row] \in [DOMAIN rows -> ReportRows]
      BY <1>1, <1>4
    <2>2. [rows EXCEPT ![r] = row] \in ReportFiles
      BY <1>1, <2>1, ReportFilesAre
    <2> QED  BY <1>1, <1>4, <2>1, <2>2 DEF ReportsDiffer
  <1> QED  BY <1>3, <1>4

LEMMA ChangedReport ==
    ASSUME NEW row \in ReportRows
    PROVE  /\ \A s \in {"open", "answered", "dismissed"} :
                LET new == [row EXCEPT !.status = s] IN
                new \in ReportRows /\ new.status = s /\ new.converted = row.converted
           /\ LET new == [row EXCEPT !.converted = TRUE] IN
                new \in ReportRows /\ new.status = row.status /\ new.converted = TRUE
           /\ Report \in ReportRows /\ Report.status = "open" /\ Report.converted = FALSE
  BY DEF ReportRows, Report

(* What each of a reporter's steps does.                                   *)
ReporterAt(c, stage) ==
    /\ rtodo[c] # << >> /\ Head(rtodo[c]) = stage /\ rwriting[c] = "no" /\ ReportStage(c) = stage
    /\ c \in scene.callers /\ rjob[c] \in Reports

ReporterGoesTo(c, stage) ==
    /\ UNCHANGED <<reports, reportsTorn, rprepared, rwriting>>
    /\ rtodo' = [rtodo EXCEPT ![c] = Tail(rtodo[c])] /\ Stage(Tail(rtodo[c])) = stage
    /\ ReportStage(c)' = stage

ReporterLeaves(c) ==
    /\ UNCHANGED <<reports, reportsTorn, rwriting>>
    /\ rtodo' = [rtodo EXCEPT ![c] = << >>] /\ rprepared' = [rprepared EXCEPT ![c] = File!Empty]
    /\ ReportStage(c)' = "none"

PutsReport(c, row) ==
    /\ UNCHANGED <<reports, reportsTorn, rtodo>> /\ ReportStage(c)' = ReportStage(c)
    /\ rwriting' = [rwriting EXCEPT ![c] = "opens"]
    /\ \E rows \in ReportFiles : /\ rprepared' = [rprepared EXCEPT ![c] = rows]
                                 /\ ReportsDiffer(reports, rows, rjob[c], row)

RestOfReports == <<rjob, rrecord, facts, reported, filed, corrections>>

LEMMA OnReportStage ==
    ASSUME FeedbackShape, NEW c \in Callers, NEW stage, File!At(c, stage)
    PROVE  /\ ReporterAt(c, stage) /\ ReportLeft(rtodo[c])
           /\ reports \in ReportFiles /\ rtodo \in [Callers -> Seq(ReportStages)]
           /\ stage \in ReportStages
  <1>1. /\ ReporterHolds(c) /\ reports \in ReportFiles /\ rtodo \in [Callers -> Seq(ReportStages)]
    BY DEF FeedbackShape, ReportersHold
  <1>2. rtodo[c] # << >> /\ Head(rtodo[c]) = stage /\ rwriting[c] = "no"
    BY DEF File!At
  <1>3. ReportStage(c) = stage /\ ReportLeft(rtodo[c])
    BY <1>1, <1>2 DEF ReportStage, Stage, ReporterHolds
  <1>4. stage \in ReportStages
    BY <1>2, <1>3, ReportHandlerGoesOn
  <1> QED  BY <1>1, <1>2, <1>3, <1>4 DEF ReporterAt, ReporterHolds

LEMMA ReporterGoesOn ==
    ASSUME FeedbackShape, NEW c \in Callers, NEW stage, ReporterAt(c, stage), File!GoesOn(c, 1)
    PROVE  ReporterGoesTo(c, Stage(Tail(rtodo[c])))
  <1>1. /\ UNCHANGED <<reports, reportsTorn, rprepared, rwriting>>
        /\ rtodo' = [rtodo EXCEPT ![c] = SubSeq(rtodo[c], 2, Len(rtodo[c]))]
    BY DEF File!GoesOn
  <1>2. SubSeq(rtodo[c], 2, Len(rtodo[c])) = Tail(rtodo[c]) /\ rtodo \in [Callers -> Seq(ReportStages)]
    BY ReportHandlerGoesOn DEF FeedbackShape, ReportersHold, ReporterHolds, ReporterAt
  <1>3. rtodo'[c] = Tail(rtodo[c])
    BY <1>1, <1>2
  <1> QED  BY <1>1, <1>2, <1>3 DEF ReporterGoesTo, ReportStage

LEMMA ReporterReturns ==
    ASSUME FeedbackShape, NEW c \in Callers, File!Returns(c)
    PROVE  ReporterLeaves(c)
  <1>1. /\ UNCHANGED <<reports, reportsTorn, rwriting>> /\ rtodo' = [rtodo EXCEPT ![c] = << >>]
        /\ rprepared' = [rprepared EXCEPT ![c] = File!Empty]
    BY DEF File!Returns
  <1>2. rtodo'[c] = << >>
    BY <1>1 DEF FeedbackShape
  <1> QED  BY <1>1, <1>2 DEF ReporterLeaves, ReportStage, Stage

LEMMA ReporterWrites ==
    ASSUME FeedbackShape, NEW c \in Callers, NEW rows, NEW row, File!Writes(c, rows),
           ReportsDiffer(reports, rows, rjob[c], row)
    PROVE  PutsReport(c, row)
  <1>1. /\ UNCHANGED <<reports, reportsTorn, rtodo>> /\ rprepared' = [rprepared EXCEPT ![c] = rows]
        /\ rwriting' = [rwriting EXCEPT ![c] = "opens"]
    BY DEF File!Writes
  <1>2. ReportStage(c)' = ReportStage(c)
    BY <1>1 DEF ReportStage
  <1>3. rows \in ReportFiles
    BY DEF ReportsDiffer
  <1> QED  BY <1>1, <1>2, <1>3 DEF PutsReport

LEMMA WhatFilingDoes ==
    ASSUME FeedbackShape, NEW c \in Callers, file_report(c)
    PROVE  /\ ReporterAt(c, "append") /\ UNCHANGED RestOfReports
           /\ \/ ReporterLeaves(c)
              \/ rjob[c] \notin DOMAIN reports /\ PutsReport(c, Report)
  <1>1. File!At(c, "append") /\ UNCHANGED RestOfReports
    BY DEF file_report, File!Reads, RestOfReports, Kept
  <1>2. ReporterAt(c, "append") /\ reports \in ReportFiles
    BY <1>1, OnReportStage
  <1>3. CASE rjob[c] \in DOMAIN reports
    <2>1. File!Returns(c)
      BY <1>3 DEF file_report
    <2> QED  BY <1>1, <1>2, <2>1, ReporterReturns
  <1>4. CASE rjob[c] \notin DOMAIN reports
    <2>1. File!Writes(c, File!Extend(reports, rjob[c], Report))
      BY <1>4 DEF file_report
    <2>2. ReportsDiffer(reports, File!Extend(reports, rjob[c], Report), rjob[c], Report)
      BY <1>2, ChangedReports, ChangedReport DEF ReporterAt, Report, ReportRows
    <2> QED  BY <1>1, <1>2, <1>4, <2>1, <2>2, ReporterWrites
  <1> QED  BY <1>3, <1>4

LEMMA ReporterReplaces ==
    ASSUME FeedbackShape, NEW c \in Callers, NEW stage, ReporterAt(c, stage), NEW row,
           rjob[c] \in DOMAIN reports => row \in ReportRows, File!Replaces(c, rjob[c], row)
    PROVE  \/ rjob[c] \notin DOMAIN reports /\ ReporterLeaves(c)
           \/ rjob[c] \in DOMAIN reports /\ PutsReport(c, row)
  <1>1. CASE rjob[c] \in DOMAIN reports
    <2>1. File!Writes(c, [reports EXCEPT ![rjob[c]] = row])
      BY <1>1 DEF File!Replaces
    <2>2. ReportsDiffer(reports, [reports EXCEPT ![rjob[c]] = row], rjob[c], row)
      BY <1>1, ChangedReports DEF FeedbackShape, ReporterAt
    <2> QED  BY <1>1, <2>1, <2>2, ReporterWrites
  <1>2. CASE rjob[c] \notin DOMAIN reports
    BY <1>2, ReporterReturns DEF File!Replaces
  <1> QED  BY <1>1, <1>2

LEMMA ReportOnFile ==
    ASSUME FeedbackShape, NEW r \in DOMAIN reports
    PROVE  reports[r] \in ReportRows /\ r \in Reports
  BY ReportFilesAre DEF FeedbackShape

LEMMA WhatCorrectingDoes ==
    ASSUME FeedbackShape, NEW c \in Callers, answer_report(c)
    PROVE  /\ ReporterAt(c, "answer") /\ UNCHANGED <<rjob, facts, reported, filed, corrections>>
           /\ \/ ReporterLeaves(c) /\ rrecord'[c] = {}
              \/ \E row \in ReportRows :
                   /\ rjob[c] \in DOMAIN reports /\ PutsReport(c, row) /\ rrecord'[c] = {row}
                   /\ row.status = "answered" /\ row.converted = reports[rjob[c]].converted
           /\ rrecord' \in [Callers -> SUBSET ReportRows]
  <1> DEFINE row == [reports[rjob[c]] EXCEPT !.status = "answered"]
  <1>1. /\ File!At(c, "answer") /\ UNCHANGED <<rjob, facts, reported, filed, corrections>>
        /\ rrecord' = [rrecord EXCEPT ![c] = IF rjob[c] \in DOMAIN reports THEN {row} ELSE {}]
        /\ File!Replaces(c, rjob[c], row)
    BY DEF answer_report, File!Reads, Kept
  <1>2. ReporterAt(c, "answer")
    BY <1>1, OnReportStage
  <1>3. rjob[c] \in DOMAIN reports =>
          row \in ReportRows /\ row.status = "answered" /\ row.converted = reports[rjob[c]].converted
    BY ReportOnFile, ChangedReport
  <1> HIDE DEF row
  <1>4. \/ rjob[c] \notin DOMAIN reports /\ ReporterLeaves(c)
        \/ rjob[c] \in DOMAIN reports /\ PutsReport(c, row)
    BY <1>1, <1>2, <1>3, ReporterReplaces
  <1>5. /\ rrecord'[c] = IF rjob[c] \in DOMAIN reports THEN {row} ELSE {}
        /\ rrecord' \in [Callers -> SUBSET ReportRows]
    BY <1>1, <1>3 DEF FeedbackShape
  <1> QED  BY <1>1, <1>2, <1>3, <1>4, <1>5

LEMMA WhatCorrectionFoldsDo ==
    ASSUME FeedbackShape, NEW c \in Callers, fold_report_into_corpus(c)
    PROVE  /\ ReporterAt(c, "fold") /\ UNCHANGED <<rjob, rrecord, reported, filed>>
           /\ \E row \in rrecord[c] :
                \/ ReporterLeaves(c) /\ UNCHANGED <<facts, corrections>>
                \/ /\ ~row.converted /\ ReporterGoesTo(c, "mark")
                   /\ facts' \in {facts, [facts EXCEPT ![QuestionOf[rjob[c]]] = "proposed"]}
                   /\ corrections' = [corrections EXCEPT ![rjob[c]] = corrections[rjob[c]] + 1]
  <1>1. File!At(c, "fold") /\ UNCHANGED <<rjob, rrecord, reported, filed>>
    BY DEF fold_report_into_corpus
  <1>2. ReporterAt(c, "fold") /\ ReportLeft(rtodo[c])
    BY <1>1, OnReportStage
  <1>3. Stage(Tail(rtodo[c])) = "mark"
    BY <1>2, ReportHandlerGoesOn DEF ReporterAt
  <1>4. PICK row \in rrecord[c] :
          IF row.converted THEN File!Returns(c) /\ UNCHANGED <<facts, corrections>>
          ELSE /\ facts' \in {facts, [facts EXCEPT ![QuestionOf[rjob[c]]] = "proposed"]}
               /\ corrections' = [corrections EXCEPT ![rjob[c]] = corrections[rjob[c]] + 1]
               /\ File!GoesOn(c, 1)
    BY DEF fold_report_into_corpus
  <1>5. CASE row.converted
    BY <1>1, <1>2, <1>4, <1>5, ReporterReturns
  <1>6. CASE ~row.converted
    <2>1. ReporterGoesTo(c, "mark")
      BY <1>2, <1>3, <1>4, <1>6, ReporterGoesOn
    <2> QED  BY <1>1, <1>2, <1>4, <1>6, <2>1
  <1> QED  BY <1>5, <1>6

LEMMA WhatReportMarksDo ==
    ASSUME FeedbackShape, NEW c \in Callers, MarkReport(c)
    PROVE  /\ ReporterAt(c, "mark") /\ UNCHANGED RestOfReports
           /\ \/ rjob[c] \notin DOMAIN reports /\ ReporterLeaves(c)
              \/ \E row \in ReportRows :
                   /\ rjob[c] \in DOMAIN reports /\ PutsReport(c, row)
                   /\ row.converted = TRUE /\ row.status = reports[rjob[c]].status
  <1> DEFINE row == [reports[rjob[c]] EXCEPT !.converted = TRUE]
  <1>1. /\ File!At(c, "mark") /\ UNCHANGED RestOfReports /\ File!Replaces(c, rjob[c], row)
    BY DEF MarkReport, File!Reads, Kept, RestOfReports
  <1>2. ReporterAt(c, "mark")
    BY <1>1, OnReportStage
  <1>3. rjob[c] \in DOMAIN reports =>
          row \in ReportRows /\ row.converted = TRUE /\ row.status = reports[rjob[c]].status
    BY ReportOnFile, ChangedReport
  <1> HIDE DEF row
  <1> QED  BY <1>1, <1>2, <1>3, ReporterReplaces

LEMMA WhatDismissalChecksDo ==
    ASSUME FeedbackShape, NEW c \in Callers, CheckDismiss(c)
    PROVE  /\ ReporterAt(c, "check") /\ UNCHANGED RestOfReports
           /\ \/ ReporterLeaves(c)
              \/ /\ ReporterGoesTo(c, "dismiss") /\ rjob[c] \in DOMAIN reports
                 /\ reports[rjob[c]].status # "answered"
  <1>1. /\ File!At(c, "check") /\ UNCHANGED RestOfReports
        /\ \/ /\ rjob[c] \in DOMAIN reports /\ reports[rjob[c]].status # "answered"
              /\ File!GoesOn(c, 1)
           \/ File!Returns(c)
    BY DEF CheckDismiss, File!Reads, Kept, RestOfReports
  <1>2. ReporterAt(c, "check") /\ ReportLeft(rtodo[c])
    BY <1>1, OnReportStage
  <1>3. Stage(Tail(rtodo[c])) = "dismiss"
    BY <1>2, ReportHandlerGoesOn DEF ReporterAt
  <1> QED  BY <1>1, <1>2, <1>3, ReporterGoesOn, ReporterReturns

LEMMA WhatDismissingDoes ==
    ASSUME FeedbackShape, NEW c \in Callers, Dismiss(c)
    PROVE  /\ ReporterAt(c, "dismiss") /\ UNCHANGED RestOfReports
           /\ \/ ReporterLeaves(c)
              \/ \E row \in ReportRows :
                   /\ rjob[c] \in DOMAIN reports /\ PutsReport(c, row)
                   /\ row.status = "dismissed" /\ row.converted = reports[rjob[c]].converted
  <1> DEFINE row == [reports[rjob[c]] EXCEPT !.status = "dismissed"]
  <1>1. /\ File!At(c, "dismiss") /\ UNCHANGED RestOfReports /\ File!Replaces(c, rjob[c], row)
    BY DEF Dismiss, File!Reads, Kept, RestOfReports
  <1>2. ReporterAt(c, "dismiss")
    BY <1>1, OnReportStage
  <1>3. rjob[c] \in DOMAIN reports =>
          row \in ReportRows /\ row.status = "dismissed" /\ row.converted = reports[rjob[c]].converted
    BY ReportOnFile, ChangedReport
  <1> HIDE DEF row
  <1> QED  BY <1>1, <1>2, <1>3, ReporterReplaces

LEMMA WhatReportOpeningDoes ==
    ASSUME FeedbackShape, NEW c \in Callers, OpensReports(c)
    PROVE  /\ rwriting[c] = "opens" /\ reports' = File!Empty /\ reportsTorn' = FALSE
           /\ rwriting' = [rwriting EXCEPT ![c] = "fills"] /\ UNCHANGED <<rtodo, rprepared>>
           /\ UNCHANGED RestOfReports /\ ReportStage(c)' = ReportStage(c) /\ rtodo[c] # << >>
  <1>1. /\ rwriting[c] = "opens" /\ reports' = File!Empty /\ reportsTorn' = FALSE
        /\ rwriting' = [rwriting EXCEPT ![c] = "fills"] /\ UNCHANGED <<rtodo, rprepared>>
        /\ UNCHANGED RestOfReports
    BY DEF OpensReports, File!Empties, Kept, RestOfReports
  <1>2. ReportStage(c)' = ReportStage(c)
    BY <1>1 DEF ReportStage
  <1>3. rtodo[c] # << >>
    BY <1>1 DEF FeedbackShape, ReportersHold, ReporterHolds, ReportStage, Stage
  <1> QED  BY <1>1, <1>2, <1>3

LEMMA WhatReportFillingDoes ==
    ASSUME FeedbackShape, NEW c \in Callers, FillsReports(c)
    PROVE  /\ rwriting[c] = "fills" /\ reports' = rprepared[c]
           /\ reportsTorn' \in {FALSE, DOMAIN reports # {} /\ reports # rprepared[c]}
           /\ rtodo' = [rtodo EXCEPT ![c] = Tail(rtodo[c])]
           /\ rwriting' = [rwriting EXCEPT ![c] = "no"]
           /\ rprepared' = [rprepared EXCEPT ![c] = File!Empty]
           /\ filed' = filed \cup DOMAIN rprepared[c]
           /\ UNCHANGED <<rjob, rrecord, facts, reported, corrections>>
           /\ ReportStage(c) \in {"append", "answer", "mark", "dismiss"} /\ rtodo[c] # << >>
           /\ ReportStage(c) = Head(rtodo[c]) /\ ReportLeft(rtodo[c])
           /\ ReportStage(c)' = IF ReportStage(c) = "answer" THEN "fold" ELSE "none"
  <1>1. /\ rwriting[c] = "fills" /\ reports' = rprepared[c]
        /\ reportsTorn' \in {FALSE, DOMAIN reports # {} /\ reports # rprepared[c]}
        /\ rtodo' = [rtodo EXCEPT ![c] = Tail(rtodo[c])]
        /\ rwriting' = [rwriting EXCEPT ![c] = "no"]
        /\ rprepared' = [rprepared EXCEPT ![c] = File!Empty]
        /\ filed' = filed \cup DOMAIN rprepared[c]
        /\ UNCHANGED <<rjob, rrecord, facts, reported, corrections>>
    BY DEF FillsReports, File!GoOut, Kept
  <1>2. /\ ReportStage(c) \in {"append", "answer", "mark", "dismiss"} /\ ReportLeft(rtodo[c])
        /\ rtodo \in [Callers -> Seq(ReportStages)]
    BY <1>1 DEF FeedbackShape, ReportersHold, ReporterHolds
  <1>3. rtodo[c] # << >> /\ ReportStage(c) = Head(rtodo[c])
    BY <1>2 DEF ReportStage, Stage
  <1>4. rtodo'[c] = Tail(rtodo[c])
    BY <1>1, <1>2
  <1>5. ReportStage(c)' = Stage(Tail(rtodo[c]))
    BY <1>4 DEF ReportStage
  <1>6. ReportStage(c)' = IF ReportStage(c) = "answer" THEN "fold" ELSE "none"
    BY <1>2, <1>3, <1>5, ReportHandlerGoesOn DEF Stage
  <1> QED  BY Zenon, <1>1, <1>2, <1>3, <1>6

LEMMA WhatReportEnteringDoes ==
    ASSUME FeedbackShape, NEW c \in Callers, FeedbackEnters(c)
    PROVE  /\ c \in scene.callers /\ rtodo[c] = << >> /\ rwriting[c] = "no"
           /\ UNCHANGED <<reports, reportsTorn, rprepared, rwriting, facts, filed, corrections>>
           /\ ReportStage(c)' \in {"append", "answer", "check"}
           /\ \E r \in Reports : rjob' = [rjob EXCEPT ![c] = r]
           /\ \E left \in Seq(ReportStages) : ReportLeft(left) /\ rtodo' = [rtodo EXCEPT ![c] = left]
           /\ rrecord' = [rrecord EXCEPT ![c] = {}] /\ reported' = reported + 1
  <1>1. PICK op \in {"file", "correct", "dismiss"}, r \in Reports : EnterReport(c, op, r)
    BY DEF FeedbackEnters, file_feedback_route, answer_feedback_route, dismiss_feedback_route,
           FeedbackShape
  <1>2. /\ c \in scene.callers /\ rtodo[c] = << >>
        /\ UNCHANGED <<reports, reportsTorn, rprepared, rwriting, facts, filed, corrections>>
        /\ rjob' = [rjob EXCEPT ![c] = r] /\ rtodo' = [rtodo EXCEPT ![c] = ReportHandler(op)]
        /\ rrecord' = [rrecord EXCEPT ![c] = {}] /\ reported' = reported + 1
    BY <1>1 DEF EnterReport
  <1>3. /\ ReportLeft(ReportHandler(op)) /\ ReportHandler(op) # << >>
        /\ Head(ReportHandler(op)) \in {"append", "answer", "check"}
    BY DEF ReportLeft, ReportHandler
  <1>4. ReportHandler(op) \in Seq(ReportStages)
    BY <1>3, ReportHandlerGoesOn
  <1>5. rtodo'[c] = ReportHandler(op)
    BY <1>2 DEF FeedbackShape
  <1>6. ReportStage(c)' \in {"append", "answer", "check"}
    BY <1>3, <1>5 DEF ReportStage, Stage
  <1>7. rwriting[c] = "no"
    BY <1>2 DEF FeedbackShape, ReportersHold, ReporterHolds, ReportStage, Stage
  <1> QED  BY <1>2, <1>3, <1>4, <1>6, <1>7
-----------------------------------------------------------------------------
(* The shape of the reports' state.                                        *)
RestOfReportsTyped ==
    /\ rjob \in [Callers -> Reports \cup {"none"}]
    /\ rrecord \in [Callers -> SUBSET ReportRows]
    /\ facts \in [Questions -> {"none", "proposed", "certified"}]
    /\ reported \in Nat /\ filed \subseteq Reports /\ corrections \in [Reports -> Nat]

LEMMA ReportShapeGoing ==
    ASSUME FeedbackShape, scene' = scene, NEW c \in Callers, NEW stage, NEW next,
           ReporterAt(c, stage), ReporterGoesTo(c, next), rjob' = rjob, RestOfReportsTyped'
    PROVE  FeedbackShape'
  <1>1. ReportLeft(rtodo[c]) /\ rtodo[c] # << >>
    BY DEF FeedbackShape, ReportersHold, ReporterHolds, ReporterAt
  <1>2. ReportLeft(Tail(rtodo[c])) /\ Tail(rtodo[c]) \in Seq(ReportStages)
    BY <1>1, ReportHandlerGoesOn
  <1>3. /\ rtodo' \in [Callers -> Seq(ReportStages)] /\ rtodo'[c] = Tail(rtodo[c])
        /\ \A d \in Callers \ {c} : rtodo'[d] = rtodo[d]
    BY <1>2 DEF FeedbackShape, ReporterGoesTo
  <1>4. ReporterHolds(c)'
    BY <1>2, <1>3 DEF ReporterHolds, ReporterAt, ReporterGoesTo
  <1>5. \A d \in Callers \ {c} : ReporterHolds(d)'
    BY <1>3 DEF FeedbackShape, ReportersHold, ReporterHolds, ReporterGoesTo, ReportStage
  <1> QED  BY <1>3, <1>4, <1>5 DEF FeedbackShape, ReportersHold, ReporterGoesTo, RestOfReportsTyped

LEMMA ReportShapeLeaving ==
    ASSUME FeedbackShape, scene' = scene, NEW c \in Callers, rwriting[c] = "no",
           ReporterLeaves(c), rjob' = rjob, RestOfReportsTyped'
    PROVE  FeedbackShape'
  <1>1. << >> \in Seq(ReportStages)
    OBVIOUS
  <1>2. /\ rtodo' \in [Callers -> Seq(ReportStages)] /\ rtodo'[c] = << >>
        /\ \A d \in Callers \ {c} : rtodo'[d] = rtodo[d]
    BY <1>1 DEF FeedbackShape, ReporterLeaves
  <1>3. rprepared' \in [Callers -> ReportFiles]
    BY NoReportsIsAFile DEF FeedbackShape, ReporterLeaves
  <1>4. ReporterHolds(c)'
    BY <1>2 DEF ReporterHolds, ReporterLeaves, ReportLeft
  <1>5. \A d \in Callers \ {c} : ReporterHolds(d)'
    BY <1>2 DEF FeedbackShape, ReportersHold, ReporterHolds, ReporterLeaves, ReportStage
  <1> QED
    BY <1>2, <1>3, <1>4, <1>5 DEF FeedbackShape, ReportersHold, ReporterLeaves, RestOfReportsTyped

LEMMA ReportShapePutting ==
    ASSUME FeedbackShape, scene' = scene, NEW c \in Callers, NEW stage, ReporterAt(c, stage),
           stage \in {"append", "answer", "mark", "dismiss"},
           NEW row, PutsReport(c, row), rjob' = rjob, RestOfReportsTyped'
    PROVE  FeedbackShape'
  <1>1. /\ rprepared' \in [Callers -> ReportFiles]
        /\ rwriting' \in [Callers -> {"no", "opens", "fills"}]
        /\ \A d \in Callers \ {c} : rwriting'[d] = rwriting[d]
    BY DEF FeedbackShape, PutsReport
  <1>2. ReporterHolds(c)'
    BY DEF FeedbackShape, ReportersHold, ReporterHolds, PutsReport, ReporterAt
  <1>3. \A d \in Callers \ {c} : ReporterHolds(d)'
    BY <1>1 DEF FeedbackShape, ReportersHold, ReporterHolds, PutsReport, ReportStage
  <1> QED
    BY <1>1, <1>2, <1>3 DEF FeedbackShape, ReportersHold, PutsReport, RestOfReportsTyped

LEMMA ReportRestStays ==
    ASSUME FeedbackShape, UNCHANGED RestOfReports
    PROVE  RestOfReportsTyped' /\ rjob' = rjob
  BY DEF FeedbackShape, RestOfReports, RestOfReportsTyped

LEMMA ReportersKeepShape ==
    ASSUME FeedbackShape, scene' = scene, NEW c \in Callers,
           \/ file_report(c) \/ MarkReport(c) \/ CheckDismiss(c) \/ Dismiss(c)
           \/ ReportReadRaises(c)
    PROVE  FeedbackShape'
  <1>1. CASE file_report(c)
    BY <1>1, WhatFilingDoes, ReportRestStays, ReportShapeLeaving, ReportShapePutting DEF ReporterAt
  <1>2. CASE MarkReport(c)
    BY <1>2, WhatReportMarksDo, ReportRestStays, ReportShapeLeaving, ReportShapePutting DEF ReporterAt
  <1>3. CASE CheckDismiss(c)
    BY <1>3, WhatDismissalChecksDo, ReportRestStays, ReportShapeLeaving, ReportShapeGoing DEF ReporterAt
  <1>4. CASE Dismiss(c)
    BY <1>4, WhatDismissingDoes, ReportRestStays, ReportShapeLeaving, ReportShapePutting DEF ReporterAt
  <1>5. CASE ReportReadRaises(c)
    <2>1. UNCHANGED RestOfReports /\ rwriting[c] = "no" /\ File!Returns(c)
      BY <1>5 DEF ReportReadRaises, Kept, RestOfReports
    <2> QED  BY <2>1, ReporterReturns, ReportRestStays, ReportShapeLeaving
  <1> QED  BY <1>1, <1>2, <1>3, <1>4, <1>5

LEMMA CorrectorsKeepShape ==
    ASSUME FeedbackShape, scene' = scene, NEW c \in Callers,
           answer_report(c) \/ fold_report_into_corpus(c)
    PROVE  FeedbackShape'
  <1>1. CASE answer_report(c)
    <2>1. /\ ReporterAt(c, "answer") /\ RestOfReportsTyped' /\ rjob' = rjob
          /\ ReporterLeaves(c) \/ \E row \in ReportRows : PutsReport(c, row)
      BY <1>1, WhatCorrectingDoes DEF RestOfReportsTyped, FeedbackShape
    <2> QED  BY <2>1, ReportShapeLeaving, ReportShapePutting DEF ReporterAt
  <1>2. CASE fold_report_into_corpus(c)
    <2>1. /\ ReporterAt(c, "fold") /\ UNCHANGED <<rjob, rrecord, reported, filed>>
          /\ \/ ReporterLeaves(c) /\ UNCHANGED <<facts, corrections>>
             \/ /\ ReporterGoesTo(c, "mark")
                /\ facts' \in {facts, [facts EXCEPT ![QuestionOf[rjob[c]]] = "proposed"]}
                /\ corrections' = [corrections EXCEPT ![rjob[c]] = corrections[rjob[c]] + 1]
      BY <1>2, WhatCorrectionFoldsDo
    <2>2. facts' \in [Questions -> {"none", "proposed", "certified"}]
      BY <2>1 DEF FeedbackShape, ReporterAt, Questions
    <2>3. corrections' \in [Reports -> Nat]
      BY <2>1 DEF FeedbackShape, ReporterAt
    <2>4. RestOfReportsTyped'
      BY <2>1, <2>2, <2>3 DEF FeedbackShape, RestOfReportsTyped
    <2> QED  BY <2>1, <2>4, ReportShapeLeaving, ReportShapeGoing DEF ReporterAt
  <1> QED  BY <1>1, <1>2

LEMMA ReportWritesKeepShape ==
    ASSUME FeedbackShape, scene' = scene, NEW c \in Callers, OpensReports(c) \/ FillsReports(c)
    PROVE  FeedbackShape'
  <1>1. CASE OpensReports(c)
    <2>1. /\ rwriting[c] = "opens" /\ reports' = File!Empty /\ reportsTorn' = FALSE
          /\ rwriting' = [rwriting EXCEPT ![c] = "fills"] /\ UNCHANGED <<rtodo, rprepared>>
          /\ UNCHANGED RestOfReports /\ ReportStage(c)' = ReportStage(c) /\ rtodo[c] # << >>
      BY <1>1, WhatReportOpeningDoes
    <2>2. RestOfReportsTyped' /\ rjob' = rjob
      BY <2>1, ReportRestStays
    <2>3. \A d \in Callers : ReporterHolds(d)'
      BY <2>1, <2>2 DEF FeedbackShape, ReportersHold, ReporterHolds, ReportStage
    <2>4. rwriting' \in [Callers -> {"no", "opens", "fills"}] /\ reports' \in ReportFiles
      BY <2>1, NoReportsIsAFile DEF FeedbackShape
    <2> QED  BY <2>1, <2>2, <2>3, <2>4 DEF FeedbackShape, ReportersHold, RestOfReportsTyped
  <1>2. CASE FillsReports(c)
    <2>1. /\ rwriting[c] = "fills" /\ reports' = rprepared[c]
          /\ reportsTorn' \in {FALSE, DOMAIN reports # {} /\ reports # rprepared[c]}
          /\ rtodo' = [rtodo EXCEPT ![c] = Tail(rtodo[c])]
          /\ rwriting' = [rwriting EXCEPT ![c] = "no"]
          /\ rprepared' = [rprepared EXCEPT ![c] = File!Empty]
          /\ filed' = filed \cup DOMAIN rprepared[c]
          /\ UNCHANGED <<rjob, rrecord, facts, reported, corrections>>
          /\ rtodo[c] # << >> /\ ReportLeft(rtodo[c])
      BY <1>2, WhatReportFillingDoes
    <2>2. ReportLeft(Tail(rtodo[c])) /\ Tail(rtodo[c]) \in Seq(ReportStages)
      BY <2>1, ReportHandlerGoesOn
    <2>3. /\ rtodo' \in [Callers -> Seq(ReportStages)] /\ rtodo'[c] = Tail(rtodo[c])
          /\ rwriting' \in [Callers -> {"no", "opens", "fills"}] /\ rwriting'[c] = "no"
          /\ \A d \in Callers \ {c} : rtodo'[d] = rtodo[d] /\ rwriting'[d] = rwriting[d]
      BY <2>1, <2>2 DEF FeedbackShape
    <2>4. ReporterHolds(c)'
      BY <2>1, <2>2, <2>3 DEF FeedbackShape, ReportersHold, ReporterHolds
    <2>5. \A d \in Callers \ {c} : ReporterHolds(d)'
      BY <2>1, <2>3 DEF FeedbackShape, ReportersHold, ReporterHolds, ReportStage
    <2>6. rprepared[c] \in ReportFiles /\ rprepared' \in [Callers -> ReportFiles]
      BY <2>1, NoReportsIsAFile DEF FeedbackShape
    <2>7. filed' \subseteq Reports
      BY <2>1, <2>6, ReportFilesAre DEF FeedbackShape
    <2>8. reportsTorn' \in BOOLEAN
      BY <2>1, Zenon
    <2> QED  BY <2>1, <2>3, <2>4, <2>5, <2>6, <2>7, <2>8 DEF FeedbackShape, ReportersHold
  <1> QED  BY <1>1, <1>2

LEMMA ReportEntersKeepShape ==
    ASSUME FeedbackShape, scene' = scene, NEW c \in Callers, FeedbackEnters(c)
    PROVE  FeedbackShape'
  <1>1. /\ c \in scene.callers /\ rwriting[c] = "no"
        /\ UNCHANGED <<reports, reportsTorn, rprepared, rwriting, facts, filed, corrections>>
        /\ rrecord' = [rrecord EXCEPT ![c] = {}] /\ reported' = reported + 1
    BY WhatReportEnteringDoes
  <1>2. PICK r \in Reports : rjob' = [rjob EXCEPT ![c] = r]
    BY WhatReportEnteringDoes
  <1>3. PICK left \in Seq(ReportStages) : ReportLeft(left) /\ rtodo' = [rtodo EXCEPT ![c] = left]
    BY WhatReportEnteringDoes
  <1>4. /\ rtodo' \in [Callers -> Seq(ReportStages)] /\ rtodo'[c] = left
        /\ rjob' \in [Callers -> Reports \cup {"none"}] /\ rjob'[c] = r
        /\ \A d \in Callers \ {c} : rtodo'[d] = rtodo[d] /\ rjob'[d] = rjob[d]
    BY <1>2, <1>3 DEF FeedbackShape
  <1>5. ReporterHolds(c)'
    BY <1>1, <1>3, <1>4 DEF ReporterHolds
  <1>6. \A d \in Callers \ {c} : ReporterHolds(d)'
    BY <1>1, <1>4 DEF FeedbackShape, ReportersHold, ReporterHolds, ReportStage
  <1>7. \A d \in Callers : ReporterHolds(d)'
    BY <1>5, <1>6
  <1>8. rrecord' \in [Callers -> SUBSET ReportRows] /\ reported' \in Nat
    BY <1>1 DEF FeedbackShape
  <1> QED  BY <1>1, <1>4, <1>7, <1>8 DEF FeedbackShape, ReportersHold

LEMMA ReportStopsKeepShape ==
    ASSUME FeedbackShape, scene' = scene, FeedbackStops
    PROVE  FeedbackShape'
  <1>1. /\ rtodo' = [c \in Callers |-> << >>] /\ rwriting' = [c \in Callers |-> "no"]
        /\ rprepared' = [c \in Callers |-> File!Empty] /\ UNCHANGED <<reports, reportsTorn>>
        /\ UNCHANGED RestOfReports
    BY DEF FeedbackStops, File!Stops, FeedbackShape, RestOfReports
  <1>2. RestOfReportsTyped'
    BY <1>1, ReportRestStays
  <1>3. \A c \in Callers : ReporterHolds(c)'
    BY <1>1 DEF ReporterHolds, ReportLeft
  <1>4. << >> \in Seq(ReportStages) /\ File!Empty \in ReportFiles
    BY NoReportsIsAFile
  <1> QED  BY <1>1, <1>2, <1>3, <1>4 DEF FeedbackShape, ReportersHold, RestOfReportsTyped

LEMMA ReportIdlesKeepShape ==
    ASSUME FeedbackShape, scene' = scene,
           UNCHANGED feedbackVars \/ \E q \in Questions : CertifyCorrection(q)
    PROVE  FeedbackShape'
  <1>1. /\ UNCHANGED <<reports, reportsTorn, rtodo, rjob, rprepared, rwriting, rrecord, reported,
                       filed, corrections>>
        /\ facts' \in [Questions -> {"none", "proposed", "certified"}]
    BY DEF FeedbackShape, feedbackVars, CertifyCorrection
  <1> QED  BY <1>1 DEF FeedbackShape, ReportersHold, ReporterHolds, ReportStage

LEMMA ReportShapeStep ==
    ASSUME FeedbackShape, [Next]_loopVars
    PROVE  FeedbackShape'
  <1>1. ASSUME NEW c \in Callers, FeedbackStep(c), scene' = scene
        PROVE  FeedbackShape'
    BY <1>1, ReportersKeepShape, CorrectorsKeepShape, ReportWritesKeepShape, ReportEntersKeepShape
       DEF FeedbackStep
  <1>2. CASE OnTheReports
    BY <1>1, <1>2, ReportIdlesKeepShape DEF OnTheReports
  <1>3. CASE ProcessEnds
    BY <1>3, ReportStopsKeepShape DEF ProcessEnds
  <1>4. CASE OnTheLedger \/ TurnServed \/ UNCHANGED loopVars
    BY <1>4, ReportIdlesKeepShape DEF OnTheLedger, TurnServed, loopVars
  <1> QED  BY <1>2, <1>3, <1>4 DEF Next, Waits

(* Every report on file and every handler of one is well formed.           *)
THEOREM FeedbackShapeHolds == Spec => []FeedbackShape
  <1>1. Init => FeedbackShape
    <2> SUFFICES ASSUME FeedbackInit
                 PROVE  FeedbackShape
      BY DEF Init
    <2>1. File!Empty \in ReportFiles /\ << >> \in Seq(ReportStages)
      BY NoReportsIsAFile
    <2>2. ReportersHold
      BY DEF FeedbackInit, ReportersHold, ReporterHolds, ReportLeft
    <2> QED  BY <2>1, <2>2 DEF FeedbackInit, FeedbackShape
  <1> QED  BY <1>1, ReportShapeStep, PTL DEF Spec

(* Every variable of both lists has its type, for any bounds.              *)
THEOREM ListsTypeCorrect == Spec => [](LedgerTypeOK /\ FeedbackTypeOK)
  <1>1. LedgerShape => LedgerTypeOK
    <2> SUFFICES ASSUME LedgerShape
                 PROVE  LedgerTypeOK
      OBVIOUS
    <2>1. FileTyped /\ RestTyped
      BY DEF LedgerShape
    <2>2. IsFile(ledger) /\ \A c \in Callers : IsFile(prepared[c])
      BY <2>1, FilesAre DEF FileTyped, IsFile
    <2>3. ASSUME NEW c \in Callers, NEW k \in DOMAIN todo[c]
          PROVE  todo[c][k] \in Stages
      <3>1. todo[c] \in Seq(Stages)
        BY <2>1 DEF FileTyped
      <3> QED  BY <2>3, <3>1
    <2>4. ASSUME NEW i \in Ids, NEW k \in DOMAIN folded[i]
          PROVE  folded[i][k] \in FoldEntries
      <3>1. folded[i] \in Seq(FoldEntries)
        BY <2>1 DEF RestTyped
      <3> QED  BY <2>4, <3>1
    <2>5. \A c \in Callers : record[c] \subseteq Rows \cup [unmet : SUBSET Scanned]
      BY <2>1 DEF RestTyped
    <2> QED
      BY <2>1, <2>2, <2>3, <2>4, <2>5 DEF FileTyped, RestTyped, LedgerTypeOK, FoldEntries
  <1>2. FeedbackShape => FeedbackTypeOK
    BY ReportFilesAre DEF FeedbackShape, FeedbackTypeOK, IsReports
  <1> QED  BY <1>1, <1>2, LedgerShapeHolds, FeedbackShapeHolds, PTL
-----------------------------------------------------------------------------

(* Any threads: no report counts as converted before its correction was    *)
(* submitted.                                                              *)
LEMMA CorrectionClaimsStay ==
    ASSUME FeedbackShape, FeedbackShape', CorrectionsAreTrue, NEW c \in Callers,
           \A r \in Reports : corrections[r] > 0 => corrections'[r] > 0,
           \A d \in Callers \ {c} :
              rtodo'[d] = rtodo[d] /\ rprepared'[d] = rprepared[d] /\ rjob'[d] = rjob[d],
           \A r \in DOMAIN reports' : reports'[r].converted => corrections[r] > 0,
           \A r \in DOMAIN rprepared'[c] : rprepared'[c][r].converted => corrections[r] > 0,
           ReportStage(c)' = "mark" => corrections'[rjob'[c]] > 0
    PROVE  CorrectionsAreTrue'
  <1>1. /\ DOMAIN reports' \subseteq Reports /\ \A d \in Callers : DOMAIN rprepared'[d] \subseteq Reports
    BY ReportFilesAre DEF FeedbackShape
  <1>2. ReportsAreTrue(reports)'
    BY <1>1 DEF ReportsAreTrue
  <1>3. ASSUME NEW d \in Callers
        PROVE  ReportsAreTrue(rprepared[d])'
    BY <1>1 DEF CorrectionsAreTrue, ReportsAreTrue
  <1>4. ASSUME NEW d \in Callers, ReportStage(d)' = "mark"
        PROVE  corrections'[rjob'[d]] > 0
    <2>1. CASE d = c
      BY <1>4, <2>1
    <2>2. CASE d # c
      <3>1. ReportStage(d) = "mark" /\ rjob'[d] = rjob[d] /\ rtodo[d] # << >>
        BY <1>4, <2>2 DEF ReportStage, Stage
      <3>2. rjob[d] \in Reports
        BY <3>1 DEF FeedbackShape, ReportersHold, ReporterHolds
      <3> QED  BY <3>1, <3>2 DEF CorrectionsAreTrue
    <2> QED  BY <2>1, <2>2
  <1> QED  BY <1>2, <1>3, <1>4 DEF CorrectionsAreTrue

LEMMA GoingOrLeavingClaims ==
    ASSUME FeedbackShape, FeedbackShape', CorrectionsAreTrue, NEW c \in Callers,
           UNCHANGED <<rjob, corrections>>,
           \/ ReporterLeaves(c)
           \/ \E next \in {"dismiss", "none"} : ReporterGoesTo(c, next)
    PROVE  CorrectionsAreTrue'
  <1>1. CASE ReporterLeaves(c)
    <2>1. /\ \A d \in Callers \ {c} : rtodo'[d] = rtodo[d] /\ rprepared'[d] = rprepared[d]
          /\ reports' = reports /\ rprepared'[c] = File!Empty /\ ReportStage(c)' = "none"
      BY <1>1 DEF ReporterLeaves, FeedbackShape
    <2> QED  BY <2>1, NoReportsIsAFile, CorrectionClaimsStay DEF CorrectionsAreTrue, ReportsAreTrue
  <1>2. CASE \E next \in {"dismiss", "none"} : ReporterGoesTo(c, next)
    <2>1. /\ \A d \in Callers \ {c} : rtodo'[d] = rtodo[d]
          /\ reports' = reports /\ rprepared' = rprepared /\ ReportStage(c)' # "mark"
      BY <1>2 DEF ReporterGoesTo, FeedbackShape
    <2> QED  BY <2>1, CorrectionClaimsStay DEF CorrectionsAreTrue, ReportsAreTrue
  <1> QED  BY <1>1, <1>2

LEMMA PuttingAReportClaims ==
    ASSUME FeedbackShape, FeedbackShape', CorrectionsAreTrue, NEW c \in Callers,
           UNCHANGED <<rjob, corrections>>, NEW row, PutsReport(c, row), rjob[c] \in Reports,
           row.converted => corrections[rjob[c]] > 0
    PROVE  CorrectionsAreTrue'
  <1>1. PICK rows \in ReportFiles : /\ rprepared' = [rprepared EXCEPT ![c] = rows]
                                    /\ ReportsDiffer(reports, rows, rjob[c], row)
    BY DEF PutsReport
  <1>2. /\ \A d \in Callers \ {c} : rtodo'[d] = rtodo[d] /\ rprepared'[d] = rprepared[d]
        /\ reports' = reports /\ rprepared'[c] = rows
        /\ ReportStage(c)' = "mark" => ReportStage(c) = "mark"
    BY <1>1 DEF PutsReport, FeedbackShape
  <1>3. \A r \in DOMAIN rows : rows[r].converted => corrections[r] > 0
    BY <1>1 DEF ReportsDiffer, CorrectionsAreTrue, ReportsAreTrue
  <1> QED  BY <1>2, <1>3, CorrectionClaimsStay DEF CorrectionsAreTrue, ReportsAreTrue

LEMMA HandledReportsClaim ==
    ASSUME FeedbackShape, FeedbackShape', CorrectionsAreTrue, NEW c \in Callers,
           \/ file_report(c) \/ answer_report(c) \/ MarkReport(c) \/ CheckDismiss(c) \/ Dismiss(c)
           \/ ReportReadRaises(c)
    PROVE  CorrectionsAreTrue'
  <1>0. \A r \in DOMAIN reports : reports[r].converted => corrections[r] > 0
    BY DEF CorrectionsAreTrue, ReportsAreTrue
  <1>1. CASE file_report(c)
    <2>1. ReporterAt(c, "append") /\ UNCHANGED <<rjob, corrections>> /\ Report.converted = FALSE
      BY <1>1, WhatFilingDoes, ChangedReport DEF RestOfReports, Report
    <2> QED  BY <1>1, <2>1, WhatFilingDoes, GoingOrLeavingClaims, PuttingAReportClaims DEF ReporterAt
  <1>2. CASE answer_report(c)
    <2>1. /\ ReporterAt(c, "answer") /\ UNCHANGED <<rjob, corrections>>
          /\ \/ ReporterLeaves(c)
             \/ \E row \in ReportRows : /\ rjob[c] \in DOMAIN reports /\ PutsReport(c, row)
                                        /\ row.converted = reports[rjob[c]].converted
      BY <1>2, WhatCorrectingDoes
    <2> QED  BY <1>0, <2>1, GoingOrLeavingClaims, PuttingAReportClaims DEF ReporterAt
  <1>3. CASE MarkReport(c)
    <2>1. /\ ReporterAt(c, "mark") /\ UNCHANGED <<rjob, corrections>>
          /\ ReporterLeaves(c) \/ \E row \in ReportRows : PutsReport(c, row)
      BY <1>3, WhatReportMarksDo DEF RestOfReports
    <2>2. corrections[rjob[c]] > 0
      BY <2>1 DEF ReporterAt, CorrectionsAreTrue
    <2> QED  BY <2>1, <2>2, GoingOrLeavingClaims, PuttingAReportClaims DEF ReporterAt
  <1>4. CASE CheckDismiss(c)
    <2>1. /\ UNCHANGED <<rjob, corrections>>
          /\ ReporterLeaves(c) \/ ReporterGoesTo(c, "dismiss")
      BY <1>4, WhatDismissalChecksDo DEF RestOfReports
    <2> QED  BY <2>1, GoingOrLeavingClaims
  <1>5. CASE Dismiss(c)
    <2>1. /\ ReporterAt(c, "dismiss") /\ UNCHANGED <<rjob, corrections>>
          /\ \/ ReporterLeaves(c)
             \/ \E row \in ReportRows : /\ rjob[c] \in DOMAIN reports /\ PutsReport(c, row)
                                        /\ row.converted = reports[rjob[c]].converted
      BY <1>5, WhatDismissingDoes DEF RestOfReports
    <2> QED  BY <1>0, <2>1, GoingOrLeavingClaims, PuttingAReportClaims DEF ReporterAt
  <1>6. CASE ReportReadRaises(c)
    <2>1. UNCHANGED <<rjob, corrections>> /\ ReporterLeaves(c)
      BY <1>6, ReporterReturns DEF ReportReadRaises, Kept
    <2> QED  BY <2>1, GoingOrLeavingClaims
  <1> QED  BY <1>1, <1>2, <1>3, <1>4, <1>5, <1>6

LEMMA CorrectionFoldsClaim ==
    ASSUME FeedbackShape, FeedbackShape', CorrectionsAreTrue, NEW c \in Callers,
           fold_report_into_corpus(c)
    PROVE  CorrectionsAreTrue'
  <1>1. /\ ReporterAt(c, "fold") /\ rjob' = rjob
        /\ \/ ReporterLeaves(c) /\ UNCHANGED corrections
           \/ /\ ReporterGoesTo(c, "mark")
              /\ corrections' = [corrections EXCEPT ![rjob[c]] = corrections[rjob[c]] + 1]
    BY WhatCorrectionFoldsDo
  <1>2. CASE ReporterLeaves(c) /\ UNCHANGED corrections
    BY <1>1, <1>2, GoingOrLeavingClaims
  <1>3. CASE /\ ReporterGoesTo(c, "mark")
             /\ corrections' = [corrections EXCEPT ![rjob[c]] = corrections[rjob[c]] + 1]
    <2>1. /\ \A d \in Callers \ {c} : rtodo'[d] = rtodo[d]
          /\ reports' = reports /\ rprepared' = rprepared
      BY <1>3 DEF ReporterGoesTo, FeedbackShape
    <2>2. /\ \A r \in Reports : corrections[r] > 0 => corrections'[r] > 0
          /\ corrections'[rjob[c]] > 0
      BY <1>1, <1>3 DEF FeedbackShape, ReporterAt
    <2> QED  BY <1>1, <2>1, <2>2, CorrectionClaimsStay DEF CorrectionsAreTrue, ReportsAreTrue
  <1> QED  BY <1>1, <1>2, <1>3

LEMMA WrittenReportsClaim ==
    ASSUME FeedbackShape, FeedbackShape', CorrectionsAreTrue, NEW c \in Callers,
           OpensReports(c) \/ FillsReports(c) \/ FeedbackEnters(c)
    PROVE  CorrectionsAreTrue'
  <1>1. CASE OpensReports(c)
    <2>1. /\ reports' = File!Empty /\ UNCHANGED <<rtodo, rprepared, rjob, corrections>>
          /\ ReportStage(c)' = ReportStage(c)
      BY <1>1, WhatReportOpeningDoes DEF RestOfReports
    <2> QED  BY <2>1, NoReportsIsAFile, CorrectionClaimsStay DEF CorrectionsAreTrue, ReportsAreTrue
  <1>2. CASE FillsReports(c)
    <2>1. /\ reports' = rprepared[c] /\ UNCHANGED <<rjob, corrections>>
          /\ rtodo' = [rtodo EXCEPT ![c] = Tail(rtodo[c])]
          /\ rprepared' = [rprepared EXCEPT ![c] = File!Empty]
          /\ ReportStage(c)' = IF ReportStage(c) = "answer" THEN "fold" ELSE "none"
      BY <1>2, WhatReportFillingDoes
    <2>2. /\ \A d \in Callers \ {c} : rtodo'[d] = rtodo[d] /\ rprepared'[d] = rprepared[d]
          /\ rprepared'[c] = File!Empty /\ ReportStage(c)' # "mark"
      BY <2>1 DEF FeedbackShape
    <2> QED
      BY <2>1, <2>2, NoReportsIsAFile, CorrectionClaimsStay DEF CorrectionsAreTrue, ReportsAreTrue
  <1>3. CASE FeedbackEnters(c)
    <2>1. /\ UNCHANGED <<reports, rprepared, corrections>> /\ ReportStage(c)' # "mark"
      BY <1>3, WhatReportEnteringDoes
    <2>2. \A d \in Callers \ {c} : rtodo'[d] = rtodo[d] /\ rjob'[d] = rjob[d]
      BY <1>3, WhatReportEnteringDoes DEF FeedbackShape
    <2> QED  BY <2>1, <2>2, CorrectionClaimsStay DEF CorrectionsAreTrue, ReportsAreTrue
  <1> QED  BY <1>1, <1>2, <1>3

LEMMA CorrectionsStayTrue ==
    ASSUME FeedbackShape, FeedbackShape', CorrectionsAreTrue, [Next]_loopVars
    PROVE  CorrectionsAreTrue'
  <1>1. ASSUME NEW c \in Callers, FeedbackStep(c)
        PROVE  CorrectionsAreTrue'
    BY <1>1, HandledReportsClaim, CorrectionFoldsClaim, WrittenReportsClaim DEF FeedbackStep
  <1>2. ASSUME UNCHANGED <<reports, rtodo, rjob, rprepared, corrections>>
        PROVE  CorrectionsAreTrue'
    BY <1>2 DEF CorrectionsAreTrue, ReportsAreTrue, ReportStage
  <1>3. CASE FeedbackStops
    <2>1. /\ \A c \in Callers : rtodo'[c] = << >> /\ rprepared'[c] = File!Empty
          /\ UNCHANGED <<reports, corrections>>
      BY <1>3 DEF FeedbackStops, File!Stops, FeedbackShape
    <2>2. \A c \in Callers : ReportStage(c)' = "none"
      BY <2>1 DEF ReportStage, Stage
    <2> QED  BY <2>1, <2>2, NoReportsIsAFile DEF CorrectionsAreTrue, ReportsAreTrue
  <1>4. CASE OnTheReports
    BY <1>1, <1>2, <1>4 DEF OnTheReports, CertifyCorrection
  <1>5. CASE OnTheLedger \/ TurnServed \/ UNCHANGED loopVars
    BY <1>2, <1>5 DEF OnTheLedger, TurnServed, loopVars, feedbackVars
  <1> QED  BY <1>3, <1>4, <1>5 DEF Next, Waits, ProcessEnds

(* No report is marked converted before its correction was submitted,      *)
(* whatever threads interleave and wherever the process ends.              *)
THEOREM CorrectionsAreAlwaysTrue == Spec => []CorrectionsAreTrue
  <1>1. Init => CorrectionsAreTrue
    <2> SUFFICES ASSUME FeedbackInit
                 PROVE  CorrectionsAreTrue
      BY DEF Init
    <2>1. /\ reports = File!Empty
          /\ \A c \in Callers : rprepared[c] = File!Empty /\ ReportStage(c) = "none"
      BY DEF FeedbackInit, ReportStage, Stage
    <2> QED  BY <2>1, NoReportsIsAFile DEF CorrectionsAreTrue, ReportsAreTrue
  <1>2. FeedbackShape /\ FeedbackShape' /\ CorrectionsAreTrue /\ [Next]_loopVars => CorrectionsAreTrue'
    BY CorrectionsStayTrue
  <1> QED  BY <1>1, <1>2, FeedbackShapeHolds, PTL DEF Spec-----------------------------------------------------------------------------

(* One reporter at a time.  What it does to its own stage decides whether  *)
(* the promises still hold.                                                *)
LEMMA ReporterAloneLeaving ==
    ASSUME FeedbackShape, NEW c \in Callers, ReporterAlone(c), rwriting[c] = "no",
           UNCHANGED <<filed, corrections>>, ReporterLeaves(c), ReportStage(c) # "mark"
    PROVE  ReporterAlone(c)'
  <1>1. /\ UNCHANGED <<reports, reportsTorn, rwriting, filed, corrections>>
        /\ rprepared'[c] = File!Empty /\ ReportStage(c)' = "none"
    BY DEF ReporterLeaves, FeedbackShape
  <1>2. ReportsKept(c)' /\ HoldsTheReport(c)'
    BY <1>1 DEF ReporterAlone, ReportsKept, HoldsTheReport
  <1>3. CorrectedWasAnswered(reports)' /\ CorrectedWasAnswered(rprepared[c])'
    BY <1>1, NoReportsIsAFile DEF ReporterAlone, CorrectedWasAnswered
  <1>4. CorrectedOnce(c)'
    BY <1>1 DEF ReporterAlone, CorrectedOnce, UpcomingReports
  <1> QED  BY <1>2, <1>3, <1>4 DEF ReporterAlone

LEMMA ReporterAloneGoing ==
    ASSUME FeedbackShape, NEW c \in Callers, ReporterAlone(c), rwriting[c] = "no",
           UNCHANGED <<rjob, filed, corrections>>, ReporterGoesTo(c, "dismiss"),
           ReportStage(c) # "mark",
           rjob[c] \in DOMAIN reports /\ reports[rjob[c]].status # "answered"
    PROVE  ReporterAlone(c)'
  <1>1. /\ UNCHANGED <<reports, reportsTorn, rprepared, rwriting, rjob, filed, corrections>>
        /\ ReportStage(c)' = "dismiss"
    BY DEF ReporterGoesTo
  <1>2. ReportsKept(c)' /\ HoldsTheReport(c)'
    BY <1>1 DEF ReporterAlone, ReportsKept, HoldsTheReport
  <1>3. CorrectedWasAnswered(reports)' /\ CorrectedWasAnswered(rprepared[c])'
    BY <1>1 DEF ReporterAlone, CorrectedWasAnswered
  <1>4. CorrectedOnce(c)'
    BY <1>1 DEF ReporterAlone, CorrectedOnce, UpcomingReports
  <1> QED  BY <1>2, <1>3, <1>4 DEF ReporterAlone

LEMMA ReporterAlonePutting ==
    ASSUME FeedbackShape, NEW c \in Callers, ReporterAlone(c),
           NEW stage, ReporterAt(c, stage), stage # "fold",
           UNCHANGED <<rjob, filed, corrections>>, NEW row, PutsReport(c, row),
           corrections[rjob[c]] > 0 => row.status = "answered",
           stage = "answer" => rrecord'[c] = {row} /\ row.status = "answered",
           \/ row.converted
           \/ /\ stage # "mark" /\ rjob[c] \in DOMAIN reports
              /\ row.converted = reports[rjob[c]].converted
           \/ rjob[c] \notin DOMAIN reports
    PROVE  ReporterAlone(c)'
  <1>1. PICK rows \in ReportFiles : /\ rprepared' = [rprepared EXCEPT ![c] = rows]
                                    /\ ReportsDiffer(reports, rows, rjob[c], row)
    BY DEF PutsReport
  <1>2. /\ UNCHANGED <<reports, reportsTorn, rjob, filed, corrections>>
        /\ rprepared'[c] = rows /\ rwriting'[c] = "opens"
        /\ ReportStage(c) = stage /\ ReportStage(c)' = stage /\ rwriting[c] = "no"
    BY <1>1 DEF PutsReport, FeedbackShape, ReporterAt
  <1>3. /\ DOMAIN rows = DOMAIN reports \cup {rjob[c]} /\ rows[rjob[c]] = row
        /\ \A q \in DOMAIN reports \ {rjob[c]} : rows[q] = reports[q]
    BY <1>1 DEF ReportsDiffer
  <1>4. ReportsKept(c)'
    BY <1>2, <1>3 DEF ReporterAlone, ReportsKept
  <1>5. HoldsTheReport(c)'
    BY <1>2, <1>3 DEF HoldsTheReport, UpcomingReports
  <1>6. CorrectedWasAnswered(reports)' /\ CorrectedWasAnswered(rprepared[c])'
    BY <1>2, <1>3 DEF ReporterAlone, CorrectedWasAnswered
  <1>7. ASSUME NEW r \in Reports, corrections[r] > 0
        PROVE  corrections[r] = 1 /\ r \in DOMAIN rows /\ rows[r].converted
    <2>1. /\ corrections[r] = 1 /\ r \in DOMAIN reports
          /\ reports[r].converted \/ (stage = "mark" /\ rjob[c] = r)
      BY <1>2, <1>7 DEF ReporterAlone, CorrectedOnce, UpcomingReports
    <2>2. CASE r = rjob[c]
      BY <1>3, <2>1, <2>2
    <2>3. CASE r # rjob[c]
      BY <1>3, <2>1, <2>3
    <2> QED  BY <2>2, <2>3
  <1>8. CorrectedOnce(c)'
    BY <1>2, <1>7 DEF CorrectedOnce, UpcomingReports
  <1> QED  BY <1>4, <1>5, <1>6, <1>8 DEF ReporterAlone

LEMMA ReporterAloneHandling ==
    ASSUME FeedbackShape, NEW c \in Callers, ReporterAlone(c),
           file_report(c) \/ CheckDismiss(c) \/ Dismiss(c) \/ ReportReadRaises(c)
    PROVE  ReporterAlone(c)'
  <1>1. CASE file_report(c)
    <2>1. /\ ReporterAt(c, "append") /\ UNCHANGED <<rjob, filed, corrections>>
          /\ \/ ReporterLeaves(c)
             \/ rjob[c] \notin DOMAIN reports /\ PutsReport(c, Report)
      BY <1>1, WhatFilingDoes DEF RestOfReports
    <2>2. CASE ReporterLeaves(c)
      BY <2>1, <2>2, ReporterAloneLeaving DEF ReporterAt
    <2>3. CASE rjob[c] \notin DOMAIN reports /\ PutsReport(c, Report)
      <3>1. ~(corrections[rjob[c]] > 0)
        BY <2>1, <2>3 DEF ReporterAlone, CorrectedOnce, UpcomingReports, ReporterAt
      <3> QED  BY <2>1, <2>3, <3>1, ReporterAlonePutting
    <2> QED  BY <2>1, <2>2, <2>3
  <1>2. CASE CheckDismiss(c)
    <2>1. /\ ReporterAt(c, "check") /\ UNCHANGED <<rjob, filed, corrections>>
          /\ \/ ReporterLeaves(c)
             \/ /\ ReporterGoesTo(c, "dismiss") /\ rjob[c] \in DOMAIN reports
                /\ reports[rjob[c]].status # "answered"
      BY <1>2, WhatDismissalChecksDo DEF RestOfReports
    <2> QED  BY <2>1, ReporterAloneLeaving, ReporterAloneGoing DEF ReporterAt
  <1>3. CASE Dismiss(c)
    <2>1. /\ ReporterAt(c, "dismiss") /\ UNCHANGED <<rjob, filed, corrections>>
          /\ \/ ReporterLeaves(c)
             \/ \E row \in ReportRows :
                  /\ rjob[c] \in DOMAIN reports /\ PutsReport(c, row)
                  /\ row.status = "dismissed" /\ row.converted = reports[rjob[c]].converted
      BY <1>3, WhatDismissingDoes DEF RestOfReports
    <2>2. rjob[c] \in DOMAIN reports => ~(corrections[rjob[c]] > 0)
      BY <2>1 DEF ReporterAlone, HoldsTheReport, CorrectedWasAnswered, ReporterAt
    <2> QED  BY <2>1, <2>2, ReporterAloneLeaving, ReporterAlonePutting DEF ReporterAt
  <1>4. CASE ReportReadRaises(c)
    <2>1. reportsTorn
      BY <1>4 DEF ReportReadRaises
    <2> QED  BY <2>1 DEF ReporterAlone, ReportsKept
  <1> QED  BY <1>1, <1>2, <1>3, <1>4

LEMMA ReporterAloneCorrecting ==
    ASSUME FeedbackShape, NEW c \in Callers, ReporterAlone(c), answer_report(c) \/ MarkReport(c)
    PROVE  ReporterAlone(c)'
  <1>1. CASE answer_report(c)
    <2>1. /\ ReporterAt(c, "answer") /\ UNCHANGED <<rjob, filed, corrections>>
          /\ \/ ReporterLeaves(c)
             \/ \E row \in ReportRows :
                  /\ rjob[c] \in DOMAIN reports /\ PutsReport(c, row) /\ rrecord'[c] = {row}
                  /\ row.status = "answered" /\ row.converted = reports[rjob[c]].converted
      BY <1>1, WhatCorrectingDoes
    <2>2. CASE ReporterLeaves(c)
      BY <2>1, <2>2, ReporterAloneLeaving DEF ReporterAt
    <2>3. ASSUME NEW row \in ReportRows, rjob[c] \in DOMAIN reports, PutsReport(c, row),
                 rrecord'[c] = {row}, row.status = "answered",
                 row.converted = reports[rjob[c]].converted
          PROVE  ReporterAlone(c)'
      BY <2>1, <2>3, ReporterAlonePutting
    <2> QED  BY <2>1, <2>2, <2>3
  <1>2. CASE MarkReport(c)
    <2>1. /\ ReporterAt(c, "mark") /\ UNCHANGED <<rjob, filed, corrections>>
          /\ \/ rjob[c] \notin DOMAIN reports
             \/ \E row \in ReportRows :
                  /\ rjob[c] \in DOMAIN reports /\ PutsReport(c, row)
                  /\ row.converted = TRUE /\ row.status = reports[rjob[c]].status
      BY <1>2, WhatReportMarksDo DEF RestOfReports
    <2>2. rjob[c] \in DOMAIN reports /\ reports[rjob[c]].status = "answered"
      BY <2>1 DEF ReporterAlone, HoldsTheReport, UpcomingReports, ReporterAt
    <2>3. ASSUME NEW row \in ReportRows, PutsReport(c, row), row.converted = TRUE,
                 row.status = "answered"
          PROVE  ReporterAlone(c)'
      BY <2>1, <2>3, ReporterAlonePutting
    <2> QED  BY <2>1, <2>2, <2>3
  <1> QED  BY <1>1, <1>2

LEMMA ReporterAloneFolding ==
    ASSUME FeedbackShape, NEW c \in Callers, ReporterAlone(c), fold_report_into_corpus(c)
    PROVE  ReporterAlone(c)'
  <1>1. /\ ReporterAt(c, "fold") /\ UNCHANGED <<rjob, rrecord, filed>>
        /\ \E row \in rrecord[c] :
             \/ ReporterLeaves(c) /\ UNCHANGED corrections
             \/ /\ ~row.converted /\ ReporterGoesTo(c, "mark")
                /\ corrections' = [corrections EXCEPT ![rjob[c]] = corrections[rjob[c]] + 1]
    BY WhatCorrectionFoldsDo
  <1>2. CASE ReporterLeaves(c) /\ UNCHANGED corrections
    BY <1>1, <1>2, ReporterAloneLeaving DEF ReporterAt
  <1>3. ASSUME NEW row \in rrecord[c], ~row.converted, ReporterGoesTo(c, "mark"),
               corrections' = [corrections EXCEPT ![rjob[c]] = corrections[rjob[c]] + 1]
        PROVE  ReporterAlone(c)'
    <2>1. /\ UNCHANGED <<reports, reportsTorn, rprepared, rwriting, rjob, rrecord, filed>>
          /\ ReportStage(c)' = "mark" /\ ReportStage(c) = "fold" /\ rwriting[c] = "no"
      BY <1>1, <1>3 DEF ReporterGoesTo, ReporterAt
    <2>2. /\ rjob[c] \in DOMAIN reports /\ rrecord[c] = {reports[rjob[c]]}
          /\ reports[rjob[c]].status = "answered" /\ ~reports[rjob[c]].converted
      BY <1>3, <2>1 DEF ReporterAlone, HoldsTheReport, UpcomingReports
    <2>3. ReportsKept(c)' /\ rprepared[c] = File!Empty
      BY <2>1 DEF ReporterAlone, ReportsKept
    <2>4. HoldsTheReport(c)'
      BY <2>1, <2>2 DEF HoldsTheReport, UpcomingReports
    <2>5. /\ rjob[c] \in Reports /\ corrections \in [Reports -> Nat]
          /\ \A r \in Reports \ {rjob[c]} : corrections'[r] = corrections[r]
          /\ corrections'[rjob[c]] = corrections[rjob[c]] + 1
      BY <1>1, <1>3 DEF FeedbackShape, ReporterAt
    <2>6. corrections[rjob[c]] = 0
      BY <2>1, <2>2, <2>5 DEF ReporterAlone, CorrectedOnce, UpcomingReports
    <2>7. CorrectedWasAnswered(reports)'
      <3>1. DOMAIN reports \subseteq Reports
        BY ReportFilesAre DEF FeedbackShape
      <3> QED  BY <2>1, <2>2, <2>5, <3>1 DEF ReporterAlone, CorrectedWasAnswered
    <2>8. CorrectedWasAnswered(rprepared[c])'
      BY <2>1, <2>3, NoReportsIsAFile DEF CorrectedWasAnswered
    <2>9. CorrectedOnce(c)'
      <3>1. ASSUME NEW r \in Reports, corrections'[r] > 0
            PROVE  /\ corrections'[r] = 1 /\ r \in DOMAIN reports
                   /\ reports[r].converted \/ rjob[c] = r
        <4>1. CASE r = rjob[c]
          BY <2>2, <2>5, <2>6, <4>1
        <4>2. CASE r # rjob[c]
          BY <2>1, <2>5, <3>1, <4>2 DEF ReporterAlone, CorrectedOnce, UpcomingReports
        <4> QED  BY <4>1, <4>2
      <3> QED  BY <2>1, <3>1 DEF CorrectedOnce, UpcomingReports
    <2> QED  BY <2>3, <2>4, <2>7, <2>8, <2>9 DEF ReporterAlone
  <1> QED  BY <1>1, <1>2, <1>3

LEMMA ReporterAloneWriting ==
    ASSUME FeedbackShape, NEW c \in Callers, ReporterAlone(c), OpensReports(c) \/ FillsReports(c)
    PROVE  ReporterAlone(c)'
  <1>1. CASE OpensReports(c)
    <2>1. /\ rwriting[c] = "opens" /\ reports' = File!Empty /\ reportsTorn' = FALSE
          /\ UNCHANGED <<rprepared, rjob, rrecord, filed, corrections>>
          /\ ReportStage(c)' = ReportStage(c) /\ rwriting'[c] = "fills"
      BY <1>1, WhatReportOpeningDoes DEF RestOfReports, FeedbackShape
    <2>2. ReportsKept(c)'
      BY <2>1 DEF ReporterAlone, ReportsKept
    <2>3. HoldsTheReport(c)'
      BY <2>1 DEF ReporterAlone, HoldsTheReport, UpcomingReports
    <2>4. CorrectedWasAnswered(reports)' /\ CorrectedWasAnswered(rprepared[c])'
      BY <2>1, NoReportsIsAFile DEF ReporterAlone, CorrectedWasAnswered
    <2>5. CorrectedOnce(c)'
      BY <2>1 DEF ReporterAlone, CorrectedOnce, UpcomingReports
    <2> QED  BY <2>2, <2>3, <2>4, <2>5 DEF ReporterAlone
  <1>2. CASE FillsReports(c)
    <2>1. /\ rwriting[c] = "fills" /\ reports' = rprepared[c]
          /\ reportsTorn' \in {FALSE, DOMAIN reports # {} /\ reports # rprepared[c]}
          /\ rwriting' = [rwriting EXCEPT ![c] = "no"]
          /\ rprepared' = [rprepared EXCEPT ![c] = File!Empty]
          /\ filed' = filed \cup DOMAIN rprepared[c]
          /\ UNCHANGED <<rjob, rrecord, facts, reported, corrections>>
          /\ ReportStage(c) \in {"append", "answer", "mark", "dismiss"}
          /\ ReportStage(c)' = IF ReportStage(c) = "answer" THEN "fold" ELSE "none"
      BY <1>2, WhatReportFillingDoes
    <2>2. rwriting'[c] = "no" /\ rprepared'[c] = File!Empty
      BY <2>1 DEF FeedbackShape
    <2>3. DOMAIN reports = {} /\ filed \subseteq DOMAIN rprepared[c]
      BY <2>1, NoReportsIsAFile DEF ReporterAlone, ReportsKept
    <2>4. reportsTorn' = FALSE
      BY <2>1, <2>3, Zenon
    <2>5. ReportsKept(c)'
      BY <2>1, <2>2, <2>3, <2>4 DEF ReportsKept
    <2>6. HoldsTheReport(c)'
      BY <2>1, <2>2 DEF ReporterAlone, HoldsTheReport, UpcomingReports
    <2>7. CorrectedWasAnswered(reports)' /\ CorrectedWasAnswered(rprepared[c])'
      BY <2>1, <2>2, NoReportsIsAFile DEF ReporterAlone, CorrectedWasAnswered
    <2>8. CorrectedOnce(c)'
      BY <2>1, <2>2 DEF ReporterAlone, CorrectedOnce, UpcomingReports
    <2> QED  BY <2>5, <2>6, <2>7, <2>8 DEF ReporterAlone
  <1> QED  BY <1>1, <1>2

LEMMA ReporterAloneEntering ==
    ASSUME FeedbackShape, NEW c \in Callers, ReporterAlone(c), FeedbackEnters(c)
    PROVE  ReporterAlone(c)'
  <1>1. /\ rwriting[c] = "no" /\ ReportStage(c)' \in {"append", "answer", "check"}
        /\ UNCHANGED <<reports, reportsTorn, rprepared, rwriting, filed, corrections>>
        /\ rtodo[c] = << >>
    BY WhatReportEnteringDoes
  <1>2. ReportStage(c) = "none"
    BY <1>1 DEF ReportStage, Stage
  <1>3. ReportsKept(c)' /\ HoldsTheReport(c)'
    BY <1>1 DEF ReporterAlone, ReportsKept, HoldsTheReport
  <1>4. CorrectedWasAnswered(reports)' /\ CorrectedWasAnswered(rprepared[c])'
    BY <1>1 DEF ReporterAlone, CorrectedWasAnswered
  <1>5. CorrectedOnce(c)'
    BY <1>1, <1>2 DEF ReporterAlone, CorrectedOnce, UpcomingReports
  <1> QED  BY <1>3, <1>4, <1>5 DEF ReporterAlone

LEMMA ReporterAloneIdling ==
    ASSUME NEW c \in Callers, ReporterAlone(c),
           UNCHANGED <<reports, reportsTorn, rtodo, rjob, rprepared, rwriting, rrecord, filed,
                       corrections>>
    PROVE  ReporterAlone(c)'
  BY DEF ReporterAlone, ReportsKept, HoldsTheReport, CorrectedWasAnswered, CorrectedOnce,
         UpcomingReports, ReportStage

LEMMA OnlyReportersAct ==
    ASSUME FeedbackShape, NEW c \in Callers, FeedbackStep(c)
    PROVE  c \in scene.callers
  <1>1. rtodo[c] # << >> => c \in scene.callers
    BY DEF FeedbackShape, ReportersHold, ReporterHolds
  <1>2. CASE FeedbackEnters(c) \/ OpensReports(c) \/ FillsReports(c) \/ ReportReadRaises(c)
    BY <1>1, <1>2, WhatReportEnteringDoes, WhatReportOpeningDoes, WhatReportFillingDoes
       DEF ReportReadRaises
  <1>3. CASE \/ file_report(c) \/ answer_report(c) \/ fold_report_into_corpus(c) \/ MarkReport(c)
             \/ CheckDismiss(c) \/ Dismiss(c)
    BY <1>1, <1>3 DEF file_report, answer_report, fold_report_into_corpus, MarkReport,
                      CheckDismiss, Dismiss, File!Reads, File!At
  <1> QED  BY <1>2, <1>3 DEF FeedbackStep

LEMMA OneReporterStep ==
    ASSUME LedgerShape, FeedbackShape, OneReporterHolds, [Next]_loopVars
    PROVE  OneReporterHolds'
  <1>0. scene' = scene /\ scene \in Scenes
    BY DEF Next, OnTheLedger, OnTheReports, TurnServed, ProcessEnds, Waits, loopVars, LedgerShape
  <1>1. CASE ~OneWriter
    BY <1>0, <1>1 DEF OneReporterHolds, OneWriter
  <1>2. CASE OneWriter
    <2>1. PICK a \in Callers : scene.callers = {a} /\ scene.crashes = 0
      BY <1>0, <1>2, TheOneWriter
    <2>2. ReporterAlone(a) /\ (ReporterAlone(a)' => OneReporterHolds')
      BY <1>0, <1>2, <2>1 DEF OneReporterHolds
    <2>3. ASSUME NEW c \in Callers, FeedbackStep(c)
          PROVE  OneReporterHolds'
      <3>1. c = a
        BY <2>1, <2>3, OnlyReportersAct
      <3> QED
        BY <2>2, <2>3, <3>1, ReporterAloneHandling, ReporterAloneCorrecting, ReporterAloneFolding,
           ReporterAloneWriting, ReporterAloneEntering DEF FeedbackStep
    <2>4. ASSUME UNCHANGED <<reports, reportsTorn, rtodo, rjob, rprepared, rwriting, rrecord, filed,
                             corrections>>
          PROVE  OneReporterHolds'
      BY <2>2, <2>4, ReporterAloneIdling
    <2>5. ~LedgerStops
      BY <2>1 DEF LedgerStops, LedgerShape, RestTyped
    <2>6. CASE OnTheReports
      BY <2>3, <2>4, <2>6 DEF OnTheReports, CertifyCorrection
    <2>7. CASE OnTheLedger \/ TurnServed \/ UNCHANGED loopVars
      BY <2>4, <2>7 DEF OnTheLedger, TurnServed, loopVars, feedbackVars
    <2> QED  BY <2>5, <2>6, <2>7 DEF Next, Waits, ProcessEnds
  <1> QED  BY <1>1, <1>2

(* With one writer a report is folded once, whoever corrects it holds the  *)
(* row that is on file, and no corrected report is dismissed.              *)
THEOREM OneReporterAlwaysHolds == Spec => []OneReporterHolds
  <1>1. Init => OneReporterHolds
    <2> SUFFICES ASSUME FeedbackInit, NEW c \in Callers
                 PROVE  ReporterAlone(c)
      <3>1. Init => \A c \in scene.callers : c \in Callers
        BY ScenesAssumption DEF Init
      <3> QED  BY <3>1 DEF Init, OneReporterHolds
    <2>1. /\ reports = File!Empty /\ rprepared[c] = File!Empty /\ rwriting[c] = "no"
          /\ reportsTorn = FALSE /\ ReportStage(c) = "none" /\ filed = {}
          /\ \A r \in Reports : corrections[r] = 0
      BY DEF FeedbackInit, ReportStage, Stage
    <2>2. ReportsKept(c) /\ HoldsTheReport(c)
      BY <2>1 DEF ReportsKept, HoldsTheReport
    <2>3. CorrectedWasAnswered(reports) /\ CorrectedWasAnswered(rprepared[c])
      BY <2>1, NoReportsIsAFile DEF CorrectedWasAnswered
    <2>4. CorrectedOnce(c)
      BY <2>1 DEF CorrectedOnce
    <2> QED  BY <2>2, <2>3, <2>4 DEF ReporterAlone
  <1>2. LedgerShape /\ FeedbackShape /\ OneReporterHolds /\ [Next]_loopVars => OneReporterHolds'
    BY OneReporterStep
  <1> QED  BY <1>1, <1>2, LedgerShapeHolds, FeedbackShapeHolds, PTL DEF Spec

LEMMA AtMostOne ==
    ASSUME NEW S, NEW s \in Seq(S), s # << >> => Len(s) = 1
    PROVE  Len(s) <= 1
  <1>1. \A n \in {0, 1} : n <= 1
    OBVIOUS
  <1>2. Len(s) \in {0, 1}
    BY EmptySeq
  <1> QED  BY <1>1, <1>2, Zenon

LEMMA FoldedAtMostOnce ==
    ASSUME LedgerShape, FeedbackShape, OneWriterHolds, OneReporterHolds, OneWriter
    PROVE  /\ \A i \in Ids : Len(folded[i]) <= 1
           /\ \A r \in Reports : corrections[r] <= 1
           /\ \A r \in DOMAIN reports : reports[r].status = "dismissed" => corrections[r] = 0
           /\ \A i \in DOMAIN ledger : ledger[i].converted =>
                \E k \in DOMAIN folded[i] : folded[i][k].text = ledger[i].text
  <1>1. PICK a \in Callers : scene.callers = {a} /\ AloneHolds(a) /\ ReporterAlone(a)
    BY TheOneWriter DEF LedgerShape, OneWriterHolds, OneReporterHolds
  <1>2. ASSUME NEW i \in Ids
        PROVE  Len(folded[i]) <= 1
    <2>1. folded[i] # << >> => Len(folded[i]) = 1
      BY <1>1 DEF AloneHolds, FoldedOnce
    <2>2. folded[i] \in Seq(FoldEntries)
      BY DEF LedgerShape, RestTyped
    <2> QED  BY <2>1, <2>2, AtMostOne
  <1>3. ASSUME NEW r \in Reports
        PROVE  corrections[r] <= 1
    <2>1. corrections[r] \in Nat /\ (corrections[r] > 0 => corrections[r] = 1)
      BY <1>1 DEF ReporterAlone, CorrectedOnce, FeedbackShape
    <2> QED  BY <2>1
  <1>4. ASSUME NEW r \in DOMAIN reports, reports[r].status = "dismissed"
        PROVE  corrections[r] = 0
    <2>1. ~(corrections[r] > 0)
      BY <1>1, <1>4 DEF ReporterAlone, CorrectedWasAnswered
    <2>2. corrections[r] \in Nat
      BY ReportOnFile DEF FeedbackShape
    <2> QED  BY <2>1, <2>2
  <1>5. ASSUME NEW i \in DOMAIN ledger, ledger[i].converted
        PROVE  \E k \in DOMAIN folded[i] : folded[i][k].text = ledger[i].text
    <2>1. Len(folded[i]) = 1 /\ folded[i][1].text = ledger[i].text
      BY <1>1, <1>5 DEF AloneHolds, AsksWhatWasFolded
    <2>2. i \in Ids /\ folded[i] \in Seq(FoldEntries)
      <3>1. DOMAIN ledger \subseteq Ids
        BY FilesAre DEF LedgerShape, FileTyped
      <3> QED  BY <3>1 DEF LedgerShape, RestTyped
    <2>3. 1 \in DOMAIN folded[i]
      BY <2>1, <2>2
    <2> QED  BY <2>1, <2>3
  <1> QED  BY <1>2, <1>3, <1>4, <1>5

(* The lists claim a conversion only for a record whose fold was tried,    *)
(* and an abandoned question left nothing in the corpus, whatever threads  *)
(* interleave and wherever the process ends.  With one writer a record is  *)
(* folded once, a dismissed report never was, and a converted question     *)
(* still asks what its fact was folded under.                              *)
THEOREM ConvertedWasAlwaysFolded == Spec => []ConvertedWasFolded
  <1>1. LedgerShape /\ FeedbackShape /\ FoldsAreTrue /\ CorrectionsAreTrue /\ OneWriterHolds
          /\ OneReporterHolds => ConvertedWasFolded
    <2> SUFFICES ASSUME LedgerShape, FeedbackShape, FoldsAreTrue, CorrectionsAreTrue,
                        OneWriterHolds, OneReporterHolds
                 PROVE  ConvertedWasFolded
      OBVIOUS
    <2>1. ASSUME NEW i \in DOMAIN ledger
          PROVE  /\ ledger[i].converted => folded[i] # << >>
                 /\ ledger[i].status = "cancelled" => folded[i] = << >>
      BY DEF FoldsAreTrue, RowsAreTrue, IsTrue
    <2>2. \A r \in DOMAIN reports : reports[r].converted => corrections[r] > 0
      BY DEF CorrectionsAreTrue, ReportsAreTrue
    <2> QED  BY <2>1, <2>2, FoldedAtMostOnce DEF ConvertedWasFolded
  <1> QED
    BY <1>1, LedgerShapeHolds, FeedbackShapeHolds, FoldsAreAlwaysTrue, CorrectionsAreAlwaysTrue,
       OneWriterAlwaysHolds, OneReporterAlwaysHolds, PTL
-----------------------------------------------------------------------------

(* The turns and what was raised about them.                               *)
LEMMA WhatRecordingDoes ==
    ASSUME NEW rows \in Seq(TurnRows), NEW new \in TurnRows, NEW from \in {1, 2}, NEW kept,
           kept = SubSeq(Append(rows, new), from, Len(Append(rows, new)))
    PROVE  /\ kept \in Seq(TurnRows)
           /\ \A k \in DOMAIN kept :
                \/ from + k - 1 = Len(rows) + 1 /\ kept[k] = new
                \/ from + k - 1 \in DOMAIN rows /\ kept[k] = rows[from + k - 1]
  <1> DEFINE all == Append(rows, new)
  <1>1. /\ all \in Seq(TurnRows) /\ Len(all) = Len(rows) + 1 /\ Len(rows) \in Nat
        /\ \A i \in 1 .. Len(rows) : all[i] = rows[i]
        /\ all[Len(rows) + 1] = new
    BY AppendProperties
  <1>2. kept = SubSeq(all, from, Len(all))
    OBVIOUS
  <1> HIDE DEF all
  <1>3. \A i \in from .. Len(all) : i \in 1 .. Len(all) /\ all[i] \in TurnRows
    BY <1>1
  <1>4. /\ kept \in Seq(TurnRows)
        /\ Len(kept) = IF from <= Len(all) THEN Len(all) - from + 1 ELSE 0
        /\ \A i \in 1 .. Len(all) - from + 1 : kept[i] = all[from + i - 1]
    BY <1>1, <1>2, <1>3, SubSeqProperties
  <1>5. ASSUME NEW k \in DOMAIN kept
        PROVE  \/ from + k - 1 = Len(rows) + 1 /\ kept[k] = new
               \/ from + k - 1 \in DOMAIN rows /\ kept[k] = rows[from + k - 1]
    <2>1. k \in 1 .. Len(kept)
      BY <1>4, <1>5
    <2>2. k \in 1 .. Len(all) - from + 1 /\ kept[k] = all[from + k - 1]
      <3>1. k \in Nat /\ 1 <= k /\ k <= Len(kept) /\ Len(all) \in Nat
        BY <1>1, <1>4, <2>1
      <3>2. from <= Len(all)
        BY <1>4, <3>1
      <3>3. k <= Len(all) - from + 1
        BY <1>4, <3>1, <3>2
      <3>4. k \in 1 .. Len(all) - from + 1
        BY <3>1, <3>3
      <3> QED  BY <1>4, <3>4
    <2>3. from + k - 1 \in 1 .. Len(rows) + 1
      BY <1>1, <2>2
    <2>4. CASE from + k - 1 = Len(rows) + 1
      BY <1>1, <2>2, <2>4
    <2>5. CASE from + k - 1 \in 1 .. Len(rows)
      BY <1>1, <2>2, <2>5
    <2> QED  BY <1>1, <2>3, <2>4, <2>5
  <1> QED  BY <1>4, <1>5

LEMMA RecordingKeepsTurnsApart ==
    ASSUME TurnsStayApart, NEW t \in Conversations, record_node(t)
    PROVE  TurnsStayApart'
  <1>1. served \in Nat /\ served' = served + 1 /\ turns \in [Conversations -> Seq(TurnRows)]
    BY DEF TurnsStayApart, record_node
  <1>2. PICK new \in TurnRows, from \in {1, 2} :
          /\ new.id = served + 1
          /\ turns' = [turns EXCEPT ![t] =
                         SubSeq(Append(turns[t], new), from, Len(Append(turns[t], new)))]
    <2>1. PICK outcome \in {"refused", "answered"} :
            LET rows == Append(turns[t], [id |-> served + 1, outcome |-> outcome])
                from == IF Len(rows) > MaxTurnsRetained THEN 2 ELSE 1
            IN turns' = [turns EXCEPT ![t] = SubSeq(rows, from, Len(rows))]
      BY DEF record_node
    <2> DEFINE new == [id |-> served + 1, outcome |-> outcome]
               from == IF Len(Append(turns[t], new)) > MaxTurnsRetained THEN 2 ELSE 1
    <2>2. new \in TurnRows /\ new.id = served + 1 /\ from \in {1, 2}
      BY <1>1 DEF TurnRows
    <2> QED  BY <2>1, <2>2
  <1> DEFINE kept == SubSeq(Append(turns[t], new), from, Len(Append(turns[t], new)))
             was(u, k) == IF u = t THEN from + k - 1 ELSE k
  <1>3. /\ kept \in Seq(TurnRows)
        /\ \A k \in DOMAIN kept :
             \/ from + k - 1 = Len(turns[t]) + 1 /\ kept[k] = new
             \/ from + k - 1 \in DOMAIN turns[t] /\ kept[k] = turns[t][from + k - 1]
    BY <1>1, WhatRecordingDoes
  <1>4. turns' = [turns EXCEPT ![t] = kept]
    BY <1>2
  <1> HIDE DEF kept
  <1>5. /\ turns' \in [Conversations -> Seq(TurnRows)] /\ turns'[t] = kept
        /\ \A u \in Conversations \ {t} : turns'[u] = turns[u]
    BY <1>1, <1>3, <1>4
  <1>6. ASSUME NEW u \in Conversations, NEW k \in DOMAIN turns'[u]
        PROVE  \/ u = t /\ was(u, k) = Len(turns[t]) + 1 /\ turns'[u][k].id = served + 1
               \/ was(u, k) \in DOMAIN turns[u] /\ turns'[u][k] = turns[u][was(u, k)]
    BY <1>2, <1>3, <1>5, <1>6
  <1>7. ASSUME NEW u \in Conversations, NEW k \in DOMAIN turns[u]
        PROVE  turns[u][k].id \in Nat /\ turns[u][k].id <= served
    <2>1. turns[u] \in Seq(TurnRows)
      BY <1>1
    <2>2. turns[u][k] \in TurnRows
      BY <1>7, <2>1
    <2> QED  BY <1>7, <2>2 DEF TurnsStayApart, TurnRows
  <1>8. ASSUME NEW u \in Conversations, NEW k \in DOMAIN turns'[u]
        PROVE  turns'[u][k].id <= served + 1
    <2>1. CASE turns'[u][k].id = served + 1
      BY <1>1, <2>1
    <2>2. CASE was(u, k) \in DOMAIN turns[u] /\ turns'[u][k] = turns[u][was(u, k)]
      <3> HIDE DEF was
      <3> QED  BY <1>1, <1>7, <2>2
    <2> QED  BY <1>6, <1>8, <2>1, <2>2
  <1>9. ASSUME NEW u \in Conversations, NEW v \in Conversations, NEW j \in DOMAIN turns'[u],
               NEW k \in DOMAIN turns'[v], turns'[u][j].id = turns'[v][k].id
        PROVE  u = v /\ j = k
    <2>1. u = v /\ was(u, j) = was(v, k)
      <3>1. CASE u = t /\ was(u, j) = Len(turns[t]) + 1 /\ turns'[u][j].id = served + 1
        BY <1>1, <1>6, <1>7, <1>9, <3>1
      <3>2. CASE v = t /\ was(v, k) = Len(turns[t]) + 1 /\ turns'[v][k].id = served + 1
        BY <1>1, <1>6, <1>7, <1>9, <3>2
      <3>3. CASE /\ was(u, j) \in DOMAIN turns[u] /\ turns'[u][j] = turns[u][was(u, j)]
                 /\ was(v, k) \in DOMAIN turns[v] /\ turns'[v][k] = turns[v][was(v, k)]
        <4> HIDE DEF was
        <4> QED  BY <1>9, <3>3 DEF TurnsStayApart
      <3> QED  BY <1>6, <3>1, <3>2, <3>3
    <2>2. j \in Nat /\ k \in Nat
      BY <1>5
    <2> QED  BY <2>1, <2>2
  <1> QED  BY <1>1, <1>5, <1>8, <1>9 DEF TurnsStayApart

(* A turn's number is given once, and only the thread it was given to      *)
(* holds it, however many of a thread's turns have been dropped since.     *)
THEOREM TurnsAlwaysStayApart == Spec => []TurnsStayApart
  <1>1. Init => TurnsStayApart
    <2> SUFFICES ASSUME TurnLogInit, served = 0
                 PROVE  TurnsStayApart
      BY DEF Init
    <2>1. turns = [t \in Conversations |-> << >>] /\ << >> \in Seq(TurnRows)
      BY DEF TurnLogInit
    <2>2. turns \in [Conversations -> Seq(TurnRows)] /\ \A t \in Conversations : DOMAIN turns[t] = {}
      BY <2>1
    <2> QED  BY <2>2 DEF TurnsStayApart, TurnRows
  <1>2. TurnsStayApart /\ [Next]_loopVars => TurnsStayApart'
    <2> SUFFICES ASSUME TurnsStayApart, [Next]_loopVars
                 PROVE  TurnsStayApart'
      OBVIOUS
    <2>1. CASE TurnServed
      BY <2>1, RecordingKeepsTurnsApart DEF TurnServed
    <2>2. CASE UNCHANGED <<served, turns>>
      BY <2>2 DEF TurnsStayApart
    <2> QED
      BY <2>1, <2>2 DEF Next, OnTheLedger, OnTheReports, ProcessEnds, Waits, loopVars
  <1> QED  BY <1>1, <1>2, PTL DEF Spec

LEMMA UpdatedInTime ==
    ASSUME TurnsStayApart, NEW t \in Conversations
    PROVE  UpdatedAt(t) \in Nat /\ UpdatedAt(t) <= served
  <1>1. turns[t] \in Seq(TurnRows) /\ served \in Nat
    BY DEF TurnsStayApart
  <1>2. CASE turns[t] = << >>
    BY <1>1, <1>2 DEF UpdatedAt
  <1>3. CASE turns[t] # << >>
    <2>1. Len(turns[t]) \in DOMAIN turns[t] /\ turns[t][Len(turns[t])] \in TurnRows
      BY <1>1, <1>3, EmptySeq
    <2> QED  BY <1>3, <2>1 DEF UpdatedAt, TurnRows, TurnsStayApart
  <1> QED  BY <1>2, <1>3

(* One request reads every thread, if there are no more than it may.       *)
LEMMA EveryThreadIsRead ==
    ASSUME IsFiniteSet(Conversations), MaxThreads \in Nat, Cardinality(Conversations) <= MaxThreads,
           TurnsStayApart
    PROVE  _threads = Conversations
  <1> SUFFICES ASSUME NEW t \in Conversations
               PROVE  Cardinality(Newer(t)) < MaxThreads
    BY DEF _threads
  <1>1. ~(UpdatedAt(t) > UpdatedAt(t))
    BY UpdatedInTime
  <1>2. Newer(t) \in SUBSET (Conversations \ {t})
    BY <1>1 DEF Newer
  <1>3. /\ IsFiniteSet(Conversations \ {t})
        /\ Cardinality(Conversations \ {t}) = Cardinality(Conversations) - 1
    BY FS_RemoveElement
  <1>4. IsFiniteSet(Newer(t)) /\ Cardinality(Newer(t)) <= Cardinality(Conversations \ {t})
    BY <1>2, <1>3, FS_Subset
  <1>5. Cardinality(Conversations) \in Nat /\ Cardinality(Newer(t)) \in Nat
    BY <1>4, FS_CardinalityType
  <1> QED  BY <1>3, <1>4, <1>5

LEMMA ATurnHasOneThread ==
    ASSUME IsFiniteSet(Conversations), MaxThreads \in Nat, Cardinality(Conversations) <= MaxThreads,
           TurnsStayApart, NEW t \in Conversations, NEW e \in TurnsOf(t)
    PROVE  get_turn(e.id) = {t}
  <1>1. t \in _threads
    BY EveryThreadIsRead
  <1>2. ASSUME NEW u \in Conversations, NEW f \in TurnsOf(u), f.id = e.id
        PROVE  u = t
    <2>1. PICK j \in DOMAIN turns[u] : f = turns[u][j]
      BY <1>2 DEF TurnsOf
    <2>2. PICK k \in DOMAIN turns[t] : e = turns[t][k]
      BY DEF TurnsOf
    <2> QED  BY <1>2, <2>1, <2>2 DEF TurnsStayApart
  <1> QED  BY <1>1, <1>2 DEF get_turn, _threads

LEMMA RaisedAre ==
    ASSUME NEW u, NEW x
    PROVE  x \in Raised(u) <=>
             \/ x \in DOMAIN reports /\ get_turn(ReportedTurn[x]) = {u}
             \/ x \in DOMAIN ledger \cap Explained /\ get_turn(TurnOf[x]) = {u}
  <1> DEFINE onReport(r) == [id |-> r, certified |-> facts[QuestionOf[r]] = "certified"]
             onRefusal(i) == [id |-> i, certified |-> corpus[TextOf[i]] = "certified"]
  <1>1. raised_by_thread(u) =
          {onReport(r) : r \in {r \in DOMAIN reports : get_turn(ReportedTurn[r]) = {u}}}
          \cup {onRefusal(i) : i \in {i \in DOMAIN ledger \cap Explained : get_turn(TurnOf[i]) = {u}}}
    BY DEF raised_by_thread
  <1>2. \A y : onReport(y).id = y /\ onRefusal(y).id = y
    OBVIOUS
  <1> HIDE DEF onReport, onRefusal
  <1> QED  BY <1>1, <1>2 DEF Raised

LEMMA FoundUnderItsThread ==
    ASSUME IsFiniteSet(Conversations), MaxThreads \in Nat, Cardinality(Conversations) <= MaxThreads,
           TurnsStayApart, filed \subseteq DOMAIN reports, filed \subseteq Reports,
           logged \subseteq DOMAIN ledger, DOMAIN reports \subseteq Reports,
           NEW t \in Conversations, NEW e \in TurnsOf(t), NEW about,
           about = {r \in filed : ReportedTurn[r] = e.id}
                   \cup {i \in logged \cap Explained : TurnOf[i] = e.id}
    PROVE  /\ about \subseteq Raised(t)
           /\ \A u \in Conversations \ {t} : about \cap Raised(u) = {}
  <1>1. get_turn(e.id) = {t}
    BY ATurnHasOneThread
  <1>2. \A u, x : x \in Raised(u) <=>
          \/ x \in DOMAIN reports /\ get_turn(ReportedTurn[x]) = {u}
          \/ x \in DOMAIN ledger \cap Explained /\ get_turn(TurnOf[x]) = {u}
    BY RaisedAre
  <1>3. about \subseteq Raised(t)
    BY <1>1, <1>2
  <1>4. ASSUME NEW u \in Conversations \ {t}, NEW x \in about, x \in Raised(u)
        PROVE  FALSE
    <2>1. \/ x \in Reports /\ get_turn(ReportedTurn[x]) = {t}
          \/ x \in Explained /\ get_turn(TurnOf[x]) = {t}
      BY <1>1
    <2>2. \/ x \in Reports /\ get_turn(ReportedTurn[x]) = {u}
          \/ x \in Explained /\ get_turn(TurnOf[x]) = {u}
      BY <1>2, <1>4
    <2> QED  BY <2>1, <2>2, RaisedAssumption
  <1> QED  BY <1>3, <1>4

(* What was ever put on the admin's lists stays on them, and a reader      *)
(* finds it under the thread that raised it and no other while the thread  *)
(* keeps the turn, as long as one request reads all the threads there are. *)
THEOREM NothingRaisedIsEverLost ==
    ASSUME IsFiniteSet(Conversations), MaxThreads \in Nat, Cardinality(Conversations) <= MaxThreads
    PROVE  Spec => []NothingRaisedIsLost
  <1>1. LedgerShape /\ FeedbackShape /\ OneWriterHolds /\ OneReporterHolds /\ TurnsStayApart
          => NothingRaisedIsLost
    <2> SUFFICES ASSUME LedgerShape, FeedbackShape, OneWriterHolds, OneReporterHolds,
                        TurnsStayApart, OneWriter, Settled
                 PROVE  /\ ~torn /\ logged \subseteq DOMAIN ledger
                        /\ ~reportsTorn /\ filed \subseteq DOMAIN reports
                        /\ \A t \in Conversations : \A e \in TurnsOf(t) :
                             LET about == {r \in filed : ReportedTurn[r] = e.id}
                                          \cup {i \in logged \cap Explained : TurnOf[i] = e.id}
                             IN /\ about \subseteq Raised(t)
                                /\ \A u \in Conversations \ {t} : about \cap Raised(u) = {}
      BY DEF NothingRaisedIsLost
    <2>1. PICK a \in Callers : scene.callers = {a} /\ AloneHolds(a) /\ ReporterAlone(a)
      BY TheOneWriter DEF LedgerShape, OneWriterHolds, OneReporterHolds
    <2>2. ~torn /\ logged \subseteq DOMAIN ledger
      BY <2>1 DEF AloneHolds, FileKeeps, Settled
    <2>3. ~reportsTorn /\ filed \subseteq DOMAIN reports
      BY <2>1 DEF ReporterAlone, ReportsKept, Settled
    <2>4. filed \subseteq Reports /\ DOMAIN reports \subseteq Reports
      BY ReportFilesAre DEF FeedbackShape
    <2>5. ASSUME NEW t \in Conversations, NEW e \in TurnsOf(t)
          PROVE  LET about == {r \in filed : ReportedTurn[r] = e.id}
                              \cup {i \in logged \cap Explained : TurnOf[i] = e.id}
                 IN /\ about \subseteq Raised(t)
                    /\ \A u \in Conversations \ {t} : about \cap Raised(u) = {}
      <3> DEFINE about == {r \in filed : ReportedTurn[r] = e.id}
                          \cup {i \in logged \cap Explained : TurnOf[i] = e.id}
      <3>1. about = {r \in filed : ReportedTurn[r] = e.id}
                    \cup {i \in logged \cap Explained : TurnOf[i] = e.id}
        OBVIOUS
      <3> HIDE DEF about
      <3>2. about \subseteq Raised(t) /\ \A u \in Conversations \ {t} : about \cap Raised(u) = {}
        BY <2>2, <2>3, <2>4, <3>1, FoundUnderItsThread
      <3> QED  BY <3>2 DEF about
    <2> QED  BY <2>2, <2>3, <2>5
  <1> QED
    BY <1>1, LedgerShapeHolds, FeedbackShapeHolds, OneWriterAlwaysHolds, OneReporterAlwaysHolds,
       TurnsAlwaysStayApart, PTL
-----------------------------------------------------------------------------

(* The list a reader sees, with one writer: it changes as the file is      *)
(* opened for writing, by a step of the abstract list.                     *)
LEMMA ViewOfOne ==
    ASSUME NEW writes, NEW next, NEW file, NEW a \in Callers,
           \A d \in Callers \ {a} : writes[d] # "fills"
    PROVE  (IF \E c \in Callers : writes[c] = "fills"
              THEN next[CHOOSE c \in Callers : writes[c] = "fills"] ELSE file)
           = IF writes[a] = "fills" THEN next[a] ELSE file
  <1>1. CASE writes[a] = "fills"
    <2>1. (CHOOSE c \in Callers : writes[c] = "fills") = a
      BY <1>1
    <2> QED  BY <1>1, <2>1
  <1>2. CASE writes[a] # "fills"
    BY <1>2
  <1> QED  BY <1>1, <1>2

LEMMA TheViewNow ==
    ASSUME LedgerShape, NEW a \in Callers, scene.callers = {a}
    PROVE  View = IF writing[a] = "fills" THEN prepared[a] ELSE ledger
  <1>1. \A d \in Callers \ {a} : writing[d] # "fills"
    BY DEF LedgerShape, ThreadsHold, ThreadHolds, StageOf, Stage, WritingStages
  <1> QED  BY <1>1, ViewOfOne DEF View

LEMMA TheViewThen ==
    ASSUME LedgerShape', NEW a \in Callers, scene'.callers = {a}
    PROVE  View' = IF writing'[a] = "fills" THEN prepared'[a] ELSE ledger'
  <1>1. \A d \in Callers \ {a} : writing'[d] # "fills"
    BY DEF LedgerShape, ThreadsHold, ThreadHolds, StageOf, Stage, WritingStages
  <1> QED  BY <1>1, ViewOfOne DEF View

LEMMA WritingAside ==
    ASSUME LedgerShape, NEW c \in Callers, writing[c] = "no",
           \/ \E n \in {1, 2} : GoesOn(c, n)
           \/ Returns(c)
           \/ \E rows : Writes(c, rows)
    PROVE  ledger' = ledger /\ writing'[c] # "fills"
  BY DEF GoesOn, Returns, Writes, LedgerShape, FileTyped

LEMMA ReplacingAside ==
    ASSUME LedgerShape, NEW c \in Callers, writing[c] = "no", NEW id, NEW row, Replaces(c, id, row)
    PROVE  ledger' = ledger /\ writing'[c] # "fills"
  BY WritingAside DEF Replaces

(* Everything but the writing itself leaves the list as it is.             *)
LEMMA HandlersShowNothing ==
    ASSUME LedgerShape, NEW c \in Callers, LedgerStep(c), ~Opens(c), ~Fills(c)
    PROVE  /\ writing[c] # "fills" /\ writing'[c] # "fills" /\ ledger' = ledger
  <1>1. CASE EntersAny(c)
    BY <1>1, WhatEnteringDoes
  <1>2. CASE ReadRaises(c)
    BY <1>2, WritingAside DEF ReadRaises
  <1>3. CASE Log(c) \/ Exists(c) \/ Mine(c) \/ Warrant(c) \/ Followup(c) \/ Requote(c) \/ Restate(c)
    BY <1>3, WritingAside DEF Log, Exists, Mine, Warrant, Followup, Requote, Restate, Reads, At
  <1>4. CASE Close(c) \/ Answer(c) \/ Mark(c) \/ Cancel(c)
    BY <1>4, ReplacingAside DEF Close, Answer, Mark, Cancel, Reads, At
  <1>5. CASE Fold(c) \/ AppendIfNew(c) \/ Stored(c) \/ Check(c)
    BY <1>5, WritingAside DEF Fold, AppendIfNew, Stored, Check, Reads, At
  <1>6. CASE Scan(c)
    BY <1>6 DEF Scan, Reads, At
  <1>7. CASE Propose(c)
    BY <1>7, WritingAside DEF Propose, At
  <1> QED  BY <1>1, <1>2, <1>3, <1>4, <1>5, <1>6, <1>7 DEF LedgerStep, HandlerStep

LEMMA ListStepsAreTheQueues ==
    ASSUME ListStep(StatusIn(View), ConvertedIn(View), StatusIn(View'), ConvertedIn(View'))
    PROVE  [Queue!Next]_(Queue!vars)
  <1> DEFINE s == StatusIn(View)
             k == ConvertedIn(View)
             s2 == StatusIn(View')
             k2 == ConvertedIn(View')
  <1>1. CASE s2 = s /\ k2 = k
    BY <1>1 DEF Queue!vars, StatusIn, ConvertedIn
  <1>2. ASSUME NEW new \in SUBSET Ids, \A q \in new : s[q] = "none",
               s2 = [q \in Ids |-> IF q \in new THEN "open" ELSE s[q]], k2 = k
        PROVE  Queue!Raise(new)
    BY <1>2 DEF Queue!Raise, StatusIn, ConvertedIn
  <1>3. ASSUME NEW q \in Ids, s2 = [s EXCEPT ![q] = "answered"], k2 = k
        PROVE  Queue!Answer(q)
    BY <1>3 DEF Queue!Answer, Queue!Becomes, StatusIn, ConvertedIn
  <1>4. ASSUME NEW q \in Ids, s[q] # "none", s2 = [s EXCEPT ![q] = "deferred"], k2 = k
        PROVE  Queue!Defer(q)
    BY <1>4 DEF Queue!Defer, Queue!Becomes, StatusIn, ConvertedIn
  <1>5. ASSUME NEW q \in Ids, s[q] \in {"open", "deferred", "cancelled"},
               s2 = [s EXCEPT ![q] = "cancelled"], k2 = k
        PROVE  Queue!Cancel(q)
    BY <1>5 DEF Queue!Cancel, Queue!Becomes, StatusIn, ConvertedIn
  <1>6. ASSUME NEW q \in Ids, s[q] = "answered", q \notin k, k2 = k \cup {q}, s2 = s
        PROVE  Queue!Convert(q)
    BY <1>6 DEF Queue!Convert, StatusIn, ConvertedIn
  <1> QED  BY <1>1, <1>2, <1>3, <1>4, <1>5, <1>6 DEF Queue!Next, ListStep

LEMMA OneQueueStep ==
    ASSUME LedgerShape, LedgerShape', OneWriterHolds, [Next]_loopVars
    PROVE  [OneWriter => Queue!Next]_(Queue!vars)
  <1>0. scene' = scene /\ scene \in Scenes
    BY DEF Next, OnTheLedger, OnTheReports, TurnServed, ProcessEnds, Waits, loopVars, LedgerShape
  <1>1. CASE ~OneWriter
    BY <1>1
  <1>2. CASE OneWriter
    <2> SUFFICES Queue!Next \/ UNCHANGED Queue!vars
      OBVIOUS
    <2>1. PICK a \in Callers : scene.callers = {a} /\ scene.crashes = 0
      BY <1>0, <1>2, TheOneWriter
    <2>2. /\ View = IF writing[a] = "fills" THEN prepared[a] ELSE ledger
          /\ View' = IF writing'[a] = "fills" THEN prepared'[a] ELSE ledger'
      BY <1>0, <2>1, TheViewNow, TheViewThen
    <2>3. FileKeeps(a)
      BY <1>2, <2>1 DEF OneWriterHolds, AloneHolds
    <2>4. ASSUME View' = View
          PROVE  Queue!Next \/ UNCHANGED Queue!vars
      BY <2>4 DEF Queue!vars
    <2>5. CASE Opens(a)
      <3>1. /\ writing[a] = "opens" /\ writing'[a] = "fills" /\ prepared' = prepared
        BY <2>5, WhatOpeningDoes DEF LedgerShape, FileTyped
      <3>2. View = ledger /\ View' = prepared[a]
        BY <2>2, <3>1
      <3>3. ListStep(StatusIn(View), ConvertedIn(View), StatusIn(View'), ConvertedIn(View'))
        BY <2>3, <3>1, <3>2 DEF FileKeeps
      <3> QED  BY <3>3, ListStepsAreTheQueues
    <2>6. CASE Fills(a)
      <3>1. writing[a] = "fills" /\ writing'[a] = "no" /\ ledger' = prepared[a]
        BY <2>6, WhatFillingDoes DEF LedgerShape, FileTyped
      <3> QED  BY <2>2, <2>4, <3>1
    <2>7. ASSUME NEW c \in Callers, LedgerStep(c)
          PROVE  Queue!Next \/ UNCHANGED Queue!vars
      <3>1. c = a
        BY <2>1, <2>7, OnlyCallersAct
      <3>2. CASE ~Opens(a) /\ ~Fills(a)
        BY <2>2, <2>4, <2>7, <3>1, <3>2, HandlersShowNothing
      <3> QED  BY <2>5, <2>6, <3>1, <3>2
    <2>8. ASSUME UNCHANGED <<ledger, writing, prepared>>
          PROVE  Queue!Next \/ UNCHANGED Queue!vars
      BY <2>2, <2>4, <2>8
    <2>9. ~LedgerStops
      BY <2>1 DEF LedgerStops, LedgerShape, RestTyped
    <2>10. CASE OnTheLedger
      BY <2>7, <2>8, <2>10 DEF OnTheLedger, approve_draft, caller
    <2>11. CASE OnTheReports \/ TurnServed \/ UNCHANGED loopVars
      BY <2>8, <2>11 DEF OnTheReports, TurnServed, loopVars, ledgerVars, caller
    <2> QED  BY <2>9, <2>10, <2>11 DEF Next, Waits, ProcessEnds
  <1> QED  BY <1>1, <1>2

(* The file, written whole by handlers that read it more than once, is the *)
(* one list the abstract queue describes whenever one thread writes it: a  *)
(* question is raised once and never leaves, nobody cancels an answered    *)
(* one, and a conversion is claimed once, for an answered question.        *)
THEOREM TheFileIsOneQueue == Spec => ActsAsOneQueue
  <1>1. Init => (OneWriter => Queue!Init)
    <2> SUFFICES ASSUME LedgerInit
                 PROVE  Queue!Init
      BY DEF Init
    <2>1. View = Empty
      BY DEF LedgerInit, View
    <2>2. DOMAIN View = {}
      BY <2>1, EmptyIsAFile
    <2> QED  BY <2>2 DEF Queue!Init
  <1>2. LedgerShape /\ LedgerShape' /\ OneWriterHolds /\ [Next]_loopVars
          => [OneWriter => Queue!Next]_(Queue!vars)
    BY OneQueueStep
  <1> QED  BY <1>1, <1>2, LedgerShapeHolds, OneWriterAlwaysHolds, PTL DEF Spec, ActsAsOneQueue
-----------------------------------------------------------------------------
(* The funnel.  What a scan collects, and that a short list is all of it.  *)
LEMMA ALeastNumber ==
    ASSUME NEW T \in SUBSET Nat, T # {}
    PROVE  \E m \in T : \A n \in T : m <= n
  <1>1. PICK m \in T : \A n \in T : ~(<<n, m>> \in OpToRel(<, Nat))
    BY NatLessThanWellFounded, WFMin
  <1>2. \A n \in T : ~(n < m)
    BY <1>1 DEF OpToRel
  <1>3. \A n \in T : m <= n
    BY <1>2
  <1> QED  BY <1>3

LEMMA AHighest ==
    ASSUME NEW S, S # {}, NEW rank \in [S -> Nat], NEW bound \in Nat,
           \A x \in S : rank[x] <= bound
    PROVE  \E x \in S : \A y \in S : rank[y] <= rank[x]
  <1> DEFINE left == {bound - rank[x] : x \in S}
  <1>1. left \in SUBSET Nat /\ left # {}
    OBVIOUS
  <1>2. PICK m \in left : \A n \in left : m <= n
    <2> HIDE DEF left
    <2> QED  BY <1>1, ALeastNumber
  <1>3. PICK x \in S : m = bound - rank[x]
    OBVIOUS
  <1>4. ASSUME NEW y \in S
        PROVE  rank[y] <= rank[x]
    <2>1. bound - rank[x] <= bound - rank[y]
      BY <1>2, <1>3
    <2> QED  BY <2>1
  <1> QED  BY <1>4

Held(threads) == UNION {TurnsOf(t) : t \in threads}

LEMMA AThreadsTurns ==
    ASSUME TurnsStayApart, NEW t \in Conversations
    PROVE  /\ IsFiniteSet(TurnsOf(t)) /\ Cardinality(TurnsOf(t)) = Len(turns[t])
           /\ Len(turns[t]) \in Nat
           /\ \A e \in TurnsOf(t) : e \in TurnRows /\ e.id <= served
  <1>1. turns[t] \in Seq(TurnRows)
    BY DEF TurnsStayApart
  <1>2. /\ Len(turns[t]) \in Nat /\ DOMAIN turns[t] = 1 .. Len(turns[t])
        /\ \A i \in DOMAIN turns[t] : turns[t][i] \in TurnRows
    BY <1>1
  <1> DEFINE row == [i \in 1 .. Len(turns[t]) |-> turns[t][i]]
  <1>3. row \in Bijection(1 .. Len(turns[t]), TurnsOf(t))
    <2>1. row \in [1 .. Len(turns[t]) -> TurnsOf(t)]
      BY <1>2 DEF TurnsOf
    <2>2. ASSUME NEW i \in 1 .. Len(turns[t]), NEW j \in 1 .. Len(turns[t]), row[i] = row[j]
          PROVE  i = j
      <3>1. turns[t][i].id = turns[t][j].id
        BY <2>2
      <3> QED  BY <1>2, <3>1 DEF TurnsStayApart
    <2>3. \A e \in TurnsOf(t) : \E i \in 1 .. Len(turns[t]) : row[i] = e
      BY <1>2 DEF TurnsOf
    <2> QED  BY <2>1, <2>2, <2>3 DEF Bijection, Injection, IsInjective, Surjection
  <1>4. ExistsBijection(1 .. Len(turns[t]), TurnsOf(t))
    BY <1>3 DEF ExistsBijection
  <1>5. IsFiniteSet(1 .. Len(turns[t])) /\ Cardinality(1 .. Len(turns[t])) = Len(turns[t])
    BY <1>2, FS_Interval
  <1>6. IsFiniteSet(TurnsOf(t)) /\ Cardinality(TurnsOf(t)) = Len(turns[t])
    BY <1>4, <1>5, FS_Bijection
  <1>7. \A e \in TurnsOf(t) : e \in TurnRows /\ e.id <= served
    BY <1>2 DEF TurnsOf, TurnsStayApart
  <1> QED  BY <1>2, <1>6, <1>7

LEMMA HeldBySome ==
    ASSUME TurnsStayApart, NEW threads \in SUBSET Conversations, IsFiniteSet(threads)
    PROVE  IsFiniteSet(Held(threads)) /\ Cardinality(Held(threads)) \in Nat
  <1> DEFINE held == {TurnsOf(t) : t \in threads}
  <1>1. IsFiniteSet(held)
    <2> DEFINE turn == [t \in threads |-> TurnsOf(t)]
    <2>1. turn \in Surjection(threads, held)
      BY DEF Surjection
    <2> HIDE DEF held, turn
    <2> QED  BY <2>1, FS_Surjection
  <1>2. \A T \in held : IsFiniteSet(T)
    BY AThreadsTurns
  <1>3. IsFiniteSet(UNION held)
    <2> HIDE DEF held
    <2> QED  BY <1>1, <1>2, FS_UNION
  <1> QED  BY <1>3, FS_CardinalityType DEF Held

LEMMA HeldByOneMore ==
    ASSUME TurnsStayApart, NEW threads \in SUBSET Conversations, IsFiniteSet(threads),
           NEW t \in threads
    PROVE  Cardinality(Held(threads)) = Len(turns[t]) + Cardinality(Held(threads \ {t}))
  <1>1. /\ IsFiniteSet(TurnsOf(t)) /\ Cardinality(TurnsOf(t)) = Len(turns[t])
        /\ Len(turns[t]) \in Nat
    BY AThreadsTurns
  <1>2. IsFiniteSet(threads \ {t}) /\ threads \ {t} \in SUBSET Conversations
    BY FS_RemoveElement
  <1>3. IsFiniteSet(Held(threads \ {t})) /\ Cardinality(Held(threads \ {t})) \in Nat
    BY <1>2, HeldBySome
  <1>4. Held(threads) = TurnsOf(t) \cup Held(threads \ {t})
    BY DEF Held
  <1>5. TurnsOf(t) \cap Held(threads \ {t}) = {}
    <2> SUFFICES ASSUME NEW e \in TurnsOf(t), NEW u \in threads \ {t}, e \in TurnsOf(u)
                 PROVE  FALSE
      BY DEF Held
    <2>1. PICK j \in DOMAIN turns[t] : e = turns[t][j]
      BY DEF TurnsOf
    <2>2. PICK k \in DOMAIN turns[u] : e = turns[u][k]
      BY DEF TurnsOf
    <2> QED  BY <2>1, <2>2 DEF TurnsStayApart
  <1>6. Cardinality(TurnsOf(t) \cup Held(threads \ {t}))
          = Cardinality(TurnsOf(t)) + Cardinality(Held(threads \ {t}))
              - Cardinality(TurnsOf(t) \cap Held(threads \ {t}))
    BY <1>1, <1>3, FS_Union
  <1>7. Cardinality(TurnsOf(t) \cap Held(threads \ {t})) = 0
    BY <1>5, FS_EmptySet
  <1> QED  BY <1>1, <1>3, <1>4, <1>6, <1>7

(* The function that the sum over a set of threads is a value of.          *)
SumsTurns(sum, threads) ==
    sum = [some \in SUBSET threads |->
             IF some = {} THEN 0
             ELSE Len(turns[CHOOSE v \in some : TRUE]) + sum[some \ {CHOOSE v \in some : TRUE}]]

(* A sum over threads is the number of the turns they hold.                *)
LEMMA SumOfTurns ==
    ASSUME TurnsStayApart, NEW threads \in SUBSET Conversations, IsFiniteSet(threads)
    PROVE  MapThenSumSet(LAMBDA v : Len(turns[v]), threads) = Cardinality(Held(threads))
  <1> DEFINE sizes == [some \in SUBSET threads |-> Cardinality(Held(some))]
             sum == CHOOSE f : SumsTurns(f, threads)
             first(some) == CHOOSE v \in some : TRUE
  <1>1. MapThenSumSet(LAMBDA v : Len(turns[v]), threads) = sum[threads]
    BY DEF MapThenSumSet, MapThenFoldSet, SumsTurns
  <1>2. \A some \in SUBSET threads : IsFiniteSet(some) /\ some \in SUBSET Conversations
    BY FS_Subset
  <1>3. Cardinality(Held({})) = 0
    <2>1. Held({}) = {}
      BY DEF Held
    <2> QED  BY <2>1, FS_EmptySet
  <1>4. ASSUME NEW some \in SUBSET threads, some # {}
        PROVE  /\ first(some) \in some /\ some \ {first(some)} \in SUBSET threads
               /\ sizes[some] = Len(turns[first(some)]) + sizes[some \ {first(some)}]
    <2>1. first(some) \in some
      BY <1>4
    <2> HIDE DEF first
    <2>2. Cardinality(Held(some)) = Len(turns[first(some)]) + Cardinality(Held(some \ {first(some)}))
      BY <1>2, <2>1, HeldByOneMore
    <2> QED  BY <2>1, <2>2
  <1>5. SumsTurns(sizes, threads)
    <2>1. \A some \in SUBSET threads :
            sizes[some] = IF some = {} THEN 0
                          ELSE Len(turns[first(some)]) + sizes[some \ {first(some)}]
      <3> SUFFICES ASSUME NEW some \in SUBSET threads
                   PROVE  sizes[some] = IF some = {} THEN 0
                                ELSE Len(turns[first(some)]) + sizes[some \ {first(some)}]
        OBVIOUS
      <3>1. CASE some = {}
        BY <1>3, <3>1
      <3>2. CASE some # {}
        BY <1>4, <3>2
      <3> QED  BY <3>1, <3>2
    <2>2. sizes = [some \in SUBSET threads |-> sizes[some]]
      OBVIOUS
    <2> HIDE DEF sizes
    <2> QED  BY <2>1, <2>2 DEF SumsTurns
  <1>6. SumsTurns(sum, threads)
    <2> HIDE DEF sizes
    <2> QED  BY <1>5
  <1>7. \A some \in SUBSET threads :
          sum[some] = IF some = {} THEN 0
                      ELSE Len(turns[first(some)]) + sum[some \ {first(some)}]
    <2> HIDE DEF sum
    <2> QED  BY <1>6 DEF SumsTurns
  <1> DEFINE odd == {some \in SUBSET threads : sum[some] # sizes[some]}
             numbers == {Cardinality(some) : some \in odd}
  <1>8. ASSUME odd # {}
        PROVE  FALSE
    <2>1. numbers \in SUBSET Nat /\ numbers # {}
      BY <1>2, <1>8, FS_CardinalityType
    <2>2. PICK m \in numbers : \A n \in numbers : m <= n
      <3> HIDE DEF numbers
      <3> QED  BY <2>1, ALeastNumber
    <2>3. PICK some \in odd : m = Cardinality(some)
      OBVIOUS
    <2> HIDE DEF sum, sizes, first
    <2>4. some # {}
      <3>1. sum[{}] = 0
        BY <1>7
      <3>2. sizes[{}] = 0
        BY <1>3 DEF sizes
      <3> QED  BY <2>3, <3>1, <3>2
    <2>5. /\ first(some) \in some /\ some \ {first(some)} \in SUBSET threads
          /\ sizes[some] = Len(turns[first(some)]) + sizes[some \ {first(some)}]
      BY <1>4, <2>3, <2>4
    <2>6. sum[some] = Len(turns[first(some)]) + sum[some \ {first(some)}]
      BY <1>7, <2>3, <2>4
    <2>7. some \ {first(some)} \in odd
      BY <2>3, <2>5, <2>6
    <2>8. Cardinality(some \ {first(some)}) = Cardinality(some) - 1 /\ Cardinality(some) \in Nat
      BY <1>2, <2>3, <2>5, FS_RemoveElement, FS_CardinalityType
    <2>9. Cardinality(some) <= Cardinality(some \ {first(some)})
      BY <2>2, <2>3, <2>7
    <2> QED  BY <2>8, <2>9
  <1>9. sum[threads] = sizes[threads]
    <2> HIDE DEF sum, sizes
    <2> QED  BY <1>8
  <1> QED  BY <1>1, <1>9

(* A scan that has collected fewer turns than it was asked for passed no   *)
(* thread over: the newest one passed over would have had that many newer. *)
LEMMA AShortScanIsWhole ==
    ASSUME IsFiniteSet(Conversations), MaxThreads \in Nat, Cardinality(Conversations) <= MaxThreads,
           TurnsStayApart, NEW limit \in Nat, Cardinality(_collect(limit)) < limit
    PROVE  _collect(limit) = Held(Conversations)
  <1> DEFINE collected == {u \in Conversations : Cardinality(Held(Newer(u))) < limit}
             missed == Conversations \ collected
             updated == [u \in missed |-> UpdatedAt(u)]
  <1>1. \A u \in Conversations : Newer(u) \in SUBSET Conversations /\ IsFiniteSet(Newer(u))
    <2>1. \A u \in Conversations : Newer(u) \in SUBSET Conversations
      BY DEF Newer
    <2> QED  BY <2>1, FS_Subset
  <1>2. _threads = Conversations
    BY EveryThreadIsRead
  <1>3. \A u \in Conversations :
          MapThenSumSet(LAMBDA v : Len(turns[v]), Newer(u)) = Cardinality(Held(Newer(u)))
    BY <1>1, SumOfTurns
  <1>4. _collect(limit) = Held(collected)
    BY <1>2, <1>3 DEF _collect, Held
  <1>5. ASSUME missed # {}
        PROVE  FALSE
    <2>1. updated \in [missed -> Nat] /\ \A u \in missed : updated[u] <= served
      BY UpdatedInTime
    <2>2. PICK u \in missed : \A v \in missed : updated[v] <= updated[u]
      <3> HIDE DEF missed, updated
      <3> QED  BY <1>5, <2>1, AHighest DEF TurnsStayApart
    <2>3. \A v \in Newer(u) : v \in collected
      BY <2>2, UpdatedInTime DEF Newer
    <2>4. Held(Newer(u)) \in SUBSET Held(collected)
      BY <2>3 DEF Held
    <2>5. collected \in SUBSET Conversations /\ IsFiniteSet(collected)
      <3>1. collected \in SUBSET Conversations
        OBVIOUS
      <3> QED  BY <3>1, FS_Subset
    <2> HIDE DEF collected
    <2>6. /\ IsFiniteSet(Held(collected)) /\ Cardinality(Held(collected)) \in Nat
          /\ Cardinality(Held(Newer(u))) \in Nat
      BY <1>1, <2>5, HeldBySome
    <2>7. Cardinality(Held(Newer(u))) <= Cardinality(Held(collected))
      BY <2>4, <2>6, FS_Subset
    <2>8. ~(Cardinality(Held(Newer(u))) < limit)
      BY DEF collected
    <2> QED  BY <1>4, <2>6, <2>7, <2>8
  <1> QED  BY <1>4, <1>5

(* A list shorter than it was asked for is all that was collected.         *)
LEMMA AShortListIsAll ==
    ASSUME NEW rows, IsFiniteSet(rows), NEW bound \in Nat,
           \A e \in rows : e.id \in Nat /\ e.id <= bound,
           NEW limit \in Nat, NEW listed,
           listed = {e \in rows : Cardinality({f \in rows : f.id > e.id}) < limit},
           Cardinality(listed) < limit
    PROVE  listed = rows
  <1> DEFINE missed == rows \ listed
             number == [e \in missed |-> e.id]
  <1>1. ASSUME missed # {}
        PROVE  FALSE
    <2>1. number \in [missed -> Nat] /\ \A e \in missed : number[e] <= bound
      OBVIOUS
    <2>2. PICK e \in missed : \A f \in missed : number[f] <= number[e]
      <3> HIDE DEF missed, number
      <3> QED  BY <1>1, <2>1, AHighest
    <2> DEFINE above == {f \in rows : f.id > e.id}
    <2>3. above \in SUBSET listed
      <3> SUFFICES ASSUME NEW f \in rows, f.id > e.id, f \notin listed
                   PROVE  FALSE
        OBVIOUS
      <3>1. f \in missed /\ f.id <= e.id
        BY <2>2
      <3> QED  BY <3>1
    <2>4. ~(Cardinality(above) < limit)
      OBVIOUS
    <2> HIDE DEF above
    <2>5. IsFiniteSet(listed)
      BY FS_Subset
    <2>6. Cardinality(above) <= Cardinality(listed) /\ IsFiniteSet(above)
      BY <2>3, <2>5, FS_Subset
    <2>7. Cardinality(above) \in Nat /\ Cardinality(listed) \in Nat
      BY <2>5, <2>6, FS_CardinalityType
    <2> QED  BY <2>4, <2>6, <2>7
  <1> QED  BY <1>1

(* What a scan counts, unless it says it was cut short.                    *)
LEMMA ACompleteScanCountsAll ==
    ASSUME IsFiniteSet(Conversations), MaxThreads \in Nat, Cardinality(Conversations) <= MaxThreads,
           TurnsStayApart, NEW limit \in Nat, ~refusal_counts(limit).truncated
    PROVE  list_turns(limit) = Held(Conversations)
  <1> DEFINE rows == _collect(limit)
             listed == list_turns(limit)
  <1>1. IsFiniteSet(Held(Conversations)) /\ rows \in SUBSET Held(Conversations)
    <2>1. IsFiniteSet(Held(Conversations))
      BY HeldBySome
    <2> QED  BY <2>1 DEF _collect, Held, _threads
  <1>2. IsFiniteSet(rows)
    BY <1>1, FS_Subset
  <1>3. \A e \in rows : e.id \in Nat /\ e.id <= served
    BY <1>1, AThreadsTurns DEF Held, TurnRows
  <1>4. listed = {e \in rows : Cardinality({f \in rows : f.id > e.id}) < limit}
    BY DEF list_turns
  <1>5. IsFiniteSet(listed)
    BY <1>2, <1>4, FS_Subset
  <1>6. Cardinality(listed) < limit
    <2>1. ~(Cardinality(listed) >= limit)
      BY DEF refusal_counts
    <2> HIDE DEF listed
    <2> QED  BY <1>5, <2>1, FS_CardinalityType
  <1>7. listed = rows
    <2> HIDE DEF listed, rows
    <2> QED  BY <1>2, <1>3, <1>4, <1>6, AShortListIsAll DEF TurnsStayApart
  <1> QED  BY <1>6, <1>7, AShortScanIsWhole

-----------------------------------------------------------------------------
(* The facts the funnel counts as approved were raised by a reader: only a  *)
(* fold, a mined answer and an approval change the facts.                  *)
LEMMA FactsChangeByFolds ==
    ASSUME LedgerShape, NEW c \in Callers, LedgerStep(c), ~Fold(c), ~Mine(c)
    PROVE  UNCHANGED <<corpus, folded>>
  <1>1. CASE Opens(c) \/ Fills(c) \/ ReadRaises(c) \/ EntersAny(c)
    BY <1>1, WhatOpeningDoes, WhatFillingDoes, WhatRaisingDoes, WhatEnteringDoes DEF Quiet
  <1>2. CASE \/ Log(c) \/ Exists(c) \/ Close(c) \/ Warrant(c) \/ Answer(c)
             \/ Followup(c) \/ Requote(c) \/ Restate(c)
    BY <1>2 DEF Log, Exists, Close, Warrant, Answer, Followup, Requote, Restate, Others, history
  <1>3. CASE \/ Mark(c) \/ AppendIfNew(c) \/ Stored(c) \/ Check(c) \/ Cancel(c)
             \/ Scan(c) \/ Propose(c)
    BY <1>3 DEF Mark, AppendIfNew, Stored, Check, Cancel, Scan, Propose, Others, history
  <1> QED  BY <1>1, <1>2, <1>3 DEF LedgerStep, HandlerStep

LEMMA FoldedStaysFolded ==
    ASSUME ExplainedFactsWereFolded, UNCHANGED folded,
           \A i \in Explained : corpus'[TextOf[i]] # "none" => corpus[TextOf[i]] # "none"
    PROVE  ExplainedFactsWereFolded'
  BY DEF ExplainedFactsWereFolded

LEMMA LedgerStepsRaise ==
    ASSUME ExplanationsWordTheirOwn, LedgerShape, ExplainedFactsWereFolded,
           NEW c \in Callers, WarrantFor(c), LedgerStep(c)
    PROVE  ExplainedFactsWereFolded'
  <1>0. corpus \in [Texts -> {"none", "draft", "proposed", "certified"}]
        /\ \A i \in Ids : TextOf[i] \in Texts
    BY DEF LedgerShape, RestTyped, Texts
  <1>1. CASE ~Fold(c) /\ ~Mine(c)
    BY <1>1, FactsChangeByFolds, FoldedStaysFolded
  <1>2. CASE Mine(c)
    <2>1. /\ Id(c) \in Live /\ UNCHANGED folded
          /\ corpus' = corpus \/ corpus' = [corpus EXCEPT ![TextOf[Id(c)]] = "proposed"]
      BY <1>2, WhatMineDoes DEF Folds
    <2>2. Id(c) \in Ids \ Explained
      BY <2>1, IdsAssumption DEF Ids
    <2>3. \A i \in Explained : TextOf[i] # TextOf[Id(c)] /\ TextOf[i] \in DOMAIN corpus
      BY <1>0, <2>2 DEF ExplanationsWordTheirOwn, Ids
    <2>4. \A i \in Explained : corpus'[TextOf[i]] = corpus[TextOf[i]]
      BY <2>1, <2>3
    <2> QED  BY <2>1, <2>4, FoldedStaysFolded
  <1>3. CASE Fold(c)
    <2>1. AtStage(c, "fold") /\ Id(c) \in Ids
      BY <1>3, WhatFoldDoes
    <2>2. CASE UNCHANGED <<corpus, folded>>
      BY <2>2, FoldedStaysFolded
    <2>3. ASSUME NEW row \in record[c], row \in Rows,
                 corpus' = corpus \/ corpus' = [corpus EXCEPT ![row.text] = Warranted(row)],
                 folded' = [folded EXCEPT ![Id(c)] = Append(folded[Id(c)], FoldEntry(row))]
          PROVE  ExplainedFactsWereFolded'
      <3>1. row.text \in Wordings(Id(c))
        BY <2>1 DEF WarrantFor, AnswersWait, Carries, AtStage
      <3>2. folded'[Id(c)] # << >> /\ \A j \in Ids : folded[j] # << >> => folded'[j] # << >>
        BY <2>1, <2>3, FoldIsAdded
      <3>3. ASSUME NEW i \in Explained, corpus'[TextOf[i]] # "none"
            PROVE  \E j \in Explained : TextOf[j] = TextOf[i] /\ folded'[j] # << >>
        <4>1. CASE corpus[TextOf[i]] # "none"
          BY <3>2, <4>1 DEF ExplainedFactsWereFolded, Ids
        <4>2. CASE corpus'[TextOf[i]] # corpus[TextOf[i]]
          <5>1. row.text = TextOf[i]
            BY <1>0, <2>3, <4>2 DEF Ids
          <5>2. Id(c) \in Explained
            BY <2>1, <3>1, <5>1 DEF ExplanationsWordTheirOwn, Wordings
          <5>3. row.text = TextOf[Id(c)]
            BY <3>1, <5>2, IdsAssumption, LedgerAssumption DEF Wordings
          <5> QED  BY <3>2, <5>1, <5>2, <5>3
        <4> QED  BY <3>3, <4>1, <4>2
      <3> QED  BY <3>3 DEF ExplainedFactsWereFolded
    <2> QED  BY <1>3, <2>2, <2>3, WhatFoldDoes
  <1> QED  BY <1>1, <1>2, <1>3

LEMMA FiledStaysFiled ==
    ASSUME CorrectedFactsWereFiled, filed \subseteq filed', DOMAIN reports' \subseteq filed',
           \A r \in Reports : facts'[QuestionOf[r]] # "none" => facts[QuestionOf[r]] # "none"
    PROVE  CorrectedFactsWereFiled'
  BY DEF CorrectedFactsWereFiled

LEMMA ReportStepsFile ==
    ASSUME FeedbackShape, CorrectedFactsWereFiled, NEW c \in Callers, ReporterAlone(c),
           FeedbackStep(c)
    PROVE  CorrectedFactsWereFiled'
  <1>0. DOMAIN reports \subseteq filed
    BY DEF CorrectedFactsWereFiled
  <1>1. CASE FeedbackEnters(c)
    BY <1>0, <1>1, WhatReportEnteringDoes, FiledStaysFiled
  <1>2. CASE OpensReports(c)
    BY <1>2, WhatReportOpeningDoes, NoReportsIsAFile, FiledStaysFiled DEF RestOfReports
  <1>3. CASE FillsReports(c)
    BY <1>3, WhatReportFillingDoes, FiledStaysFiled
  <1>4. CASE ReportReadRaises(c)
    BY <1>0, <1>4, FiledStaysFiled DEF ReportReadRaises, File!Returns, Kept
  <1>5. CASE file_report(c) \/ answer_report(c) \/ MarkReport(c)
    BY <1>0, <1>5, FiledStaysFiled
       DEF file_report, answer_report, MarkReport, File!Returns, File!Writes, File!Replaces, Kept
  <1>6. CASE CheckDismiss(c) \/ Dismiss(c)
    BY <1>0, <1>6, FiledStaysFiled
       DEF CheckDismiss, Dismiss, File!Returns, File!Writes, File!Replaces, File!GoesOn, Kept
  <1>7. CASE fold_report_into_corpus(c)
    <2>1. /\ ReporterAt(c, "fold") /\ UNCHANGED <<reports, filed>>
          /\ facts' \in {facts, [facts EXCEPT ![QuestionOf[rjob[c]]] = "proposed"]}
      BY <1>7, WhatCorrectionFoldsDo DEF ReporterLeaves, ReporterGoesTo
    <2>2. rjob[c] \in filed
      BY <1>0, <2>1 DEF ReporterAlone, HoldsTheReport, UpcomingReports, ReporterAt
    <2>3. facts \in [Questions -> {"none", "proposed", "certified"}]
          /\ \A r \in Reports : QuestionOf[r] \in Questions
      BY DEF FeedbackShape, Questions
    <2>4. ASSUME NEW r \in Reports, facts'[QuestionOf[r]] # "none"
          PROVE  \E p \in filed : QuestionOf[p] = QuestionOf[r]
      <3>1. CASE facts[QuestionOf[r]] # "none"
        BY <3>1 DEF CorrectedFactsWereFiled
      <3>2. CASE QuestionOf[r] = QuestionOf[rjob[c]]
        BY <2>2, <3>2
      <3> QED  BY <2>1, <2>3, <2>4, <3>1, <3>2
    <2> QED  BY <1>0, <2>1, <2>4 DEF CorrectedFactsWereFiled
  <1> QED  BY <1>1, <1>2, <1>3, <1>4, <1>5, <1>6, <1>7 DEF FeedbackStep

LEMMA FactsStayRaised ==
    ASSUME ExplanationsWordTheirOwn, LedgerShape, FeedbackShape, OneReporterHolds, WarrantHolds,
           FactsWereRaised, [Next]_loopVars
    PROVE  FactsWereRaised'
  <1>0. scene' = scene /\ scene \in Scenes
    BY DEF Next, OnTheLedger, OnTheReports, TurnServed, ProcessEnds, Waits, loopVars, LedgerShape
  <1>1. CASE ~OneWriter
    BY <1>0, <1>1 DEF FactsWereRaised, OneWriter
  <1>2. CASE OneWriter
    <2>1. PICK a \in Callers : scene.callers = {a} /\ scene.crashes = 0
      BY <1>0, <1>2, TheOneWriter
    <2>2. /\ ReporterAlone(a) /\ WarrantFor(a)
          /\ ExplainedFactsWereFolded /\ CorrectedFactsWereFiled
          /\ ExplainedFactsWereFolded' /\ CorrectedFactsWereFiled' => FactsWereRaised'
      BY <1>0, <1>2, <2>1 DEF OneReporterHolds, WarrantHolds, FactsWereRaised
    <2>3. UNCHANGED ledgerVars => ExplainedFactsWereFolded'
      BY <2>2, FoldedStaysFolded DEF ledgerVars, history
    <2>4. UNCHANGED feedbackVars => CorrectedFactsWereFiled'
      BY <2>2, FiledStaysFiled DEF feedbackVars, CorrectedFactsWereFiled
    <2>5. CASE OnTheLedger
      <3>1. ASSUME NEW c \in Callers, LedgerStep(c)
            PROVE  ExplainedFactsWereFolded'
        BY <2>1, <2>2, <3>1, OnlyCallersAct, LedgerStepsRaise
      <3>2. ASSUME NEW t \in Texts, approve_draft(t)
            PROVE  ExplainedFactsWereFolded'
        <4>1. \A i \in Explained : corpus'[TextOf[i]] # "none" => corpus[TextOf[i]] # "none"
          BY <3>2 DEF approve_draft, LedgerShape, RestTyped
        <4> QED  BY <2>2, <3>2, <4>1, FoldedStaysFolded DEF approve_draft, history
      <3> QED  BY <2>2, <2>4, <2>5, <3>1, <3>2 DEF OnTheLedger
    <2>6. CASE OnTheReports
      <3>1. ASSUME NEW c \in Callers, FeedbackStep(c)
            PROVE  CorrectedFactsWereFiled'
        BY <2>1, <2>2, <3>1, OnlyReportersAct, ReportStepsFile
      <3>2. ASSUME NEW q \in Questions, CertifyCorrection(q)
            PROVE  CorrectedFactsWereFiled'
        <4>1. \A r \in Reports : facts'[QuestionOf[r]] # "none" => facts[QuestionOf[r]] # "none"
          BY <3>2 DEF CertifyCorrection, FeedbackShape
        <4> QED
          BY <2>2, <3>2, <4>1, FiledStaysFiled DEF CertifyCorrection, CorrectedFactsWereFiled
      <3> QED  BY <2>2, <2>3, <2>6, <3>1, <3>2 DEF OnTheReports
    <2>7. CASE TurnServed \/ UNCHANGED loopVars
      BY <2>2, <2>3, <2>4, <2>7 DEF TurnServed, loopVars
    <2>8. ~LedgerStops
      BY <2>1 DEF LedgerStops, LedgerShape, RestTyped
    <2> QED  BY <2>5, <2>6, <2>7, <2>8 DEF Next, Waits, ProcessEnds
  <1> QED  BY <1>1, <1>2

(* What is counted as approved has an entrance, each fact one of its own.  *)
LEMMA NoMoreThanNamed ==
    ASSUME NEW S, IsFiniteSet(S), NEW f, NEW T, \A x \in T : \E y \in S : f[y] = x
    PROVE  Cardinality(T) <= Cardinality(S) /\ IsFiniteSet(T)
  <1> DEFINE g == [y \in S |-> f[y]]
             named == {f[y] : y \in S}
  <1>1. g \in Surjection(S, named)
    BY DEF Surjection
  <1>2. IsFiniteSet(named) /\ Cardinality(named) <= Cardinality(S)
    <2> HIDE DEF g, named
    <2> QED  BY <1>1, FS_Surjection
  <1>3. T \in SUBSET named
    OBVIOUS
  <1> HIDE DEF named
  <1>4. IsFiniteSet(T) /\ Cardinality(T) <= Cardinality(named)
    BY <1>2, <1>3, FS_Subset
  <1> QED  BY <1>2, <1>4, FS_CardinalityType

LEMMA TheFunnelNarrows ==
    ASSUME IsFiniteSet(Explained), IsFiniteSet(Reports), LedgerShape, FeedbackShape,
           NEW a \in Callers, AloneHolds(a), ReporterAlone(a), Settled,
           ExplainedFactsWereFolded, CorrectedFactsWereFiled
    PROVE  approved_rules <= entrances
  <1> DEFINE raised == DOMAIN ledger \cap Explained
             explained == {TextOf[i] : i \in Explained} \cap {t \in Texts : corpus[t] = "certified"}
             corrected == {q \in Questions : facts[q] = "certified"}
  <1>1. ASSUME NEW j \in Explained, folded[j] # << >>
        PROVE  j \in raised
    <2>1. /\ j \in DOMAIN Upcoming(a)
          /\ Upcoming(a)[j].converted \/ writing[a] = "no"
      BY <1>1 DEF AloneHolds, FoldedOnce, Ids
    <2>2. CASE writing[a] = "no"
      BY <2>1, <2>2 DEF Upcoming
    <2>3. CASE writing[a] # "no"
      <3>1. writing[a] = "opens" /\ j \in ConvertedIn(prepared[a])
        BY <2>1, <2>3 DEF Upcoming, ConvertedIn, Settled, LedgerShape, FileTyped
      <3>2. ListStep(StatusIn(ledger), ConvertedIn(ledger),
                     StatusIn(prepared[a]), ConvertedIn(prepared[a]))
        BY <3>1 DEF AloneHolds, FileKeeps
      <3>3. j \in ConvertedIn(ledger) \/ StatusIn(ledger)[j] = "answered"
        BY <3>1, <3>2 DEF ListStep
      <3> QED  BY <3>3 DEF ConvertedIn, StatusIn, Ids
    <2> QED  BY <2>2, <2>3
  <1>2. \A t \in explained : \E i \in raised : TextOf[i] = t
    BY <1>1 DEF ExplainedFactsWereFolded
  <1>3. \A q \in corrected : \E r \in DOMAIN reports : QuestionOf[r] = q
    <2>1. filed \subseteq DOMAIN reports
      BY DEF ReporterAlone, ReportsKept, Settled
    <2> QED  BY <2>1 DEF CorrectedFactsWereFiled, Questions
  <1>4. IsFiniteSet(raised) /\ IsFiniteSet(DOMAIN reports)
    <2>1. raised \in SUBSET Explained /\ DOMAIN reports \in SUBSET Reports
      BY ReportFilesAre DEF FeedbackShape
    <2> HIDE DEF raised
    <2> QED  BY <2>1, FS_Subset
  <1>5. approved_rules = Cardinality(explained) + Cardinality(corrected)
        /\ entrances = Cardinality(raised) + Cardinality(DOMAIN reports)
    BY DEF approved_rules, entrances
  <1> HIDE DEF raised, explained, corrected
  <1>6. /\ Cardinality(explained) <= Cardinality(raised) /\ IsFiniteSet(explained)
        /\ Cardinality(corrected) <= Cardinality(DOMAIN reports) /\ IsFiniteSet(corrected)
    BY <1>2, <1>3, <1>4, NoMoreThanNamed
  <1>7. /\ Cardinality(explained) \in Nat /\ Cardinality(raised) \in Nat
        /\ Cardinality(corrected) \in Nat /\ Cardinality(DOMAIN reports) \in Nat
    BY <1>4, <1>6, FS_CardinalityType
  <1> QED  BY <1>5, <1>6, <1>7

(* The funnel: a scan that says it was complete counted every refusal the  *)
(* threads hold, as long as one request reads all the threads there are,   *)
(* and with one writer no more rules are counted as approved than entrances *)
(* to them, where no question of another kind is worded as a reader's.     *)
THEOREM TheFunnelIsWhatItSays ==
    ASSUME IsFiniteSet(Conversations), MaxThreads \in Nat, Cardinality(Conversations) <= MaxThreads,
           IsFiniteSet(Explained), IsFiniteSet(Reports),
           ScansWordTheirOwn, ExplanationsWordTheirOwn
    PROVE  Spec => []FunnelIsWhatItSays
  <1>1. Init => FactsWereRaised
    BY NoReportsIsAFile DEF Init, LedgerInit, FeedbackInit, FactsWereRaised,
       ExplainedFactsWereFolded, CorrectedFactsWereFiled, Texts, Ids, Questions
  <1>2. LedgerShape /\ FeedbackShape /\ OneReporterHolds /\ WarrantHolds /\ FactsWereRaised
          /\ [Next]_loopVars => FactsWereRaised'
    BY FactsStayRaised
  <1>3. LedgerShape /\ FeedbackShape /\ OneWriterHolds /\ OneReporterHolds /\ TurnsStayApart
          /\ FactsWereRaised => FunnelIsWhatItSays
    <2> SUFFICES ASSUME LedgerShape, FeedbackShape, OneWriterHolds, OneReporterHolds,
                        TurnsStayApart, FactsWereRaised
                 PROVE  FunnelIsWhatItSays
      OBVIOUS
    <2>1. ASSUME NEW limit \in 1 .. scene.turns + 1, ~refusal_counts(limit).truncated
          PROVE  refusal_counts(limit).total
                   = Cardinality({e \in UNION {TurnsOf(t) : t \in Conversations} :
                                    e.outcome = "refused"})
      <3>1. limit \in Nat
        BY ScenesAssumption DEF LedgerShape
      <3>2. list_turns(limit) = UNION {TurnsOf(t) : t \in Conversations}
        BY <2>1, <3>1, ACompleteScanCountsAll DEF Held
      <3> QED  BY <3>2 DEF refusal_counts
    <2>2. OneWriter /\ Settled => approved_rules <= entrances
      <3> SUFFICES ASSUME OneWriter, Settled
                   PROVE  approved_rules <= entrances
        OBVIOUS
      <3>1. PICK a \in Callers : AloneHolds(a) /\ ReporterAlone(a)
        BY TheOneWriter DEF LedgerShape, OneWriterHolds, OneReporterHolds
      <3> QED  BY <3>1, TheFunnelNarrows DEF FactsWereRaised
    <2> QED  BY <2>1, <2>2 DEF FunnelIsWhatItSays
  <1> QED
    BY <1>1, <1>2, <1>3, LedgerShapeHolds, FeedbackShapeHolds, OneWriterAlwaysHolds,
       OneReporterAlwaysHolds, WarrantAlwaysHolds, TurnsAlwaysStayApart, PTL DEF Spec
=============================================================================
