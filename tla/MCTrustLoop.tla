---------------------------- MODULE MCTrustLoop ----------------------------
(* Two live questions of different basis, one hybrid pair of a scan with   *)
(* the join question its answer can raise, two explanations of one refused *)
(* question, and two reports of one answered question, each of its turn.   *)
EXTENDS TrustLoop, TLC

MCLive      == {"definition", "ranking"}
MCRanking   == {"ranking"}
MCScanned   == {"biz", "eng"}
MCExplained == {"why1", "why2"}
MCBlockers  == "biz" :> {} @@ "eng" :> {"biz"}
MCEngOf     == "biz" :> "eng"
MCJoinOf    == "eng" :> "join"
MCTextOf    == "definition" :> "definition" @@ "ranking" :> "ranking" @@ "biz" :> "biz" @@
               "eng" :> "eng" @@ "join" :> "join" @@ "why1" :> "why" @@ "why2" :> "why"
MCRequoted  == "eng" :> "eng, quoting biz"
MCTurnOf    == "why1" :> 1 @@ "why2" :> 2

MCReports      == {"wrong1", "wrong2"}
MCQuestionOf   == "wrong1" :> "revenue" @@ "wrong2" :> "revenue"
Symmetry       == Permutations(Conversations)
MCReportedTurn == "wrong1" :> 1 @@ "wrong2" :> 2

(* What the theorems suppose of the wordings and of the threads.           *)
ASSUME ScansWordTheirOwn /\ ExplanationsWordTheirOwn
ASSUME Cardinality(Conversations) <= MaxThreads

(* One writer of the questions, two that overlap and may be cut short, and *)
(* both lists over a log of turns, again with one writer and with two.     *)
MCScenes == {
    [callers |-> {"c1"},       jobs |-> 5, reports |-> 0, turns |-> 0, crashes |-> 0],
    [callers |-> {"c1", "c2"}, jobs |-> 3, reports |-> 0, turns |-> 0, crashes |-> 1],
    [callers |-> {"c1"},       jobs |-> 1, reports |-> 3, turns |-> 3, crashes |-> 0],
    [callers |-> {"c1", "c2"}, jobs |-> 0, reports |-> 4, turns |-> 1, crashes |-> 1]}
=============================================================================
