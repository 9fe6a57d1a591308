----------------------------- MODULE TrustLoop -----------------------------
(***************************************************************************)
(* The two lists a reader's words reach the admin on, the log of the turns *)
(* they are about, and the two reads that join them: what a thread raised  *)
(* and what became of it, and the funnel from refusals to approved rules.  *)
(* The lists are other files, under other ids and other facts.             *)
(***************************************************************************)
EXTENDS ClarificationLedger, FeedbackLedger, TurnLog

(* feedback-<digest> and refusal-<digest>.                                 *)
ASSUME RaisedAssumption == Reports \cap Explained = {}

loopVars == <<scene, served, turns, ledgerVars, feedbackVars>>

Init ==
    /\ scene \in Scenes /\ served = 0
    /\ LedgerInit /\ FeedbackInit /\ TurnLogInit

Idle(c) == todo[c] = << >> /\ rtodo[c] = << >>

OnTheLedger ==
    /\ \/ \E c \in Callers : rtodo[c] = << >> /\ LedgerStep(c)
       \/ \E t \in Texts : approve_draft(t)
    /\ UNCHANGED <<scene, served, turns, feedbackVars>>

OnTheReports ==
    /\ \/ \E c \in Callers : todo[c] = << >> /\ FeedbackStep(c)
       \/ \E q \in Questions : CertifyCorrection(q)
    /\ UNCHANGED <<scene, served, turns, ledgerVars>>

TurnServed ==
    /\ \E t \in Conversations : record_node(t)
    /\ UNCHANGED <<scene, ledgerVars, feedbackVars>>

ProcessEnds ==
    /\ \E c \in Callers : ~Idle(c)
    /\ LedgerStops /\ FeedbackStops
    /\ UNCHANGED <<scene, served, turns>>

Waits == (\A c \in Callers : Idle(c)) /\ UNCHANGED loopVars

Next == OnTheLedger \/ OnTheReports \/ TurnServed \/ ProcessEnds \/ Waits

Spec == Init /\ [][Next]_loopVars
-----------------------------------------------------------------------------
(* GET /threads/{thread_id}/raised: a row whose turn is on another thread, *)
(* or nowhere, is left out.                                                *)
raised_by_thread(t) ==
    {[id |-> r, certified |-> facts[QuestionOf[r]] = "certified"] :
        r \in {r \in DOMAIN reports : get_turn(ReportedTurn[r]) = {t}}}
    \cup
    {[id |-> i, certified |-> corpus[TextOf[i]] = "certified"] :
        i \in {i \in DOMAIN ledger \cap Explained : get_turn(TurnOf[i]) = {t}}}

Raised(t) == {row.id : row \in raised_by_thread(t)}

refusal_counts_full(limit) ==
    LET rows == list_turns(limit) IN
    [total     |-> Cardinality({e \in rows : e.outcome = "refused"}),
     truncated |-> Cardinality(rows) > limit]

refusal_counts(limit) ==
    LET rows == list_turns(limit) IN
    [total     |-> Cardinality({e \in rows : e.outcome = "refused"}),
     truncated |-> Cardinality(rows) >= limit]

entrances == Cardinality(DOMAIN ledger \cap Explained) + Cardinality(DOMAIN reports)

(* The rules a reader's words led to: refusals' explanations and reports'  *)
(* corrections.                                                            *)
approved_rules ==
    Cardinality({TextOf[i] : i \in Explained} \cap {t \in Texts : corpus[t] = "certified"})
    + Cardinality({q \in Questions : facts[q] = "certified"})
-----------------------------------------------------------------------------
Settled == \A c \in Callers : writing[c] # "fills" /\ rwriting[c] # "fills"

(* What was ever put on the admin's lists stays on them, whatever becomes  *)
(* of the turn or the request that raised it, and a reader finds it under  *)
(* the thread that raised it and no other while that thread keeps the turn. *)
NothingRaisedIsLost ==
    OneWriter /\ Settled =>
        /\ ~torn /\ logged \subseteq DOMAIN ledger
        /\ ~reportsTorn /\ filed \subseteq DOMAIN reports
        /\ \A t \in Conversations : \A e \in TurnsOf(t) :
             LET about == {r \in filed : ReportedTurn[r] = e.id}
                          \cup {i \in logged \cap Explained : TurnOf[i] = e.id}
             IN about \subseteq Raised(t) /\ \A u \in Conversations \ {t} : about \cap Raised(u) = {}

(* The lists claim a conversion only for a record whose fold was tried, an *)
(* abandoned question left nothing in the corpus, whatever threads         *)
(* interleave and wherever the process ends.  With one writer a dismissed  *)
(* report left nothing either, a record is folded once, however often it is answered, and a     *)
(* converted one still asks the question its fact was folded under, so a   *)
(* scan finds the fact by the hash of the question.                        *)
ConvertedWasFolded ==
    /\ \A i \in DOMAIN ledger :
         /\ ledger[i].converted => folded[i] # << >>
         /\ ledger[i].status = "cancelled" => folded[i] = << >>
    /\ \A r \in DOMAIN reports : reports[r].converted => corrections[r] > 0
    /\ OneWriter =>
         /\ \A i \in Ids : Len(folded[i]) <= 1
         /\ \A r \in Reports : corrections[r] <= 1
         /\ \A r \in DOMAIN reports : reports[r].status = "dismissed" => corrections[r] = 0
         /\ \A i \in DOMAIN ledger : ledger[i].converted =>
              \E k \in DOMAIN folded[i] : folded[i][k].text = ledger[i].text

(* A scan of the log that says it was complete counted every refusal the   *)
(* threads still hold, and every rule counted as approved has an entrance  *)
(* that is counted too: the funnel narrows.                                *)
FunnelIsWhatItSays ==
    /\ \A limit \in 1 .. scene.turns + 1 :
         LET told == refusal_counts(limit)
             held == UNION {TurnsOf(t) : t \in Conversations}
         IN told.truncated \/ told.total = Cardinality({e \in held : e.outcome = "refused"})
    /\ OneWriter /\ Settled => approved_rules <= entrances
=============================================================================
