-------------------------- MODULE ServeTurnProofs --------------------------
(***************************************************************************)
(* What ServeTurn guarantees for every retention cap, every number of      *)
(* messages and every number of cuts.                                      *)
(***************************************************************************)
EXTENDS ServeTurn, SequenceTheorems, FiniteSetTheorems, TLAPS

-----------------------------------------------------------------------------
(* What keep_turns does to a history that is in order.                     *)
ArchivedRows == [id : Turns, elided : Nat]

(* A history in order: oldest first, within the cap, and only the oldest   *)
(* row speaks for dropped ones, once the history is full.                  *)
InOrder(rows) ==
    /\ Len(rows) <= MaxTurnsRetained
    /\ \A i, j \in 1 .. Len(rows) : i < j => rows[i].id < rows[j].id
    /\ \A i \in 1 .. Len(rows) : i > 1 => rows[i].elided = 0
    /\ Len(rows) > 0 /\ rows[1].elided > 0 => Len(rows) = MaxTurnsRetained

Entry(id) == [id |-> id, elided |-> 0]

(* How many turns one dropped row stands for.                              *)
LEMMA ElidedOfOne ==
    ASSUME NEW rows, DOMAIN rows = {1}, Len(rows) = 1, rows[1].elided \in Nat
    PROVE  ElidedOf(rows) = rows[1].elided + 1
<1> DEFINE Step(g, s) == IF s = {} THEN Len(rows)
                         ELSE rows[CHOOSE i \in s : TRUE].elided + g[s \ {CHOOSE i \in s : TRUE}]
           fold == CHOOSE g : g = [s \in SUBSET DOMAIN rows |-> Step(g, s)]
           sum == [s \in SUBSET DOMAIN rows |-> IF s = {} THEN 1 ELSE rows[1].elided + 1]
<1>1. ElidedOf(rows) = fold[DOMAIN rows]
  BY DEF ElidedOf, FoldSeq, FoldFunction, FoldFunctionOnSet, MapThenFoldSet
<1>2. \A s \in SUBSET DOMAIN rows : s = {} \/ s = {1}
  OBVIOUS
<1>3. (CHOOSE i \in {1} : TRUE) = 1
  OBVIOUS
<1>4. \A s \in SUBSET DOMAIN rows : sum[s] = Step(sum, s)
  BY <1>2, <1>3
<1>5. sum = [s \in SUBSET DOMAIN rows |-> Step(sum, s)]
  BY <1>4
<1>6. fold = [s \in SUBSET DOMAIN rows |-> Step(fold, s)]
  <2> DEFINE P(g) == g = [s \in SUBSET DOMAIN rows |-> Step(g, s)]
  <2>1. \E g : P(g)
    BY <1>5
  <2> HIDE DEF Step
  <2>2. QED
    BY <2>1
<1>7. fold[{}] = 1 /\ fold[{1}] = rows[1].elided + fold[{1} \ {1}]
  BY <1>6, <1>3
<1>8. QED
  BY <1>1, <1>7

(* A sequence of rows, by its elements.                                    *)
LEMMA RowsOf ==
    ASSUME NEW rows \in Seq(ArchivedRows)
    PROVE  /\ Len(rows) \in Nat /\ DOMAIN rows = 1 .. Len(rows)
           /\ \A i \in 1 .. Len(rows) : /\ rows[i] \in ArchivedRows
                                        /\ rows[i].id \in Turns /\ rows[i].id \in Nat
                                        /\ rows[i].elided \in Nat
           /\ rows = [i \in 1 .. Len(rows) |-> rows[i]]
<1>1. Len(rows) \in Nat /\ DOMAIN rows = 1 .. Len(rows)
  BY LenProperties
<1>2. \A i \in 1 .. Len(rows) : rows[i] \in ArchivedRows
  BY ElementOfSeq
<1>3. rows \in [1 .. Len(rows) -> ArchivedRows]
  BY LenProperties
<1>4. QED
  BY <1>1, <1>2, <1>3 DEF ArchivedRows, Turns

(* Archiving the newest turn again changes nothing.                        *)
LEMMA Rearchives ==
    ASSUME NEW rows \in Seq(ArchivedRows), InOrder(rows), Len(rows) > 0
    PROVE  keep_turns(rows, Entry(rows[Len(rows)].id)) = rows
<1> DEFINE n == Len(rows)
           entry == Entry(rows[n].id)
           at == {i \in DOMAIN rows : rows[i].id = entry.id}
           upserted == [i \in DOMAIN rows |-> IF i \in at THEN entry ELSE rows[i]]
<1>1. n \in Nat /\ n \in 1 .. n /\ DOMAIN rows = 1 .. n
  BY RowsOf
<1>2. rows[n].elided = 0
  <2>1. CASE n > 1
    BY <1>1, <2>1 DEF InOrder
  <2>2. CASE n = 1
    BY <1>1, <2>2, RowsOf, RetentionAssumption DEF InOrder
  <2>3. QED
    BY <1>1, <2>1, <2>2
<1>3. rows[n] = entry
  BY <1>1, <1>2, RowsOf DEF ArchivedRows, Entry
<1>4. at = {n}
  <2>1. \A i \in 1 .. n : rows[i].id = rows[n].id => i = n
    BY <1>1, RowsOf DEF InOrder
  <2>2. QED
    BY <1>1, <2>1 DEF Entry
<1>5. upserted = rows
  <2>1. \A i \in 1 .. n : (IF i \in at THEN entry ELSE rows[i]) = rows[i]
    BY <1>3, <1>4
  <2>2. rows = [i \in 1 .. n |-> rows[i]]
    BY RowsOf
  <2> HIDE DEF entry, at
  <2>3. QED
    BY <1>1, <2>1, <2>2
<1>6. keep_turns(rows, entry) = DropOldest(rows)
  BY <1>4, <1>5 DEF keep_turns
<1>7. Len(rows) - MaxTurnsRetained <= 0
  <2>1. n \in Nat /\ MaxTurnsRetained \in Nat /\ n <= MaxTurnsRetained
    BY <1>1, RetentionAssumption DEF InOrder
  <2>2. QED
    BY <2>1
<1>8. QED
  BY <1>6, <1>7 DEF DropOldest

(* Appending a newer turn.                                                 *)
LEMMA Appended ==
    ASSUME NEW rows \in Seq(ArchivedRows), NEW id \in Turns, InOrder(rows),
           \A i \in 1 .. Len(rows) : rows[i].id < id
    PROVE  LET longer == Append(rows, Entry(id))
               n == Len(rows)
           IN  /\ keep_turns(rows, Entry(id)) = DropOldest(longer)
               /\ longer \in Seq(ArchivedRows) /\ Len(longer) = n + 1
               /\ \A i \in 1 .. n : longer[i] = rows[i]
               /\ longer[n + 1] = Entry(id)
<1>1. Entry(id) \in ArchivedRows /\ Entry(id).id = id
  BY DEF Entry, ArchivedRows
<1>2. {i \in DOMAIN rows : rows[i].id = Entry(id).id} = {}
  BY <1>1, RowsOf DEF Turns
<1>3. keep_turns(rows, Entry(id)) = DropOldest(Append(rows, Entry(id)))
  BY <1>2, Zenon DEF keep_turns
<1>4. QED
  BY <1>1, <1>3, AppendProperties

(* Below the cap the newer turn goes to the end.                           *)
LEMMA ArchivesBelowTheCap ==
    ASSUME NEW rows \in Seq(ArchivedRows), NEW id \in Turns, InOrder(rows),
           \A i \in 1 .. Len(rows) : rows[i].id < id,
           Len(rows) < MaxTurnsRetained,
           NEW out, out = keep_turns(rows, Entry(id))
    PROVE  /\ out \in Seq(ArchivedRows) /\ InOrder(out)
           /\ Len(out) = Len(rows) + 1 /\ out[Len(out)].id = id
           /\ \A i \in 1 .. Len(out) :
                out[i].id = id \/ \E j \in 1 .. Len(rows) : out[i].id = rows[j].id
           /\ out[1].elided = IF Len(rows) = 0 THEN 0 ELSE rows[1].elided
<1> DEFINE longer == Append(rows, Entry(id))
<1>1. /\ out = DropOldest(longer)
      /\ longer \in Seq(ArchivedRows) /\ Len(longer) = Len(rows) + 1
      /\ \A i \in 1 .. Len(rows) : longer[i] = rows[i]
      /\ longer[Len(rows) + 1] = Entry(id)
  BY Appended
<1> HIDE DEF longer
<1>2. Len(rows) \in Nat /\ MaxTurnsRetained \in Nat
  BY RowsOf, RetentionAssumption
<1>3. Len(longer) - MaxTurnsRetained <= 0
  BY <1>1, <1>2
<1>4. out = longer
  BY <1>1, <1>3 DEF DropOldest
<1>5. \A i \in 1 .. Len(out) : i = Len(rows) + 1 \/ i \in 1 .. Len(rows)
  BY <1>1, <1>2, <1>4
<1>6. Entry(id).id = id /\ Entry(id).elided = 0 /\ id \in Nat
  BY DEF Entry, Turns
<1>7. InOrder(out)
  <2>1. Len(out) <= MaxTurnsRetained
    BY <1>1, <1>2, <1>4
  <2>2. \A i, j \in 1 .. Len(out) : i < j => out[i].id < out[j].id
    BY <1>1, <1>2, <1>4, <1>5, <1>6 DEF InOrder
  <2>3. \A i \in 1 .. Len(out) : i > 1 => out[i].elided = 0
    BY <1>1, <1>2, <1>4, <1>5, <1>6 DEF InOrder
  <2>4. out[1].elided > 0 => Len(out) = MaxTurnsRetained
    <3>1. CASE Len(rows) = 0
      BY <1>1, <1>2, <1>4, <1>6, <3>1
    <3>2. CASE Len(rows) > 0
      BY <1>1, <1>2, <1>4, <3>2 DEF InOrder
    <3>3. QED
      BY <1>2, <3>1, <3>2
  <2>5. QED
    BY <2>1, <2>2, <2>3, <2>4 DEF InOrder
<1>8. QED
  BY <1>1, <1>2, <1>4, <1>5, <1>6, <1>7

(* At the cap the oldest row is dropped, and the next one says so.         *)
LEMMA ArchivesAtTheCap ==
    ASSUME NEW rows \in Seq(ArchivedRows), NEW id \in Turns, InOrder(rows),
           \A i \in 1 .. Len(rows) : rows[i].id < id,
           Len(rows) = MaxTurnsRetained,
           NEW out, out = keep_turns(rows, Entry(id))
    PROVE  /\ out \in Seq(ArchivedRows) /\ InOrder(out)
           /\ Len(out) = Len(rows) /\ out[Len(out)].id = id
           /\ \A i \in 1 .. Len(out) :
                out[i].id = id \/ \E j \in 1 .. Len(rows) : out[i].id = rows[j].id
           /\ out[1].elided = rows[1].elided + 1
<1> DEFINE longer == Append(rows, Entry(id))
           n == Len(rows)
           oldest == SubSeq(longer, 1, 1)
           kept == SubSeq(longer, 2, n + 1)
<1>1. /\ out = DropOldest(longer)
      /\ longer \in Seq(ArchivedRows) /\ Len(longer) = n + 1
      /\ \A i \in 1 .. n : longer[i] = rows[i]
      /\ longer[n + 1] = Entry(id)
  BY Appended
<1> HIDE DEF longer
<1>2. n \in Nat /\ n > 1 /\ MaxTurnsRetained = n
  BY RowsOf, RetentionAssumption
<1>3. rows[1].elided \in Nat
  BY <1>2, RowsOf
<1>4. oldest \in Seq(ArchivedRows) /\ Len(oldest) = 1 /\ DOMAIN oldest = {1} /\ oldest[1] = rows[1]
  <2>1. /\ oldest \in Seq(ArchivedRows) /\ Len(oldest) = 1
        /\ \A i \in 1 .. 1 : oldest[i] = longer[1 + i - 1]
    BY <1>1, <1>2, SubSeqProperties
  <2>2. DOMAIN oldest = 1 .. 1
    BY <2>1, LenProperties
  <2> HIDE DEF oldest
  <2>3. QED
    BY <1>1, <1>2, <2>1, <2>2
<1>5. kept \in Seq(ArchivedRows) /\ Len(kept) = n /\ \A i \in 1 .. n : kept[i] = longer[i + 1]
  <2>1. /\ kept \in Seq(ArchivedRows) /\ Len(kept) = n + 1 - 2 + 1
        /\ \A i \in 1 .. (n + 1 - 2 + 1) : kept[i] = longer[2 + i - 1]
    BY <1>1, <1>2, SubSeqProperties
  <2> HIDE DEF kept
  <2>2. QED
    BY <1>2, <2>1
<1>6. out = [kept EXCEPT ![1].elided = @ + ElidedOf(oldest)]
  <2>1. Len(longer) - MaxTurnsRetained = 1 /\ Len(longer) = n + 1
    BY <1>1, <1>2
  <2>2. ~ (Len(longer) - MaxTurnsRetained <= 0)
    BY <2>1
  <2>3. DropOldest(longer) =
          [SubSeq(longer, Len(longer) - MaxTurnsRetained + 1, Len(longer)) EXCEPT
             ![1].elided = @ + ElidedOf(SubSeq(longer, 1, Len(longer) - MaxTurnsRetained))]
    BY <2>2, Zenon DEF DropOldest
  <2>4. DropOldest(longer) = [SubSeq(longer, 1 + 1, n + 1) EXCEPT
                                ![1].elided = @ + ElidedOf(SubSeq(longer, 1, 1))]
    BY <2>1, <2>3, Zenon
  <2>5. SubSeq(longer, 1 + 1, n + 1) = kept
    <3>1. 1 + 1 = 2
      OBVIOUS
    <3>2. QED
      BY <3>1, Zenon
  <2>6. QED
    BY <1>1, <2>4, <2>5, Zenon
<1> HIDE DEF oldest, kept
<1>7. ElidedOf(oldest) = rows[1].elided + 1
  BY <1>3, <1>4, ElidedOfOne
<1>8. \A i \in 1 .. n : /\ kept[i] \in ArchivedRows /\ kept[i].elided = 0
                        /\ kept[i].id = IF i = n THEN id ELSE rows[i + 1].id
  <2>1. \A i \in 1 .. n : kept[i] \in ArchivedRows
    BY <1>5, RowsOf
  <2>2. \A i \in 1 .. n : kept[i] = IF i = n THEN Entry(id) ELSE rows[i + 1]
    BY <1>1, <1>2, <1>5
  <2>3. QED
    BY <1>2, <2>1, <2>2 DEF Entry, InOrder
<1>9. DOMAIN kept = 1 .. n
  BY <1>5, RowsOf
<1>10. DOMAIN out = 1 .. n /\ \A i \in 1 .. n : out[i] = [id |-> kept[i].id,
                                    elided |-> IF i = 1 THEN rows[1].elided + 1 ELSE 0]
  <2>1. DOMAIN out = 1 .. n
    BY <1>6, <1>9
  <2>2. out[1] = [kept[1] EXCEPT !.elided = @ + ElidedOf(oldest)]
    BY <1>2, <1>6, <1>9
  <2>3. \A i \in 2 .. n : out[i] = kept[i]
    BY <1>2, <1>6, <1>9
  <2>4. \A i \in 1 .. n : kept[i] = [id |-> kept[i].id, elided |-> 0]
    BY <1>8 DEF ArchivedRows
  <2>5. out[1] = [id |-> kept[1].id, elided |-> rows[1].elided + 1]
    <3>1. kept[1] \in ArchivedRows /\ kept[1].elided = 0 /\ ElidedOf(oldest) \in Nat
      BY <1>2, <1>3, <1>7, <1>8
    <3>2. [kept[1] EXCEPT !.elided = @ + ElidedOf(oldest)] =
            [id |-> kept[1].id, elided |-> kept[1].elided + ElidedOf(oldest)]
      BY <3>1 DEF ArchivedRows
    <3>3. QED
      BY <1>3, <1>7, <2>2, <3>1, <3>2
  <2>6. QED
    <3>1. \A i \in 1 .. n : i = 1 \/ i \in 2 .. n
      BY <1>2
    <3>2. \A i \in 2 .. n : out[i] = [id |-> kept[i].id, elided |-> 0] /\ i # 1
      BY <1>2, <2>3, <2>4
    <3>3. QED
      BY <2>1, <2>5, <3>1, <3>2
<1>11. out \in Seq(ArchivedRows) /\ Len(out) = n
  <2>1. \A i \in 1 .. n : out[i] \in ArchivedRows
    BY <1>2, <1>3, <1>8, <1>10 DEF ArchivedRows
  <2>2. out = [i \in 1 .. n |-> out[i]]
    BY <1>6, <1>9
  <2>3. out \in [1 .. n -> ArchivedRows]
    BY <2>1, <2>2
  <2>4. out \in Seq(ArchivedRows)
    BY <1>2, <2>3, SeqDef
  <2>5. QED
    BY <1>2, <1>10, <2>4, LenProperties
<1>12. InOrder(out)
  <2>1. \A i, j \in 1 .. n : i < j => out[i].id < out[j].id
    <3>1. \A i \in 1 .. n : out[i].id = IF i = n THEN id ELSE rows[i + 1].id
      BY <1>8, <1>10
    <3>2. \A i \in 1 .. n : rows[i].id \in Nat
      BY RowsOf
    <3>3. QED
      BY <1>2, <3>1, <3>2 DEF InOrder, Turns
  <2>2. QED
    BY <1>2, <1>10, <1>11, <2>1 DEF InOrder
<1>13. \A i \in 1 .. n : out[i].id = id \/ \E j \in 1 .. n : out[i].id = rows[j].id
  BY <1>2, <1>8, <1>10
<1>14. QED
  BY <1>2, <1>8, <1>10, <1>11, <1>12, <1>13

(* Either way the newer turn is the last row, and one more turn is         *)
(* accounted for.                                                          *)
Accounted(rows) == IF Len(rows) = 0 THEN 0 ELSE rows[1].elided + Len(rows)

LEMMA Archives ==
    ASSUME NEW rows \in Seq(ArchivedRows), NEW id \in Turns, InOrder(rows),
           \A i \in 1 .. Len(rows) : rows[i].id < id,
           NEW out, out = keep_turns(rows, Entry(id))
    PROVE  /\ out \in Seq(ArchivedRows) /\ InOrder(out)
           /\ Len(out) > 0 /\ out[Len(out)].id = id
           /\ \A i \in 1 .. Len(out) :
                out[i].id = id \/ \E j \in 1 .. Len(rows) : out[i].id = rows[j].id
           /\ Accounted(out) = Accounted(rows) + 1
<1>1. Len(rows) \in Nat /\ MaxTurnsRetained \in Nat /\ MaxTurnsRetained > 1
  BY RowsOf, RetentionAssumption
<1>2. Len(rows) > 0 => rows[1].elided \in Nat
  BY <1>1, RowsOf
<1>3. CASE Len(rows) < MaxTurnsRetained
  <2>1. /\ out \in Seq(ArchivedRows) /\ InOrder(out)
        /\ Len(out) = Len(rows) + 1 /\ out[Len(out)].id = id
        /\ \A i \in 1 .. Len(out) :
             out[i].id = id \/ \E j \in 1 .. Len(rows) : out[i].id = rows[j].id
        /\ out[1].elided = IF Len(rows) = 0 THEN 0 ELSE rows[1].elided
    BY <1>3, ArchivesBelowTheCap
  <2>2. Accounted(out) = out[1].elided + (Len(rows) + 1)
    BY <1>1, <2>1 DEF Accounted
  <2>3. Accounted(rows) = IF Len(rows) = 0 THEN 0 ELSE rows[1].elided + Len(rows)
    BY DEF Accounted
  <2>4. Accounted(out) = Accounted(rows) + 1
    <3>1. CASE Len(rows) = 0
      BY <2>1, <2>2, <2>3, <3>1
    <3>2. CASE Len(rows) # 0
      <4>1. /\ rows[1].elided \in Nat /\ Accounted(rows) = rows[1].elided + Len(rows)
            /\ Accounted(out) = rows[1].elided + (Len(rows) + 1)
        BY <1>1, <1>2, <2>1, <2>2, <2>3, <3>2
      <4>2. QED
        BY <1>1, <4>1
    <3>3. QED
      BY <3>1, <3>2
  <2>5. QED
    BY <1>1, <2>1, <2>4
<1>4. CASE Len(rows) = MaxTurnsRetained
  <2>1. /\ out \in Seq(ArchivedRows) /\ InOrder(out)
        /\ Len(out) = Len(rows) /\ out[Len(out)].id = id
        /\ \A i \in 1 .. Len(out) :
             out[i].id = id \/ \E j \in 1 .. Len(rows) : out[i].id = rows[j].id
        /\ out[1].elided = rows[1].elided + 1
    BY <1>4, ArchivesAtTheCap
  <2>2. /\ Accounted(out) = (rows[1].elided + 1) + Len(rows)
        /\ Accounted(rows) = rows[1].elided + Len(rows) /\ rows[1].elided \in Nat
    BY <1>1, <1>2, <1>4, <2>1 DEF Accounted
  <2>3. Accounted(out) = Accounted(rows) + 1
    BY <1>1, <2>2
  <2>4. QED
    BY <1>1, <1>4, <2>1, <2>3
<1>5. QED
  BY <1>1, <1>3, <1>4 DEF InOrder
-----------------------------------------------------------------------------
USE DEF threadVars, endVars, turnVars, clarVars, outVars, historyVars

(* The straight way through the rail, node by node.                        *)
LEMMA TheRail ==
    /\ Behind("accept") = "guard" /\ Behind("guard") = "rewrite"
    /\ Behind("rewrite") = "negative_gate" /\ Behind("negative_gate") = "facets"
    /\ Behind("facets") = "route" /\ Behind("route") = "resolve"
    /\ Behind("resolve") = "connect" /\ Behind("connect") = "assemble"
    /\ Behind("assemble") = "abstain" /\ Behind("abstain") = "agent_core"
    /\ Behind("agent_core") = "reflect" /\ Behind("reflect") = "mine_corpus"
    /\ Behind("mine_corpus") = "mine_mistakes" /\ Behind("mine_mistakes") = "narrate"
    /\ Behind("narrate") = "stamp"
<1>1. DOMAIN RailOrder = 1 .. 16
  BY DEF RailOrder
<1>2. ASSUME NEW k \in 1 .. 15 PROVE Behind(RailOrder[k]) = RailOrder[k + 1]
  <2>1. \A i \in 1 .. 16 : RailOrder[i] = RailOrder[k] => i = k
    BY DEF RailOrder
  <2>2. (CHOOSE i \in DOMAIN RailOrder : RailOrder[i] = RailOrder[k]) = k
    BY <1>1, <2>1
  <2>3. Behind(RailOrder[k]) = RailOrder[1 + k]
    BY <2>2, Zenon DEF Behind
  <2>4. QED
    BY <2>3
<1>3. /\ RailOrder[1] = "accept" /\ RailOrder[2] = "guard" /\ RailOrder[3] = "rewrite"
      /\ RailOrder[4] = "negative_gate" /\ RailOrder[5] = "facets" /\ RailOrder[6] = "route"
      /\ RailOrder[7] = "resolve" /\ RailOrder[8] = "connect" /\ RailOrder[9] = "assemble"
      /\ RailOrder[10] = "abstain" /\ RailOrder[11] = "agent_core" /\ RailOrder[12] = "reflect"
      /\ RailOrder[13] = "mine_corpus" /\ RailOrder[14] = "mine_mistakes"
      /\ RailOrder[15] = "narrate" /\ RailOrder[16] = "stamp"
  BY DEF RailOrder
<1>4. QED
  BY <1>2, <1>3

(* The edges, as what the channels say decides them.                       *)
LEMMA Edges ==
    ASSUME NEW kind, NEW verdict
    PROVE  /\ \A n \in {"accept", "rewrite", "negative_gate"} :
                After(n, kind, verdict) = IF kind = "crashed" THEN "stamp" ELSE Behind(n)
           /\ After("guard", kind, verdict) =
                IF kind = "crashed" THEN "stamp"
                ELSE IF verdict = "blocked" THEN "refuse" ELSE "rewrite"
           /\ \A n \in {"route", "connect", "abstain"} :
                After(n, kind, verdict) = IF kind = "crashed" THEN "stamp"
                                          ELSE IF kind = "decline" THEN "decline" ELSE Behind(n)
           /\ \A n \in {"resolve", "assemble"} :
                After(n, kind, verdict) = IF kind \in TERMINAL_PATH_KINDS THEN "stamp" ELSE Behind(n)
           /\ \A n \in {"facets", "agent_core", "reflect", "mine_corpus", "mine_mistakes",
                        "narrate"} : After(n, kind, verdict) = Behind(n)
BY TheRail DEF After, Successor, Unconditional, TERMINAL_PATH_KINDS

(* The inductive invariant.                                                *)
IInv ==
    /\ TypeOK /\ TurnsAreNumbered /\ FailureIsTheFirst /\ EndsAreMarked /\ ChannelsTell
    /\ RowsBelongToTheirTurn /\ CaveatIsTheTurns /\ FoldsAreReported /\ MinedOnceButForCuts
    /\ HistoryEndsWithTheLast /\ HistoryAccountsForEveryTurn /\ AnswerIsTheTurns
    /\ NothingCostlyAfterTheEnd /\ OutcomeTellsWhatHappened

(* The steps that touch neither the clarifications nor the history.        *)
Quiet ==
    \/ AcceptRaises \/ AcceptFindsNoQuestion \/ AcceptTurn \/ PassesBy
    \/ \E n \in MayRaise : RailRaises(n)
    \/ Guard \/ \E n \in Costly \cup {"rewrite", "negative_gate", "reflect",
                                      "mine_mistakes", "narrate"} : RailPasses(n)
    \/ RunFacets \/ \E n \in {"route", "connect", "abstain"} : Declines(n)
    \/ refuse_node \/ decline_node
    \/ AgentPauses \/ AgentResumes \/ AgentStub \/ MineSkips

(* Every other step is one of eight.                                       *)
LEMMA StepsAre ==
    [Next]_vars => \/ Quiet \/ Ask \/ Cut \/ AgentFinishes \/ MineFolds \/ MineReports
                   \/ Stamp \/ Record \/ UNCHANGED vars
BY DEF Next, Rail, Quiet, Rest

(* They go on along the rail: nothing leads back to the agent.             *)
GoesOn ==
    /\ UNCHANGED <<sent, said, cuts, clarifications, clarifications_mined, folds, turns, recorded>>
    /\ node' \in Nodes \ {"idle", "accept", "record", "mine_corpus_reports"}
    /\ node \notin {"idle", "record", "mine_corpus_reports"}
    /\ node' \in BeforeTheAgent => node \in BeforeTheAgent \cup {"accept"}
    /\ node' \in {"refuse", "decline"} => node \in BeforeTheAgent
    /\ turn_id' = turn_id \/ (turn_id' = sent /\ node = "accept")

(* A quiet step does so.                                                   *)
LEMMA QuietStep == TypeOK /\ Quiet => GoesOn
<1> SUFFICES ASSUME TypeOK, Quiet PROVE GoesOn
  OBVIOUS
<1> USE Edges, TheRail DEF Keeps, RailKeeps, Works, Moves, BeforeTheAgent, GoesOn,
               Nodes, MayRaise
<1>1. CASE AcceptRaises \/ AcceptFindsNoQuestion \/ AcceptTurn
  BY <1>1 DEF AcceptRaises, AcceptFindsNoQuestion, AcceptTurn, ClearsTheTurn
<1>2. CASE PassesBy
  BY <1>2 DEF PassesBy, Stands, Guarded, TERMINAL_PATH_KINDS
<1>3. ASSUME NEW n, RailRaises(n) PROVE GoesOn
  BY <1>3 DEF RailRaises
<1>4. CASE Guard \/ RunFacets
  BY <1>4 DEF Guard, RunFacets
<1>5. ASSUME NEW n, RailPasses(n) PROVE GoesOn
  BY <1>5 DEF RailPasses, TERMINAL_PATH_KINDS
<1>6. ASSUME NEW n, Declines(n) PROVE GoesOn
  BY <1>6 DEF Declines
<1>7. CASE refuse_node \/ decline_node
  BY <1>7 DEF refuse_node, decline_node, Terminal
<1>8. CASE AgentPauses \/ AgentResumes \/ AgentStub
  BY <1>8 DEF AgentPauses, AgentResumes, AgentStub
<1>9. CASE MineSkips
  BY <1>9 DEF MineSkips
<1>10. QED
  BY <1>1, <1>2, <1>3, <1>4, <1>5, <1>6, <1>7, <1>8, <1>9 DEF Quiet
-----------------------------------------------------------------------------
(* The control: where a run can be, given what it did.                     *)

(* The channels are about the message accept admitted last.                *)
LEMMA NumbersStep == IInv /\ [Next]_vars => TurnsAreNumbered'
<1> SUFFICES ASSUME IInv, [Next]_vars PROVE TurnsAreNumbered'
  OBVIOUS
<1> USE Edges, TheRail, TurnBounds DEF IInv, Did, Raised, Does, Keeps, Began, Write, settle,
    cleared, RESET, TERMINAL_PATH_KINDS, Successor, Ended, Costly, RailKeeps, Works, Moves,
    Stands, Guarded, TypeOK, PathKinds, Failures, TurnsAreNumbered, EndsAreMarked, Serving,
    Accepted, BeforeTheAgent
<1>1. CASE Ask \/ Cut
  BY <1>1 DEF Ask, Cut
<1>2. CASE AcceptRaises
  BY <1>2 DEF AcceptRaises
<1>3. CASE AcceptFindsNoQuestion \/ AcceptTurn
  BY <1>3 DEF AcceptFindsNoQuestion, ClearsTheTurn, AcceptTurn
<1>4. CASE PassesBy
  BY <1>4 DEF PassesBy
<1>5. ASSUME NEW n, RailRaises(n) PROVE TurnsAreNumbered'
  BY <1>5 DEF RailRaises, MayRaise
<1>6. CASE Guard \/ RunFacets
  BY <1>6 DEF Guard, RunFacets
<1>7. ASSUME NEW n, RailPasses(n) PROVE TurnsAreNumbered'
  BY <1>7 DEF RailPasses
<1>8. ASSUME NEW n, Declines(n) PROVE TurnsAreNumbered'
  BY <1>8 DEF Declines
<1>9. CASE refuse_node \/ decline_node
  BY <1>9 DEF refuse_node, Terminal, decline_node
<1>10. CASE AgentPauses \/ AgentResumes
  BY <1>10 DEF AgentPauses, AgentResumes
<1>11. CASE AgentStub
  BY <1>11 DEF AgentStub
<1>12. CASE AgentFinishes
  BY <1>12 DEF AgentFinishes, LedgerSays
<1>13. CASE MineFolds \/ MineReports \/ MineSkips
  BY <1>13 DEF MineFolds, MineReports, MineSkips
<1>14. CASE Stamp \/ Record
  BY <1>14 DEF Stamp, Stamps, Record
<1>15. CASE UNCHANGED vars
  BY <1>15 DEF vars
<1>16. QED
  BY <1>1, <1>2, <1>3, <1>4, <1>5, <1>6, <1>7, <1>8, <1>9, <1>10, <1>11, <1>12, <1>13, <1>14,
     <1>15
  DEF Next, Rail, Rest

(* The first failure written is the one that stays.                        *)
LEMMA FailureStep == IInv /\ [Next]_vars => FailureIsTheFirst'
<1> SUFFICES ASSUME IInv, [Next]_vars PROVE FailureIsTheFirst'
  OBVIOUS
<1> USE Edges, TheRail, TurnBounds DEF IInv, Did, Raised, Does, Keeps, Began, Write, settle,
    cleared, RESET, TERMINAL_PATH_KINDS, Successor, Ended, Costly, RailKeeps, Works, Moves,
    Stands, Guarded, TypeOK, PathKinds, Failures, FailureIsTheFirst, TurnsAreNumbered, Serving,
    Accepted, Stages, MayRaise
<1>1. CASE Ask \/ Cut
  BY <1>1 DEF Ask, Cut
<1>2. CASE AcceptRaises
  BY <1>2 DEF AcceptRaises
<1>3. CASE AcceptFindsNoQuestion \/ AcceptTurn
  BY <1>3 DEF AcceptFindsNoQuestion, ClearsTheTurn, AcceptTurn
<1>4. CASE PassesBy
  BY <1>4 DEF PassesBy
<1>5. ASSUME NEW n, RailRaises(n) PROVE FailureIsTheFirst'
  BY <1>5 DEF RailRaises
<1>6. CASE Guard \/ RunFacets
  BY <1>6 DEF Guard, RunFacets
<1>7. ASSUME NEW n, RailPasses(n) PROVE FailureIsTheFirst'
  BY <1>7 DEF RailPasses
<1>8. ASSUME NEW n, Declines(n) PROVE FailureIsTheFirst'
  BY <1>8 DEF Declines
<1>9. CASE refuse_node \/ decline_node
  BY <1>9 DEF refuse_node, Terminal, decline_node
<1>10. CASE AgentPauses \/ AgentResumes
  BY <1>10 DEF AgentPauses, AgentResumes
<1>11. CASE AgentStub
  BY <1>11 DEF AgentStub
<1>12. CASE AgentFinishes
  BY <1>12 DEF AgentFinishes, LedgerSays
<1>13. CASE MineFolds \/ MineReports \/ MineSkips
  BY <1>13 DEF MineFolds, MineReports, MineSkips
<1>14. CASE Stamp \/ Record
  BY <1>14 DEF Stamp, Stamps, Record
<1>15. CASE UNCHANGED vars
  BY <1>15 DEF vars
<1>16. QED
  BY <1>1, <1>2, <1>3, <1>4, <1>5, <1>6, <1>7, <1>8, <1>9, <1>10, <1>11, <1>12, <1>13, <1>14,
     <1>15
  DEF Next, Rail, Rest

(* Every way a run can end on the way to the agent is marked in the channels. *)
LEMMA EndsStep == IInv /\ [Next]_vars => EndsAreMarked'
<1> SUFFICES ASSUME IInv, [Next]_vars PROVE EndsAreMarked'
  OBVIOUS
<1> USE Edges, TheRail, TurnBounds DEF IInv, Did, Raised, Does, Keeps, Began, Write, settle,
    cleared, RESET, TERMINAL_PATH_KINDS, Successor, Ended, Costly, RailKeeps, Works, Moves,
    Stands, Guarded, TypeOK, PathKinds, Failures, EndsAreMarked, TurnsAreNumbered, Serving,
    Accepted, BeforeTheAgent, LedgerSays
<1>1. CASE Ask \/ Cut
  BY <1>1 DEF Ask, Cut
<1>2. CASE AcceptRaises
  BY <1>2 DEF AcceptRaises
<1>3. CASE AcceptFindsNoQuestion
  BY <1>3 DEF AcceptFindsNoQuestion, ClearsTheTurn
<1>4. CASE AcceptTurn
  BY <1>4 DEF AcceptTurn, ClearsTheTurn
<1>5. CASE PassesBy
  BY <1>5 DEF PassesBy
<1>6. ASSUME NEW n, RailRaises(n) PROVE EndsAreMarked'
  BY <1>6 DEF RailRaises, MayRaise
<1>7. CASE Guard
  <2>1. CASE ~Accepted
    BY <1>7, <2>1 DEF Guard
  <2>2. CASE Accepted
    <3>1. /\ node = "guard" /\ happened = {} /\ execution = "none" /\ ~generated_sql
          /\ raisedAt = "none" /\ path_kind \in {RESET, "none"}
      BY <1>7, <2>2 DEF Guard
    <3>2. /\ UNCHANGED <<path_kind, execution, generated_sql, raisedAt>>
          /\ happened' = IF guard' = "blocked" THEN {"blocked"} ELSE {}
          /\ node' = IF guard' = "blocked" THEN "refuse" ELSE "rewrite"
      BY <1>7, <3>1 DEF Guard
    <3>3. QED
      BY <3>1, <3>2
  <2>3. QED
    BY <2>1, <2>2
<1>8. CASE RunFacets
  BY <1>8 DEF RunFacets
<1>9. ASSUME NEW n, RailPasses(n) PROVE EndsAreMarked'
  BY <1>9 DEF RailPasses
<1>10. ASSUME NEW n, Declines(n) PROVE EndsAreMarked'
  <2>1. CASE ~Accepted
    BY <1>10, <2>1 DEF Declines
  <2>2. CASE Accepted
    <3>1. n \in {"route", "connect", "abstain"} /\ node = n /\ path_kind # "crashed"
      BY <1>10 DEF Declines
    <3>2. happened = {} /\ raisedAt = "none" /\ path_kind \in {RESET, "none"}
      BY <2>2, <3>1
    <3>3. path_kind' = "decline" /\ happened' = {"declined"} /\ raisedAt' = "none"
      BY <1>10, <3>2 DEF Declines
    <3>4. node' = "decline"
      BY <1>10, <3>1, <3>3 DEF Declines
    <3>5. QED
      BY <3>3, <3>4
  <2>3. QED
    BY <2>1, <2>2
<1>11. CASE refuse_node \/ decline_node
  BY <1>11 DEF refuse_node, Terminal, decline_node
<1>12. CASE AgentPauses
  BY <1>12 DEF AgentPauses
<1>13. CASE AgentResumes
  BY <1>13 DEF AgentResumes
<1>14. CASE AgentStub
  BY <1>14 DEF AgentStub
<1>15. CASE AgentFinishes
  BY <1>15 DEF AgentFinishes
<1>16. CASE MineFolds \/ MineReports \/ MineSkips
  BY <1>16 DEF MineFolds, MineReports, MineSkips
<1>17. CASE Stamp \/ Record
  BY <1>17 DEF Stamp, Stamps, Record
<1>18. CASE UNCHANGED vars
  BY <1>18 DEF vars
<1>19. QED
  BY <1>1, <1>2, <1>3, <1>4, <1>5, <1>6, <1>7, <1>8, <1>9, <1>10, <1>11, <1>12, <1>13, <1>14,
     <1>15, <1>16, <1>17, <1>18
  DEF Next, Rail, Rest

(* What the agent leaves, the channels keep until stamp reads them.        *)
LEMMA ChannelsStep == IInv /\ [Next]_vars => ChannelsTell'
<1> SUFFICES ASSUME IInv, [Next]_vars PROVE ChannelsTell'
  OBVIOUS
<1> USE Edges, TheRail, TurnBounds DEF IInv, Did, Raised, Does, Keeps, Began, Write, settle,
    cleared, RESET, TERMINAL_PATH_KINDS, Successor, Ended, Costly, RailKeeps, Works, Moves,
    Stands, Guarded, TypeOK, PathKinds, Failures, ChannelsTell, EndsAreMarked, TurnsAreNumbered,
    Serving, Accepted, BeforeTheAgent, AfterTheAgent, Ledger, LedgerSays
<1>1. CASE Ask \/ Cut
  BY <1>1 DEF Ask, Cut
<1>2. CASE AcceptRaises
  BY <1>2 DEF AcceptRaises
<1>3. CASE AcceptFindsNoQuestion \/ AcceptTurn
  BY <1>3 DEF AcceptFindsNoQuestion, ClearsTheTurn, AcceptTurn
<1>4. CASE PassesBy
  BY <1>4 DEF PassesBy
<1>5. ASSUME NEW n, RailRaises(n) PROVE ChannelsTell'
  BY <1>5 DEF RailRaises, MayRaise
<1>6. CASE Guard \/ RunFacets
  BY <1>6 DEF Guard, RunFacets
<1>7. ASSUME NEW n, RailPasses(n) PROVE ChannelsTell'
  BY <1>7 DEF RailPasses
<1>8. ASSUME NEW n, Declines(n) PROVE ChannelsTell'
  BY <1>8 DEF Declines
<1>9. CASE refuse_node \/ decline_node
  BY <1>9 DEF refuse_node, Terminal, decline_node
<1>10. CASE AgentPauses \/ AgentResumes
  BY <1>10 DEF AgentPauses, AgentResumes
<1>11. CASE AgentStub
  <2>1. CASE ~Accepted
    BY <1>11, <2>1 DEF AgentStub
  <2>2. CASE Accepted
    <3>1. happened = {} /\ execution = "none" /\ ~generated_sql /\ node = "agent_core"
      BY <1>11, <2>2 DEF AgentStub
    <3>2. raisedAt = "none" /\ path_kind \in {RESET, "none"}
      BY <1>11, <2>2, <3>1 DEF AgentStub
    <3>3. /\ path_kind' = "answered" /\ happened' = {"no_sql"}
          /\ UNCHANGED <<execution, generated_sql>>
      BY <1>11, <3>1, <3>2 DEF AgentStub
    <3>4. QED
      BY <3>1, <3>3
  <2>3. QED
    BY <2>1, <2>2
<1>12. CASE AgentFinishes
  <2>1. CASE ~Accepted
    BY <1>12, <2>1 DEF AgentFinishes
  <2>2. CASE Accepted
    <3>1. happened = {} /\ execution = "none" /\ ~generated_sql /\ node = "agent_core"
      BY <1>12, <2>2 DEF AgentFinishes
    <3>2. raisedAt = "none" /\ path_kind \in {RESET, "none"}
      BY <1>12, <2>2, <3>1 DEF AgentFinishes
    <3>3. PICK terminal \in LedgerSays, executed \in BOOLEAN, died \in BOOLEAN :
            /\ terminal = "answered" => executed
            /\ terminal \in {"no_sql", "refused", "guardrail_error"} => ~executed
            /\ execution' = terminal
            /\ generated_sql' = (generated_sql \/ executed)
            /\ path_kind' = Write(path_kind, IF died THEN "crashed" ELSE "answered")
            /\ happened' = happened \cup {terminal} \cup ({reply} \cap {"deferred"})
            /\ raisedAt' = IF died THEN "agent_core" ELSE "none"
      BY <1>12, <3>1, <3>2 DEF AgentFinishes
    <3>4. CASE died
      BY <3>3, <3>4
    <3>5. CASE ~died
      <4>1. path_kind' = "answered"
        BY <3>2, <3>3, <3>5
      <4>2. happened' \ {"deferred"} = {terminal} /\ Ledger' = terminal
        BY <3>1, <3>3
      <4>3. QED
        BY <3>1, <3>3, <4>1, <4>2
    <3>6. QED
      BY <3>4, <3>5
  <2>3. QED
    BY <2>1, <2>2
<1>13. CASE MineFolds \/ MineReports \/ MineSkips
  BY <1>13 DEF MineFolds, MineReports, MineSkips
<1>14. CASE Stamp \/ Record
  BY <1>14 DEF Stamp, Stamps, Record
<1>15. CASE UNCHANGED vars
  BY <1>15 DEF vars
<1>16. QED
  BY <1>1, <1>2, <1>3, <1>4, <1>5, <1>6, <1>7, <1>8, <1>9, <1>10, <1>11, <1>12, <1>13, <1>14,
     <1>15
  DEF Next, Rail, Rest

(* A deferred question is recorded with the turn that deferred it.         *)
LEMMA CaveatStep == IInv /\ [Next]_vars => CaveatIsTheTurns'
<1> SUFFICES ASSUME IInv, [Next]_vars PROVE CaveatIsTheTurns'
  OBVIOUS
<1> USE Edges, TheRail, TurnBounds DEF IInv, Did, Raised, Does, Keeps, Began, Write, settle,
    cleared, RESET, TERMINAL_PATH_KINDS, Successor, Ended, Costly, RailKeeps, Works, Moves,
    Stands, Guarded, TypeOK, PathKinds, Failures, CaveatIsTheTurns, RowsBelongToTheirTurn,
    TurnsAreNumbered, EndsAreMarked, Serving, Accepted, BeforeTheAgent, AfterTheAgent, Caveat,
    LedgerSays, Turns, ReplyKinds
<1>1. CASE Ask \/ Cut
  BY <1>1 DEF Ask, Cut
<1>2. CASE AcceptRaises
  BY <1>2 DEF AcceptRaises
<1>3. CASE AcceptFindsNoQuestion \/ AcceptTurn
  BY <1>3 DEF AcceptFindsNoQuestion, ClearsTheTurn, AcceptTurn
<1>4. CASE PassesBy
  BY <1>4 DEF PassesBy
<1>5. ASSUME NEW n, RailRaises(n) PROVE CaveatIsTheTurns'
  BY <1>5 DEF RailRaises, MayRaise
<1>6. CASE Guard \/ RunFacets
  BY <1>6 DEF Guard, RunFacets
<1>7. ASSUME NEW n, RailPasses(n) PROVE CaveatIsTheTurns'
  BY <1>7 DEF RailPasses
<1>8. ASSUME NEW n, Declines(n) PROVE CaveatIsTheTurns'
  BY <1>8 DEF Declines
<1>9. CASE refuse_node \/ decline_node
  BY <1>9 DEF refuse_node, Terminal, decline_node
<1>10. CASE AgentPauses \/ AgentResumes
  BY <1>10 DEF AgentPauses, AgentResumes
<1>11. CASE AgentStub
  BY <1>11 DEF AgentStub
<1>12. CASE AgentFinishes
  <2>1. CASE ~Accepted
    BY <1>12, <2>1 DEF AgentFinishes
  <2>2. CASE Accepted
    <3>1. node = "agent_core" /\ happened = {} /\ turn_id' = turn_id
      BY <1>12, <2>2 DEF AgentFinishes
    <3>2. turn_id = sent
      BY <1>12, <2>2, <3>1 DEF AgentFinishes
    <3>3. \A row \in clarifications : row.turn_id # turn_id
      BY <3>1, <3>2
    <3>4. clarifications' = clarifications \cup AgentRows
      BY <1>12 DEF AgentFinishes
    <3>5. Caveat' <=> reply = "deferred"
      <4>1. CASE reply = "none"
        BY <3>1, <3>3, <3>4, <4>1 DEF AgentRows
      <4>2. CASE reply # "none"
        <5> DEFINE new == [id |-> sent, turn_id |-> turn_id, kind |-> reply]
        <5>1. AgentRows = {new} /\ new.turn_id = turn_id /\ new.kind = reply
          BY <4>2 DEF AgentRows
        <5> HIDE DEF new
        <5>2. clarifications' = clarifications \cup {new}
          BY <3>4, <5>1
        <5>3. QED
          BY <3>1, <3>3, <5>1, <5>2
      <4>3. QED
        BY <4>1, <4>2
    <3>6. "deferred" \in happened' <=> reply = "deferred"
      BY <1>12, <3>1 DEF AgentFinishes
    <3>7. QED
      BY <3>5, <3>6
  <2>3. QED
    BY <2>1, <2>2
<1>13. CASE MineFolds \/ MineReports \/ MineSkips
  BY <1>13 DEF MineFolds, MineReports, MineSkips
<1>14. CASE Stamp \/ Record
  BY <1>14 DEF Stamp, Stamps, Record
<1>15. CASE UNCHANGED vars
  BY <1>15 DEF vars
<1>16. QED
  BY <1>1, <1>2, <1>3, <1>4, <1>5, <1>6, <1>7, <1>8, <1>9, <1>10, <1>11, <1>12, <1>13, <1>14,
     <1>15
  DEF Next, Rail, Rest

(* A run that has ended stands or is sent round every costly node.         *)
LEMMA CostlyStep == IInv /\ [Next]_vars => NothingCostlyAfterTheEnd'
<1> SUFFICES ASSUME IInv, [Next]_vars PROVE NothingCostlyAfterTheEnd'
  OBVIOUS
<1> USE Edges, TheRail, TurnBounds DEF IInv, Did, Raised, Does, Keeps, Began, Write, settle,
    cleared, RESET, TERMINAL_PATH_KINDS, Successor, Ended, Costly, RailKeeps, Works, Moves,
    Stands, Guarded, TypeOK, PathKinds, Failures, NothingCostlyAfterTheEnd, EndsAreMarked,
    TurnsAreNumbered, Serving, Accepted, BeforeTheAgent
<1>1. CASE Ask \/ Cut
  BY <1>1 DEF Ask, Cut
<1>2. CASE AcceptRaises
  BY <1>2 DEF AcceptRaises
<1>3. CASE AcceptFindsNoQuestion \/ AcceptTurn
  BY <1>3 DEF AcceptFindsNoQuestion, ClearsTheTurn, AcceptTurn
<1>4. CASE PassesBy
  BY <1>4 DEF PassesBy
<1>5. ASSUME NEW n, RailRaises(n) PROVE NothingCostlyAfterTheEnd'
  BY <1>5 DEF RailRaises, MayRaise
<1>6. CASE Guard
  BY <1>6 DEF Guard
<1>7. CASE RunFacets
  BY <1>7 DEF RunFacets
<1>8. ASSUME NEW n, RailPasses(n) PROVE NothingCostlyAfterTheEnd'
  BY <1>8 DEF RailPasses
<1>9. ASSUME NEW n, Declines(n) PROVE NothingCostlyAfterTheEnd'
  BY <1>9 DEF Declines
<1>10. CASE refuse_node \/ decline_node
  BY <1>10 DEF refuse_node, Terminal, decline_node
<1>11. CASE AgentPauses \/ AgentResumes
  BY <1>11 DEF AgentPauses, AgentResumes
<1>12. CASE AgentStub
  BY <1>12 DEF AgentStub
<1>13. CASE AgentFinishes
  BY <1>13 DEF AgentFinishes, LedgerSays
<1>14. CASE MineFolds \/ MineReports \/ MineSkips
  BY <1>14 DEF MineFolds, MineReports, MineSkips
<1>15. CASE Stamp \/ Record
  BY <1>15 DEF Stamp, Stamps, Record
<1>16. CASE UNCHANGED vars
  BY <1>16 DEF vars
<1>17. QED
  BY <1>1, <1>2, <1>3, <1>4, <1>5, <1>6, <1>7, <1>8, <1>9, <1>10, <1>11, <1>12, <1>13, <1>14,
     <1>15, <1>16
  DEF Next, Rail, Rest
-----------------------------------------------------------------------------
(* The clarifications and the folds.                                       *)

(* A row is never ahead of the turn, and the agent appends the newest.     *)
LEMMA RowsStep == IInv /\ [Next]_vars => RowsBelongToTheirTurn'
<1> SUFFICES ASSUME IInv, [Next]_vars PROVE RowsBelongToTheirTurn'
  OBVIOUS
<1> USE DEF IInv, RowsBelongToTheirTurn
<1>1. /\ sent \in Nat /\ turn_id \in Nat /\ turn_id <= sent
      /\ \A row \in clarifications : row.id \in Nat /\ row.turn_id \in Nat
  BY TurnBounds DEF TypeOK, TurnsAreNumbered, Turns
<1>2. CASE Quiet
  <2>1. /\ sent' = sent /\ clarifications' = clarifications
        /\ turn_id' \in {turn_id, sent}
        /\ node' \in BeforeTheAgent \cup {"accept", "refuse", "decline"} =>
             node \in BeforeTheAgent \cup {"accept", "refuse", "decline"}
    BY <1>2, QuietStep DEF GoesOn
  <2>2. QED
    BY <1>1, <2>1
<1>3. CASE Ask
  BY <1>1, <1>3 DEF Ask
<1>4. CASE Cut
  BY <1>1, <1>4 DEF Cut, BeforeTheAgent
<1>5. CASE AgentFinishes
  <2>1. node' = "reflect"
    BY <1>5, Edges, TheRail DEF AgentFinishes, Moves
  <2>2. /\ sent' = sent /\ turn_id' = turn_id
        /\ clarifications' \subseteq
             clarifications \cup {[id |-> sent, turn_id |-> turn_id, kind |-> reply]}
    BY <1>5 DEF AgentFinishes, AgentRows, Keeps
  <2>3. QED
    BY <1>1, <2>1, <2>2 DEF BeforeTheAgent
<1>6. CASE MineFolds \/ MineReports
  BY <1>1, <1>6, TheRail DEF MineFolds, MineReports, Keeps, Successor, BeforeTheAgent
<1>7. CASE Stamp \/ Record
  BY <1>1, <1>7 DEF Stamp, Stamps, Record, BeforeTheAgent
<1>8. CASE UNCHANGED vars
  BY <1>1, <1>8 DEF vars
<1>9. QED
  BY <1>2, <1>3, <1>4, <1>5, <1>6, <1>7, <1>8, StepsAre

(* What mine_corpus folds and what it reports.                             *)
LEMMA FoldsStep == IInv /\ [Next]_vars => FoldsAreReported' /\ MinedOnceButForCuts'
<1> SUFFICES ASSUME IInv, [Next]_vars PROVE FoldsAreReported' /\ MinedOnceButForCuts'
  OBVIOUS
<1> USE DEF IInv, FoldsAreReported, MinedOnceButForCuts
<1>1. /\ sent \in Nat /\ cuts \in Nat /\ clarifications_mined \subseteq Turns
      /\ \A row \in clarifications : row.id \in Turns /\ row.id <= sent
      /\ \A t \in Turns : t \in Nat /\ folds[t] \in Nat
      /\ DOMAIN folds = Turns
  BY TurnBounds DEF TypeOK, RowsBelongToTheirTurn, Turns
<1>2. CASE Quiet
  <2>1. /\ UNCHANGED <<sent, cuts, clarifications, clarifications_mined, folds>>
        /\ node # "mine_corpus_reports" /\ node' # "mine_corpus_reports"
        /\ node' \in BeforeTheAgent \cup {"accept"} => node \in BeforeTheAgent \cup {"accept"}
    BY <1>2, QuietStep DEF GoesOn
  <2>2. QED
    BY <1>1, <2>1
<1>3. CASE Ask
  BY <1>1, <1>3 DEF Ask
<1>4. CASE Cut
  BY <1>1, <1>4 DEF Cut, BeforeTheAgent
<1>5. CASE AgentFinishes
  <2>1. node = "agent_core" /\ node' = "reflect"
    BY <1>5, Edges, TheRail DEF AgentFinishes, Moves, Works
  <2>2. /\ UNCHANGED <<sent, cuts, clarifications_mined, folds>>
        /\ \A row \in clarifications' : row \in clarifications \/ row.id = sent
    BY <1>5 DEF AgentFinishes, AgentRows, Keeps
  <2>3. sent \notin clarifications_mined
    BY <2>1 DEF BeforeTheAgent
  <2>4. QED
    BY <1>1, <2>1, <2>2, <2>3 DEF BeforeTheAgent
<1>6. CASE MineFolds
  <2>1. /\ node = "mine_corpus" /\ node' = "mine_corpus_reports"
        /\ UNCHANGED <<sent, cuts, clarifications, clarifications_mined>>
        /\ \A t \in Turns : folds'[t] = IF t \in Foldable(Pending) THEN folds[t] + 1 ELSE folds[t]
    BY <1>6 DEF MineFolds, Keeps
  <2>2. Foldable(Pending)' = Foldable(Pending)
    BY <2>1 DEF Foldable, Pending
  <2>3. \A t \in Foldable(Pending) : t \in Turns \ clarifications_mined
    BY <1>1 DEF Foldable, Pending
  <2>4. \A t \in Turns \ clarifications_mined : folds[t] <= cuts
    BY <1>1, <2>1
  <2>5. QED
    BY <1>1, <2>1, <2>2, <2>3, <2>4 DEF BeforeTheAgent
<1>7. CASE MineReports
  <2>1. /\ node = "mine_corpus_reports" /\ node' = "mine_mistakes"
        /\ UNCHANGED <<sent, cuts, clarifications, folds>>
        /\ clarifications_mined' = clarifications_mined \cup {row.id : row \in Pending}
    BY <1>7, TheRail DEF MineReports, Keeps, Successor
  <2>2. \A row \in clarifications :
          row.id \in clarifications_mined' /\ row.kind = "answered" =>
             row.id \in clarifications_mined \/ row.id \in Foldable(Pending)
    BY <2>1 DEF Foldable, Pending
  <2>3. \A t \in Turns \ clarifications_mined' : t \notin Foldable(Pending)
    BY <2>1 DEF Foldable
  <2>4. \A t \in clarifications_mined' : t <= sent
    BY <1>1, <2>1 DEF Pending
  <2>5. \A t \in Turns \ clarifications_mined' : folds[t] <= cuts
    BY <1>1, <2>1, <2>3
  <2>6. QED
    BY <1>1, <2>1, <2>2, <2>4, <2>5 DEF BeforeTheAgent
<1>8. CASE Stamp \/ Record
  BY <1>1, <1>8 DEF Stamp, Stamps, Record, BeforeTheAgent
<1>9. CASE UNCHANGED vars
  BY <1>1, <1>9 DEF vars, Foldable, Pending
<1>10. QED
  BY <1>2, <1>3, <1>4, <1>5, <1>6, <1>7, <1>8, <1>9, StepsAre
-----------------------------------------------------------------------------
(* The answer and the history.                                             *)

(* Only stamp leads to record.                                             *)
LEMMA ToRecord == TypeOK /\ [Next]_vars /\ node' = "record" => Stamp \/ UNCHANGED vars
<1> SUFFICES ASSUME TypeOK, [Next]_vars, node' = "record", ~(UNCHANGED vars) PROVE Stamp
  OBVIOUS
<1>1. ~Quiet
  BY QuietStep DEF GoesOn
<1>2. ~Ask /\ ~Cut /\ ~MineFolds /\ ~Record
  BY DEF Ask, Cut, MineFolds, Record
<1>3. ~AgentFinishes /\ ~MineReports
  BY Edges, TheRail DEF AgentFinishes, MineReports, Moves, Successor
<1>4. QED
  BY <1>1, <1>2, <1>3, StepsAre

(* What stamp writes is what the run did.                                  *)
LEMMA AnswerStep == IInv /\ [Next]_vars => AnswerIsTheTurns' /\ OutcomeTellsWhatHappened'
<1> SUFFICES ASSUME IInv, [Next]_vars, node' = "record"
             PROVE  AnswerIsTheTurns' /\ OutcomeTellsWhatHappened'
  BY DEF AnswerIsTheTurns, OutcomeTellsWhatHappened
<1> USE DEF IInv
<1>1. CASE UNCHANGED vars
  BY <1>1 DEF vars, AnswerIsTheTurns, OutcomeTellsWhatHappened, Verdict
<1>2. CASE Stamp
  <2> DEFINE a == [id |-> turn_id, outcome |-> Outcome(cleared(path_kind), cleared(failure)),
                   failed_stage |-> cleared(failure), caveat |-> Caveat, clock |-> turn_started_at]
  <2>1. node = "stamp" /\ answer' = {a} /\ UNCHANGED <<turn_id, historyVars>>
    BY <1>2 DEF Stamp, Stamps
  <2>2. Outcome(cleared(path_kind), cleared(failure)) = Verdict
    <3>1. CASE raisedAt # "none"
      <4>1. cleared(failure) # "none"
        BY <2>1, <3>1 DEF FailureIsTheFirst, Serving
      <4>2. QED
        BY <3>1, <4>1 DEF Outcome, Verdict
    <3>2. CASE raisedAt = "none"
      <4>1. Accepted /\ cleared(failure) = "none"
        BY <2>1, <3>2 DEF FailureIsTheFirst, Serving
      <4>2. \/ path_kind = "refuse" /\ happened = {"blocked"}
            \/ path_kind = "decline" /\ happened = {"declined"}
            \/ /\ path_kind = "answered" /\ happened \ {"deferred"} = {Ledger}
               /\ Ledger = "answered" => generated_sql
               /\ Ledger = "no_sql" => ~generated_sql
        BY <2>1, <3>2, <4>1 DEF ChannelsTell, AfterTheAgent
      <4>3. Ledger \in LedgerSays
        BY DEF Ledger, TypeOK, LedgerSays
      <4>4. CASE path_kind \in {"refuse", "decline"}
        BY <3>2, <4>1, <4>2, <4>4 DEF Outcome, Verdict, classify_outcome, cleared, RESET
      <4>5. CASE path_kind = "answered"
        <5>1. Outcome(cleared(path_kind), cleared(failure)) =
                classify_outcome(LedgerRefusal, generated_sql /\ LedgerRefusal = "none", Ledger)
          BY <4>1, <4>5 DEF Outcome, cleared, RESET
        <5>2. Verdict = IF "refused" \in happened THEN "refused"
                        ELSE IF "capped" \in happened THEN "capped"
                        ELSE IF "guardrail_error" \in happened THEN "crashed"
                        ELSE IF "answered" \in happened THEN "answered"
                        ELSE "no_sql"
          BY <3>2, <4>2, <4>3, <4>5 DEF Verdict, LedgerSays
        <5>3. \A t \in LedgerSays : t \in happened <=> t = Ledger
          BY <4>2, <4>3, <4>5 DEF LedgerSays
        <5>4. QED
          BY <4>2, <4>3, <4>5, <5>1, <5>2, <5>3 DEF classify_outcome, LedgerRefusal, LedgerSays
      <4>6. QED
        BY <4>2, <4>4, <4>5
    <3>3. QED
      BY <3>1, <3>2
  <2>3. "unaccepted" \notin happened =>
          cleared(failure) = raisedAt /\ (Caveat <=> "deferred" \in happened)
    BY <2>1 DEF FailureIsTheFirst, CaveatIsTheTurns, Accepted, Serving
  <2>4. AnswerIsTheTurns'
    BY <2>1 DEF AnswerIsTheTurns
  <2>5. Verdict' = Verdict
    BY <2>1 DEF Verdict
  <2>6. OutcomeTellsWhatHappened'
    BY <2>1, <2>2, <2>3, <2>5 DEF OutcomeTellsWhatHappened
  <2>7. QED
    BY <2>4, <2>6
<1>3. QED
  BY <1>1, <1>2, ToRecord

(* The history as the reducer's lemmas see it: rows, what was recorded, and *)
(* the turn the channels are about.                                        *)
GoodHistory(rows, ids, t) ==
    /\ InOrder(rows)
    /\ \A id \in ids : id <= t
    /\ ids = {} <=> Len(rows) = 0
    /\ \A i \in 1 .. Len(rows) : rows[i].id \in ids
    /\ t \in ids => rows[Len(rows)].id = t
    /\ Accounted(rows) = Cardinality(ids)

(* What the theorem library says of any rows and any set of turns.         *)
LEMMA TheHistory ==
    ASSUME NEW rows \in Seq(ArchivedRows), NEW ids \in SUBSET Turns, NEW t
    PROVE  /\ IsFiniteSet(ids) /\ Cardinality(ids) \in Nat
           /\ rows = << >> <=> Len(rows) = 0
           /\ Len(rows) \in Nat /\ DOMAIN rows = 1 .. Len(rows)
           /\ Cardinality(ids) = 0 <=> ids = {}
<1>1. IsFiniteSet(Turns)
  BY TurnBounds, FS_Interval DEF Turns
<1>2. IsFiniteSet(ids)
  BY <1>1, FS_Subset
<1>3. QED
  BY <1>2, FS_CardinalityType, FS_EmptySet, EmptySeq, LenProperties

(* Every step but record's leaves the history alone, and turn_id only      *)
(* grows.                                                                  *)
LEMMA HistoryKept ==
    IInv /\ [Next]_vars =>
       \/ Record
       \/ /\ UNCHANGED <<turns, recorded>>
          /\ turn_id' = turn_id \/ (turn_id' = sent /\ turn_id < sent)
<1> SUFFICES ASSUME IInv, [Next]_vars, ~Record
             PROVE  /\ UNCHANGED <<turns, recorded>>
                    /\ turn_id' = turn_id \/ (turn_id' = sent /\ turn_id < sent)
  OBVIOUS
<1>1. CASE Quiet
  BY <1>1, QuietStep DEF GoesOn, IInv, TurnsAreNumbered
<1>2. CASE Ask \/ Cut \/ AgentFinishes \/ MineFolds \/ MineReports
  BY <1>2 DEF Ask, Cut, AgentFinishes, MineFolds, MineReports, Keeps
<1>3. CASE Stamp
  BY <1>3 DEF Stamp, Stamps
<1>4. CASE UNCHANGED vars
  BY <1>4 DEF vars
<1>5. QED
  BY <1>1, <1>2, <1>3, <1>4, StepsAre

(* Recording a turn twice changes nothing; recording a new one appends it. *)
LEMMA HistoryStep ==
    IInv /\ [Next]_vars =>
       /\ turns' \in Seq(ArchivedRows) /\ Len(turns') <= MaxTurnsRetained
       /\ recorded' \subseteq Turns
       /\ HistoryEndsWithTheLast' /\ HistoryAccountsForEveryTurn'
<1> SUFFICES ASSUME IInv, [Next]_vars
             PROVE  /\ turns' \in Seq(ArchivedRows) /\ recorded' \subseteq Turns
                    /\ GoodHistory(turns, recorded, turn_id)'
  <2>1. ASSUME turns' \in Seq(ArchivedRows), recorded' \subseteq Turns,
               GoodHistory(turns, recorded, turn_id)'
        PROVE  /\ Len(turns') <= MaxTurnsRetained
               /\ HistoryEndsWithTheLast' /\ HistoryAccountsForEveryTurn'
    <3>1. /\ turns' = << >> <=> Len(turns') = 0
          /\ Len(turns') \in Nat /\ DOMAIN turns' = 1 .. Len(turns')
      BY <2>1, TheHistory
    <3>2. QED
      BY <2>1, <3>1 DEF HistoryEndsWithTheLast, HistoryAccountsForEveryTurn, GoodHistory,
                        InOrder, Accounted
  <2>2. QED
    BY <2>1
<1>1. /\ turns \in Seq(ArchivedRows) /\ recorded \subseteq Turns
      /\ IsFiniteSet(recorded) /\ Cardinality(recorded) \in Nat
      /\ GoodHistory(turns, recorded, turn_id)
  <2>1. turns \in Seq(ArchivedRows) /\ recorded \subseteq Turns
    BY DEF IInv, TypeOK, ArchivedRows
  <2>2. /\ IsFiniteSet(recorded) /\ Cardinality(recorded) \in Nat
        /\ turns = << >> <=> Len(turns) = 0
        /\ Len(turns) \in Nat /\ DOMAIN turns = 1 .. Len(turns)
        /\ Cardinality(recorded) = 0 <=> recorded = {}
    BY <2>1, TheHistory
  <2>3. HistoryEndsWithTheLast /\ HistoryAccountsForEveryTurn
    BY DEF IInv
  <2>4. QED
    BY <2>1, <2>2, <2>3 DEF HistoryEndsWithTheLast, HistoryAccountsForEveryTurn, GoodHistory,
                            InOrder, Accounted
<1> USE DEF GoodHistory
<1>2. turn_id \in Nat /\ sent \in Nat /\ \A id \in recorded : id \in Nat
  BY <1>1 DEF IInv, TypeOK, Turns
<1>3. CASE UNCHANGED <<turns, recorded>> /\ turn_id' = turn_id
  BY <1>1, <1>3
<1>4. CASE UNCHANGED <<turns, recorded>> /\ turn_id' = sent /\ turn_id < sent
  <2>1. turn_id' \notin recorded
    BY <1>1, <1>2, <1>4
  <2>2. \A id \in recorded : id <= turn_id'
    BY <1>1, <1>2, <1>4
  <2>3. QED
    BY <1>1, <1>4, <2>1, <2>2
<1>5. CASE Record
  <2>1. /\ turn_id' = turn_id
        /\ IF turn_id = 0
             THEN UNCHANGED <<turns, recorded>>
             ELSE /\ turns' = keep_turns(turns, Entry(turn_id))
                  /\ recorded' = recorded \cup {turn_id}
    <3>1. PICK a \in answer : answer = {a} /\ a.id = turn_id
      BY <1>5 DEF Record, IInv, AnswerIsTheTurns
    <3>2. QED
      BY <1>5, <3>1 DEF Record, Entry
  <2>2. CASE turn_id = 0
    BY <1>1, <2>1, <2>2
  <2>3. CASE turn_id # 0 /\ turn_id \in recorded
    <3>1. Len(turns) > 0 /\ turns[Len(turns)].id = turn_id
      BY <1>1, <2>3, RowsOf
    <3>2. turns' = turns /\ recorded' = recorded
      BY <1>1, <2>1, <2>3, <3>1, Rearchives
    <3>3. QED
      BY <1>1, <2>1, <3>2
  <2>4. CASE turn_id # 0 /\ turn_id \notin recorded
    <3>1. turn_id \in Turns
      BY <1>2, <2>4 DEF IInv, TypeOK, Turns
    <3>2. turns' = keep_turns(turns, Entry(turn_id)) /\ recorded' = recorded \cup {turn_id}
      BY <2>1, <2>4
    <3>3. \A i \in 1 .. Len(turns) : turns[i].id < turn_id
      BY <1>1, <1>2, <2>4
    <3>4. /\ turns' \in Seq(ArchivedRows) /\ InOrder(turns')
          /\ Len(turns') > 0 /\ turns'[Len(turns')].id = turn_id
          /\ \A i \in 1 .. Len(turns') :
               turns'[i].id = turn_id \/ \E j \in 1 .. Len(turns) : turns'[i].id = turns[j].id
          /\ Accounted(turns') = Accounted(turns) + 1
      BY <1>1, <3>1, <3>2, <3>3, Archives
    <3>5. Cardinality(recorded') = Cardinality(recorded) + 1
      BY <1>1, <2>4, <3>2, FS_AddElement
    <3>6. \A i \in 1 .. Len(turns') : turns'[i].id \in recorded'
      BY <1>1, <3>2, <3>4
    <3>7. \A id \in recorded' : id <= turn_id'
      BY <1>1, <1>2, <2>1, <3>2
    <3>8. recorded' # {} /\ Len(turns') # 0
      BY <3>2, <3>4
    <3>9. InOrder(turns)'
      BY <3>4 DEF InOrder
    <3>10. (Accounted(turns) = Cardinality(recorded))'
      BY <1>1, <3>4, <3>5 DEF Accounted
    <3>11. QED
      BY <1>1, <2>1, <3>1, <3>2, <3>4, <3>6, <3>7, <3>8, <3>9, <3>10
  <2>5. QED
    BY <2>2, <2>3, <2>4
<1>6. QED
  BY <1>3, <1>4, <1>5, HistoryKept
-----------------------------------------------------------------------------
(* Types, by what the variables are about.                                 *)
ThreadTyped == /\ node \in Nodes /\ sent \in 0 .. MaxTurns /\ cuts \in 0 .. MaxCuts
               /\ said \in {"nothing", "text", "spaces"}

EndsTyped == path_kind \in PathKinds /\ failure \in Failures

TurnTyped == /\ guard \in {"none", "clear", "blocked"}
             /\ execution \in LedgerSays \cup {"none"} /\ generated_sql \in BOOLEAN
             /\ turn_id \in 0 .. MaxTurns /\ turn_started_at \in 0 .. MaxTurns

ClarTyped == /\ clarifications \subseteq [id : Turns, turn_id : Turns, kind : ReplyKinds]
             /\ clarifications_mined \subseteq Turns
             /\ reply \in ReplyKinds \cup {"none"}
             /\ folds \in [Turns -> Nat]

AnswerTyped == answer \subseteq [id : 0 .. MaxTurns, outcome : Outcomes, caveat : BOOLEAN,
                                failed_stage : Stages \cup {"none"}, clock : 0 .. MaxTurns]

ArchiveTyped == /\ turns \in Seq([id : Turns, elided : Nat])
                /\ Len(turns) <= MaxTurnsRetained
                /\ recorded \subseteq Turns

HappenedTyped == /\ happened \subseteq
                      LedgerSays \cup {"unaccepted", "blocked", "declined", "deferred"}
                 /\ raisedAt \in Stages \cup {"none"}
                 /\ overrun \subseteq Costly

(* They are the parts of TypeOK.                                           *)
LEMMA Typed ==
    TypeOK <=> /\ ThreadTyped /\ EndsTyped /\ TurnTyped /\ ClarTyped /\ AnswerTyped
               /\ ArchiveTyped /\ HappenedTyped
BY DEF TypeOK, ThreadTyped, EndsTyped, TurnTyped, ClarTyped, AnswerTyped, ArchiveTyped,
       HappenedTyped

(* What a write to a channel of the end leaves in it.                      *)
LEMMA EndTypes ==
    /\ \A c, v \in PathKinds : Write(c, v) \in PathKinds
    /\ \A c, v \in Failures : Write(c, v) \in Failures
    /\ {"crashed", "refuse", "decline", "answered", RESET} \subseteq PathKinds
    /\ MayRaise \cup {"accept", "facets", RESET} \subseteq Failures
    /\ \A c \in Failures : cleared(c) \in Stages \cup {"none"}
BY DEF Write, settle, cleared, PathKinds, Failures, TERMINAL_PATH_KINDS, Stages

(* Whatever the channels hold, the answer has one of the five outcomes.    *)
LEMMA OutcomeTypes ==
    ASSUME NEW kind, NEW fault PROVE Outcome(kind, fault) \in Outcomes
BY DEF Outcome, classify_outcome, Outcomes

(* Every edge of the rail leads to a node.                                 *)
LEMMA ThreadStep == TypeOK /\ [Next]_vars => ThreadTyped'
<1> SUFFICES ASSUME TypeOK, [Next]_vars PROVE ThreadTyped'
  OBVIOUS
<1>1. ThreadTyped
  BY Typed
<1> USE DEF ThreadTyped
<1>2. CASE Quiet
  BY <1>1, <1>2, QuietStep DEF GoesOn
<1>3. CASE Ask \/ Cut
  BY <1>1, <1>3, TurnBounds DEF Ask, Cut, Nodes
<1>4. CASE AgentFinishes \/ MineFolds \/ MineReports
  BY <1>1, <1>4, Edges, TheRail
  DEF AgentFinishes, MineFolds, MineReports, Keeps, Moves, Successor, Nodes, MayRaise
<1>5. CASE Stamp \/ Record
  BY <1>1, <1>5 DEF Stamp, Stamps, Record, Nodes
<1>6. CASE UNCHANGED vars
  BY <1>1, <1>6 DEF vars
<1>7. QED
  BY <1>2, <1>3, <1>4, <1>5, <1>6, StepsAre

(* Every write to the end is a path kind or a stage.                       *)
LEMMA EndsTypeStep == EndsTyped /\ [Next]_vars => EndsTyped'
<1> SUFFICES ASSUME EndsTyped, [Next]_vars PROVE EndsTyped'
  OBVIOUS
<1> USE EndTypes DEF EndsTyped
<1>1. CASE Ask \/ Cut
  BY <1>1 DEF Ask, Cut
<1>2. CASE AcceptRaises \/ AcceptFindsNoQuestion \/ AcceptTurn
  BY <1>2 DEF AcceptRaises, AcceptFindsNoQuestion, ClearsTheTurn, AcceptTurn
<1>3. CASE PassesBy
  BY <1>3 DEF PassesBy
<1>4. ASSUME NEW n, RailRaises(n) PROVE EndsTyped'
  BY <1>4 DEF RailRaises, MayRaise
<1>5. CASE Guard \/ RunFacets
  BY <1>5 DEF Guard, RunFacets
<1>6. ASSUME NEW n, RailPasses(n) PROVE EndsTyped'
  BY <1>6 DEF RailPasses
<1>7. ASSUME NEW n, Declines(n) PROVE EndsTyped'
  BY <1>7 DEF Declines
<1>8. CASE refuse_node \/ decline_node
  BY <1>8 DEF refuse_node, Terminal, decline_node
<1>9. CASE AgentPauses \/ AgentResumes \/ AgentStub
  BY <1>9 DEF AgentPauses, AgentResumes, AgentStub
<1>10. CASE AgentFinishes
  <2>1. PICK died \in BOOLEAN :
          /\ path_kind' = Write(path_kind, IF died THEN "crashed" ELSE "answered")
          /\ failure' = IF died THEN Write(failure, "agent_core") ELSE failure
    BY <1>10 DEF AgentFinishes
  <2>2. "agent_core" \in Failures
    BY EndTypes DEF MayRaise
  <2>3. QED
    BY <2>1, <2>2
<1>11. CASE MineFolds \/ MineReports \/ MineSkips
  BY <1>11 DEF MineFolds, MineReports, MineSkips
<1>12. CASE Stamp \/ Record
  BY <1>12 DEF Stamp, Stamps, Record
<1>13. CASE UNCHANGED vars
  BY <1>13 DEF vars
<1>14. QED
  BY <1>1, <1>2, <1>3, <1>4, <1>5, <1>6, <1>7, <1>8, <1>9, <1>10, <1>11, <1>12, <1>13
  DEF Next, Rail, Rest

(* The channels of the turn keep their types.                              *)
LEMMA TurnTypeStep == ThreadTyped /\ TurnTyped /\ [Next]_vars => TurnTyped'
<1> SUFFICES ASSUME ThreadTyped, TurnTyped, [Next]_vars PROVE TurnTyped'
  OBVIOUS
<1> USE TurnBounds DEF TurnTyped, ThreadTyped, Began, RailKeeps, Works, Keeps
<1>1. CASE Ask
  BY <1>1 DEF Ask
<1>2. CASE Cut
  BY <1>2 DEF Cut
<1>3. CASE AcceptRaises
  BY <1>3 DEF AcceptRaises
<1>4. CASE AcceptFindsNoQuestion
  BY <1>4 DEF AcceptFindsNoQuestion, ClearsTheTurn
<1>5. CASE AcceptTurn
  BY <1>5 DEF AcceptTurn, ClearsTheTurn
<1>6. CASE PassesBy
  BY <1>6 DEF PassesBy
<1>7. ASSUME NEW n, RailRaises(n) PROVE TurnTyped'
  BY <1>7 DEF RailRaises, MayRaise
<1>8. CASE Guard
  BY <1>8 DEF Guard
<1>9. CASE RunFacets
  BY <1>9 DEF RunFacets
<1>10. ASSUME NEW n, RailPasses(n) PROVE TurnTyped'
  BY <1>10 DEF RailPasses
<1>11. ASSUME NEW n, Declines(n) PROVE TurnTyped'
  BY <1>11 DEF Declines
<1>12. CASE refuse_node \/ decline_node
  BY <1>12 DEF refuse_node, Terminal, decline_node
<1>13. CASE AgentPauses
  BY <1>13 DEF AgentPauses
<1>14. CASE AgentResumes
  BY <1>14 DEF AgentResumes
<1>15. CASE AgentStub
  BY <1>15 DEF AgentStub
<1>16. CASE AgentFinishes
  BY <1>16 DEF AgentFinishes, LedgerSays
<1>17. CASE MineFolds \/ MineReports \/ MineSkips
  BY <1>17 DEF MineFolds, MineReports, MineSkips
<1>18. CASE Stamp \/ Record
  BY <1>18 DEF Stamp, Stamps, Record
<1>19. CASE UNCHANGED vars
  BY <1>19 DEF vars
<1>20. QED
  BY <1>1, <1>2, <1>3, <1>4, <1>5, <1>6, <1>7, <1>8, <1>9, <1>10, <1>11, <1>12, <1>13, <1>14,
     <1>15, <1>16, <1>17, <1>18, <1>19
  DEF Next, Rail, Rest

(* The record of what the run did keeps its type.                          *)
LEMMA HappenedTypeStep == ClarTyped /\ HappenedTyped /\ [Next]_vars => HappenedTyped'
<1> SUFFICES ASSUME ClarTyped, HappenedTyped, [Next]_vars PROVE HappenedTyped'
  OBVIOUS
<1> USE DEF HappenedTyped, ClarTyped, Stages, ReplyKinds, Did, Raised, Does, Works, RailKeeps,
    Keeps
<1>1. CASE Ask
  BY <1>1 DEF Ask
<1>2. CASE Cut
  BY <1>2 DEF Cut
<1>3. CASE AcceptRaises
  BY <1>3 DEF AcceptRaises
<1>4. CASE AcceptFindsNoQuestion
  BY <1>4 DEF AcceptFindsNoQuestion, ClearsTheTurn
<1>5. CASE AcceptTurn
  BY <1>5 DEF AcceptTurn, ClearsTheTurn
<1>6. CASE PassesBy
  BY <1>6 DEF PassesBy
<1>7. ASSUME NEW n, RailRaises(n) PROVE HappenedTyped'
  BY <1>7 DEF RailRaises, MayRaise
<1>8. CASE Guard
  BY <1>8 DEF Guard
<1>9. CASE RunFacets
  BY <1>9 DEF RunFacets
<1>10. ASSUME NEW n, RailPasses(n) PROVE HappenedTyped'
  BY <1>10 DEF RailPasses
<1>11. ASSUME NEW n, Declines(n) PROVE HappenedTyped'
  BY <1>11 DEF Declines
<1>12. CASE refuse_node \/ decline_node
  BY <1>12 DEF refuse_node, Terminal, decline_node
<1>13. CASE AgentPauses
  BY <1>13 DEF AgentPauses
<1>14. CASE AgentResumes
  BY <1>14 DEF AgentResumes
<1>15. CASE AgentStub
  BY <1>15 DEF AgentStub, LedgerSays
<1>16. CASE AgentFinishes
  <2>1. PICK terminal \in LedgerSays, died \in BOOLEAN :
          Does({terminal} \cup ({reply} \cap {"deferred"}), died)
    BY <1>16 DEF AgentFinishes
  <2>2. "agent_core" \in Stages /\ node = "agent_core"
    BY <1>16 DEF AgentFinishes, MayRaise
  <2>3. QED
    BY <2>1, <2>2
<1>17. CASE MineFolds \/ MineReports \/ MineSkips
  BY <1>17 DEF MineFolds, MineReports, MineSkips
<1>18. CASE Stamp \/ Record
  BY <1>18 DEF Stamp, Stamps, Record
<1>19. CASE UNCHANGED vars
  BY <1>19 DEF vars
<1>20. QED
  BY <1>1, <1>2, <1>3, <1>4, <1>5, <1>6, <1>7, <1>8, <1>9, <1>10, <1>11, <1>12, <1>13, <1>14,
     <1>15, <1>16, <1>17, <1>18, <1>19
  DEF Next, Rail, Rest

(* Only a run that accept admitted reaches the agent, so a row names a     *)
(* turn.                                                                   *)
LEMMA ClarTypeStep == IInv /\ [Next]_vars => ClarTyped'
<1> SUFFICES ASSUME IInv, [Next]_vars PROVE ClarTyped'
  OBVIOUS
<1>1. ClarTyped
  BY Typed DEF IInv
<1>2. reply' \in ReplyKinds \cup {"none"}
  <2>1. reply' \in ReplyKinds \cup {"none", reply}
    BY
    DEF Next, Rail, Rest, Ask, Cut, AcceptRaises, AcceptFindsNoQuestion, AcceptTurn, PassesBy,
        RailRaises, Guard, RailPasses, RunFacets, Declines, refuse_node, decline_node, Terminal,
        AgentPauses, AgentResumes, AgentFinishes, AgentStub, MineFolds, MineReports, MineSkips,
        Stamp, Stamps, Record, RailKeeps, vars
  <2>2. QED
    BY <1>1, <2>1 DEF ClarTyped
<1> USE DEF ClarTyped
<1>3. CASE Quiet
  BY <1>1, <1>2, <1>3, QuietStep DEF GoesOn, IInv
<1>4. CASE Ask \/ Cut
  BY <1>1, <1>2, <1>4 DEF Ask, Cut
<1>5. CASE AgentFinishes
  <2>1. node = "agent_core" /\ turn_id \in Turns /\ sent \in Turns
    BY <1>5 DEF AgentFinishes, Works, IInv, TypeOK, TurnsAreNumbered, Turns
  <2>2. AgentRows \subseteq [id : Turns, turn_id : Turns, kind : ReplyKinds]
    BY <1>1, <2>1 DEF AgentRows
  <2>3. QED
    BY <1>1, <1>2, <1>5, <2>2 DEF AgentFinishes
<1>6. CASE MineFolds
  BY <1>1, <1>2, <1>6 DEF MineFolds
<1>7. CASE MineReports
  BY <1>1, <1>2, <1>7 DEF MineReports, Pending
<1>8. CASE Stamp \/ Record
  BY <1>1, <1>2, <1>8 DEF Stamp, Stamps, Record
<1>9. CASE UNCHANGED vars
  BY <1>1, <1>9 DEF vars
<1>10. QED
  BY <1>3, <1>4, <1>5, <1>6, <1>7, <1>8, <1>9, StepsAre

(* stamp writes the answer and accept clears it.                           *)
LEMMA AnswerTypeStep == TypeOK /\ [Next]_vars => AnswerTyped'
<1> SUFFICES ASSUME TypeOK, [Next]_vars PROVE AnswerTyped'
  OBVIOUS
<1>1. /\ turn_id \in 0 .. MaxTurns /\ turn_started_at \in 0 .. MaxTurns
      /\ failure \in Failures /\ AnswerTyped
  BY Typed DEF TurnTyped, EndsTyped
<1>2. CASE Stamp
  <2>1. Caveat \in BOOLEAN
    BY DEF Caveat
  <2>2. QED
    BY <1>1, <1>2, <2>1, EndTypes, OutcomeTypes DEF Stamp, Stamps, AnswerTyped
<1>3. CASE ~Stamp
  <2>1. CASE Ask \/ Cut \/ AgentFinishes \/ MineFolds \/ MineReports \/ Record \/ UNCHANGED vars
    BY <1>1, <2>1
    DEF Ask, Cut, AgentFinishes, MineFolds, MineReports, Record, vars, Keeps, AnswerTyped
  <2>2. CASE Quiet
    <3>1. answer' \in {answer, {}}
      BY <2>2
      DEF Quiet, AcceptRaises, AcceptFindsNoQuestion, AcceptTurn, PassesBy, RailRaises, Guard,
          RailPasses, RunFacets, Declines, refuse_node, decline_node, Terminal, AgentPauses,
          AgentResumes, AgentStub, MineSkips, ClearsTheTurn, RailKeeps, Keeps
    <3>2. QED
      BY <1>1, <3>1 DEF AnswerTyped
  <2>3. QED
    BY <1>3, <2>1, <2>2, StepsAre
<1>4. QED
  BY <1>2, <1>3

(* Together, with the history from HistoryStep.                            *)
LEMMA TypeStep == IInv /\ [Next]_vars => TypeOK'
<1> SUFFICES ASSUME IInv, [Next]_vars PROVE TypeOK'
  OBVIOUS
<1>1. TypeOK
  BY DEF IInv
<1>2. ThreadTyped /\ EndsTyped /\ TurnTyped /\ ClarTyped /\ HappenedTyped
  BY <1>1, Typed
<1>3. ArchiveTyped'
  BY HistoryStep DEF ArchiveTyped, ArchivedRows
<1>4. ThreadTyped' /\ EndsTyped' /\ TurnTyped' /\ ClarTyped' /\ AnswerTyped' /\ HappenedTyped'
  BY <1>1, <1>2, ThreadStep, EndsTypeStep, TurnTypeStep, ClarTypeStep, AnswerTypeStep,
     HappenedTypeStep
<1>5. QED
  BY <1>3, <1>4
  DEF TypeOK, ThreadTyped, EndsTyped, TurnTyped, ClarTyped, AnswerTyped, ArchiveTyped,
      HappenedTyped
-----------------------------------------------------------------------------
(* The invariant holds at the start and every step keeps it.               *)
LEMMA Starts == Init => IInv
<1> SUFFICES ASSUME Init PROVE IInv
  OBVIOUS
<1> USE DEF Init
<1>1. TypeOK
  <2>1. ThreadTyped
    BY TurnBounds DEF ThreadTyped, Nodes
  <2>2. EndsTyped
    BY DEF EndsTyped, PathKinds, Failures
  <2>3. TurnTyped
    <3>1. generated_sql \in BOOLEAN
      BY Zenon
    <3>2. QED
      BY <3>1, TurnBounds DEF TurnTyped
  <2>4. ClarTyped /\ AnswerTyped /\ HappenedTyped
    BY DEF ClarTyped, AnswerTyped, HappenedTyped
  <2>5. ArchiveTyped
    BY RetentionAssumption DEF ArchiveTyped
  <2>6. QED
    BY <2>1, <2>2, <2>3, <2>4, <2>5, Typed
<1>2. TurnsAreNumbered /\ FailureIsTheFirst /\ EndsAreMarked /\ ChannelsTell /\ CaveatIsTheTurns
  BY DEF TurnsAreNumbered, FailureIsTheFirst, EndsAreMarked, ChannelsTell, CaveatIsTheTurns,
         Accepted, Serving, BeforeTheAgent, AfterTheAgent
<1>3. RowsBelongToTheirTurn /\ FoldsAreReported /\ MinedOnceButForCuts
  BY DEF RowsBelongToTheirTurn, FoldsAreReported, MinedOnceButForCuts, BeforeTheAgent
<1>4. HistoryEndsWithTheLast /\ HistoryAccountsForEveryTurn
  BY RetentionAssumption DEF HistoryEndsWithTheLast, HistoryAccountsForEveryTurn
<1>5. AnswerIsTheTurns /\ NothingCostlyAfterTheEnd /\ OutcomeTellsWhatHappened
  BY DEF AnswerIsTheTurns, NothingCostlyAfterTheEnd, OutcomeTellsWhatHappened
<1>6. QED
  BY <1>1, <1>2, <1>3, <1>4, <1>5 DEF IInv

(* The invariant holds of every reachable state.                           *)
THEOREM ServeTurnInvariance == Spec => []IInv
<1>1. IInv /\ [Next]_vars => IInv'
  <2> SUFFICES ASSUME IInv, [Next]_vars PROVE IInv'
    OBVIOUS
  <2>1. TypeOK'
    BY TypeStep
  <2>2. /\ TurnsAreNumbered' /\ FailureIsTheFirst' /\ EndsAreMarked' /\ ChannelsTell'
        /\ CaveatIsTheTurns' /\ NothingCostlyAfterTheEnd'
    BY NumbersStep, FailureStep, EndsStep, ChannelsStep, CaveatStep, CostlyStep
  <2>3. RowsBelongToTheirTurn' /\ FoldsAreReported' /\ MinedOnceButForCuts'
    BY RowsStep, FoldsStep
  <2>4. /\ HistoryEndsWithTheLast' /\ HistoryAccountsForEveryTurn'
        /\ AnswerIsTheTurns' /\ OutcomeTellsWhatHappened'
    BY HistoryStep, AnswerStep
  <2>5. QED
    BY <2>1, <2>2, <2>3, <2>4 DEF IInv
<1>2. QED
  BY Starts, <1>1, PTL DEF Spec

(* Every variable of the thread has its type in every reachable state.     *)
THEOREM ServeTurnTypeCorrect == Spec => []TypeOK
<1>1. IInv => TypeOK
  BY DEF IInv
<1>2. QED
  BY <1>1, ServeTurnInvariance, PTL

(* Once an admitted turn has crashed, been blocked or declined, no node    *)
(* behind that searches, calls a model or sends a statement, however many  *)
(* turns the thread served before and wherever they were cut.              *)
THEOREM NothingIsSpentAfterTheEnd == Spec => []NothingCostlyAfterTheEnd
<1>1. IInv => NothingCostlyAfterTheEnd
  BY DEF IInv
<1>2. QED
  BY <1>1, ServeTurnInvariance, PTL

(* The outcome stamp derives from the channels is the one that follows     *)
(* from what the run did, whatever earlier turns left in the channels.     *)
THEOREM OutcomesAreTrue == Spec => []OutcomeTellsWhatHappened
<1>1. IInv => OutcomeTellsWhatHappened
  BY DEF IInv
<1>2. QED
  BY <1>1, ServeTurnInvariance, PTL

(* For every retention cap of at least two turns, the archived rows and    *)
(* the count of dropped ones add up to the turns ever recorded.            *)
THEOREM HistoryIsComplete == Spec => []HistoryAccountsForEveryTurn
<1>1. IInv => HistoryAccountsForEveryTurn
  BY DEF IInv
<1>2. QED
  BY <1>1, ServeTurnInvariance, PTL

(* A clarification is folded into the corpus once more than there were     *)
(* cuts at most, and none is reported as mined that was not folded.        *)
THEOREM MinedOnce == Spec => []MinedOnceButForCuts
<1>1. IInv => MinedOnceButForCuts
  BY DEF IInv
<1>2. QED
  BY <1>1, ServeTurnInvariance, PTL
=============================================================================
