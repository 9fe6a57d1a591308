---------------------------- MODULE SetupSchema ----------------------------
(***************************************************************************)
(* What names look like to the setup wizard: which columns of a database   *)
(* read alike, share a frame, or carry a term or a status word, and the    *)
(* limits a scan keeps to (curator/gaps.py, gap_signals.py).               *)
(***************************************************************************)
EXTENDS Naturals, Sequences, SequencesExt, FiniteSets, TLC

CONSTANTS
    Tables, TableOf,      \* TableOf: column -> its table
    ById,                 \* the columns, in the order of their names
    Alike,                \* comparison candidates, most similar first
    SiblingsOf,           \* candidate -> columns that wear its naming frame
    AlikeAcross,          \* pairs of columns of two tables that read alike
    Named,                \* ambiguous term -> columns named after it
    Categorical, StatusNamed, DateLike, Numeric,
    BMaxDistinct, SampleMax, MaxPairComparisons, MaxKeyProbes,
    HardBlockSuspect

Columns == DOMAIN TableOf
Terms   == DOMAIN Named

ASSUME ScanAssumption ==
    /\ IsFiniteSet(Tables) /\ IsFiniteSet(Columns) /\ IsFiniteSet(Terms)
    /\ Alike \in Seq(SUBSET Columns)
    /\ \A c \in Columns : TableOf[c] \in Tables
    /\ \A p \in Range(Alike) : \E c, d \in p :
           c # d /\ p = {c, d} /\ TableOf[c] = TableOf[d]
    /\ \A p \in AlikeAcross : \E c, d \in p : p = {c, d} /\ TableOf[c] # TableOf[d]
    /\ Range(ById) = Columns /\ DOMAIN SiblingsOf = Range(Alike)
    /\ BMaxDistinct < SampleMax
=============================================================================
