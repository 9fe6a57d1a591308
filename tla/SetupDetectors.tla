--------------------------- MODULE SetupDetectors ---------------------------
(***************************************************************************)
(* The questions one scan derives: near-duplicate columns and joins nobody *)
(* declared, objects nobody described, terms and codes nobody explained    *)
(* (curator/gaps.py, gap_joins.py, elicitation.py, elicitation_terms.py),  *)
(* and which of them must wait for which (candidate_rules.py).  A world is *)
(* w, what the database answers and the session's corpus declares.         *)
(***************************************************************************)
EXTENDS SetupSchema

Scope(kind, of) == [kind |-> kind, of |-> of]
----------------------------------------------------------------------------
(***************************************************************************)
(* The governed reads.  A layer refuses an excluded column, and a suspect  *)
(* one under hard_block_suspect; the driver may fail; either way there is  *)
(* no measurement and nothing is read another way.                         *)
(***************************************************************************)
Measurable(w, c) ==
    /\ c \notin w.excluded
    /\ ~(HardBlockSuspect /\ c \in w.suspect)
    /\ c \notin w.unreadable

\* read_observed_values: how many distinct values came back, capped.
observed(w, c) ==
    IF ~Measurable(w, c) THEN 0
    ELSE IF w.distinct[c] < SampleMax THEN w.distinct[c] ELSE SampleMax

values_overlap(w, c, d) ==
    observed(w, c) > 0 /\ observed(w, d) > 0 /\ w.domain[c] = w.domain[d]

_live_tables(w) == Tables \ w.excluded
_columns_of(t) == {c \in Columns : TableOf[c] = t}
columns_by_table(w, t) == _columns_of(t) \ w.excluded
LiveColumns(w) == UNION {_columns_of(t) : t \in _live_tables(w)}
ScannedColumns(w) == LiveColumns(w) \ w.excluded

(***************************************************************************)
(* A candidate question.  names: the columns its target and its choices    *)
(* name; says: its severity, and what its text quotes.                     *)
(***************************************************************************)
Candidate(scope, category, severity, quotes, names) ==
    [scope |-> scope, category |-> category, says |-> <<severity>> \o quotes,
     names |-> names, blocked_by |-> {}]

(***************************************************************************)
(* Near-duplicate columns (gaps.py, S3).  The pairs compared are the first *)
(* so many live ones of Alike, given by their places in it.                *)
(***************************************************************************)
comparison_candidates(w) ==
    LET live == {i \in DOMAIN Alike : Alike[i] \subseteq ScannedColumns(w)}
    IN {i \in live : Cardinality({j \in live : j < i}) < MaxPairComparisons}

agreements(w) ==
    {p \in {Alike[i] : i \in comparison_candidates(w)} : \A c \in p : Measurable(w, c)}

_comparable_vocabularies(w, c, d) ==
    LET m == w.distinct[c]
        n == w.distinct[d]
    IN 2 * m >= n /\ 2 * n >= m

Copies(w) == {p \in agreements(w) : \A c, d \in p : _comparable_vocabularies(w, c, d)}
Disagree(w, p) == w.differing[p] # "none"

_parallel_frame(w, p) ==
    \E s \in SiblingsOf[p] \cap ScannedColumns(w) \cap UNION agreements(w) :
        \E c \in p : _comparable_vocabularies(w, s, c)

Severity(w, p) ==
    CASE ~Disagree(w, p) -> "T4"
      [] Disagree(w, p) /\ _parallel_frame(w, p) -> "T2"
      [] OTHER -> "T1"

_duplicate_records(w) ==
    {Candidate(Scope("duplicate", p), "D", Severity(w, p), <<w.differing[p]>>, p) :
        p \in Copies(w)}

ContestedPairs(w) == {p \in Copies(w) : Severity(w, p) = "T1"}
Contested(w) == UNION ContestedPairs(w)

\* A column of two contested pairs waits on the one written last.
gated_columns(w) ==
    LET places(c) == {i \in comparison_candidates(w) :
                          Alike[i] \in ContestedPairs(w) /\ c \in Alike[i]}
        last(c) == CHOOSE i \in places(c) : \A j \in places(c) : j <= i
    IN [c \in Contested(w) |-> Scope("duplicate", Alike[last(c)])]

(***************************************************************************)
(* Undeclared joins (gap_joins.py, S2).                                    *)
(***************************************************************************)
unjoined_pairs(w) ==
    {p \in {{s, t} : s, t \in _live_tables(w)} : Cardinality(p) = 2 /\ p \notin w.joined}

KeyMatch(w, from, target) ==
    [from |-> from, into |-> TableOf[target], target |-> target,
     sources |-> {c \in columns_by_table(w, from) :
                      {c, target} \in AlikeAcross /\ values_overlap(w, c, target)}]

key_matches(w) ==
    {m \in {KeyMatch(w, t, c) : t \in _live_tables(w), c \in ScannedColumns(w)} :
        {m.from, m.into} \in unjoined_pairs(w) /\ m.sources # {}}

measure_keys(w) ==
    LET matched == {m.target : m \in key_matches(w)}
        targets == SelectSeq(ById, LAMBDA c : c \in matched)
        probed == {targets[i] : i \in {k \in DOMAIN targets : k <= MaxKeyProbes}}
    IN {c \in probed : Measurable(w, c) /\ 100 * w.distinct[c] >= 85 * w.rows[TableOf[c]]}

_disagreeing_pairs(w, sources) == {p \in agreements(w) : p \subseteq sources /\ Disagree(w, p)}

join_records(w) ==
    LET keys == measure_keys(w)
        keyed == {m \in key_matches(w) : m.target \in keys}
        ambiguous == {m \in keyed : _disagreeing_pairs(w, m.sources) # {}}
        between(p) == {m \in ambiguous : {m.from, m.into} = p}
        first(p) == CHOOSE m \in between(p) : TRUE
        quoted(p) == <<w.differing[CHOOSE d \in _disagreeing_pairs(w, first(p).sources) : TRUE],
                      ToString(Cardinality(first(p).sources))>>
    IN {Candidate(Scope("joinkeys", p), "D", "T1", quoted(p), first(p).sources) :
            p \in {q \in unjoined_pairs(w) : between(q) # {}}}
       \cup
       UNION {{Candidate(Scope("joinkey", {c, m.into}), "D", "T3", <<"key">>, {c}) :
                   c \in m.sources \cap ScannedColumns(w)} :
                  m \in {x \in keyed \ ambiguous : between({x.from, x.into}) = {}}}

(***************************************************************************)
(* Undescribed and suspect objects (gaps.py, S1 and S4).                   *)
(***************************************************************************)
undescribed(w, t) == columns_by_table(w, t) \ w.described

_coverage_records(w) ==
    {Candidate(Scope("describetable", {t}), "A", "T4", <<"table">>, {}) :
        t \in _live_tables(w) \ w.described}
    \cup
    {Candidate(Scope("describecolumns", {t}), "A", "T4",
               <<ToString(Cardinality(undescribed(w, t)))>>, {}) :
        t \in {u \in _live_tables(w) : undescribed(w, u) # {}}}

_reliability_records(w) ==
    {Candidate(Scope("reliability", {c}), "A", "T3", <<"flag">>, {c}) :
        c \in ScannedColumns(w) \cap w.suspect}

detect_structural_gaps(w) ==
    _duplicate_records(w) \cup join_records(w) \cup _coverage_records(w) \cup _reliability_records(w)
----------------------------------------------------------------------------
(***************************************************************************)
(* The keyword generator (elicitation.py, elicitation_terms.py).  It asks  *)
(* about excluded columns too, whose values it could not read.             *)
(***************************************************************************)
term_candidates(w, term) == Named[term] \cap LiveColumns(w)

propose_term_questions(w) ==
    LET asked == {t \in Terms : term_candidates(w, t) # {}}
        paired == {t \in asked : Cardinality(term_candidates(w, t)) > 1}
        biz(t) == Candidate(Scope("term", {t}), "A", "T2", <<"plain">>, term_candidates(w, t))
        eng(t) == [Candidate(Scope("termcolumn", {t}), "A", "T2", <<"plain">>, term_candidates(w, t))
                       EXCEPT !.blocked_by = IF t \in paired THEN {Scope("term", {t})} ELSE {}]
    IN {biz(t) : t \in paired} \cup {eng(t) : t \in asked}

_propose_c(w) ==
    IF DateLike \cap LiveColumns(w) = {} THEN {}
    ELSE {Candidate(Scope("rule", {}), "C", "T2", <<"plain">>, {})}

HasSentinel(w, c) == observed(w, c) > 0 /\ c \in w.sentinel

_propose_e(w) ==
    {Candidate(Scope("exclusion", {c}), "E", "T2", <<"plain">>, {c}) :
        c \in {d \in LiveColumns(w) \cap StatusNamed : HasSentinel(w, d)}}

_groups_or_averages(w, c) == c \in Numeric \/ (1 < observed(w, c) /\ observed(w, c) < SampleMax)

_propose_s6(w) ==
    {Candidate(Scope("sentinel", {c}), "E", "T2", <<"plain">>, {c}) :
        c \in {d \in LiveColumns(w) \ StatusNamed : HasSentinel(w, d) /\ _groups_or_averages(w, d)}}

_propose_b(w) ==
    {Candidate(Scope("valuemap", {c}), "B", "T2", <<"plain">>, {c}) :
        c \in {d \in LiveColumns(w) \cap Categorical :
                  1 < observed(w, d) /\ observed(w, d) <= BMaxDistinct}}

generate_candidate_questions(w) ==
    propose_term_questions(w) \cup _propose_c(w)
    \cup _propose_e(w) \cup _propose_s6(w) \cup _propose_b(w)
----------------------------------------------------------------------------
(***************************************************************************)
(* Who waits for whom: a question about a mapping, a code or an exclusion  *)
(* on a contested column waits for the question about the pair.            *)
(***************************************************************************)
_GATED_CATEGORIES == {"A", "B", "E"}

Gates(w, q) == {gated_columns(w)[c] : c \in q.names \cap Contested(w)} \ {q.scope}

apply_cluster_dependencies_of_targets(w, candidates) ==
    {IF q.category \in _GATED_CATEGORIES /\ Cardinality(q.names) = 1
       THEN [q EXCEPT !.blocked_by = @ \cup Gates(w, q)]
       ELSE q : q \in candidates}

apply_cluster_dependencies(w, candidates) ==
    {IF q.category \in _GATED_CATEGORIES
       THEN [q EXCEPT !.blocked_by = @ \cup Gates(w, q)]
       ELSE q : q \in candidates}

Derived(w) ==
    apply_cluster_dependencies(w, detect_structural_gaps(w) \cup generate_candidate_questions(w))
=============================================================================
