--------------------------- MODULE SetupScanProofs ---------------------------
(***************************************************************************)
(* What holds of the setup wizard for any database, any worlds and any     *)
(* number of scans, answers and changes: first of what one scan derives,   *)
(* then of the ledger and the report it is written to.                     *)
(***************************************************************************)
EXTENDS SetupScan, FiniteSetTheorems, SequenceTheorems, WellFoundedInduction, TLAPS

\* A set of numbers has a least one.
LEMMA Least ==
    ASSUME NEW T \in SUBSET Nat, T # {}
    PROVE  \E n \in T : \A m \in T : n <= m
<1>1. PICK n \in T : \A m \in T : ~(<<m, n>> \in OpToRel(<, Nat))
    BY NatLessThanWellFounded, WFMin
<1>2. \A m \in T : ~(m < n)
    BY <1>1 DEF OpToRel
<1>3. \A m \in T : m \in Nat /\ n \in Nat
    OBVIOUS
<1>. QED BY <1>2, <1>3

\* A set that holds 0 and, with each number below k, the next, holds all up to k.
LEMMA UpTo ==
    ASSUME NEW k \in Nat, NEW T, 0 \in T, \A n \in 0 .. k : n \in T /\ n < k => n + 1 \in T
    PROVE  0 .. k \subseteq T
<1>. SUFFICES ASSUME (0 .. k) \ T # {} PROVE FALSE
    OBVIOUS
<1>1. PICK n \in (0 .. k) \ T : \A m \in (0 .. k) \ T : n <= m
    <2>1. (0 .. k) \ T \in SUBSET Nat
        OBVIOUS
    <2>. QED BY <2>1, Least
<1>2. n # 0 /\ n - 1 \in 0 .. k /\ n - 1 < k /\ ~(n <= n - 1) /\ (n - 1) + 1 = n
    BY <1>1
<1>3. n - 1 \in T
    BY <1>1, <1>2
<1>. QED BY <1>1, <1>2, <1>3

\* f lists the results of applying F over and over, from a on.
Iterated(f, F, a, k) == \A n \in 0 .. k : f[n] = IF n = 0 THEN a ELSE F[f[n - 1]]

LEMMA Iterates ==
    ASSUME NEW A, NEW F \in [A -> A], NEW a \in A, NEW N \in Nat
    PROVE  \E f \in [0 .. N -> A] : Iterated(f, F, a, N)
<1>. DEFINE Runs(f, k) == f \in [0 .. k -> A] /\ Iterated(f, F, a, k)
            T == {k \in 0 .. N : \E f : Runs(f, k)}
<1>1. 0 \in T
    <2>1. Runs([n \in 0 .. 0 |-> a], 0)
        BY DEF Iterated
    <2>2. 0 \in 0 .. N
        OBVIOUS
    <2>. HIDE DEF Runs
    <2>. QED BY <2>1, <2>2
<1>2. ASSUME NEW k \in 0 .. N, k \in T, k < N PROVE k + 1 \in T
    <2>1. PICK f : Runs(f, k)
        BY <1>2
    <2>. DEFINE g == [n \in 0 .. (k + 1) |-> IF n = k + 1 THEN F[f[k]] ELSE f[n]]
    <2>2. f[k] \in A /\ F[f[k]] \in A
        BY <2>1
    <2>3. g \in [0 .. (k + 1) -> A]
        BY <2>1, <2>2
    <2>4. ASSUME NEW n \in 0 .. (k + 1) PROVE g[n] = IF n = 0 THEN a ELSE F[g[n - 1]]
        <3>1. CASE n = k + 1
            BY <3>1
        <3>2. CASE n # k + 1
            BY <2>1, <3>2 DEF Iterated
        <3>. QED BY <3>1, <3>2
    <2>5. Runs(g, k + 1)
        BY <2>3, <2>4 DEF Iterated
    <2>6. k + 1 \in 0 .. N
        BY <1>2
    <2>. QED BY <2>5, <2>6
<1>. HIDE DEF T
<1>3. N \in T
    BY <1>1, <1>2, UpTo
<1>. QED BY <1>3 DEF T

-----------------------------------------------------------------------------
(* What one scan derives.                                                  *)

\* The candidates before they are made to wait.
Raw(w) == detect_structural_gaps(w) \cup generate_candidate_questions(w)

Kinds == {"duplicate", "joinkeys", "joinkey", "describetable", "describecolumns", "reliability",
          "term", "termcolumn", "rule", "exclusion", "sentinel", "valuemap"}

\* Everything a scope can be of.
Things == Tables \cup Columns \cup Terms
Scopes == [kind : Kinds, of : SUBSET Things]

\* A candidate is a record of these fields and no others.
IsCandidate(q) ==
    q = [scope |-> q.scope, category |-> q.category, says |-> q.says, names |-> q.names,
         blocked_by |-> q.blocked_by]

\* Within one scan the scope of a question tells what it says.
SaysByScope(S) == \A q, r \in S : q.scope = r.scope => q.says = r.says

\* Of the kinds given, and waiting for nothing yet.
Plain(S, kinds) ==
    \A q \in S : /\ IsCandidate(q) /\ q.scope \in Scopes /\ q.scope.kind \in kinds
                 /\ q.blocked_by = {}

LEMMA ScopeFields ==
    ASSUME NEW k \in Kinds, NEW of \in SUBSET Things
    PROVE  /\ Scope(k, of) \in Scopes /\ Scope(k, of).kind = k /\ Scope(k, of).of = of
BY DEF Scopes, Scope

LEMMA ScopesAreFinite == IsFiniteSet(Scopes)
<1>1. IsFiniteSet(Kinds)
    <2>1. ASSUME NEW x, NEW y PROVE IsFiniteSet({x, y})
        <3>1. IsFiniteSet({x} \cup {y})
            <4>1. IsFiniteSet({x}) /\ IsFiniteSet({y})
                BY FS_Singleton
            <4>. QED BY <4>1, FS_Union
        <3>2. {x, y} = {x} \cup {y}
            OBVIOUS
        <3>. QED BY <3>1, <3>2
    <2>2. ASSUME NEW x, NEW y, NEW u, NEW v PROVE IsFiniteSet({x, y, u, v})
        <3>1. IsFiniteSet({x, y} \cup {u, v})
            <4>1. IsFiniteSet({x, y}) /\ IsFiniteSet({u, v})
                BY <2>1
            <4>. QED BY <4>1, FS_Union
        <3>2. {x, y, u, v} = {x, y} \cup {u, v}
            OBVIOUS
        <3>. QED BY <3>1, <3>2
    <2>. DEFINE A == {"duplicate", "joinkeys", "joinkey", "describetable"}
                B == {"describecolumns", "reliability", "term", "termcolumn"}
                C == {"rule", "exclusion", "sentinel", "valuemap"}
    <2>3. IsFiniteSet(A) /\ IsFiniteSet(B) /\ IsFiniteSet(C)
        BY <2>2
    <2>4. Kinds = (A \cup B) \cup C
        BY DEF Kinds
    <2>. HIDE DEF A, B, C
    <2>. QED BY <2>3, <2>4, FS_Union
<1>2. IsFiniteSet(SUBSET Things)
    <2>1. IsFiniteSet(Things)
        BY ScanAssumption, FS_Union DEF Things
    <2>. QED BY <2>1, FS_SUBSET
<1>3. IsFiniteSet(Kinds \X SUBSET Things)
    BY <1>1, <1>2, FS_Product
<1>. DEFINE f == [x \in Kinds \X SUBSET Things |-> Scope(x[1], x[2])]
<1>4. f \in Surjection(Kinds \X SUBSET Things, Scopes)
    <2>1. \A x \in Kinds \X SUBSET Things : f[x] \in Scopes
        BY DEF Scopes, Scope
    <2>2. \A s \in Scopes : \E x \in Kinds \X SUBSET Things : f[x] = s
        <3>. TAKE s \in Scopes
        <3>1. <<s.kind, s.of>> \in Kinds \X SUBSET Things /\ Scope(s.kind, s.of) = s
            BY DEF Scopes, Scope
        <3>. QED BY <3>1
    <2>. QED BY <2>1, <2>2 DEF Surjection
<1>. QED BY <1>3, <1>4, FS_Surjection

LEMMA DuplicateRecords ==
    ASSUME NEW w
    PROVE  /\ Plain(_duplicate_records(w), {"duplicate"}) /\ SaysByScope(_duplicate_records(w))
           /\ \A q \in _duplicate_records(w) :
                  \E p \in Copies(w) : /\ q = Candidate(Scope("duplicate", p), "D", Severity(w, p),
                                                          <<w.differing[p]>>, p)
                                       /\ q.scope = Scope("duplicate", p)
           /\ \A p \in Copies(w) : \E q \in _duplicate_records(w) : q.scope = Scope("duplicate", p)
<1>. DEFINE C(p) == Candidate(Scope("duplicate", p), "D", Severity(w, p), <<w.differing[p]>>, p)
<1>1. _duplicate_records(w) = {C(p) : p \in Copies(w)}
    BY DEF _duplicate_records
<1>2. \A p : /\ IsCandidate(C(p)) /\ C(p).scope = Scope("duplicate", p)
             /\ C(p).says = <<Severity(w, p)>> \o <<w.differing[p]>> /\ C(p).blocked_by = {}
    BY DEF Candidate, IsCandidate
<1>. HIDE DEF C
<1>3. Copies(w) \subseteq SUBSET Things
    <2>1. \A i \in DOMAIN Alike : Alike[i] \in SUBSET Columns
        BY ScanAssumption
    <2>. QED BY <2>1 DEF Copies, agreements, comparison_candidates, Things
<1>4. \A p \in Copies(w) : /\ Scope("duplicate", p) \in Scopes
                           /\ Scope("duplicate", p).kind = "duplicate"
                           /\ Scope("duplicate", p).of = p
    BY <1>3, ScopeFields DEF Kinds
<1>5. Plain(_duplicate_records(w), {"duplicate"})
    BY <1>1, <1>2, <1>4 DEF Plain
<1>6. SaysByScope(_duplicate_records(w))
    BY <1>1, <1>2, <1>4 DEF SaysByScope
<1>7. \A q \in _duplicate_records(w) : \E p \in Copies(w) : q = C(p) /\ q.scope = Scope("duplicate", p)
    BY <1>1, <1>2
<1>8. \A p \in Copies(w) : \E q \in _duplicate_records(w) : q.scope = Scope("duplicate", p)
    BY <1>1, <1>2
<1>. QED BY <1>5, <1>6, <1>7, <1>8 DEF C

LEMMA JoinRecords ==
    ASSUME NEW w
    PROVE  /\ Plain(join_records(w), {"joinkeys", "joinkey"}) /\ SaysByScope(join_records(w))
<1>. DEFINE keys == measure_keys(w)
            keyed == {m \in key_matches(w) : m.target \in keys}
            ambiguous == {m \in keyed : _disagreeing_pairs(w, m.sources) # {}}
            between(p) == {m \in ambiguous : {m.from, m.into} = p}
            first(p) == CHOOSE m \in between(p) : TRUE
            quoted(p) == <<w.differing[CHOOSE d \in _disagreeing_pairs(w, first(p).sources) : TRUE],
                           ToString(Cardinality(first(p).sources))>>
            Several(p) == Candidate(Scope("joinkeys", p), "D", "T1", quoted(p), first(p).sources)
            One(m, c) == Candidate(Scope("joinkey", {c, m.into}), "D", "T3", <<"key">>, {c})
            alone == {x \in keyed \ ambiguous : between({x.from, x.into}) = {}}
            pairs == {q \in unjoined_pairs(w) : between(q) # {}}
<1>1. join_records(w) = {Several(p) : p \in pairs}
                        \cup UNION {{One(m, c) : c \in m.sources \cap ScannedColumns(w)} : m \in alone}
    BY Zenon DEF join_records
<1>2. \A p : /\ IsCandidate(Several(p)) /\ Several(p).scope = Scope("joinkeys", p)
             /\ Several(p).says = <<"T1">> \o quoted(p) /\ Several(p).blocked_by = {}
    BY DEF Candidate, IsCandidate
<1>3. \A m, c : /\ IsCandidate(One(m, c)) /\ One(m, c).scope = Scope("joinkey", {c, m.into})
                /\ One(m, c).says = <<"T3">> \o <<"key">> /\ One(m, c).blocked_by = {}
    BY DEF Candidate, IsCandidate
<1>4. \A p \in pairs : p \in SUBSET Things
    BY DEF unjoined_pairs, _live_tables, Things
<1>5. \A m \in alone, c \in ScannedColumns(w) : {c, m.into} \in SUBSET Things
    <2>1. ScannedColumns(w) \subseteq Columns
        BY DEF ScannedColumns, LiveColumns, _columns_of
    <2>2. \A m \in key_matches(w) : m.into \in Tables
        BY <2>1, ScanAssumption DEF key_matches, KeyMatch
    <2>. QED BY <2>1, <2>2 DEF Things
<1>. HIDE DEF Several, One, pairs, alone, quoted
<1>6. \A p \in pairs : /\ Scope("joinkeys", p) \in Scopes /\ Scope("joinkeys", p).kind = "joinkeys"
                       /\ Scope("joinkeys", p).of = p
    BY <1>4, ScopeFields DEF Kinds
<1>7. \A m \in alone, c \in ScannedColumns(w) :
          Scope("joinkey", {c, m.into}) \in Scopes /\ Scope("joinkey", {c, m.into}).kind = "joinkey"
    BY <1>5, ScopeFields DEF Kinds
<1>8. \A q \in join_records(w) :
          \/ \E p \in pairs : q = Several(p)
          \/ \E m \in alone, c \in ScannedColumns(w) : q = One(m, c)
    BY <1>1
<1>9. Plain(join_records(w), {"joinkeys", "joinkey"})
    <2>. SUFFICES ASSUME NEW q \in join_records(w)
                  PROVE  /\ IsCandidate(q) /\ q.scope \in Scopes /\ q.scope.kind \in {"joinkeys", "joinkey"}
                         /\ q.blocked_by = {}
        BY DEF Plain
    <2>1. CASE \E p \in pairs : q = Several(p)
        BY <1>2, <1>6, <2>1
    <2>2. CASE \E m \in alone, c \in ScannedColumns(w) : q = One(m, c)
        BY <1>3, <1>7, <2>2
    <2>. QED BY <1>8, <2>1, <2>2
<1>10. SaysByScope(join_records(w))
    <2>. SUFFICES ASSUME NEW q \in join_records(w), NEW r \in join_records(w), q.scope = r.scope
                  PROVE  q.says = r.says
        BY DEF SaysByScope
    <2>1. ASSUME NEW p \in pairs, q = Several(p) PROVE q.says = r.says
        <3>1. q.scope.kind = "joinkeys" /\ q.scope.of = p
            BY <1>2, <1>6, <2>1
        <3>2. PICK o \in pairs : r = Several(o)
            <4>1. r.scope.kind = "joinkeys"
                BY <3>1
            <4>2. \A m \in alone, c \in ScannedColumns(w) : r # One(m, c)
                BY <1>3, <1>7, <4>1
            <4>. QED BY <1>8, <4>2
        <3>3. p = o
            BY <1>2, <1>6, <3>1, <3>2
        <3>. QED BY <2>1, <3>2, <3>3
    <2>2. ASSUME NEW m \in alone, NEW c \in ScannedColumns(w), q = One(m, c) PROVE q.says = r.says
        <3>1. q.scope.kind = "joinkey" /\ q.says = <<"T3">> \o <<"key">>
            BY <1>3, <1>7, <2>2
        <3>2. \E n \in alone, d \in ScannedColumns(w) : r = One(n, d)
            BY <1>2, <1>6, <1>8, <3>1
        <3>. QED BY <1>3, <3>1, <3>2
    <2>. QED BY <1>8, <2>1, <2>2
<1>. QED BY <1>9, <1>10

LEMMA CoverageRecords ==
    ASSUME NEW w
    PROVE  /\ Plain(_coverage_records(w), {"describetable", "describecolumns"})
           /\ SaysByScope(_coverage_records(w))
<1>. DEFINE T(t) == Candidate(Scope("describetable", {t}), "A", "T4", <<"table">>, {})
            D(t) == Candidate(Scope("describecolumns", {t}), "A", "T4",
                              <<ToString(Cardinality(undescribed(w, t)))>>, {})
            some == {u \in _live_tables(w) : undescribed(w, u) # {}}
<1>1. _coverage_records(w) = {T(t) : t \in _live_tables(w) \ w.described} \cup {D(t) : t \in some}
    BY DEF _coverage_records
<1>2. \A t : /\ IsCandidate(T(t)) /\ T(t).scope = Scope("describetable", {t})
             /\ T(t).says = <<"T4">> \o <<"table">> /\ T(t).blocked_by = {}
    BY DEF Candidate, IsCandidate
<1>3. \A t : /\ IsCandidate(D(t)) /\ D(t).scope = Scope("describecolumns", {t}) /\ D(t).blocked_by = {}
    BY DEF Candidate, IsCandidate
<1>4. \A t \in _live_tables(w) :
          /\ Scope("describetable", {t}) \in Scopes /\ Scope("describetable", {t}).kind = "describetable"
          /\ Scope("describecolumns", {t}) \in Scopes
          /\ Scope("describecolumns", {t}).kind = "describecolumns"
          /\ Scope("describecolumns", {t}).of = {t}
    BY ScopeFields DEF _live_tables, Things, Kinds
<1>. HIDE DEF T, D
<1>a. \A q \in _coverage_records(w) : \E t \in _live_tables(w) : q = T(t) \/ q = D(t)
    BY <1>1
<1>b. \A t \in _live_tables(w) : T(t).scope \in Scopes /\ D(t).scope \in Scopes
    BY <1>2, <1>3, <1>4
<1>c. \A t \in _live_tables(w) : T(t).scope.kind = "describetable" /\ D(t).scope.kind = "describecolumns"
    BY <1>2, <1>3, <1>4
<1>d. \A t \in _live_tables(w) : D(t).scope.of = {t}
    BY <1>3, <1>4
<1>5. Plain(_coverage_records(w), {"describetable", "describecolumns"})
    BY <1>2, <1>3, <1>a, <1>b, <1>c DEF Plain
<1>6. SaysByScope(_coverage_records(w))
    <2>1. \A t, u \in _live_tables(w) : D(t).scope = D(u).scope => t = u
        <3>. SUFFICES ASSUME NEW t \in _live_tables(w), NEW u \in _live_tables(w), D(t).scope = D(u).scope
                      PROVE  t = u
            OBVIOUS
        <3>1. {t} = {u}
            BY <1>d
        <3>. QED BY <3>1
    <2>. QED BY <1>2, <1>a, <1>c, <2>1 DEF SaysByScope
<1>. QED BY <1>5, <1>6

\* The records that say the same of every column they are about.
LEMMA AboutColumns ==
    ASSUME NEW S \in SUBSET Columns, NEW k \in Kinds, NEW category, NEW severity, NEW quotes,
           NEW R, \A q \in R : \E c \in S : q = Candidate(Scope(k, {c}), category, severity, quotes, {c})
    PROVE  Plain(R, {k}) /\ SaysByScope(R)
<1>. DEFINE Q(c) == Candidate(Scope(k, {c}), category, severity, quotes, {c})
<1>1. \A c : /\ IsCandidate(Q(c)) /\ Q(c).scope = Scope(k, {c})
             /\ Q(c).says = <<severity>> \o quotes /\ Q(c).blocked_by = {}
    BY DEF Candidate, IsCandidate
<1>2. \A c \in S : Scope(k, {c}) \in Scopes /\ Scope(k, {c}).kind = k
    BY ScopeFields DEF Things
<1>. HIDE DEF Q
<1>3. \A q \in R : \E c \in S : q = Q(c)
    BY DEF Q
<1>. QED BY <1>1, <1>2, <1>3 DEF Plain, SaysByScope

LEMMA ColumnRecords ==
    ASSUME NEW w
    PROVE  /\ Plain(_reliability_records(w), {"reliability"}) /\ SaysByScope(_reliability_records(w))
           /\ Plain(_propose_e(w), {"exclusion"}) /\ SaysByScope(_propose_e(w))
           /\ Plain(_propose_s6(w), {"sentinel"}) /\ SaysByScope(_propose_s6(w))
           /\ Plain(_propose_b(w), {"valuemap"}) /\ SaysByScope(_propose_b(w))
<1>1. LiveColumns(w) \in SUBSET Columns /\ ScannedColumns(w) \in SUBSET Columns
    BY DEF ScannedColumns, LiveColumns, _columns_of
<1>2. Plain(_reliability_records(w), {"reliability"}) /\ SaysByScope(_reliability_records(w))
    <2>. DEFINE S == ScannedColumns(w) \cap w.suspect
    <2>1. S \in SUBSET Columns /\ "reliability" \in Kinds
        BY <1>1 DEF Kinds
    <2>2. \A q \in _reliability_records(w) : \E c \in S : q = Candidate(Scope("reliability", {c}), "A", "T3", <<"flag">>, {c})
        BY DEF _reliability_records
    <2>. HIDE DEF S
    <2>. QED BY <2>1, <2>2, AboutColumns
<1>3. Plain(_propose_e(w), {"exclusion"}) /\ SaysByScope(_propose_e(w))
    <2>. DEFINE S == {d \in LiveColumns(w) \cap StatusNamed : HasSentinel(w, d)}
    <2>1. S \in SUBSET Columns /\ "exclusion" \in Kinds
        BY <1>1 DEF Kinds
    <2>2. \A q \in _propose_e(w) : \E c \in S : q = Candidate(Scope("exclusion", {c}), "E", "T2", <<"plain">>, {c})
        BY DEF _propose_e
    <2>. HIDE DEF S
    <2>. QED BY <2>1, <2>2, AboutColumns
<1>4. Plain(_propose_s6(w), {"sentinel"}) /\ SaysByScope(_propose_s6(w))
    <2>. DEFINE S == {d \in LiveColumns(w) \ StatusNamed : HasSentinel(w, d) /\ _groups_or_averages(w, d)}
    <2>1. S \in SUBSET Columns /\ "sentinel" \in Kinds
        BY <1>1 DEF Kinds
    <2>2. \A q \in _propose_s6(w) : \E c \in S : q = Candidate(Scope("sentinel", {c}), "E", "T2", <<"plain">>, {c})
        BY DEF _propose_s6
    <2>. HIDE DEF S
    <2>. QED BY <2>1, <2>2, AboutColumns
<1>5. Plain(_propose_b(w), {"valuemap"}) /\ SaysByScope(_propose_b(w))
    <2>. DEFINE S == {d \in LiveColumns(w) \cap Categorical : 1 < observed(w, d) /\ observed(w, d) <= BMaxDistinct}
    <2>1. S \in SUBSET Columns /\ "valuemap" \in Kinds
        BY <1>1 DEF Kinds
    <2>2. \A q \in _propose_b(w) : \E c \in S : q = Candidate(Scope("valuemap", {c}), "B", "T2", <<"plain">>, {c})
        BY DEF _propose_b
    <2>. HIDE DEF S
    <2>. QED BY <2>1, <2>2, AboutColumns
<1>. QED BY <1>2, <1>3, <1>4, <1>5

LEMMA RuleRecord ==
    ASSUME NEW w
    PROVE  Plain(_propose_c(w), {"rule"}) /\ SaysByScope(_propose_c(w))
<1>1. Scope("rule", {}) \in Scopes /\ Scope("rule", {}).kind = "rule"
    BY ScopeFields DEF Kinds
<1>. DEFINE q == Candidate(Scope("rule", {}), "C", "T2", <<"plain">>, {})
<1>2. IsCandidate(q) /\ q.scope = Scope("rule", {}) /\ q.blocked_by = {}
    BY DEF Candidate, IsCandidate
<1>3. _propose_c(w) \subseteq {q}
    BY DEF _propose_c
<1>. HIDE DEF q
<1>. QED BY <1>1, <1>2, <1>3 DEF Plain, SaysByScope
\* A term with several columns is asked for its meaning before its column.
LEMMA TermRecords ==
    ASSUME NEW w
    PROVE  /\ SaysByScope(propose_term_questions(w))
           /\ \A q \in propose_term_questions(w) :
                  /\ IsCandidate(q) /\ q.scope \in Scopes /\ q.scope.kind \in {"term", "termcolumn"}
                  /\ q.scope.kind = "term" => q.blocked_by = {}
                  /\ \A b \in q.blocked_by :
                         b.kind = "term" /\ \E r \in propose_term_questions(w) : r.scope = b
<1>. DEFINE asked == {t \in Terms : term_candidates(w, t) # {}}
            paired == {t \in asked : Cardinality(term_candidates(w, t)) > 1}
            biz(t) == Candidate(Scope("term", {t}), "A", "T2", <<"plain">>, term_candidates(w, t))
            bare(t) == Candidate(Scope("termcolumn", {t}), "A", "T2", <<"plain">>, term_candidates(w, t))
            eng(t) == [bare(t) EXCEPT !.blocked_by = IF t \in paired THEN {Scope("term", {t})} ELSE {}]
<1>1. propose_term_questions(w) = {biz(t) : t \in paired} \cup {eng(t) : t \in asked}
    BY DEF propose_term_questions
<1>2. \A t : /\ IsCandidate(biz(t)) /\ biz(t).scope = Scope("term", {t})
             /\ biz(t).says = <<"T2">> \o <<"plain">> /\ biz(t).blocked_by = {}
    BY DEF Candidate, IsCandidate
<1>3. \A t : /\ IsCandidate(eng(t)) /\ eng(t).scope = Scope("termcolumn", {t})
             /\ eng(t).says = <<"T2">> \o <<"plain">>
             /\ eng(t).blocked_by = IF t \in paired THEN {Scope("term", {t})} ELSE {}
    BY DEF Candidate, IsCandidate
<1>4. \A t \in asked : /\ Scope("term", {t}) \in Scopes /\ Scope("term", {t}).kind = "term"
                       /\ Scope("termcolumn", {t}) \in Scopes
                       /\ Scope("termcolumn", {t}).kind = "termcolumn"
    BY ScopeFields DEF Things, Kinds
<1>5. paired \subseteq asked
    OBVIOUS
<1>. HIDE DEF biz, eng, asked, paired
<1>6. \A q \in propose_term_questions(w) :
          \/ \E t \in paired : q = biz(t)
          \/ \E t \in asked : q = eng(t)
    BY <1>1
<1>7. SaysByScope(propose_term_questions(w))
    BY <1>2, <1>3, <1>6 DEF SaysByScope
<1>8. ASSUME NEW q \in propose_term_questions(w)
      PROVE  /\ IsCandidate(q) /\ q.scope \in Scopes /\ q.scope.kind \in {"term", "termcolumn"}
             /\ q.scope.kind = "term" => q.blocked_by = {}
             /\ \A b \in q.blocked_by :
                    b.kind = "term" /\ \E r \in propose_term_questions(w) : r.scope = b
    <2>1. ASSUME NEW t \in paired, q = biz(t)
          PROVE  IsCandidate(q) /\ q.scope \in Scopes /\ q.scope.kind = "term" /\ q.blocked_by = {}
        BY <1>2, <1>4, <1>5, <2>1
    <2>2. ASSUME NEW t \in asked, q = eng(t)
          PROVE  /\ IsCandidate(q) /\ q.scope \in Scopes /\ q.scope.kind = "termcolumn"
                 /\ \A b \in q.blocked_by :
                        b.kind = "term" /\ \E r \in propose_term_questions(w) : r.scope = b
        <3>1. IsCandidate(q) /\ q.scope \in Scopes /\ q.scope.kind = "termcolumn"
            BY <1>3, <1>4, <2>2
        <3>2. ASSUME NEW b \in q.blocked_by
              PROVE  b.kind = "term" /\ \E r \in propose_term_questions(w) : r.scope = b
            <4>1. t \in paired /\ b = Scope("term", {t})
                BY <1>3, <2>2, <3>2
            <4>2. biz(t) \in propose_term_questions(w) /\ biz(t).scope = b
                BY <1>1, <1>2, <4>1
            <4>. QED BY <1>4, <2>2, <4>1, <4>2
        <3>. QED BY <3>1, <3>2
    <2>. QED BY <1>6, <2>1, <2>2
<1>. QED BY <1>7, <1>8

LEMMA RawShape ==
    ASSUME NEW w
    PROVE  /\ SaysByScope(Raw(w))
           /\ \A q \in Raw(w) :
                  /\ IsCandidate(q) /\ q.scope \in Scopes
                  /\ q.scope.kind # "termcolumn" => q.blocked_by = {}
                  /\ \A b \in q.blocked_by : b.kind = "term" /\ \E r \in Raw(w) : r.scope = b
                  /\ q.scope.kind = "duplicate" => q \in _duplicate_records(w)
<1>. DEFINE D == _duplicate_records(w)  J == join_records(w)  V == _coverage_records(w)
            L == _reliability_records(w)  T == propose_term_questions(w)  C == _propose_c(w)
            E == _propose_e(w)  S == _propose_s6(w)  B == _propose_b(w)
<1>1. \A q : q \in Raw(w) <=> \/ q \in D \/ q \in J \/ q \in V \/ q \in L
                             \/ q \in T \/ q \in C \/ q \in E \/ q \in S \/ q \in B
    BY DEF Raw, detect_structural_gaps, generate_candidate_questions
<1>2. /\ \A q \in D : q.scope.kind = "duplicate" /\ q.blocked_by = {} /\ IsCandidate(q) /\ q.scope \in Scopes
      /\ SaysByScope(D)
    BY DuplicateRecords DEF Plain
<1>3. /\ \A q \in J : /\ q.scope.kind \in {"joinkeys", "joinkey"} /\ q.blocked_by = {}
                      /\ IsCandidate(q) /\ q.scope \in Scopes
      /\ SaysByScope(J)
    BY JoinRecords DEF Plain
<1>4. /\ \A q \in V : /\ q.scope.kind \in {"describetable", "describecolumns"} /\ q.blocked_by = {}
                      /\ IsCandidate(q) /\ q.scope \in Scopes
      /\ SaysByScope(V)
    BY CoverageRecords DEF Plain
<1>5. /\ \A q \in L : q.scope.kind = "reliability" /\ q.blocked_by = {} /\ IsCandidate(q) /\ q.scope \in Scopes
      /\ SaysByScope(L)
    BY ColumnRecords DEF Plain
<1>6. /\ \A q \in E : q.scope.kind = "exclusion" /\ q.blocked_by = {} /\ IsCandidate(q) /\ q.scope \in Scopes
      /\ SaysByScope(E)
    BY ColumnRecords DEF Plain
<1>7. /\ \A q \in S : q.scope.kind = "sentinel" /\ q.blocked_by = {} /\ IsCandidate(q) /\ q.scope \in Scopes
      /\ SaysByScope(S)
    BY ColumnRecords DEF Plain
<1>8. /\ \A q \in B : q.scope.kind = "valuemap" /\ q.blocked_by = {} /\ IsCandidate(q) /\ q.scope \in Scopes
      /\ SaysByScope(B)
    BY ColumnRecords DEF Plain
<1>9. /\ \A q \in C : q.scope.kind = "rule" /\ q.blocked_by = {} /\ IsCandidate(q) /\ q.scope \in Scopes
      /\ SaysByScope(C)
    BY RuleRecord DEF Plain
<1>10. /\ \A q \in T : /\ q.scope.kind \in {"term", "termcolumn"} /\ IsCandidate(q) /\ q.scope \in Scopes
                       /\ q.scope.kind = "term" => q.blocked_by = {}
                       /\ \A b \in q.blocked_by : b.kind = "term" /\ \E r \in T : r.scope = b
       /\ SaysByScope(T)
    BY TermRecords
<1>. HIDE DEF D, J, V, L, T, C, E, S, B
<1>11. SaysByScope(Raw(w))
    <2>. SUFFICES ASSUME NEW q \in Raw(w), NEW r \in Raw(w), q.scope = r.scope
                  PROVE  q.says = r.says
        BY DEF SaysByScope
    <2>1. q.scope.kind = r.scope.kind
        OBVIOUS
    <2>2. \/ (q \in D /\ r \in D) \/ (q \in J /\ r \in J) \/ (q \in V /\ r \in V)
          \/ (q \in L /\ r \in L) \/ (q \in T /\ r \in T) \/ (q \in C /\ r \in C)
          \/ (q \in E /\ r \in E) \/ (q \in S /\ r \in S) \/ (q \in B /\ r \in B)
        BY <1>1, <1>2, <1>3, <1>4, <1>5, <1>6, <1>7, <1>8, <1>9, <1>10, <2>1
    <2>. QED BY <1>2, <1>3, <1>4, <1>5, <1>6, <1>7, <1>8, <1>9, <1>10, <2>2 DEF SaysByScope
<1>12. \A q \in Raw(w) : IsCandidate(q) /\ q.scope \in Scopes
    BY <1>1, <1>2, <1>3, <1>4, <1>5, <1>6, <1>7, <1>8, <1>9, <1>10
<1>13. \A q \in Raw(w) : q.scope.kind # "termcolumn" => q.blocked_by = {}
    BY <1>1, <1>2, <1>3, <1>4, <1>5, <1>6, <1>7, <1>8, <1>9, <1>10
<1>14. ASSUME NEW q \in Raw(w), NEW b \in q.blocked_by
       PROVE  b.kind = "term" /\ \E r \in Raw(w) : r.scope = b
    <2>1. q.scope.kind = "termcolumn"
        BY <1>13, <1>14
    <2>2. q \in T
        BY <1>1, <1>2, <1>3, <1>4, <1>5, <1>6, <1>7, <1>8, <1>9, <2>1
    <2>. QED BY <1>1, <1>10, <1>14, <2>2
<1>15. \A q \in Raw(w) : q.scope.kind = "duplicate" => q \in D
    BY <1>1, <1>3, <1>4, <1>5, <1>6, <1>7, <1>8, <1>9, <1>10
<1>. QED BY <1>11, <1>12, <1>13, <1>14, <1>15 DEF D
\* A contested column waits for one of its pairs.
LEMMA ContestedIsGated ==
    ASSUME NEW w, NEW c \in Contested(w)
    PROVE  \E p \in ContestedPairs(w) : c \in p /\ gated_columns(w)[c] = Scope("duplicate", p)
<1>. DEFINE N == Len(Alike)
            places == {i \in comparison_candidates(w) : Alike[i] \in ContestedPairs(w) /\ c \in Alike[i]}
            last == CHOOSE i \in places : \A j \in places : j <= i
            rest == {N - i : i \in places}
<1>1. N \in Nat /\ DOMAIN Alike = 1 .. N
    BY ScanAssumption
<1>2. places \subseteq 1 .. N
    BY <1>1 DEF comparison_candidates
<1>3. places # {}
    <2>1. PICK p \in ContestedPairs(w) : c \in p
        BY DEF Contested
    <2>2. PICK i \in comparison_candidates(w) : p = Alike[i]
        BY <2>1 DEF ContestedPairs, Copies, agreements
    <2>. QED BY <2>1, <2>2
<1>. HIDE DEF places, N
<1>a. \A i \in places : i \in Nat /\ N - i \in Nat
    BY <1>1, <1>2
<1>4. rest \in SUBSET Nat /\ rest # {}
    BY <1>3, <1>a
<1>5. PICK n \in rest : \A m \in rest : n <= m
    BY <1>4, Least
<1>6. PICK i \in places : n = N - i
    BY <1>5
<1>7. \A j \in places : j <= i
    <2>1. \A j \in places : N - i <= N - j
        BY <1>5, <1>6
    <2>. QED BY <1>1, <1>a, <2>1
<1>8. last \in places
    BY <1>6, <1>7
<1>9. gated_columns(w)[c] = Scope("duplicate", Alike[last])
    BY Zenon DEF gated_columns, places
<1>. HIDE DEF last
<1>. QED BY <1>8, <1>9 DEF places

\* Of a scan: what a question says follows from its scope; what it waits for
\* was derived with it, and is asked before it: a pair before anything, a
\* term's meaning before its column; and what is about a contested column
\* waits for a pair of it.
Gating(k) == IF k = "duplicate" THEN {} ELSE IF k = "term" THEN {"duplicate"} ELSE {"duplicate", "term"}
WaitsInOrder(s, before) == \A b \in before : b.kind \in Gating(s.kind)

LEMMA DerivedShape ==
    ASSUME NEW w
    PROVE  /\ SaysByScope(Derived(w))
           /\ \A q \in Derived(w) :
                  /\ IsCandidate(q) /\ q.scope \in Scopes /\ WaitsInOrder(q.scope, q.blocked_by)
                  /\ q.blocked_by \subseteq {r.scope : r \in Derived(w)}
                  /\ q.category \in {"A", "B", "E"} =>
                        \A c \in q.names \cap Contested(w) :
                            \E p \in ContestedPairs(w) : c \in p /\ Scope("duplicate", p) \in q.blocked_by
                  /\ \A p \in ContestedPairs(w) :
                        q.scope = Scope("duplicate", p) => q.says = <<"T1">> \o <<w.differing[p]>>
<1>. DEFINE gated == {"A", "B", "E"}
            E(q) == IF q.category \in gated THEN [q EXCEPT !.blocked_by = @ \cup Gates(w, q)] ELSE q
<1>1. Derived(w) = {E(q) : q \in Raw(w)}
    BY DEF Derived, Raw, apply_cluster_dependencies, _GATED_CATEGORIES
<1>2. ASSUME NEW q \in Raw(w)
      PROVE  /\ IsCandidate(E(q)) /\ E(q).scope = q.scope /\ E(q).category = q.category
             /\ E(q).says = q.says /\ E(q).names = q.names
             /\ E(q).blocked_by = q.blocked_by \cup (IF q.category \in gated THEN Gates(w, q) ELSE {})
    <2>1. IsCandidate(q)
        BY RawShape
    <2>. QED BY <2>1 DEF IsCandidate
<1>. HIDE DEF E
<1>3. ContestedPairs(w) \subseteq Copies(w)
    BY DEF ContestedPairs
<1>4. \A p \in Copies(w) : /\ Scope("duplicate", p).kind = "duplicate"
                           /\ \E q \in Raw(w) : q.scope = Scope("duplicate", p)
    BY DuplicateRecords DEF Raw, detect_structural_gaps, Scope
<1>5. ASSUME NEW q \in Raw(w), q.scope.kind = "duplicate"
      PROVE  q.category = "D" /\ \E p \in Copies(w) : /\ q.scope = Scope("duplicate", p)
                                                     /\ q.says = <<Severity(w, p)>> \o <<w.differing[p]>>
    <2>1. PICK p \in Copies(w) :
              /\ q = Candidate(Scope("duplicate", p), "D", Severity(w, p), <<w.differing[p]>>, p)
              /\ q.scope = Scope("duplicate", p)
        BY <1>5, RawShape, DuplicateRecords
    <2>. QED BY <2>1 DEF Candidate
<1>6. \A q, b : b \in Gates(w, q) => \E p \in ContestedPairs(w) : b = Scope("duplicate", p)
    BY ContestedIsGated DEF Gates
<1>7. SaysByScope(Derived(w))
    BY <1>1, <1>2, RawShape DEF SaysByScope
<1>8. ASSUME NEW q \in Raw(w)
      PROVE  WaitsInOrder(q.scope, E(q).blocked_by)
    <2>1. CASE q.scope.kind = "duplicate"
        BY <1>2, <1>5, <2>1, RawShape DEF WaitsInOrder
    <2>2. CASE q.scope.kind = "term"
        BY <1>2, <1>3, <1>4, <1>6, <2>2, RawShape DEF WaitsInOrder, Gating
    <2>3. CASE q.scope.kind \notin {"duplicate", "term"}
        BY <1>2, <1>3, <1>4, <1>6, <2>3, RawShape DEF WaitsInOrder, Gating
    <2>. QED BY <2>1, <2>2, <2>3
<1>9. ASSUME NEW q \in Raw(w), NEW b \in E(q).blocked_by
      PROVE  \E r \in Derived(w) : b = r.scope
    <2>1. \E r \in Raw(w) : r.scope = b
        BY <1>2, <1>3, <1>4, <1>6, <1>9, RawShape
    <2>. QED BY <1>1, <1>2, <2>1
<1>10. ASSUME NEW q \in Raw(w), q.category \in gated, NEW c \in q.names \cap Contested(w)
       PROVE  \E p \in ContestedPairs(w) : c \in p /\ Scope("duplicate", p) \in E(q).blocked_by
    <2>1. PICK p \in ContestedPairs(w) : c \in p /\ gated_columns(w)[c] = Scope("duplicate", p)
        BY <1>10, ContestedIsGated
    <2>2. q.scope # Scope("duplicate", p)
        BY <1>3, <1>4, <1>5, <1>10
    <2>3. Scope("duplicate", p) \in Gates(w, q)
        BY <1>10, <2>1, <2>2 DEF Gates
    <2>. QED BY <1>2, <1>10, <2>1, <2>3
<1>11. ASSUME NEW q \in Raw(w), NEW p \in ContestedPairs(w), q.scope = Scope("duplicate", p)
       PROVE  q.says = <<"T1">> \o <<w.differing[p]>>
    <2>1. q.scope.kind = "duplicate"
        BY <1>3, <1>4, <1>11
    <2>2. PICK o \in Copies(w) : /\ q.scope = Scope("duplicate", o)
                                /\ q.says = <<Severity(w, o)>> \o <<w.differing[o]>>
        BY <1>5, <2>1
    <2>3. o = p
        BY <1>11, <2>2 DEF Scope
    <2>. QED BY <2>2, <2>3 DEF ContestedPairs
<1>12. ASSUME NEW r \in Derived(w)
       PROVE  /\ IsCandidate(r) /\ r.scope \in Scopes /\ WaitsInOrder(r.scope, r.blocked_by)
              /\ r.blocked_by \subseteq {x.scope : x \in Derived(w)}
              /\ r.category \in gated =>
                    \A c \in r.names \cap Contested(w) :
                        \E p \in ContestedPairs(w) : c \in p /\ Scope("duplicate", p) \in r.blocked_by
              /\ \A p \in ContestedPairs(w) :
                    r.scope = Scope("duplicate", p) => r.says = <<"T1">> \o <<w.differing[p]>>
    <2>1. PICK q \in Raw(w) : r = E(q)
        BY <1>1
    <2>2. IsCandidate(r) /\ r.scope \in Scopes
        BY <1>2, <2>1, RawShape
    <2>3. WaitsInOrder(r.scope, r.blocked_by)
        BY <1>2, <1>8, <2>1
    <2>4. r.blocked_by \subseteq {x.scope : x \in Derived(w)}
        BY <1>9, <2>1
    <2>5. r.category \in gated =>
              \A c \in r.names \cap Contested(w) :
                  \E p \in ContestedPairs(w) : c \in p /\ Scope("duplicate", p) \in r.blocked_by
        BY <1>2, <1>10, <2>1
    <2>6. \A p \in ContestedPairs(w) :
              r.scope = Scope("duplicate", p) => r.says = <<"T1">> \o <<w.differing[p]>>
        BY <1>2, <1>11, <2>1
    <2>. QED BY <2>2, <2>3, <2>4, <2>5, <2>6
<1>. QED BY <1>7, <1>12

-----------------------------------------------------------------------------
(* The ledger, the report and the facts.                                   *)

IsRow(r) ==
    /\ r = [says |-> r.says, category |-> r.category, names |-> r.names, blocked_by |-> r.blocked_by,
            status |-> r.status, unmet |-> r.unmet, converted |-> r.converted]
    /\ r.status \in {"open", "answered"}

\* Rows wait for rows of the ledger, pairs before terms before columns.
LedgerInOrder ==
    /\ IsFiniteSet(DOMAIN ledger)
    /\ \A s \in DOMAIN ledger : /\ IsRow(ledger[s])
                                /\ ledger[s].blocked_by \subseteq DOMAIN ledger
                                /\ WaitsInOrder(s, ledger[s].blocked_by)

SetupInv ==
    /\ world \in Worlds
    /\ LedgerInOrder
    /\ NothingIsAskedTwice
    /\ ReportAccountsForTheScan

LEMMA RowFields ==
    ASSUME NEW q
    PROVE  /\ IsRow(Row(q)) /\ Row(q).says = q.says /\ Row(q).category = q.category
           /\ Row(q).names = q.names /\ Row(q).blocked_by = q.blocked_by /\ Row(q).status = "open"
           /\ Row(q).unmet = {}
BY DEF Row, IsRow

\* What a scan keeps of what it derived: only what is not answered, which
\* waits for what else was kept; no scope is both kept and settled.
LEMMA KeptShape ==
    ASSUME NEW w, NEW sorted, sorted = drop_already_answered(Derived(w))
    PROVE  /\ {q.scope : q \in sorted.kept} \subseteq Scopes
           /\ {q.scope : q \in sorted.kept} \cap sorted.settled = {}
           /\ \A q \in sorted.kept :
                 /\ WaitsInOrder(q.scope, q.blocked_by) /\ ~Answered(q.scope, q.says)
                 /\ q.blocked_by \subseteq {r.scope : r \in sorted.kept}
                 /\ \E r \in Derived(w) : /\ q.scope = r.scope /\ q.category = r.category
                                         /\ q.names = r.names /\ q.blocked_by = r.blocked_by \ sorted.settled
           /\ \A s \in sorted.settled : \E r \in Derived(w) : s = r.scope /\ AlreadyAnswered(r)
<1>. DEFINE S == Derived(w)
            settled == {q \in S : AlreadyAnswered(q)}
            gone == {q.scope : q \in settled}
            K(q) == [q EXCEPT !.blocked_by = @ \ gone]
            scopes == {q.scope : q \in sorted.kept}
<1>1. sorted.kept = {K(q) : q \in S \ settled} /\ sorted.settled = gone
    BY DEF drop_already_answered
<1>2. ASSUME NEW q \in S
      PROVE  /\ K(q).scope = q.scope /\ K(q).says = q.says /\ K(q).category = q.category
             /\ K(q).names = q.names /\ K(q).blocked_by = q.blocked_by \ gone
    <2>1. IsCandidate(q)
        BY DerivedShape
    <2>. QED BY <2>1 DEF IsCandidate
<1>3. \A q \in S : q.scope \in Scopes /\ WaitsInOrder(q.scope, q.blocked_by)
    BY DerivedShape
<1>4. ASSUME NEW q \in S, NEW b \in q.blocked_by PROVE \E r \in S : b = r.scope
    BY <1>4, DerivedShape
<1>5. \A q, r \in S : q.scope = r.scope => (AlreadyAnswered(q) <=> AlreadyAnswered(r))
    BY DerivedShape DEF SaysByScope, AlreadyAnswered
<1>. HIDE DEF S, K, gone
<1>6. \A q \in sorted.kept : \E r \in S : q = K(r) /\ ~AlreadyAnswered(r)
    BY <1>1
<1>7. \A s \in gone : \E r \in S : s = r.scope /\ AlreadyAnswered(r)
    BY DEF gone
<1>8. \A r \in S : ~AlreadyAnswered(r) => K(r) \in sorted.kept
    BY <1>1
<1>9. scopes \cap gone = {}
    BY <1>2, <1>5, <1>6, <1>7
<1>10. ASSUME NEW q \in sorted.kept
       PROVE  /\ q.scope \in Scopes /\ WaitsInOrder(q.scope, q.blocked_by) /\ ~Answered(q.scope, q.says)
              /\ q.blocked_by \subseteq scopes
              /\ \E r \in S : /\ q.scope = r.scope /\ q.category = r.category
                              /\ q.names = r.names /\ q.blocked_by = r.blocked_by \ gone
    <2>1. PICK r \in S : q = K(r) /\ ~AlreadyAnswered(r)
        BY <1>6
    <2>2. /\ q.scope = r.scope /\ q.says = r.says /\ q.category = r.category
          /\ q.names = r.names /\ q.blocked_by = r.blocked_by \ gone
        BY <1>2, <2>1
    <2>3. q.scope \in Scopes /\ WaitsInOrder(q.scope, q.blocked_by)
        BY <1>3, <2>2 DEF WaitsInOrder
    <2>4. ~Answered(q.scope, q.says)
        BY <2>1, <2>2 DEF AlreadyAnswered
    <2>5. ASSUME NEW b \in q.blocked_by PROVE b \in scopes
        <3>1. PICK o \in S : b = o.scope
            BY <1>4, <2>2, <2>5
        <3>2. ~AlreadyAnswered(o)
            <4>1. b \notin gone
                BY <2>2, <2>5
            <4>. QED BY <3>1, <4>1 DEF gone, S
        <3>3. K(o) \in sorted.kept /\ K(o).scope = b
            BY <1>2, <1>8, <3>1, <3>2
        <3>. QED BY <3>3
    <2>. QED BY <2>2, <2>3, <2>4, <2>5
<1>11. scopes \subseteq Scopes
    BY <1>10
<1>. HIDE DEF scopes
<1>12. \A s \in sorted.settled : \E r \in S : s = r.scope /\ AlreadyAnswered(r)
    BY <1>1, <1>7
<1>. QED BY <1>1, <1>9, <1>10, <1>11, <1>12 DEF S, scopes

\* What a scan writes to the ledger.
LEMMA ScanWrites ==
    ASSUME SetupInv, elicitation_generate
    PROVE  \E sorted :
              /\ sorted = drop_already_answered(Derived(world))
              /\ report' = diff_scan_against_ledger({q.scope : q \in sorted.kept}, sorted.settled)
              /\ DOMAIN ledger' = DOMAIN ledger \cup {q.scope : q \in sorted.kept}
              /\ \A s \in DOMAIN ledger : ledger'[s] = ledger[s]
              /\ \A s \in DOMAIN ledger' \ DOMAIN ledger :
                    \E q \in sorted.kept : s = q.scope /\ ledger'[s] = Row(q)
<1>. DEFINE sorted == drop_already_answered(Derived(world))
            presented == {q.scope : q \in sorted.kept}
            new == presented \ DOMAIN ledger
            pick(s) == CHOOSE q \in sorted.kept : q.scope = s
<1>1. Derivation[world].found = Derived(world)
    BY DEF SetupInv, Derivation
<1>2. diff_scan_against_ledger(presented, sorted.settled).new = new
    BY DEF diff_scan_against_ledger
<1>3. /\ report' = diff_scan_against_ledger(presented, sorted.settled)
      /\ ledger' = [s \in DOMAIN ledger \cup new |-> IF s \in new THEN Row(pick(s)) ELSE ledger[s]]
    BY <1>1, <1>2 DEF elicitation_generate
<1>4. \A s \in presented : pick(s) \in sorted.kept /\ s = pick(s).scope
    OBVIOUS
<1>. HIDE DEF sorted, pick
<1>5. DOMAIN ledger' = DOMAIN ledger \cup presented
    BY <1>3
<1>6. \A s \in DOMAIN ledger : ledger'[s] = ledger[s]
    BY <1>3
<1>7. \A s \in DOMAIN ledger' \ DOMAIN ledger : \E q \in sorted.kept : s = q.scope /\ ledger'[s] = Row(q)
    BY <1>3, <1>4
<1>. QED BY <1>3, <1>5, <1>6, <1>7 DEF sorted

LEMMA ScanKeepsOrder ==
    ASSUME SetupInv, elicitation_generate
    PROVE  LedgerInOrder'
<1>1. PICK sorted :
          /\ sorted = drop_already_answered(Derived(world))
          /\ DOMAIN ledger' = DOMAIN ledger \cup {q.scope : q \in sorted.kept}
          /\ \A s \in DOMAIN ledger : ledger'[s] = ledger[s]
          /\ \A s \in DOMAIN ledger' \ DOMAIN ledger :
                \E q \in sorted.kept : s = q.scope /\ ledger'[s] = Row(q)
    BY ScanWrites
<1>2. /\ {q.scope : q \in sorted.kept} \subseteq Scopes
      /\ \A q \in sorted.kept : /\ WaitsInOrder(q.scope, q.blocked_by)
                                /\ q.blocked_by \subseteq {r.scope : r \in sorted.kept}
    BY <1>1, KeptShape
<1>3. IsFiniteSet(DOMAIN ledger')
    <2>1. IsFiniteSet({q.scope : q \in sorted.kept})
        BY <1>2, ScopesAreFinite, FS_Subset
    <2>2. IsFiniteSet(DOMAIN ledger)
        BY DEF SetupInv, LedgerInOrder
    <2>. HIDE DEF SetupInv
    <2>3. IsFiniteSet(DOMAIN ledger \cup {q.scope : q \in sorted.kept})
        BY <2>1, <2>2, FS_Union
    <2>. QED BY <1>1, <2>3
<1>4. ASSUME NEW s \in DOMAIN ledger'
      PROVE  /\ IsRow(ledger'[s]) /\ ledger'[s].blocked_by \subseteq DOMAIN ledger'
             /\ WaitsInOrder(s, ledger'[s].blocked_by)
    <2>1. CASE s \in DOMAIN ledger
        BY <1>1, <2>1 DEF SetupInv, LedgerInOrder
    <2>2. CASE s \notin DOMAIN ledger
        <3>1. PICK q \in sorted.kept : s = q.scope /\ ledger'[s] = Row(q)
            BY <1>1, <2>2
        <3>. QED BY <1>1, <1>2, <3>1, RowFields
    <2>. QED BY <2>1, <2>2
<1>. QED BY <1>3, <1>4 DEF LedgerInOrder, IsRow, WaitsInOrder

LEMMA ScanAsksNothingTwice ==
    ASSUME SetupInv, elicitation_generate
    PROVE  NothingIsAskedTwice'
<1>1. PICK sorted :
          /\ sorted = drop_already_answered(Derived(world))
          /\ \A s \in DOMAIN ledger : ledger'[s] = ledger[s]
          /\ \A s \in DOMAIN ledger' \ DOMAIN ledger :
                \E q \in sorted.kept : s = q.scope /\ ledger'[s] = Row(q)
    BY ScanWrites
<1>2. \A q \in sorted.kept : ~Answered(q.scope, q.says)
    BY <1>1, KeptShape
<1>3. facts' = facts
    BY DEF elicitation_generate
<1>4. ASSUME NEW s \in DOMAIN ledger', ledger'[s].status = "open"
      PROVE  ledger'[s].says[2] = "quoted" \/ s.kind = "join" \/ ~Answered(s, ledger'[s].says)
    <2>1. CASE s \in DOMAIN ledger
        BY <1>1, <1>4, <2>1 DEF SetupInv, NothingIsAskedTwice, Open
    <2>2. CASE s \notin DOMAIN ledger
        BY <1>1, <1>2, <2>2, RowFields
    <2>. QED BY <2>1, <2>2
<1>. QED BY <1>3, <1>4 DEF NothingIsAskedTwice, Open, Answered

LEMMA ScanIsAccountedFor ==
    ASSUME SetupInv, elicitation_generate
    PROVE  ReportAccountsForTheScan'
<1>1. PICK sorted :
          /\ sorted = drop_already_answered(Derived(world))
          /\ report' = diff_scan_against_ledger({q.scope : q \in sorted.kept}, sorted.settled)
    BY ScanWrites
<1>. DEFINE presented == {q.scope : q \in sorted.kept}
<1>2. presented \cap sorted.settled = {}
    BY <1>1, KeptShape
<1>3. Open \cup AnsweredRows = DOMAIN ledger /\ Open \cap AnsweredRows = {}
    BY DEF SetupInv, LedgerInOrder, IsRow, Open, AnsweredRows
<1>4. Stranded \subseteq AnsweredRows
    BY DEF Stranded
<1>. HIDE DEF presented
<1>5. /\ report'.new = presented \ DOMAIN ledger
      /\ report'.still_open = Open
      /\ report'.settled = (AnsweredRows \ Stranded) \cup (sorted.settled \ Stranded)
      /\ report'.stranded = Stranded
      /\ report'.derived = presented \cup sorted.settled
    BY <1>1 DEF diff_scan_against_ledger, presented
<1>6. sorted.settled \cap (presented \ DOMAIN ledger) = {}
    BY <1>2
<1>7. (sorted.settled \cap Open) \cap Stranded = {}
    BY <1>3, <1>4
<1>. QED BY <1>2, <1>3, <1>4, <1>5 DEF ReportAccountsForTheScan

-----------------------------------------------------------------------------
(* An answer.                                                              *)

\* What an answer writes: its row is answered, others say at most another
\* thing, and a question about a join may be new; the fact is about its row.
LEMMA AnswerWrites ==
    ASSUME LedgerInOrder, NEW s \in DOMAIN ledger, answer_clarification_route(s)
    PROVE  \E extra :
              /\ IsFiniteSet(extra) /\ DOMAIN ledger' = DOMAIN ledger \cup extra
              /\ \A r \in extra \ DOMAIN ledger :
                    /\ r.kind = "join" /\ IsRow(ledger'[r]) /\ ledger'[r].category = "D"
                    /\ ledger'[r].blocked_by = {}
              /\ \A r \in DOMAIN ledger :
                    /\ IsRow(ledger'[r]) /\ ledger'[r].blocked_by = ledger[r].blocked_by
                    /\ r # s => /\ ledger'[r].status = ledger[r].status
                                /\ ledger'[r].says = ledger[r].says \/ ledger'[r].says[2] = "quoted"
              /\ ledger'[s].status = "answered"
              /\ \A f \in facts' : f \in facts \/ f.question.scope = s
<1>1. ASSUME NEW joins, AnswerWith(s, joins),
             joins = {} \/ \E c : joins = {maybe_generate_join_followup(s, c)}
      PROVE  \E extra :
              /\ IsFiniteSet(extra) /\ DOMAIN ledger' = DOMAIN ledger \cup extra
              /\ \A r \in extra \ DOMAIN ledger :
                    /\ r.kind = "join" /\ IsRow(ledger'[r]) /\ ledger'[r].category = "D"
                    /\ ledger'[r].blocked_by = {}
              /\ \A r \in DOMAIN ledger :
                    /\ IsRow(ledger'[r]) /\ ledger'[r].blocked_by = ledger[r].blocked_by
                    /\ r # s => /\ ledger'[r].status = ledger[r].status
                                /\ ledger'[r].says = ledger[r].says \/ ledger'[r].says[2] = "quoted"
              /\ ledger'[s].status = "answered"
              /\ \A f \in facts' : f \in facts \/ f.question.scope = s
    <2>. DEFINE unmet == unmet_prerequisites(s)
                fresh == {j \in joins : j.scope \notin DOMAIN ledger}
                extra == {j.scope : j \in fresh}
                pick(r) == CHOOSE j \in fresh : j.scope = r
                mine == [ledger[s] EXCEPT !.status = "answered", !.unmet = unmet, !.converted = TRUE]
                said(r) == [ledger[r] EXCEPT !.says = <<@[1], "quoted">>]
                asked(r) == Row(pick(r))
                becomes(r) == CASE r = s -> mine
                                [] r \in Restated(s) -> said(r)
                                [] r \in extra -> asked(r)
                                [] OTHER -> ledger[r]
    <2>1. /\ ledger' = [r \in DOMAIN ledger \cup extra |-> becomes(r)]
          /\ facts' = facts \/ facts' = Folded(s, unmet)
        BY <1>1 DEF AnswerWith
    <2>2. IsFiniteSet(extra)
        <3>1. \E c : extra \subseteq {maybe_generate_join_followup(s, c).scope}
            BY <1>1
        <3>2. PICK x : extra \subseteq {x}
            BY <3>1
        <3>. QED BY <3>2, FS_Singleton, FS_Subset
    <2>3. \A j \in fresh : j.scope.kind = "join" /\ j.category = "D" /\ j.blocked_by = {}
        BY <1>1 DEF maybe_generate_join_followup, Scope
    <2>4. \A r \in extra : pick(r) \in fresh /\ pick(r).scope = r
        OBVIOUS
    <2>5. /\ extra \cap DOMAIN ledger = {} /\ Restated(s) \subseteq DOMAIN ledger
          /\ s \notin Restated(s)
        BY DEF Restated, Open, Scope
    <2>. HIDE DEF extra, pick, fresh, unmet, mine, said, asked
    <2>0. \A r \in DOMAIN ledger \cup extra : ledger'[r] = becomes(r)
        BY <2>1, Zenon
    <2>6. \A r \in extra \ DOMAIN ledger :
              r.kind = "join" /\ IsRow(ledger'[r]) /\ ledger'[r].category = "D" /\ ledger'[r].blocked_by = {}
        <3>. TAKE r \in extra \ DOMAIN ledger
        <3>1. ledger'[r] = asked(r)
            BY <2>1, <2>5
        <3>. QED BY <2>3, <2>4, <3>1, RowFields DEF asked
    <2>7. \A r \in DOMAIN ledger : IsRow(ledger[r])
        BY DEF LedgerInOrder
    <2>8. /\ IsRow(ledger'[s]) /\ ledger'[s].blocked_by = ledger[s].blocked_by
          /\ ledger'[s].status = "answered"
        <3>1. ledger'[s] = mine
            BY <2>0, <2>5
        <3>. QED BY <2>7, <3>1 DEF IsRow, mine
    <2>9. ASSUME NEW r \in DOMAIN ledger, r # s
          PROVE  /\ IsRow(ledger'[r]) /\ ledger'[r].blocked_by = ledger[r].blocked_by
                 /\ ledger'[r].status = ledger[r].status
                 /\ ledger'[r].says = ledger[r].says \/ ledger'[r].says[2] = "quoted"
        <3>1. CASE r \in Restated(s)
            <4>1. ledger'[r] = said(r)
                BY <2>0, <2>5, <2>9, <3>1
            <4>. QED BY <2>7, <4>1 DEF IsRow, said
        <3>2. CASE r \notin Restated(s)
            <4>1. ledger'[r] = ledger[r]
                BY <2>1, <2>5, <2>9, <3>2
            <4>. QED BY <2>7, <4>1
        <3>. QED BY <3>1, <3>2
    <2>10. \A f \in facts' : f \in facts \/ f.question.scope = s
        BY <2>1 DEF Folded, Question
    <2>11. DOMAIN ledger' = DOMAIN ledger \cup extra
        BY <2>1
    <2>. QED BY <2>2, <2>6, <2>8, <2>9, <2>10, <2>11
<1>. QED BY <1>1 DEF answer_clarification_route

LEMMA AnswerKeeps ==
    ASSUME SetupInv, NEW s \in DOMAIN ledger, answer_clarification_route(s)
    PROVE  LedgerInOrder' /\ NothingIsAskedTwice' /\ ReportAccountsForTheScan'
<1>1. PICK extra :
          /\ IsFiniteSet(extra) /\ DOMAIN ledger' = DOMAIN ledger \cup extra
          /\ \A r \in extra \ DOMAIN ledger :
                /\ r.kind = "join" /\ IsRow(ledger'[r]) /\ ledger'[r].category = "D"
                /\ ledger'[r].blocked_by = {}
          /\ \A r \in DOMAIN ledger :
                /\ IsRow(ledger'[r]) /\ ledger'[r].blocked_by = ledger[r].blocked_by
                /\ r # s => /\ ledger'[r].status = ledger[r].status
                            /\ ledger'[r].says = ledger[r].says \/ ledger'[r].says[2] = "quoted"
          /\ ledger'[s].status = "answered"
          /\ \A f \in facts' : f \in facts \/ f.question.scope = s
    BY AnswerWrites DEF SetupInv
<1>2. /\ IsFiniteSet(DOMAIN ledger)
      /\ \A r \in DOMAIN ledger : /\ ledger[r].blocked_by \subseteq DOMAIN ledger
                                  /\ WaitsInOrder(r, ledger[r].blocked_by)
    BY DEF SetupInv, LedgerInOrder
<1>3. LedgerInOrder'
    <2>1. IsFiniteSet(DOMAIN ledger')
        <3>1. IsFiniteSet(DOMAIN ledger \cup extra)
            BY <1>1, <1>2, FS_Union
        <3>. QED BY <1>1, <3>1
    <2>2. ASSUME NEW r \in DOMAIN ledger'
          PROVE  /\ IsRow(ledger'[r]) /\ ledger'[r].blocked_by \subseteq DOMAIN ledger'
                 /\ WaitsInOrder(r, ledger'[r].blocked_by)
        <3>1. CASE r \in DOMAIN ledger
            BY <1>1, <1>2, <3>1
        <3>2. CASE r \notin DOMAIN ledger
            BY <1>1, <3>2 DEF WaitsInOrder
        <3>. QED BY <3>1, <3>2
    <2>. QED BY <2>1, <2>2 DEF LedgerInOrder, IsRow, WaitsInOrder
<1>4. ASSUME NEW r \in DOMAIN ledger', ledger'[r].status = "open"
      PROVE  \/ ledger'[r].says[2] = "quoted" \/ r.kind = "join"
             \/ ~ \E f \in facts' : f.question = Question(r, ledger'[r].says)
    <2>1. CASE r \in DOMAIN ledger /\ ledger'[r].says[2] # "quoted"
        <3>1. r # s /\ ledger[r].status = "open" /\ ledger'[r].says = ledger[r].says
            BY <1>1, <1>4, <2>1
        <3>2. \/ ledger'[r].says[2] = "quoted" \/ r.kind = "join"
              \/ ~ \E f \in facts : f.question = Question(r, ledger'[r].says)
            BY <2>1, <3>1 DEF SetupInv, NothingIsAskedTwice, Open, Answered
        <3>3. Question(r, ledger'[r].says).scope # s
            BY <3>1 DEF Question
        <3>. QED BY <1>1, <3>2, <3>3
    <2>2. CASE r \notin DOMAIN ledger
        BY <1>1, <2>2
    <2>. QED BY <2>1, <2>2
<1>6. NothingIsAskedTwice'
    BY <1>4 DEF NothingIsAskedTwice, Open, Answered, Question
<1>5. ReportAccountsForTheScan'
    BY DEF SetupInv, ReportAccountsForTheScan, answer_clarification_route
<1>. QED BY <1>3, <1>5, <1>6

-----------------------------------------------------------------------------
(* The theorems.                                                           *)

LEMMA SetupInit == Init => SetupInv
<1>. SUFFICES ASSUME Init PROVE SetupInv
    OBVIOUS
<1>1. DOMAIN ledger = {} /\ world \in Worlds /\ report = NoReport
    BY DEF Init
<1>2. LedgerInOrder
    BY <1>1, FS_EmptySet DEF LedgerInOrder
<1>3. NothingIsAskedTwice
    BY <1>1 DEF NothingIsAskedTwice, Open
<1>4. ReportAccountsForTheScan
    BY <1>1 DEF ReportAccountsForTheScan, NoReport
<1>. QED BY <1>1, <1>2, <1>3, <1>4 DEF SetupInv

LEMMA SetupNext == SetupInv /\ [Next]_vars => SetupInv'
<1>. SUFFICES ASSUME SetupInv, [Next]_vars PROVE SetupInv'
    OBVIOUS
<1>1. CASE elicitation_generate
    <2>1. LedgerInOrder' /\ NothingIsAskedTwice' /\ ReportAccountsForTheScan'
        BY <1>1, ScanKeepsOrder, ScanAsksNothingTwice, ScanIsAccountedFor
    <2>2. world' \in Worlds
        BY <1>1 DEF elicitation_generate, SetupInv
    <2>. QED BY <2>1, <2>2 DEF SetupInv
<1>2. ASSUME NEW s \in DOMAIN ledger, answer_clarification_route(s) PROVE SetupInv'
    <2>1. LedgerInOrder' /\ NothingIsAskedTwice' /\ ReportAccountsForTheScan'
        BY <1>2, AnswerKeeps
    <2>2. world' \in Worlds
        BY <1>2 DEF answer_clarification_route, SetupInv
    <2>. QED BY <2>1, <2>2 DEF SetupInv
<1>3. ASSUME world' \in Worlds, ledger' = ledger, facts' = facts, report' = report PROVE SetupInv'
    <2>1. LedgerInOrder'
        BY <1>3 DEF SetupInv, LedgerInOrder, IsRow, WaitsInOrder
    <2>2. NothingIsAskedTwice'
        BY <1>3 DEF SetupInv, NothingIsAskedTwice, Open, Answered, Question
    <2>3. ReportAccountsForTheScan'
        BY <1>3 DEF SetupInv, ReportAccountsForTheScan
    <2>. QED BY <1>3, <2>1, <2>2, <2>3 DEF SetupInv
<1>4. CASE WorldChanges
    BY <1>3, <1>4 DEF WorldChanges, Changes
<1>5. CASE CertifyTerm
    BY <1>3, <1>5 DEF CertifyTerm, Changes, SetupInv
<1>6. CASE LoseLedger
    <2>1. DOMAIN ledger' = {} /\ world' \in Worlds /\ report' = report
        BY <1>6 DEF LoseLedger, Changes, SetupInv
    <2>2. LedgerInOrder'
        BY <2>1, FS_EmptySet DEF LedgerInOrder
    <2>3. NothingIsAskedTwice'
        BY <2>1 DEF NothingIsAskedTwice, Open
    <2>4. ReportAccountsForTheScan'
        BY <2>1 DEF SetupInv, ReportAccountsForTheScan
    <2>. QED BY <2>1, <2>2, <2>3, <2>4 DEF SetupInv
<1>7. CASE UNCHANGED vars
    BY <1>3, <1>7 DEF vars, SetupInv
<1>. QED BY <1>1, <1>2, <1>4, <1>5, <1>6, <1>7 DEF Next

\* Whatever the databases and however scans, answers, losses and changes
\* interleave, the ledger's rows wait for rows that are on it, in one order.
THEOREM LedgerIsInOrder == Spec => []SetupInv
BY SetupInit, SetupNext, PTL DEF Spec

\* Every question a scan derives is new, open, settled or stranded, and an
\* answer stuck as a draft is not among the settled (diff_scan_against_ledger).
THEOREM ScansAreAccountedFor == Spec => []ReportAccountsForTheScan
<1>1. SetupInv => ReportAccountsForTheScan
    BY DEF SetupInv
<1>. QED BY <1>1, LedgerIsInOrder, PTL

\* No open question that a scan words is one the corpus answers, though the
\* ledger was lost (drop_already_answered).
THEOREM AnsweredIsNotAskedAgain == Spec => []NothingIsAskedTwice
<1>1. SetupInv => NothingIsAskedTwice
    BY DEF SetupInv
<1>. QED BY <1>1, LedgerIsInOrder, PTL

\* The open questions have one none of whose prerequisites is missing: a pair
\* before a term before the rest.
LEMMA SomeoneIsReady ==
    ASSUME LedgerInOrder, NEW X, AnsweredRows \subseteq X, ~(Open \subseteq X)
    PROVE  \E s \in Open \ X : ledger[s].blocked_by \subseteq X
<1>1. Open \cup AnsweredRows = DOMAIN ledger
    BY DEF LedgerInOrder, IsRow, Open, AnsweredRows
<1>. DEFINE pairs == {s \in Open \ X : s.kind = "duplicate"}
            terms == {s \in Open \ X : s.kind = "term"}
<1>2. ASSUME NEW s \in Open \ X, NEW b \in ledger[s].blocked_by, b \notin X
      PROVE  b \in Open \ X /\ b.kind \in Gating(s.kind)
    BY <1>1, <1>2 DEF LedgerInOrder, WaitsInOrder
<1>3. CASE pairs # {}
    BY <1>2, <1>3 DEF Gating
<1>4. CASE pairs = {} /\ terms # {}
    BY <1>2, <1>4 DEF Gating
<1>5. CASE pairs = {} /\ terms = {}
    BY <1>2, <1>5 DEF Gating
<1>. QED BY <1>3, <1>4, <1>5

LEMMA OrderedLedgersAreReached == LedgerInOrder => EveryQuestionCanBeReached
<1>. SUFFICES ASSUME LedgerInOrder PROVE EveryQuestionCanBeReached
    OBVIOUS
<1>. DEFINE N == Cardinality(Open)
            After(X) == X \cup {s \in Open : ledger[s].blocked_by \subseteq X}
            Loop(m) == [n \in 0 .. N |-> IF n = 0 THEN AnsweredRows ELSE After(m[n - 1])]
<1>1. IsFiniteSet(Open) /\ N \in Nat
    <2>1. IsFiniteSet(Open)
        BY FS_Subset DEF LedgerInOrder, Open
    <2>. QED BY <2>1, FS_CardinalityType
<1>. HIDE DEF N
<1>2. \E m : m = Loop(m)
    <2>. DEFINE A == SUBSET DOMAIN ledger
                F == [X \in A |-> After(X)]
    <2>1. \A X \in A : After(X) \in A
        BY DEF Open
    <2>2. F \in [A -> A]
        BY <2>1
    <2>a. AnsweredRows \in A
        BY DEF AnsweredRows
    <2>b. N \in Nat
        BY <1>1
    <2>. HIDE DEF F, A
    <2>3. PICK m \in [0 .. N -> A] : Iterated(m, F, AnsweredRows, N)
        BY <2>2, <2>a, <2>b, Iterates
    <2>4. ASSUME NEW n \in 0 .. N PROVE m[n] = Loop(m)[n]
        <3>1. CASE n = 0
            BY <2>3, <3>1 DEF Iterated
        <3>2. CASE n # 0
            <4>1. n - 1 \in 0 .. N
                BY <1>1, <3>2
            <4>2. m[n - 1] \in A
                BY <2>3, <4>1
            <4>3. F[m[n - 1]] = After(m[n - 1])
                BY <4>2 DEF F
            <4>. QED BY <2>3, <3>2, <4>3 DEF Iterated
        <3>. QED BY <3>1, <3>2
    <2>5. m = Loop(m)
        BY <2>3, <2>4
    <2>. QED BY <2>5
<1>. DEFINE met == CHOOSE m : m = Loop(m)
<1>3. met = Loop(met)
    BY <1>2, Zenon
<1>4. EveryQuestionCanBeReached <=> Open \subseteq met[N]
    BY Zenon DEF EveryQuestionCanBeReached, N
<1>. HIDE DEF met
<1>5. \A n \in 0 .. N : met[n] = IF n = 0 THEN AnsweredRows ELSE After(met[n - 1])
    <2>1. \A n \in 0 .. N : met[n] = Loop(met)[n]
        BY <1>3, Zenon
    <2>. QED BY <2>1
<1>. DEFINE Good(n) == /\ AnsweredRows \subseteq met[n]
                       /\ Open \subseteq met[n] \/ n <= Cardinality(met[n] \cap Open)
            T == {n \in 0 .. N : Good(n)}
<1>6. 0 \in T
    <2>1. Cardinality(met[0] \cap Open) \in Nat
        BY <1>1, FS_Subset, FS_CardinalityType
    <2>2. met[0] = AnsweredRows
        <3>1. 0 \in 0 .. N
            BY <1>1
        <3>. QED BY <1>5, <3>1, Zenon
    <2>. QED BY <1>1, <2>1, <2>2
<1>7. ASSUME NEW n \in 0 .. N, n \in T, n < N PROVE n + 1 \in T
    <2>1. n + 1 \in 0 .. N /\ (n + 1) - 1 = n /\ n + 1 # 0
        BY <1>1, <1>7
    <2>2. met[n + 1] = After(met[n])
        <3>1. met[n + 1] = After(met[(n + 1) - 1])
            BY <1>5, <2>1, Zenon
        <3>. QED BY <2>1, <3>1, Zenon
    <2>3. CASE Open \subseteq met[n]
        BY <1>7, <2>1, <2>2, <2>3
    <2>4. CASE ~(Open \subseteq met[n])
        <3>1. AnsweredRows \subseteq met[n] /\ n <= Cardinality(met[n] \cap Open)
            BY <1>7, <2>4
        <3>2. PICK s \in Open \ met[n] : ledger[s].blocked_by \subseteq met[n]
            BY <2>4, <3>1, SomeoneIsReady
        <3>. DEFINE B == met[n] \cap Open
        <3>3. B \cup {s} \subseteq met[n + 1] \cap Open /\ s \notin B
            BY <2>2, <3>2
        <3>4. IsFiniteSet(B) /\ IsFiniteSet(met[n + 1] \cap Open)
            BY <1>1, FS_Subset
        <3>. HIDE DEF B
        <3>5. Cardinality(B) \in Nat /\ Cardinality(B \cup {s}) = Cardinality(B) + 1
            BY <3>3, <3>4, FS_CardinalityType, FS_AddElement
        <3>6. Cardinality(B \cup {s}) <= Cardinality(met[n + 1] \cap Open)
            BY <3>3, <3>4, FS_Subset
        <3>7. Cardinality(met[n + 1] \cap Open) \in Nat
            BY <3>4, FS_CardinalityType
        <3>8. n + 1 <= Cardinality(met[n + 1] \cap Open)
            BY <3>1, <3>5, <3>6, <3>7 DEF B
        <3>9. AnsweredRows \subseteq met[n + 1]
            BY <2>2, <3>1
        <3>. QED BY <2>1, <3>8, <3>9
    <2>. QED BY <2>3, <2>4
<1>. HIDE DEF T
<1>8. 0 .. N \subseteq T
    BY <1>1, <1>6, <1>7, UpTo
<1>9. Good(N)
    BY <1>1, <1>8 DEF T
<1>10. CASE ~(Open \subseteq met[N])
    <2>1. N <= Cardinality(met[N] \cap Open) /\ met[N] \cap Open # Open
        BY <1>9, <1>10
    <2>. DEFINE B == met[N] \cap Open
    <2>2. B \subseteq Open /\ B # Open
        BY <2>1
    <2>. HIDE DEF B
    <2>3. Cardinality(B) \in Nat /\ Cardinality(B) <= N /\ Cardinality(B) # N
        BY <1>1, <2>2, FS_Subset, FS_CardinalityType DEF N
    <2>. QED BY <1>1, <2>1, <2>3 DEF B
<1>. QED BY <1>4, <1>10

\* Whatever is open can be reached by answering in some order
\* (apply_cluster_dependencies, drop_already_answered, LoseLedger).
THEOREM EveryQuestionIsReached == Spec => []EveryQuestionCanBeReached
<1>1. SetupInv => EveryQuestionCanBeReached
    BY OrderedLedgersAreReached DEF SetupInv
<1>. QED BY <1>1, LedgerIsInOrder, PTL

LEMMA OneAfterTheOther ==
    ASSUME NEW x, NEW y
    PROVE  <<x>> \o <<y>> = <<x, y>>
<1>. DEFINE S == {x, y}  s == <<x>> \o <<y>>  t == <<x, y>>
<1>1. <<x>> \in Seq(S) /\ <<y>> \in Seq(S) /\ Len(<<x>>) = 1 /\ Len(<<y>>) = 1
    OBVIOUS
<1>2. t \in Seq(S) /\ Len(t) = 2 /\ t[1] = x /\ t[2] = y
    OBVIOUS
<1>3. s \in Seq(S) /\ Len(s) = 2 /\ s[1] = x /\ s[2] = y
    BY <1>1
<1>. HIDE DEF s, t
<1>4. \A i \in 1 .. Len(s) : s[i] = t[i]
    BY <1>2, <1>3
<1>5. s = t
    BY <1>2, <1>3, <1>4, SeqEqual, Zenon
<1>. QED BY <1>5 DEF s, t

\* A question a scan adds about a contested column waits for one of its
\* pairs, unless the corpus answered that (apply_cluster_dependencies).
THEOREM ContestedColumnsAreGated == Spec => ContestedColumnsWait
<1>. DEFINE Waits == \A s \in DOMAIN ledger' \ DOMAIN ledger :
                        Gated(s)' => \A c \in ledger'[s].names :
                            \/ About(c) = {}
                            \/ \E p \in About(c) : \/ PairIsSettled(p)
                                                  \/ Scope("duplicate", p) \in ledger'[s].blocked_by
<1>1. ASSUME SetupInv, [Next]_vars PROVE [Waits]_vars
    <2>1. CASE elicitation_generate
        <3>1. PICK sorted :
                  /\ sorted = drop_already_answered(Derived(world))
                  /\ \A s \in DOMAIN ledger' \ DOMAIN ledger :
                        \E q \in sorted.kept : s = q.scope /\ ledger'[s] = Row(q)
            BY <1>1, <2>1, ScanWrites
        <3>. SUFFICES ASSUME NEW s \in DOMAIN ledger' \ DOMAIN ledger, Gated(s)',
                             NEW c \in ledger'[s].names, About(c) # {}
                      PROVE  \E p \in About(c) : \/ PairIsSettled(p)
                                                \/ Scope("duplicate", p) \in ledger'[s].blocked_by
            OBVIOUS
        <3>2. PICK q \in sorted.kept : s = q.scope /\ ledger'[s] = Row(q)
            BY <3>1
        <3>3. PICK r \in Derived(world) : /\ q.scope = r.scope /\ q.category = r.category
                                         /\ q.names = r.names
                                         /\ q.blocked_by = r.blocked_by \ sorted.settled
            BY <3>1, <3>2, KeptShape
        <3>4. r.category \in {"A", "B", "E"} /\ c \in r.names
            BY <3>2, <3>3, RowFields DEF Gated
        <3>5. \A p : p \in About(c) <=> p \in ContestedPairs(world) /\ c \in p
            BY <1>1 DEF About, Derivation, SetupInv
        <3>6. c \in Contested(world)
            BY <3>5 DEF Contested
        <3>7. PICK p \in ContestedPairs(world) : c \in p /\ Scope("duplicate", p) \in r.blocked_by
            BY <3>4, <3>6, DerivedShape
        <3>8. CASE Scope("duplicate", p) \notin sorted.settled
            BY <3>2, <3>3, <3>5, <3>7, <3>8, RowFields
        <3>9. CASE Scope("duplicate", p) \in sorted.settled
            <4>1. PICK o \in Derived(world) : o.scope = Scope("duplicate", p) /\ AlreadyAnswered(o)
                BY <3>1, <3>9, KeptShape
            <4>2. o.says = <<"T1">> \o <<world.differing[p]>>
                BY <4>1, DerivedShape
            <4>3. <<"T1">> \o <<world.differing[p]>> = <<"T1", world.differing[p]>>
                BY OneAfterTheOther
            <4>4. Answered(o.scope, o.says)
                BY <4>1 DEF AlreadyAnswered, Scope
            <4>5. PairIsSettled(p)
                BY <4>1, <4>2, <4>3, <4>4 DEF PairIsSettled
            <4>. QED BY <3>5, <3>7, <4>5
        <3>. QED BY <3>8, <3>9
    <2>2. ASSUME NEW s \in DOMAIN ledger, answer_clarification_route(s) PROVE Waits
        <3>1. \A r \in DOMAIN ledger' \ DOMAIN ledger : ledger'[r].category = "D"
            BY <1>1, <2>2, AnswerWrites DEF SetupInv
        <3>. QED BY <3>1 DEF Gated
    <2>3. CASE LoseLedger
        BY <2>3 DEF LoseLedger
    <2>4. ASSUME ledger' = ledger PROVE Waits
        BY <2>4
    <2>. QED BY <1>1, <2>1, <2>2, <2>3, <2>4 DEF Next, WorldChanges, CertifyTerm, vars
<1>2. Spec => [][Waits]_vars
    BY <1>1, LedgerIsInOrder, PTL DEF Spec
<1>. QED BY <1>2 DEF ContestedColumnsWait
=============================================================================
