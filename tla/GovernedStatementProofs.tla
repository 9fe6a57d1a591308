----------------------- MODULE GovernedStatementProofs -----------------------
(***************************************************************************)
(* What GovernedStatement guarantees for every corpus, every licence, every *)
(* statement and every row cap.                                            *)
(***************************************************************************)
EXTENDS GovernedStatement, FiniteSetTheorems, TLAPS

(* The invariant that is inductive.                                        *)
IInv ==
    /\ TypeOK /\ result \in Results
    /\ SamplesOneColumn /\ CanonicalIsServed /\ ApprovedIsBound /\ LimitIsApplied
    /\ AnswerIsWhatWasRead

(* A set with one element, as the cardinality tests of the code see it.    *)
LEMMA OneElement ==
    ASSUME NEW S, IsFiniteSet(S)
    PROVE  /\ Cardinality(S) \in Nat
           /\ Cardinality(S) = 1 <=> \E x : S = {x}
           /\ Cardinality(S) > 1 <=> \E x, y \in S : x # y
<1>1. Cardinality(S) \in Nat /\ (Cardinality(S) = 1 <=> \E x : S = {x})
  BY FS_CardinalityType, FS_Singleton
<1>2. Cardinality(S) = 0 <=> S = {}
  BY FS_EmptySet
<1>3. (S # {} /\ ~ \E x : S = {x}) <=> \E x, y \in S : x # y
  OBVIOUS
<1>4. QED
  BY <1>1, <1>2, <1>3

(* What the corpus serves of a table is finite, and so are the tables of   *)
(* one name and the handles of a scope.                                    *)
LEMMA Finite ==
    /\ \A t : IsFiniteSet(for_analyst(t))
    /\ IsFiniteSet(FlatNames)
    /\ \A name : IsFiniteSet({t \in licensed : NameOf[t] = name}) \/ ~(licensed \subseteq Tables)
    /\ IsFiniteSet(Handles)
<1>1. \A S : S \subseteq Spellings => IsFiniteSet(S)
  BY StatementAssumption, FS_Subset
<1>2. \A t : for_analyst(t) \subseteq Spellings
  BY DEF for_analyst
<1>3. FlatNames \subseteq Spellings
  BY <1>2 DEF FlatNames
<1>4. \A S : S \subseteq Tables => IsFiniteSet(S)
  BY StatementAssumption, FS_Subset
<1>5. IsFiniteSet(Handles)
  <2> DEFINE f == [t \in Tables |-> NameOf[t]]
  <2>1. f \in Surjection(Tables, Names)
    BY DEF Names, Surjection
  <2>2. IsFiniteSet(Names)
    BY <2>1, FS_Surjection, StatementAssumption
  <2>3. QED
    BY <2>2, FS_Union, StatementAssumption DEF Handles
<1>6. QED
  BY <1>1, <1>2, <1>3, <1>4, <1>5

(* table_key is a table of the corpus the source names, or no table.       *)
LEMMA KeyOf ==
    ASSUME NEW source
    PROVE  LET key == table_key(source)
               schema == IF source.schema = None THEN default_schema ELSE source.schema
           IN  /\ key \in Tables \cup {None}
               /\ key # None =>
                    /\ key \in Tables /\ SchemaOf[key] = schema /\ NameOf[key] = source.name
                    /\ \A t \in Tables : SchemaOf[t] = schema /\ NameOf[t] = source.name => t = key
<1> DEFINE schema == IF source.schema = None THEN default_schema ELSE source.schema
           named == {t \in Tables : SchemaOf[t] = schema /\ NameOf[t] = source.name}
<1>1. table_key(source) = IF named = {} THEN None ELSE CHOOSE t \in named : TRUE
  BY DEF table_key
<1>2. named # {} => (CHOOSE t \in named : TRUE) \in named
  OBVIOUS
<1>3. QED
  BY <1>1, <1>2, StatementAssumption
-----------------------------------------------------------------------------
(* A bound reference is spelled as its own table's one served column: by   *)
(* the table itself, or because nothing licensed has any other spelling.   *)
LEMMA SpelledAsItsTable ==
    ASSUME TypeOK, canonical \in canonicalise, OwnSpelling = {} => ~ambiguous,
           NEW source \in bind, source.kind = "base", NEW t \in licensed,
           table_key(source) = t, for_analyst(t) # {}
    PROVE  for_analyst(t) = {canonical}
<1>1. t \in Tables /\ t # None /\ licensed \subseteq Tables
  BY StatementAssumption DEF TypeOK
<1>2. for_analyst(t) \subseteq FlatNames
  BY DEF FlatNames
<1>3. CASE OwnSpelling = {}
  <2>1. Cardinality(FlatNames) \in Nat /\ ~(Cardinality(FlatNames) > 1)
    BY <1>3, Finite, OneElement DEF ambiguous
  <2>2. \A x, y \in FlatNames : x = y
    BY <2>1, Finite, OneElement
  <2>3. canonical \in FlatNames
    BY <1>2, <1>3 DEF canonicalise
  <2>4. QED
    BY <1>2, <2>2, <2>3
<1>4. CASE OwnSpelling # {}
  <2>1. /\ statement.handle # None /\ _lookup(statement.handle).kind = "base"
        /\ OwnSpelling = UNION {for_analyst(u) : u \in by_table(_lookup(statement.handle))}
    BY <1>4 DEF OwnSpelling
  <2>2. source = _lookup(statement.handle)
    BY <2>1 DEF bind
  <2>3. \A u \in by_table(source) : u = t /\ ~OwnAmbiguous(u)
    <3> DEFINE named == {u \in licensed : NameOf[u] = source.name}
    <3>1. t \in named
      BY <1>1, KeyOf
    <3>2. CASE source.schema = None
      <4>1. by_table(source) = IF Cardinality(named) = 1 THEN {u \in named : ~OwnAmbiguous(u)} ELSE {}
        BY <3>2 DEF by_table
      <4>2. Cardinality(named) = 1 => \A u \in named : u = t
        <5>1. IsFiniteSet(named)
          BY <1>1, Finite
        <5>2. QED
          BY <3>1, <5>1, OneElement
      <4>3. QED
        BY <4>1, <4>2
    <3>3. CASE source.schema # None
      <4>1. by_table(source) = {u \in named : SchemaOf[u] = source.schema /\ ~OwnAmbiguous(u)}
        BY <3>3 DEF by_table
      <4>2. \A u \in named : SchemaOf[u] = source.schema => u = t
        BY <1>1, <3>3, KeyOf
      <4>3. QED
        BY <4>1, <4>2
    <3>4. QED
      BY <3>2, <3>3
  <2>4. OwnSpelling = for_analyst(t) /\ ~OwnAmbiguous(t)
    BY <1>4, <2>1, <2>2, <2>3
  <2>5. \A x, y \in for_analyst(t) : x = y
    BY <2>4, Finite, OneElement DEF OwnAmbiguous
  <2>6. canonical \in for_analyst(t)
    BY <1>4, <2>4 DEF canonicalise
  <2>7. QED
    BY <2>5, <2>6
<1>5. QED
  BY <1>3, <1>4

(* A source of the statement is one of the two scopes'.                    *)
LEMMA BoundIsInFrom ==
    ASSUME TypeOK, NEW source \in bind, source.kind = "base"
    PROVE  source \in FromTables
<1>1. \A scope, h : h \in In(scope) /\ statement[scope][h].kind = "base" =>
                       statement[scope][h] \in Bases(scope)
  BY DEF Bases
<1>2. statement.scope \in {"inner", "outer"}
  BY DEF TypeOK, Statements
<1>3. CASE statement.handle = None
  <2>1. PICK h \in BareBinds : source = statement[statement.scope][h]
    BY <1>3 DEF bind
  <2>2. BareBinds \subseteq In(statement.scope)
    BY DEF BareBinds
  <2>3. QED
    BY <1>1, <1>2, <2>1, <2>2 DEF FromTables
<1>4. CASE statement.handle # None
  <2>1. source = _lookup(statement.handle) /\ source # NoSource
    BY <1>4 DEF bind
  <2>2. \E i \in DOMAIN Chain : /\ statement.handle \in In(Chain[i])
                                /\ source = statement[Chain[i]][statement.handle]
    BY <2>1 DEF _lookup
  <2>3. \A i \in DOMAIN Chain : Chain[i] \in {"inner", "outer"}
    BY DEF Chain
  <2>4. QED
    BY <1>1, <2>1, <2>2, <2>3 DEF FromTables
<1>5. QED
  BY <1>3, <1>4

(* The engine resolves the reference to the source bind resolved it to, or *)
(* to nothing.                                                             *)
LEMMA EngineAgrees ==
    ASSUME TypeOK, NEW source \in bind, source.kind = "base",
           NEW t \in Tables, table_key(source) = t, columns[t][canonical] # "absent"
    PROVE  \A b \in EngineReads : b = source
<1>1. t # None
  BY StatementAssumption
<1>2. Physical(source)
  BY <1>1 DEF Physical
<1>3. CASE statement.handle # None
  BY <1>3 DEF EngineReads, bind
<1>4. CASE statement.handle = None
  <2>1. PICK h \in BareBinds : source = statement[statement.scope][h]
    BY <1>4 DEF bind
  <2>2. h \in In(statement.scope)
    BY <2>1 DEF BareBinds
  <2>3. 1 \in DOMAIN Chain /\ Chain[1] = statement.scope /\ \A i \in DOMAIN Chain : i \in {1, 2}
    BY DEF Chain, TypeOK, Statements
  <2>4. h \in Having(1) /\ 1 \in Answers
    BY <1>2, <2>1, <2>2, <2>3 DEF Having, Answers
  <2>5. Nearest = 1
    <3>1. \A i \in Answers : i \in {1, 2}
      BY <2>3 DEF Answers
    <3>2. \A j \in Answers : 1 <= j
      BY <3>1
    <3>3. Nearest \in Answers /\ \A j \in Answers : Nearest <= j
      BY <2>4, <3>2 DEF Nearest
    <3>4. QED
      BY <2>4, <3>1, <3>3
  <2>6. IsFiniteSet(Having(1))
    <3>1. Having(1) \subseteq Handles
      BY DEF Having, In
    <3>2. QED
      BY <3>1, Finite, FS_Subset
  <2>7. Cardinality(Having(1)) = 1 => Having(1) = {h}
    BY <2>4, <2>6, OneElement
  <2>8. QED
    BY <1>4, <2>1, <2>3, <2>5, <2>7 DEF EngineReads
<1>5. QED
  BY <1>3, <1>4

(* What check() approved is what the engine reads.                         *)
LEMMA WhatItReads == IInv => ReadsWhatItBound
<1> SUFFICES ASSUME IInv, stage = "answered", bound # None
             PROVE  /\ result.read = bound /\ bound \in licensed
                    /\ canonical \in for_analyst(bound)
                    /\ sampled # None => <<bound, canonical>> = <<sampled.table, sampled.spelling>>
  BY DEF ReadsWhatItBound
<1> USE DEF IInv
<1>1. PICK source \in bind : /\ source.kind = "base" /\ table_key(source) = bound
                             /\ _columns(bound) /\ _tables
  BY DEF ApprovedIsBound
<1>2. bound \in licensed /\ bound \in Tables
  <2>1. source \in FromTables
    BY <1>1, BoundIsInFrom
  <2>2. QED
    BY <1>1, <2>1 DEF _tables, TypeOK
<1>3. for_analyst(bound) # {}
  BY <1>1 DEF _columns, With, for_analyst
<1>4. for_analyst(bound) = {canonical}
  BY <1>1, <1>2, <1>3, SpelledAsItsTable DEF CanonicalIsServed
<1>5. columns[bound][canonical] # "absent"
  BY <1>4 DEF for_analyst
<1>6. result.read = bound
  <2>1. EngineReads # {} /\ result.read = table_key(CHOOSE b \in EngineReads : TRUE)
    BY DEF AnswerIsWhatWasRead
  <2>2. \A b \in EngineReads : b = source
    BY <1>1, <1>2, <1>5, EngineAgrees
  <2>3. QED
    BY <1>1, <2>1, <2>2
<1>7. ASSUME sampled # None
      PROVE  <<bound, canonical>> = <<sampled.table, sampled.spelling>>
  <2>1. /\ sampled.table \in licensed /\ sampled.table \in Tables
        /\ sampled.spelling \in Spellings
        /\ columns[sampled.table][sampled.spelling] \in {"allowed", "suspect"}
        /\ statement.scope = "outer" /\ statement.handle = NameOf[sampled.table]
        /\ statement.outer[statement.handle] =
             Base(SchemaOf[sampled.table], NameOf[sampled.table])
    BY <1>7 DEF SamplesOneColumn, TypeOK
  <2>2. statement.handle # None
    BY <2>1, StatementAssumption
  <2>3. source = Base(SchemaOf[sampled.table], NameOf[sampled.table])
    <3>1. source = _lookup(statement.handle) /\ source # NoSource
      BY <1>1, <2>2 DEF bind
    <3>2. Chain = <<"outer">>
      BY <2>1 DEF Chain
    <3>3. _lookup(statement.handle) \in {statement["outer"][statement.handle], NoSource}
      BY <3>2 DEF _lookup
    <3>4. QED
      BY <2>1, <3>1, <3>3
  <2>4. bound = sampled.table
    <3>1. SchemaOf[sampled.table] # None
      BY <2>1, StatementAssumption
    <3>2. /\ source.schema = SchemaOf[sampled.table] /\ source.name = NameOf[sampled.table]
      BY <2>3 DEF Base
    <3>3. QED
      BY <1>1, <1>2, <2>1, <3>1, <3>2, KeyOf, StatementAssumption
  <2>5. sampled.spelling \in for_analyst(bound)
    BY <2>1, <2>4 DEF for_analyst
  <2>6. QED
    BY <1>4, <2>4, <2>5
<1>8. QED
  BY <1>2, <1>4, <1>6, <1>7

(* A cut answer says so: one row more than the cap is enough to see it.    *)
LEMMA WhatItTells == IInv => TruncationIsTold
<1> SUFFICES ASSUME IInv, stage = "answered" PROVE TruncationIsTold
  BY DEF TruncationIsTold
<1>1. /\ max_rows \in Nat /\ result.existing \in Nat \cup {None} /\ result.rows \in Nat
      /\ result.limit = IF result.existing = None \/ result.existing > max_rows + 1
                          THEN max_rows + 1 ELSE result.existing
      /\ result.returned = Least(Least(result.rows, result.limit), max_rows)
      /\ result.truncated <=> Least(result.rows, result.limit) > max_rows
  BY StatementAssumption DEF IInv, Results, LimitIsApplied, AnswerIsWhatWasRead, apply_row_limit
<1>2. CASE result.existing = None
  BY <1>1, <1>2 DEF TruncationIsTold, Least
<1>3. CASE result.existing # None
  BY <1>1, <1>3 DEF TruncationIsTold, Least
<1>4. QED
  BY <1>2, <1>3
-----------------------------------------------------------------------------
(* What a step changes: the corpus and the licence never, the statement    *)
(* only where it is asked.                                                 *)
LEMMA StatementStands ==
    Next => /\ UNCHANGED <<columns, licensed>>
            /\ stage # "idle" => UNCHANGED <<statement, sampled>>
            /\ stage' # "idle"
BY DEF Next, run_query, sample_rows, Asks, Canonicalises, Refuses, Checks, Limits, Executes

(* While they stand, the reference is looked up and spelled as before.     *)
LEMMA Standing ==
    ASSUME UNCHANGED <<columns, licensed, statement>>
    PROVE  /\ canonicalise' = canonicalise /\ OwnSpelling' = OwnSpelling /\ ambiguous' = ambiguous
           /\ bind' = bind /\ _tables' = _tables /\ \A t : _columns(t)' = _columns(t)
           /\ UNCHANGED canonical => EngineReads' = EngineReads
<1>1. /\ \A t : for_analyst(t)' = for_analyst(t)
      /\ \A t, kinds : With(t, kinds)' = With(t, kinds)
      /\ \A scope : In(scope)' = In(scope)
      /\ Chain' = Chain
  BY DEF for_analyst, With, In, Chain
<1>2. \A h : _lookup(h)' = _lookup(h)
  BY <1>1 DEF _lookup
<1>3. FlatNames' = FlatNames /\ \A t : OwnAmbiguous(t)' = OwnAmbiguous(t)
  BY <1>1 DEF FlatNames, OwnAmbiguous
<1>4. \A source : by_table(source)' = by_table(source)
  BY <1>3 DEF by_table
<1>5. OwnSpelling' = OwnSpelling
  BY <1>1, <1>2, <1>4 DEF OwnSpelling
<1>6. ambiguous' = ambiguous /\ canonicalise' = canonicalise
  BY <1>3, <1>5 DEF ambiguous, canonicalise
<1>7. BareBinds' = BareBinds
  BY <1>1 DEF BareBinds, Declares
<1>8. bind' = bind
  BY <1>2, <1>7 DEF bind
<1>9. _tables' = _tables
  BY <1>1 DEF _tables, FromTables, Bases
<1>10. \A t : _columns(t)' = _columns(t)
  BY <1>1 DEF _columns
<1>11. ASSUME UNCHANGED canonical PROVE EngineReads' = EngineReads
  <2>1. \A source : Physical(source)' = Physical(source)
    BY <1>11 DEF Physical, table_key
  <2>2. statement' = statement /\ canonical' = canonical
    BY <1>11
  <2>3. \A i : Having(i)' = Having(i)
    BY <1>1, <2>1, <2>2 DEF Having
  <2>4. Answers' = Answers /\ Nearest' = Nearest
    BY <1>1, <2>3 DEF Answers, Nearest
  <2>5. QED
    BY <1>1, <1>2, <2>1, <2>2, <2>3, <2>4 DEF EngineReads
<1>12. QED
  BY <1>5, <1>6, <1>8, <1>9, <1>10, <1>11

(* Every variable keeps its type.                                          *)
LEMMA TypeStep == IInv /\ Next => TypeOK' /\ (result \in Results)'
<1> SUFFICES ASSUME IInv, Next PROVE TypeOK' /\ (result \in Results)'
  OBVIOUS
<1> USE StatementAssumption DEF IInv, TypeOK, Results
<1>1. CASE run_query
  BY <1>1 DEF run_query, Asks, Written
<1>2. CASE sample_rows
  <2>1. PICK t \in licensed, s \in Spellings :
          /\ sampled' = [table |-> t, spelling |-> s]
          /\ Asks([inner |-> [h \in Handles |-> NoSource],
                   outer |-> [h \in Handles |-> IF h = NameOf[t] THEN Base(SchemaOf[t], h) ELSE NoSource],
                   scope |-> "outer", handle |-> NameOf[t]])
    BY <1>2 DEF sample_rows
  <2>2. t \in Tables /\ NameOf[t] \in Handles /\ SchemaOf[t] \in Schemas /\ NameOf[t] \in Names
    BY DEF Handles, Names
  <2>3. statement' \in Statements
    BY <2>1, <2>2 DEF Asks, Statements, Sources
  <2>4. QED
    BY <2>1, <2>2, <2>3 DEF Asks
<1>3. CASE Canonicalises
  <2>1. canonicalise \subseteq Spellings
    BY DEF canonicalise, OwnSpelling, FlatNames, for_analyst
  <2>2. QED
    BY <1>3, <2>1 DEF Canonicalises, Refuses
<1>4. CASE Checks
  BY <1>4, KeyOf DEF Checks, Refuses
<1>5. CASE Limits
  <2>1. PICK existing \in Nat \cup {None} :
          result' = [result EXCEPT !.existing = existing, !.limit = apply_row_limit(existing)]
    <3>1. /\ 0 .. (max_rows + 2) \subseteq Nat
          /\ 1 .. SAMPLE_ROWS_MAX_VALUES \subseteq Nat
      OBVIOUS
    <3>2. \E existing \in IF sampled = None THEN 0 .. (max_rows + 2) \cup {None}
                          ELSE 1 .. SAMPLE_ROWS_MAX_VALUES :
            result' = [result EXCEPT !.existing = existing, !.limit = apply_row_limit(existing)]
      BY <1>5 DEF Limits
    <3>3. QED
      BY <3>1, <3>2, Zenon
  <2>2. apply_row_limit(existing) \in Nat
    BY DEF apply_row_limit
  <2>3. result' \in Results /\ result'.returned = result.returned
    BY <2>1, <2>2
  <2>4. QED
    BY <1>5, <2>3 DEF Limits
<1>6. CASE Executes
  <2>1. CASE stage' = "failed" /\ UNCHANGED result
    BY <1>6, <2>1 DEF Executes
  <2>2. CASE ~(stage' = "failed" /\ UNCHANGED result)
    <3> DEFINE read == IF bound = None THEN None
                       ELSE table_key(CHOOSE b \in EngineReads : TRUE)
               truncated(rows) == Least(rows, result.limit) > max_rows
    <3>1. PICK rows \in 0 .. (max_rows + 3) :
            result' = [result EXCEPT !.rows = rows, !.read = read,
                                     !.returned = Least(Least(rows, result.limit), max_rows),
                                     !.truncated = truncated(rows)]
      BY <1>6, <2>2 DEF Executes
    <3>2. /\ Least(Least(rows, result.limit), max_rows) \in Nat
          /\ Least(Least(rows, result.limit), max_rows) <= max_rows
          /\ truncated(rows) \in BOOLEAN /\ read \in Tables \cup {None}
      BY KeyOf DEF Least
    <3> DEFINE returned == Least(Least(rows, result.limit), max_rows)
    <3>3. rows \in Nat /\ returned \in Nat /\ returned <= max_rows
      BY <3>2
    <3> HIDE DEF read, truncated, returned
    <3>4. result' = [result EXCEPT !.rows = rows, !.read = read, !.returned = returned,
                                   !.truncated = truncated(rows)]
      BY <3>1 DEF returned
    <3>5. result' \in Results /\ result'.returned = returned
      BY <3>2, <3>3, <3>4
    <3>6. QED
      BY <1>6, <2>2, <3>3, <3>5 DEF Executes
  <2>3. QED
    BY <2>1, <2>2
<1>7. QED
  BY <1>1, <1>2, <1>3, <1>4, <1>5, <1>6 DEF Next

(* Every step keeps the rest of the invariant: what is approved, limited   *)
(* and answered is decided on a statement that stands.                     *)
LEMMA Step == IInv /\ Next => /\ SamplesOneColumn' /\ CanonicalIsServed' /\ ApprovedIsBound'
                              /\ LimitIsApplied' /\ AnswerIsWhatWasRead'
<1> SUFFICES ASSUME IInv, Next
             PROVE  /\ SamplesOneColumn' /\ CanonicalIsServed' /\ ApprovedIsBound'
                    /\ LimitIsApplied' /\ AnswerIsWhatWasRead'
  OBVIOUS
<1> USE DEF IInv
<1>1. CASE run_query \/ sample_rows
  <2>1. stage' = "canonicalise" /\ stage = "idle"
    BY <1>1 DEF run_query, sample_rows, Asks
  <2>2. CanonicalIsServed' /\ ApprovedIsBound' /\ LimitIsApplied' /\ AnswerIsWhatWasRead'
    BY <2>1 DEF CanonicalIsServed, ApprovedIsBound, LimitIsApplied, AnswerIsWhatWasRead
  <2>3. SamplesOneColumn'
    <3>1. CASE run_query
      BY <2>1, <3>1 DEF run_query, SamplesOneColumn
    <3>2. CASE sample_rows
      <4>1. PICK t \in licensed, s \in Spellings :
              /\ columns[t][s] \in {"allowed", "suspect"}
              /\ sampled' = [table |-> t, spelling |-> s]
              /\ Asks([inner |-> [h \in Handles |-> NoSource],
                       outer |-> [h \in Handles |-> IF h = NameOf[t] THEN Base(SchemaOf[t], h)
                                                    ELSE NoSource],
                       scope |-> "outer", handle |-> NameOf[t]])
        BY <3>2 DEF sample_rows
      <4>2. NameOf[t] \in Handles
        BY DEF TypeOK, Handles, Names
      <4>3. /\ statement'.scope = "outer" /\ statement'.handle = NameOf[t]
            /\ statement'.outer[NameOf[t]] = Base(SchemaOf[t], NameOf[t])
            /\ columns' = columns /\ licensed' = licensed
        BY <4>1, <4>2 DEF Asks
      <4>4. sampled'.table = t /\ sampled'.spelling = s
        BY <4>1
      <4>5. QED
        BY <2>1, <4>1, <4>3, <4>4 DEF SamplesOneColumn
    <3>3. QED
      BY <1>1, <3>1, <3>2
  <2>4. QED
    BY <2>2, <2>3
<1>3. CASE Canonicalises \/ Checks \/ Limits \/ Executes
  <2>1. UNCHANGED <<columns, licensed, statement, sampled>>
    BY <1>3 DEF Canonicalises, Checks, Limits, Executes
  <2>2. SamplesOneColumn'
    BY <2>1, StatementStands DEF SamplesOneColumn
  <2>3. /\ canonicalise' = canonicalise /\ OwnSpelling' = OwnSpelling /\ ambiguous' = ambiguous
        /\ bind' = bind /\ _tables' = _tables /\ \A t : _columns(t)' = _columns(t)
        /\ \A source : table_key(source)' = table_key(source)
        /\ UNCHANGED canonical => EngineReads' = EngineReads
    BY <2>1, Standing DEF table_key
  <2>4. CASE Canonicalises
    BY <2>2, <2>3, <2>4
    DEF Canonicalises, Refuses, CanonicalIsServed, ApprovedIsBound, LimitIsApplied,
        AnswerIsWhatWasRead
  <2>5. CASE Checks
    BY <2>2, <2>3, <2>5
    DEF Checks, Refuses, CanonicalIsServed, ApprovedIsBound, LimitIsApplied, AnswerIsWhatWasRead
  <2>6. CASE Limits
    BY <2>2, <2>3, <2>6
    DEF Limits, CanonicalIsServed, ApprovedIsBound, LimitIsApplied, AnswerIsWhatWasRead, Results
  <2>7. CASE Executes
    <3>1. CASE stage' = "failed"
      BY <2>2, <3>1 DEF CanonicalIsServed, ApprovedIsBound, LimitIsApplied, AnswerIsWhatWasRead
    <3>2. CASE stage' # "failed"
      <4>1. PICK rows \in 0 .. (max_rows + 3) :
              LET sent == Least(rows, result.limit)
              IN  /\ bound # None => EngineReads # {}
                  /\ result' = [result EXCEPT !.rows = rows,
                                  !.read = IF bound = None THEN None
                                           ELSE table_key(CHOOSE b \in EngineReads : TRUE),
                                  !.returned = Least(sent, max_rows),
                                  !.truncated = sent > max_rows]
        BY <2>7, <3>2 DEF Executes
      <4>2. /\ result'.rows = rows /\ result'.limit = result.limit
            /\ result'.existing = result.existing
            /\ result'.read = IF bound = None THEN None
                              ELSE table_key(CHOOSE b \in EngineReads : TRUE)
            /\ result'.returned = Least(Least(rows, result.limit), max_rows)
            /\ result'.truncated = (Least(rows, result.limit) > max_rows)
        BY <4>1 DEF Results
      <4>3. stage = "execute" /\ UNCHANGED <<canonical, bound>>
        BY <2>7 DEF Executes
      <4>4. AnswerIsWhatWasRead'
        BY <2>3, <4>1, <4>2, <4>3 DEF AnswerIsWhatWasRead
      <4>5. LimitIsApplied'
        BY <4>2, <4>3 DEF LimitIsApplied, apply_row_limit
      <4>6. CanonicalIsServed' /\ ApprovedIsBound'
        BY <2>3, <4>3 DEF CanonicalIsServed, ApprovedIsBound
      <4>7. QED
        BY <2>2, <4>4, <4>5, <4>6
    <3>3. QED
      BY <3>1, <3>2
  <2>8. QED
    BY <1>3, <2>4, <2>5, <2>6, <2>7
<1>4. QED
  BY <1>1, <1>3 DEF Next

(* Nothing has been asked at the start.                                    *)
LEMMA Starts == Init => IInv
<1> SUFFICES ASSUME Init PROVE IInv
  OBVIOUS
<1> USE StatementAssumption DEF Init
<1>1. TypeOK
  <2>1. statement \in Statements
    BY DEF Statements, Sources
  <2>2. QED
    BY <2>1 DEF TypeOK
<1>2. result \in Results
  BY DEF Results
<1>3. /\ SamplesOneColumn /\ CanonicalIsServed /\ ApprovedIsBound /\ LimitIsApplied
      /\ AnswerIsWhatWasRead
  BY DEF SamplesOneColumn, CanonicalIsServed, ApprovedIsBound, LimitIsApplied, AnswerIsWhatWasRead
<1>4. QED
  BY <1>1, <1>2, <1>3 DEF IInv

(* The invariant holds of every reachable state.                           *)
THEOREM StatementInvariance == Spec => []IInv
<1>1. IInv /\ UNCHANGED vars => IInv'
  <2> SUFFICES ASSUME IInv, UNCHANGED vars PROVE IInv'
    OBVIOUS
  <2>1. UNCHANGED <<columns, licensed, stage, statement, sampled, canonical, bound, result>>
    BY DEF vars
  <2>2. /\ canonicalise' = canonicalise /\ OwnSpelling' = OwnSpelling /\ ambiguous' = ambiguous
        /\ bind' = bind /\ _tables' = _tables /\ \A t : _columns(t)' = _columns(t)
        /\ EngineReads' = EngineReads
    BY <2>1, Standing
  <2>3. TypeOK' /\ (result \in Results)' /\ SamplesOneColumn' /\ LimitIsApplied'
    BY <2>1 DEF IInv, TypeOK, Results, SamplesOneColumn, LimitIsApplied
  <2>4. CanonicalIsServed' /\ ApprovedIsBound' /\ AnswerIsWhatWasRead'
    BY <2>1, <2>2 DEF IInv, CanonicalIsServed, ApprovedIsBound, AnswerIsWhatWasRead, table_key
  <2>5. QED
    BY <2>3, <2>4 DEF IInv
<1>2. IInv /\ Next => IInv'
  BY TypeStep, Step DEF IInv
<1>3. QED
  BY Starts, <1>1, <1>2, PTL DEF Spec

(* Every variable has its type, and no more rows are returned than the     *)
(* cap.                                                                    *)
THEOREM StatementTypeCorrect == Spec => []TypeOK
<1>1. IInv => TypeOK
  BY DEF IInv
<1>2. QED
  BY <1>1, StatementInvariance, PTL

(* For every corpus, licence and statement: a reference that check()       *)
(* approved is executed against the table it bound to, in the one spelling *)
(* the corpus serves that table's column under, and the table is licensed. *)
THEOREM ReadsWhatWasApproved == Spec => []ReadsWhatItBound
BY WhatItReads, StatementInvariance, PTL

(* For every row cap and every limit of the statement's own: an answer     *)
(* that does not say it was cut holds every row that was asked for.        *)
THEOREM CutsAreTold == Spec => []TruncationIsTold
BY WhatItTells, StatementInvariance, PTL
=============================================================================
