------------------------- MODULE GovernedStatement --------------------------
(***************************************************************************)
(* One statement on its way to the database: run_query takes the model's,  *)
(* sample_rows builds one from a column's asset id.  prepare rewrites its  *)
(* identifiers to the corpus's spelling, checks what they bind to, forces  *)
(* a row limit, and only then is it executed.                              *)
(*                                                                         *)
(* A statement is an outer scope, possibly an inner one correlated to it,  *)
(* and one column reference.  Every column here folds to the same name, so *)
(* a column of a table is its spelling: what case folding can confuse is   *)
(* all there is.                                                           *)
(***************************************************************************)
EXTENDS Naturals, FiniteSets

CONSTANTS
    Tables, Schemas, SchemaOf, NameOf, \* the corpus's tables, by schema and folded name
    Spellings, lower,                  \* spellings of the column; what the engine folds to
    Aliases,                           \* handles that are no table's name
    default_schema,                    \* the pinned schema, or None
    hard_block_suspect, max_rows,
    SAMPLE_ROWS_MAX_VALUES,
    Dispositions,  \* of a spelling: not in the database, in it and not in the
                   \* corpus, or what governance says of its column
    MaxSources,    \* bound: FROM items of a statement
    None

ASSUME StatementAssumption ==
    /\ IsFiniteSet(Tables) /\ IsFiniteSet(Spellings) /\ IsFiniteSet(Aliases)
    /\ \A t \in Tables : NameOf[t] # None
    /\ SchemaOf \in [Tables -> Schemas] /\ lower \in Spellings
    /\ default_schema \in Schemas \cup {None} /\ None \notin Schemas \cup Tables \cup Spellings
    /\ \A t, u \in Tables : SchemaOf[t] = SchemaOf[u] /\ NameOf[t] = NameOf[u] => t = u
    /\ Dispositions \subseteq {"absent", "undeclared", "allowed", "suspect", "excluded"}
    /\ max_rows \in Nat /\ MaxSources \in Nat /\ SAMPLE_ROWS_MAX_VALUES \in Nat \ {0}

VARIABLES
    columns,   \* the disposition of each spelling of each table
    licensed,  \* the tables retrieval licensed this turn
    stage,
    statement, \* its scopes' sources, its reference, its own limit
    sampled,   \* the column sample_rows was asked for
    canonical, \* the spelling its reference is written with
    bound,     \* the table its reference bound to
    result     \* what the engine read, and what the connector returned

vars == <<columns, licensed, stage, statement, sampled, canonical, bound, result>>
-----------------------------------------------------------------------------
Names   == {NameOf[t] : t \in Tables}
Handles == Names \cup Aliases

Base(schema, name) == [kind |-> "base", schema |-> schema, name |-> name]
Derived  == [kind |-> "derived", schema |-> None, name |-> None]
NoSource == [kind |-> "none", schema |-> None, name |-> None]

Sources == {Base(s, n) : s \in Schemas \cup {None}, n \in Names} \cup {Derived, NoSource}

Statements == [inner : [Handles -> Sources], outer : [Handles -> Sources],
               scope : {"inner", "outer"}, handle : Handles \cup {None}]

(* The corpus an analyst sees: excluded columns are recorded, not held.    *)
for_analyst(t)  == {s \in Spellings : columns[t][s] \in {"allowed", "suspect"}}
With(t, kinds)  == \E s \in Spellings : columns[t][s] \in kinds

In(scope)      == {h \in Handles : statement[scope][h] # NoSource}
Bases(scope)   == {statement[scope][h] : h \in {k \in In(scope) : statement[scope][k].kind = "base"}}

(* The nearest scope that answers to a handle, a correlated one last.      *)
Chain == IF statement.scope = "inner" THEN <<"inner", "outer">> ELSE <<"outer">>

_lookup(h) ==
    LET in(i) == i \in DOMAIN Chain /\ h \in In(Chain[i])
    IN  IF in(1) THEN statement[Chain[1]][h]
        ELSE IF in(2) THEN statement[Chain[2]][h] ELSE NoSource

(* table_key: a table of the corpus, or a key no licence names.            *)
table_key(source) ==
    LET schema == IF source.schema = None THEN default_schema ELSE source.schema
        named  == {t \in Tables : SchemaOf[t] = schema /\ NameOf[t] = source.name}
    IN  IF named = {} THEN None ELSE CHOOSE t \in named : TRUE

-----------------------------------------------------------------------------
(* spellings_for: the flat map over everything licensed, and per table.  A *)
(* table that declares two spellings of one fold has none of its own, and  *)
(* two licensed tables of one bare name share no bare key.                 *)
FlatNames == UNION {for_analyst(t) : t \in licensed}
ambiguous == Cardinality(FlatNames) > 1

OwnAmbiguous(t) == Cardinality(for_analyst(t)) > 1

by_table_self_colliding(source) ==
    {t \in licensed : NameOf[t] = source.name /\ SchemaOf[t] = source.schema}

by_table(source) ==
    LET named == {t \in licensed : NameOf[t] = source.name}
    IN  IF source.schema = None
          THEN IF Cardinality(named) = 1 THEN {t \in named : ~OwnAmbiguous(t)} ELSE {}
          ELSE {t \in named : SchemaOf[t] = source.schema /\ ~OwnAmbiguous(t)}

(* What a qualified reference is spelled as by the table its handle names, *)
(* if that table declares it; otherwise the flat map, which may refuse.    *)
OwnSpelling ==
    LET source == _lookup(statement.handle)
    IN  IF statement.handle = None \/ source.kind # "base" THEN {}
        ELSE UNION {for_analyst(t) : t \in by_table(source)}

canonicalise ==
    IF OwnSpelling # {} THEN OwnSpelling
    ELSE IF FlatNames = {} THEN {lower} ELSE FlatNames

Refuses == stage' = "refused" /\ UNCHANGED <<canonical, bound>>

Canonicalises ==
    /\ stage = "canonicalise"
    /\ \/ OwnSpelling = {} /\ ambiguous /\ Refuses
       \/ /\ OwnSpelling # {} \/ ~ambiguous
          /\ canonical' \in canonicalise
          /\ stage' = "check" /\ UNCHANGED bound
    /\ UNCHANGED <<columns, licensed, statement, sampled, result>>

(* bind: exactly one base source, or a derived one that stays opaque.  A   *)
(* bare name among several goes to the one that declares it.               *)
Declares(scope, h) == LET key == table_key(statement[scope][h])
                      IN  key # None /\ With(key, {"allowed", "suspect", "excluded"})

BareBinds ==
    LET from    == In(statement.scope)
        derived == {h \in from : statement[statement.scope][h] = Derived}
        named   == {h \in from : Declares(statement.scope, h)}
    IN  CASE Cardinality(from) = 1                    -> from
          [] Cardinality(from) > 1 /\ derived = {} /\ Cardinality(named) = 1 -> named
          [] OTHER                                    -> {}

bind == IF statement.handle # None THEN {_lookup(statement.handle)} \ {NoSource}
        ELSE {statement[statement.scope][h] : h \in BareBinds}

FromTables == Bases("inner") \cup Bases("outer")

(* The column layer, then the table layer.                                 *)
_columns(t) ==
    /\ ~With(t, {"excluded"})
    /\ ~(With(t, {"suspect"}) /\ hard_block_suspect)
    /\ With(t, {"allowed", "suspect"})
_tables     == \A b \in FromTables : table_key(b) \in licensed

(* A structural rule -- no read, a star, a function off the list -- may    *)
(* refuse whatever the reference binds to.                                 *)
Checks ==
    /\ stage = "check"
    /\ \/ Refuses
       \/ \E source \in bind :
            /\ source.kind = "base" => table_key(source) # None /\ _columns(table_key(source))
            /\ _tables
            /\ bound' = IF source.kind = "base" THEN table_key(source) ELSE None
            /\ stage' = "limit" /\ UNCHANGED canonical
    /\ UNCHANGED <<columns, licensed, statement, sampled, result>>
-----------------------------------------------------------------------------
apply_row_limit_exactly(existing) ==
    IF existing = None \/ existing > max_rows THEN max_rows ELSE existing

apply_row_limit(existing) ==
    IF existing = None \/ existing > max_rows + 1 THEN max_rows + 1 ELSE existing

(* No step before this one looks at the statement's own limit: it is       *)
(* chosen here, sample_rows' within its own ceiling.                       *)
Limits ==
    /\ stage = "limit"
    /\ \E existing \in IF sampled = None THEN 0..(max_rows + 2) \cup {None}
                       ELSE 1..SAMPLE_ROWS_MAX_VALUES :
         result' = [result EXCEPT !.existing = existing, !.limit = apply_row_limit(existing)]
    /\ stage' = "execute"
    /\ UNCHANGED <<columns, licensed, statement, sampled, canonical, bound>>

(* The engine: a handle names what it names for bind; a bare name is a     *)
(* column of the nearest scope that has one, and an error if two do.       *)
Physical(source) == source.kind = "base" /\ table_key(source) # None
                    /\ columns[table_key(source)][canonical] # "absent"

Having(i) == {h \in In(Chain[i]) : Physical(statement[Chain[i]][h])}
Answers   == {i \in DOMAIN Chain : Having(i) # {}}
Nearest   == CHOOSE i \in Answers : \A j \in Answers : i <= j

EngineReads ==
    IF statement.handle # None THEN {b \in {_lookup(statement.handle)} : Physical(b)}
    ELSE IF Answers # {} /\ Cardinality(Having(Nearest)) = 1
      THEN {statement[Chain[Nearest]][h] : h \in Having(Nearest)}
    ELSE {}

Least(m, n) == IF m < n THEN m ELSE n

(* The connector fetches one row more than its cap to see a cut.           *)
Executes ==
    /\ stage = "execute"
    /\ \/ \E rows \in 0..(max_rows + 3) :
            LET sent == Least(rows, result.limit)
            IN  /\ bound # None => EngineReads # {}
                /\ result' = [result EXCEPT !.rows = rows,
                                !.read = IF bound = None THEN None
                                         ELSE table_key(CHOOSE b \in EngineReads : TRUE),
                                !.returned = Least(sent, max_rows),
                                !.truncated = sent > max_rows]
                /\ stage' = "answered"
       \/ stage' = "failed" /\ UNCHANGED result
    /\ UNCHANGED <<columns, licensed, statement, sampled, canonical, bound>>
-----------------------------------------------------------------------------
Asks(st) ==
    /\ statement' = st /\ stage' = "canonicalise"
    /\ UNCHANGED <<columns, licensed, canonical, bound, result>>

(* The reference sits in the innermost scope and names something in sight: *)
(* what names nothing refuses.                                             *)
Written == {st \in Statements :
    LET from(s) == {h \in Handles : st[s][h] # NoSource}
    IN  /\ from(st.scope) # {} /\ (st.scope = "outer" => from("inner") = {})
        /\ Cardinality(from("inner")) + Cardinality(from("outer")) <= MaxSources
        /\ st.handle \in from("inner") \cup from("outer") \cup {None}}

run_query ==
    /\ stage = "idle"
    /\ \E st \in Written : Asks(st)
    /\ UNCHANGED sampled

(* may_sample: a column id of a licensed table; its table and column are   *)
(* named by their physical names, quoted.                                  *)
sample_rows ==
    /\ stage = "idle"
    /\ \E t \in licensed, s \in Spellings :
         /\ columns[t][s] \in {"allowed", "suspect"}
         /\ sampled' = [table |-> t, spelling |-> s]
         /\ Asks([inner |-> [h \in Handles |-> NoSource],
                  outer |-> [h \in Handles |-> IF h = NameOf[t] THEN Base(SchemaOf[t], h) ELSE NoSource],
                  scope |-> "outer", handle |-> NameOf[t]])

Init ==
    /\ columns \in [Tables -> [Spellings -> Dispositions]]
    /\ licensed \in SUBSET Tables
    /\ stage = "idle" /\ canonical = lower /\ bound = None /\ sampled = None
    /\ statement = [inner |-> [h \in Handles |-> NoSource], outer |-> [h \in Handles |-> NoSource],
                    scope |-> "outer", handle |-> None]
    /\ result = [existing |-> None, limit |-> 0, rows |-> 0, read |-> None, returned |-> 0,
                 truncated |-> FALSE]

Next == run_query \/ sample_rows \/ Canonicalises \/ Checks \/ Limits \/ Executes

Spec == Init /\ [][Next]_vars
-----------------------------------------------------------------------------
TypeOK ==
    /\ columns \in [Tables -> [Spellings -> Dispositions]] /\ licensed \subseteq Tables
    /\ stage \in {"idle", "canonicalise", "check", "limit", "execute", "answered", "failed", "refused"}
    /\ statement \in Statements
    /\ sampled \in [table : Tables, spelling : Spellings] \cup {None}
    /\ canonical \in Spellings /\ bound \in Tables \cup {None}
    /\ result.returned <= max_rows

(* What check() approved is what the engine reads: a reference that bound  *)
(* to a table's column is executed against that table, in the spelling the *)
(* corpus serves it under and a licence covers -- however handles are      *)
(* shadowed between scopes and whatever two tables spell alike.  A column  *)
(* sample_rows was asked for is the one its values come from.              *)
ReadsWhatItBound ==
    stage = "answered" /\ bound # None =>
        /\ result.read = bound /\ bound \in licensed
        /\ canonical \in for_analyst(bound)
        /\ sampled # None => <<bound, canonical>> = <<sampled.table, sampled.spelling>>

(* A reader is told when rows are missing: unless the answer says it was   *)
(* truncated it holds every row the statement asked for, cap + 1 included. *)
TruncationIsTold ==
    stage = "answered" =>
        LET asked == IF result.existing = None THEN result.rows ELSE Least(result.rows, result.existing)
        IN  IF result.truncated THEN result.returned = max_rows /\ asked > max_rows
            ELSE result.returned = asked
-----------------------------------------------------------------------------
(* Why these hold: the invariant that is inductive, in parts.              *)
Results == [existing : Nat \cup {None}, limit : Nat, rows : Nat, read : Tables \cup {None},
            returned : Nat, truncated : BOOLEAN]

(* sample_rows names one column of one licensed table, and nothing else.   *)
SamplesOneColumn ==
    sampled # None =>
        /\ stage # "idle"
        /\ sampled.table \in licensed
        /\ columns[sampled.table][sampled.spelling] \in {"allowed", "suspect"}
        /\ statement.scope = "outer" /\ statement.handle = NameOf[sampled.table]
        /\ statement.outer[statement.handle] =
             Base(SchemaOf[sampled.table], NameOf[sampled.table])

(* The reference is spelled as canonicalise says, and a spelling that is   *)
(* not its table's own is the only one anything licensed has.              *)
CanonicalIsServed ==
    stage \in {"check", "limit", "execute", "answered"} =>
        canonical \in canonicalise /\ (OwnSpelling = {} => ~ambiguous)

(* What bound has passed both layers.                                      *)
ApprovedIsBound ==
    stage \in {"limit", "execute", "answered"} /\ bound # None =>
        \E source \in bind : /\ source.kind = "base" /\ table_key(source) = bound
                             /\ _columns(bound) /\ _tables

LimitIsApplied ==
    stage \in {"execute", "answered"} => result.limit = apply_row_limit(result.existing)

(* What the answer says of its rows, and of the table they are from.       *)
AnswerIsWhatWasRead ==
    stage = "answered" =>
        /\ LET sent == Least(result.rows, result.limit)
           IN  result.returned = Least(sent, max_rows) /\ (result.truncated <=> sent > max_rows)
        /\ bound # None =>
             EngineReads # {} /\ result.read = table_key(CHOOSE b \in EngineReads : TRUE)
=============================================================================
