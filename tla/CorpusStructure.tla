--------------------------- MODULE CorpusStructure ---------------------------
(***************************************************************************)
(* A curated corpus as retrieval sees it: which assets are withheld from   *)
(* serving (serve/session.py _visible) and the join graph, the reference   *)
(* map and the schema tags built from the rest                             *)
(* (retrieve/structure.py build_structure).  Everything here is a function *)
(* of the corpus and of the set of assets a curator excluded or has not    *)
(* certified; nothing here has state.                                      *)
(*                                                                         *)
(* An asset is a record of what it says about others, its texts left out:  *)
(* its type; the schema it declares; its name; the endpoints it requires,  *)
(* in order; the assets it points at by id; the tables its SQL cites; the  *)
(* columns it refers to as a foreign key; and the <<table, column>> names  *)
(* its ON clause spells.  An endpoint is spelled <<schema, name>> or,      *)
(* bare, <<name>>.                                                         *)
(***************************************************************************)
EXTENDS Integers, Sequences, FiniteSets, FiniteSetsExt

CONSTANTS
  Corpus,           \* id -> the asset
  Place,            \* id -> its place in the order the files are loaded in
  MayBeWithheld     \* the assets whose governance or provenance varies

NoSchema == "no schema"
Ids == DOMAIN Corpus

----------------------------------------------------------------------------
(* The types of assets (corpus/schema.py), each with the fields it has.  A *)
(* field a type does not have is empty.                                    *)

NoFields == [schema |-> NoSchema, requires |-> <<>>, points |-> {}, cites |-> {}, fk |-> {}, on |-> {}]
Has(a, fields) == \A field \in DOMAIN NoFields \ fields : a[field] = NoFields[field]

SchemaAsset(a) == Has(a, {})

\* A table points at its columns.
TableAsset(a) == Has(a, {"schema", "points"}) /\ a.schema # NoSchema

\* A column requires its parent table, and may refer to one column.  It is
\* stored under the parent, so one spelled with a schema is in its own.
ColumnAsset(a) ==
  /\ Has(a, {"schema", "requires", "fk"})
  /\ a.schema # NoSchema /\ Len(a.requires) = 1 /\ Cardinality(a.fk) <= 1
  /\ Len(a.requires[1]) = 2 => a.requires[1][1] = a.schema

\* A join requires its left and its right table, and declares no schema.
JoinAsset(a) == Has(a, {"requires", "on"}) /\ Len(a.requires) = 2

\* A metric requires its base table and points at its dimensions.
MetricAsset(a) == Has(a, {"requires", "points"}) /\ Len(a.requires) = 1

\* A term points at what it is bound to.
TermAsset(a) == Has(a, {"points"}) /\ Cardinality(a.points) <= 1

\* A few-shot's SQL cites tables of its schema or of others.
FewShotAsset(a) == Has(a, {"schema", "cites"}) /\ a.schema # NoSchema

class_for(a) ==
  CASE a.type = "schema" -> SchemaAsset(a)
    [] a.type = "table" -> TableAsset(a)
    [] a.type = "column" -> ColumnAsset(a)
    [] a.type = "join" -> JoinAsset(a)
    [] a.type = "metric" -> MetricAsset(a)
    [] a.type = "term" -> TermAsset(a)
    [] a.type = "few_shot" -> FewShotAsset(a)

\* What a loaded asset is, whatever its type.
Spelling == {s \in Seq(STRING) : Len(s) \in {1, 2}}
Asset ==
  [type : {"schema", "table", "column", "join", "metric", "term", "few_shot"},
   schema : STRING, name : STRING, requires : Seq(Spelling), points : SUBSET STRING,
   cites : SUBSET Spelling, fk : SUBSET STRING, on : SUBSET (STRING \X STRING)]

ASSUME CorpusAssumption ==
  /\ IsFiniteSet(Ids) /\ MayBeWithheld \subseteq Ids
  /\ Corpus \in [Ids -> Asset] /\ Place \in [Ids -> Nat]
  /\ \A id \in Ids : class_for(Corpus[id])

OfType(assets, type) == {a \in DOMAIN assets : assets[a].type = type}

\* What is reached from some ids, if next says what follows each of them.
Spread(from, next) ==
  LET Follow(seen) == seen \cup UNION {next[a] : a \in seen}
      Round[n \in 0..Cardinality(DOMAIN next)] ==
        IF n = 0 THEN from ELSE Follow(Round[n - 1])
  IN  Round[Cardinality(DOMAIN next)]

----------------------------------------------------------------------------
(* Endpoints. *)

\* Every spelling a table answers to.
table_lookup(assets, spelling) ==
  {t \in OfType(assets, "table") :
     spelling \in {<<assets[t].schema, assets[t].name>>, <<assets[t].name>>}}

\* The one table an endpoint names, or none: an ambiguous name is refused.
\* scope is the referring asset's own schema.
bind_endpoint(spelling, assets, scope) ==
  LET scoped == IF scope = NoSchema THEN {}
                ELSE table_lookup(assets, <<scope, spelling[Len(spelling)]>>)
      named  == table_lookup(assets, spelling)
  IN  IF Cardinality(scoped) = 1 THEN scoped
      ELSE IF Cardinality(named) = 1 THEN named ELSE {}

\* The table the nth required endpoint of an asset binds to.
Endpoint(a, n, assets) ==
  bind_endpoint(assets[a].requires[n], assets, assets[a].schema)

Endpoints(a, assets) ==
  UNION {Endpoint(a, n, assets) : n \in DOMAIN assets[a].requires}

BindsAll(a, assets) ==
  \A n \in DOMAIN assets[a].requires : Endpoint(a, n, assets) # {}

----------------------------------------------------------------------------
(* What is withheld. *)

\* An asset that requires a withheld table leaves with it.  Endpoints are
\* bound over the whole corpus, the withheld tables included.
_withheld_closure(flagged) ==
  Spread(flagged, [gone \in Ids |-> {a \in Ids : gone \in Endpoints(a, Corpus)}])

_without_withheld_refs_keeping_them(asset, withheld) == asset

\* What points at a withheld asset keeps standing without the reference.
_without_withheld_refs(asset, withheld) ==
  [asset EXCEPT !.points = @ \ withheld]

\* The served set.
_visible(flagged) ==
  LET withheld == _withheld_closure(flagged)
  IN  [a \in Ids \ withheld |-> _without_withheld_refs(Corpus[a], withheld)]

----------------------------------------------------------------------------
(* The structure of the served set. *)

\* The ids each asset points at, one rule per type.  A join or a metric with
\* an endpoint that does not bind contributes nothing.
references(assets) ==
  [a \in DOMAIN assets |->
     IF BindsAll(a, assets)
     THEN Endpoints(a, assets)
          \cup (assets[a].points \cap DOMAIN assets)
          \cup UNION {bind_endpoint(s, assets, assets[a].schema) : s \in assets[a].cites}
     ELSE {}]

\* The joins that bind, and the undirected edge each lies on.  A self-join
\* has no edge.
BoundJoins(assets) == {j \in OfType(assets, "join") : BindsAll(j, assets)}
join_edges(assets) ==
  {e \in {Endpoints(j, assets) : j \in BoundJoins(assets)} : Cardinality(e) = 2}

\* What a corpus with this structure is refused for: an endpoint that does
\* not bind, a declared column or a binding target that is not there.
fatal_problems(assets) ==
  {a \in DOMAIN assets :
     \/ ~BindsAll(a, assets)
     \/ /\ assets[a].type \in {"table", "term"}
        /\ ~(assets[a].points \subseteq DOMAIN assets)}

\* The schema an asset votes for.  A term takes its target's, through other
\* terms if need be; an asset without one is untagged.
schema_tags(assets) ==
  LET Declared(a) ==
        CASE assets[a].type = "schema" -> assets[a].name
          [] assets[a].type \in {"table", "few_shot"} -> assets[a].schema
          [] assets[a].type \in {"column", "metric", "join"} ->
               IF Endpoint(a, 1, assets) = {} THEN NoSchema
               ELSE assets[CHOOSE t \in Endpoint(a, 1, assets) : TRUE].schema
          [] OTHER -> NoSchema
      Terms == OfType(assets, "term")
      Through(tags) ==
        [a \in DOMAIN tags |->
           IF a \in Terms /\ assets[a].points \cap DOMAIN tags # {}
           THEN tags[CHOOSE target \in assets[a].points \cap DOMAIN tags : TRUE]
           ELSE tags[a]]
      Tags[n \in 0..Cardinality(Terms)] ==
        IF n = 0 THEN [a \in DOMAIN assets |-> Declared(a)] ELSE Through(Tags[n - 1])
  IN  Tags[Cardinality(Terms)]

build_structure(assets) ==
  [assets     |-> assets,
   references |-> references(assets),
   edges      |-> join_edges(assets),
   joins      |-> [j \in BoundJoins(assets) |-> Endpoints(j, assets)],
   tags       |-> schema_tags(assets),
   fatal      |-> fatal_problems(assets)]

----------------------------------------------------------------------------
(* Walks on the join graph (retrieve/connect.py). *)

\* What can be reached from a set of tables inside another.
Reach(from, within, edges) ==
  Spread(from, [s \in within |-> {t \in within : {s, t} \in edges}])

\* The tables of a set, grouped by the connected component they sit in.
components(terminals, tables, edges) ==
  {terminals \cap Reach({t}, tables, edges) : t \in terminals}

\* A shortest way from the tree to some terminal it does not hold yet: the
\* tables it passes and the terminal.  The code breaks a tie by name.
_nearest_path(tree, goals, tables, edges) ==
  LET others  == tables \ (tree \cup goals)
      Ways(n) == {w \in kSubset(n, others) \X goals :
                    w[2] \in Reach(tree, tree \cup w[1] \cup {w[2]}, edges)}
      lengths == {n \in 0..Cardinality(others) : Ways(n) # {}}
      way     == CHOOSE w \in Ways(Min(lengths)) : TRUE
  IN  IF lengths = {} THEN {} ELSE way[1] \cup {way[2]}

\* The tables a greedy joining tree adds to a set of terminals, or a refusal:
\* they do not connect, or it takes more than max_points others.
connect(terminals, tables, edges, max_points) ==
  LET Grown[n \in 0..Cardinality(terminals)] ==
        IF n = 0 THEN {CHOOSE t \in terminals : TRUE}
        ELSE Grown[n - 1]
             \cup _nearest_path(Grown[n - 1], terminals \ Grown[n - 1], tables, edges)
      tree == Grown[Cardinality(terminals)]
  IN  IF Cardinality(terminals) <= 1 THEN [added |-> {}, declined |-> FALSE]
      ELSE IF ~(terminals \subseteq tree) \/ Cardinality(tree \ terminals) > max_points
           THEN [added |-> {}, declined |-> TRUE]
           ELSE [added |-> tree \ terminals, declined |-> FALSE]

\* Every join both of whose tables are in the set.
complete_joins(tables, structure) ==
  {j \in DOMAIN structure.joins : structure.joins[j] \subseteq tables}
============================================================================
