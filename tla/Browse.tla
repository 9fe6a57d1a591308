------------------------------- MODULE Browse -------------------------------
(***************************************************************************)
(* What the HTTP browse surface (api/browse_routes.py, api/routes.py,      *)
(* api/browse.py) answers over the session Retrieval serves: filtered      *)
(* rows, the two graphs and the bounded views of them, a column's          *)
(* relations, the corpus counts.  Every handler reads the session through  *)
(* api/visibility.py, which removes what the principal's grant withholds.  *)
(* An answer is a function of the session and the request; nothing here    *)
(* has state.                                                              *)
(*                                                                         *)
(* A table's id is spelled by its qualified name.  Texts an asset carries  *)
(* (summaries, SQL, ON clauses) are not narrowed by the code and are not   *)
(* names here.                                                             *)
(***************************************************************************)
EXTENDS Retrieval, Functions

CONSTANTS
  IdRank,           \* id -> its place when ids are sorted
  Scopes,           \* the views asked for: [schema, focus, radius, kinds, budget]
  PageLimits        \* the page sizes asked for

Unfocused == "no focus"

ASSUME BrowseAssumption ==
  /\ \A a, b \in Ids : a # b => IdRank[a] # IdRank[b]
  /\ Unfocused \notin Ids
  /\ PageLimits \subseteq Nat \ {0}

----------------------------------------------------------------------------
(* The session as the grant discloses it. *)

_narrow_asset_of_any_type(asset, gone) == asset

\* A reference to a withheld asset leaves the asset that holds it.
_narrow_asset(asset, gone) ==
  [asset EXCEPT !.points = IF asset.type \in {"table", "metric"} THEN @ \ gone ELSE @,
                !.fk = @ \ gone]

_narrow_structure(gone) ==
  LET keep(f) == [a \in DOMAIN f \ gone |-> f[a]]
  IN  [references |-> [a \in DOMAIN structure.references \ gone |-> structure.references[a] \ gone],
       edges |-> {e \in structure.edges : e \cap gone = {}},
       joins |-> [j \in {j \in DOMAIN structure.joins \ gone : structure.joins[j] \cap gone = {}}
                    |-> structure.joins[j]],
       tags  |-> keep(structure.tags)]

withheld_for == withheld_by_grant(structure.assets, grant)

_VisibleSession(gone) ==
  [assets |-> [a \in Served \ gone |-> _narrow_asset(structure.assets[a], gone)],
   structure |-> _narrow_structure(gone)]

visible == _VisibleSession(withheld_for)

\* v is what the request's session shows.
Seen(v) == DOMAIN v.assets

----------------------------------------------------------------------------
(* /corpus/rows: filter, sort, page. *)

Fields(type) ==
  IF type \in {"table", "column", "few_shot"} THEN {"id", "schema"} ELSE {"id"}
Ops == {"eq", "neq"}
FieldValue(v, a, field) == IF field = "id" THEN a ELSE v.assets[a].schema
Matches(v, a, where) ==
  IF where.op = "eq" THEN FieldValue(v, a, where.field) = where.wanted
  ELSE FieldValue(v, a, where.field) # where.wanted

\* A predicate on a field this type lacks, or with an operator the field
\* lacks, is not applied; it is reported.
apply_where(v, type, predicates) ==
  LET usable == {w \in predicates : w.field \in Fields(type) /\ w.op \in Ops}
  IN  [rows |-> {a \in OfType(v.assets, type) : \A w \in usable : Matches(v, a, w)},
       unknown |-> predicates \ usable]

\* The schemas in the order their names sort; an asset without one is first.
SchemaRank(v, a) ==
  LET schema == FieldValue(v, a, "schema")
  IN  IF schema = NoSchema THEN 0
      ELSE Cardinality({s \in {IdRank[b] : b \in OfType(Corpus, "schema")} :
                          \E b \in OfType(Corpus, "schema") :
                            Corpus[b].name = schema /\ s <= IdRank[b]})

Sorted_without_tiebreak(v, a, b, field) ==
  IF field = "id" THEN IdRank[a] < IdRank[b] ELSE SchemaRank(v, a) < SchemaRank(v, b)

\* a comes before b: by the field sorted on, then by id.
Sorted(v, a, b, field) ==
  IF field = "id" \/ SchemaRank(v, a) = SchemaRank(v, b) THEN IdRank[a] < IdRank[b]
  ELSE SchemaRank(v, a) < SchemaRank(v, b)

Page(v, rows, field, offset, limit) ==
  {a \in rows : LET before == Cardinality({b \in rows : Sorted(v, b, a, field)})
                IN  offset <= before /\ before < offset + limit}

\* What one row holds: the asset and the ids in its fields.
row_for(v, a) == {a} \cup v.assets[a].points \cup v.assets[a].fk

\* /corpus/rows.
corpus_rows(v, type, predicates, field, offset, limit) ==
  LET answer == apply_where(v, type, predicates)
  IN  [rows |-> {row_for(v, a) : a \in Page(v, answer.rows, field, offset, limit)},
       total |-> Cardinality(answer.rows),
       unknown_where |-> answer.unknown]

\* /schema/summary and /schema/{table_id}: a table with the columns that are
\* there.
table_view(v, t) ==
  [id |-> t,
   columns |-> {[id |-> c, references |-> v.assets[c].fk] : c \in v.assets[t].points \cap Seen(v)}]

schema_summary(v, schema, offset, limit) ==
  LET tables == {t \in OfType(v.assets, "table") : schema \in {NoSchema, v.assets[t].schema}}
  IN  [total |-> Cardinality(tables),
       items |-> {table_view(v, t) : t \in Page(v, tables, "id", offset, limit)}]

----------------------------------------------------------------------------
(* The two graphs.  A node has a kind and a schema; an edge has two ends   *)
(* and, when it is a curated join that may be named, a predicate.          *)

Drawn(v, ids) ==
  [a \in ids |-> [kind |-> v.assets[a].type, schema |-> v.structure.tags[a]]]

\* /graph: the tables, and the pairs some join relates.
_graph_payload(v) ==
  [nodes |-> Drawn(v, OfType(v.assets, "table")),
   edges |-> {[ends |-> e,
               joins |-> {j \in DOMAIN v.structure.joins : v.structure.joins[j] = e},
               predicate |-> e \in {v.structure.joins[j] : j \in DOMAIN v.structure.joins}] :
                e \in v.structure.edges}]

_SEMANTIC_NODE_KINDS == {"table", "join", "metric", "term", "few_shot"}

\* The table whose id a column's parent_table is.
Owner(v, c) ==
  {t \in OfType(v.assets, "table") :
     v.assets[c].requires[1] = <<v.assets[t].schema, v.assets[t].name>>}

\* The node an id draws as: itself, a column its table, or none.
_semantic_id(v, a) ==
  CASE a \notin Seen(v) -> {}
    [] a \in Seen(v) /\ v.assets[a].type \in _SEMANTIC_NODE_KINDS -> {a}
    [] a \in Seen(v) /\ v.assets[a].type = "column" -> Owner(v, a)
    [] OTHER -> {}

\* /knowledge-graph: what refers to what.
_knowledge_payload(v) ==
  LET refs == v.structure.references
      joins == OfType(v.assets, "join")
  IN  [nodes |-> Drawn(v, {a \in Seen(v) : v.assets[a].type \in _SEMANTIC_NODE_KINDS}),
       edges |-> {[ends |-> e, joins |-> {},
                   predicate |-> \E j \in joins \cap e : (refs[j] \cap e) \ {j} # {}] :
                    e \in (UNION {{{s, t} : s \in _semantic_id(v, a),
                                           t \in UNION {_semantic_id(v, b) : b \in refs[a]}} :
                                    a \in DOMAIN refs}) \ {{s} : s \in Seen(v)}}]

----------------------------------------------------------------------------
(* A bounded view of a graph (browse.subgraph). *)

Candidate(payload, scope) ==
  {n \in DOMAIN payload.nodes :
     /\ scope.schema \in {NoSchema, payload.nodes[n].schema}
     /\ scope.kinds = {} \/ payload.nodes[n].kind \in scope.kinds}

Pairs(payload) == {e.ends : e \in payload.edges}
Neighbours(n, keep, payload) ==
  keep \cap UNION {pair \ {n} : pair \in {p \in Pairs(payload) : n \in p}}
Focused(payload, scope) == scope.focus \in Candidate(payload, scope)

\* The candidates within so many steps of the focus.
Within(payload, scope, steps) ==
  LET keep == Candidate(payload, scope)
      Ball[n \in 0..steps] ==
        IF n = 0 THEN {scope.focus}
        ELSE Ball[n - 1] \cup UNION {Neighbours(m, keep, payload) : m \in Ball[n - 1]}
  IN  Ball[steps]

\* What the scope matches, before the budget.
Matched(payload, scope) ==
  IF Focused(payload, scope) THEN Within(payload, scope, scope.radius)
  ELSE Candidate(payload, scope)

\* Around a focus: nearest first.
NearestFirst(payload, scope) ==
  LET Distance(n) == Min({k \in 0..scope.radius : n \in Within(payload, scope, k)})
      Before(m, n) == \/ Distance(m) < Distance(n)
                      \/ Distance(m) = Distance(n) /\ IdRank[m] < IdRank[n]
      all == Matched(payload, scope)
  IN  {n \in all : Cardinality({m \in all : Before(m, n)}) < scope.budget}

Grow_by_id(shown, keep, payload) ==
  CHOOSE n \in keep \ Range(shown) : \A m \in keep \ Range(shown) : IdRank[n] <= IdRank[m]

\* Without a focus: the best-connected node, then its component breadth
\* first, then the next best.
Grow(shown, keep, payload) ==
  LET rest  == keep \ Range(shown)
      near(n) == {k \in DOMAIN shown : shown[k] \in Neighbours(n, keep, payload)}
      front == {n \in rest : near(n) # {}}
      parent(n) == IF front = {} THEN 0 ELSE Min(near(n))
      degree(n) == Cardinality(Neighbours(n, keep, payload))
      Before(m, n) ==
        \/ parent(m) < parent(n)
        \/ parent(m) = parent(n) /\ degree(m) > degree(n)
        \/ parent(m) = parent(n) /\ degree(m) = degree(n) /\ IdRank[m] <= IdRank[n]
  IN  LET next == IF front = {} THEN rest ELSE front
      IN  CHOOSE n \in next : \A m \in next : Before(n, m)

BestConnectedFirst(payload, scope) ==
  LET keep == Candidate(payload, scope)
      Shown[n \in 0..Min({scope.budget, Cardinality(keep)})] ==
        IF n = 0 THEN <<>> ELSE Append(Shown[n - 1], Grow(Shown[n - 1], keep, payload))
  IN  Range(Shown[Min({scope.budget, Cardinality(keep)})])

\* A curated join with one end shown and the other in another schema.
_boundary(payload, shown) ==
  {e \in payload.edges :
     /\ e.predicate
     /\ \E inside \in e.ends \cap shown, outside \in e.ends \ shown :
          payload.nodes[outside].schema \notin {NoSchema, payload.nodes[inside].schema}}

subgraph(payload, scope) ==
  LET shown == IF Focused(payload, scope) THEN NearestFirst(payload, scope)
               ELSE BestConnectedFirst(payload, scope)
  IN  [nodes |-> shown,
       edges |-> {e \in payload.edges : e.ends \subseteq shown},
       boundary |-> _boundary(payload, shown),
       dropped |-> Cardinality(Matched(payload, scope)) - Cardinality(shown)]

----------------------------------------------------------------------------
(* /columns/{id}/related. *)

related_to_column(v, c) ==
  LET table == Owner(v, c)
      named == {""} \cup {v.assets[t].name : t \in table}
      base  == v.assets[c].requires[1]
  IN  [terms |-> {t \in OfType(v.assets, "term") : c \in v.assets[t].points},
       fk_out |-> v.assets[c].fk \cap OfType(v.assets, "column"),
       fk_in |-> {o \in OfType(v.assets, "column") : c \in v.assets[o].fk},
       joins |-> {j \in OfType(v.assets, "join") :
                    \E n \in named : <<n, v.assets[c].name>> \in v.assets[j].on},
       metrics |-> {m \in OfType(v.assets, "metric") : v.assets[m].requires[1] = base}]

----------------------------------------------------------------------------
(* Properties. *)

\* Every asset some browse answer names: rows with the ids they hold, the
\* table details, both graphs, every column's relations.
Named(v) ==
  LET types == {Corpus[a].type : a \in Ids}
      rows == UNION {corpus_rows(v, t, {}, "id", 0, Cardinality(Ids)).rows : t \in types}
      details == schema_summary(v, NoSchema, 0, Cardinality(Ids)).items
      graphs == {_graph_payload(v), _knowledge_payload(v)}
      related == {related_to_column(v, c) : c \in OfType(v.assets, "column")}
  IN  (UNION rows)
      \cup (UNION {{d.id} \cup UNION {{c.id} \cup c.references : c \in d.columns} : d \in details})
      \cup (UNION {DOMAIN g.nodes \cup UNION {e.ends \cup e.joins : e \in g.edges} : g \in graphs})
      \cup (UNION {r.terms \cup r.fk_out \cup r.fk_in \cup r.joins \cup r.metrics : r \in related})

\* An answer depends on the corpus, the grant and the request only, so it is
\* judged once for these, before the turn does anything.
Opened ==
  stage = "facets" /\ \A f \in Facets : facets[f] = NotRun

\* Neither a turn -- its prompt, its tools -- nor any answer of the browse
\* surface names a table no role of the asker grants or a column some role
\* denies: not by its own line or row, not in a join's, a metric's or a
\* column's endpoint, not as an id another asset holds, not as the end of an
\* edge or the target of a term.  One thing is left out of this: a term that
\* leads to a hidden term loaded after it is read too soon to be hidden, and
\* its row and its line name that term, which has none of its own.  Nor is
\* anything kept from an asker whose roles let them see all that is served.  (An asset a curator took out of
\* serving is not judged: a foreign key keeps its id.)
NothingWithheldIsNamed ==
  /\ TurnNamesNothingWithheld
  /\ Opened =>
       \A v \in {visible} :
         /\ Seen(v) \cap NotToBeNamed = {}
         /\ Named(v) \cap NotToBeNamed \subseteq Overtaken(OfType(v.assets, "term"))
         /\ denied \cap Served = {} => Seen(v) = Served

\* A bounded view says what it leaves out.  It is short of what the scope
\* matches exactly when it says that it dropped something; a join of a shown
\* node that is not drawn leads out of what the scope matches, and is a
\* boundary stub when it leads to another schema; around a focus everything
\* shown hangs together with it; and a view of a graph that has a relation to
\* show, given room for two nodes, shows one.
ViewIsHonest(payload, scope) ==
  LET view  == subgraph(payload, scope)
      all   == Matched(payload, scope)
      drawn == {e.ends : e \in view.edges}
  IN  /\ view.nodes \subseteq all
      /\ view.dropped = 0 <=> view.nodes = all
      /\ \A e \in payload.edges \ view.edges :
           e.predicate /\ e.ends \cap view.nodes # {} =>
             \/ e \in view.boundary
             \/ view.dropped > 0
             \/ \E outside \in e.ends \ all :
                  \E inside \in e.ends \cap view.nodes :
                    payload.nodes[outside].schema \in {NoSchema, payload.nodes[inside].schema}
      /\ Focused(payload, scope) =>
           scope.focus \in view.nodes /\ Reach({scope.focus}, view.nodes, drawn) = view.nodes
      /\ ~Focused(payload, scope) /\ scope.budget > 1 =>
           (drawn = {} <=> \A n \in all : Neighbours(n, all, payload) = {})

\* Pages of one size list every row that matches exactly once, none of them
\* too long, whatever they are sorted on, and a predicate that was not
\* reported back holds of all of them.
PagesListEachRowOnce(v) ==
  \A type \in {"table", "column"}, field \in {"id", "schema"}, limit \in PageLimits :
    \A where \in SUBSET {[field |-> "schema", op |-> "eq", wanted |-> "sales"],
                         [field |-> "schema", op |-> "contains", wanted |-> "geo"]} :
      LET answer == apply_where(v, type, where)
          pages  == {Page(v, answer.rows, field, k * limit, limit) : k \in 0..Cardinality(answer.rows)}
      IN  /\ \A p \in pages : Cardinality(p) <= limit
          /\ \A a \in answer.rows : Cardinality({p \in pages : a \in p}) = 1
          /\ \A w \in where \ answer.unknown : \A a \in answer.rows : Matches(v, a, w)

\* What the browse surface shows of a large corpus does not pass for the
\* whole of it: views tell what they drop, pages miss and repeat nothing.
BrowsingHidesNothing ==
  Opened =>
    \A v \in {visible} :
      /\ PagesListEachRowOnce(v)
      /\ \A payload \in {_graph_payload(v), _knowledge_payload(v)} :
           \A scope \in Scopes : ViewIsHonest(payload, scope)
=============================================================================
