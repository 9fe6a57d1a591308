------------------------------ MODULE Retrieval ------------------------------
(***************************************************************************)
(* The retrieval half of one turn, from the facets to the block of context *)
(* the model is given: the facet nodes (serve/nodes/facets.py), route with *)
(* its second pass, resolve and connect (serve/nodes/route_retrieve.py,    *)
(* pass_two.py), assemble (serve/nodes/assemble.py, serve/context.py) and  *)
(* the abstention policy (serve/nodes/abstain.py), over a corpus from      *)
(* CorpusStructure.                                                        *)
(*                                                                         *)
(* What the search channels score is not modelled: a facet one of whose    *)
(* scoring channels ran may hit any assets of its target types, a schema   *)
(* it has a hit for may rank anywhere, and a full budget may cut any hits  *)
(* of its type.  Whether each channel ran is, and everything decided after *)
(* the scores.                                                             *)
(***************************************************************************)
EXTENDS AccessGrant

CONSTANTS
  embedder,         \* whether the session has one
  Budget,           \* type -> how many ranked hits of it are kept
  depth,            \* candidate_depth: the hits one channel gives a facet
  route_top_n,
  max_steiner_points,
  CrossingCaps,     \* the values of max_crossings explored
  BlockLines,       \* the lengths a block may have, in lines
  HasRules          \* the tables and schemas that carry rules

\* A session is not built of a corpus with a problem that is fatal.
ASSUME CorpusIsSound == fatal_problems(Corpus) = {}

ASSUME RetrievalAssumption ==
  /\ embedder \in BOOLEAN
  /\ HasRules \subseteq OfType(Corpus, "table") \cup OfType(Corpus, "schema")

VARIABLES
  structure,        \* what the session built of the corpus it serves
  asker,            \* the policy file in force, and the roles the asker holds
  grant,            \* what they resolve to
  stage,            \* the next rail node
  facets,           \* facet -> its pass-one hits and the state of each channel
  path_kind,
  terminal_reason,
  schemas,          \* the shortlist
  found,            \* retrieved.by_type / selected / attributions
  pulled_in,        \* retrieved.pulled_in: id -> who pulled it in
  licensed,
  crossings,
  block,            \* what the prompt holds, and the tables evicted from it
  abstention        \* the policy's verdict

Facets == {"facet_schema", "facet_term", "facet_metric", "facet_entity", "facet_example"}

\* The asset types a facet searches, the channels it scores them on, and the
\* facets that restate the question first.
FACET_TARGETS ==
  [f \in Facets |->
     CASE f = "facet_schema" -> {"schema"}
       [] f = "facet_term" -> {"term"}
       [] f = "facet_metric" -> {"metric"}
       [] f = "facet_entity" -> {"table", "column", "join"}
       [] f = "facet_example" -> {"few_shot"}]
FACET_CHANNELS ==
  [f \in Facets |-> IF f = "facet_example" THEN {"semantic"} ELSE {"lexical", "semantic"}]
FACET_EXTRACTS == Facets \ {"facet_schema"}
Channel == {"lexical", "semantic", "extraction"}

turn == <<facets, path_kind, terminal_reason, schemas, found, pulled_in, licensed, crossings, block, abstention>>
vars == <<structure, asker, grant, stage, turn>>

NoChannels == [ch \in {} |-> "ran"]
NotRun == [hits |-> {"not run"}, channels |-> NoChannels]
Nothing == <<>>            \* no asset pulled in
NoBlock == [lines |-> {}, caveats |-> {}, rules |-> {}, evicted |-> {}]
Stages == {"facets", "route", "resolve", "connect", "assemble", "abstain", "agent"}
Terminal == {"crashed", "decline"}

Served == DOMAIN structure.assets
Tables == OfType(structure.assets, "table")
TypeOf(a) == structure.assets[a].type
Tag(a) == structure.tags[a]
Tabled(assets) == assets \cap Tables

Init ==
  /\ structure \in {build_structure(_visible(flagged)) : flagged \in SUBSET MayBeWithheld}
  /\ \/ asker \in [policy : Policies, roles : Principals]
     \/ asker = [policy |-> NoPolicy, roles |-> {}]    \* no policy asks who it is
  /\ Starts(asker.policy, asker.roles)
  /\ grant = resolve_access_grant(asker.policy, asker.roles)
  /\ stage = "facets"
  /\ facets = [f \in Facets |-> NotRun]
  /\ path_kind = "none" /\ terminal_reason = "none"
  /\ schemas = {} /\ found = {} /\ pulled_in = Nothing
  /\ licensed = {} /\ crossings = {} /\ block = NoBlock
  /\ abstention = "none"

Fixed == UNCHANGED <<structure, asker, grant>>

----------------------------------------------------------------------------
(* The facets run in one super-step, in any order; one may crash, and the  *)
(* wrapper marks the turn.                                                 *)

expected_channel_state(f, ch) ==
  IF ch \in FACET_CHANNELS[f] \/ (ch = "extraction" /\ f \in FACET_EXTRACTS)
  THEN "ran" ELSE "not_configured"

\* Whether the utility model restated the question; it may fail or say nothing.
_rewritten_query(f) == IF f \in FACET_EXTRACTS THEN BOOLEAN ELSE {FALSE}

\* What became of the vector of the text to search: the provider may refuse.
vector_for_query == IF embedder THEN {"ran", "failed"} ELSE {"not_configured"}

_consulted(f, rewritten, vector) ==
  (IF rewritten THEN {"extraction"} ELSE {})
  \cup (FACET_CHANNELS[f] \ (IF vector = "ran" THEN {} ELSE {"semantic"}))

\* The hits a facet may have; none when no channel of it scored.
_pass_one_hits(f, ran) ==
  {hits \in SUBSET {a \in Served : TypeOf(a) \in FACET_TARGETS[f]} :
     Cardinality(hits) <= IF ran \cap FACET_CHANNELS[f] = {} THEN 0 ELSE depth}

\* A channel the facet does not declare is not configured, whatever happened;
\* one that did not run gives its reason, or has failed.
_channels_for(f, ran, vector) ==
  [ch \in Channel |->
     IF expected_channel_state(f, ch) = "not_configured" THEN "not_configured"
     ELSE IF ch \in ran THEN "ran"
     ELSE IF ch = "semantic" THEN vector ELSE "failed"]

merge_facets(f, result) == [facets EXCEPT ![f] = result]

FacetRuns(f) ==
  /\ stage = "facets" /\ facets[f] = NotRun
  /\ \E rewritten \in _rewritten_query(f), vector \in vector_for_query :
       LET ran == _consulted(f, rewritten, vector)
       IN  \E hits \in _pass_one_hits(f, ran) :
             facets' = merge_facets(f, [hits |-> hits, channels |-> _channels_for(f, ran, vector)])
  /\ Fixed /\ UNCHANGED <<stage, path_kind, terminal_reason, schemas, found, pulled_in, licensed, crossings, block, abstention>>

FacetCrashes(f) ==
  /\ stage = "facets" /\ facets[f] = NotRun
  /\ facets' = [facets EXCEPT ![f] = [hits |-> {}, channels |-> NoChannels]]
  /\ path_kind' = "crashed"
  /\ Fixed /\ UNCHANGED <<stage, terminal_reason, schemas, found, pulled_in, licensed, crossings, block, abstention>>

FacetsDone ==
  /\ stage = "facets"
  /\ \A f \in Facets : facets[f] # NotRun
  /\ stage' = "route"
  /\ Fixed /\ UNCHANGED turn

\* Every later node does nothing in a turn that has ended.
After(node) ==
  [next \in Stages |->
     CASE next = "route" -> "resolve" [] next = "resolve" -> "connect"
       [] next = "connect" -> "assemble" [] next = "assemble" -> "abstain"
       [] OTHER -> "agent"][node]

PassesOver ==
  /\ stage \notin {"facets", "agent"}
  /\ path_kind \in Terminal
  /\ stage' = After(stage)
  /\ Fixed /\ UNCHANGED turn

Runs(node) ==
  /\ stage = node
  /\ path_kind \notin Terminal
  /\ stage' = After(node)
  /\ Fixed

----------------------------------------------------------------------------
(* route: the schemas some hit votes for, the top of them, and the second  *)
(* pass inside them.                                                       *)

Hits == UNION {facets[f].hits : f \in Facets}
Voted == {Tag(a) : a \in Hits} \ {NoSchema}

\* Pass two searches each facet's types inside the shortlist, on the channels
\* the facet declares; an untagged hit of pass one is carried over.
_candidate_ids(f, chosen) ==
  {a \in Served : Tag(a) \in chosen /\ TypeOf(a) \in FACET_TARGETS[f]}
Carried == {a \in Hits : Tag(a) = NoSchema}

\* What a channel brings at most; a query whose vector is refused brings none.
_scores_lexical(f) == IF "lexical" \in FACET_CHANNELS[f] THEN depth ELSE 0
_semantic_scores(f) == IF embedder /\ "semantic" \in FACET_CHANNELS[f] THEN depth ELSE 0

Searched(kept, candidates) ==
  \A f \in Facets : Cardinality(kept \cap candidates[f]) <= _scores_lexical(f) + _semantic_scores(f)

by_type(assets, type) == {a \in assets : TypeOf(a) = type}

\* What the caps leave of the hits: up to a budget of each type, and a
\* carried hit is missing only from a type that is full.
apply_budgets(kept, carried) ==
  /\ \A type \in DOMAIN Budget : Cardinality(by_type(kept, type)) <= Budget[type]
  /\ \A a \in carried \ kept : Cardinality(by_type(kept, TypeOf(a))) = Budget[TypeOf(a)]

NoSchemaMatched ==
  /\ Voted = {}
  /\ path_kind' = "decline" /\ terminal_reason' = "no_schema_matched"
  /\ UNCHANGED <<facets, schemas, found, pulled_in, licensed, crossings, block, abstention>>

PassTwo ==
  \E chosen \in SUBSET Voted :
    /\ chosen # {}
    /\ \/ Cardinality(chosen) = route_top_n
       \/ chosen = Voted /\ Cardinality(chosen) < route_top_n
    /\ schemas' = chosen
    /\ LET carried == Carried
           candidates == [f \in Facets |-> _candidate_ids(f, chosen) \ carried]
       IN  \E kept \in SUBSET (carried \cup UNION {candidates[f] : f \in Facets}) :
             /\ Searched(kept, candidates)
             /\ apply_budgets(kept, carried)
             /\ found' = kept
             /\ licensed' = IF Tabled(kept) = {} THEN licensed ELSE Tabled(kept)
    /\ UNCHANGED <<facets, path_kind, terminal_reason, pulled_in, crossings, block, abstention>>

route_node == Runs("route") /\ (NoSchemaMatched \/ PassTwo)

----------------------------------------------------------------------------
(* resolve: what the hits refer to, and what that refers to.               *)

resolve(ids) == Spread(ids, structure.references)

resolve_node ==
  /\ Runs("resolve")
  /\ LET added == resolve(found) \ found
     IN  /\ pulled_in' = [a \in added |-> "resolve"]
         /\ licensed' = licensed \cup Tabled(found) \cup Tabled(added)
  /\ UNCHANGED <<facets, path_kind, terminal_reason, schemas, found, crossings, block, abstention>>

----------------------------------------------------------------------------
(* connect: every component that connects is licensed, one that does not   *)
(* leaves the licence and the prompt together.                             *)

Terminals == IF licensed = {} THEN Tabled(found) ELSE licensed
Groups == components(Terminals, Tables, structure.edges)
Trees == [g \in Groups |-> connect(g, Tables, structure.edges, max_steiner_points)]
Joined(trees) == {g \in DOMAIN trees : ~trees[g].declined}

_restrict_to_component_by_schema(kept, dropped) ==
  {a \in Served : Tag(a) = NoSchema \/ Tag(a) \in {structure.assets[t].schema : t \in kept}}

\* What stays when the dropped tables leave: assets of a kept table's schema,
\* and untagged ones.
_restrict_to_component(kept, dropped) ==
  {a \in Served :
     /\ a \notin dropped
     /\ Tag(a) = NoSchema \/ Tag(a) \in {structure.assets[t].schema : t \in kept}}

\* Steiner points outside the shortlist.
_crossings(added) ==
  IF schemas = {} THEN {} ELSE {t \in added : structure.assets[t].schema \notin schemas}

_connect_decline_reason(trees) ==
  IF Cardinality(DOMAIN trees) > 1 THEN "missing_join_path" ELSE "over_connect_bounds"

NothingConnects(trees) ==
  /\ Terminals # {} /\ Joined(trees) = {}
  /\ path_kind' = "decline" /\ terminal_reason' = _connect_decline_reason(trees)
  /\ crossings' = {} /\ licensed' = Terminals
  /\ UNCHANGED <<facets, schemas, found, pulled_in, block, abstention>>

Completed_without_steiner_points(kept, added) == complete_joins(kept, structure)

\* The joins between licensed tables come into the prompt, the Steiner
\* points' included.
Completed(kept, added) == complete_joins(kept \cup added, structure)

Connects(trees) ==
  /\ Terminals = {} \/ Joined(trees) # {}
  /\ LET kept  == UNION Joined(trees)
         added == UNION {trees[g].added : g \in Joined(trees)}
         stay  == IF Joined(trees) = DOMAIN trees THEN Served
                  ELSE _restrict_to_component(kept, Terminals \ kept)
         narrowed == DOMAIN pulled_in \cap stay
         joins == Completed(kept, added) \ (narrowed \cup added)
     IN  /\ found' = found \cap stay
         /\ pulled_in' = [a \in narrowed \cup added \cup joins |->
                            IF a \in narrowed \ added THEN pulled_in[a] ELSE "connect"]
         /\ crossings' = _crossings(added)
         /\ \E max_crossings \in CrossingCaps :
              IF Cardinality(crossings') > max_crossings
              THEN /\ path_kind' = "decline" /\ terminal_reason' = "over_connect_bounds"
                   /\ licensed' = kept
              ELSE /\ licensed' = kept \cup added
                   /\ UNCHANGED <<path_kind, terminal_reason>>
  /\ UNCHANGED <<facets, schemas, block, abstention>>

connect_node ==
  /\ Runs("connect")
  /\ LET trees == Trees IN NothingConnects(trees) \/ Connects(trees)

----------------------------------------------------------------------------
(* assemble: the block.  A hit has a line and a body; a pulled-in column   *)
(* is folded under its table's line.  Over its budget the block first      *)
(* drops every body it must and then the pulled-in tables.                 *)

SchemaAssets == {a \in Served : TypeOf(a) = "schema" /\ structure.assets[a].name \in schemas}
Renderable ==
  (SchemaAssets \cup found \cup DOMAIN pulled_in) \ withheld_by_grant(structure.assets, grant)

\* The rendered table a column is written under: by id, which spells its own
\* schema, whatever a bare parent binds to elsewhere.
_parent_table_id(a, ids) ==
  LET parent == structure.assets[a].requires[1]
  IN  {t \in Tabled(ids) : table_qualifier(t) = <<structure.assets[a].schema, parent[Len(parent)]>>}

_fold_pulled_in_columns(ids) ==
  {a \in ids \ found : TypeOf(a) = "column" /\ _parent_table_id(a, ids) # {}}

\* The lines a set of ids takes once its bodies are gone.
Under(t, ids) == {a \in _fold_pulled_in_columns(ids) : t \in _parent_table_id(a, ids)}

\* A pulled-in table leaves with the columns folded under it.
Drop(ids, tables) == ids \ (tables \cup UNION {Under(t, ids) : t \in tables})
Evictable(ids) == {a \in ids \ found : TypeOf(a) = "table"}

\* The ladder stops as soon as the block fits, or has nothing more to drop.
_assemble_and_evict(ids, lines, gone) ==
  LET short(n) == Cardinality(Drop(ids, n)) <= lines
  IN  /\ gone \subseteq Evictable(ids)
      /\ short(gone) \/ gone = Evictable(ids)
      /\ \/ gone = {}
         \/ \E last \in gone : ~short(gone \ {last})

\* What is said of the assets before any is evicted, and stays: the rules of
\* the tables and of the shortlisted schemas, and a caveat for every suspect
\* column.
_collect_rules(ids) ==
  {a \in ids \cap HasRules : TypeOf(a) = "schema" => structure.assets[a].name \in schemas}
_collect_caveats(ids) == ids \cap Suspect

render_context(ids, gone) ==
  [lines |-> Drop(ids, gone), caveats |-> _collect_caveats(ids), rules |-> _collect_rules(ids),
   evicted |-> gone]

assemble_node ==
  /\ Runs("assemble")
  /\ \E lines \in BlockLines : \E gone \in SUBSET Evictable(Renderable) :
       /\ _assemble_and_evict(Renderable, lines, gone)
       /\ block' = render_context(Renderable, gone)
  /\ UNCHANGED <<facets, path_kind, terminal_reason, schemas, found, pulled_in, licensed, crossings, abstention>>

----------------------------------------------------------------------------
(* abstain: the declared policy, off unless its knob is on.  Its rules are *)
(* read in order and the first that fires gives the turn its reason.       *)
(* A channel that is not configured has not failed.                        *)

_failed_channels ==
  UNION {{<<f, ch>> : ch \in {c \in DOMAIN facets[f].channels : facets[f].channels[c] = "failed"}} :
           f \in Facets}

Fires(reason) ==
  CASE reason = "retrieval_channel_failed" -> _failed_channels # {}
    [] reason = "nothing_licensed" -> licensed = {}
    [] reason = "empty_context" -> block.lines = {}
    [] reason = "licensed_table_evicted" -> block.evicted # {}

ABSTENTION_RULES ==
  <<"retrieval_channel_failed", "nothing_licensed", "empty_context", "licensed_table_evicted">>

abstain_node ==
  /\ Runs("abstain")
  /\ \/ /\ abstention' = "disabled"
        /\ UNCHANGED <<path_kind, terminal_reason>>
     \/ LET fired == {n \in DOMAIN ABSTENTION_RULES : Fires(ABSTENTION_RULES[n])}
        IN  IF fired = {}
            THEN abstention' = "answer" /\ UNCHANGED <<path_kind, terminal_reason>>
            ELSE /\ abstention' = "withhold"
                 /\ path_kind' = "decline"
                 /\ terminal_reason' = ABSTENTION_RULES[Min(fired)]
  /\ UNCHANGED <<facets, schemas, found, pulled_in, licensed, crossings, block>>

----------------------------------------------------------------------------
Next ==
  \/ \E f \in Facets : FacetRuns(f) \/ FacetCrashes(f)
  \/ FacetsDone \/ PassesOver
  \/ route_node \/ resolve_node \/ connect_node \/ assemble_node \/ abstain_node

Spec == Init /\ [][Next]_vars

----------------------------------------------------------------------------
(* Properties. *)

\* Types.
TypeOK ==
  /\ Served \subseteq Ids /\ Starts(asker.policy, asker.roles)
  /\ stage \in Stages
  /\ \A f \in Facets : facets[f] = NotRun \/ facets[f].hits \subseteq Served
  /\ found \cup DOMAIN pulled_in \cup block.lines \cup block.caveats \cup block.rules \subseteq Served
  /\ licensed \cup crossings \cup block.evicted \subseteq Tables
  /\ \A a \in DOMAIN pulled_in : pulled_in[a] \in {"resolve", "connect"}

Delivered == stage = "agent" /\ path_kind \notin Terminal

\* What the policy file, role by role, does not let the asker see.
denied == NotForThem(asker.policy, asker.roles)

\* Withholding an asset, which a curator may do to any of them, never makes a
\* sound corpus one that is refused at load: what required the asset leaves
\* with it and what merely mentioned it stands without the mention.  This is
\* so of what the session serves and of what it would serve were any two more
\* of its assets withheld.
WithholdingNeverBreaksTheCorpus ==
  /\ structure.fatal = {}
  /\ stage = "facets" /\ asker.policy = NoPolicy /\ (\A f \in Facets : facets[f] = NotRun) =>
        \A a, b \in Served : build_structure(_visible((Ids \ Served) \cup {a, b})).fatal = {}

\* What the tools of the turn are given.
tool_bounds_from_state ==
  LET withheld == withheld_by_grant(structure.assets, grant)
  IN  [licensed |-> licensed, readable_assets |-> (found \cup DOMAIN pulled_in) \ withheld,
       grant |-> grant, withheld |-> withheld]

\* The tables the prompt offers are the tables the turn may query, less the
\* ones no role of the asker grants, and a licensed table that is not in the
\* prompt is one the eviction told of: nothing connect dropped is shown, and
\* nothing it added is missing.  A turn the abstention policy let through
\* offers every table of a licence that is not empty, found on every channel
\* its facets declare that is wired at all.  The rules of a table that is
\* offered and the caveat of a suspect column that is shown are in the prompt
\* however much was evicted from it.  The tools serve what
\* the prompt offers: its tables can be inspected, and the columns of its
\* licensed tables queried and sampled unless a row predicate stands on the
\* table -- but for a suspect column, which stays in the prompt under its
\* caveat and which, hard-blocked, neither tool reads.
PromptAndLicenceAgree ==
  Delivered =>
    /\ Tabled(block.lines) \subseteq licensed
    /\ licensed \ (Tabled(block.lines) \cup denied) = block.evicted
    /\ abstention = "answer" =>
         /\ licensed # {} /\ block.evicted = {}
         /\ \A f \in Facets : \A ch \in Channel :
              expected_channel_state(f, ch) = "ran" =>
                facets[f].channels[ch] = "ran" \/ (ch = "semantic" /\ ~embedder)
    /\ block.lines \cap Suspect \subseteq block.caveats
    /\ Tabled(block.lines) \cap HasRules \subseteq block.rules
    /\ LET bounds == tool_bounds_from_state
           rows == RowsNotForThem(asker.policy, asker.roles)
       IN  /\ \A t \in Tabled(block.lines) : t \in inspect_schema(bounds, t, structure.assets)
           /\ \A c \in by_type(block.lines, "column") :
                Parent(c) \in licensed \ rows =>
                  LET served == ~(hard_block_suspect /\ c \in Suspect)
                  IN  run_query(bounds, c) = served /\ sample_rows(bounds, c) = served

\* The prompt carries a join path for the tables it offers: any two licensed
\* tables that the corpus can join at all are joined through licensed tables
\* by joins in the prompt.
OfferedTablesCanBeJoined ==
  Delivered /\ denied = {} =>
    LET Spelled == {structure.joins[j] : j \in block.lines \cap DOMAIN structure.joins}
    IN  \A t \in licensed :
          Reach({t}, Tables, structure.edges) \cap licensed \subseteq Reach({t}, licensed, Spelled)

\* The assets that may not be named: those that are not for the asker or
\* require one that is not, and the terms that lead to them -- through other
\* terms only when each is loaded after the one it leads to.  A term loaded
\* before may be named, and so may what leads to it alone.
NotToBeNamed ==
  LET kept   == denied
      hidden == IF kept = {} THEN {}
                ELSE {a \in Served : a \in kept \/ Endpoints(a, structure.assets) \cap kept # {}}
      terms == OfType(structure.assets, "term")
  IN  Spread(hidden, [a \in Served |->
                        {t \in terms : a \in structure.assets[t].points /\ (a \in terms => Place[a] < Place[t])}])

\* The terms that one of these, loaded before them, leads to.
Overtaken(terms) ==
  UNION {{u \in structure.assets[t].points : TypeOf(u) = "term" /\ Place[t] <= Place[u]} : t \in terms}

\* Neither a line of the prompt nor an answer of a tool names what no role of
\* the asker grants or some role denies -- not by its own line, not by a
\* column's, a join's or a metric's, not as the target of a term, unless that
\* is a term loaded after it -- and no statement reads a column the asker is
\* denied, or a row of a table whose predicate nobody enforces.
TurnNamesNothingWithheld ==
  Delivered =>
    LET bounds == tool_bounds_from_state
        rows == RowsNotForThem(asker.policy, asker.roles)
        told == block.lines \cup block.caveats \cup block.rules
                \cup (UNION {read_body(bounds, a) : a \in Served})
                \cup (UNION {inspect_schema(bounds, t, structure.assets) : t \in Tables})
        hidden == NotToBeNamed
        terms == by_type(block.lines, "term")
    IN  /\ told \cap hidden = {}
        /\ (UNION {structure.assets[t].points : t \in terms}) \cap hidden \subseteq Overtaken(terms)
        /\ \A c \in OfType(structure.assets, "column") :
             run_query(bounds, c) \/ sample_rows(bounds, c) =>
               c \notin hidden /\ Parent(c) \in licensed \ rows

=============================================================================
