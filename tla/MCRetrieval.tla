----------------------------- MODULE MCRetrieval -----------------------------
(* Two schemas.  p - q - r - u is a chain of joins that leaves sales at q;   *)
(* v stands alone in sales.  Of the two terms that lead to the term t, one   *)
(* is loaded before it.                                                      *)
EXTENDS Browse

Says(type, schema, name, requires, points, cites) ==
  [type |-> type, schema |-> schema, name |-> name, requires |-> requires,
   points |-> points, cites |-> cites, fk |-> {}, on |-> {}]

Table(schema, name, columns) == Says("table", schema, name, <<>>, columns, {})
Column(schema, name, parent, fk) ==
  [Says("column", schema, name, <<parent>>, {}, {}) EXCEPT !.fk = fk]
Join(left, right, on) == [Says("join", NoSchema, "join", <<left, right>>, {}, {}) EXCEPT !.on = on]

MCIdOrder ==
  <<"ex", "geo", "j1", "j2", "j3", "m", "n", "p", "p.c", "q", "q.k", "r", "sales", "t", "t2", "u", "v">>
MCIds == Range(MCIdOrder)
MCIdRank == [a \in MCIds |-> CHOOSE n \in DOMAIN MCIdOrder : MCIdOrder[n] = a]

MCCorpus ==
  [a \in MCIds |->
    CASE a = "sales" -> Says("schema", NoSchema, "sales", <<>>, {}, {})
      [] a = "geo"   -> Says("schema", NoSchema, "geo", <<>>, {}, {})
      [] a = "p"     -> Table("sales", "p", {"p.c"})
      [] a = "q"     -> Table("geo", "q", {"q.k"})
      [] a \in {"r", "u", "v"} -> Table("sales", a, {})
      [] a = "p.c"   -> Column("sales", "c", <<"p">>, {})
      [] a = "q.k"   -> Column("geo", "k", <<"geo", "q">>, {"p.c"})
      [] a = "j1"    -> Join(<<"p">>, <<"geo", "q">>, {<<"p", "c">>, <<"q", "k">>})
      [] a = "j2"    -> Join(<<"q">>, <<"sales", "r">>, {<<"", "k">>})
      [] a = "j3"    -> Join(<<"r">>, <<"u">>, {})
      [] a = "m"     -> Says("metric", NoSchema, "m", <<<<"r">>>>, {"p.c"}, {})
      [] a = "t"     -> Says("term", NoSchema, "t", <<>>, {"p.c"}, {})
      [] a \in {"n", "t2"} -> Says("term", NoSchema, a, <<>>, {"t"}, {})
      [] a = "ex"    -> Says("few_shot", "sales", "ex", <<>>, {}, {<<"u">>})]

MCBudget ==
  [type \in {"schema", "table", "column", "join", "metric", "term", "few_shot"} |->
     CASE type = "table" -> 2 [] type = "term" -> 1 [] OTHER -> 14]

\* The radius is read around a focus only.
MCScopes ==
  {scope \in [schema : {NoSchema, "sales", "geo"}, focus : {Unfocused, "q", "r"}, radius : {1, 2},
              kinds : {{}, {"table", "join"}}, budget : {2, 3, 120}] :
     scope.focus = Unfocused => scope.radius = 1}

\* A clerk sees the corpus but p; a buyer adds p, and not its column; an
\* auditor sees every table, and the rows of none whose predicate is left to
\* the engine.  Some keys are in another case, one leaves out its schema.
MCRole(reach, tables, columns, predicates) ==
  [reach |-> reach, tables |-> tables, denied_columns |-> columns, row_predicates |-> predicates]
MCPredicate(table, enforcement) == [table |-> table, enforcement |-> enforcement]

MCFile ==
  [role \in {"clerk", "buyer", "auditor", "regional"} |->
    CASE role = "clerk"   -> MCRole("listed", {<<"geo", "q">>, <<"Sales", "r">>, <<"sales", "u">>,
                                               <<"sales", "v">>, <<"p">>}, {}, {})
      [] role = "buyer"   -> MCRole("listed", {<<"SALES", "p">>}, {<<"sales", "p", "C">>}, {})
      [] role = "auditor" -> MCRole("every_table", {}, {},
                                    {MCPredicate(<<"Geo", "q">>, "refuse"),
                                     MCPredicate(<<"sales", "p">>, "database_role")})
      [] OTHER            -> MCRole("listed", {<<"geo", "q">>}, {},
                                    {MCPredicate(<<"geo", "q">>, "database_role")})]

\* A file the loader refuses: it lists tables beside every table.
MCBadFile == [role \in {"clerk"} |-> MCRole("every_table", {<<"geo", "q">>}, {}, {})]

MCPolicies == {MCFile, MCBadFile}
MCPrincipals ==
  {{"clerk"}, {"clerk", "buyer"}, {"auditor", "buyer"}, {"auditor", "regional"}, {"stranger"}}
MCRespelled == [name \in {"Sales", "SALES", "Geo", "C"} |->
                CASE name \in {"Sales", "SALES"} -> "sales" [] name = "Geo" -> "geo" [] OTHER -> "c"]

\* Of what the facets did, route reads which schemas their hits vote for, the
\* untagged hits, and whether a channel failed; no later node, and no property
\* of a turn that was not let through, reads more than the last.  Of a turn
\* that crashed nobody reads more than which facets are still to run.
MCFacets ==
  CASE stage = "facets" /\ path_kind = "crashed" -> <<{f \in Facets : facets[f] = NotRun}>>
    [] stage = "facets" /\ path_kind # "crashed" -> <<[f \in Facets |-> facets[f].hits]>>
    [] stage = "route" /\ path_kind # "crashed" -> <<Voted, Carried>>
    [] OTHER -> <<>>
MCView ==
  <<structure, asker, grant, stage, path_kind, terminal_reason, schemas, found, pulled_in,
    licensed, crossings, block, abstention, _failed_channels # {}, MCFacets>>
=============================================================================
