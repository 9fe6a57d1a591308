----------------------------- MODULE AccessGrant -----------------------------
(***************************************************************************)
(* Who may see what: the policy file of roles and the grant a principal's  *)
(* roles compose to (govern/access.py StaticRoleAccessPolicy), its keys    *)
(* folded as references are (resolve_grant), and the assets of a corpus    *)
(* the grant withholds (serve/context.py withheld_by_grant) and the bounds *)
(* it puts on the tools (govern/bounds.py).  Everything here is a function *)
(* of the policy, the roles, the corpus and a turn's licence; nothing here *)
(* has state.                                                              *)
(*                                                                         *)
(* A key is the sequence of names between its dots, as the policy's author *)
(* wrote them.  No schema is pinned where the grant is resolved, so a key  *)
(* that leaves out its schema names nothing.  A row predicate is its table *)
(* and who enforces it; its expression is never read.                      *)
(***************************************************************************)
EXTENDS CorpusStructure

CONSTANTS
  Policies,         \* the policy files: role -> what the file says of it
  Principals,       \* sets of roles someone may hold
  Respelled,        \* another spelling of a name -> the name it folds to
  Suspect,          \* the columns whose reliability is suspect
  hard_block_suspect  \* whether statements on them are refused

NoPolicy == <<>>           \* none is configured; a file has some role

\* The values a file may hold are of the declared shapes; what the loader
\* refuses beyond that is _parse_roles.
ASSUME AccessAssumption ==
  /\ hard_block_suspect \in BOOLEAN /\ Suspect \subseteq OfType(Corpus, "column")
  /\ \A file \in Policies : \A role \in DOMAIN file :
       /\ file[role].reach \in {"every_table", "listed"}
       /\ \A p \in file[role].row_predicates : p.enforcement \in {"refuse", "database_role"}

\* A grant is of every table, or of those it lists.
every_table(grant) == grant.reach = "every_table"

\* A row predicate is refused on by the engine, or left to the database.
Refusing(predicates) == {p \in predicates : p.enforcement = "refuse"}

fold(name) == IF name \in DOMAIN Respelled THEN Respelled[name] ELSE name
Folded(key) == [n \in DOMAIN key |-> fold(key[n])]

----------------------------------------------------------------------------
(* Loading and composing. *)

\* Two row predicates name one table.
Conflict(predicates) ==
  \E p, q \in predicates : p # q /\ Folded(p.table) = Folded(q.table)

\* The loader reads the whole file or refuses it.
_require_keys(keys, parts) == \A key \in keys : Len(key) \in parts
_parse_roles(file) ==
  /\ DOMAIN file # {}
  /\ \A role \in DOMAIN file :
       /\ _require_keys(file[role].tables, {1, 2})
       /\ _require_keys(file[role].denied_columns, {2, 3})
       /\ every_table(file[role]) => file[role].tables = {}
       /\ ~Conflict(file[role].row_predicates)

NoGrant == [reach |-> "listed", tables |-> {}, denied_columns |-> {}, row_predicates |-> {}]
OPEN_GRANT == [NoGrant EXCEPT !.reach = "every_table"]

Known(file, roles) == {file[role] : role \in roles \cap DOMAIN file}

\* The server does not start for a principal whose roles conflict.
Composes(file, roles) == ~Conflict(UNION {g.row_predicates : g \in Known(file, roles)})

grant_for_denying_in_common(file, roles) ==
  LET known == Known(file, roles)
      every == \E g \in known : every_table(g)
  IN  [reach |-> IF every THEN "every_table" ELSE "listed",
       tables |-> IF every THEN {} ELSE UNION {g.tables : g \in known},
       denied_columns |-> {key \in UNION {g.denied_columns : g \in known} :
                             \A g \in known : key \in g.denied_columns},
       row_predicates |-> UNION {g.row_predicates : g \in known}]

\* Grants add up, a denial of any role stands, and a role that grants every
\* table outdoes the lists.  An unknown role grants nothing.
grant_for(file, roles) ==
  LET known == Known(file, roles)
      every == \E g \in known : every_table(g)
  IN  IF known = {} THEN NoGrant
      ELSE [reach |-> IF every THEN "every_table" ELSE "listed",
            tables |-> IF every THEN {} ELSE UNION {g.tables : g \in known},
            denied_columns |-> UNION {g.denied_columns : g \in known},
            row_predicates |-> UNION {g.row_predicates : g \in known}]

----------------------------------------------------------------------------
(* Resolving.  A table a predicate names refuses every statement, unless   *)
(* the operator says that the database enforces it.                        *)

resolve_grant_as_written(grant) ==
  [reach |-> grant.reach, tables |-> grant.tables, denied_columns |-> grant.denied_columns,
   refusing_tables |-> {p.table : p \in Refusing(grant.row_predicates)},
   delegated_tables |-> {p.table : p \in grant.row_predicates \ Refusing(grant.row_predicates)}]

resolve_grant(grant) ==
  LET refusing == Refusing(grant.row_predicates)
  IN  [reach |-> grant.reach,
       tables |-> {Folded(key) : key \in grant.tables},
       denied_columns |-> {Folded(key) : key \in grant.denied_columns},
       refusing_tables |-> {Folded(p.table) : p \in refusing},
       delegated_tables |-> {Folded(p.table) : p \in grant.row_predicates \ refusing}]

authorizes_table(grant, key) == every_table(grant) \/ key \in grant.tables
denies_column(grant, key) == key \in grant.denied_columns
refuses_for_row_predicate(grant, key) == key \in grant.refusing_tables

\* The grant of the one principal a session serves, settled when the session
\* is built.
resolve_access_grant(policy, roles) ==
  resolve_grant(IF policy = NoPolicy THEN OPEN_GRANT ELSE grant_for(policy, roles))

Starts(policy, roles) == policy = NoPolicy \/ (_parse_roles(policy) /\ Composes(policy, roles))

----------------------------------------------------------------------------
(* What a grant withholds: a table it does not authorize, whatever names   *)
(* one, a column it denies, and a term bound to anything withheld before   *)
(* it: the terms are read once, in the order they were loaded in.  A bare  *)
(* name is matched against every such table's.                             *)

table_qualifier(t) == <<Corpus[t].schema, Corpus[t].name>>
column_qualifier(c) ==
  LET parent == Corpus[c].requires[1]
  IN  <<Corpus[c].schema, parent[Len(parent)], Corpus[c].name>>

NamesOneOf_qualified_only(spelling, tables) ==
  \E t \in tables : spelling = table_qualifier(t)

NamesOneOf(spelling, tables) ==
  \E t \in tables :
    IF Len(spelling) = 2 THEN spelling = table_qualifier(t)
    ELSE spelling = <<Corpus[t].name>>

withheld_by_grant(assets, grant) ==
  LET tables == {t \in OfType(assets, "table") :
                   ~authorizes_table(grant, Folded(table_qualifier(t)))}
      columns == {c \in OfType(assets, "column") :
                   denies_column(grant, Folded(column_qualifier(c)))}
      spelled(a, n) ==
        IF assets[a].schema = NoSchema \/ Len(assets[a].requires[n]) = 2
        THEN {assets[a].requires[n]}
        ELSE {assets[a].requires[n], <<assets[a].schema, assets[a].requires[n][1]>>}
      naming == {a \in OfType(assets, "column") \cup OfType(assets, "join")
                        \cup OfType(assets, "metric") :
                   \E n \in DOMAIN assets[a].requires :
                     \E s \in spelled(a, n) : NamesOneOf(s, tables)}
      terms == OfType(assets, "term")
  IN  Spread(tables \cup columns \cup naming,
             [a \in DOMAIN assets |->
                {t \in terms : a \in assets[t].points /\ (a \in terms => Place[a] < Place[t])}])

----------------------------------------------------------------------------
(* What the tools of a turn may touch (govern/bounds.py) and answer        *)
(* (serve/fetch.py), given a turn's bounds: the tables licensed, the       *)
(* assets that may be read, the grant, and what it withholds.              *)

\* A column's table, off its id.
Parent(c) == CHOOSE t \in Endpoint(c, 1, Corpus) : TRUE

discloses(bounds, a) == a \notin bounds.withheld

may_read_body(bounds, a) == a \in bounds.readable_assets

may_inspect_schema(bounds, t) ==
  /\ t \in bounds.licensed /\ discloses(bounds, t)
  /\ authorizes_table(bounds.grant, Folded(table_qualifier(t)))

may_sample(bounds, c) ==
  /\ Parent(c) \in bounds.licensed
  /\ discloses(bounds, c) /\ discloses(bounds, Parent(c))
  /\ authorizes_table(bounds.grant, Folded(table_qualifier(Parent(c))))
  /\ ~denies_column(bounds.grant, Folded(column_qualifier(c)))

\* The assets an answer names; none when it is refused.
read_body(bounds, a) == IF may_read_body(bounds, a) THEN {a} ELSE {}

inspect_schema_by_table(bounds, t, assets) ==
  IF may_inspect_schema(bounds, t) THEN {t} \cup assets[t].points ELSE {}

inspect_schema(bounds, t, assets) ==
  IF may_inspect_schema(bounds, t) /\ t \in OfType(assets, "table")
  THEN {t} \cup {c \in assets[t].points : discloses(bounds, c)}
  ELSE {}

\* The layers of a statement that reads one column: what is so for everyone
\* before what the grant denies; then the licence before the authorization,
\* so that a refusal tells nothing of a table the turn did not find.
_columns_by_grant(bounds, c) ==
  IF denies_column(bounds.grant, Folded(column_qualifier(c)))
  THEN "r_column_not_authorized" ELSE "passed"

_columns(bounds, c) ==
  CASE c \in Suspect /\ hard_block_suspect -> "r_column_suspect"
    [] OTHER -> IF denies_column(bounds.grant, Folded(column_qualifier(c)))
                THEN "r_column_not_authorized" ELSE "passed"

_tables(bounds, t) ==
  CASE t \notin bounds.licensed -> "r_table_not_licensed"
    [] t \in bounds.licensed /\ ~authorizes_table(bounds.grant, Folded(table_qualifier(t)))
         -> "r_table_not_authorized"
    [] OTHER -> IF refuses_for_row_predicate(bounds.grant, Folded(table_qualifier(t)))
                THEN "r_row_predicate_unenforced" ELSE "passed"

check(bounds, c) ==
  IF _columns(bounds, c) # "passed" THEN _columns(bounds, c) ELSE _tables(bounds, Parent(c))

run_query(bounds, c) == check(bounds, c) = "passed"
sample_rows(bounds, c) == may_sample(bounds, c) /\ check(bounds, c) = "passed"

----------------------------------------------------------------------------
(* For the properties: what the file says, role by role.  A key names an   *)
(* asset when it spells all of its names, in any case.                     *)

Spells(key, names) == Folded(key) = Folded(names)

\* The tables no role they hold grants, and the columns some role denies.
NotForThem(policy, roles) ==
  IF policy = NoPolicy THEN {}
  ELSE LET held == Known(policy, roles)
       IN  {t \in OfType(Corpus, "table") :
              ~\E role \in held : \/ every_table(role)
                                  \/ \E key \in role.tables : Spells(key, table_qualifier(t))}
           \cup {c \in OfType(Corpus, "column") :
              \E role \in held : \E key \in role.denied_columns : Spells(key, column_qualifier(c))}

\* The tables whose rows some role restricts in a way nobody enforces.
RowsNotForThem(policy, roles) ==
  IF policy = NoPolicy THEN {}
  ELSE {t \in OfType(Corpus, "table") :
          \E role \in Known(policy, roles) : \E p \in Refusing(role.row_predicates) :
            Spells(p.table, table_qualifier(t))}
=============================================================================
