---------------------------- MODULE PlanMeaning ----------------------------
(***************************************************************************)
(* The validation pipeline with its repairs, stages, rules and compilers,  *)
(* and what they do to what a plan means to a database (SqlRows).  The     *)
(* parameters of ValidationPipeline get as values                          *)
(*                                                                         *)
(*   PlanFixes     DropHallucinatedJoins, FixColumns, FixTables, WithJoin, *)
(*                 DedupAggregates, FixGroups, JoinsNameless, Nameless     *)
(*   PlanChecks    SchemaErrors, OperandErrors, DialectErrors, AuditErrors *)
(*   SqlCompiler   SqlOf, TextLiterals, CompileErrors                      *)
(*                                                                         *)
(* and OptimizedPlan, below.                                               *)
(***************************************************************************)
EXTENDS ValidationPipeline, PlanFixes, PlanChecks, SqlRows, SqlCompiler

CONSTANT Databases    \* scopes to compare results on

Rules == INSTANCE RewriteRules

\* The rewrite pipeline
OptimizedPlan(p) == Rules!Prune(Rules!PushDown(Rules!Fold(p)))

-----------------------------------------------------------------------------
(* What the plan means to a database, whatever the stages make of it.      *)

KnownNames == [t \in DOMAIN Schema |-> DOMAIN Schema[t].columns]

\* SqlRows has no value for a CASE, a window function, an IN or a scalar
\* subquery, and no rows for derived tables, set operations and DISTINCT ON.
Told(query) ==
    /\ query.derived = <<>> /\ query.sets = <<>> /\ query.distinctOn = <<>>
    /\ \A t \in WrittenTrees(query) : \A n \in Nodes(t) :
           n.is \notin {"case", "window", "in", "inquery", "subquery"}
Resolved(p) == (\A q \in Queries(p) : Told(q)) /\ NamesResolve(p, KnownNames)

\* The SQL type of an expression on some relations.
RECURSIVE SqlType(_, _)
SqlType(e, sources) ==
    CASE e.is = "literal" -> e.type
      [] e.is = "column" ->
            LET s == CHOOSE s \in sources : e.rel \in {"", Key(s)} /\ HasColumn(s.table, e.name)
            IN Schema[s.table].columns[e.name]
      [] e.is = "call" /\ e.op \in {"UPPER", "LOWER"} -> "string"
      [] e.is = "call" /\ e.op \in {"SUM", "MAX"} -> SqlType(e.kids[1], sources)
      [] OTHER -> "int"

\* An operator or a comparison no database has.
RECURSIVE IllTyped(_, _)
IllTyped(tree, sources) ==
    LET Is(i) == SqlType(tree.kids[i], sources)
        numeric == {"int", "float", "null"}
    IN \/ tree.is = "binary" /\ ~({Is(1), Is(2)} \subseteq numeric)
       \/ /\ tree.is = "compare"
          /\ Is(1) # Is(2) /\ "null" \notin {Is(1), Is(2)} /\ ~({Is(1), Is(2)} \subseteq numeric)
       \/ tree.is = "call" /\ tree.op \in {"UPPER", "LOWER"} /\ Is(1) \notin {"string", "null"}
       \/ tree.is = "call" /\ tree.op = "SUM" /\ Is(1) \notin numeric
       \/ \E kid \in ToSet(tree.kids) : IllTyped(kid, sources)

\* What is selected beside the aggregates has one value in every group.
Determined(p, db) ==
    LET ctx == [scope |-> db, outer |-> <<>>]
        rows == SelectSeq(Joined(p, Len(Relations(p)), ctx),
                          LAMBDA env : Satisfies(<<env>>, p.where, ctx))
        plain == {e \in ToSet(Exprs(p.select)) : e # Star /\ ~Aggregates(e)}
    IN \A g \in ToSet(Groups(p, rows, <<>>)) : \A e \in plain :
           Cardinality({Value(e, <<env>>, <<>>) : env \in ToSet(g)}) = 1

\* A plan a database would take: names, types, groups, aggregates in place.
Sound(p) ==
    /\ p.ctes = <<>>
    /\ Resolved(p)
    /\ \A t \in Trees(p) :
          /\ ~IllTyped(t, RelationsOf(p))
          /\ \A f \in Calls(t) : \A kid \in ToSet(f.kids) : ~Aggregates(kid)
    /\ \A db \in Databases : Determined(p, db)

-----------------------------------------------------------------------------
(* Properties.                                                             *)

Runs == stage \in {"validated", "optimized", "done", "compiled", "sent"}

\* The rows of a database that the filters of a policy let through, table by
\* table.
Permitted(policy, db) ==
    LET Passes(t, row) ==
            \A f \in {policy.tables[s].filter : s \in DOMAIN policy.tables \cap {t}}
                     \cup {f \in ToSet(policy.filters) : \A c \in AllColumns(f) : c.rel = t} :
                Satisfies(<<t :> row>>, f, [scope |-> db, outer |-> <<>>])
    IN [t \in DOMAIN db |-> [db[t] EXCEPT !.rows = SelectSeq(@, LAMBDA row : Passes(t, row))]]

\* The filters did to a plan's rows what removing rows from the tables
\* beforehand would have done.
FiltersBind ==
    \A db \in Databases :
        SameRows(Evaluate(plan', db), Evaluate(plan, Permitted(config.policy, db)))

\* config.rs: a filter is "a mandatory condition to append when this table is
\* queried".  (On the null-supplying side of an outer join it does more.)
FiltersCoverAll ==
    [][LET inner == \A j \in ToSet(plan.joins) : j.kind \in {"inner", "cross"}
       IN stage = "filter" /\ inner /\ Resolved(plan') => FiltersBind]_vars

\* So it is for a query of joined tables that reads no table twice and has no
\* query inside.
FiltersHold ==
    [][LET inner == \A j \in ToSet(plan.joins) : j.kind \in {"inner", "cross"}
           flat == plan.ctes = <<>> /\ \A t \in Trees(plan) : Subqueries(t) = {}
           once == Cardinality({r.table : r \in RelationsOf(plan)}) = Len(Relations(plan))
       IN stage = "filter" /\ inner /\ flat /\ once /\ Resolved(plan') => FiltersBind]_vars

\* A plan that may run has no operator or function on operands of the wrong
\* type, where its columns are those of tables.
TypesAgree ==
    Runs /\ plan.ctes = <<>> /\ Resolved(plan) =>
        \A t \in Trees(plan) : ~IllTyped(t, RelationsOf(plan))

\* Every row a plan returns that may run is one its groups determine: what
\* is selected beside an aggregate has one value in each group.
GroupsAreDetermined ==
    Runs /\ plan.ctes = <<>> /\ Resolved(plan) => \A db \in Databases : Determined(plan, db)

\* Plans a database takes and the repairs take for mistakes: they clear a
\* GROUP BY without aggregates and the columns of aliases from any GROUP BY,
\* and join to the query what only a query inside it reads, or what an alias
\* is called like.
TakenForMistakes(p) ==
    LET own == RelationsOf(p)
        inner == UNION {RelationsOf(q) : q \in Queries(p)}
    IN \/ p.group # <<>> /\ ~SelectsAggregate(p)
       \/ \E g \in ToSet(p.group) : \E c \in AllColumns(g) : c.rel \notin {""} \cup DOMAIN Schema
       \/ \E r \in inner : Key(r) \in DOMAIN Schema \ {s.table : s \in own}

Kept ==
    /\ Resolved(plan)
    /\ \A db \in Databases : SameRows(Evaluate(plan, db), Evaluate(original, db))

\* The repairs are for plans that are broken: one that a database would have
\* taken as it was still returns what it returned, unless they take it for one
\* that is broken.
RepairKeepsMeaning ==
    stage = "schema" /\ Sound(original) /\ ~TakenForMistakes(original) => Kept

\* fix/mod.rs: the fixer "repairs common LLM mistakes"; so it leaves alone what
\* is none.
RepairsOnlyMistakes == stage = "schema" /\ Sound(original) => Kept

\* A relation behind an alias takes its table's name from one further on
\* that goes by it, and from one of the query around.
Captures(p) ==
    LET Aliased(r) == r.as # "" /\ r.as # r.table
        inner == UNION {RelationsOf(q) : q \in UNION {Subqueries(t) : t \in Trees(p)}}
        own == Relations(p)
    IN \/ \E r \in inner : Aliased(r) /\ r.table \in {Key(s) : s \in RelationsOf(p)}
       \/ \E i, j \in DOMAIN own : i < j /\ Aliased(own[i]) /\ Key(own[j]) = own[i].table

\* resolve_alias: the statement's qualifiers name what the plan's do, so it
\* returns what the plan means.
StatementMeansThePlan ==
    stage = "compiled" /\ Resolved(plan) /\ ~Captures(plan) =>
        /\ Resolved(statement.sql)
        /\ \A db \in Databases : SameRows(Evaluate(statement.sql, db), Evaluate(plan, db))

\* The columns the row filters of a policy read.
FilterColumns(policy) ==
    UNION {AllColumns(f) : f \in {policy.tables[t].filter : t \in DOMAIN policy.tables}
                                 \cup ToSet(policy.filters)}

\* pipeline.rs checks the policy again after the optimizer and nothing else:
\* what the five stages accepted they would accept again, and the second look
\* at the policy refuses nothing but columns that the row filters brought in.
OptimizedStillAccepted ==
    stage = "optimized" =>
        /\ SchemaErrors(plan) = {}
        /\ PolicyErrors(config.policy, plan) \subseteq
              {Error("ColumnDenied", <<t, c.name>>) :
                  t \in DOMAIN Schema, c \in FilterColumns(config.policy)}
        /\ OperandErrors(plan) = {}
        /\ DialectErrors(config.profile, plan) = {}
        /\ config.audit => AuditErrors(plan) = {}
=============================================================================
