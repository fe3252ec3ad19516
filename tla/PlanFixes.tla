----------------------------- MODULE PlanFixes -----------------------------
(***************************************************************************)
(* vlorql-core/src/fix: the repairs a plan gets before it is validated.    *)
(* Each is a function of the plan, except that joins are added in the      *)
(* order in which a hash set hands out the missing tables.                 *)
(***************************************************************************)
EXTENDS PlanScope, FunctionRegistry

\* Column names that hold an expression in their text: arithmetic between two
\* columns, as <<left, op, right>>, or a call of a function on columns.
CONSTANTS Arithmetic, Embedded

-----------------------------------------------------------------------------
(* Rewriting a plan, its CTEs, its subqueries and what is right of its set *)
(* operation; derived tables and DISTINCT ON stay as they are, and so do   *)
(* the values of an IN and what a window function is over.                 *)

Left(tree, i) == tree.is \in {"in", "window"} /\ i > 1
FixedKids(tree) == {tree.kids[i] : i \in {i \in DOMAIN tree.kids : ~Left(tree, i)}}
FixedNodes(tree) == Reached(tree, FixedKids)

\* The queries a repair of every query goes on with.
FixedQueries(plan) ==
    {c.query : c \in ToSet(plan.ctes)} \cup {s.right : s \in ToSet(plan.sets)}
    \cup UNION {QueriesAmong(FixedNodes(t)) : t \in Trees(plan)}

RECURSIVE EveryColumn(_), Columnwise(_, _), Treewise(_, _)
EveryColumn(plan) ==
    UNION {AllColumns(t) : t \in Trees(plan)} \cup UNION {EveryColumn(q) : q \in FixedQueries(plan)}

Treewise(tree, New) ==
    LET Kid(i) == IF Left(tree, i) THEN tree.kids[i] ELSE Treewise(tree.kids[i], New)
        inside == [tree EXCEPT !.kids = [i \in DOMAIN @ |-> Kid(i)]]
    IN IF tree \in DOMAIN New THEN New[tree]
       ELSE IF "query" \in DOMAIN tree THEN [inside EXCEPT !.query = Columnwise(@, New)]
       ELSE inside

\* Columns as they stand in SELECT and in GROUP BY, where a fix may treat them
\* in its own way: New gives the projection, or drops the group.
Selected(column) == [column EXCEPT !.is = "selected"]
Grouped(column) == [column EXCEPT !.is = "grouped"]

Columnwise(plan, New) ==
    LET Tree(t) == Treewise(t, New)
        Item(p) == [p EXCEPT !.expr = IF Selected(@) \in DOMAIN New THEN New[Selected(@)] ELSE Tree(@)]
        kept == SelectSeq(plan.group, LAMBDA e : Grouped(e) \notin DOMAIN New)
    IN [InClauses([plan EXCEPT !.group = kept],
                  [i \in DOMAIN plan.ctes |-> Columnwise(plan.ctes[i].query, New)],
                  [i \in DOMAIN plan.sets |-> Columnwise(plan.sets[i].right, New)], Tree, Tree)
           EXCEPT !.select = [i \in DOMAIN plan.select |-> Item(plan.select[i])]]

-----------------------------------------------------------------------------
(* fix/columns.rs and fix/column_table.rs: columns.                        *)

\* parse_arithmetic_column: both sides keep the qualifier.
Parsed(column) ==
    LET a == Arithmetic[column.name]
    IN Binary(Column(column.rel, a[1]), a[2], Column(column.rel, a[3]))

\* parse_sql_function_column
ParsedCall(column) ==
    Call(Embedded[column.name][1], <<Column(column.rel, Embedded[column.name][2])>>)

\* fix_arithmetic_column_refs.  A call is looked for only in a projection that
\* is a plain column: elsewhere an arm above takes every column.
FixColumns(plan) ==
    LET Holding(texts) == {c \in EveryColumn(plan) : c.name \in DOMAIN texts}
    IN Columnwise(plan, [c \in Holding(Arithmetic) |-> Parsed(c)]
           @@ [s \in {Selected(c) : c \in Holding(Embedded)} |-> ParsedCall(s)])

\* find_column_via_fk: the table the column is of, one foreign key away: one
\* the table points to, else one that points to the table.  {} if none.
FkTable(table, column) ==
    LET keys == IF table \in DOMAIN Schema THEN Schema[table].keys ELSE <<>>
        forward == SelectSeq(keys, LAMBDA k : HasColumn(k.table, column))
        back == SelectSeq(TableOrder, LAMBDA t :
                    HasColumn(t, column) /\ \E k \in ToSet(Schema[t].keys) : k.table = table)
    IN IF table \notin DOMAIN Schema THEN {}
       ELSE IF forward # <<>> THEN {forward[1].table}
       ELSE IF back # <<>> THEN {back[1]} ELSE {}

Misplaced(column) == column.rel # "" /\ ~HasColumn(column.rel, column.name)

\* Mutation: any table that has the column will do.
RehomedAnywhere(column) ==
    {t \in DOMAIN Schema : HasColumn(t, column.name) /\ column.rel # ""}

\* Where fix_expr moves a column that its table does not have.
Rehomed(column) == IF Misplaced(column) THEN FkTable(column.rel, column.name) ELSE {}

\* fix_column_table.  GROUP BY loses the columns nothing has, an alias's
\* among them.
FixTables(plan) ==
    LET columns == EveryColumn(plan)
        lost == {c \in columns : Misplaced(c) /\ Rehomed(c) = {}}
    IN Columnwise(plan, [c \in {c \in columns : Rehomed(c) # {}} |->
                            [c EXCEPT !.rel = CHOOSE t \in Rehomed(c) : TRUE]]
           @@ [g \in {Grouped(c) : c \in lost} |-> Absent])

-----------------------------------------------------------------------------
(* fix/joins.rs: joins.                                                    *)

ScopeTables(plan) == {r.table : r \in ToSet(Relations(plan))}

\* scope_tables and drop_hallucinated_joins expect that every relation has a
\* table's name, and panic where one is a derived table: scope_tables in the
\* query it is asked about and in the bodies of its CTEs.
RECURSIVE Nameless(_)
Nameless(plan) ==
    plan.derived # <<>> \/ \E c \in ToSet(plan.ctes) : Nameless(c.query)
JoinsNameless(plan) == \E j \in ToSet(plan.joins) : \E d \in ToSet(plan.derived) : d.name = j.table

\* collect_tables_in_plan: the qualifiers a subquery uses, its own and those
\* of the queries around it.
RECURSIVE TablesInQuery(_), TablesIn(_)
TablesInQuery(query) ==
    UNION {TablesIn(t) : t \in Trees([query EXCEPT !.group = <<>>, !.having = Absent])}
    \cup UNION {TablesInQuery(c.query) : c \in ToSet(query.ctes)}

TablesIn(tree) ==
    {c.rel : c \in {t \in FixedNodes(tree) : t.is = "column"}}
    \cup UNION {TablesInQuery(q) : q \in QueriesAmong(FixedNodes(tree))}

\* What the clauses of a plan mention, without the conditions of its joins.
Mentioned(plan) ==
    UNION {TablesIn(t) : t \in Trees([plan EXCEPT !.joins = <<>>])} \ {""}

InnerJoin(table, left, right) ==
    [kind |-> "inner", table |-> table, as |-> "", on |-> Compare(left, "=", right)]

\* find_join_for: along a key of a table in scope to the missing one, of which
\* table is left to the hash set, else along the missing one's first such key.
JoinsFor(missing, scope) ==
    LET To(t) == SelectSeq(Schema[t].keys, LAMBDA k : k.table = missing)
        forward == {t \in scope \cap DOMAIN Schema : To(t) # <<>>}
        own == IF missing \in DOMAIN Schema
               THEN SelectSeq(Schema[missing].keys, LAMBDA k : k.table \in scope) ELSE <<>>
    IN IF forward # {}
       THEN {InnerJoin(missing, Column(t, To(t)[1].column), Column(missing, To(t)[1].target))
             : t \in forward}
       ELSE IF own # <<>>
       THEN {InnerJoin(missing, Column(own[1].table, own[1].target),
                       Column(missing, own[1].column))}
       ELSE {}

\* fix_missing_joins, one join at a time: the plans that have one more.
RECURSIVE WithJoin(_)
WithJoin(plan) ==
    {[plan EXCEPT !.joins = Append(@, j)] :
     j \in UNION {JoinsFor(t, ScopeTables(plan)) : t \in Mentioned(plan) \ ScopeTables(plan)}}
    \cup UNION {{[plan EXCEPT !.ctes[i].query = q] : q \in WithJoin(plan.ctes[i].query)}
                : i \in DOMAIN plan.ctes}

\* drop_hallucinated_joins: joins to what the schema does not have, CTEs too.
DropHallucinatedJoins(plan) ==
    [plan EXCEPT !.joins = SelectSeq(@, LAMBDA j : j.table \in DOMAIN Schema)]

-----------------------------------------------------------------------------
(* fix/aggregates.rs and fix/group_by.rs: aggregates and groups.           *)

\* dedup_expr: an aggregate of the same aggregate is replaced by what the
\* inner one is of.
Dedup(tree) ==
    IF /\ tree.is = "call" /\ Aggregate(tree.op) /\ Len(tree.kids) = 1
       /\ tree.kids[1].is = "call" /\ tree.kids[1].op = tree.op /\ tree.kids[1].kids # <<>>
    THEN tree.kids[1].kids[1] ELSE tree

RECURSIVE DedupTree(_), DedupAggregates(_)
DedupTree(tree) ==
    LET Kid(i) == IF Left(tree, i) THEN tree.kids[i] ELSE DedupTree(tree.kids[i])
        inside == [tree EXCEPT !.kids = [i \in DOMAIN @ |-> Kid(i)]]
    IN IF "query" \in DOMAIN tree THEN [inside EXCEPT !.query = DedupAggregates(@)]
       ELSE Dedup(inside)

\* deduplicate_nested_aggregates; the conditions of joins are left alone.
DedupAggregates(plan) ==
    [InClauses(plan, [i \in DOMAIN plan.ctes |-> DedupAggregates(plan.ctes[i].query)],
               [i \in DOMAIN plan.sets |-> DedupAggregates(plan.sets[i].right)],
               DedupTree, DedupTree) EXCEPT !.joins = plan.joins]

\* has_aggregate and has_aggregate_in_pred: window functions and subqueries in
\* expressions have none, those of predicates may.
RECURSIVE HasAggregate(_), SelectsAggregate(_)
HasAggregate(tree) ==
    \/ tree.is = "call" /\ Aggregate(tree.op)
    \/ tree.is \in {"exists", "inquery"} /\ SelectsAggregate(tree.query)
    \/ tree.is # "window" /\ \E kid \in FixedKids(tree) : HasAggregate(kid)

\* plan_has_aggregates
SelectsAggregate(plan) ==
    \E t \in ToSet(Exprs(plan.select)) \cup {plan.having} : HasAggregate(t)

\* collect_non_aggregated_columns, in the order they are selected.
Ungrouped(plan) ==
    LET plain == SelectSeq(Exprs(plan.select), LAMBDA e : e # Star /\ ~HasAggregate(e))
    IN FoldLeft(LAMBDA es, e : IF e \in ToSet(es) THEN es ELSE Append(es, e), <<>>, plain)

\* Mutation: an expression that is selected is not added to the groups.
CompleteGroupColumns(plan) ==
    LET cleaned == SelectSeq(plan.group, LAMBDA e : e.is # "literal")
        missing == SelectSeq(Ungrouped(plan), LAMBDA e : e \notin ToSet(cleaned) /\ e.is = "column")
    IN [plan EXCEPT !.group = cleaned \o missing]

\* GROUP BY without its literals and with every plain projection.
CompleteGroup(plan) ==
    LET cleaned == SelectSeq(plan.group, LAMBDA e : e.is # "literal")
        missing == SelectSeq(Ungrouped(plan), LAMBDA e : e \notin ToSet(cleaned))
    IN [plan EXCEPT !.group = cleaned \o missing]

\* fix_group_by: without aggregates the groups go; without plain projections
\* the CTEs are not reached.
RECURSIVE FixGroups(_)
FixGroups(plan) ==
    IF ~SelectsAggregate(plan) THEN [plan EXCEPT !.group = <<>>]
    ELSE IF Ungrouped(plan) = <<>> THEN CompleteGroup(plan)
    ELSE [CompleteGroup(plan) EXCEPT
             !.ctes = [i \in DOMAIN @ |-> [@[i] EXCEPT !.query = FixGroups(@)]]]
=============================================================================
