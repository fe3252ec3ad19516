----------------------------- MODULE PlanScope -----------------------------
(***************************************************************************)
(* vlorql-core/src/query.rs and the schema snapshot: which sources a query *)
(* has, what it reads, and the tables of the database.  The validators     *)
(* share both.                                                             *)
(***************************************************************************)
EXTENDS PlanTree, FiniteSets

\* SchemaSnapshot: [columns : column -> type,
\*                  keys : Seq([column, table, target])] by table.  The
\* tables and keys have an order, since some searches stop at the first.
CONSTANTS Schema, TableOrder

HasColumn(table, name) == table \in DOMAIN Schema /\ name \in DOMAIN Schema[table].columns

\* An error is what it says and of what.
Error(kind, of) == [kind |-> kind, of |-> of]

\* The sources on other tables than these, in their order.
Without(sources, tables) ==
    LET kept[i \in 0..Len(sources)] ==
            IF i = 0 THEN <<>>
            ELSE IF sources[i].table \in tables THEN kept[i - 1]
            ELSE Append(kept[i - 1], sources[i])
    IN kept[Len(sources)]

\* QueryScope::from_plan: a derived table is taken for the table its alias
\* is the name of.
ScopeOf(plan) == [sources |-> Relations(plan), ctes |-> {c.name : c \in ToSet(plan.ctes)}]

\* extend_with_outer: a subquery also sees the outer sources whose tables are
\* not among its own.
WithOuter(scope, outer) ==
    [sources |-> scope.sources
                     \o Without(outer.sources, {s.table : s \in ToSet(scope.sources)}),
     ctes |-> scope.ctes]

\* resolve_source: the first source with this table or alias, or none.
SourceOf(scope, qualifier) ==
    LET named == {i \in DOMAIN scope.sources :
                     qualifier \in {scope.sources[i].table, scope.sources[i].as}}
    IN {scope.sources[i] : i \in {i \in named : \A j \in named : i <= j}}

\* The sources that are tables of the schema, and whether any is a CTE.
BaseTables(scope) ==
    {s.table : s \in {s \in ToSet(scope.sources) :
                         s.table \in DOMAIN Schema /\ s.table \notin scope.ctes}}
ReadsCte(scope) == \E s \in ToSet(scope.sources) : s.table \in scope.ctes

\* Mutation: what comes after the groups is not read.
ReadTreesToGroups(plan) == Trees([plan EXCEPT !.having = Absent, !.order = <<>>])

\* A CROSS JOIN's condition is not rendered, and not looked at; neither is a
\* DISTINCT ON, which is rendered.
ReadTrees(plan) == ConditionedTrees(plan)

\* collect_plan_references
References(plan) == UNION {AllColumns(t) : t \in ReadTrees(plan)}
HasStar(plan) == \E p \in ToSet(plan.select) : p.expr = Star
=============================================================================
