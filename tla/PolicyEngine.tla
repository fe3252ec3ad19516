---------------------------- MODULE PolicyEngine ----------------------------
(***************************************************************************)
(* vlorql-core/src/policy: which tables and columns a plan may name, and   *)
(* the row filters that go into its WHERE (see ColumnAccess).              *)
(***************************************************************************)
EXTENDS PlanScope, ColumnAccess

\* validate_column_policy
ColumnPolicy(policy, table, column) ==
    IF DenialReason(policy, table, column) = "" THEN {}
    ELSE {Error("ColumnDenied", <<table, column>>)}

\* validate_table_access
TableAccess(policy, table) ==
    IF table \in DOMAIN policy.tables /\ ~policy.tables[table].allowed
    THEN {Error("TableDenied", table)} ELSE {}

\* validate_star: a star reads every column of every table.
StarErrors(policy, scope) ==
    UNION {UNION {ColumnPolicy(policy, t, c) : c \in DOMAIN Schema[t].columns}
           : t \in BaseTables(scope)}

\* validate_existing_column, of a qualified column whose source is a table.
QualifiedErrors(policy, column, source) ==
    IF HasColumn(source.table, column.name) THEN ColumnPolicy(policy, source.table, column.name)
    ELSE {Error("ColumnNotFound", <<source.table, column.name>>)}

\* An unqualified column is checked against every table it may be of; if it
\* is of none, a CTE may have it.
UnqualifiedErrors(policy, column, scope) ==
    LET candidates == {t \in BaseTables(scope) : HasColumn(t, column.name)}
    IN IF candidates # {} THEN UNION {ColumnPolicy(policy, t, column.name) : t \in candidates}
       ELSE IF ReadsCte(scope) THEN {}
       ELSE {Error("ColumnNotFound", <<scope.sources[1].table, column.name>>)}

\* validate_column_reference
PolicyColumn(policy, column, scope) ==
    IF column.rel = "" THEN UnqualifiedErrors(policy, column, scope)
    ELSE IF SourceOf(scope, column.rel) = {} THEN {Error("TableNotInScope", column.rel)}
    ELSE UNION {QualifiedErrors(policy, column, s) :
                s \in {s \in SourceOf(scope, column.rel) : s.table \in BaseTables(scope)}}

\* Mutation: a subquery is not looked into.
NoQueries(plan) == {}

\* validate_subqueries_in_plan, _in_expression and _in_predicate
PolicyQueries(plan) == UNION {WalkedQueries(t) : t \in Trees(plan)}

\* validate_plan_inner, of one query
QueryErrors(policy, query, scope) ==
    {Error("TableNotFound", s.table) : s \in {s \in ToSet(scope.sources) :
         s.table \notin scope.ctes /\ s.table \notin DOMAIN Schema}}
    \cup (UNION {TableAccess(policy, t) : t \in BaseTables(scope)})
    \cup (IF HasStar(query) THEN StarErrors(policy, scope) ELSE {})
    \cup UNION {PolicyColumn(policy, c, scope) : c \in References(query)}

\* The queries validate_plan_inner calls itself with: the bodies of the CTEs,
\* which see nothing outside, and the subqueries, which do.  Derived tables and
\* what is right of a set operation are not among them.
InnerQueries(query, scope) ==
    {[query |-> c.query, scope |-> ScopeOf(c.query)] : c \in ToSet(query.ctes)}
    \cup {[query |-> q, scope |-> WithOuter(ScopeOf(q), scope)] : q \in PolicyQueries(query)}

QueriesIn(plan) ==
    LET reached[n \in 0..MaxDepth] ==
            IF n = 0 THEN {[query |-> plan, scope |-> ScopeOf(plan)]}
            ELSE LET before == reached[n - 1]
                 IN before \cup UNION {InnerQueries(s.query, s.scope) : s \in before}
    IN reached[MaxDepth]

\* validate
PolicyErrors(policy, plan) ==
    UNION {QueryErrors(policy, s.query, s.scope) : s \in QueriesIn(plan)}

-----------------------------------------------------------------------------
(* Row filters.                                                            *)

\* row_filter_matches_sources: the filter names no table, or only sources.
Applies(filter, sources) ==
    \A c \in AllColumns(filter) :
        c.rel # "" => \E s \in ToSet(sources) : c.rel \in {s.table, s.as}

\* Mutation: only the table in FROM is filtered.
RowFiltersOfFrom(policy, plan) ==
    SelectSeq(IF plan.from.table \in DOMAIN policy.tables
              THEN <<policy.tables[plan.from.table].filter>> ELSE <<>>, LAMBDA f : f # Absent)

\* apply_row_filters: what the tables of FROM and the joins ask for, then
\* the filters of the configuration that apply.
RowFilters(policy, plan) ==
    LET FilterOf(source) == IF source.table \in DOMAIN policy.tables
                            THEN policy.tables[source.table].filter ELSE Absent
        sources == Relations(plan)
    IN SelectSeq([i \in DOMAIN sources |-> FilterOf(sources[i])], LAMBDA f : f # Absent)
       \o SelectSeq(policy.filters, LAMBDA f : Applies(f, sources))
=============================================================================
