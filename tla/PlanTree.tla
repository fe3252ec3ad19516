------------------------------ MODULE PlanTree ------------------------------
(***************************************************************************)
(* Query plans as the optimizer and the validators see them               *)
(* (vlorql-core/src/schema and optimizer/{analyze,visitor}.rs).            *)
(* Expressions and predicates are trees of records, every node with the    *)
(* sequence `kids` of the trees under it.  A plan is                       *)
(*                                                                         *)
(*   [ctes    : Seq([name, query : plan]),                                 *)
(*    derived : Seq([name, query : plan]),                                 *)
(*    select  : Seq([expr, as]),          as = "" for no alias             *)
(*    from    : [table, as],                                               *)
(*    joins   : Seq([kind, table, as, on]),                                *)
(*    where, having : predicate or Absent,                                 *)
(*    group   : Seq(expression),                                           *)
(*    order   : Seq([expr, desc]),                                         *)
(*    distinct : BOOLEAN, distinctOn : Seq(expression),                    *)
(*    sets    : Seq([op, right : plan]),  the set operation, if any        *)
(*    limit   : Nat]                      limit = NoLimit for none         *)
(*                                                                         *)
(* A derived table is a relation whose `table` is the alias that `derived` *)
(* has a query for.  Of the operators those are left out that behave like  *)
(* one that is there, and of a window function its frame.                  *)
(***************************************************************************)
EXTENDS Integers, Sequences, SequencesExt

CONSTANT MaxDepth    \* how deep trees, and queries in queries, nest
ASSUME MaxDepthAssumption == MaxDepth \in Nat

NoLimit == -1

\* Expressions.  A column without a qualifier has rel = "".
Column(rel, name) == [is |-> "column", rel |-> rel, name |-> name, kids |-> <<>>]
\* `type` is the declared one, `json` that of the value; an integer that is no
\* i64 is a "huge" one.
Labelled(type, json, n) ==
    [is |-> "literal", type |-> type, json |-> json, n |-> n, kids |-> <<>>]
Literal(type, n) == Labelled(type, type, n)
Number(n) == Literal("int", n)
Truth(b) == Literal("boolean", IF b THEN 1 ELSE 0)
NullLiteral == Literal("null", 0)
Star == [is |-> "star", kids |-> <<>>]
Binary(left, op, right) == [is |-> "binary", op |-> op, kids |-> <<left, right>>]
Call(name, args) == [is |-> "call", op |-> name, kids |-> args]
Case(when, then, otherwise) ==
    [is |-> "case", operand |-> FALSE, kids |-> <<when, then, otherwise>>]
\* `over` has what the rows are partitioned and ordered by.
Window(name, arg, over) == [is |-> "window", op |-> name, kids |-> <<arg>> \o over]
SubQuery(query) == [is |-> "subquery", query |-> query, kids |-> <<>>]

\* Predicates.
Compare(left, op, right) == [is |-> "compare", op |-> op, kids |-> <<left, right>>]
And(left, right) == [is |-> "and", kids |-> <<left, right>>]
Or(left, right) == [is |-> "or", kids |-> <<left, right>>]
Not(child) == [is |-> "not", kids |-> <<child>>]
IsNull(expr) == [is |-> "isnull", kids |-> <<expr>>]
In(expr, values) == [is |-> "in", kids |-> <<expr>> \o values]
InQuery(expr, query) == [is |-> "inquery", query |-> query, kids |-> <<expr>>]
Exists(query) == [is |-> "exists", query |-> query, kids |-> <<>>]
Always(b) == [is |-> IF b THEN "true" ELSE "false", kids |-> <<>>]
Absent == [is |-> "absent", kids |-> <<>>]

IsPredicate(tree) ==
    tree.is \in {"compare", "between", "in", "inquery", "like", "isnull", "exists", "and", "or",
                 "not", "true", "false", "absent"}

\* The name a relation goes by: its alias, or its table's name.
Key(relation) == IF relation.as = "" THEN relation.table ELSE relation.as

\* The FROM clause: `from`, then what each join adds.
Relations(plan) ==
    <<plan.from>> \o [i \in DOMAIN plan.joins |->
                         [table |-> plan.joins[i].table, as |-> plan.joins[i].as]]

\* The name a projection is read by.
OutputName(p) == IF p.as = "" /\ p.expr.is = "column" THEN p.expr.name ELSE p.as

Combine(conjuncts) ==
    IF conjuncts = <<>> THEN Absent
    ELSE FoldLeft(And, Head(conjuncts), Tail(conjuncts))

-----------------------------------------------------------------------------
(* Clauses and trees.                                                      *)

\* The items of a clause list.
Exprs(items) == [i \in DOMAIN items |-> items[i].expr]

\* The trees of a plan's clauses, with the conditions of its joins, with
\* those of them the compiler writes (a cross join has no condition), and with
\* the DISTINCT ON it writes before them.
ClauseTrees(plan) ==
    ToSet(Exprs(plan.select)) \cup ToSet(plan.group) \cup ToSet(Exprs(plan.order))
        \cup {plan.where, plan.having}
Trees(plan) == ClauseTrees(plan) \cup {j.on : j \in ToSet(plan.joins)}
ConditionedTrees(plan) ==
    ClauseTrees(plan) \cup {j.on : j \in {j \in ToSet(plan.joins) : j.kind # "cross"}}
WrittenTrees(plan) ==
    ConditionedTrees(plan) \cup (IF plan.distinct THEN ToSet(plan.distinctOn) ELSE {})

\* A tree and what is in it where Into(t) says what of t to go into.
Reached(tree, Into(_)) ==
    LET reached[n \in 0..MaxDepth] ==
            IF n = 0 THEN {tree}
            ELSE LET before == reached[n - 1]
                 IN before \cup UNION {Into(t) : t \in before}
    IN reached[MaxDepth]

\* A tree and all that is in it; what is in a query in it is not.
Nodes(tree) == Reached(tree, LAMBDA t : ToSet(t.kids))

\* The stages look for queries, and for calls with too many arguments, in
\* the operands of operators, functions and predicates: not in a CASE, in a
\* window function or among the values of an IN.
WalkedKids(t) ==
    IF t.is \in {"case", "window"} THEN {}
    ELSE IF t.is = "in" THEN {t.kids[1]} ELSE ToSet(t.kids)
Walked(tree) == Reached(tree, WalkedKids)

\* Every column of a tree, however deep, the calls and the queries.
AllColumns(tree) == {t \in Nodes(tree) : t.is = "column"}
CallsAmong(nodes) == {t \in nodes : t.is = "call"}
Calls(tree) == CallsAmong(Nodes(tree))
QueriesAmong(nodes) == {t.query : t \in {t \in nodes : t.is \in {"exists", "inquery", "subquery"}}}
Subqueries(tree) == QueriesAmong(Nodes(tree))
WalkedQueries(tree) == QueriesAmong(Walked(tree))

\* ColumnCollector looks at an expression, and not at what is inside it.
ColumnsOf(expr) == IF expr.is = "column" THEN {expr} ELSE {}

\* A plan with every expression E(e) and every predicate P(p), and with the
\* bodies of its CTEs, and what is right of its set operation, taken from
\* `bodies` and `rights`.
InClauses(plan, bodies, rights, E(_), P(_)) ==
    LET Items(items) == [i \in DOMAIN items |-> [items[i] EXCEPT !.expr = E(@)]]
    IN [plan EXCEPT
           !.ctes = [i \in DOMAIN @ |-> [@[i] EXCEPT !.query = bodies[i]]],
           !.sets = [i \in DOMAIN @ |-> [@[i] EXCEPT !.right = rights[i]]],
           !.select = Items(@),
           !.joins = [i \in DOMAIN @ |-> [@[i] EXCEPT !.on = P(@)]],
           !.where = P(@),
           !.group = [i \in DOMAIN @ |-> E(@[i])],
           !.having = P(@),
           !.order = Items(@)]
=============================================================================
