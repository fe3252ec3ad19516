---------------------------- MODULE ParserFixes ----------------------------
(***************************************************************************)
(* What the parser does to a plan it has built: fix/fixer, validate and    *)
(* optimize under vlorql-llm/src/parser_v2.  A column's name stands for    *)
(* every name that contains it, and an alias the fixes make up is written  *)
(* by ToString.                                                            *)
(***************************************************************************)
EXTENDS PlanTree, FunctionRegistry, TLC

RECURSIVE AggregateExpr(_)
AggregateExpr(e) ==
    \/ e.is = "call" /\ Known(e.op) /\ Registry[e.op].kind = "aggregate"
    \/ e.is = "binary" /\ \E kid \in ToSet(e.kids) : AggregateExpr(kid)

IsColumn(e) == e.is = "column"

-----------------------------------------------------------------------------
(* fix                                                                     *)

LimitZero(plan) == IF plan.limit = 0 THEN [plan EXCEPT !.limit = NoLimit] ELSE plan

EmptySelect(plan) ==
    IF plan.select = <<>> THEN [plan EXCEPT !.select = <<[expr |-> Star, as |-> ""]>>] ELSE plan

SumColumns ==
    {"price", "total", "amount", "quantity", "cost", "revenue", "salary", "budget", "fee", "rate",
     "score", "value", "count"}

\* Groups without an aggregate get one, over the first column that is not
\* grouped and sounds like a number.
MissingAggregate(plan) ==
    LET exprs == Exprs(plan.select)
        summed == SelectSeq(exprs, LAMBDA e : IsColumn(e) /\ e \notin ToSet(plan.group)
                                              /\ e.name \in SumColumns)
        added == IF summed = <<>> THEN [expr |-> Call("COUNT", <<Star>>), as |-> "count"]
                 ELSE LET name == Head(summed).name
                      IN [expr |-> Call("SUM", <<Column("", name)>>), as |-> "sum_" \o name]
    IN IF plan.group = <<>> \/ \E e \in ToSet(exprs) : AggregateExpr(e) THEN plan
       ELSE [plan EXCEPT !.select = <<added>> \o @]

\* Aggregates beside bare columns are grouped by these.
MissingGroupBy(plan) ==
    IF plan.group = <<>> /\ \E e \in ToSet(Exprs(plan.select)) : AggregateExpr(e)
    THEN [plan EXCEPT !.group = SelectSeq(Exprs(plan.select), IsColumn)]
    ELSE plan

RECURSIVE UsedAliases(_)
UsedAliases(plan) ==
    {r.as : r \in ToSet(Relations(plan))}
    \cup UNION {{c.name} \cup UsedAliases(c.query) : c \in ToSet(plan.ctes)}

\* t1, t2, ... for the relations without an alias.  (Those of CTEs are given
\* with the other fixes of the CTE: they depend on it alone.)
MissingAliases(plan) ==
    LET relations == Relations(plan)
        places == 1..Len(relations)
        used == UsedAliases(plan)
        fresh == SelectSeq([n \in 1..Len(relations) + Cardinality(used) |-> "t" \o ToString(n)],
                           LAMBDA as : as \notin used)
        Alias(i) == IF relations[i].as # "" THEN relations[i].as
                    ELSE fresh[Cardinality({j \in places : j <= i /\ relations[j].as = ""})]
    IN [plan EXCEPT !.from.as = Alias(1),
                    !.joins = [i \in DOMAIN @ |-> [@[i] EXCEPT !.as = Alias(i + 1)]]]

\* What each alias of the SELECT list stands for; of a column, its name only.
AliasMap(plan) ==
    LET Meaning(e) == IF IsColumn(e) THEN Column("", e.name) ELSE e
    IN FoldLeft(LAMBDA map, p : map @@ (IF p.as = "" THEN <<>> ELSE p.as :> Meaning(p.expr)),
                <<>>, plan.select)

\* The first alias met in an expression, as {alias}.
RECURSIVE AliasMatch(_, _)
AliasMatch(e, map) ==
    IF IsColumn(e) THEN {e.name} \cap DOMAIN map
    ELSE IF e.is \notin {"call", "binary"} THEN {}
    ELSE LET found == SelectSeq(e.kids, LAMBDA kid : AliasMatch(kid, map) # {})
         IN IF found = <<>> THEN {} ELSE AliasMatch(Head(found), map)

\* A term that mentions an alias becomes what the alias stands for, whole.
OrderByAliases(plan) ==
    LET map == AliasMap(plan)
        Resolved(e) == IF AliasMatch(e, map) = {} THEN e
                       ELSE map[CHOOSE as \in AliasMatch(e, map) : TRUE]
    IN [plan EXCEPT !.order = [i \in DOMAIN @ |-> [@[i] EXCEPT !.expr = Resolved(@)]]]

RECURSIVE Unaliased(_, _), WhereAliasRefs(_)
Unaliased(tree, map) ==
    CASE IsColumn(tree) -> IF tree.name \in DOMAIN map THEN map[tree.name] ELSE tree
      [] tree.is \in {"exists", "subquery"} -> [tree EXCEPT !.query = WhereAliasRefs(@)]
      [] OTHER -> [tree EXCEPT !.kids = [i \in DOMAIN @ |-> Unaliased(@[i], map)]]

\* Not asked of the subqueries of a query that has no alias itself.
WhereAliasRefs(plan) ==
    LET map == AliasMap(plan)
    IN IF map = <<>> THEN plan
       ELSE [plan EXCEPT !.where = Unaliased(@, map), !.having = Unaliased(@, map)]

RECURSIVE ContainsAggregate(_)
ContainsAggregate(pred) ==
    \E kid \in ToSet(pred.kids) :
        IF IsPredicate(kid) THEN ContainsAggregate(kid) ELSE AggregateExpr(kid)

\* One aggregate in WHERE takes the whole of it to HAVING.
WhereAggregates(plan) ==
    IF ~ContainsAggregate(plan.where) THEN plan
    ELSE [plan EXCEPT !.where = Absent,
                      !.having = IF @ = Absent THEN plan.where ELSE And(plan.where, @)]

\* fix_plan: neither subqueries nor the right of a set operation are fixed.
RECURSIVE FixPlan(_)
FixPlan(plan) ==
    LET selected == MissingGroupBy(MissingAggregate(EmptySelect(LimitZero(plan))))
        named == WhereAliasRefs(OrderByAliases(MissingAliases(selected)))
    IN [WhereAggregates(named) EXCEPT
           !.ctes = [i \in DOMAIN @ |-> [@[i] EXCEPT !.query = FixPlan(@)]]]

-----------------------------------------------------------------------------
(* validate                                                                *)

DummyCondition(on) ==
    /\ on.is = "compare"
    /\ on.kids[1].is = "literal" /\ on.kids[1].json = "boolean" /\ on.kids[1].n = 1
    /\ on.kids[2].is = "literal"

\* A subquery with groups counts as an aggregate here.
RECURSIVE Aggregating(_)
Aggregating(e) ==
    \/ AggregateExpr(e)
    \/ e.is = "binary" /\ \E kid \in ToSet(e.kids) : Aggregating(kid)
    \/ e.is = "subquery" /\ e.query.group # <<>>

\* The names of the errors of a plan, and of a tree.
RECURSIVE ValidatePlan(_), ValidateTree(_)
ValidateTree(tree) ==
    {"invalid_expression" : t \in {t \in {tree} : IsColumn(t) /\ t.name = ""}}
    \cup {"invalid_predicate" : t \in {t \in {tree} : t.is = "like" /\ t.pattern = ""}}
    \cup (IF "query" \in DOMAIN tree THEN ValidatePlan(tree.query) ELSE {})
    \cup UNION {ValidateTree(kid) : kid \in ToSet(tree.kids)}

ValidatePlan(plan) ==
    LET Check(ok, error) == IF ok THEN {} ELSE {error}
        dummies == {j \in ToSet(plan.joins) : j.kind # "cross" /\ DummyCondition(j.on)}
        conditions == {j.on : j \in {j \in ToSet(plan.joins) \ dummies : j.kind # "cross"}}
        trees == ToSet(Exprs(plan.select)) \cup {plan.where, plan.having} \cup ToSet(plan.group)
                 \cup ToSet(Exprs(plan.order)) \cup conditions
    IN Check(plan.select # <<>>, "empty_select")
       \cup Check(plan.from.table # "", "missing_from")
       \cup Check(plan.limit # 0, "invalid_limit")
       \cup Check(dummies = {} /\ \A j \in ToSet(plan.joins) : j.table # "",
                  "missing_join_condition")
       \cup Check(plan.group = <<>> \/ \E e \in ToSet(Exprs(plan.select)) : Aggregating(e),
                  "missing_aggregate")
       \cup UNION {ValidateTree(tree) : tree \in trees}
       \cup UNION {Check(c.name # "", "cte_error") \cup ValidatePlan(c.query)
                      : c \in ToSet(plan.ctes)}

-----------------------------------------------------------------------------
(* optimize                                                                *)

\* predicates_equal: subqueries are never the same.
RECURSIVE HasQuery(_)
HasQuery(tree) == "query" \in DOMAIN tree \/ \E kid \in ToSet(tree.kids) : HasQuery(kid)
PredicatesEqual(p, q) == p = q /\ ~HasQuery(p)

\* fold_constant_comparison: numbers by any comparison, other literals by
\* equality, and only with their own kind.
FoldConstant(pred) ==
    LET l == pred.kids[1]
        r == pred.kids[2]
        comparable == /\ l.is = "literal" /\ r.is = "literal" /\ l.json = r.json
                      /\ \/ l.json = "int" /\ pred.op \notin {"like", "ilike"}
                         \/ l.json \in {"boolean", "string"} /\ pred.op \in {"=", "<>"}
    IN IF ~comparable THEN pred
       ELSE Always(CASE pred.op = "=" -> l.n = r.n
                     [] pred.op = "<>" -> l.n # r.n
                     [] pred.op = "<" -> l.n < r.n
                     [] pred.op = "<=" -> l.n <= r.n
                     [] pred.op = ">" -> l.n > r.n
                     [] pred.op = ">=" -> l.n >= r.n)

\* simplify_trivial_comparison: columns of one name, of whatever tables.
TrivialComparison(pred) ==
    LET l == pred.kids[1]
        r == pred.kids[2]
    IN IF pred.is = "compare" /\ IsColumn(l) /\ IsColumn(r) /\ l.name = r.name
       THEN Always(pred.op \in {"=", ">=", "<="}) ELSE pred

\* Mutation: what is absorbed and what is neutral are confused for OR.
SimplifyConnectiveConfused(pred) ==
    LET l == pred.kids[1]
        r == pred.kids[2]
    IN IF l = Always(TRUE) THEN r ELSE IF r = Always(TRUE) THEN l
       ELSE IF Always(FALSE) \in {l, r} THEN Always(FALSE)
       ELSE IF PredicatesEqual(l, r) THEN l ELSE pred

\* simplify_and_true, simplify_and_false, simplify_duplicate_and and the same
\* for OR, on simplified operands.
SimplifyConnective(pred) ==
    LET l == pred.kids[1]
        r == pred.kids[2]
        neutral == Always(pred.is = "and")
        absorbing == Always(pred.is = "or")
    IN IF l = neutral THEN r ELSE IF r = neutral THEN l
       ELSE IF absorbing \in {l, r} THEN absorbing
       ELSE IF PredicatesEqual(l, r) THEN l ELSE pred

\* predicate::simplify; a CTE or subquery in it is left alone.
RECURSIVE Simplify(_)
Simplify(pred) ==
    LET under == [pred EXCEPT !.kids = [i \in DOMAIN @ |-> Simplify(@[i])]]
    IN CASE pred.is = "compare" -> TrivialComparison(FoldConstant(pred))
         [] pred.is \in {"and", "or"} -> SimplifyConnective(under)
         [] pred.is = "not" -> IF under.kids[1].is = "not" THEN under.kids[1].kids[1] ELSE under
         [] OTHER -> pred

\* remove_duplicate_columns: by table and name, whatever the alias.
DedupColumns(select) ==
    LET Repeats(i) == /\ IsColumn(select[i].expr)
                      /\ \E j \in 1..i - 1 : select[j].expr = select[i].expr
        kept == SetToSortSeq({i \in DOMAIN select : ~Repeats(i)}, <)
    IN [n \in DOMAIN kept |-> select[kept[n]]]

RECURSIVE OptimizePlan(_)
OptimizePlan(plan) ==
    [plan EXCEPT
        !.where = Simplify(@), !.having = Simplify(@),
        !.joins = [i \in DOMAIN @ |-> [@[i] EXCEPT !.on = Simplify(@)]],
        !.select = DedupColumns(@),
        !.ctes = [i \in DOMAIN @ |-> [@[i] EXCEPT !.query = OptimizePlan(@)]]]
=============================================================================
