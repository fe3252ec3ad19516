---------------------------- MODULE RewriteRules ----------------------------
(***************************************************************************)
(* The rules of the rewrite pipeline, in the order in which QueryOptimizer *)
(* runs them: constant folding, predicate pushdown and column pruning      *)
(* (optimizer/{fold,pushdown}.rs and optimizer/prune/mod.rs).              *)
(***************************************************************************)
EXTENDS PlanVisitors

-----------------------------------------------------------------------------
(* fold.rs: constants are computed, identities applied, and AND, OR and    *)
(* NOT over constant predicates simplified.  A constant predicate is       *)
(* written as a comparison of a boolean literal with itself.               *)

IsNumber(expr, n) == expr = Number(n)
Literals(l, r) == l.is = "literal" /\ r.is = "literal"

\* fold_arithmetic on exact numbers
Computed(l, op, r) ==
    Number(CASE op = "+" -> l.n + r.n [] op = "-" -> l.n - r.n [] op = "*" -> l.n * r.n)

\* An operand at a time, from the leaves up; a call folds its arguments, a
\* scalar subquery its clauses (Fold, below), a CASE and a window function
\* nothing.
RECURSIVE FoldExpression(_), Fold(_)
FoldExpression(expr) ==
    LET folded == [expr EXCEPT !.kids = [i \in DOMAIN @ |-> FoldExpression(@[i])]]
        l == folded.kids[1]
        r == folded.kids[2]
    IN IF expr.is \in {"case", "window"} THEN expr
       ELSE IF expr.is = "subquery" THEN [expr EXCEPT !.query = Fold(@)]
       ELSE IF expr.is # "binary" THEN folded
       ELSE CASE expr.op \in {"+", "-"} /\ IsNumber(r, 0) -> l
              [] expr.op = "*" /\ IsNumber(r, 1) -> l
              [] expr.op = "+" /\ IsNumber(l, 0) -> r
              [] expr.op = "*" /\ IsNumber(l, 1) -> r
              [] Literals(l, r) /\ l.type = "int" /\ r.type = "int" -> Computed(l, expr.op, r)
              [] OTHER -> folded

BoolPredicate(b) == Compare(Truth(b), "=", Truth(b))

\* predicate_is_bool_literal: {TRUE}, {FALSE} or, when it cannot tell, {}.
\* Two equal numbers are not told: as_bool of a number is None.
BoolLiteral(pred) ==
    LET l == pred.kids[1]
        r == pred.kids[2]
    IN CASE ~(pred.is = "compare" /\ pred.op = "=" /\ Literals(l, r)) -> {}
         [] l = r /\ l.type = "boolean" -> {l.n = 1}
         [] l # r /\ l.type = "int" /\ r.type = "int" -> {FALSE}
         [] OTHER -> {}

\* Mutation: the sides are judged before they are folded.
FoldConnectiveUnfolded(pred, l, r) ==
    LET decides == pred.is = "or"
        Is(side, b) == BoolLiteral(side) = {b}
    IN CASE Is(pred.kids[1], decides) \/ Is(pred.kids[2], decides) -> BoolPredicate(decides)
         [] Is(pred.kids[1], ~decides) -> r
         [] Is(pred.kids[2], ~decides) -> l
         [] OTHER -> [pred EXCEPT !.kids = <<l, r>>]

\* fold_and_or_short_circuit: the constant side decides, or disappears.
FoldConnective(pred, l, r) ==
    LET decides == pred.is = "or"
        Is(side, b) == BoolLiteral(side) = {b}
    IN CASE Is(l, decides) \/ Is(r, decides) -> BoolPredicate(decides)
         [] Is(l, ~decides) -> r
         [] Is(r, ~decides) -> l
         [] OTHER -> [pred EXCEPT !.kids = <<l, r>>]

\* Double negations cancel; a comparison of two constants is decided.
FoldNot(child) ==
    LET l == child.kids[1]
        r == child.kids[2]
    IN CASE child.is = "not" -> l
         [] child.is = "compare" /\ Literals(l, r) /\ l.type = r.type /\ l.type # "null" ->
                BoolPredicate(~(IF child.op = "=" THEN l.n = r.n ELSE l.n < r.n))
         [] OTHER -> Not(child)

RECURSIVE FoldPredicate(_)
FoldPredicate(pred) ==
    LET folded == [i \in DOMAIN pred.kids |-> FoldPredicate(pred.kids[i])]
    IN CASE ~IsPredicate(pred) -> FoldExpression(pred)
         [] pred.is \in {"and", "or"} -> FoldConnective(pred, folded[1], folded[2])
         [] pred.is = "not" -> FoldNot(folded[1])
         [] pred.is = "isnull" /\ folded[1].is = "literal" ->
                BoolPredicate(folded[1] = NullLiteral)
         [] OTHER -> [pred EXCEPT !.kids = folded]

\* default_fold_plan: every clause, the bodies of the CTEs and what is right
\* of a set operation, but no derived table and no DISTINCT ON.
Fold(plan) ==
    InClauses(plan, [i \in DOMAIN plan.ctes |-> Fold(plan.ctes[i].query)],
              [i \in DOMAIN plan.sets |-> Fold(plan.sets[i].right)],
              FoldExpression, FoldPredicate)

-----------------------------------------------------------------------------
(* pushdown.rs: conjuncts of WHERE that read one CTE move into that CTE,   *)
(* or on into the CTE that one reads from.                                 *)

\* Mutation: only the side a LEFT or RIGHT join names is protected.
ProtectedForgetsFull(plan) ==
    UNION {CASE plan.joins[i].kind = "left" -> {Key(plan.joins[i])}
             [] plan.joins[i].kind = "right" ->
                    {Key(plan.from)} \cup {Key(plan.joins[j]) : j \in 1..i - 1}
             [] OTHER -> {} : i \in DOMAIN plan.joins}

\* outer_join_protected_aliases: the null-supplying sides of outer joins.
Protected(plan) ==
    UNION {(IF plan.joins[i].kind \in {"left", "full"} THEN {Key(plan.joins[i])} ELSE {})
           \cup (IF plan.joins[i].kind \in {"right", "full"}
                 THEN {Key(plan.from)} \cup {Key(plan.joins[j]) : j \in 1..i - 1}
                 ELSE {}) : i \in DOMAIN plan.joins}

\* cte_relation_aliases: what each visible name resolves to, CTEs only.  Of
\* two relations with the same name the later one counts.
Aliases(plan, names) ==
    LET from == IF plan.from.table \in names THEN Key(plan.from) :> plan.from.table ELSE <<>>
    IN FoldLeft(LAMBDA map, j : IF j.table \in names THEN (Key(j) :> j.table) @@ map ELSE map,
                from, plan.joins)

\* Mutation: a conjunct over several relations goes to one of them.
TargetOfAny(conjunct, aliases, protected) ==
    {aliases[k] : k \in {k \in ReferencedTables(conjunct) \cap DOMAIN aliases : k \notin protected}}

\* single_cte_target: the CTE a conjunct may move into, or {}.
Target(conjunct, aliases, protected) ==
    LET tables == ReferencedTables(conjunct)
    IN {aliases[k] : k \in {k \in DOMAIN aliases \ protected : tables = {k} /\ k # ""}}

\* strip_qualifiers and inject_into_cte
Strip(conjunct) == Requalify(conjunct, AnyName, "")

Inject(query, conjuncts) ==
    IF conjuncts = <<>> THEN query
    ELSE [query EXCEPT !.where =
             Combine(Split(@) \o [i \in DOMAIN conjuncts |-> Strip(conjuncts[i])])]

\* Phase 1 for one CTE that receives conjuncts: those that go on into the CTE
\* it reads from (cascade), requalified, and those that stay (local).
Passed(cte, conjuncts, names) ==
    LET inner == cte.query.from
        Translated(c) == Requalify(c, cte.name, Key(inner))
        GoesOn(c) == /\ inner.table \in names
                     /\ Target(Translated(c), Key(inner) :> inner.table,
                               Protected(cte.query)) # {}
        onward == SelectSeq(conjuncts, LAMBDA c : GoesOn(c))
    IN [to |-> inner.table,
        cascade |-> [i \in DOMAIN onward |-> Translated(onward[i])],
        local |-> SelectSeq(conjuncts, LAMBDA c : ~GoesOn(c))]

\* Phase 2: of several CTEs that pass conjuncts on to the same one, the first
\* is served, since `find` stops there.
Distribute(ctes, pushed) ==
    LET names == {ctes[i].name : i \in DOMAIN ctes}
        passed == [i \in DOMAIN ctes |-> Passed(ctes[i], pushed[ctes[i].name], names)]
        First(name) == SelectInSeq(passed, LAMBDA p : p.to = name /\ p.cascade # <<>>)
        Cascaded(name) == IF First(name) = 0 THEN <<>> ELSE passed[First(name)].cascade
    IN [i \in DOMAIN ctes |->
           [ctes[i] EXCEPT !.query =
               Inject(Inject(@, Cascaded(ctes[i].name)), passed[i].local)]]

\* push_plan.  The bodies of the CTEs come first.
RECURSIVE PushDown(_)
PushDown(plan) ==
    LET ctes == [i \in DOMAIN plan.ctes |-> [plan.ctes[i] EXCEPT !.query = PushDown(@)]]
        names == {c.name : c \in ToSet(ctes)}
        TargetOf(c) == Target(c, Aliases(plan, names), Protected(plan))
        conjuncts == Split(plan.where)
        pushed == [name \in names |-> SelectSeq(conjuncts, LAMBDA c : TargetOf(c) = {name})]
        kept == SelectSeq(conjuncts, LAMBDA c : TargetOf(c) = {})
    IN IF kept = conjuncts THEN [plan EXCEPT !.ctes = ctes]
       ELSE [plan EXCEPT !.where = Combine(kept), !.ctes = Distribute(ctes, pushed)]

-----------------------------------------------------------------------------
(* prune/mod.rs without a schema, as QueryOptimizer builds it: drop the    *)
(* output columns of CTEs that no reader mentions.                         *)

Clauses(plan) == UNION {ColumnsIn(t) : t \in Trees([plan EXCEPT !.select = <<>>])}

\* columns_used_by_cte_body: the qualified columns, and what a star reads.
UsedByBody(body) ==
    {c \in Clauses(body) \cup UNION {ColumnsOf(p.expr) : p \in ToSet(body.select)} : c.rel # ""}

\* Mutation: what the clauses read is forgotten.
UsedBySelect(plan) ==
    UNION {IF p.expr.is = "star" THEN {Column("", "*")} ELSE ColumnsOf(p.expr)
           : p \in ToSet(plan.select)}

\* used_columns: what the outer query and the bodies of its CTEs mention.
UsedColumns(plan) ==
    UNION {IF p.expr.is = "star" THEN {Column("", "*")} ELSE ColumnsOf(p.expr)
           : p \in ToSet(plan.select)}
    \cup Clauses(plan)
    \cup UNION {UsedByBody(c.query) : c \in ToSet(plan.ctes)}

\* aggregate_args: the columns calls have as arguments, wherever the fold of
\* visitor.rs goes.
RECURSIVE Arguments(_), ArgumentsIn(_)
Arguments(tree) ==
    LET own == IF tree.is = "call" THEN UNION {ColumnsOf(kid) : kid \in ToSet(tree.kids)} ELSE {}
    IN CASE tree.is \in {"case", "window"} -> {}
         [] tree.is = "subquery" -> ArgumentsIn(tree.query)
         [] OTHER -> own \cup UNION {Arguments(kid) : kid \in ToSet(tree.kids)}
ArgumentsIn(query) ==
    UNION {Arguments(t) : t \in Trees(query)}
    \cup UNION {ArgumentsIn(q) : q \in {c.query : c \in ToSet(query.ctes)}
                                      \cup {s.right : s \in ToSet(query.sets)}}

\* group_required_columns: what a grouped body needs whoever reads it, and
\* the arguments of the aggregates that are read.
GroupRequired(query, name, used) ==
    IF query.group = <<>> /\ query.having = Absent THEN {}
    ELSE {c.name : c \in UNION {ColumnsIn(t)
                   : t \in ToSet(query.group) \cup {query.having} \cup ToSet(Exprs(query.order))}
             \cup UNION {Arguments(p.expr) : p \in {p \in ToSet(query.select) :
                            Column(name, OutputName(p)) \in used}}}

\* prune_cte: the projections that are read, unless the list holds a star or
\* an unnamed expression, or nothing would be left.
PruneSelect(query, name, used) ==
    LET readable == \A p \in ToSet(query.select) : p.expr.is # "star" /\ OutputName(p) # ""
        kept == SelectSeq(query.select, LAMBDA p :
                    \/ Column(name, OutputName(p)) \in used
                    \/ OutputName(p) \in GroupRequired(query, name, used))
    IN IF readable /\ kept # <<>> THEN kept ELSE query.select

\* prune_plan.  An unqualified column anywhere and everything is kept.
RECURSIVE Prune(_)
Prune(plan) ==
    LET used == UsedColumns(plan)
    IN IF plan.ctes = <<>> \/ \E c \in used : c.rel = "" THEN plan
       ELSE [plan EXCEPT !.ctes = [i \in DOMAIN @ |->
                [@[i] EXCEPT !.query = [Prune(@) EXCEPT !.select =
                    PruneSelect(Prune(plan.ctes[i].query), plan.ctes[i].name, used)]]]]
=============================================================================
