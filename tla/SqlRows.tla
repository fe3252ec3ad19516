------------------------------ MODULE SqlRows ------------------------------
(***************************************************************************)
(* What a database makes of a plan: the reference the optimizer's rewrites *)
(* are compared with.  It is SQL's semantics, not code of this repository. *)
(*                                                                         *)
(* A value is a literal; a row maps column names to values; a relation is  *)
(* [columns, rows] with rows in a sequence, since rows may repeat and      *)
(* LIMIT depends on their order (that of the stored tables here).  A scope *)
(* maps table and CTE names to relations.  An environment maps the keys of *)
(* a FROM clause to one row each.                                          *)
(***************************************************************************)
EXTENDS PlanTree

-----------------------------------------------------------------------------
(* Names.  A level maps the relation keys a clause may use to their column *)
(* sets; a name is looked for in a query's own level, then in the level    *)
(* around it, and must have one candidate in the first that has any.       *)

Candidates(column, Level) ==
    {k \in DOMAIN Level : column.rel \in {"", k} /\ column.name \in Level[k]}

Resolves(column, Level, Outer) ==
    IF Candidates(column, Level) = {} THEN Cardinality(Candidates(column, Outer)) = 1
    ELSE Cardinality(Candidates(column, Level)) = 1

\* What the first n relations of the FROM clause offer.
Offered(plan, n, Known) ==
    [k \in {Key(Relations(plan)[i]) : i \in 1..n} |->
        Known[Relations(plan)[CHOOSE i \in 1..n : Key(Relations(plan)[i]) = k].table]]

OutputColumns(plan, Known) ==
    UNION {IF p.expr.is = "star"
           THEN UNION {Known[r.table] : r \in ToSet(Relations(plan))}
           ELSE {OutputName(p)} : p \in ToSet(plan.select)}

\* The plan names relations and columns that exist, and none ambiguously.
\* Known maps table names to column sets; a CTE sees those before it.
RECURSIVE ResolvesIn(_, _, _)
ResolvesIn(plan, Known, Outer) ==
    IF plan.ctes # <<>>
    THEN /\ ResolvesIn(Head(plan.ctes).query, Known, Outer)
         /\ ResolvesIn([plan EXCEPT !.ctes = Tail(@)],
                (Head(plan.ctes).name :> OutputColumns(Head(plan.ctes).query, Known)) @@ Known,
                Outer)
    ELSE LET n == Len(Relations(plan))
             Level == Offered(plan, n, Known)
             aliases == {p.as : p \in ToSet(plan.select)}
         IN /\ \A i \in 1..n : Relations(plan)[i].table \in DOMAIN Known
            /\ Cardinality({Key(Relations(plan)[i]) : i \in 1..n}) = n
            /\ \A i \in DOMAIN plan.joins : \A c \in AllColumns(plan.joins[i].on) :
                   Resolves(c, Offered(plan, i + 1, Known), Outer)
            /\ \A t \in Trees([plan EXCEPT !.joins = <<>>, !.order = <<>>]) :
                   \A c \in AllColumns(t) : Resolves(c, Level, Outer)
            /\ \A t \in ToSet(Exprs(plan.order)) : \A c \in AllColumns(t) :
                   (c.rel = "" /\ c.name \in aliases) \/ Resolves(c, Level, Outer)
            /\ \A t \in Trees(plan) : \A q \in Subqueries(t) :
                   ResolvesIn(q, Known, Level @@ Outer)

NamesResolve(plan, Known) == ResolvesIn(plan, Known, <<>>)

-----------------------------------------------------------------------------
(* Values, with SQL's third truth value as the null literal.  They are     *)
(* computed on a group of environments (on one, where nothing is grouped)  *)
(* inside the environment `outer` of the queries around.                   *)

RECURSIVE Value(_, _, _), EvaluateIn(_, _, _)
Value(expr, group, outer) ==
    LET env == IF group = <<>> THEN <<>> ELSE Head(group)
        Has(e) == {k \in DOMAIN e : expr.rel \in {"", k} /\ expr.name \in DOMAIN e[k]}
        Numbers(l, r) == IF NullLiteral \in {l, r} THEN NullLiteral
                         ELSE Number(CASE expr.op = "+" -> l.n + r.n
                                       [] expr.op = "-" -> l.n - r.n
                                       [] expr.op = "*" -> l.n * r.n)
        Every(arg) == [i \in DOMAIN group |->
                          IF arg = Star THEN Number(1) ELSE Value(arg, <<group[i]>>, outer)]
        Known(arg) == SelectSeq(Every(arg), LAMBDA v : v # NullLiteral)
        Sum(vs) == FoldLeft(LAMBDA v, w : Number(v.n + w.n), Number(0), vs)
    IN CASE expr.is = "literal" -> expr
         [] expr.is = "column" ->
                LET e == IF Has(env) # {} THEN env ELSE outer
                IN e[CHOOSE k \in Has(e) : TRUE][expr.name]
         [] expr.is = "binary" ->
                Numbers(Value(expr.kids[1], group, outer), Value(expr.kids[2], group, outer))
         [] expr.is = "call" /\ expr.op = "COUNT" -> Number(Len(Known(expr.kids[1])))
         [] expr.is = "call" /\ expr.op = "SUM" ->
                IF Known(expr.kids[1]) = <<>> THEN NullLiteral ELSE Sum(Known(expr.kids[1]))
         [] expr.is = "call" /\ expr.op \in {"UPPER", "LOWER"} ->   \* text has no case here
                Value(expr.kids[1], group, outer)

\* What a predicate makes of the values of its parts.
Judged(pred, parts) ==
    LET values == ToSet(parts)
        Decided(b) == IF Truth(b) \in values THEN Truth(b)
                      ELSE IF NullLiteral \in values THEN NullLiteral ELSE Truth(~b)
        l == parts[1].n
        r == parts[2].n
    IN CASE pred.is = "absent" -> Truth(TRUE)
         [] pred.is = "isnull" -> Truth(NullLiteral \in values)
         [] pred.is = "and" -> Decided(FALSE)
         [] pred.is = "or" -> Decided(TRUE)
         [] NullLiteral \in values -> NullLiteral
         [] pred.is = "not" -> Truth(parts[1] = Truth(FALSE))
         [] pred.is \in {"true", "false"} -> Truth(pred.is = "true")
         [] pred.is = "compare" ->
                Truth(CASE pred.op = "=" -> l = r
                        [] pred.op = "<>" -> l # r
                        [] pred.op = "<" -> l < r
                        [] pred.op = "<=" -> l <= r
                        [] pred.op = ">" -> l > r
                        [] pred.op = ">=" -> l >= r)

\* A context is [scope, outer].
RECURSIVE Holds(_, _, _)
Holds(pred, group, ctx) ==
    LET Part(kid) == IF IsPredicate(kid) THEN Holds(kid, group, ctx)
                     ELSE Value(kid, group, ctx.outer)
        env == IF group = <<>> THEN <<>> ELSE Head(group)
    IN IF pred.is = "exists"
       THEN Truth(EvaluateIn(pred.query, ctx.scope, env @@ ctx.outer).rows # <<>>)
       ELSE Judged(pred, [i \in DOMAIN pred.kids |-> Part(pred.kids[i])])

Satisfies(group, pred, ctx) == Holds(pred, group, ctx) = Truth(TRUE)

-----------------------------------------------------------------------------
(* Rows.                                                                   *)

NullRow(columns) == [c \in columns |-> NullLiteral]

\* The environments of `left` joined with a relation under the key k.
\* keys maps the keys of `left` to their columns.
Join(left, keys, k, right, kind, on, ctx) ==
    LET Pair(env, row) == (k :> row) @@ env
        Matches(env) ==
            SelectSeq([i \in DOMAIN right.rows |-> Pair(env, right.rows[i])],
                      LAMBDA e : kind = "cross" \/ Satisfies(<<e>>, on, ctx))
        Padded(env, matches) ==
            IF matches = <<>> /\ kind \in {"left", "full"}
            THEN <<Pair(env, NullRow(right.columns))>> ELSE matches
        nobody == [key \in DOMAIN keys |-> NullRow(keys[key])]
        Alone(rows) == [i \in DOMAIN rows |-> Pair(nobody, rows[i])]
        Lonely(row) == \A i \in DOMAIN left : ~Satisfies(<<Pair(left[i], row)>>, on, ctx)
    IN FlattenSeq([i \in DOMAIN left |-> Padded(left[i], Matches(left[i]))])
       \o IF kind \in {"right", "full"}
          THEN Alone(SelectSeq(right.rows, LAMBDA row : Lonely(row))) ELSE <<>>

\* The environments of the first n relations.
RECURSIVE Joined(_, _, _)
Joined(plan, n, ctx) ==
    LET scope == ctx.scope
        Columns == [t \in DOMAIN scope |-> scope[t].columns]
        rel == Relations(plan)[n]
    IN IF n = 1
       THEN [i \in DOMAIN scope[rel.table].rows |-> Key(rel) :> scope[rel.table].rows[i]]
       ELSE Join(Joined(plan, n - 1, ctx), Offered(plan, n - 1, Columns), Key(rel),
                 scope[rel.table], plan.joins[n - 1].kind, plan.joins[n - 1].on, ctx)

\* One selected item's share of a row; a star is every column of every key.
ProjectRow(select, group, outer) ==
    LET Part(p) == IF p.expr.is = "star"
                   THEN FoldLeft(LAMBDA row, k : Head(group)[k] @@ row, <<>>,
                                 SetToSeq(DOMAIN Head(group)))
                   ELSE OutputName(p) :> Value(p.expr, group, outer)
    IN FoldLeft(LAMBDA row, p : Part(p) @@ row, <<>>, select)

\* The different items of a sequence, by where they come first.
Distinct(items) ==
    LET Repeats(i) == \E j \in 1..i - 1 : items[j] = items[i]
        kept == SetToSortSeq({i \in DOMAIN items : ~Repeats(i)}, LAMBDA i, j : i < j)
    IN [n \in DOMAIN kept |-> items[kept[n]]]

RECURSIVE Aggregates(_)
Aggregates(tree) ==
    \/ tree.is = "call" /\ tree.op \in {"COUNT", "SUM"}
    \/ \E kid \in ToSet(tree.kids) : Aggregates(kid)

\* The groups of a plan's rows: by value, all in one, or each row by itself.
Groups(plan, envs, outer) ==
    LET KeyOf(env) == [i \in DOMAIN plan.group |-> Value(plan.group[i], <<env>>, outer)]
        keys == Distinct([i \in DOMAIN envs |-> KeyOf(envs[i])])
        whole == \E t \in ToSet(Exprs(plan.select)) \cup {plan.having} : Aggregates(t)
    IN IF plan.group # <<>>
       THEN [i \in DOMAIN keys |-> SelectSeq(envs, LAMBDA env : KeyOf(env) = keys[i])]
       ELSE IF whole THEN <<envs>> ELSE [i \in DOMAIN envs |-> <<envs[i]>>]

\* The relation a plan computes inside the environment of the outer queries.
EvaluateIn(plan, scope, outer) ==
    IF plan.ctes # <<>>
    THEN EvaluateIn([plan EXCEPT !.ctes = Tail(@)],
             (Head(plan.ctes).name :> EvaluateIn(Head(plan.ctes).query, scope, outer)) @@ scope,
             outer)
    ELSE LET ctx == [scope |-> scope, outer |-> outer]
             Filtered(envs) ==
                 SelectSeq(envs, LAMBDA env : Satisfies(<<env>>, plan.where, ctx))
             Grouped(envs) ==
                 SelectSeq(Groups(plan, envs, outer), LAMBDA g : Satisfies(g, plan.having, ctx))
             Projected(groups) ==
                 [i \in DOMAIN groups |-> ProjectRow(plan.select, groups[i], outer)]
             Once(rows) == IF plan.distinct THEN Distinct(rows) ELSE rows
             Limited(rows) == IF plan.limit = NoLimit \/ plan.limit >= Len(rows) THEN rows
                              ELSE SubSeq(rows, 1, plan.limit)
             joined == Joined(plan, Len(Relations(plan)), ctx)
         IN [columns |-> OutputColumns(plan, [t \in DOMAIN scope |-> scope[t].columns]),
             rows |-> Limited(Once(Projected(Grouped(Filtered(joined)))))]

Evaluate(plan, scope) == EvaluateIn(plan, scope, <<>>)

\* Two results are the same up to the order of their rows.
SameRows(r, s) ==
    /\ r.columns = s.columns
    /\ ToBag(r.rows) = ToBag(s.rows)
=============================================================================
