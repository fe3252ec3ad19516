-------------------------- MODULE MCQueryOptimizer --------------------------
(***************************************************************************)
(* Small plans over tables t(x, y) and u(x, z).  PlainPlans are those the  *)
(* rewrites are right about: their CTEs pick columns under their own names *)
(* and are each read once, and a conjunct shows its columns at the top of  *)
(* a comparison.  Between them they join every way, filter every side,     *)
(* stack CTEs, and hold constants to fold.                                 *)
(***************************************************************************)
EXTENDS QueryOptimizer

Pick(cols) == [i \in DOMAIN cols |-> [expr |-> Column("", cols[i]), as |-> ""]]
Table(name) == [table |-> name, as |-> ""]
Aliased(name, as) == [table |-> name, as |-> as]

Body(cols, from, where) ==
    [ctes |-> <<>>, derived |-> <<>>, select |-> Pick(cols), from |-> from, joins |-> <<>>,
     where |-> where, group |-> <<>>, having |-> Absent, order |-> <<>>,
     distinct |-> FALSE, distinctOn |-> <<>>, sets |-> <<>>, limit |-> NoLimit]

JoinTo(rel, kind, on) == [kind |-> kind, table |-> rel.table, as |-> rel.as, on |-> on]
SameX(k, l) == Compare(Column(k, "x"), "=", Column(l, "x"))

\* CTEs: one over t, one over u, one over the first.
Below == Body(<<"x", "y">>, Table("t"), Compare(Column("", "y"), "<", Number(2)))
Ctes == << <<>>,
           <<[name |-> "a", query |-> Body(<<"x", "y">>, Table("t"), Absent)],
             [name |-> "b", query |-> Body(<<"x", "z">>, Table("u"), Absent)]>>,
           <<[name |-> "a", query |-> Below],
             [name |-> "b", query |-> Body(<<"x", "y">>, Table("a"), Absent)]>> >>

\* The relations of the outer query, as (first, second).
Sides(i) == CASE i = 1 -> <<Table("t"), Table("u")>>
              [] i = 2 -> <<Table("a"), Table("b")>>
              [] i = 3 -> <<Table("u"), Aliased("b", "c")>>

Filters(k, l) ==
    LET kx == Column(k, "x")
        lx == Column(l, "x")
        small == Compare(kx, "<", Binary(Number(0), "+", Number(1)))
    IN {Absent,
        small,
        IsNull(lx),
        Not(Not(Compare(lx, "=", Number(1)))),
        And(Compare(kx, "=", Number(1)), Compare(Binary(Number(1), "-", Number(0)), "=", lx)),
        And(Not(IsNull(kx)), Or(Compare(Number(1), "=", Number(0)), Compare(lx, "<", kx))),
        Or(IsNull(Number(1)), Compare(lx, "=", Number(1))),
        Compare(Column(k, IF k = "u" THEN "z" ELSE "y"), "=", Number(1)),
        Or(small, IsNull(lx))}

Kinds == {"inner", "cross", "left", "right", "full"}

Query(i, joins, where, select) ==
    [Body(<<>>, Sides(i)[1], where) EXCEPT
        !.ctes = Ctes[i], !.select = select, !.joins = joins]

Named(k, l) == <<[expr |-> Column(k, "x"), as |-> ""], [expr |-> Column(l, "x"), as |-> "w"]>>

TwoWay ==
    UNION {LET k == Key(Sides(i)[1])
               l == Key(Sides(i)[2])
           IN {Query(i, <<JoinTo(Sides(i)[2], kind, SameX(k, l))>>, where, select)
               : kind \in Kinds, where \in Filters(k, l),
                 select \in {Named(k, l), <<[expr |-> Star, as |-> ""]>>}}
           : i \in 1..3}

\* A third relation, joined to either of the others, with a filter of its own
\* or of the first in its ON clause.
ThreeWay ==
    UNION {LET k == Key(Sides(i)[1])
               l == Key(Sides(i)[2])
               d == Aliased("t", "d")
           IN {Query(i, <<JoinTo(Sides(i)[2], kind, SameX(k, l)),
                          JoinTo(d, next, on)>>, where, Named(k, "d"))
               : kind \in Kinds \ {"cross"}, next \in {"inner", "left", "right", "full"},
                 on \in {SameX(l, "d"),
                         And(SameX(k, "d"), Compare(Column("d", "y"), "<", Number(1))),
                         And(SameX("d", l), IsNull(Column(k, "x")))},
                 where \in Filters(k, l)}
           : i \in 2..3}

\* A grouped CTE, filtered by its key from outside, grouped again or not.
Tally == [Body(<<"x">>, Table("t"), Absent) EXCEPT
             !.select = @ \o <<[expr |-> Call("COUNT", <<Column("", "y")>>), as |-> "n"],
                               [expr |-> Column("", "x"), as |-> "k"]>>,
             !.group = <<Binary(Column("", "x"), "+", Number(0))>>]

GroupedPlans ==
    LET n == Column("a", "n")
        Over(tally, where, select, group, having) ==
            [Body(<<>>, Table("a"), where) EXCEPT
                !.ctes = <<[name |-> "a", query |-> tally]>>,
                !.select = select, !.group = group, !.having = having,
                !.order = <<[expr |-> Column("a", "k"), desc |-> TRUE]>>]
        Key1 == <<[expr |-> Column("a", "k"), as |-> ""]>>
        small == Compare(Number(2), "<", Binary(n, "*", Number(2)))
    IN {Over([Tally EXCEPT !.having = having], where, Key1 \o extra, <<>>, Absent)
        : having \in {Absent, Compare(Number(0), "<", Call("COUNT", <<Column("", "y")>>))},
          where \in {Absent, Compare(Column("a", "x"), "=", Number(1)), small,
                     And(small, IsNull(Column("a", "x")))},
          extra \in {<<[expr |-> n, as |-> "m"]>>,
                     <<[expr |-> n, as |-> ""], [expr |-> Column("a", "x"), as |-> ""]>>}}
       \cup {Over(Tally, where, Key1 \o <<[expr |-> Call("SUM", <<n>>), as |-> "s"]>>,
                  <<Column("a", "k"), n>>, having)
             : where \in {Absent, Not(IsNull(Column("a", "x")))},
               having \in {Absent, Not(Not(Compare(Call("SUM", <<n>>), "<", Number(2))))}}

PlainPlans == TwoWay \cup ThreeWay \cup GroupedPlans

\* Beyond the plain ones: a CTE with a LIMIT, and one read twice.
WiderPlans ==
    LET limited == [Query(2, <<>>, Compare(Column("a", "x"), "=", Number(1)), Named("a", "a"))
                       EXCEPT !.ctes[1].query.limit = 1]
        twice == Query(2, <<JoinTo(Aliased("a", "e"), "inner", SameX("a", "e"))>>,
                       Compare(Column("e", "y"), "=", Number(1)), Named("a", "e"))
    IN PlainPlans \cup {limited, twice}

Rows(columns, values) ==
    [columns |-> ToSet(columns),
     rows |-> [i \in DOMAIN values |->
                  FoldLeftDomain(LAMBDA row, c : (columns[c] :> values[i][c]) @@ row,
                                 <<>>, columns)]]

Zero == Number(0)
One == Number(1)

MCDatabases ==
    {("t" :> Rows(<<"x", "y">>, t)) @@ ("u" :> Rows(<<"x", "z">>, u))
     : t \in {<< <<Zero, One>>, <<One, Zero>>, <<One, NullLiteral>> >>,
              << <<NullLiteral, Zero>>, <<One, One>> >>},
       u \in {<<>>, << <<One, Zero>>, <<NullLiteral, One>>, <<One, Zero>> >>}}
=============================================================================
