------------------------ MODULE MCValidationPipeline ------------------------
(***************************************************************************)
(* Plans over users(id, name), orders(id, user, total) and                 *)
(* items(order, buyer), where items points to both others and orders to    *)
(* users: right ones, ones the repairs are made for, and ones a stage is   *)
(* there to refuse.                                                        *)
(***************************************************************************)
EXTENDS PlanMeaning

ForeignKey(column, table) == [column |-> column, table |-> table, target |-> "id"]

MCSchema ==
    [users |-> [columns |-> [id |-> "int", name |-> "string"], keys |-> <<>>],
     orders |-> [columns |-> [id |-> "int", user |-> "int", total |-> "int"],
                 keys |-> <<ForeignKey("user", "users")>>],
     items |-> [columns |-> [order |-> "int", buyer |-> "int"],
                keys |-> <<ForeignKey("order", "orders"), ForeignKey("buyer", "users")>>]]
MCTableOrder == <<"items", "orders", "users">>

MCArithmetic == "id + total" :> <<"id", "+", "total">>
MCEmbedded == "SUM(total)" :> <<"SUM", "total">>

C(rel, name) == Column(rel, name)
Item(expr, as) == [expr |-> expr, as |-> as]
Items(exprs) == [i \in DOMAIN exprs |-> Item(exprs[i], "")]
From(table, as) == [table |-> table, as |-> as]
JoinTo(table, as, kind, on) == [kind |-> kind, table |-> table, as |-> as, on |-> on]
Text(n) == Literal("string", n)

Query(exprs, from, joins, where) ==
    [ctes |-> <<>>, derived |-> <<>>, select |-> Items(exprs), from |-> from, joins |-> joins,
     where |-> where, group |-> <<>>, having |-> Absent, order |-> <<>>,
     distinct |-> FALSE, distinctOn |-> <<>>, sets |-> <<>>, limit |-> NoLimit]

OnUser(o, u) == Compare(C(o, "user"), "=", C(u, "id"))
Users == JoinTo("users", "", "inner", OnUser("orders", "users"))
Total == C("orders", "total")
OrderUser == C("orders", "user")
Name == C("users", "name")

\* Orders with or without their users, joined or to be joined by the repair.
Conditions ==
    {Absent, Compare(Total, "<", Number(1)), IsNull(C("", "total")),
     Compare(C("orders", "name"), "=", Text(1)), Compare(C("users", "total"), "=", Number(1)),
     Compare(Total, "=", Text(0)), Compare(C("orders", "ghost"), "=", Number(0)),
     Compare(Call("LOWER", <<Name>>), "=", Text(1)), Compare(Call("LOWER", <<Total>>), "=", Text(0)),
     Compare(Binary(Total, "+", Name), "=", Number(1)),
     Compare(C("orders", "id + total"), "=", Number(1)),
     And(Compare(Labelled("float", "int", 1), "=", Total), Not(Compare(Name, "=", NullLiteral))),
     Compare(Labelled("int", "string", 1), "=", Total),
     Compare(Total, "<", Labelled("int", "huge", 9))}

Orders ==
    {Query(exprs, From("orders", ""), joins, where)
     : exprs \in {<<C("orders", "id"), Total>>, <<Name, Total>>, <<Star>>, <<C("", "id")>>},
       joins \in {<<>>, <<Users>>, <<JoinTo("users", "", "cross", Absent)>>},
       where \in Conditions}

\* The same under aliases, and with joins of every kind.
Aliased ==
    {Query(<<C("o", "id"), C("u", column)>>, From("orders", "o"),
           <<JoinTo(table, "u", kind, OnUser("o", "u"))>>, where)
     : column \in {"id", "name", "total"}, table \in {"users", "ghost"},
       kind \in {"inner", "left", "full"},
       where \in {Absent, Compare(C("u", "name"), "=", Text(1)), Compare(C("u", "id"), "=", Text(1))}}

\* Tables the FROM clause lacks, one and two foreign keys away.
Unjoined ==
    {Query(exprs, From("items", ""), joins, Absent)
     : exprs \in {<<Name>>, <<Total>>, <<Name, Total>>, <<C("items", "order"), C("items", "name")>>},
       joins \in {<<>>, <<JoinTo("orders", "", "inner",
                                 Compare(C("items", "order"), "=", C("orders", "id")))>>}}

\* Sums of orders, by one thing or another.
Sum(e) == Call("SUM", <<e>>)
Sums ==
    {[Query(exprs \o <<Sum(sum)>>, From("orders", ""), <<>>, Absent)
         EXCEPT !.group = group, !.having = having]
     : exprs \in {<<>>, <<C("orders", "user")>>, <<Binary(C("orders", "user"), "*", Number(2))>>,
                  <<Star>>},
       sum \in {Total, Sum(Total), Name},
       group \in {<<>>, <<C("orders", "user")>>, <<C("", "user"), Number(1)>>, <<Sum(Total)>>},
       having \in {Absent, Compare(Sum(Total), "<", Number(1)), Compare(C("", "ghost"), "=", Number(1))}}
    \cup {Query(<<C("orders", "SUM(total)")>>, From("orders", ""), <<>>, Absent),
          Query(<<Call("COUNT", <<Total, Total>>)>>, From("orders", ""), <<>>, Absent),
          Query(<<Call("COUNT", <<Star>>)>>, From("orders", ""), <<>>, Absent)}

\* A CTE, read with and without an alias, and subqueries in WHERE.
Nested ==
    LET inner == Query(<<C("", "id"), C("", "total")>>, From("orders", ""), <<>>, Absent)
        small == Compare(C("", "total"), "<", Number(1))
        Over(body, as, column) ==
            [Query(<<C(IF as = "" THEN "c" ELSE as, column)>>, From("c", as), <<>>,
                   Compare(C(IF as = "" THEN "c" ELSE as, column), "=", Number(1)))
                EXCEPT !.ctes = <<[name |-> "c", query |-> body]>>]
        Some(from, where) == Exists(Query(<<C("", "id")>>, from, <<>>, where))
        With(where) ==
            [Query(<<C("c", "id"), Name>>, From("users", ""),
                   <<JoinTo("c", "", "inner", Compare(C("c", "id"), "=", C("users", "id")))>>, where)
                EXCEPT !.ctes = <<[name |-> "c", query |-> inner]>>]
        \* A query in a query in a query, where the innermost reads both others.
        Deep(table, column) ==
            LET last == Exists(Query(<<C("i", "buyer")>>, From("items", "i"), <<>>,
                                     And(Compare(C("i", "buyer"), "=", C("users", "id")),
                                         Compare(C("o", column), "=", Number(1)))))
            IN Exists(Query(<<C("o", "id")>>, From(table, "o"), <<>>, last))
        Having(pred) == Query(<<Name>>, From("users", ""), <<>>, pred)
    IN {Over(body, as, column)
        : body \in {inner, [inner EXCEPT !.where = small],
                    [inner EXCEPT !.select = Items(<<C("", "id"), C("", "name")>>)],
                    [inner EXCEPT !.from = From("users", "")]},
          as \in {"", "k"}, column \in {"id", "total"}}
       \cup {With(where) : where \in {Compare(C("c", "total"), "=", Number(0)),
                                     And(Compare(C("c", "total"), "=", Name), IsNull(C("c", "id")))}}
       \cup {Having(Not(Some(From("orders", "o"), where)))
             : where \in {Absent, Compare(C("o", "user"), "=", C("users", "id")),
                          Compare(C("o", "name"), "=", C("", "name"))}}
       \cup {Having(Deep(table, column)) : table \in {"orders", "users"}, column \in {"id", "total"}}
       \cup {Having(Some(From("ghost", ""), Absent)), Having(Some(From("items", "i"), Absent))}

\* What the audit and the dialect are there for.
Odds ==
    LET plain == Query(<<Name>>, From("users", ""), <<>>, Absent)
        twice == <<Users, JoinTo("items", "", "inner",
                                 Compare(C("items", "order"), "=", C("orders", "id")))>>
    IN {[plain EXCEPT !.distinct = TRUE], [plain EXCEPT !.from.table = "bad"],
        [plain EXCEPT !.select = Items(<<C("users", "bad")>>)],
        [plain EXCEPT !.select = Items(<<Call("UPPER", <<Name>>)>>)],
        [plain EXCEPT !.order = Items(<<C("users", "ghost")>>)],
        Query(<<Total>>, From("orders", ""), twice, Absent),
        Query(<<Total>>, From("orders", ""), <<JoinTo("bad", "", "inner", OnUser("orders", "users"))>>,
              Absent)}

\* Orders and those before them, under a name of their own.
SelfJoins ==
    {Query(<<C("orders", "id"), C("o", "id")>>, From("orders", ""),
           <<JoinTo("orders", "o", "inner", Compare(C("o", "id"), "<", C("orders", "id")))>>, Absent)}

\* Orders read by a query inside: by a CTE and by an EXISTS.
ReadInside ==
    LET inner == Query(<<C("", "id"), C("", "total")>>, From("orders", ""), <<>>, Absent)
    IN {[Query(<<C("c", "id")>>, From("c", ""), <<>>, Absent)
            EXCEPT !.ctes = <<[name |-> "c", query |-> inner]>>],
        Query(<<Name>>, From("users", ""), <<>>,
              Exists(Query(<<C("o", "id")>>, From("orders", "o"), <<>>,
                           And(Compare(C("o", "user"), "=", C("users", "id")),
                               Compare(C("o", "total"), "=", Number(1))))))}

\* Right plans that the repairs take for mistakes: each user once, sums by a
\* column of an alias, and users with an order.
Mistaken ==
    {[Query(<<OrderUser>>, From("orders", ""), <<>>, Absent) EXCEPT !.group = <<OrderUser>>],
     [Query(<<Sum(C("o", "total"))>>, From("orders", "o"), <<>>, Absent)
         EXCEPT !.group = <<C("o", "user")>>],
     Query(<<Name>>, From("users", ""), <<>>,
           Exists(Query(<<C("orders", "id")>>, From("orders", ""), <<>>, OnUser("orders", "users"))))}

\* One table twice, and one subquery reading a table its outer query reads.
Twice ==
    LET Pair(column, as) ==
            Query(<<C("orders", "id"), C("o", column)>>, From("orders", as),
                  <<JoinTo("orders", IF as = "" THEN "o" ELSE "", "inner",
                           Compare(C("o", "id"), "<", C("orders", "id")))>>,
                  And(Compare(C("orders", "total"), "=", Number(1)),
                      Compare(C("o", "total"), "<", Number(1))))
        Inside(as) ==
            Query(<<C("orders", "id")>>, From("orders", ""), <<>>,
                  And(Compare(C("orders", "total"), "<", Number(2)),
                      Exists(Query(<<C("u", "id")>>, From("users", "u"), <<>>,
                                   And(Compare(C("u", "id"), "=", C(as, "user")),
                                       Compare(C("u", "name"), "=", Text(1)))))))
    IN {Pair(column, as) : column \in {"id", "user"}, as \in {"", "o"}}
       \cup SelfJoins
       \cup {[Inside("orders") EXCEPT !.limit = limit] : limit \in {1, 2}}

\* The other places for an expression or a query, where the stages look into
\* them: a CASE, a window function, the values and the query of an IN, a query
\* as a value, and an EXISTS with one in it.
OrdersWith(expr, where) == Query(<<C("orders", "id"), expr>>, From("orders", ""), <<>>, where)
OfUsers(column) == Query(<<C("u", column)>>, From("users", "u"), <<>>, Absent)

Elsewhere ==
    LET Inside(column) ==
            Exists(Query(<<C("o", "id")>>, From("orders", "o"), <<>>,
                         InQuery(C("o", "user"), OfUsers(column))))
    IN (UNION {{OrdersWith(Case(Compare(C("orders", column), "<", Number(1)), OrderUser, Number(1)),
                           Absent),
                OrdersWith(Window("SUM", C("orders", column), <<OrderUser>>), Absent),
                OrdersWith(OrderUser, In(OrderUser, <<Number(1), C("orders", column)>>))}
               : column \in {"id", "total", "ghost"}})
       \cup UNION {{OrdersWith(OrderUser, InQuery(OrderUser, OfUsers(column))),
                    OrdersWith(OrderUser, Compare(OrderUser, "=", SubQuery(OfUsers(column)))),
                    OrdersWith(OrderUser, And(Compare(OrderUser, "=", Number(1)), Inside(column)))}
                   : column \in {"id", "name", "ghost"}}
       \cup {OrdersWith(OrderUser, In(OrderUser, <<>>))}

\* The same queries where the stages do not look, and derived tables, which
\* the repair of joins panics at.
Unseen ==
    LET Of(column) == SubQuery(OfUsers(column))
        Plain == OrdersWith(OrderUser, Absent)
        FromDerived(body) ==
            [Query(<<C("users", "id")>>, From("users", "users"), <<>>, Absent)
                EXCEPT !.derived = <<[name |-> "users", query |-> body]>>]
    IN UNION {{OrdersWith(Case(Compare(OrderUser, "=", Of(column)), OrderUser, Number(1)), Absent),
               OrdersWith(Window("SUM", OrderUser, <<Of(column)>>), Absent),
               OrdersWith(OrderUser, In(OrderUser, <<Of(column)>>)),
               [Plain EXCEPT !.sets = <<[op |-> "union", right |-> OfUsers(column)]>>],
               [Plain EXCEPT !.distinct = TRUE, !.distinctOn = <<C("orders", column)>>],
               OrdersWith(OrderUser, Exists(FromDerived(OfUsers(column)))),
               FromDerived(OfUsers(column))}
              : column \in {"id", "name", "ghost"}}

MCUnseen == Unseen
MCInputs == Twice \cup Orders \cup Aliased \cup Unjoined \cup Sums \cup Nested \cup Odds
                \cup Elsewhere \cup Unseen \cup ReadInside \cup Mistaken

Policy(tables, global, filters) == [tables |-> tables, global |-> global, filters |-> filters]
OfTable(only, denied, filter) ==
    [allowed |-> TRUE, only |-> only, denied |-> denied, filter |-> filter]
Open == Policy(<<>>, {}, <<>>)
Filtered ==
    Policy("orders" :> OfTable({All}, {}, Compare(Total, "<", Number(1)))
             @@ "users" :> OfTable({All}, {}, Not(IsNull(Name))),
           {}, <<Compare(C("users", "id"), "=", Number(1))>>)
Closed ==
    Policy("orders" :> OfTable({"id", "total", "user"}, {"total"}, Absent)
             @@ "items" :> [OfTable({All}, {}, Absent) EXCEPT !.allowed = FALSE],
           {<<"name">>}, <<>>)
Listed ==
    Policy("orders" :> OfTable({"id", "user"}, {}, Absent)
             @@ "users" :> OfTable({All}, {}, Compare(C("", "name"), "=", Text(1))),
           {<<"users", "id">>}, <<>>)
\* A filter on a column that is denied.
Blind ==
    Policy("orders" :> OfTable({All}, {"total"}, Compare(Total, "<", Number(1))), {}, <<>>)

Loose == [ctes |-> TRUE, distinct |-> TRUE, windows |-> TRUE, maxJoins |-> 9, maxGroup |-> 9, kinds |-> {},
          allowed |-> {}, denied |-> {}]
Tight == [ctes |-> FALSE, distinct |-> FALSE, windows |-> FALSE, maxJoins |-> 1, maxGroup |-> 1,
          kinds |-> {"inner", "left"}, allowed |-> {"SUM", "COUNT"}, denied |-> {"COUNT"}]

MCConfigs ==
    LET Config(policy, profile, audit, entry) ==
            [policy |-> policy, profile |-> profile, audit |-> audit, entry |-> entry]
    IN {Config(Open, Loose, FALSE, "columns"), Config(Open, Tight, TRUE, "repair"),
        Config(Filtered, Loose, FALSE, "repair"), Config(Closed, Loose, FALSE, "columns"),
        Config(Listed, Loose, TRUE, "columns"), Config(Blind, Loose, FALSE, "columns")}

Rows(columns, values) ==
    [columns |-> ToSet(columns),
     rows |-> [i \in DOMAIN values |->
                  FoldLeftDomain(LAMBDA row, c : (columns[c] :> values[i][c]) @@ row,
                                 <<>>, columns)]]

MCDatabases ==
    LET Zero == Number(0)
        One == Number(1)
    IN {("users" :> Rows(<<"id", "name">>, << <<Zero, Text(0)>>, <<One, Text(1)>> >>))
        @@ ("orders" :> Rows(<<"id", "user", "total">>, orders))
        @@ ("items" :> Rows(<<"order", "buyer">>, << <<One, One>>, <<Zero, NullLiteral>> >>))
        : orders \in {<< <<Zero, One, Zero>>, <<One, One, One>>, <<Number(2), Zero, Zero>> >>,
                      << <<One, NullLiteral, Zero>> >>}}
=============================================================================
