-------------------------- MODULE MCResponseParser --------------------------
(***************************************************************************)
(* Plans over users(id, name) and orders(id, user_id, total), written down *)
(* as JSON in the canonical spelling and in those models like, and wrapped *)
(* in what models write around an answer.                                  *)
(***************************************************************************)
EXTENDS ResponseParser

-----------------------------------------------------------------------------
(* A plan as canonical JSON.                                               *)

Inverse1(table, x) == CHOOSE key \in DOMAIN table : table[key] = x
Lower(name) == Inverse1(CanonicalName, name)

ValueJson(e) ==
    CASE e.json = "int" -> Num(e.n)
      [] e.json = "boolean" -> Bool(e.n = 1)
      [] e.json = "null" -> Null

RECURSIVE TreeJson(_), PlanJson1(_)
TreeJson(t) ==
    LET Kid(i) == TreeJson(t.kids[i])
        Sides(op) == [left |-> Kid(1), op |-> Str(op), right |-> Kid(2)]
    IN CASE t.is = "column" -> IF t.rel = "" THEN ColumnJson(t.name) ELSE QualifiedJson(t.rel, t.name)
         [] t.is = "literal" -> LiteralJson(ValueJson(t), t.type)
         [] t.is = "call" ->
                Typed("function_call", [name |-> Str(Lower(t.op)),
                                        args |-> Arr([i \in DOMAIN t.kids |-> Kid(i)])])
         [] t.is = "binary" -> Typed("binary_op", Sides(Inverse1(BinaryOps, t.op)))
         [] t.is = "compare" -> Typed("comparison", Sides(Inverse1(ComparisonOps, t.op)))
         [] t.is \in {"and", "or"} -> Typed(t.is, [left |-> Kid(1), right |-> Kid(2)])
         [] t.is = "not" -> Typed("not", [child |-> Kid(1)])
         [] t.is = "isnull" -> Typed("is_null", [expr |-> Kid(1)])
         [] t.is = "exists" -> Typed("exists", [query |-> PlanJson1(t.query)])
         [] OTHER -> Typed(t.is, <<>>)

Aliased(as) == IF as = "" THEN <<>> ELSE "alias" :> Str(as)
TableJson(r) == Typed("table", ("table" :> Str(r.table)) @@ Aliased(r.as))
ItemJson(p) ==
    IF p.expr.is \in {"column", "star"} THEN Obj(TreeJson(p.expr).f @@ Aliased(p.as))
    ELSE Typed("expr", ("expression" :> TreeJson(p.expr)) @@ Aliased(p.as))

PlanJson1(p) ==
    LET Each1(field, s, Op(_)) ==
            IF s = <<>> THEN <<>> ELSE field :> Arr([i \in DOMAIN s |-> Op(s[i])])
        Maybe(field, t) == IF t = Absent THEN <<>> ELSE field :> TreeJson(t)
        JoinJson(j) == Obj([join_type |-> Str(j.kind), right_table |-> TableJson(j),
                            on |-> TreeJson(j.on)])
        Term(o) == Obj([expr |-> TreeJson(o.expr), descending |-> Bool(o.desc)])
        Cte(c) == Obj([name |-> Str(c.name), query |-> PlanJson1(c.query)])
        Set(s) == Obj([operation |-> Str(Inverse1(SetOps, s.op)), right |-> PlanJson1(s.right)])
    IN Obj(("from" :> TableJson(p.from)) @@ Each1("select", p.select, ItemJson)
           @@ Each1("joins", p.joins, JoinJson) @@ Maybe("where", p.where)
           @@ Each1("group_by", p.group, TreeJson) @@ Maybe("having", p.having)
           @@ Each1("order_by", p.order, Term) @@ Each1("ctes", p.ctes, Cte)
           @@ (IF p.limit = NoLimit THEN <<>> ELSE "limit" :> Num(p.limit))
           @@ (IF p.distinct THEN "distinct" :> Bool(TRUE) ELSE <<>>)
           @@ (IF p.sets = <<>> THEN <<>> ELSE "set_operation" :> Set(Head(p.sets))))

-----------------------------------------------------------------------------
(* Plans.                                                                  *)

C(rel, name) == Column(rel, name)
Item(expr, as) == [expr |-> expr, as |-> as]
Bare(exprs) == [i \in DOMAIN exprs |-> Item(exprs[i], "")]
Table(table, as) == [table |-> table, as |-> as]
Query(select, from, where) ==
    [ctes |-> <<>>, derived |-> <<>>, select |-> select, from |-> from, joins |-> <<>>,
     where |-> where, group |-> <<>>, having |-> Absent, order |-> <<>>, distinct |-> FALSE,
     distinctOn |-> <<>>, limit |-> NoLimit, offset |-> NoLimit, sets |-> <<>>]

More(e, n) == Compare(e, ">", Number(n))
Total == C("orders", "total")
User == C("orders", "user_id")
Sum(e) == Call("SUM", <<e>>)
UserJoin(kind) ==
    [kind |-> kind, table |-> "users", as |-> "",
     on |-> Compare(C("users", "id"), "=", C("orders", "user_id"))]

ByName == Query(Bare(<<C("", "id"), C("", "name")>>), Table("users", ""),
                Compare(C("", "id"), "=", Number(1)))
Joined(kind) ==
    [Query(Bare(<<Total, C("users", "name")>>), Table("orders", ""),
           And(More(Total, 0), Not(IsNull(User))))
        EXCEPT !.joins = <<UserJoin(kind)>>, !.limit = 2,
               !.order = <<[expr |-> Total, desc |-> TRUE]>>]
Grouped(having) ==
    [Query(<<Item(User, ""), Item(Sum(Total), "spent")>>, Table("orders", ""), Absent)
        EXCEPT !.group = <<User>>, !.having = having]
Ungrouped(where) ==
    Query(<<Item(C("", "user_id"), "who"), Item(Sum(C("", "total")), "spent")>>,
          Table("orders", ""), where)
Silly(where) == Query(<<Item(C("o", "id"), "t1"), Item(C("o", "id"), "t1")>>, Table("orders", "o"), where)
WithCte(body) ==
    [Query(Bare(<<C("c", "user_id")>>), Table("c", ""), Absent)
        EXCEPT !.ctes = <<[name |-> "c", query |-> body]>>, !.distinct = TRUE]
Large(where) == Query(Bare(<<C("", "user_id")>>), Table("orders", ""), where)
\* (Without the alias, the parser would give one that the subquery's text does
\* not know.)
Having(query) == Query(Bare(<<C("", "name")>>), Table("users", "u"), Exists(query))
Unioned == [ByName EXCEPT !.sets = <<[op |-> "union", right |-> Large(Absent)]>>]

\* What is written and what it means: mostly the same.
Written(p, means) == [plan |-> p, means |-> means]
Same(p) == Written(p, {p})

One == Compare(Number(1), "=", Number(1))
Two == More(Number(1), 1)
Ten == More(C("o", "total"), 1)

\* Each user once, a column under two names, and users with an order.
Grouping == Same([Large(Absent) EXCEPT !.group = <<C("", "user_id")>>])
TwoNames ==
    Same(Query(<<Item(C("", "user_id"), "a"), Item(C("", "user_id"), "b")>>, Table("orders", ""), Absent))
Correlated ==
    Same(Query(Bare(<<C("", "name")>>), Table("users", ""),
               Exists(Query(Bare(<<C("o", "id")>>), Table("orders", "o"),
                            Compare(C("o", "user_id"), "=", C("users", "id"))))))
Inner ==
    Same(Having(Query(Bare(<<C("o", "id")>>), Table("orders", "o"),
                      And(Compare(C("o", "user_id"), "=", C("u", "id")), More(C("o", "total"), 1)))))
\* Two columns of one name, compared.  (Without ON the parser infers another.)
SameNamed ==
    Same([Joined("inner") EXCEPT
              !.joins = <<[UserJoin("inner") EXCEPT
                              !.on = Compare(C("users", "id"), "=", C("orders", "id"))]>>])
Common == Same(WithCte(Large(And(One, More(C("", "total"), 1)))))

Plans ==
    {Same(ByName), Same(Joined("inner")), Same(Joined("left")),
     Same([Joined("inner") EXCEPT !.where = Always(TRUE)]),
     Same(Grouped(More(Sum(Total), 1))), Written(Unioned, {}),
     Written(Grouped(More(C("", "spent"), 1)), {Grouped(More(Sum(Total), 1))}),
     Written([Grouped(Absent) EXCEPT !.where = More(Sum(Total), 1)], {Grouped(More(Sum(Total), 1))}),
     Written([Grouped(More(Sum(Total), 0)) EXCEPT !.where = More(Sum(Total), 1)],
             {Grouped(More(Sum(Total), 1))}),
     Written(Ungrouped(Absent), {[Ungrouped(Absent) EXCEPT !.group = <<C("", "user_id")>>]}),
     Written(Ungrouped(More(C("", "who"), 1)),
             {[Ungrouped(More(C("", "user_id"), 1)) EXCEPT !.group = <<C("", "user_id")>>]}),
     Written([ByName EXCEPT !.limit = 0], {ByName}),
     Grouping, TwoNames, Correlated, Inner, Common,
     Same(WithCte(Large(Or(Two, More(C("", "total"), 0)))))}
    \cup {Same(Silly(where)) :
              where \in {And(Ten, Ten), Or(Ten, Two), Or(One, Ten), And(Two, Ten),
                         Not(Not(Ten)), Not(And(Ten, One)), Or(Ten, And(Ten, Ten))}}

-----------------------------------------------------------------------------
(* Spellings.                                                              *)

Rename(v, field, to) ==
    IF Has(v, field) THEN With(Without(v, {field}), to :> Get(v, field)) ELSE v
Renamed(v, names) == FoldLeft(LAMBDA w, n : Rename(w, n[1], n[2]), v, names)

RECURSIVE Everywhere(_, _)
Everywhere(v, New) ==
    IF v \in DOMAIN New THEN New[v]
    ELSE IF IsObj(v) THEN Obj([x \in DOMAIN v.f |-> Everywhere(v.f[x], New)])
    ELSE IF IsArr(v) THEN Arr([i \in DOMAIN v.s |-> Everywhere(v.s[i], New)]) ELSE v

\* The fields of a plan, and of a projection, as something else.
Spelling(kind, v) ==
    CASE kind = "canonical" -> v
      [] kind = "fields" ->
             Renamed(v, <<<<"select", "columns">>, <<"from", "source">>, <<"where", "filter">>,
                          <<"order_by", "sort">>, <<"group_by", "groupby">>, <<"joins", "join">>,
                          <<"limit", "top">>, <<"ctes", "with">>>>)
      [] kind = "twice" ->
             With(v, [filters |-> Arr(<<>>), order |-> Arr(<<>>), source |-> Null,
                      columns |-> Arr(<<>>)]
                     @@ (IF Has(v, "limit") THEN "max_rows" :> Num(9) ELSE <<>>))
      [] kind = "nulls" ->
             With(v, [x \in {"group_by", "order_by", "joins"} |->
                         IF Has(v, x) THEN Get(v, x) ELSE Arr(<<Null>>)])
      [] kind = "operators" ->
             Everywhere(v, Str("eq") :> Str("=") @@ Str("gt") :> Str("greater_than")
                           @@ Str("int") :> Str("integer"))
      [] kind = "strings" ->
             OnFields(OnFields(OnItems(v, "select", LAMBDA p :
                          IF Type(p) = "column_ref" /\ DOMAIN p.f = {"type", "column"}
                          THEN Get(p, "column") ELSE p),
                      {"from"}, LAMBDA f : IF Has(f, "alias") THEN f ELSE Get(f, "table")),
                      {"limit"}, LAMBDA n : Str(ToString(n.n)))
      [] kind = "untyped" ->
             OnFields(OnFields(OnItems(v, "select", LAMBDA p :
                          IF Type(p) = "column_ref" THEN Without(p, {"type"})
                          ELSE IF Type(p) = "expr"
                          THEN With(Without(p, {"type", "expression"}), Get(p, "expression").f)
                          ELSE p),
                      {"from"}, LAMBDA f : Without(f, {"type"})),
                      {"where"}, LAMBDA w : IF Type(w) = "comparison" THEN Without(w, {"type"}) ELSE w)
      [] kind = "inWhere" ->
             LET moved == {x \in {"limit", "order_by", "group_by", "having"} : Has(v, x)}
             IN IF ~Has(v, "where") THEN v
                ELSE With(Without(v, moved),
                          "where" :> With(Get(v, "where"), [x \in moved |-> Get(v, x)]))
      [] kind = "fromArray" ->
             IF ~Has(v, "joins") THEN With(v, "from" :> Arr(<<Get(v, "from")>>))
             ELSE With(Without(v, {"joins"}),
                       "from" :> Arr(<<Get(v, "from")>> \o Items(v, "joins")))
      [] kind = "noOn" -> OnItems(v, "joins", LAMBDA j : Without(j, {"on"}))
      [] kind = "keys" ->
             OnFields(v, {"where"}, LAMBDA w :
                 CASE Type(w) = "not" -> Obj([not |-> Get(w, "child")])
                   [] Type(w) = "and" -> Obj([and |-> Arr(<<Get(w, "left"), Get(w, "right")>>)])
                   [] OTHER -> w)

Kinds == {"canonical", "fields", "twice", "nulls", "operators", "strings", "untyped", "inWhere",
          "fromArray", "noOn", "keys"}

-----------------------------------------------------------------------------
(* Texts.                                                                  *)

RECURSIVE Tokens(_)
Tokens(v) ==
    LET Listed(parts) ==
            FlattenSeq([i \in DOMAIN parts |-> (IF i = 1 THEN <<>> ELSE <<Mark(",")>>) \o parts[i]])
        names == FoldSet(LAMBDA name, out : Append(out, name), <<>>, DOMAIN v.f)
    IN CASE IsObj(v) -> <<Mark("{")>>
                        \o Listed([i \in DOMAIN names |-> <<Name(names[i])>> \o Tokens(v.f[names[i]])])
                        \o <<Mark("}")>>
         [] IsArr(v) -> <<Mark("[")>> \o Listed([i \in DOMAIN v.s |-> Tokens(v.s[i])]) \o <<Mark("]")>>
         [] OTHER -> <<Atom(v)>>

Word == Mark("word")
Fence == Mark("fence")
Note == Tokens(Obj([note |-> Str("first")]))
Long == Tokens(Obj([x \in {"a", "b", "c", "d", "e", "f"} |-> Arr([i \in 1..20 |-> Null])]))

\* The closing brackets a text ends with.
Closing(tokens) ==
    Len(tokens) - CHOOSE i \in DOMAIN tokens :
                    /\ tokens[i].t \notin {"}", "]"}
                    /\ \A j \in i + 1..Len(tokens) : tokens[j].t \in {"}", "]"}

Wrapped(kind, v) ==
    LET tokens == Tokens(v)
    IN CASE kind = "bare" -> tokens
         [] kind = "fence" -> <<Fence>> \o tokens \o <<Fence>>
         [] kind = "talk" -> <<Word, Fence>> \o Note \o <<Word>> \o tokens \o <<Fence, Word>> \o Long
         [] kind = "chatFence" -> <<Fence, Word>> \o tokens \o <<Word, Fence>>
         [] kind = "array" -> <<Mark("[")>> \o tokens \o <<Mark("]")>>
         [] kind = "escaped" ->
                [i \in DOMAIN tokens |-> IF tokens[i].t \in {"name", "atom"} THEN Escaped(tokens[i])
                                       ELSE tokens[i]]
         [] kind = "cut" -> SubSeq(tokens, 1, Len(tokens) - Closing(tokens))
         [] kind = "cutTalk" -> Note \o <<Word>> \o SubSeq(tokens, 1, Len(tokens) - Closing(tokens))

-----------------------------------------------------------------------------
(* Answers.                                                                *)

TableOf(columns, rows) ==
    [columns |-> ToSet(columns),
     rows |-> [i \in DOMAIN rows |->
                  FoldLeftDomain(LAMBDA row, c : (columns[c] :> rows[i][c]) @@ row, <<>>, columns)]]

MCScope ==
    [users |-> TableOf(<<"id", "name">>, <<<<Number(1), Number(7)>>, <<Number(3), NullLiteral>>>>),
     orders |-> TableOf(<<"id", "user_id", "total">>,
                        <<<<Number(1), Number(3), Number(2)>>, <<Number(2), Number(1), Number(1)>>,
                          <<Number(3), Number(1), Number(1)>>, <<Number(4), NullLiteral, Number(5)>>>>)]

Answer(raw, json, plans, means) ==
    [raw |-> raw, json |-> json, plan |-> plans, means |-> means, scope |-> MCScope]
Said(wrapping, kind, p) ==
    LET json == Spelling(kind, PlanJson1(p.plan))
    IN Answer(Wrapped(wrapping, json), json, {p.plan}, p.means)

Wrappings == {"fence", "talk", "chatFence", "array", "escaped", "cut", "cutTalk"}
Wrappable == {Same(ByName), Same(Joined("inner")), Same(Grouped(More(Sum(Total), 1))), Inner, Common}

\* What is no plan: prose, half an object, one without a FROM, one with a
\* pattern that says nothing.
Wrong ==
    LET ghost == With(PlanJson1(ByName), "where" :>
                      Typed("like", [expr |-> ColumnJson("name"), pattern |-> Str("")]))
    IN {Answer(raw, Null, {}, {}) :
            raw \in {<<Word>>, <<Mark("{"), Name("select")>>, Note, Tokens(ghost)}}

MCAnswers ==
    {Said("bare", kind, p) : kind \in Kinds, p \in Plans}
    \cup {Said("bare", kind, SameNamed) : kind \in Kinds \ {"noOn"}}
    \cup {Said(wrapping, "canonical", p) : wrapping \in Wrappings, p \in Wrappable}
    \cup Wrong
=============================================================================
