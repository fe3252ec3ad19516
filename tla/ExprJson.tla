------------------------------ MODULE ExprJson ------------------------------
(***************************************************************************)
(* Operators, literals, expressions, predicates and order terms in JSON,   *)
(* and the order in which all the normalisers run                          *)
(* (vlorql-llm/src/parser_v2/normalize: operators, value, expr/*, order    *)
(* and pipeline).  As in PlanJson, an operator takes a value and gives the *)
(* one the code leaves in its place.  Left out: function names that hold   *)
(* SQL ("EXTRACT(MONTH FROM)"), case folding, and numbers with a fraction. *)
(***************************************************************************)
EXTENDS PlanJson, FunctionRegistry

\* The name whose spellings hold x, as {name}.
Spelled(spellings, x) == {name \in DOMAIN spellings : x \in spellings[name]}

-----------------------------------------------------------------------------
(* operators.rs and value.rs: every `op` and `data_type`, however deep.    *)

OperatorSpellings ==
    [eq |-> {"=", "==", "equals", "equal"},
     ne |-> {"!=", "<>", "neq", "not_equal", "not_equals"},
     gt |-> {">", "greater_than"}, lt |-> {"<", "less_than"},
     gte |-> {">=", "greater_than_or_equal", "greater_than_or_equals"},
     lte |-> {"<=", "less_than_or_equal", "less_than_or_equals"},
     like |-> {"$like"}, ilike |-> {"$ilike"},
     add |-> {"+", "plus"}, sub |-> {"-", "minus", "subtract"},
     mul |-> {"*", "multiply", "times"}, div |-> {"/", "divide"}, mod |-> {"%", "modulo"}]

RECURSIVE NormalizeOperators(_)
NormalizeOperators(v) ==
    Children(OnFields(v, {"op"}, LAMBDA o : Respelled(o, LAMBDA x : Spelled(OperatorSpellings, x))),
             NormalizeOperators)

TypeSpellings ==
    [int |-> {"int2", "integer", "int4", "int8", "bigint", "smallint", "tinyint"},
     string |-> {"varchar", "text", "char", "character", "character varying"},
     decimal |-> {"numeric"}, float |-> {"real", "double", "double precision"},
     boolean |-> {"bool"}, blob |-> {"bytea"}, json |-> {"jsonb"}, null |-> {"NULL", "Null", "*"},
     timestamp |-> {"timestampz", "timestamptz", "datetime", "timestamp with time zone",
                    "timestamp without time zone"}]

\* A value that is there says what a "null" should have been.
InferredType(v) ==
    LET Of == [bool |-> "boolean", num |-> "int", str |-> "string"]
        kind == Get(v, "value").k
    IN IF Text(v, "data_type") # "null" \/ kind \notin DOMAIN Of THEN v
       ELSE With(v, "data_type" :> Str(Of[kind]))

RECURSIVE NormalizeValues(_)
NormalizeValues(v) ==
    Children(InferredType(OnFields(v, {"data_type"},
                 LAMBDA d : Respelled(d, LAMBDA x : Spelled(TypeSpellings, x)))),
             NormalizeValues)

-----------------------------------------------------------------------------
(* expr/literal.rs                                                         *)

NullJson == LiteralJson(Null, "null")
ZeroJson == LiteralJson(Num(0), "int")
OrElse(v, default) == IF v = Missing THEN default ELSE v

LiteralTypes == {"string", "integer", "number", "float", "boolean", "null"}

\* canonical_literal_type: of these, "float" alone has no entry in the table.
LiteralType(type) ==
    CASE type \in {"integer", "number"} -> "int"
      [] type = "float" -> "null"
      [] OTHER -> type

AsLiteral(v) ==
    With(v, [type |-> Str("literal"), value |-> OrElse(Get(v, "value"), Null),
             data_type |-> Str(LiteralType(Type(v)))])

EndsWith(x, suffixes) ==
    \E s \in suffixes : Len(s) <= Len(x) /\ SubSeq(x, Len(x) - Len(s) + 1, Len(x)) = s

\* A column that is called like an aggregate is one: [name, args].
CalledLike(column) ==
    LET id == Arr(<<ColumnJson("id")>>)
    IN CASE EndsWith(column, {"_count"}) -> {[name |-> "count", args |-> Arr(<<Typed("star", <<>>)>>)]}
         [] EndsWith(column, {"_total", "_sum"}) -> {[name |-> "sum", args |-> id]}
         [] EndsWith(column, {"_avg"}) -> {[name |-> "avg", args |-> id]}
         [] EndsWith(column, {"_min"}) -> {[name |-> "min", args |-> id]}
         [] EndsWith(column, {"_max"}) -> {[name |-> "max", args |-> id]}
         [] OTHER -> {}

\* {"type": "count", "expr": ..}: the arguments are told, or nested, or the expr.
ShorthandArgs(v) ==
    LET nested == Get(Get(v, "function_call"), "args")
    IN CASE Has(v, "args") -> Get(v, "args")
         [] Text(Get(v, "function_call"), "name") # "" /\ nested # Missing ->
                IF IsArr(nested) THEN nested ELSE Arr(<<nested>>)
         [] Get(v, "expr") = Str("*") -> Arr(<<Typed("star", <<>>)>>)
         [] Filled(Get(v, "expr")) -> Arr(<<Get(v, "expr")>>)
         [] OTHER -> Arr(<<>>)

\* Of a list, the first, if it is a name.
FirstColumn(column) ==
    IF IsArr(column) /\ column.s # <<>> /\ IsStr(Head(column.s)) THEN Head(column.s) ELSE column

\* repair_expression_value
RepairExpression(v) ==
    LET column == FirstColumn(Get(v, "column"))
        call == IF IsStr(column) THEN CalledLike(column.x) ELSE {}
        Of(type) == With(v, "type" :> Str(type))
        alias == IF Has(v, "alias") THEN "alias" :> Get(v, "alias") ELSE <<>>
    IN CASE Type(v) = "expr" /\ Has(v, "expression") -> Get(v, "expression")
         [] Type(v) = "column_ref" /\ IsObj(Get(v, "expr")) ->
                Typed("expr", ("expression" :> Get(v, "expr")) @@ alias)
         [] Type(v) \in LiteralTypes -> AsLiteral(v)
         [] Type(v) \in AggregateNames ->
                With(Without(v, {"expr", "function_call"}),
                     [type |-> Str("function_call"), name |-> Str(Type(v)),
                      args |-> ShorthandArgs(v)])
         [] ~IsObj(v) \/ Has(v, "type") -> v
         [] call # {} -> LET c == CHOOSE c \in call : TRUE
                         IN With(Of("function_call"), [name |-> Str(c.name), args |-> c.args])
         [] Has(v, "column") -> With(Of("column_ref"), "column" :> column)
         [] Has(v, "value") -> Of("literal")
         [] Has(v, "name") /\ Has(v, "args") -> Of("function_call")
         [] OTHER -> v

-----------------------------------------------------------------------------
(* expr/predicate.rs                                                       *)

PredicateKeys == <<"not", "exists", "and", "or">>

\* {"not": ..} is the type and its child, {"and": ..} the type and its left.
KeyOfPredicate(v, key, child) ==
    LET rest == With(Without(v, {key}), "type" :> Str(key))
    IN IF key \in {"not", "exists"} THEN With(rest, "child" :> child)
       ELSE With(rest, [left |-> child, right |-> OrElse(Get(v, "right"), Null)])

\* repair_predicate_type: a key with something in it says more than a
\* connective that is told, and less than any other type.
RepairPredicateType(v) ==
    LET keys == SelectSeq(PredicateKeys, LAMBDA key : Has(v, key))
        meant == SelectSeq(keys, LAMBDA key : ~IsStr(Get(v, key))
                               /\ Get(v, key) \notin {Null, Obj(<<>>)})
        value == Get(v, Head(keys))
        child == IF Head(keys) = "not" /\ Has(value, "child") THEN Get(value, "child") ELSE value
    IN CASE Type(v) \in {""} \cup ToSet(PredicateKeys) /\ meant # <<>> ->
                KeyOfPredicate(v, Head(meant), Get(v, Head(meant)))
         [] Has(v, "op") /\ (Type(v) \in {"and", "or"} \/ (~Has(v, "type") /\ Has(v, "left"))) ->
                With(v, "type" :> Str("comparison"))
         [] Has(v, "type") \/ keys = <<>> -> v
         [] OTHER -> KeyOfPredicate(v, Head(keys), child)

ExprFields == {"left", "right", "expr", "low", "high"}
OverExpressions == {"comparison", "between", "in", "like", "is_null"}

\* unwrap_operator_field
OperatorOf(v) ==
    LET first == Head(Items(v, "op"))
        name == IF IsStr(first) THEN first.x ELSE Text(first, "name")
        Arg(i) == IF i \in DOMAIN Items(first, "args") THEN Items(first, "args")[i] ELSE Null
        expr == IF Has(v, "left") THEN Get(v, "left") ELSE OrElse(Get(v, "expr"), Null)
    IN CASE Items(v, "op") = <<>> -> v
         [] name \in {"between", "not_between"} ->
                Typed("between", [expr |-> expr, low |-> Arg(1), high |-> Arg(2)])
         [] OTHER -> With(v, "op" :> Str(IF name = "" THEN "eq" ELSE name))

\* unwrap_array_sides: a list stands for its first item, and for its first
\* two if a connective has them both on its left.
UnwrapSides(v) ==
    LET left == Items(v, "left")
        split == IF Len(left) >= 2 /\ Get(v, "right") \in {Missing, Null}
                 THEN With(v, [left |-> left[1], right |-> left[2]]) ELSE v
        First(x) == IF Filled(x) /\ IsArr(x) THEN Head(x.s) ELSE x
        Sides(w, fields) ==
            OnFields(Without(w, {f \in fields : Get(w, f) = Arr(<<>>)}), fields, First)
    IN CASE Type(v) \in {"and", "or"} -> Sides(split, {"left", "right"})
         [] Type(v) = "not" -> Sides(v, {"child"})
         [] Type(v) = "comparison" -> OperatorOf(OnFields(v, ExprFields, First))
         [] Type(v) \in OverExpressions -> OnFields(v, ExprFields, First)
         [] OTHER -> v

\* A pattern that is missing is taken to be what a column was called.
KnownTables == {"users", "orders", "products", "order_items", "employees"}
LikeShape(v) ==
    LET expr == Get(v, "expr")
        table == Text(expr, "table")
        odd == IsObj(expr) /\ table \notin KnownTables /\ Text(expr, "column") # ""
    IN CASE Has(v, "pattern") -> v
         [] odd -> With(v, [pattern |-> Str("%" \o Text(expr, "column")),
                            expr |-> IF table = "" THEN expr ELSE ColumnJson(table)])
         [] OTHER -> With(v, "pattern" :> Str("%"))

BetweenShape(v) == Obj(v.f @@ [low |-> ZeroJson, high |-> NullJson])

NestedTypes == {"like", "in", "between", "is_null", "exists"}

\* A predicate on one side of a comparison is what was meant, as {predicate}.
NestedPredicate(v) ==
    LET right == Get(v, "right")
        expr == IF Has(v, "left") THEN Get(v, "left") ELSE Get(v, "expr")
        given == IF expr = Missing THEN <<>> ELSE "expr" :> expr
    IN CASE Type(Get(v, "left")) \in NestedTypes -> {Get(v, "left")}
         [] Type(right) = "like" ->
                {Typed("like", [expr |-> OrElse(expr, Null),
                                pattern |-> OrElse(Get(right, "pattern"), Str("%"))])}
         [] Type(right) = "is_null" ->
                {Typed("is_null", given @@ [expr |-> OrElse(Get(right, "expr"), Null)])}
         [] Type(right) \in NestedTypes -> {Obj(given @@ right.f)}
         [] OTHER -> {}

\* The operator: one nested in the left side, or "eq" if it says nothing;
\* some are no comparisons at all.
ComparisonShape(v) ==
    LET left == Get(v, "left")
        lifted == IF ~Has(v, "op") /\ Text(left, "op") # "" /\ Has(left, "right")
                  THEN With(v, [op |-> Get(left, "op"), right |-> Get(left, "right"),
                                left |-> Without(left, {"op", "right"})])
                  ELSE v
        told == IF Get(lifted, "op") \in {Null, Str(""), Str("unknown")}
                THEN With(lifted, "op" :> Str("eq")) ELSE lifted
        expr == OrElse(Get(told, IF Has(told, "left") THEN "left" ELSE "expr"), Null)
        value == Get(Get(told, "right"), "value")
        isNull == Typed("is_null", [expr |-> expr])
    IN CASE Text(told, "op") \in {"is_null", "is null"} -> isNull
         [] Text(told, "op") \in {"is_not_null", "is not null", "isnotnull"} ->
                Typed("not", [child |-> isNull])
         [] Text(told, "op") \in {"like", "ilike"} ->
                Typed("like", [expr |-> expr,
                               pattern |-> IF IsStr(value) THEN value ELSE Str("%")])
         [] OTHER -> told

\* inject_missing_right and simplify_single_child
MissingSides(v) ==
    CASE Type(v) = "comparison" /\ ~Has(v, "right") /\ Has(v, "left") /\ Has(v, "op") ->
             With(v, "right" :> NullJson)
      [] Type(v) \in {"and", "or"} /\ Has(v, "left") /\ Get(v, "right") \in {Missing, Null} ->
             Get(v, "left")
      [] OTHER -> v

\* The expressions of a predicate over expressions are repaired.
RepairOperands(v) ==
    IF Type(v) \in OverExpressions THEN OnFields(v, ExprFields, RepairExpression) ELSE v

\* A predicate over one expression has it on no side.
LeftAsExpr(v) ==
    IF Type(v) \in {"like", "is_null", "between"} /\ Has(v, "left") /\ ~Has(v, "expr")
    THEN With(Without(v, {"left"}), "expr" :> Get(v, "left")) ELSE v

\* The fields its type asks for.
FieldsOfType(v) ==
    LET target == Get(v, "target")
    IN CASE Type(v) = "like" -> LikeShape(v)
         [] Type(v) = "between" -> BetweenShape(v)
         [] Type(v) = "comparison" /\ NestedPredicate(v) = {} -> ComparisonShape(v)
         [] Type(v) = "in" /\ IsObj(target) /\ ~Has(target, "select") ->
                With(v, "target" :> Arr(<<target>>))
         [] OTHER -> v

\* What the shape of a predicate's own fields becomes.
PredicateShape(v) ==
    FieldsOfType(LeftAsExpr(RepairOperands(UnwrapSides(RepairPredicateType(v)))))

\* normalize_predicate, from the outside in; a predicate that was nested in a
\* comparison takes its place.
RECURSIVE NormalizePredicate(_)
NormalizePredicate(v) ==
    LET Parts(w) == CASE Type(w) \in {"and", "or"} -> {"left", "right"}
                      [] Type(w) = "not" -> {"child"}
                      [] OTHER -> {}
        Inside(w) == OnFields(w, Parts(w), NormalizePredicate)
        Settled(w) ==
            IF Type(w) = "comparison" /\ NestedPredicate(w) # {}
            THEN NormalizePredicate(CHOOSE n \in NestedPredicate(w) : TRUE)
            ELSE Inside(MissingSides(w))
        Normalized(p) ==
            CASE ~IsObj(p) -> p
              [] Type(p) = "expr" /\ Has(p, "expression") ->
                     NormalizePredicate(CompareJson(Get(p, "expression"),
                         Str(IF Text(p, "op") = "" THEN "gt" ELSE Text(p, "op")),
                         OrElse(Get(p, "right"), ZeroJson)))
              [] Type(p) = "function_call" ->
                     NormalizePredicate(CompareJson(p, Str("gt"), ZeroJson))
              [] p = Typed("none", <<>>) ->
                     CompareJson(LiteralJson(Num(1), "int"), Str("eq"), ZeroJson)
              [] Type(p) = "case" -> CompareJson(p, Str("ne"), NullJson)
              [] Type(p) = "distinct" /\ Items(p, "on") # <<>> ->
                     NormalizePredicate(Head(Items(p, "on")))
              [] Type(p) \in {"comparisonarray", "comparisonop"} ->
                     NormalizePredicate(With(p, "type" :> Str("comparison")))
              [] OTHER -> Settled(PredicateShape(p))
    IN Normalized(IF Type(v) \in LiteralTypes /\ Has(v, "value") THEN AsLiteral(v) ELSE v)

-----------------------------------------------------------------------------
(* expr/mod.rs and expr/case.rs                                            *)

ExprTypeKeys ==
    <<"function_call", "column_ref", "binary_op", "literal", "star", "subquery", "case",
      "window_function">>

PredicateFields ==
    {"type", "left", "right", "op", "child", "expr", "low", "high", "target", "pattern", "query"}

\* A predicate is normalised as one; fields it does not know come back.
PredicateLike(v) ==
    \/ Type(v) \notin ToSet(ExprTypeKeys) \cup {"expr", ""}
    \/ Has(v, "left") /\ Has(v, "op")
    \/ Type(v) = "" /\ \E key \in ToSet(PredicateKeys) : Has(v, key)
AsPredicate(v) ==
    LET Merged(p) == IF IsObj(p) THEN Obj(p.f @@ Without(v, PredicateFields).f) ELSE Obj(<<>>)
    IN IF PredicateLike(v) THEN Merged(NormalizePredicate(v)) ELSE v

\* "users.id" is a column of a table, if no table is told.
SplitColumn(v) ==
    LET column == FirstColumn(Get(v, "column"))
        x == IF IsStr(column) THEN column.x ELSE ""
        dots == {i \in 2..Len(x) - 1 : SubSeq(x, i, i) = "."}
        dot == CHOOSE i \in dots : \A j \in dots : i <= j
    IN CASE ~Has(v, "column") -> v
         [] Has(v, "table") \/ dots = {} -> With(v, "column" :> column)
         [] OTHER -> With(v, [table |-> Str(SubSeq(x, 1, dot - 1)),
                              column |-> Str(SubSeq(x, dot + 1, Len(x)))])

\* What the registry calls the functions that plans here name.
CanonicalName ==
    [count |-> "COUNT", sum |-> "SUM", avg |-> "AVG", min |-> "MIN", max |-> "MAX",
     string_agg |-> "STRING_AGG", array_agg |-> "ARRAY_AGG", upper |-> "UPPER",
     row_number |-> "ROW_NUMBER", concat |-> "CONCAT"]

\* A function named where a type belongs, and the two functions whose number
\* of arguments is put right: row_number is left without an argument list.
CallShape(v) ==
    LET known == Type(v) \in DOMAIN CanonicalName /\ Type(v) \notin PredicateTypes /\ Has(v, "args")
        call == IF known THEN With(v, [type |-> Str("function_call"), name |-> Str(Type(v))]) ELSE v
        comma == LiteralJson(Str(","), "string")
    IN CASE Type(call) # "function_call" -> call
         [] Text(call, "name") = "string_agg" /\ Len(Items(call, "args")) = 1 ->
                With(call, "args" :> Arr(Append(Items(call, "args"), comma)))
         [] Text(call, "name") = "row_number" -> Without(call, {"args"})
         [] OTHER -> call

\* An arithmetic operator named where a type belongs.
ArithmeticTypes ==
    [multiply |-> "mul", add |-> "add", subtract |-> "sub", minus |-> "sub", divide |-> "div"]
Arithmetic(v) ==
    LET args == Items(v, "args")
    IN IF Type(v) \notin DOMAIN ArithmeticTypes \/ args = <<>> THEN v
       ELSE With(Without(v, {"args"}),
                 [type |-> Str("binary_op"), op |-> Str(ArithmeticTypes[Type(v)]),
                  left |-> Head(args), right |-> args[IF Len(args) = 1 THEN 1 ELSE 2]])

\* A type used as a key: the fields under it are the object's.
KeyAsType(v) ==
    LET keys == SelectSeq(ExprTypeKeys, LAMBDA key : IsObj(Get(v, key)))
    IN IF Has(v, "type") \/ keys = <<>> THEN v
       ELSE Obj(("type" :> Str(Head(keys))) @@ Without(v, {Head(keys)}).f @@ Get(v, Head(keys)).f)

\* normalize_malformed_case_expression_in_map: when, then, when, then, else.
CaseCall(v) ==
    LET args == Items(v, "args")
        AsOperand(w) == IF Type(w) = "comparison" THEN With(w, "type" :> Str("binary_op")) ELSE w
        Pair(i) == Obj([when |-> AsOperand(args[2 * i - 1]), then |-> args[2 * i]])
        pairs == Len(args) \div 2
    IN IF Type(v) # "function_call" \/ Text(v, "name") # "case" \/ ~Has(v, "args") THEN v
       ELSE Typed("case", [operand |-> Null, when_thens |-> Arr([i \in 1..pairs |-> Pair(i)]),
                           else_result |-> IF Len(args) % 2 = 1 THEN Last(args) ELSE Null])

\* A branch that is just a condition gives TRUE.
Branch(b) ==
    IF Has(b, "when") \/ Has(b, "then") \/ ~Has(b, "left") \/ ~Has(b, "op") THEN b
    ELSE Obj([when |-> b, then |-> LiteralJson(Bool(TRUE), "boolean")])

ExprShape(v) == CaseCall(KeyAsType(Arithmetic(CallShape(SplitColumn(AsPredicate(v))))))

RECURSIVE NormalizeExpr(_)
NormalizeExpr(v) ==
    CASE ~IsObj(v) -> Children(v, NormalizeExpr)
      [] Type(v) = "case" /\ ~Has(v, "when_thens") -> CompareJson(v, Str("ne"), NullJson)
      [] OTHER -> Children(OnItems(ExprShape(v), "when_thens", Branch), NormalizeExpr)

-----------------------------------------------------------------------------
(* order.rs                                                                *)

\* normalize_item
OrderTerm(item) ==
    LET bare == IF IsStr(item) THEN Obj([expr |-> ColumnJson(item.x), descending |-> Bool(FALSE)])
                ELSE item
        opened == IF Type(bare) # "expr" \/ ~Has(bare, "expression") THEN bare
                  ELSE With(Without(bare, {"expression", "type"}),
                            "expr" :> Get(bare, "expression"))
        named == IF Has(opened, "expr") \/ Text(opened, "column") = "" THEN opened
                 ELSE With(Without(opened, {"column"}), "expr" :> ColumnJson(Text(opened, "column")))
        Expr(e) == CASE ~Has(e, "type") /\ Has(e, "column") -> With(e, "type" :> Str("column_ref"))
                     [] Type(e) = "expr" /\ Has(e, "expression") -> Get(e, "expression")
                     [] OTHER -> e
    IN IF ~IsObj(bare) THEN bare ELSE OnFields(Without(named, {"alias", "name"}), {"expr"}, Expr)

\* build_alias_map_from_select and resolve_order_by_aliases: the first
\* projection that has the alias.
ByAlias(v, term) ==
    LET column == Get(term, "expr")
        Named(p) == /\ Type(p) \in {"expr", "column_ref"}
                    /\ Text(p, "alias") # "" /\ Text(p, "alias") = Text(column, "column")
        named == SelectSeq(Items(v, "select"), Named)
        Expr(p) == IF Type(p) = "expr" THEN Get(p, "expression") ELSE p
    IN IF Type(column) # "column_ref" \/ named = <<>> THEN term
       ELSE With(term, "expr" :> Expr(Head(named)))

NormalizeOrder(v) ==
    LET terms == Items(OnItems(v, "order_by", OrderTerm), "order_by")
        kept == SelectSeq(terms, LAMBDA t : Has(t, "expr"))
        ordered == OnFields(v, {"order_by"}, LAMBDA a :
                       IF IsArr(a) THEN Arr([i \in DOMAIN kept |-> ByAlias(v, kept[i])]) ELSE a)
        Group(g) == IF Has(g, "expr") /\ ~Has(g, "type") /\ ~Has(g, "column")
                    THEN Get(g, "expr") ELSE g
    IN OnItems(ordered, "group_by", Group)

-----------------------------------------------------------------------------
(* pipeline.rs                                                             *)

\* The clauses by their names, each in its shape, then what is in them.
Clauses(v) == ArrayShapes(SetOperations(NormalizeFieldNames(v)))
ClauseShapes(v) == QueryShape(JoinShapes(WhereShape(TableShape(SelectShapes(v)))))
Contents(v) == NormalizeExpr(NormalizeValues(NormalizeOperators(v)))

RECURSIVE Normalize(_)
Normalize(v) ==
    OnItems(SetOperations(NormalizeOrder(Contents(ClauseShapes(Clauses(v))))), "ctes",
            LAMBDA cte : OnFields(cte, {"query"}, Normalize))

\* normalize_small_model, with fix_select_types: what is done again for small
\* models, when it has been done for all.
NormalizeSmall(v) ==
    LET Projection(p) ==
            CASE ~IsObj(p) \/ Has(p, "type") -> p
              [] Has(p, "column") \/ Has(p, "columns") -> With(p, "type" :> Str("column_ref"))
              [] Has(p, "expression") \/ Has(p, "expr") -> With(p, "type" :> Str("expr"))
              [] OTHER -> With(p, "type" :> Str("star"))
        where == Get(v, "where")
        Where(w) == IF Has(w, "type") \/ ~Has(w, "left") \/ ~Has(w, "op") THEN w
                    ELSE With(w, "type" :> Str("comparison"))
        From(f) == IF IsStr(f) THEN Obj([table |-> f]) ELSE f
    IN OnFields(OnFields(OnFields(OnItems(v, "select", Projection), {"from"}, From),
                         {"limit", "offset"}, Numeric), {"where"}, Where)

NormalizeForModel(v, small) == IF small THEN NormalizeSmall(Normalize(v)) ELSE Normalize(v)
=============================================================================
