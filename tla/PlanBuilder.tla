---------------------------- MODULE PlanBuilder ----------------------------
(***************************************************************************)
(* Normalised JSON becomes a plan (vlorql-llm/src/parser_v2/builder).  A   *)
(* builder gives the set of what it built: empty where it reports an       *)
(* error.  Beside PlanTree's nodes a plan may have `between`, `in`, `like` *)
(* and constant predicates, `case` and `subquery` expressions, an offset   *)
(* and set operations.  A projection of a bare column is always            *)
(* Projection::Column.  Left out: derived tables, DISTINCT inside a call,  *)
(* DISTINCT ON, and the place an error is reported for.                    *)
(***************************************************************************)
EXTENDS ExprJson, PlanTree

Built(x) == {x}
Refused == {}

\* What Op builds of every item of a sequence, if it builds all of them.
Each(s, Op(_)) ==
    IF \E i \in DOMAIN s : Op(s[i]) = Refused THEN Refused
    ELSE Built([i \in DOMAIN s |-> CHOOSE x \in Op(s[i]) : TRUE])

\* build_array_field: what is no array counts as an empty one.
EachOf(v, field, Op(_)) == Each(Items(v, field), Op)

-----------------------------------------------------------------------------
(* expr_builder                                                            *)

\* parse_comparison_op; `ne` is a comparison, and `neq` what an expression
\* calls the same thing.
ComparisonOps ==
    [eq |-> "=", ne |-> "<>", gt |-> ">", gte |-> ">=", lt |-> "<", lte |-> "<=",
     like |-> "like", ilike |-> "ilike"]
\* parse_binary_op
BinaryOps ==
    [add |-> "+", sub |-> "-", mul |-> "*", div |-> "/", mod |-> "%", and |-> "and", or |-> "or",
     eq |-> "=", neq |-> "<>", gt |-> ">", gte |-> ">=", lt |-> "<", lte |-> "<=",
     like |-> "like", ilike |-> "ilike"]
\* parse_data_type
DataTypes ==
    {"int", "string", "float", "boolean", "timestamp", "null", "json", "uuid", "decimal", "array",
     "jsonb", "blob", "date"}
JoinTypes == {"inner", "left", "right", "full", "cross"}

Parsed(name, table) == IF name \in DOMAIN table THEN Built(table[name]) ELSE Refused

\* build_literal_expr, build_literal_from_obj: a type that says nothing is
\* that of the value; one that is missing is "null".
BuildLiteral(value, type) ==
    LET json == [null |-> "null", bool |-> "boolean", num |-> "int", str |-> "string"][value.k]
        n == CASE value.k = "bool" -> IF value.b THEN 1 ELSE 0
               [] value.k = "num" -> value.n
               [] value.k = "str" -> value.x
               [] OTHER -> 0
    IN CASE value.k \notin {"null", "bool", "num", "str"} -> Refused
         [] type = "null" -> Built(Labelled(json, json, n))
         [] type = "" -> Built(Labelled("null", json, n))
         [] OTHER -> {Labelled(t, json, n) : t \in {type} \cap DataTypes}

\* The names of functions are compared without regard to case.
FunctionName(name) == IF name \in DOMAIN CanonicalName THEN CanonicalName[name] ELSE name

Aggregates7 == {"sum", "count", "avg", "min", "max", "string_agg", "array_agg"}

\* The discriminator, or what the fields tell.
ExpressionType(v) ==
    CASE Type(v) # "" -> Type(v)
      [] Has(v, "column") -> "column_ref"
      [] Has(v, "value") -> "literal"
      [] Has(v, "name") /\ Has(v, "args") -> "function_call"
      [] Has(v, "query") -> "subquery"
      [] OTHER -> ""

RECURSIVE BuildExpression(_), BuildPredicate(_), BuildPlan(_)

\* A CASE keeps which of its parts are there; kids are the parts in order.
BuildCase(v) ==
    LET Optional(field) == IF Filled(Get(v, field)) THEN <<Get(v, field)>> ELSE <<>>
        branches == Items(v, "when_thens")
        parts == Optional("operand")
                 \o FlattenSeq([i \in DOMAIN branches |->
                        <<Get(branches[i], "when"), Get(branches[i], "then")>>])
                 \o Optional("else_result")
    IN IF ~IsArr(Get(v, "when_thens")) THEN Refused
       ELSE {[is |-> "case", operand |-> Filled(Get(v, "operand")), kids |-> kids]
             : kids \in Each(parts, BuildExpression)}

\* build_expression: `comparison` is taken for a binary operator, `expr` for
\* what it wraps, the name of an aggregate for a call.
BuildExpression(v) ==
    LET type == ExpressionType(v)
        inner == IF Has(v, "expression") THEN Get(v, "expression") ELSE Get(v, "expr")
        name == IF type = "function_call" THEN Text(v, "name") ELSE type
    IN CASE v = Missing -> Refused
         [] ~IsObj(v) -> BuildLiteral(v, "null")
         [] type = "expr" -> BuildExpression(inner)
         [] type = "column_ref" ->
                IF IsStr(Get(v, "column")) THEN Built(Column(Text(v, "table"), Text(v, "column")))
                ELSE Refused
         [] type = "literal" ->
                BuildLiteral(OrElse(Get(v, "value"), Null), Text(v, "data_type"))
         [] type \in {"function_call"} \cup Aggregates7 ->
                IF name = "" \/ ~IsArr(Get(v, "args")) THEN Refused
                ELSE {Call(FunctionName(name), args) : args \in EachOf(v, "args", BuildExpression)}
         [] type \in {"binary_op", "comparison"} ->
                {Binary(l, op, r) : l \in BuildExpression(Get(v, "left")),
                                    op \in Parsed(Text(v, "op"), BinaryOps),
                                    r \in BuildExpression(Get(v, "right"))}
         [] type = "star" -> Built(Star)
         [] type = "subquery" ->
                {SubQuery(q) : q \in BuildPlan(Get(v, "query"))}
         [] type = "case" -> BuildCase(v)
         [] OTHER -> Refused

\* build_predicate
BuildPredicate(v) ==
    LET type == IF ~Has(v, "type") /\ Has(v, "left") /\ Has(v, "op") THEN "comparison" ELSE Type(v)
        target == Get(v, "target")
        E(field) == BuildExpression(Get(v, field))
        P(field) == BuildPredicate(Get(v, field))
        Node(kids) == [is |-> type, kids |-> kids]
    IN CASE type = "comparison" ->
                {Compare(l, op, r) : l \in E("left"), op \in Parsed(Text(v, "op"), ComparisonOps),
                                     r \in E("right")}
         [] type \in {"and", "or"} -> {Node(<<l, r>>) : l \in P("left"), r \in P("right")}
         [] type = "not" -> {Not(child) : child \in P("child")}
         [] type = "between" ->
                {Node(<<e, l, h>>) : e \in E("expr"), l \in E("low"), h \in E("high")}
         [] type = "in" /\ IsArr(target) ->
                {Node(<<e>> \o vs) : e \in E("expr"), vs \in Each(target.s, BuildExpression)}
         [] type = "in" -> {InQuery(e, q) : e \in E("expr"), q \in BuildPlan(target)}
         [] type = "like" ->
                IF ~IsStr(Get(v, "pattern")) THEN Refused
                ELSE {Node(<<e>>) @@ [pattern |-> Text(v, "pattern")] : e \in E("expr")}
         [] type = "is_null" -> {IsNull(e) : e \in E("expr")}
         [] type \in {"true", "false"} -> Built(Always(type = "true"))
         [] type = "exists" -> {Exists(q) : q \in BuildPlan(Get(v, "query"))}
         [] OTHER -> Refused

-----------------------------------------------------------------------------
(* select_builder, table_builder, join_builder and query_builder           *)

BuildProjection(v) ==
    LET Item(e) == [expr |-> e, as |-> Text(v, "alias")]
        Column1 == BuildExpression(With(v, "type" :> Str("column_ref")))
    IN CASE Type(v) = "column_ref" -> {Item(e) : e \in Column1}
         [] Type(v) = "expr" /\ IsObj(Get(v, "expression")) ->
                {Item(e) : e \in BuildExpression(Get(v, "expression"))}
         [] Type(v) = "star" -> Built([expr |-> Star, as |-> ""])
         [] Type(v) \in {"function_call", "binary_op", "case", "literal", "subquery"} ->
                {Item(e) : e \in BuildExpression(v)}
         [] OTHER -> Refused

\* Without a name, a table is what its alias says.
BuildFrom(v) ==
    LET table == IF IsStr(Get(v, "table")) THEN Text(v, "table") ELSE Text(v, "alias")
    IN IF IsStr(Get(v, "table")) \/ table # "" THEN Built([table |-> table, as |-> Text(v, "alias")])
       ELSE Refused

\* Only a cross join needs no condition; it gets one that always holds.
BuildJoin(v) ==
    LET on == CASE Has(v, "on") -> BuildPredicate(Get(v, "on"))
                [] Text(v, "join_type") = "cross" -> Built(Compare(Truth(TRUE), "=", Truth(TRUE)))
                [] OTHER -> Refused
    IN {[kind |-> kind, table |-> r.table, as |-> r.as, on |-> p]
        : kind \in {Text(v, "join_type")} \cap JoinTypes, r \in BuildFrom(Get(v, "right_table")),
          p \in on}

BuildOrderTerm(v) ==
    {[expr |-> e, desc |-> Get(v, "descending") = Bool(TRUE)]
     : e \in BuildExpression(Get(v, "expr"))}

BuildCte(v) ==
    IF ~IsStr(Get(v, "name")) THEN Refused
    ELSE {[name |-> Text(v, "name"), query |-> q] : q \in BuildPlan(Get(v, "query"))}

\* parse_set_operation, build_set_operation
SetOps == [union_all |-> "union all", union |-> "union", intersect |-> "intersect", except |-> "except"]
BuildSetOperation(v) ==
    IF ~Filled(v) THEN Built(<<>>)
    ELSE {<<[op |-> op, right |-> q]>> : op \in Parsed(Text(v, "operation"), SetOps),
                                         q \in BuildPlan(Get(v, "right"))}

OptionalPredicate(v, field) ==
    IF Get(v, field) \in {Missing, Null} THEN Built(Absent) ELSE BuildPredicate(Get(v, field))

\* build_plan_from_obj, of plans without derived tables and DISTINCT ON
BuildPlan(v) ==
    LET Count(field) == IF Get(v, field).k = "num" THEN Get(v, field).n ELSE NoLimit
    IN IF ~IsArr(Get(v, "select")) THEN Refused
       ELSE {[ctes |-> ctes, derived |-> <<>>, select |-> select, from |-> from, joins |-> joins,
              where |-> where, group |-> group, having |-> having, order |-> order,
              distinct |-> Get(v, "distinct") = Bool(TRUE), distinctOn |-> <<>>,
              limit |-> Count("limit"), offset |-> Count("offset"), sets |-> sets]
             : ctes \in EachOf(v, "ctes", BuildCte), select \in EachOf(v, "select", BuildProjection),
               from \in BuildFrom(Get(v, "from")), joins \in EachOf(v, "joins", BuildJoin),
               where \in OptionalPredicate(v, "where"), group \in EachOf(v, "group_by", BuildExpression),
               having \in OptionalPredicate(v, "having"),
               order \in EachOf(v, "order_by", BuildOrderTerm),
               sets \in BuildSetOperation(Get(v, "set_operation"))}
=============================================================================
