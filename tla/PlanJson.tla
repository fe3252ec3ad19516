------------------------------ MODULE PlanJson ------------------------------
(***************************************************************************)
(* The shape of a plan in JSON, normalised clause by clause                *)
(* (vlorql-llm/src/parser_v2/normalize: aliases, set_op, array, select,    *)
(* table, where_, join and query).  An operator takes a plan and gives the *)
(* plan the code leaves in its place; what is no object stays as it is.    *)
(* Left out: garbled strings (quotes inside names, JSON inside strings).   *)
(***************************************************************************)
EXTENDS JsonText

\* A value with Op on its fields, or on the items of one of them.
OnFields(v, fields, Op(_)) ==
    IF ~IsObj(v) THEN v
    ELSE Obj([x \in DOMAIN v.f |-> IF x \in fields THEN Op(v.f[x]) ELSE v.f[x]])
OnItems(v, field, Op(_)) ==
    OnFields(v, {field},
             LAMBDA a : IF IsArr(a) THEN Arr([i \in DOMAIN a.s |-> Op(a.s[i])]) ELSE a)
Children(v, Op(_)) ==
    CASE IsObj(v) -> Obj([x \in DOMAIN v.f |-> Op(v.f[x])])
      [] IsArr(v) -> Arr([i \in DOMAIN v.s |-> Op(v.s[i])])
      [] OTHER -> v

Typed(type, fields) == Obj(("type" :> Str(type)) @@ fields)
Type(v) == Text(v, "type")
ColumnJson(name) == Typed("column_ref", [column |-> Str(name)])
QualifiedJson(table, name) ==
    Typed("column_ref", [table |-> Str(table), column |-> Str(name)])
LiteralJson(value, type) == Typed("literal", [value |-> value, data_type |-> Str(type)])
CompareJson(left, op, right) ==
    Typed("comparison", [left |-> left, op |-> op, right |-> right])

\* There is something in it.
Filled(v) == v \notin {Missing, Null, Arr(<<>>)}

-----------------------------------------------------------------------------
(* aliases.rs: FIELD_ALIASES, the spellings of a field in the order in     *)
(* which an object keeps its keys.                                         *)
Aliases ==
    [where |-> <<"condition", "conditions", "filter", "filters", "predicate", "predicates">>,
     select |-> <<"columns", "fields", "project", "project_list", "projection", "projections">>,
     from |-> <<"source", "sources", "tables">>,
     order_by |-> <<"order", "ordering", "sort", "sort_by", "sorts">>,
     group_by |-> <<"group", "groupby">>,
     having |-> <<"having_condition">>,
     limit |-> <<"limit_count", "max_results", "max_rows", "top">>,
     offset |-> <<"offset_count", "skip", "start">>,
     joins |-> <<"join", "relations">>,
     ctes |-> <<"cte", "with">>,
     column |-> <<"col", "field">>,
     type |-> <<"kind">>, table |-> <<"table_name">>, alias |-> <<"alias_name">>,
     descending |-> <<"desc">>, op |-> <<"operator">>, comparison |-> <<"comparisons">>]

\* Mutation: a spelling replaces the field that is there already.
RenameFieldsOver(v) ==
    LET Present(t) == SelectSeq(Aliases[t], LAMBDA a : Has(v, a))
        renamed == {t \in DOMAIN Aliases : Present(t) # <<>>}
    IN With(Without(v, UNION {ToSet(Present(t)) : t \in renamed}),
            [t \in renamed |-> Get(v, Last(Present(t)))])

\* A field that is there keeps its value; of two spellings the later wins.
RenameFields(v) ==
    LET Present(t) == SelectSeq(Aliases[t], LAMBDA a : Has(v, a))
        renamed == {t \in DOMAIN Aliases : ~Has(v, t) /\ Present(t) # <<>>}
    IN With(Without(v, UNION {ToSet(Present(t)) : t \in renamed}),
            [t \in renamed |-> Get(v, Last(Present(t)))])

RECURSIVE NormalizeFieldNames(_)
NormalizeFieldNames(v) ==
    Children(IF IsObj(v) THEN RenameFields(v) ELSE v, NormalizeFieldNames)

-----------------------------------------------------------------------------
(* set_op.rs                                                               *)

OperationKeys ==
    <<"union_all", "unionall", "union", "intersect", "intersection", "except", "minus">>

\* canonical_op, as {name}.  Case and blanks are folded before.
CanonicalOp(op) ==
    CASE op \in {"union_all", "UNION ALL", "unionall"} -> {"union_all"}
      [] op \in {"union", "UNION"} -> {"union"}
      [] op \in {"intersect", "INTERSECT", "intersection"} -> {"intersect"}
      [] op \in {"except", "EXCEPT", "minus", "difference"} -> {"except"}
      [] OTHER -> {}

\* A spelling gives way to the canonical one, if there is one.
Respelled(v, Canonical(_)) ==
    IF IsStr(v) /\ Canonical(v.x) # {} THEN Str(CHOOSE x \in Canonical(v.x) : TRUE) ELSE v

\* The first of the fields that is there; they all leave the object.
Gathered(v, field, spellings) ==
    LET present == SelectSeq(spellings, LAMBDA a : Has(v, a))
        rest == Without(v, ToSet(spellings))
    IN IF Has(v, field) \/ present = <<>> THEN rest
       ELSE With(rest, field :> Get(v, Head(present)))

\* normalize_set_operation
SetOperationShape(s) ==
    LET first == Head(s.s)
        told == IF Has(first, "operation") THEN Get(first, "operation") ELSE Get(first, "op")
        named == Respelled(told, CanonicalOp)
        merged == Gathered(Gathered(s, "operation", <<"op">>), "right",
                           <<"right_query", "right_plan", "rhs", "second">>)
    IN CASE IsStr(s) -> Respelled(s, CanonicalOp)
         [] IsArr(s) /\ s.s # <<>> ->
                Obj([operation |-> IF IsStr(told) /\ CanonicalOp(told.x) # {} THEN named
                                   ELSE Str("union_all"),
                     right |-> IF Len(s.s) > 1 THEN s.s[2] ELSE Null])
         [] IsObj(s) -> OnFields(merged, {"operation"}, LAMBDA x : Respelled(x, CanonicalOp))
         [] OTHER -> s

\* normalize: a bare operation key is lifted, unless there is an operation.
SetOperations(v) ==
    LET bare == SelectSeq(OperationKeys, LAMBDA key : Has(v, key))
        lifted == IF bare = <<>> \/ Has(v, "set_operation") THEN v
                  ELSE With(v, "set_operation" :>
                           Obj([operation |-> Respelled(Str(Head(bare)), CanonicalOp),
                                right |-> Get(v, Head(bare))]))
    IN IF ~IsObj(v) THEN v
       ELSE OnFields(Without(lifted, ToSet(OperationKeys)), {"set_operation"}, SetOperationShape)

-----------------------------------------------------------------------------
(* array.rs                                                                *)

\* ensure_array_field and remove_nulls
AsArray(v) == CASE v = Null -> Arr(<<>>) [] IsObj(v) -> Arr(<<v>>) [] OTHER -> v
WithoutNulls(v) == IF IsArr(v) THEN Arr(SelectSeq(v.s, LAMBDA x : x # Null)) ELSE v

\* Mutation: what is empty goes before the nulls do.
ArrayShapesTooEarly(v) ==
    LET wrapped == OnFields(v, {"select", "group_by", "order_by", "joins", "ctes"}, AsArray)
        dropped == Without(wrapped, {x \in {"group_by", "order_by", "joins", "ctes"} :
                                        Get(wrapped, x) = Arr(<<>>)})
    IN IF ~IsObj(v) THEN v ELSE OnFields(dropped, {"group_by", "order_by"}, WithoutNulls)

\* normalize.  (An {"items": [..]} around a clause is looked for when it has
\* become an array of one object, so it is never found.)
ArrayShapes(v) ==
    LET wrapped == OnFields(v, {"select", "group_by", "order_by", "joins", "ctes"}, AsArray)
        cleaned == OnFields(wrapped, {"group_by", "order_by"}, WithoutNulls)
    IN IF ~IsObj(v) THEN v
       ELSE Without(cleaned, {x \in {"group_by", "order_by", "joins", "ctes"} :
                                 Get(cleaned, x) = Arr(<<>>)})

-----------------------------------------------------------------------------
(* select.rs                                                               *)

ExpressionTypes == {"function_call", "binary_op", "literal", "subquery"}

\* normalize_projection_item, inject_missing_type and the first half of
\* remove_invalid
ProjectionShape(p) ==
    CASE IsStr(p) -> IF p.x = "*" THEN Typed("star", <<>>) ELSE ColumnJson(p.x)
      [] ~Has(p, "type") /\ Has(p, "column") -> With(p, "type" :> Str("column_ref"))
      [] Type(p) \in ExpressionTypes ->
             Typed("expr", ("expression" :> Without(p, {"alias"}))
                           @@ (IF Filled(Get(p, "alias")) THEN "alias" :> Get(p, "alias") ELSE <<>>))
      [] OTHER -> p

\* normalize_projection_items .. inject_default_select: an item that is no
\* projection goes, and with the last one the clause, which becomes a star.
SelectShape(v) ==
    LET shaped == OnItems(v, "select", ProjectionShape)
        kept == SelectSeq(Items(shaped, "select"),
                          LAMBDA p : Type(p) \in {"column_ref", "expr", "star"})
        cleaned == CASE ~IsArr(Get(v, "select")) \/ kept = Items(shaped, "select") -> shaped
                     [] kept = <<>> -> Without(shaped, {"select"})
                     [] OTHER -> With(shaped, "select" :> Arr(kept))
    IN IF ~Has(cleaned, "select") /\ Has(cleaned, "from")
       THEN With(cleaned, "select" :> Arr(<<Typed("star", <<>>)>>)) ELSE cleaned

\* remove_star_with_group_by: no star over groups; an `id` if nothing is left.
NoStarOverGroups(v) ==
    LET grouped == Items(v, "group_by") # <<>> \/ Items(Get(v, "where"), "group_by") # <<>>
        kept == SelectSeq(Items(v, "select"), LAMBDA p : Type(p) # "star")
    IN IF ~grouped \/ ~IsArr(Get(v, "select")) THEN v
       ELSE With(v, "select" :> Arr(IF kept = <<>> THEN <<ColumnJson("id")>> ELSE kept))

\* remove_aggregates_from_group_by: they are selected instead.
NoCallsInGroups(v) ==
    LET inner(g) == Get(g, "expression")
        IsCall(g) == \/ Type(g) = "function_call"
                     \/ Type(g) = "expr" /\ Type(inner(g)) = "function_call"
                     \/ Type(g) \notin {"", "column_ref", "literal"} /\ Has(g, "args")
        Call(g) == IF Type(g) = "expr" /\ Type(inner(g)) = "function_call" THEN inner(g) ELSE g
        groups == Items(v, "group_by")
        calls == SelectSeq(groups, IsCall)
        kept == SelectSeq(groups, LAMBDA g : ~IsCall(g))
        selected == FoldLeft(LAMBDA s, g : IF Contains(s, Call(g)) THEN s ELSE Append(s, Call(g)),
                             Items(v, "select"), calls)
        grouped == IF kept = <<>> THEN Without(v, {"group_by"})
                   ELSE With(v, "group_by" :> Arr(kept))
    IN IF ~IsArr(Get(v, "group_by")) THEN v
       ELSE OnFields(grouped, {"select"}, LAMBDA s : IF IsArr(s) THEN Arr(selected) ELSE s)

SelectShapes(v) ==
    LET grouped == OnItems(SelectShape(v), "group_by",
                           LAMBDA g : IF IsStr(g) THEN ColumnJson(g.x) ELSE g)
    IN NoCallsInGroups(NoStarOverGroups(grouped))

-----------------------------------------------------------------------------
(* table.rs                                                                *)

\* array_to_object: the first table is FROM, what looks like a join is one.
FromArray(v) ==
    LET items == Items(v, "from")
        tables == SelectSeq(items, LAMBDA e : Has(e, "table"))
        joins == SelectSeq(items, LAMBDA e : IsObj(e) /\ ~Has(e, "table")
                               /\ (Has(e, "join_type") \/ Type(e) = "join"))
        Kind(e) == IF Has(e, "join_type") THEN Text(e, "join_type") ELSE Type(e)
        OrNull(x) == IF x = Missing THEN Null ELSE x
        JoinOf(e) == Obj([join_type |-> Str(IF Kind(e) = "" THEN "inner" ELSE Kind(e)),
                          right_table |-> OrNull(Get(e, "right_table")),
                          on |-> OrNull(Get(e, "on"))])
        placed == With(v, "from" :> Head(tables))
    IN CASE tables = <<>> -> v
         [] joins = <<>> -> placed
         [] OTHER -> With(placed, "joins" :>
                Arr(Items(v, "joins") \o [i \in DOMAIN joins |-> JoinOf(joins[i])]))

\* string_to_object, inject_type_discriminator
FromObject(from) ==
    LET object == IF IsStr(from) THEN Obj([table |-> from]) ELSE from
    IN CASE ~IsObj(object) \/ Has(object, "type") -> object
         [] Has(object, "table") -> With(object, "type" :> Str("table"))
         [] Has(object, "query") -> With(object, "type" :> Str("subquery"))
         [] OTHER -> object

\* normalize, with fix_null_table: without a name the alias is the table.
TableShape(v) ==
    LET shaped == OnFields(FromArray(v), {"from"}, FromObject)
        from == Get(shaped, "from")
    IN CASE Get(from, "table") # Null -> shaped
         [] Text(from, "alias") # "" ->
                With(shaped, "from" :> With(from, "table" :> Get(from, "alias")))
         [] OTHER -> Without(shaped, {"from"})

-----------------------------------------------------------------------------
(* where_.rs                                                               *)

\* collapse_from_array: of a list of predicates, the first that has a type.
FirstTyped(v, field) ==
    LET typed == SelectSeq(Items(v, field), LAMBDA p : Has(p, "type"))
    IN CASE ~IsArr(Get(v, field)) -> v
         [] typed = <<>> -> Without(v, {field})
         [] OTHER -> With(v, field :> Head(typed))

TopLevelFields == {"order_by", "limit", "offset", "group_by", "having", "joins", "ctes"}

\* extract_top_level_fields: a clause inside WHERE is the plan's, unless the
\* plan has its own.
OutOfWhere(v) ==
    LET where == Get(v, "where")
        lost == {x \in TopLevelFields : Has(where, x) /\ ~Has(v, x)}
        found == {x \in lost : Filled(Get(where, x))}
        rest == Without(where, lost)
        moved == With(v, [x \in found |-> Get(where, x)])
    IN CASE ~IsObj(where) -> v
         [] rest.f = <<>> -> Without(moved, {"where"})
         [] OTHER -> With(moved, "where" :> rest)

\* normalize_flat_condition: {column, op, value} is a comparison.
FlatCondition(w) ==
    LET column == Get(w, "column")
        value == Get(w, "value")
        Kept(x) == IF Has(value, x) THEN x :> Get(value, x) ELSE <<>>
        right == CASE ~IsObj(value) -> Typed("literal", [value |-> value])
                   [] Has(value, "type") -> value
                   [] OTHER -> Typed("literal", Kept("value") @@ Kept("data_type"))
    IN IF (\E x \in {"type", "left"} : Has(w, x)) \/ (\E x \in {"column", "op", "value"} : ~Has(w, x))
       THEN w
       ELSE CompareJson(IF IsStr(column) THEN ColumnJson(column.x) ELSE column, Get(w, "op"), right)

\* wrap_bare_function_call: the first of HAVING and WHERE that is just a call.
BareCall(v) ==
    LET calls == SelectSeq(<<"having", "where">>, LAMBDA x : Type(Get(v, x)) = "function_call")
    IN IF calls = <<>> THEN v
       ELSE With(v, Head(calls) :> CompareJson(Get(v, Head(calls)), Str("gt"),
                                               LiteralJson(Num(0), "int")))

WhereShape(v) ==
    BareCall(FirstTyped(OnFields(OutOfWhere(FirstTyped(v, "where")), {"where"}, FlatCondition),
                        "having"))

-----------------------------------------------------------------------------
(* join.rs                                                                 *)

PlanLevelFields ==
    {"select", "from", "where", "group_by", "having", "order_by", "limit", "offset", "ctes"}

\* extract_plan_level_fields, apply_extracted_fields: as for WHERE.
OutOfJoins(v) ==
    LET joins == Items(v, "joins")
        With1(x) == SelectSeq(joins, LAMBDA j : Filled(Get(j, x)))
        found == {x \in PlanLevelFields : With1(x) # <<>> /\ ~Has(v, x)}
        rest == OnItems(v, "joins", LAMBDA j : IF IsObj(j) THEN Without(j, PlanLevelFields) ELSE j)
    IN IF ~IsObj(v) THEN v ELSE With(rest, [x \in found |-> Get(Head(With1(x)), x)])

\* string_right_table_to_object, infer_missing_right_table: what the right
\* side of the condition names, or the FROM table.
RightTable(j, from) ==
    LET told == Get(j, "right_table")
        named == Get(Get(Get(j, "on"), "right"), "table")
        table == IF IsStr(named) THEN named ELSE from
    IN CASE IsStr(told) -> With(j, "right_table" :> Obj([table |-> told]))
         [] told = Missing /\ IsObj(Get(j, "on")) /\ IsStr(table) ->
                With(j, "right_table" :> Obj([table |-> table]))
         [] OTHER -> j

\* singularize: one final s goes, except from these.
SingularWords ==
    {"series", "species", "status", "address", "addresses", "campus", "analysis", "diagnosis",
     "basis", "crisis", "thesis", "radius", "genus", "corpus", "axis", "gas", "bus", "is", "this",
     "items"}
Singular(x) ==
    IF x \in SingularWords \/ Len(x) < 2 \/ SubSeq(x, Len(x), Len(x)) # "s" THEN x
    ELSE SubSeq(x, 1, Len(x) - 1)

\* infer_missing_on: the foreign key is in the FROM table, by its name.
InferredOn(table, from) ==
    CompareJson(QualifiedJson(table, "id"), Str("eq"),
                IF IsStr(from) THEN QualifiedJson(from.x, Singular(table) \o "_id")
                ELSE ColumnJson(Singular(table) \o "_id"))

\* repair_bare_join_on: a lone column is compared with the other table's id.
BareOn(on, table) ==
    IF ~IsObj(on) \/ Has(on, "type") \/ ~Has(on, "column") THEN on
    ELSE CompareJson(With(on, "type" :> Str("column_ref")), Str("eq"), QualifiedJson(table, "id"))

\* repair_bare_join_on, infer_missing_on and, with 1 = 1, fix_empty_join_on
JoinCondition(j, from) ==
    LET table == Get(Get(j, "right_table"), "table")
        one == LiteralJson(Num(1), "int")
        OrOne(on) == IF on \in {Null, Obj(<<>>), Arr(<<>>), Str("")}
                     THEN CompareJson(one, Str("eq"), one) ELSE on
        Repaired(on) == OrOne(BareOn(on, IF IsStr(table) THEN table.x ELSE ""))
    IN IF ~Has(j, "on") /\ IsStr(table) THEN With(j, "on" :> InferredOn(table.x, from))
       ELSE OnFields(j, {"on"}, Repaired)

\* normalize, with strip_unknown_fields: what has no join_type is no join.
JoinShapes(v) ==
    LET lifted == OutOfJoins(v)
        from == Get(Get(lifted, "from"), "table")
        named == OnItems(lifted, "joins",
                         LAMBDA j : IF IsObj(j) THEN RightTable(j, from) ELSE j)
        joins == SelectSeq(Items(named, "joins"), LAMBDA j : Has(j, "join_type"))
        Only(j) == Obj(Restrict(j.f, DOMAIN j.f \cap {"join_type", "right_table", "on"}))
    IN CASE ~IsArr(Get(v, "joins")) -> v
         [] joins = <<>> -> Without(named, {"joins"})
         [] OTHER -> With(named, "joins" :>
                Arr([i \in DOMAIN joins |-> JoinCondition(Only(joins[i]), from)]))

-----------------------------------------------------------------------------
(* query.rs                                                                *)

PlanFields ==
    {"select", "from", "where", "group_by", "having", "order_by", "limit", "offset", "joins",
     "ctes", "distinct", "distinct_on", "set_operation"}

\* wrap_descending_expr
LooseOrder(v) ==
    LET direction == Get(v, "descending")
        rest == Without(v, {"expr", "descending"})
    IN CASE ~IsObj(v) \/ Has(v, "order_by") -> v
         [] Has(v, "expr") /\ direction.k = "bool" ->
                With(rest, "order_by" :>
                    Arr(<<Obj([expr |-> Get(v, "expr"), descending |-> direction])>>))
         [] OTHER -> rest

\* lift_nested_plan_fields: once more, for a WHERE that came out of a join;
\* and a WHERE of type "left" with a child is a negation.
NestedInWhere(v) ==
    LET where == Get(v, "where")
        found == {x \in TopLevelFields : Has(where, x) /\ ~Has(v, x)}
        rest == Without(where, found)
        negated == IF Type(where) = "left" /\ Has(where, "child")
                   THEN With(rest, "type" :> Str("not")) ELSE rest
    IN IF ~IsObj(where) THEN v
       ELSE With(v, [x \in found |-> Get(where, x)] @@ ("where" :> negated))

AggregateNames ==
    {"count", "sum", "avg", "min", "max", "string_agg", "array_agg", "jsonb_agg", "json_agg"}
PredicateTypes ==
    {"comparison", "and", "or", "not", "between", "in", "like", "is_null", "exists", "true", "false"}

\* sanitize_null_array_entries: no nulls, no aggregates among the groups, and
\* a HAVING only if it is a predicate.  (WHERE is not among the clauses the
\* loop is over.)
ValidClauses(v) ==
    LET cleaned == OnFields(v, {"order_by", "group_by", "having"}, WithoutNulls)
        grouped == OnFields(cleaned, {"group_by"}, LAMBDA g :
                       IF IsArr(g) THEN Arr(SelectSeq(g.s, LAMBDA x : Text(x, "name") \notin AggregateNames))
                       ELSE g)
    IN IF Type(Get(v, "having")) \notin PredicateTypes \cup {""}
       THEN Without(grouped, {"having"}) ELSE grouped

\* normalize_limit_offset: text that is a number (up to a bound) is one.
MaxNumber == 20
Numeric(v) ==
    LET values == {n \in 0..MaxNumber : v = Str(ToString(n))}
    IN IF values = {} THEN v ELSE Num(CHOOSE n \in values : TRUE)

QueryShape(v) ==
    LET lifted == NestedInWhere(LooseOrder(v))
        known == Obj(Restrict(lifted.f, DOMAIN lifted.f \cap PlanFields))
    IN IF ~IsObj(v) THEN v ELSE OnFields(ValidClauses(known), {"limit", "offset"}, Numeric)
=============================================================================
