----------------------------- MODULE PlanChecks -----------------------------
(***************************************************************************)
(* Four stages of validate/: schema.rs, every table and column a plan      *)
(* names exists, as far as that can be told without knowing what its CTEs  *)
(* return; operand.rs, types go together; dialect.rs, the plan uses only   *)
(* what the profile of the target dialect allows; audit.rs, identifiers    *)
(* that cannot be identifiers, and names the schema does not have.  A      *)
(* profile is                                                              *)
(*                                                                         *)
(*   [ctes, distinct, windows : BOOLEAN, maxJoins, maxGroup : Nat,         *)
(*    kinds, allowed, denied : sets]     {} allows every kind or function  *)
(*                                                                         *)
(* Only schema.rs goes into derived tables, and none of the four stages    *)
(* looks at what is right of a set operation or at DISTINCT ON.            *)
(***************************************************************************)
EXTENDS PlanScope, FunctionRegistry

CONSTANT Suspicious    \* the identifiers has_suspicious_pattern picks out

-----------------------------------------------------------------------------
(* schema.rs                                                               *)

\* table_not_in_scope_or_not_found
OutOfScope(table) ==
    Error(IF table \in DOMAIN Schema THEN "TableNotInScope" ELSE "TableNotFound", table)

\* validate_column_reference
SchemaColumn(column, scope) ==
    LET source == CHOOSE s \in SourceOf(scope, column.rel) : TRUE
        missing(table) == {Error("ColumnNotFound", <<table, column.name>>)}
    IN IF column.rel = ""
       THEN IF (\E t \in BaseTables(scope) : HasColumn(t, column.name)) \/ ReadsCte(scope)
            THEN {} ELSE missing(scope.sources[1].table)
       ELSE IF SourceOf(scope, column.rel) = {} THEN {OutOfScope(column.rel)}
       ELSE IF source.table \in BaseTables(scope) /\ ~HasColumn(source.table, column.name)
       THEN missing(source.table) ELSE {}

\* validate_subqueries_in_plan, _in_expression and _in_predicate: the calls of
\* known functions with too few or too many arguments, and the subqueries.
ArityErrors(plan) ==
    {Error("Arity", f.op) : f \in {f \in UNION {CallsAmong(Walked(t)) : t \in ReadTrees(plan)} :
        Known(f.op) /\ Len(f.kids) \notin Registry[f.op].min..Registry[f.op].max}}
SchemaQueries(plan) == UNION {WalkedQueries(t) : t \in ReadTrees(plan)}

\* validate_plan_with_outer.  The bodies of CTEs see no other CTE, and they
\* and derived tables nothing outside.
RECURSIVE SchemaErrorsIn(_, _)
SchemaErrorsIn(plan, scope) ==
    (IF plan.group # <<>> /\ HasStar(plan) THEN {Error("StarWithGroup", "")} ELSE {})
    \cup UNION {SchemaErrorsIn(c.query, ScopeOf(c.query))
                : c \in ToSet(plan.ctes) \cup ToSet(plan.derived)}
    \cup {Error("TableNotFound", s.table) : s \in {s \in ToSet(scope.sources) :
             s.table \notin scope.ctes /\ s.table \notin DOMAIN Schema}}
    \cup UNION {SchemaColumn(c, scope) : c \in References(plan)}
    \cup ArityErrors(plan)
    \cup UNION {SchemaErrorsIn(q, WithOuter(ScopeOf(q), scope)) : q \in SchemaQueries(plan)}

SchemaErrors(plan) == SchemaErrorsIn(plan, ScopeOf(plan))

-----------------------------------------------------------------------------
(* operand.rs: the operands of operators, comparisons and functions have   *)
(* types that go together.  A type that cannot be told, such as that of a  *)
(* CTE's column, is Untold and goes with everything.                       *)

Untold == "untold"
IsNumeric(type) == type \in {"int", "float", "decimal"}
AreNumeric(l, r) == {l, r} \subseteq {"int", "float", "decimal", "null"}
IsStringLike(type) == type \in {"string", "null"}

\* Mutation: a string goes with everything.
CompatibleWithText(l, r) == l = r \/ {"null", "string"} \cap {l, r} # {} \/ AreNumeric(l, r)

\* types_compatible
Compatible(l, r) == l = r \/ "null" \in {l, r} \/ AreNumeric(l, r)

NumericResult(l, r) ==
    CASE "float" \in {l, r} -> "float"
      [] "decimal" \in {l, r} -> "decimal"
      [] "int" \in {l, r} -> "int"
      [] OTHER -> "null"

\* literal_matches_type
LiteralMatches(type, json) ==
    CASE type = "int" -> json \in {"int", "huge"}
      [] type = "float" -> json \in {"int", "huge", "float"}
      [] type = "decimal" -> json \in {"int", "huge", "float", "string"}
      [] type \in {"date", "timestamp", "uuid"} -> json = "string"
      [] OTHER -> json = type

\* OperandScope::from_plan drops the sources nobody knows.
KnownSources(plan) ==
    LET scope == ScopeOf(plan)
    IN [scope EXCEPT !.sources =
           SelectSeq(@, LAMBDA s : s.table \in scope.ctes \cup DOMAIN Schema)]

\* resolve_column_type
ColumnType(column, scope) ==
    LET named == IF column.rel = "" THEN ToSet(scope.sources) ELSE SourceOf(scope, column.rel)
        having == SelectSeq(scope.sources, LAMBDA s :
                      s \in named /\ s.table \in BaseTables(scope) /\ HasColumn(s.table, column.name))
    IN IF having = <<>> THEN Untold ELSE Schema[having[1].table].columns[column.name]

\* What validate_function returns: for most the type of the first argument
\* that counts.
FunctionType(name, types) ==
    LET told(ts) == SelectSeq(ts, LAMBDA t : t \notin {Untold, "null"})
        first == IF types = <<>> \/ types[1] = Untold THEN "null" ELSE types[1]
    IN CASE name \in {"COUNT", "LENGTH"} -> "int"
         [] name = "AVG" -> "float"
         [] name \in {"SUM", "ABS", "MIN", "MAX"} -> first
         [] name \in {"UPPER", "LOWER", "CONCAT"} -> "string"
         [] name = "COALESCE" -> IF told(types) = <<>> THEN "null" ELSE told(types)[1]
         [] OTHER -> "null"

\* The type validate_expression_inner returns.
RECURSIVE TypeOf(_, _)
TypeOf(expr, scope) ==
    LET types == [i \in DOMAIN expr.kids |-> TypeOf(expr.kids[i], scope)]
        branches == {types[2], types[3]} \ {Untold}     \* of a CASE
    IN CASE expr.is = "literal" ->
                IF expr.type = "null" /\ expr.json # "null" THEN expr.json ELSE expr.type
         [] expr.is = "column" -> ColumnType(expr, scope)
         [] expr.is = "star" -> Untold
         [] expr.is = "binary" -> IF Untold \in ToSet(types) THEN Untold
                                  ELSE NumericResult(types[1], types[2])
         [] expr.is = "call" -> FunctionType(expr.op, types)
         [] expr.is = "window" -> FunctionType(expr.op, <<types[1]>>)
         [] expr.is = "case" -> IF branches = {} THEN Untold
                                ELSE IF Cardinality(branches) = 2 THEN "string"
                                ELSE CHOOSE t \in branches : TRUE
         [] expr.is = "subquery" -> Untold

\* What validate_function asks of its arguments.
FunctionErrors(name, types) ==
    LET told == {t \in ToSet(types) : t # Untold}
        first == {t \in told : t = types[1]}
        arity == CASE name = "COUNT" -> 0..1
                   [] name \in {"CONCAT", "COALESCE"} -> 1..Unbounded
                   [] name \in {"SUM", "AVG", "ABS", "MIN", "MAX", "UPPER", "LOWER", "LENGTH"} -> {1}
                   [] OTHER -> 0..Unbounded
        wrong == CASE name \in {"SUM", "AVG", "ABS"} -> {t \in first : ~IsNumeric(t) /\ t # "null"}
                   [] name \in {"UPPER", "LOWER", "LENGTH"} -> {t \in first : ~IsStringLike(t)}
                   [] name = "CONCAT" -> {t \in told : ~IsStringLike(t)}
                   [] name = "COALESCE" -> {t \in told : ~Compatible(FunctionType(name, types), t)}
                   [] OTHER -> {}
    IN IF Len(types) \in arity /\ wrong = {} THEN {} ELSE {Error("TypeMismatch", name)}

\* validate_binary_operation, validate_comparison, the values of IN and the
\* literals.
NodeErrors(tree, scope) ==
    LET types == [i \in DOMAIN tree.kids |-> TypeOf(tree.kids[i], scope)]
        told == Untold \notin ToSet(types)
        bad == CASE tree.is = "literal" ->
                        ~LiteralMatches(tree.type, tree.json) /\ tree.type # "null"
                 [] tree.is = "binary" -> told /\ ~AreNumeric(types[1], types[2])
                 [] tree.is = "compare" -> told /\ ~Compatible(types[1], types[2])
                 [] tree.is = "in" -> types[1] # Untold
                        /\ \E t \in ToSet(Tail(types)) \ {Untold} : ~Compatible(types[1], t)
                 [] OTHER -> FALSE
    IN IF tree.is = "call" THEN FunctionErrors(tree.op, types)
       ELSE IF tree.is = "window" THEN FunctionErrors(tree.op, <<types[1]>>)
       ELSE IF bad THEN {Error("TypeMismatch", tree.is)} ELSE {}

RECURSIVE TreeErrors(_, _), OperandErrors(_)
TreeErrors(tree, scope) ==
    (IF tree.is \in {"and", "or", "not", "isnull", "absent"} THEN {} ELSE NodeErrors(tree, scope))
    \cup UNION {OperandErrors(q) : q \in QueriesAmong({tree})}
    \cup UNION {TreeErrors(kid, scope) : kid \in ToSet(tree.kids)}

\* is_aggregate_call
AggregateCall(expr) == expr.is = "call" /\ Aggregate(expr.op)

\* validate_plan_inner.  An aggregate has no place in GROUP BY.
OperandErrors(plan) ==
    UNION {OperandErrors(c.query) : c \in ToSet(plan.ctes)}
    \cup UNION {TreeErrors(t, KnownSources(plan)) : t \in Trees(plan)}
    \cup {Error("AggregateInGroup", "") : t \in {t \in ToSet(plan.group) : AggregateCall(t)}}

-----------------------------------------------------------------------------
(* dialect.rs                                                              *)

\* The functions denied_functions and allowed_functions refuse.
Refused(profile, name) ==
    \/ name \in profile.denied
    \/ profile.allowed # {} /\ name \notin profile.allowed

\* is_column_in_group_by: qualifiers are compared if both are there.
InGroupBy(group, column) ==
    \E g \in ToSet(group) :
        g.is = "column" /\ g.name = column.name /\ (g.rel = column.rel \/ "" \in {g.rel, column.rel})

\* validate_select_group_by: of what is selected, stars and columns.
SelectGroupErrors(plan) ==
    {Error("AggregationMismatch", e) : e \in {e \in ToSet(Exprs(plan.select)) :
        /\ plan.group # <<>>
        /\ \/ e = Star
           \/ e.is = "column" /\ ~InGroupBy(plan.group, e)}}

\* validate_expression: the functions and window functions, down to the leaves.
FunctionUseErrors(profile, tree) ==
    LET windows == {w \in Nodes(tree) : w.is = "window"}
    IN {Error("InvalidFunction", f.op)
        : f \in {f \in Calls(tree) \cup windows : Refused(profile, f.op)}}
       \cup {Error("FeatureDisabled", "window functions")
             : w \in {w \in windows : ~profile.windows}}

FeatureErrors(profile, plan) ==
    LET Feature(used, name) == IF used THEN {Error("FeatureDisabled", name)} ELSE {}
    IN Feature(plan.ctes # <<>> /\ ~profile.ctes, "ctes")
       \cup Feature(Len(plan.joins) > profile.maxJoins, "joins")
       \cup Feature(profile.kinds # {} /\ \E j \in ToSet(plan.joins) : j.kind \notin profile.kinds,
                    "join kind")
       \cup Feature(Len(plan.group) > profile.maxGroup, "group by")
       \cup Feature(plan.distinct /\ ~profile.distinct, "distinct")

\* validate_inner; a subquery and a CTE are plans of their own.
RECURSIVE DialectErrors(_, _)
DialectErrors(profile, plan) ==
    FeatureErrors(profile, plan)
    \cup SelectGroupErrors(plan)
    \cup UNION {FunctionUseErrors(profile, t) : t \in Trees(plan)}
    \cup UNION {DialectErrors(profile, q) :
                q \in {c.query : c \in ToSet(plan.ctes)}
                      \cup UNION {Subqueries(t) : t \in Trees(plan)}}

-----------------------------------------------------------------------------
(* audit.rs: what the audits of CTEs and subqueries find is logged and     *)
(* dropped.                                                                *)

Odd(name) == IF name \in Suspicious THEN {Error("SuspiciousPattern", name)} ELSE {}

\* audit_from: an alias keeps an unknown table from being reported.  A derived
\* table is not looked at.
AuditSource(source) ==
    Odd(source.table)
    \cup (IF source.as = "" /\ source.table \notin DOMAIN Schema
          THEN {Error("IdentifierNotFound", source.table)} ELSE {})

\* The column is of the table it names, if that exists, or of any table.
AuditColumn(column) ==
    LET found == IF column.rel = "" THEN \E t \in DOMAIN Schema : HasColumn(t, column.name)
                 ELSE column.rel \notin DOMAIN Schema \/ HasColumn(column.rel, column.name)
    IN Odd(column.name)
       \cup (IF found THEN {} ELSE {Error("IdentifierNotFound", column.name)})

\* audit_projection: the alias of a plain column keeps it from being looked up.
AuditProjection(p) ==
    IF p.expr.is = "column" /\ p.as # "" THEN Odd(p.expr.name)
    ELSE UNION {AuditColumn(c) : c \in AllColumns(p.expr)}

\* audit_expression and audit_predicate
AuditTree(tree) == UNION {AuditColumn(c) : c \in AllColumns(tree)}

\* AuditStage::audit; the conditions of joins are not looked at.
AuditErrors(plan) ==
    UNION {AuditSource(s) : s \in {s \in ToSet(Relations(plan)) :
               \A d \in ToSet(plan.derived) : d.name # s.table}}
    \cup UNION {Odd(c.name) : c \in ToSet(plan.ctes)}
    \cup UNION {AuditProjection(p) : p \in ToSet(plan.select)}
    \cup UNION {AuditTree(t) :
                t \in Trees([plan EXCEPT !.select = <<>>, !.joins = <<>>])}
=============================================================================
