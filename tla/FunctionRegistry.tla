-------------------------- MODULE FunctionRegistry --------------------------
(***************************************************************************)
(* vlorql-core/src/function: the functions the program knows, by canonical *)
(* name; names are looked up without regard to case, so a model value in   *)
(* capitals stands for every spelling.  max = Unbounded means no upper bound.    *)
(***************************************************************************)
EXTENDS Naturals

Unbounded == 99
Function(kind, min, max) == [kind |-> kind, min |-> min, max |-> max]

\* builtin_functions.  The ranking functions take no arguments.
Registry ==
    LET Unary(kind) == Function(kind, 1, 1)
    IN [COUNT |-> Function("aggregate", 0, 1), SUM |-> Unary("aggregate"),
        AVG |-> Unary("aggregate"), MIN |-> Unary("aggregate"), MAX |-> Unary("aggregate"),
        STRING_AGG |-> Function("aggregate", 2, 2), ARRAY_AGG |-> Unary("aggregate"),
        UPPER |-> Unary("scalar"), LOWER |-> Unary("scalar"), LENGTH |-> Unary("scalar"),
        SUBSTR |-> Function("scalar", 2, 3), COALESCE |-> Function("scalar", 1, Unbounded),
        CONCAT |-> Function("scalar", 1, Unbounded), ABS |-> Unary("scalar"),
        ROUND |-> Function("scalar", 1, 2), ROW_NUMBER |-> Function("window", 0, 0),
        RANK |-> Function("window", 0, 0), DENSE_RANK |-> Function("window", 0, 0)]

\* lookup_function
Known(name) == name \in DOMAIN Registry

\* The aggregates the fixes know, without asking the registry.
Aggregate(name) == name \in {"SUM", "COUNT", "AVG", "MIN", "MAX"}
=============================================================================
