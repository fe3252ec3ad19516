---------------------------- MODULE PlanVisitors ----------------------------
(***************************************************************************)
(* optimizer/{analyze,visitor}.rs: what the rewrite rules, and the         *)
(* compiler, look trees through with and change them by.                   *)
(***************************************************************************)
EXTENDS PlanTree

\* split_conjuncts
RECURSIVE Split(_)
Split(pred) ==
    CASE pred.is = "absent" -> <<>>
      [] pred.is = "and" -> Split(pred.kids[1]) \o Split(pred.kids[2])
      [] OTHER -> <<pred>>

\* columns_in_predicate.  Of a query every clause is visited, but not what is
\* right of its set operation; of what it selects no column shows.
RECURSIVE ColumnsIn(_), ColumnsInClauses(_)
ColumnsIn(tree) ==
    IF ~IsPredicate(tree) THEN ColumnsOf(tree)
    ELSE UNION {ColumnsIn(kid) : kid \in ToSet(tree.kids)}
         \cup UNION {ColumnsInClauses(q) : q \in QueriesAmong({tree})}
ColumnsInClauses(query) ==
    UNION {ColumnsIn(t) : t \in Trees([query EXCEPT !.select = <<>>])}
    \cup UNION {ColumnsInClauses(c.query) : c \in ToSet(query.ctes)}

ReferencedTables(pred) == {c.rel : c \in ColumnsIn(pred)}

\* ExpressionFold with the folders of pushdown.rs: columns with the qualifier
\* `from`, or with any, get another.  What default_fold_expression takes for a
\* leaf stays as it is, and so do the queries of predicates; in a scalar
\* subquery the columns it selects as they are stay too.
AnyName == "*"

RECURSIVE Requalify(_, _, _), RequalifyQuery(_, _, _)
Requalify(tree, from, to) ==
    CASE tree.is = "column" /\ from \in {tree.rel, AnyName} -> [tree EXCEPT !.rel = to]
      [] tree.is \in {"column", "case", "window"} -> tree
      [] tree.is = "subquery" -> [tree EXCEPT !.query = RequalifyQuery(@, from, to)]
      [] OTHER -> [tree EXCEPT !.kids = [i \in DOMAIN @ |-> Requalify(@[i], from, to)]]
RequalifyQuery(query, from, to) ==
    LET Tree(t) == Requalify(t, from, to)
        Item(p) == IF p.expr.is = "column" THEN p ELSE [p EXCEPT !.expr = Tree(@)]
    IN [InClauses(query,
                  [i \in DOMAIN query.ctes |-> RequalifyQuery(query.ctes[i].query, from, to)],
                  [i \in DOMAIN query.sets |-> RequalifyQuery(query.sets[i].right, from, to)],
                  Tree, Tree)
           EXCEPT !.select = [i \in DOMAIN query.select |-> Item(query.select[i])]]
=============================================================================
