---------------------------- MODULE SqlCompiler ----------------------------
(***************************************************************************)
(* compile/builder: a plan becomes SQL text.  The text is kept as the plan *)
(* it says, with the qualifiers the builder wrote; quoting, keywords and   *)
(* the CASTs put around the placeholders of a CTE are left out.  What is   *)
(* bound to the placeholders is ValidationPipeline.                        *)
(***************************************************************************)
EXTENDS PlanVisitors, TLC

-----------------------------------------------------------------------------
(* Qualifiers.                                                             *)

\* Mutation: a later relation takes over the name of an earlier one's table.
CollectAliasesOfLast(plan) ==
    FoldLeft(LAMBDA map, r : (Key(r) :> Key(r)) @@ (r.table :> Key(r)) @@ map,
             <<>>, Relations(plan))

\* collect_aliases: what a qualifier is written as.  A table's name stands
\* for the first relation on it, an alias for itself.
CollectAliases(plan) ==
    FoldLeft(LAMBDA map, r : IF r.as = "" THEN map @@ (r.table :> r.table)
                             ELSE (r.as :> r.as) @@ map @@ (r.table :> r.as),
             <<>>, Relations(plan))

\* resolve_alias: the innermost scope's names, in a CTE those around it too.
ResolveAlias(own, outer, inCte) == IF inCte THEN own @@ outer ELSE own

\* render_expression and render_predicate: a tree with its qualifiers
\* resolved.  `outer` is what the scopes around define, the inner ones first.
RECURSIVE Render(_, _, _, _), BuildQuery(_, _, _)
Render(tree, own, outer, inCte) ==
    LET names == ResolveAlias(own, outer, inCte)
        inside == [tree EXCEPT !.kids = [i \in DOMAIN @ |-> Render(@[i], own, outer, inCte)]]
    IN IF tree.is = "column" /\ tree.rel \in DOMAIN names THEN [tree EXCEPT !.rel = names[@]]
       ELSE IF "query" \in DOMAIN tree
       THEN [inside EXCEPT !.query = BuildQuery(@, own @@ outer, inCte)] ELSE inside

\* build_query: clause after clause.  A cross join has no condition, and what
\* is right of a set operation neither an order nor a limit.
BuildQuery(plan, outer, inCte) ==
    LET own == CollectAliases(plan)
        Rendered(tree) == Render(tree, own, outer, inCte)
        Inner(query, cte) == BuildQuery(query, own @@ outer, cte)
        Right(query) == Inner([query EXCEPT !.order = <<>>, !.limit = NoLimit], inCte)
        Conditioned(join) == IF join.kind = "cross" THEN [join EXCEPT !.on = Absent] ELSE join
    IN [InClauses([plan EXCEPT !.joins = [i \in DOMAIN @ |-> Conditioned(@[i])]],
                  [i \in DOMAIN plan.ctes |-> Inner(plan.ctes[i].query, TRUE)],
                  [i \in DOMAIN plan.sets |-> Right(plan.sets[i].right)], Rendered, Rendered)
           EXCEPT !.derived = [i \in DOMAIN @ |-> [@[i] EXCEPT !.query = Inner(@, inCte)]],
                  !.distinctOn = IF plan.distinct
                                 THEN [i \in DOMAIN @ |-> Rendered(@[i])] ELSE <<>>]

-----------------------------------------------------------------------------
(* Literals.                                                               *)

\* The literals of a rendered plan, in the order of its text.
RECURSIVE TextLiterals(_), TreeLiterals(_)
TreeLiterals(tree) ==
    (IF tree.is = "literal" THEN <<tree>> ELSE <<>>)
    \o FlattenSeq([i \in DOMAIN tree.kids |-> TreeLiterals(tree.kids[i])])
    \o (IF "query" \in DOMAIN tree THEN TextLiterals(tree.query) ELSE <<>>)
TextLiterals(plan) ==
    LET InTrees(trees) == FlattenSeq([i \in DOMAIN trees |-> TreeLiterals(trees[i])])
        InQueries(items) == FlattenSeq([i \in DOMAIN items |-> TextLiterals(items[i].query)])
        Derived(relation) ==
            InQueries(SelectSeq(plan.derived, LAMBDA d : d.name = relation.table))
        joined == FlattenSeq([i \in DOMAIN plan.joins |->
                                 Derived(plan.joins[i]) \o TreeLiterals(plan.joins[i].on)])
        rights == FlattenSeq([i \in DOMAIN plan.sets |-> TextLiterals(plan.sets[i].right)])
    IN InQueries(plan.ctes) \o InTrees(plan.distinctOn) \o InTrees(Exprs(plan.select))
       \o Derived(plan.from) \o joined
       \o InTrees(<<plan.where>> \o plan.group \o <<plan.having>>)
       \o rights \o InTrees(Exprs(plan.order))
       \o (IF plan.limit = NoLimit THEN <<>> ELSE <<Number(plan.limit)>>)

-----------------------------------------------------------------------------
\* All queries the builder writes for a plan, itself included.
RECURSIVE Queries(_)
Queries(plan) ==
    {plan} \cup UNION {Queries(q) :
        q \in {c.query : c \in ToSet(plan.ctes) \cup ToSet(plan.derived)}
              \cup {s.right : s \in ToSet(plan.sets)}
              \cup UNION {Subqueries(t) : t \in WrittenTrees(plan)}}

\* What build refuses.
CompileErrors(plan, dialect) ==
    LET Found(error, Wrong(_)) == IF \E q \in Queries(plan) : Wrong(q) THEN {error} ELSE {}
        Full(q) == \E j \in ToSet(q.joins) : j.kind = "full"
        EmptyIn(q) == \E t \in WrittenTrees(q) :
                          \E n \in Nodes(t) : n.is = "in" /\ Len(n.kids) = 1
    IN Found("empty_select_list", LAMBDA q : q.select = <<>>)
       \cup Found("unsupported_full_join", LAMBDA q : dialect = "mysql" /\ Full(q))
       \cup Found("unsupported_distinct_on",
                  LAMBDA q : dialect # "postgres" /\ q.distinct /\ q.distinctOn # <<>>)
       \cup Found("empty_in_list", EmptyIn)

\* The builder opens the plan's own scope twice: in new and in build_query.
SqlOf(plan) == BuildQuery(plan, CollectAliases(plan), FALSE)
=============================================================================
