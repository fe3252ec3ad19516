--------------------------- MODULE QueryOptimizer ---------------------------
(***************************************************************************)
(* QueryOptimizer::optimize_async (optimizer/mod.rs): the rewrite pipeline *)
(* of constant folding, predicate pushdown and column pruning, then join   *)
(* reordering, on one plan.  Estimated costs are not computed; the cost    *)
(* model may prefer any order its search can find.                         *)
(***************************************************************************)
EXTENDS RewriteRules, SqlRows

CONSTANTS
    Inputs,      \* the plans to optimize
    Databases    \* scopes to compare results on

VARIABLES original, plan, stage

vars == <<original, plan, stage>>

Init ==
    /\ original \in Inputs
    /\ plan = original
    /\ stage = "fold"

\* RewriterPipeline::rewrite: each rule gets what the one before it returned.
Step(from, result, to) ==
    /\ stage = from
    /\ plan' = result
    /\ stage' = to
    /\ UNCHANGED original

ApplyFolding == Step("fold", Fold(plan), "push")
ApplyPushdown == Step("push", PushDown(plan), "prune")
ApplyPruning == Step("prune", Prune(plan), "reorder")

-----------------------------------------------------------------------------
(* Join reordering.                                                        *)

OnConjuncts(p) == FlattenSeq([i \in DOMAIN p.joins |-> Split(p.joins[i].on)])

Keys(p) == [i \in DOMAIN Relations(p) |-> Key(Relations(p)[i])]

Graph(p) == INSTANCE JoinOrder WITH
    N <- Len(Relations(p)),
    Conjunct <- DOMAIN OnConjuncts(p),
    Tables <- [c \in DOMAIN OnConjuncts(p) |->
                  {i \in DOMAIN Keys(p) : Keys(p)[i] \in ReferencedTables(OnConjuncts(p)[c])}],
    Ambiguous <- {c \in DOMAIN OnConjuncts(p) :
                     ~(ReferencedTables(OnConjuncts(p)[c]) \subseteq ToSet(Keys(p)))}

\* Mutation: outer joins are reordered too.
ReorderableAnyKind(p) ==
    /\ p.joins # <<>>
    /\ IsInjective(Keys(p))
    /\ Graph(p)!Connected

\* JoinGraph::build
Reorderable(p) ==
    /\ p.joins # <<>>
    /\ \A j \in ToSet(p.joins) : j.kind = "inner"
    /\ IsInjective(Keys(p))
    /\ Graph(p)!Connected

\* rewrite_plan: the FROM clause in another order, with the conjuncts of
\* every ON clause dealt out anew.
Rewritten(p, order) ==
    LET relations == Relations(p)
        At(i) == SelectSeq([c \in DOMAIN OnConjuncts(p) |-> c],
                           LAMBDA c : Graph(p)!StepOf(order, c) = i)
        On(i) == LET ps == [n \in DOMAIN At(i) |-> OnConjuncts(p)[At(i)[n]]]
                 IN IF ps = <<>> THEN Compare(Number(1), "=", Number(1)) ELSE Combine(ps)
    IN [p EXCEPT
           !.from = relations[order[1]],
           !.joins = [i \in DOMAIN @ |->
               [kind |-> "inner", table |-> relations[order[i + 1]].table,
                as |-> relations[order[i + 1]].as, on |-> On(i + 1)]]]

\* reorder: the plan as it is, or in a cheaper order.
Reorder ==
    /\ stage = "reorder"
    /\ \/ plan' = plan
       \/ /\ Reorderable(plan)
          /\ \E order \in [1..Len(Relations(plan)) -> 1..Len(Relations(plan))] :
                /\ Graph(plan)!Found(order)
                /\ \E i \in DOMAIN order : order[i] # i
                /\ plan' = Rewritten(plan, order)
    /\ stage' = "done"
    /\ UNCHANGED original

Next == ApplyFolding \/ ApplyPushdown \/ ApplyPruning \/ Reorder

Spec == Init /\ [][Next]_vars
-----------------------------------------------------------------------------
NamesIn(db) == [t \in DOMAIN db |-> db[t].columns]

\* The optimizer gets validated plans and hands out plans the database still
\* understands: whatever moved, was renamed, dropped or reordered, every name
\* stands for one column in the place where it now is.
NamesStillResolve ==
    \A db \in Databases :
        NamesResolve(original, NamesIn(db)) => NamesResolve(plan, NamesIn(db))

SameResult(p, q) ==
    \A db \in Databases : SameRows(Evaluate(p, db), Evaluate(q, db))

\* rules.rs: a rewriter "returns a semantically-equivalent plan": after every
\* rule the plan returns the rows it returned at first, as often as then.
RowsSurvive ==
    (\A db \in Databases : NamesResolve(plan, NamesIn(db))) => SameResult(plan, original)

\* One round is enough: repeat_until_stable finds nothing more to do after
\* it, so that optimize and optimize_repeat agree.
OneRoundSettles ==
    stage \in {"reorder", "done"} => Prune(PushDown(Fold(plan))) = plan

\* pushdown.rs: "the rewrite can only ever move a filter earlier, never change
\* which rows survive it".
PushdownOnlyMoves ==
    [][stage = "push" /\ (\A db \in Databases : NamesResolve(plan', NamesIn(db)))
       => SameResult(plan, plan')]_vars
=============================================================================
