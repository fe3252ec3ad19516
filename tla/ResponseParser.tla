--------------------------- MODULE ResponseParser ---------------------------
(***************************************************************************)
(* parser_v2/pipeline.rs: what a model wrote becomes a plan, stage by      *)
(* stage, or the first stage's error.  parse_query_plan does every stage,  *)
(* the lenient one leaves out validation and the debug one the repair of   *)
(* a text that was cut off.  The check against the JSON schema only logs.  *)
(***************************************************************************)
EXTENDS PlanBuilder, ParserFixes

\* The answers: [raw, json, plan, means, scope] where `raw` is what the model
\* wrote, `json` the object it meant by it, `plan` the plan that says (a set,
\* empty where the answer is no plan), `means` the plan whose rows it asks for
\* (empty where SQL gives it no meaning) and `scope` the tables to try it on.
CONSTANTS Answers,
          Modes,     \* of "strict", "lenient", "debug"
          Small      \* whether the model may be one of the small ones

VARIABLES answer, mode, small,
          stage,     \* what was done last, or the error
          text,      \* the JSON text
          value,     \* the normalised JSON
          plan       \* the plan, as a set of at most one

vars == <<answer, mode, small, stage, text, value, plan>>

Init ==
    /\ answer \in Answers /\ mode \in Modes /\ small \in Small
    /\ stage = "raw"
    /\ text = answer.raw
    /\ value = Missing
    /\ plan = {}

Given == UNCHANGED <<answer, mode, small>>

Recover ==
    /\ stage = "raw"
    /\ stage' = "recovered"
    /\ text' = LET found == ExtractJson(text)
               IN IF mode = "debug" THEN found ELSE RepairTruncated(found)
    /\ Given /\ UNCHANGED <<value, plan>>

InvalidJson ==
    /\ stage = "recovered" /\ ~IsJson(text)
    /\ stage' = "InvalidJson"
    /\ Given /\ UNCHANGED <<text, value, plan>>

NormalizeAnswer ==
    /\ stage = "recovered"
    /\ \E v \in Decoded(text) : value' = NormalizeForModel(v, small)
    /\ stage' = "normalized"
    /\ Given /\ UNCHANGED <<text, plan>>

Build ==
    /\ stage = "normalized"
    /\ plan' = BuildPlan(value)
    /\ stage' = IF plan' = Refused THEN "BuildError" ELSE "built"
    /\ Given /\ UNCHANGED <<text, value>>

Fix ==
    /\ stage = "built"
    /\ plan' = {FixPlan(p) : p \in plan}
    /\ stage' = "fixed"
    /\ Given /\ UNCHANGED <<text, value>>

Validate ==
    /\ stage = "fixed" /\ mode # "lenient"
    /\ stage' = IF \A p \in plan : ValidatePlan(p) = {} THEN "valid" ELSE "ValidationErrors"
    /\ Given /\ UNCHANGED <<text, value, plan>>

Optimize ==
    /\ stage = IF mode = "lenient" THEN "fixed" ELSE "valid"
    /\ plan' = {OptimizePlan(p) : p \in plan}
    /\ stage' = "parsed"
    /\ Given /\ UNCHANGED <<text, value>>

Next == Recover \/ InvalidJson \/ NormalizeAnswer \/ Build \/ Fix \/ Validate \/ Optimize

Spec == Init /\ [][Next]_vars

-----------------------------------------------------------------------------
(* Safety.                                                                 *)

Sql == INSTANCE SqlCompiler
Database == INSTANCE SqlRows

Rows(p) == Database!Evaluate(Sql!SqlOf(p), answer.scope)

\* A text that lost its last brackets, and the plans in a plan.
CutOff(raw) == Depth(raw) > 0
InnerPlans(p) ==
    {c.query : c \in ToSet(p.ctes)} \cup {s.right : s \in ToSet(p.sets)}
    \cup UNION {Subqueries(t) : t \in Trees(p)}

\* A cut-off text whose only complete plans are those in the one it meant.
OnlyInnerIsWhole == CutOff(answer.raw) /\ \E p \in answer.plan : InnerPlans(p) # {}

\* Of everything a model may write around its answer, the object that is read
\* is the one it meant, and a text that lost its last brackets is only closed,
\* unless a plan in the plan is complete, which is read instead.
RecoveredIsTheAnswer ==
    stage = "recovered" /\ answer.plan # {} /\ mode # "debug" /\ ~OnlyInnerIsWhole =>
        answer.json \in Decoded(text)

\* bracket.rs: the repair "handles the case where the LLM outputs a plan whose
\* final `}` is cut off".
CutOffIsRepaired ==
    stage = "recovered" /\ answer.plan # {} /\ mode # "debug" => answer.json \in Decoded(text)

\* However the fields are spelled and nested, the plan that is built is the one
\* meant: none is refused and none misread.  (Of the spellings of the answers;
\* an array of predicates in WHERE, or an `and` of three, loses some.)
SpellingsAgree ==
    stage \in {"built", "BuildError"} /\ answer.plan # {} /\ ~OnlyInnerIsWhole =>
        plan = answer.plan

\* Normalised JSON is in the form normalising gives: no repair undoes or waits
\* for another.  (The query of a CTE is normalised again, inside the plan's.)
NormalizedIsSettled == stage = "normalized" => Normalize(value) = value

\* Plans with a meaning that the fixes and the optimizations do not leave them:
\* groups without an aggregate gain one, a column under two names keeps one,
\* columns of one name count as one column when they are compared, and a table
\* that gets an alias is no longer known by its name to a query inside.
Reshaped(p) ==
    LET inner == UNION {AllColumns(t) : t \in UNION {Trees(q) : q \in InnerPlans(p)}}
    IN \/ p.group # <<>> /\ ~ \E e \in ToSet(Exprs(p.select)) : AggregateExpr(e)
       \/ \E i, j \in DOMAIN p.select :
              /\ IsColumn(p.select[i].expr) /\ p.select[i].expr = p.select[j].expr
              /\ p.select[i].as # p.select[j].as
       \/ \E t \in Trees(p) : \E n \in Nodes(t) :
              /\ n.is = "compare" /\ IsColumn(n.kids[1]) /\ IsColumn(n.kids[2])
              /\ n.kids[1].name = n.kids[2].name
       \/ \E r \in ToSet(Relations(p)), c \in inner : r.as = "" /\ c.rel = r.table

Kept ==
    LET known == [t \in DOMAIN answer.scope |-> answer.scope[t].columns]
    IN \A p \in plan, q \in answer.means :
           /\ Database!NamesResolve(Sql!SqlOf(p), known)
           /\ Database!SameRows(Rows(p), Rows(q))

\* The fixes and the optimizations give the rows that were meant, where they
\* leave a plan its meaning, and no plan that has a meaning is refused.
RowsAreKept ==
    /\ stage = "ValidationErrors" => answer.means = {}
    /\ stage = "parsed" /\ ~OnlyInnerIsWhole /\ (\A p \in answer.plan : ~Reshaped(p)) => Kept

\* fixer/mod.rs: the fixes are "safe" and "universally safe defaults";
\* optimize/mod.rs: the transformations are "semantic-preserving".
MeaningIsKept == stage = "parsed" => Kept
=============================================================================
