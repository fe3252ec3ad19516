------------------------- MODULE ValidationPipeline -------------------------
(***************************************************************************)
(* ValidationPipeline (vlorql-core/src/validate/pipeline.rs) on one plan:  *)
(* the repairs, the stages, the row filters, and what query() has behind   *)
(* them: the optimizer, the compiler of a dialect and its executor.        *)
(* validate_repairing is what query() calls, validate is validate_only;    *)
(* `entry` tells them apart.                                               *)
(*                                                                         *)
(* The policy, the row filters and the binding of literals are modelled    *)
(* here; the other stages are functions of the plan, parameters that       *)
(* PlanFixes, PlanChecks, RewriteRules and SqlCompiler give their values   *)
(* (see PlanMeaning).  What holds for every value of theirs is proved in   *)
(* ValidationPipeline_proof.                                               *)
(***************************************************************************)
EXTENDS PolicyEngine

CONSTANTS
    Inputs,                    \* the plans handed in
    Configs,                   \* [policy, profile, audit, entry]
    Dialects,
    WithoutUnknownJoins(_),    \* the plan after each of the repairs; the one
    WithParsedColumns(_),      \* that adds joins has a set of plans, which is
    WithMovedColumns(_),       \* empty when there is nothing to add
    WithOneMoreJoin(_),
    WithFlatAggregates(_),
    WithFullGroups(_),
    DropsUnnamed(_),           \* whether a repair of the joins meets a relation
    JoinsUnnamed(_),           \* it takes for a table and that is none
    FoundBySchema(_),          \* what each stage finds wrong with a plan,
    FoundByOperands(_),
    FoundByDialect(_, _),      \* given the profile too
    FoundByAudit(_),
    Optimized(_),              \* the plan after the rewrite rules
    SqlFor(_),                 \* its SQL,
    LiteralsIn(_),             \* the list of literals in the SQL, in order,
    RefusedBy(_, _)            \* and what the compiler of a dialect refuses

ASSUME EntryAssumption == \A c \in Configs : c.entry \in {"repair", "columns"}

VARIABLES
    original,    \* the plan handed in
    config,      \* [policy, profile, audit, entry]
    plan,        \* the working copy
    stage,       \* what is next
    errors,      \* found so far
    statement,   \* the compiled query, once there is one
    sent         \* the values its placeholders had in the database

output == <<statement, sent>>
vars == <<original, config, plan, stage, errors, output>>

Init ==
    /\ original \in Inputs
    /\ config \in Configs
    /\ plan = original
    /\ stage = config.entry
    /\ errors = {}
    /\ statement = <<>>
    /\ sent = <<>>

\* One step of the working copy, and one stage that only looks at it.
Rewrite(from, result, to) ==
    /\ stage = from
    /\ plan' = result
    /\ stage' = to
    /\ UNCHANGED <<original, config, errors, output>>

Check(from, found, to) ==
    /\ stage = from
    /\ errors' = errors \cup found
    /\ stage' = to
    /\ UNCHANGED <<original, config, plan, output>>

-----------------------------------------------------------------------------
(* validate_repairing: hallucinated joins go, and the audit comes first.   *)

\* The repairs of joins panic at a derived table.
Panic(in) ==
    /\ stage = in
    /\ stage' = "panicked"
    /\ UNCHANGED <<original, config, plan, errors, output>>

RepairJoins ==
    IF DropsUnnamed(plan) THEN Panic("repair")
    ELSE Rewrite("repair", WithoutUnknownJoins(plan), "preaudit")

\* Suspicious patterns refuse a plan for good.
IsCritical(error) == error.kind = "SuspiciousPattern"

AuditRepaired ==
    /\ stage = "preaudit"
    /\ LET found == IF config.audit THEN FoundByAudit(plan) ELSE {}
           critical == {e \in found : IsCritical(e)}
       IN /\ errors' = IF critical # {} THEN critical ELSE found
          /\ stage' = IF found = {} THEN "columns" ELSE "refused"
    /\ UNCHANGED <<original, config, plan, output>>

-----------------------------------------------------------------------------
(* validate: schema_aware_fix, then four stages and the audit, all of them *)
(* whatever those before them found.                                       *)

ParseColumns == Rewrite("columns", WithParsedColumns(plan), "tables")
MoveColumns == Rewrite("tables", WithMovedColumns(plan), "joins")

AddJoin ==
    /\ stage = "joins"
    /\ IF JoinsUnnamed(plan) THEN stage' = "panicked" /\ UNCHANGED plan
       ELSE IF WithOneMoreJoin(plan) = {} THEN stage' = "aggregates" /\ UNCHANGED plan
       ELSE plan' \in WithOneMoreJoin(plan) /\ UNCHANGED stage
    /\ UNCHANGED <<original, config, errors, output>>

UnnestAggregates == Rewrite("aggregates", WithFlatAggregates(plan), "groups")
CompleteGroups == Rewrite("groups", WithFullGroups(plan), "schema")

CheckSchema == Check("schema", FoundBySchema(plan), "policy")
CheckPolicy == Check("policy", PolicyErrors(config.policy, plan), "operand")
CheckOperands == Check("operand", FoundByOperands(plan), "dialect")
CheckDialect == Check("dialect", FoundByDialect(config.profile, plan), "audit")

\* Suspicious identifiers are all the caller hears of.
Audit ==
    /\ stage = "audit"
    /\ LET found == IF config.audit THEN FoundByAudit(plan) ELSE {}
           critical == {e \in found : IsCritical(e)}
       IN /\ errors' = IF critical # {} THEN critical ELSE errors \cup found
          /\ stage' = IF errors' = {} THEN "filter" ELSE "refused"
    /\ UNCHANGED <<original, config, plan, output>>

\* The row filters go behind the WHERE there is.
AddRowFilters ==
    LET filters == RowFilters(config.policy, plan)
        filter == Combine(filters)
    IN Rewrite("filter",
               IF filters = <<>> THEN plan
               ELSE [plan EXCEPT !.where = IF @ = Absent THEN filter ELSE And(@, filter)],
               "recheck")

\* The filters may name what is not there.
CheckFiltered ==
    /\ stage = "recheck"
    /\ errors' = FoundBySchema(plan)
    /\ stage' = IF errors' = {} THEN "validated" ELSE "refused"
    /\ UNCHANGED <<original, config, plan, output>>

-----------------------------------------------------------------------------
(* validate_and_optimize, and query() likewise: the rules, then the policy *)
(* once more.                                                              *)

Optimize == Rewrite("validated", Optimized(plan), "optimized")

CheckOptimized ==
    /\ stage = "optimized"
    /\ errors' = PolicyErrors(config.policy, plan)
    /\ stage' = IF errors' = {} THEN "done" ELSE "refused"
    /\ UNCHANGED <<original, config, plan, output>>

-----------------------------------------------------------------------------
(* The rest of query(): one dialect's compiler and executor.  The compiler *)
(* writes a placeholder for every literal and lists the values to bind.    *)

\* The dialects whose placeholders name their parameter ($1, $2, ...); the
\* others write `?` for each.
Numbered(dialect) == dialect = "postgres"

\* Mutation: a literal met before gets the placeholder before its own.
AddParameterTooEarly(bound, literal) ==
    LET known == {i \in DOMAIN bound.parameters : bound.parameters[i] = literal}
    IN IF known = {}
       THEN [parameters |-> Append(bound.parameters, literal),
             marks |-> Append(bound.marks, Len(bound.parameters) + 1)]
       ELSE [bound EXCEPT !.marks =
                Append(@, LET i == CHOOSE i \in known : TRUE IN IF i > 1 THEN i - 1 ELSE i)]

\* A value and type that were bound before share their parameter.
AddParameter(bound, literal) ==
    LET known == {i \in DOMAIN bound.parameters : bound.parameters[i] = literal}
    IN IF known = {}
       THEN [parameters |-> Append(bound.parameters, literal),
             marks |-> Append(bound.marks, Len(bound.parameters) + 1)]
       ELSE [bound EXCEPT !.marks = Append(@, CHOOSE i \in known : TRUE)]

\* The literals in the order of the text, one after the other.
Bind(literals) ==
    LET bound[i \in 0..Len(literals)] ==
            IF i = 0 THEN [parameters |-> <<>>, marks |-> <<>>]
            ELSE AddParameter(bound[i - 1], literals[i])
    IN bound[Len(literals)]

Compile(p, dialect) ==
    LET bound == Bind(LiteralsIn(SqlFor(p)))
    IN [dialect |-> dialect, sql |-> SqlFor(p), parameters |-> bound.parameters,
        marks |-> IF Numbered(dialect) THEN bound.marks
                  ELSE [i \in DOMAIN bound.marks |-> 0]]

CompilePlan ==
    /\ stage = "done"
    /\ \E dialect \in Dialects :
          LET refused == RefusedBy(plan, dialect)
          IN /\ statement' = IF refused = {} THEN Compile(plan, dialect) ELSE <<>>
             /\ errors' = refused
             /\ stage' = IF refused = {} THEN "compiled" ELSE "refused"
    /\ UNCHANGED <<original, config, plan, sent>>

\* vlorql/src/execute: what the executors put in the place of a compiled
\* query's placeholders.  A value on the wire is [json, n].
Unbound == [json |-> "unbound", n |-> 0]
WireValue(literal) == [json |-> literal.json, n |-> literal.n]

\* param_to_owned: whole numbers go through as_i64, which reads neither a float
\* nor an integer too large for it.  The floats of a plan are whole here.
Zeroed == {"float", "huge"}
ParamToOwned(literal) ==
    IF literal.json \in Zeroed THEN [json |-> "int", n |-> 0]
    ELSE WireValue(literal)

\* PgExecutor binds all parameters; SqlxExecutor, for MySQL and SQLite, hands
\* over the text alone.
Sent(query) ==
    [i \in DOMAIN query.marks |->
        IF query.dialect = "postgres"
        THEN ParamToOwned(query.parameters[query.marks[i]])
        ELSE Unbound]

Execute ==
    /\ stage = "compiled"
    /\ sent' = Sent(statement)
    /\ stage' = "sent"
    /\ UNCHANGED <<original, config, plan, errors, statement>>

Next ==
    \/ RepairJoins \/ AuditRepaired
    \/ ParseColumns \/ MoveColumns \/ AddJoin \/ UnnestAggregates \/ CompleteGroups
    \/ CheckSchema \/ CheckPolicy \/ CheckOperands \/ CheckDialect \/ Audit
    \/ AddRowFilters \/ CheckFiltered
    \/ Optimize \/ CheckOptimized
    \/ CompilePlan \/ Execute

Spec == Init /\ [][Next]_vars
-----------------------------------------------------------------------------
(* What a plan reads.  A reader is a query of the plan with the relations  *)
(* in its sight: its own and those of the queries around it, though not of *)
(* those around a CTE or a derived table.  The queries are those the       *)
(* compiler writes.                                                        *)

Derived == "(SELECT)"    \* in the place of a derived table's name

RelationsOf(query) ==
    {IF \E d \in ToSet(query.derived) : d.name = r.table THEN [r EXCEPT !.table = Derived] ELSE r
     : r \in ToSet(Relations(query))}

InnerReaders(query, sight) ==
    {[query |-> c.query, sight |-> RelationsOf(c.query)]
     : c \in ToSet(query.ctes) \cup ToSet(query.derived)}
    \cup {[query |-> q, sight |-> RelationsOf(q) \cup sight] :
          q \in UNION {Subqueries(t) : t \in WrittenTrees(query)}}
    \cup {[query |-> s.right, sight |-> RelationsOf(s.right) \cup (sight \ RelationsOf(query))] :
          s \in ToSet(query.sets)}

ReadersIn(p) ==
    LET reached[n \in 0..MaxDepth] ==
            IF n = 0 THEN {[query |-> p, sight |-> RelationsOf(p)]}
            ELSE LET before == reached[n - 1]
                 IN before \cup UNION {InnerReaders(r.query, r.sight) : r \in before}
    IN reached[MaxDepth]

\* The names a relation goes by: resolve_alias takes a table's own name for
\* its alias.
Names(relation) == {relation.table, Key(relation)}

ColumnsWritten(query) == UNION {AllColumns(t) : t \in WrittenTrees(query)}

\* The relations a column may be of, and the <<table, column>> it may stand for.
MayBeOf(column, sight) == {s \in sight : column.rel \in {""} \cup Names(s)}
Meanings(column, sight) ==
    {<<s.table, column.name>> : s \in {s \in MayBeOf(column, sight) : HasColumn(s.table, column.name)}}

\* The columns of stored tables that a query reads, by name and by star.
OwnReads(query, sight) ==
    (UNION {Meanings(c, sight) : c \in ColumnsWritten(query)})
    \cup (IF HasStar(query)
          THEN UNION {{t} \X DOMAIN Schema[t].columns :
                      t \in {s.table : s \in RelationsOf(query)} \cap DOMAIN Schema}
          ELSE {})
ReadsOf(p) == UNION {OwnReads(r.query, r.sight) : r \in ReadersIn(p)}

-----------------------------------------------------------------------------
(* Properties.                                                             *)

\* Plans the stages have found nothing wrong with, as the caller wrote them,
\* and plans the optimizer is done with, with the row filters in them.
Accepted == stage \in {"filter", "done", "compiled", "sent"}

\* The joins of a plan, and of every query in it, are a list.
IsPlan(p) == \A r \in ReadersIn(p) : r.query.joins \in Seq(ToSet(r.query.joins))

\* No name stands for two tables where it can be read: relations that share
\* one are on the same table, and no CTE has the name of a stored table.
NamesAreClear(p) ==
    \A r \in ReadersIn(p) :
        /\ \A s, t \in r.sight : Names(s) \cap Names(t) # {} => s.table = t.table
        /\ \A c \in ToSet(r.query.ctes) : c.name \notin DOMAIN Schema

\* Where the stages look into a query whole: it has no derived table, no set
\* operation and no DISTINCT ON, and no query in a CASE, in a window function
\* or among the values of an IN.
Seen(query) ==
    /\ query.derived = <<>>
    /\ query.sets = <<>>
    /\ query.distinct => query.distinctOn = <<>>
    /\ \A t \in WrittenTrees(query) : Subqueries(t) \subseteq WalkedQueries(t)
NothingHidden(p) == \A r \in ReadersIn(p) : Seen(r.query)

\* Of what is read no table and no column is forbidden.
AllAllowed ==
    \A tc \in ReadsOf(plan) :
        /\ tc[1] \in DOMAIN config.policy.tables => config.policy.tables[tc[1]].allowed
        /\ DenialReason(config.policy, tc[1], tc[2]) = ""

\* The policy holds for what a plan reads, not only for what it says: no
\* table and no column it forbids is read by a plan that is accepted, whatever
\* alias, join, CTE, subquery or star it is read through.  That is so where
\* the stages look into every query of the plan.
PolicyHolds ==
    Accepted /\ IsPlan(plan) /\ NamesAreClear(plan) /\ NothingHidden(plan) => AllAllowed

\* engine.rs: the policy "validates all base-table and column references and
\* collects every violation".
PolicyCoversAll == Accepted /\ IsPlan(plan) /\ NamesAreClear(plan) => AllAllowed

\* The relations of a query are stored tables, CTEs of its own or derived
\* tables, and a column is one of a relation in sight, unless it may be one of
\* a CTE or of a derived table.
NamesAreThere(query, sight) ==
    LET unstored == {c.name : c \in ToSet(query.ctes)} \cup {Derived}
    IN /\ \A s \in RelationsOf(query) : s.table \in DOMAIN Schema \cup unstored
       /\ \A c \in ColumnsWritten(query) :
              \/ Meanings(c, sight) # {}
              \/ \E s \in MayBeOf(c, sight) : s.table \in unstored

\* A plan that is accepted names what exists, and in every query of it what
\* that query can see, where the stages look into every query of the plan.
NamesExist ==
    Accepted /\ IsPlan(plan) /\ NothingHidden(plan) =>
        \A r \in ReadersIn(plan) : NamesAreThere(r.query, r.sight)

\* schema.rs "checks every base table and column reference against a schema
\* snapshot".
NamesCoverAll ==
    Accepted /\ IsPlan(plan) => \A r \in ReadersIn(plan) : NamesAreThere(r.query, r.sight)

\* joins.rs: "a valid plan always has a FROM clause with a table name", so
\* that the repairs of its joins come to an end.
NeverPanics == stage # "panicked"

\* types.rs: the parameters are "the values that should be bound to those
\* placeholders in textual order"; a literal that is neither a whole float nor
\* a huge integer is what Postgres sees in its place.  (The literals of a text are a list.)
LiteralsReachPostgres ==
    LET literals == LiteralsIn(statement.sql)
    IN /\ stage = "sent" /\ statement.dialect = "postgres"
       /\ literals \in Seq(ToSet(literals))
       => /\ Len(sent) = Len(literals)
          /\ \A i \in DOMAIN literals :
                 literals[i].json \notin Zeroed => sent[i] = WireValue(literals[i])

\* execute/mod.rs: an executor is responsible for "sending the compiled SQL
\* with its bound parameters".
LiteralsSent ==
    LET literals == LiteralsIn(statement.sql)
    IN stage = "sent" => sent = [i \in DOMAIN literals |-> WireValue(literals[i])]
=============================================================================
