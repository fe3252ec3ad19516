---------------------------- MODULE QueryFacade ----------------------------
(***************************************************************************)
(* Concurrent calls of VlorQl::query on one facade (crates/vlorql/lib.rs). *)
(*                                                                         *)
(* A facade owns one schema, one policy and one dialect, which never       *)
(* change, and two caches shared by every call: the LLM response cache     *)
(* (question key -> plan the LLM produced) and the optional compile cache  *)
(* (compiled plan -> SQL).  A call is a task; it runs from one await point *)
(* to the next in a single step, and other tasks run in between.           *)
(*                                                                         *)
(* Plans and SQL texts are model values.  What validation, the optimizer   *)
(* and the compiler make of a plan is given by constants.  The compiler is *)
(* deterministic; repair, which takes its foreign-key path out of a hash   *)
(* set, and join reordering, which asks a statistics provider, are not, so *)
(* what becomes of a plan there is a set.                                  *)
(***************************************************************************)
EXTENDS Integers, FiniteSets

CONSTANTS
    Task,        \* calls of query
    Question,    \* question texts
    Key,         \* values of LlmCacheKey (only the text varies in a facade)
    Lower,       \* [Question -> Key]: to_lowercase
    Plan,        \* QueryPlan values
    Proposals,   \* the plans the LLM may come up with
    Sql,         \* CompiledQuery values
    Validated,   \* the plans validate_repairing may return for a plan (fixes,
                 \* row filters), none if it never accepts it
    Rejected,    \* the kinds of error it may return instead
    Optimized,   \* [Plan -> SUBSET Plan]: outcomes of optimize_async
    PolicyOk,    \* plans the policy accepts
    Compiled,    \* [Plan -> Sql \cup {NoSql}]: compile_only, NoSql for an error
    NoPlan, NoSql,
    MaxRetries,
    Configs,     \* facade configurations to consider
    Evicts       \* may cache entries expire or be evicted?

Errors == {"retryable", "fatal"}
Config == [client : BOOLEAN, optimizer : BOOLEAN, compileCache : BOOLEAN]

ASSUME ConstantsAssumption ==
    /\ Lower \in [Question -> Key]
    /\ Proposals \subseteq Plan
    /\ Validated \in [Plan -> SUBSET Plan]
    /\ Rejected \in [Plan -> SUBSET Errors]
    /\ \A p \in Plan : Validated[p] # {} \/ Rejected[p] # {}
    /\ Optimized \in [Plan -> SUBSET Plan]
    /\ PolicyOk \subseteq Plan
    /\ Compiled \in [Plan -> Sql \cup {NoSql}]
    /\ NoPlan \notin Plan
    /\ NoSql \notin Sql
    /\ MaxRetries \in Nat
    /\ Configs \subseteq Config
    /\ Evicts \in BOOLEAN

ASSUME TaskAssumption == IsFiniteSet(Task)

VARIABLES
    config,      \* how the facade was built
    pc,          \* per task: the await point it is at
    question,    \* per task: the question it was called with
    attempt,     \* per task: the retry loop's counter
    cached,      \* per task: cached_plan, as read before the loop
    plan,        \* per task: the plan of the current attempt
    target,      \* per task: plan_for_compile
    calls,       \* per task: generate_plan requests that were answered
    answer,      \* per task: the SQL it returned
    llmCache,    \* LlmResponseCache: [Key -> Plan \cup {NoPlan}]
    sqlCache,    \* CompileCache: [Plan -> Sql \cup {NoSql}]
    active,      \* VlorqMetrics::active_queries
    proposed     \* history: the plans the LLM produced for each question

shared == <<llmCache, sqlCache>>
vars == <<config, pc, question, attempt, cached, plan, target, calls, answer,
          llmCache, sqlCache, active, proposed>>

Finished == {"answered", "failed", "cancelled"}
Awaiting == {"lookup", "generate", "optimize", "sqlLookup", "storeSql", "storePlan"}
Running == Awaiting \cup {"validate"}
Pc == {"idle"} \cup Running \cup Finished

\* The plans `p` may be compiled as, once it has passed validation.
Derived(p) ==
    IF config.optimizer
    THEN PolicyOk \cap UNION {Optimized[v] : v \in Validated[p]}
    ELSE Validated[p]

Init ==
    /\ config \in Configs
    /\ pc = [t \in Task |-> "idle"]
    /\ question \in [Task -> Question]
    /\ attempt = [t \in Task |-> 0]
    /\ cached = [t \in Task |-> NoPlan]
    /\ plan = [t \in Task |-> NoPlan]
    /\ target = [t \in Task |-> NoPlan]
    /\ calls = [t \in Task |-> 0]
    /\ answer = [t \in Task |-> NoSql]
    /\ llmCache = [k \in Key |-> NoPlan]
    /\ sqlCache = [p \in Plan |-> NoSql]
    /\ active = 0
    /\ proposed = [q \in Question |-> {}]

-----------------------------------------------------------------------------
(* Mutations: each changes one action or helper of the facade the way a    *)
(* plausible mistake would.  No behaviour of Spec uses them.               *)

\* The LLM cache key forgets the question.
KeyWithoutQuestion(t) == CHOOSE k \in Key : TRUE

\* The plan is cached when it arrives, before it is validated.
ProposeAndCache(t, p) ==
    /\ pc[t] = "generate"
    /\ plan' = [plan EXCEPT ![t] = p]
    /\ calls' = [calls EXCEPT ![t] = @ + 1]
    /\ proposed' = [proposed EXCEPT ![question[t]] = @ \cup {p}]
    /\ llmCache' = [llmCache EXCEPT ![Lower[question[t]]] = p]
    /\ pc' = [pc EXCEPT ![t] = "validate"]
    /\ UNCHANGED <<config, question, attempt, cached, target, answer, sqlCache, active>>

\* The retry bound is off by one for LLM errors.
LlmFailsOffByOne(t, retryable) ==
    /\ pc[t] = "generate"
    /\ calls' = [calls EXCEPT ![t] = @ + 1]
    /\ IF retryable /\ attempt[t] <= MaxRetries
       THEN attempt' = [attempt EXCEPT ![t] = @ + 1] /\ UNCHANGED pc
       ELSE pc' = [pc EXCEPT ![t] = "failed"] /\ UNCHANGED attempt
    /\ UNCHANGED <<config, question, cached, plan, target, answer, shared,
                   active, proposed>>

\* A rejected plan of the last attempt neither ends the call nor retries.
ValidateForgetsLastAttempt(t) ==
    /\ pc[t] = "validate"
    /\ \/ /\ \E v \in Validated[plan[t]] : target' = [target EXCEPT ![t] = v]
          /\ pc' = [pc EXCEPT ![t] = IF config.optimizer THEN "optimize" ELSE "sqlLookup"]
          /\ UNCHANGED attempt
       \/ /\ "retryable" \in Rejected[plan[t]] /\ attempt[t] < MaxRetries
          /\ attempt' = [attempt EXCEPT ![t] = @ + 1]
          /\ pc' = [pc EXCEPT ![t] = "generate"]
          /\ UNCHANGED target
    /\ UNCHANGED <<config, question, cached, plan, calls, answer, shared,
                   active, proposed>>

\* The optimized plan is compiled without the policy re-check.
OptimizeUnchecked(t, o) ==
    /\ pc[t] = "optimize"
    /\ o \in Optimized[target[t]]
    /\ target' = [target EXCEPT ![t] = o]
    /\ pc' = [pc EXCEPT ![t] = "sqlLookup"]
    /\ UNCHANGED <<config, question, attempt, cached, plan, calls, answer,
                   shared, active, proposed>>

\* The gauge is given back as soon as the plan is compiled (and once more
\* when the call returns).
CompileReleasesGauge(t) ==
    /\ pc[t] = "sqlLookup"
    /\ config.compileCache => sqlCache[target[t]] = NoSql
    /\ Compiled[target[t]] # NoSql
    /\ pc' = [pc EXCEPT ![t] = IF config.compileCache THEN "storeSql" ELSE "storePlan"]
    /\ active' = active - 1
    /\ UNCHANGED <<config, question, attempt, cached, plan, target, calls,
                   answer, shared, proposed>>

-----------------------------------------------------------------------------
\* The LLM cache key of a call: its lower-cased question.
KeyOf(t) == Lower[question[t]]

\* query up to its first await.  Without a client the gauge goes up and
\* down again before the error is returned.
Start(t) ==
    /\ pc[t] = "idle"
    /\ IF config.client
       THEN /\ pc' = [pc EXCEPT ![t] = "lookup"]
            /\ active' = active + 1
       ELSE /\ pc' = [pc EXCEPT ![t] = "failed"]
            /\ UNCHANGED active
    /\ UNCHANGED <<config, question, attempt, cached, plan, target, calls,
                   answer, shared, proposed>>

\* The LLM cache is read once, before the loop; a hit is attempt 0's plan.
LookupPlan(t) ==
    LET hit == llmCache[KeyOf(t)] IN
    /\ pc[t] = "lookup"
    /\ cached' = [cached EXCEPT ![t] = hit]
    /\ IF hit # NoPlan
       THEN /\ plan' = [plan EXCEPT ![t] = hit]
            /\ pc' = [pc EXCEPT ![t] = "validate"]
       ELSE /\ pc' = [pc EXCEPT ![t] = "generate"]
            /\ UNCHANGED plan
    /\ UNCHANGED <<config, question, attempt, target, calls, answer, shared,
                   active, proposed>>

\* generate_plan answers with a plan.
Propose(t, p) ==
    /\ pc[t] = "generate"
    /\ plan' = [plan EXCEPT ![t] = p]
    /\ calls' = [calls EXCEPT ![t] = @ + 1]
    /\ proposed' = [proposed EXCEPT ![question[t]] = @ \cup {p}]
    /\ pc' = [pc EXCEPT ![t] = "validate"]
    /\ UNCHANGED <<config, question, attempt, cached, target, answer, shared, active>>

\* generate_plan fails; every error of kind Llm is retryable, a
\* configuration error is not.
LlmFails(t, retryable) ==
    /\ pc[t] = "generate"
    /\ calls' = [calls EXCEPT ![t] = @ + 1]
    /\ IF retryable /\ attempt[t] < MaxRetries
       THEN /\ attempt' = [attempt EXCEPT ![t] = @ + 1]
            /\ UNCHANGED pc
       ELSE /\ pc' = [pc EXCEPT ![t] = "failed"]
            /\ UNCHANGED attempt
    /\ UNCHANGED <<config, question, cached, plan, target, answer, shared,
                   active, proposed>>

\* validate_repairing: the accepted plan goes on, a plan whose errors are
\* all retryable is asked for again, any other ends the call.  A plan from
\* the cache is repaired and judged anew.
Validate(t) ==
    /\ pc[t] = "validate"
    /\ \/ /\ \E v \in Validated[plan[t]] : target' = [target EXCEPT ![t] = v]
          /\ pc' = [pc EXCEPT ![t] = IF config.optimizer THEN "optimize" ELSE "sqlLookup"]
          /\ UNCHANGED attempt
       \/ /\ "retryable" \in Rejected[plan[t]] /\ attempt[t] < MaxRetries
          /\ attempt' = [attempt EXCEPT ![t] = @ + 1]
          /\ pc' = [pc EXCEPT ![t] = "generate"]
          /\ UNCHANGED target
       \/ /\ \/ "fatal" \in Rejected[plan[t]]
             \/ "retryable" \in Rejected[plan[t]] /\ attempt[t] = MaxRetries
          /\ pc' = [pc EXCEPT ![t] = "failed"]
          /\ UNCHANGED <<attempt, target>>
    /\ UNCHANGED <<config, question, cached, plan, calls, answer, shared,
                   active, proposed>>

\* optimize_async returns a plan, which the policy checks once more.
Optimize(t, o) ==
    /\ pc[t] = "optimize"
    /\ o \in Optimized[target[t]]
    /\ IF o \in PolicyOk
       THEN /\ target' = [target EXCEPT ![t] = o]
            /\ pc' = [pc EXCEPT ![t] = "sqlLookup"]
       ELSE /\ pc' = [pc EXCEPT ![t] = "failed"]
            /\ UNCHANGED target
    /\ UNCHANGED <<config, question, attempt, cached, plan, calls, answer,
                   shared, active, proposed>>

\* optimize_async fails: the statistics provider or the blocking task did.
OptimizerFails(t) ==
    /\ pc[t] = "optimize"
    /\ pc' = [pc EXCEPT ![t] = "failed"]
    /\ UNCHANGED <<config, question, attempt, cached, plan, target, calls,
                   answer, shared, active, proposed>>

\* A compile-cache hit returns at once: neither the LLM cache nor the gauge
\* is touched.
SqlHit(t) ==
    /\ pc[t] = "sqlLookup"
    /\ config.compileCache
    /\ sqlCache[target[t]] # NoSql
    /\ answer' = [answer EXCEPT ![t] = sqlCache[target[t]]]
    /\ pc' = [pc EXCEPT ![t] = "answered"]
    /\ UNCHANGED <<config, question, attempt, cached, plan, target, calls,
                   shared, active, proposed>>

\* A miss compiles; the SQL is the answer once the caches have it.
Compile(t) ==
    /\ pc[t] = "sqlLookup"
    /\ config.compileCache => sqlCache[target[t]] = NoSql
    /\ pc' = [pc EXCEPT ![t] = IF Compiled[target[t]] = NoSql THEN "failed"
                               ELSE IF config.compileCache THEN "storeSql"
                               ELSE "storePlan"]
    /\ UNCHANGED <<config, question, attempt, cached, plan, target, calls,
                   answer, shared, active, proposed>>

StoreSql(t) ==
    /\ pc[t] = "storeSql"
    /\ sqlCache' = [sqlCache EXCEPT ![target[t]] = Compiled[target[t]]]
    /\ pc' = [pc EXCEPT ![t] = "storePlan"]
    /\ UNCHANGED <<config, question, attempt, cached, plan, target, calls,
                   answer, llmCache, active, proposed>>

\* The raw plan, as the LLM produced it, is cached; then query returns.
StorePlan(t) ==
    /\ pc[t] = "storePlan"
    /\ llmCache' = [llmCache EXCEPT ![KeyOf(t)] = plan[t]]
    /\ answer' = [answer EXCEPT ![t] = Compiled[target[t]]]
    /\ active' = active - 1
    /\ pc' = [pc EXCEPT ![t] = "answered"]
    /\ UNCHANGED <<config, question, attempt, cached, plan, target, calls,
                   sqlCache, proposed>>

\* The caller drops the future, which it can only do at an await.
Cancel(t) ==
    /\ pc[t] \in Awaiting
    /\ pc' = [pc EXCEPT ![t] = "cancelled"]
    /\ UNCHANGED <<config, question, attempt, cached, plan, target, calls,
                   answer, shared, active, proposed>>

taskState == <<pc, question, attempt, cached, plan, target, calls, answer>>

\* moka drops an entry of either cache: its time to live is over, or the
\* capacity is needed.
EvictPlan(k) ==
    /\ Evicts
    /\ llmCache[k] # NoPlan
    /\ llmCache' = [llmCache EXCEPT ![k] = NoPlan]
    /\ UNCHANGED <<config, taskState, sqlCache, active, proposed>>

EvictSql(p) ==
    /\ Evicts
    /\ sqlCache[p] # NoSql
    /\ sqlCache' = [sqlCache EXCEPT ![p] = NoSql]
    /\ UNCHANGED <<config, taskState, llmCache, active, proposed>>

\* validate_only(p), then invalidate_compile_cache of what it returned.
InvalidateCompiled(p) ==
    /\ config.compileCache
    /\ \E v \in Validated[p] : sqlCache' = [sqlCache EXCEPT ![v] = NoSql]
    /\ UNCHANGED <<config, taskState, llmCache, active, proposed>>

\* clear_all_caches: the LLM cache is not among them.
ClearAllCaches ==
    /\ sqlCache' = [p \in Plan |-> NoSql]
    /\ UNCHANGED <<config, taskState, llmCache, active, proposed>>

\* What a call does when left alone.
Step(t) ==
    \/ LookupPlan(t)
    \/ \E p \in Proposals : Propose(t, p)
    \/ \E retryable \in BOOLEAN : LlmFails(t, retryable)
    \/ Validate(t)
    \/ \E o \in Plan : Optimize(t, o)
    \/ OptimizerFails(t)
    \/ SqlHit(t)
    \/ Compile(t)
    \/ StoreSql(t)
    \/ StorePlan(t)

Next ==
    \/ \E t \in Task : Start(t) \/ Step(t) \/ Cancel(t)
    \/ \E k \in Key : EvictPlan(k)
    \/ \E p \in Plan : EvictSql(p) \/ InvalidateCompiled(p)
    \/ ClearAllCaches

\* The runtime polls a call whose awaited operation is ready.
Fairness == \A t \in Task : WF_vars(Step(t))

Spec == Init /\ [][Next]_vars
FairSpec == Spec /\ Fairness
-----------------------------------------------------------------------------
TypeOK ==
    /\ config \in Configs
    /\ pc \in [Task -> Pc]
    /\ question \in [Task -> Question]
    /\ attempt \in [Task -> 0..MaxRetries]
    /\ cached \in [Task -> Plan \cup {NoPlan}]
    /\ plan \in [Task -> Plan \cup {NoPlan}]
    /\ target \in [Task -> Plan \cup {NoPlan}]
    /\ calls \in [Task -> Nat]
    /\ answer \in [Task -> Sql \cup {NoSql}]
    /\ llmCache \in [Key -> Plan \cup {NoPlan}]
    /\ sqlCache \in [Plan -> Sql \cup {NoSql}]
    /\ active \in Int
    /\ proposed \in [Question -> SUBSET Plan]

\* The SQL that may answer question q: some plan the LLM proposed for a text
\* with the same key passed validation, and one of the plans it may be
\* compiled as compiles to it.
ProposedFor(q) == UNION {proposed[r] : r \in {r \in Question : Lower[r] = Lower[q]}}

SqlOf(q) ==
    {s \in Sql : \E p \in ProposedFor(q) : \E o \in Derived(p) : Compiled[o] = s}

\* Whatever the other calls, the evictions and the invalidations did in
\* between, query (lib.rs) never answers with SQL of another question, of an
\* unvalidated plan or of a plan the policy re-check refused: both caches
\* only ever hold results of this question's own pipeline.
AnswerSound ==
    \A t \in Task : pc[t] = "answered" => answer[t] \in SqlOf(question[t])

\* Validation says the same of a plan whichever way it is repaired.
Settled(p) == Validated[p] = {} \/ Rejected[p] = {}

\* A call that found a plan in the LLM cache never asks the LLM, unless its
\* repair is a matter of luck: a plan that was stored passed validation, so
\* the retry loop that query shares between hits and misses ends in its first
\* round.
CacheHitAsksNobody ==
    \A t \in Task :
        cached[t] # NoPlan /\ Settled(cached[t]) => calls[t] = 0 /\ attempt[t] = 0

\* "Two identical questions [...] produce the same plan, so caching avoids
\* redundant LLM invocations" (llm_cache.rs).  Not always: the plan as it was
\* proposed is cached, and another repair of it may be refused.
HitsNeverAsk == \A t \in Task : cached[t] # NoPlan => calls[t] = 0

\* "Maximum number of retries" is per call of query, over LLM failures and
\* rejected plans together: a request that is answered or under way is one
\* of MaxRetries + 1.
CallBudget ==
    \A t \in Task : calls[t] + (IF pc[t] = "generate" THEN 1 ELSE 0) <= MaxRetries + 1

InFlight == {t \in Task : pc[t] \in Running}

\* active_queries is incremented by every call that gets going and given
\* back by one exit path; it never shows fewer calls than are running, however
\* calls, errors and cancellations interleave.  It may show more:
\* GaugeCountsInFlight.
GaugeNeverUndercounts == Cardinality(InFlight) <= active

\* "Gauge of currently in-flight queries" (metrics.rs).  Not so: every exit but
\* the last line of query leaves it up.
GaugeCountsInFlight == active = Cardinality(InFlight)

\* The retry loop of query "always returns": a call that got going ends,
\* provided each awaited operation does.
EveryCallEnds == \A t \in Task : (pc[t] \in Running) ~> (pc[t] \in Finished)

\* The call as its caller sees it: a cancelled call is one that failed.
StatusOf(t) ==
    CASE pc[t] = "idle" -> "idle"
      [] pc[t] \in Running -> "running"
      [] pc[t] = "answered" -> "answered"
      [] pc[t] \in {"failed", "cancelled"} -> "failed"

Service == INSTANCE AnswerService WITH
    asked <- question,
    status <- [t \in Task |-> StatusOf(t)],
    justified <- [q \in Question |-> SqlOf(q)]

\* The facade with its caches, retries and interleavings does what
\* AnswerService promises.
ImplementsService == Service!Spec
=============================================================================
