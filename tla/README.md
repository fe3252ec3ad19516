# A verification development for VlorQl

VlorQl turns a natural-language question into SQL: an LLM proposes a *query
plan* as JSON, the plan is read, repaired and validated against a schema and a
policy, optimized, compiled to the SQL of one dialect and, on request, executed.
This directory holds TLA+ models of the parts of that pipeline that run
concurrently, retry, cache or persist, of the pure stages a plan goes through
from the model's text to the database, the TLC runs that check them, and TLAPS
proofs about the facade, the LLM calls and their streams, the streaming query,
the compile cache, the prompt service, the validation pipeline with its policy
engine, and the join graph.

Paths below are relative to `src/`.  `PROJECT.json` maps every definition to the
lines it stands for, and lists the hazards, the runs and one mutation per
checked property.

## 1. Inventory

| Component | State it keeps | Operations | Hard behaviour | What makes it correct |
|---|---|---|---|---|
| **Query facade** `crates/vlorql/src/lib.rs` | shared caches, an index flag, metrics, immutable configuration | `query`, `run`, `validate_only`, `compile_only`, `query_stream`, `invalidate_compile_cache`, `clear_all_caches`, `drop` | calls interleave at every `await`; retries; a caller may drop the future; evictions and invalidations meanwhile | an answer is the SQL of a validated plan proposed for that question; the budget of LLM calls; every call ends; the gauge |
| **Builder** `builder.rs` | the configuration under construction | `with_*`, `build` | opening the persistent cache depends on the calling context | every built facade is one the models start from |
| **Schema cache, schema index, prompt builder, prompt cache** `crates/vlorql-core/src/{cache,prompt}` | two moka caches, a vector collection outside | `get_or_insert_with`, `index_schema`, `search`, `build_system_prompt_with_cache` | concurrent loads; an index flag set before indexing; one collection for all facades; a key that must cover what a prompt depends on | every call gets a prompt written for its version, dialect and policy, about its own tables, showing what the policy will accept |
| **Streaming query** `retry.rs` | the assembled text and feedback of one attempt | `run_stream_with_retry`, `process_assembled_text` | failures of four kinds, truncated text, a receiver that leaves | one verdict, about the last attempt's text only; retryable errors retried, others not; the plan announced is the one validated |
| **LLM transport** `crates/vlorql-llm/src/{retry_client,sse}.rs`, `local/ollama.rs` | attempt counters, byte buffer, unbounded channel, back-off | `generate_with_retry`, `stream_with_sse`, `SseLines::poll_next`, the SSE and NDJSON consumers | chunks cut anywhere; resets, stalls, time-outs; wakers | each delta once and in order; retry only what is transient; a stream ends |
| **Provider clients** `deepseek.rs`, `openai.rs`, `local/mod.rs` ... | configuration | `generate_plan`, `stream_plan` | vLLM's fall-back from `json_schema` to `json_object` inside the retry loop | the fall-back is sent once, and only after a rejection |
| **Response parser** `crates/vlorql-llm/src/parser_v2` | none | recover, normalize, build, fix, validate, optimize | an answer inside prose, spelled in many ways, cut off anywhere; seven stages of rewriting whose order matters | the object meant is the one read; every spelling builds the plan meant; repairs keep its rows |
| **Compile cache** `cache/compile_cache.rs` | a moka cache, a map beside it, a file | `get`, `insert`, `invalidate_plan`, `clear`, `persist`, `load` | two maps, two steps with an await between them; crashes; temporary file; a format that cannot read all it writes | the file is whole; the maps agree; nothing forgotten returns; what was saved is found |
| **LLM response cache** `cache/llm_cache.rs` | a moka cache | `get`, `insert`, `invalidate_*` | keys in lower case; plans kept as proposed, repaired anew on each hit | a hit was validated for an equal key and costs no request |
| **Validation pipeline, plan fixes, policy engine, function registry** `validate/`, `fix/`, `policy/`, `function/` | none | eight repairs, five stages, row filters, the re-check after optimizing | aliases, CTEs, stars and subqueries hide tables and columns, and expressions hide subqueries from a stage; one repair makes work for another, or takes a right plan for a mistake | nothing forbidden is read by a plan that runs, row filters bind, names exist, types and groups are right, and a right plan keeps its meaning |
| **Optimizer** `optimizer/` | the rule list, statistics | `rewrite`, `repeat_until_stable`, `optimize_async` (folding, pushdown, pruning, join order) | moves predicates across scopes and joins, drops columns by name | names still resolve; rows are preserved; the policy still holds |
| **SQL compilers** `compile/` | alias stack, parameter list | `compile` | aliases of inner and outer queries; equal literals share a parameter; numbering follows the text | the statement means the plan; placeholder *i* is bound to literal *i* |
| **Executors** `execute/` | a pool | `execute` | conversion of parameters | parameters arrive unchanged |
| **Observability** | counters, one gauge | `record_*` | exits that forget to decrement | gauge = calls in flight |
| Statistics and cost model, errors, CLI, mock client | tables, data | pure functions, I/O | none of interest here | -- |

Interactions.  `query` resolves the schema, indexes it once, selects tables and
gets its system prompt (`PromptService`).  It reads the LLM cache once, then
loops: (cached plan or LLM client, whose text the response parser turns into a
plan) -> validation pipeline (which runs the fixes and the policy engine) ->
optimizer -> policy again -> compile cache -> compiler -> both caches; `run` hands
the statement to an executor.  The LLM client is called once per iteration of
that loop and runs its own HTTP retry loop inside it.  `query_stream` spawns a
task that reads the client's delta stream (fed by another spawned task, the SSE
or NDJSON consumer) and writes events to a channel; it uses no cache.  The
compile cache is shared by all calls and saved by a task that the facade's `drop`
spawns and nobody awaits.

`PROJECT.json` lists the hazards, each at its line, with the property that would
catch it; a hazard no property covers says why.

## 2. Modules

```
 AnswerService <--refines-- QueryFacade <--EXTENDS-- QueryFacade_proof
 TextStream <--refines-- SseStream <--EXTENDS-- SseStream_proof
     ^ INSTANCE          LlmCall = HttpRetry + SseStream
     |                       <--EXTENDS-- LlmCall_proof (and SseStream_proof)
 StreamQuery <--EXTENDS-- StreamQuery_proof
 CompileCache <--EXTENDS-- CompileCache_proof

 PromptText (ColumnAccess) <- PromptService <--EXTENDS-- PromptService_proof

 PlanTree <- PlanVisitors <- RewriteRules
 RewriteRules, SqlRows <- QueryOptimizer (JoinOrder by INSTANCE)
 JoinOrder <--EXTENDS-- JoinOrder_proof

 PlanTree <- PlanScope (ColumnAccess) <- PolicyEngine <- ValidationPipeline
                 ValidationPipeline <--EXTENDS-- ValidationPipeline_proof
 PlanScope <- PlanFixes, PlanChecks (FunctionRegistry)
 PlanVisitors <- SqlCompiler
 ValidationPipeline, PlanFixes, PlanChecks, SqlCompiler, SqlRows <- PlanMeaning
                                   (RewriteRules by INSTANCE)

 JsonText <- PlanJson, ExprJson <- PlanBuilder, ParserFixes <- ResponseParser
                                   (SqlCompiler, SqlRows by INSTANCE)
```

A `..._proof` module holds what TLAPS proves of the module it extends; an `MC...`
module gives each its small world.  Operators whose comment begins
with *Mutation:* are the plausible bugs that `PROJECT.json` substitutes to show
that each property can fail; no specification uses them.

### QueryFacade and AnswerService

`AnswerService` is the promise: a caller asks, and gets an error or the SQL of a
plan that was *proposed for that question, accepted by validation and allowed by
the policy after optimization*.  `QueryFacade` is `VlorQl::query`, one process per
call.  A process keeps the question, the attempt number, the plan in hand and
its program counter; the facade keeps `config`, the two caches, and the gauge.
Actions follow the code between two awaits: `Start` (entry, missing client),
`LookupPlan`, `Propose` / `LlmFails`, `Validate` (accept, retry with feedback, or
fail), `Optimize` / `OptimizerFails`, `SqlHit`, `Compile`, `StoreSql`,
`StorePlan`; `Cancel` is a future dropped at an await; `EvictPlan` and `EvictSql`
are moka's; `InvalidateCompiled` and `ClearAllCaches` the entry points beside
`query`.  Plans are model values; what becomes of them is given by
constants: `Validated` (the plans `validate_repairing` may return, none if it never
accepts), `Rejected` (the kinds of error it may return instead), `Optimized` and
`Compiled`.  The first three are sets of outcomes: `fix/joins.rs` takes its path out
of a hash set anew in every call, so the plan in the LLM cache, which is the one
*proposed*, may be accepted on one hit and refused on the next; and the cost model
depends on statistics.  `config` is chosen in `Init` among everything `build` can make: each
cache, the optimizer and the client present or absent.  Cache keys are exact:
collisions of the 64-bit plan hash are not modelled.

### HttpRetry, SseStream, LlmCall and TextStream

`TextStream` is the promise of `stream_plan`: deltas of one response in order,
each once, then an end or an error.  `HttpRetry` is the request phase of the
clients -- hosted (`RetryableHttpClient`), vLLM and Ollama, blocking or streaming
-- with the retry budget, the response classes that are retried and the
fall-back.  `SseStream` is the reading phase: a body that delivers *chunks*, each
completing any number of lines and possibly part of one; the reader's buffer; the
waker it registered or not; the consumer's attempts and back-off; the request
timer; the receiver that may be dropped.  Lines are numbered and a chunk is the
number of fragments it brings, so no text is modelled.  `LlmCall` EXTENDS both
and joins them at the response: `Read` runs on the body `Ask` obtained.

The error that `poll_next` returns after a broken connection leaves the body at its
end, so a second attempt finds the end of the stream: an interrupted response then
looks like a complete one (`PollReset`, `EndAttempt`).  `EveryDeltaArrives` therefore
claims completeness only where the whole response arrived.  A time-out fails every
later poll too, so `TimeoutIsReported` claims it for every budget.

A blocking call retries where sending fails or the status is transient.  A body that
cannot be read (`Unreadable`: it stalls until the time-out, or breaks off) is
transient by the client's own classification, but the error leaves the function by
`?` outside the part that retries: `FailureIsTheLastOne` excepts it,
`TimeoutsAreRetried` does not.

### StreamQuery

`run_stream_with_retry`, on top of the promise of `TextStream`: the task reads
deltas, forwards each, assembles the text, and at the end parses, validates,
compiles; a retryable failure starts the next attempt with feedback.
`Responses` in the MC module says what a complete and a truncated text read as;
a truncated text may be repaired by the parser into a plan, and then passes as
one.  What is validated and compiled is a copy of the parsed plan that validation
repairs for itself: `Repairs` says which copies it may make, and `ErrorsOn` what it
finds wrong with each.  Two behaviours of the code are visible in
the model and worth knowing: chunks of a failed attempt have already been
emitted when the next begins, and a caller that leaves is noticed at the next
chunk only.  Two more contradict a sentence of `lib.rs` and have runs of their own:
the plan announced as complete is the parsed one, not the copy
(`AnnouncedPlanIsValid`), and several retryable errors become one `MultipleErrors`,
which is not retried (`RetryableErrorsAreRetried`).

### CompileCache

Both maps, their two-step updates by concurrent threads, `persist` as its four
file operations on named inodes, `load` and the death of the process at any
point.  An entry is its key plus, as history, the time it was compiled.  Between the
halves of an operation is an await, and a caller may be dropped there (`Drop`):
the moka cache has changed, the map has not.  `load` reads with bincode, which writes
a `serde_json::Value` and cannot read it back: one entry of `Parameterized` -- the
statements with parameters -- makes the whole file unreadable, and the process starts
empty.  `raced` and `halved` are history too: the keys on which two operations
overlapped, about which the code promises nothing because its lock covers only the
second half, and those whose last operation was dropped half way.

### PromptText and PromptService

The first half of `query`: resolving the schema, indexing it, choosing tables
and getting the system prompt.  One process per call, one action per stretch
between two awaits: `ResolveHit` / `ResolveMiss`, `Load` (`SchemaCache`, where two
callers that miss both load), `ClaimIndex` / `SkipIndex` (the flag is set before
the work), `ListCollections`, `CreateCollection`, `Upsert` and `IndexFails` at
any of them, `SelectTables`, `PromptHit` / `PromptMiss` / `PromptInsert`.  `Evict` is
moka's, `ClearAllCaches` the facade's; the caches' own `invalidate` and
`invalidate_version` remove nothing (the future is dropped unpolled; the cache is
built without invalidation closures) and so are no actions.

`PromptText` is the pure part: which tables a question selects
(`filter_relevant_tables`: what the search found, what the words match, the
tables their foreign keys point to, or all of them), which columns a policy shows, and what a
prompt is made of.  `PromptKey` is the key it is cached under, which has less than the
prompt is made of: facades that differ in dialect flags, skill, examples or the content of a
version share it (`KeyMates`).  A search returns *any* set of points of the collection,
whoever put them there.  Fixed sections, skill text and examples are values.

### The stages of a plan: PlanScope ... ValidationPipeline, PlanMeaning

`ValidationPipeline` is one plan on its way from the model to the database, one
action per stage: the repairs of `validate_repairing` (drop joins to tables that
do not exist), `schema_aware_fix` with its five fixes (`PlanFixes`), the stages
schema, policy (`PolicyEngine`), operand, dialect and audit (`PlanChecks`), the row
filters, the second schema check, the optimizer's rules and the second look at the policy, and
behind them a dialect's compiler and its executor.  `config.entry` tells
`validate_repairing` from `validate`.  Errors are kinds with the name concerned.
A scope, its sources and its outer scopes are `PlanScope`; the policy's column
rules, shared with the prompt, are `ColumnAccess`.

The module itself has the order of the stages, what each does with errors, the
policy, the row filters and the binding of literals.  What the repairs, the other
stages, the rules and the compiler compute from a plan are parameters of it
(constant operators), so that what is proved does not rest on them; `PlanMeaning`
and the `.cfg` files put the models of the code in their places:

| Parameter | Value | Code |
|---|---|---|
| `WithoutUnknownJoins` | `DropHallucinatedJoins` (`PlanFixes`) | `fix/joins.rs` |
| `WithParsedColumns`, `WithMovedColumns` | `FixColumns`, `FixTables` | `fix/columns.rs`, `fix/column_table.rs` |
| `WithOneMoreJoin` | `WithJoin` (a set: `joins.rs` may take any of several paths) | `fix/joins.rs` |
| `WithFlatAggregates`, `WithFullGroups` | `DedupAggregates`, `FixGroups` | `fix/aggregates.rs`, `fix/group_by.rs` |
| `FoundBySchema`, `FoundByOperands`, `FoundByDialect`, `FoundByAudit` | `SchemaErrors`, `OperandErrors`, `DialectErrors`, `AuditErrors` (`PlanChecks`) | `validate/` |
| `Optimized` | `OptimizedPlan` (`PlanMeaning`: the three `RewriteRules`) | `optimizer/` |
| `DropsUnnamed`, `JoinsUnnamed` | `JoinsNameless`, `Nameless` (`PlanFixes`): the plans on which a repair of joins panics | `fix/joins.rs` |
| `SqlFor`, `LiteralsIn`, `RefusedBy` | `SqlOf`, `TextLiterals`, `CompileErrors` (`SqlCompiler`) | `compile/` |

`PlanMeaning` also has the properties that speak of rows and types, which need
`SqlRows`.

What a plan *reads* is defined beside the properties, apart from the policy
engine's own walk: `ReadersIn` are the queries of a plan, each with the relations
in its sight (its own and those of the queries around it, but not of those around a
CTE or a derived table), wherever the compiler writes one, and `ReadsOf` the columns of stored tables that some reader's columns may stand for,
or its star.

The stages do not look everywhere the compiler writes.  `Walked` (`PlanTree`) is where
the schema stage and the policy engine look for queries: not in a `CASE`, not in a
window function, not among the values of an `IN`; derived tables only the schema stage
enters, set operations and `DISTINCT ON` none of them.  `Seen` says that a query has
nothing in any of these places.
Each stage, repair and rule has its own walk, modelled as it is: `Walked`,
`FixedKids` (`PlanFixes`), `Requalify`, `ColumnsIn` and `Arguments` (the default folds and
visits of the optimizer), `Queries` and `WrittenTrees` (the compiler).

`SqlCompiler` compiles to a plan again, not to text: the statement is the plan
with its qualifiers rewritten as `resolve_alias` rewrites them, and its literals
replaced by placeholders into a parameter list, in the order the clauses are
written.  So "the statement means the plan" is a comparison of rows.  `Bind`, `Compile` and
`Sent` (`ValidationPipeline`) number the placeholders, list the parameters and say what the
executors hand over for each placeholder.

### The response parser: JsonText ... ResponseParser

`ResponseParser` has the six stages of `parser_v2`, with the three modes.
`JsonText` is a text as a sequence of tokens (a brace, a name, an atom, prose) and
the search for the object meant in it; a cut text ends where it ends and is
closed.  `PlanJson` and `ExprJson` are the normalisers, on JSON values, in the
order of `normalize/pipeline.rs`; `PlanBuilder` is `build/`, from JSON to a plan or
an error; `ParserFixes` is `fix/`, `validate/` and `optimize/`.  What a plan means
is again what `SqlRows` makes of the compiled plan.

### PlanTree, PlanVisitors, RewriteRules, JoinOrder, QueryOptimizer

`PlanTree` has the plans: records for expressions, predicates and query plans, and
what is in them (`Nodes`, `Trees`, `Subqueries`, `Walked`), by recursive functions down to the
constant `MaxDepth`, so that modules about plans can be proved about.
`PlanVisitors` has the helpers of `analyze.rs` and `visitor.rs` that take a tree apart and
put it together again, which are `RECURSIVE`.  `RewriteRules` has one part per rule and
source file: `Fold`, `PushDown` and `Prune` map a plan to a plan.  `JoinOrder`
is the join graph and what an order must be like for the search to find it; the
cost estimates behind the choice are left out, so any such order is allowed.
`QueryOptimizer` runs them in the order of `optimize_async`, one action per rule,
on a plan chosen in `Init`.

`SqlRows` is the reference, and the only module about something outside the
repository: what SQL makes of a plan -- which column a name stands for, the
rows of a join, three-valued predicates, groups and aggregates, `EXISTS`, `LIMIT`
over rows in order, duplicates.  A plan that was rewritten is compared with the one before by
evaluating both on small databases.

`SqlRows` gives no meaning to window functions, `CASE`, `IN`, scalar subqueries, set operations,
derived tables and `DISTINCT ON`: properties of validation that compare rows or types are about
plans without them (`Told`, `Resolved`), those about names and policy about all.

## 3. What the runs check

`CHECK_DEADLOCK FALSE` everywhere: a finished call, stream, task or plan, and a
cache at its bound of restarts, are systems that stop.  That they stop *finished*
is what the liveness properties say.

| Run | Expect | What it shows |
|---|---|---|
| `facade` | pass | `AnswerSound`, `CacheHitAsksNobody`, `CallBudget`, `GaugeNeverUndercounts`, `EveryCallEnds`, and the refinement `ImplementsService`, for two concurrent calls; a cached plan costs no request if its repairs are all judged alike |
| `llm_call` | pass | requests are justified and within budget, failures are reported, every delta is delivered once and in order however the bytes are cut, a stream that times out says so, every call ends; refinement `ImplementsTextStream` |
| `sse_wakeup` | violation | after a chunk that completes no line the consumer is parked with no waker: bytes that arrived wait for the time-out |
| `stream_query` | pass | one verdict, last; a plan read from its attempt's own text; a single retryable error is given up only when the retries are spent; the task ends |
| `compile_cache` | pass | the file is always the last saved map, whole, whenever the process dies; live entries are persistent and forgotten ones stay forgotten, up to an operation dropped half way and from the next one on; a restart finds what was saved, if no statement of it has parameters |
| `optimizer` | pass | every name still resolves after every rule, the rows are those of the original plan, and a second round of rewrites finds nothing to do |
| `pushdown_rows` | violation | `pushdown.rs:19`: a filter moved into a CTE that has a `LIMIT`, or is read twice, changes the rows |
| `validation` | pass | of a plan that may run: nothing the policy forbids is read (`PolicyHolds`) and its names exist, unless it has a query where the stages do not look; the row filters do what removing the rows would have done in a query without inner ones that reads no table twice (`FiltersHold`); its types agree, its groups determine its rows; a right plan keeps its rows through the repairs, unless they take it for a mistake (`TakenForMistakes`); the optimized plan is accepted by all stages again; the statement of each dialect means the plan, and Postgres sees its literals |
| `unseen_denial` | violation | `policy/engine.rs:40`: a denied column is read in a `CASE`, a window function, an `IN` list, a derived table or a set operation, and the plan accepted |
| `literals_sent` | violation | `execute/mod.rs:53`: MySQL and SQLite get no parameters, Postgres gets 0 for `2.0` |
| `prompts` | pass | a prompt was written for the call's own schema version, dialect, policy and tables (`PromptIsOwn`), is about tables of its own schema (`TablesAreOwn`), and shows no column the policy engine will refuse, nor hides one, unless a facade under the same key knows the table with other columns (`ShownIsAccepted`); every call gets one, whatever fails or is evicted (`EveryCallIsPrompted`) |
| `parser` | pass | the object meant is the one read, wrapped or cut off, unless a complete plan inside it is read instead (`OnlyInnerIsWhole`); every spelling builds the plan meant; normalising twice is normalising once; the plan handed on returns the rows meant, but for plans the fixes reshape (`Reshaped`), and none that means something is refused |

A *violation* run checks one sentence of a doc or comment against what the code
does; `PROJECT.json` quotes it under `findings`.

Where a passing property has an exception, the plans, keys and calls of the exception are in its
run all the same, and the sentence without it stands beside it in the module.  These are not checked
by a run of their own; put in place of the properties in the `.cfg` of the run named, TLC refutes each of them:

| Refuted | Run | Against |
|---|---|---|
| `HitsNeverAsk` | `facade` | `llm_cache.rs:3`: an accepted plan is repaired another way on its next hit, refused, and asked for again |
| `GaugeCountsInFlight` | `facade` | `metrics.rs:38`: a call that ended with an error, by a cache hit or by being dropped stays in the gauge |
| `TimeoutsAreRetried` | `llm_call` | `vlorql-llm/src/lib.rs:17`: a response whose body times out is not asked for again, with attempts left |
| `AnnouncedPlanIsValid` | `stream_query` | `lib.rs:95`: the plan announced is the one before the repairs, which validation may refuse |
| `RetryableErrorsAreRetried` | `stream_query` | `lib.rs:473`: two retryable errors at once end the stream in its first attempt |
| `MapMirrorsCache` | `compile_cache` | `2026-07-28-compile-cache-persistence.md:7`: a caller dropped inside `insert` leaves an entry that is served and never saved |
| `QueriesSurvive` | `compile_cache` | the same plan's line 5: a file with one parameterised statement is loaded as an empty cache |
| `NamesCoverAll` | `validation` | `validate/schema.rs:13`: a column no table has is named in a `CASE`, a window function, an `IN` list or a set operation, and the plan accepted |
| `NeverPanics` | `validation` | `fix/joins.rs:16`: repairing a plan that selects from a query panics |
| `FiltersCoverAll` | `validation` | `policy/config.rs:52`: of a table read under two names one stays unfiltered, and so does what CTEs and subqueries read |
| `RepairsOnlyMistakes` | `validation` | `fix/group_by.rs:94`: `GROUP BY` without an aggregate is cleared; `fix/column_table.rs:181`: grouping by a column of an alias is dropped; `fix/mod.rs:1`: the table of a correlated `EXISTS` is joined to the query around it |
| `SameKeySamePrompt` | `prompts` | `prompt_cache.rs:18`: facades under one key that differ in skill, dialect flags or schema get each other's prompts |
| `MeaningIsKept` | `parser` | `optimize/mod.rs:3`: `ON users.id = orders.id` becomes `TRUE`, and of a column selected under two names one is dropped; `fixer/mod.rs:1`, `:4`: a grouped query without an aggregate gets a `COUNT(*)`, and a table an alias that the query in an `EXISTS` does not use |
| `CutOffIsRepaired` | `parser` | `bracket.rs:62`: a cut-off plan with a complete query inside is read as that query |

### Bounds, and why they are enough

* `facade`: two calls, since interference is pairwise: one writes or invalidates
  a cache entry between two steps of the other.  Three question texts, two with
  the same key; one retry, so there is a first, a last and a forbidden third
  request; plans of each verdict, one the optimizer may turn into one that
  compiles differently or that the policy refuses, one without SQL, and one
  (`loose`) that is accepted or refused depending on how it is repaired.
* `llm_call`: budgets of one and two attempts; three lines of three fragments
  each, so that a chunk can end in a line, complete several, or complete none; at most
  `MaxChunks` chunks are waiting in the network at once.
* `stream_query`: two retries put a failure before, between and after others;
  responses of zero, one and two pieces, whole and truncated.
* `compile_cache`: two keys, one of them of a statement with parameters, two threads, one
  persister, two processes, and a clock that reaches the time to live once.  `Bounded` keeps apart what would
  multiply: operations that overlap, in every order and with each half possibly the last its caller
  lives to see, are those of a first process that has not begun to persist; after that one thread works
  at a time, and one that has raced on a key does not persist.  With two persisters
  `FileIsWhole` fails (section 6), so the run says what a facade that persists one at a time
  may rely on.  The cache is opened inside and outside a runtime's context.
  Keys of a kind are symmetric, and so are threads; the run has no liveness property.
* `optimizer`: tables of two and three rows with nulls and duplicates, one of
  them possibly empty, so that every join kind has matched and unmatched rows on
  both sides; two- and three-way joins of every kind over base tables, CTEs, and a
  CTE over a CTE (a conjunct moves at most two levels there, and can be blocked
  at either); nine filters, with one and two conjuncts, constants to fold, `OR`,
  `NOT` and `IS NULL` tests on either side; grouped CTEs filtered by key and by
  aggregate, grouped again or not.  The queries are *plain*: CTEs have
  no `LIMIT` and are read once, a conjunct shows its columns at the top of a comparison, and no
  conjunct is constantly false.  Outside that fragment the rewrites are not
  right, which `pushdown_rows` and section 6 are about.
* `validation`: three tables with foreign keys one and two steps long and two
  ways to the same table; plans of every shape a repair or a stage looks at --
  wrong tables, missing joins, arithmetic and calls written into column names,
  nested aggregates, aliases, self joins, CTEs with and without
  aliases, correlated subqueries, suspicious identifiers, an integer beyond 64 signed bits,
  derived tables, and queries in `CASE`, windows, `IN` lists and set operations -- under six pairs of policy
  and profile: open, strict limits, row filters (also one that no table asks for), denied columns with a
  an allow-list with a forbidden table, and a filter on a column that is denied.  Two databases
  have matched, unmatched and null references.  Subqueries nest two deep, so that a
  column may be of the query around the query around.  `MaxDepth` is 8 in every run,
  and no tree and no chain of queries in them, rewritten or not, is deeper.
* `prompts`: two calls and four facades: one without a policy; two with one, under one
  key, the second with a column its schema gained under the old version, another
  skill and fewer flags of the dialect; and one of another schema whose tables the shared
  collection may also hold.  A question names a table, or none.  `MCInit` leaves out the initial states that differ
  from another one by the names of the calls.
* `parser`: 26 plans, among them some with queries in `EXISTS`, CTEs and set operations, each
  in up to eleven spellings (field aliases, scalars for lists, strings for columns and operators,
  predicates nested, unnested, in arrays), and five in seven wrappings (prose, fences, a draft before
  the answer, an array, braces in strings, a missing end); four answers
  without a plan; the three modes.  `SqlRows` has no rows for set operations, so the one plan
  with a `UNION` counts for what is read and built, not for rows.

### Fairness

* `facade`: `WF(Step(t))` -- the runtime polls a call whose awaited operation is
  ready, and each awaited operation ends (`llm_call` shows that for the one that
  may be slow).  Evictions, invalidations, cancellations and new calls get none.
* `llm_call`: `WF` of the request loop (requests end or time out, sleeps end), of
  the consumer's `Poll` when it is scheduled, of `Resume` after a back-off, and of
  the client's total time-out.  The server gets none: it may stall for ever, and
  the lost wake-up is harmless to `CallEnds` only because of the time-out.
* `stream_query`: `WF(Work)`; a delta stream ends by `CallEnds`.
* `prompts`: `WF(CallStep(c))` -- the vector store and the embedding service answer
  or fail.  `schema_index.rs` builds its HTTP client without a time-out, so a service that
  accepts a request and never answers is excluded by assumption.

## 4. What is proved

`QueryFacade_proof` proves, for any finite set of calls (`TaskAssumption`), any
sets of questions, plans and SQL, any sets of outcomes that repairs and validation,
the optimizer and the compiler may have for a plan (`ConstantsAssumption`), any number of retries and with or without evictions:

* `TypeCorrect`, `AnswersAreSound`, `HitsAskNobody`, `BudgetHolds`: the type
  invariant and three of the safety invariants;
* `GaugeIsUpperBound`: the gauge never shows fewer calls than are in flight;
* `FacadeImplementsService`: every step of `query`, the caches and the entry
  points is a step of `AnswerService` or a stutter.

`AnswerSound` alone is not inductive: a call answers from a cache, so one has to
know what the caches hold, and what the plan in hand has been through at each
await.  `IInv` adds four parts: `Traced` (the plan in hand was proposed for a
question with this call's key), `Accepted` (what it passed, per await point),
`CachesProven` (the LLM cache holds validated plans proposed for their key, the
compile cache each plan's own SQL) and `Rounds` (how attempt counter, requests
and cached plan go together, from which the budget and "a hit asks nobody"
follow; the latter for plans whose repairs are all judged alike, `Settled`, since repairs take one of several
foreign keys by chance and each hit repairs anew).  `NextIInv` has one step per action.  The lemma `ProposalsGrow` is the
frame: what justified an answer is never taken back.

`SseStream_proof` is about one response: any sequence of lines, cut into chunks in
any way, of either format, with any number of attempts and chunks in flight
(`StreamAssumption`).

* `EveryDeltaArrivesInAStream` and `TimeoutIsReportedInAStream`: the two
  invariants of the run;
* `StreamImplementsTextStream`: the refinement, step by step.

Neither invariant is inductive: they speak of the end only.  `IInv` adds an account
of every fragment (`ChunksInv`: the chunks in flight make up the difference
between what was read and what arrived, unless the end of the body was taken for
the end of the last line), of every delta (`LinesInv`: what was delivered is what
the handled lines hold) and of what has not ended the stream yet (`EndingInv`).
The subtle state is the flush of a line whose last fragment is missing: `Handled`
counts it only when nothing but its line feed is.

`LlmCall_proof` proves of a whole call, for any budget and any sequence of
responses (`RequestAssumption`, `BudgetAssumption`), `RequestsAreJustifiedInACall`
and `FailureIsTheLastOneInACall`: a blocking call gives up on a transient failure only with its
budget spent, or because the body of the response could not be read (`Unreadable`), which ends it at once.  The invariant counts requests, responses and
attempts against one another (`CountsInv`) and says of the request about to be
sent which response called for it (`NextInv`).  `CallIsAStream` shows that a call
does to the stream what `SseStream` does, or nothing, so `EveryDeltaArrivesInACall`,
`TimeoutIsReportedInACall` and `CallImplementsTextStream` follow.

`StreamQuery_proof` proves the three invariants of the event stream, for any
plans, any answers of the model, any errors and any number of retries:
`OneVerdictHolds`, `PlansAreOfTheirText`, `ErrorsAreEarnedHolds`; of a plan that its repaired copy is
accepted, of an error that it was found in the attempt's own text and, if it is the only one and retryable,
that no retry was left.  `IInv` says that the
buffer holds the deltas of this attempt and no other (`BufferInv`), that only text
is sent before the task is done (`QuietInv`), and how the events end when it is
(`VerdictInv`).

`CompileCache_proof` has two halves, for any keys, threads, persisting tasks,
restarts and time to live (`CacheAssumption`).

* In memory: `LiveIsPersistentHolds` and `StaysForgottenHolds`.  `KeyInv` describes the
  state *between* the halves of an operation, when one map has it and the other
  has not, for every key no second operation has touched meanwhile, and which no operation
  dropped between its halves has left apart (`halved`).
* On disk: `FileIsWholeIfAlone` and `RestartRemembersIfAlone` say `Spec /\ []Alone =>
  ...`, where `Alone` means that no two tasks are in `persist` at once.  The condition is
  needed: two tasks share one `.tmp` name (section 6).  With one persisting task,
  as in the run, it always holds: `FileIsWholeWithOnePersister`,
  `RestartRemembersWithOnePersister`.  `RestartRemembers` is about files without a
  parameterised statement (`Parameterized`): the others bincode does not read back.  `FileInv` says that the task at work owns the
  inode behind `.tmp`, which is never the file's, so that a crash at any of
  the four file operations leaves the file as it was.

`PromptService_proof` is about any number of calls, facades and questions,
whoever shares the prompt cache and the vector collection.

* `PromptsAreOwn`: a call ends with a prompt that it, or a facade of the same schema version, dialect
  and policy (`KeyMates`), wrote for the tables its question is about.  Nothing is assumed of the facades;
  that the key tells prompts apart (`SameKeySamePrompt`) TLC refutes.
* `PromptsAreAboutOwnTables`: whatever the search returns, the prompt is about
  tables of the facade's schema, and about one at least if there is one.
* `PromptsOfferWhatIsAccepted`: the prompt shows no column the policy engine will refuse, and every one it
  will accept unless a facade under the same key knows the table with other columns.

The inductive invariant says what the collection may hold, so what a search can
select, that every entry of the cache was written by some facade under its key,
and what each call carries.  The last two theorems also need to know what
`Filter` returns (`FilterKeeps`).  It is a recursive function, not a `RECURSIVE`
operator; that its recursion is well defined and what it computes is proved by
the least counterexample (`LeastNumber`), since the library's induction rules
take an operator the provers cannot instantiate.

`ValidationPipeline_proof` is about the pipeline with *any* repairs, schema, operand,
dialect and audit stages, rewrite rules and compilers (its parameters are
constant operators of which nothing is assumed), any schema, policies and plans, and
any `MaxDepth`: a plan is looked at, and its reads are counted, down to that depth.

* `PolicyHoldsAlways`: an accepted plan -- one the stages found nothing wrong with, before
  the row filters are added, and again after the optimizer, compiled and sent -- reads
  no table and no column its policy forbids, whether by name, by star, or
  through an alias, a join, a CTE or a subquery, if it has no query where the engine does not look.
* `NamesExistAlways`: it names tables that exist or CTEs of its own, and each
  column of each query in it is of a relation the query can see, unless it may be of a CTE; under the same condition.
* `LiteralsReachPostgresAlways`: for any list of literals, equal ones sharing a
  parameter, placeholder *i* stands for literal *i*.

The first two are not about the check but about what it protects: `ReadsOf` is defined
from the scoping of SQL, and the policy engine walks plans its own way, with
lists of sources from which those of the outer queries on tables met before are
dropped (`Without`), unqualified names tried against all tables, and a look-up that takes
the first match.  `Sees` says how the two go together for one query: the same
query, no source that is not in sight, and a source for every table in
sight.  `ReaderIsChecked` shows, by the least counterexample in the depth, that every reader of
a plan is seen so by one of the queries the engine visits (`SeesAlone`, `SeesInside`,
`InnerIsChecked` are the steps); `ReadIsAllowed` and `NamedIsThere` are then about one query.
The invariant of the pipeline (`IInv`) says that what the policy engine found is
among the errors until the audit reads them -- the audit replaces the errors, but never by
nothing --, that an accepted plan has none, and that a statement is the compiled plan.
So of a plan that the engine looks into whole, nothing between the stages and nothing the optimizer
does can take a forbidden column past the policy: the second look is needed, and is enough.

Three conditions are part of the properties.  `NothingHidden`: no query of the plan has a derived
table, a set operation, `DISTINCT ON`, or a query in a `CASE`, a window function or the values of an
`IN`, where the engine does not look (`NoneDerived` and `WrittenIsRead` are what it gives the proof); without it the
properties are false, which the run `unseen_denial` and `NamesCoverAll` show.  `IsPlan`: the joins of a plan and of the
queries in it are lists.  `NamesAreClear`: relations in sight that share a name are
on the same table, and no CTE is named like a stored table; without it a
qualifier is resolved to the first match where SQL means another (for `PolicyHolds` only).  Every plan of the run
`validation` satisfies `IsPlan` at every stage, and those that break another of the conditions are few.

`JoinOrder_proof` is about the pure part of join reordering, for any number of
relations and any order: `ConjunctsWaitForRelations` (no conjunct is lost, and an
attributable one is evaluated where all its relations have been introduced) and
`ConjunctsAreNotDelayed` (it is evaluated at the join that introduces one of its
own relations).  Both rest on `LastRelation`: the relations of a conjunct have a
last position, which is the least upper bound of their positions and exists since
`<` on `Nat` is well-founded.

Only model-checked are

* the liveness properties (`EveryCallEnds`, `CallEnds`, `TaskEnds`,
  `EveryCallIsPrompted`), which are out of the prover's reach;
* the properties of `PlanMeaning` and `QueryOptimizer`: they compare rows, types and
  rewritten plans, which recursive definitions compute by structural recursion over plans
  (`SqlRows`, `RewriteRules`, `PlanFixes`, `SqlCompiler`), with `RECURSIVE` operators for which
  tlapm has no SMT backend, and an induction over plans would need a
  rule the provers cannot instantiate;
* for the same reason those of `ResponseParser`, whose stages recurse over JSON values.

## 5. What is not modelled, and why

* **Plans in the concurrent modules** are model values; what the pure components
  do to them is a constant function there, and a model of its own here.
* **Casts, window frames, `BETWEEN` and `LIKE`** in `PlanTree`: the stages and rules handle them
  argument by argument, as they do the operators that are modelled.  `CASE`, window functions, `IN`, scalar
  subqueries, derived tables and set operations are modelled, since they do not treat these alike.
* **Text**: quoting, reserved words, keyword layout, wording of prompts, feedback
  and errors, request bodies and headers, exporters.  A prompt is its tables and
  columns; a statement is a plan with placeholders; a JSON text is tokens.
* **The search of the vector index** is any answer it could give.  TF-IDF and the
  word match are one relation between questions and tables; the embedding cache
  only saves requests.
* **Cost estimates** (`statistics/`): floating-point numbers that choose one of
  the join orders `JoinOrder` allows; the models allow all of them.
* **Cache capacity** is an eviction at any time; weights and LRU order are moka's.
  **Hash collisions** of plan, policy and schema keys: a 64-bit hash is taken as exact.
* **Rows on their way back** from a driver, pools, connection errors.
* **The mock client and the command line**: a test double, and printing around
  the facade.
* **The panic of `Handle::block_on`** when `with_persistent_compile_cache` is
  called inside a task (`builder.rs:224`): no facade results, so there is no state
  to model.
* Dead code of the compilers: `RewriteEngine`, `function_name_mappings` and the
  `limit_offset` template are never consulted.

## 6. Known divergences

Section 3 lists those that have a violation run, and those a definition states and TLC
refutes.  The others met while modelling are transitions of the models, or lie outside the plans of the
passing runs; each names its place.

*Caches, calls and streams.*
Two `persist` calls share one temporary name, so one can rename what the other is
still writing (`compile_cache.rs:220`, against :201).  Loaded entries start a new
life and the persistent map never expires or evicts anything, so an entry is
served past its age after a restart (`compile_cache.rs:262`, against :77).
Bincode writes a parameter, which is a JSON value, and cannot read it back (`compile_cache.rs:255`).
`PlanComplete` carries the plan as parsed, which strict validation may refuse
(`retry.rs:296`, against `lib.rs:95`).  Several retryable validation errors become one
error that `query_stream` does not retry (`retry.rs:177`).  The gauge only overcounts.  A response that times out
while its body is read is not retried (`retry_client.rs:100`, `local/mod.rs:415`).
`invalidate_compile_cache` of a validated plan leaves the SQL of its optimized
form; vLLM's fall-back needs an attempt that may not be left, and streaming has
none.  The LLM cache keeps the plan as proposed, so every hit is repaired anew, and `fix_missing_joins`
may repair it another way.
A facade built outside a runtime starts with an empty cache although a file exists.
The schema cache does not share concurrent loads (`schema_cache.rs:117`, against :84) and its `invalidate`
removes nothing (:136).  Prompt keys do not cover dialect flags, skill, examples and
what the schema holds under its version (`prompt_cache.rs:21`).

*Optimizer.*
A conjunct that is constantly false is folded to `false = false`, which every row
satisfies (`fold.rs:453`, against :14 and :24).  `ColumnCollector` does not look
inside expressions (`analyze.rs:139`, against :87), and unqualified columns of a
CTE's body are taken for its own table's (`prune/mod.rs:449`, against :411), so a column
of a CTE that is read in these ways only is pruned.  `SELECT DISTINCT` in a
CTE does not stop pruning, and a filter on the alias of an aggregate moves into
the CTE's `WHERE`.  `push_plan` and `prune_cte` also reset `recursive`.

*Validation, repairs and policy.*
Row filters are put on the outermost query only, not inside CTEs, subqueries or
set operations, and of a table read under two names one gets them (`policy/engine.rs:61`, :64); a filter
on a denied column is refused by the re-check.  The policy engine and the schema stage look for queries
neither in `CASE` and window functions (`policy/engine.rs:234`, `schema.rs:345`) nor among the values of an `IN`
(:262), the policy engine not in derived tables, and none of the stages at set operations and `DISTINCT ON`; all
of these are compiled.  Two repairs panic at a derived table (`fix/joins.rs:20`, :295).  A table's own
name is accepted behind its alias, and so is an unqualified column that several
tables have.  A CTE that reads an earlier CTE is refused by the schema stage, and
the audit refuses CTE sources without alias.  `fix_group_by` clears a `GROUP BY`
without aggregates and misses the CTEs on its early returns;
`fix_column_table` drops alias-qualified grouping entries;
`drop_hallucinated_joins` also drops joins to CTEs; `fix_missing_joins` joins the
tables of a correlated `EXISTS` to the outer query, and with several foreign-key
paths takes whichever a `HashSet` yields first (`joins.rs:204`).

*Compilers and executors.*
`collect_aliases` maps a table's name to the alias of its first use, so a later use
under its own name is captured (`compile/builder/mod.rs:70`; `Captures` excludes
these plans).  An outer table that is named inside an `EXISTS` by its own name,
although it has an alias, is not resolved (:88), and the parser gives every
un-aliased outer table the alias `t1`.  On dialects with `?` a repeated literal
gets a second placeholder and no second parameter (:129).  The right operand of a
set operation loses its `ORDER BY` and `LIMIT`.  The executors for MySQL and SQLite bind no parameters, and
the one for Postgres sends 0 for a number that is no `i64` (`execute/pg.rs:71`).

*Response parser.*
It stops at the first failing stage, although `parser_v2/mod.rs:53` says that
errors of all stages are collected.  A cut-off text whose only complete object
is a subquery is read as that subquery, and a cut `WHERE` or `LIMIT` widens the answer.
A `where` array keeps its first typed predicate, an `and` of three its first two.
A column selected twice under two aliases loses one.  A `WHERE` with an aggregate
moves to `HAVING` whole.  `GROUP BY` without an aggregate gains one; a column whose name ends in
`_count` or `_total` is read as one.  `"float"` becomes the literal type
`null`; `row_number` is refused for the argument the normaliser removed, `binary_op`
`neq` for a name it introduced.  A cross join without `ON` gets an inferred one.  `c = c`
becomes `TRUE` also where `c` is null.  Repairs do not look into `EXISTS` and set
operations.

## 7. Plan

Done: the facade, the LLM transport, streaming, the compile cache and prompts,
each with proofs of every safety property its run checks; validation, compilation and
execution, with proofs that the policy holds, names exist and literals arrive, whatever
the pure stages compute; the optimizer, with proofs about join orders; the response
parser.  To come:

1. Row filters: that what `AddRowFilters` puts into a plan is what the policy asks for is
   model-checked on rows (`FiltersHold`).  `SelectSeq` and `FoldLeft` would
   have to become recursive functions, as `Without` has, before it can be proved.
2. Row filters below the outermost query and per name, once the code puts them there; then
   `FiltersHold` becomes `FiltersCoverAll`, as `PolicyHolds` becomes `PolicyCoversAll` without `NothingHidden` once
   the stages look everywhere.
3. The join-order search with cost estimates on small integers.
