---------------------------- MODULE PromptService ----------------------------
(***************************************************************************)
(* From a question to its system prompt: the first half of VlorQl::query   *)
(* (vlorql/src/lib.rs), with the schema cache, the vector index and the    *)
(* prompt cache (vlorql-core/src/{cache, prompt}).  Calls run concurrently *)
(* and may give up the thread at every await.  A facade has a schema cache *)
(* and an index flag of its own; the vector collection has a fixed name,   *)
(* so every facade that indexes writes to the same one, and a PromptCache  *)
(* may be handed to several builders.                                      *)
(***************************************************************************)
EXTENDS PromptText

CONSTANTS
    Calls,      \* the calls of query()
    Facades,    \* the facades that are called
    Questions,
    None        \* no value

AllTables == UNION {TableSet(f) : f \in Facades}

\* What a search may select, whoever's points it finds.
Selections(f) == {RelevantTables(f, q, found) : q \in Questions, found \in SUBSET AllTables}

\* A facade's schema has its tables, and a table its columns, in an order.
ASSUME FacadesAssumption ==
    \A f \in Facades :
        /\ f.schema.tables \in Seq(TableSet(f))
        /\ \A t \in TableSet(f) : ColumnsIn(f, t) \in Seq(ToSet(ColumnsIn(f, t)))

VARIABLES
    ask,        \* call -> [facade, question]
    pc,         \* call -> where it is
    schema,     \* call -> the schema it works with
    tables,     \* call -> the tables its prompt is about
    prompt,     \* call -> its system prompt
    snapshots,  \* SchemaCache: facade -> the snapshot under its key, or None
    indexed,    \* schema_indexed: the facades that have claimed to index
    collection, \* the tables the vector collection has points of, or None
    prompts     \* PromptCache: a set of [key, text]

caches == <<snapshots, prompts>>
vars == <<ask, pc, schema, tables, prompt, snapshots, indexed, collection, prompts>>

FacadeOf(c) == ask[c].facade
Goto(c, place) == pc' = [pc EXCEPT ![c] = place]

Init ==
    /\ ask \in [Calls -> [facade : Facades, question : Questions]]
    /\ pc = [c \in Calls |-> "resolve"]
    /\ schema = [c \in Calls |-> None]
    /\ tables = [c \in Calls |-> <<>>]
    /\ prompt = [c \in Calls |-> None]
    /\ snapshots = [f \in Facades |-> None]
    /\ indexed = {}
    /\ collection = None
    /\ prompts = {}

-----------------------------------------------------------------------------
(* The schema: SchemaCache::get_or_insert_with, from resolve_schema.       *)

ResolveMiss(c) ==
    /\ pc[c] = "resolve"
    /\ snapshots[FacadeOf(c)] = None
    /\ Goto(c, "load")
    /\ UNCHANGED <<ask, schema, tables, prompt, caches, indexed, collection>>

ResolveHit(c) ==
    /\ pc[c] = "resolve"
    /\ snapshots[FacadeOf(c)] # None
    /\ schema' = [schema EXCEPT ![c] = snapshots[FacadeOf(c)]]
    /\ Goto(c, "index")
    /\ UNCHANGED <<ask, tables, prompt, caches, indexed, collection>>

\* The loader's value is inserted whatever the cache holds by now.
Load(c) ==
    /\ pc[c] = "load"
    /\ schema' = [schema EXCEPT ![c] = FacadeOf(c).schema]
    /\ snapshots' = [snapshots EXCEPT ![FacadeOf(c)] = FacadeOf(c).schema]
    /\ Goto(c, "index")
    /\ UNCHANGED <<ask, tables, prompt, prompts, indexed, collection>>

-----------------------------------------------------------------------------
(* The vector index: SchemaIndexer::index_schema.                          *)

\* Only the first call of a facade indexes; the flag is set before it does.
ClaimIndex(c) ==
    /\ pc[c] = "index"
    /\ FacadeOf(c).indexer /\ FacadeOf(c) \notin indexed
    /\ indexed' = indexed \cup {FacadeOf(c)}
    /\ Goto(c, "listing")
    /\ UNCHANGED <<ask, schema, tables, prompt, caches, collection>>

SkipIndex(c) ==
    /\ pc[c] = "index"
    /\ ~FacadeOf(c).indexer \/ FacadeOf(c) \in indexed
    /\ Goto(c, "search")
    /\ UNCHANGED <<ask, schema, tables, prompt, caches, indexed, collection>>

ListCollections(c) ==
    /\ pc[c] = "listing"
    /\ Goto(c, IF collection = None THEN "create" ELSE "upsert")
    /\ UNCHANGED <<ask, schema, tables, prompt, caches, indexed, collection>>

CreateCollection(c) ==
    /\ pc[c] = "create"
    /\ collection = None
    /\ collection' = {}
    /\ Goto(c, "upsert")
    /\ UNCHANGED <<ask, schema, tables, prompt, caches, indexed>>

\* A point for each table and column, numbered from 0 in every schema: the
\* points of another schema with these numbers are overwritten, the others
\* stay.
Upsert(c) ==
    /\ pc[c] = "upsert"
    /\ \E left \in SUBSET collection : collection' = left \cup ToSet(schema[c].tables)
    /\ Goto(c, "search")
    /\ UNCHANGED <<ask, schema, tables, prompt, caches, indexed>>

\* Mutation: an error of the index ends the call.
IndexFailsForGood(c) ==
    /\ pc[c] \in {"listing", "create", "upsert"}
    /\ Goto(c, "lost")
    /\ UNCHANGED <<ask, schema, tables, prompt, caches, indexed, collection>>

\* The store, the embedding service or a collection another facade created
\* meanwhile: the error is dropped, and nobody indexes again.
IndexFails(c) ==
    /\ pc[c] \in {"listing", "create", "upsert"}
    /\ Goto(c, "search")
    /\ UNCHANGED <<ask, schema, tables, prompt, caches, indexed, collection>>

-----------------------------------------------------------------------------
(* The prompt.                                                             *)

\* SchemaIndexer::search: some of what the collection holds, or nothing,
\* when it or the embedding service cannot be asked.
Searched(facade) ==
    IF facade.vector /\ facade.indexer /\ collection # None THEN SUBSET collection ELSE {{}}

SelectTables(c) ==
    /\ pc[c] = "search"
    /\ \E found \in Searched(FacadeOf(c)) :
           tables' = [tables EXCEPT ![c] = RelevantTables(FacadeOf(c), ask[c].question, found)]
    /\ Goto(c, "lookup")
    /\ UNCHANGED <<ask, schema, prompt, caches, indexed, collection>>

\* Mutation: the policy is left out of the key.
KeyWithoutPolicy(c) == [PromptKey(FacadeOf(c), tables[c]) EXCEPT !.policy = None]

Key(c) == PromptKey(FacadeOf(c), tables[c])

PromptHit(c) ==
    /\ pc[c] = "lookup"
    /\ \E p \in prompts : p.key = Key(c) /\ prompt' = [prompt EXCEPT ![c] = p.text]
    /\ Goto(c, "done")
    /\ UNCHANGED <<ask, schema, tables, caches, indexed, collection>>

PromptMiss(c) ==
    /\ pc[c] = "lookup"
    /\ \A p \in prompts : p.key # Key(c)
    /\ prompt' = [prompt EXCEPT ![c] = PromptFor(FacadeOf(c), tables[c])]
    /\ Goto(c, "insert")
    /\ UNCHANGED <<ask, schema, tables, caches, indexed, collection>>

PromptInsert(c) ==
    /\ pc[c] = "insert"
    /\ prompts' = {p \in prompts : p.key # Key(c)} \cup {[key |-> Key(c), text |-> prompt[c]]}
    /\ Goto(c, "done")
    /\ UNCHANGED <<ask, schema, tables, prompt, snapshots, indexed, collection>>

-----------------------------------------------------------------------------
(* The caches on their own.  SchemaCache::invalidate drops its future      *)
(* unpolled, and invalidate_version asks for a kind of invalidation the    *)
(* cache was not built with: neither removes anything.                     *)

\* Age or capacity.
Evict ==
    /\ \/ /\ \E f \in Facades : snapshots' = [snapshots EXCEPT ![f] = None]
          /\ UNCHANGED prompts
       \/ /\ \E p \in prompts : prompts' = prompts \ {p}
          /\ UNCHANGED snapshots
    /\ UNCHANGED <<ask, pc, schema, tables, prompt, indexed, collection>>

\* clear_all_caches
ClearAllCaches ==
    /\ \E f \in Facades : snapshots' = [snapshots EXCEPT ![f] = None]
    /\ prompts' = {}
    /\ UNCHANGED <<ask, pc, schema, tables, prompt, indexed, collection>>

CallStep(c) ==
    \/ ResolveMiss(c) \/ ResolveHit(c) \/ Load(c)
    \/ ClaimIndex(c) \/ SkipIndex(c) \/ ListCollections(c) \/ CreateCollection(c)
    \/ Upsert(c) \/ IndexFails(c)
    \/ SelectTables(c) \/ PromptHit(c) \/ PromptMiss(c) \/ PromptInsert(c)

Next == (\E c \in Calls : CallStep(c)) \/ Evict \/ ClearAllCaches

Spec == Init /\ [][Next]_vars

\* Each call is a future the runtime polls, and the services it awaits
\* answer or fail.
FairSpec == Spec /\ \A c \in Calls : WF_vars(CallStep(c))

-----------------------------------------------------------------------------
Places == {"resolve", "load", "index", "listing", "create", "upsert", "search", "lookup",
           "insert", "done"}

\* The facades that write under the key of a call: those of its schema version,
\* dialect and policy, whatever their schemas hold under that version and
\* whatever their dialect's flags, skill and examples are, which the key leaves
\* out.
KeyMates(c) ==
    {f \in Facades : /\ ToSet(tables[c]) \subseteq TableSet(f)
                     /\ PromptKey(f, tables[c]) = PromptKey(FacadeOf(c), tables[c])}

\* The system prompt a call gets is one that a facade of its own schema version,
\* dialect and policy wrote for the tables its question is about, whatever other
\* calls, of this or other facades, put into the prompt cache meanwhile
\* (build_system_prompt_with_cache).
PromptIsOwn ==
    \A c \in Calls : pc[c] = "done" =>
        \E f \in KeyMates(c) : prompt[c] = PromptFor(f, tables[c])

\* And with that it is the one its own facade would write: what the comment on
\* PromptCacheKey says, "Two `PromptBuilder` instances with the same key produce
\* the same prompt string" (crates/vlorql-core/src/cache/prompt_cache.rs:18-19).
SameKeySamePrompt ==
    \A c \in Calls : pc[c] = "done" => prompt[c] = PromptFor(FacadeOf(c), tables[c])

\* A prompt is about tables of the facade's schema and, unless the schema has
\* none, about one of them at least, also when the shared collection finds only
\* points another facade's schema left there (filter_relevant_tables falls back
\* to the words).
TablesAreOwn ==
    \A c \in Calls : pc[c] \in {"lookup", "insert", "done"} =>
        /\ ToSet(tables[c]) \subseteq TableSet(FacadeOf(c))
        /\ tables[c] = <<>> => TableSet(FacadeOf(c)) = {}

\* A prompt offers no column that the policy engine refuses later, even when it
\* is another facade's of the same key; and it offers all that the engine
\* accepts, unless a facade of the same key knows the table with other columns
\* (column_visible, column_denial_reason).
ShownIsAccepted ==
    \A c \in Calls : pc[c] \in {"insert", "done"} =>
        LET f == FacadeOf(c)
            shown == UNION {{<<line.table, column.name>> : column \in ToSet(line.columns)}
                            : line \in ToSet(prompt[c].lines)}
        IN \A t \in ToSet(tables[c]) : \A column \in ToSet(ColumnsIn(f, t)) :
              LET accepted == Allowed(f, t) /\ DenialReason(f.policy, t, column.name) = ""
              IN /\ <<t, column.name>> \in shown => accepted
                 /\ accepted => \/ <<t, column.name>> \in shown
                                \/ \E g \in KeyMates(c) : ColumnsIn(g, t) # ColumnsIn(f, t)

\* Every call gets a prompt, though the index, the search or a cache fails it.
EveryCallIsPrompted == \A c \in Calls : <>(pc[c] = "done")
=============================================================================
