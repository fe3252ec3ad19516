----------------------------- MODULE PromptText -----------------------------
(***************************************************************************)
(* vlorql-core/src/prompt/builder: which tables a question is about, and   *)
(* what the system prompt says of them.  A facade is                       *)
(*                                                                         *)
(*   [schema  : [version, tables : Seq(table),                             *)
(*               columns : table -> Seq([name, key]), key = "" for none or *)
(*                                     the table the foreign key points to,*)
(*               words : table -> the words of its name, columns and       *)
(*                                descriptions],                           *)
(*    dialect, features, policy, skill : Skill or NoSkill, examples,       *)
(*    vector, indexer : BOOLEAN]                                           *)
(*                                                                         *)
(* A question is the set of its words.  A text is the sections it has.     *)
(***************************************************************************)
EXTENDS Integers, SequencesExt, ColumnAccess

NoSkill == [instructions |-> <<>>, forbids |-> {}, examples |-> <<>>]

TableSet(facade) == ToSet(facade.schema.tables)
ColumnsIn(facade, table) == facade.schema.columns[table]
KeysIn(facade, table) == {c.key : c \in {c \in ToSet(ColumnsIn(facade, table)) : c.key # ""}}

\* Iterator::filter: the elements of s at the positions where `holds` is TRUE.
Filter(s, holds) ==
    LET kept[i \in 0..Len(s)] ==
          IF i = 0 THEN <<>>
          ELSE IF holds[i] THEN Append(kept[i - 1], s[i]) ELSE kept[i - 1]
    IN kept[Len(s)]

\* In the order of the schema, as every selection of tables is.
InOrder(facade, tables) ==
    LET all == facade.schema.tables
    IN Filter(all, [i \in DOMAIN all |-> all[i] \in tables])

\* build_reverse_fk_index
Referencing(facade, table) == {t \in TableSet(facade) : table \in KeysIn(facade, t)}

\* expand_foreign_key_neighbors: what was matched, what it points to and
\* what points to it.
Expanded(facade, matched) ==
    matched \cup UNION {(KeysIn(facade, t) \cap TableSet(facade)) \cup Referencing(facade, t)
                        : t \in matched \cap TableSet(facade)}

\* tf_idf_overlap, phrase_matches: every shared word scores above zero.
Scored(facade, question) ==
    {t \in TableSet(facade) : facade.schema.words[t] \cap question # {}}

\* filter_relevant_tables_tfidf: a question that matches no table gets all.
RelevantByWords(facade, question) ==
    IF Scored(facade, question) = {} THEN facade.schema.tables
    ELSE InOrder(facade, Expanded(facade, Scored(facade, question)))

\* Mutation: what the search finds is taken as it is.
RelevantUnchecked(facade, question, found) ==
    IF found # {} THEN InOrder(facade, Expanded(facade, found))
    ELSE RelevantByWords(facade, question)

\* filter_relevant_tables: `found` is what the search returned, {} when it
\* failed or was not asked.  Tables of another schema are dropped, and when
\* nothing is left the words decide.
RelevantTables(facade, question, found) ==
    IF InOrder(facade, Expanded(facade, found)) # <<>>
    THEN InOrder(facade, Expanded(facade, found))
    ELSE RelevantByWords(facade, question)

-----------------------------------------------------------------------------
Allowed(facade, table) ==
    table \in DOMAIN facade.policy.tables => facade.policy.tables[table].allowed

\* Mutation: a column denied for one table is denied under its bare name only.
ColumnVisibleByName(facade, table, column) ==
    /\ <<column>> \notin facade.policy.global
    /\ table \in DOMAIN facade.policy.tables =>
          /\ facade.policy.tables[table].allowed
          /\ column \notin facade.policy.tables[table].denied
          /\ {All, column} \cap facade.policy.tables[table].only # {}

\* column_visible
ColumnVisible(facade, table, column) ==
    /\ {<<column>>, <<table, column>>} \cap facade.policy.global = {}
    /\ table \in DOMAIN facade.policy.tables =>
          /\ facade.policy.tables[table].allowed
          /\ column \notin facade.policy.tables[table].denied
          /\ {All, column} \cap facade.policy.tables[table].only # {}

VisibleColumns(facade, table) ==
    LET columns == ColumnsIn(facade, table)
    IN Filter(columns, [i \in DOMAIN columns |-> ColumnVisible(facade, table, columns[i].name)])

\* push_schema_description: the tables with a column to show, and the keys
\* between the tables that are allowed.
SchemaLines(facade, tables) ==
    LET shown == Filter(tables, [i \in DOMAIN tables |->
                            Allowed(facade, tables[i]) /\ VisibleColumns(facade, tables[i]) # <<>>])
    IN [i \in DOMAIN shown |-> [table |-> shown[i], columns |-> VisibleColumns(facade, shown[i])]]
Relationships(facade, tables) ==
    UNION {{<<t, c.name, c.key>> : c \in {c \in ToSet(ColumnsIn(facade, t)) : c.key \in ToSet(tables)}}
           : t \in {t \in ToSet(tables) : Allowed(facade, t)}}

\* push_dialect_constraints: what the skill forbids is shown as missing.
Features(facade) == facade.features \ facade.skill.forbids

\* push_example: the first visible column, and the joins when there is one.
Example(facade, tables) ==
    LET lines == SchemaLines(facade, tables)
    IN IF lines = <<>> THEN <<>>
       ELSE <<lines[1].table, Head(lines[1].columns).name,
              Len(tables) >= 2 /\ \E t \in ToSet(tables) : KeysIn(facade, t) \cap ToSet(tables) # {}>>

\* build_system_prompt_for_tables
PromptFor(facade, tables) ==
    [lines |-> SchemaLines(facade, tables), relationships |-> Relationships(facade, tables),
     instructions |-> facade.skill.instructions, dialect |-> facade.dialect,
     features |-> Features(facade),
     examples |-> IF ~facade.examples THEN <<>>
                  ELSE IF facade.skill.examples # <<>> THEN facade.skill.examples
                  ELSE Example(facade, tables)]

\* PromptCacheKey::new, hash_policy: a hash stands for what is hashed.
PromptKey(facade, tables) ==
    [version |-> IF facade.schema.version = "" THEN "unknown" ELSE facade.schema.version,
     dialect |-> facade.dialect, policy |-> facade.policy, tables |-> tables]
=============================================================================
