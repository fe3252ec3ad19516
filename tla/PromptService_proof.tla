------------------------- MODULE PromptService_proof -------------------------
(***************************************************************************)
(* Proof that a call gets a prompt written for its own schema version,     *)
(* dialect, policy and tables, and that it offers no column the policy     *)
(* refuses, for any number of calls and facades.                           *)
(***************************************************************************)
EXTENDS PromptService, WellFoundedInduction, TLAPS

\* What the calls carry.
CallsInv ==
    /\ ask \in [Calls -> [facade : Facades, question : Questions]]
    /\ pc \in [Calls -> Places]
    /\ DOMAIN schema = Calls /\ DOMAIN tables = Calls /\ DOMAIN prompt = Calls

\* A call indexes the tables of its own schema.
SchemaInv ==
    /\ DOMAIN snapshots = Facades
    /\ \A f \in Facades : snapshots[f] \in {None, f.schema}
    /\ \A c \in Calls : pc[c] \in {"index", "listing", "create", "upsert"} =>
          schema[c] = FacadeOf(c).schema

\* The collection holds tables of some facade, so a search selects what
\* Selections says.
CollectionInv ==
    /\ collection = None \/ collection \subseteq AllTables
    /\ \A c \in Calls : pc[c] = "upsert" => collection \subseteq AllTables
    /\ \A c \in Calls : pc[c] \in {"lookup", "insert", "done"} => tables[c] \in Selections(FacadeOf(c))

\* Every entry of the prompt cache is what some facade wrote under its key.
PromptsInv ==
    \A p \in prompts : \E f \in Facades : \E ts \in Selections(f) :
        p.key = PromptKey(f, ts) /\ p.text = PromptFor(f, ts)

\* So the prompt of every call that has one was written under its key.
OwnInv ==
    \A c \in Calls :
        /\ pc[c] = "insert" => prompt[c] = PromptFor(FacadeOf(c), tables[c])
        /\ pc[c] = "done" => \E f \in Facades : /\ tables[c] \in Selections(f)
                                               /\ PromptKey(f, tables[c]) = Key(c)
                                               /\ prompt[c] = PromptFor(f, tables[c])

IInv == CallsInv /\ SchemaInv /\ CollectionInv /\ PromptsInv /\ OwnInv

\* What a search returns is among the tables the facades have.
LEMMA SearchedIsKnown ==
    ASSUME collection = None \/ collection \subseteq AllTables, NEW f, NEW found \in Searched(f)
    PROVE  found \subseteq AllTables
BY DEF Searched

LEMMA KeyNamesTables ==
    ASSUME NEW f, NEW g, NEW ts, NEW us, PromptKey(f, ts) = PromptKey(g, us)
    PROVE  ts = us /\ f.policy = g.policy
BY DEF PromptKey

\* What is found under a key was written for the tables that are asked for.
LEMMA HitIsOwn ==
    ASSUME IInv, NEW c \in Calls, pc[c] = "lookup", NEW p \in prompts, p.key = Key(c)
    PROVE  \E f \in Facades : /\ tables[c] \in Selections(f)
                              /\ PromptKey(f, tables[c]) = Key(c)
                              /\ p.text = PromptFor(f, tables[c])
<1>1. PICK f \in Facades : \E ts \in Selections(f) :
         p.key = PromptKey(f, ts) /\ p.text = PromptFor(f, ts)
  BY DEF IInv, PromptsInv
<1>2. PICK ts \in Selections(f) : p.key = PromptKey(f, ts) /\ p.text = PromptFor(f, ts)
  BY <1>1
<1>3. PromptKey(f, ts) = PromptKey(FacadeOf(c), tables[c])
  BY <1>2 DEF Key
<1>4. ts = tables[c]
  BY <1>3, KeyNamesTables
<1> QED
  BY <1>2, <1>4

LEMMA InitIInv == Init => IInv
BY DEF Init, IInv, CallsInv, SchemaInv, CollectionInv, PromptsInv, OwnInv, Places, FacadeOf, Key

\* The steps that resolve the schema.
LEMMA ResolveIInv ==
    ASSUME IInv, NEW c \in Calls, ResolveMiss(c) \/ ResolveHit(c) \/ Load(c)
    PROVE  IInv'
<1> USE DEF FacadeOf, Goto, caches, Key
<1>1. CallsInv'
  BY DEF IInv, CallsInv, ResolveMiss, ResolveHit, Load, Places
<1>2. SchemaInv'
  BY DEF IInv, CallsInv, SchemaInv, ResolveMiss, ResolveHit, Load, Places
<1>3. CollectionInv'
  BY DEF IInv, CallsInv, CollectionInv, ResolveMiss, ResolveHit, Load, Places
<1>4. PromptsInv'
  BY DEF IInv, PromptsInv, ResolveMiss, ResolveHit, Load
<1>5. OwnInv'
  BY DEF IInv, CallsInv, OwnInv, ResolveMiss, ResolveHit, Load
<1> QED
  BY <1>1, <1>2, <1>3, <1>4, <1>5 DEF IInv

\* The steps that index.
LEMMA IndexIInv ==
    ASSUME IInv, NEW c \in Calls,
           \/ ClaimIndex(c) \/ SkipIndex(c) \/ ListCollections(c) \/ CreateCollection(c)
           \/ Upsert(c) \/ IndexFails(c)
    PROVE  IInv'
<1> USE DEF FacadeOf, Goto, caches, Key
<1> DEFINE Indexing == \/ ClaimIndex(c) \/ SkipIndex(c) \/ ListCollections(c)
                       \/ CreateCollection(c) \/ Upsert(c) \/ IndexFails(c)
<1>1. CallsInv'
  BY DEF IInv, CallsInv, ClaimIndex, SkipIndex, ListCollections, CreateCollection, Upsert,
         IndexFails, Places
<1>2. SchemaInv'
  BY DEF IInv, CallsInv, SchemaInv, ClaimIndex, SkipIndex, ListCollections, CreateCollection,
         Upsert, IndexFails
<1>3. CollectionInv'
  <2>1. CASE Upsert(c)
    <3>1. ToSet(schema[c].tables) \subseteq AllTables
      BY <2>1 DEF IInv, CallsInv, SchemaInv, Upsert, AllTables, TableSet
    <3>2. collection \subseteq AllTables
      BY <2>1 DEF IInv, CollectionInv, Upsert
    <3>3. collection' \subseteq AllTables
      BY <2>1, <3>1, <3>2 DEF Upsert
    <3> QED
      BY <2>1, <3>3 DEF IInv, CallsInv, CollectionInv, Upsert
  <2>2. CASE CreateCollection(c)
    BY <2>2 DEF IInv, CallsInv, CollectionInv, CreateCollection
  <2>3. CASE ClaimIndex(c) \/ SkipIndex(c) \/ ListCollections(c) \/ IndexFails(c)
    BY <2>3 DEF IInv, CallsInv, CollectionInv, ClaimIndex, SkipIndex, ListCollections, IndexFails
  <2> QED
    BY <2>1, <2>2, <2>3
<1>4. PromptsInv'
  BY DEF IInv, PromptsInv, ClaimIndex, SkipIndex, ListCollections, CreateCollection, Upsert,
         IndexFails
<1>5. OwnInv'
  BY DEF IInv, CallsInv, OwnInv, ClaimIndex, SkipIndex, ListCollections, CreateCollection,
         Upsert, IndexFails
<1> QED
  BY <1>1, <1>2, <1>3, <1>4, <1>5 DEF IInv

\* The selection of the tables.
LEMMA SelectIInv ==
    ASSUME IInv, NEW c \in Calls, SelectTables(c)
    PROVE  IInv'
<1> USE DEF FacadeOf, Goto, caches, Key
<1>1. PICK found \in Searched(FacadeOf(c)) :
         tables' = [tables EXCEPT ![c] = RelevantTables(FacadeOf(c), ask[c].question, found)]
  BY DEF SelectTables
<1>2. found \subseteq AllTables
  BY SearchedIsKnown DEF IInv, CollectionInv
<1>3. tables'[c] \in Selections(FacadeOf(c))
  BY <1>1, <1>2 DEF IInv, CallsInv, Selections
<1>4. CallsInv' /\ SchemaInv'
  BY <1>1 DEF IInv, CallsInv, SchemaInv, SelectTables, Places
<1>5. CollectionInv'
  BY <1>1, <1>3 DEF IInv, CallsInv, CollectionInv, SelectTables
<1>6. PromptsInv'
  BY DEF IInv, PromptsInv, SelectTables
<1>7. OwnInv'
  BY <1>1 DEF IInv, CallsInv, OwnInv, SelectTables
<1> QED
  BY <1>4, <1>5, <1>6, <1>7 DEF IInv

\* The steps at the prompt cache.
LEMMA PromptIInv ==
    ASSUME IInv, NEW c \in Calls, PromptHit(c) \/ PromptMiss(c) \/ PromptInsert(c)
    PROVE  IInv'
<1> USE DEF Goto, caches
<1>1. CallsInv' /\ SchemaInv' /\ CollectionInv'
  <2>1. CASE PromptHit(c)
    BY <2>1 DEF IInv, CallsInv, SchemaInv, CollectionInv, FacadeOf, PromptHit, Places
  <2>2. CASE PromptMiss(c)
    BY <2>2 DEF IInv, CallsInv, SchemaInv, CollectionInv, FacadeOf, PromptMiss, Places
  <2>3. CASE PromptInsert(c)
    BY <2>3 DEF IInv, CallsInv, SchemaInv, CollectionInv, FacadeOf, PromptInsert, Places
  <2> QED
    BY <2>1, <2>2, <2>3
<1>2. PromptsInv'
  <2>1. CASE PromptInsert(c)
    <3>1. prompt[c] = PromptFor(FacadeOf(c), tables[c])
      BY <2>1 DEF IInv, OwnInv, PromptInsert
    <3>2. FacadeOf(c) \in Facades /\ tables[c] \in Selections(FacadeOf(c))
      BY <2>1 DEF IInv, CallsInv, CollectionInv, FacadeOf, PromptInsert
    <3>3. \A p \in prompts' : p \in prompts \/ p = [key |-> Key(c), text |-> prompt[c]]
      BY <2>1 DEF PromptInsert
    <3> QED
      BY <3>1, <3>2, <3>3 DEF IInv, PromptsInv, Key
  <2>2. CASE PromptHit(c) \/ PromptMiss(c)
    BY <2>2 DEF IInv, PromptsInv, PromptHit, PromptMiss
  <2> QED
    BY <2>1, <2>2
<1>3. OwnInv'
  <2>1. CASE PromptHit(c)
    <3>1. PICK p \in prompts : p.key = Key(c) /\ prompt' = [prompt EXCEPT ![c] = p.text]
      BY <2>1 DEF PromptHit
    <3>2. PICK f \in Facades : /\ tables[c] \in Selections(f)
                               /\ PromptKey(f, tables[c]) = Key(c)
                               /\ p.text = PromptFor(f, tables[c])
      BY <2>1, <3>1, HitIsOwn DEF PromptHit
    <3> QED
      BY <2>1, <3>1, <3>2 DEF IInv, CallsInv, OwnInv, PromptHit, FacadeOf, Key
  <2>2. CASE PromptMiss(c)
    BY <2>2 DEF IInv, CallsInv, OwnInv, PromptMiss, FacadeOf, Key
  <2>3. CASE PromptInsert(c)
    <3>1. FacadeOf(c) \in Facades /\ tables[c] \in Selections(FacadeOf(c))
      BY <2>3 DEF IInv, CallsInv, CollectionInv, FacadeOf, PromptInsert
    <3>2. prompt[c] = PromptFor(FacadeOf(c), tables[c])
      BY <2>3 DEF IInv, OwnInv, PromptInsert
    <3> QED
      BY <2>3, <3>1, <3>2 DEF IInv, CallsInv, OwnInv, PromptInsert, FacadeOf, Key
  <2> QED
    BY <2>1, <2>2, <2>3
<1> QED
  BY <1>1, <1>2, <1>3 DEF IInv

\* The caches forget, and nothing else happens.
LEMMA ForgetIInv ==
    ASSUME IInv, Evict \/ ClearAllCaches \/ UNCHANGED vars
    PROVE  IInv'
<1> USE DEF FacadeOf, Key
<1>1. CallsInv' /\ CollectionInv' /\ OwnInv'
  BY DEF IInv, CallsInv, CollectionInv, OwnInv, Evict, ClearAllCaches, vars
<1>2. SchemaInv'
  BY DEF IInv, SchemaInv, Evict, ClearAllCaches, vars, caches
<1>3. PromptsInv'
  BY DEF IInv, PromptsInv, Evict, ClearAllCaches, vars, caches
<1> QED
  BY <1>1, <1>2, <1>3 DEF IInv

LEMMA NextIInv == IInv /\ [Next]_vars => IInv'
<1> SUFFICES ASSUME IInv, [Next]_vars PROVE IInv'
  OBVIOUS
<1>1. ASSUME NEW c \in Calls, CallStep(c) PROVE IInv'
  BY <1>1, ResolveIInv, IndexIInv, SelectIInv, PromptIInv DEF CallStep
<1> QED
  BY <1>1, ForgetIInv DEF Next

-----------------------------------------------------------------------------
(* What a filter keeps.                                                    *)

LEMMA LeastNumber ==
    ASSUME NEW S \in SUBSET Nat, S # {}
    PROVE  \E m \in S : \A n \in S : m <= n
<1> DEFINE Less == {p \in Nat \X Nat : p[1] < p[2]}
<1>1. IsWellFoundedOn(Less, Nat)
  BY NatLessThanWellFounded DEF OpToRel
<1>2. \E m \in S : \A n \in S : ~(<<n, m>> \in Less)
  <2> HIDE DEF Less
  <2> QED
    BY <1>1, WFMin
<1>3. \A m, n \in Nat : ~(<<n, m>> \in Less) => m <= n
  OBVIOUS
<1> HIDE DEF Less
<1> QED
  BY <1>2, <1>3

\* The recursion of Filter is one: what it keeps of a prefix follows from
\* what it keeps of the prefix that is shorter by one.
LEMMA FilterStepByStep ==
    ASSUME NEW X, NEW s \in Seq(X), NEW holds
    PROVE  \E kept : /\ kept[0] = <<>> /\ Filter(s, holds) = kept[Len(s)]
                     /\ \A i \in 1..Len(s) :
                           kept[i] = IF holds[i] THEN Append(kept[i - 1], s[i]) ELSE kept[i - 1]
<1> DEFINE Step(g, i) == IF i = 0 THEN <<>>
                         ELSE IF holds[i] THEN Append(g[i - 1], s[i]) ELSE g[i - 1]
           Keeps(n, g) == g = [i \in 0..n |-> Step(g, i)]
           Bad == {n \in Nat : \A g : ~Keeps(n, g)}
<1>1. ASSUME Bad # {} PROVE FALSE
  <2>1. PICK m \in Bad : \A n \in Bad : m <= n
    <3>1. Bad \in SUBSET Nat
      OBVIOUS
    <3> HIDE DEF Bad
    <3> QED
      BY <1>1, <3>1, LeastNumber
  <2>2. CASE m = 0
    <3>1. Keeps(0, [i \in 0..0 |-> <<>>])
      OBVIOUS
    <3> QED
      BY <2>1, <2>2, <3>1
  <2>3. CASE m # 0
    <3>0. m \in Nat /\ m - 1 \in Nat
      BY <2>1, <2>3
    <3>1. m - 1 \notin Bad
      <4> HIDE DEF Bad
      <4> QED
        BY <2>1, <3>0
    <3>2. PICK g : Keeps(m - 1, g)
      BY <3>0, <3>1
    <3> DEFINE h == [i \in 0..m |-> IF i = m THEN Step(g, m) ELSE g[i]]
    <3>3. \A i \in 0..m - 1 : g[i] = Step(g, i)
      BY <3>2
    <3>4. h[m] = Step(g, m) /\ \A i \in 0..m - 1 : h[i] = g[i]
      <4> HIDE DEF Step
      <4> QED
        BY <3>0
    <3>5. \A i \in 0..m : Step(h, i) = Step(g, i)
      <4> HIDE DEF h
      <4> QED
        BY <3>0, <3>4
    <3>6. \A i \in 0..m : h[i] = Step(h, i)
      <4> HIDE DEF h, Step
      <4> QED
        BY <3>0, <3>3, <3>4, <3>5
    <3>7. Keeps(m, h)
      <4> HIDE DEF Step
      <4> QED
        BY <3>6
    <3> HIDE DEF h, Keeps
    <3> QED
      BY <2>1, <3>7
  <2> QED
    BY <2>2, <2>3
<1>2. Len(s) \in Nat /\ Filter(s, holds) = (CHOOSE g : Keeps(Len(s), g))[Len(s)]
  BY DEF Filter
<1>3. Keeps(Len(s), CHOOSE g : Keeps(Len(s), g))
  <2> HIDE DEF Keeps
  <2>1. Len(s) \notin Bad
    BY <1>1
  <2>2. \E g : Keeps(Len(s), g)
    BY <1>2, <2>1
  <2> QED
    BY <2>2
<1>4. PICK kept : Keeps(Len(s), kept) /\ Filter(s, holds) = kept[Len(s)]
  <2> HIDE DEF Keeps
  <2> QED
    BY <1>2, <1>3
<1>5. \A i \in 0..Len(s) : kept[i] = Step(kept, i)
  BY <1>4
<1>6. kept[0] = <<>>
  BY <1>2, <1>5
<1>7. \A i \in 1..Len(s) : kept[i] = IF holds[i] THEN Append(kept[i - 1], s[i]) ELSE kept[i - 1]
  BY <1>2, <1>5
<1> HIDE DEF Keeps, Step, Bad
<1> QED
  BY <1>4, <1>6, <1>7

\* A filter keeps exactly the elements at the positions it is to keep.
LEMMA FilterKeeps ==
    ASSUME NEW X, NEW s \in Seq(X), NEW holds
    PROVE  /\ Filter(s, holds) \in Seq(X)
           /\ \A x : x \in ToSet(Filter(s, holds)) <=> \E i \in 1..Len(s) : holds[i] /\ s[i] = x
<1>1. PICK kept : /\ kept[0] = <<>> /\ Filter(s, holds) = kept[Len(s)]
                  /\ \A i \in 1..Len(s) :
                        kept[i] = IF holds[i] THEN Append(kept[i - 1], s[i]) ELSE kept[i - 1]
  BY FilterStepByStep
<1> DEFINE Good(n) == /\ kept[n] \in Seq(X)
                      /\ \A x : (\E i \in 1..Len(kept[n]) : kept[n][i] = x)
                                   <=> (\E i \in 1..n : holds[i] /\ s[i] = x)
           Bad == {n \in 0..Len(s) : ~Good(n)}
<1>2. ASSUME Bad # {} PROVE FALSE
  <2>1. PICK m \in Bad : \A n \in Bad : m <= n
    <3>1. Bad \in SUBSET Nat
      OBVIOUS
    <3> HIDE DEF Bad
    <3> QED
      BY <1>2, <3>1, LeastNumber
  <2>2. m \in 0..Len(s) /\ ~Good(m)
    BY <2>1
  <2>3. m # 0
    <3>1. Good(0)
      BY <1>1
    <3> QED
      BY <2>2, <3>1
  <2>4. m \in 1..Len(s) /\ m - 1 \in 0..Len(s) /\ Len(s) \in Nat
    BY <2>2, <2>3
  <2>5. Good(m - 1)
    <3>1. m - 1 \notin Bad
      <4> HIDE DEF Bad
      <4> QED
        BY <2>1, <2>4
    <3> QED
      BY <2>4, <3>1
  <2>6. s[m] \in X
    BY <2>4
  <2>7. CASE ~holds[m]
    <3>1. kept[m] = kept[m - 1]
      BY <1>1, <2>4, <2>7
    <3>2. \A x : (\E i \in 1..m : holds[i] /\ s[i] = x) <=> (\E i \in 1..m - 1 : holds[i] /\ s[i] = x)
      BY <2>4, <2>7
    <3>3. Good(m)
      <4>1. kept[m] \in Seq(X)
        BY <2>5, <3>1
      <4>2. \A x : (\E i \in 1..Len(kept[m - 1]) : kept[m - 1][i] = x)
                      <=> (\E i \in 1..m - 1 : holds[i] /\ s[i] = x)
        BY <2>5
      <4>3. \A x : (\E i \in 1..Len(kept[m]) : kept[m][i] = x) <=> (\E i \in 1..m : holds[i] /\ s[i] = x)
        <5>1. \A x : (\E i \in 1..Len(kept[m]) : kept[m][i] = x)
                        <=> (\E i \in 1..Len(kept[m - 1]) : kept[m - 1][i] = x)
          BY ONLY <3>1
        <5> QED
          BY <3>2, <4>2, <5>1, Zenon
      <4> QED
        BY <4>1, <4>3
    <3> QED
      BY <2>2, <3>3
  <2>8. CASE holds[m]
    <3>1. kept[m] = Append(kept[m - 1], s[m])
      BY <1>1, <2>4, <2>8
    <3>2. /\ kept[m] \in Seq(X) /\ Len(kept[m - 1]) \in Nat /\ Len(kept[m]) = Len(kept[m - 1]) + 1
          /\ kept[m][Len(kept[m])] = s[m]
          /\ \A i \in 1..Len(kept[m - 1]) : kept[m][i] = kept[m - 1][i]
      BY <2>5, <2>6, <3>1
    <3>3. \A x : (\E i \in 1..Len(kept[m]) : kept[m][i] = x)
                    <=> x = s[m] \/ (\E i \in 1..Len(kept[m - 1]) : kept[m - 1][i] = x)
      <4> TAKE x
      <4>1. ASSUME NEW i \in 1..Len(kept[m]), kept[m][i] = x
            PROVE  x = s[m] \/ (\E j \in 1..Len(kept[m - 1]) : kept[m - 1][j] = x)
        <5>1. i = Len(kept[m]) \/ i \in 1..Len(kept[m - 1])
          BY <3>2
        <5>2. CASE i = Len(kept[m])
          BY <3>2, <4>1, <5>2
        <5>3. CASE i \in 1..Len(kept[m - 1])
          <6>1. kept[m - 1][i] = x
            BY <3>2, <4>1, <5>3
          <6> QED
            BY <5>3, <6>1
        <5> QED
          BY <5>1, <5>2, <5>3
      <4>2. ASSUME x = s[m] PROVE \E i \in 1..Len(kept[m]) : kept[m][i] = x
        BY <3>2, <4>2
      <4>3. ASSUME NEW j \in 1..Len(kept[m - 1]), kept[m - 1][j] = x
            PROVE  \E i \in 1..Len(kept[m]) : kept[m][i] = x
        <5>1. j \in 1..Len(kept[m]) /\ kept[m][j] = x
          BY <3>2, <4>3
        <5> QED
          BY <5>1
      <4> QED
        BY <4>1, <4>2, <4>3
    <3>4. \A x : (\E i \in 1..m : holds[i] /\ s[i] = x)
                    <=> x = s[m] \/ (\E i \in 1..m - 1 : holds[i] /\ s[i] = x)
      BY <2>4, <2>8
    <3>5. \A x : (\E i \in 1..m - 1 : holds[i] /\ s[i] = x)
                    <=> (\E i \in 1..Len(kept[m - 1]) : kept[m - 1][i] = x)
      BY <2>5
    <3>6. Good(m)
      <4>1. \A x : (\E i \in 1..Len(kept[m]) : kept[m][i] = x) <=> (\E i \in 1..m : holds[i] /\ s[i] = x)
        BY <3>3, <3>4, <3>5, Zenon
      <4> QED
        BY <3>2, <4>1
    <3> QED
      BY <2>2, <3>6
  <2> QED
    BY <2>7, <2>8
<1>3. /\ kept[Len(s)] \in Seq(X)
      /\ \A x : (\E i \in 1..Len(kept[Len(s)]) : kept[Len(s)][i] = x)
                   <=> (\E i \in 1..Len(s) : holds[i] /\ s[i] = x)
  <2>1. Len(s) \in 0..Len(s)
    OBVIOUS
  <2> QED
    BY <1>2, <2>1
<1>4. /\ Filter(s, holds) \in Seq(X)
      /\ \A x : (\E i \in 1..Len(Filter(s, holds)) : Filter(s, holds)[i] = x)
                   <=> (\E i \in 1..Len(s) : holds[i] /\ s[i] = x)
  <2>1. Filter(s, holds) = kept[Len(s)]
    BY <1>1
  <2> QED
    BY ONLY <1>3, <2>1
<1>5. \A x : x \in ToSet(Filter(s, holds)) <=> \E i \in 1..Len(Filter(s, holds)) : Filter(s, holds)[i] = x
  BY <1>4 DEF ToSet
<1> QED
  BY <1>4, <1>5

LEMMA EmptyIffNothing ==
    ASSUME NEW X, NEW s \in Seq(X)
    PROVE  /\ s = <<>> <=> ToSet(s) = {}
           /\ ToSet(s) = {s[i] : i \in 1..Len(s)} /\ ToSet(s) \subseteq X
<1>1. ToSet(s) = {s[i] : i \in 1..Len(s)} /\ Len(s) \in Nat
  BY DEF ToSet
<1>2. s = <<>> <=> Len(s) = 0
  OBVIOUS
<1>3. Len(s) # 0 => s[1] \in ToSet(s)
  BY <1>1
<1>4. Len(s) = 0 => ToSet(s) = {}
  BY <1>1
<1>5. ToSet(s) \subseteq X
  BY <1>1
<1> QED
  BY <1>1, <1>2, <1>3, <1>4, <1>5

-----------------------------------------------------------------------------
(* Which tables a prompt is about.                                         *)

LEMMA InOrderKeeps ==
    ASSUME NEW f \in Facades, NEW T
    PROVE  /\ InOrder(f, T) \in Seq(TableSet(f))
           /\ ToSet(InOrder(f, T)) = TableSet(f) \cap T
<1> DEFINE all == f.schema.tables
           holds == [i \in DOMAIN all |-> all[i] \in T]
<1>1. all \in Seq(TableSet(f))
  BY FacadesAssumption
<1>5. DOMAIN all = 1..Len(all) /\ TableSet(f) = {all[i] : i \in 1..Len(all)}
  BY <1>1 DEF TableSet, ToSet
<1>2. InOrder(f, T) = Filter(all, holds)
  BY DEF InOrder
<1>3. /\ Filter(all, holds) \in Seq(TableSet(f))
      /\ \A x : x \in ToSet(Filter(all, holds)) <=> \E i \in 1..Len(all) : holds[i] /\ all[i] = x
  <2> HIDE DEF all, holds
  <2> QED
    BY <1>1, FilterKeeps
<1>4. \A x : (\E i \in 1..Len(all) : holds[i] /\ all[i] = x) <=> x \in TableSet(f) \cap T
  BY <1>5
<1> QED
  BY <1>2, <1>3, <1>4

\* Whatever a search finds, the tables selected are the facade's, and some are
\* if it has any: of a question's words either none names a table, and all
\* tables are selected, or the tables they name are.
LEMMA SelectionsAreOwn ==
    ASSUME NEW f \in Facades, NEW ts \in Selections(f)
    PROVE  /\ ts \in Seq(TableSet(f)) /\ ToSet(ts) \subseteq TableSet(f)
           /\ ts = <<>> => TableSet(f) = {}
<1>1. PICK q \in Questions, found \in SUBSET AllTables : ts = RelevantTables(f, q, found)
  BY DEF Selections
<1>2. CASE InOrder(f, Expanded(f, found)) # <<>>
  BY <1>1, <1>2, InOrderKeeps DEF RelevantTables
<1>3. CASE ~(InOrder(f, Expanded(f, found)) # <<>>)
  <2>1. ts = RelevantByWords(f, q)
    BY <1>1, <1>3 DEF RelevantTables
  <2>2. CASE Scored(f, q) = {}
    <3>1. ts = f.schema.tables /\ ts \in Seq(TableSet(f))
      BY <2>1, <2>2, FacadesAssumption DEF RelevantByWords
    <3> QED
      BY <3>1, EmptyIffNothing DEF TableSet
  <2>3. CASE Scored(f, q) # {}
    <3>1. ts = InOrder(f, Expanded(f, Scored(f, q)))
      BY <2>1, <2>3 DEF RelevantByWords
    <3>2. ts \in Seq(TableSet(f)) /\ ToSet(ts) = TableSet(f) \cap Expanded(f, Scored(f, q))
      BY <3>1, InOrderKeeps
    <3>3. Scored(f, q) \subseteq TableSet(f) /\ Scored(f, q) \subseteq Expanded(f, Scored(f, q))
      BY DEF Scored, Expanded
    <3>4. ToSet(ts) # {}
      BY <2>3, <3>2, <3>3
    <3> QED
      BY <3>2, <3>4, EmptyIffNothing
  <2> QED
    BY <2>2, <2>3
<1> QED
  BY <1>2, <1>3

\* Whichever facades share the vector collection and whatever their searches
\* find, a prompt is about tables of its own facade's schema, and about one at
\* least if there is one (filter_relevant_tables).
THEOREM PromptsAreAboutOwnTables == Spec => []TablesAreOwn
<1>1. IInv => TablesAreOwn
  <2> SUFFICES ASSUME IInv, NEW c \in Calls, pc[c] \in {"lookup", "insert", "done"}
               PROVE  /\ ToSet(tables[c]) \subseteq TableSet(FacadeOf(c))
                      /\ tables[c] = <<>> => TableSet(FacadeOf(c)) = {}
    BY DEF TablesAreOwn
  <2>1. FacadeOf(c) \in Facades /\ tables[c] \in Selections(FacadeOf(c))
    BY DEF IInv, CallsInv, CollectionInv, FacadeOf
  <2> QED
    BY <2>1, SelectionsAreOwn
<1> QED
  BY <1>1, InitIInv, NextIInv, PTL DEF Spec

\* Whatever the calls, facades and questions, and however their steps
\* interleave, a call gets a prompt that was written for its schema version,
\* dialect, policy and tables (build_system_prompt_with_cache).
THEOREM PromptsAreOwn == Spec => []PromptIsOwn
<1>1. IInv => PromptIsOwn
  <2> SUFFICES ASSUME IInv, NEW c \in Calls, pc[c] = "done"
               PROVE  \E f \in KeyMates(c) : prompt[c] = PromptFor(f, tables[c])
    BY DEF PromptIsOwn
  <2>1. PICK f \in Facades : /\ tables[c] \in Selections(f)
                             /\ PromptKey(f, tables[c]) = Key(c)
                             /\ prompt[c] = PromptFor(f, tables[c])
    BY DEF IInv, OwnInv
  <2>2. ToSet(tables[c]) \subseteq TableSet(f)
    BY <2>1, SelectionsAreOwn
  <2> QED
    BY <2>1, <2>2 DEF KeyMates, Key
<1> QED
  BY <1>1, InitIInv, NextIInv, PTL DEF Spec

-----------------------------------------------------------------------------
(* What a prompt shows of a table.                                         *)

\* column_visible and column_denial_reason agree.
LEMMA VisibleIffAccepted ==
    ASSUME NEW f, NEW t, NEW name
    PROVE  ColumnVisible(f, t, name) <=> Allowed(f, t) /\ DenialReason(f.policy, t, name) = ""
BY DEF ColumnVisible, Allowed, DenialReason, GloballyDenied

LEMMA VisibleColumnsKeep ==
    ASSUME NEW f \in Facades, NEW t \in TableSet(f)
    PROVE  /\ VisibleColumns(f, t) \in Seq(ToSet(ColumnsIn(f, t)))
           /\ ToSet(VisibleColumns(f, t))
                 = {column \in ToSet(ColumnsIn(f, t)) : ColumnVisible(f, t, column.name)}
<1> DEFINE all == ColumnsIn(f, t)
           holds == [i \in DOMAIN all |-> ColumnVisible(f, t, all[i].name)]
           Columns == ToSet(all)
<1>1. all \in Seq(Columns)
  BY FacadesAssumption
<1>5. DOMAIN all = 1..Len(all) /\ ToSet(all) = {all[i] : i \in 1..Len(all)}
  BY <1>1 DEF ToSet
<1>2. VisibleColumns(f, t) = Filter(all, holds)
  BY DEF VisibleColumns
<1>3. /\ Filter(all, holds) \in Seq(Columns)
      /\ \A x : x \in ToSet(Filter(all, holds)) <=> \E i \in 1..Len(all) : holds[i] /\ all[i] = x
  <2> HIDE DEF all, holds, Columns
  <2> QED
    BY <1>1, FilterKeeps
<1>4. \A x : (\E i \in 1..Len(all) : holds[i] /\ all[i] = x)
                <=> x \in {column \in ToSet(all) : ColumnVisible(f, t, column.name)}
  BY <1>5
<1> QED
  BY <1>2, <1>3, <1>4

\* The lines of a prompt: one for each of its tables that has a column to show.
LEMMA LinesKeep ==
    ASSUME NEW f \in Facades, NEW ts \in Seq(TableSet(f))
    PROVE  ToSet(SchemaLines(f, ts)) =
              {[table |-> t, columns |-> VisibleColumns(f, t)] :
                  t \in {t \in ToSet(ts) : Allowed(f, t) /\ VisibleColumns(f, t) # <<>>}}
<1> DEFINE holds == [i \in DOMAIN ts |-> Allowed(f, ts[i]) /\ VisibleColumns(f, ts[i]) # <<>>]
           shown == Filter(ts, holds)
           Line(t) == [table |-> t, columns |-> VisibleColumns(f, t)]
<1>1. SchemaLines(f, ts) = [i \in DOMAIN shown |-> Line(shown[i])]
  BY DEF SchemaLines
<1>2. \A x : x \in ToSet(shown) <=> \E i \in 1..Len(ts) : holds[i] /\ ts[i] = x
  <2> HIDE DEF holds
  <2> QED
    BY FilterKeeps
<1>3. ToSet(shown) = {t \in ToSet(ts) : Allowed(f, t) /\ VisibleColumns(f, t) # <<>>}
  <2>1. ToSet(ts) = {ts[i] : i \in 1..Len(ts)}
    BY EmptyIffNothing
  <2>2. \A i \in 1..Len(ts) : holds[i] <=> Allowed(f, ts[i]) /\ VisibleColumns(f, ts[i]) # <<>>
    <3>1. DOMAIN ts = 1..Len(ts)
      OBVIOUS
    <3> QED
      BY <3>1, Zenon
  <2> HIDE DEF shown, holds
  <2> QED
    BY <1>2, <2>1, <2>2
<1>4. ToSet(SchemaLines(f, ts)) = {Line(t) : t \in ToSet(shown)}
  <2> HIDE DEF shown, Line
  <2> QED
    BY <1>1 DEF ToSet
<1> QED
  BY <1>3, <1>4

Offered(lines) == UNION {{<<line.table, shown.name>> : shown \in ToSet(line.columns)} : line \in ToSet(lines)}

\* A table is offered only with columns the policy engine accepts, ...
LEMMA LinesOfferOnlyAccepted ==
    ASSUME NEW f \in Facades, NEW ts \in Seq(TableSet(f)), NEW t \in ToSet(ts), NEW name,
           <<t, name>> \in Offered(SchemaLines(f, ts))
    PROVE  Allowed(f, t) /\ DenialReason(f.policy, t, name) = ""
<1>1. t \in TableSet(f)
  BY EmptyIffNothing
<1>2. PICK line \in ToSet(SchemaLines(f, ts)) : \E shown \in ToSet(line.columns) :
         <<t, name>> = <<line.table, shown.name>>
  BY DEF Offered
<1>3. line.table = t /\ \E shown \in ToSet(line.columns) : shown.name = name
  BY <1>2
<1>4. line.columns = VisibleColumns(f, t)
  BY <1>2, <1>3, LinesKeep
<1> QED
  BY <1>1, <1>3, <1>4, VisibleColumnsKeep, VisibleIffAccepted

LEMMA OfferedByLine ==
    ASSUME NEW lines, NEW t, NEW columns, NEW column \in ToSet(columns),
           [table |-> t, columns |-> columns] \in ToSet(lines)
    PROVE  <<t, column.name>> \in Offered(lines)
<1> DEFINE Names(line) == {<<line.table, shown.name>> : shown \in ToSet(line.columns)}
           line == [table |-> t, columns |-> columns]
<1>1. <<t, column.name>> \in Names(line)
  OBVIOUS
<1>2. Offered(lines) = UNION {Names(l) : l \in ToSet(lines)}
  BY DEF Offered
<1>3. line \in ToSet(lines)
  OBVIOUS
<1> HIDE DEF Names, line
<1> QED
  BY <1>1, <1>2, <1>3

\* ... and with all of them.
LEMMA LinesOfferAllAccepted ==
    ASSUME NEW f \in Facades, NEW ts \in Seq(TableSet(f)), NEW t \in ToSet(ts),
           NEW column \in ToSet(ColumnsIn(f, t)),
           Allowed(f, t), DenialReason(f.policy, t, column.name) = ""
    PROVE  <<t, column.name>> \in Offered(SchemaLines(f, ts))
<1>1. t \in TableSet(f)
  BY EmptyIffNothing
<1>2. column \in ToSet(VisibleColumns(f, t))
  <2>1. ColumnVisible(f, t, column.name)
    BY VisibleIffAccepted
  <2> QED
    BY <1>1, <2>1, VisibleColumnsKeep
<1>3. VisibleColumns(f, t) # <<>>
  BY <1>1, <1>2, VisibleColumnsKeep, EmptyIffNothing
<1>4. [table |-> t, columns |-> VisibleColumns(f, t)] \in ToSet(SchemaLines(f, ts))
  BY <1>3, LinesKeep
<1> QED
  BY <1>2, <1>4, OfferedByLine

LEMMA LinesOfPrompt ==
    ASSUME NEW f, NEW ts
    PROVE  PromptFor(f, ts).lines = SchemaLines(f, ts)
BY DEF PromptFor

\* What the policy accepts is the policy's own matter.
LEMMA SamePolicySameAccepted ==
    ASSUME NEW f, NEW g, f.policy = g.policy, NEW t
    PROVE  Allowed(f, t) <=> Allowed(g, t)
BY DEF Allowed

\* Whatever the schemas, policies and questions, the table lines of a call's
\* prompt offer no column that the policy engine refuses, and all that it accepts
\* unless a facade of the same key has other columns
\* (push_schema_description, column_denial_reason).
THEOREM PromptsOfferWhatIsAccepted == Spec => []ShownIsAccepted
<1>1. IInv => ShownIsAccepted
  <2> SUFFICES ASSUME IInv, NEW c \in Calls, pc[c] \in {"insert", "done"},
                      NEW t \in ToSet(tables[c]), NEW column \in ToSet(ColumnsIn(FacadeOf(c), t))
               PROVE  LET accepted == /\ Allowed(FacadeOf(c), t)
                                      /\ DenialReason(FacadeOf(c).policy, t, column.name) = ""
                      IN /\ <<t, column.name>> \in Offered(prompt[c].lines) => accepted
                         /\ accepted => \/ <<t, column.name>> \in Offered(prompt[c].lines)
                                        \/ \E g \in KeyMates(c) :
                                              ColumnsIn(g, t) # ColumnsIn(FacadeOf(c), t)
    BY DEF ShownIsAccepted, Offered
  <2>1. PICK g \in Facades : /\ tables[c] \in Selections(g)
                             /\ PromptKey(g, tables[c]) = Key(c)
                             /\ prompt[c] = PromptFor(g, tables[c])
    <3>1. FacadeOf(c) \in Facades /\ tables[c] \in Selections(FacadeOf(c))
      BY DEF IInv, CallsInv, CollectionInv, FacadeOf
    <3>2. PromptKey(FacadeOf(c), tables[c]) = Key(c)
      BY DEF Key
    <3> QED
      BY <3>1, <3>2 DEF IInv, OwnInv
  <2>2. tables[c] \in Seq(TableSet(g)) /\ ToSet(tables[c]) \subseteq TableSet(g)
    BY <2>1, SelectionsAreOwn
  <2>3. g \in KeyMates(c)
    BY <2>1, <2>2 DEF KeyMates, Key
  <2>4. prompt[c].lines = SchemaLines(g, tables[c])
    BY <2>1, LinesOfPrompt
  <2>5. g.policy = FacadeOf(c).policy
    <3>1. PromptKey(g, tables[c]) = PromptKey(FacadeOf(c), tables[c])
      BY <2>1 DEF Key
    <3> QED
      BY <3>1 DEF PromptKey
  <2>6. ASSUME <<t, column.name>> \in Offered(prompt[c].lines)
        PROVE  Allowed(FacadeOf(c), t) /\ DenialReason(FacadeOf(c).policy, t, column.name) = ""
    <3>1. <<t, column.name>> \in Offered(SchemaLines(g, tables[c]))
      BY <2>4, <2>6
    <3>2. Allowed(g, t) /\ DenialReason(g.policy, t, column.name) = ""
      BY <2>2, <3>1, LinesOfferOnlyAccepted
    <3> QED
      BY <2>5, <3>2, SamePolicySameAccepted
  <2>7. ASSUME Allowed(FacadeOf(c), t), DenialReason(FacadeOf(c).policy, t, column.name) = "",
               ColumnsIn(g, t) = ColumnsIn(FacadeOf(c), t)
        PROVE  <<t, column.name>> \in Offered(prompt[c].lines)
    <3>1. Allowed(g, t) /\ DenialReason(g.policy, t, column.name) = ""
      BY <2>5, <2>7, SamePolicySameAccepted
    <3>2. column \in ToSet(ColumnsIn(g, t))
      BY <2>7
    <3>3. <<t, column.name>> \in Offered(SchemaLines(g, tables[c]))
      BY <2>2, <3>1, <3>2, LinesOfferAllAccepted
    <3> QED
      BY <2>4, <3>3
  <2> QED
    BY <2>3, <2>6, <2>7
<1> QED
  BY <1>1, InitIInv, NextIInv, PTL DEF Spec
=============================================================================
