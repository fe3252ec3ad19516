---------------------- MODULE ValidationPipeline_proof ----------------------
(***************************************************************************)
(* What the pipeline promises whatever its repairs, stages, rules and      *)
(* compilers make of a plan: the policy holds for what an accepted plan    *)
(* reads, an accepted plan names what exists, and Postgres gets every      *)
(* literal in its place.                                                   *)
(***************************************************************************)
EXTENDS ValidationPipeline, WellFoundedInduction, TLAPS

\* A set of naturals that is not empty has a least element.
LEMMA LeastNumber ==
    ASSUME NEW S \in SUBSET Nat, S # {}
    PROVE  \E m \in S : \A n \in S : m <= n
<1> DEFINE Less == {p \in Nat \X Nat : p[1] < p[2]}
<1>1. IsWellFoundedOn(Less, Nat)
  BY NatLessThanWellFounded DEF OpToRel
<1>2. \E m \in S : \A n \in S : ~(<<n, m>> \in Less)
  <2> HIDE DEF Less
  <2> QED
    BY <1>1, WFMin
<1>3. \A m, n \in Nat : ~(<<n, m>> \in Less) => m <= n
  OBVIOUS
<1> HIDE DEF Less
<1> QED
  BY <1>2, <1>3

-----------------------------------------------------------------------------
(* Lists.                                                                  *)

\* Two lists, one behind the other.
LEMMA BothLists ==
    ASSUME NEW X, NEW a \in Seq(X), NEW b \in Seq(X)
    PROVE  /\ a \o b \in Seq(X)
           /\ \A x : x \in ToSet(a \o b) <=> x \in ToSet(a) \/ x \in ToSet(b)
<1>1. /\ a \o b \in Seq(X) /\ Len(a \o b) = Len(a) + Len(b) /\ Len(a) \in Nat /\ Len(b) \in Nat
      /\ DOMAIN a = 1..Len(a) /\ DOMAIN b = 1..Len(b) /\ DOMAIN (a \o b) = 1..Len(a) + Len(b)
  OBVIOUS
<1>2. \A i \in 1..Len(a) : (a \o b)[i] = a[i]
  OBVIOUS
<1>3. \A i \in 1..Len(b) : Len(a) + i \in 1..Len(a) + Len(b) /\ (a \o b)[Len(a) + i] = b[i]
  BY <1>1
<1>4. \A i \in 1..Len(a) + Len(b) :
          i \in 1..Len(a) \/ (i - Len(a) \in 1..Len(b) /\ i = Len(a) + (i - Len(a)))
  BY <1>1
<1>5. ASSUME NEW x \in ToSet(a \o b) PROVE x \in ToSet(a) \/ x \in ToSet(b)
  <2>1. PICK i \in 1..Len(a) + Len(b) : x = (a \o b)[i]
    BY <1>1 DEF ToSet
  <2>2. CASE i \in 1..Len(a)
    BY <1>1, <1>2, <2>1, <2>2 DEF ToSet
  <2>3. CASE i - Len(a) \in 1..Len(b) /\ i = Len(a) + (i - Len(a))
    BY <1>1, <1>3, <2>1, <2>3 DEF ToSet
  <2> QED
    BY <1>4, <2>2, <2>3
<1>6. ASSUME NEW x \in ToSet(a) PROVE x \in ToSet(a \o b)
  BY <1>1, <1>2 DEF ToSet
<1>7. ASSUME NEW x \in ToSet(b) PROVE x \in ToSet(a \o b)
  <2>1. PICK i \in 1..Len(b) : x = b[i]
    BY <1>1 DEF ToSet
  <2> QED
    BY <1>1, <1>3, <2>1 DEF ToSet
<1> QED
  BY <1>1, <1>5, <1>6, <1>7

\* What is in a list is of its kind.
LEMMA OfItsKind ==
    ASSUME NEW X, NEW a \in Seq(X)
    PROVE  \A i \in DOMAIN a : a[i] \in X
OBVIOUS

\* Without derived tables every relation goes by its table's name.
LEMMA NoneDerived ==
    ASSUME NEW q, q.derived = <<>>
    PROVE  RelationsOf(q) = ToSet(Relations(q))
<1>1. ToSet(q.derived) = {}
  BY DEF ToSet
<1> QED
  BY <1>1 DEF RelationsOf

\* The relations of a query whose joins are a list are one.
LEMMA RelationsAreAList ==
    ASSUME NEW q, q.joins \in Seq(ToSet(q.joins)), q.derived = <<>>
    PROVE  Relations(q) \in Seq(RelationsOf(q))
<1> DEFINE added == [i \in DOMAIN q.joins |-> [table |-> q.joins[i].table, as |-> q.joins[i].as]]
           X == {q.from} \cup {added[i] : i \in DOMAIN q.joins}
<1>1. Relations(q) = <<q.from>> \o added
  BY DEF Relations
<1>2. DOMAIN q.joins = 1..Len(q.joins) /\ Len(q.joins) \in Nat
  OBVIOUS
<1>3. added \in Seq(X)
  BY <1>2
<1>4. <<q.from>> \in Seq(X)
  OBVIOUS
<1> HIDE DEF added, X
<1>5. Relations(q) \in Seq(X)
  BY <1>1, <1>3, <1>4, BothLists
<1>6. \A i \in 1..Len(Relations(q)) : Relations(q)[i] \in RelationsOf(q)
  BY <1>5, NoneDerived DEF ToSet
<1> QED
  BY <1>5, <1>6

-----------------------------------------------------------------------------
(* The recursive functions of the model are functions: what they are at n  *)
(* follows from what they are at n - 1.                                    *)

\* Without goes through the sources one at a time.
LEMMA WithoutStepByStep ==
    ASSUME NEW X, NEW sources \in Seq(X), NEW tables
    PROVE  \E f : /\ f[0] = <<>> /\ Without(sources, tables) = f[Len(sources)]
                  /\ \A i \in 1..Len(sources) :
                        f[i] = IF sources[i].table \in tables THEN f[i - 1]
                               ELSE Append(f[i - 1], sources[i])
<1> DEFINE first == <<>>
           Onward(v, i) == IF sources[i].table \in tables THEN v ELSE Append(v, sources[i])
           Step(g, i) == IF i = 0 THEN first ELSE Onward(g[i - 1], i)
           Steps(n, g) == g = [i \in 0..n |-> Step(g, i)]
           Bad == {n \in Nat : \A g : ~Steps(n, g)}
<1>0. Len(sources) \in Nat /\ Without(sources, tables) = (CHOOSE g : Steps(Len(sources), g))[Len(sources)]
  BY DEF Without
<1>n. Len(sources) \in Nat
  BY <1>0
<1> HIDE DEF first, Onward
<1>1. ASSUME Bad # {} PROVE FALSE
  <2>1. PICK m \in Bad : \A n \in Bad : m <= n
    <3>1. Bad \in SUBSET Nat
      OBVIOUS
    <3> HIDE DEF Bad
    <3> QED
      BY <1>1, <3>1, LeastNumber
  <2>2. CASE m = 0
    <3>1. Steps(0, [i \in 0..0 |-> first])
      OBVIOUS
    <3> QED
      BY <2>1, <2>2, <3>1
  <2>3. CASE m # 0
    <3>0. m \in Nat /\ m - 1 \in Nat
      BY <2>1, <2>3
    <3>1. m - 1 \notin Bad
      <4> HIDE DEF Bad
      <4> QED
        BY <2>1, <3>0
    <3>2. PICK g : Steps(m - 1, g)
      BY <3>0, <3>1
    <3> DEFINE h == [i \in 0..m |-> IF i = m THEN Step(g, m) ELSE g[i]]
    <3>3. \A i \in 0..m - 1 : g[i] = Step(g, i)
      BY <3>2
    <3>4. h[m] = Step(g, m) /\ \A i \in 0..m - 1 : h[i] = g[i]
      <4> HIDE DEF Step
      <4> QED
        BY <3>0
    <3>5. \A i \in 0..m : Step(h, i) = Step(g, i)
      <4> HIDE DEF h
      <4> QED
        BY <3>0, <3>4
    <3>6. \A i \in 0..m : h[i] = Step(h, i)
      <4> HIDE DEF h, Step
      <4> QED
        BY <3>0, <3>3, <3>4, <3>5
    <3>7. Steps(m, h)
      <4> HIDE DEF Step
      <4> QED
        BY <3>6
    <3> HIDE DEF h, Steps
    <3> QED
      BY <2>1, <3>7
  <2> QED
    BY <2>2, <2>3
<1>3. Steps(Len(sources), CHOOSE g : Steps(Len(sources), g))
  <2> HIDE DEF Steps
  <2>1. Len(sources) \notin Bad
    BY <1>1
  <2>2. \E g : Steps(Len(sources), g)
    BY <1>n, <2>1
  <2> QED
    BY <2>2
<1>4. PICK f : Steps(Len(sources), f) /\ Without(sources, tables) = f[Len(sources)]
  <2> HIDE DEF Steps
  <2> QED
    BY <1>0, <1>3
<1>5. \A i \in 0..Len(sources) : f[i] = Step(f, i)
  BY <1>4
<1>6. f[0] = first
  BY <1>n, <1>5
<1>7. \A i \in 1..Len(sources) : f[i] = Onward(f[i - 1], i)
  BY <1>n, <1>5
<1> HIDE DEF Steps, Step, Bad
<1> QED
  BY <1>4, <1>6, <1>7 DEF first, Onward

\* Bind goes through the literals one at a time.
LEMMA BindStepByStep ==
    ASSUME NEW X, NEW literals \in Seq(X)
    PROVE  \E f : /\ f[0] = [parameters |-> <<>>, marks |-> <<>>] /\ Bind(literals) = f[Len(literals)]
                  /\ \A i \in 1..Len(literals) : f[i] = AddParameter(f[i - 1], literals[i])
<1> DEFINE first == [parameters |-> <<>>, marks |-> <<>>]
           Onward(v, i) == AddParameter(v, literals[i])
           Step(g, i) == IF i = 0 THEN first ELSE Onward(g[i - 1], i)
           Steps(n, g) == g = [i \in 0..n |-> Step(g, i)]
           Bad == {n \in Nat : \A g : ~Steps(n, g)}
<1>0. Len(literals) \in Nat /\ Bind(literals) = (CHOOSE g : Steps(Len(literals), g))[Len(literals)]
  BY DEF Bind
<1>n. Len(literals) \in Nat
  BY <1>0
<1> HIDE DEF first, Onward
<1>1. ASSUME Bad # {} PROVE FALSE
  <2>1. PICK m \in Bad : \A n \in Bad : m <= n
    <3>1. Bad \in SUBSET Nat
      OBVIOUS
    <3> HIDE DEF Bad
    <3> QED
      BY <1>1, <3>1, LeastNumber
  <2>2. CASE m = 0
    <3>1. Steps(0, [i \in 0..0 |-> first])
      OBVIOUS
    <3> QED
      BY <2>1, <2>2, <3>1
  <2>3. CASE m # 0
    <3>0. m \in Nat /\ m - 1 \in Nat
      BY <2>1, <2>3
    <3>1. m - 1 \notin Bad
      <4> HIDE DEF Bad
      <4> QED
        BY <2>1, <3>0
    <3>2. PICK g : Steps(m - 1, g)
      BY <3>0, <3>1
    <3> DEFINE h == [i \in 0..m |-> IF i = m THEN Step(g, m) ELSE g[i]]
    <3>3. \A i \in 0..m - 1 : g[i] = Step(g, i)
      BY <3>2
    <3>4. h[m] = Step(g, m) /\ \A i \in 0..m - 1 : h[i] = g[i]
      <4> HIDE DEF Step
      <4> QED
        BY <3>0
    <3>5. \A i \in 0..m : Step(h, i) = Step(g, i)
      <4> HIDE DEF h
      <4> QED
        BY <3>0, <3>4
    <3>6. \A i \in 0..m : h[i] = Step(h, i)
      <4> HIDE DEF h, Step
      <4> QED
        BY <3>0, <3>3, <3>4, <3>5
    <3>7. Steps(m, h)
      <4> HIDE DEF Step
      <4> QED
        BY <3>6
    <3> HIDE DEF h, Steps
    <3> QED
      BY <2>1, <3>7
  <2> QED
    BY <2>2, <2>3
<1>3. Steps(Len(literals), CHOOSE g : Steps(Len(literals), g))
  <2> HIDE DEF Steps
  <2>1. Len(literals) \notin Bad
    BY <1>1
  <2>2. \E g : Steps(Len(literals), g)
    BY <1>n, <2>1
  <2> QED
    BY <2>2
<1>4. PICK f : Steps(Len(literals), f) /\ Bind(literals) = f[Len(literals)]
  <2> HIDE DEF Steps
  <2> QED
    BY <1>0, <1>3
<1>5. \A i \in 0..Len(literals) : f[i] = Step(f, i)
  BY <1>4
<1>6. f[0] = first
  BY <1>n, <1>5
<1>7. \A i \in 1..Len(literals) : f[i] = Onward(f[i - 1], i)
  BY <1>n, <1>5
<1> HIDE DEF Steps, Step, Bad
<1> QED
  BY <1>4, <1>6, <1>7 DEF first, Onward

\* QueriesIn goes one query deeper at a time.
LEMMA QueriesStepByStep ==
    ASSUME NEW p
    PROVE  \E f : /\ f[0] = {[query |-> p, scope |-> ScopeOf(p)]} /\ QueriesIn(p) = f[MaxDepth]
                  /\ \A i \in 1..MaxDepth :
                        f[i] = f[i - 1] \cup UNION {InnerQueries(s.query, s.scope) : s \in f[i - 1]}
<1> DEFINE first == {[query |-> p, scope |-> ScopeOf(p)]}
           Onward(v, i) == v \cup UNION {InnerQueries(s.query, s.scope) : s \in v}
           Step(g, i) == IF i = 0 THEN first ELSE Onward(g[i - 1], i)
           Steps(n, g) == g = [i \in 0..n |-> Step(g, i)]
           Bad == {n \in Nat : \A g : ~Steps(n, g)}
<1>0. MaxDepth \in Nat /\ QueriesIn(p) = (CHOOSE g : Steps(MaxDepth, g))[MaxDepth]
  BY MaxDepthAssumption DEF QueriesIn
<1>n. MaxDepth \in Nat
  BY <1>0
<1> HIDE DEF first, Onward
<1>1. ASSUME Bad # {} PROVE FALSE
  <2>1. PICK m \in Bad : \A n \in Bad : m <= n
    <3>1. Bad \in SUBSET Nat
      OBVIOUS
    <3> HIDE DEF Bad
    <3> QED
      BY <1>1, <3>1, LeastNumber
  <2>2. CASE m = 0
    <3>1. Steps(0, [i \in 0..0 |-> first])
      OBVIOUS
    <3> QED
      BY <2>1, <2>2, <3>1
  <2>3. CASE m # 0
    <3>0. m \in Nat /\ m - 1 \in Nat
      BY <2>1, <2>3
    <3>1. m - 1 \notin Bad
      <4> HIDE DEF Bad
      <4> QED
        BY <2>1, <3>0
    <3>2. PICK g : Steps(m - 1, g)
      BY <3>0, <3>1
    <3> DEFINE h == [i \in 0..m |-> IF i = m THEN Step(g, m) ELSE g[i]]
    <3>3. \A i \in 0..m - 1 : g[i] = Step(g, i)
      BY <3>2
    <3>4. h[m] = Step(g, m) /\ \A i \in 0..m - 1 : h[i] = g[i]
      <4> HIDE DEF Step
      <4> QED
        BY <3>0
    <3>5. \A i \in 0..m : Step(h, i) = Step(g, i)
      <4> HIDE DEF h
      <4> QED
        BY <3>0, <3>4
    <3>6. \A i \in 0..m : h[i] = Step(h, i)
      <4> HIDE DEF h, Step
      <4> QED
        BY <3>0, <3>3, <3>4, <3>5
    <3>7. Steps(m, h)
      <4> HIDE DEF Step
      <4> QED
        BY <3>6
    <3> HIDE DEF h, Steps
    <3> QED
      BY <2>1, <3>7
  <2> QED
    BY <2>2, <2>3
<1>3. Steps(MaxDepth, CHOOSE g : Steps(MaxDepth, g))
  <2> HIDE DEF Steps
  <2>1. MaxDepth \notin Bad
    BY <1>1
  <2>2. \E g : Steps(MaxDepth, g)
    BY <1>n, <2>1
  <2> QED
    BY <2>2
<1>4. PICK f : Steps(MaxDepth, f) /\ QueriesIn(p) = f[MaxDepth]
  <2> HIDE DEF Steps
  <2> QED
    BY <1>0, <1>3
<1>5. \A i \in 0..MaxDepth : f[i] = Step(f, i)
  BY <1>4
<1>6. f[0] = first
  BY <1>n, <1>5
<1>7. \A i \in 1..MaxDepth : f[i] = Onward(f[i - 1], i)
  BY <1>n, <1>5
<1> HIDE DEF Steps, Step, Bad
<1> QED
  BY <1>4, <1>6, <1>7 DEF first, Onward

\* ReadersIn goes one query deeper at a time.
LEMMA ReadersStepByStep ==
    ASSUME NEW p
    PROVE  \E f : /\ f[0] = {[query |-> p, sight |-> RelationsOf(p)]} /\ ReadersIn(p) = f[MaxDepth]
                  /\ \A i \in 1..MaxDepth :
                        f[i] = f[i - 1] \cup UNION {InnerReaders(r.query, r.sight) : r \in f[i - 1]}
<1> DEFINE first == {[query |-> p, sight |-> RelationsOf(p)]}
           Onward(v, i) == v \cup UNION {InnerReaders(r.query, r.sight) : r \in v}
           Step(g, i) == IF i = 0 THEN first ELSE Onward(g[i - 1], i)
           Steps(n, g) == g = [i \in 0..n |-> Step(g, i)]
           Bad == {n \in Nat : \A g : ~Steps(n, g)}
<1>0. MaxDepth \in Nat /\ ReadersIn(p) = (CHOOSE g : Steps(MaxDepth, g))[MaxDepth]
  BY MaxDepthAssumption DEF ReadersIn
<1>n. MaxDepth \in Nat
  BY <1>0
<1> HIDE DEF first, Onward
<1>1. ASSUME Bad # {} PROVE FALSE
  <2>1. PICK m \in Bad : \A n \in Bad : m <= n
    <3>1. Bad \in SUBSET Nat
      OBVIOUS
    <3> HIDE DEF Bad
    <3> QED
      BY <1>1, <3>1, LeastNumber
  <2>2. CASE m = 0
    <3>1. Steps(0, [i \in 0..0 |-> first])
      OBVIOUS
    <3> QED
      BY <2>1, <2>2, <3>1
  <2>3. CASE m # 0
    <3>0. m \in Nat /\ m - 1 \in Nat
      BY <2>1, <2>3
    <3>1. m - 1 \notin Bad
      <4> HIDE DEF Bad
      <4> QED
        BY <2>1, <3>0
    <3>2. PICK g : Steps(m - 1, g)
      BY <3>0, <3>1
    <3> DEFINE h == [i \in 0..m |-> IF i = m THEN Step(g, m) ELSE g[i]]
    <3>3. \A i \in 0..m - 1 : g[i] = Step(g, i)
      BY <3>2
    <3>4. h[m] = Step(g, m) /\ \A i \in 0..m - 1 : h[i] = g[i]
      <4> HIDE DEF Step
      <4> QED
        BY <3>0
    <3>5. \A i \in 0..m : Step(h, i) = Step(g, i)
      <4> HIDE DEF h
      <4> QED
        BY <3>0, <3>4
    <3>6. \A i \in 0..m : h[i] = Step(h, i)
      <4> HIDE DEF h, Step
      <4> QED
        BY <3>0, <3>3, <3>4, <3>5
    <3>7. Steps(m, h)
      <4> HIDE DEF Step
      <4> QED
        BY <3>6
    <3> HIDE DEF h, Steps
    <3> QED
      BY <2>1, <3>7
  <2> QED
    BY <2>2, <2>3
<1>3. Steps(MaxDepth, CHOOSE g : Steps(MaxDepth, g))
  <2> HIDE DEF Steps
  <2>1. MaxDepth \notin Bad
    BY <1>1
  <2>2. \E g : Steps(MaxDepth, g)
    BY <1>n, <2>1
  <2> QED
    BY <2>2
<1>4. PICK f : Steps(MaxDepth, f) /\ ReadersIn(p) = f[MaxDepth]
  <2> HIDE DEF Steps
  <2> QED
    BY <1>0, <1>3
<1>5. \A i \in 0..MaxDepth : f[i] = Step(f, i)
  BY <1>4
<1>6. f[0] = first
  BY <1>n, <1>5
<1>7. \A i \in 1..MaxDepth : f[i] = Onward(f[i - 1], i)
  BY <1>n, <1>5
<1> HIDE DEF Steps, Step, Bad
<1> QED
  BY <1>4, <1>6, <1>7 DEF first, Onward

-----------------------------------------------------------------------------
(* Scopes and readers.                                                     *)

\* A list with one more element.
LEMMA OneMore ==
    ASSUME NEW X, NEW s \in Seq(X), NEW x \in X
    PROVE  Append(s, x) \in Seq(X) /\ x \in ToSet(Append(s, x)) /\ ToSet(s) \subseteq ToSet(Append(s, x))
<1>1. /\ Append(s, x) \in Seq(X) /\ Len(s) \in Nat /\ DOMAIN s = 1..Len(s)
      /\ DOMAIN Append(s, x) = 1..Len(s) + 1
      /\ Append(s, x)[Len(s) + 1] = x /\ \A i \in 1..Len(s) : Append(s, x)[i] = s[i]
  OBVIOUS
<1>2. x \in ToSet(Append(s, x))
  BY <1>1 DEF ToSet
<1>3. ToSet(s) \subseteq ToSet(Append(s, x))
  BY <1>1 DEF ToSet
<1> QED
  BY <1>1, <1>2, <1>3

\* Without keeps nothing that was not there, and all that is on other tables.
LEMMA WithoutKeeps ==
    ASSUME NEW X, NEW sources \in Seq(X), NEW tables
    PROVE  /\ Without(sources, tables) \in Seq(X)
           /\ \A x \in ToSet(sources) : x.table \notin tables => x \in ToSet(Without(sources, tables))
<1>1. PICK kept : /\ kept[0] = <<>> /\ Without(sources, tables) = kept[Len(sources)]
                  /\ \A i \in 1..Len(sources) :
                        kept[i] = IF sources[i].table \in tables THEN kept[i - 1]
                                  ELSE Append(kept[i - 1], sources[i])
  BY WithoutStepByStep
<1> DEFINE Good(n) == /\ kept[n] \in Seq(X)
                      /\ \A i \in 1..n : sources[i].table \notin tables => sources[i] \in ToSet(kept[n])
           Bad == {n \in 0..Len(sources) : ~Good(n)}
<1>2. ASSUME Bad # {} PROVE FALSE
  <2>1. PICK m \in Bad : \A n \in Bad : m <= n
    <3>1. Bad \in SUBSET Nat
      OBVIOUS
    <3> HIDE DEF Bad
    <3> QED
      BY <1>2, <3>1, LeastNumber
  <2>2. m \in 0..Len(sources) /\ ~Good(m)
    BY <2>1
  <2>3. m # 0
    <3>1. Good(0)
      BY <1>1
    <3> QED
      BY <2>2, <3>1
  <2>4. m \in 1..Len(sources) /\ m - 1 \in 0..Len(sources) /\ Len(sources) \in Nat
    BY <2>2, <2>3
  <2>5. Good(m - 1)
    <3>1. m - 1 \notin Bad
      <4> HIDE DEF Bad
      <4> QED
        BY <2>1, <2>4
    <3> QED
      BY <2>4, <3>1
  <2>6. sources[m] \in X
    BY <2>4
  <2>7. \A i \in 1..m : i = m \/ i \in 1..m - 1
    BY <2>4
  <2>8. CASE sources[m].table \in tables
    <3>1. kept[m] = kept[m - 1]
      BY <1>1, <2>4, <2>8
    <3> QED
      BY <2>2, <2>5, <2>7, <2>8, <3>1
  <2>9. CASE sources[m].table \notin tables
    <3>1. kept[m] = Append(kept[m - 1], sources[m])
      BY <1>1, <2>4, <2>9
    <3>2. /\ kept[m] \in Seq(X) /\ sources[m] \in ToSet(kept[m])
          /\ ToSet(kept[m - 1]) \subseteq ToSet(kept[m])
      BY <2>5, <2>6, <3>1, OneMore
    <3> QED
      BY <2>2, <2>5, <2>7, <3>2
  <2> QED
    BY <2>8, <2>9
<1>3. Good(Len(sources))
  BY <1>2
<1>4. DOMAIN sources = 1..Len(sources)
  OBVIOUS
<1> QED
  BY <1>1, <1>3, <1>4 DEF ToSet

\* What the policy engine looks at agrees with what a reader reads: the same
\* query, no source the reader has not in sight, and every table it has.
Sees(s, r) ==
    /\ s.query = r.query
    /\ s.scope.ctes = {c.name : c \in ToSet(r.query.ctes)}
    /\ RelationsOf(r.query) \subseteq r.sight
    /\ s.scope.sources \in Seq(r.sight)
    /\ \A x \in r.sight : \E y \in ToSet(s.scope.sources) : y.table = x.table

\* A query on its own, the plan or the body of a CTE.
LEMMA SeesAlone ==
    ASSUME NEW q, q.joins \in Seq(ToSet(q.joins)), q.derived = <<>>
    PROVE  Sees([query |-> q, scope |-> ScopeOf(q)], [query |-> q, sight |-> RelationsOf(q)])
<1>1. Relations(q) \in Seq(RelationsOf(q))
  BY RelationsAreAList
<1>2. RelationsOf(q) = ToSet(Relations(q))
  BY NoneDerived
<1> QED
  BY <1>1, <1>2 DEF Sees, ScopeOf

\* A query inside another that is seen rightly.
LEMMA SeesInside ==
    ASSUME NEW q, q.joins \in Seq(ToSet(q.joins)), q.derived = <<>>, NEW s, NEW r, Sees(s, r)
    PROVE  Sees([query |-> q, scope |-> WithOuter(ScopeOf(q), s.scope)],
                [query |-> q, sight |-> RelationsOf(q) \cup r.sight])
<1> DEFINE sight == RelationsOf(q) \cup r.sight
           tables == {x.table : x \in ToSet(Relations(q))}
           around == Without(s.scope.sources, tables)
           sources == Relations(q) \o around
<1>1. Relations(q) \in Seq(sight)
  BY RelationsAreAList
<1>d. RelationsOf(q) = ToSet(Relations(q))
  BY NoneDerived
<1>2. s.scope.sources \in Seq(r.sight)
  BY DEF Sees
<1>3. around \in Seq(r.sight)
  <2> HIDE DEF tables
  <2> QED
    BY <1>2, WithoutKeeps
<1>4. \A x \in ToSet(s.scope.sources) : x.table \notin tables => x \in ToSet(around)
  <2> HIDE DEF tables
  <2> QED
    BY <1>2, WithoutKeeps
<1>5. around \in Seq(sight)
  BY <1>3
<1>6. /\ sources \in Seq(sight)
      /\ \A x : x \in ToSet(sources) <=> x \in ToSet(Relations(q)) \/ x \in ToSet(around)
  <2> HIDE DEF sight, around
  <2> QED
    BY <1>1, <1>5, BothLists
<1>7. ASSUME NEW x \in sight PROVE \E y \in ToSet(sources) : y.table = x.table
  <2> HIDE DEF sources, around
  <2>1. CASE x \in RelationsOf(q)
    BY <1>d, <1>6, <2>1
  <2>2. CASE x \in r.sight
    <3>1. PICK y \in ToSet(s.scope.sources) : y.table = x.table
      BY <2>2 DEF Sees
    <3>2. CASE y.table \in tables
      <4>1. PICK z \in ToSet(Relations(q)) : z.table = y.table
        BY <3>2
      <4> QED
        BY <1>6, <3>1, <4>1
    <3>3. CASE y.table \notin tables
      BY <1>4, <1>6, <3>1, <3>3
    <3> QED
      BY <3>2, <3>3
  <2> QED
    BY <2>1, <2>2
<1>8. WithOuter(ScopeOf(q), s.scope) = [sources |-> sources, ctes |-> {c.name : c \in ToSet(q.ctes)}]
  BY DEF WithOuter, ScopeOf
<1> HIDE DEF sources, sight
<1> QED
  BY <1>6, <1>7, <1>8 DEF Sees, sight

\* What the compiler writes of a query that hides nothing, the policy engine
\* looks at.
LEMMA WrittenIsRead ==
    ASSUME NEW q, Seen(q)
    PROVE  WrittenTrees(q) = ReadTrees(q) /\ WrittenTrees(q) \subseteq Trees(q)
<1>1. (IF q.distinct THEN ToSet(q.distinctOn) ELSE {}) = {}
  BY DEF Seen, ToSet
<1>2. WrittenTrees(q) = ConditionedTrees(q)
  BY <1>1 DEF WrittenTrees
<1>3. ConditionedTrees(q) \subseteq Trees(q)
  BY DEF ConditionedTrees, Trees
<1> QED
  BY <1>2, <1>3 DEF ReadTrees

\* What a reader reads inside its query is looked at there too, if nothing in
\* the query is hidden.
LEMMA InnerIsChecked ==
    ASSUME NEW s, NEW r, Sees(s, r), Seen(r.query), NEW inner \in InnerReaders(r.query, r.sight),
           inner.query.joins \in Seq(ToSet(inner.query.joins)), inner.query.derived = <<>>
    PROVE  \E t \in InnerQueries(s.query, s.scope) : Sees(t, inner)
<1>0. ToSet(r.query.derived) = {} /\ ToSet(r.query.sets) = {}
  BY DEF Seen, ToSet
<1>1. CASE \E c \in ToSet(r.query.ctes) :
              inner = [query |-> c.query, sight |-> RelationsOf(c.query)]
  <2>1. PICK c \in ToSet(r.query.ctes) : inner = [query |-> c.query, sight |-> RelationsOf(c.query)]
    BY <1>1
  <2>2. Sees([query |-> c.query, scope |-> ScopeOf(c.query)], inner)
    <3>1. c.query.joins \in Seq(ToSet(c.query.joins)) /\ c.query.derived = <<>>
      BY <2>1
    <3> QED
      BY <2>1, <3>1, SeesAlone
  <2>3. [query |-> c.query, scope |-> ScopeOf(c.query)] \in InnerQueries(s.query, s.scope)
    BY DEF InnerQueries, Sees
  <2> QED
    BY <2>2, <2>3
<1>2. CASE \E q \in UNION {Subqueries(t) : t \in WrittenTrees(r.query)} :
              inner = [query |-> q, sight |-> RelationsOf(q) \cup r.sight]
  <2>1. PICK q \in UNION {Subqueries(t) : t \in WrittenTrees(r.query)} :
            inner = [query |-> q, sight |-> RelationsOf(q) \cup r.sight]
    BY <1>2
  <2>2. Sees([query |-> q, scope |-> WithOuter(ScopeOf(q), s.scope)], inner)
    <3>1. q.joins \in Seq(ToSet(q.joins)) /\ q.derived = <<>>
      BY <2>1
    <3> QED
      BY <2>1, <3>1, SeesInside
  <2>3. PICK t \in WrittenTrees(r.query) : q \in Subqueries(t)
    BY <2>1
  <2>4. q \in PolicyQueries(s.query)
    <3>1. q \in WalkedQueries(t)
      BY <2>3 DEF Seen
    <3>2. t \in Trees(r.query)
      BY <2>3, WrittenIsRead
    <3> QED
      BY <3>1, <3>2 DEF PolicyQueries, Sees
  <2>5. [query |-> q, scope |-> WithOuter(ScopeOf(q), s.scope)] \in InnerQueries(s.query, s.scope)
    BY <2>4 DEF InnerQueries
  <2> QED
    BY <2>2, <2>5
<1>3. \/ \E c \in ToSet(r.query.ctes) :
              inner = [query |-> c.query, sight |-> RelationsOf(c.query)]
      \/ \E q \in UNION {Subqueries(t) : t \in WrittenTrees(r.query)} :
              inner = [query |-> q, sight |-> RelationsOf(q) \cup r.sight]
  BY <1>0 DEF InnerReaders
<1> QED
  BY <1>1, <1>2, <1>3

\* The policy engine looks at whatever a plan reads with, however deep, if
\* nothing in the plan is hidden.
LEMMA ReaderIsChecked ==
    ASSUME NEW p, IsPlan(p), NothingHidden(p), NEW r \in ReadersIn(p)
    PROVE  \E s \in QueriesIn(p) : Sees(s, r)
<1>n. MaxDepth \in Nat
  BY MaxDepthAssumption
<1>1. PICK readers : /\ readers[0] = {[query |-> p, sight |-> RelationsOf(p)]}
                     /\ ReadersIn(p) = readers[MaxDepth]
                     /\ \A i \in 1..MaxDepth : readers[i] = readers[i - 1]
                            \cup UNION {InnerReaders(x.query, x.sight) : x \in readers[i - 1]}
  BY ReadersStepByStep
<1>2. PICK queries : /\ queries[0] = {[query |-> p, scope |-> ScopeOf(p)]}
                     /\ QueriesIn(p) = queries[MaxDepth]
                     /\ \A i \in 1..MaxDepth : queries[i] = queries[i - 1]
                            \cup UNION {InnerQueries(s.query, s.scope) : s \in queries[i - 1]}
  BY QueriesStepByStep
<1>3. \A n \in 0..MaxDepth : readers[n] \subseteq readers[MaxDepth]
  <2> DEFINE Lost == {k \in 0..MaxDepth : ~(readers[MaxDepth - k] \subseteq readers[MaxDepth])}
  <2>1. ASSUME Lost # {} PROVE FALSE
    <3>1. PICK k \in Lost : \A j \in Lost : k <= j
      <4>1. Lost \in SUBSET Nat
        BY <1>n
      <4> HIDE DEF Lost
      <4> QED
        BY <2>1, <4>1, LeastNumber
    <3>2. k \in 0..MaxDepth /\ ~(readers[MaxDepth - k] \subseteq readers[MaxDepth])
      BY <3>1
    <3>3. k # 0
      <4>1. MaxDepth - 0 = MaxDepth
        BY <1>n
      <4> QED
        BY <3>2, <4>1
    <3>4. /\ k - 1 \in 0..MaxDepth /\ MaxDepth - k \in 0..MaxDepth /\ MaxDepth - (k - 1) \in 1..MaxDepth
          /\ (MaxDepth - (k - 1)) - 1 = MaxDepth - k
      BY <1>n, <3>2, <3>3
    <3>5. k - 1 \notin Lost
      <4> HIDE DEF Lost
      <4> QED
        BY <3>1, <3>2, <3>4
    <3>6. readers[MaxDepth - (k - 1)] \subseteq readers[MaxDepth]
      BY <3>4, <3>5
    <3>7. readers[MaxDepth - k] \subseteq readers[MaxDepth - (k - 1)]
      BY <1>1, <3>4
    <3> QED
      BY <3>2, <3>6, <3>7
  <2>2. ASSUME NEW n \in 0..MaxDepth PROVE readers[n] \subseteq readers[MaxDepth]
    <3>1. MaxDepth - n \in 0..MaxDepth /\ MaxDepth - (MaxDepth - n) = n
      BY <1>n
    <3>2. MaxDepth - n \notin Lost
      BY <2>1
    <3>3. readers[MaxDepth - (MaxDepth - n)] \subseteq readers[MaxDepth]
      BY <3>1, <3>2
    <3> QED
      BY <3>1, <3>3
  <2> QED
    BY <2>2
<1>4. \A n \in 0..MaxDepth : \A x \in readers[n] :
          x.query.joins \in Seq(ToSet(x.query.joins)) /\ Seen(x.query) /\ x.query.derived = <<>>
  <2>1. \A x \in ReadersIn(p) : Seen(x.query) /\ x.query.derived = <<>>
    BY DEF NothingHidden, Seen
  <2> QED
    BY <1>1, <1>3, <2>1 DEF IsPlan
<1> DEFINE Missed == {n \in 0..MaxDepth : \E x \in readers[n] : \A s \in queries[n] : ~Sees(s, x)}
<1>5. ASSUME Missed # {} PROVE FALSE
  <2>1. PICK m \in Missed : \A n \in Missed : m <= n
    <3>1. Missed \in SUBSET Nat
      BY <1>n
    <3> HIDE DEF Missed
    <3> QED
      BY <1>5, <3>1, LeastNumber
  <2>2. m \in 0..MaxDepth
    BY <2>1
  <2>3. PICK x \in readers[m] : \A s \in queries[m] : ~Sees(s, x)
    BY <2>1
  <2>4. m # 0
    <3>1. CASE m = 0
      <4>1. x = [query |-> p, sight |-> RelationsOf(p)] /\ [query |-> p, scope |-> ScopeOf(p)] \in queries[m]
        BY <1>1, <1>2, <2>3, <3>1
      <4>2. p.joins \in Seq(ToSet(p.joins)) /\ p.derived = <<>>
        BY <1>4, <2>2, <2>3, <4>1
      <4>3. Sees([query |-> p, scope |-> ScopeOf(p)], x)
        BY <4>1, <4>2, SeesAlone
      <4> QED
        BY <2>3, <4>1, <4>3
    <3> QED
      BY <3>1
  <2>5. m \in 1..MaxDepth /\ m - 1 \in 0..MaxDepth
    BY <1>n, <2>2, <2>4
  <2>6. \A y \in readers[m - 1] : \E s \in queries[m - 1] : Sees(s, y)
    <3>1. m - 1 \notin Missed
      <4> HIDE DEF Missed
      <4> QED
        BY <2>1, <2>5
    <3> QED
      BY <2>5, <3>1
  <2>7. /\ readers[m] = readers[m - 1] \cup UNION {InnerReaders(y.query, y.sight) : y \in readers[m - 1]}
        /\ queries[m] = queries[m - 1] \cup UNION {InnerQueries(s.query, s.scope) : s \in queries[m - 1]}
    BY <1>1, <1>2, <2>5
  <2>8. CASE x \in readers[m - 1]
    BY <2>3, <2>6, <2>7, <2>8
  <2>9. CASE \E y \in readers[m - 1] : x \in InnerReaders(y.query, y.sight)
    <3>1. PICK y \in readers[m - 1] : x \in InnerReaders(y.query, y.sight)
      BY <2>9
    <3>2. PICK s \in queries[m - 1] : Sees(s, y)
      BY <2>6, <3>1
    <3>3. /\ x.query.joins \in Seq(ToSet(x.query.joins)) /\ x.query.derived = <<>>
          /\ Seen(y.query)
      BY <1>4, <2>2, <2>3, <2>5, <3>1
    <3>4. PICK t \in InnerQueries(s.query, s.scope) : Sees(t, x)
      BY <3>1, <3>2, <3>3, InnerIsChecked
    <3>5. t \in queries[m]
      BY <2>7, <3>2, <3>4
    <3> QED
      BY <2>3, <3>4, <3>5
  <2> QED
    BY <2>3, <2>7, <2>8, <2>9
<1>6. MaxDepth \in 0..MaxDepth /\ MaxDepth \notin Missed
  BY <1>n, <1>5
<1> QED
  BY <1>1, <1>2, <1>6

-----------------------------------------------------------------------------
(* What the policy engine lets through.                                    *)

\* A stored table in a reader's sight is one of those that are looked at.
LEMMA InSightIsLookedAt ==
    ASSUME NEW s, NEW r, Sees(s, r), NEW x \in r.sight, x.table \in DOMAIN Schema,
           \A c \in ToSet(r.query.ctes) : c.name \notin DOMAIN Schema
    PROVE  x.table \in BaseTables(s.scope)
<1>1. PICK y \in ToSet(s.scope.sources) : y.table = x.table
  BY DEF Sees
<1>2. x.table \notin s.scope.ctes
  BY DEF Sees
<1> QED
  BY <1>1, <1>2 DEF BaseTables

\* A source is in sight, and its qualifier one of its names.
LEMMA SourceIsInSight ==
    ASSUME NEW s, NEW r, Sees(s, r), NEW qualifier, qualifier # "",
           NEW y \in SourceOf(s.scope, qualifier)
    PROVE  y \in r.sight /\ y \in ToSet(s.scope.sources) /\ qualifier \in Names(y)
<1>1. PICK i \in DOMAIN s.scope.sources : /\ y = s.scope.sources[i]
                                          /\ qualifier \in {y.table, y.as}
  BY DEF SourceOf
<1>2. s.scope.sources \in Seq(r.sight)
  BY DEF Sees
<1>3. y \in r.sight
  <2>1. \A j \in DOMAIN s.scope.sources : s.scope.sources[j] \in r.sight
    BY <1>2, OfItsKind
  <2> QED
    BY <1>1, <2>1
<1>4. y \in ToSet(s.scope.sources)
  BY <1>1 DEF ToSet
<1>5. qualifier \in Names(y)
  BY <1>1 DEF Names, Key
<1> QED
  BY <1>3, <1>4, <1>5

\* No denial was found for a column that has no reason for one.
LEMMA NothingDenied ==
    ASSUME NEW policy, NEW table, NEW column, ColumnPolicy(policy, table, column) = {}
    PROVE  DenialReason(policy, table, column) = ""
BY DEF ColumnPolicy

\* Nothing is wrong with a query if nothing is with its sources, its tables,
\* its stars and its columns.
LEMMA NothingFound ==
    ASSUME NEW policy, NEW query, NEW scope, QueryErrors(policy, query, scope) = {}
    PROVE  /\ \A y \in ToSet(scope.sources) : y.table \in DOMAIN Schema \cup scope.ctes
           /\ \A t \in BaseTables(scope) : TableAccess(policy, t) = {}
           /\ HasStar(query) => StarErrors(policy, scope) = {}
           /\ \A c \in References(query) : PolicyColumn(policy, c, scope) = {}
<1> DEFINE missing == {Error("TableNotFound", s.table) : s \in {s \in ToSet(scope.sources) :
                           s.table \notin scope.ctes /\ s.table \notin DOMAIN Schema}}
           access == UNION {TableAccess(policy, t) : t \in BaseTables(scope)}
           stars == IF HasStar(query) THEN StarErrors(policy, scope) ELSE {}
           columns == UNION {PolicyColumn(policy, c, scope) : c \in References(query)}
<1>1. QueryErrors(policy, query, scope) = missing \cup access \cup stars \cup columns
  BY DEF QueryErrors
<1>2. missing = {} /\ access = {} /\ stars = {} /\ columns = {}
  <2> HIDE DEF missing, access, stars, columns
  <2> QED
    BY <1>1
<1>3. ASSUME NEW y \in ToSet(scope.sources) PROVE y.table \in DOMAIN Schema \cup scope.ctes
  BY <1>2
<1>4. ASSUME NEW t \in BaseTables(scope) PROVE TableAccess(policy, t) = {}
  BY <1>2
<1>5. HasStar(query) => StarErrors(policy, scope) = {}
  BY <1>2
<1>6. ASSUME NEW c \in References(query) PROVE PolicyColumn(policy, c, scope) = {}
  BY <1>2
<1> QED
  BY <1>3, <1>4, <1>5, <1>6

\* A reader reads no table and no column the policy forbids, if nothing was
\* found wrong with its query.
LEMMA ReadIsAllowed ==
    ASSUME NEW policy, NEW s, NEW r, Sees(s, r), QueryErrors(policy, s.query, s.scope) = {},
           Seen(r.query),
           \A x, y \in r.sight : Names(x) \cap Names(y) # {} => x.table = y.table,
           \A c \in ToSet(r.query.ctes) : c.name \notin DOMAIN Schema,
           NEW tc \in OwnReads(r.query, r.sight)
    PROVE  /\ tc[1] \in DOMAIN policy.tables => policy.tables[tc[1]].allowed
           /\ DenialReason(policy, tc[1], tc[2]) = ""
<1>1. \A t \in BaseTables(s.scope) : TableAccess(policy, t) = {}
  BY NothingFound
<1>2. \A t \in BaseTables(s.scope) : t \in DOMAIN policy.tables => policy.tables[t].allowed
  BY <1>1 DEF TableAccess
<1>3. CASE tc \in UNION {Meanings(c, r.sight) : c \in ColumnsWritten(r.query)}
  <2>1. PICK c \in ColumnsWritten(r.query) : tc \in Meanings(c, r.sight)
    BY <1>3
  <2>2. PICK x \in MayBeOf(c, r.sight) : HasColumn(x.table, c.name) /\ tc = <<x.table, c.name>>
    BY <2>1 DEF Meanings
  <2>3. x \in r.sight /\ x.table \in DOMAIN Schema /\ c.rel \in {""} \cup Names(x)
    BY <2>2 DEF MayBeOf, HasColumn
  <2>4. x.table \in BaseTables(s.scope)
    BY <2>3, InSightIsLookedAt
  <2>5. PolicyColumn(policy, c, s.scope) = {}
    <3>1. c \in References(s.query)
      BY <2>1, WrittenIsRead DEF ColumnsWritten, References, Sees
    <3> QED
      BY <3>1, NothingFound
  <2>6. ColumnPolicy(policy, x.table, c.name) = {}
    <3>1. CASE c.rel = ""
      <4>1. UnqualifiedErrors(policy, c, s.scope) = {}
        BY <2>5, <3>1 DEF PolicyColumn
      <4>2. x.table \in {t \in BaseTables(s.scope) : HasColumn(t, c.name)}
        BY <2>2, <2>4
      <4> QED
        BY <4>1, <4>2 DEF UnqualifiedErrors
    <3>2. CASE c.rel # ""
      <4>1. SourceOf(s.scope, c.rel) # {}
        BY <2>5, <3>2 DEF PolicyColumn
      <4>2. PICK y : y \in SourceOf(s.scope, c.rel)
        BY <4>1
      <4>3. y \in r.sight /\ c.rel \in Names(y)
        BY <3>2, <4>2, SourceIsInSight
      <4>4. x.table = y.table
        BY <2>3, <3>2, <4>3
      <4>5. QualifiedErrors(policy, c, y) = {}
        BY <2>4, <2>5, <3>2, <4>1, <4>2, <4>4 DEF PolicyColumn
      <4> QED
        BY <2>2, <4>4, <4>5 DEF QualifiedErrors
    <3> QED
      BY <3>1, <3>2
  <2>7. DenialReason(policy, x.table, c.name) = ""
    BY <2>6, NothingDenied
  <2> QED
    BY <1>2, <2>2, <2>4, <2>7
<1>4. CASE /\ HasStar(r.query)
           /\ tc \in UNION {{t} \X DOMAIN Schema[t].columns :
                            t \in {x.table : x \in RelationsOf(r.query)} \cap DOMAIN Schema}
  <2>1. PICK x \in RelationsOf(r.query) :
            x.table \in DOMAIN Schema /\ tc \in {x.table} \X DOMAIN Schema[x.table].columns
    BY <1>4
  <2>2. x \in r.sight
    BY <2>1 DEF Sees
  <2>3. x.table \in BaseTables(s.scope)
    BY <2>1, <2>2, InSightIsLookedAt
  <2>4. PICK column \in DOMAIN Schema[x.table].columns : tc = <<x.table, column>>
    BY <2>1
  <2>5. StarErrors(policy, s.scope) = {}
    <3>1. HasStar(s.query)
      BY <1>4 DEF Sees
    <3> QED
      BY <3>1, NothingFound
  <2>6. ColumnPolicy(policy, x.table, column) = {}
    <3>1. UNION {ColumnPolicy(policy, x.table, c) : c \in DOMAIN Schema[x.table].columns} = {}
      BY <2>3, <2>5 DEF StarErrors
    <3> QED
      BY <2>4, <3>1
  <2>7. DenialReason(policy, x.table, column) = ""
    BY <2>6, NothingDenied
  <2>8. x.table \in DOMAIN policy.tables => policy.tables[x.table].allowed
    BY <1>2, <2>3
  <2>9. tc[1] = x.table /\ tc[2] = column
    BY <2>4
  <2> QED
    BY <2>7, <2>8, <2>9
<1> QED
  BY <1>3, <1>4 DEF OwnReads

\* A query nothing was found wrong with names what exists and it can see.
LEMMA NamedIsThere ==
    ASSUME NEW policy, NEW s, NEW r, Sees(s, r), QueryErrors(policy, s.query, s.scope) = {},
           Seen(r.query)
    PROVE  LET ctes == {c.name : c \in ToSet(r.query.ctes)}
           IN /\ \A x \in RelationsOf(r.query) : x.table \in DOMAIN Schema \cup ctes
              /\ \A c \in ColumnsWritten(r.query) :
                     \/ Meanings(c, r.sight) # {}
                     \/ \E x \in MayBeOf(c, r.sight) : x.table \in ctes
<1> DEFINE ctes == {c.name : c \in ToSet(r.query.ctes)}
<1>1. s.scope.ctes = ctes /\ s.scope.sources \in Seq(r.sight)
  BY DEF Sees
<1>2. \A y \in ToSet(s.scope.sources) : y \in r.sight
  BY <1>1 DEF ToSet
<1> HIDE DEF ctes
<1>3. \A y \in ToSet(s.scope.sources) : y.table \in DOMAIN Schema \cup ctes
  BY <1>1, NothingFound
<1>4. \A x \in RelationsOf(r.query) : x.table \in DOMAIN Schema \cup ctes
  <2> TAKE x \in RelationsOf(r.query)
  <2>1. PICK y \in ToSet(s.scope.sources) : y.table = x.table
    BY DEF Sees
  <2> QED
    BY <1>3, <2>1
<1>5. ASSUME NEW c \in ColumnsWritten(r.query)
      PROVE  Meanings(c, r.sight) # {} \/ \E x \in MayBeOf(c, r.sight) : x.table \in ctes
  <2>1. PolicyColumn(policy, c, s.scope) = {}
    <3>1. c \in References(s.query)
      BY WrittenIsRead DEF ColumnsWritten, References, Sees
    <3> QED
      BY <3>1, NothingFound
  <2>2. CASE c.rel = ""
    <3>1. UnqualifiedErrors(policy, c, s.scope) = {}
      BY <2>1, <2>2 DEF PolicyColumn
    <3>2. CASE \E t \in BaseTables(s.scope) : HasColumn(t, c.name)
      <4>1. PICK y \in ToSet(s.scope.sources) : HasColumn(y.table, c.name)
        BY <3>2 DEF BaseTables
      <4>2. y \in MayBeOf(c, r.sight)
        BY <1>2, <2>2 DEF MayBeOf
      <4>3. <<y.table, c.name>> \in Meanings(c, r.sight)
        BY <4>1, <4>2 DEF Meanings
      <4> QED
        BY <4>3
    <3>3. CASE ~ \E t \in BaseTables(s.scope) : HasColumn(t, c.name)
      <4>1. ReadsCte(s.scope)
        BY <3>1, <3>3 DEF UnqualifiedErrors
      <4>2. PICK y \in ToSet(s.scope.sources) : y.table \in ctes
        BY <1>1, <4>1 DEF ReadsCte
      <4>3. y \in MayBeOf(c, r.sight)
        BY <1>2, <2>2 DEF MayBeOf
      <4> QED
        BY <4>2, <4>3
    <3> QED
      BY <3>2, <3>3
  <2>3. CASE c.rel # ""
    <3>1. SourceOf(s.scope, c.rel) # {}
      BY <2>1, <2>3 DEF PolicyColumn
    <3>2. PICK y : y \in SourceOf(s.scope, c.rel)
      BY <3>1
    <3>3. y \in r.sight /\ y \in ToSet(s.scope.sources) /\ c.rel \in Names(y)
      BY <2>3, <3>2, SourceIsInSight
    <3>4. y \in MayBeOf(c, r.sight)
      BY <3>3 DEF MayBeOf
    <3>5. CASE y.table \in ctes
      BY <3>4, <3>5
    <3>6. CASE y.table \notin ctes
      <4>1. y.table \in BaseTables(s.scope)
        BY <1>1, <1>3, <3>3, <3>6 DEF BaseTables
      <4>2. QualifiedErrors(policy, c, y) = {}
        BY <2>1, <2>3, <3>1, <3>2, <4>1 DEF PolicyColumn
      <4>3. HasColumn(y.table, c.name)
        BY <4>2 DEF QualifiedErrors
      <4>4. <<y.table, c.name>> \in Meanings(c, r.sight)
        BY <3>4, <4>3 DEF Meanings
      <4> QED
        BY <4>4
    <3> QED
      BY <3>5, <3>6
  <2> QED
    BY <2>2, <2>3
<1> QED
  BY <1>4, <1>5 DEF ctes

-----------------------------------------------------------------------------
(* The binding of literals.                                                *)

Bounds(X) == [parameters : Seq(X), marks : Seq(Nat)]

\* A literal gets a placeholder behind the others that stands for it, and
\* nothing that was bound before is touched.
LEMMA OneLiteralMore ==
    ASSUME NEW X, NEW bound \in Bounds(X), NEW literal \in X,
           NEW next, next = AddParameter(bound, literal)
    PROVE  /\ next \in Bounds(X)
           /\ Len(next.marks) = Len(bound.marks) + 1
           /\ \A i \in 1..Len(bound.marks) : next.marks[i] = bound.marks[i]
           /\ \A i \in DOMAIN bound.parameters :
                 i \in DOMAIN next.parameters /\ next.parameters[i] = bound.parameters[i]
           /\ LET mark == next.marks[Len(bound.marks) + 1]
              IN mark \in DOMAIN next.parameters /\ next.parameters[mark] = literal
<1> DEFINE known == {i \in DOMAIN bound.parameters : bound.parameters[i] = literal}
<1>1. /\ bound.parameters \in Seq(X) /\ bound.marks \in Seq(Nat)
      /\ Len(bound.parameters) \in Nat /\ Len(bound.marks) \in Nat
      /\ DOMAIN bound.parameters = 1..Len(bound.parameters)
  BY DEF Bounds
<1>2. CASE known = {}
  <2>1. next = [parameters |-> Append(bound.parameters, literal),
                marks |-> Append(bound.marks, Len(bound.parameters) + 1)]
    BY <1>2 DEF AddParameter
  <2>2. /\ next.parameters = Append(bound.parameters, literal)
        /\ next.marks = Append(bound.marks, Len(bound.parameters) + 1)
    BY <2>1
  <2>3. next \in Bounds(X)
    <3>1. Append(bound.parameters, literal) \in Seq(X)
      BY <1>1
    <3>2. Append(bound.marks, Len(bound.parameters) + 1) \in Seq(Nat)
      BY <1>1
    <3> QED
      BY <2>1, <3>1, <3>2 DEF Bounds
  <2>4. /\ DOMAIN next.parameters = 1..Len(bound.parameters) + 1
        /\ next.parameters[Len(bound.parameters) + 1] = literal
        /\ \A i \in 1..Len(bound.parameters) : next.parameters[i] = bound.parameters[i]
    BY <1>1, <2>2
  <2>5. /\ Len(next.marks) = Len(bound.marks) + 1
        /\ next.marks[Len(bound.marks) + 1] = Len(bound.parameters) + 1
        /\ \A i \in 1..Len(bound.marks) : next.marks[i] = bound.marks[i]
    BY <1>1, <2>2
  <2>6. Len(bound.parameters) + 1 \in DOMAIN next.parameters
    BY <1>1, <2>4
  <2>7. \A i \in DOMAIN bound.parameters : i \in DOMAIN next.parameters
    BY <1>1, <2>4
  <2> QED
    BY <1>1, <2>3, <2>4, <2>5, <2>6, <2>7
<1>3. CASE known # {}
  <2> DEFINE mark == CHOOSE i \in known : TRUE
  <2>1. mark \in known
    BY <1>3
  <2>2. mark \in DOMAIN bound.parameters /\ bound.parameters[mark] = literal /\ mark \in Nat
    BY <1>1, <2>1
  <2>3. next = [bound EXCEPT !.marks = Append(@, mark)]
    BY <1>3 DEF AddParameter
  <2> HIDE DEF mark
  <2>4. next.parameters = bound.parameters /\ next.marks = Append(bound.marks, mark)
    BY <2>3 DEF Bounds
  <2>5. next \in Bounds(X)
    <3>1. Append(bound.marks, mark) \in Seq(Nat)
      BY <1>1, <2>2
    <3> QED
      BY <2>3, <3>1 DEF Bounds
  <2>6. /\ Len(next.marks) = Len(bound.marks) + 1
        /\ next.marks[Len(bound.marks) + 1] = mark
        /\ \A i \in 1..Len(bound.marks) : next.marks[i] = bound.marks[i]
    BY <1>1, <2>2, <2>4
  <2> QED
    BY <2>2, <2>4, <2>5, <2>6
<1> QED
  BY <1>2, <1>3

\* Every literal has a placeholder, in its place in the text, and what the
\* placeholder stands for is the literal.
LEMMA EveryLiteralIsBound ==
    ASSUME NEW X, NEW literals \in Seq(X)
    PROVE  /\ Bind(literals) \in Bounds(X)
           /\ Len(Bind(literals).marks) = Len(literals)
           /\ \A i \in 1..Len(literals) :
                 LET mark == Bind(literals).marks[i]
                 IN /\ mark \in DOMAIN Bind(literals).parameters
                    /\ Bind(literals).parameters[mark] = literals[i]
<1>1. PICK f : /\ f[0] = [parameters |-> <<>>, marks |-> <<>>]
               /\ Bind(literals) = f[Len(literals)]
               /\ \A i \in 1..Len(literals) : f[i] = AddParameter(f[i - 1], literals[i])
  BY BindStepByStep
<1> DEFINE Good(n) == /\ f[n] \in Bounds(X)
                      /\ Len(f[n].marks) = n
                      /\ \A i \in 1..n : /\ f[n].marks[i] \in DOMAIN f[n].parameters
                                         /\ f[n].parameters[f[n].marks[i]] = literals[i]
           Bad == {n \in 0..Len(literals) : ~Good(n)}
<1>2. ASSUME Bad # {} PROVE FALSE
  <2>1. PICK m \in Bad : \A n \in Bad : m <= n
    <3>1. Bad \in SUBSET Nat
      OBVIOUS
    <3> HIDE DEF Bad
    <3> QED
      BY <1>2, <3>1, LeastNumber
  <2>2. m \in 0..Len(literals) /\ ~Good(m)
    BY <2>1
  <2>3. m # 0
    <3>1. Good(0)
      BY <1>1 DEF Bounds
    <3> QED
      BY <2>2, <3>1
  <2>4. m \in 1..Len(literals) /\ m - 1 \in 0..Len(literals) /\ Len(literals) \in Nat
    BY <2>2, <2>3
  <2>5. Good(m - 1)
    <3>1. m - 1 \notin Bad
      <4> HIDE DEF Bad
      <4> QED
        BY <2>1, <2>4
    <3> QED
      BY <2>4, <3>1
  <2>6. literals[m] \in X /\ f[m] = AddParameter(f[m - 1], literals[m])
    BY <1>1, <2>4
  <2>7. f[m - 1] \in Bounds(X) /\ Len(f[m - 1].marks) = m - 1
    BY <2>5
  <2>8. /\ f[m] \in Bounds(X)
        /\ Len(f[m].marks) = Len(f[m - 1].marks) + 1
        /\ \A i \in 1..Len(f[m - 1].marks) : f[m].marks[i] = f[m - 1].marks[i]
        /\ \A i \in DOMAIN f[m - 1].parameters :
              i \in DOMAIN f[m].parameters /\ f[m].parameters[i] = f[m - 1].parameters[i]
        /\ /\ f[m].marks[Len(f[m - 1].marks) + 1] \in DOMAIN f[m].parameters
           /\ f[m].parameters[f[m].marks[Len(f[m - 1].marks) + 1]] = literals[m]
    <3> HIDE DEF Good
    <3>1. PICK old \in Bounds(X) : old = f[m - 1]
      BY <2>7
    <3>2. PICK literal \in X : literal = literals[m]
      BY <2>6
    <3>3. PICK next : next = f[m]
      OBVIOUS
    <3>4. next = AddParameter(old, literal)
      BY <2>6, <3>1, <3>2, <3>3
    <3>5. /\ next \in Bounds(X)
          /\ Len(next.marks) = Len(old.marks) + 1
          /\ \A i \in 1..Len(old.marks) : next.marks[i] = old.marks[i]
          /\ \A i \in DOMAIN old.parameters :
                i \in DOMAIN next.parameters /\ next.parameters[i] = old.parameters[i]
          /\ /\ next.marks[Len(old.marks) + 1] \in DOMAIN next.parameters
             /\ next.parameters[next.marks[Len(old.marks) + 1]] = literal
      BY <3>4, OneLiteralMore
    <3> QED
      BY ONLY <3>1, <3>2, <3>3, <3>5
  <2>9. Len(f[m].marks) = m /\ (m - 1) + 1 = m /\ \A i \in 1..m : i = m \/ i \in 1..m - 1
    BY <2>4, <2>7, <2>8
  <2>10. /\ f[m].marks[m] \in DOMAIN f[m].parameters
         /\ f[m].parameters[f[m].marks[m]] = literals[m]
    BY <2>7, <2>8, <2>9
  <2>11. ASSUME NEW i \in 1..m - 1
         PROVE  /\ f[m].marks[i] \in DOMAIN f[m].parameters
                /\ f[m].parameters[f[m].marks[i]] = literals[i]
    <3>1. f[m].marks[i] = f[m - 1].marks[i]
      BY <2>7, <2>8
    <3>2. /\ f[m - 1].marks[i] \in DOMAIN f[m - 1].parameters
          /\ f[m - 1].parameters[f[m - 1].marks[i]] = literals[i]
      BY <2>5
    <3> QED
      BY <2>8, <3>1, <3>2
  <2>12. \A i \in 1..m : /\ f[m].marks[i] \in DOMAIN f[m].parameters
                         /\ f[m].parameters[f[m].marks[i]] = literals[i]
    BY <2>9, <2>10, <2>11
  <2> QED
    BY <2>2, <2>8, <2>9, <2>12
<1>3. Good(Len(literals))
  <2>1. Len(literals) \in 0..Len(literals)
    OBVIOUS
  <2> QED
    BY <1>2, <2>1
<1> QED
  BY <1>1, <1>3

\* Postgres gets what the text has, in the order of the text.
LEMMA PostgresGetsEveryLiteral ==
    ASSUME NEW p, NEW literals, literals = LiteralsIn(SqlFor(p)),
           literals \in Seq(ToSet(literals)),
           NEW query, query = Compile(p, "postgres")
    PROVE  /\ Len(Sent(query)) = Len(literals)
           /\ \A i \in DOMAIN literals :
                 literals[i].json \notin Zeroed => Sent(query)[i] = WireValue(literals[i])
<1>1. /\ query.dialect = "postgres" /\ query.parameters = Bind(literals).parameters
      /\ query.marks = Bind(literals).marks
  BY DEF Compile, Numbered
<1>2. /\ Bind(literals) \in Bounds(ToSet(literals))
      /\ Len(Bind(literals).marks) = Len(literals)
      /\ \A i \in 1..Len(literals) : Bind(literals).parameters[Bind(literals).marks[i]] = literals[i]
  BY EveryLiteralIsBound
<1>3. /\ query.marks \in Seq(Nat) /\ Len(query.marks) = Len(literals)
      /\ DOMAIN literals = 1..Len(literals) /\ Len(literals) \in Nat
  BY <1>1, <1>2 DEF Bounds
<1>4. DOMAIN query.marks = 1..Len(literals)
  BY <1>3
<1>5. Sent(query) = [i \in 1..Len(literals) |-> ParamToOwned(query.parameters[query.marks[i]])]
  BY <1>1, <1>4 DEF Sent
<1>6. Len(Sent(query)) = Len(literals)
  BY <1>3, <1>5
<1>7. ASSUME NEW i \in DOMAIN literals, literals[i].json \notin Zeroed
      PROVE  Sent(query)[i] = WireValue(literals[i])
  <2>1. Sent(query)[i] = ParamToOwned(query.parameters[query.marks[i]])
    BY <1>3, <1>5
  <2>2. query.parameters[query.marks[i]] = literals[i]
    BY <1>1, <1>2, <1>3
  <2> QED
    BY <1>7, <2>1, <2>2 DEF ParamToOwned
<1> QED
  BY <1>6, <1>7

-----------------------------------------------------------------------------
(* The invariant: what the policy engine found wrong with the plan at hand *)
(* is among the errors until the audit looks at them, a plan is accepted   *)
(* when that was nothing, and a statement is the compiled plan.            *)

Denied == PolicyErrors(config.policy, plan)

DenialsAreKept ==
    /\ stage \in {"operand", "dialect", "audit"} => Denied \subseteq errors
    /\ Accepted => Denied = {}

StatementIsOfThePlan ==
    /\ stage \in {"compiled", "sent"} =>
           \E dialect \in Dialects : statement = Compile(plan, dialect)
    /\ stage = "sent" => sent = Sent(statement)

IInv == DenialsAreKept /\ StatementIsOfThePlan

\* It holds of a plan as it comes in.
LEMMA InitIInv == Init => IInv
<1> SUFFICES ASSUME Init PROVE IInv
  OBVIOUS
<1>1. stage \in {"repair", "columns"}
  BY EntryAssumption DEF Init
<1> QED
  BY <1>1 DEF IInv, DenialsAreKept, StatementIsOfThePlan, Accepted

\* A step to a stage before the policy engine, or out of the pipeline, has
\* nothing to keep.
LEMMA NothingToKeep ==
    ASSUME stage' \in {"preaudit", "columns", "tables", "joins", "aggregates", "groups", "schema",
                       "policy", "recheck", "validated", "optimized", "refused", "panicked"}
    PROVE  IInv'
BY DEF IInv, DenialsAreKept, StatementIsOfThePlan, Accepted

\* Every step keeps it.
LEMMA NextIInv == IInv /\ [Next]_vars => IInv'
<1> SUFFICES ASSUME IInv, [Next]_vars PROVE IInv'
  OBVIOUS
<1> USE DEF IInv, DenialsAreKept, StatementIsOfThePlan, Accepted, Denied
<1>1. CASE RepairJoins
  BY <1>1, NothingToKeep DEF RepairJoins, Rewrite, Panic
<1>2. CASE AuditRepaired
  BY <1>2, NothingToKeep DEF AuditRepaired
<1>3. CASE ParseColumns
  BY <1>3, NothingToKeep DEF ParseColumns, Rewrite
<1>4. CASE MoveColumns
  BY <1>4, NothingToKeep DEF MoveColumns, Rewrite
<1>5. CASE AddJoin
  BY <1>5, NothingToKeep DEF AddJoin
<1>6. CASE UnnestAggregates
  BY <1>6, NothingToKeep DEF UnnestAggregates, Rewrite
<1>7. CASE CompleteGroups
  BY <1>7, NothingToKeep DEF CompleteGroups, Rewrite
<1>8. CASE CheckSchema
  BY <1>8, NothingToKeep DEF CheckSchema, Check
<1>9. CASE CheckPolicy
  <2>1. stage' = "operand" /\ Denied' = Denied /\ Denied \subseteq errors'
    BY <1>9 DEF CheckPolicy, Check
  <2> QED
    BY <2>1
<1>10. CASE CheckOperands
  <2>1. stage = "operand" /\ stage' = "dialect" /\ Denied' = Denied /\ errors \subseteq errors'
    BY <1>10 DEF CheckOperands, Check
  <2> QED
    BY <2>1
<1>11. CASE CheckDialect
  <2>1. stage = "dialect" /\ stage' = "audit" /\ Denied' = Denied /\ errors \subseteq errors'
    BY <1>11 DEF CheckDialect, Check
  <2> QED
    BY <2>1
<1>12. CASE Audit
  <2>1. /\ stage = "audit" /\ Denied' = Denied
        /\ stage' = IF errors' = {} THEN "filter" ELSE "refused"
        /\ errors' = {} => errors = {}
    BY <1>12 DEF Audit
  <2>2. CASE errors' = {}
    <3>1. stage' = "filter" /\ Denied' = {}
      BY <2>1, <2>2
    <3> QED
      BY <3>1
  <2>3. CASE errors' # {}
    BY <2>1, <2>3, NothingToKeep
  <2> QED
    BY <2>2, <2>3
<1>13. CASE AddRowFilters
  BY <1>13, NothingToKeep DEF AddRowFilters, Rewrite
<1>14. CASE CheckFiltered
  BY <1>14, NothingToKeep DEF CheckFiltered
<1>15. CASE Optimize
  BY <1>15, NothingToKeep DEF Optimize, Rewrite
<1>16. CASE CheckOptimized
  <2>1. /\ errors' = Denied /\ Denied' = Denied
        /\ stage' = IF errors' = {} THEN "done" ELSE "refused"
    BY <1>16 DEF CheckOptimized
  <2>2. CASE errors' = {}
    <3>1. stage' = "done" /\ Denied' = {}
      BY <2>1, <2>2
    <3> QED
      BY <3>1
  <2>3. CASE errors' # {}
    BY <2>1, <2>3, NothingToKeep
  <2> QED
    BY <2>2, <2>3
<1>17. CASE CompilePlan
  <2>1. stage = "done" /\ plan' = plan /\ Denied' = Denied
    BY <1>17 DEF CompilePlan
  <2>2. PICK dialect \in Dialects :
            /\ statement' = IF RefusedBy(plan, dialect) = {} THEN Compile(plan, dialect) ELSE <<>>
            /\ stage' = IF RefusedBy(plan, dialect) = {} THEN "compiled" ELSE "refused"
    BY <1>17 DEF CompilePlan
  <2>3. CASE RefusedBy(plan, dialect) = {}
    <3>1. stage' = "compiled" /\ statement' = Compile(plan', dialect)
      BY <2>1, <2>2, <2>3
    <3> QED
      BY <2>1, <3>1
  <2>4. CASE RefusedBy(plan, dialect) # {}
    BY <2>2, <2>4, NothingToKeep
  <2> QED
    BY <2>3, <2>4
<1>18. CASE Execute
  <2>1. /\ stage = "compiled" /\ stage' = "sent" /\ plan' = plan /\ Denied' = Denied
        /\ statement' = statement /\ sent' = Sent(statement')
    BY <1>18 DEF Execute
  <2> QED
    BY <2>1
<1>19. CASE UNCHANGED vars
  BY <1>19 DEF vars, output
<1> QED
  BY <1>1, <1>2, <1>3, <1>4, <1>5, <1>6, <1>7, <1>8, <1>9, <1>10, <1>11, <1>12, <1>13, <1>14,
     <1>15, <1>16, <1>17, <1>18, <1>19 DEF Next

\* The invariant of the specification.
THEOREM Invariant == Spec => []IInv
BY InitIInv, NextIInv, PTL DEF Spec

-----------------------------------------------------------------------------
(* What follows from it.                                                   *)

\* Nothing wrong with a plan is nothing wrong with any query in it.
LEMMA NothingWrongInside ==
    ASSUME NEW policy, NEW p, PolicyErrors(policy, p) = {}, NEW s \in QueriesIn(p)
    PROVE  QueryErrors(policy, s.query, s.scope) = {}
BY DEF PolicyErrors

\* No table and no column that is forbidden is read by an accepted plan that
\* hides no query from the stages, whatever the repairs and the rules have
\* made of it (PolicyHolds;
\* pipeline.rs, optimizer/mod.rs, policy/engine.rs).
THEOREM PolicyHoldsAlways == Spec => []PolicyHolds
<1>1. IInv => PolicyHolds
  <2> SUFFICES ASSUME IInv, Accepted, IsPlan(plan), NamesAreClear(plan), NothingHidden(plan),
                      NEW tc \in ReadsOf(plan)
               PROVE  /\ tc[1] \in DOMAIN config.policy.tables
                             => config.policy.tables[tc[1]].allowed
                      /\ DenialReason(config.policy, tc[1], tc[2]) = ""
    BY DEF PolicyHolds, AllAllowed
  <2>1. PICK r \in ReadersIn(plan) : tc \in OwnReads(r.query, r.sight)
    BY DEF ReadsOf
  <2>2. PICK s \in QueriesIn(plan) : Sees(s, r)
    BY ReaderIsChecked
  <2>3. PolicyErrors(config.policy, plan) = {}
    BY DEF IInv, DenialsAreKept, Denied
  <2>4. QueryErrors(config.policy, s.query, s.scope) = {}
    BY <2>3, NothingWrongInside
  <2>5. /\ \A x, y \in r.sight : Names(x) \cap Names(y) # {} => x.table = y.table
        /\ \A c \in ToSet(r.query.ctes) : c.name \notin DOMAIN Schema
        /\ Seen(r.query)
    BY <2>1 DEF NamesAreClear, NothingHidden
  <2>6. PICK policy : policy = config.policy
    OBVIOUS
  <2>7. QueryErrors(policy, s.query, s.scope) = {}
    BY <2>4, <2>6
  <2>8. /\ tc[1] \in DOMAIN policy.tables => policy.tables[tc[1]].allowed
        /\ DenialReason(policy, tc[1], tc[2]) = ""
    BY <2>1, <2>2, <2>5, <2>7, ReadIsAllowed
  <2> QED
    BY <2>6, <2>8
<1> QED
  BY <1>1, Invariant, PTL

\* An accepted plan that hides no query from the stages names tables that
\* there are and columns it can see (NamesExist; policy/engine.rs, query.rs).
THEOREM NamesExistAlways == Spec => []NamesExist
<1>1. IInv => NamesExist
  <2> SUFFICES ASSUME IInv, Accepted, IsPlan(plan), NothingHidden(plan), NEW r \in ReadersIn(plan)
               PROVE  NamesAreThere(r.query, r.sight)
    BY DEF NamesExist
  <2>1. PICK s \in QueriesIn(plan) : Sees(s, r)
    BY ReaderIsChecked
  <2>2. PolicyErrors(config.policy, plan) = {}
    BY DEF IInv, DenialsAreKept, Denied
  <2>3. QueryErrors(config.policy, s.query, s.scope) = {}
    BY <2>2, NothingWrongInside
  <2>4. Seen(r.query)
    BY DEF NothingHidden
  <2>5. LET ctes == {c.name : c \in ToSet(r.query.ctes)}
        IN /\ \A own \in RelationsOf(r.query) : own.table \in DOMAIN Schema \cup ctes
           /\ \A c \in ColumnsWritten(r.query) :
                  \/ Meanings(c, r.sight) # {}
                  \/ \E of \in MayBeOf(c, r.sight) : of.table \in ctes
    <3>1. PICK policy : policy = config.policy
      OBVIOUS
    <3>2. QueryErrors(policy, s.query, s.scope) = {}
      BY <2>3, <3>1
    <3> QED
      BY <2>1, <2>4, <3>2, NamedIsThere
  <2> QED
    BY <2>5 DEF NamesAreThere
<1> QED
  BY <1>1, Invariant, PTL

\* The parameters a statement is executed with are its literals, each where
\* the text has it (LiteralsReachPostgres; compile/builder/mod.rs,
\* execute/pg.rs).
THEOREM LiteralsReachPostgresAlways == Spec => []LiteralsReachPostgres
<1>1. IInv => LiteralsReachPostgres
  <2> SUFFICES ASSUME IInv, stage = "sent", statement.dialect = "postgres",
                      LiteralsIn(statement.sql) \in Seq(ToSet(LiteralsIn(statement.sql)))
               PROVE  /\ Len(sent) = Len(LiteralsIn(statement.sql))
                      /\ \A i \in DOMAIN LiteralsIn(statement.sql) :
                             LiteralsIn(statement.sql)[i].json \notin Zeroed
                                 => sent[i] = WireValue(LiteralsIn(statement.sql)[i])
    BY DEF LiteralsReachPostgres
  <2>1. PICK dialect \in Dialects : statement = Compile(plan, dialect)
    BY DEF IInv, StatementIsOfThePlan
  <2>2. dialect = "postgres" /\ statement.sql = SqlFor(plan)
    BY <2>1 DEF Compile
  <2>3. sent = Sent(statement)
    BY DEF IInv, StatementIsOfThePlan
  <2>4. PICK literals : literals = LiteralsIn(SqlFor(plan))
    OBVIOUS
  <2>5. PICK query : query = Compile(plan, "postgres")
    OBVIOUS
  <2>6. PICK p : p = plan
    OBVIOUS
  <2>7. literals \in Seq(ToSet(literals)) /\ literals = LiteralsIn(SqlFor(p))
        /\ query = Compile(p, "postgres")
    BY <2>2, <2>4, <2>5, <2>6
  <2>8. /\ Len(Sent(query)) = Len(literals)
        /\ \A i \in DOMAIN literals :
              literals[i].json \notin Zeroed => Sent(query)[i] = WireValue(literals[i])
    BY <2>7, PostgresGetsEveryLiteral
  <2>9. literals = LiteralsIn(statement.sql) /\ sent = Sent(query)
    BY <2>1, <2>2, <2>3, <2>4, <2>5
  <2> QED
    BY <2>8, <2>9
<1> QED
  BY <1>1, Invariant, PTL
=============================================================================
