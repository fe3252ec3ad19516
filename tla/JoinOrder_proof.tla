-------------------------- MODULE JoinOrder_proof --------------------------
(***************************************************************************)
(* Every conjunct of every ON clause finds its place in a reordered chain, *)
(* for any number of relations and any order the search may find.          *)
(***************************************************************************)
EXTENDS JoinOrder, WellFoundedInduction, TLAPS

\* In an order every relation has a position, which holds it.
LEMMA PositionHolds ==
    ASSUME N \in Nat, NEW order, IsOrder(order), NEW t \in 1..N
    PROVE  Position(order, t) \in 1..N /\ order[Position(order, t)] = t
  <1>1. \E i \in 1..N : order[i] = t
    BY DEF IsOrder, Placed
  <1> QED BY <1>1 DEF Position

\* If a conjunct's relations include one placed after the second, one of them
\* is placed last: the join that introduces it comes after all the others.
LEMMA LastRelation ==
    ASSUME N \in Nat, N >= 2,
           NEW order, IsOrder(order),
           NEW S \in SUBSET (1..N), S # {}
    PROVE  \E i \in 2..N :
               /\ \A t \in S : Position(order, t) <= i
               /\ i > 2 => order[i] \in S
  <1> DEFINE Bounds == {i \in Nat : \A t \in S : Position(order, t) <= i}
  <1>pos. \A t \in S : Position(order, t) \in 1..N /\ order[Position(order, t)] = t
    BY PositionHolds
  <1>1. N \in Bounds
    BY <1>pos
  <1>2. PICK m \in Bounds : \A n \in Bounds : m <= n
    <2> DEFINE Less == {p \in Nat \X Nat : p[1] < p[2]}
    <2>1. Bounds \subseteq Nat /\ Bounds # {}
      BY <1>1
    <2>2. IsWellFoundedOn(Less, Nat)
      BY NatLessThanWellFounded DEF OpToRel
    <2>3. \E m \in Bounds : \A n \in Bounds : ~ (<<n, m>> \in Less)
      <3> HIDE DEF Bounds, Less
      <3> QED BY <2>1, <2>2, WFMin
    <2>4. \A m, n \in Nat : ~ (<<n, m>> \in Less) => m <= n
      OBVIOUS
    <2> HIDE DEF Bounds, Less
    <2> QED BY <2>1, <2>3, <2>4
  <1>3. m \in Nat /\ m <= N
    BY <1>1, <1>2
  <1>4. CASE m <= 2
    <2>1. \A t \in S : Position(order, t) <= 2
      BY <1>2, <1>3, <1>4, <1>pos
    <2> QED BY <2>1, 2 \in 2..N
  <1>5. CASE m > 2
    <2>1. \E t \in S : Position(order, t) = m
      <3>1. m - 1 \in Nat /\ m - 1 \notin Bounds
        BY <1>2, <1>3, <1>5
      <3>2. PICK t \in S : ~(Position(order, t) <= m - 1)
        BY <3>1
      <3>3. Position(order, t) <= m
        BY <1>2
      <3> QED BY <3>2, <3>3, <1>3, <1>pos
    <2>2. order[m] \in S
      BY <2>1, <1>pos
    <2>3. m \in 2..N
      BY <1>3, <1>5
    <2> QED BY <1>2, <2>2, <2>3
  <1> QED BY <1>3, <1>4, <1>5

\* assign_conjuncts loses no conjunct and evaluates none too early: each goes
\* to one of the joins, and a conjunct whose relations are known to a join at
\* which all of them have been placed.
THEOREM ConjunctsWaitForRelations ==
    ASSUME N \in Nat, N >= 2,
           NEW order, IsOrder(order),
           NEW c \in Conjunct, Tables[c] \subseteq 1..N
    PROVE  /\ StepOf(order, c) \in 2..N
           /\ c \notin Ambiguous => Tables[c] \subseteq Placed(order, StepOf(order, c))
  <1>1. CASE c \in Ambiguous
    BY <1>1 DEF StepOf
  <1>2. CASE c \notin Ambiguous /\ Tables[c] = {}
    BY <1>2 DEF StepOf
  <1>3. CASE c \notin Ambiguous /\ Tables[c] # {}
    <2> DEFINE i == StepOf(order, c)
    <2>1. i \in 2..N /\ \A t \in Tables[c] : Position(order, t) <= i
      BY <1>3, LastRelation DEF StepOf
    <2>2. ASSUME NEW t \in Tables[c] PROVE t \in Placed(order, i)
      <3>1. Position(order, t) \in 1..N /\ order[Position(order, t)] = t
        BY PositionHolds
      <3>2. Position(order, t) \in 1..i
        BY <2>1, <3>1
      <3> QED BY <3>1, <3>2 DEF Placed
    <2> QED BY <2>1, <2>2
  <1> QED BY <1>1, <1>2, <1>3

\* A conjunct that needs a later relation than the first two is evaluated at
\* the join that introduces one of its own relations, not at a later one.
THEOREM ConjunctsAreNotDelayed ==
    ASSUME N \in Nat, N >= 2,
           NEW order, IsOrder(order),
           NEW c \in Conjunct, Tables[c] \subseteq 1..N, Tables[c] # {},
           c \notin Ambiguous, StepOf(order, c) > 2
    PROVE  order[StepOf(order, c)] \in Tables[c]
  BY LastRelation DEF StepOf
=============================================================================
