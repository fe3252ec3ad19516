----------------------------- MODULE JoinOrder -----------------------------
(***************************************************************************)
(* The join graph of optimizer/join_reorder/mod.rs and the orders its      *)
(* searches may find.  Relations are numbered in the order of the plan; a  *)
(* conjunct of an ON clause is known by the relations it mentions.         *)
(***************************************************************************)
EXTENDS Integers, FiniteSets, Sequences

CONSTANTS
    N,           \* relations: FROM and one per join
    Conjunct,    \* the conjuncts of all ON clauses, numbered in their order
    Tables,      \* [Conjunct -> SUBSET (1..N)]
    Ambiguous    \* conjuncts with a column of no known relation

\* is_connected: two-table conjuncts are the edges.
Edges == {Tables[c] : c \in {c \in Conjunct \ Ambiguous : Cardinality(Tables[c]) = 2}}

Connected ==
    \A S \in SUBSET (1..N) :
        S # {} /\ S # 1..N => \E e \in Edges : e \cap S # {} /\ ~(e \subseteq S)

\* connecting: the conjuncts that can be checked when j joins the set S.
Connecting(S, j) ==
    {c \in Conjunct \ Ambiguous :
        /\ j \in Tables[c]
        /\ Tables[c] \subseteq S \cup {j}
        /\ Tables[c] = {j} \/ Tables[c] \cap S # {}}

Placed(order, i) == {order[k] : k \in 1..i}

IsOrder(order) ==
    /\ order \in [1..N -> 1..N]
    /\ Placed(order, N) = 1..N

\* dp_order and greedy_order pick by estimated cost, which may favour any
\* order; both prefer a relation that some conjunct connects.
Found(order) ==
    /\ IsOrder(order)
    /\ \A i \in 2..N :
          LET S == Placed(order, i - 1)
          IN \/ Connecting(S, order[i]) # {}
             \/ \A j \in (1..N) \ S : Connecting(S, j) = {}

Position(order, t) == CHOOSE i \in 1..N : order[i] = t

\* Mutation: a conjunct goes where the first of its relations is introduced.
StepOfFirst(order, c) ==
    IF c \in Ambiguous \/ Tables[c] = {} THEN N
    ELSE CHOOSE i \in 2..N :
             \E t \in Tables[c] :
                 /\ i = (IF Position(order, t) = 1 THEN 2 ELSE Position(order, t))
                 /\ \A u \in Tables[c] : Position(order, t) <= Position(order, u)

\* assign_conjuncts: a conjunct goes to the join that introduces the last of
\* its relations, the seed's own filters to the first join, and what cannot be
\* attributed to the last.
StepOf(order, c) ==
    IF c \in Ambiguous \/ Tables[c] = {} THEN N
    ELSE CHOOSE i \in 2..N :
             /\ \A t \in Tables[c] : Position(order, t) <= i
             /\ i > 2 => order[i] \in Tables[c]
=============================================================================
