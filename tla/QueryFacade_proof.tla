------------------------- MODULE QueryFacade_proof -------------------------
(***************************************************************************)
(* Proofs about QueryFacade, for every set of calls, every set of plans    *)
(* and every behaviour of the LLM, the optimizer and the caches' eviction. *)
(*                                                                         *)
(* The inductive invariant says, per await point, where the plan in hand   *)
(* came from (Traced) and what it already passed (Accepted), what the      *)
(* caches may hold (CachesProven), and how far the retry loop is (Rounds). *)
(***************************************************************************)
EXTENDS QueryFacade, FiniteSetTheorems, TLAPS

Holding == {"validate", "optimize", "sqlLookup", "storeSql", "storePlan"}

\* The plan in hand was proposed for a question with this call's key.
Traced ==
    \A t \in Task : pc[t] \in Holding => plan[t] \in ProposedFor(question[t])

\* What the plan has been through when the call waits at an await point.
AcceptedAt(t) ==
    /\ pc[t] = "optimize" =>
          config.optimizer /\ target[t] \in Validated[plan[t]]
    /\ pc[t] \in {"sqlLookup", "storeSql", "storePlan"} =>
          target[t] \in Derived(plan[t])
    /\ pc[t] \in {"storeSql", "storePlan"} => Compiled[target[t]] # NoSql

Accepted == \A t \in Task : AcceptedAt(t)

\* The LLM cache holds plans that passed validation, each proposed for a
\* question with its key; the compile cache holds each plan's own SQL.
CachesProven ==
    /\ \A q \in Question : llmCache[Lower[q]] # NoPlan =>
          /\ llmCache[Lower[q]] \in ProposedFor(q)
          /\ Validated[llmCache[Lower[q]]] # {}
    /\ \A p \in Plan : sqlCache[p] # NoSql => sqlCache[p] = Compiled[p]

\* How the loop counter, the requests and the cached plan go together.
Rounds ==
    \A t \in Task :
        /\ pc[t] \in {"idle", "lookup"} =>
              cached[t] = NoPlan /\ calls[t] = 0 /\ attempt[t] = 0
        /\ cached[t] # NoPlan /\ Settled(cached[t]) =>
              /\ calls[t] = 0 /\ attempt[t] = 0 /\ pc[t] # "generate"
              /\ Rejected[cached[t]] = {}
              /\ pc[t] = "validate" => plan[t] = cached[t]
        /\ calls[t] <= attempt[t] + 1
        /\ pc[t] = "generate" => calls[t] <= attempt[t]

IInv == TypeOK /\ Traced /\ Accepted /\ CachesProven /\ Rounds /\ AnswerSound

-----------------------------------------------------------------------------
\* Every plan proposed for a key is a plan.
LEMMA ProposedArePlans ==
    ASSUME TypeOK, NEW q \in Question
    PROVE  ProposedFor(q) \subseteq Plan
  BY DEF TypeOK, ProposedFor

\* A valid plan proposed for q, compiled as one of its derived plans, gives
\* SQL that may answer q.
LEMMA SqlOfIntro ==
    ASSUME TypeOK, NEW q \in Question, NEW p \in ProposedFor(q), NEW o \in Derived(p),
           Compiled[o] \in Sql
    PROVE  Compiled[o] \in SqlOf(q)
  BY DEF SqlOf

\* The plans a plan may be compiled as are plans.
LEMMA DerivedArePlans ==
    ASSUME TypeOK, NEW p \in Plan
    PROVE  Derived(p) \subseteq Plan
  BY ConstantsAssumption DEF Derived, TypeOK, Config

LEMMA InitIInv == Init => IInv
  <1> SUFFICES ASSUME Init PROVE IInv
    OBVIOUS
  <1> USE ConstantsAssumption DEF Init
  <1>1. TypeOK
    BY DEF TypeOK, Pc, Running, Awaiting
  <1>2. Traced /\ Accepted
    BY DEF Traced, Accepted, AcceptedAt, Holding
  <1>3. CachesProven /\ Rounds /\ AnswerSound
    BY DEF CachesProven, Rounds, AnswerSound
  <1> QED BY <1>1, <1>2, <1>3 DEF IInv

\* More proposals never take away an answer, and the configuration is fixed.
LEMMA ProposalsGrow ==
    ASSUME TypeOK, config' = config,
           proposed' = proposed \/
             \E t \in Task, p \in Plan :
                proposed' = [proposed EXCEPT ![question[t]] = @ \cup {p}]
    PROVE  \A q \in Question :
              ProposedFor(q) \subseteq ProposedFor(q)' /\ SqlOf(q) \subseteq SqlOf(q)'
  <1>1. \A r \in Question : proposed[r] \subseteq proposed'[r]
    BY DEF TypeOK
  <1>2. \A q \in Question : ProposedFor(q) \subseteq ProposedFor(q)'
    BY <1>1 DEF ProposedFor
  <1>3. \A p \in Plan : Derived(p)' = Derived(p)
    BY DEF Derived
  <1>4. \A q \in Question : SqlOf(q) \subseteq SqlOf(q)'
    <2> SUFFICES ASSUME NEW q \in Question, NEW s \in SqlOf(q) PROVE s \in SqlOf(q)'
      OBVIOUS
    <2>1. PICK p \in ProposedFor(q) : \E o \in Derived(p) : Compiled[o] = s
      BY DEF SqlOf
    <2>2. p \in Plan
      BY <2>1, ProposedArePlans
    <2> QED BY <1>2, <1>3, <2>1, <2>2 DEF SqlOf
  <1> QED BY <1>2, <1>4
\* The invariant is inductive.  Every action but Propose leaves what the LLM
\* proposed alone, so the sets it defines stay the same (<1>frame).
LEMMA NextIInv == IInv /\ [Next]_vars => IInv'
  <1> SUFFICES ASSUME IInv, [Next]_vars PROVE IInv'
    OBVIOUS
  <1> USE ConstantsAssumption DEF shared, taskState
  <1> USE DEF Pc, Running, Awaiting, Finished, Holding
  <1>types. /\ TypeOK
            /\ \A q \in Question : ProposedFor(q) \subseteq Plan
            /\ \A p \in Plan : Derived(p) \subseteq Plan
            /\ \A t \in Task : pc[t] \in Holding => plan[t] \in Plan
            /\ \A t \in Task : pc[t] \in {"sqlLookup", "storeSql", "storePlan"} =>
                  target[t] \in Plan
    <2>1. TypeOK /\ \A q \in Question : ProposedFor(q) \subseteq Plan
      BY ProposedArePlans DEF IInv
    <2>2. \A p \in Plan : Derived(p) \subseteq Plan
      BY <2>1, DerivedArePlans
    <2>3. \A t \in Task : pc[t] \in Holding => plan[t] \in Plan
      BY <2>1 DEF IInv, Traced, TypeOK
    <2> QED BY <2>1, <2>2, <2>3 DEF IInv, Accepted, AcceptedAt
  <1>frame. ASSUME UNCHANGED <<config, proposed>>
            PROVE  /\ \A q \in Question : ProposedFor(q)' = ProposedFor(q)
                   /\ \A q \in Question : SqlOf(q)' = SqlOf(q)
                   /\ \A p \in Plan : Derived(p)' = Derived(p)
    BY <1>frame DEF ProposedFor, SqlOf, Derived
  <1>1. ASSUME NEW t \in Task, Start(t) PROVE IInv'
    <2>0. UNCHANGED <<config, proposed>>
      BY <1>1 DEF Start
    <2>f. /\ \A q \in Question : ProposedFor(q)' = ProposedFor(q)
          /\ \A q \in Question : SqlOf(q)' = SqlOf(q)
          /\ \A p \in Plan : Derived(p)' = Derived(p)
      BY <2>0, <1>frame
    <2>1. TypeOK'
      BY <1>1, <1>types DEF TypeOK, Start
    <2>2. Traced'
      BY <1>1, <1>types, <2>f DEF IInv, TypeOK, Traced, CachesProven, KeyOf, Start
    <2>3. Accepted'
      BY <1>1, <1>types, <2>f DEF IInv, TypeOK, Traced, Accepted, AcceptedAt, Start
    <2>4. CachesProven'
      BY <1>1, <1>types, <2>f DEF IInv, TypeOK, Traced, Accepted, AcceptedAt, CachesProven, KeyOf, Start
    <2>5. Rounds'
      BY <1>1, <1>types DEF IInv, TypeOK, Rounds, CachesProven, KeyOf, Start
    <2>6. AnswerSound'
      BY <1>1, <1>types, <2>f DEF IInv, TypeOK, AnswerSound, Start
    <2> QED BY <2>1, <2>2, <2>3, <2>4, <2>5, <2>6 DEF IInv
  <1>2. ASSUME NEW t \in Task, LookupPlan(t) PROVE IInv'
    <2>0. UNCHANGED <<config, proposed>>
      BY <1>2 DEF LookupPlan
    <2>f. /\ \A q \in Question : ProposedFor(q)' = ProposedFor(q)
          /\ \A q \in Question : SqlOf(q)' = SqlOf(q)
          /\ \A p \in Plan : Derived(p)' = Derived(p)
      BY <2>0, <1>frame
    <2>1. TypeOK'
      BY <1>2, <1>types DEF TypeOK, KeyOf, LookupPlan
    <2>2. Traced'
      BY <1>2, <1>types, <2>f DEF IInv, TypeOK, Traced, CachesProven, KeyOf, LookupPlan
    <2>3. Accepted'
      BY <1>2, <1>types, <2>f DEF IInv, TypeOK, Traced, Accepted, AcceptedAt, LookupPlan
    <2>4. CachesProven'
      BY <1>2, <1>types, <2>f DEF IInv, TypeOK, Traced, Accepted, AcceptedAt, CachesProven, KeyOf, LookupPlan
    <2>5. Rounds'
      <3>1. llmCache[KeyOf(t)] # NoPlan => Validated[llmCache[KeyOf(t)]] # {}
        BY <1>2, <1>types DEF IInv, TypeOK, CachesProven, KeyOf
      <3> QED BY <1>2, <1>types, <3>1 DEF IInv, TypeOK, Rounds, Settled, LookupPlan
    <2>6. AnswerSound'
      BY <1>2, <1>types, <2>f DEF IInv, TypeOK, AnswerSound, LookupPlan
    <2> QED BY <2>1, <2>2, <2>3, <2>4, <2>5, <2>6 DEF IInv
  <1>3. ASSUME NEW t \in Task, NEW retryable \in BOOLEAN, LlmFails(t, retryable) PROVE IInv'
    <2>0. UNCHANGED <<config, proposed>>
      BY <1>3 DEF LlmFails
    <2>f. /\ \A q \in Question : ProposedFor(q)' = ProposedFor(q)
          /\ \A q \in Question : SqlOf(q)' = SqlOf(q)
          /\ \A p \in Plan : Derived(p)' = Derived(p)
      BY <2>0, <1>frame
    <2>1. TypeOK'
      BY <1>3, <1>types DEF TypeOK, LlmFails
    <2>2. Traced'
      BY <1>3, <1>types, <2>f DEF IInv, TypeOK, Traced, CachesProven, KeyOf, LlmFails
    <2>3. Accepted'
      BY <1>3, <1>types, <2>f DEF IInv, TypeOK, Traced, Accepted, AcceptedAt, LlmFails
    <2>4. CachesProven'
      BY <1>3, <1>types, <2>f DEF IInv, TypeOK, Traced, Accepted, AcceptedAt, CachesProven, KeyOf, LlmFails
    <2>5. Rounds'
      BY <1>3, <1>types DEF IInv, TypeOK, Rounds, CachesProven, KeyOf, LlmFails
    <2>6. AnswerSound'
      BY <1>3, <1>types, <2>f DEF IInv, TypeOK, AnswerSound, LlmFails
    <2> QED BY <2>1, <2>2, <2>3, <2>4, <2>5, <2>6 DEF IInv
  <1>4. ASSUME NEW t \in Task, Validate(t) PROVE IInv'
    <2>0. UNCHANGED <<config, proposed>>
      BY <1>4 DEF Validate
    <2>f. /\ \A q \in Question : ProposedFor(q)' = ProposedFor(q)
          /\ \A q \in Question : SqlOf(q)' = SqlOf(q)
          /\ \A p \in Plan : Derived(p)' = Derived(p)
      BY <2>0, <1>frame
    <2>1. TypeOK'
      <3>1. plan[t] \in Plan
        BY <1>4, <1>types DEF Validate
      <3>2. pc' \in [Task -> Pc]
        BY <1>4, <1>types DEF TypeOK, Validate
      <3>3. attempt' \in [Task -> 0..MaxRetries]
        BY <1>4, <1>types DEF TypeOK, Validate
      <3>4. target' \in [Task -> Plan \cup {NoPlan}]
        BY <1>4, <1>types, <3>1 DEF TypeOK, Validate
      <3> QED BY <1>4, <1>types, <3>2, <3>3, <3>4 DEF TypeOK, Validate
    <2>2. Traced'
      BY <1>4, <1>types, <2>f DEF IInv, TypeOK, Traced, CachesProven, KeyOf, Validate
    <2>3. Accepted'
      <3>1. \A u \in Task : u # t => pc'[u] = pc[u] /\ plan'[u] = plan[u] /\ target'[u] = target[u]
        BY <1>4, <1>types DEF TypeOK, Validate
      <3>2. \A u \in Task : u # t => AcceptedAt(u)'
        BY <3>1, <1>types, <2>0, <2>f DEF IInv, Accepted, AcceptedAt
      <3>3. CASE pc'[t] \in {"generate", "failed"}
        <4>1. AcceptedAt(t)'
          BY <3>3 DEF AcceptedAt
        <4> QED BY <4>1, <3>2 DEF Accepted
      <3>4. CASE pc'[t] \notin {"generate", "failed"}
        <4>1. /\ plan[t] \in Plan /\ plan' = plan
              /\ target'[t] \in Validated[plan[t]]
              /\ pc'[t] = IF config.optimizer THEN "optimize" ELSE "sqlLookup"
          BY <1>4, <1>types, <3>4 DEF TypeOK, Validate
        <4>2. ~config.optimizer => target'[t] \in Derived(plan[t])
          BY <4>1 DEF Derived
        <4>3. AcceptedAt(t)'
          BY <4>1, <4>2, <2>0, <2>f DEF AcceptedAt
        <4> QED BY <4>3, <3>2 DEF Accepted
      <3> QED BY <3>3, <3>4
    <2>4. CachesProven'
      BY <1>4, <1>types, <2>f DEF IInv, TypeOK, Traced, Accepted, AcceptedAt, CachesProven, KeyOf, Validate
    <2>5. Rounds'
      BY <1>4, <1>types DEF IInv, TypeOK, Rounds, CachesProven, KeyOf, Validate
    <2>6. AnswerSound'
      BY <1>4, <1>types, <2>f DEF IInv, TypeOK, AnswerSound, Validate
    <2> QED BY <2>1, <2>2, <2>3, <2>4, <2>5, <2>6 DEF IInv
  <1>5. ASSUME NEW t \in Task, NEW o \in Plan, Optimize(t, o) PROVE IInv'
    <2>0. UNCHANGED <<config, proposed>>
      BY <1>5 DEF Optimize
    <2>f. /\ \A q \in Question : ProposedFor(q)' = ProposedFor(q)
          /\ \A q \in Question : SqlOf(q)' = SqlOf(q)
          /\ \A p \in Plan : Derived(p)' = Derived(p)
      BY <2>0, <1>frame
    <2>1. TypeOK'
      <3>1. pc' \in [Task -> Pc]
        BY SMTT(30), <1>5, <1>types DEF TypeOK, Optimize
      <3>2. target' \in [Task -> Plan \cup {NoPlan}]
        BY <1>5, <1>types DEF TypeOK, Optimize
      <3> QED BY <1>5, <1>types, <3>1, <3>2 DEF TypeOK, Optimize
    <2>2. Traced'
      BY <1>5, <1>types, <2>f DEF IInv, TypeOK, Traced, CachesProven, KeyOf, Optimize
    <2>3. Accepted'
      <3>1. o \in PolicyOk => o \in Derived(plan[t]) /\ plan[t] \in Plan
        BY <1>5, <1>types DEF IInv, Accepted, AcceptedAt, Optimize, Derived
      <3> QED BY <1>5, <1>types, <2>f, <3>1 DEF IInv, TypeOK, Accepted, AcceptedAt, Optimize
    <2>4. CachesProven'
      BY <1>5, <1>types, <2>f DEF IInv, TypeOK, Traced, Accepted, AcceptedAt, CachesProven, KeyOf, Optimize
    <2>5. Rounds'
      BY <1>5, <1>types DEF IInv, TypeOK, Rounds, CachesProven, KeyOf, Optimize
    <2>6. AnswerSound'
      BY <1>5, <1>types, <2>f DEF IInv, TypeOK, AnswerSound, Optimize
    <2> QED BY <2>1, <2>2, <2>3, <2>4, <2>5, <2>6 DEF IInv
  <1>6. ASSUME NEW t \in Task, OptimizerFails(t) PROVE IInv'
    <2>0. UNCHANGED <<config, proposed>>
      BY <1>6 DEF OptimizerFails
    <2>f. /\ \A q \in Question : ProposedFor(q)' = ProposedFor(q)
          /\ \A q \in Question : SqlOf(q)' = SqlOf(q)
          /\ \A p \in Plan : Derived(p)' = Derived(p)
      BY <2>0, <1>frame
    <2>1. TypeOK'
      BY <1>6, <1>types DEF TypeOK, OptimizerFails
    <2>2. Traced'
      BY <1>6, <1>types, <2>f DEF IInv, TypeOK, Traced, CachesProven, KeyOf, OptimizerFails
    <2>3. Accepted'
      BY <1>6, <1>types, <2>f DEF IInv, TypeOK, Traced, Accepted, AcceptedAt, OptimizerFails
    <2>4. CachesProven'
      BY <1>6, <1>types, <2>f DEF IInv, TypeOK, Traced, Accepted, AcceptedAt, CachesProven, KeyOf, OptimizerFails
    <2>5. Rounds'
      BY <1>6, <1>types DEF IInv, TypeOK, Rounds, CachesProven, KeyOf, OptimizerFails
    <2>6. AnswerSound'
      BY <1>6, <1>types, <2>f DEF IInv, TypeOK, AnswerSound, OptimizerFails
    <2> QED BY <2>1, <2>2, <2>3, <2>4, <2>5, <2>6 DEF IInv
  <1>7. ASSUME NEW t \in Task, SqlHit(t) PROVE IInv'
    <2>0. UNCHANGED <<config, proposed>>
      BY <1>7 DEF SqlHit
    <2>f. /\ \A q \in Question : ProposedFor(q)' = ProposedFor(q)
          /\ \A q \in Question : SqlOf(q)' = SqlOf(q)
          /\ \A p \in Plan : Derived(p)' = Derived(p)
      BY <2>0, <1>frame
    <2>1. TypeOK'
      BY <1>7, <1>types DEF TypeOK, SqlHit
    <2>2. Traced'
      BY <1>7, <1>types, <2>f DEF IInv, TypeOK, Traced, CachesProven, KeyOf, SqlHit
    <2>3. Accepted'
      BY <1>7, <1>types, <2>f DEF IInv, TypeOK, Traced, Accepted, AcceptedAt, SqlHit
    <2>4. CachesProven'
      BY <1>7, <1>types, <2>f DEF IInv, TypeOK, Traced, Accepted, AcceptedAt, CachesProven, KeyOf, SqlHit
    <2>5. Rounds'
      BY <1>7, <1>types DEF IInv, TypeOK, Rounds, CachesProven, KeyOf, SqlHit
    <2>6. AnswerSound'
      <3>1. sqlCache[target[t]] \in SqlOf(question[t])
        <4>1. /\ plan[t] \in ProposedFor(question[t])
              /\ target[t] \in Derived(plan[t]) /\ target[t] \in Plan
          BY <1>7, <1>types DEF IInv, Traced, Accepted, AcceptedAt, SqlHit
        <4>2. sqlCache[target[t]] = Compiled[target[t]] /\ Compiled[target[t]] \in Sql
          BY <1>7, <1>types, <4>1 DEF IInv, CachesProven, SqlHit
        <4>3. question[t] \in Question
          BY <1>types DEF TypeOK
        <4> QED BY <4>1, <4>2, <4>3, <1>types, SqlOfIntro
      <3> QED BY <1>7, <1>types, <2>f, <3>1 DEF IInv, TypeOK, AnswerSound, SqlHit
    <2> QED BY <2>1, <2>2, <2>3, <2>4, <2>5, <2>6 DEF IInv
  <1>8. ASSUME NEW t \in Task, Compile(t) PROVE IInv'
    <2>0. UNCHANGED <<config, proposed>>
      BY <1>8 DEF Compile
    <2>f. /\ \A q \in Question : ProposedFor(q)' = ProposedFor(q)
          /\ \A q \in Question : SqlOf(q)' = SqlOf(q)
          /\ \A p \in Plan : Derived(p)' = Derived(p)
      BY <2>0, <1>frame
    <2>1. TypeOK'
      BY <1>8, <1>types DEF TypeOK, Compile
    <2>2. Traced'
      BY <1>8, <1>types, <2>f DEF IInv, TypeOK, Traced, CachesProven, KeyOf, Compile
    <2>3. Accepted'
      BY <1>8, <1>types, <2>f DEF IInv, TypeOK, Traced, Accepted, AcceptedAt, Compile
    <2>4. CachesProven'
      BY <1>8, <1>types, <2>f DEF IInv, TypeOK, Traced, Accepted, AcceptedAt, CachesProven, KeyOf, Compile
    <2>5. Rounds'
      BY <1>8, <1>types DEF IInv, TypeOK, Rounds, CachesProven, KeyOf, Compile
    <2>6. AnswerSound'
      BY <1>8, <1>types, <2>f DEF IInv, TypeOK, AnswerSound, Compile
    <2> QED BY <2>1, <2>2, <2>3, <2>4, <2>5, <2>6 DEF IInv
  <1>9. ASSUME NEW t \in Task, StoreSql(t) PROVE IInv'
    <2>0. UNCHANGED <<config, proposed>>
      BY <1>9 DEF StoreSql
    <2>f. /\ \A q \in Question : ProposedFor(q)' = ProposedFor(q)
          /\ \A q \in Question : SqlOf(q)' = SqlOf(q)
          /\ \A p \in Plan : Derived(p)' = Derived(p)
      BY <2>0, <1>frame
    <2>1. TypeOK'
      BY <1>9, <1>types DEF TypeOK, StoreSql
    <2>2. Traced'
      BY <1>9, <1>types, <2>f DEF IInv, TypeOK, Traced, CachesProven, KeyOf, StoreSql
    <2>3. Accepted'
      BY <1>9, <1>types, <2>f DEF IInv, TypeOK, Traced, Accepted, AcceptedAt, StoreSql
    <2>4. CachesProven'
      BY <1>9, <1>types, <2>f DEF IInv, TypeOK, Traced, Accepted, AcceptedAt, CachesProven, KeyOf, StoreSql
    <2>5. Rounds'
      BY <1>9, <1>types DEF IInv, TypeOK, Rounds, CachesProven, KeyOf, StoreSql
    <2>6. AnswerSound'
      BY <1>9, <1>types, <2>f DEF IInv, TypeOK, AnswerSound, StoreSql
    <2> QED BY <2>1, <2>2, <2>3, <2>4, <2>5, <2>6 DEF IInv
  <1>10. ASSUME NEW t \in Task, StorePlan(t) PROVE IInv'
    <2>0. UNCHANGED <<config, proposed>>
      BY <1>10 DEF StorePlan
    <2>f. /\ \A q \in Question : ProposedFor(q)' = ProposedFor(q)
          /\ \A q \in Question : SqlOf(q)' = SqlOf(q)
          /\ \A p \in Plan : Derived(p)' = Derived(p)
      BY <2>0, <1>frame
    <2>1. TypeOK'
      <3>1. answer' \in [Task -> Sql \cup {NoSql}]
        BY <1>10, <1>types DEF TypeOK, StorePlan
      <3>2. llmCache' \in [Key -> Plan \cup {NoPlan}]
        BY <1>10, <1>types DEF TypeOK, KeyOf, StorePlan
      <3> QED BY <1>10, <1>types, <3>1, <3>2 DEF TypeOK, StorePlan
    <2>2. Traced'
      BY <1>10, <1>types, <2>f DEF IInv, TypeOK, Traced, CachesProven, KeyOf, StorePlan
    <2>3. Accepted'
      BY <1>10, <1>types, <2>f DEF IInv, TypeOK, Traced, Accepted, AcceptedAt, StorePlan
    <2>4. CachesProven'
      <3>1. plan[t] \in ProposedFor(question[t]) /\ Validated[plan[t]] # {}
        BY <1>10 DEF IInv, Traced, Accepted, AcceptedAt, StorePlan, Derived
      <3>2. \A q \in Question : Lower[q] = Lower[question[t]] =>
               plan[t] \in ProposedFor(q)
        BY <3>1 DEF ProposedFor
      <3>3. \A q \in Question : llmCache'[Lower[q]] =
               IF Lower[q] = Lower[question[t]] THEN plan[t] ELSE llmCache[Lower[q]]
        BY <1>10, <1>types DEF TypeOK, KeyOf, StorePlan
      <3>4. UNCHANGED sqlCache
        BY <1>10 DEF StorePlan
      <3> QED BY <3>1, <3>2, <3>3, <3>4, <2>f DEF IInv, CachesProven
    <2>5. Rounds'
      BY <1>10, <1>types DEF IInv, TypeOK, Rounds, CachesProven, KeyOf, StorePlan
    <2>6. AnswerSound'
      <3>1. Compiled[target[t]] \in SqlOf(question[t])
        <4>1. /\ plan[t] \in ProposedFor(question[t])
              /\ target[t] \in Derived(plan[t]) /\ Compiled[target[t]] # NoSql
          BY <1>10 DEF IInv, Traced, Accepted, AcceptedAt, StorePlan
        <4>2. Compiled[target[t]] \in Sql /\ question[t] \in Question
          BY <1>10, <1>types, <4>1 DEF TypeOK, StorePlan
        <4> QED BY <4>1, <4>2, <1>types, SqlOfIntro
      <3> QED BY <1>10, <1>types, <2>f, <3>1 DEF IInv, TypeOK, AnswerSound, StorePlan
    <2> QED BY <2>1, <2>2, <2>3, <2>4, <2>5, <2>6 DEF IInv
  <1>11. ASSUME NEW t \in Task, Cancel(t) PROVE IInv'
    <2>0. UNCHANGED <<config, proposed>>
      BY <1>11 DEF Cancel
    <2>f. /\ \A q \in Question : ProposedFor(q)' = ProposedFor(q)
          /\ \A q \in Question : SqlOf(q)' = SqlOf(q)
          /\ \A p \in Plan : Derived(p)' = Derived(p)
      BY <2>0, <1>frame
    <2>1. TypeOK'
      BY <1>11, <1>types DEF TypeOK, Cancel
    <2>2. Traced'
      BY <1>11, <1>types, <2>f DEF IInv, TypeOK, Traced, CachesProven, KeyOf, Cancel
    <2>3. Accepted'
      BY <1>11, <1>types, <2>f DEF IInv, TypeOK, Traced, Accepted, AcceptedAt, Cancel
    <2>4. CachesProven'
      BY <1>11, <1>types, <2>f DEF IInv, TypeOK, Traced, Accepted, AcceptedAt, CachesProven, KeyOf, Cancel
    <2>5. Rounds'
      BY <1>11, <1>types DEF IInv, TypeOK, Rounds, CachesProven, KeyOf, Cancel
    <2>6. AnswerSound'
      BY <1>11, <1>types, <2>f DEF IInv, TypeOK, AnswerSound, Cancel
    <2> QED BY <2>1, <2>2, <2>3, <2>4, <2>5, <2>6 DEF IInv
  <1>12. ASSUME NEW k \in Key, EvictPlan(k) PROVE IInv'
    <2>0. UNCHANGED <<config, proposed>>
      BY <1>12 DEF EvictPlan
    <2>f. /\ \A q \in Question : ProposedFor(q)' = ProposedFor(q)
          /\ \A q \in Question : SqlOf(q)' = SqlOf(q)
          /\ \A p \in Plan : Derived(p)' = Derived(p)
      BY <2>0, <1>frame
    <2>1. TypeOK'
      BY <1>12, <1>types DEF TypeOK, EvictPlan
    <2>2. Traced'
      BY <1>12, <1>types, <2>f DEF IInv, TypeOK, Traced, CachesProven, KeyOf, EvictPlan
    <2>3. Accepted'
      BY <1>12, <1>types, <2>f DEF IInv, TypeOK, Traced, Accepted, AcceptedAt, EvictPlan
    <2>4. CachesProven'
      BY <1>12, <1>types, <2>f DEF IInv, TypeOK, Traced, Accepted, AcceptedAt, CachesProven, KeyOf, EvictPlan
    <2>5. Rounds'
      BY <1>12, <1>types DEF IInv, TypeOK, Rounds, CachesProven, KeyOf, EvictPlan
    <2>6. AnswerSound'
      BY <1>12, <1>types, <2>f DEF IInv, TypeOK, AnswerSound, EvictPlan
    <2> QED BY <2>1, <2>2, <2>3, <2>4, <2>5, <2>6 DEF IInv
  <1>13. ASSUME NEW p \in Plan, EvictSql(p) PROVE IInv'
    <2>0. UNCHANGED <<config, proposed>>
      BY <1>13 DEF EvictSql
    <2>f. /\ \A q \in Question : ProposedFor(q)' = ProposedFor(q)
          /\ \A q \in Question : SqlOf(q)' = SqlOf(q)
          /\ \A o \in Plan : Derived(o)' = Derived(o)
      BY <2>0, <1>frame
    <2>1. TypeOK'
      BY <1>13, <1>types DEF TypeOK, EvictSql
    <2>2. Traced'
      BY <1>13, <1>types, <2>f DEF IInv, TypeOK, Traced, CachesProven, KeyOf, EvictSql
    <2>3. Accepted'
      BY <1>13, <1>types, <2>f DEF IInv, TypeOK, Traced, Accepted, AcceptedAt, EvictSql
    <2>4. CachesProven'
      BY <1>13, <1>types, <2>f DEF IInv, TypeOK, Traced, Accepted, AcceptedAt, CachesProven, KeyOf, EvictSql
    <2>5. Rounds'
      BY <1>13, <1>types DEF IInv, TypeOK, Rounds, CachesProven, KeyOf, EvictSql
    <2>6. AnswerSound'
      BY <1>13, <1>types, <2>f DEF IInv, TypeOK, AnswerSound, EvictSql
    <2> QED BY <2>1, <2>2, <2>3, <2>4, <2>5, <2>6 DEF IInv
  <1>14. ASSUME NEW p \in Plan, InvalidateCompiled(p) PROVE IInv'
    <2>0. UNCHANGED <<config, proposed>>
      BY <1>14 DEF InvalidateCompiled
    <2>f. /\ \A q \in Question : ProposedFor(q)' = ProposedFor(q)
          /\ \A q \in Question : SqlOf(q)' = SqlOf(q)
          /\ \A o \in Plan : Derived(o)' = Derived(o)
      BY <2>0, <1>frame
    <2>1. TypeOK'
      BY <1>14, <1>types DEF TypeOK, InvalidateCompiled
    <2>2. Traced'
      BY <1>14, <1>types, <2>f DEF IInv, TypeOK, Traced, CachesProven, KeyOf, InvalidateCompiled
    <2>3. Accepted'
      BY <1>14, <1>types, <2>f DEF IInv, TypeOK, Traced, Accepted, AcceptedAt, InvalidateCompiled
    <2>4. CachesProven'
      BY <1>14, <1>types, <2>f DEF IInv, TypeOK, Traced, Accepted, AcceptedAt, CachesProven, KeyOf, InvalidateCompiled
    <2>5. Rounds'
      BY <1>14, <1>types DEF IInv, TypeOK, Rounds, CachesProven, KeyOf, InvalidateCompiled
    <2>6. AnswerSound'
      BY <1>14, <1>types, <2>f DEF IInv, TypeOK, AnswerSound, InvalidateCompiled
    <2> QED BY <2>1, <2>2, <2>3, <2>4, <2>5, <2>6 DEF IInv
  <1>15. ASSUME ClearAllCaches PROVE IInv'
    <2>0. UNCHANGED <<config, proposed>>
      BY <1>15 DEF ClearAllCaches
    <2>f. /\ \A q \in Question : ProposedFor(q)' = ProposedFor(q)
          /\ \A q \in Question : SqlOf(q)' = SqlOf(q)
          /\ \A p \in Plan : Derived(p)' = Derived(p)
      BY <2>0, <1>frame
    <2>1. TypeOK'
      BY <1>15, <1>types DEF TypeOK, ClearAllCaches
    <2>2. Traced'
      BY <1>15, <1>types, <2>f DEF IInv, TypeOK, Traced, CachesProven, KeyOf, ClearAllCaches
    <2>3. Accepted'
      BY <1>15, <1>types, <2>f DEF IInv, TypeOK, Traced, Accepted, AcceptedAt, ClearAllCaches
    <2>4. CachesProven'
      BY <1>15, <1>types, <2>f DEF IInv, TypeOK, Traced, Accepted, AcceptedAt, CachesProven, KeyOf, ClearAllCaches
    <2>5. Rounds'
      BY <1>15, <1>types DEF IInv, TypeOK, Rounds, CachesProven, KeyOf, ClearAllCaches
    <2>6. AnswerSound'
      BY <1>15, <1>types, <2>f DEF IInv, TypeOK, AnswerSound, ClearAllCaches
    <2> QED BY <2>1, <2>2, <2>3, <2>4, <2>5, <2>6 DEF IInv
  <1>16. ASSUME NEW t \in Task, NEW p \in Proposals, Propose(t, p) PROVE IInv'
    <2>0. p \in Plan
      OBVIOUS
    <2>f. /\ \A q \in Question : ProposedFor(q) \subseteq ProposedFor(q)'
          /\ \A q \in Question : SqlOf(q) \subseteq SqlOf(q)'
          /\ \A r \in Plan : Derived(r)' = Derived(r)
      <3>1. config' = config
        BY <1>16 DEF Propose
      <3>2. proposed' = [proposed EXCEPT ![question[t]] = @ \cup {p}]
        BY <1>16 DEF Propose
      <3>3. \A r \in Plan : Derived(r)' = Derived(r)
        BY <3>1 DEF Derived
      <3> QED BY <3>1, <3>2, <3>3, <2>0, <1>types, ProposalsGrow
    <2>g. p \in ProposedFor(question[t])'
      BY <1>16, <1>types DEF Propose, ProposedFor, TypeOK
    <2>1. TypeOK'
      BY <1>16, <1>types, <2>0 DEF TypeOK, Propose
    <2>2. Traced'
      BY <1>16, <1>types, <2>f, <2>g DEF IInv, TypeOK, Traced, Propose
    <2>3. Accepted'
      BY <1>16, <1>types, <2>f DEF IInv, TypeOK, Traced, Accepted, AcceptedAt, Propose
    <2>4. CachesProven'
      BY <1>16, <1>types, <2>f DEF IInv, TypeOK, CachesProven, Propose
    <2>5. Rounds'
      BY <1>16, <1>types DEF IInv, TypeOK, Rounds, Propose
    <2>6. AnswerSound'
      BY <1>16, <1>types, <2>f DEF IInv, TypeOK, AnswerSound, Propose
    <2> QED BY <2>1, <2>2, <2>3, <2>4, <2>5, <2>6 DEF IInv
  <1>17. CASE UNCHANGED vars
    BY <1>17 DEF IInv, TypeOK, Traced, Accepted, AcceptedAt, CachesProven, Rounds, AnswerSound,
                  ProposedFor, SqlOf, Derived, vars
  <1> QED BY <1>1, <1>2, <1>3, <1>4, <1>5, <1>6, <1>7, <1>8, <1>9, <1>10, <1>11, <1>12, <1>13, <1>14, <1>15, <1>16, <1>17 DEF Next, Step

\* The invariant holds throughout every behaviour of query's callers.
THEOREM Invariant == Spec => []IInv
  BY InitIInv, NextIInv, PTL DEF Spec

\* The facade's state keeps its types: in particular no call ever indexes a
\* cache with a plan it does not have.
THEOREM TypeCorrect == Spec => []TypeOK
  BY Invariant, PTL DEF IInv

\* query never answers with SQL of another question, or of a plan that did
\* not pass validation, the optimizer's policy re-check and the compiler.
THEOREM AnswersAreSound == Spec => []AnswerSound
  BY Invariant, PTL DEF IInv

\* A call served from the LLM cache with a plan whose repairs are all judged
\* alike never asks the LLM.
THEOREM HitsAskNobody == Spec => []CacheHitAsksNobody
  <1>1. IInv => CacheHitAsksNobody
    BY DEF IInv, Rounds, CacheHitAsksNobody
  <1> QED BY <1>1, Invariant, PTL

\* No call sends more than MaxRetries + 1 requests to the LLM.
THEOREM BudgetHolds == Spec => []CallBudget
  <1>1. IInv => CallBudget
    <2> SUFFICES ASSUME IInv, NEW t \in Task
                 PROVE  calls[t] + (IF pc[t] = "generate" THEN 1 ELSE 0) <= MaxRetries + 1
      BY DEF CallBudget
    <2>1. calls[t] \in Nat /\ attempt[t] \in 0..MaxRetries
      BY DEF IInv, TypeOK
    <2>2. calls[t] <= attempt[t] + 1 /\ (pc[t] = "generate" => calls[t] <= attempt[t])
      BY DEF IInv, Rounds
    <2> QED BY <2>1, <2>2, ConstantsAssumption
  <1> QED BY <1>1, Invariant, PTL

-----------------------------------------------------------------------------
\* The gauge: a step adds a call to those in flight only together with an
\* increment, and decrements only together with the end of a running call.
LEMMA GaugeStep ==
    ASSUME TypeOK, GaugeNeverUndercounts, [Next]_vars
    PROVE  GaugeNeverUndercounts'
  <1> USE DEF InFlight, Running, Awaiting, Finished
  <1>1. IsFiniteSet(InFlight) /\ Cardinality(InFlight) \in Nat
    BY TaskAssumption, FS_Subset, FS_CardinalityType
  <1>2. active \in Int /\ Cardinality(InFlight) <= active
    BY DEF TypeOK, GaugeNeverUndercounts
  <1>3. ASSUME NEW t \in Task, Start(t), config.client PROVE GaugeNeverUndercounts'
    <2>1. InFlight' = InFlight \cup {t} /\ active' = active + 1 /\ t \notin InFlight
      BY <1>3 DEF Start, TypeOK
    <2>2. Cardinality(InFlight') = Cardinality(InFlight) + 1
      BY <2>1, <1>1, FS_AddElement
    <2> QED BY <2>1, <2>2, <1>1, <1>2 DEF GaugeNeverUndercounts
  <1>4. ASSUME NEW t \in Task, StorePlan(t) PROVE GaugeNeverUndercounts'
    <2>1. InFlight' = InFlight \ {t} /\ active' = active - 1 /\ t \in InFlight
      BY <1>4 DEF StorePlan, TypeOK
    <2>2. Cardinality(InFlight') = Cardinality(InFlight) - 1
      BY <2>1, <1>1, FS_RemoveElement
    <2> QED BY <2>1, <2>2, <1>1, <1>2 DEF GaugeNeverUndercounts
  <1>5. ASSUME InFlight' \subseteq InFlight, active' = active
        PROVE  GaugeNeverUndercounts'
    <2>1. Cardinality(InFlight') <= Cardinality(InFlight) /\ Cardinality(InFlight') \in Nat
      BY <1>1, <1>5, FS_Subset, FS_CardinalityType
    <2> QED BY <2>1, <1>1, <1>2, <1>5 DEF GaugeNeverUndercounts
  <1>6. ASSUME NEW t \in Task, Start(t), ~config.client
        PROVE  InFlight' \subseteq InFlight /\ active' = active
    BY <1>6 DEF Start, TypeOK
  <1>7. ASSUME NEW t \in Task,
               \/ LookupPlan(t)
               \/ \E p \in Proposals : Propose(t, p)
               \/ \E retryable \in BOOLEAN : LlmFails(t, retryable)
               \/ Validate(t)
        PROVE  InFlight' \subseteq InFlight /\ active' = active
    BY <1>7 DEF TypeOK, LookupPlan, Propose, LlmFails, Validate
  <1>8. ASSUME NEW t \in Task,
               \/ \E o \in Plan : Optimize(t, o)
               \/ OptimizerFails(t) \/ SqlHit(t) \/ Compile(t)
               \/ StoreSql(t) \/ Cancel(t)
        PROVE  InFlight' \subseteq InFlight /\ active' = active
    BY <1>8 DEF TypeOK, Optimize, OptimizerFails, SqlHit, Compile, StoreSql, Cancel
  <1>9. ASSUME \/ \E k \in Key : EvictPlan(k)
               \/ \E p \in Plan : EvictSql(p) \/ InvalidateCompiled(p)
               \/ ClearAllCaches
               \/ UNCHANGED vars
        PROVE  InFlight' \subseteq InFlight /\ active' = active
    BY <1>9 DEF EvictPlan, EvictSql, InvalidateCompiled, ClearAllCaches, taskState, vars
  <1> QED BY <1>3, <1>4, <1>5, <1>6, <1>7, <1>8, <1>9 DEF Next, Step

\* The active_queries gauge never shows fewer calls than are running.
THEOREM GaugeIsUpperBound == Spec => []GaugeNeverUndercounts
  <1>1. Init => GaugeNeverUndercounts
    <2> SUFFICES ASSUME Init PROVE GaugeNeverUndercounts
      OBVIOUS
    <2>1. InFlight = {} /\ active = 0
      BY DEF Init, InFlight, Running, Awaiting
    <2> QED BY <2>1, FS_EmptySet DEF GaugeNeverUndercounts
  <1>2. TypeOK /\ GaugeNeverUndercounts /\ [Next]_vars => GaugeNeverUndercounts'
    BY GaugeStep
  <1> QED BY <1>1, <1>2, TypeCorrect, PTL DEF Spec

-----------------------------------------------------------------------------
\* The facade's first state is one of the service's.
LEMMA InitRefines == Init => Service!Init
  <1> SUFFICES ASSUME Init PROVE Service!Init
    OBVIOUS
  <1>1. \A q \in Question : SqlOf(q) = {}
    BY DEF Init, SqlOf, ProposedFor
  <1>2. [t \in Task |-> StatusOf(t)] = [t \in Task |-> "idle"]
    BY DEF Init, StatusOf, Running, Awaiting
  <1> QED BY <1>1, <1>2 DEF Init, Service!Init

\* Every step of the facade begins, answers or fails one call, justifies
\* more SQL, or is invisible to the callers.
LEMMA StepRefines ==
    ASSUME IInv, IInv', [Next]_vars
    PROVE  [Service!Next]_(Service!serviceVars)
  <1> USE DEF Service!serviceVars, Running, Awaiting, Finished, Pc, shared, taskState
  <1>types. pc \in [Task -> Pc] /\ pc' \in [Task -> Pc] /\ TypeOK
    BY DEF IInv, TypeOK
  <1>frame. ASSUME UNCHANGED <<config, proposed>>
            PROVE  [q \in Question |-> SqlOf(q)]' = [q \in Question |-> SqlOf(q)]
    BY <1>frame DEF SqlOf, ProposedFor, Derived
  <1>same. ASSUME UNCHANGED <<config, question, answer, proposed>>,
                  \A u \in Task : StatusOf(u)' = StatusOf(u)
           PROVE  UNCHANGED Service!serviceVars
    BY <1>frame, <1>same
  <1>fails. ASSUME NEW t \in Task, UNCHANGED <<config, question, answer, proposed>>,
                   pc[t] \in {"idle"} \cup Running, pc' = [pc EXCEPT ![t] = "failed"]
                                           \/ pc' = [pc EXCEPT ![t] = "cancelled"]
            PROVE  Service!Next
    <2>1. [u \in Task |-> StatusOf(u)]'
             = [[u \in Task |-> StatusOf(u)] EXCEPT ![t] = "failed"]
      BY <1>fails, <1>types DEF StatusOf
    <2>2. StatusOf(t) \in {"idle", "running"}
      BY <1>fails DEF StatusOf
    <2>3. Service!Fail(t)
      BY <2>1, <2>2, <1>fails, <1>frame DEF Service!Fail
    <2> QED BY <2>3 DEF Service!Next
  <1>runs. ASSUME NEW t \in Task, UNCHANGED <<config, question, answer, proposed>>,
                  pc[t] \in Running, pc'[t] \in Running,
                  \A u \in Task \ {t} : pc'[u] = pc[u]
           PROVE  UNCHANGED Service!serviceVars
    <2>1. \A u \in Task : StatusOf(u)' = StatusOf(u)
      BY <1>runs DEF StatusOf
    <2> QED BY <2>1, <1>runs, <1>same
  <1>answers. ASSUME NEW t \in Task, NEW s \in Sql,
                     UNCHANGED <<config, question, proposed>>,
                     pc[t] \in Running, pc' = [pc EXCEPT ![t] = "answered"],
                     answer' = [answer EXCEPT ![t] = s]
              PROVE  Service!Next
    <2>1. [u \in Task |-> StatusOf(u)]'
             = [[u \in Task |-> StatusOf(u)] EXCEPT ![t] = "answered"]
      BY <1>answers, <1>types DEF StatusOf
    <2>2. StatusOf(t) = "running"
      BY <1>answers DEF StatusOf
    <2>3. s \in SqlOf(question[t])
      <3>1. s \in SqlOf(question[t])'
        BY <1>answers, <1>types DEF IInv, AnswerSound, TypeOK
      <3>2. question[t] \in Question
        BY <1>types DEF TypeOK
      <3> QED BY <3>1, <3>2, <1>answers DEF SqlOf, ProposedFor, Derived
    <2>4. question[t] \in Question
      BY <1>types DEF TypeOK
    <2>5. Service!Answer(t, s)
      BY <2>1, <2>2, <2>3, <2>4, <1>answers, <1>frame DEF Service!Answer
    <2> QED BY <2>5 DEF Service!Next
  <1>1. ASSUME NEW t \in Task, Start(t) PROVE Service!Next
    <2>1. CASE config.client
      <3>1. [u \in Task |-> StatusOf(u)]'
               = [[u \in Task |-> StatusOf(u)] EXCEPT ![t] = "running"]
        BY <1>1, <2>1, <1>types DEF Start, StatusOf
      <3>2. Service!Begin(t)
        BY <1>1, <3>1, <1>frame DEF Start, StatusOf, Service!Begin
      <3> QED BY <3>2 DEF Service!Next
    <2>2. CASE ~config.client
      BY <1>1, <2>2, <1>fails DEF Start
    <2> QED BY <2>1, <2>2
  <1>2. ASSUME NEW t \in Task, NEW p \in Proposals, Propose(t, p) PROVE Service!Next
    <2>1. [u \in Task |-> StatusOf(u)]' = [u \in Task |-> StatusOf(u)]
      BY <1>2, <1>types DEF Propose, StatusOf
    <2>2. \A q \in Question : SqlOf(q) \subseteq SqlOf(q)'
      <3>1. p \in Plan
        BY ConstantsAssumption
      <3> QED BY <1>2, <3>1, <1>types, ProposalsGrow DEF Propose
    <2>3. \A q \in Question : SqlOf(q)' \subseteq Sql
      BY DEF SqlOf
    <2>4. Service!Learn
      BY <1>2, <2>1, <2>2, <2>3 DEF Propose, Service!Learn
    <2> QED BY <2>4 DEF Service!Next
  <1>3. ASSUME NEW t \in Task, LookupPlan(t) \/ StoreSql(t) \/ Compile(t) \/ Validate(t)
                                  \/ OptimizerFails(t) \/ Cancel(t)
        PROVE  [Service!Next]_(Service!serviceVars)
    <2>1. UNCHANGED <<config, question, answer, proposed>> /\ pc[t] \in Running
      BY <1>3 DEF LookupPlan, StoreSql, Compile, Validate, OptimizerFails, Cancel
    <2>2. \/ pc' = [pc EXCEPT ![t] = "failed"] \/ pc' = [pc EXCEPT ![t] = "cancelled"]
          \/ pc'[t] \in Running /\ \A u \in Task \ {t} : pc'[u] = pc[u]
      BY <1>3, <1>types DEF LookupPlan, StoreSql, Compile, Validate, OptimizerFails, Cancel
    <2> QED BY <2>1, <2>2, <1>fails, <1>runs
  <1>4. ASSUME NEW t \in Task,
               (\E r \in BOOLEAN : LlmFails(t, r)) \/ (\E o \in Plan : Optimize(t, o))
        PROVE  [Service!Next]_(Service!serviceVars)
    <2>1. UNCHANGED <<config, question, answer, proposed>> /\ pc[t] \in Running
      BY <1>4 DEF LlmFails, Optimize
    <2>2. \/ pc' = [pc EXCEPT ![t] = "failed"]
          \/ pc'[t] \in Running /\ \A u \in Task \ {t} : pc'[u] = pc[u]
      BY <1>4, <1>types DEF LlmFails, Optimize
    <2> QED BY <2>1, <2>2, <1>fails, <1>runs
  <1>5. ASSUME NEW t \in Task, SqlHit(t) PROVE Service!Next
    <2>1. target[t] \in Plan
      <3>1. /\ plan[t] \in ProposedFor(question[t]) /\ question[t] \in Question
            /\ target[t] \in Derived(plan[t])
        BY <1>5, <1>types DEF SqlHit, IInv, Traced, Holding, Accepted, AcceptedAt, TypeOK
      <3> QED BY <3>1, <1>types, ProposedArePlans, DerivedArePlans
    <2>2. sqlCache[target[t]] \in Sql
      BY <1>5, <2>1, <1>types DEF SqlHit, TypeOK
    <2> QED BY <1>5, <2>2, <1>answers DEF SqlHit
  <1>6. ASSUME NEW t \in Task, StorePlan(t) PROVE Service!Next
    <2>1. target[t] \in Plan /\ Compiled[target[t]] # NoSql
      <3>1. /\ plan[t] \in ProposedFor(question[t]) /\ question[t] \in Question
            /\ target[t] \in Derived(plan[t]) /\ Compiled[target[t]] # NoSql
        BY <1>6, <1>types DEF StorePlan, IInv, Traced, Holding, Accepted, AcceptedAt, TypeOK
      <3> QED BY <3>1, <1>types, ProposedArePlans, DerivedArePlans
    <2>2. Compiled[target[t]] \in Sql
      BY <2>1, ConstantsAssumption
    <2> QED BY <1>6, <2>2, <1>answers DEF StorePlan
  <1>7. ASSUME \/ \E k \in Key : EvictPlan(k)
               \/ \E p \in Plan : EvictSql(p) \/ InvalidateCompiled(p)
               \/ ClearAllCaches
               \/ UNCHANGED vars
        PROVE  UNCHANGED Service!serviceVars
    <2>1. UNCHANGED <<config, question, answer, proposed, pc>>
      BY <1>7 DEF EvictPlan, EvictSql, InvalidateCompiled, ClearAllCaches, vars
    <2>2. \A u \in Task : StatusOf(u)' = StatusOf(u)
      BY <2>1 DEF StatusOf
    <2> QED BY <2>1, <2>2, <1>same
  <1> QED BY <1>1, <1>2, <1>3, <1>4, <1>5, <1>6, <1>7 DEF Next, Step

\* The facade implements the service: with all its caches, retries and
\* interleavings, a caller sees calls that end at most once, each with a
\* failure or with justified SQL.
THEOREM FacadeImplementsService == Spec => ImplementsService
  <1>1. IInv /\ IInv' /\ [Next]_vars => [Service!Next]_(Service!serviceVars)
    BY StepRefines
  <1> QED BY InitRefines, <1>1, Invariant, PTL DEF Spec, ImplementsService, Service!Spec
=============================================================================
