--------------------------- MODULE MCQueryFacade ---------------------------
(***************************************************************************)
(* QueryFacade on a small world.  q1 and Q1 differ in letter case only, so *)
(* they share an LLM cache entry.  Of the plans the LLM may propose, good  *)
(* gains a row filter when validated and may then be reordered into a plan *)
(* the policy refuses; loose may get either of two joins, of which one is  *)
(* refused and the other may be reordered into a plan without SQL in this  *)
(* dialect; wrong never passes.                                            *)
(***************************************************************************)
EXTENDS QueryFacade, TLC

CONSTANTS t1, t2, q1, Q1, q2, k1, k2,
          good, filtered, exposed, loose, odd, wrong, s1, s2, s3

MCTask == {t1, t2}
MCQuestion == {q1, Q1, q2}
MCKey == {k1, k2}
MCLower == (q1 :> k1) @@ (Q1 :> k1) @@ (q2 :> k2)
MCPlan == {good, filtered, exposed, loose, odd, wrong}
MCProposals == {good, loose, wrong}
MCSql == {s1, s2, s3}
MCValidated == [p \in MCPlan |-> CASE p = good -> {filtered}
                                   [] p = wrong -> {}
                                   [] OTHER -> {p}]
MCRejected == [p \in MCPlan |-> CASE p = loose -> {"retryable"}
                                  [] p = wrong -> {"retryable", "fatal"}
                                  [] OTHER -> {}]
MCOptimized == [p \in MCPlan |-> CASE p = filtered -> {filtered, exposed}
                                   [] p = loose -> {loose, odd}
                                   [] OTHER -> {p}]
MCPolicyOk == MCPlan \ {exposed, wrong}
MCCompiled == [p \in MCPlan |-> CASE p = filtered -> s1
                                  [] p = loose -> s2
                                  [] p = exposed -> s3
                                  [] OTHER -> NoSql]
FullConfigs == Config
Symmetry == Permutations(MCTask)
=============================================================================
