--------------------------- MODULE MCStreamQuery ---------------------------
(* good is fine; joined holds a JOIN to a table that does not exist, which   *)
(* repair drops, and loose one for which repair may or may not find a path;  *)
(* wrong has one retryable error, worse two, denied a fatal one.             *)
EXTENDS StreamQuery, TLC

CONSTANTS good, joined, loose, wrong, worse, denied

MCPlan == {good, joined, loose, wrong, worse, denied}
MCRepairs == [p \in MCPlan |-> CASE p = joined -> {good}
                                 [] p = loose -> {good, wrong}
                                 [] OTHER -> {p}]
MCErrors == [p \in MCPlan |-> CASE p = good -> <<>>
                                [] p = worse -> <<"retryable", "retryable">>
                                [] p = denied -> <<"fatal">>
                                [] OTHER -> <<"retryable">>]
MCResponses ==
    {[pieces |-> 2, whole |-> p, cut |-> NoPlan, usage |-> TRUE] : p \in MCPlan}
    \cup {[pieces |-> 2, whole |-> joined, cut |-> good, usage |-> FALSE],
          [pieces |-> 1, whole |-> NoPlan, cut |-> NoPlan, usage |-> FALSE],
          [pieces |-> 0, whole |-> NoPlan, cut |-> NoPlan, usage |-> FALSE]}
=============================================================================
