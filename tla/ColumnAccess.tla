---------------------------- MODULE ColumnAccess ----------------------------
(***************************************************************************)
(* vlorql-core/src/policy/engine.rs: which columns of a table a policy     *)
(* lets a plan read.  A policy is                                          *)
(*                                                                         *)
(*   [tables : table -> [allowed : BOOLEAN, only : set of columns or {All},*)
(*                       denied : set of columns, filter : predicate],     *)
(*    global : set of <<column>> or <<table, column>>, denied everywhere,  *)
(*    filters : Seq(predicate)]                                            *)
(***************************************************************************)

All == "*"

\* is_globally_denied
GloballyDenied(policy, table, column) ==
    {<<column>>, <<table, column>>} \cap policy.global # {}

\* column_denial_reason, with "" for none.
DenialReason(policy, table, column) ==
    IF GloballyDenied(policy, table, column) THEN "global"
    ELSE IF table \notin DOMAIN policy.tables \/ ~policy.tables[table].allowed THEN ""
    ELSE IF column \in policy.tables[table].denied THEN "denied"
    ELSE IF {All, column} \cap policy.tables[table].only = {} THEN "not listed"
    ELSE ""
=============================================================================
