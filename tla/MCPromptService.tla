-------------------------- MODULE MCPromptService --------------------------
(***************************************************************************)
(* Facades of a shop without a policy and with one, and one under the key  *)
(* of the latter whose schema gained a column under the old version, with  *)
(* another skill and fewer flags of the dialect; and one of another        *)
(* schema.  All of them write to the one vector collection and to the one  *)
(* prompt cache.                                                           *)
(***************************************************************************)
EXTENDS PromptService, TLC

Col(name, key) == [name |-> name, key |-> key]

Shop == [version |-> "v1", tables |-> <<"users", "orders", "logs">>,
         columns |-> [users |-> <<Col("secret", ""), Col("id", "")>>,
                      orders |-> <<Col("user", "users"), Col("secret", "")>>,
                      logs |-> <<Col("line", "")>>],
         words |-> [users |-> {"user"}, orders |-> {"order"}, logs |-> {"log"}]]
Grown == [Shop EXCEPT !.columns.orders = Append(@, Col("total", ""))]
Bank == [version |-> "", tables |-> <<"accounts">>,
         columns |-> [accounts |-> <<Col("id", "")>>], words |-> [accounts |-> {"account"}]]

Open == [tables |-> <<>>, global |-> {}]
Closed == [tables |-> [orders |-> [allowed |-> TRUE, only |-> {"user", "total"}, denied |-> {}],
                       logs |-> [allowed |-> FALSE, only |-> {All}, denied |-> {}]],
           global |-> {<<"users", "secret">>}]

Facade(snapshot, policy, vector) ==
    [schema |-> snapshot, dialect |-> "pg", features |-> {"ctes"}, policy |-> policy,
     skill |-> NoSkill, examples |-> TRUE, vector |-> vector, indexer |-> TRUE]

Plain(facade) ==
    [facade EXCEPT !.features = {}, !.skill = [NoSkill EXCEPT !.instructions = <<"be brief">>]]

FacadeList == <<Facade(Shop, Open, TRUE), Facade(Shop, Closed, TRUE),
                Plain(Facade(Grown, Closed, TRUE)), Facade(Bank, Open, FALSE)>>
MCFacades == ToSet(FacadeList)
MCQuestions == {{"order"}, {"weather"}}

\* Calls are alike: of two that ask two facades, either may be the first.
CONSTANTS c1, c2
Position(c) == CHOOSE i \in DOMAIN FacadeList : FacadeList[i] = FacadeOf(c)
MCInit == Init /\ Position(c1) <= Position(c2)
MCSpec == MCInit /\ [][Next]_vars /\ \A c \in Calls : WF_vars(CallStep(c))
=============================================================================
