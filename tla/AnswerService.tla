--------------------------- MODULE AnswerService ---------------------------
(***************************************************************************)
(* What the facade promises a caller of VlorQl::query, with no caches, no  *)
(* retries and no await points: a call ends at most once, and when it ends *)
(* with an answer, that SQL was obtained from a plan the LLM proposed for  *)
(* this question (up to letter case) which validation, the optimizer and   *)
(* the policy accepted.                                                    *)
(***************************************************************************)
CONSTANTS Task, Question, Sql, NoSql

VARIABLES
    asked,       \* [Task -> Question]
    status,      \* [Task -> {"idle", "running", "answered", "failed"}]
    answer,      \* [Task -> Sql \cup {NoSql}]
    justified    \* [Question -> SUBSET Sql]: SQL that may answer a question

serviceVars == <<asked, status, answer, justified>>

Init ==
    /\ asked \in [Task -> Question]
    /\ status = [t \in Task |-> "idle"]
    /\ answer = [t \in Task |-> NoSql]
    /\ justified = [q \in Question |-> {}]

Begin(t) ==
    /\ status[t] = "idle"
    /\ status' = [status EXCEPT ![t] = "running"]
    /\ UNCHANGED <<asked, answer, justified>>

\* A plan arrives: more SQL is justified, none is taken back.
Learn ==
    /\ justified' \in [Question -> SUBSET Sql]
    /\ \A q \in Question : justified[q] \subseteq justified'[q]
    /\ UNCHANGED <<asked, status, answer>>

Answer(t, s) ==
    /\ status[t] = "running"
    /\ s \in justified[asked[t]]
    /\ status' = [status EXCEPT ![t] = "answered"]
    /\ answer' = [answer EXCEPT ![t] = s]
    /\ UNCHANGED <<asked, justified>>

\* An error, or the caller gave the call up.
Fail(t) ==
    /\ status[t] \in {"idle", "running"}
    /\ status' = [status EXCEPT ![t] = "failed"]
    /\ UNCHANGED <<asked, answer, justified>>

Next ==
    \/ \E t \in Task : Begin(t) \/ Fail(t)
    \/ \E t \in Task, s \in Sql : Answer(t, s)
    \/ Learn

Spec == Init /\ [][Next]_serviceVars
=============================================================================
