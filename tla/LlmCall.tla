------------------------------ MODULE LlmCall ------------------------------
(***************************************************************************)
(* One call of an LLM client from end to end: the request phase            *)
(* (HttpRetry) and, when it is stream_plan and the server says yes, the    *)
(* response that the spawned consumer reads (SseStream).                   *)
(***************************************************************************)
EXTENDS SseStream, HttpRetry

ASSUME BudgetAssumption == Budgets = {AtLeastOne(n) : n \in MaxRetriesConfigs}

callVars == <<vars, request>>

\* Ollama's consumer reads NDJSON and has one attempt, the others read SSE.
CallInit ==
    /\ RequestInit
    /\ Init
    /\ format = IF client = "ollama" THEN "ndjson" ELSE "sse"
    /\ format = "sse" => attempts = budget

Streaming == phase = "streaming"

Ask == ~Streaming /\ RequestNext /\ UNCHANGED vars

Read == Streaming /\ Next /\ UNCHANGED request

CallNext == Ask \/ Read

\* Requests are answered or time out, a scheduled consumer is polled, sleeps
\* end and the total timeout fires.  The server owes nothing.
CallFairness ==
    /\ WF_callVars(Ask)
    /\ WF_callVars(Streaming /\ Poll /\ UNCHANGED request)
    /\ WF_callVars(Streaming /\ Resume /\ UNCHANGED request)
    /\ WF_callVars(Streaming /\ Expire /\ UNCHANGED request)

CallSpec == CallInit /\ [][CallNext]_callVars /\ CallFairness
-----------------------------------------------------------------------------
\* The caller is never left waiting: its call is answered or fails, or the
\* task that feeds its stream returns, which closes the channel.  The timeout
\* gets the task out of every park, the lost wake-ups included.
CallEnds == <>(phase \in {"answered", "failed"} \/ (Streaming /\ consumer = "returned"))
=============================================================================
