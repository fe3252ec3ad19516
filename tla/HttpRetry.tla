----------------------------- MODULE HttpRetry -----------------------------
(***************************************************************************)
(* The request phase of one call of an LLM client (vlorql-llm): generate,  *)
(* with its retries (RetryableHttpClient::generate_with_retry, and the     *)
(* loop of LocalClient::generate_plan, which may fall back once to a       *)
(* weaker response format), and stream, one request whose response is then *)
(* read by SseStream.                                                      *)
(*                                                                         *)
(* A response is known here by its class: "ok" and parseable, "garbled"    *)
(* (a success status whose body is no plan), "busy" (429 or 5xx),          *)
(* "rejected" (400, 415, 422), "refused" (any other status), "stalled" and *)
(* "cut" (whatever the status, the body timed out or broke off while it    *)
(* was read) and "lost" (no response: connection error or timeout).        *)
(***************************************************************************)
EXTENDS Naturals, Sequences

CONSTANTS
    MaxRetriesConfigs   \* values of LlmConfig::max_retries

ASSUME RequestAssumption == MaxRetriesConfigs \subseteq Nat

Clients == {"hosted", "vllm", "ollama"}
Classes == {"ok", "garbled", "busy", "rejected", "refused", "stalled", "cut", "lost"}

\* text() fails: transport_error makes a Timeout or a status 0 of it.
Unreadable == {"stalled", "cut"}

VARIABLES
    client,     \* which client is called
    mode,       \* "generate" or "stream"
    budget,     \* max_attempts()
    tries,      \* attempt of the retry loop
    fellBack,   \* fallback_used: is the weaker body to be sent?
    sent,       \* the requests sent: their `fellBack`
    answers,    \* the class of each response
    phase,      \* "sending", "waiting", "sleeping", "streaming", "answered", "failed"
    reported    \* the class the caller is told when the call failed

call == <<client, mode, budget>>
request == <<client, mode, budget, tries, fellBack, sent, answers, phase, reported>>

AtLeastOne(n) == IF n = 0 THEN 1 ELSE n

RequestInit ==
    /\ client \in Clients
    /\ mode \in {"generate", "stream"}
    /\ budget \in {AtLeastOne(n) : n \in MaxRetriesConfigs}
    /\ tries = 0 /\ fellBack = FALSE
    /\ sent = <<>> /\ answers = <<>>
    /\ phase = "sending" /\ reported = "none"

\* Mutation: a connection error (status 0) is taken for a final answer.
RetryableForgetsLost == {"busy"}

\* Mutation: every error status is worth a retry.
RetryableRefused == {"busy", "lost", "refused"}

\* is_retryable, of the failures that the loop asks it about.
Retryable == {"busy", "lost"}

Send ==
    /\ phase = "sending"
    /\ sent' = Append(sent, fellBack)
    /\ phase' = "waiting"
    /\ UNCHANGED <<call, tries, fellBack, answers, reported>>

Receive(class) ==
    /\ phase = "waiting"
    /\ answers' = Append(answers, class)

Fail(class) ==
    /\ phase' = "failed"
    /\ reported' = class
    /\ UNCHANGED <<tries, fellBack>>

Answered ==
    /\ mode = "generate"
    /\ Receive("ok")
    /\ phase' = "answered"
    /\ UNCHANGED <<call, tries, fellBack, sent, reported>>

\* An unreadable body and an unparseable plan end the call at once: the ? on
\* text() returns before is_retryable is asked.
Unusable ==
    /\ mode = "generate"
    /\ \E class \in {"garbled"} \cup Unreadable : Receive(class) /\ Fail(class)
    /\ UNCHANGED <<call, sent>>

\* The engine rejects the schema: a local client drops it, once, and spends
\* an attempt on that.  The loop ends after its last attempt all the same.
FallsBack(class) == client # "hosted" /\ ~fellBack /\ class = "rejected"

FallBack ==
    /\ mode = "generate"
    /\ \E class \in Classes :
          /\ FallsBack(class)
          /\ Receive(class)
          /\ fellBack' = TRUE
          /\ IF tries + 1 < budget
             THEN tries' = tries + 1 /\ phase' = "sending" /\ UNCHANGED reported
             ELSE phase' = "failed" /\ reported' = class /\ UNCHANGED tries
    /\ UNCHANGED <<call, sent>>

\* Any other failure: a transient one is retried after a pause.
RetryOrFail ==
    /\ mode = "generate"
    /\ \E class \in Classes \ ({"ok", "garbled"} \cup Unreadable) :
          /\ ~FallsBack(class)
          /\ Receive(class)
          /\ IF class \in Retryable /\ tries + 1 < budget
             THEN tries' = tries + 1 /\ phase' = "sleeping" /\ UNCHANGED <<fellBack, reported>>
             ELSE Fail(class)
    /\ UNCHANGED <<call, sent>>

\* sleep(retry_backoff(..)) is over.
WakeUp ==
    /\ phase = "sleeping"
    /\ phase' = "sending"
    /\ UNCHANGED <<call, tries, fellBack, sent, answers, reported>>

\* stream_plan: one request, no retry and no fallback.  The body of a
\* refusal that cannot be read counts as empty.
StreamAnswered ==
    /\ mode = "stream"
    /\ \/ /\ Receive("ok")
          /\ phase' = "streaming"
          /\ UNCHANGED <<tries, fellBack, reported>>
       \/ \E class \in {"busy", "rejected", "refused", "lost"} :
             Receive(class) /\ Fail(class)
    /\ UNCHANGED <<call, sent>>

RequestNext ==
    \/ Send
    \/ Answered \/ Unusable \/ FallBack \/ RetryOrFail \/ StreamAnswered
    \/ WakeUp

\* Sends, sleeps and the client's timeout need nobody else.
RequestFairness == WF_request(RequestNext)
-----------------------------------------------------------------------------
\* The failures that is_retryable would call transient.
Transient == {"busy", "lost"} \cup Unreadable

\* A request is sent only after a response that called for it: a transient
\* failure, or the one rejection of the schema by a local engine, after which
\* the schema is never asked for again; and never beyond the budget.  What was
\* refused or unparseable is never asked for a second time.
RequestsAreJustified ==
    /\ Len(sent) <= budget
    /\ \A i \in 2..Len(sent) :
          \/ answers[i - 1] \in Transient /\ sent[i] = sent[i - 1]
          \/ answers[i - 1] = "rejected" /\ ~sent[i - 1] /\ sent[i] /\ client # "hosted"

\* The caller of a failed call is told about the last response, and generate
\* gives up on a transient failure only when the whole budget is spent on it
\* or the response had begun to arrive (TimeoutsAreRetried).
FailureIsTheLastOne ==
    phase = "failed" =>
        /\ reported = answers[Len(answers)]
        /\ reported \in Transient \ Unreadable /\ mode = "generate" => Len(sent) = budget

\* "The HTTP clients retry on transient failures (5xx, 429, timeouts)" (lib.rs).
\* Not so: a timeout while the body is read is returned with attempts left.
TimeoutsAreRetried ==
    phase = "failed" /\ mode = "generate" /\ reported = "stalled" => Len(sent) = budget
=============================================================================
