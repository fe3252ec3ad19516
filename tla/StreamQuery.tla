---------------------------- MODULE StreamQuery ----------------------------
(***************************************************************************)
(* VlorQl::query_stream: the spawned task run_stream_with_retry, the LLM   *)
(* stream of each of its attempts (a TextStream, which is all it may rely  *)
(* on) and the channel of events to the caller.                            *)
(*                                                                         *)
(* A response of the model is `pieces` text deltas.  Put together they     *)
(* read as the plan `whole`; cut short they may, since the parser repairs  *)
(* truncated JSON, still read as a plan, `cut`.  NoPlan stands for text    *)
(* the parser refuses.                                                     *)
(***************************************************************************)
EXTENDS Naturals, Sequences, FiniteSets

CONSTANTS
    Plan, NoPlan,
    Responses,     \* the responses the model may give
    Repairs,       \* what validate_repairing may make of a plan: a copy it
                   \* keeps to itself, and not always the same one
    Errors,        \* what validation, then the compiler, find wrong with a
                   \* plan as it stands
    MaxRetries

ASSUME StreamQueryAssumption ==
    /\ NoPlan \notin Plan
    /\ Responses \subseteq [pieces : Nat, whole : Plan \cup {NoPlan},
                            cut : Plan \cup {NoPlan}, usage : BOOLEAN]
    /\ Repairs \in [Plan -> SUBSET Plan] /\ \A p \in Plan : Repairs[p] # {}
    /\ Errors \in [Plan -> Seq({"retryable", "fatal"})]
    /\ MaxRetries \in Nat

VARIABLES
    phase,       \* "asking", "reading" or "done"
    attempt,     \* the loop's counter
    response,    \* what the model is saying in this attempt
    delivered, outcome,   \* its TextStream
    buffer,      \* the text put together: of which attempt each piece is
    events,      \* what was sent into the event channel
    receiving    \* is its receiver still there?

llm == <<response, delivered, outcome>>
vars == <<phase, attempt, response, delivered, outcome, buffer,
          events, receiving>>

LLM == INSTANCE TextStream WITH length <- response.pieces

Init ==
    /\ phase = "asking" /\ attempt = 0
    /\ response \in Responses /\ delivered = 0 /\ outcome = "ended"
    /\ buffer = <<>> /\ events = <<>> /\ receiving = TRUE

Event(kind, plan) == [kind |-> kind, plan |-> plan, attempt |-> attempt]

\* event_tx.send(..): without a receiver the event is lost.
Emit(es) == events' = IF receiving THEN events \o es ELSE events

CanRetry(error) == error = "retryable" /\ attempt < MaxRetries

\* Mutation: a failed attempt is not counted.
RetryUncounted == phase' = "asking" /\ UNCHANGED <<attempt, events>>

Retry ==
    /\ attempt' = attempt + 1
    /\ phase' = "asking"
    /\ UNCHANGED events

Conclude(es) == phase' = "done" /\ Emit(es) /\ UNCHANGED attempt

\* A failed request or a broken stream is retried, or its error is the last
\* item of the event stream.
Failed(error) ==
    IF CanRetry(error) THEN Retry ELSE Conclude(<<Event("err", NoPlan)>>)

-----------------------------------------------------------------------------
\* process_assembled_text

Parsed ==
    IF \E i \in 1..Len(buffer) : buffer[i] # attempt THEN NoPlan
    ELSE IF Len(buffer) = response.pieces THEN response.whole
    ELSE IF buffer = <<>> THEN NoPlan ELSE response.cut

\* validation_errors_to_error: several errors become one, which is final.
ErrorOf(plan) ==
    IF Errors[plan] = <<>> THEN "none"
    ELSE IF Len(Errors[plan]) = 1 THEN Errors[plan][1] ELSE "fatal"

\* Text that is no plan is a parse error.
ErrorsOn(text) ==
    IF text = NoPlan THEN {"retryable"} ELSE {ErrorOf(r) : r \in Repairs[text]}

Usage == IF response.usage THEN <<Event("usage", NoPlan)>> ELSE <<>>

\* Mutation: the plan is announced before anything looked at it.
JudgeUnvalidated ==
    IF Parsed # NoPlan THEN Conclude(<<Event("plan", Parsed)>> \o Usage)
    ELSE IF CanRetry("retryable") THEN Retry
    ELSE Conclude(<<Event("error", NoPlan)>> \o Usage)

\* Mutation: every attempt that fails is silently retried, the last one too.
JudgeForgetsLastAttempt ==
    \E error \in ErrorsOn(Parsed) :
        IF CanRetry(error) THEN Retry
        ELSE Conclude(IF error = "none" THEN <<Event("plan", Parsed)>> \o Usage
                      ELSE IF error = "retryable" THEN <<>>
                      ELSE <<Event("error", NoPlan)>> \o Usage)

\* The plan the text reads as is announced, not its repaired copy, if that copy
\* is valid and compiles; token usage follows a verdict.
Judge ==
    \E error \in ErrorsOn(Parsed) :
        IF CanRetry(error) THEN Retry
        ELSE Conclude((IF error = "none" THEN <<Event("plan", Parsed)>>
                       ELSE <<Event("error", NoPlan)>>) \o Usage)

-----------------------------------------------------------------------------
\* Mutation: the text of the failed attempt stays in the buffer.
ConnectKeepsBuffer ==
    /\ phase = "asking"
    /\ \E r \in Responses : response' = r
    /\ delivered' = 0 /\ outcome' = "open"
    /\ phase' = "reading"
    /\ UNCHANGED <<attempt, buffer, events, receiving>>

\* stream_plan returns a stream.
Connect ==
    /\ phase = "asking"
    /\ \E r \in Responses : response' = r
    /\ delivered' = 0 /\ outcome' = "open"
    /\ buffer' = <<>>
    /\ phase' = "reading"
    /\ UNCHANGED <<attempt, events, receiving>>

\* stream_plan fails.
Refuse ==
    /\ phase = "asking"
    /\ \E error \in {"retryable", "fatal"} : Failed(error)
    /\ UNCHANGED <<llm, buffer, receiving>>

\* A text delta; the task returns when nobody listens any more.
Chunk ==
    /\ phase = "reading"
    /\ UNCHANGED response
    /\ LLM!Deliver
    /\ buffer' = Append(buffer, attempt)
    /\ IF receiving
       THEN Emit(<<Event("text", NoPlan)>>) /\ UNCHANGED phase
       ELSE phase' = "done" /\ UNCHANGED events
    /\ UNCHANGED <<attempt, receiving>>

\* The stream ends: the text is parsed, validated and compiled at once.
End ==
    /\ phase = "reading"
    /\ UNCHANGED response
    /\ LLM!Finish /\ outcome' = "ended"
    /\ Judge
    /\ UNCHANGED <<buffer, receiving>>

\* The stream yields an error.
Break ==
    /\ phase = "reading"
    /\ UNCHANGED response
    /\ LLM!Finish /\ outcome' = "failed"
    /\ \E error \in {"retryable", "fatal"} : Failed(error)
    /\ UNCHANGED <<buffer, receiving>>

DropReceiver ==
    /\ receiving /\ phase # "done"
    /\ receiving' = FALSE
    /\ UNCHANGED <<phase, attempt, llm, buffer, events>>

Work == Connect \/ Refuse \/ Chunk \/ End \/ Break

Next == Work \/ DropReceiver

\* The runtime polls the task; LlmCall's CallEnds is why the stream of an
\* attempt comes to its end.
Spec == Init /\ [][Next]_vars /\ WF_vars(Work)
-----------------------------------------------------------------------------
Verdicts == {i \in 1..Len(events) : events[i].kind \in {"plan", "error", "err"}}

\* StreamEvent's documentation: text deltas first, then one verdict, then at
\* most the token usage of the same attempt; a listening caller gets its
\* verdict on the last attempt and never waits for a second one.
OneVerdict ==
    /\ Cardinality(Verdicts) <= 1
    /\ \A i \in Verdicts :
          /\ phase = "done"
          /\ \A j \in 1..i - 1 : events[j].kind = "text"
          /\ events[i].attempt = attempt
          /\ i < Len(events) => /\ Len(events) = i + 1
                                /\ events[i + 1].kind = "usage"
                                /\ events[i + 1].attempt = attempt
                                /\ events[i].kind # "err"
    /\ phase = "done" /\ receiving => Verdicts # {}

\* What the deltas of the last attempt, which are all the caller saw of it,
\* read as.
Reading ==
    IF delivered = response.pieces THEN response.whole
    ELSE IF delivered = 0 THEN NoPlan ELSE response.cut

\* An announced plan was read from the text of its own attempt and of no
\* other, and validation and the compiler accept a repaired copy of it.  The
\* plan itself they may not accept: AnnouncedPlanIsValid.
PlanIsOfItsText ==
    \A i \in Verdicts : events[i].kind = "plan" =>
        /\ events[i].plan = Reading
        /\ \E r \in Repairs[Reading] : Errors[r] = <<>>

\* An error event means that the text of its attempt was not acceptable, and
\* that a single retryable error was not given up before the retries were
\* spent.  Nothing of the attempts before decides it.  Several errors at once
\* are given up at once: RetryableErrorsAreRetried.
ErrorsAreEarned ==
    \A i \in Verdicts : events[i].kind = "error" =>
        IF Reading = NoPlan
        THEN attempt = MaxRetries
        ELSE \E r \in Repairs[Reading] :
                /\ Errors[r] # <<>>
                /\ Errors[r] = <<"retryable">> => attempt = MaxRetries

\* The task ends, however often the model is wrong.
TaskEnds == <>(phase = "done")

\* "The fully assembled, validated QueryPlan" (StreamEvent::PlanComplete).  Not
\* so: what was validated is the repaired copy, which nobody gets to see.
AnnouncedPlanIsValid ==
    \A i \in Verdicts : events[i].kind = "plan" => Errors[events[i].plan] = <<>>

\* "Retryable validation errors trigger automatic retries with feedback (up to
\* max_retries additional attempts)" (query_stream).  Not so: two of them at
\* once end the stream in its first attempt.
RetryableErrorsAreRetried ==
    \A i \in Verdicts :
        /\ events[i].kind = "error" /\ Reading # NoPlan
        /\ \A r \in Repairs[Reading] : \A k \in 1..Len(Errors[r]) : Errors[r][k] = "retryable"
        => attempt = MaxRetries
=============================================================================
