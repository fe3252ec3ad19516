---------------------------- MODULE LlmCall_proof ----------------------------
(***************************************************************************)
(* Proofs about LlmCall: its request phase, for every budget, and that     *)
(* what a whole call does to the response is what SseStream does, so that  *)
(* what is proved of a stream holds of the stream of a call.               *)
(*                                                                         *)
(* The inductive invariant of the request phase counts requests, responses *)
(* and attempts (CountsInv) and says what calls for the request that is    *)
(* about to be sent (NextInv).                                             *)
(***************************************************************************)
EXTENDS LlmCall, SseStream_proof

Phases == {"sending", "waiting", "sleeping", "streaming", "answered", "failed"}

RequestTypes ==
    /\ client \in Clients /\ mode \in {"generate", "stream"}
    /\ budget \in Nat \ {0} /\ tries \in Nat /\ fellBack \in BOOLEAN
    /\ sent \in Seq(BOOLEAN) /\ answers \in Seq(Classes)
    /\ phase \in Phases /\ reported \in Classes \cup {"none"}

CountsInv ==
    /\ Len(sent) = Len(answers) + (IF phase = "waiting" THEN 1 ELSE 0)
    /\ Len(sent) <= budget
    /\ phase \in {"sending", "waiting", "sleeping"} =>
          /\ Len(answers) = tries /\ tries < budget
          /\ mode = "stream" => tries = 0

\* A request with `weaker` as its format was called for by the response to
\* the i-th.
CalledFor(i, weaker) ==
    \/ answers[i] \in Transient /\ weaker = sent[i]
    \/ answers[i] = "rejected" /\ ~sent[i] /\ weaker /\ client # "hosted"

NextInv ==
    /\ phase = "waiting" => sent[Len(sent)] = fellBack
    /\ phase \in {"sending", "sleeping"} /\ Len(sent) > 0 => CalledFor(Len(sent), fellBack)

RequestInv ==
    RequestTypes /\ CountsInv /\ NextInv /\ RequestsAreJustified /\ FailureIsTheLastOne

-----------------------------------------------------------------------------
(* The request phase.                                                      *)

LEMMA InitRequestInv == RequestInit => RequestInv
  <1> SUFFICES ASSUME RequestInit PROVE RequestInv
    OBVIOUS
  <1> USE DEF RequestInit
  <1>1. budget \in Nat \ {0}
    BY RequestAssumption DEF AtLeastOne
  <1>2. RequestTypes
    <2>1. sent \in Seq(BOOLEAN) /\ answers \in Seq(Classes)
      OBVIOUS
    <2> QED
      BY <1>1, <2>1 DEF RequestTypes, Phases
  <1>3. CountsInv /\ NextInv
    BY <1>1 DEF CountsInv, NextInv
  <1>4. RequestsAreJustified /\ FailureIsTheLastOne
    BY <1>1 DEF RequestsAreJustified, FailureIsTheLastOne
  <1> QED
    BY <1>2, <1>3, <1>4 DEF RequestInv

LEMMA SendRequestInv == RequestInv /\ Send => RequestInv'
  <1> SUFFICES ASSUME RequestInv, Send PROVE RequestInv'
    OBVIOUS
  <1> USE DEF Send, call
  <1>1. RequestTypes /\ CountsInv /\ NextInv /\ RequestsAreJustified
    BY DEF RequestInv
  <1>2. RequestTypes'
    BY <1>1 DEF RequestTypes, Phases
  <1>3. /\ Len(sent') = Len(sent) + 1 /\ sent'[Len(sent) + 1] = fellBack
        /\ \A i \in 1..Len(sent) : sent'[i] = sent[i]
        /\ Len(sent) = Len(answers) /\ Len(sent) \in Nat
    BY <1>1 DEF RequestTypes, CountsInv
  <1>4. CountsInv' /\ NextInv'
    BY <1>1, <1>3 DEF RequestTypes, CountsInv, NextInv
  <1>5. RequestsAreJustified'
    <2>1. Len(sent') <= budget'
      BY <1>4 DEF CountsInv
    <2>2. ASSUME NEW i \in 2..Len(sent')
          PROVE  \/ answers[i - 1] \in Transient /\ sent'[i] = sent'[i - 1]
                 \/ answers[i - 1] = "rejected" /\ ~sent'[i - 1] /\ sent'[i] /\ client # "hosted"
      <3>1. CASE i \in 2..Len(sent)
        BY <1>1, <1>3, <3>1 DEF RequestsAreJustified
      <3>2. CASE i = Len(sent) + 1
        BY <1>1, <1>3, <3>2 DEF NextInv, CalledFor
      <3> QED
        BY <1>3, <3>1, <3>2
    <2> QED
      BY <2>1, <2>2 DEF RequestsAreJustified, Transient
  <1>6. FailureIsTheLastOne'
    BY DEF FailureIsTheLastOne
  <1> QED
    BY <1>2, <1>4, <1>5, <1>6 DEF RequestInv

\* A response changes nothing about the requests that were sent, nor about
\* the responses that called for them.
LEMMA ReceiveKeepsRequests ==
    ASSUME RequestInv, NEW class \in Classes, Receive(class), UNCHANGED <<call, sent>>
    PROVE  /\ answers' \in Seq(Classes) /\ Len(answers') = Len(sent) /\ Len(sent) \in Nat \ {0}
           /\ answers'[Len(answers')] = class /\ Len(sent) = tries + 1
           /\ Len(sent)' = Len(sent) /\ Len(sent) <= budget
           /\ sent[Len(sent)] = fellBack
           /\ RequestsAreJustified'
  <1> USE DEF Receive, call
  <1>1. RequestTypes /\ CountsInv /\ NextInv /\ RequestsAreJustified
    BY DEF RequestInv
  <1>2. /\ answers' \in Seq(Classes) /\ Len(answers') = Len(answers) + 1
        /\ answers'[Len(answers) + 1] = class
        /\ \A i \in 1..Len(answers) : answers'[i] = answers[i]
        /\ Len(answers) \in Nat /\ Len(sent) = Len(answers) + 1
    BY <1>1 DEF RequestTypes, CountsInv
  <1>3. \A i \in 2..Len(sent) : answers'[i - 1] = answers[i - 1]
    BY <1>2
  <1>4. RequestsAreJustified'
    BY <1>1, <1>3 DEF RequestsAreJustified, Transient
  <1> QED
    BY <1>1, <1>2, <1>4 DEF CountsInv, NextInv, RequestTypes

LEMMA EndRequestInv ==
    ASSUME RequestInv, NEW class \in Classes, Receive(class), UNCHANGED <<call, sent>>,
           fellBack' \in BOOLEAN, tries' = tries,
           phase' \in {"streaming", "answered", "failed"},
           reported' = IF phase' = "failed" THEN class ELSE reported,
           phase' = "failed" /\ class \in Transient \ Unreadable /\ mode = "generate"
               => tries + 1 >= budget
    PROVE  RequestInv'
  <1>1. RequestTypes /\ CountsInv
    BY DEF RequestInv
  <1>2. /\ answers' \in Seq(Classes) /\ Len(answers') = Len(sent) /\ Len(sent) \in Nat \ {0}
        /\ answers'[Len(answers')] = class /\ Len(sent) = tries + 1
        /\ Len(sent)' = Len(sent) /\ Len(sent) <= budget
        /\ RequestsAreJustified'
    BY ReceiveKeepsRequests
  <1>3. RequestTypes'
    BY <1>1, <1>2 DEF RequestTypes, Phases, call
  <1>4. CountsInv' /\ NextInv'
    BY <1>2 DEF CountsInv, NextInv, call
  <1>5. FailureIsTheLastOne'
    BY <1>1, <1>2 DEF FailureIsTheLastOne, RequestTypes, Transient, call
  <1> QED
    BY <1>2, <1>3, <1>4, <1>5 DEF RequestInv

LEMMA RetryRequestInv ==
    ASSUME RequestInv, NEW class \in Classes, Receive(class), UNCHANGED <<call, sent, reported>>,
           mode = "generate", tries + 1 < budget, tries' = tries + 1,
           \/ class \in Transient /\ fellBack' = fellBack /\ phase' = "sleeping"
           \/ FallsBack(class) /\ fellBack' = TRUE /\ phase' = "sending"
    PROVE  RequestInv'
  <1>1. RequestTypes /\ CountsInv
    BY DEF RequestInv
  <1>2. /\ answers' \in Seq(Classes) /\ Len(answers') = Len(sent) /\ Len(sent) \in Nat \ {0}
        /\ answers'[Len(answers')] = class /\ Len(sent) = tries + 1
        /\ Len(sent)' = Len(sent) /\ Len(sent) <= budget
        /\ sent[Len(sent)] = fellBack
        /\ RequestsAreJustified'
    BY ReceiveKeepsRequests DEF call
  <1>3. RequestTypes'
    BY <1>1, <1>2 DEF RequestTypes, Phases, call
  <1>4. CountsInv'
    <2>1. mode' = "generate" /\ budget' = budget /\ phase' \in {"sending", "sleeping"}
      BY DEF call
    <2>2. /\ Len(sent)' \in Nat /\ Len(sent)' = Len(answers)'
          /\ Len(answers)' = tries' /\ tries' < budget'
      BY <1>1, <1>2, <2>1 DEF RequestTypes
    <2>3. Len(sent)' <= budget'
      BY <1>2, <2>1
    <2> QED
      BY <2>1, <2>2, <2>3 DEF CountsInv
  <1>5. CalledFor(Len(sent), fellBack)'
    BY <1>1, <1>2 DEF CalledFor, FallsBack, Transient, call
  <1>6. NextInv' /\ FailureIsTheLastOne'
    BY <1>2, <1>5 DEF NextInv, FailureIsTheLastOne
  <1> QED
    BY <1>2, <1>3, <1>4, <1>6 DEF RequestInv

LEMMA RequestStep == RequestInv /\ RequestNext => RequestInv'
  <1> SUFFICES ASSUME RequestInv, RequestNext PROVE RequestInv'
    OBVIOUS
  <1> USE DEF Fail, call
  <1>0. fellBack \in BOOLEAN /\ tries \in Nat /\ budget \in Nat
    BY DEF RequestInv, RequestTypes
  <1>1. CASE Send
    BY <1>1, SendRequestInv
  <1>2. CASE Answered
    <2>1. Receive("ok") /\ "ok" \in Classes
      BY <1>2 DEF Answered, Classes
    <2> QED
      BY <1>0, <1>2, <2>1, EndRequestInv DEF Answered
  <1>3. CASE Unusable
    <2>1. PICK class \in {"garbled"} \cup Unreadable : Receive(class) /\ Fail(class)
      BY <1>3 DEF Unusable
    <2>2. class \in Classes /\ class \notin Transient \ Unreadable
      BY <2>1 DEF Classes, Transient, Unreadable
    <2> QED
      BY <1>0, <1>3, <2>1, <2>2, EndRequestInv DEF Unusable
  <1>4. CASE FallBack
    <2>1. PICK class \in Classes :
             /\ FallsBack(class) /\ Receive(class) /\ fellBack' = TRUE
             /\ IF tries + 1 < budget
                THEN tries' = tries + 1 /\ phase' = "sending" /\ UNCHANGED reported
                ELSE phase' = "failed" /\ reported' = class /\ UNCHANGED tries
      BY <1>4 DEF FallBack
    <2>2. mode = "generate" /\ UNCHANGED <<call, sent>> /\ class \notin Transient
      BY <1>4, <2>1 DEF FallBack, FallsBack, Transient, Unreadable
    <2>3. CASE tries + 1 < budget
      BY <1>0, <2>1, <2>2, <2>3, RetryRequestInv
    <2>4. CASE ~(tries + 1 < budget)
      BY <1>0, <2>1, <2>2, <2>4, EndRequestInv
    <2> QED
      BY <2>3, <2>4
  <1>5. CASE RetryOrFail
    <2>1. PICK class \in Classes \ ({"ok", "garbled"} \cup Unreadable) :
             /\ Receive(class)
             /\ IF class \in Retryable /\ tries + 1 < budget
                THEN tries' = tries + 1 /\ phase' = "sleeping" /\ UNCHANGED <<fellBack, reported>>
                ELSE Fail(class)
      BY <1>5 DEF RetryOrFail
    <2>2. mode = "generate" /\ UNCHANGED <<call, sent>> /\ class \in Classes
      BY <1>5 DEF RetryOrFail
    <2>3. CASE class \in Retryable /\ tries + 1 < budget
      BY <1>0, <2>1, <2>2, <2>3, RetryRequestInv DEF Retryable, Transient
    <2>4. CASE ~(class \in Retryable /\ tries + 1 < budget)
      BY <1>0, <2>1, <2>2, <2>4, EndRequestInv DEF Retryable, Transient
    <2> QED
      BY <2>3, <2>4
  <1>6. CASE StreamAnswered
    <2>1. mode = "stream" /\ UNCHANGED <<call, sent>>
      BY <1>6 DEF StreamAnswered
    <2>2. CASE Receive("ok") /\ phase' = "streaming" /\ UNCHANGED <<tries, fellBack, reported>>
      BY <1>0, <2>1, <2>2, EndRequestInv DEF Classes
    <2>3. CASE \E class \in {"busy", "rejected", "refused", "lost"} : Receive(class) /\ Fail(class)
      <3>1. PICK class \in {"busy", "rejected", "refused", "lost"} : Receive(class) /\ Fail(class)
        BY <2>3
      <3>2. class \in Classes
        BY DEF Classes
      <3> QED
        BY <1>0, <2>1, <3>1, <3>2, EndRequestInv
    <2> QED
      BY <1>6, <2>2, <2>3 DEF StreamAnswered
  <1>7. CASE WakeUp
    BY <1>7 DEF WakeUp, RequestInv, RequestTypes, Phases, CountsInv, NextInv, CalledFor,
                RequestsAreJustified, FailureIsTheLastOne, Transient
  <1> QED
    BY <1>1, <1>2, <1>3, <1>4, <1>5, <1>6, <1>7 DEF RequestNext

LEMMA RequestHolds == CallSpec => []RequestInv
  <1>1. CallInit => RequestInv
    BY InitRequestInv DEF CallInit
  <1>2. RequestInv /\ [CallNext]_callVars => RequestInv'
    <2> SUFFICES ASSUME RequestInv, [CallNext]_callVars PROVE RequestInv'
      OBVIOUS
    <2>1. CASE Ask
      BY <2>1, RequestStep DEF Ask
    <2>2. CASE UNCHANGED request
      BY <2>2 DEF request, RequestInv, RequestTypes, CountsInv, NextInv, CalledFor,
                  RequestsAreJustified, FailureIsTheLastOne, Transient
    <2> QED
      BY <2>1, <2>2 DEF CallNext, Read, callVars
  <1> QED
    BY <1>1, <1>2, PTL DEF CallSpec

\* generate_with_retry and LocalClient::generate_plan: whatever the responses
\* and the budget, a request is sent again only after a response that called
\* for it, and never beyond the budget.
THEOREM RequestsAreJustifiedInACall == CallSpec => []RequestsAreJustified
  BY RequestHolds, PTL DEF RequestInv

\* The error a caller gets is the last response's, and a transient one only
\* when the budget is spent or the body of the response could not be read.
THEOREM FailureIsTheLastOneInACall == CallSpec => []FailureIsTheLastOne
  BY RequestHolds, PTL DEF RequestInv

-----------------------------------------------------------------------------
(* The response.                                                           *)

\* A call starts with a stream as SseStream has it, asks without touching it
\* and reads it by SseStream's steps.
LEMMA CallIsAStream == CallSpec => Spec
  <1>1. CallInit => Init
    BY DEF CallInit
  <1>2. [CallNext]_callVars => [Next]_vars
    BY DEF CallNext, Ask, Read, callVars
  <1> QED
    BY <1>1, <1>2, PTL DEF CallSpec, Spec

\* Every delta arrives in the stream of a call, whatever it took to get it.
THEOREM EveryDeltaArrivesInACall == CallSpec => []EveryDeltaArrives
  BY CallIsAStream, EveryDeltaArrivesInAStream, PTL

\* A call's stream that the timeout cut short fails.
THEOREM TimeoutIsReportedInACall == CallSpec => []TimeoutIsReported
  BY CallIsAStream, TimeoutIsReportedInAStream, PTL

\* What stream_plan returns is a TextStream to its reader, before the response
\* comes and while it is read.
THEOREM CallImplementsTextStream == CallSpec => ImplementsTextStream
  BY CallIsAStream, StreamImplementsTextStream

=============================================================================
