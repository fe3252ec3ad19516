------------------------- MODULE StreamQuery_proof -------------------------
(***************************************************************************)
(* Proofs about StreamQuery, for every set of plans, whatever the model    *)
(* answers, whatever validation and the compiler find wrong with a plan    *)
(* and however many retries there are.                                     *)
(*                                                                         *)
(* The inductive invariant says what the buffer holds while an attempt is  *)
(* read (BufferInv), that nothing but text is sent before the task is done *)
(* (QuietInv) and what the last events look like then (VerdictInv).        *)
(***************************************************************************)
EXTENDS StreamQuery, FiniteSetTheorems, SequenceTheorems, TLAPS

Kinds == {"text", "plan", "error", "err", "usage"}
Events == [kind : Kinds, plan : Plan \cup {NoPlan}, attempt : Nat]

TypeInv ==
    /\ phase \in {"asking", "reading", "done"}
    /\ attempt \in 0..MaxRetries
    /\ response \in Responses
    /\ delivered \in Nat
    /\ outcome \in {"open", "ended", "failed"}
    /\ buffer \in Seq(Nat)
    /\ events \in Seq(Events)
    /\ receiving \in BOOLEAN

\* The buffer holds the deltas of this attempt and of no other.
BufferInv ==
    phase = "reading" =>
        /\ Len(buffer) = delivered
        /\ \A i \in 1..Len(buffer) : buffer[i] = attempt

OnlyText(s) == \A i \in 1..Len(s) : s[i].kind = "text"

QuietInv == phase # "done" => OnlyText(events)

\* The verdict v is right about the text of the last attempt.
Right(v) ==
    /\ v.kind \in {"plan", "error", "err"}
    /\ v.attempt = attempt
    /\ v.kind = "plan" => /\ v.plan = Reading /\ v.plan # NoPlan
                          /\ \E r \in Repairs[Reading] : Errors[r] = <<>>
    /\ v.kind = "error" =>
          IF Reading = NoPlan
          THEN attempt = MaxRetries
          ELSE \E r \in Repairs[Reading] :
                  /\ Errors[r] # <<>>
                  /\ Errors[r] = <<"retryable">> => attempt = MaxRetries

\* Text, the verdict at n, and at most a usage event.
VerdictAt(n) ==
    /\ \A i \in 1..n - 1 : events[i].kind = "text"
    /\ Right(events[n])
    /\ n < Len(events) => /\ Len(events) = n + 1
                          /\ events[n + 1].kind = "usage"
                          /\ events[n + 1].attempt = attempt
                          /\ events[n].kind # "err"

VerdictInv ==
    phase = "done" =>
        \/ ~receiving /\ OnlyText(events)
        \/ \E n \in 1..Len(events) : VerdictAt(n)

IInv == TypeInv /\ BufferInv /\ QuietInv /\ VerdictInv

-----------------------------------------------------------------------------
LEMMA InitIInv == Init => IInv
  BY StreamQueryAssumption
  DEF Init, IInv, TypeInv, BufferInv, QuietInv, VerdictInv, OnlyText, Events

LEMMA ConcatOne ==
    ASSUME NEW S, NEW a \in S, NEW b \in S
    PROVE  <<a>> \o <<>> = <<a>> /\ <<a>> \o <<b>> = <<a, b>>
  <1>1. <<a>> \in Seq(S) /\ <<b>> \in Seq(S) /\ <<a, b>> \in Seq(S)
    OBVIOUS
  <1>2. <<a>> \o <<>> = <<a>>
    BY <1>1, ConcatEmptySeq
  <1>3. DEFINE s == <<a>> \o <<b>>
  <1>4. s \in Seq(S) /\ Len(s) = Len(<<a>>) + Len(<<b>>)
        /\ \A i \in 1..Len(<<a>>) + Len(<<b>>) :
              s[i] = IF i <= Len(<<a>>) THEN <<a>>[i] ELSE <<b>>[i - Len(<<a>>)]
    BY <1>1, ConcatProperties
  <1>5. Len(s) = 2 /\ s[1] = a /\ s[2] = b
    <2> HIDE DEF s
    <2> QED BY <1>4
  <1>6. s = <<a, b>>
    <2> HIDE DEF s
    <2> QED BY <1>1, <1>4, <1>5, SeqEqual
  <1> QED
    BY <1>2, <1>6

LEMMA EventTyped ==
    ASSUME TypeInv, NEW kind \in Kinds, NEW p \in Plan \cup {NoPlan}
    PROVE  Event(kind, p) \in Events
  BY StreamQueryAssumption DEF TypeInv, Event, Events

\* What is wrong with a plan, as the loop sees it.
LEMMA ErrorOfPlan ==
    ASSUME NEW plan \in Plan
    PROVE  /\ ErrorOf(plan) = "none" <=> Errors[plan] = <<>>
           /\ Errors[plan] = <<"retryable">> => ErrorOf(plan) = "retryable"
  <1>1. plan # NoPlan /\ Errors[plan] \in Seq({"retryable", "fatal"})
    BY StreamQueryAssumption
  <1>2. ASSUME Len(Errors[plan]) = 1 PROVE Errors[plan][1] \in {"retryable", "fatal"}
    BY <1>1, <1>2
  <1>3. <<"retryable">>[1] = "retryable" /\ Len(<<"retryable">>) = 1 /\ <<"retryable">> # <<>>
    OBVIOUS
  <1> QED
    BY <1>1, <1>2, <1>3 DEF ErrorOf

\* What the text in the buffer reads as is what the deltas read as.
LEMMA ParsedIsReading ==
    ASSUME TypeInv, BufferInv, phase = "reading"
    PROVE  /\ Parsed = Reading
           /\ Parsed \in Plan \cup {NoPlan}
  <1>1. response.whole \in Plan \cup {NoPlan} /\ response.cut \in Plan \cup {NoPlan}
    BY StreamQueryAssumption DEF TypeInv
  <1>2. Len(buffer) = delivered /\ (buffer = <<>> <=> delivered = 0)
    BY DEF TypeInv, BufferInv
  <1>3. ~ \E i \in 1..Len(buffer) : buffer[i] # attempt
    BY DEF BufferInv
  <1> QED
    BY <1>1, <1>2, <1>3 DEF Parsed, Reading

\* Whatever ends an attempt for good sends its verdict, and after it at most
\* the token usage; an error of the request or of the stream comes alone.
LEMMA ConcludeIsVerdict ==
    ASSUME TypeInv, QuietInv, phase # "done",
           NEW v \in Events, Right(v)',
           NEW u \in Events, u.kind = "usage", u.attempt = attempt,
           attempt' = attempt, receiving' = receiving,
           Emit(<<v>>) \/ (Emit(<<v, u>>) /\ v.kind # "err")
    PROVE  VerdictInv' /\ events' \in Seq(Events)
  <1>1. events \in Seq(Events) /\ OnlyText(events)
    BY DEF TypeInv, QuietInv
  <1>2. CASE ~receiving
    BY <1>1, <1>2 DEF VerdictInv, Emit
  <1>3. CASE receiving
    <2>1. PICK n \in Nat : n = Len(events) + 1
      BY <1>1
    <2>2. events' = events \o <<v>> \/ (events' = events \o <<v, u>> /\ v.kind # "err")
      BY <1>3 DEF Emit
    <2>3. CASE events' = events \o <<v>>
      <3>1. events' = Append(events, v)
        BY <1>1, <2>3
      <3>2. events' \in Seq(Events) /\ Len(events') = n /\ events'[n] = v
            /\ \A i \in 1..n - 1 : events'[i] = events[i]
        BY <1>1, <2>1, <3>1
      <3>3. VerdictAt(n)'
        BY <1>1, <2>1, <3>2 DEF VerdictAt, OnlyText
      <3> QED
        BY <2>1, <3>2, <3>3 DEF VerdictInv
    <2>4. CASE events' = events \o <<v, u>> /\ v.kind # "err"
      <3>1. events' = Append(Append(events, v), u)
        BY <1>1, <2>4
      <3>2. Append(events, v) \in Seq(Events) /\ Len(Append(events, v)) = n
            /\ \A i \in 1..n : Append(events, v)[i] = IF i = n THEN v ELSE events[i]
        BY <1>1, <2>1
      <3>3. /\ events' \in Seq(Events) /\ Len(events') = n + 1
            /\ events'[n] = v /\ events'[n + 1] = u
            /\ \A i \in 1..n - 1 : events'[i] = events[i]
        BY <2>1, <3>1, <3>2
      <3>4. VerdictAt(n)'
        BY <1>1, <2>1, <2>4, <3>3 DEF VerdictAt, OnlyText
      <3> QED
        BY <2>1, <3>3, <3>4 DEF VerdictInv
    <2> QED
      BY <2>2, <2>3, <2>4
  <1> QED
    BY <1>2, <1>3

\* A task that asks again has announced nothing.
LEMMA RetryIInv ==
    ASSUME TypeInv, QuietInv, phase # "done", attempt < MaxRetries, Retry,
           response' = response, delivered' = delivered, outcome' \in {"open", "ended", "failed"},
           buffer' = buffer, receiving' = receiving
    PROVE  IInv'
  <1>1. TypeInv'
    BY StreamQueryAssumption DEF TypeInv, Retry
  <1> QED
    BY <1>1 DEF Retry, IInv, BufferInv, QuietInv, VerdictInv

\* A failed request or a broken stream.
LEMMA FailedIInv ==
    ASSUME TypeInv, QuietInv, phase # "done", NEW error \in {"retryable", "fatal"}, Failed(error),
           response' = response, delivered' = delivered, outcome' \in {"open", "ended", "failed"},
           buffer' = buffer, receiving' = receiving
    PROVE  IInv'
  <1>1. CASE CanRetry(error)
    BY <1>1, RetryIInv DEF Failed, CanRetry
  <1>2. CASE ~CanRetry(error)
    <2>1. Conclude(<<Event("err", NoPlan)>>)
      BY <1>2 DEF Failed
    <2>2. PICK v \in Events, u \in Events :
            v = Event("err", NoPlan) /\ u = Event("usage", NoPlan)
      BY EventTyped DEF Kinds
    <2>3. Right(v)' /\ u.kind = "usage" /\ u.attempt = attempt
      BY <2>1, <2>2 DEF Right, Event, Conclude
    <2>4. VerdictInv' /\ events' \in Seq(Events)
      BY <2>1, <2>2, <2>3, ConcludeIsVerdict DEF Conclude
    <2>5. TypeInv'
      BY <2>1, <2>4 DEF TypeInv, Conclude
    <2> QED
      BY <2>1, <2>4, <2>5 DEF IInv, BufferInv, QuietInv, Conclude
  <1> QED
    BY <1>1, <1>2

\* The verdict on the text of an attempt that came to its end.
LEMMA JudgeIInv ==
    ASSUME TypeInv, BufferInv, QuietInv, phase = "reading", Judge,
           response' = response, delivered' = delivered, outcome' \in {"open", "ended", "failed"},
           buffer' = buffer, receiving' = receiving
    PROVE  IInv'
  <1>0. PICK error \in ErrorsOn(Parsed) :
          IF CanRetry(error) THEN Retry
          ELSE Conclude((IF error = "none" THEN <<Event("plan", Parsed)>>
                         ELSE <<Event("error", NoPlan)>>) \o Usage)
    BY DEF Judge
  <1>1. CASE CanRetry(error)
    BY <1>0, <1>1, RetryIInv DEF CanRetry
  <1>2. CASE ~CanRetry(error)
    <2>1. PICK v : v = IF error = "none" THEN Event("plan", Parsed) ELSE Event("error", NoPlan)
      OBVIOUS
    <2>2. PICK u \in Events : u = Event("usage", NoPlan)
      BY EventTyped DEF Kinds
    <2>3. Conclude(<<v>> \o Usage)
      BY <1>0, <1>2, <2>1
    <2>4. Parsed = Reading /\ Parsed \in Plan \cup {NoPlan}
      BY ParsedIsReading
    <2>5. v \in Events /\ v.kind # "err"
      BY <2>1, <2>4 DEF Event, Events, Kinds, TypeInv
    <2>6. Usage = <<>> \/ Usage = <<u>>
      BY <2>2 DEF Usage
    <2>7. Emit(<<v>>) \/ Emit(<<v, u>>)
      <3>1. <<v>> \o <<>> = <<v>> /\ <<v>> \o <<u>> = <<v, u>>
        BY <2>2, <2>5, ConcatOne
      <3> QED
        BY <2>3, <2>6, <3>1 DEF Conclude
    <2>8. Reading' = Reading /\ attempt' = attempt
      BY <2>3 DEF Reading, Conclude
    <2>9. Right(v)'
      <3>1. CASE Reading = NoPlan
        <4>1. error = "retryable"
          BY <3>1, <2>4 DEF ErrorsOn
        <4>2. attempt = MaxRetries /\ v = Event("error", NoPlan)
          BY <4>1, <1>2, <2>1, StreamQueryAssumption DEF CanRetry, TypeInv
        <4> QED
          BY <3>1, <4>2, <2>8 DEF Right, Event
      <3>2. CASE Reading # NoPlan
        <4>1. PICK r \in Repairs[Reading] : error = ErrorOf(r)
          BY <3>2, <2>4 DEF ErrorsOn
        <4>2. r \in Plan
          BY <3>2, <2>4, StreamQueryAssumption
        <4>3. CASE error = "none"
          <5>1. Errors[r] = <<>>
            BY <4>1, <4>2, <4>3, ErrorOfPlan
          <5>2. v = Event("plan", Parsed)
            BY <4>3, <2>1
          <5> QED
            BY <5>1, <5>2, <3>2, <2>4, <2>8 DEF Right, Event
        <4>4. CASE error # "none"
          <5>1. Errors[r] # <<>>
            BY <4>1, <4>2, <4>4, ErrorOfPlan
          <5>2. Errors[r] = <<"retryable">> => attempt = MaxRetries
            BY <4>1, <4>2, <1>2, ErrorOfPlan, StreamQueryAssumption DEF CanRetry, TypeInv
          <5>3. v = Event("error", NoPlan)
            BY <4>4, <2>1
          <5> QED
            BY <5>1, <5>2, <5>3, <3>2, <2>8, StreamQueryAssumption DEF Right, Event
        <4> QED
          BY <4>3, <4>4
      <3> QED
        BY <3>1, <3>2
    <2>10. VerdictInv' /\ events' \in Seq(Events)
      <3>1. u.kind = "usage" /\ u.attempt = attempt
        BY <2>2 DEF Event
      <3> QED
        BY <3>1, <2>5, <2>7, <2>8, <2>9, ConcludeIsVerdict
    <2>11. TypeInv'
      BY <2>3, <2>10 DEF TypeInv, Conclude
    <2> QED
      BY <2>3, <2>10, <2>11 DEF IInv, BufferInv, QuietInv, Conclude
  <1> QED
    BY <1>1, <1>2

LEMMA NextIInv == IInv /\ [Next]_vars => IInv'
  <1> SUFFICES ASSUME IInv, [Next]_vars PROVE IInv'
    OBVIOUS
  <1> USE DEF IInv
  <1>1. CASE Connect
    <2>1. TypeInv'
      BY <1>1 DEF TypeInv, Connect
    <2>2. BufferInv'
      BY <1>1 DEF BufferInv, Connect
    <2> QED
      BY <1>1, <2>1, <2>2 DEF Connect, QuietInv, VerdictInv, OnlyText
  <1>2. CASE Refuse
    BY <1>2, FailedIInv DEF Refuse, llm, TypeInv
  <1>3. CASE Chunk
    <2> USE DEF Chunk, LLM!Deliver
    <2>1. Len(buffer) = delivered /\ buffer' = Append(buffer, attempt) /\ attempt \in Nat
      BY <1>3, StreamQueryAssumption DEF BufferInv, TypeInv
    <2>2. events' \in Seq(Events) /\ OnlyText(events')
      <3>1. PICK v \in Events : v = Event("text", NoPlan)
        BY EventTyped DEF Kinds
      <3>2. events \in Seq(Events) /\ OnlyText(events)
        BY <1>3 DEF TypeInv, QuietInv
      <3>3. events' = Append(events, v) \/ events' = events
        <4>1. events \o <<v>> = Append(events, v)
          BY <3>2
        <4> QED
          BY <1>3, <3>1, <4>1 DEF Emit
      <3>4. v.kind = "text"
        BY <3>1 DEF Event
      <3> QED
        BY <3>1, <3>2, <3>3, <3>4 DEF OnlyText
    <2>3. TypeInv'
      BY <1>3, <2>1, <2>2 DEF TypeInv
    <2>4. BufferInv'
      BY <1>3, <2>1 DEF BufferInv, TypeInv
    <2> QED
      BY <1>3, <2>2, <2>3, <2>4 DEF QuietInv, VerdictInv, OnlyText
  <1>4. CASE End
    BY <1>4, JudgeIInv DEF End, LLM!Finish
  <1>5. CASE Break
    BY <1>5, FailedIInv DEF Break, LLM!Finish
  <1>6. CASE DropReceiver
    BY <1>6 DEF DropReceiver, llm, TypeInv, BufferInv, QuietInv, VerdictInv, OnlyText
  <1>7. CASE UNCHANGED vars
    BY <1>7 DEF vars, TypeInv, BufferInv, QuietInv, VerdictInv, VerdictAt, Right, Reading, OnlyText
  <1> QED
    BY <1>1, <1>2, <1>3, <1>4, <1>5, <1>6, <1>7 DEF Next, Work

-----------------------------------------------------------------------------
LEMMA InvariantHolds == Spec => []IInv
  BY InitIInv, NextIInv, PTL DEF Spec

\* Where the one verdict is.
LEMMA VerdictsOf ==
    ASSUME IInv
    PROVE  \/ Verdicts = {} /\ ~(phase = "done" /\ receiving)
           \/ phase = "done" /\ \E n \in 1..Len(events) : VerdictAt(n) /\ Verdicts = {n}
  <1>1. events \in Seq(Events) /\ Len(events) \in Nat
    BY DEF IInv, TypeInv
  <1>2. CASE OnlyText(events) /\ ~(phase = "done" /\ receiving)
    <2>1. Verdicts = {}
      BY <1>2 DEF OnlyText, Verdicts
    <2> QED
      BY <1>2, <2>1
  <1>3. CASE phase = "done" /\ \E n \in 1..Len(events) : VerdictAt(n)
    <2>1. PICK n \in 1..Len(events) : VerdictAt(n)
      BY <1>3
    <2>2. n \in Verdicts
      BY <2>1 DEF VerdictAt, Right, Verdicts
    <2>3. ASSUME NEW i \in Verdicts PROVE i = n
      <3>1. i \in 1..Len(events) /\ events[i].kind \in {"plan", "error", "err"}
        BY DEF Verdicts
      <3>2. ~(i < n)
        BY <3>1, <1>1, <2>1 DEF VerdictAt
      <3>3. ~(i > n)
        BY <3>1, <1>1, <2>1 DEF VerdictAt
      <3> QED
        BY <3>1, <3>2, <3>3, <1>1
    <2>4. Verdicts = {n}
      BY <2>2, <2>3
    <2> QED
      BY <1>3, <2>1, <2>4
  <1> QED
    BY <1>2, <1>3 DEF IInv, QuietInv, VerdictInv

\* However often the model, the transport, validation and the compiler fail
\* in process_assembled_text and run_stream_with_retry, the caller reads text,
\* then one verdict, then at most the token usage of the same attempt; and
\* when the task is done a caller who still listens has got it.
THEOREM OneVerdictHolds == Spec => []OneVerdict
  <1>1. ASSUME IInv PROVE OneVerdict
    <2>1. CASE Verdicts = {} /\ ~(phase = "done" /\ receiving)
      BY <2>1, FS_EmptySet DEF OneVerdict
    <2>2. CASE phase = "done" /\ \E n \in 1..Len(events) : VerdictAt(n) /\ Verdicts = {n}
      <3>1. PICK n \in 1..Len(events) : VerdictAt(n) /\ Verdicts = {n}
        BY <2>2
      <3>2. Cardinality(Verdicts) = 1
        BY <3>1, FS_Singleton
      <3> QED
        BY <2>2, <3>1, <3>2 DEF OneVerdict, VerdictAt, Right
    <2> QED
      BY <1>1, <2>1, <2>2, VerdictsOf
  <1> QED
    BY <1>1, InvariantHolds, PTL

\* The plan announced is what the deltas of the last attempt read as, however
\* many attempts failed before, and neither validation nor the compiler found
\* anything wrong with its repaired copy.
THEOREM PlansAreOfTheirText == Spec => []PlanIsOfItsText
  <1>1. ASSUME IInv PROVE PlanIsOfItsText
    BY <1>1, VerdictsOf DEF PlanIsOfItsText, VerdictAt, Right
  <1> QED
    BY <1>1, InvariantHolds, PTL

\* An error event is about the text of the last attempt, which is at fault: it
\* is refused for what the code never retries, a fatal error or several errors
\* at once, or for a retryable one and the retries are spent.
THEOREM ErrorsAreEarnedHolds == Spec => []ErrorsAreEarned
  <1>1. ASSUME IInv PROVE ErrorsAreEarned
    BY <1>1, VerdictsOf DEF ErrorsAreEarned, VerdictAt, Right
  <1> QED
    BY <1>1, InvariantHolds, PTL
=============================================================================
