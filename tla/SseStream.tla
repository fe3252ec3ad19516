----------------------------- MODULE SseStream -----------------------------
(***************************************************************************)
(* A streaming LLM call (vlorql-llm): the bytes of the HTTP response, the  *)
(* line reader sse_lines, the consumer task drive_sse_consumer_with and    *)
(* the channel to whoever reads the text deltas.                           *)
(*                                                                         *)
(* The server's lines are numbered; a line is FragmentsPerLine fragments   *)
(* (two pieces of text and the line feed), and the network delivers them   *)
(* in chunks cut anywhere.  `taken` lines were taken out of the reader's   *)
(* buffer and `read` fragments were put into it, so the buffer is what     *)
(* lies in between.                                                        *)
(*                                                                         *)
(* The consumer is an asynchronous task: it runs when it is scheduled and, *)
(* when the reader answers Pending, it is parked until something wakes it. *)
(* Arriving bytes wake it only if the reader's last poll registered its    *)
(* waker with the response body; the request's total timeout, a timer      *)
(* polled with the body, always does.                                      *)
(***************************************************************************)
EXTENDS Naturals, Sequences, FiniteSets

CONSTANTS
    Scripts,         \* responses: sequences of "delta", "noise", "broken", "done"
    Budgets,         \* values of max_attempts()
    MaxChunks        \* bound: chunks in flight between network and reader

FragmentsPerLine == 3

ASSUME StreamAssumption ==
    /\ Scripts \subseteq Seq({"delta", "noise", "broken", "done"})
    /\ Budgets \subseteq Nat \ {0}
    /\ MaxChunks \in Nat

VARIABLES
    format,      \* "sse", or Ollama's "ndjson"
    attempts,    \* attempts the consumer has
    script,      \* the response the server is sending
    arrived,     \* fragments that reached this host
    net,         \* chunks not yet handed out by the body, as fragment counts
    body,        \* the response body: "open", "closed" or "reset"
    expired,     \* the request's total timeout fired
    read,        \* fragments the reader has taken from the body
    taken,       \* lines the reader has handed to the consumer
    consumer,    \* "scheduled", "parked", "backoff" or "returned"
    registered,  \* is the task's waker registered with the body?
    attempt,     \* drive_sse_consumer_with's attempt
    delivered,   \* deltas sent into the channel
    failed,      \* was an error sent into the channel?
    receiving    \* is the channel's receiver still there?

wire == <<format, attempts, script, arrived, net, body>>
reader == <<read, taken>>
vars == <<format, attempts, script, arrived, net, body, expired, read, taken, consumer,
          registered, attempt, delivered, failed, receiving>>

Fragments == FragmentsPerLine * Len(script)
DeltasOf(n) == Cardinality({i \in 1..n : script[i] = "delta"})

\* A malformed line ends an NDJSON stream and is skipped in an SSE one.
Fatal(line) == line = "broken" /\ format = "ndjson"

\* The deltas before whatever ends the stream.
Ending == {i \in 1..Len(script) : script[i] = "done" \/ Fatal(script[i])}
Expected == DeltasOf(CHOOSE n \in 0..Len(script) :
                        IF Ending = {} THEN n = Len(script)
                        ELSE n \in Ending /\ \A i \in Ending : n <= i)

Init ==
    /\ format \in {"sse", "ndjson"}
    /\ attempts \in IF format = "sse" THEN Budgets ELSE {1}
    /\ script \in Scripts
    /\ arrived = 0 /\ net = <<>> /\ body = "open" /\ expired = FALSE
    /\ read = 0 /\ taken = 0
    /\ consumer = "scheduled" /\ registered = FALSE /\ attempt = 0
    /\ delivered = 0 /\ failed = FALSE /\ receiving = TRUE

-----------------------------------------------------------------------------
(* The network and the timer.                                              *)

\* What the body does to a task whose waker it holds.
WakeIfRegistered ==
    IF consumer = "parked" /\ registered
    THEN consumer' = "scheduled" /\ registered' = FALSE
    ELSE UNCHANGED <<consumer, registered>>

\* A chunk of n fragments arrives.
Arrive(n) ==
    /\ body = "open" /\ consumer # "returned"
    /\ Len(net) < MaxChunks
    /\ arrived + n <= Fragments
    /\ arrived' = arrived + n
    /\ net' = Append(net, n)
    /\ WakeIfRegistered
    /\ UNCHANGED <<format, attempts, script, body, expired, reader, attempt, delivered, failed, receiving>>

\* The server closes the response, complete or not, or the connection breaks.
EndBody ==
    /\ body = "open" /\ consumer # "returned"
    /\ body' \in {"closed", "reset"}
    /\ WakeIfRegistered
    /\ UNCHANGED <<format, attempts, script, arrived, net, expired, reader, attempt, delivered,
                   failed, receiving>>

\* Mutation: the timer is not polled together with the body.
ExpireUnnoticed ==
    /\ ~expired
    /\ consumer # "returned"
    /\ expired' = TRUE
    /\ UNCHANGED <<wire, reader, consumer, registered, attempt, delivered, failed, receiving>>

\* The request's total timeout fires and wakes the task that polled it.
Expire ==
    /\ ~expired
    /\ consumer # "returned"
    /\ expired' = TRUE
    /\ IF consumer = "parked"
       THEN consumer' = "scheduled" /\ registered' = FALSE
       ELSE UNCHANGED <<consumer, registered>>
    /\ UNCHANGED <<wire, reader, attempt, delivered, failed, receiving>>

DropReceiver ==
    /\ receiving /\ consumer # "returned"
    /\ receiving' = FALSE
    /\ UNCHANGED <<wire, expired, reader, consumer, registered, attempt, delivered, failed>>

-----------------------------------------------------------------------------
(* One poll of the reader by the consumer, and what the consumer does with *)
(* what it gets.  `got` is the reader's fragment count after the poll.     *)

HasLine(got) == got >= FragmentsPerLine * (taken + 1)

\* A line: a delta goes into the channel, [DONE] and a closed channel end
\* the consumer, and so does, with an error, a malformed line of NDJSON.
\* Blank lines, comments and malformed SSE payloads are skipped.
HandleLine(line) ==
    /\ taken' = taken + 1
    /\ delivered' = IF line = "delta" /\ receiving THEN delivered + 1 ELSE delivered
    /\ consumer' = IF line = "done" \/ Fatal(line) \/ (line = "delta" /\ ~receiving)
                   THEN "returned" ELSE "scheduled"
    /\ failed' = (failed \/ Fatal(line))
    /\ UNCHANGED <<registered, attempt>>

\* Mutation: the next attempt reads the response from its beginning.
EndAttemptRewinds(withError) ==
    /\ IF attempt + 1 < attempts
       THEN attempt' = attempt + 1 /\ consumer' = "backoff" /\ taken' = 0 /\ UNCHANGED failed
       ELSE consumer' = "returned" /\ failed' = withError /\ UNCHANGED <<attempt, taken>>
    /\ UNCHANGED <<registered, delivered>>

\* End of this attempt: with attempts left the same reader is polled again
\* after a pause, else the consumer returns.
EndAttempt(withError) ==
    /\ IF attempt + 1 < attempts
       THEN /\ attempt' = attempt + 1
            /\ consumer' = "backoff"
            /\ UNCHANGED failed
       ELSE /\ consumer' = "returned"
            /\ failed' = withError
            /\ UNCHANGED attempt
    /\ UNCHANGED <<registered, taken, delivered>>

\* A complete line is in the buffer: the body is not polled.
PollBuffered ==
    /\ consumer = "scheduled"
    /\ HasLine(read)
    /\ HandleLine(script[taken + 1])
    /\ UNCHANGED <<wire, expired, read, receiving>>

\* The body answers Ready.  Without a complete line the reader answers
\* Pending although the body, being ready, did not keep the waker.
PollChunk ==
    LET got == read + Head(net) IN
    /\ consumer = "scheduled" /\ ~HasLine(read) /\ ~expired
    /\ net # <<>>
    /\ net' = Tail(net)
    /\ read' = got
    /\ IF HasLine(got)
       THEN HandleLine(script[taken + 1])
       ELSE /\ consumer' = "parked"
            /\ registered' = FALSE
            /\ UNCHANGED <<taken, attempt, delivered, failed>>
    /\ UNCHANGED <<format, attempts, script, arrived, body, expired, receiving>>

\* Nothing there yet: the body keeps the waker.
PollEmpty ==
    /\ consumer = "scheduled" /\ ~HasLine(read) /\ ~expired
    /\ net = <<>> /\ body = "open"
    /\ consumer' = "parked"
    /\ registered' = TRUE
    /\ UNCHANGED <<wire, expired, reader, attempt, delivered, failed, receiving>>

\* Mutation: a timeout ends the stream like the end of the body does.
PollExpiredQuietly ==
    /\ consumer = "scheduled" /\ ~HasLine(read)
    /\ expired
    /\ EndAttempt(FALSE)
    /\ UNCHANGED <<wire, expired, read, receiving>>

\* The timeout is looked at before the body; it fails every later poll too.
PollExpired ==
    /\ consumer = "scheduled" /\ ~HasLine(read)
    /\ expired
    /\ EndAttempt(TRUE)
    /\ UNCHANGED <<wire, expired, read, receiving>>

\* A broken connection is reported once; afterwards the body is at its end.
PollReset ==
    /\ consumer = "scheduled" /\ ~HasLine(read) /\ ~expired
    /\ net = <<>> /\ body = "reset"
    /\ body' = "closed"
    /\ EndAttempt(TRUE)
    /\ UNCHANGED <<format, attempts, script, arrived, net, expired, read, receiving>>

\* Mutation: what is left in the buffer is forgotten at the end of the body.
PollClosedForgetsRest ==
    /\ consumer = "scheduled" /\ ~HasLine(read) /\ ~expired
    /\ net = <<>> /\ body = "closed"
    /\ EndAttempt(FALSE)
    /\ UNCHANGED <<wire, expired, read, receiving>>

\* The end of the body, or first what is left in the buffer: a whole line
\* without its line feed, or the beginning of one, which no JSON parser takes.
PollClosed ==
    /\ consumer = "scheduled" /\ ~HasLine(read) /\ ~expired
    /\ net = <<>> /\ body = "closed"
    /\ IF read <= FragmentsPerLine * taken
       THEN EndAttempt(FALSE) /\ UNCHANGED read
       ELSE /\ read' = FragmentsPerLine * (taken + 1)
            /\ HandleLine(IF read = FragmentsPerLine * taken + 2
                          THEN script[taken + 1] ELSE "broken")
    /\ UNCHANGED <<wire, expired, receiving>>

Poll == PollBuffered \/ PollChunk \/ PollEmpty \/ PollExpired \/ PollReset \/ PollClosed

\* sleep(retry_backoff(..)) is over.
Resume ==
    /\ consumer = "backoff"
    /\ consumer' = "scheduled"
    /\ UNCHANGED <<wire, expired, reader, registered, attempt, delivered,
                   failed, receiving>>

Next ==
    \/ \E n \in 1..Fragments : Arrive(n)
    \/ EndBody
    \/ Expire
    \/ DropReceiver
    \/ Poll
    \/ Resume

Spec == Init /\ [][Next]_vars
-----------------------------------------------------------------------------
\* However the network cuts the response into chunks, and even if the
\* connection breaks once it is here: when the consumer returns in time, the
\* reader of the channel has got every delta.  Only the last line feed may be
\* missing, in a stream that does not end with an error.
EveryDeltaArrives ==
    /\ consumer = "returned" /\ ~expired /\ receiving
    /\ arrived = Fragments \/ (arrived = Fragments - 1 /\ ~failed)
    => delivered = Expected

\* A stream cut short by the timeout says so: without an error in the channel
\* nothing was lost.
TimeoutIsReported ==
    consumer = "returned" /\ expired /\ receiving /\ ~failed
        => delivered = Expected

\* lib.rs, stream_plan: "Streams raw text deltas as the LLM emits them": when
\* bytes are there, the consumer is not parked with nobody to wake it.
NoLostWakeup == ~(consumer = "parked" /\ ~registered /\ net # <<>>)

\* To its reader the channel is a TextStream: an error is its last item.
Text == INSTANCE TextStream WITH
    length <- Expected,
    outcome <- IF consumer # "returned" THEN "open"
               ELSE IF failed THEN "failed" ELSE "ended"

ImplementsTextStream == Text!Spec
=============================================================================
