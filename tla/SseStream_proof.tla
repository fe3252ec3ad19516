-------------------------- MODULE SseStream_proof --------------------------
(***************************************************************************)
(* Proofs about SseStream, for every response, however the network cuts it *)
(* into chunks, whenever the connection ends or the timeout fires and      *)
(* however many attempts the consumer has; and that the channel to its     *)
(* reader implements TextStream.                                           *)
(*                                                                         *)
(* The inductive invariant accounts for every fragment that arrived        *)
(* (ChunksInv) and relates what was delivered to the lines handled         *)
(* (LinesInv), of which none ended the stream while the consumer goes on   *)
(* (EndingInv).                                                            *)
(***************************************************************************)
EXTENDS SseStream, FiniteSetTheorems, WellFoundedInduction, TLAPS

TypeInv ==
    /\ format \in {"sse", "ndjson"} /\ attempts \in Nat \ {0} /\ script \in Scripts
    /\ arrived \in 0..Fragments
    /\ net \in Seq(Nat)
    /\ body \in {"open", "closed", "reset"}
    /\ read \in Nat /\ taken \in 0..Len(script)
    /\ consumer \in {"scheduled", "parked", "backoff", "returned"}
    /\ attempt \in 0..attempts - 1
    /\ delivered \in Nat
    /\ expired \in BOOLEAN /\ registered \in BOOLEAN /\ failed \in BOOLEAN /\ receiving \in BOOLEAN

\* The chunks in flight lie between what was read and what arrived: after the
\* i-th of them the reader will have s[i] fragments.
InFlight ==
    \E s \in [0..Len(net) -> 0..arrived] :
        /\ s[0] = read /\ s[Len(net)] = arrived
        /\ \A i \in 1..Len(net) : s[i] = s[i - 1] + net[i]

\* The body is at its end and a line whose rest is missing was taken for whole.
Flushed ==
    /\ body = "closed" /\ net = <<>>
    /\ read = FragmentsPerLine * taken
    /\ arrived + 1 = read \/ arrived + 2 = read

ChunksInv ==
    /\ FragmentsPerLine * taken <= read
    /\ InFlight \/ Flushed

\* The lines that were handled as what they are: all that were taken but the
\* beginning of one.
Handled == IF arrived + 2 = FragmentsPerLine * taken THEN taken - 1 ELSE taken

LinesInv ==
    /\ delivered <= DeltasOf(Handled)
    /\ receiving => delivered = DeltasOf(Handled)

EndingInv ==
    consumer # "returned" => ~failed /\ \A i \in Ending : Handled < i

IInv ==
    /\ TypeInv /\ ChunksInv /\ LinesInv /\ EndingInv
    /\ EveryDeltaArrives /\ TimeoutIsReported

-----------------------------------------------------------------------------
(* What the reader is to get.                                              *)

\* The response does not change while it is read.
LEMMA SameResponse ==
    ASSUME script' = script, format' = format
    PROVE  /\ Fragments' = Fragments /\ Ending' = Ending /\ Expected' = Expected
           /\ \A n : DeltasOf(n)' = DeltasOf(n)
  <1>1. Fragments' = Fragments
    BY DEF Fragments
  <1>2. Ending' = Ending
    BY DEF Ending, Fatal
  <1>3. \A n : DeltasOf(n)' = DeltasOf(n)
    BY DEF DeltasOf
  <1>4. Expected' = Expected
    BY DEF Expected, Ending, DeltasOf, Fatal
  <1> QED
    BY <1>1, <1>2, <1>3, <1>4

LEMMA DeltasType ==
    ASSUME NEW n \in Nat
    PROVE  DeltasOf(n) \in Nat /\ IsFiniteSet({i \in 1..n : script[i] = "delta"})
  <1>1. IsFiniteSet(1..n)
    BY FS_Interval
  <1>2. IsFiniteSet({i \in 1..n : script[i] = "delta"})
    BY <1>1, FS_Subset
  <1> QED
    BY <1>2, FS_CardinalityType DEF DeltasOf

\* One line more is one delta more if the line is one.
LEMMA DeltasOfNext ==
    ASSUME NEW n \in Nat
    PROVE  DeltasOf(n + 1) = IF script[n + 1] = "delta" THEN DeltasOf(n) + 1 ELSE DeltasOf(n)
  <1> DEFINE S(m) == {i \in 1..m : script[i] = "delta"}
  <1>1. IsFiniteSet(S(n))
    BY DeltasType
  <1>2. CASE script[n + 1] = "delta"
    <2>1. S(n + 1) = S(n) \cup {n + 1} /\ n + 1 \notin S(n)
      BY <1>2
    <2> HIDE DEF S
    <2>2. Cardinality(S(n) \cup {n + 1}) = Cardinality(S(n)) + 1
      BY <1>1, <2>1, FS_AddElement
    <2> QED
      BY <1>2, <2>1, <2>2 DEF DeltasOf, S
  <1>3. CASE script[n + 1] # "delta"
    <2>1. S(n + 1) = S(n)
      BY <1>3
    <2> QED
      BY <1>3, <2>1 DEF DeltasOf
  <1> QED
    BY <1>2, <1>3

LEMMA DeltasMonotonic ==
    ASSUME NEW m \in Nat, NEW n \in Nat, m <= n
    PROVE  DeltasOf(m) <= DeltasOf(n)
  <1> DEFINE S(k) == {i \in 1..k : script[i] = "delta"}
  <1>1. S(m) \subseteq S(n) /\ IsFiniteSet(S(n))
    BY DeltasType
  <1> HIDE DEF S
  <1>2. Cardinality(S(m)) <= Cardinality(S(n))
    BY <1>1, FS_Subset
  <1> QED
    BY <1>2 DEF DeltasOf, S

LEMMA LeastNumber ==
    ASSUME NEW S \in SUBSET Nat, S # {}
    PROVE  \E m \in S : \A n \in S : m <= n
  <1> DEFINE Less == {p \in Nat \X Nat : p[1] < p[2]}
  <1>1. IsWellFoundedOn(Less, Nat)
    BY NatLessThanWellFounded DEF OpToRel
  <1>2. \E m \in S : \A n \in S : ~(<<n, m>> \in Less)
    <2> HIDE DEF Less
    <2> QED
      BY <1>1, WFMin
  <1>3. \A m, n \in Nat : ~(<<n, m>> \in Less) => m <= n
    OBVIOUS
  <1> HIDE DEF Less
  <1> QED
    BY <1>2, <1>3

\* The reader is to get the deltas before the first line that ends the stream,
\* or all of them if no line does.
LEMMA ExpectedToEnding ==
    ASSUME NEW n \in Ending, \A i \in Ending : n <= i
    PROVE  Expected = DeltasOf(n)
  <1>1. Ending \subseteq 0..Len(script) /\ Ending \subseteq Int /\ Ending # {}
    BY DEF Ending
  <1>2. n = CHOOSE m \in 0..Len(script) :
              IF Ending = {} THEN m = Len(script)
              ELSE m \in Ending /\ \A i \in Ending : m <= i
    <2>1. \A m \in 0..Len(script) :
            m \in Ending /\ (\A i \in Ending : m <= i) => m = n
      BY <1>1
    <2> QED
      BY <1>1, <2>1
  <1> QED
    BY <1>2 DEF Expected

LEMMA ExpectedToTheLast ==
    ASSUME TypeInv, Ending = {}
    PROVE  Expected = DeltasOf(Len(script))
  <1>1. Len(script) \in Nat
    BY StreamAssumption DEF TypeInv
  <1> QED
    BY <1>1 DEF Expected

\* Lines before that do not bring more.
LEMMA ExpectedIsMore ==
    ASSUME TypeInv, NEW n \in 0..Len(script), \A i \in Ending : n < i
    PROVE  DeltasOf(n) <= Expected
  <1>1. Len(script) \in Nat /\ Ending \subseteq 1..Len(script) /\ Ending \subseteq Nat
    BY StreamAssumption DEF TypeInv, Ending
  <1>2. CASE Ending = {}
    BY <1>1, <1>2, ExpectedToTheLast, DeltasMonotonic
  <1>3. CASE Ending # {}
    <2>1. PICK m \in Ending : \A i \in Ending : m <= i
      BY <1>1, <1>3, LeastNumber
    <2>2. Expected = DeltasOf(m) /\ m \in Nat /\ n < m
      BY <1>1, <2>1, ExpectedToEnding
    <2> QED
      BY <1>1, <2>2, DeltasMonotonic
  <1> QED
    BY <1>2, <1>3

LEMMA ExpectedType ==
    ASSUME TypeInv
    PROVE  Expected \in Nat
  <1>1. Len(script) \in Nat /\ Ending \subseteq 1..Len(script) /\ Ending \subseteq Nat
    BY StreamAssumption DEF TypeInv, Ending
  <1>2. CASE Ending = {}
    BY <1>1, <1>2, ExpectedToTheLast, DeltasType
  <1>3. CASE Ending # {}
    <2>1. PICK m \in Ending : \A i \in Ending : m <= i
      BY <1>1, <1>3, LeastNumber
    <2> QED
      BY <1>1, <2>1, ExpectedToEnding, DeltasType
  <1> QED
    BY <1>2, <1>3

-----------------------------------------------------------------------------
(* What is between the network and the consumer.                           *)

\* A chunk that arrives is the last one in flight.
LEMMA ArriveInFlight ==
    ASSUME TypeInv, InFlight, NEW n \in Nat,
           net' = Append(net, n), arrived' = arrived + n, read' = read
    PROVE  InFlight'
  <1>1. PICK s \in [0..Len(net) -> 0..arrived] :
          /\ s[0] = read /\ s[Len(net)] = arrived
          /\ \A i \in 1..Len(net) : s[i] = s[i - 1] + net[i]
    BY DEF InFlight
  <1>2. net \in Seq(Nat) /\ Len(net) \in Nat /\ arrived \in Nat
    BY DEF TypeInv
  <1> DEFINE t == [i \in 0..Len(net) + 1 |-> IF i <= Len(net) THEN s[i] ELSE arrived + n]
  <1>3. Len(net') = Len(net) + 1 /\ net'[Len(net) + 1] = n
        /\ \A i \in 1..Len(net) : net'[i] = net[i]
    BY <1>2
  <1>4. t \in [0..Len(net') -> 0..arrived']
    BY <1>1, <1>2, <1>3
  <1>5. t[0] = read /\ t[Len(net')] = arrived'
    BY <1>1, <1>2, <1>3
  <1>6. ASSUME NEW i \in 1..Len(net') PROVE t[i] = t[i - 1] + net'[i]
    <2>1. i \in 0..Len(net) + 1 /\ i - 1 \in 0..Len(net) + 1 /\ i - 1 <= Len(net)
      BY <1>2, <1>3
    <2>2. t[i - 1] = s[i - 1]
      BY <2>1
    <2>3. CASE i <= Len(net)
      <3>1. t[i] = s[i] /\ i \in 1..Len(net)
        BY <1>2, <2>1, <2>3
      <3> HIDE DEF t
      <3> QED
        BY <1>1, <1>3, <2>2, <3>1
    <2>4. CASE i = Len(net) + 1
      <3>1. t[i] = arrived + n
        BY <1>2, <2>1, <2>4
      <3>2. t[i - 1] = arrived /\ net'[i] = n
        BY <1>1, <1>2, <1>3, <2>2, <2>4
      <3> HIDE DEF t
      <3> QED
        BY <3>1, <3>2
    <2> QED
      BY <1>2, <2>1, <2>3, <2>4
  <1> HIDE DEF t
  <1> QED
    BY <1>4, <1>5, <1>6 DEF InFlight

\* A chunk that is read is the first one.
LEMMA ReadInFlight ==
    ASSUME TypeInv, InFlight, net # <<>>,
           net' = Tail(net), arrived' = arrived, read' = read + Head(net)
    PROVE  InFlight' /\ read' \in Nat /\ read <= read' /\ read' <= arrived
  <1>1. PICK s \in [0..Len(net) -> 0..arrived] :
          /\ s[0] = read /\ s[Len(net)] = arrived
          /\ \A i \in 1..Len(net) : s[i] = s[i - 1] + net[i]
    BY DEF InFlight
  <1>2. net \in Seq(Nat) /\ Len(net) \in Nat \ {0} /\ arrived \in Nat /\ Head(net) = net[1] /\ net[1] \in Nat
        /\ read \in Nat
    BY DEF TypeInv
  <1> DEFINE t == [i \in 0..Len(net) - 1 |-> s[i + 1]]
  <1>3. Len(net') = Len(net) - 1 /\ \A i \in 1..Len(net') : net'[i] = net[i + 1]
    BY <1>2
  <1>4. s[1] = read'
    BY <1>1, <1>2
  <1>5. t \in [0..Len(net') -> 0..arrived']
    BY SMTT(30), <1>1, <1>2, <1>3
  <1>6. t[0] = read' /\ t[Len(net')] = arrived'
    BY <1>1, <1>2, <1>3, <1>4
  <1>7. \A i \in 1..Len(net') : t[i] = t[i - 1] + net'[i]
    BY <1>1, <1>2, <1>3
  <1>8. InFlight'
    <2> HIDE DEF t
    <2> QED
      BY <1>5, <1>6, <1>7 DEF InFlight
  <1> QED
    BY <1>1, <1>2, <1>4, <1>8

\* What was read has arrived, and with nothing in flight the other way round.
LEMMA ReadHasArrived ==
    ASSUME TypeInv, InFlight
    PROVE  read <= arrived /\ (net = <<>> => read = arrived)
  <1>1. PICK s \in [0..Len(net) -> 0..arrived] : s[0] = read /\ s[Len(net)] = arrived
    BY DEF InFlight
  <1>2. Len(net) \in Nat /\ arrived \in Nat
    BY DEF TypeInv
  <1> QED
    BY <1>1, <1>2

LEMMA SameInFlight ==
    ASSUME InFlight, net' = net, read' = read, arrived' = arrived
    PROVE  InFlight'
  BY DEF InFlight

-----------------------------------------------------------------------------
(* What a line, or the end of an attempt, does.                            *)

\* What follows from a step about the deltas and the verdict of the stream.
ReaderInv == LinesInv /\ EndingInv /\ EveryDeltaArrives /\ TimeoutIsReported

\* The part of the state HandleLine and EndAttempt decide about.
ConsumerType ==
    /\ taken \in Nat /\ delivered \in Nat /\ attempt \in 0..attempts - 1
    /\ consumer \in {"scheduled", "parked", "backoff", "returned"}
    /\ registered \in BOOLEAN /\ failed \in BOOLEAN

LEMMA Numbers ==
    ASSUME TypeInv, FragmentsPerLine * taken <= read, InFlight \/ Flushed
    PROVE  /\ Len(script) \in Nat /\ Fragments \in Nat /\ Fragments = 3 * Len(script)
           /\ arrived \in Nat /\ arrived <= Fragments
           /\ taken \in Nat /\ taken <= Len(script) /\ read \in Nat
           /\ FragmentsPerLine = 3
           /\ Handled \in 0..Len(script) /\ Handled <= taken
           /\ InFlight => 3 * taken <= read /\ read <= arrived /\ Handled = taken
  <1>1. Len(script) \in Nat
    BY StreamAssumption DEF TypeInv
  <1>2. FragmentsPerLine = 3 /\ Fragments = 3 * Len(script)
    BY DEF FragmentsPerLine, Fragments
  <1>3. InFlight => read <= arrived
    BY ReadHasArrived
  <1> QED
    BY <1>1, <1>2, <1>3 DEF TypeInv, Handled

\* A whole line is handled: the next one after all that were.
LEMMA WholeLine ==
    ASSUME TypeInv, ReaderInv, consumer = "scheduled", taken < Len(script), Handled = taken,
           HandleLine(script[taken + 1]), Handled' = taken + 1,
           UNCHANGED <<script, format, arrived, receiving, attempts>>,
           expired' = expired
    PROVE  ReaderInv' /\ ConsumerType' /\ taken' <= Len(script)
  <1> DEFINE n == taken
             line == script[n + 1]
  <1>1. Len(script) \in Nat /\ n \in Nat /\ script \in Seq({"delta", "noise", "broken", "done"})
    BY StreamAssumption DEF TypeInv
  <1>2. Expected' = Expected /\ Ending' = Ending /\ \A m : DeltasOf(m)' = DeltasOf(m)
    BY SameResponse
  <1>3. DeltasOf(n) \in Nat /\ DeltasOf(n + 1) = IF line = "delta" THEN DeltasOf(n) + 1 ELSE DeltasOf(n)
    BY <1>1, DeltasType, DeltasOfNext
  <1>4. /\ taken' = n + 1
        /\ delivered' = IF line = "delta" /\ receiving THEN delivered + 1 ELSE delivered
        /\ consumer' = IF line = "done" \/ Fatal(line) \/ (line = "delta" /\ ~receiving)
                       THEN "returned" ELSE "scheduled"
        /\ failed' = (failed \/ Fatal(line))
        /\ registered' = registered /\ attempt' = attempt
    BY DEF HandleLine
  <1>5. /\ delivered \in Nat /\ delivered <= DeltasOf(n) /\ (receiving => delivered = DeltasOf(n))
        /\ ~failed /\ \A i \in Ending : n < i
    BY DEF TypeInv, ReaderInv, LinesInv, EndingInv
  <1>6. LinesInv'
    <2>1. DeltasOf(Handled)' = DeltasOf(n + 1)
      BY <1>2
    <2> QED
      BY <1>3, <1>4, <1>5, <2>1 DEF LinesInv
  <1>7. line = "done" \/ Fatal(line) => n + 1 \in Ending
    BY <1>1 DEF Ending
  <1>8. line = "done" \/ Fatal(line) => line # "delta"
    BY DEF Fatal
  <1>9. EndingInv'
    <2>1. consumer' # "returned" => n + 1 \notin Ending
      BY <1>1, <1>4 DEF Ending
    <2>2. \A i \in Ending : i \in Nat
      BY <1>1 DEF Ending
    <2>3. consumer' # "returned" => ~failed'
      BY <1>4, <1>5
    <2>4. consumer' # "returned" => \A i \in Ending : n + 1 < i
      BY <1>1, <1>5, <2>1, <2>2
    <2> QED
      BY <1>2, <2>3, <2>4 DEF EndingInv
  <1>10. ASSUME consumer' = "returned", receiving PROVE delivered' = Expected'
    <2>1. n + 1 \in Ending /\ line # "delta"
      BY <1>4, <1>7, <1>8, <1>10
    <2>2. \A i \in Ending : n + 1 <= i
      BY <1>1, <1>5 DEF Ending
    <2>3. Expected = DeltasOf(n + 1)
      BY <2>1, <2>2, ExpectedToEnding
    <2> QED
      BY <1>2, <1>3, <1>4, <1>5, <1>10, <2>1, <2>3
  <1>11. ConsumerType' /\ taken' <= Len(script)
    BY <1>1, <1>4, <1>5 DEF TypeInv, ConsumerType
  <1> QED
    BY <1>6, <1>9, <1>10, <1>11 DEF ReaderInv, EveryDeltaArrives, TimeoutIsReported

\* The beginning of a line that will never be whole: no delta is lost before
\* it, and of the response so much is missing that nothing is promised.
LEMMA PartOfLine ==
    ASSUME TypeInv, ReaderInv, consumer = "scheduled", taken < Len(script), Handled = taken,
           HandleLine("broken"), Handled' = taken,
           arrived + 2 = 3 * (taken + 1), ~expired,
           UNCHANGED <<script, format, arrived, receiving, attempts>>,
           expired' = expired
    PROVE  ReaderInv' /\ ConsumerType' /\ taken' <= Len(script)
  <1>1. Len(script) \in Nat /\ taken \in Nat /\ arrived \in Nat
    BY StreamAssumption DEF TypeInv
  <1>2. /\ Expected' = Expected /\ Ending' = Ending /\ Fragments' = Fragments
        /\ \A m : DeltasOf(m)' = DeltasOf(m)
    BY SameResponse
  <1>3. /\ taken' = taken + 1 /\ delivered' = delivered
        /\ consumer' = IF Fatal("broken") THEN "returned" ELSE "scheduled"
        /\ failed' = (failed \/ Fatal("broken"))
        /\ registered' = registered /\ attempt' = attempt
    BY DEF HandleLine, Fatal
  <1>4. ~failed
    BY DEF ReaderInv, EndingInv
  <1>5. LinesInv'
    <2>1. DeltasOf(Handled)' = DeltasOf(Handled)
      BY <1>2
    <2> QED
      BY <1>3, <2>1 DEF ReaderInv, LinesInv
  <1>6. EndingInv'
    BY <1>2, <1>3, <1>4 DEF ReaderInv, EndingInv
  <1>7. arrived # Fragments /\ arrived # Fragments - 1
    BY <1>1 DEF Fragments, FragmentsPerLine
  <1>8. EveryDeltaArrives' /\ TimeoutIsReported'
    BY <1>2, <1>7 DEF EveryDeltaArrives, TimeoutIsReported
  <1>9. ConsumerType' /\ taken' <= Len(script)
    BY <1>1, <1>3 DEF TypeInv, ConsumerType
  <1> QED
    BY <1>5, <1>6, <1>8, <1>9 DEF ReaderInv

\* An attempt ends: with an error, or because everything that arrived is
\* handled.
LEMMA AttemptEnds ==
    ASSUME TypeInv, ReaderInv, consumer = "scheduled", NEW withError \in BOOLEAN,
           EndAttempt(withError), Handled \in 0..Len(script), Handled' = Handled,
           expired => withError,
           arrived = Fragments \/ (arrived = Fragments - 1 /\ ~withError) => expired \/ Handled = Len(script),
           UNCHANGED <<script, format, arrived, receiving, attempts>>,
           expired' = expired
    PROVE  ReaderInv' /\ ConsumerType' /\ taken' <= Len(script)
  <1>1. Len(script) \in Nat /\ taken \in Nat /\ taken <= Len(script)
    BY StreamAssumption DEF TypeInv
  <1>2. /\ Expected' = Expected /\ Ending' = Ending /\ Fragments' = Fragments
        /\ \A m : DeltasOf(m)' = DeltasOf(m)
    BY SameResponse
  <1>3. /\ taken' = taken /\ delivered' = delivered /\ registered' = registered
        /\ \/ consumer' = "backoff" /\ failed' = failed /\ attempt' \in 0..attempts' - 1
           \/ consumer' = "returned" /\ failed' = withError /\ attempt' \in 0..attempts' - 1
    BY DEF EndAttempt, TypeInv
  <1>4. ~failed /\ \A i \in Ending : Handled < i
    BY DEF ReaderInv, EndingInv
  <1>5. LinesInv'
    <2>1. DeltasOf(Handled)' = DeltasOf(Handled)
      BY <1>2
    <2> QED
      BY <1>3, <2>1 DEF ReaderInv, LinesInv
  <1>6. EndingInv'
    BY <1>2, <1>3, <1>4 DEF EndingInv
  <1>7. ASSUME Handled = Len(script), receiving PROVE delivered = Expected
    <2>1. Ending = {}
      BY <1>1, <1>4, <1>7 DEF Ending
    <2> QED
      BY <1>7, <2>1, ExpectedToTheLast DEF ReaderInv, LinesInv
  <1>8. EveryDeltaArrives' /\ TimeoutIsReported'
    BY <1>2, <1>3, <1>7 DEF EveryDeltaArrives, TimeoutIsReported
  <1>9. ConsumerType' /\ taken' <= Len(script)
    BY <1>1, <1>3 DEF TypeInv, ConsumerType
  <1> QED
    BY <1>5, <1>6, <1>8, <1>9 DEF ReaderInv

\* Meanwhile the consumer goes on, and nothing changes for its reader.
LEMMA GoesOn ==
    ASSUME ReaderInv, consumer # "returned", consumer' # "returned",
           UNCHANGED <<script, format, delivered, failed>>, Handled' = Handled,
           receiving' => receiving
    PROVE  ReaderInv'
  <1>1. /\ Ending' = Ending
        /\ DeltasOf(Handled)' = DeltasOf(Handled)
    BY SameResponse
  <1> QED
    BY <1>1 DEF ReaderInv, LinesInv, EndingInv, EveryDeltaArrives, TimeoutIsReported

-----------------------------------------------------------------------------
LEMMA InitIInv == Init => IInv
  <1> SUFFICES ASSUME Init PROVE IInv
    OBVIOUS
  <1>1. Len(script) \in Nat /\ Fragments = 3 * Len(script) /\ FragmentsPerLine = 3
    BY StreamAssumption DEF Init, Fragments, FragmentsPerLine
  <1>2. TypeInv
    <2>1. attempts \in Nat \ {0}
      BY StreamAssumption DEF Init
    <2>2. net \in Seq(Nat) /\ 0 \in 0..Fragments /\ 0 \in 0..Len(script) /\ 0 \in 0..attempts - 1
      BY <1>1, <2>1 DEF Init
    <2> QED
      BY <2>1, <2>2 DEF Init, TypeInv
  <1>3. ChunksInv
    <2> DEFINE s == [i \in 0..0 |-> 0]
    <2>1. s \in [0..Len(net) -> 0..arrived] /\ s[0] = read /\ s[Len(net)] = arrived
          /\ \A i \in 1..Len(net) : s[i] = s[i - 1] + net[i]
      BY DEF Init
    <2>2. InFlight
      BY <2>1 DEF InFlight
    <2> QED
      BY <1>1, <2>2 DEF Init, ChunksInv
  <1>4. LinesInv
    <2>1. {i \in 1..0 : script[i] = "delta"} = {}
      OBVIOUS
    <2>2. DeltasOf(0) = 0
      BY <2>1, FS_EmptySet DEF DeltasOf
    <2>3. Handled = 0 /\ delivered = 0
      BY DEF Init, Handled, FragmentsPerLine
    <2> QED
      BY <2>2, <2>3 DEF LinesInv
  <1>5. EndingInv
    <2>1. Handled = 0 /\ Ending \subseteq 1..Len(script)
      BY DEF Init, Handled, FragmentsPerLine, Ending
    <2> QED
      BY <1>1, <2>1 DEF Init, EndingInv
  <1> QED
    BY <1>2, <1>3, <1>4, <1>5 DEF Init, IInv, EveryDeltaArrives, TimeoutIsReported

\* The network, the timer and the receiver.
LEMMA WorldIInv ==
    ASSUME IInv,
           \/ \E n \in 1..Fragments : Arrive(n)
           \/ EndBody \/ Expire \/ DropReceiver \/ Resume \/ PollEmpty
    PROVE  IInv'
  <1> USE DEF wire, reader, WakeIfRegistered
  <1>1. TypeInv /\ ChunksInv /\ ReaderInv
    BY DEF IInv, ReaderInv
  <1>2. /\ Len(script) \in Nat /\ Fragments \in Nat /\ FragmentsPerLine = 3
        /\ arrived \in Nat /\ taken \in Nat /\ read \in Nat
        /\ InFlight => 3 * taken <= read /\ read <= arrived /\ Handled = taken
    BY <1>1, Numbers DEF ChunksInv
  <1>3. CASE \E n \in 1..Fragments : Arrive(n)
    <2>1. PICK n \in 1..Fragments : Arrive(n)
      BY <1>3
    <2>2. Fragments' = Fragments /\ n \in Nat /\ net \in Seq(Nat)
      BY <1>1, <1>2, <2>1, SameResponse DEF Arrive, TypeInv
    <2>3. TypeInv'
      <3>1. net' \in Seq(Nat) /\ arrived' \in 0..Fragments
        BY <1>2, <2>1, <2>2 DEF Arrive
      <3>2. /\ UNCHANGED <<format, attempts, script, body, read, taken, attempt, delivered>>
            /\ UNCHANGED <<expired, failed, receiving>>
            /\ consumer' \in {"scheduled", "parked", "backoff", "returned"} /\ registered' \in BOOLEAN
        BY <1>1, <2>1 DEF Arrive, TypeInv
      <3> QED
        BY <1>1, <2>2, <3>1, <3>2 DEF TypeInv
    <2>4. InFlight
      BY <1>1, <2>1 DEF Arrive, ChunksInv, Flushed
    <2>5. InFlight'
      BY <1>1, <2>1, <2>2, <2>4, ArriveInFlight DEF Arrive
    <2>6. ChunksInv'
      BY <1>1, <2>1, <2>5 DEF Arrive, ChunksInv
    <2>7. Handled' = Handled
      BY <1>2, <2>1, <2>4 DEF Arrive, Handled
    <2>8. ReaderInv'
      BY <1>1, <2>1, <2>7, GoesOn DEF Arrive, TypeInv
    <2> QED
      BY <2>3, <2>6, <2>8 DEF IInv, ReaderInv
  <1>4. CASE EndBody \/ Expire \/ DropReceiver \/ Resume \/ PollEmpty
    <2>1. /\ UNCHANGED <<format, attempts, script, arrived, net, read, taken, attempt, delivered, failed>>
          /\ consumer # "returned" /\ consumer' \in {"scheduled", "parked", "backoff"}
          /\ receiving' = receiving \/ receiving' = FALSE
          /\ expired' \in BOOLEAN /\ registered' \in BOOLEAN
          /\ body' = body \/ (body = "open" /\ body' \in {"closed", "reset"})
      BY <1>1, <1>4 DEF EndBody, Expire, DropReceiver, Resume, PollEmpty, TypeInv
    <2>2. Fragments' = Fragments
      BY <2>1, SameResponse
    <2>3. TypeInv'
      BY <1>1, <2>1, <2>2 DEF TypeInv
    <2>4. ChunksInv'
      BY <1>1, <2>1, SameInFlight DEF ChunksInv, Flushed
    <2>5. Handled' = Handled
      BY <2>1 DEF Handled
    <2>6. ReaderInv'
      BY <1>1, <2>1, <2>5, GoesOn
    <2> QED
      BY <2>3, <2>4, <2>6 DEF IInv, ReaderInv
  <1> QED
    BY <1>3, <1>4

\* What a poll leaves of the types to show.
LEMMA PollTypes ==
    ASSUME TypeInv, UNCHANGED <<format, attempts, script, arrived, expired, receiving>>,
           ConsumerType', taken' <= Len(script), net' \in Seq(Nat), read' \in Nat,
           body' \in {"open", "closed", "reset"}
    PROVE  TypeInv'
  <1>1. Fragments' = Fragments /\ Len(script) \in Nat
    BY SameResponse, StreamAssumption DEF TypeInv
  <1> QED
    BY <1>1 DEF TypeInv, ConsumerType

\* The reader has a whole line, at once or after the next chunk.
LEMMA PollLineIInv ==
    ASSUME IInv, PollBuffered \/ PollChunk
    PROVE  IInv'
  <1> USE DEF wire
  <1>1. TypeInv /\ ChunksInv /\ ReaderInv
    BY DEF IInv, ReaderInv
  <1>2. /\ Len(script) \in Nat /\ Fragments = 3 * Len(script) /\ FragmentsPerLine = 3
        /\ arrived \in Nat /\ arrived <= Fragments /\ taken \in Nat /\ read \in Nat
        /\ InFlight => 3 * taken <= read /\ read <= arrived /\ Handled = taken
    BY <1>1, Numbers DEF ChunksInv
  <1>3. /\ UNCHANGED <<format, attempts, script, arrived, body, expired, receiving>>
        /\ consumer = "scheduled"
    BY DEF PollBuffered, PollChunk
  <1>4. InFlight /\ InFlight' /\ read' \in Nat /\ read <= read' /\ read' <= arrived /\ net' \in Seq(Nat)
    <2>1. CASE PollBuffered
      <3>1. InFlight
        BY <1>1, <1>2, <2>1 DEF PollBuffered, HasLine, ChunksInv, Flushed
      <3> QED
        BY <1>1, <1>2, <2>1, <3>1, SameInFlight DEF PollBuffered, TypeInv
    <2>2. CASE PollChunk
      <3>1. InFlight /\ net # <<>> /\ net \in Seq(Nat)
        BY <1>1, <2>2 DEF PollChunk, ChunksInv, Flushed, TypeInv
      <3> QED
        BY <1>1, <1>3, <2>2, <3>1, ReadInFlight DEF PollChunk
    <2> QED
      BY <2>1, <2>2
  <1>5. CASE HandleLine(script[taken + 1]) /\ HasLine(read')
    <2>1. 3 * (taken + 1) <= read' /\ taken < Len(script)
      BY <1>2, <1>4, <1>5 DEF HasLine
    <2>2. taken' = taken + 1
      BY <1>5 DEF HandleLine
    <2>3. Handled' = taken + 1
      BY <1>2, <1>3, <1>4, <2>1, <2>2 DEF Handled
    <2>4. ReaderInv' /\ ConsumerType' /\ taken' <= Len(script)
      BY <1>1, <1>2, <1>3, <1>4, <1>5, <2>1, <2>3, WholeLine
    <2>5. TypeInv'
      BY <1>1, <1>3, <1>4, <2>4, PollTypes DEF TypeInv
    <2>6. ChunksInv'
      BY <1>2, <1>4, <2>1, <2>2 DEF ChunksInv, FragmentsPerLine
    <2> QED
      BY <2>4, <2>5, <2>6 DEF IInv, ReaderInv
  <1>6. CASE UNCHANGED <<taken, attempt, delivered, failed>> /\ consumer' = "parked" /\ registered' = FALSE
    <2>1. ConsumerType' /\ taken' <= Len(script)
      <3>1. taken' \in Nat /\ taken' <= Len(script) /\ delivered' \in Nat
        BY <1>1, <1>2, <1>6 DEF TypeInv
      <3>2. attempt' \in 0..attempts' - 1 /\ failed' \in BOOLEAN /\ registered' \in BOOLEAN
        BY <1>1, <1>3, <1>6 DEF TypeInv
      <3> QED
        BY <1>6, <3>1, <3>2 DEF ConsumerType
    <2>2. TypeInv'
      BY <1>1, <1>3, <1>4, <2>1, PollTypes DEF TypeInv
    <2>3. ChunksInv'
      BY <1>2, <1>4, <1>6 DEF ChunksInv, FragmentsPerLine
    <2>4. Handled' = Handled
      BY <1>3, <1>6 DEF Handled
    <2>5. ReaderInv'
      BY <1>1, <1>3, <1>6, <2>4, GoesOn
    <2> QED
      BY <2>2, <2>3, <2>5 DEF IInv, ReaderInv
  <1> QED
    BY <1>5, <1>6 DEF PollBuffered, PollChunk

\* The timeout or a broken connection ends the attempt with an error.
LEMMA PollErrorIInv ==
    ASSUME IInv, PollExpired \/ PollReset
    PROVE  IInv'
  <1> USE DEF wire
  <1>1. TypeInv /\ ChunksInv /\ ReaderInv
    BY DEF IInv, ReaderInv
  <1>2. /\ Len(script) \in Nat /\ Fragments = 3 * Len(script) /\ FragmentsPerLine = 3
        /\ arrived \in Nat /\ arrived <= Fragments /\ taken \in Nat /\ taken <= Len(script)
        /\ read \in Nat /\ Handled \in 0..Len(script)
        /\ InFlight => 3 * taken <= read /\ read <= arrived /\ Handled = taken
    BY <1>1, Numbers DEF ChunksInv
  <1>3. /\ UNCHANGED <<format, attempts, script, arrived, net, expired, read, receiving>>
        /\ consumer = "scheduled" /\ EndAttempt(TRUE) /\ taken' = taken
        /\ body' \in {"open", "closed", "reset"}
    BY <1>1 DEF PollExpired, PollReset, EndAttempt, TypeInv
  <1>4. Handled' = Handled
    BY <1>3 DEF Handled
  <1>5. arrived = Fragments => expired \/ Handled = Len(script)
    <2>1. CASE PollExpired
      BY <2>1 DEF PollExpired
    <2>2. CASE PollReset
      <3>1. InFlight /\ read = arrived /\ read < 3 * (taken + 1)
        BY <1>1, <1>2, <2>2, ReadHasArrived DEF PollReset, ChunksInv, Flushed, HasLine
      <3> QED
        BY <1>2, <3>1
    <2> QED
      BY <2>1, <2>2
  <1>6. ReaderInv' /\ ConsumerType' /\ taken' <= Len(script)
    BY <1>1, <1>2, <1>3, <1>4, <1>5, AttemptEnds
  <1>7. TypeInv'
    BY <1>1, <1>3, <1>6, PollTypes DEF TypeInv
  <1>8. ChunksInv'
    <2>1. InFlight => InFlight'
      BY <1>3, SameInFlight
    <2>2. Flushed => Flushed'
      BY <1>3 DEF Flushed, PollExpired, PollReset
    <2> QED
      BY <1>1, <1>3, <2>1, <2>2 DEF ChunksInv
  <1> QED
    BY <1>6, <1>7, <1>8 DEF IInv, ReaderInv

\* The body is at its end; what is left in the buffer is looked at first.
LEMMA PollClosedIInv ==
    ASSUME IInv, PollClosed
    PROVE  IInv'
  <1> USE DEF wire
  <1>1. TypeInv /\ ChunksInv /\ ReaderInv
    BY DEF IInv, ReaderInv
  <1>2. /\ Len(script) \in Nat /\ Fragments = 3 * Len(script) /\ FragmentsPerLine = 3
        /\ arrived \in Nat /\ arrived <= Fragments /\ taken \in Nat /\ taken <= Len(script)
        /\ read \in Nat /\ Handled \in 0..Len(script)
        /\ InFlight => 3 * taken <= read /\ read <= arrived /\ Handled = taken
    BY <1>1, Numbers DEF ChunksInv
  <1>3. /\ UNCHANGED <<format, attempts, script, arrived, net, body, expired, receiving>>
        /\ consumer = "scheduled" /\ ~expired /\ net = <<>> /\ body = "closed"
        /\ read < 3 * (taken + 1)
    BY <1>2 DEF PollClosed, HasLine
  <1>4. InFlight => read = arrived
    BY <1>1, <1>3, ReadHasArrived
  <1>5. CASE read <= 3 * taken
    <2>1. EndAttempt(FALSE) /\ read' = read /\ taken' = taken
      BY <1>2, <1>5 DEF PollClosed, EndAttempt
    <2>2. Handled' = Handled
      BY <1>3, <2>1 DEF Handled
    <2>3. arrived = Fragments \/ arrived = Fragments - 1 => Handled = Len(script)
      <3>1. CASE InFlight
        BY <1>2, <1>4, <1>5, <3>1
      <3>2. CASE Flushed
        BY <1>2, <3>2 DEF Flushed, Handled
      <3> QED
        BY <1>1, <3>1, <3>2 DEF ChunksInv
    <2>4. ReaderInv' /\ ConsumerType' /\ taken' <= Len(script)
      BY <1>1, <1>2, <1>3, <2>1, <2>2, <2>3, AttemptEnds
    <2>5. TypeInv'
      BY <1>1, <1>3, <2>1, <2>4, PollTypes DEF TypeInv
    <2>6. ChunksInv'
      BY <1>1, <1>3, <2>1, SameInFlight DEF ChunksInv, Flushed
    <2> QED
      BY <2>4, <2>5, <2>6 DEF IInv, ReaderInv
  <1>6. CASE read > 3 * taken
    <2>1. InFlight /\ read = arrived /\ Handled = taken /\ taken < Len(script)
      BY <1>1, <1>2, <1>4, <1>6 DEF ChunksInv, Flushed
    <2>2. /\ read' = 3 * (taken + 1) /\ taken' = taken + 1
          /\ HandleLine(IF read = 3 * taken + 2 THEN script[taken + 1] ELSE "broken")
      <3>1. /\ read' = FragmentsPerLine * (taken + 1)
            /\ HandleLine(IF read = FragmentsPerLine * taken + 2 THEN script[taken + 1] ELSE "broken")
        <4>1. ~(read <= FragmentsPerLine * taken)
          BY <1>2, <1>6
        <4> QED
          BY <4>1, Zenon DEF PollClosed
      <3>2. taken' = taken + 1
        BY <3>1 DEF HandleLine
      <3> QED
        BY <1>2, <3>1, <3>2, Zenon
    <2>3. ReaderInv' /\ ConsumerType' /\ taken' <= Len(script)
      <3>1. CASE read = 3 * taken + 2
        <4>1. Handled' = taken + 1
          BY <1>2, <1>3, <2>1, <2>2, <3>1 DEF Handled
        <4> QED
          BY <1>1, <1>3, <2>1, <2>2, <3>1, <4>1, WholeLine
      <3>2. CASE read = 3 * taken + 1
        <4>1. arrived + 2 = 3 * (taken + 1)
          BY <1>2, <2>1, <3>2
        <4>2. Handled' = taken
          BY <1>2, <1>3, <2>2, <4>1 DEF Handled
        <4>3. HandleLine("broken")
          BY <1>2, <2>2, <3>2
        <4> QED
          BY <1>1, <1>3, <2>1, <4>1, <4>2, <4>3, PartOfLine
      <3> QED
        BY <1>2, <1>3, <1>6, <3>1, <3>2
    <2>4. TypeInv'
      <3>1. read' \in Nat
        BY <1>2, <2>2
      <3> QED
        BY <1>1, <1>3, <2>3, <3>1, PollTypes DEF TypeInv
    <2>5. Flushed' /\ FragmentsPerLine * taken' <= read'
      BY <1>2, <1>3, <1>6, <2>1, <2>2 DEF Flushed
    <2> QED
      BY <2>3, <2>4, <2>5 DEF IInv, ReaderInv, ChunksInv
  <1> QED
    BY <1>2, <1>5, <1>6

LEMMA NextIInv == IInv /\ [Next]_vars => IInv'
  <1> SUFFICES ASSUME IInv, [Next]_vars PROVE IInv'
    OBVIOUS
  <1>1. CASE UNCHANGED vars
    <2>1. InFlight => InFlight'
      BY <1>1, SameInFlight DEF vars
    <2>2. Ending' = Ending /\ Fragments' = Fragments /\ Expected' = Expected
          /\ DeltasOf(Handled)' = DeltasOf(Handled) /\ Handled' = Handled
      BY <1>1, SameResponse DEF vars, Handled
    <2>3. TypeInv'
      BY <1>1, <2>2 DEF vars, IInv, TypeInv
    <2> QED
      BY <1>1, <2>1, <2>2, <2>3
      DEF vars, IInv, ChunksInv, Flushed, LinesInv, EndingInv, EveryDeltaArrives, TimeoutIsReported
  <1> QED
    BY <1>1, WorldIInv, PollLineIInv, PollErrorIInv, PollClosedIInv DEF Next, Poll

LEMMA InvariantHolds == Spec => []IInv
  BY InitIInv, NextIInv, PTL DEF Spec

\* However the response is cut into chunks, wherever a retry of the consumer
\* falls and even if the connection breaks after the last byte: a reader who
\* stays gets every delta from sse_lines and drive_sse_consumer_with.
THEOREM EveryDeltaArrivesInAStream == Spec => []EveryDeltaArrives
  BY InvariantHolds, PTL DEF IInv

\* A stream that the request's timeout cut short fails: without an error in
\* the channel nothing is missing.
THEOREM TimeoutIsReportedInAStream == Spec => []TimeoutIsReported
  BY InvariantHolds, PTL DEF IInv

-----------------------------------------------------------------------------
(* The channel implements TextStream.                                      *)

LEMMA NotTooMany == IInv /\ consumer # "returned" => delivered <= Expected
  <1> SUFFICES ASSUME IInv, consumer # "returned" PROVE delivered <= Expected
    OBVIOUS
  <1>1. Handled \in 0..Len(script) /\ delivered <= DeltasOf(Handled)
    BY Numbers DEF IInv, ChunksInv, LinesInv
  <1>2. DeltasOf(Handled) <= Expected
    BY <1>1, ExpectedIsMore DEF IInv, EndingInv
  <1>3. script \in Seq({"delta", "noise", "broken", "done"}) /\ delivered \in Nat
    BY StreamAssumption DEF IInv, TypeInv
  <1>4. Handled \in Nat
    BY <1>1, <1>3
  <1>5. DeltasOf(Handled) \in Nat
    BY <1>4, DeltasType
  <1>6. Expected \in Nat
    BY ExpectedType DEF IInv
  <1> QED
    BY <1>1, <1>2, <1>3, <1>5, <1>6

LEMMA NotTooManyNext == (IInv /\ consumer # "returned" => delivered <= Expected)'
  BY NotTooMany, PTL

\* A step hands over one delta while the stream is open, or none; what has
\* ended does not move again.
LEMMA OneAtATime ==
    ASSUME IInv, [Next]_vars
    PROVE  /\ Expected' = Expected
           /\ \/ delivered' = delivered
              \/ delivered' = delivered + 1 /\ consumer # "returned" /\ consumer' # "returned"
           /\ consumer = "returned" => UNCHANGED <<delivered, consumer, failed>>
  <1> USE DEF wire, reader
  <1>1. CASE UNCHANGED vars
    BY <1>1, SameResponse DEF vars
  <1>2. CASE \/ \E n \in 1..Fragments : Arrive(n)
             \/ EndBody \/ Expire \/ DropReceiver \/ Resume \/ PollEmpty
    BY <1>2, SameResponse DEF Arrive, EndBody, Expire, DropReceiver, Resume, PollEmpty
  <1>3. ASSUME NEW line, consumer = "scheduled", HandleLine(line)
        PROVE  \/ delivered' = delivered
               \/ delivered' = delivered + 1 /\ consumer' # "returned"
    BY <1>3 DEF HandleLine, Fatal
  <1>4. CASE PollBuffered
    BY <1>3, <1>4, SameResponse DEF PollBuffered
  <1>5. CASE PollChunk
    BY <1>3, <1>5, SameResponse DEF PollChunk
  <1>6. CASE PollExpired \/ PollReset
    BY <1>6, SameResponse DEF PollExpired, PollReset, EndAttempt
  <1>7. CASE PollClosed
    <2>1. consumer = "scheduled" /\ script' = script /\ format' = format
      BY <1>7 DEF PollClosed
    <2>2. delivered' = delivered \/ (\E line : HandleLine(line))
      BY <1>7 DEF PollClosed, EndAttempt
    <2> QED
      BY <1>3, <2>1, <2>2, SameResponse
  <1> QED
    BY <1>1, <1>2, <1>4, <1>5, <1>6, <1>7 DEF Next, Poll

\* Every step of the stream is one of TextStream's, or none.
LEMMA TextStep == IInv /\ IInv' /\ [Next]_vars => [Text!Next]_(Text!streamVars)
  <1> SUFFICES ASSUME IInv, IInv', [Next]_vars PROVE [Text!Next]_(Text!streamVars)
    OBVIOUS
  <1>1. /\ Expected' = Expected
        /\ \/ delivered' = delivered
           \/ delivered' = delivered + 1 /\ consumer # "returned" /\ consumer' # "returned"
        /\ consumer = "returned" => UNCHANGED <<delivered, consumer, failed>>
    BY OneAtATime
  <1>2. Expected \in Nat /\ delivered \in Nat
    BY ExpectedType DEF IInv, TypeInv
  <1>3. CASE delivered' = delivered + 1 /\ consumer # "returned" /\ consumer' # "returned"
    <2>1. delivered' <= Expected
      BY <1>1, <1>3, NotTooManyNext
    <2> QED
      BY <1>1, <1>2, <1>3, <2>1 DEF Text!Next, Text!Deliver
  <1>4. CASE delivered' = delivered /\ consumer # "returned" /\ consumer' = "returned"
    BY <1>1, <1>4 DEF Text!Next, Text!Finish
  <1>5. CASE delivered' = delivered /\ consumer # "returned" /\ consumer' # "returned"
    BY <1>1, <1>5 DEF Text!streamVars
  <1>6. CASE consumer = "returned"
    BY <1>1, <1>6 DEF Text!streamVars
  <1> QED
    BY <1>1, <1>3, <1>4, <1>5, <1>6

\* To its reader the channel is a TextStream, which is all that StreamQuery
\* relies on: one delta after the other, none twice and none left out, no more
\* than the response has, and then one end.
THEOREM StreamImplementsTextStream == Spec => ImplementsTextStream
  <1>1. Init => Text!Init
    <2> SUFFICES ASSUME Init PROVE Text!Init
      OBVIOUS
    <2>1. Expected \in Nat
      BY InitIInv, ExpectedType DEF IInv
    <2> QED
      BY <2>1 DEF Init, Text!Init
  <1> QED
    BY <1>1, TextStep, InvariantHolds, PTL DEF Spec, ImplementsTextStream, Text!Spec
=============================================================================
