----------------------------- MODULE TextStream -----------------------------
(***************************************************************************)
(* What a consumer of LlmClient::stream_plan may rely on: text deltas come *)
(* one by one, in the order the model produced them, none twice and none   *)
(* left out in between; then the stream ends, or fails, once and for all.  *)
(* An end is no promise that the response was complete.                    *)
(***************************************************************************)
EXTENDS Naturals

VARIABLES
    length,      \* deltas of the model's response
    delivered,   \* deltas handed out so far
    outcome      \* "open", then "ended" or "failed"

streamVars == <<length, delivered, outcome>>

Init == length \in Nat /\ delivered = 0 /\ outcome = "open"

Deliver ==
    /\ outcome = "open"
    /\ delivered < length
    /\ delivered' = delivered + 1
    /\ UNCHANGED <<length, outcome>>

Finish ==
    /\ outcome = "open"
    /\ outcome' \in {"ended", "failed"}
    /\ UNCHANGED <<length, delivered>>

Next == Deliver \/ Finish

Spec == Init /\ [][Next]_streamVars
=============================================================================
