----------------------------- MODULE MCLlmCall -----------------------------
(* Two attempts are enough for a retry and for the failure of a retry, three *)
(* lines for text before and after a line that is skipped or ends it all.    *)
EXTENDS LlmCall

MCScripts == {<<"delta", "delta", "done">>, <<"delta", "noise", "delta">>,
              <<"delta", "broken", "delta">>}
=============================================================================
