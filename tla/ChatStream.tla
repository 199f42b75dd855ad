----------------------------- MODULE ChatStream -----------------------------
(***************************************************************************)
(* What a streaming chat request promises its client, in the plugin and in *)
(* the standalone program: the chunks of one completion, opened by the     *)
(* assistant role, closed by a finish chunk and [DONE]; or an error, and   *)
(* then no [DONE].  A client that has gone is promised nothing.  The       *)
(* chunks come one by one, or all at once and then all of them; a request  *)
(* that is not streamed gets one answer and no chunk.                      *)
(***************************************************************************)
EXTENDS Naturals, Sequences, SequencesExt

VARIABLES
    chunks,    \* the chunks the client was given
    status     \* "open", "complete", "answered", "failed" or "abandoned"

vars == <<chunks, status>>

Finishing(c) == c.finish \in {"stop", "tool_calls"}
Closing(c) == c.finish = "[DONE]"

Init == chunks = <<>> /\ status = "open"

\* What may follow the chunks given so far: the first chunk with output has
\* the role and fixes the completion; a finish chunk follows any number of
\* them, [DONE] follows it, and nothing follows [DONE].
MayFollow(given, c) ==
    IF given = <<>>
    THEN ~Closing(c) /\ (c.role <=> ~Finishing(c))
    ELSE /\ c.attempt = Head(given).attempt
         /\ ~c.role
         /\ ~Closing(Last(given))
         /\ Closing(c) <=> Finishing(Last(given))

Give ==
    /\ status = "open"
    /\ Len(chunks') = Len(chunks) + 1
    /\ chunks = Front(chunks')
    /\ MayFollow(chunks, Last(chunks'))
    /\ UNCHANGED status

Complete == chunks # <<>> /\ Closing(Last(chunks))

GiveAll ==
    /\ status = "open" /\ chunks = <<>>
    /\ status' = "complete" /\ Complete'
    /\ \A i \in 1 .. Len(chunks') :
           MayFollow(SubSeq(chunks', 1, i - 1), chunks'[i])

End ==
    /\ status = "open"
    /\ \/ Complete /\ status' = "complete"
       \/ ~Complete /\ status' \in {"failed", "abandoned"}
       \/ chunks = <<>> /\ status' = "answered"
    /\ UNCHANGED chunks

Next == Give \/ GiveAll \/ End

Spec == Init /\ [][Next]_vars
=============================================================================
