---------------------------- MODULE FrameSource ----------------------------
(***************************************************************************)
(* What the reader of a Connect response promises to the executors that    *)
(* drain it: the frames of the response one by one, whole and in order,    *)
(* then either the end, once all of them were given, or an error.          *)
(***************************************************************************)
EXTENDS Sequences, SequencesExt

VARIABLES
    sent,     \* the frames of the response
    taken,    \* the frames the executor was given
    status    \* "reading", "eof", "error", or "stopped" by the executor

vars == <<sent, taken, status>>

Init ==
    /\ taken = <<>>
    /\ status = "reading"

Deliver ==
    /\ status = "reading"
    /\ taken # sent
    /\ taken' = Append(taken, sent[Len(taken) + 1])
    /\ UNCHANGED <<sent, status>>

End ==
    /\ status = "reading"
    /\ taken = sent
    /\ status' = "eof"
    /\ UNCHANGED <<sent, taken>>

Interrupt ==
    /\ status = "reading"
    /\ status' \in {"error", "stopped"}
    /\ UNCHANGED <<sent, taken>>

Next == Deliver \/ End \/ Interrupt

Spec == Init /\ [][Next]_vars
=============================================================================
