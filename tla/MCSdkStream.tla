---------------------------- MODULE MCSdkStream ----------------------------
(* Instance of SdkStream for TLC: frames with text, with a call, and with    *)
(* arguments for the active call.                                            *)
EXTENDS SdkStream

Call(i, n, a) == [id |-> i, name |-> n, args |-> a]

SdkFrames == {
    [text |-> "x", tools |-> <<>>],
    [text |-> "", tools |-> <<Call("a", "f", "1"), Call("b", "g", "")>>],
    [text |-> "", tools |-> <<Call("", "", "2")>>] }
=============================================================================
