---------------------------- MODULE MCStandalone ---------------------------
(* Instance of Standalone for TLC: frames with text, with a call, and with   *)
(* arguments for the active call; a record whose token is replaced, and one  *)
(* of another account.                                                       *)
EXTENDS Standalone

RecordTokens == [a1 |-> {"t1", "t2"}, b1 |-> {"u1"}]
RecordIds == DOMAIN RecordTokens

Call(i, n, a) == [id |-> i, name |-> n, args |-> a]

SdkFrames == {
    [text |-> "x", tools |-> <<>>],
    [text |-> "", tools |-> <<Call("a", "f", "1"), Call("b", "g", "")>>],
    [text |-> "", tools |-> <<Call("", "", "2")>>] }
=============================================================================
