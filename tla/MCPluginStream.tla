--------------------------- MODULE MCPluginStream ---------------------------
(* Instance of PluginStream for TLC: frames with text, with the start of a  *)
(* call, with arguments routed by id or to the active call, and with several *)
(* calls.                                                                    *)
EXTENDS PluginStream

Call(i, n, a) == [id |-> i, name |-> n, args |-> a]
Data(t, calls) == [text |-> t, tools |-> calls]

\* Frames as chat.go describes them: the frame that starts a call names it.
StartFrames == {
    Data("x", <<>>),
    Data("y", <<Call("a", "f", "")>>),
    Data("", <<Call("", "", "1")>>),
    Data("", <<Call("a", "f", "2")>>),
    Data("", <<Call("b", "g", "3"), Call("a", "f", "4")>>) }
=============================================================================
