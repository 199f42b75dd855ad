---------------------------- MODULE MCHostStream ----------------------------
(* Instances of HostStream for TLC: responses with empty and non-empty       *)
(* bodies, headers of two bytes so that they may be cut.                     *)
EXTENDS HostStream

MCResponses == {<<>>, <<0>>, <<2, 1>>, <<3, 0, 2>>, <<1, 1, 1>>, <<4, 2>>}
ShortResponses == {<<2>>, <<1, 2>>}
=============================================================================
