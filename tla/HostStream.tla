----------------------------- MODULE HostStream -----------------------------
(***************************************************************************)
(* How a streamed response reaches an executor of the plugin: the body     *)
(* hostHTTPStreamBody of host_transport.go, which pulls chunks of any size *)
(* from the host, under the envelopeReader of proto.go, which cuts them    *)
(* into Connect frames with io.ReadFull.                                   *)
(*                                                                         *)
(* Byte k of frame i is <<i, k>>; the first HeaderLen bytes of a frame are *)
(* its header, from which the length of its body is read.  The flags of a  *)
(* frame are left out, and a body may fail to decompress.  One executor    *)
(* goroutine reads and closes the body, so its mutex never makes it wait.  *)
(***************************************************************************)
EXTENDS Naturals, Sequences, SequencesExt

CONSTANTS
    HeaderLen,   \* bytes of a frame header (5 in the code)
    Responses,   \* the responses of the upstream: sequences of body lengths
    Truncates    \* whether the host may end a response early, without error

ASSUME HeaderAssumption == HeaderLen \in Nat \ {0}
ASSUME ResponsesAssumption == Responses \subseteq Seq(Nat)
ASSUME TruncatesAssumption == Truncates \in BOOLEAN

VARIABLES
    lens,        \* the body lengths of this response
    wire,        \* bytes the host has not handed over yet
    remainder,   \* body.remainder
    done,        \* body.done
    closed,      \* body.closed
    phase,       \* which part of a frame is being read: "header" or "body"
    need,        \* size of the buffer io.ReadFull is filling
    buf,         \* what it holds
    frames,      \* frame bodies returned to the executor
    outcome      \* how the executor's reading ended

body == <<remainder, done, closed>>
reader == <<phase, need, buf, frames, outcome>>
vars == <<lens, wire, body, reader>>

FrameBody(i) == [k \in 1 .. lens[i] |-> <<i, HeaderLen + k>>]
FrameBytes(i) == [k \in 1 .. HeaderLen + lens[i] |-> <<i, k>>]
Bodies == [i \in 1 .. Len(lens) |-> FrameBody(i)]
Response == FlattenSeq([i \in 1 .. Len(lens) |-> FrameBytes(i)])

Init ==
    /\ lens \in Responses
    /\ wire \in (IF Truncates THEN Prefixes(Response) ELSE {Response})
    /\ remainder = <<>>
    /\ done = FALSE
    /\ closed = FALSE
    /\ phase = "header"
    /\ need = HeaderLen
    /\ buf = <<>>
    /\ frames = <<>>
    /\ outcome = "reading"

-----------------------------------------------------------------------------
Drop(s, n) == SubSeq(s, n + 1, Len(s))
Least(m, n) == IF m < n THEN m ELSE n

\* io.ReadFull asks the body for what its buffer still lacks.
Filling == outcome = "reading" /\ Len(buf) < need

KeepsNothing(payload, n) == <<>>

\* What Read keeps of a payload of which n bytes fitted the caller's buffer.
Kept(payload, n) == Drop(payload, n)

\* Read gives the caller as much of payload as its buffer takes.
Copy(payload) ==
    LET n == Least(Len(payload), need - Len(buf))
    IN  /\ buf' = buf \o SubSeq(payload, 1, n)
        /\ remainder' = Kept(payload, n)

\* Read returned io.EOF: io.ReadFull passes it on when its buffer is empty and
\* makes io.ErrUnexpectedEOF of it otherwise.
EndOfData == outcome' = IF buf = <<>> THEN "eof" ELSE "error"

\* Read: bytes left from the last payload come first.
CopyRemainder ==
    /\ Filling
    /\ remainder # <<>>
    /\ Copy(remainder)
    /\ UNCHANGED <<lens, wire, done, closed, phase, need, frames, outcome>>

ReadAtEnd ==
    /\ Filling
    /\ remainder = <<>>
    /\ done \/ closed
    /\ EndOfData
    /\ UNCHANGED <<lens, wire, body, phase, need, buf, frames>>

\* Read calls host.http.stream_read.  A response without payload that is not
\* the last one makes it call again, which changes nothing.
HostCallable == Filling /\ remainder = <<>> /\ ~done /\ ~closed

DropLastPayload(n, last) ==
    /\ HostCallable
    /\ n \in 1 .. Len(wire)
    /\ last => n = Len(wire)
    /\ wire' = Drop(wire, n)
    /\ done' = last
    /\ IF last THEN EndOfData /\ UNCHANGED <<buf, remainder>>
       ELSE Copy(SubSeq(wire, 1, n)) /\ UNCHANGED outcome
    /\ UNCHANGED <<lens, closed, phase, need, frames>>

\* A payload is delivered even when the host says in the same response that
\* it is the last one.
ReadPayload(n, last) ==
    /\ HostCallable
    /\ n \in 1 .. Len(wire)
    /\ last => n = Len(wire)
    /\ wire' = Drop(wire, n)
    /\ done' = last
    /\ Copy(SubSeq(wire, 1, n))
    /\ UNCHANGED <<lens, closed, phase, need, frames, outcome>>

ReadDone ==
    /\ HostCallable
    /\ wire = <<>>
    /\ done' = TRUE
    /\ EndOfData
    /\ UNCHANGED <<lens, wire, remainder, closed, phase, need, buf, frames>>

ReadError ==
    /\ HostCallable
    /\ done' = TRUE
    /\ outcome' = "error"
    /\ UNCHANGED <<lens, wire, remainder, closed, phase, need, buf, frames>>

\* envelopeReader.read has a whole header: it makes a buffer for the body.
HeaderComplete ==
    /\ outcome = "reading"
    /\ phase = "header"
    /\ Len(buf) = need
    /\ phase' = "body"
    /\ need' = lens[buf[1][1]]
    /\ buf' = <<>>
    /\ UNCHANGED <<lens, wire, body, frames, outcome>>

\* It has the whole body: the frame is returned, and the executor's loop calls
\* read again.
BodyComplete ==
    /\ outcome = "reading"
    /\ phase = "body"
    /\ Len(buf) = need
    /\ frames' = Append(frames, buf)
    /\ phase' = "header"
    /\ need' = HeaderLen
    /\ buf' = <<>>
    /\ UNCHANGED <<lens, wire, body, outcome>>

\* A compressed body that does not decompress is an error of read.
BodyCorrupt ==
    /\ outcome = "reading"
    /\ phase = "body"
    /\ Len(buf) = need
    /\ need > 0
    /\ outcome' = "error"
    /\ UNCHANGED <<lens, wire, body, phase, need, buf, frames>>

\* Between two frames the executor may return: a trailer with an error, or a
\* chunk that could not be emitted.
Stop ==
    /\ outcome = "reading"
    /\ phase = "header"
    /\ buf = <<>>
    /\ outcome' = "stopped"
    /\ UNCHANGED <<lens, wire, body, phase, need, buf, frames>>

CloseAfterEof ==
    /\ outcome = "eof"
    /\ ~closed
    /\ closed' = TRUE
    /\ done' = TRUE
    /\ remainder' = <<>>
    /\ UNCHANGED <<lens, wire, reader>>

\* The executor's deferred Close.
Close ==
    /\ outcome # "reading"
    /\ ~closed
    /\ closed' = TRUE
    /\ done' = TRUE
    /\ remainder' = <<>>
    /\ UNCHANGED <<lens, wire, reader>>

ReadStep ==
    \/ CopyRemainder
    \/ ReadAtEnd
    \/ \E n \in 1 .. Len(wire), last \in BOOLEAN : ReadPayload(n, last)
    \/ ReadDone
    \/ ReadError
    \/ HeaderComplete
    \/ BodyComplete
    \/ BodyCorrupt

Next == ReadStep \/ Stop \/ Close

\* The goroutine runs and the host answers the reads it is asked for.
Spec == Init /\ [][Next]_vars /\ WF_vars(ReadStep) /\ WF_vars(Close)

-----------------------------------------------------------------------------
Consumed ==
    FlattenSeq([i \in 1 .. Len(frames) |-> FrameBytes(i)]) \o
        (IF phase = "body" THEN SubSeq(FrameBytes(Len(frames) + 1), 1, HeaderLen)
         ELSE <<>>)

\* However the host cuts the response and wherever a frame ends in a payload,
\* no byte is lost, repeated or moved: the bytes consumed, those in the reader's
\* buffer, in the body's remainder and still with the host are the response.
NoByteLost ==
    outcome = "reading" =>
        LET all == Consumed \o buf \o remainder \o wire
        IN  IsPrefix(all, Response) /\ (~Truncates => all = Response)

\* The executor's frames are those of the response, whole and in order, and it
\* sees the end only after the last of them.
Source == INSTANCE FrameSource WITH sent <- Bodies, taken <- frames, status <- outcome
FramesInOrder == Source!Spec

\* "io.EOF signals the end" (comment of envelopeReader.read): read returns it
\* between two frames, never in the middle of one.
EofBetweenFrames == outcome = "eof" => phase = "header"

\* However the executor's reading ends, the stream of the host is closed.
EventuallyClosed == <>closed
=============================================================================
