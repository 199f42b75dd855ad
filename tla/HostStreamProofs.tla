-------------------------- MODULE HostStreamProofs --------------------------
(***************************************************************************)
(* What the reader of a response keeps for responses of any number of      *)
(* frames and frames of any length, for headers of any length, and however *)
(* the host cuts the response into payloads.                               *)
(*                                                                         *)
(* The inductive invariant says where every byte is: behind the bytes the  *)
(* frames were made of come the buffer, the remainder and what the host    *)
(* still has.  That a header read at this place is that of the next frame, *)
(* and a body its body, follows by cutting the response at the same place. *)
(***************************************************************************)
EXTENDS HostStream, SequenceLemmas

Byte == Nat \X Nat

\* The bytes of the first n frames, and the header of frame i.
FirstFrames(n) == FlattenSeq([i \in 1 .. n |-> FrameBytes(i)])
Header(i) == SubSeq(FrameBytes(i), 1, HeaderLen)

LEMMA FrameTyped ==
    ASSUME lens \in Seq(Nat), NEW i \in 1 .. Len(lens)
    PROVE  /\ lens[i] \in Nat
           /\ FrameBytes(i) \in Seq(Byte) /\ Len(FrameBytes(i)) = HeaderLen + lens[i]
           /\ FrameBody(i) \in Seq(Byte) /\ Len(FrameBody(i)) = lens[i]
           /\ Header(i) \in Seq(Byte) /\ Len(Header(i)) = HeaderLen
           /\ Header(i)[1] = <<i, 1>>
           /\ FrameBytes(i) = Header(i) \o FrameBody(i)
<1> USE HeaderAssumption
<1>1. lens[i] \in Nat /\ i \in Nat
  OBVIOUS
<1>2. FrameBytes(i) \in Seq(Byte) /\ Len(FrameBytes(i)) = HeaderLen + lens[i]
  BY <1>1 DEF FrameBytes, Byte
<1>3. FrameBody(i) \in Seq(Byte) /\ Len(FrameBody(i)) = lens[i]
  <2>1. \A k \in 1 .. lens[i] : <<i, HeaderLen + k>> \in Byte
    BY <1>1 DEF Byte
  <2> QED
    BY <1>1, <2>1 DEF FrameBody
<1>4. HeaderLen \in 0 .. Len(FrameBytes(i))
  BY <1>1, <1>2
<1>5. /\ Header(i) \in Seq(Byte) /\ Len(Header(i)) = HeaderLen
      /\ \A k \in 1 .. HeaderLen : Header(i)[k] = FrameBytes(i)[k]
  BY <1>2, <1>4, CutAt DEF Header
<1>6. \A k \in 1 .. HeaderLen + lens[i] : FrameBytes(i)[k] = <<i, k>>
  BY DEF FrameBytes
<1>7. \A k \in 1 .. lens[i] : FrameBody(i)[k] = <<i, HeaderLen + k>>
  BY DEF FrameBody
<1>8. FrameBytes(i) = Header(i) \o FrameBody(i)
  <2>1. \A k \in 1 .. HeaderLen : FrameBytes(i)[k] = Header(i)[k]
    BY <1>5
  <2>2. ASSUME NEW k \in 1 .. lens[i] PROVE FrameBytes(i)[HeaderLen + k] = FrameBody(i)[k]
    <3>1. HeaderLen + k \in 1 .. HeaderLen + lens[i]
      BY <1>1
    <3> QED
      BY <3>1, <1>6, <1>7
  <2>3. /\ Len(FrameBytes(i)) = Len(Header(i)) + Len(FrameBody(i))
        /\ \A k \in 1 .. Len(Header(i)) : FrameBytes(i)[k] = Header(i)[k]
        /\ \A k \in 1 .. Len(FrameBody(i)) :
               FrameBytes(i)[Len(Header(i)) + k] = FrameBody(i)[k]
    BY <1>2, <1>3, <1>5, <2>1, <2>2
  <2> QED
    BY <1>2, <1>3, <1>5, <2>3, ConcatOf, Zenon
<1>9. Header(i)[1] = <<i, 1>>
  <2>1. 1 \in 1 .. HeaderLen /\ 1 \in 1 .. HeaderLen + lens[i]
    BY <1>1
  <2> QED
    BY <2>1, <1>5, <1>6
<1> QED
  BY <1>1, <1>2, <1>3, <1>5, <1>8, <1>9

LEMMA BytesAssociate ==
    \A s, t, u \in Seq(Byte) : (s \o t) \o u = s \o (t \o u)
  BY ConcatAssociates

-----------------------------------------------------------------------------
\* The response, frame by frame.
LEMMA FramesOnes ==
    ASSUME lens \in Seq(Nat), NEW n \in 0 .. Len(lens)
    PROVE  [i \in 1 .. n |-> FrameBytes(i)] \in Seq(Seq(Byte))
<1>1. \A i \in 1 .. n : FrameBytes(i) \in Seq(Byte)
  BY FrameTyped
<1> QED
  BY <1>1

AllFrames == [i \in 1 .. Len(lens) |-> FrameBytes(i)]

LEMMA AllFramesIs ==
    ASSUME lens \in Seq(Nat)
    PROVE  /\ AllFrames \in Seq(Seq(Byte)) /\ Len(AllFrames) = Len(lens)
           /\ \A n \in 0 .. Len(lens) : FirstFrames(n) = FlattenSeq(SubSeq(AllFrames, 1, n))
           /\ \A n \in Nat : n < Len(lens) => AllFrames[n + 1] = FrameBytes(n + 1)
<1>1. AllFrames \in Seq(Seq(Byte))
  BY FramesOnes DEF AllFrames
<1>2. Len(AllFrames) = Len(lens) /\ \A i \in 1 .. Len(lens) : AllFrames[i] = FrameBytes(i)
  BY DEF AllFrames
<1>3. ASSUME NEW n \in 0 .. Len(lens)
      PROVE  FirstFrames(n) = FlattenSeq(SubSeq(AllFrames, 1, n))
  <2>1. [i \in 1 .. n |-> FrameBytes(i)] = SubSeq(AllFrames, 1, n)
    BY DEF AllFrames
  <2> QED
    BY <2>1 DEF FirstFrames
<1> QED
  BY <1>1, <1>2, <1>3

LEMMA FirstFramesIs ==
    ASSUME lens \in Seq(Nat)
    PROVE  /\ FirstFrames(0) = <<>>
           /\ \A n \in 0 .. Len(lens) : FirstFrames(n) \in Seq(Byte)
           /\ \A n \in 0 .. Len(lens) :
                  n < Len(lens) => FirstFrames(n + 1) = FirstFrames(n) \o FrameBytes(n + 1)
           /\ Response = FirstFrames(Len(lens))
<1>1. FirstFrames(0) = <<>>
  <2>1. [i \in 1 .. 0 |-> FrameBytes(i)] = <<>>
    OBVIOUS
  <2> QED
    BY <2>1, FlattenEmpty DEF FirstFrames
<1>2. \A n \in 0 .. Len(lens) : FirstFrames(n) \in Seq(Byte)
  BY FramesOnes, FlattenTyped DEF FirstFrames
<1>3. ASSUME NEW n \in 0 .. Len(lens), n < Len(lens)
      PROVE  FirstFrames(n + 1) = FirstFrames(n) \o FrameBytes(n + 1)
  <2>1. n \in Nat /\ n + 1 \in 0 .. Len(lens)
    BY <1>3
  <2>2. FlattenSeq(SubSeq(AllFrames, 1, n + 1)) =
            FlattenSeq(SubSeq(AllFrames, 1, n)) \o AllFrames[n + 1]
    BY <1>3, <2>1, AllFramesIs, FlattenFirst
  <2> QED
    BY <1>3, <2>1, <2>2, AllFramesIs, Zenon
<1>4. Response = FirstFrames(Len(lens))
  BY DEF Response, FirstFrames
<1> QED
  BY <1>1, <1>2, <1>3, <1>4

\* The first frames are followed by the next one, if there is one.
LEMMA ResponseFrom ==
    ASSUME lens \in Seq(Nat), NEW n \in 0 .. Len(lens), n < Len(lens)
    PROVE  \E rest \in Seq(Byte) :
              Response = FirstFrames(n) \o (FrameBytes(n + 1) \o rest)
<1>1. n \in Nat
  OBVIOUS
<1>2. PICK rest \in Seq(Byte) :
         FlattenSeq(AllFrames) = FlattenSeq(SubSeq(AllFrames, 1, n)) \o (AllFrames[n + 1] \o rest)
  BY <1>1, AllFramesIs, FlattenCut
<1>3. Response = FlattenSeq(AllFrames)
  BY DEF Response, AllFrames
<1> QED
  BY <1>1, <1>2, <1>3, AllFramesIs, Zenon

-----------------------------------------------------------------------------
HostTyped ==
    /\ lens \in Responses
    /\ wire \in Seq(Byte) /\ remainder \in Seq(Byte) /\ buf \in Seq(Byte)
    /\ done \in BOOLEAN /\ closed \in BOOLEAN
    /\ phase \in {"header", "body"}
    /\ need \in Nat /\ Len(buf) <= need
    /\ frames \in Seq(Seq(Byte))
    /\ outcome \in {"reading", "eof", "error", "stopped"}

\* The frames given are the first ones, whole; what is read next is the header
\* or the body of the one after them.
Placed ==
    /\ Len(frames) <= Len(lens)
    /\ \A i \in 1 .. Len(frames) : frames[i] = FrameBody(i)
    /\ phase = "header" => need = HeaderLen
    /\ phase = "body" => Len(frames) < Len(lens) /\ need = lens[Len(frames) + 1]
    /\ outcome = "reading" => ~closed /\ (done => wire = <<>>)

Unread == buf \o (remainder \o wire)

\* Consumed and unread bytes make up the response, but for what a truncated
\* response has lost.
Covered ==
    outcome = "reading" =>
        \E rest \in Seq(Byte) : /\ Response = (Consumed \o Unread) \o rest
                                /\ ~Truncates => rest = <<>>

HostInv == HostTyped /\ Placed /\ Covered

LEMMA LensTyped == HostTyped => lens \in Seq(Nat)
  BY ResponsesAssumption DEF HostTyped

LEMMA ConsumedIs ==
    ASSUME HostTyped, Placed
    PROVE  /\ Consumed \in Seq(Byte)
           /\ FirstFrames(Len(frames)) \in Seq(Byte)
           /\ Len(frames) \in 0 .. Len(lens)
           /\ phase = "header" => Consumed = FirstFrames(Len(frames))
           /\ phase = "body" =>
                  Consumed = FirstFrames(Len(frames)) \o Header(Len(frames) + 1)
<1>1. Len(frames) \in 0 .. Len(lens)
  BY DEF HostTyped, Placed
<1>2. FirstFrames(Len(frames)) \in Seq(Byte)
  BY <1>1, LensTyped, FirstFramesIs
<1>3. CASE phase = "header"
  <2>1. Consumed = FirstFrames(Len(frames)) \o <<>>
    BY <1>3 DEF Consumed, FirstFrames
  <2> QED
    BY <1>1, <1>2, <1>3, <2>1, ConcatEmpty
<1>4. CASE phase = "body"
  <2>1. Consumed = FirstFrames(Len(frames)) \o Header(Len(frames) + 1)
    BY <1>4 DEF Consumed, FirstFrames, Header
  <2>2. Len(frames) + 1 \in 1 .. Len(lens)
    BY <1>1, <1>4 DEF Placed, HostTyped
  <2>3. Header(Len(frames) + 1) \in Seq(Byte)
    BY <2>2, LensTyped, FrameTyped
  <2> QED
    BY <1>1, <1>2, <1>4, <2>1, <2>3, ConcatTyped
<1> QED
  BY <1>3, <1>4 DEF HostTyped

LEMMA UnreadTyped == HostTyped => Unread \in Seq(Byte)
<1> SUFFICES ASSUME HostTyped PROVE Unread \in Seq(Byte)
  OBVIOUS
<1>1. remainder \o wire \in Seq(Byte)
  BY ConcatTyped DEF HostTyped
<1> QED
  BY <1>1, ConcatTyped DEF HostTyped, Unread

LEMMA HostInitially == Init => HostInv
<1> SUFFICES ASSUME Init PROVE HostInv
  OBVIOUS
<1>1. lens \in Seq(Nat)
  BY ResponsesAssumption DEF Init
<1>2. Response \in Seq(Byte)
  BY <1>1, FirstFramesIs
<1>3. PICK n \in 0 .. Len(Response) :
         wire = SubSeq(Response, 1, n) /\ (~Truncates => n = Len(Response))
  BY <1>2 DEF Init, Prefixes
<1> DEFINE rest == SubSeq(Response, n + 1, Len(Response))
<1>4. /\ wire \in Seq(Byte) /\ rest \in Seq(Byte) /\ wire \o rest = Response
      /\ Len(rest) = Len(Response) - n
  BY <1>2, <1>3, CutAt
<1>5. HostTyped
  <2>1. <<>> \in Seq(Byte) /\ <<>> \in Seq(Seq(Byte)) /\ Len(<<>>) = 0
    OBVIOUS
  <2>2. need \in Nat /\ Len(buf) <= need
    BY <2>1, HeaderAssumption DEF Init
  <2> QED
    BY <1>4, <2>1, <2>2, Zenon DEF Init, HostTyped
<1>6. Placed
  BY <1>1 DEF Init, Placed
<1>7. Consumed = <<>>
  BY <1>1, <1>5, <1>6, ConsumedIs, FirstFramesIs DEF Init
<1>8. Unread = wire
  <2>1. <<>> \o wire = wire
    BY <1>4, ConcatEmpty
  <2> QED
    BY <2>1 DEF Init, Unread
<1>9. (Consumed \o Unread) \o rest = Response
  BY <1>4, <1>7, <1>8, ConcatEmpty
<1>10. ~Truncates => rest = <<>>
  <2>1. ~Truncates => Len(rest) = 0
    BY <1>2, <1>3, <1>4
  <2> HIDE DEF rest
  <2> QED
    BY <1>4, <2>1
<1> HIDE DEF rest
<1> QED
  BY <1>4, <1>5, <1>6, <1>9, <1>10 DEF HostInv, Covered

-----------------------------------------------------------------------------
\* Steps that move no byte past the reader.
LEMMA BytesStay ==
    ASSUME Covered, outcome = "reading", lens' = lens,
           Consumed' = Consumed, Unread' = Unread
    PROVE  Covered'
<1>1. Response' = Response
  BY DEF Response, FrameBytes
<1> QED
  BY <1>1 DEF Covered

LEMMA ConsumedStays ==
    ASSUME UNCHANGED <<lens, frames, phase>>
    PROVE  Consumed' = Consumed
  BY DEF Consumed, FrameBytes

LEMMA CopyMoves ==
    ASSUME HostTyped, NEW payload \in Seq(Byte), Copy(payload)
    PROVE  /\ buf' \in Seq(Byte) /\ remainder' \in Seq(Byte)
           /\ Len(buf') <= need
           /\ buf' \o remainder' = buf \o payload
<1> DEFINE n == Least(Len(payload), need - Len(buf))
<1>1. n \in 0 .. Len(payload) /\ n <= need - Len(buf)
  BY DEF HostTyped, Least
<1> HIDE DEF n
<1> DEFINE head == SubSeq(payload, 1, n)
           tail == SubSeq(payload, n + 1, Len(payload))
<1>2. /\ head \in Seq(Byte) /\ Len(head) = n
      /\ tail \in Seq(Byte) /\ head \o tail = payload
  BY <1>1, CutAt
<1>3. buf' = buf \o head /\ remainder' = tail
  BY DEF Copy, Kept, Drop, n
<1> HIDE DEF head, tail
<1>4. buf \in Seq(Byte) /\ need \in Nat
  BY DEF HostTyped
<1>5. buf' \in Seq(Byte) /\ Len(buf') = Len(buf) + n
  BY <1>2, <1>3, <1>4, ConcatTyped, ConcatIs
<1>6. (buf \o head) \o tail = buf \o (head \o tail)
  BY <1>2, <1>4, BytesAssociate, Zenon
<1> QED
  BY <1>1, <1>2, <1>3, <1>4, <1>5, <1>6

\* Read hands bytes over, or says that there are none, and the reader fills
\* its buffer with them.
LEMMA ReadKeeps ==
    ASSUME HostInv,
           \/ CopyRemainder
           \/ ReadAtEnd
           \/ \E n \in 1 .. Len(wire), last \in BOOLEAN : ReadPayload(n, last)
           \/ ReadDone
           \/ ReadError
    PROVE  HostInv'
<1> USE DEF HostInv, HostCallable, Filling
<1>1. CASE CopyRemainder
  <2>1. Copy(remainder) /\ UNCHANGED <<lens, wire, done, closed, phase, need, frames, outcome>>
    BY <1>1 DEF CopyRemainder
  <2>2. /\ buf' \in Seq(Byte) /\ remainder' \in Seq(Byte)
        /\ Len(buf') <= need /\ buf' \o remainder' = buf \o remainder
    BY <2>1, CopyMoves DEF HostTyped
  <2>3. HostTyped'
    BY <2>1, <2>2 DEF HostTyped
  <2>4. Placed'
    BY <2>1 DEF Placed, FrameBody
  <2>5. Unread' = Unread
    <3>1. (buf' \o remainder') \o wire = buf' \o (remainder' \o wire)
      BY <2>2, BytesAssociate, Zenon DEF HostTyped
    <3>2. (buf \o remainder) \o wire = buf \o (remainder \o wire)
      BY BytesAssociate, Zenon DEF HostTyped
    <3>3. wire' = wire
      BY <2>1
    <3> QED
      BY <2>2, <3>1, <3>2, <3>3, Zenon DEF Unread
  <2>6. Covered'
    BY <1>1, <2>1, <2>5, ConsumedStays, BytesStay DEF CopyRemainder
  <2> QED
    BY <2>3, <2>4, <2>6
<1>2. CASE ReadAtEnd \/ ReadDone \/ ReadError
  <2>1. UNCHANGED <<lens, wire, remainder, closed, phase, need, buf, frames>>
    BY <1>2 DEF ReadAtEnd, ReadDone, ReadError, body
  <2>2. outcome' \in {"eof", "error"} /\ done' \in BOOLEAN
    BY <1>2 DEF ReadAtEnd, ReadDone, ReadError, EndOfData, HostTyped, body
  <2>3. HostTyped'
    BY <2>1, <2>2 DEF HostTyped
  <2>4. Placed'
    BY <2>1, <2>2 DEF Placed, FrameBody
  <2>5. Covered'
    BY <2>2 DEF Covered
  <2> QED
    BY <2>3, <2>4, <2>5
<1>3. ASSUME NEW n \in 1 .. Len(wire), NEW last \in BOOLEAN, ReadPayload(n, last)
      PROVE  HostInv'
  <2> DEFINE payload == SubSeq(wire, 1, n)
             left == SubSeq(wire, n + 1, Len(wire))
  <2>1. n \in 0 .. Len(wire) /\ wire \in Seq(Byte)
    BY DEF HostTyped
  <2>2. /\ payload \in Seq(Byte) /\ left \in Seq(Byte) /\ Len(left) = Len(wire) - n
        /\ payload \o left = wire
    BY <2>1, CutAt
  <2>3. /\ Copy(payload) /\ wire' = left /\ done' = last /\ (last => n = Len(wire))
        /\ remainder = <<>> /\ outcome = "reading"
        /\ UNCHANGED <<lens, closed, phase, need, frames, outcome>>
    BY <1>3 DEF ReadPayload, Drop
  <2> HIDE DEF payload, left
  <2>4. /\ buf' \in Seq(Byte) /\ remainder' \in Seq(Byte)
        /\ Len(buf') <= need /\ buf' \o remainder' = buf \o payload
    BY <2>2, <2>3, CopyMoves
  <2>5. HostTyped'
    BY <2>2, <2>3, <2>4 DEF HostTyped
  <2>6. Placed'
    <3>1. last => wire' = <<>>
      BY <2>1, <2>2, <2>3
    <3> QED
      BY <2>3, <3>1 DEF Placed, FrameBody
  <2>7. Unread' = Unread
    <3>1. (buf' \o remainder') \o left = buf' \o (remainder' \o left)
      BY <2>2, <2>4, BytesAssociate, Zenon
    <3>2. (buf \o payload) \o left = buf \o (payload \o left)
      BY <2>2, BytesAssociate, Zenon DEF HostTyped
    <3>3. remainder \o wire = wire
      BY <2>1, <2>3, ConcatEmpty
    <3> QED
      BY <2>2, <2>3, <2>4, <3>1, <3>2, <3>3, Zenon DEF Unread
  <2>8. Covered'
    BY <2>3, <2>7, ConsumedStays, BytesStay
  <2> QED
    BY <2>5, <2>6, <2>8
<1> QED
  BY <1>1, <1>2, <1>3

-----------------------------------------------------------------------------
\* The frame that is read next lies behind the bytes consumed: what the reader
\* has of it is cut out of the response at its place.
LEMMA NextFrame ==
    ASSUME HostInv, outcome = "reading", phase = "header", buf # <<>>
    PROVE  Len(frames) < Len(lens)
<1> DEFINE all == FirstFrames(Len(frames))
<1>1. all \in Seq(Byte) /\ Consumed = all /\ Unread \in Seq(Byte)
  BY ConsumedIs, UnreadTyped DEF HostInv
<1>2. PICK rest \in Seq(Byte) : Response = (all \o Unread) \o rest
  BY <1>1 DEF HostInv, Covered
<1>3. SUFFICES ASSUME Len(frames) = Len(lens) PROVE FALSE
  BY DEF HostInv, Placed, HostTyped
<1>4. Response = all
  BY <1>3, LensTyped, FirstFramesIs DEF HostInv
<1>5. Len(Response) = Len(all) + Len(Unread) + Len(rest)
  <2> HIDE DEF all
  <2>1. all \o Unread \in Seq(Byte) /\ Len(all \o Unread) = Len(all) + Len(Unread)
    BY <1>1, ConcatTyped, ConcatIs
  <2> QED
    BY <1>2, <2>1, ConcatIs
<1>6. Len(Unread) > 0
  <2>1. remainder \o wire \in Seq(Byte) /\ buf \in Seq(Byte) /\ Len(buf) > 0
    BY ConcatTyped DEF HostInv, HostTyped
  <2>2. Len(Unread) = Len(buf) + Len(remainder \o wire)
    BY <2>1, ConcatIs DEF Unread
  <2> QED
    BY <2>1, <2>2
<1> HIDE DEF all
<1> QED
  BY <1>1, <1>2, <1>4, <1>5, <1>6

LEMMA NextFrameBytes ==
    ASSUME HostInv, outcome = "reading", Len(frames) < Len(lens)
    PROVE  LET next == Len(frames) + 1
               this == IF phase = "header" THEN FrameBytes(next) ELSE FrameBody(next)
           IN  \E more, rest \in Seq(Byte) : /\ this \o more = Unread \o rest
                                             /\ ~Truncates => rest = <<>>
<1> DEFINE next == Len(frames) + 1
           first == FirstFrames(Len(frames))
           frame == FrameBytes(next)
<1>1. /\ lens \in Seq(Nat) /\ next \in 1 .. Len(lens)
      /\ Len(frames) \in 0 .. Len(lens)
      /\ phase \in {"header", "body"}
  BY LensTyped DEF HostInv, HostTyped, Placed
<1>2. /\ first \in Seq(Byte) /\ Consumed \in Seq(Byte) /\ Unread \in Seq(Byte)
      /\ phase = "header" => Consumed = first
      /\ phase = "body" => Consumed = first \o Header(next)
  BY ConsumedIs, UnreadTyped DEF HostInv
<1>3. /\ frame \in Seq(Byte) /\ Header(next) \in Seq(Byte) /\ FrameBody(next) \in Seq(Byte)
      /\ frame = Header(next) \o FrameBody(next)
  BY <1>1, FrameTyped
<1>4. PICK rest \in Seq(Byte) : /\ Response = (Consumed \o Unread) \o rest
                                /\ ~Truncates => rest = <<>>
  BY DEF HostInv, Covered
<1>5. PICK more \in Seq(Byte) : Response = first \o (frame \o more)
  BY <1>1, ResponseFrom
<1>6. Response = Consumed \o (Unread \o rest)
  BY <1>2, <1>4, BytesAssociate, Zenon
<1> DEFINE unread == Unread \o rest
           ahead == frame \o more
           ahead2 == FrameBody(next) \o more
<1>7. unread \in Seq(Byte) /\ ahead \in Seq(Byte) /\ ahead2 \in Seq(Byte)
  BY <1>2, <1>3, ConcatTyped
<1>8. CASE phase = "header"
  <2>1. first \o ahead = first \o unread
    BY <1>2, <1>5, <1>6, <1>8
  <2> HIDE DEF ahead, unread, first
  <2>2. ahead = unread
    BY <1>2, <1>7, <2>1, CutsAgree
  <2> QED
    BY <1>4, <1>8, <2>2 DEF ahead, unread
<1>9. CASE phase = "body"
  <2>1. ahead = Header(next) \o ahead2
    <3>1. (Header(next) \o FrameBody(next)) \o more = Header(next) \o (FrameBody(next) \o more)
      BY <1>3, BytesAssociate, Zenon
    <3> QED
      BY <1>3, <3>1, Zenon
  <2>2. first \o ahead = (first \o Header(next)) \o ahead2
    <3> HIDE DEF ahead2, first, ahead
    <3>1. first \in Seq(Byte) /\ Header(next) \in Seq(Byte) /\ ahead2 \in Seq(Byte)
      BY <1>2, <1>3, <1>7
    <3>2. (first \o Header(next)) \o ahead2 = first \o (Header(next) \o ahead2)
      BY <3>1, BytesAssociate, Zenon
    <3> QED
      BY <2>1, <3>2, Zenon
  <2>3. Consumed \o ahead2 = Consumed \o unread
    BY <1>2, <1>5, <1>6, <1>9, <2>2
  <2> HIDE DEF ahead2, unread
  <2>4. ahead2 = unread
    BY <1>2, <1>7, <2>3, CutsAgree
  <2> QED
    BY <1>4, <1>9, <2>4 DEF ahead2, unread
<1> QED
  BY <1>1, <1>8, <1>9

\* A full buffer holds the header, or the body, of the next frame.
LEMMA BufferIs ==
    ASSUME HostInv, outcome = "reading", Len(frames) < Len(lens), Len(buf) = need
    PROVE  buf = IF phase = "header" THEN Header(Len(frames) + 1)
                 ELSE FrameBody(Len(frames) + 1)
<1> DEFINE next == Len(frames) + 1
           part == IF phase = "header" THEN Header(next) ELSE FrameBody(next)
           this == IF phase = "header" THEN FrameBytes(next) ELSE FrameBody(next)
<1>1. /\ lens \in Seq(Nat) /\ next \in 1 .. Len(lens)
      /\ buf \in Seq(Byte) /\ remainder \in Seq(Byte) /\ wire \in Seq(Byte)
  BY LensTyped DEF HostInv, HostTyped, Placed
<1>2. PICK more, rest \in Seq(Byte) : this \o more = Unread \o rest
  BY NextFrameBytes
<1>3. PICK tail \in Seq(Byte) : this = part \o tail
  <2>1. CASE phase = "header"
    BY <1>1, <2>1, FrameTyped
  <2>2. CASE phase # "header"
    <3>1. FrameBody(next) = FrameBody(next) \o <<>>
      BY <1>1, FrameTyped, ConcatEmpty
    <3> QED
      BY <2>2, <3>1, EmptyTyped
  <2> QED
    BY <2>1, <2>2
<1>4. part \in Seq(Byte) /\ Len(part) = need
  BY <1>1, FrameTyped DEF HostInv, HostTyped, Placed
<1> DEFINE kept == remainder \o wire
           others == kept \o rest
           behind == tail \o more
<1>5. kept \in Seq(Byte) /\ others \in Seq(Byte) /\ behind \in Seq(Byte)
  BY <1>1, ConcatTyped
<1>6. this \o more = part \o behind
  <2> HIDE DEF this, part
  <2>1. (part \o tail) \o more = part \o (tail \o more)
    BY <1>4, BytesAssociate, Zenon
  <2> QED
    BY <1>3, <2>1, Zenon
<1>7. Unread \o rest = buf \o others
  <2>1. Unread = buf \o kept
    BY DEF Unread
  <2> HIDE DEF kept
  <2>2. buf \in Seq(Byte) /\ kept \in Seq(Byte)
    BY <1>1, <1>5
  <2>3. (buf \o kept) \o rest = buf \o (kept \o rest)
    BY <2>2, BytesAssociate, Zenon
  <2> QED
    BY <2>1, <2>3, Zenon
<1>8. part \o behind = buf \o others
  BY <1>2, <1>6, <1>7
<1> HIDE DEF part, behind, others
<1>9. part = buf
  BY <1>1, <1>4, <1>5, <1>8, CutsAgree
<1> QED
  BY <1>9 DEF part

\* The bytes of a full buffer become bytes consumed.
LEMMA BytesMovePast ==
    ASSUME HostTyped, Placed, Covered, outcome = "reading",
           UNCHANGED <<lens, remainder, wire>>, buf' = <<>>, Consumed' = Consumed \o buf
    PROVE  Covered'
<1> DEFINE kept == remainder \o wire
<1>1. /\ Consumed \in Seq(Byte) /\ buf \in Seq(Byte)
      /\ kept \in Seq(Byte)
  BY ConsumedIs, ConcatTyped DEF HostTyped
<1>2. Unread' = kept
  <2>1. Unread' = <<>> \o kept
    BY DEF Unread
  <2> HIDE DEF kept
  <2> QED
    BY <1>1, <2>1, ConcatEmpty
<1>3. (Consumed \o buf) \o kept = Consumed \o Unread
  <2>1. Unread = buf \o kept
    BY DEF Unread
  <2> HIDE DEF kept
  <2> QED
    BY <1>1, <2>1, BytesAssociate, Zenon
<1>4. (Consumed \o Unread)' = Consumed \o Unread
  BY <1>2, <1>3
<1>5. Response' = Response
  BY DEF Response, FrameBytes
<1> QED
  BY <1>4, <1>5 DEF Covered

-----------------------------------------------------------------------------
\* A whole header is that of the next frame, so the length read from it is that
\* of its body.
LEMMA HeaderKeeps ==
    ASSUME HostInv, HeaderComplete
    PROVE  HostInv'
<1> USE DEF HostInv
<1>1. outcome = "reading" /\ phase = "header" /\ Len(buf) = need /\ need = HeaderLen
  BY DEF HeaderComplete, Placed
<1>2. Len(frames) < Len(lens)
  <2>1. buf # <<>>
    BY <1>1, HeaderAssumption
  <2> QED
    BY <1>1, <2>1, NextFrame
<1> DEFINE next == Len(frames) + 1
<1>3. lens \in Seq(Nat) /\ next \in 1 .. Len(lens)
  BY <1>2, LensTyped DEF HostTyped
<1>4. buf = Header(next)
  BY <1>1, <1>2, BufferIs
<1>5. buf[1][1] = next
  BY <1>3, <1>4, FrameTyped
<1>6. /\ phase' = "body" /\ need' = lens[next] /\ buf' = <<>>
      /\ UNCHANGED <<lens, wire, remainder, done, closed, frames, outcome>>
  BY <1>5 DEF HeaderComplete, body
<1>7. HostTyped'
  <2>1. need' \in Nat /\ buf' \in Seq(Byte) /\ Len(buf') <= need'
    BY <1>3, <1>6
  <2> QED
    BY <1>6, <2>1 DEF HostTyped
<1>8. Placed'
  BY <1>2, <1>6 DEF Placed, FrameBody
<1>9. Covered'
  <2>1. Consumed = FirstFrames(Len(frames))
    BY <1>1, ConsumedIs
  <2>2. Consumed' = FirstFrames(Len(frames)) \o Header(next)
    BY <1>6 DEF Consumed, FirstFrames, Header, FrameBytes
  <2> QED
    BY <1>1, <1>4, <1>6, <2>1, <2>2, BytesMovePast
<1> QED
  BY <1>7, <1>8, <1>9

\* A whole body is that of the next frame, which is given to the executor.
LEMMA BodyKeeps ==
    ASSUME HostInv, BodyComplete
    PROVE  /\ HostInv'
           /\ Len(frames) < Len(lens) /\ buf = FrameBody(Len(frames) + 1)
<1> USE DEF HostInv
<1> DEFINE next == Len(frames) + 1
<1>1. /\ outcome = "reading" /\ phase = "body" /\ Len(buf) = need
      /\ Len(frames) < Len(lens)
  BY DEF BodyComplete, Placed
<1>2. lens \in Seq(Nat) /\ next \in 1 .. Len(lens) /\ Len(frames) \in 0 .. Len(lens)
  BY <1>1, LensTyped DEF HostTyped
<1>3. buf = FrameBody(next)
  BY <1>1, BufferIs
<1>4. /\ phase' = "header" /\ need' = HeaderLen /\ buf' = <<>> /\ frames' = Append(frames, buf)
      /\ UNCHANGED <<lens, wire, remainder, done, closed, outcome>>
  BY DEF BodyComplete, body
<1>5. buf \in Seq(Byte) /\ frames \in Seq(Seq(Byte))
  BY DEF HostTyped
<1>6. /\ frames' \in Seq(Seq(Byte)) /\ Len(frames') = next
      /\ frames'[next] = buf /\ \A i \in 1 .. Len(frames) : frames'[i] = frames[i]
  BY <1>4, <1>5, AppendTyped, AppendIs
<1>7. HostTyped'
  <2>1. need' \in Nat /\ buf' \in Seq(Byte) /\ Len(buf') <= need'
    BY <1>4, HeaderAssumption
  <2> QED
    BY <1>4, <1>6, <2>1 DEF HostTyped
<1>8. Placed'
  <2>1. ASSUME NEW i \in 1 .. Len(frames') PROVE frames'[i] = FrameBody(i)'
    <3>1. FrameBody(i)' = FrameBody(i)
      BY <1>4 DEF FrameBody
    <3>2. i = next \/ i \in 1 .. Len(frames)
      BY <1>2, <1>6
    <3> QED
      BY <1>3, <1>6, <3>1, <3>2 DEF Placed
  <2>2. Len(frames') <= Len(lens')
    BY <1>2, <1>4, <1>6
  <2>3. outcome' = "reading" => ~closed' /\ (done' => wire' = <<>>)
    BY <1>1, <1>4 DEF Placed
  <2> QED
    BY <1>4, <2>1, <2>2, <2>3 DEF Placed
<1>9. Covered'
  <2> DEFINE first == FirstFrames(Len(frames))
  <2>1. Consumed = first \o Header(next) /\ first \in Seq(Byte)
    BY <1>1, ConsumedIs
  <2>2. /\ Header(next) \in Seq(Byte) /\ FrameBody(next) \in Seq(Byte)
        /\ FrameBytes(next) = Header(next) \o FrameBody(next)
    BY <1>2, FrameTyped
  <2>3. FirstFrames(next) = first \o FrameBytes(next)
    BY <1>1, <1>2, FirstFramesIs
  <2>4. Consumed' = FirstFrames(next)
    <3>1. Consumed' = FirstFrames(next) \o <<>>
      <4> HIDE DEF next
      <4>1. phase' = "header" /\ Len(frames') = next /\ lens' = lens
        BY <1>4, <1>6 DEF next
      <4> QED
        BY <4>1 DEF Consumed, FirstFrames, FrameBytes
    <3>2. FirstFrames(next) \in Seq(Byte)
      BY <1>2, FirstFramesIs
    <3> QED
      BY <3>1, <3>2, ConcatEmpty
  <2> HIDE DEF first
  <2>5. (first \o Header(next)) \o FrameBody(next) = first \o (Header(next) \o FrameBody(next))
    BY <2>1, <2>2, BytesAssociate, Zenon
  <2>6. Consumed' = Consumed \o buf
    BY <1>3, <2>1, <2>2, <2>3, <2>4, <2>5, Zenon
  <2> QED
    BY <1>1, <1>4, <2>6, BytesMovePast
<1> QED
  BY <1>1, <1>3, <1>7, <1>8, <1>9

\* The end of the reading, and the steps after it, touch no byte.
LEMMA EndKeeps ==
    ASSUME HostInv, BodyCorrupt \/ Stop \/ Close
    PROVE  HostInv'
<1>1. CASE BodyCorrupt \/ Stop
  <2>1. outcome' \in {"error", "stopped"} /\ UNCHANGED <<lens, wire, body, phase, need, buf, frames>>
    BY <1>1 DEF BodyCorrupt, Stop
  <2> QED
    BY <2>1 DEF HostInv, HostTyped, Placed, Covered, FrameBody, body
<1>2. CASE Close
  <2>1. /\ outcome # "reading" /\ closed' = TRUE /\ done' = TRUE /\ remainder' = <<>>
        /\ UNCHANGED <<lens, wire, phase, need, buf, frames, outcome>>
    BY <1>2 DEF Close, reader
  <2> QED
    BY <2>1, EmptyTyped DEF HostInv, HostTyped, Placed, Covered, FrameBody
<1> QED
  BY <1>1, <1>2

LEMMA HostNext == HostInv /\ [Next]_vars => HostInv'
<1> SUFFICES ASSUME HostInv, [Next]_vars PROVE HostInv'
  OBVIOUS
<1>1. CASE UNCHANGED vars
  <2>1. UNCHANGED <<lens, wire, remainder, done, closed, phase, need, buf, frames, outcome>>
    BY <1>1 DEF vars, body, reader
  <2>2. HostTyped' /\ Placed'
    BY <2>1 DEF HostInv, HostTyped, Placed, FrameBody
  <2>3. Covered'
    BY <2>1, BytesStay, ConsumedStays DEF HostInv, Covered, Unread
  <2> QED
    BY <2>2, <2>3 DEF HostInv
<1>2. CASE Next
  BY <1>2, ReadKeeps, HeaderKeeps, BodyKeeps, EndKeeps DEF Next, ReadStep
<1> QED
  BY <1>1, <1>2

LEMMA HostInvariance == Spec => []HostInv
  BY HostInitially, HostNext, PTL DEF Spec

-----------------------------------------------------------------------------
\* However the host cuts the response, the bytes consumed, buffered, kept for
\* later and still to come are those of the response, in its order.
THEOREM AllBytesAccounted == Spec => []NoByteLost
<1>1. HostInv => NoByteLost
  <2> SUFFICES ASSUME HostInv, outcome = "reading" PROVE NoByteLost
    BY DEF NoByteLost
  <2> DEFINE all == Consumed \o buf \o remainder \o wire
  <2>1. /\ Consumed \in Seq(Byte) /\ Unread \in Seq(Byte) /\ buf \in Seq(Byte)
        /\ remainder \in Seq(Byte) /\ wire \in Seq(Byte)
    BY ConsumedIs, UnreadTyped DEF HostInv, HostTyped
  <2>2. PICK rest \in Seq(Byte) : /\ Response = (Consumed \o Unread) \o rest
                                  /\ ~Truncates => rest = <<>>
    BY DEF HostInv, Covered
  <2>3. all = Consumed \o Unread
    <3> DEFINE kept == remainder \o wire
               read == Consumed \o buf
    <3>1. kept \in Seq(Byte) /\ read \in Seq(Byte)
      BY <2>1, ConcatTyped
    <3>2. read \o (remainder \o wire) = (read \o remainder) \o wire
      <4> HIDE DEF read
      <4>1. read \in Seq(Byte)
        BY <3>1
      <4> QED
        BY <2>1, <4>1, BytesAssociate, Zenon
    <3>3. (Consumed \o buf) \o kept = Consumed \o (buf \o kept)
      <4> HIDE DEF kept
      <4>1. Consumed \in Seq(Byte) /\ buf \in Seq(Byte) /\ kept \in Seq(Byte)
        BY <2>1, <3>1
      <4> QED
        BY <4>1, BytesAssociate, Zenon
    <3> QED
      BY <3>2, <3>3, Zenon DEF Unread
  <2> HIDE DEF all
  <2>4. all \in Seq(Byte) /\ Response = all \o rest
    BY <2>1, <2>2, <2>3, ConcatTyped
  <2>5. IsPrefix(all, Response)
    <3>1. /\ Len(all) \in Nat /\ Len(Response) = Len(all) + Len(rest)
          /\ \A i \in 1 .. Len(all) : Response[i] = all[i]
      BY <2>4, ConcatIs
    <3>2. Response \in Seq(Byte)
      BY <2>4, ConcatTyped
    <3>3. Len(all) \in 0 .. Len(all) /\ Len(all) \in 0 .. Len(Response)
      BY <2>4, <3>1, <3>2
    <3>4. SubSeq(all, 1, Len(all)) = SubSeq(Response, 1, Len(all))
      BY <2>4, <3>1, <3>2, <3>3, CutAt
    <3> QED
      BY <3>3, <3>4 DEF IsPrefix
  <2>6. ~Truncates => all = Response
    BY <2>2, <2>4, ConcatEmpty
  <2> QED
    BY <2>5, <2>6 DEF NoByteLost, all
<1> QED
  BY <1>1, HostInvariance, PTL

\* The end is read, with nothing in the buffer, only behind the last frame.
LEMMA EndIsLast ==
    ASSUME HostInv, ~Truncates, ReadAtEnd \/ ReadDone, buf = <<>>
    PROVE  Len(frames) = Len(lens)
<1> USE DEF HostInv
<1>1. /\ outcome = "reading" /\ remainder = <<>> /\ wire = <<>> /\ Len(buf) < need
  BY DEF ReadAtEnd, ReadDone, HostCallable, Filling, Placed
<1>2. Unread = <<>>
  BY <1>1 DEF Unread
<1>3. SUFFICES ASSUME Len(frames) < Len(lens) PROVE FALSE
  BY DEF Placed, HostTyped
<1> DEFINE next == Len(frames) + 1
           this == IF phase = "header" THEN FrameBytes(next) ELSE FrameBody(next)
<1>4. PICK more \in Seq(Byte) : this \o more = <<>>
  <2>1. PICK more, rest \in Seq(Byte) : this \o more = Unread \o rest /\ rest = <<>>
    BY <1>1, <1>3, NextFrameBytes
  <2>2. Unread \o rest = <<>>
    BY <1>2, <2>1
  <2> HIDE DEF this
  <2> QED
    BY <2>1, <2>2, Zenon
<1>5. this \in Seq(Byte) /\ Len(this) > 0
  <2>1. lens \in Seq(Nat) /\ next \in 1 .. Len(lens)
    BY <1>3, LensTyped DEF HostTyped
  <2>2. CASE phase = "header"
    BY <2>1, <2>2, FrameTyped, HeaderAssumption
  <2>3. CASE phase # "header"
    BY <1>1, <2>1, <2>3, FrameTyped DEF Placed, HostTyped
  <2> QED
    BY <2>2, <2>3
<1> HIDE DEF this
<1> QED
  BY <1>4, <1>5, ConcatIs

\* A response that the host does not cut short is read as FrameSource says: its
\* frames are given one by one, whole and in order, and the end is seen only
\* after the last of them.
THEOREM FramesGivenInOrder ==
    ASSUME ~Truncates
    PROVE  Spec => FramesInOrder
<1>1. Init => Source!Init
  BY DEF Init, Source!Init
<1>2. HostInv /\ [Next]_vars => [Source!Next]_(Source!vars)
  <2> SUFFICES ASSUME HostInv, [Next]_vars PROVE [Source!Next]_(Source!vars)
    OBVIOUS
  <2>1. Bodies' = Bodies
    <3>1. lens' = lens
      BY DEF Next, ReadStep, CopyRemainder, ReadAtEnd, ReadPayload, ReadDone, ReadError,
             HeaderComplete, BodyComplete, BodyCorrupt, Stop, Close, vars
    <3> QED
      BY <3>1 DEF Bodies, FrameBody
  <2>2. CASE BodyComplete
    <3>1. /\ Len(frames) < Len(lens) /\ buf = FrameBody(Len(frames) + 1)
          /\ frames \in Seq(Seq(Byte)) /\ lens \in Seq(Nat)
      BY <2>2, BodyKeeps, LensTyped DEF HostInv, HostTyped
    <3>2. Len(Bodies) = Len(lens) /\ Bodies[Len(frames) + 1] = buf
      BY <3>1 DEF Bodies
    <3>3. frames # Bodies
      BY <3>1, <3>2
    <3>4. outcome = "reading" /\ frames' = Append(frames, buf) /\ outcome' = outcome
      BY <2>2 DEF BodyComplete
    <3> QED
      BY <2>1, <3>2, <3>3, <3>4 DEF Source!Next, Source!Deliver
  <2>3. CASE ReadAtEnd \/ ReadDone
    <3>1. outcome = "reading" /\ UNCHANGED frames /\ EndOfData
      BY <2>3 DEF ReadAtEnd, ReadDone, HostCallable, Filling
    <3>2. CASE buf = <<>>
      <4>1. Len(frames) = Len(lens)
        BY <2>3, <3>2, EndIsLast
      <4>2. frames = Bodies
        <5>1. frames \in Seq(Seq(Byte)) /\ lens \in Seq(Nat)
          BY LensTyped DEF HostInv, HostTyped
        <5>2. \A i \in 1 .. Len(lens) : frames[i] = FrameBody(i)
          BY <4>1 DEF HostInv, Placed
        <5> QED
          BY <4>1, <5>1, <5>2 DEF Bodies
      <4> QED
        BY <2>1, <3>1, <3>2, <4>2 DEF EndOfData, Source!Next, Source!End
    <3>3. CASE buf # <<>>
      BY <2>1, <3>1, <3>3 DEF EndOfData, Source!Next, Source!Interrupt
    <3> QED
      BY <3>2, <3>3
  <2>4. CASE ReadError \/ BodyCorrupt \/ Stop
    <3>1. outcome = "reading" /\ outcome' \in {"error", "stopped"} /\ UNCHANGED frames
      BY <2>4 DEF ReadError, BodyCorrupt, Stop, HostCallable, Filling
    <3> QED
      BY <2>1, <3>1 DEF Source!Next, Source!Interrupt
  <2>5. CASE \/ CopyRemainder \/ HeaderComplete \/ Close \/ UNCHANGED vars
             \/ \E n \in 1 .. Len(wire), last \in BOOLEAN : ReadPayload(n, last)
    <3>1. UNCHANGED <<frames, outcome>>
      BY <2>5 DEF CopyRemainder, HeaderComplete, Close, ReadPayload, vars, reader
    <3> QED
      BY <2>1, <3>1 DEF Source!vars
  <2> QED
    BY <2>2, <2>3, <2>4, <2>5 DEF Next, ReadStep
<1> QED
  BY <1>1, <1>2, HostInvariance, PTL DEF Spec, FramesInOrder, Source!Spec
=============================================================================
