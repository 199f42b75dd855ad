------------------------ MODULE StreamAttemptProofs ------------------------
(***************************************************************************)
(* What an attempt at answering keeps true, whoever hands its chunks over: *)
(* the type of its variables, that the chunks of a request are always the  *)
(* beginning of one OpenAI stream, and that a client which puts them       *)
(* together has what a completion says of the same frames.  The plugin and *)
(* the standalone program share the steps of an attempt and so these       *)
(* lemmas.                                                                 *)
(***************************************************************************)
EXTENDS StreamAttempt, SequenceLemmas

\* STRING, with the literals of a chunk spelled out for the provers.
Strings == STRING \cup {NoText, "stop", "tool_calls", "[DONE]"}

Chunks == [attempt : Nat, role : BOOLEAN, text : Strings, index : Int,
           id : Strings, name : Strings, args : Strings, finish : Strings]

DeltaSteps == {"id", "args"}
FrameSteps == {"text"} \cup DeltaSteps
OutputSteps == {"read"} \cup FrameSteps

AttemptTypeOK ==
    /\ attempt \in {1, 2}
    /\ received \in Seq(Frames)
    /\ at \in Nat
    /\ first \in BOOLEAN /\ emitted \in BOOLEAN
    /\ order \in Seq(Strings)
    /\ active \in 0 .. Len(order)
    /\ err \in {"none", "mcp", "other"}
    /\ out \in Seq(Chunks)
    /\ step \in FrameSteps => received # <<>>
    /\ step \in DeltaSteps => at \in 1 .. Len(Frame.tools)

Finishes(c) == c.finish \in {"stop", "tool_calls"}
Closes(c) == c.finish = "[DONE]"
Whole == out # <<>> /\ Closes(Last(out))

\* A stream: chunks of one completion, of which the first has the role unless it
\* finishes already; [DONE] follows a finish, and nothing else does; nothing
\* follows [DONE].
IsStream(chunks, a) ==
    \A i \in 1 .. Len(chunks) :
        /\ chunks[i].attempt = a
        /\ chunks[i].role <=> i = 1 /\ ~Finishes(chunks[i])
        /\ Closes(chunks[i]) <=> i > 1 /\ Finishes(chunks[i - 1])
        /\ i < Len(chunks) => ~Closes(chunks[i])

OneStream == IsStream(out, attempt)

\* What the local variables say of the chunks, and where the goroutine is.
Consistent ==
    /\ emitted <=> out # <<>>
    /\ order # <<>> => out # <<>>
    /\ step \in OutputSteps \cup EmissionSteps => err = "none"
    /\ step \in OutputSteps \cup {"finish"} =>
           /\ first <=> out = <<>>
           /\ out # <<>> => ~Finishes(Last(out)) /\ ~Closes(Last(out))
    /\ step = "done" => out # <<>> /\ Finishes(Last(out))
    /\ err # "none" => ~Whole

AttemptInv == AttemptTypeOK /\ OneStream /\ Consistent

-----------------------------------------------------------------------------
LEMMA NoTextIsNoFinish ==
    NoText # "stop" /\ NoText # "tool_calls" /\ NoText # "[DONE]"
  BY Zenon DEF NoText

LEMMA LastIs ==
    ASSUME NEW S, NEW seq \in Seq(S), seq # <<>>
    PROVE  Last(seq) = seq[Len(seq)] /\ Last(seq) \in S /\ Len(seq) \in Nat \ {0}
  BY DEF Last

LEMMA LastOfAppend ==
    ASSUME NEW S, NEW seq \in Seq(S), NEW e \in S
    PROVE  Last(Append(seq, e)) = e /\ Append(seq, e) # <<>>
  BY DEF Last

\* What was given before the i-th element of a sequence.
LEMMA PrefixIs ==
    ASSUME NEW S, NEW seq \in Seq(S), NEW i \in 1 .. Len(seq)
    PROVE  LET given == SubSeq(seq, 1, i - 1)
           IN  /\ given = <<>> <=> i = 1
               /\ i > 1 => Head(given) = seq[1] /\ Last(given) = seq[i - 1]
  BY DEF Last

\* Steps that read the last frame find one, and a delta in it.
LEMMA FrameTyped ==
    ASSUME AttemptTypeOK, step \in FrameSteps
    PROVE  Frame \in RespDeltas
  BY FramesAssumption, LastIs DEF AttemptTypeOK, Frame

LEMMA DeltaTyped ==
    ASSUME AttemptTypeOK, step \in DeltaSteps
    PROVE  Delta \in ToolDeltas
  <1>1. step \in FrameSteps
    BY DEF FrameSteps
  <1>2. Frame.tools \in Seq(ToolDeltas)
    BY <1>1, FrameTyped DEF RespDeltas
  <1>3. at \in 1 .. Len(Frame.tools)
    BY DEF AttemptTypeOK
  <1> QED
    BY <1>2, <1>3 DEF Delta

LEMMA BlankIs ==
    ASSUME AttemptTypeOK
    PROVE  Blank \in Chunks /\ Blank.attempt = attempt /\ ~Blank.role /\ Blank.finish = NoText
  BY DEF AttemptTypeOK, Blank, Chunks, Strings

\* The chunk a step emits is of this attempt, and says by its step whether it
\* opens the stream, finishes it or closes it.
LEMMA PendingIs ==
    ASSUME AttemptTypeOK, Consistent, step \in EmissionSteps, Emits
    PROVE  /\ Pending \in Chunks /\ Pending.attempt = attempt
           /\ Pending.role <=> step \in FrameSteps /\ first
           /\ Finishes(Pending) <=> step = "finish"
           /\ Closes(Pending) <=> step = "done"
  <1> USE NoTextIsNoFinish, BlankIs DEF Finishes, Closes, FrameSteps, DeltaSteps
  <1>1. CASE step = "text"
    <2>1. Frame.text \in Strings /\ first \in BOOLEAN
      BY <1>1, FrameTyped DEF RespDeltas, AttemptTypeOK, Strings
    <2>2. Pending = [Blank EXCEPT !.role = first, !.text = Frame.text]
      BY <1>1 DEF Pending
    <2> QED
      BY <1>1, <2>1, <2>2 DEF Chunks
  <1>2. CASE step = "id"
    <2>1. /\ Delta.id \in Strings /\ Delta.name \in Strings
          /\ first \in BOOLEAN /\ StartIndex \in Int
      BY <1>2, DeltaTyped DEF ToolDeltas, AttemptTypeOK, Strings, StartIndex
    <2>2. Pending = [Blank EXCEPT !.role = first, !.index = StartIndex,
                                  !.id = Delta.id, !.name = Delta.name]
      BY <1>2 DEF Pending
    <2> QED
      BY <1>2, <2>1, <2>2 DEF Chunks
  <1>3. CASE step = "args"
    <2>1. Delta.args \in Strings /\ active - 1 \in Int
      BY <1>3, DeltaTyped DEF ToolDeltas, AttemptTypeOK, Strings
    <2>2. Pending = [Blank EXCEPT !.index = active - 1, !.args = Delta.args]
      BY <1>3 DEF Pending
    <2>3. order # <<>>
      BY <1>3 DEF Emits, AttemptTypeOK
    <2>4. ~first
      BY <1>3, <2>3 DEF Consistent, OutputSteps
    <2> QED
      BY <1>3, <2>1, <2>2, <2>4 DEF Chunks
  <1>4. CASE step = "finish"
    BY <1>4 DEF FinishReason, Pending, Chunks, Strings
  <1>5. CASE step = "done"
    BY <1>5 DEF Pending, Chunks, Strings
  <1> QED
    BY <1>1, <1>2, <1>3, <1>4, <1>5 DEF EmissionSteps

\* A chunk that may follow keeps the stream one stream.
LEMMA StreamGrows ==
    ASSUME AttemptTypeOK, OneStream, ~Whole,
           NEW c \in Chunks, c.attempt = attempt,
           c.role <=> out = <<>> /\ ~Finishes(c),
           Closes(c) <=> out # <<>> /\ Finishes(Last(out)),
           attempt' = attempt, out' = Append(out, c)
    PROVE  OneStream'
  <1>1. out \in Seq(Chunks)
    BY DEF AttemptTypeOK
  <1>2. /\ Len(out) \in Nat /\ Len(out') = Len(out) + 1 /\ out'[Len(out) + 1] = c
        /\ \A i \in 1 .. Len(out) : out'[i] = out[i]
    BY <1>1, AppendIs
  <1>3. out = <<>> <=> Len(out) = 0
    BY <1>1
  <1>4. out # <<>> => Last(out) = out[Len(out)]
    BY DEF Last
  <1> SUFFICES ASSUME NEW i \in 1 .. Len(out')
               PROVE  /\ out'[i].attempt = attempt'
                      /\ out'[i].role <=> i = 1 /\ ~Finishes(out'[i])
                      /\ Closes(out'[i]) <=> i > 1 /\ Finishes(out'[i - 1])
                      /\ i < Len(out') => ~Closes(out'[i])
    BY DEF OneStream, IsStream, Finishes, Closes
  <1>5. CASE i <= Len(out)
    <2>1. i \in 1 .. Len(out) /\ out'[i] = out[i] /\ (i > 1 => out'[i - 1] = out[i - 1])
      BY <1>2, <1>5
    <2>2. i = Len(out) => ~Closes(out[i])
      BY <1>3, <1>4, <2>1, <1>2 DEF Whole
    <2> QED
      BY <1>2, <2>1, <2>2 DEF OneStream, IsStream
  <1>6. CASE i = Len(out) + 1
    <2>1. i > 1 => out'[i - 1] = Last(out) /\ out # <<>>
      BY <1>2, <1>3, <1>4, <1>6
    <2> QED
      BY <1>2, <1>3, <1>6, <2>1
  <1> QED
    BY <1>2, <1>5, <1>6

-----------------------------------------------------------------------------
\* The call that a delta names is among those started, if the delta names one.
LEMMA OrderGrows ==
    ASSUME AttemptTypeOK, NEW d \in ToolDeltas
    PROVE  /\ OrderAfter(d) \in Seq(Strings)
           /\ ActiveAfter(d) \in 0 .. Len(OrderAfter(d))
           /\ OrderAfter(d) # <<>> => order # <<>> \/ Starts(d)
  <1>1. order \in Seq(Strings) /\ d.id \in Strings
    BY DEF AttemptTypeOK, ToolDeltas, Strings
  <1>2. OrderAfter(d) \in Seq(Strings) /\ Len(OrderAfter(d)) >= Len(order)
    BY <1>1, AppendTyped, AppendIs DEF OrderAfter
  <1>3. CASE d.id = NoText
    BY <1>2, <1>3 DEF ActiveAfter, AttemptTypeOK, OrderAfter, Starts
  <1>4. CASE d.id # NoText
    <2>1. \E i \in 1 .. Len(OrderAfter(d)) : OrderAfter(d)[i] = d.id
      <3>1. CASE Starts(d)
        <4>1. OrderAfter(d) = Append(order, d.id)
          BY <3>1 DEF OrderAfter
        <4> QED
          BY <4>1, <1>1, AppendIs
      <3>2. CASE ~Starts(d)
        BY <1>4, <3>2 DEF Starts, Contains, OrderAfter
      <3> QED
        BY <3>1, <3>2
    <2>2. ActiveAfter(d) \in 1 .. Len(OrderAfter(d))
      BY <1>4, <2>1 DEF ActiveAfter
    <2> QED
      BY <1>2, <2>2 DEF OrderAfter
  <1> QED
    BY <1>3, <1>4

\* What every step of an emission does to the variables it moves, whether or not
\* it had a chunk.
LEMMA AdvanceKeepsTypes ==
    ASSUME AttemptTypeOK, step \in EmissionSteps, Advance, UNCHANGED received
    PROVE  /\ order' \in Seq(Strings) /\ active' \in 0 .. Len(order') /\ at' \in Nat
           /\ order' # <<>> => order # <<>> \/ (step = "id" /\ Starts(Delta))
           /\ step' \in FrameSteps => received' # <<>>
           /\ step' \in DeltaSteps => at' \in 1 .. Len(Frame'.tools)
           /\ step' \in OutputSteps \cup {"done", "ended"}
           /\ step' = "done" <=> step = "finish"
           /\ step' = "ended" <=> step = "done"
  <1> USE DEF EmissionSteps, FrameSteps, DeltaSteps, OutputSteps, Advance
  <1>1. Frame' = Frame
    BY DEF Frame
  <1>2. step \in FrameSteps => Frame.tools \in Seq(ToolDeltas) /\ Len(Frame.tools) \in Nat
    BY FrameTyped DEF RespDeltas
  <1>3. CASE step \in {"text", "args"}
    <2>1. at \in Nat /\ order' = order /\ active' = active /\ received # <<>>
      BY <1>3 DEF AttemptTypeOK
    <2>2. \/ step' = "read" /\ at' = 0
          \/ step' = "id" /\ at' \in 1 .. Len(Frame.tools)
      BY <1>3, <1>2, <2>1 DEF NextDelta
    <2> QED
      BY <1>1, <1>3, <2>1, <2>2 DEF AttemptTypeOK
  <1>4. CASE step = "id"
    <2>1. Delta \in ToolDeltas
      BY <1>4, DeltaTyped
    <2> QED
      BY <1>1, <1>4, <2>1, OrderGrows DEF AttemptTypeOK
  <1>5. CASE step \in {"finish", "done"}
    BY <1>1, <1>5 DEF AttemptTypeOK
  <1> QED
    BY <1>3, <1>4, <1>5

-----------------------------------------------------------------------------
\* A chunk handed over: the last one given is then the whole stream's end
\* exactly when it is [DONE].
LEMMA EmitKeeps ==
    ASSUME AttemptInv, EmitChunk
    PROVE  AttemptInv' /\ out' # <<>> /\ (step' = "ended" => Whole') /\ err' = err
  <1> USE DEF AttemptInv
  <1>1. /\ step \in EmissionSteps /\ Emits /\ Advance
        /\ out' = Append(out, Pending) /\ emitted' = TRUE
        /\ first' = IF Pending.role THEN FALSE ELSE first
        /\ UNCHANGED <<attempt, received, err>>
    BY DEF EmitChunk
  <1>2. /\ Pending \in Chunks /\ Pending.attempt = attempt
        /\ Pending.role <=> step \in FrameSteps /\ first
        /\ Finishes(Pending) <=> step = "finish"
        /\ Closes(Pending) <=> step = "done"
    BY <1>1, PendingIs
  <1>3. out \in Seq(Chunks) /\ first \in BOOLEAN
    BY DEF AttemptTypeOK
  <1>4. out' \in Seq(Chunks) /\ Last(out') = Pending /\ out' # <<>>
    BY <1>1, <1>2, <1>3, AppendTyped, LastOfAppend
  <1>5. /\ order' \in Seq(Strings) /\ active' \in 0 .. Len(order') /\ at' \in Nat
        /\ step' \in FrameSteps => received' # <<>>
        /\ step' \in DeltaSteps => at' \in 1 .. Len(Frame'.tools)
        /\ step' \in OutputSteps \cup {"done", "ended"}
        /\ step' = "done" <=> step = "finish"
        /\ step' = "ended" <=> step = "done"
    BY <1>1, AdvanceKeepsTypes
  <1>6. err = "none"
    BY <1>1 DEF Consistent
  <1>7. AttemptTypeOK'
    BY <1>1, <1>3, <1>4, <1>5 DEF AttemptTypeOK
  <1>8. OneStream'
    <2>1. CASE step = "done"
      <3>1. out # <<>> /\ Finishes(Last(out)) /\ step \notin FrameSteps
        BY <2>1 DEF Consistent, FrameSteps, DeltaSteps
      <3>2. ~Whole
        BY <3>1 DEF Whole, Finishes, Closes
      <3> QED
        BY <1>1, <1>2, <2>1, <3>1, <3>2, StreamGrows
    <2>2. CASE step \in FrameSteps \cup {"finish"}
      <3>1. /\ first <=> out = <<>>
            /\ out # <<>> => ~Finishes(Last(out)) /\ ~Closes(Last(out))
            /\ step # "done" /\ (step \in FrameSteps <=> step # "finish")
        BY <2>2 DEF Consistent, OutputSteps, FrameSteps, DeltaSteps
      <3>2. ~Whole
        BY <3>1 DEF Whole
      <3>3. /\ Pending.role <=> out = <<>> /\ ~Finishes(Pending)
            /\ Closes(Pending) <=> out # <<>> /\ Finishes(Last(out))
        BY <1>2, <3>1, Zenon
      <3> QED
        BY <1>1, <1>2, <3>2, <3>3, StreamGrows
    <2> QED
      BY <1>1, <2>1, <2>2 DEF EmissionSteps, FrameSteps, DeltaSteps
  <1>9. Consistent'
    <2>1. step' = "done" => Finishes(Pending)
      BY <1>2, <1>5
    <2>2. step' \in OutputSteps \cup {"finish"} => ~first' /\ ~Finishes(Pending) /\ ~Closes(Pending)
      <3> SUFFICES ASSUME step' \in OutputSteps \cup {"finish"}
                   PROVE  ~first' /\ ~Finishes(Pending) /\ ~Closes(Pending)
        OBVIOUS
      <3>1. step \in FrameSteps
        BY <1>1, <1>5 DEF OutputSteps, FrameSteps, DeltaSteps, EmissionSteps
      <3> QED
        BY <1>1, <1>2, <1>3, <3>1 DEF FrameSteps, DeltaSteps
    <2> QED
      BY <1>1, <1>4, <1>6, <2>1, <2>2 DEF Consistent, Finishes, Closes
  <1>10. step' = "ended" => Whole'
    BY <1>2, <1>4, <1>5 DEF Whole, Closes
  <1> QED
    BY <1>1, <1>4, <1>7, <1>8, <1>9, <1>10

LEMMA SameStream ==
    ASSUME OneStream, UNCHANGED <<attempt, out>>
    PROVE  OneStream'
  BY DEF OneStream, IsStream, Finishes, Closes

\* Steps that give the client nothing.
LEMMA SkipKeeps ==
    ASSUME AttemptInv, SkipChunk
    PROVE  AttemptInv' /\ step' \in OutputSteps
  <1>1. /\ step \in FrameSteps /\ step \in EmissionSteps /\ ~Emits /\ Advance
        /\ UNCHANGED <<attempt, received, first, emitted, err, out>>
    BY DEF SkipChunk, Emits, EmissionSteps, FrameSteps, DeltaSteps
  <1>2. /\ order' \in Seq(Strings) /\ active' \in 0 .. Len(order') /\ at' \in Nat
        /\ order' # <<>> => order # <<>>
        /\ step' \in FrameSteps => received' # <<>>
        /\ step' \in DeltaSteps => at' \in 1 .. Len(Frame'.tools)
        /\ step' \in OutputSteps
    BY <1>1, AdvanceKeepsTypes DEF AttemptInv, Emits, FrameSteps, DeltaSteps
  <1>3. AttemptTypeOK'
    BY <1>1, <1>2 DEF AttemptInv, AttemptTypeOK
  <1>4. Consistent'
    BY <1>1, <1>2 DEF AttemptInv, Consistent, OutputSteps, EmissionSteps, FrameSteps,
                      DeltaSteps, Whole, Finishes, Closes
  <1> QED
    BY <1>1, <1>2, <1>3, <1>4, SameStream DEF AttemptInv

LEMMA EmitFailsKeeps ==
    ASSUME AttemptInv, EmitFails
    PROVE  AttemptInv' /\ step' = "ended" /\ err' # "none"
  <1> USE DEF AttemptInv, EmitFails, EmissionSteps, OutputSteps, FrameSteps, DeltaSteps
  <1>1. ~Whole
    BY DEF Consistent, Whole, Finishes, Closes
  <1>2. AttemptTypeOK'
    BY DEF AttemptTypeOK, attemptVars
  <1>3. Consistent'
    BY <1>1 DEF Consistent, attemptVars, Whole, Closes
  <1> QED
    BY <1>2, <1>3, SameStream

LEMMA ReadKeeps ==
    ASSUME AttemptInv, ReadFrame \/ ReadEof \/ ReadFails
    PROVE  AttemptInv' /\ (step' = "ended" => err' # "none") /\ UNCHANGED out
  <1> USE DEF AttemptInv, EmissionSteps, OutputSteps, FrameSteps, DeltaSteps
  <1>1. CASE ReadFrame
    <2>1. PICK f \in Frames : received' = Append(received, f)
      BY <1>1 DEF ReadFrame
    <2>2. received' \in Seq(Frames) /\ received' # <<>>
      BY <2>1, AppendTyped, LastOfAppend DEF AttemptTypeOK
    <2>3. AttemptTypeOK'
      BY <1>1, <2>2 DEF ReadFrame, AttemptTypeOK
    <2>4. Consistent'
      BY <1>1 DEF ReadFrame, Consistent, Whole, Finishes, Closes
    <2> QED
      BY <1>1, <2>3, <2>4, SameStream DEF ReadFrame
  <1>2. CASE ReadEof
    <2>1. AttemptTypeOK' /\ Consistent'
      BY <1>2 DEF ReadEof, attemptVars, AttemptTypeOK, Consistent, Whole, Finishes, Closes
    <2> QED
      BY <1>2, <2>1, SameStream DEF ReadEof
  <1>3. CASE ReadFails
    <2>1. ~Whole
      BY <1>3 DEF ReadFails, Consistent, Whole
    <2>2. AttemptTypeOK' /\ Consistent'
      BY <1>3, <2>1 DEF ReadFails, attemptVars, AttemptTypeOK, Consistent, Whole, Finishes,
                        Closes
    <2> QED
      BY <1>3, <2>2, SameStream DEF ReadFails
  <1> QED
    BY <1>1, <1>2, <1>3

LEMMA DrainKeeps ==
    ASSUME AttemptInv, DrainFrame \/ DrainEof
    PROVE  AttemptInv' /\ step' \in {"read", "ended"} /\ UNCHANGED out
  <1> USE DEF AttemptInv, EmissionSteps, OutputSteps, FrameSteps, DeltaSteps
  <1>1. CASE DrainFrame
    <2>1. PICK f \in Frames : received' = Append(received, f)
      BY <1>1 DEF DrainFrame
    <2>2. received' \in Seq(Frames)
      BY <2>1, AppendTyped DEF AttemptTypeOK
    <2>3. AttemptTypeOK' /\ Consistent'
      BY <1>1, <2>2 DEF DrainFrame, AttemptTypeOK, Consistent, Whole, Finishes, Closes
    <2> QED
      BY <1>1, <2>3, SameStream DEF DrainFrame
  <1>2. CASE DrainEof
    <2>1. AttemptTypeOK' /\ Consistent'
      BY <1>2 DEF DrainEof, attemptVars, AttemptTypeOK, Consistent, Whole, Finishes, Closes
    <2> QED
      BY <1>2, <2>1, SameStream DEF DrainEof
  <1> QED
    BY <1>1, <1>2

\* A new attempt may begin only while the client was given nothing.
LEMMA FreshKeeps ==
    ASSUME FreshAttempt, attempt' \in {1, 2}, out' = <<>>, err' \in {"none", "mcp", "other"},
           step' \notin FrameSteps, step' # "done",
           step' \in OutputSteps \cup EmissionSteps => err' = "none"
    PROVE  AttemptInv'
  <1>0. /\ received' \in Seq(Frames) /\ order' \in Seq(Strings) /\ out' \in Seq(Chunks)
        /\ active' \in 0 .. Len(order')
    BY EmptyTyped DEF FreshAttempt
  <1>1. AttemptTypeOK'
    BY <1>0 DEF FreshAttempt, AttemptTypeOK, FrameSteps, DeltaSteps
  <1>2. OneStream'
    BY DEF OneStream, IsStream
  <1>3. Consistent'
    BY DEF FreshAttempt, Consistent, Whole
  <1> QED
    BY <1>1, <1>2, <1>3 DEF AttemptInv

\* A goroutine that has left its attempt does not touch what was given.
LEMMA OutsideKeeps ==
    ASSUME AttemptInv, UNCHANGED <<attempt, attemptVars, out>>, err' \in {err, "other"},
           err' # err => ~Whole,
           step' \notin OutputSteps \cup EmissionSteps
    PROVE  AttemptInv'
  <1>1. AttemptTypeOK'
    BY DEF AttemptInv, AttemptTypeOK, attemptVars, OutputSteps, FrameSteps
  <1>2. Consistent'
    BY DEF AttemptInv, Consistent, attemptVars, Whole, OutputSteps, EmissionSteps, Closes
  <1> QED
    BY <1>1, <1>2, SameStream DEF AttemptInv

\* The number of the attempt may change while the client was given nothing.
LEMMA RetryKeeps ==
    ASSUME AttemptInv, UNCHANGED <<attemptVars, out>>, out = <<>>, attempt' \in {1, 2},
           err' = "none", step' \notin OutputSteps \cup EmissionSteps
    PROVE  AttemptInv'
  <1>1. AttemptTypeOK'
    BY DEF AttemptInv, AttemptTypeOK, attemptVars, OutputSteps, FrameSteps
  <1>2. OneStream'
    BY DEF OneStream, IsStream
  <1>3. Consistent'
    BY DEF AttemptInv, Consistent, attemptVars, Whole, OutputSteps, EmissionSteps
  <1> QED
    BY <1>1, <1>2, <1>3 DEF AttemptInv

LEMMA SameKeeps ==
    ASSUME AttemptInv, UNCHANGED <<step, attempt, attemptVars, err, out>>
    PROVE  AttemptInv'
  <1>1. AttemptTypeOK'
    BY DEF AttemptInv, AttemptTypeOK, attemptVars, Frame
  <1>2. Consistent'
    BY DEF AttemptInv, Consistent, attemptVars, Whole, Finishes, Closes
  <1> QED
    BY <1>1, <1>2, SameStream DEF AttemptInv

-----------------------------------------------------------------------------
\* What one more frame, chunk or delta adds to what was made of those before.
LEMMA MapAppend ==
    ASSUME NEW T, NEW n \in Nat, NEW f \in [1 .. n -> T], NEW e \in T,
           NEW g \in [1 .. n + 1 -> T], g[n + 1] = e, \A i \in 1 .. n : g[i] = f[i]
    PROVE  f \in Seq(T) /\ Append(f, e) = g
  <1> DEFINE s == Append(f, e)
  <1>1. f \in Seq(T) /\ Len(f) = n
    OBVIOUS
  <1>2. s \in Seq(T) /\ Len(s) = n + 1 /\ s[n + 1] = e /\ \A i \in 1 .. n : s[i] = f[i]
    BY <1>1, AppendIs, AppendTyped
  <1>3. \A i \in 1 .. n + 1 : s[i] = g[i]
    BY <1>2
  <1> HIDE DEF s
  <1>4. s = [i \in 1 .. Len(s) |-> s[i]]
    BY <1>2
  <1>5. s \in [1 .. n + 1 -> T]
    BY <1>2, <1>4
  <1>6. s = g
    BY <1>3, <1>5
  <1> QED
    BY <1>1, <1>6 DEF s

LEMMA TextsTyped == \A t \in Strings : Texts(t) \in Seq(Strings)
  BY DEF Texts

LEMMA TextAppend ==
    ASSUME NEW S, NEW xs \in Seq(S), NEW x \in S, \A y \in S : y.text \in Strings
    PROVE  TextOf(Append(xs, x)) = TextOf(xs) \o Texts(x.text) /\ TextOf(xs) \in Seq(Strings)
  <1> DEFINE T == Seq(Strings)
             e == Texts(x.text)
             f == [i \in 1 .. Len(xs) |-> Texts(xs[i].text)]
             g == [i \in 1 .. Len(Append(xs, x)) |-> Texts(Append(xs, x)[i].text)]
  <1>0. \A y \in S : Texts(y.text) \in T
    BY TextsTyped
  <1>1. f \in [1 .. Len(xs) -> T] /\ e \in T /\ Len(xs) \in Nat
    BY <1>0
  <1>2. /\ g \in [1 .. Len(xs) + 1 -> T] /\ g[Len(xs) + 1] = e
        /\ \A i \in 1 .. Len(xs) : g[i] = f[i]
    BY <1>0, AppendIs
  <1> DEFINE n == Len(xs)
  <1> HIDE DEF e, f, g, n, T
  <1>3. f \in Seq(T) /\ Append(f, e) = g
    <2>1. f \in [1 .. n -> T] /\ e \in T /\ n \in Nat
      BY <1>1 DEF n
    <2>2. g \in [1 .. n + 1 -> T] /\ g[n + 1] = e /\ \A i \in 1 .. n : g[i] = f[i]
      BY <1>2 DEF n
    <2> QED
      BY <2>1, <2>2, MapAppend
  <1>4. FlattenSeq(g) = FlattenSeq(f) \o e /\ FlattenSeq(f) \in Seq(Strings)
    BY <1>1, <1>3, FlattenAppend, FlattenTyped DEF T
  <1> QED
    BY <1>4 DEF TextOf, e, f, g

LEMMA DeltasAppend ==
    ASSUME NEW xs \in Seq(Frames), NEW x \in Frames
    PROVE  DeltasOf(Append(xs, x)) = DeltasOf(xs) \o x.tools /\ DeltasOf(xs) \in Seq(ToolDeltas)
  <1> DEFINE T == Seq(ToolDeltas)
             e == x.tools
             f == [i \in 1 .. Len(xs) |-> xs[i].tools]
             g == [i \in 1 .. Len(Append(xs, x)) |-> Append(xs, x)[i].tools]
  <1>0. \A y \in Frames : y.tools \in T
    BY FramesAssumption DEF RespDeltas
  <1>1. f \in [1 .. Len(xs) -> T] /\ e \in T /\ Len(xs) \in Nat
    BY <1>0
  <1>2. /\ g \in [1 .. Len(xs) + 1 -> T] /\ g[Len(xs) + 1] = e
        /\ \A i \in 1 .. Len(xs) : g[i] = f[i]
    BY <1>0, AppendIs
  <1> HIDE DEF e, f, g, T
  <1>3. f \in Seq(T) /\ Append(f, e) = g
    BY <1>1, <1>2, MapAppend
  <1>4. FlattenSeq(g) = FlattenSeq(f) \o e /\ FlattenSeq(f) \in Seq(ToolDeltas)
    BY <1>1, <1>3, FlattenAppend, FlattenTyped DEF T
  <1> QED
    BY <1>4 DEF DeltasOf, e, f, g

LEMMA StartsAppend ==
    ASSUME NEW xs \in Seq(Chunks), NEW x \in Chunks
    PROVE  Starting(Append(xs, x)) = Starting(xs) \o Start(x) /\ Starting(xs) \in Seq(Chunks)
  <1> DEFINE T == Seq(Chunks)
             e == Start(x)
             f == [i \in 1 .. Len(xs) |-> Start(xs[i])]
             g == [i \in 1 .. Len(Append(xs, x)) |-> Start(Append(xs, x)[i])]
  <1>0. \A y \in Chunks : Start(y) \in T
    BY DEF Start
  <1>1. f \in [1 .. Len(xs) -> T] /\ e \in T /\ Len(xs) \in Nat
    BY <1>0
  <1>2. /\ g \in [1 .. Len(xs) + 1 -> T] /\ g[Len(xs) + 1] = e
        /\ \A i \in 1 .. Len(xs) : g[i] = f[i]
    BY <1>0, AppendIs
  <1> HIDE DEF e, f, g, T
  <1>3. f \in Seq(T) /\ Append(f, e) = g
    BY <1>1, <1>2, MapAppend
  <1>4. FlattenSeq(g) = FlattenSeq(f) \o e /\ FlattenSeq(f) \in Seq(Chunks)
    BY <1>1, <1>3, FlattenAppend, FlattenTyped DEF T
  <1> QED
    BY <1>4 DEF Starting, e, f, g

LEMMA ArgsAppend ==
    ASSUME NEW xs \in Seq(Chunks), NEW x \in Chunks, NEW n \in Int
    PROVE  ArgsAt(Append(xs, x), n) = ArgsAt(xs, n) \o ArgsFor(x, n)
           /\ ArgsAt(xs, n) \in Seq(Strings)
  <1> DEFINE T == Seq(Strings)
             e == ArgsFor(x, n)
             f == [i \in 1 .. Len(xs) |-> ArgsFor(xs[i], n)]
             g == [i \in 1 .. Len(Append(xs, x)) |-> ArgsFor(Append(xs, x)[i], n)]
  <1>0. \A y \in Chunks : ArgsFor(y, n) \in T
    BY TextsTyped DEF ArgsFor, Chunks
  <1>1. f \in [1 .. Len(xs) -> T] /\ e \in T /\ Len(xs) \in Nat
    BY <1>0
  <1>2. /\ g \in [1 .. Len(xs) + 1 -> T] /\ g[Len(xs) + 1] = e
        /\ \A i \in 1 .. Len(xs) : g[i] = f[i]
    BY <1>0, AppendIs
  <1> HIDE DEF e, f, g, T
  <1>3. f \in Seq(T) /\ Append(f, e) = g
    BY <1>1, <1>2, MapAppend
  <1>4. FlattenSeq(g) = FlattenSeq(f) \o e /\ FlattenSeq(f) \in Seq(Strings)
    BY <1>1, <1>3, FlattenAppend, FlattenTyped DEF T
  <1> QED
    BY <1>4 DEF ArgsAt, e, f, g

LEMMA NothingMade ==
    /\ TextOf(<<>>) = <<>> /\ DeltasOf(<<>>) = <<>> /\ Starting(<<>>) = <<>>
    /\ \A n \in Int : ArgsAt(<<>>, n) = <<>>
  <1>1. \A f : [i \in 1 .. Len(<<>>) |-> f[i]] = <<>>
    OBVIOUS
  <1>2. TextOf(<<>>) = <<>>
    <2>1. [i \in 1 .. Len(<<>>) |-> Texts(<<>>[i].text)] = <<>>
      OBVIOUS
    <2> QED
      BY <2>1, FlattenEmpty DEF TextOf
  <1>3. DeltasOf(<<>>) = <<>>
    <2>1. [i \in 1 .. Len(<<>>) |-> <<>>[i].tools] = <<>>
      OBVIOUS
    <2> QED
      BY <2>1, FlattenEmpty DEF DeltasOf
  <1>4. Starting(<<>>) = <<>>
    <2>1. [i \in 1 .. Len(<<>>) |-> Start(<<>>[i])] = <<>>
      OBVIOUS
    <2> QED
      BY <2>1, FlattenEmpty DEF Starting
  <1>5. ASSUME NEW n \in Int PROVE ArgsAt(<<>>, n) = <<>>
    <2>1. [i \in 1 .. Len(<<>>) |-> ArgsFor(<<>>[i], n)] = <<>>
      OBVIOUS
    <2> QED
      BY <2>1, FlattenEmpty DEF ArgsAt
  <1> QED
    BY <1>2, <1>3, <1>4, <1>5

-----------------------------------------------------------------------------
\* The function by which Gathered is defined.
Gathers(f, ds) ==
    f = [n \in 0 .. Len(ds) |-> IF n = 0 THEN NoTools ELSE Accumulate(f[n - 1], ds[n])]

LEMMA GathersUnique ==
    ASSUME NEW ds, Len(ds) \in Nat, NEW f, NEW g, Gathers(f, ds), Gathers(g, ds)
    PROVE  f = g
  <1> DEFINE Agree == {n \in Nat : n <= Len(ds) => f[n] = g[n]}
  <1>1. 0 \in Agree
    BY DEF Gathers
  <1>2. ASSUME NEW n \in Agree PROVE n + 1 \in Agree
    <2>1. n + 1 <= Len(ds) =>
             /\ f[n] = g[n]
             /\ f[n + 1] = Accumulate(f[n], ds[n + 1])
             /\ g[n + 1] = Accumulate(g[n], ds[n + 1])
      BY DEF Gathers
    <2> QED
      BY <2>1
  <1>3. Agree \subseteq Nat
    OBVIOUS
  <1> HIDE DEF Agree
  <1>4. \A n \in Nat : n \in Agree
    BY <1>1, <1>2, <1>3, InductionOnSet
  <1>5. \A n \in 0 .. Len(ds) : f[n] = g[n]
    BY <1>4 DEF Agree
  <1>6. /\ f = [n \in 0 .. Len(ds) |-> f[n]]
        /\ g = [n \in 0 .. Len(ds) |-> g[n]]
    BY DEF Gathers
  <1> QED
    BY <1>5, <1>6

LEMMA GathersExtends ==
    ASSUME NEW S, NEW ds \in Seq(S), NEW d \in S, NEW f, Gathers(f, ds)
    PROVE  \E g : Gathers(g, Append(ds, d)) /\ g[Len(ds) + 1] = Accumulate(f[Len(ds)], d)
  <1> DEFINE n == Len(ds)
             all == Append(ds, d)
             g == [i \in 0 .. n + 1 |-> IF i <= n THEN f[i] ELSE Accumulate(f[n], d)]
  <1>1. n \in Nat /\ Len(all) = n + 1 /\ all[n + 1] = d /\ \A i \in 1 .. n : all[i] = ds[i]
    BY AppendIs
  <1>2. /\ f[0] = NoTools
        /\ \A i \in 1 .. n : f[i] = Accumulate(f[i - 1], ds[i])
    BY <1>1 DEF Gathers
  <1>3. \A i \in 0 .. n + 1 : g[i] = IF i = 0 THEN NoTools ELSE Accumulate(g[i - 1], all[i])
    <2> SUFFICES ASSUME NEW i \in 0 .. n + 1
                 PROVE  g[i] = IF i = 0 THEN NoTools ELSE Accumulate(g[i - 1], all[i])
      OBVIOUS
    <2> HIDE DEF all
    <2>1. CASE i = 0
      BY <1>1, <1>2, <2>1
    <2>2. CASE i \in 1 .. n
      BY <1>1, <1>2, <2>2
    <2>3. CASE i = n + 1
      BY <1>1, <2>3
    <2> QED
      BY <1>1, <2>1, <2>2, <2>3
  <1>4. g = [i \in 0 .. n + 1 |-> g[i]] /\ g[n + 1] = Accumulate(f[n], d)
    BY <1>1
  <1> HIDE DEF g, all
  <1>5. Gathers(g, all)
    BY <1>1, <1>3, <1>4 DEF Gathers
  <1> QED
    BY <1>4, <1>5 DEF all

LEMMA GathersExists ==
    ASSUME NEW S, NEW ds \in Seq(S)
    PROVE  \E f : Gathers(f, ds)
  <1> DEFINE Has == {n \in Nat : \A s \in Seq(S) : Len(s) = n => \E f : Gathers(f, s)}
  <1>1. 0 \in Has
    <2>1. ASSUME NEW s \in Seq(S), Len(s) = 0 PROVE \E f : Gathers(f, s)
      <3> DEFINE f == [n \in 0 .. Len(s) |-> NoTools]
      <3>1. \A n \in 0 .. Len(s) : n = 0
        BY <2>1
      <3>2. f = [n \in 0 .. Len(s) |-> IF n = 0 THEN NoTools ELSE Accumulate(f[n - 1], s[n])]
        BY <3>1
      <3> QED
        BY <3>2 DEF Gathers
    <2> QED
      BY <2>1
  <1>2. ASSUME NEW n \in Has PROVE n + 1 \in Has
    <2>1. ASSUME NEW s \in Seq(S), Len(s) = n + 1 PROVE \E f : Gathers(f, s)
      <3> DEFINE front == SubSeq(s, 1, n)
      <3>1. /\ front \in Seq(S) /\ Len(front) = n /\ s[n + 1] \in S
            /\ s = Append(front, s[n + 1])
        BY <2>1
      <3>2. \E f : Gathers(f, front)
        BY <3>1
      <3> HIDE DEF front
      <3> QED
        BY <3>1, <3>2, GathersExtends
    <2> QED
      BY <2>1
  <1>3. Has \subseteq Nat /\ Len(ds) \in Nat
    OBVIOUS
  <1> HIDE DEF Has
  <1>4. Len(ds) \in Has
    BY <1>1, <1>2, <1>3, InductionOnSet
  <1> QED
    BY <1>4 DEF Has

LEMMA GatheredIs ==
    ASSUME NEW S, NEW ds \in Seq(S), NEW f, Gathers(f, ds)
    PROVE  Gathered(ds) = f[Len(ds)]
  <1> DEFINE g == CHOOSE h : Gathers(h, ds)
  <1>1. Gathers(g, ds)
    BY Zenon
  <1>2. f = g
    BY <1>1, GathersUnique
  <1>3. Gathered(ds) = g[Len(ds)]
    BY DEF Gathered, Gathers
  <1> QED
    BY <1>2, <1>3

LEMMA GatheredNone == Gathered(<<>>) = NoTools
  <1>1. <<>> \in Seq({}) /\ Len(<<>>) = 0
    OBVIOUS
  <1>2. PICK f : Gathers(f, <<>>)
    BY <1>1, GathersExists
  <1>3. f[0] = NoTools
    BY <1>2 DEF Gathers
  <1>4. Gathered(<<>>) = f[Len(<<>>)]
    BY <1>1, <1>2, GatheredIs
  <1> QED
    BY <1>1, <1>3, <1>4

LEMMA GatheredAppend ==
    ASSUME NEW S, NEW ds \in Seq(S), NEW d \in S
    PROVE  Gathered(Append(ds, d)) = Accumulate(Gathered(ds), d)
  <1>1. PICK f : Gathers(f, ds)
    BY GathersExists
  <1>2. PICK g : Gathers(g, Append(ds, d)) /\ g[Len(ds) + 1] = Accumulate(f[Len(ds)], d)
    BY <1>1, GathersExtends
  <1>3. Append(ds, d) \in Seq(S) /\ Len(Append(ds, d)) = Len(ds) + 1
    BY AppendIs
  <1> QED
    BY <1>1, <1>2, <1>3, GatheredIs

-----------------------------------------------------------------------------
\* Calls as accumulateToolDeltas gathers them, beside what a client was told of
\* them and the local variables of the stream.  The name of a call is what the
\* client was told if it was told one.
Calls == [id : Strings, name : Strings, args : Seq(Strings)]
Gathering == [tools : Seq(Calls), active : Nat]

CallMatches(acc, chunks, ids, i) ==
    /\ ids[i] # NoText /\ acc.tools[i].id = ids[i]
    /\ Starting(chunks)[i].id = ids[i] /\ Starting(chunks)[i].index = i - 1
    /\ acc.tools[i].args = ArgsAt(chunks, i - 1)
    /\ Starting(chunks)[i].name # NoText => acc.tools[i].name = Starting(chunks)[i].name

Match(acc, chunks, ids, act) ==
    /\ acc \in Gathering /\ ids \in Seq(Strings) /\ act \in 0 .. Len(ids)
    /\ acc.active = act
    /\ Len(acc.tools) = Len(ids) /\ Len(Starting(chunks)) = Len(ids)
    /\ \A i \in 1 .. Len(ids) : CallMatches(acc, chunks, ids, i)
    /\ \A n \in Nat : n >= Len(ids) => ArgsAt(chunks, n) = <<>>
    /\ \A i, j \in 1 .. Len(ids) : ids[i] = ids[j] => i = j

LEMMA ExceptIs ==
    ASSUME NEW S, NEW s \in Seq(S), NEW k \in 1 .. Len(s), NEW e \in S
    PROVE  /\ [s EXCEPT ![k] = e] \in Seq(S) /\ Len([s EXCEPT ![k] = e]) = Len(s)
           /\ [s EXCEPT ![k] = e][k] = e
           /\ \A i \in 1 .. Len(s) : i # k => [s EXCEPT ![k] = e][i] = s[i]
  OBVIOUS

\* A chunk with neither a call nor arguments.
LEMMA QuietMatches ==
    ASSUME NEW acc, NEW chunks \in Seq(Chunks), NEW ids, NEW act, Match(acc, chunks, ids, act),
           NEW c \in Chunks, c.id = NoText, c.args = NoText
    PROVE  Match(acc, Append(chunks, c), ids, act)
  <1>1. Starting(Append(chunks, c)) = Starting(chunks)
    BY StartsAppend, ConcatEmpty DEF Start
  <1>2. ASSUME NEW n \in Int PROVE ArgsAt(Append(chunks, c), n) = ArgsAt(chunks, n)
    <2>1. ArgsFor(c, n) = <<>>
      BY DEF ArgsFor, Texts
    <2> QED
      BY <2>1, ArgsAppend, ConcatEmpty
  <1>3. \A i \in 1 .. Len(ids) : i - 1 \in Int
    BY DEF Match
  <1> QED
    BY <1>1, <1>2, <1>3 DEF Match, CallMatches

\* A chunk that starts a call.
LEMMA StartMatches ==
    ASSUME NEW acc, NEW chunks \in Seq(Chunks), NEW ids, NEW act, Match(acc, chunks, ids, act),
           NEW d \in ToolDeltas, d.id # NoText, \A i \in 1 .. Len(ids) : ids[i] # d.id,
           NEW c \in Chunks, c.id = d.id, c.name = d.name, c.index = Len(ids), c.args = NoText
    PROVE  Match(Named(acc, d), Append(chunks, c), Append(ids, d.id), Len(ids) + 1)
  <1> DEFINE call == [id |-> d.id, name |-> d.name, args |-> <<>>]
             all == Append(chunks, c)
             more == Append(ids, d.id)
             n == Len(ids)
  <1>1. /\ ids \in Seq(Strings) /\ d.id \in Strings /\ d.name \in Strings /\ n \in Nat
        /\ acc.tools \in Seq(Calls)
        /\ call \in Calls
        /\ Len(acc.tools) = n /\ Len(Starting(chunks)) = n
    BY DEF Match, Gathering, Calls, ToolDeltas, Strings
  <1>2. {i \in 1 .. Len(acc.tools) : acc.tools[i].id = d.id} = {}
    BY DEF Match, CallMatches
  <1>3. Named(acc, d) = [tools |-> Append(acc.tools, call), active |-> n + 1]
    BY <1>1, <1>2 DEF Named
  <1>4. Starting(all) = Append(Starting(chunks), c) /\ Starting(chunks) \in Seq(Chunks)
    <2>1. Start(c) = <<c>> /\ Starting(chunks) \in Seq(Chunks)
      BY StartsAppend DEF Start
    <2>2. Starting(chunks) \o <<c>> = Append(Starting(chunks), c)
      BY <2>1
    <2> QED
      BY <2>1, <2>2, StartsAppend
  <1>5. ASSUME NEW k \in Int PROVE ArgsAt(all, k) = ArgsAt(chunks, k)
    <2>1. ArgsFor(c, k) = <<>>
      BY DEF ArgsFor, Texts
    <2> QED
      BY <2>1, ArgsAppend, ConcatEmpty
  <1>6. /\ more \in Seq(Strings) /\ Len(more) = n + 1 /\ more[n + 1] = d.id
        /\ \A i \in 1 .. n : more[i] = ids[i]
    BY <1>1
  <1>7. /\ Named(acc, d).tools \in Seq(Calls)
        /\ Named(acc, d).active = n + 1
        /\ Len(Named(acc, d).tools) = n + 1
        /\ Named(acc, d).tools[n + 1] = call
        /\ \A i \in 1 .. n : Named(acc, d).tools[i] = acc.tools[i]
    BY <1>1, <1>3
  <1>8. /\ Len(Starting(all)) = n + 1 /\ Starting(all)[n + 1] = c
        /\ \A i \in 1 .. n : Starting(all)[i] = Starting(chunks)[i]
    BY <1>1, <1>4
  <1>9. Named(acc, d) \in Gathering
    BY <1>1, <1>3, <1>7 DEF Gathering
  <1>10. \A i \in 1 .. n : CallMatches(acc, chunks, ids, i)
    BY DEF Match
  <1>11. ASSUME NEW i \in 1 .. n + 1 PROVE CallMatches(Named(acc, d), all, more, i)
    <2> HIDE DEF all, more, call, n
    <2>1. CASE i \in 1 .. n
      <3>1. i - 1 \in Int
        BY <1>1
      <3> QED
        BY <1>5, <1>6, <1>7, <1>8, <1>10, <2>1, <3>1 DEF CallMatches
    <2>2. CASE i = n + 1
      <3>1. n \in Int /\ ArgsAt(chunks, n) = <<>> /\ i - 1 = n
        BY <1>1, <2>2 DEF Match, n
      <3>2. ArgsAt(all, i - 1) = <<>>
        BY <1>5, <3>1
      <3>3. call.id = d.id /\ call.name = d.name /\ call.args = <<>>
        BY DEF call
      <3>4. c.index = i - 1
        BY <3>1 DEF n
      <3> QED
        BY <1>6, <1>7, <1>8, <2>2, <3>2, <3>3, <3>4 DEF CallMatches
    <2> QED
      BY <1>1, <2>1, <2>2
  <1>12. \A k \in Nat : k >= n + 1 => ArgsAt(all, k) = <<>>
    BY <1>1, <1>5 DEF Match
  <1>13. \A i, j \in 1 .. n + 1 : more[i] = more[j] => i = j
    <2>1. \A i, j \in 1 .. n : ids[i] = ids[j] => i = j
      BY DEF Match
    <2>2. \A i \in 1 .. n : more[i] # more[n + 1]
      BY <1>1, <1>6
    <2>3. \A i, j \in 1 .. n : more[i] = more[j] => i = j
      BY <1>6, <2>1
    <2> HIDE DEF more, n
    <2> QED
      BY <1>1, <2>2, <2>3
  <1> HIDE DEF all, more, call, n
  <1>14. Match(Named(acc, d), all, more, n + 1)
    BY <1>1, <1>6, <1>7, <1>8, <1>9, <1>11, <1>12, <1>13 DEF Match
  <1> QED
    BY <1>14 DEF all, more, n

\* A delta that names a call the client knows, or none.
LEMMA KnownMatches ==
    ASSUME NEW acc, NEW chunks, NEW ids, NEW act, Match(acc, chunks, ids, act),
           NEW d \in ToolDeltas, d.id # NoText, NEW k \in 1 .. Len(ids), ids[k] = d.id
    PROVE  Match(Named(acc, d), chunks, ids, k)
  <1> DEFINE known == {i \in 1 .. Len(acc.tools) : acc.tools[i].id = d.id}
             new == Named(acc, d)
  <1>1. /\ acc.tools \in Seq(Calls) /\ Len(acc.tools) = Len(ids) /\ Len(ids) \in Nat
        /\ d.name \in Strings
    BY DEF Match, Gathering, ToolDeltas, Strings
  <1>2. \A i \in 1 .. Len(ids) : acc.tools[i].id = ids[i]
    BY DEF Match, CallMatches
  <1>3. known = {k}
    BY <1>1, <1>2 DEF Match
  <1>4. new = [tools |-> [acc.tools EXCEPT ![k].name = IF @ = NoText THEN d.name ELSE @],
               active |-> k]
    <2>1. (CHOOSE i \in known : TRUE) = k
      BY <1>3
    <2>2. known # {}
      BY <1>3
    <2> QED
      BY <2>1, <2>2, Zenon DEF Named
  <1> HIDE DEF known, new
  <1> DEFINE call == [acc.tools[k] EXCEPT !.name = IF @ = NoText THEN d.name ELSE @]
             tools == [acc.tools EXCEPT ![k] = call]
  <1>5. acc.tools[k] \in Calls /\ new = [tools |-> tools, active |-> k]
    <2>1. acc.tools[k] \in Calls
      BY <1>1
    <2> QED
      BY <1>4, <2>1
  <1>6. /\ call \in Calls /\ call.id = acc.tools[k].id /\ call.args = acc.tools[k].args
        /\ acc.tools[k].name # NoText => call.name = acc.tools[k].name
    BY <1>1, <1>5 DEF Calls
  <1> HIDE DEF call
  <1>7. /\ tools \in Seq(Calls) /\ Len(tools) = Len(ids) /\ tools[k] = call
        /\ \A i \in 1 .. Len(ids) : i # k => tools[i] = acc.tools[i]
    BY <1>1, <1>6, ExceptIs
  <1> HIDE DEF tools
  <1>8. new.active = k /\ new.tools = tools /\ new \in Gathering
    BY <1>1, <1>5, <1>7 DEF Gathering
  <1>9. ASSUME NEW i \in 1 .. Len(ids) PROVE CallMatches(new, chunks, ids, i)
    <2>1. CallMatches(acc, chunks, ids, i)
      BY DEF Match
    <2> QED
      BY <1>6, <1>7, <1>8, <2>1 DEF CallMatches
  <1>10. Match(new, chunks, ids, k)
    BY <1>1, <1>7, <1>8, <1>9 DEF Match
  <1> QED
    BY <1>10 DEF new

\* A chunk with arguments for the active call.
LEMMA ArgsMatch ==
    ASSUME NEW acc, NEW chunks \in Seq(Chunks), NEW ids, NEW act, Match(acc, chunks, ids, act),
           act > 0, NEW t \in Strings, t # NoText,
           NEW c \in Chunks, c.id = NoText, c.index = act - 1, c.args = t
    PROVE  Match([acc EXCEPT !.tools[acc.active].args = Append(@, t)], Append(chunks, c), ids, act)
  <1> DEFINE new == [acc EXCEPT !.tools[acc.active].args = Append(@, t)]
             all == Append(chunks, c)
  <1>1. /\ acc.tools \in Seq(Calls) /\ Len(acc.tools) = Len(ids) /\ Len(ids) \in Nat
        /\ acc.active = act /\ act \in 1 .. Len(ids) /\ acc \in Gathering
    BY DEF Match, Gathering
  <1> DEFINE call == [acc.tools[act] EXCEPT !.args = Append(@, t)]
             tools == [acc.tools EXCEPT ![act] = call]
  <1>2. acc.tools[act] \in Calls /\ acc.tools[act].args \in Seq(Strings)
    <2>1. acc.tools[act] \in Calls
      BY <1>1
    <2> QED
      BY <2>1 DEF Calls
  <1>3. new = [tools |-> tools, active |-> act]
    <2>1. acc = [tools |-> acc.tools, active |-> act]
      BY <1>1 DEF Gathering
    <2>2. new = [acc EXCEPT !.tools = tools]
      BY <1>1, <2>1
    <2> HIDE DEF new, tools
    <2> QED
      BY <2>1, <2>2
  <1>4. /\ call \in Calls /\ call.id = acc.tools[act].id /\ call.name = acc.tools[act].name
        /\ call.args = Append(acc.tools[act].args, t)
    <2>1. Append(acc.tools[act].args, t) \in Seq(Strings)
      BY <1>2, AppendTyped
    <2> QED
      BY <1>2, <2>1 DEF Calls
  <1> HIDE DEF call
  <1>5. /\ tools \in Seq(Calls) /\ Len(tools) = Len(ids) /\ tools[act] = call
         /\ \A i \in 1 .. Len(ids) : i # act => tools[i] = acc.tools[i]
    BY <1>1, <1>4, ExceptIs
  <1> HIDE DEF tools
  <1>6. new.active = act /\ new.tools = tools /\ new \in Gathering
    BY <1>1, <1>3, <1>5 DEF Gathering
  <1>7. Starting(all) = Starting(chunks)
    BY StartsAppend, ConcatEmpty DEF Start
  <1>8. ASSUME NEW n \in Int, n # act - 1 PROVE ArgsAt(all, n) = ArgsAt(chunks, n)
    <2>1. ArgsFor(c, n) = <<>>
      BY <1>8 DEF ArgsFor
    <2> QED
      BY <2>1, ArgsAppend, ConcatEmpty
  <1>9. ArgsAt(all, act - 1) = Append(ArgsAt(chunks, act - 1), t)
    <2>1. ArgsFor(c, act - 1) = <<t>> /\ act - 1 \in Int
      BY <1>1 DEF ArgsFor, Texts
    <2>2. ArgsAt(all, act - 1) = ArgsAt(chunks, act - 1) \o <<t>>
          /\ ArgsAt(chunks, act - 1) \in Seq(Strings)
      BY <2>1, ArgsAppend
    <2> QED
      BY <2>2
  <1> HIDE DEF new, all
  <1>10. ASSUME NEW i \in 1 .. Len(ids) PROVE CallMatches(new, all, ids, i)
    <2>1. CallMatches(acc, chunks, ids, i)
      BY DEF Match
    <2>2. CASE i = act
      BY <1>4, <1>7, <1>9, <1>5, <1>6, <2>1, <2>2 DEF CallMatches
    <2>3. CASE i # act
      <3>1. i - 1 \in Int /\ i - 1 # act - 1
        BY <1>1, <2>3
      <3>2. ArgsAt(all, i - 1) = ArgsAt(chunks, i - 1)
        BY <1>8, <3>1
      <3> QED
        BY <1>5, <1>6, <1>7, <3>2, <2>1, <2>3, <3>1 DEF CallMatches
    <2> QED
      BY <2>2, <2>3
  <1>11. \A n \in Nat : n >= Len(ids) => ArgsAt(all, n) = <<>>
    <2> SUFFICES ASSUME NEW n \in Nat, n >= Len(ids) PROVE ArgsAt(all, n) = <<>>
      OBVIOUS
    <2>1. n # act - 1 /\ n \in Int
      BY <1>1
    <2> QED
      BY <1>8, <2>1 DEF Match
  <1>12. Match(new, all, ids, act)
    BY <1>7, <1>10, <1>11, <1>5, <1>6 DEF Match
  <1> QED
    BY <1>12 DEF new, all

-----------------------------------------------------------------------------
\* The frames whose text, and the deltas of calls, that were dealt with so far.
TextHeard == IF step = "text" THEN Front(received) ELSE received
Heard ==
    IF step \in FrameSteps THEN DeltasOf(Front(received)) \o SubSeq(Frame.tools, 1, at - 1)
    ELSE DeltasOf(received)
Account == IF step = "args" THEN Named(Gathered(Heard), Delta) ELSE Gathered(Heard)

\* What was told is what was heard, until and when the stream is whole.
Telling == step \in OutputSteps \cup {"finish", "done"} \/ Whole
ToldInv ==
    /\ step \in {"read", "text"} => at = 0
    /\ Telling => TextOf(out) = TextOf(TextHeard) /\ Match(Account, out, order, active)
    /\ step = "done" => Last(out).finish = FinishReason
    /\ Whole => Len(out) > 1 /\ out[Len(out) - 1].finish = FinishReason

LEMMA FrontIs ==
    ASSUME NEW S, NEW s \in Seq(S), s # <<>>
    PROVE  s = Append(Front(s), Last(s)) /\ Front(s) \in Seq(S) /\ Last(s) \in S
  BY DEF Front, Last

LEMMA FrontOfAppend ==
    ASSUME NEW S, NEW s \in Seq(S), NEW e \in S
    PROVE  Front(Append(s, e)) = s /\ Last(Append(s, e)) = e
  BY DEF Front, Last

\* The frame being dealt with, beside those before it.
LEMMA FrameHeard ==
    ASSUME AttemptTypeOK, step \in FrameSteps
    PROVE  /\ TextOf(received) = TextOf(Front(received)) \o Texts(Frame.text)
           /\ DeltasOf(received) = DeltasOf(Front(received)) \o Frame.tools
           /\ DeltasOf(Front(received)) \in Seq(ToolDeltas)
           /\ TextOf(Front(received)) \in Seq(Strings)
           /\ Frame.tools \in Seq(ToolDeltas)
  <1>1. received \in Seq(Frames) /\ received # <<>>
    BY DEF AttemptTypeOK
  <1>2. /\ received = Append(Front(received), Frame)
        /\ Front(received) \in Seq(Frames) /\ Frame \in Frames
    BY <1>1, FrontIs DEF Frame
  <1>3. \A y \in Frames : y.text \in Strings
    BY FramesAssumption DEF RespDeltas, Strings
  <1>4. Frame.tools \in Seq(ToolDeltas)
    BY <1>2, FramesAssumption DEF RespDeltas
  <1>5. TextOf(Append(Front(received), Frame)) = TextOf(Front(received)) \o Texts(Frame.text)
        /\ TextOf(Front(received)) \in Seq(Strings)
    BY <1>2, <1>3, TextAppend
  <1>6. DeltasOf(Append(Front(received), Frame)) = DeltasOf(Front(received)) \o Frame.tools
        /\ DeltasOf(Front(received)) \in Seq(ToolDeltas)
    BY <1>2, DeltasAppend
  <1> QED
    BY <1>2, <1>4, <1>5, <1>6

\* Where a frame is left: all its deltas up to the n-th were dealt with.
LEMMA DeltaLeft ==
    ASSUME AttemptTypeOK, step \in FrameSteps, NEW n \in 0 .. Len(Frame.tools), NextDelta(n),
           UNCHANGED received
    PROVE  /\ Account' = Gathered(DeltasOf(Front(received)) \o SubSeq(Frame.tools, 1, n))
           /\ TextHeard' = received /\ step' \in {"id", "read"}
  <1> DEFINE before == DeltasOf(Front(received))
  <1>1. /\ Frame' = Frame /\ DeltasOf(Front(received))' = before
        /\ DeltasOf(received)' = DeltasOf(received) /\ Front(received)' = Front(received)
    BY DEF Frame
  <1>2. Frame.tools \in Seq(ToolDeltas) /\ DeltasOf(received) = before \o Frame.tools
    BY FrameHeard
  <1>3. CASE n < Len(Frame.tools)
    <2>1. step' = "id" /\ at' = n + 1
      BY <1>3 DEF NextDelta
    <2>2. Heard' = before \o SubSeq(Frame.tools, 1, n)
      BY <1>1, <2>1 DEF Heard, FrameSteps, DeltaSteps
    <2> QED
      BY <2>1, <2>2 DEF Account, TextHeard
  <1>4. CASE n = Len(Frame.tools)
    <2>1. step' = "read"
      BY <1>4 DEF NextDelta
    <2>2. Heard' = before \o Frame.tools
      BY <1>1, <1>2, <2>1 DEF Heard, FrameSteps, DeltaSteps
    <2>3. SubSeq(Frame.tools, 1, n) = Frame.tools
      BY <1>2, <1>4
    <2> QED
      BY <2>1, <2>2, <2>3 DEF Account, TextHeard
  <1>5. Len(Frame.tools) \in Nat
    BY <1>2
  <1> QED
    BY <1>3, <1>4, <1>5

\* The calls to be accounted for when the text of a frame is dealt with, its n-th
\* call is named, and its arguments are dealt with.
LEMMA AfterText ==
    ASSUME AttemptTypeOK, step = "text", at = 0, NextDelta(0), UNCHANGED received
    PROVE  Account' = Account /\ TextHeard' = received /\ TextHeard = Front(received)
           /\ step' \in {"id", "read"}
  <1>1. step \in FrameSteps
    BY DEF FrameSteps
  <1>2. Frame.tools \in Seq(ToolDeltas) /\ DeltasOf(Front(received)) \in Seq(ToolDeltas)
    BY <1>1, FrameHeard
  <1>3. Account' = Gathered(DeltasOf(Front(received)) \o SubSeq(Frame.tools, 1, 0))
        /\ TextHeard' = received /\ step' \in {"id", "read"}
    BY <1>1, <1>2, DeltaLeft
  <1>4. SubSeq(Frame.tools, 1, 0) = <<>> /\ SubSeq(Frame.tools, 1, at - 1) = <<>>
    BY <1>2
  <1> QED
    BY <1>1, <1>3, <1>4 DEF Account, Heard, TextHeard

LEMMA AfterId ==
    ASSUME step = "id", step' = "args", UNCHANGED <<received, at>>
    PROVE  Account = Gathered(Heard) /\ Account' = Named(Gathered(Heard), Delta)
           /\ TextHeard = received /\ TextHeard' = received
  <1>1. Frame' = Frame /\ Delta' = Delta
    BY DEF Frame, Delta
  <1>2. Heard' = Heard
    BY <1>1 DEF Heard, FrameSteps, DeltaSteps
  <1> QED
    BY <1>1, <1>2 DEF Account, TextHeard

LEMMA AfterArgs ==
    ASSUME AttemptTypeOK, step = "args", NextDelta(at), UNCHANGED received
    PROVE  /\ Account = Named(Gathered(Heard), Delta)
           /\ Account' = Accumulate(Gathered(Heard), Delta)
           /\ TextHeard = received /\ TextHeard' = received /\ step' \in {"id", "read"}
  <1>1. step \in FrameSteps /\ step \in DeltaSteps
    BY DEF FrameSteps, DeltaSteps
  <1>2. /\ Frame.tools \in Seq(ToolDeltas) /\ DeltasOf(Front(received)) \in Seq(ToolDeltas)
        /\ at \in 1 .. Len(Frame.tools) /\ Delta \in ToolDeltas
    BY <1>1, FrameHeard, DeltaTyped DEF AttemptTypeOK
  <1>3. /\ Account' = Gathered(DeltasOf(Front(received)) \o SubSeq(Frame.tools, 1, at))
        /\ TextHeard' = received /\ step' \in {"id", "read"}
    BY <1>1, <1>2, DeltaLeft
  <1>4. Heard = DeltasOf(Front(received)) \o SubSeq(Frame.tools, 1, at - 1)
    BY <1>1 DEF Heard
  <1>5. SubSeq(Frame.tools, 1, at) = Append(SubSeq(Frame.tools, 1, at - 1), Delta)
        /\ SubSeq(Frame.tools, 1, at - 1) \in Seq(ToolDeltas)
    BY <1>2 DEF Delta
  <1>6. DeltasOf(Front(received)) \o SubSeq(Frame.tools, 1, at) = Append(Heard, Delta)
        /\ Heard \in Seq(ToolDeltas)
    BY <1>2, <1>4, <1>5
  <1>7. Account' = Accumulate(Gathered(Heard), Delta)
    BY <1>2, <1>3, <1>6, GatheredAppend
  <1> QED
    BY <1>3, <1>7 DEF Account, TextHeard

-----------------------------------------------------------------------------
\* Views of the chunks when one more is given.
LEMMA ChunkSays ==
    ASSUME NEW c \in Chunks, out \in Seq(Chunks)
    PROVE  /\ TextOf(Append(out, c)) = TextOf(out) \o Texts(c.text)
           /\ TextOf(out) \in Seq(Strings)
  <1>1. \A y \in Chunks : y.text \in Strings
    BY DEF Chunks
  <1> QED
    BY <1>1, TextAppend

LEMMA QuietSays ==
    ASSUME NEW c \in Chunks, out \in Seq(Chunks), c.text = NoText
    PROVE  TextOf(Append(out, c)) = TextOf(out)
  BY ChunkSays, ConcatEmpty DEF Texts

\* What a client was told is whole exactly when nothing is under way.
LEMMA WholeIsEnd ==
    ASSUME AttemptInv, Whole
    PROVE  step \notin OutputSteps \cup {"finish", "done"}
  BY DEF AttemptInv, Consistent, Whole, Finishes, Closes

LEMMA ActiveIs ==
    ASSUME AttemptTypeOK, NEW d \in ToolDeltas, d.id # NoText, NEW k \in 1 .. Len(OrderAfter(d)),
           OrderAfter(d)[k] = d.id,
           \A i \in 1 .. Len(OrderAfter(d)) : OrderAfter(d)[i] = d.id => i = k
    PROVE  ActiveAfter(d) = k
  BY DEF ActiveAfter

\* The text of a frame is given, or there is none.
LEMMA TextTold ==
    ASSUME AttemptInv, ToldInv, step = "text", NextDelta(0), UNCHANGED <<received, order, active>>,
           \/ Frame.text = NoText /\ out' = out
           \/ Frame.text # NoText /\ out' = Append(out, Pending)
    PROVE  TextOf(out') = TextOf(TextHeard') /\ Match(Account', out', order', active')
           /\ step' \in {"id", "read"}
  <1>1. /\ AttemptTypeOK /\ step \in FrameSteps /\ at = 0 /\ out \in Seq(Chunks)
        /\ TextOf(out) = TextOf(TextHeard) /\ Match(Account, out, order, active)
    BY DEF AttemptInv, AttemptTypeOK, ToldInv, Telling, OutputSteps, FrameSteps
  <1>2. /\ Account' = Account /\ TextHeard' = received /\ TextHeard = Front(received)
        /\ step' \in {"id", "read"}
    BY <1>1, AfterText
  <1>3. /\ TextOf(received) = TextOf(Front(received)) \o Texts(Frame.text)
        /\ TextOf(Front(received)) \in Seq(Strings)
    BY <1>1, FrameHeard
  <1>4. CASE Frame.text = NoText /\ out' = out
    <2>1. TextOf(received) = TextOf(Front(received))
      BY <1>3, <1>4, ConcatEmpty DEF Texts
    <2> QED
      BY <1>1, <1>2, <1>4, <2>1
  <1>5. CASE Frame.text # NoText /\ out' = Append(out, Pending)
    <2>1. Pending = [Blank EXCEPT !.role = first, !.text = Frame.text]
      BY DEF Pending
    <2>2. Pending.text = Frame.text /\ Pending.id = NoText /\ Pending.args = NoText
      BY <2>1 DEF Blank
    <2>3. Pending \in Chunks
      BY <1>5, PendingIs DEF Emits, EmissionSteps, AttemptInv
    <2>4. TextOf(out') = TextOf(out) \o Texts(Frame.text)
      BY <1>1, <1>5, <2>2, <2>3, ChunkSays
    <2>5. Match(Account, out', order, active)
      BY <1>1, <1>5, <2>2, <2>3, QuietMatches
    <2> QED
      BY <1>1, <1>2, <1>3, <2>4, <2>5
  <1> QED
    BY <1>4, <1>5

\* A delta names a call: a new one, one the client knows, or none.
LEMMA IdTold ==
    ASSUME AttemptInv, ToldInv, step = "id", step' = "args", UNCHANGED <<received, at>>,
           order' = OrderAfter(Delta), active' = ActiveAfter(Delta),
           \/ ~Starts(Delta) /\ out' = out
           \/ Starts(Delta) /\ out' = Append(out, Pending)
    PROVE  TextOf(out') = TextOf(TextHeard') /\ Match(Account', out', order', active')
  <1>1. /\ AttemptTypeOK /\ step \in DeltaSteps /\ out \in Seq(Chunks) /\ order \in Seq(Strings)
        /\ TextOf(out) = TextOf(TextHeard) /\ Match(Account, out, order, active)
    BY DEF AttemptInv, AttemptTypeOK, ToldInv, Telling, OutputSteps, FrameSteps, DeltaSteps
  <1>2. /\ Account' = Named(Account, Delta) /\ TextHeard' = TextHeard
    BY AfterId
  <1>3. Delta \in ToolDeltas /\ Delta.id \in Strings
    BY <1>1, DeltaTyped DEF ToolDeltas, Strings
  <1>4. CASE Starts(Delta)
    <2>1. Delta.id # NoText /\ \A i \in 1 .. Len(order) : order[i] # Delta.id
      BY <1>4 DEF Starts, Contains
    <2>2. order' = Append(order, Delta.id) /\ out' = Append(out, Pending)
      BY <1>4 DEF OrderAfter
    <2>3. Pending = [Blank EXCEPT !.role = first, !.index = StartIndex,
                                  !.id = Delta.id, !.name = Delta.name]
      BY DEF Pending
    <2>4. /\ Pending.id = Delta.id /\ Pending.name = Delta.name /\ Pending.index = Len(order)
          /\ Pending.text = NoText /\ Pending.args = NoText
      BY <2>3 DEF Blank, StartIndex
    <2>5. Pending \in Chunks
      BY <1>4, PendingIs DEF Emits, EmissionSteps, AttemptInv
    <2>6. active' = Len(order) + 1
      <3>1. /\ Len(order) \in Nat /\ Len(order') = Len(order) + 1
            /\ order'[Len(order) + 1] = Delta.id
            /\ \A i \in 1 .. Len(order) : order'[i] = order[i]
        BY <1>1, <1>3, <2>2, AppendIs
      <3>2. \A i \in 1 .. Len(order') : order'[i] = Delta.id => i = Len(order) + 1
        BY <2>1, <3>1
      <3> QED
        BY <1>1, <1>3, <2>1, <3>1, <3>2, ActiveIs
    <2>7. Match(Named(Account, Delta), out', order', active')
      BY <1>1, <1>3, <2>1, <2>2, <2>4, <2>5, <2>6, StartMatches
    <2>8. TextOf(out') = TextOf(out)
      BY <1>1, <2>2, <2>4, <2>5, QuietSays
    <2> QED
      BY <1>1, <1>2, <2>7, <2>8
  <1>5. CASE ~Starts(Delta) /\ Delta.id # NoText
    <2>1. PICK k \in 1 .. Len(order) : order[k] = Delta.id
      BY <1>5 DEF Starts, Contains
    <2>2. order' = order /\ out' = out
      BY <1>5 DEF OrderAfter
    <2>3. active' = k
      <3>1. \A i \in 1 .. Len(order) : order[i] = Delta.id => i = k
        BY <1>1, <2>1 DEF Match
      <3> QED
        BY <1>1, <1>3, <1>5, <2>1, <2>2, <3>1, ActiveIs
    <2>4. Match(Named(Account, Delta), out, order, k)
      BY <1>1, <1>3, <1>5, <2>1, KnownMatches
    <2> QED
      BY <1>1, <1>2, <2>2, <2>3, <2>4
  <1>6. CASE Delta.id = NoText
    <2>1. ~Starts(Delta) /\ order' = order /\ active' = active /\ out' = out
      BY <1>6 DEF Starts, OrderAfter, ActiveAfter
    <2>2. Named(Account, Delta) = Account
      BY <1>6 DEF Named
    <2> QED
      BY <1>1, <1>2, <2>1, <2>2
  <1> QED
    BY <1>4, <1>5, <1>6

\* Arguments go to the active call, or there are none or no such call.
LEMMA ArgsTold ==
    ASSUME AttemptInv, ToldInv, step = "args", NextDelta(at),
           UNCHANGED <<received, order, active>>,
           \/ ~(Delta.args # NoText /\ active > 0) /\ out' = out
           \/ Delta.args # NoText /\ active > 0 /\ out' = Append(out, Pending)
    PROVE  TextOf(out') = TextOf(TextHeard') /\ Match(Account', out', order', active')
           /\ step' \in {"id", "read"}
  <1>1. /\ AttemptTypeOK /\ step \in DeltaSteps /\ out \in Seq(Chunks)
        /\ active \in Nat /\ order \in Seq(Strings) /\ at \in Nat
        /\ TextOf(out) = TextOf(TextHeard) /\ Match(Account, out, order, active)
    BY DEF AttemptInv, AttemptTypeOK, ToldInv, Telling, OutputSteps, FrameSteps, DeltaSteps
  <1>2. /\ Account = Named(Gathered(Heard), Delta)
        /\ Account' = Accumulate(Gathered(Heard), Delta)
        /\ TextHeard = received /\ TextHeard' = received /\ step' \in {"id", "read"}
    BY <1>1, AfterArgs
  <1>3. Delta \in ToolDeltas /\ Delta.args \in Strings
    BY <1>1, DeltaTyped DEF ToolDeltas, Strings
  <1>4. Account.active = active
    BY <1>1 DEF Match
  <1>5. CASE ~(Delta.args # NoText /\ active > 0) /\ out' = out
    <2>1. Account' = Account
      BY <1>1, <1>2, <1>4, <1>5 DEF Accumulate
    <2> QED
      BY <1>1, <1>2, <1>5, <2>1
  <1>6. CASE Delta.args # NoText /\ active > 0 /\ out' = Append(out, Pending)
    <2>1. Account' = [Account EXCEPT !.tools[Account.active].args = Append(@, Delta.args)]
      BY <1>1, <1>2, <1>4, <1>6 DEF Accumulate
    <2>2. Pending = [Blank EXCEPT !.index = active - 1, !.args = Delta.args]
      BY DEF Pending
    <2>3. /\ Pending.text = NoText /\ Pending.id = NoText
          /\ Pending.index = active - 1 /\ Pending.args = Delta.args
      BY <2>2 DEF Blank
    <2>4. Pending \in Chunks
      BY <1>6, PendingIs DEF Emits, EmissionSteps, AttemptInv
    <2>5. Match([Account EXCEPT !.tools[Account.active].args = Append(@, Delta.args)],
                Append(out, Pending), order, active)
      BY <1>1, <1>3, <1>6, <2>3, <2>4, ArgsMatch
    <2>6. TextOf(out') = TextOf(out)
      BY <1>1, <1>6, <2>3, <2>4, QuietSays
    <2> QED
      BY <1>1, <1>2, <1>6, <2>1, <2>5, <2>6
  <1> QED
    BY <1>5, <1>6

-----------------------------------------------------------------------------
\* While a frame is dealt with, and when the stream finishes, what was told is
\* all there is to show.
LEMMA ToldOn ==
    ASSUME AttemptInv', step' \in OutputSteps \cup {"finish"},
           step' \in {"read", "text"} => at' = 0,
           TextOf(out') = TextOf(TextHeard'), Match(Account', out', order', active')
    PROVE  ToldInv'
  <1>1. ~Whole' /\ step' # "done"
    BY DEF AttemptInv, Consistent, Whole, Finishes, Closes, OutputSteps, FrameSteps, DeltaSteps
  <1> QED
    BY <1>1 DEF ToldInv

\* Outside the frames, everything received is to be accounted for.
LEMMA AllHeard ==
    ASSUME step \notin FrameSteps
    PROVE  TextHeard = received /\ Account = Gathered(DeltasOf(received))
  BY DEF TextHeard, Account, Heard, FrameSteps, DeltaSteps

LEMMA AllHeardNext ==
    ASSUME step' \notin FrameSteps
    PROVE  TextHeard' = received' /\ Account' = Gathered(DeltasOf(received'))
  BY DEF TextHeard, Account, Heard, FrameSteps, DeltaSteps

\* The finish and [DONE] say nothing but the reason.
LEMMA EndTold ==
    ASSUME AttemptInv, ToldInv, EmitChunk, step \in {"finish", "done"}
    PROVE  /\ TextOf(out') = TextOf(TextHeard') /\ Match(Account', out', order', active')
           /\ out' = Append(out, Pending) /\ out \in Seq(Chunks) /\ Pending \in Chunks
           /\ step = "finish" => step' = "done" /\ Pending.finish = FinishReason
           /\ step = "done" => step' = "ended" /\ Pending.finish = "[DONE]"
           /\ FinishReason' = FinishReason
  <1>1. /\ AttemptTypeOK /\ Consistent /\ out \in Seq(Chunks)
        /\ TextOf(out) = TextOf(TextHeard) /\ Match(Account, out, order, active)
    BY DEF AttemptInv, AttemptTypeOK, ToldInv, Telling
  <1>2. /\ Emits /\ out' = Append(out, Pending) /\ received' = received
        /\ order' = order /\ active' = active
        /\ step = "finish" => step' = "done"
        /\ step = "done" => step' = "ended"
    BY DEF EmitChunk, Advance
  <1>3. step \notin FrameSteps /\ step' \notin FrameSteps
    BY <1>2 DEF FrameSteps, DeltaSteps
  <1>4. /\ TextHeard = received /\ Account = Gathered(DeltasOf(received))
        /\ TextHeard' = received /\ Account' = Gathered(DeltasOf(received))
    BY <1>2, <1>3, AllHeard, AllHeardNext
  <1>5. Pending \in Chunks
    BY <1>1, <1>2, PendingIs DEF EmissionSteps
  <1>6. /\ Pending.text = NoText /\ Pending.id = NoText /\ Pending.args = NoText
        /\ step = "finish" => Pending.finish = FinishReason
        /\ step = "done" => Pending.finish = "[DONE]"
    BY DEF Pending, Blank
  <1>7. TextOf(out') = TextOf(out) /\ Match(Account, out', order, active)
    BY <1>1, <1>2, <1>5, <1>6, QuietSays, QuietMatches
  <1>8. FinishReason' = FinishReason
    BY <1>2 DEF FinishReason
  <1> QED
    BY <1>1, <1>2, <1>4, <1>5, <1>6, <1>7, <1>8

LEMMA ToldEmit ==
    ASSUME AttemptInv, ToldInv, EmitChunk
    PROVE  ToldInv'
  <1>1. AttemptInv'
    BY EmitKeeps
  <1>2. /\ step \in EmissionSteps /\ Emits /\ Advance /\ out' = Append(out, Pending)
        /\ received' = received
    BY DEF EmitChunk
  <1>3. CASE step = "text"
    <2>1. NextDelta(0) /\ UNCHANGED <<received, order, active>> /\ Frame.text # NoText
      BY <1>2, <1>3 DEF Advance, Emits
    <2>2. /\ TextOf(out') = TextOf(TextHeard') /\ Match(Account', out', order', active')
          /\ step' \in {"id", "read"}
      BY <1>2, <1>3, <2>1, TextTold
    <2>3. step' \in {"read", "text"} => at' = 0
      BY <2>1 DEF NextDelta
    <2> QED
      BY <1>1, <2>2, <2>3, ToldOn DEF OutputSteps, FrameSteps, DeltaSteps
  <1>4. CASE step = "id"
    <2>1. /\ step' = "args" /\ UNCHANGED <<received, at>> /\ Starts(Delta)
          /\ order' = OrderAfter(Delta) /\ active' = ActiveAfter(Delta)
      BY <1>2, <1>4 DEF Advance, Emits
    <2>2. TextOf(out') = TextOf(TextHeard') /\ Match(Account', out', order', active')
      BY <1>2, <1>4, <2>1, IdTold
    <2> QED
      BY <1>1, <2>1, <2>2, ToldOn DEF OutputSteps, FrameSteps, DeltaSteps
  <1>5. CASE step = "args"
    <2>1. /\ NextDelta(at) /\ UNCHANGED <<received, order, active>>
          /\ Delta.args # NoText /\ active > 0
      BY <1>2, <1>5 DEF Advance, Emits
    <2>2. /\ TextOf(out') = TextOf(TextHeard') /\ Match(Account', out', order', active')
          /\ step' \in {"id", "read"}
      BY <1>2, <1>5, <2>1, ArgsTold
    <2>3. step' \in {"read", "text"} => at' = 0
      BY <2>1 DEF NextDelta
    <2> QED
      BY <1>1, <2>2, <2>3, ToldOn DEF OutputSteps, FrameSteps, DeltaSteps
  <1>6. CASE step = "finish"
    <2>1. /\ TextOf(out') = TextOf(TextHeard') /\ Match(Account', out', order', active')
          /\ step' = "done" /\ out' = Append(out, Pending) /\ out \in Seq(Chunks)
          /\ Pending \in Chunks /\ Pending.finish = FinishReason /\ FinishReason' = FinishReason
      BY <1>6, EndTold
    <2>2. Last(out').finish = FinishReason'
      BY <2>1, LastOfAppend
    <2>3. ~Whole'
      BY <1>1, <2>1 DEF AttemptInv, Consistent, Whole, Finishes, Closes
    <2> QED
      BY <2>1, <2>2, <2>3 DEF ToldInv
  <1>7. CASE step = "done"
    <2>1. /\ TextOf(out') = TextOf(TextHeard') /\ Match(Account', out', order', active')
          /\ step' = "ended" /\ out' = Append(out, Pending) /\ out \in Seq(Chunks)
          /\ Pending \in Chunks /\ FinishReason' = FinishReason
      BY <1>7, EndTold
    <2>2. out # <<>> /\ Last(out).finish = FinishReason
      BY <1>7 DEF AttemptInv, Consistent, ToldInv
    <2>3. Last(out) = out[Len(out)] /\ Len(out) \in Nat \ {0}
      BY <2>1, <2>2, LastIs
    <2>4. /\ Len(out') = Len(out) + 1 /\ \A i \in 1 .. Len(out) : out'[i] = out[i]
      BY <2>1, AppendIs
    <2>5. Len(out') > 1 /\ out'[Len(out') - 1] = Last(out)
      BY <2>3, <2>4
    <2> QED
      BY <2>1, <2>2, <2>5 DEF ToldInv
  <1> QED
    BY <1>2, <1>3, <1>4, <1>5, <1>6, <1>7 DEF EmissionSteps

LEMMA ToldSkip ==
    ASSUME AttemptInv, ToldInv, SkipChunk
    PROVE  ToldInv'
  <1>1. AttemptInv'
    BY SkipKeeps
  <1>2. /\ step \in EmissionSteps /\ ~Emits /\ Advance /\ out' = out
        /\ received' = received
    BY DEF SkipChunk
  <1>3. CASE step = "text"
    <2>1. NextDelta(0) /\ UNCHANGED <<received, order, active>> /\ Frame.text = NoText
      BY <1>2, <1>3 DEF Advance, Emits
    <2>2. /\ TextOf(out') = TextOf(TextHeard') /\ Match(Account', out', order', active')
          /\ step' \in {"id", "read"}
      BY <1>2, <1>3, <2>1, TextTold
    <2>3. step' \in {"read", "text"} => at' = 0
      BY <2>1 DEF NextDelta
    <2> QED
      BY <1>1, <2>2, <2>3, ToldOn DEF OutputSteps, FrameSteps, DeltaSteps
  <1>4. CASE step = "id"
    <2>1. /\ step' = "args" /\ UNCHANGED <<received, at>> /\ ~Starts(Delta)
          /\ order' = OrderAfter(Delta) /\ active' = ActiveAfter(Delta)
      BY <1>2, <1>4 DEF Advance, Emits
    <2>2. TextOf(out') = TextOf(TextHeard') /\ Match(Account', out', order', active')
      BY <1>2, <1>4, <2>1, IdTold
    <2> QED
      BY <1>1, <2>1, <2>2, ToldOn DEF OutputSteps, FrameSteps, DeltaSteps
  <1>5. CASE step = "args"
    <2>1. /\ NextDelta(at) /\ UNCHANGED <<received, order, active>>
          /\ ~(Delta.args # NoText /\ active > 0)
      BY <1>2, <1>5 DEF Advance, Emits
    <2>2. /\ TextOf(out') = TextOf(TextHeard') /\ Match(Account', out', order', active')
          /\ step' \in {"id", "read"}
      BY <1>2, <1>5, <2>1, ArgsTold
    <2>3. step' \in {"read", "text"} => at' = 0
      BY <2>1 DEF NextDelta
    <2> QED
      BY <1>1, <2>2, <2>3, ToldOn DEF OutputSteps, FrameSteps, DeltaSteps
  <1> QED
    BY <1>2, <1>3, <1>4, <1>5 DEF EmissionSteps, Emits

\* A frame that has only been read changes nothing told or heard.
LEMMA ToldRead ==
    ASSUME AttemptInv, ToldInv, ReadFrame \/ ReadEof \/ ReadFails
    PROVE  ToldInv'
  <1>1. /\ AttemptInv' /\ (step' = "ended" => err' # "none")
    BY ReadKeeps
  <1>2. /\ step = "read" /\ at = 0 /\ at' = 0 /\ UNCHANGED <<out, order, active>>
        /\ received \in Seq(Frames) /\ received' \in Seq(Frames)
        /\ TextOf(out) = TextOf(TextHeard) /\ Match(Account, out, order, active)
    BY <1>1 DEF AttemptInv, AttemptTypeOK, ToldInv, Telling, OutputSteps,
                ReadFrame, ReadEof, ReadFails, attemptVars
  <1>3. TextHeard = received /\ Account = Gathered(DeltasOf(received))
    BY <1>2, AllHeard DEF FrameSteps, DeltaSteps
  <1>4. CASE ReadFrame
    <2>1. PICK f \in Frames : received' = Append(received, f)
      BY <1>4 DEF ReadFrame
    <2>2. step' = "text" /\ Front(received') = received
      BY <1>2, <1>4, <2>1, FrontOfAppend DEF ReadFrame
    <2>3. step' \in FrameSteps /\ Frame'.tools \in Seq(ToolDeltas)
      <3>1. Last(received') = f
        BY <1>2, <2>1, FrontOfAppend
      <3>2. Frame' = f
        BY <3>1 DEF Frame
      <3> QED
        BY <2>2, <3>2, FramesAssumption DEF FrameSteps, RespDeltas
    <2>4. DeltasOf(received) \in Seq(ToolDeltas)
      BY <1>2, <2>1, DeltasAppend
    <2>5. SubSeq(Frame'.tools, 1, at' - 1) = <<>>
      BY <1>2, <2>3
    <2>6. Heard' = DeltasOf(received)
      <3>1. Heard' = DeltasOf(Front(received')) \o SubSeq(Frame'.tools, 1, at' - 1)
        BY <2>3 DEF Heard, FrameSteps, DeltaSteps
      <3> QED
        BY <2>2, <2>4, <2>5, <3>1, ConcatEmpty
    <2>7. TextHeard' = received /\ Account' = Gathered(DeltasOf(received))
      BY <2>2, <2>6 DEF TextHeard, Account
    <2> QED
      BY <1>1, <1>2, <1>3, <2>2, <2>7, ToldOn DEF OutputSteps, FrameSteps
  <1>5. CASE ReadEof
    <2>1. step' = "finish" /\ received' = received
      BY <1>5 DEF ReadEof, attemptVars
    <2>2. TextHeard' = received /\ Account' = Gathered(DeltasOf(received))
      BY <2>1, AllHeardNext DEF FrameSteps, DeltaSteps
    <2> QED
      BY <1>1, <1>2, <1>3, <2>1, <2>2, ToldOn
  <1>6. CASE ReadFails
    <2>1. step' = "ended" /\ ~Whole'
      BY <1>1, <1>6 DEF ReadFails, AttemptInv, Consistent
    <2> QED
      BY <2>1 DEF ToldInv, Telling, OutputSteps, FrameSteps, DeltaSteps
  <1> QED
    BY <1>4, <1>5, <1>6

\* A stream that is not whole promises nothing once it is left.
LEMMA ToldLeft ==
    ASSUME step' \notin OutputSteps \cup {"finish", "done"}, ~Whole'
    PROVE  ToldInv'
  BY DEF ToldInv, Telling, OutputSteps, FrameSteps

LEMMA ToldFresh ==
    ASSUME AttemptInv', FreshAttempt, out' = <<>>, step' \in {"read", "ended"}
    PROVE  ToldInv'
  <1>1. received' = <<>> /\ at' = 0 /\ order' = <<>> /\ active' = 0
    BY DEF FreshAttempt
  <1>2. CASE step' = "read"
    <2>1. TextHeard' = <<>> /\ Account' = NoTools
      <3>1. TextHeard' = <<>> /\ Account' = Gathered(DeltasOf(<<>>))
        BY <1>1, <1>2, AllHeardNext DEF FrameSteps, DeltaSteps
      <3>2. DeltasOf(<<>>) = <<>>
        BY NothingMade
      <3> QED
        BY <3>1, <3>2, GatheredNone
    <2>2. Starting(<<>>) = <<>> /\ \A n \in Nat : ArgsAt(<<>>, n) = <<>>
      BY NothingMade
    <2>3. NoTools \in Gathering /\ NoTools.active = 0 /\ NoTools.tools = <<>>
      BY DEF NoTools, Gathering
    <2>4. Match(NoTools, <<>>, <<>>, 0)
      BY <2>2, <2>3 DEF Match
    <2> QED
      BY <1>1, <1>2, <2>1, <2>4, ToldOn DEF OutputSteps
  <1>3. CASE step' = "ended"
    BY <1>3, ToldLeft DEF Whole, OutputSteps, FrameSteps, DeltaSteps
  <1> QED
    BY <1>2, <1>3

\* Outside the attempt, what was told and heard stays.
LEMMA ToldOutside ==
    ASSUME AttemptInv, ToldInv, UNCHANGED <<attemptVars, out>>,
           step \notin OutputSteps \cup {"finish", "done"},
           step' \notin OutputSteps \cup {"finish", "done"}
    PROVE  ToldInv'
  <1>1. UNCHANGED <<received, order, active, out>> /\ Whole' = Whole
    BY DEF attemptVars, Whole, Closes
  <1>2. /\ TextHeard' = TextHeard /\ Account' = Account
    BY <1>1, AllHeard, AllHeardNext DEF OutputSteps
  <1>3. FinishReason' = FinishReason
    BY <1>1 DEF FinishReason
  <1>4. step' \notin {"read", "text", "done"}
    BY DEF OutputSteps, FrameSteps
  <1> QED
    BY <1>1, <1>2, <1>3, <1>4 DEF ToldInv, Telling

LEMMA ToldBegins ==
    ASSUME step = "prepare", out = <<>>
    PROVE  ToldInv
  BY DEF ToldInv, Telling, OutputSteps, FrameSteps, DeltaSteps, Whole

LEMMA ToldSame ==
    ASSUME ToldInv, UNCHANGED <<step, attemptVars, out>>
    PROVE  ToldInv'
  BY DEF ToldInv, Telling, Whole, Closes, attemptVars, TextHeard, Account, Heard, Frame, Delta,
         FinishReason

-----------------------------------------------------------------------------
-----------------------------------------------------------------------------
\* The client was told the name of every call with the chunk that started it.
StartsNamed == \A i \in 1 .. Len(out) : out[i].id # NoText => out[i].name # NoText

LEMMA StartingNamed ==
    ASSUME out \in Seq(Chunks), StartsNamed
    PROVE  \A i \in 1 .. Len(Starting(out)) : Starting(out)[i].name # NoText
  <1> DEFINE T == {c \in Chunks : c.name # NoText}
             f == [i \in 1 .. Len(out) |-> Start(out[i])]
  <1>1. \A i \in 1 .. Len(out) : Start(out[i]) \in Seq(T)
    <2> SUFFICES ASSUME NEW i \in 1 .. Len(out) PROVE Start(out[i]) \in Seq(T)
      OBVIOUS
    <2> DEFINE c == out[i]
    <2>1. c \in Chunks /\ (c.id # NoText => c.name # NoText)
      BY DEF StartsNamed
    <2> HIDE DEF c
    <2>2. CASE c.id = NoText
      BY <2>2, EmptyTyped DEF Start, c
    <2>3. CASE c.id # NoText
      <3>1. c \in T /\ Start(c) = <<c>>
        BY <2>1, <2>3 DEF Start
      <3> QED
        BY <3>1 DEF c
    <2> QED
      BY <2>2, <2>3
  <1>2. f \in Seq(Seq(T))
    BY <1>1
  <1>3. Starting(out) = FlattenSeq(f)
    BY DEF Starting
  <1> HIDE DEF f
  <1>4. Starting(out) \in Seq(T)
    BY <1>2, <1>3, FlattenTyped
  <1> QED
    BY <1>4

\* What a client puts together from a stream that accounts for the deltas is
\* what was gathered from them.
LEMMA AccountShown ==
    ASSUME out \in Seq(Chunks), StartsNamed, NEW acc, NEW ids, NEW act, Match(acc, out, ids, act)
    PROVE  Reassembled(out).tools = acc.tools
  <1> DEFINE put == Reassembled(out).tools
             n == Len(ids)
  <1>1. /\ acc.tools \in Seq(Calls) /\ Len(acc.tools) = n /\ Len(Starting(out)) = n /\ n \in Nat
        /\ \A i \in 1 .. n : CallMatches(acc, out, ids, i)
    BY DEF Match, Gathering
  <1>2. put = [i \in 1 .. n |-> LET c == Starting(out)[i]
                                IN  [id |-> c.id, name |-> c.name, args |-> ArgsAt(out, c.index)]]
    BY <1>1 DEF Reassembled
  <1>3. \A i \in 1 .. n : Starting(out)[i].name # NoText
    BY <1>1, StartingNamed
  <1>4. ASSUME NEW i \in 1 .. n
        PROVE  put[i] = acc.tools[i]
    <2>1. CallMatches(acc, out, ids, i)
      BY <1>1
    <2>2. /\ Starting(out)[i].id = acc.tools[i].id /\ Starting(out)[i].name = acc.tools[i].name
          /\ ArgsAt(out, Starting(out)[i].index) = acc.tools[i].args
      BY <1>3, <2>1 DEF CallMatches
    <2>3. acc.tools[i] \in Calls
      BY <1>1
    <2>4. acc.tools[i] = [id |-> acc.tools[i].id, name |-> acc.tools[i].name,
                          args |-> acc.tools[i].args]
      BY <2>3 DEF Calls
    <2> QED
      BY <1>2, <2>2, <2>4
  <1> HIDE DEF put
  <1>5. DOMAIN put = 1 .. n /\ DOMAIN acc.tools = 1 .. n
    BY <1>1, <1>2
  <1>6. put = [i \in 1 .. n |-> put[i]] /\ acc.tools = [i \in 1 .. n |-> acc.tools[i]]
    BY <1>1, <1>2
  <1>7. put = acc.tools
    BY <1>4, <1>6
  <1> QED
    BY <1>7 DEF put

LEMMA ToldMatches ==
    ASSUME AttemptInv, ToldInv, StartsNamed
    PROVE  StreamMatchesCompletion
  <1> SUFFICES ASSUME Whole
               PROVE  /\ Reassembled(out) = Completion(received)
                      /\ out[Len(out) - 1].finish = CompletionFinish(Completion(received))
    BY DEF StreamMatchesCompletion, Whole, Closes
  <1>1. out \in Seq(Chunks)
    BY DEF AttemptInv, AttemptTypeOK
  <1>2. step \notin FrameSteps
    BY WholeIsEnd DEF OutputSteps
  <1>3. TextHeard = received /\ Account = Gathered(DeltasOf(received))
    BY <1>2, AllHeard
  <1>4. /\ TextOf(out) = TextOf(received)
        /\ Match(Gathered(DeltasOf(received)), out, order, active)
        /\ out[Len(out) - 1].finish = FinishReason
    BY <1>3 DEF ToldInv, Telling
  <1>5. Reassembled(out).tools = Gathered(DeltasOf(received)).tools
    BY <1>1, <1>4, AccountShown
  <1>6. Reassembled(out) = [text |-> TextOf(out), tools |-> Reassembled(out).tools]
    BY Zenon DEF Reassembled
  <1>7. Reassembled(out) = Completion(received)
    BY <1>4, <1>5, <1>6 DEF Completion
  <1>8. Completion(received).tools = <<>> <=> order = <<>>
    <2> DEFINE acc == Gathered(DeltasOf(received))
    <2>1. acc.tools \in Seq(Calls) /\ order \in Seq(Strings) /\ Len(acc.tools) = Len(order)
      BY <1>4 DEF Match, Gathering
    <2>2. Completion(received).tools = acc.tools
      BY DEF Completion
    <2> HIDE DEF acc
    <2> QED
      BY <2>1, <2>2
  <1> QED
    BY <1>4, <1>7, <1>8 DEF FinishReason, CompletionFinish

\* A request that is not streamed is given no chunk.
LEMMA NoneMatches == out = <<>> => StreamMatchesCompletion
  BY DEF StreamMatchesCompletion
=============================================================================
