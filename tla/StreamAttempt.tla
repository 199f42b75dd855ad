--------------------------- MODULE StreamAttempt ---------------------------
(***************************************************************************)
(* One attempt at answering a chat request: the frames of an upstream      *)
(* response are read one by one and turned into OpenAI stream chunks.  It  *)
(* is executeStreamAttempt of plugin/execute.go and, with the same control,*)
(* forwardSDKStreamResponse of executor.go; the modules that extend this   *)
(* one say how a response is opened, how a chunk is handed over and what   *)
(* follows an attempt.  Drain... is executeNonStreamAttempt of the plugin  *)
(* and drainNonStreamResponse of executor.go: the same frames, gathered    *)
(* into one completion.                                                    *)
(*                                                                         *)
(* Every emission is a step of its own, because each one is a call that    *)
(* may fail.  Names of tools are those restoreName has restored; model and *)
(* completion text carry no structure.                                     *)
(***************************************************************************)
EXTENDS Naturals, Sequences, SequencesExt

CONSTANTS
    Frames,      \* data frames the upstream may send, as respDelta records
    MaxFrames    \* bound on the data frames of one attempt

VARIABLES
    step,       \* where the goroutine is
    attempt,    \* number of the attempt; stands for its completion id
    received,   \* frames read in this attempt
    at,         \* position in the tool deltas of the last frame
    first,      \* no chunk of this attempt was emitted with a role yet
    order,      \* toolIndexes: the ids started, in the order of their index
    active,     \* activeToolIndex, counted from 1; 0 for none
    emitted,    \* emittedOutput
    err,        \* the error the attempt or the request ends with
    out         \* chunks the client was given

\* The empty string: a field that is left out.
NoText == ""

\* toolDelta, and respDelta as far as it is used: text and the deltas of calls.
ToolDeltas == [id : STRING, name : STRING, args : STRING]
RespDeltas == [text : STRING, tools : Seq(ToolDeltas)]

ASSUME FramesAssumption == Frames \subseteq RespDeltas

attemptVars == <<received, at, first, order, active, emitted>>

\* err is "none", "other", or "mcp", which isMCPConfigurationError recognises.
EmissionSteps == {"text", "id", "args", "finish", "done"}

NoAttempt ==
    /\ received = <<>> /\ at = 0 /\ first = TRUE /\ order = <<>>
    /\ active = 0 /\ emitted = FALSE

\* The local variables of a new attempt.
FreshAttempt ==
    /\ received' = <<>> /\ at' = 0 /\ first' = TRUE /\ order' = <<>>
    /\ active' = 0 /\ emitted' = FALSE

-----------------------------------------------------------------------------
Frame == Last(received)
Delta == Frame.tools[at]

Blank == [attempt |-> attempt, role |-> FALSE, text |-> NoText, index |-> 0,
          id |-> NoText, name |-> NoText, args |-> NoText, finish |-> NoText]

Starts(d) == d.id # NoText /\ ~Contains(order, d.id)

\* toolIndexes and activeToolIndex once the id of a delta was looked at.
OrderAfter(d) == IF Starts(d) THEN Append(order, d.id) ELSE order

ActiveUnlessKnown(d) == IF Starts(d) THEN Len(order) + 1 ELSE active
ActiveAfter(d) ==
    IF d.id = NoText THEN active
    ELSE CHOOSE i \in 1 .. Len(OrderAfter(d)) : OrderAfter(d)[i] = d.id

\* Whether this step has a chunk to emit, and which.
Emits ==
    \/ step = "text" /\ Frame.text # NoText
    \/ step = "id" /\ Starts(Delta)
    \/ step = "args" /\ Delta.args # NoText /\ active > 0
    \/ step \in {"finish", "done"}

\* Calls are numbered from 0; a call is announced before it is added to order.
StartIndex == Len(order)

FinishReason == IF order # <<>> THEN "tool_calls" ELSE "stop"

Pending ==
    CASE step = "text" -> [Blank EXCEPT !.role = first, !.text = Frame.text]
      [] step = "id" -> [Blank EXCEPT !.role = first, !.index = StartIndex,
                                      !.id = Delta.id, !.name = Delta.name]
      [] step = "args" -> [Blank EXCEPT !.index = active - 1, !.args = Delta.args]
      [] step = "finish" -> [Blank EXCEPT !.finish = FinishReason]
      [] step = "done" -> [Blank EXCEPT !.finish = "[DONE]"]

\* The step that follows, whether or not this one had a chunk to emit.
NextDelta(n) ==
    IF n < Len(Frame.tools) THEN step' = "id" /\ at' = n + 1
    ELSE step' = "read" /\ at' = 0

Advance ==
    \/ /\ step = "text"
       /\ NextDelta(0)
       /\ UNCHANGED <<order, active>>
    \/ /\ step = "id"
       /\ step' = "args"
       /\ order' = OrderAfter(Delta)
       /\ active' = ActiveAfter(Delta)
       /\ UNCHANGED at
    \/ /\ step = "args"
       /\ NextDelta(at)
       /\ UNCHANGED <<order, active>>
    \/ /\ step = "finish"
       /\ step' = "done"
       /\ UNCHANGED <<at, order, active>>
    \/ /\ step = "done"
       /\ step' = "ended"
       /\ UNCHANGED <<at, order, active>>

\* The chunk is handed over.
EmitChunk ==
    /\ step \in EmissionSteps /\ Emits
    /\ out' = Append(out, Pending)
    /\ emitted' = TRUE
    /\ first' = IF Pending.role THEN FALSE ELSE first
    /\ Advance
    /\ UNCHANGED <<attempt, received, err>>

\* Nothing to emit here.
SkipChunk ==
    /\ step \in EmissionSteps /\ ~Emits
    /\ Advance
    /\ UNCHANGED <<attempt, received, first, emitted, err, out>>

\* The chunk could not be handed over: the attempt ends with the error, and
\* its variables with it.
EmitFails ==
    /\ step \in EmissionSteps /\ Emits
    /\ step' = "ended"
    /\ err' = "other"
    /\ UNCHANGED <<attempt, attemptVars, out>>

ReadFrame ==
    /\ step = "read"
    /\ Len(received) < MaxFrames
    /\ \E f \in Frames : received' = Append(received, f)
    /\ step' = "text"
    /\ UNCHANGED <<attempt, at, first, order, active, emitted, err, out>>

\* io.EOF, with or without an end-of-stream frame before it; an end-of-stream
\* frame without an error changes nothing.
ReadEof ==
    /\ step = "read"
    /\ step' = "finish"
    /\ UNCHANGED <<attempt, attemptVars, err, out>>

ReadFailsSilently ==
    /\ step = "read"
    /\ step' = "ended"
    /\ err' = "none"
    /\ UNCHANGED <<attempt, attemptVars, out>>

\* A request that is not streamed takes the frames without a word to the client.
DrainFrame ==
    /\ step = "read"
    /\ Len(received) < MaxFrames
    /\ \E f \in Frames : received' = Append(received, f)
    /\ UNCHANGED <<step, attempt, at, first, order, active, emitted, err, out>>

DrainEof ==
    /\ step = "read"
    /\ step' = "ended"
    /\ UNCHANGED <<attempt, attemptVars, err, out>>

\* A read error, or an end-of-stream frame that carries an upstream error.
ReadFails ==
    /\ step = "read"
    /\ step' = "ended"
    /\ err' \in {"mcp", "other"}
    /\ UNCHANGED <<attempt, attemptVars, out>>

-----------------------------------------------------------------------------
\* A field as a sequence of texts: none if it is left out.
Texts(t) == IF t = NoText THEN <<>> ELSE <<t>>

\* What a non-streaming request makes of the same frames: executeNonStream-
\* Attempt concatenates the texts and accumulateToolDeltas gathers the calls.
TextOf(parts) == FlattenSeq([i \in 1 .. Len(parts) |-> Texts(parts[i].text)])
DeltasOf(frames) == FlattenSeq([i \in 1 .. Len(frames) |-> frames[i].tools])

NoTools == [tools |-> <<>>, active |-> 0]

\* The call a delta names becomes the active one; it is begun if it is new, and
\* named if it has no name yet.
Named(acc, d) ==
    LET known == {i \in 1 .. Len(acc.tools) : acc.tools[i].id = d.id}
        place == CHOOSE i \in known : TRUE
        call == [id |-> d.id, name |-> d.name, args |-> <<>>]
    IN  IF d.id = NoText THEN acc
        ELSE IF known = {}
        THEN [tools |-> Append(acc.tools, call), active |-> Len(acc.tools) + 1]
        ELSE [tools |-> [acc.tools EXCEPT ![place].name = IF @ = NoText THEN d.name ELSE @],
              active |-> place]

Accumulate(acc, d) ==
    LET next == Named(acc, d)
    IN  IF d.args = NoText \/ next.active = 0 THEN next
        ELSE [next EXCEPT !.tools[next.active].args = Append(@, d.args)]

Gathered(deltas) ==
    LET acc[n \in 0 .. Len(deltas)] ==
            IF n = 0 THEN NoTools ELSE Accumulate(acc[n - 1], deltas[n])
    IN  acc[Len(deltas)]

Completion(frames) == [text |-> TextOf(frames), tools |-> Gathered(DeltasOf(frames)).tools]

\* openAICompletion
CompletionFinish(completion) == IF completion.tools = <<>> THEN "stop" ELSE "tool_calls"

\* What an OpenAI client makes of the chunks: a chunk with an id starts a call,
\* and arguments belong to the call of their index.
Start(c) == IF c.id = NoText THEN <<>> ELSE <<c>>
Starting(chunks) == FlattenSeq([i \in 1 .. Len(chunks) |-> Start(chunks[i])])

ArgsFor(c, n) == IF c.index = n THEN Texts(c.args) ELSE <<>>
ArgsAt(chunks, n) == FlattenSeq([i \in 1 .. Len(chunks) |-> ArgsFor(chunks[i], n)])

Reassembled(chunks) ==
    [text |-> TextOf(chunks),
     tools |-> [i \in 1 .. Len(Starting(chunks)) |->
                   LET c == Starting(chunks)[i]
                   IN  [id |-> c.id, name |-> c.name, args |-> ArgsAt(chunks, c.index)]]]

\* A complete stream says the same as the completion a non-streaming request
\* would have made of the same frames: text, calls, names and arguments, and
\* the reason it finished for.
StreamMatchesCompletion ==
    out # <<>> /\ Last(out).finish = "[DONE]" =>
        /\ Reassembled(out) = Completion(received)
        /\ out[Len(out) - 1].finish = CompletionFinish(Completion(received))
=============================================================================
