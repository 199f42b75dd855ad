------------------------- MODULE PluginStreamProofs -------------------------
(***************************************************************************)
(* What is proved of a chat request in the plugin, for every set of frames *)
(* an upstream may send and every number of them: no response body is      *)
(* left open, what the client is given is what ChatStream promises, and a  *)
(* stream says what a completion made of the same frames would have said.  *)
(***************************************************************************)
EXTENDS PluginStream, StreamAttemptProofs, FiniteSetTheorems

Reading == {"read"} \cup EmissionSteps
Outside == {"prepare", "token", "wait", "open", "close", "closed"}

\* The goroutine and what belongs to the request: its body is open only within an
\* attempt; a completion is given no chunk; a stream that ended without an error
\* is whole.
RequestInv ==
    /\ step \in Reading \cup {"ended"} \cup Outside
    /\ mode \in {"live", "buffered", "complete"}
    /\ toolContext \in BOOLEAN /\ connected \in BOOLEAN
    /\ bodies \subseteq {attempt}
    /\ step \in Outside => bodies = {}
    /\ step \in {"prepare", "token", "wait", "open"} => out = <<>> /\ err = "none"
    /\ mode = "complete" => step \notin EmissionSteps /\ out = <<>>
    /\ step \in {"ended", "close", "closed"} /\ err = "none" /\ mode # "complete" => Whole

PluginInv == AttemptInv /\ RequestInv

LEMMA PluginInit == Init => PluginInv
  <1> SUFFICES ASSUME Init PROVE PluginInv
    OBVIOUS
  <1> USE DEF Init, NoAttempt
  <1>1. /\ received \in Seq(Frames) /\ order \in Seq(Strings) /\ out \in Seq(Chunks)
        /\ active \in 0 .. Len(order)
    BY EmptyTyped
  <1>2. AttemptTypeOK
    BY <1>1 DEF AttemptTypeOK, FrameSteps, DeltaSteps
  <1>3. OneStream
    BY DEF OneStream, IsStream
  <1>4. Consistent
    BY DEF Consistent, Whole, OutputSteps, FrameSteps, DeltaSteps, EmissionSteps
  <1>5. RequestInv
    BY DEF RequestInv, Outside, Reading, EmissionSteps
  <1> QED
    BY <1>2, <1>3, <1>4, <1>5 DEF PluginInv, AttemptInv

LEMMA PluginNext == PluginInv /\ [Next]_vars => PluginInv'
  <1> SUFFICES ASSUME PluginInv, [Next]_vars PROVE PluginInv'
    OBVIOUS
  <1> USE DEF PluginInv, Reading, Outside, request
  <1>1. CASE Emit
    <2>1. EmitChunk /\ UNCHANGED request /\ AttemptInv' /\ out' # <<>> /\ err' = err
          /\ (step' = "ended" => Whole')
      BY <1>1, EmitKeeps DEF Emit
    <2>2. step \in EmissionSteps /\ attempt' = attempt
      BY <2>1 DEF EmitChunk
    <2>3. step' \in {"read", "text", "id", "args", "finish", "done", "ended"}
      BY <2>1 DEF EmitChunk, Advance, NextDelta
    <2>4. RequestInv'
      BY <2>1, <2>2, <2>3 DEF RequestInv, EmissionSteps
    <2> QED
      BY <2>1, <2>4
  <1>2. CASE EmitIsRefused
    <2>1. EmitFails /\ UNCHANGED request /\ AttemptInv' /\ step' = "ended" /\ err' # "none"
      BY <1>2, EmitFailsKeeps DEF EmitIsRefused
    <2>2. RequestInv'
      BY <2>1 DEF RequestInv, EmitFails, EmissionSteps
    <2> QED
      BY <2>1, <2>2
  <1>3. CASE Skip
    <2>1. SkipChunk /\ UNCHANGED request /\ AttemptInv' /\ step' \in OutputSteps
      BY <1>3, SkipKeeps DEF Skip
    <2>2. RequestInv'
      BY <2>1 DEF RequestInv, SkipChunk, OutputSteps, FrameSteps, DeltaSteps, EmissionSteps
    <2> QED
      BY <2>1, <2>2
  <1>4. CASE AttemptReturns
    <2> USE DEF AttemptReturns
    <2>1. step = "ended" /\ bodies' = {} /\ UNCHANGED <<attemptVars, out, mode, toolContext, connected>>
      BY <1>4 DEF RequestInv
    <2>2. CASE Retries /\ step' = "token" /\ attempt' = attempt + 1 /\ err' = "none"
      <3>1. attempt' = 2 /\ out = <<>>
        BY <2>2 DEF Retries, AttemptInv, Consistent
      <3>2. AttemptInv'
        BY <2>1, <2>2, <3>1, RetryKeeps DEF OutputSteps, EmissionSteps, FrameSteps, DeltaSteps
      <3>3. RequestInv'
        BY <2>1, <2>2, <3>1 DEF RequestInv, EmissionSteps
      <3> QED
        BY <3>2, <3>3
    <2>3. CASE ~Retries /\ step' = "close" /\ UNCHANGED <<attempt, err>>
      <3>1. AttemptInv'
        BY <2>1, <2>3, OutsideKeeps DEF OutputSteps, EmissionSteps, FrameSteps, DeltaSteps
      <3>2. RequestInv'
        BY <2>1, <2>3 DEF RequestInv, EmissionSteps, Whole, Closes
      <3> QED
        BY <3>1, <3>2
    <2> QED
      BY <1>4, <2>2, <2>3
  <1>5. CASE CloseStream
    <2>1. AttemptInv'
      BY <1>5, OutsideKeeps DEF CloseStream, OutputSteps, EmissionSteps, FrameSteps, DeltaSteps
    <2>2. RequestInv'
      BY <1>5 DEF CloseStream, RequestInv, Whole, Closes, EmissionSteps
    <2> QED
      BY <2>1, <2>2
  <1>6. CASE Prepare \/ JoinRefresh \/ GetToken
    <2> USE DEF Prepare, JoinRefresh, GetToken
    <2>1. AttemptInv'
      BY <1>6, OutsideKeeps DEF OutputSteps, EmissionSteps, FrameSteps, DeltaSteps
    <2>2. RequestInv'
      BY <1>6 DEF RequestInv, Whole, Closes, EmissionSteps
    <2> QED
      BY <2>1, <2>2
  <1>7. CASE PrepareFails
    <2>1. ~Whole
      BY <1>7 DEF PrepareFails, RequestInv, Whole
    <2>2. AttemptInv'
      BY <1>7, <2>1, OutsideKeeps
      DEF PrepareFails, OutputSteps, EmissionSteps, FrameSteps, DeltaSteps
    <2>3. RequestInv'
      BY <1>7 DEF PrepareFails, RequestInv, EmissionSteps
    <2> QED
      BY <2>2, <2>3
  <1>8. CASE Open
    <2>1. out' = <<>> /\ err' = "none" /\ attempt' = attempt /\ bodies = {}
      BY <1>8 DEF Open, RequestInv
    <2>2. AttemptInv'
      BY <1>8, <2>1, FreshKeeps DEF Open, AttemptInv, AttemptTypeOK, FrameSteps, DeltaSteps
    <2>3. RequestInv'
      BY <1>8, <2>1 DEF Open, RequestInv, EmissionSteps
    <2> QED
      BY <2>2, <2>3
  <1>9. CASE OpenFails
    <2>1. out' = <<>> /\ err' \in {"mcp", "other"} /\ attempt' = attempt /\ bodies = {}
      BY <1>9 DEF OpenFails, RequestInv
    <2>2. AttemptInv'
      BY <1>9, <2>1, FreshKeeps
      DEF OpenFails, AttemptInv, AttemptTypeOK, FrameSteps, DeltaSteps, OutputSteps, EmissionSteps
    <2>3. RequestInv'
      BY <1>9, <2>1 DEF OpenFails, RequestInv, EmissionSteps
    <2> QED
      BY <2>2, <2>3
  <1>10. CASE ReadOutcome
    <2> USE DEF ReadOutcome
    <2>1. CASE mode = "complete" /\ (DrainFrame \/ DrainEof)
      <3>1. AttemptInv' /\ step' \in {"read", "ended"} /\ UNCHANGED out
        BY <2>1, DrainKeeps
      <3>2. UNCHANGED request /\ step = "read" /\ attempt' = attempt
        BY <1>10, <2>1 DEF DrainFrame, DrainEof
      <3>3. RequestInv'
        BY <2>1, <3>1, <3>2 DEF RequestInv, EmissionSteps
      <3> QED
        BY <3>1, <3>3
    <2>2. CASE (mode # "complete" /\ (ReadFrame \/ ReadEof)) \/ ReadFails
      <3>1. AttemptInv' /\ (step' = "ended" => err' # "none") /\ UNCHANGED out
        BY <2>2, ReadKeeps
      <3>2. /\ UNCHANGED request /\ step = "read" /\ attempt' = attempt
            /\ step' \in {"text", "finish", "ended"}
            /\ mode = "complete" => step' = "ended"
        BY <1>10, <2>2 DEF ReadFrame, ReadEof, ReadFails
      <3>3. RequestInv'
        BY <3>1, <3>2 DEF RequestInv, EmissionSteps
      <3> QED
        BY <3>1, <3>3
    <2> QED
      BY <1>10, <2>1, <2>2
  <1>11. CASE Disconnect
    <2>1. /\ UNCHANGED <<step, attempt, attemptVars, err, out, mode, bodies, toolContext>>
          /\ connected' \in BOOLEAN
      BY <1>11 DEF Disconnect
    <2>2. AttemptInv'
      BY <2>1, SameKeeps
    <2>3. RequestInv'
      BY <2>1 DEF RequestInv, EmissionSteps, Whole, Closes
    <2> QED
      BY <2>2, <2>3
  <1>12. CASE UNCHANGED vars
    <2>1. UNCHANGED <<step, attempt, attemptVars, err, out, request>>
      BY <1>12 DEF vars
    <2>2. AttemptInv'
      BY <2>1, SameKeeps
    <2>3. RequestInv'
      BY <2>1 DEF RequestInv, EmissionSteps, Whole, Closes
    <2> QED
      BY <2>2, <2>3
  <1> QED
    BY <1>1, <1>2, <1>3, <1>4, <1>5, <1>6, <1>7, <1>8, <1>9, <1>10, <1>11, <1>12
    DEF Next, GoroutineStep

LEMMA PluginInvariance == Spec => []PluginInv
  BY PluginInit, PluginNext, PTL DEF Spec

\* The response of every attempt is closed before the next one is opened, and
\* before the request ends, whichever way it ends: bodies of frames, of errors, of
\* rejections and of clients that went away.
THEOREM PluginBodiesClosed == Spec => []NoBodyLeak
  <1>1. PluginInv => NoBodyLeak
    <2> SUFFICES ASSUME PluginInv PROVE NoBodyLeak
      OBVIOUS
    <2>1. bodies = {} \/ bodies = {attempt}
      BY DEF PluginInv, RequestInv
    <2>2. Cardinality({}) = 0 /\ Cardinality({attempt}) = 1
      BY FS_EmptySet, FS_Singleton, Zenon
    <2>3. Cardinality(bodies) <= 1
      BY <2>1, <2>2
    <2> QED
      BY <2>3 DEF PluginInv, RequestInv, NoBodyLeak, Outside
  <1> QED
    BY <1>1, PluginInvariance, PTL

-----------------------------------------------------------------------------
\* Every element of a stream is one that ChatStream lets follow those before it.
LEMMA StreamFollows ==
    ASSUME NEW chunks \in Seq(Chunks), NEW a, IsStream(chunks, a), NEW i \in 1 .. Len(chunks)
    PROVE  Client!MayFollow(SubSeq(chunks, 1, i - 1), chunks[i])
  <1> DEFINE given == SubSeq(chunks, 1, i - 1)
  <1>1. /\ given = <<>> <=> i = 1
        /\ i > 1 => Head(given) = chunks[1] /\ Client!Last(given) = chunks[i - 1]
    BY PrefixIs DEF Last, Client!Last
  <1>2. /\ chunks[i].attempt = a
        /\ chunks[i].role <=> i = 1 /\ ~Finishes(chunks[i])
        /\ Closes(chunks[i]) <=> i > 1 /\ Finishes(chunks[i - 1])
    BY DEF IsStream
  <1>3. i > 1 => chunks[1].attempt = a /\ ~Closes(chunks[i - 1])
    BY DEF IsStream
  <1> HIDE DEF given
  <1> USE DEF Client!MayFollow, Client!Finishing, Client!Closing, Finishes, Closes
  <1>4. i = 1 => Client!MayFollow(given, chunks[i])
    BY <1>1, <1>2
  <1>5. i > 1 => Client!MayFollow(given, chunks[i])
    BY <1>1, <1>2, <1>3
  <1>6. Client!MayFollow(given, chunks[i])
    BY <1>4, <1>5
  <1> QED
    BY <1>6 DEF given

LEMMA ClientInit == Init => Client!Init
  BY DEF Init, Client!Init, Seen, Given

\* A chunk that is emitted is a chunk the client is given, unless it is gathered.
LEMMA EmitIsGive ==
    ASSUME PluginInv, PluginInv', Emit
    PROVE  [Client!Next]_(Client!vars)
  <1>1. /\ out' = Append(out, Pending) /\ out \in Seq(Chunks) /\ out' \in Seq(Chunks)
        /\ step # "closed" /\ step' # "closed" /\ UNCHANGED mode
        /\ mode # "complete"
    BY DEF Emit, EmitChunk, Advance, NextDelta, EmissionSteps, PluginInv, RequestInv, AttemptInv,
           AttemptTypeOK, request
  <1>2. Given = "open" /\ Given' = "open"
    BY <1>1 DEF Given
  <1>3. CASE mode = "buffered"
    BY <1>1, <1>2, <1>3 DEF Seen, Client!vars
  <1>4. CASE mode = "live"
    <2>1. Seen = out /\ Seen' = out'
      BY <1>1, <1>4 DEF Seen
    <2>2. Len(out) \in Nat /\ Len(out') = Len(out) + 1 /\ Len(out') \in 1 .. Len(out')
          /\ Client!Last(out') = out'[Len(out')] /\ out = SubSeq(out', 1, Len(out') - 1)
      BY <1>1, AppendIs DEF Client!Last
    <2>3. IsStream(out', attempt')
      BY DEF PluginInv, AttemptInv, OneStream
    <2>4. Client!MayFollow(out, Client!Last(out'))
      BY <1>1, <2>2, <2>3, StreamFollows
    <2>5. Client!Give
      BY <1>2, <2>1, <2>2, <2>4 DEF Client!Give, Client!Front
    <2> QED
      BY <2>5 DEF Client!Next
  <1> QED
    BY <1>1, <1>3, <1>4 DEF PluginInv, RequestInv

\* The end of a request tells the client which way it ended; chunks that were
\* gathered are given then.
LEMMA CloseIsEnd ==
    ASSUME PluginInv, CloseStream
    PROVE  [Client!Next]_(Client!vars)
  <1>1. /\ step = "close" /\ step' = "closed" /\ UNCHANGED <<attempt, err, out, mode>>
        /\ out \in Seq(Chunks) /\ mode \in {"live", "buffered", "complete"}
        /\ Given = "open"
    BY DEF CloseStream, request, PluginInv, RequestInv, AttemptInv, AttemptTypeOK, Given
  <1>2. /\ err # "none" => ~Whole
        /\ mode = "complete" => out = <<>>
        /\ err = "none" /\ mode # "complete" => Whole
    BY <1>1 DEF PluginInv, RequestInv, AttemptInv, Consistent
  <1>3. out # <<>> => Client!Last(out) = Last(out)
    BY DEF Client!Last, Last
  <1> USE DEF Client!Next, Client!End, Client!Complete, Client!Closing, Closes, Whole
  <1>4. CASE err # "none"
    <2>1. Given' = "failed" /\ Seen' = Seen /\ (Seen = <<>> \/ Seen = out)
      BY <1>1, <1>4 DEF Given, Seen
    <2> QED
      BY <1>1, <1>2, <1>3, <1>4, <2>1
  <1>5. CASE err = "none" /\ mode = "complete"
    <2>1. Given' = "answered" /\ Seen' = Seen /\ Seen = <<>>
      BY <1>1, <1>2, <1>5 DEF Given, Seen
    <2> QED
      BY <1>1, <2>1
  <1>6. CASE err = "none" /\ mode = "live"
    <2>1. Given' = "complete" /\ Seen' = Seen /\ Seen = out
      BY <1>1, <1>6 DEF Given, Seen
    <2> QED
      BY <1>1, <1>2, <1>3, <1>6, <2>1
  <1>7. CASE err = "none" /\ mode = "buffered"
    <2>1. Given' = "complete" /\ Seen' = out /\ Seen = <<>>
      BY <1>1, <1>7 DEF Given, Seen
    <2>2. out # <<>> /\ Client!Closing(Client!Last(out))
      BY <1>2, <1>3, <1>7
    <2>3. \A i \in 1 .. Len(out) : Client!MayFollow(SubSeq(out, 1, i - 1), out[i])
      BY <1>1, StreamFollows DEF PluginInv, AttemptInv, OneStream
    <2> HIDE DEF Client!Closing
    <2>4. Client!GiveAll
      BY <1>1, <2>1, <2>2, <2>3 DEF Client!GiveAll
    <2> QED
      BY <2>4
  <1> QED
    BY <1>1, <1>4, <1>5, <1>6, <1>7

LEMMA QuietIsStutter ==
    ASSUME step # "closed", step' # "closed", UNCHANGED <<out, mode>>
    PROVE  UNCHANGED Client!vars
  BY DEF Given, Seen, Client!vars

LEMMA ClientNext == PluginInv /\ PluginInv' /\ [Next]_vars => [Client!Next]_(Client!vars)
  <1> SUFFICES ASSUME PluginInv, PluginInv', [Next]_vars PROVE [Client!Next]_(Client!vars)
    OBVIOUS
  <1>1. CASE Emit
    BY <1>1, EmitIsGive
  <1>2. CASE CloseStream
    BY <1>2, CloseIsEnd
  <1>3. CASE EmitIsRefused \/ Skip \/ AttemptReturns
    <2>1. step # "closed" /\ step' # "closed" /\ UNCHANGED <<out, mode>>
      BY <1>3 DEF EmitIsRefused, EmitFails, Skip, SkipChunk, Advance, NextDelta, AttemptReturns,
                  EmissionSteps, request
    <2> QED
      BY <2>1, QuietIsStutter
  <1>4. CASE Prepare \/ PrepareFails \/ JoinRefresh \/ GetToken \/ Open \/ OpenFails
    <2>1. step # "closed" /\ step' # "closed" /\ UNCHANGED <<out, mode>>
      BY <1>4 DEF Prepare, PrepareFails, JoinRefresh, GetToken, Open, OpenFails, request
    <2> QED
      BY <2>1, QuietIsStutter
  <1>5. CASE ReadOutcome
    <2>1. step # "closed" /\ step' # "closed" /\ UNCHANGED <<out, mode>>
      BY <1>5 DEF ReadOutcome, ReadFrame, ReadEof, DrainFrame, DrainEof, ReadFails, request
    <2> QED
      BY <2>1, QuietIsStutter
  <1>6. CASE Disconnect
    <2>1. step # "closed" /\ step' # "closed" /\ UNCHANGED <<out, mode>>
      BY <1>6 DEF Disconnect
    <2> QED
      BY <2>1, QuietIsStutter
  <1>7. CASE UNCHANGED vars
    BY <1>7 DEF vars, request, Given, Seen, Client!vars
  <1> QED
    BY <1>1, <1>2, <1>3, <1>4, <1>5, <1>6, <1>7 DEF Next, GoroutineStep

\* However the plugin answers, the client is given what ChatStream promises: the
\* chunks of one attempt, role first, a finish and [DONE] last, and a stream that
\* ends without an error only when it is whole.
THEOREM PluginKeepsPromise == Spec => ImplementsChatStream
  BY ClientInit, ClientNext, PluginInvariance, PTL DEF Spec, ImplementsChatStream, Client!Spec

\* The variables of an attempt keep their types, and a step that reads the last
\* frame or a delta of it finds one, for any frames.
THEOREM PluginTyped == Spec => []AttemptTypeOK
  <1>1. PluginInv => AttemptTypeOK
    BY DEF PluginInv, AttemptInv
  <1> QED
    BY <1>1, PluginInvariance, PTL

-----------------------------------------------------------------------------
\* A request that is streamed tells what it hears.
StreamInv == PluginInv /\ (mode # "complete" => ToldInv)

LEMMA StreamNext == StreamInv /\ [Next]_vars => StreamInv'
  <1> SUFFICES ASSUME StreamInv, [Next]_vars PROVE StreamInv'
    OBVIOUS
  <1>1. PluginInv' /\ PluginInv /\ AttemptInv /\ AttemptInv'
    BY PluginNext DEF StreamInv, PluginInv
  <1>2. mode' = mode
    BY DEF Next, GoroutineStep, Emit, EmitIsRefused, Skip, AttemptReturns, CloseStream, Prepare,
           PrepareFails, JoinRefresh, GetToken, Open, OpenFails, ReadOutcome, Disconnect, request, vars
  <1> SUFFICES ASSUME mode # "complete" PROVE ToldInv'
    BY <1>1, <1>2 DEF StreamInv
  <1>3. ToldInv
    BY DEF StreamInv
  <1> USE DEF OutputSteps, FrameSteps, DeltaSteps
  <1>4. CASE Emit
    BY <1>1, <1>3, <1>4, ToldEmit DEF Emit
  <1>5. CASE EmitIsRefused
    <2>1. step' = "ended" /\ ~Whole'
      BY <1>1, <1>5 DEF EmitIsRefused, EmitFails, AttemptInv, Consistent
    <2> QED
      BY <2>1, ToldLeft
  <1>6. CASE Skip
    BY <1>1, <1>3, <1>6, ToldSkip DEF Skip
  <1>7. CASE AttemptReturns \/ CloseStream
    <2>1. UNCHANGED <<attemptVars, out>> /\ step \in {"ended", "close"}
          /\ step' \in {"token", "close", "closed"}
      BY <1>7 DEF AttemptReturns, CloseStream
    <2> QED
      BY <1>1, <1>3, <2>1, ToldOutside
  <1>8. CASE Prepare \/ PrepareFails \/ JoinRefresh \/ GetToken
    <2>1. UNCHANGED <<attemptVars, out>> /\ step \in {"prepare", "token", "wait"}
          /\ step' \in {"token", "wait", "open", "close"}
      BY <1>8 DEF Prepare, PrepareFails, JoinRefresh, GetToken
    <2> QED
      BY <1>1, <1>3, <2>1, ToldOutside
  <1>9. CASE Open \/ OpenFails
    <2>1. FreshAttempt /\ out' = <<>> /\ step' \in {"read", "ended"}
      BY <1>1, <1>9 DEF Open, OpenFails, PluginInv, RequestInv, request
    <2> QED
      BY <1>1, <2>1, ToldFresh
  <1>10. CASE ReadOutcome
    BY <1>1, <1>3, <1>10, ToldRead DEF ReadOutcome
  <1>11. CASE Disconnect \/ UNCHANGED vars
    <2>1. UNCHANGED <<step, attemptVars, out>>
      BY <1>11 DEF Disconnect, vars
    <2> QED
      BY <1>3, <2>1, ToldSame
  <1> QED
    BY <1>4, <1>5, <1>6, <1>7, <1>8, <1>9, <1>10, <1>11 DEF Next, GoroutineStep

\* A stream the client was given to its end says what a completion made of the
\* same frames would have said: the same text, the same calls in the same order
\* with the same names and arguments, and the same reason to finish, for any
\* frames and any order of them; so long as no call was started without a name.
THEOREM StreamAnswersAlike == Spec => [](StartsNamed => StreamMatchesCompletion)
  <1>1. Init => StreamInv
    BY PluginInit, ToldBegins DEF StreamInv, Init
  <1>2. StreamInv => (StartsNamed => StreamMatchesCompletion)
    BY ToldMatches, NoneMatches DEF StreamInv, PluginInv, RequestInv
  <1> QED
    BY <1>1, <1>2, StreamNext, PTL DEF Spec
=============================================================================
