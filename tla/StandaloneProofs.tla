-------------------------- MODULE StandaloneProofs --------------------------
(***************************************************************************)
(* What is proved of the standalone program.  Of a request: no response    *)
(* body is left open, and the client is given what ChatStream promises.    *)
(* Of the goroutine that registers models: no record is offered with the   *)
(* models of another account.  Last, that the whole program keeps both,    *)
(* because each of its steps is a step of one part.                        *)
(***************************************************************************)
EXTENDS Standalone, StreamAttemptProofs, FiniteSetTheorems

Reading == {"read"} \cup EmissionSteps
Outside == {"prepare", "open", "report", "close", "closed", "refused"}

\* The goroutine and what belongs to the request: its body is open only within an
\* attempt; a completion is given no chunk; a stream that ends without an error is
\* whole, or its client has gone; the error the server is given ends a stream that
\* is not whole.
RequestInv ==
    /\ step \in Reading \cup {"ended"} \cup Outside
    /\ streamed \in BOOLEAN /\ named \in BOOLEAN /\ ctxDone \in BOOLEAN
    /\ failed \in {"none", "mcp", "other"}
    /\ bodies \subseteq {attempt}
    /\ step \in Outside => bodies = {}
    /\ step \in {"prepare", "open"} => out = <<>> /\ err = "none"
    /\ step = "refused" => failed # "none" /\ out = <<>>
    /\ step = "report" => streamed /\ err # "none"
    /\ step = "ended" /\ err = "none" /\ streamed => Whole
    /\ step \notin {"close", "closed", "refused"} => failed = "none"
    /\ step \in {"close", "closed"} =>
           /\ failed \in {"none", err}
           /\ failed # "none" => streamed /\ ~Whole
           /\ failed = "none" /\ streamed => Whole \/ ctxDone
    /\ ~streamed => step \notin EmissionSteps /\ out = <<>>
    /\ step \in {"report", "close", "closed"} /\ err = "mcp" /\ named => attempt = 2 \/ emitted

SdkInv == AttemptInv /\ RequestInv

LEMMA SdkInit == Init => SdkInv
  <1> SUFFICES ASSUME Init PROVE SdkInv
    OBVIOUS
  <1> USE DEF Init, NoAttempt
  <1>1. /\ received \in Seq(Frames) /\ order \in Seq(Strings) /\ out \in Seq(Chunks)
        /\ active \in 0 .. Len(order)
    BY EmptyTyped
  <1>2. AttemptTypeOK
    BY <1>1 DEF AttemptTypeOK, FrameSteps, DeltaSteps
  <1>3. OneStream
    BY DEF OneStream, IsStream
  <1>4. Consistent
    BY DEF Consistent, Whole, OutputSteps, FrameSteps, DeltaSteps, EmissionSteps
  <1>5. RequestInv
    BY DEF RequestInv, Outside, Reading, EmissionSteps
  <1> QED
    BY <1>2, <1>3, <1>4, <1>5 DEF SdkInv, AttemptInv

LEMMA SdkNext == SdkInv /\ [Next]_vars => SdkInv'
  <1> SUFFICES ASSUME SdkInv, [Next]_vars PROVE SdkInv'
    OBVIOUS
  <1> USE DEF SdkInv, Reading, Outside, request, attemptVars
  <1>1. CASE Send
    <2>1. EmitChunk /\ UNCHANGED request /\ AttemptInv' /\ out' # <<>> /\ err' = err
          /\ (step' = "ended" => Whole')
      BY <1>1, EmitKeeps DEF Send
    <2>2. step \in EmissionSteps /\ attempt' = attempt
      BY <2>1 DEF EmitChunk
    <2>3. step' \in {"read", "text", "id", "args", "finish", "done", "ended"}
      BY <2>1 DEF EmitChunk, Advance, NextDelta
    <2>4. RequestInv'
      BY <2>1, <2>2, <2>3 DEF RequestInv, EmissionSteps
    <2> QED
      BY <2>1, <2>4
  <1>2. CASE SendGivesUp
    <2>1. EmitFails /\ UNCHANGED request /\ AttemptInv' /\ step' = "ended" /\ err' # "none"
      BY <1>2, EmitFailsKeeps DEF SendGivesUp
    <2>2. RequestInv'
      BY <2>1 DEF RequestInv, EmitFails, EmissionSteps
    <2> QED
      BY <2>1, <2>2
  <1>3. CASE Skip
    <2>1. SkipChunk /\ UNCHANGED request /\ AttemptInv' /\ step' \in OutputSteps
      BY <1>3, SkipKeeps DEF Skip
    <2>2. RequestInv'
      BY <2>1 DEF RequestInv, SkipChunk, OutputSteps, FrameSteps, DeltaSteps, EmissionSteps
    <2> QED
      BY <2>1, <2>2
  <1>4. CASE AttemptReturns
    <2> USE DEF AttemptReturns
    <2>1. /\ step = "ended" /\ bodies' = {} /\ failed = "none"
          /\ UNCHANGED <<attemptVars, out, streamed, named, ctxDone>>
      BY <1>4 DEF RequestInv
    <2>2. CASE Retries /\ step' = "open" /\ attempt' = attempt + 1 /\ err' = "none"
               /\ UNCHANGED failed
      <3>1. attempt' = 2 /\ out = <<>>
        BY <2>2 DEF Retries, AttemptInv, Consistent
      <3>2. AttemptInv'
        BY <2>1, <2>2, <3>1, RetryKeeps DEF OutputSteps, EmissionSteps, FrameSteps, DeltaSteps
      <3>3. RequestInv'
        BY <2>1, <2>2, <3>1 DEF RequestInv, EmissionSteps
      <3> QED
        BY <3>2, <3>3
    <2>3. CASE ~Retries /\ step' = StepAfter /\ UNCHANGED <<attempt, err>>
               /\ failed' = IF StepAfter = "refused" THEN err ELSE failed
      <3>1. step' \in {"close", "report", "refused"}
        BY <2>3 DEF StepAfter
      <3>2. AttemptInv'
        BY <2>1, <2>3, <3>1, OutsideKeeps
        DEF OutputSteps, EmissionSteps, FrameSteps, DeltaSteps
      <3>3. err \in {"none", "mcp", "other"}
        BY DEF AttemptInv, AttemptTypeOK
      <3>4. RequestInv'
        <4>1. CASE err = "none"
          BY <2>1, <2>3, <4>1 DEF StepAfter, RequestInv, EmissionSteps, Whole, Closes
        <4>2. CASE err # "none" /\ streamed
          <5>1. named /\ err = "mcp" => attempt = 2 \/ emitted
            BY <2>3 DEF Retries, AttemptInv, AttemptTypeOK
          <5> QED
            BY <2>1, <2>3, <4>2, <5>1 DEF StepAfter, RequestInv, EmissionSteps, attemptVars
        <4>3. CASE err # "none" /\ ~streamed
          BY <2>1, <2>3, <3>3, <4>3 DEF StepAfter, RequestInv, EmissionSteps
        <4> QED
          BY <4>1, <4>2, <4>3 DEF RequestInv
      <3> QED
        BY <3>2, <3>4
    <2> QED
      BY <1>4, <2>2, <2>3
  <1>5. CASE Report \/ ReportGivesUp
    <2>1. /\ step = "report" /\ step' = "close" /\ failed' \in {err, failed}
          /\ failed' = err \/ ctxDone
          /\ UNCHANGED <<attempt, attemptVars, err, out, streamed, bodies, named, ctxDone>>
      BY <1>5 DEF Report, ReportGivesUp
    <2>2. AttemptInv' /\ ~Whole /\ err \in {"none", "mcp", "other"}
      BY <2>1, OutsideKeeps DEF OutputSteps, EmissionSteps, FrameSteps, DeltaSteps, RequestInv,
                                AttemptInv, Consistent, AttemptTypeOK
    <2>3. RequestInv'
      BY <2>1, <2>2 DEF RequestInv, EmissionSteps, Whole, Closes
    <2> QED
      BY <2>2, <2>3
  <1>6. CASE CloseChannel
    <2>1. /\ step = "close" /\ step' = "closed"
          /\ UNCHANGED <<attempt, attemptVars, err, out, request>>
      BY <1>6 DEF CloseChannel
    <2>2. AttemptInv'
      BY <2>1, OutsideKeeps DEF OutputSteps, EmissionSteps, FrameSteps, DeltaSteps
    <2>3. RequestInv'
      BY <2>1 DEF RequestInv, EmissionSteps, Whole, Closes
    <2> QED
      BY <2>2, <2>3
  <1>7. CASE Prepare \/ PrepareFails
    <2>1. /\ step = "prepare"
          /\ \/ step' = "open" /\ UNCHANGED failed
             \/ step' = "refused" /\ failed' = "other"
          /\ UNCHANGED <<attempt, attemptVars, err, out, streamed, bodies, named, ctxDone>>
      BY <1>7 DEF Prepare, PrepareFails
    <2>2. AttemptInv'
      BY <2>1, OutsideKeeps DEF OutputSteps, EmissionSteps, FrameSteps, DeltaSteps
    <2>3. RequestInv'
      BY <2>1 DEF RequestInv, EmissionSteps
    <2> QED
      BY <2>2, <2>3
  <1>8. CASE Open
    <2>1. out' = <<>> /\ err' = "none" /\ attempt' = attempt /\ bodies = {}
      BY <1>8 DEF Open, RequestInv
    <2>2. AttemptInv'
      BY <1>8, <2>1, FreshKeeps DEF Open, AttemptInv, AttemptTypeOK, FrameSteps, DeltaSteps
    <2>3. RequestInv'
      BY <1>8, <2>1 DEF Open, RequestInv, EmissionSteps
    <2> QED
      BY <2>2, <2>3
  <1>9. CASE OpenFails
    <2>1. /\ step = "open" /\ out = <<>> /\ err = "none" /\ failed = "none" /\ bodies = {}
          /\ FreshAttempt /\ UNCHANGED <<attempt, out, streamed, bodies, named, ctxDone>>
      BY <1>9 DEF OpenFails, RequestInv
    <2>2. \/ step' = "refused" /\ failed' \in {"mcp", "other"} /\ UNCHANGED err
          \/ step' = "report" /\ streamed /\ attempt = 2 /\ err' \in {"mcp", "other"} /\ UNCHANGED failed
      BY <1>9 DEF OpenFails
    <2>3. AttemptInv'
      BY <2>1, <2>2, FreshKeeps
      DEF AttemptInv, AttemptTypeOK, FrameSteps, DeltaSteps, OutputSteps, EmissionSteps
    <2>4. RequestInv'
      BY <2>1, <2>2 DEF RequestInv, EmissionSteps
    <2> QED
      BY <2>3, <2>4
  <1>10. CASE ReadOutcome
    <2> USE DEF ReadOutcome
    <2>1. CASE ~streamed /\ (DrainFrame \/ DrainEof)
      <3>1. AttemptInv' /\ step' \in {"read", "ended"} /\ UNCHANGED out
        BY <2>1, DrainKeeps
      <3>2. UNCHANGED request /\ step = "read" /\ attempt' = attempt
        BY <1>10, <2>1 DEF DrainFrame, DrainEof
      <3>3. RequestInv'
        BY <2>1, <3>1, <3>2 DEF RequestInv, EmissionSteps
      <3> QED
        BY <3>1, <3>3
    <2>2. CASE (streamed /\ (ReadFrame \/ ReadEof)) \/ ReadFails
      <3>1. AttemptInv' /\ (step' = "ended" => err' # "none") /\ UNCHANGED out
        BY <2>2, ReadKeeps
      <3>2. /\ UNCHANGED request /\ step = "read" /\ attempt' = attempt
            /\ step' \in {"text", "finish", "ended"}
            /\ ~streamed => step' = "ended"
        BY <1>10, <2>2 DEF ReadFrame, ReadEof, ReadFails
      <3>3. RequestInv'
        BY <3>1, <3>2 DEF RequestInv, EmissionSteps
      <3> QED
        BY <3>1, <3>3
    <2> QED
      BY <1>10, <2>1, <2>2
  <1>11. CASE Disconnect
    <2>1. /\ UNCHANGED <<step, attempt, attemptVars, err, out, streamed, bodies, named, failed>>
          /\ ctxDone' = TRUE
      BY <1>11 DEF Disconnect
    <2>2. AttemptInv'
      BY <2>1, SameKeeps
    <2>3. RequestInv'
      BY <2>1 DEF RequestInv, EmissionSteps, Whole, Closes
    <2> QED
      BY <2>2, <2>3
  <1>12. CASE UNCHANGED vars
    <2>1. UNCHANGED <<step, attempt, attemptVars, err, out, request>>
      BY <1>12 DEF vars
    <2>2. AttemptInv'
      BY <2>1, SameKeeps
    <2>3. RequestInv'
      BY <2>1 DEF RequestInv, EmissionSteps, Whole, Closes
    <2> QED
      BY <2>2, <2>3
  <1> QED
    BY <1>1, <1>2, <1>3, <1>4, <1>5, <1>6, <1>7, <1>8, <1>9, <1>10, <1>11, <1>12
    DEF Next, OwnStep, TakenStep

LEMMA SdkInvariance == Spec => []SdkInv
  BY SdkInit, SdkNext, PTL DEF Spec

LEMMA ClosesBodies == SdkInv => NoBodyLeak
  <1> SUFFICES ASSUME SdkInv PROVE NoBodyLeak
    OBVIOUS
  <1>1. bodies = {} \/ bodies = {attempt}
    BY DEF SdkInv, RequestInv
  <1>2. Cardinality({}) = 0 /\ Cardinality({attempt}) = 1
    BY FS_EmptySet, FS_Singleton, Zenon
  <1>3. Cardinality(bodies) <= 1
    BY <1>1, <1>2
  <1> QED
    BY <1>3 DEF SdkInv, RequestInv, NoBodyLeak, Outside

\* Whatever an upstream answers and whenever the context is done, the response of
\* an attempt is closed before the request goes on: before the second attempt,
\* before the error is reported, before the channel is closed or the request is
\* refused.
THEOREM SdkBodiesClosed == Spec => []NoBodyLeak
  BY ClosesBodies, SdkInvariance, PTL

\* Once a stream was begun, a rejection of the tool configuration that ends it is
\* given to the server only after the conservative attempt, or after output.
RejectionRetriedInStream ==
    streamed /\ named /\ step # "refused" /\ failed = "mcp" => attempt = 2 \/ emitted

\* The half of RejectionRetried that the code keeps: a rejection that comes with
\* the frames of a stream is retried, whatever else happens to the request.  The
\* other half, a rejection by the status of the first response, is refuted by TLC.
THEOREM StreamRejectionsRetried == Spec => []RejectionRetriedInStream
  <1>1. SdkInv => RejectionRetriedInStream
    BY DEF SdkInv, RequestInv, RejectionRetriedInStream, Reading, Outside
  <1> QED
    BY <1>1, SdkInvariance, PTL

-----------------------------------------------------------------------------
\* Every element of a stream is one that ChatStream lets follow those before it.
LEMMA StreamFollows ==
    ASSUME NEW chunks \in Seq(Chunks), NEW a, IsStream(chunks, a), NEW i \in 1 .. Len(chunks)
    PROVE  Client!MayFollow(SubSeq(chunks, 1, i - 1), chunks[i])
  <1> DEFINE given == SubSeq(chunks, 1, i - 1)
  <1>1. /\ given = <<>> <=> i = 1
        /\ i > 1 => Head(given) = chunks[1] /\ Client!Last(given) = chunks[i - 1]
    BY PrefixIs DEF Last, Client!Last
  <1>2. /\ chunks[i].attempt = a
        /\ chunks[i].role <=> i = 1 /\ ~Finishes(chunks[i])
        /\ Closes(chunks[i]) <=> i > 1 /\ Finishes(chunks[i - 1])
    BY DEF IsStream
  <1>3. i > 1 => chunks[1].attempt = a /\ ~Closes(chunks[i - 1])
    BY DEF IsStream
  <1> HIDE DEF given
  <1> USE DEF Client!MayFollow, Client!Finishing, Client!Closing, Finishes, Closes
  <1>4. i = 1 => Client!MayFollow(given, chunks[i])
    BY <1>1, <1>2
  <1>5. i > 1 => Client!MayFollow(given, chunks[i])
    BY <1>1, <1>2, <1>3
  <1>6. Client!MayFollow(given, chunks[i])
    BY <1>4, <1>5
  <1> QED
    BY <1>6 DEF given

LEMMA ClientInit == Init => Client!Init
  BY DEF Init, Client!Init, Given

Over == {"closed", "refused"}

LEMMA SendIsGive ==
    ASSUME SdkInv, SdkInv', Send
    PROVE  Client!Give
  <1>1. /\ out' = Append(out, Pending) /\ out \in Seq(Chunks) /\ out' \in Seq(Chunks)
        /\ step \notin Over /\ step' \notin Over
    BY DEF Send, EmitChunk, Advance, NextDelta, EmissionSteps, SdkInv, AttemptInv,
           AttemptTypeOK, Over
  <1>2. Given = "open" /\ Given' = "open"
    BY <1>1 DEF Given, Over
  <1>3. Len(out) \in Nat /\ Len(out') = Len(out) + 1 /\ Len(out') \in 1 .. Len(out')
        /\ Client!Last(out') = out'[Len(out')] /\ out = SubSeq(out', 1, Len(out') - 1)
    BY <1>1, AppendIs DEF Client!Last
  <1>4. IsStream(out', attempt')
    BY DEF SdkInv, AttemptInv, OneStream
  <1>5. Client!MayFollow(out, Client!Last(out'))
    BY <1>1, <1>3, <1>4, StreamFollows
  <1> QED
    BY <1>2, <1>3, <1>5 DEF Client!Give, Client!Front

\* A request that ends: the mapping gives it the status the promise allows, and
\* "lost" is none of them.
LEMMA OverIsEnd ==
    ASSUME SdkInv, SdkInv', step \notin Over, step' \in Over, UNCHANGED out
    PROVE  Client!End
  <1>1. Given = "open" /\ out \in Seq(Chunks)
    BY DEF Given, Over, SdkInv, AttemptInv, AttemptTypeOK
  <1>2. out # <<>> => Client!Last(out) = Last(out)
    BY DEF Client!Last, Last
  <1>3. Whole' <=> Whole
    BY DEF Whole, Closes
  <1>4. /\ step' = "refused" => failed' # "none" /\ out = <<>>
        /\ step' = "closed" => /\ failed' # "none" => ~Whole
                               /\ failed' = "none" /\ streamed' => Whole \/ ctxDone'
        /\ ~streamed' => out = <<>>
    BY <1>3 DEF SdkInv, RequestInv
  <1>5. Whole <=> Client!Complete
    BY <1>2 DEF Whole, Closes, Client!Complete, Client!Closing
  <1>6. ~Whole => Given' \in {"failed", "abandoned", "answered"}
    BY <1>4 DEF Given, Over, Whole, Closes
  <1>7. Whole => Given' = "complete"
    BY <1>4 DEF Given, Over, Whole, Closes
  <1>8. Given' = "answered" => out = <<>>
    BY <1>4 DEF Given, Over
  <1> QED
    BY <1>1, <1>5, <1>6, <1>7, <1>8 DEF Client!End

LEMMA SdkImplements == SdkInv /\ SdkInv' /\ [Next]_vars => [Client!Next]_(Client!vars)
  <1> SUFFICES ASSUME SdkInv, SdkInv', [Next]_vars PROVE [Client!Next]_(Client!vars)
    OBVIOUS
  <1> USE DEF Over
  <1>1. CASE Send
    BY <1>1, SendIsGive DEF Client!Next
  <1>2. CASE /\ UNCHANGED out
             /\ step \notin Over /\ step' \in Over
    BY <1>2, OverIsEnd DEF Client!Next
  <1>3. CASE /\ UNCHANGED out
             /\ step \notin Over /\ step' \notin Over
    BY <1>3 DEF Client!vars, Given
  <1>4. CASE UNCHANGED vars
    BY <1>4 DEF vars, request, Given, Client!vars
  <1>5. CASE SendGivesUp \/ Skip \/ AttemptReturns \/ ReportGivesUp \/ CloseChannel \/ Report
    <2>1. UNCHANGED out /\ step \notin Over
      BY <1>5 DEF SendGivesUp, EmitFails, Skip, SkipChunk, AttemptReturns, ReportGivesUp,
                  CloseChannel, Report, EmissionSteps
    <2> QED
      BY <1>2, <1>3, <2>1
  <1>6. CASE Prepare \/ PrepareFails \/ Open \/ OpenFails \/ Disconnect
    <2>1. UNCHANGED out /\ step \notin Over
      BY <1>6 DEF Prepare, PrepareFails, Open, OpenFails, Disconnect
    <2> QED
      BY <1>2, <1>3, <2>1
  <1>7. CASE ReadOutcome
    <2>1. UNCHANGED out /\ step \notin Over
      BY <1>7 DEF ReadOutcome, ReadFrame, ReadEof, DrainFrame, DrainEof, ReadFails
    <2> QED
      BY <1>2, <1>3, <2>1
  <1> QED
    BY <1>1, <1>4, <1>5, <1>6, <1>7 DEF Next, OwnStep, TakenStep

\* A request of the standalone program gives its client what ChatStream promises,
\* whichever of a chunk, the end of the upstream answer and the cancellation wins
\* a select; a stream that ends unfinished without an error has lost its client.
THEOREM SdkKeepsPromise == Spec => ImplementsChatStream
  BY ClientInit, SdkImplements, SdkInvariance, PTL DEF Spec, ImplementsChatStream, Client!Spec

-----------------------------------------------------------------------------
\* A request that is streamed tells what it hears, as in the plugin.
StreamInv == SdkInv /\ (streamed => ToldInv)

LEMMA StreamNext == StreamInv /\ [Next]_vars => StreamInv'
  <1> SUFFICES ASSUME StreamInv, [Next]_vars PROVE StreamInv'
    OBVIOUS
  <1>1. SdkInv' /\ SdkInv /\ AttemptInv /\ AttemptInv'
    BY SdkNext DEF StreamInv, SdkInv
  <1>2. streamed' = streamed
    BY DEF Next, OwnStep, TakenStep, Send, SendGivesUp, Skip, AttemptReturns, Report,
           ReportGivesUp, CloseChannel, Prepare, PrepareFails, Open, OpenFails, ReadOutcome,
           Disconnect, request, vars
  <1> SUFFICES ASSUME streamed PROVE ToldInv'
    BY <1>1, <1>2 DEF StreamInv
  <1>3. ToldInv
    BY DEF StreamInv
  <1> USE DEF OutputSteps, FrameSteps, DeltaSteps
  <1>4. CASE Send
    BY <1>1, <1>3, <1>4, ToldEmit DEF Send
  <1>5. CASE SendGivesUp
    <2>1. step' = "ended" /\ ~Whole'
      BY <1>1, <1>5 DEF SendGivesUp, EmitFails, AttemptInv, Consistent
    <2> QED
      BY <2>1, ToldLeft
  <1>6. CASE Skip
    BY <1>1, <1>3, <1>6, ToldSkip DEF Skip
  <1>7. CASE AttemptReturns \/ Report \/ ReportGivesUp \/ CloseChannel
    <2>1. UNCHANGED <<attemptVars, out>> /\ step \in {"ended", "report", "close"}
          /\ step' \in {"open", "report", "refused", "close", "closed"}
      BY <1>7 DEF AttemptReturns, StepAfter, Report, ReportGivesUp, CloseChannel
    <2> QED
      BY <1>1, <1>3, <2>1, ToldOutside
  <1>8. CASE Prepare \/ PrepareFails
    <2>1. UNCHANGED <<attemptVars, out>> /\ step = "prepare" /\ step' \in {"open", "refused"}
      BY <1>8 DEF Prepare, PrepareFails
    <2> QED
      BY <1>1, <1>3, <2>1, ToldOutside
  <1>9. CASE Open
    <2>1. FreshAttempt /\ out' = <<>> /\ step' = "read"
      BY <1>1, <1>9 DEF Open, SdkInv, RequestInv
    <2> QED
      BY <1>1, <2>1, ToldFresh
  <1>10. CASE OpenFails
    <2>1. out' = <<>> /\ step' \in {"refused", "report"}
      BY <1>1, <1>10 DEF OpenFails, SdkInv, RequestInv
    <2> QED
      BY <2>1, ToldLeft DEF Whole
  <1>11. CASE ReadOutcome
    BY <1>1, <1>3, <1>11, ToldRead DEF ReadOutcome
  <1>12. CASE Disconnect \/ UNCHANGED vars
    <2>1. UNCHANGED <<step, attemptVars, out>>
      BY <1>12 DEF Disconnect, vars
    <2> QED
      BY <1>3, <2>1, ToldSame
  <1> QED
    BY <1>4, <1>5, <1>6, <1>7, <1>8, <1>9, <1>10, <1>11, <1>12 DEF Next, OwnStep, TakenStep

LEMMA StreamMatches == StreamInv => (StartsNamed => StreamMatchesCompletion)
  BY ToldMatches, NoneMatches DEF StreamInv, SdkInv, RequestInv

LEMMA StreamFirst == Init => StreamInv
  BY SdkInit, ToldBegins DEF StreamInv, Init

\* What the client of the standalone program puts together from a stream given to
\* its end is what Execute would have returned for the same frames: text, calls,
\* names, arguments and the reason to finish, for any frames; so long as no call
\* was started without a name.
THEOREM SdkAnswersAlike == Spec => [](StartsNamed => StreamMatchesCompletion)
  BY StreamFirst, StreamNext, StreamMatches, PTL DEF Spec

-----------------------------------------------------------------------------
\* The goroutine that registers models never offers a record with the models of
\* another account, for any records, tokens and number of changes, however edits,
\* removals and reloads fall between its steps.
OwnTokens(a) == TokensOf[a] \cup {Absent}

\* The cache holds the models of the token it names.
CacheCoherent == \A a \in AuthIds : fetched[a].models = fetched[a].token

CacheOwn == \A a \in AuthIds : fetched[a].token \in OwnTokens(a)

RecordsOwn == \A a \in AuthIds : records[a] \in OwnTokens(a)

ListedOwn == \A r \in listed : r.token \in TokensOf[r.id]

\* The record in hand is a real one, from its listing to its registration.
InHand ==
    stage \in {"fetch", "register"} =>
        current \in Listed /\ current.token \in TokensOf[current.id]

\* What is about to be registered was fetched with the token of the record in
\* hand, or is the static list.
InfosCurrent == stage = "register" => infos \in {current.token, Static}

PollerInv ==
    /\ PollerTypeOK
    /\ CacheCoherent
    /\ CacheOwn
    /\ RecordsOwn
    /\ ListedOwn
    /\ InHand
    /\ InfosCurrent
    /\ RegisteredModelsOwn

-----------------------------------------------------------------------------
\* A token of an account is a token, and no mark of absence.
LEMMA TokensAreTokens ==
    \A a \in AuthIds : \A t \in TokensOf[a] : t \in AllTokens /\ t # Absent
BY PollerAssumption DEF AllTokens

LEMMA PollerStarts == PollerInit => PollerInv
BY PollerAssumption
   DEF PollerInit, PollerInv, PollerTypeOK, CacheCoherent, CacheOwn, RecordsOwn,
       ListedOwn, InHand, InfosCurrent, RegisteredModelsOwn, OwnTokens, Models,
       Nobody

\* One step of the goroutine or of the service keeps the invariant.
LEMMA PollerStays == PollerInv /\ [PollerNext]_pollerVars => PollerInv'
<1> SUFFICES ASSUME PollerInv, [PollerNext]_pollerVars
             PROVE  PollerInv'
    OBVIOUS
<1> USE DEF PollerInv, OwnTokens
<1>1. CASE List
    <2>1. listed' \subseteq Listed /\ ListedOwn'
        BY <1>1, TokensAreTokens DEF List, service, Listed, RecordsOwn, ListedOwn
    <2>. QED
        BY <1>1, <2>1
           DEF List, service, PollerTypeOK, CacheCoherent, CacheOwn, RecordsOwn,
               InHand, InfosCurrent, RegisteredModelsOwn
<1>2. CASE Take
    <2>1. PICK r \in listed :
              /\ listed' = listed \ {r}
              /\ current' = r
              /\ executor' = "ours"
              /\ \/ Known(r) /\ infos' = fetched[r.id].models /\ stage' = "register"
                 \/ ~Known(r) /\ stage' = "fetch" /\ UNCHANGED infos
        BY <1>2 DEF Take
    <2>2. UNCHANGED <<records, registry, fetched, changes>>
        BY <1>2 DEF Take
    <2>3. r \in Listed /\ r.token \in TokensOf[r.id]
        BY DEF PollerTypeOK, ListedOwn
    <2>4. InHand' /\ ListedOwn'
        BY <2>1, <2>3 DEF InHand, ListedOwn
    <2>5. InfosCurrent' /\ infos' \in Models
        BY <2>1, <2>3 DEF InfosCurrent, CacheCoherent, Known, Listed, Models, PollerTypeOK
    <2>. QED
        BY <2>1, <2>2, <2>3, <2>4, <2>5
           DEF PollerTypeOK, CacheCoherent, CacheOwn, RecordsOwn, RegisteredModelsOwn
<1>3. CASE Fetch
    <2>1. current \in Listed /\ current.token \in TokensOf[current.id]
        BY <1>3 DEF Fetch, InHand
    <2>2. /\ infos' = current.token
          /\ fetched' = [fetched EXCEPT ![current.id] =
                            [token |-> current.token, models |-> current.token]]
          /\ stage' = "register"
          /\ UNCHANGED <<records, registry, executor, listed, current, changes>>
        BY <1>3 DEF Fetch, service
    <2>3. PollerTypeOK'
        BY <2>1, <2>2 DEF PollerTypeOK, Models, Listed
    <2>4. CacheCoherent' /\ CacheOwn'
        BY <2>1, <2>2 DEF PollerTypeOK, CacheCoherent, CacheOwn, Listed
    <2>. QED
        BY <2>1, <2>2, <2>3, <2>4
           DEF RecordsOwn, ListedOwn, InHand, InfosCurrent, RegisteredModelsOwn
<1>4. CASE FetchFails
    BY <1>4
       DEF FetchFails, service, PollerTypeOK, Models, CacheCoherent, CacheOwn,
           RecordsOwn, ListedOwn, InHand, InfosCurrent, RegisteredModelsOwn
<1>5. CASE RegisterClient
    <2>1. /\ current \in Listed /\ current.token \in TokensOf[current.id]
          /\ infos \in {current.token, Static}
        BY <1>5 DEF RegisterClient, InHand, InfosCurrent
    <2>2. RegisteredModelsOwn'
        BY <1>5, <2>1 DEF RegisterClient, RegisteredModelsOwn, PollerTypeOK, Listed
    <2>. QED
        BY <1>5, <2>1, <2>2
           DEF RegisterClient, PollerTypeOK, CacheCoherent, CacheOwn, RecordsOwn,
               ListedOwn, InHand, InfosCurrent
<1>6. CASE EndRound
    BY <1>6
       DEF EndRound, service, PollerTypeOK, CacheCoherent, CacheOwn, RecordsOwn,
           ListedOwn, InHand, InfosCurrent, RegisteredModelsOwn
<1>7. ASSUME NEW a \in AuthIds, Edit(a)
      PROVE  PollerInv'
    <2>1. PICK t \in TokensOf[a] : records' = [records EXCEPT ![a] = t]
        BY <1>7 DEF Edit
    <2>2. records' \in [AuthIds -> AllTokens \cup {Absent}] /\ RecordsOwn'
        BY <2>1, TokensAreTokens DEF PollerTypeOK, RecordsOwn
    <2>3. changes' \in 0 .. MaxChanges
        BY <1>7, PollerAssumption DEF Edit, Change, PollerTypeOK
    <2>. QED
        BY <1>7, <2>2, <2>3
           DEF Edit, goroutine, PollerTypeOK, CacheCoherent, CacheOwn, ListedOwn,
               InHand, InfosCurrent, RegisteredModelsOwn
<1>8. ASSUME NEW a \in AuthIds, RemoveRecord(a)
      PROVE  PollerInv'
    <2>1. changes' \in 0 .. MaxChanges
        BY <1>8, PollerAssumption DEF RemoveRecord, Change, PollerTypeOK
    <2>2. RecordsOwn' /\ RegisteredModelsOwn'
        BY <1>8 DEF RemoveRecord, PollerTypeOK, RecordsOwn, RegisteredModelsOwn
    <2>. QED
        BY <1>8, <2>1, <2>2
           DEF RemoveRecord, goroutine, PollerTypeOK, Models, CacheCoherent, CacheOwn,
               ListedOwn, InHand, InfosCurrent
<1>9. ASSUME NEW a \in AuthIds, Reload(a)
      PROVE  PollerInv'
    <2>1. changes' \in 0 .. MaxChanges
        BY <1>9, PollerAssumption DEF Reload, Change, PollerTypeOK
    <2>2. RegisteredModelsOwn'
        BY <1>9 DEF Reload, PollerTypeOK, RegisteredModelsOwn
    <2>. QED
        BY <1>9, <2>1, <2>2
           DEF Reload, goroutine, PollerTypeOK, Models, CacheCoherent, CacheOwn,
               RecordsOwn, ListedOwn, InHand, InfosCurrent
<1>10. CASE UNCHANGED pollerVars
    BY <1>10
       DEF pollerVars, service, goroutine, PollerTypeOK, CacheCoherent, CacheOwn,
           RecordsOwn, ListedOwn, InHand, InfosCurrent, RegisteredModelsOwn
<1>. QED
    BY <1>1, <1>2, <1>3, <1>4, <1>5, <1>6, <1>7, <1>8, <1>9, <1>10
       DEF PollerNext, PollerStep

-----------------------------------------------------------------------------
LEMMA PollerInvariant == PollerSpec => []PollerInv
<1>. QED
    BY PollerStarts, PollerStays, PTL DEF PollerSpec

\* However the service edits, removes and reloads records between the steps of
\* the goroutine, and whatever fetch fails, a record is offered with the models
\* of its own account, with the static ones, or with none.
THEOREM OwnModelsOffered == PollerSpec => []RegisteredModelsOwn
BY PollerInvariant, PTL DEF PollerInv

\* The models the goroutine is about to register were fetched with the very
\* token of the record in hand, although they may have come from its cache:
\* the cache never answers for another token.
THEOREM CacheNeverStale == PollerSpec => [](CacheCoherent /\ InfosCurrent)
BY PollerInvariant, PTL DEF PollerInv

-----------------------------------------------------------------------------
\* The whole program: a step of it is a step of one part, or of none.
LEMMA ProgramParts ==
    /\ StandaloneInit => Init /\ PollerInit
    /\ [StandaloneNext]_standaloneVars => [Next]_vars /\ [PollerNext]_pollerVars
  BY DEF StandaloneInit, StandaloneNext, RequestStep, RegistryStep, OfRequest, OfRegistry,
         standaloneVars

LEMMA ProgramInvariance == StandaloneSpec => [](SdkInv /\ StreamInv /\ PollerInv)
  BY ProgramParts, SdkInit, SdkNext, StreamFirst, StreamNext, PollerStarts, PollerStays, PTL
  DEF StandaloneSpec

\* While the program serves requests and keeps its registrations, no response body
\* is left open, a whole stream says what a completion would have said, and no
\* record is offered with the models of another account.
THEOREM ProgramSafe ==
    StandaloneSpec => [](NoBodyLeak /\ (StartsNamed => StreamMatchesCompletion)
                           /\ RegisteredModelsOwn)
  <1>1. SdkInv => NoBodyLeak
    BY ClosesBodies
  <1>2. PollerInv => RegisteredModelsOwn
    BY DEF PollerInv
  <1> QED
    BY <1>1, <1>2, StreamMatches, ProgramInvariance, PTL

\* The client of the whole program is given what ChatStream promises.
THEOREM ProgramKeepsPromise == StandaloneSpec => ImplementsChatStream
  BY ProgramParts, ClientInit, SdkImplements, ProgramInvariance, PTL
  DEF StandaloneSpec, ImplementsChatStream, Client!Spec
=============================================================================
