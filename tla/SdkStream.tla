------------------------------ MODULE SdkStream ------------------------------
(***************************************************************************)
(* A chat request in the standalone program.  ExecuteStream of executor.go *)
(* opens the first upstream response before it returns, so that a request  *)
(* refused there never becomes a stream; a goroutine then sends chunks on a*)
(* channel without buffer, sends the error that ended the stream if there  *)
(* was one, and closes the channel.  Every send gives up when the context  *)
(* of the request is done.  Execute drains the response and returns one    *)
(* completion, or an error.  Both retry once after a rejection that blames *)
(* the tool configuration.                                                 *)
(***************************************************************************)
EXTENDS StreamAttempt, FiniteSets

VARIABLES
    streamed,    \* ExecuteStream, not Execute
    bodies,      \* attempts whose upstream response body is open
    named,       \* originalNameByCompatibleName is not empty
    ctxDone,     \* ctx.Done() of the request is closed
    failed       \* the error the server was given, "none" if none

request == <<streamed, bodies, named, ctxDone, failed>>
vars == <<step, attempt, attemptVars, err, out, request>>

\* The goroutine stands at "prepare", "open", "read", a step of an emission,
\* "ended", "report", "close" or "closed"; the error of a request is returned
\* instead of a stream or a completion at "refused".
Init ==
    /\ step = "prepare"
    /\ attempt = 1
    /\ NoAttempt
    /\ err = "none"
    /\ out = <<>>
    /\ streamed \in BOOLEAN
    /\ bodies = {}
    /\ named \in BOOLEAN
    /\ ctxDone = FALSE
    /\ failed = "none"

-----------------------------------------------------------------------------
\* Prepared once, before the first attempt: the images or the payload are refused.
PrepareFails ==
    /\ step = "prepare"
    /\ step' = "refused"
    /\ failed' = "other"
    /\ UNCHANGED <<attempt, attemptVars, err, out, streamed, bodies, named, ctxDone>>

Prepare ==
    /\ step = "prepare"
    /\ step' = "open"
    /\ UNCHANGED <<attempt, attemptVars, err, out, request>>

\* upstream: a JWT is found or minted and GetChatMessage is sent.
Open ==
    /\ step = "open"
    /\ step' = "read"
    /\ FreshAttempt
    /\ bodies' = bodies \cup {attempt}
    /\ UNCHANGED <<attempt, err, out, streamed, named, ctxDone, failed>>

\* No JWT, no connection, an unknown tool_choice, or a status other than 200,
\* whose text may be the rejection of the tool configuration.  The error is
\* returned, but for the second time of a stream: the goroutine sends it.
OpenFails ==
    /\ step = "open"
    /\ FreshAttempt
    /\ \E e \in {"mcp", "other"} :
           \/ /\ attempt = 1 \/ ~streamed
              /\ step' = "refused"
              /\ failed' = e
              /\ UNCHANGED err
           \/ /\ attempt = 2 /\ streamed
              /\ step' = "report"
              /\ err' = e
              /\ UNCHANGED failed
    /\ UNCHANGED <<attempt, out, streamed, bodies, named, ctxDone>>

-----------------------------------------------------------------------------
\* send: the server takes the chunk.  When the context is done as well, select
\* may still choose this, if the server still takes chunks.
Send ==
    /\ EmitChunk
    /\ UNCHANGED request

\* send without its select.
SendKeepsWaiting == FALSE

\* send: the context is done.  The forwarding ends with context.Canceled.
SendGivesUp ==
    /\ ctxDone
    /\ EmitFails
    /\ UNCHANGED request

Skip ==
    /\ SkipChunk
    /\ UNCHANGED request

\* The upstream answers; a read under a context that is done fails as well.
ReadOutcome ==
    /\ \/ streamed /\ (ReadFrame \/ ReadEof)
       \/ ~streamed /\ (DrainFrame \/ DrainEof)
       \/ ReadFails
    /\ UNCHANGED request

Retries == attempt = 1 /\ ~emitted /\ named /\ err = "mcp"

\* Where an attempt that is the last one leads.
StepAfter ==
    IF err = "none" THEN "close" ELSE IF streamed THEN "report" ELSE "refused"

\* forwardSDKStreamResponse or drainNonStreamResponse returned; the body is
\* closed.
ReturnWithoutClose ==
    /\ step = "ended"
    /\ step' = IF Retries THEN "open" ELSE StepAfter
    /\ attempt' = IF Retries THEN attempt + 1 ELSE attempt
    /\ err' = IF Retries THEN "none" ELSE err
    /\ failed' = IF StepAfter = "refused" /\ ~Retries THEN err ELSE failed
    /\ UNCHANGED <<attemptVars, out, streamed, bodies, named, ctxDone>>

AttemptReturns ==
    /\ step = "ended"
    /\ bodies' = bodies \ {attempt}
    /\ \/ /\ Retries
          /\ step' = "open"
          /\ attempt' = attempt + 1
          /\ err' = "none"
          /\ UNCHANGED failed
       \/ /\ ~Retries
          /\ step' = StepAfter
          /\ failed' = IF StepAfter = "refused" THEN err ELSE failed
          /\ UNCHANGED <<attempt, err>>
    /\ UNCHANGED <<attemptVars, out, streamed, named, ctxDone>>

\* The chunk that carries the error is sent like any other.
Report ==
    /\ step = "report"
    /\ step' = "close"
    /\ failed' = err
    /\ UNCHANGED <<attempt, attemptVars, err, out, streamed, bodies, named, ctxDone>>

ReportGivesUp ==
    /\ step = "report"
    /\ ctxDone
    /\ step' = "close"
    /\ UNCHANGED <<attempt, attemptVars, err, out, request>>

\* The deferred close of the channel, or the completion is returned.
CloseChannel ==
    /\ step = "close"
    /\ step' = "closed"
    /\ UNCHANGED <<attempt, attemptVars, err, out, request>>

\* The client disconnects: the server cancels the context of the request.
Disconnect ==
    /\ ~ctxDone
    /\ step \notin {"closed", "refused"}
    /\ ctxDone' = TRUE
    /\ UNCHANGED <<step, attempt, attemptVars, err, out, streamed, bodies, named, failed>>

-----------------------------------------------------------------------------
\* Steps of the goroutine alone, and steps that need the server to take a chunk.
OwnStep ==
    \/ SendGivesUp
    \/ Skip
    \/ AttemptReturns
    \/ ReportGivesUp
    \/ CloseChannel

TakenStep == Send \/ Report

\* Calls made with the context of the request: they end when it is done.
CallFails ==
    \/ PrepareFails
    \/ OpenFails
    \/ ReadFails /\ UNCHANGED request

Next ==
    \/ OwnStep
    \/ TakenStep
    \/ Prepare
    \/ PrepareFails
    \/ Open
    \/ OpenFails
    \/ ReadOutcome
    \/ Disconnect

\* The goroutine runs; the server takes chunks as long as the client is there;
\* net/http ends a call whose context is done.  Nothing makes an upstream
\* answer.
Spec ==
    /\ Init /\ [][Next]_vars
    /\ WF_vars(OwnStep)
    /\ WF_vars(~ctxDone /\ TakenStep)
    /\ WF_vars(ctxDone /\ CallFails)

-----------------------------------------------------------------------------
Given ==
    IF step \notin {"closed", "refused"} THEN "open"
    ELSE IF failed # "none" THEN "failed"
    ELSE IF ~streamed THEN "answered"
    ELSE IF out # <<>> /\ Last(out).finish = "[DONE]" THEN "complete"
    ELSE IF ctxDone THEN "abandoned"
    ELSE "lost"

\* A stream that was begun is that of one completion, whole, or ends with the
\* error that cut it; only a client that has gone gets neither.
Client == INSTANCE ChatStream WITH chunks <- out, status <- Given
ImplementsChatStream == Client!Spec

\* "No goroutine/connection leaks" (README.md): no response body is open when
\* the channel is closed or the request was refused, nor two at once.
NoBodyLeak ==
    /\ Cardinality(bodies) <= 1
    /\ step \in {"open", "report", "close", "closed", "refused"} => bodies = {}

\* "Streaming sends select on the request context and abort on client
\* disconnect" (README.md): the goroutine ends once the client has gone.
DisconnectCloses == ctxDone ~> step \in {"closed", "refused"}

\* "An MCP configuration rejection before any output triggers one conservative
\* retry" (README.md): with tools in the request, the client is not given such
\* an error of a first attempt without output.
RejectionRetried == named /\ failed = "mcp" => attempt = 2 \/ emitted
=============================================================================
