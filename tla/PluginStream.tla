---------------------------- MODULE PluginStream ----------------------------
(***************************************************************************)
(* A chat request in the plugin, which answers it in one of three ways:    *)
(*   "live"      startAsyncExecutionStream of plugin/runtime.go runs        *)
(*               executeStreamTo of plugin/execute.go in a goroutine, which *)
(*               emits chunks into a stream of the host and closes it;      *)
(*   "buffered"  for a host without streams, executeStream gathers the      *)
(*               chunks of executeStreamTo and returns them all, or an error*)
(*   "complete"  executeNonStream returns one completion, or an error.      *)
(* Each retries once after a rejection that blames the tool configuration. *)
(* The client behind the host may disconnect at any time.                  *)
(***************************************************************************)
EXTENDS StreamAttempt, FiniteSets

VARIABLES
    mode,          \* how the request is answered
    bodies,        \* attempts whose upstream response body is open
    toolContext,   \* hasToolCompatibilityContext of the request
    connected      \* the client is still there

request == <<mode, bodies, toolContext, connected>>
vars == <<step, attempt, attemptVars, err, out, request>>

Init ==
    /\ step = "prepare"
    /\ attempt = 1
    /\ NoAttempt
    /\ err = "none"
    /\ out = <<>>
    /\ mode \in {"live", "buffered", "complete"}
    /\ bodies = {}
    /\ toolContext \in BOOLEAN
    /\ connected = TRUE

-----------------------------------------------------------------------------
\* The images of the request are checked and loaded before the first attempt.
Prepare ==
    /\ step = "prepare"
    /\ step' = "token"
    /\ UNCHANGED <<attempt, attemptVars, err, out, request>>

PrepareFails ==
    /\ step = "prepare"
    /\ step' = "close"
    /\ err' = "other"
    /\ UNCHANGED <<attempt, attemptVars, out, request>>

\* openUpstream: getValidJWT has no fresh JWT at hand, and another request is
\* refreshing that of the account; this one waits in refreshGroup.Do.
JoinRefresh ==
    /\ step = "token"
    /\ step' = "wait"
    /\ UNCHANGED <<attempt, attemptVars, err, out, request>>

\* The JWT is cached, or answered to the GetUserJwt of this request or of the one
\* it waited for.
GetToken ==
    /\ step \in {"token", "wait"}
    /\ step' = "open"
    /\ UNCHANGED <<attempt, attemptVars, err, out, request>>

\* GetChatMessage is sent with the JWT.
Open ==
    /\ step = "open"
    /\ step' = "read"
    /\ FreshAttempt
    /\ bodies' = bodies \cup {attempt}
    /\ UNCHANGED <<attempt, err, out, mode, toolContext, connected>>

\* No JWT, no connection, or a status other than 200, whose text may be the
\* rejection of the tool configuration.
OpenFails ==
    /\ step \in {"token", "wait", "open"}
    /\ step' = "ended"
    /\ FreshAttempt
    /\ err' \in {"mcp", "other"}
    /\ UNCHANGED <<attempt, out, request>>

\* The host takes the chunk, or the buffer does.
Emit ==
    /\ connected \/ mode = "buffered"
    /\ EmitChunk
    /\ UNCHANGED request

EmitIsRefused ==
    /\ mode = "live"
    /\ EmitFails
    /\ UNCHANGED request

Skip ==
    /\ SkipChunk
    /\ UNCHANGED request

ReadOutcome ==
    /\ \/ mode # "complete" /\ (ReadFrame \/ ReadEof)
       \/ mode = "complete" /\ (DrainFrame \/ DrainEof)
       \/ ReadFails
    /\ UNCHANGED request

RetriesAfterOutput == attempt = 1 /\ err = "mcp" /\ toolContext

\* The condition of executeStreamTo and executeNonStream for the second,
\* conservative attempt; nothing is emitted when the answer is a completion.
Retries == attempt = 1 /\ ~emitted /\ err = "mcp" /\ toolContext

\* The attempt returns: its response body is closed, and the request is tried
\* once more or ends.
ReturnWithoutClose ==
    /\ step = "ended"
    /\ bodies' = IF err = "none" THEN bodies \ {attempt} ELSE bodies
    /\ \/ /\ Retries
          /\ step' = "token"
          /\ attempt' = attempt + 1
          /\ err' = "none"
       \/ /\ ~Retries
          /\ step' = "close"
          /\ UNCHANGED <<attempt, err>>
    /\ UNCHANGED <<attemptVars, out, mode, toolContext, connected>>

AttemptReturns ==
    /\ step = "ended"
    /\ bodies' = bodies \ {attempt}
    /\ \/ /\ Retries
          /\ step' = "token"
          /\ attempt' = attempt + 1
          /\ err' = "none"
       \/ /\ ~Retries
          /\ step' = "close"
          /\ UNCHANGED <<attempt, err>>
    /\ UNCHANGED <<attemptVars, out, mode, toolContext, connected>>

CloseWhileConnected ==
    /\ step = "close"
    /\ connected
    /\ step' = "closed"
    /\ UNCHANGED <<attempt, attemptVars, err, out, request>>

\* host.stream.close, with the error of the request if there is one; or the
\* chunks, the completion or the error are returned.
CloseStream ==
    /\ step = "close"
    /\ step' = "closed"
    /\ UNCHANGED <<attempt, attemptVars, err, out, request>>

\* The client goes away; the host refuses emissions from then on and cancels
\* the calls made for the request.
Disconnect ==
    /\ connected /\ step # "closed"
    /\ connected' = FALSE
    /\ UNCHANGED <<step, attempt, attemptVars, err, out, mode, bodies, toolContext>>

\* A call made for this request fails.  The GetUserJwt that a waiting request needs
\* was made for another, with the host_callback_id of that one.
HostCallFails ==
    \/ step # "wait" /\ OpenFails
    \/ ReadFails /\ UNCHANGED request

GoroutineStep ==
    \/ Emit
    \/ EmitIsRefused
    \/ Skip
    \/ AttemptReturns
    \/ CloseStream

Next ==
    \/ GoroutineStep
    \/ Prepare
    \/ PrepareFails
    \/ JoinRefresh
    \/ GetToken
    \/ Open
    \/ OpenFails
    \/ ReadOutcome
    \/ Disconnect

\* The goroutine runs; loading images ends, because each fetch has its own 15
\* seconds and does not go through the host; and a call of the host made for a
\* client that has gone is cancelled ("prompt cancellation when the downstream
\* client disconnects", comment of startAsyncExecutionStream).  Nothing makes an
\* upstream answer, nor ends the refresh of another request.
Spec ==
    /\ Init /\ [][Next]_vars
    /\ WF_vars(GoroutineStep)
    /\ WF_vars(Prepare \/ PrepareFails)
    /\ WF_vars(~connected /\ HostCallFails)

-----------------------------------------------------------------------------
\* The client never sees output of two attempts, and the host's stream is closed
\* without an error exactly when the client was given the whole answer; chunks
\* that were gathered are given all together, and not with an error.
Given ==
    IF step # "closed" THEN "open"
    ELSE IF err # "none" THEN "failed"
    ELSE IF mode = "complete" THEN "answered" ELSE "complete"
Seen == IF mode = "buffered" /\ Given # "complete" THEN <<>> ELSE out
Client == INSTANCE ChatStream WITH chunks <- Seen, status <- Given
ImplementsChatStream == Client!Spec

\* Upstream responses are not leaked: one body is open at a time, and none is
\* when the host's stream is closed.
NoBodyLeak ==
    /\ Cardinality(bodies) <= 1
    /\ step \in {"token", "wait", "open", "close", "closed"} => bodies = {}

\* Once the client has gone, the stream of the host is closed, if the refreshes
\* this request waits for end.  The hypothesis is needed: nothing of this request
\* is cancelled while it waits for the GetUserJwt of another.
SharedRefreshesEnd == step = "wait" ~> step # "wait"
DisconnectCloses == SharedRefreshesEnd => (~connected ~> step = "closed")
=============================================================================
