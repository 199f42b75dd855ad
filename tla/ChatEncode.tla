----------------------------- MODULE ChatEncode -----------------------------
(***************************************************************************)
(* The conversation of a request as the upstream is given it: buildChat-   *)
(* Request, chatMessage and encodeToolCall of chat.go (the same file in the*)
(* plugin).  System messages become one prompt, every other message keeps  *)
(* its place, and the results of tools refer to calls by id.               *)
(*                                                                         *)
(* A message is reduced to its role, whether it has text, the ids of its   *)
(* calls and the id its result answers; NoId is an id that is missing.  The  *)
(* names of the calls, in the order of the conversation, are those of      *)
(* ToolNames.                                                              *)
(***************************************************************************)
EXTENDS ToolNames

CONSTANTS
    Synthesised,     \* "functions.<name>:<index>", for an index from 0
    Conversations    \* possible values of the messages of a request

\* oaiMessage
Speech == [role : STRING, text : BOOLEAN, calls : Seq(STRING), result : STRING]

ASSUME SynthesisedAssumption == \A c \in MadeNames : DOMAIN Synthesised[c] = Nat
ASSUME ConversationsAssumption == Conversations \subseteq Seq(Speech)

VARIABLES
    conversation,    \* compatibleRequest.Messages
    limited,         \* LimitParallelToolCalls
    chat             \* the encoded request, none before

chatVars == <<conversation, limited, chat>>

NotBuilt == [built |-> FALSE]
NoId == ""

\* The number of a call among all calls, which is its place in calls.
CallsBefore(c, m) == [j \in 1 .. m - 1 |-> Len(c[j].calls)]
CallNumber(c, m, i) == FoldLeft(LAMBDA n, k : n + k, i, CallsBefore(c, m))

CallCount(c) == CallNumber(c, Len(c) + 1, 0)

\* Before a request is encoded; its history has the calls of its conversation.
ChatInit ==
    /\ conversation \in Conversations /\ limited \in BOOLEAN
    /\ CallCount(conversation) = Len(history)
    /\ chat = NotBuilt

-----------------------------------------------------------------------------
IsSystem(message) == message.role \in {"system", "developer"}

\* A role that is not known is the user's.
UpstreamRole(role) == IF role \in {"assistant", "tool"} THEN role ELSE "user"

\* encodeToolCall
NativeId(id, name, index) == Synthesised[name][index]
CallId(id, name, index) == IF id = NoId THEN Synthesised[name][index] ELSE id

\* chatMessage: only an assistant's message has calls, only a tool's a result.
EncodedMessage(m) ==
    LET message == conversation[m]
        name(i) == calls[CallNumber(conversation, m, i)]
    IN  [role |-> UpstreamRole(message.role), text |-> message.text,
         result |-> IF message.role = "tool" THEN message.result ELSE NoId,
         calls |-> IF message.role # "assistant" THEN <<>>
                   ELSE [i \in 1 .. Len(message.calls) |->
                            [id |-> CallId(message.calls[i], name(i), i - 1),
                             name |-> name(i)]]]

\* Places of the messages that are sent as such, in order.
PlaceOf(m) == IF IsSystem(conversation[m]) THEN <<>> ELSE <<m>>
Spoken == FlattenSeq([m \in 1 .. Len(conversation) |-> PlaceOf(m)])

\* The texts of all system messages, or the configured prompt; and the sentence
\* that limits parallel calls.
Prompt ==
    [texts |-> {m \in 1 .. Len(conversation) :
                   IsSystem(conversation[m]) /\ conversation[m].text},
     limit |-> limited /\ tools # <<>>]

\* buildChatRequest, but for the wire id of the model.
BuildChat ==
    /\ step = "ready" /\ resolved # "error" /\ chat = NotBuilt
    /\ chat' = [prompt |-> Prompt,
                messages |-> [k \in 1 .. Len(Spoken) |-> EncodedMessage(Spoken[k])],
                tools |-> tools,
                choice |-> IF tools = <<>> THEN NoChoice ELSE resolved]
    /\ UNCHANGED <<conversation, limited>>

-----------------------------------------------------------------------------
\* The calls of some messages, and those before a place that have an id.
CallsOf(messages) ==
    {c \in (1 .. Len(messages)) \X (1 .. Len(history)) :
        messages[c[1]].role = "assistant" /\ c[2] <= Len(messages[c[1]].calls)}
Asked(id, end) ==
    {c \in CallsOf(conversation) : c[1] < end /\ conversation[c[1]].calls[c[2]] = id}
Reached(k) ==
    {c \in CallsOf(chat.messages) :
        chat.messages[c[1]].calls[c[2]].id = chat.messages[k].result}
MadeUp == {Synthesised[n][i] : n \in ToSet(calls), i \in 0 .. Len(history)}

\* The message at place m answers one call of the client's, which stands before it.
AnswersOne(m) ==
    LET id == conversation[m].result
    IN  /\ conversation[m].role = "tool" /\ id \notin MadeUp \cup {NoId}
        /\ Asked(id, m) # {} /\ Asked(id, m) = Asked(id, Len(conversation) + 1)
        /\ \A c, d \in Asked(id, m) : c = d

SentFor(given, sent) == IF given = NoName THEN sent = NoName ELSE Restore(sent) = given

\* "Codeium correlates tool results to calls by exact string match on this id"
\* (comment of encodeToolCall): a result that answers a call of the client's
\* conversation answers, for the upstream, the call of that function and no
\* other, and stands behind it.  Left aside: an id that two calls have, given
\* by the client or made up for a call without one.
ResultsReachCalls ==
    chat # NotBuilt =>
        \A k \in 1 .. Len(Spoken) :
            AnswersOne(Spoken[k]) =>
                \E c \in Asked(conversation[Spoken[k]].result, Spoken[k]), d \in Reached(k) :
                    /\ Reached(k) = {d} /\ d[1] < k
                    /\ SentFor(history[CallNumber(conversation, c[1], c[2])],
                               chat.messages[d[1]].calls[d[2]].name)
=============================================================================
