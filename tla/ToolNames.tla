------------------------------ MODULE ToolNames ------------------------------
(***************************************************************************)
(* The names of functions between a client and the upstream: prepareTool-  *)
(* CompatibleRequest of tool_compat.go (the same file in the plugin) gives *)
(* every function defined in a request or called in its history a name the *)
(* upstream accepts, applies tool_choice, and keeps the reverse map with   *)
(* which restoreName turns the names of an answer back.                    *)
(*                                                                         *)
(* How a name is cleaned, hashed and numbered is abstracted to functions   *)
(* that may collide in every way; NoName is a name that is missing, or the *)
(* name of a tool which is not a function.                                 *)
(***************************************************************************)
EXTENDS Naturals, Sequences, SequencesExt

CONSTANTS
    Names,         \* names given by the client, trimmed
    Compatible,    \* identifiers the upstream accepts, at most 64 long
    Short,          \* names that are at most 64 long once cleaned
    Clean,         \* refused characters replaced, underscores trimmed
    Hashed,        \* the cleaned name cut, with a hash of the name
    Indices,       \* collisionIndex: 2, 3, ...
    Numbered,      \* the hashed name cut, with an index
    Definitions,   \* possible values of the tools of a request
    Histories      \* possible values of the calls in its messages

NoName == ""
NoChoice == ""    \* no ResolvedToolChoice

GivenNames == Names \cup {NoName}
MadeNames == Compatible \cup {NoName}

ASSUME NamesAssumption ==
    /\ NoName \notin Names
    /\ NoName \notin Compatible

ASSUME ManglingAssumption ==
    /\ Short \subseteq Names
    /\ Clean \in [Short -> Compatible]
    /\ Hashed \in [Names -> Compatible]
    /\ Indices \subseteq Nat
    /\ Numbered \in [Names -> [Indices -> Compatible]]

ASSUME RequestsAssumption ==
    /\ Definitions \subseteq Seq(GivenNames)
    /\ Histories \subseteq Seq(GivenNames)

VARIABLES
    defs,         \* originalRequest.Tools, by name
    history,      \* the names of the calls in originalRequest.Messages
    choice,       \* parseToolChoice: mode and selected name
    step,         \* "defs", "calls", "choice" or "ready"
    at,           \* tools or calls looked at in this step
    nameOf,       \* compatibleNameByOriginalName
    originalOf,   \* originalNameByCompatibleName
    tools,        \* compatibleRequest.Tools, by name
    calls,        \* the names of the calls in compatibleRequest.Messages
    resolved      \* ResolvedToolChoice, or "error" for a ToolCompatibilityError

vars == <<defs, history, choice, step, at, nameOf, originalOf, tools, calls, resolved>>
request == <<defs, history, choice>>

ToolChoices == [mode : {"auto", "none", "required"}, selected : {NoName}]
               \cup [mode : {"function"}, selected : Names]

TypeOK ==
    /\ defs \in Definitions /\ history \in Histories /\ choice \in ToolChoices
    /\ step \in {"defs", "calls", "choice", "ready"}
    /\ at \in Nat
    /\ nameOf \in [Names -> MadeNames]
    /\ originalOf \in [Compatible -> GivenNames]
    /\ tools \in Seq(Compatible) /\ calls \in Seq(MadeNames)
    /\ resolved \in {NoChoice, "auto", "required", "error"}

Init ==
    /\ defs \in Definitions /\ history \in Histories /\ choice \in ToolChoices
    /\ step = "defs" /\ at = 0
    /\ nameOf = [n \in Names |-> NoName]
    /\ originalOf = [c \in Compatible |-> NoName]
    /\ tools = <<>> /\ calls = <<>>
    /\ resolved = NoChoice

-----------------------------------------------------------------------------
Used(c) == originalOf[c] # NoName

\* makeCompatibleToolName: the cleaned name, else the hashed one, else the
\* hashed one with the first index that makes it new.
CleanFits(n) == n \in Short
CleanFree(n) == n \in Short /\ ~Used(Clean[n])

OnlyOneIndex(n, c) ==
    \E k \in Indices :
        /\ c = Numbered[n][k] /\ ~Used(c)
        /\ \A j \in Indices : k <= j

FirstFree(n, c) ==
    \E k \in Indices :
        /\ c = Numbered[n][k] /\ ~Used(c)
        /\ \A j \in Indices : j < k => Used(Numbered[n][j])

Makes(n, c) ==
    \/ CleanFree(n) /\ c = Clean[n]
    \/ ~CleanFree(n) /\ ~Used(Hashed[n]) /\ c = Hashed[n]
    \/ ~CleanFree(n) /\ Used(Hashed[n]) /\ FirstFree(n, c)

RegistersAgain(n, c) ==
    /\ Makes(n, c)
    /\ nameOf' = [nameOf EXCEPT ![n] = c]
    /\ originalOf' = [originalOf EXCEPT ![c] = n]

\* registerCompatibleName: a name is made once.
Register(n, c) ==
    \/ /\ nameOf[n] # NoName /\ c = nameOf[n]
       /\ UNCHANGED <<nameOf, originalOf>>
    \/ /\ nameOf[n] = NoName /\ Makes(n, c)
       /\ nameOf' = [nameOf EXCEPT ![n] = c]
       /\ originalOf' = [originalOf EXCEPT ![c] = n]

\* A tool that is no function, has no name or was defined before.
LeavesNamelessOut(n) == n = NoName
LeftOut(n) == n = NoName \/ (n \in Names /\ nameOf[n] # NoName)

TakeTool ==
    /\ step = "defs" /\ at < Len(defs)
    /\ at' = at + 1
    /\ LET n == defs[at + 1]
       IN  \/ /\ LeftOut(n)
              /\ UNCHANGED <<nameOf, originalOf, tools>>
           \/ /\ ~LeftOut(n)
              /\ \E c \in Compatible : Register(n, c) /\ tools' = Append(tools, c)
    /\ UNCHANGED <<request, step, calls, resolved>>

TakeCall ==
    /\ step = "calls" /\ at < Len(history)
    /\ at' = at + 1
    /\ LET n == history[at + 1]
       IN  \/ /\ n = NoName
              /\ calls' = Append(calls, NoName)
              /\ UNCHANGED <<nameOf, originalOf>>
           \/ /\ n # NoName
              /\ \E c \in Compatible : Register(n, c) /\ calls' = Append(calls, c)
    /\ UNCHANGED <<request, step, tools, resolved>>

NextLoop ==
    /\ \/ step = "defs" /\ at = Len(defs) /\ step' = "calls"
       \/ step = "calls" /\ at = Len(history) /\ step' = "choice"
    /\ at' = 0
    /\ UNCHANGED <<request, nameOf, originalOf, tools, calls, resolved>>

SelectsAmongAll(c) ==
    /\ resolved' = IF c = NoName THEN "error" ELSE "required"
    /\ UNCHANGED tools

\* The selected function has no name, is among the tools, or is known from the
\* history alone: then the tools are sent as they are.
SelectFunction(c) ==
    \/ /\ c = NoName
       /\ tools' = <<>> /\ resolved' = "error"
    \/ /\ c # NoName /\ Contains(tools, c)
       /\ tools' = <<c>> /\ resolved' = "required"
    \/ /\ c # NoName /\ ~Contains(tools, c)
       /\ resolved' = "required" /\ UNCHANGED tools

ApplyChoice ==
    /\ step = "choice"
    /\ step' = "ready"
    /\ \/ /\ choice.mode = "none"
          /\ tools' = <<>> /\ resolved' = NoChoice
       \/ /\ choice.mode \in {"auto", "required"}
          /\ resolved' = IF tools = <<>> THEN NoChoice ELSE choice.mode
          /\ UNCHANGED tools
       \/ /\ choice.mode = "function"
          /\ SelectFunction(nameOf[choice.selected])
    /\ UNCHANGED <<request, at, nameOf, originalOf, calls>>

Next == TakeTool \/ TakeCall \/ NextLoop \/ ApplyChoice

Spec == Init /\ [][Next]_vars /\ WF_vars(Next)

-----------------------------------------------------------------------------
\* toolCompatibility.restoreName.
Restore(c) == IF Used(c) THEN originalOf[c] ELSE c

\* However names collide, a name that was given to the upstream is turned back
\* into the one it was made from, "so sanitized names never leak back to the
\* client" (comment of prepareToolCompatibleRequest), and no two functions
\* share one.
RoundTrip ==
    /\ \A n \in Names : nameOf[n] # NoName => Restore(nameOf[n]) = n
    /\ \A n, m \in Names : nameOf[n] # NoName /\ nameOf[n] = nameOf[m] => n = m

\* A name once made is not changed by what comes later in the request: the
\* calls of the history keep the names of the tools they were made with.
NamesStable ==
    [][\A n \in Names : nameOf[n] # NoName => nameOf'[n] = nameOf[n]]_vars

\* The upstream never sees one name twice among the tools.
ToolsDistinct == \A i, j \in 1 .. Len(tools) : tools[i] = tools[j] => i = j

\* What is sent is what the client sent: restored, the calls are those of the
\* history, and the tools are functions it defined; all of them, unless its
\* tool_choice says otherwise, and the selected one alone if it selects one it
\* defined.
SentIsRequested ==
    step = "ready" =>
        /\ Len(calls) = Len(history)
        /\ \A i \in 1 .. Len(calls) :
               IF history[i] = NoName THEN calls[i] = NoName ELSE Restore(calls[i]) = history[i]
        /\ LET sent == {Restore(tools[i]) : i \in 1 .. Len(tools)}
               defined == ToSet(defs) \ {NoName}
           IN  CASE choice.mode \in {"auto", "required"} -> sent = defined
                 [] choice.mode = "none" -> sent = {}
                 [] choice.mode = "function" ->
                        IF choice.selected \in defined THEN sent = {choice.selected}
                        ELSE sent \in {{}, defined}
=============================================================================
