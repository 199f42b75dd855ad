--------------------------- MODULE PrepareRequest ---------------------------
(***************************************************************************)
(* What happens to a chat request before it is sent: its images are        *)
(* prepared (prepareExecutorOpenAIRequest of executor.go), once, its tools *)
(* are made compatible (prepareToolCompatibleRequest, called by upstream)  *)
(* for each attempt in the same way as far as names go, and its messages   *)
(* and its model are encoded (buildChatRequest).  Whether the model takes  *)
(* images is looked up before, in tables a refresh may have replaced when  *)
(* the wire id is resolved.  The messages of a request are seen by the     *)
(* parts in three ways: as the images in them, as the names of the calls in*)
(* them, and as a conversation.                                            *)
(***************************************************************************)
EXTENDS ChatEncode, ImageBudget, CatalogBuild

CONSTANT
    Requests    \* possible requests, with the answer their account gets

ASSUME RequestFormAssumption ==
    Requests \subseteq
        [messages : MessageLists, defs : Definitions, history : Histories,
         choice : ToolChoices, answer : Answers, model : STRING, effort : Efforts]

VARIABLE
    consulted   \* the tables that said whether the model takes images

prepareVars == <<vars, imageVars, catalogVars, chatVars, consulted>>

\* A request and the tables of its account.
Asks(r) ==
    /\ messages = r.messages /\ defs = r.defs
    /\ history = r.history /\ choice = r.choice
    /\ answer = r.answer /\ model = r.model /\ effort = r.effort
    /\ catalog \in Catalogues(r.answer) \cup {NoCatalog}

Begins ==
    /\ wire = Absent
    /\ consulted = catalog
    /\ support = LookupImageSupport(catalog, model, effort)
    /\ ImagesInit
    /\ Init
    /\ ChatInit

PrepareInit == (\E r \in Requests : Asks(r)) /\ Begins

PrepareImages ==
    /\ ImageStep
    /\ UNCHANGED <<vars, catalogVars, chatVars, consulted>>

PrepareTools ==
    /\ stage = "prepared"
    /\ Next
    /\ UNCHANGED <<imageVars, catalogVars, chatVars, consulted>>

\* buildChatRequest, whole.
PrepareChat ==
    /\ EncodeModel /\ BuildChat
    /\ UNCHANGED <<vars, imageVars, consulted>>

RefreshCatalog ==
    /\ Refetch
    /\ UNCHANGED <<vars, imageVars, chatVars, consulted>>

Prepare == PrepareImages \/ PrepareTools \/ PrepareChat

PrepareNext == Prepare \/ RefreshCatalog

\* The executor's goroutine runs, and a fetch of an image has a deadline.
PrepareSpec == PrepareInit /\ [][PrepareNext]_prepareVars /\ WF_prepareVars(Prepare)

-----------------------------------------------------------------------------
PrepareTypeOK == TypeOK /\ ImagesTypeOK

\* Every request is made ready or refused: the loop that numbers names ends.
Decided == <>(wire # Absent \/ resolved = "error" \/ stage = "refused")

\* What stands behind an id or a wire id a client may send.
StandsFor(e, x) ==
    \/ e.wire = x
    \/ Surfaced(answer, e) /\ IdOf(answer, e) = x
    \/ x \in DOMAIN Static \ ListedIds(answer) /\ e.wire = Static[x]

\* "When the live model catalogue identifies a selected model as text-only, the
\* provider rejects the image request" (README.md): no image goes to a variant
\* of the catalogue that takes none, by whatever id and effort it was asked for
\* and although a refresh may come in between, if what stands behind one id
\* agrees.
ImagesReachTakers ==
    LET ids == {e.wire : e \in Range(answer)} \cup ListedIds(answer) \cup DOMAIN Static
        agree == \A id \in ids : \A x, y \in Range(answer) :
                     StandsFor(x, id) /\ StandsFor(y, id) => x.images = y.images
        pictured == \E i \in 1 .. Len(messages) : HasImage(messages[i])
        offered == UNION {Range(TierTable(answer, id)) : id \in ListedIds(answer)}
    IN  wire # Absent /\ wire \in offered /\ consulted # NoCatalog /\ agree /\ pictured
            => \A e \in Range(answer) : e.wire = wire => e.images
=============================================================================
