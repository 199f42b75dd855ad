---------------------------- MODULE SendRequest ----------------------------
(***************************************************************************)
(* A chat request up to the message that is sent: what PrepareRequest does *)
(* with its images, names, model and conversation, and with it what becomes*)
(* of the parameters of its tools.                                         *)
(***************************************************************************)
EXTENDS PrepareRequest, ToolSchemas

CONSTANT
    Kinds    \* sets of requests, each with the parameters of the tools, the
             \* modes of the attempt and the conversations they are sent with

ASSUME KindsAssumption ==
    \A k \in Kinds :
        /\ k.requests \subseteq Requests /\ k.parameters \subseteq Schemas
        /\ k.modes \subseteq {"normal", "fallback"}
        /\ k.conversations \subseteq Conversations /\ k.limits \subseteq BOOLEAN

sendVars == <<prepareVars, schemaVars>>

SendInit ==
    /\ \E k \in Kinds :
           /\ \E r \in k.requests : Asks(r)
           /\ parameters \in k.parameters /\ mode \in k.modes
           /\ conversation \in k.conversations /\ limited \in k.limits
    /\ Begins
    /\ sentParameters = NotMade

\* A tool that is taken is given its parameters as well.
SendTools ==
    /\ PrepareTools
    /\ \/ /\ Len(tools') > Len(tools)
          /\ MakeParameters
       \/ /\ Len(tools') <= Len(tools)
          /\ UNCHANGED schemaVars

SendImages == PrepareImages /\ UNCHANGED schemaVars

SendChat == PrepareChat /\ UNCHANGED schemaVars

Send == SendImages \/ SendTools \/ SendChat

SendRefresh == RefreshCatalog /\ UNCHANGED schemaVars

SendNext == Send \/ SendRefresh

\* As in PrepareRequest: every step of Send is one of Prepare.
SendSpec == SendInit /\ [][SendNext]_sendVars /\ WF_sendVars(Send)
=============================================================================
