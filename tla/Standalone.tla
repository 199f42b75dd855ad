----------------------------- MODULE Standalone -----------------------------
(***************************************************************************)
(* The standalone program: requests that its executor serves, and the      *)
(* goroutine that keeps models and executor registered.  They share tables *)
(* that are in JwtCache and ModelCatalog and no state of these two         *)
(* modules, so that a behaviour follows one of them: a request, or the     *)
(* registrations.                                                          *)
(***************************************************************************)
EXTENDS SdkStream, CatalogPoller

VARIABLE follows    \* "request" or "registry"

standaloneVars == <<vars, pollerVars, follows>>

StandaloneInit ==
    /\ Init
    /\ PollerInit
    /\ \/ follows = "request" /\ \A a \in AuthIds : records[a] = Absent
       \/ follows = "registry" /\ ~(named \/ streamed)

OfRequest(A) == follows = "request" /\ A /\ UNCHANGED <<pollerVars, follows>>
OfRegistry(A) == follows = "registry" /\ A /\ UNCHANGED <<vars, follows>>

RequestStep == OfRequest(Next)
RegistryStep == OfRegistry(PollerNext)

StandaloneNext == RequestStep \/ RegistryStep

\* The fairness of both modules.
StandaloneSpec ==
    /\ StandaloneInit /\ [][StandaloneNext]_standaloneVars
    /\ WF_standaloneVars(OfRequest(OwnStep))
    /\ WF_standaloneVars(OfRequest(~ctxDone /\ TakenStep))
    /\ WF_standaloneVars(OfRequest(ctxDone /\ CallFails))
    /\ WF_standaloneVars(OfRegistry(PollerStep))
=============================================================================
