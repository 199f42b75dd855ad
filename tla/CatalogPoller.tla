---------------------------- MODULE CatalogPoller ----------------------------
(***************************************************************************)
(* The goroutine that main.go starts once the server runs: every three     *)
(* seconds it takes the auth records of the server one by one, puts the    *)
(* Codeium executor back in its place, and registers for the record the    *)
(* models of its account, fetched once per token, or the static ones.      *)
(* Meanwhile records are edited, removed and reloaded; a reload clears the *)
(* models of a record and puts another executor in place (comments of      *)
(* main.go:102-106 and 113-114).                                           *)
(*                                                                         *)
(* A catalogue is reduced to the token it was fetched with.                *)
(***************************************************************************)
EXTENDS Naturals

CONSTANTS
    AuthIds,      \* ids of Codeium auth records
    TokensOf,     \* tokens that may be put in each record: those of its account
    Static,       \* the static models, staticInfos
    Absent,       \* no token, no record, no models
    MaxChanges    \* bound: edits, removals and reloads in a behaviour

AllTokens == UNION {TokensOf[a] : a \in AuthIds}

ASSUME PollerAssumption ==
    /\ {Static, Absent} \cap AllTokens = {}
    /\ Static # Absent
    /\ MaxChanges \in Nat

VARIABLES
    records,     \* the token of each record, Absent without a record
    registry,    \* models registered for each record
    executor,    \* whose executor serves the provider: "ours" or "theirs"
    fetched,     \* the goroutine's cache: a token and models for each record
    listed,      \* what is left of core.List() in this round
    current,     \* the record in hand, as it was when listed
    infos,       \* the models found for it
    stage,       \* where the goroutine is
    changes      \* edits, removals and reloads so far

service == <<records, registry, executor>>
goroutine == <<fetched, listed, current, infos, stage>>
pollerVars == <<service, goroutine, changes>>

Models == AllTokens \cup {Static, Absent}
Listed == [id : AuthIds, token : AllTokens]
Nobody == [id |-> Absent, token |-> Absent]

PollerTypeOK ==
    /\ records \in [AuthIds -> AllTokens \cup {Absent}]
    /\ registry \in [AuthIds -> Models]
    /\ executor \in {"ours", "theirs"}
    /\ fetched \in [AuthIds -> [token : AllTokens \cup {Absent}, models : Models]]
    /\ listed \subseteq Listed
    /\ current \in Listed \cup {Nobody}
    /\ infos \in Models
    /\ stage \in {"list", "take", "fetch", "register"}
    /\ changes \in 0 .. MaxChanges

-----------------------------------------------------------------------------
\* OnAfterStart: the server has loaded its records.
PollerInit ==
    /\ records \in [AuthIds -> AllTokens \cup {Absent}]
    /\ \A a \in AuthIds : records[a] \in TokensOf[a] \cup {Absent}
    /\ registry = [a \in AuthIds |-> Absent]
    /\ executor = "theirs"
    /\ fetched = [a \in AuthIds |-> [token |-> Absent, models |-> Absent]]
    /\ listed = {}
    /\ current = Nobody
    /\ infos = Absent
    /\ stage = "list"
    /\ changes = 0

\* core.List() hands out copies: what changes later is seen in the next round.
List ==
    /\ stage = "list"
    /\ listed' = {[id |-> a, token |-> records[a]] :
                     a \in {b \in AuthIds : records[b] # Absent}}
    /\ stage' = "take"
    /\ UNCHANGED <<service, fetched, current, infos, changes>>

KnownById(r) == fetched[r.id].token # Absent
Known(r) == fetched[r.id].token = r.token

\* The next record: the executor is restored, and models fetched before with
\* the same token are used again.
Take ==
    /\ stage = "take"
    /\ \E r \in listed :
           /\ listed' = listed \ {r}
           /\ current' = r
           /\ executor' = "ours"
           /\ \/ Known(r) /\ infos' = fetched[r.id].models /\ stage' = "register"
              \/ ~Known(r) /\ stage' = "fetch" /\ UNCHANGED infos
    /\ UNCHANGED <<records, registry, fetched, changes>>

Fetch ==
    /\ stage = "fetch"
    /\ infos' = current.token
    /\ fetched' = [fetched EXCEPT ![current.id] =
                      [token |-> current.token, models |-> infos']]
    /\ stage' = "register"
    /\ UNCHANGED <<service, listed, current, changes>>

FetchFailsKeeping ==
    /\ stage = "fetch"
    /\ stage' = "register"
    /\ UNCHANGED <<service, fetched, listed, current, infos, changes>>

\* No JWT, no answer within 30 seconds, or an empty catalogue.
FetchFails ==
    /\ stage = "fetch"
    /\ infos' = Static
    /\ stage' = "register"
    /\ UNCHANGED <<service, fetched, listed, current, changes>>

RegisterClient ==
    /\ stage = "register"
    /\ registry' = [registry EXCEPT ![current.id] = infos]
    /\ stage' = "take"
    /\ UNCHANGED <<records, executor, fetched, listed, current, infos, changes>>

\* The round is over; the goroutine sleeps and begins another.
EndRound ==
    /\ stage = "take" /\ listed = {}
    /\ stage' = "list"
    /\ UNCHANGED <<service, fetched, listed, current, infos, changes>>

-----------------------------------------------------------------------------
Change == changes < MaxChanges /\ changes' = changes + 1

\* A record is written, or written again with another token of its account.
Edit(a) ==
    /\ Change
    /\ \E t \in TokensOf[a] \ {records[a]} : records' = [records EXCEPT ![a] = t]
    /\ UNCHANGED <<registry, executor, goroutine>>

\* A record is removed, and what was registered for it.
RemoveRecord(a) ==
    /\ Change
    /\ records[a] # Absent
    /\ records' = [records EXCEPT ![a] = Absent]
    /\ registry' = [registry EXCEPT ![a] = Absent]
    /\ UNCHANGED <<executor, goroutine>>

Reload(a) ==
    /\ Change
    /\ records[a] # Absent
    /\ registry' = [registry EXCEPT ![a] = Absent]
    /\ executor' = "theirs"
    /\ UNCHANGED <<records, goroutine>>

-----------------------------------------------------------------------------
PollerStep ==
    \/ List
    \/ Take
    \/ Fetch
    \/ FetchFails
    \/ RegisterClient
    \/ EndRound

PollerNext ==
    \/ PollerStep
    \/ \E a \in AuthIds : Edit(a) \/ RemoveRecord(a) \/ Reload(a)

\* The goroutine never ends, and its fetches are bounded by their context.
PollerSpec == PollerInit /\ [][PollerNext]_pollerVars /\ WF_pollerVars(PollerStep)

-----------------------------------------------------------------------------
\* No record is offered with the models of another account, whatever fails and
\* whatever is edited while a fetch is under way.
RegisteredModelsOwn ==
    \A a \in AuthIds : registry[a] \in TokensOf[a] \cup {Static, Absent}

\* However the service clears models and replaces the executor, and however
\* records are edited, once it stops doing so the executor is ours again, and
\* every record has models: those fetched with the token it now has, or the
\* static ones where that fetch fails.
Offered(a) ==
    records[a] # Absent =>
        /\ executor = "ours"
        /\ registry[a] \in {records[a], Static}
        /\ Known([id |-> a, token |-> records[a]]) => registry[a] = records[a]

RegistryCatchesUp == \A a \in AuthIds : <>[]Offered(a)
=============================================================================
