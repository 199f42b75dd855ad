---------------------------- MODULE ModelCatalog ----------------------------
(***************************************************************************)
(* The model catalogues of the plugin.  An auth record, kept by the host   *)
(* in a file, holds a session token and the catalogue last fetched with    *)
(* it.  model.for_auth (modelsForAuth) restores the catalogue into the     *)
(* resolution tables dynamicCatalogs without network work, and starts a    *)
(* background refresh when it is missing or six hours old; auth.refresh    *)
(* (refreshAuth) fetches it as well.  Both fetch with getValidJWT and      *)
(* GetCliModelConfigs, store the tables, read them back to make the        *)
(* catalogue they persist, and write the whole record.                     *)
(*                                                                         *)
(* A model list, a set of resolution tables and the image support of the   *)
(* models are each reduced to the token they were fetched with; None stands *)
(* for an empty one.                                                       *)
(***************************************************************************)
EXTENDS Naturals, FiniteSets

CONSTANTS
    AuthIds,       \* auth records
    Tokens,        \* session tokens
    None,          \* no token, no record
    Background,    \* goroutines of startAsyncModelCatalogRefresh
    Handlers,      \* goroutines that serve auth.refresh
    Overrides,     \* auth records whose attributes carry another token
    KeptOnEdit,    \* whether an edit of the token keeps model_catalog
    MaxEdits       \* bound on the edits of an auth record's token

Procs == Background \cup Handlers

ASSUME ProcsAssumption == Background \cap Handlers = {}
ASSUME NoneAssumption == None \notin Tokens \cup AuthIds
ASSUME RecordsAssumption ==
    /\ Overrides \subseteq AuthIds
    /\ KeptOnEdit \subseteq BOOLEAN
    /\ Cardinality(Background) >= Cardinality(Tokens)
ASSUME BoundsAssumption == MaxEdits \in Nat

VARIABLES
    file,         \* auth records as the host keeps them
    attribute,    \* the token in each record's attributes, for Overrides
    tables,       \* dynamicCatalogs: resolution tables and image support
    running,      \* modelCatalogRefreshes
    pc,           \* where each goroutine is
    auth,         \* the auth record it works for
    cred,         \* its copy of the record's credentials
    cfgToken,     \* cfg.sessionToken, the token it fetches with
    fetched,      \* the model list it fetched
    edits         \* edits made so far

vars == <<file, attribute, tables, running, pc, auth, cred, cfgToken, fetched, edits>>
local == <<auth, cred, cfgToken, fetched>>
environment == <<attribute, edits>>

Owner == Tokens \cup {None}

\* A persisted catalogue has models and tables, or is absent.
Persisted == {c \in [models : Owner, tables : Owner, stale : BOOLEAN] :
                 c.models = None <=> c.tables = None}
Credentials == [token : Tokens, catalog : Persisted]

NoCatalog == [models |-> None, tables |-> None, stale |-> TRUE]
NoCredentials == [token |-> None, catalog |-> NoCatalog]

\* dynamicCatalog: baseWire and families, and imageSupport.
DynamicCatalog == [tables : Owner, images : Owner]
NoTables == [tables |-> None, images |-> None]

TypeOK ==
    /\ file \in [AuthIds -> Credentials]
    /\ attribute \in [Overrides -> Tokens]
    /\ tables \in [Tokens -> DynamicCatalog]
    /\ running \subseteq Tokens
    /\ pc \in [Procs -> {"idle", "fetch", "response", "snapshot", "save", "release"}]
    /\ auth \in [Procs -> AuthIds \cup {None}]
    /\ cred \in [Procs -> Credentials \cup {NoCredentials}]
    /\ cfgToken \in [Procs -> Owner]
    /\ fetched \in [Procs -> Owner]
    /\ edits \in 0 .. MaxEdits

\* Records are imported without a catalogue.
Init ==
    /\ file \in [AuthIds -> {[token |-> t, catalog |-> NoCatalog] : t \in Tokens}]
    /\ attribute \in [Overrides -> Tokens]
    /\ tables = [t \in Tokens |-> NoTables]
    /\ running = {}
    /\ pc = [p \in Procs |-> "idle"]
    /\ auth = [p \in Procs |-> None]
    /\ cred = [p \in Procs |-> NoCredentials]
    /\ cfgToken = [p \in Procs |-> None]
    /\ fetched = [p \in Procs |-> None]
    /\ edits = 0

-----------------------------------------------------------------------------
\* configFromAuthData: attributes win over the stored credentials.
ConfiguredToken(a) == IF a \in Overrides THEN attribute[a] ELSE file[a].token

\* restoreDynamicCatalog, under the record's token: the tables as they were saved,
\* the image support rebuilt from the record's model list.
RestoredTables(a) ==
    LET c == file[a].catalog
    IN  IF c.models = None THEN tables
        ELSE [tables EXCEPT ![file[a].token] =
                  [tables |-> c.tables, images |-> c.models]]

NeedsRefresh(a) == file[a].catalog.models = None \/ file[a].catalog.stale

RefreshAlways(a) == \E p \in Background : pc[p] = "idle"

\* modelCatalogRefreshes.LoadOrStore lets one refresh through per token.
MayRefresh(a) == file[a].token \notin running

Begin(p, a, t) ==
    /\ pc[p] = "idle"
    /\ pc' = [pc EXCEPT ![p] = "fetch"]
    /\ auth' = [auth EXCEPT ![p] = a]
    /\ cred' = [cred EXCEPT ![p] = file[a]]
    /\ cfgToken' = [cfgToken EXCEPT ![p] = t]
    /\ fetched' = [fetched EXCEPT ![p] = None]

\* model.for_auth for record a.
ModelsForAuth(a) ==
    /\ tables' = RestoredTables(a)
    /\ \/ /\ NeedsRefresh(a) /\ MayRefresh(a)
          /\ running' = running \cup {file[a].token}
          /\ \E p \in Background : Begin(p, a, ConfiguredToken(a))
       \/ /\ ~(NeedsRefresh(a) /\ MayRefresh(a))
          /\ UNCHANGED <<running, pc, local>>
    /\ UNCHANGED <<file, environment>>

\* auth.refresh for record a; the token is validated first, and the fetch uses
\* the stored credentials alone.
RefreshAuth(p, a) ==
    /\ Begin(p, a, file[a].token)
    /\ UNCHANGED <<file, tables, running, environment>>

\* The upstream answers with the catalogue it has for the token.
Respond(p) ==
    /\ pc[p] = "fetch"
    /\ fetched' = [fetched EXCEPT ![p] = cfgToken[p]]
    /\ pc' = [pc EXCEPT ![p] = "response"]
    /\ UNCHANGED <<file, tables, running, environment, auth, cred, cfgToken>>

\* No JWT, no answer in time, or an answer without models.
FetchFails(p) ==
    /\ pc[p] \in {"fetch", "response"}
    /\ fetched' = [fetched EXCEPT ![p] = None]
    /\ pc' = [pc EXCEPT ![p] = "snapshot"]
    /\ UNCHANGED <<file, tables, running, environment, auth, cred, cfgToken>>

\* storeDynamicCatalog, under the token the catalogue was fetched with.
OneKeyForAll(p) == CHOOSE t \in Tokens : TRUE
StoreKey(p) == cfgToken[p]

StoreTables(p) ==
    /\ pc[p] = "response"
    /\ tables' = [tables EXCEPT ![StoreKey(p)] =
                      [tables |-> fetched[p], images |-> fetched[p]]]
    /\ pc' = [pc EXCEPT ![p] = "snapshot"]
    /\ UNCHANGED <<file, running, environment, local>>

\* snapshotDynamicCatalog reads the tables again, under the token of the
\* credentials; without models or tables it leaves the catalogue as it was.
SnapshotOf(p) ==
    LET found == tables[cred[p].token].tables
    IN  IF fetched[p] # None /\ found # None
        THEN [cred[p] EXCEPT !.catalog = [models |-> fetched[p],
                                          tables |-> found, stale |-> FALSE]]
        ELSE cred[p]

Snapshot(p) ==
    /\ pc[p] = "snapshot"
    /\ cred' = [cred EXCEPT ![p] = SnapshotOf(p)]
    /\ pc' = [pc EXCEPT ![p] = "save"]
    /\ UNCHANGED <<file, tables, running, environment, auth, cfgToken, fetched>>

\* The goroutine ends, and its variables with it.
Ends(p) ==
    /\ pc' = [pc EXCEPT ![p] = "idle"]
    /\ auth' = [auth EXCEPT ![p] = None]
    /\ cred' = [cred EXCEPT ![p] = NoCredentials]
    /\ cfgToken' = [cfgToken EXCEPT ![p] = None]
    /\ fetched' = [fetched EXCEPT ![p] = None]

\* What follows the saving: a background refresh gives its key back.
AfterSave(p) ==
    \/ p \in Handlers /\ Ends(p)
    \/ /\ p \in Background
       /\ pc' = [pc EXCEPT ![p] = "release"]
       /\ UNCHANGED local

SaveCatalogOnly(p) ==
    /\ pc[p] = "save"
    /\ file' = [file EXCEPT ![auth[p]].catalog = cred[p].catalog]
    /\ AfterSave(p)
    /\ UNCHANGED <<tables, running, environment>>

\* The whole record is written: by the host, from the answer to auth.refresh,
\* or with host.auth.save by a background refresh that has a catalogue, new or
\* old.
Saves(p) == p \in Handlers \/ cred[p].catalog.models # None

Save(p) ==
    /\ pc[p] = "save"
    /\ file' = IF Saves(p) THEN [file EXCEPT ![auth[p]] = cred[p]] ELSE file
    /\ AfterSave(p)
    /\ UNCHANGED <<tables, running, environment>>

\* The host could not be called or refused the record; auth.refresh returned
\* an error, or the host did not keep its answer.
SaveFails(p) ==
    /\ pc[p] = "save"
    /\ AfterSave(p)
    /\ UNCHANGED <<file, tables, running, environment>>

\* The deferred modelCatalogRefreshes.Delete.
Release(p) ==
    /\ pc[p] = "release"
    /\ running' = running \ {cred[p].token}
    /\ Ends(p)
    /\ UNCHANGED <<file, tables, environment>>

\* Six hours pass for record a; its token is replaced by its owner.
GrowOld(a) ==
    /\ file[a].catalog.models # None /\ ~file[a].catalog.stale
    /\ file' = [file EXCEPT ![a].catalog.stale = TRUE]
    /\ UNCHANGED <<tables, running, environment, pc, local>>

ReplaceToken(a, t, keep) ==
    /\ edits < MaxEdits /\ keep \in KeptOnEdit /\ t # file[a].token
    /\ file' = [file EXCEPT ![a] = [token |-> t,
                                    catalog |-> IF keep THEN @.catalog ELSE NoCatalog]]
    /\ edits' = edits + 1
    /\ UNCHANGED <<attribute, tables, running, pc, local>>

-----------------------------------------------------------------------------
Work(p) ==
    \/ Respond(p)
    \/ FetchFails(p)
    \/ StoreTables(p)
    \/ Snapshot(p)
    \/ Save(p)
    \/ SaveFails(p)
    \/ Release(p)

Next ==
    \/ \E a \in AuthIds : ModelsForAuth(a) \/ GrowOld(a)
    \/ \E p \in Handlers, a \in AuthIds : RefreshAuth(p, a)
    \/ \E p \in Procs : Work(p)
    \/ \E a \in AuthIds, t \in Tokens, keep \in BOOLEAN : ReplaceToken(a, t, keep)

\* A background refresh fetches with a direct transport and a context of 30
\* seconds, and the host answers its callbacks.  That its getValidJWT returns is
\* assumed here; JwtCache says when it does.
Spec == Init /\ [][Next]_vars /\ \A p \in Background : WF_vars(Work(p))

-----------------------------------------------------------------------------
\* The key of a token is in modelCatalogRefreshes exactly while one background
\* refresh works for it: refreshes of a token never overlap, and none leaves
\* its key behind.
OneBackgroundRefresh ==
    /\ running = {cred[p].token : p \in {q \in Background : pc[q] # "idle"}}
    /\ \A p, q \in Background :
           /\ pc[p] # "idle" /\ pc[q] # "idle"
           /\ cred[p].token = cred[q].token
           => p = q

\* "Catalogues must never be shared across credentials" (comment of
\* dynamicCatalog): what is used for a token was fetched with it.
CatalogIsolation ==
    \A t \in Tokens : tables[t].tables \in {t, None} /\ tables[t].images \in {t, None}

\* What the code keeps of it: the tables that resolve the models of a token were
\* fetched with it, over stores, restores and saves of other fetches; its image
\* support was too, or with a token that the attributes of a record carry.
TablesIsolation ==
    \A t \in Tokens :
        /\ tables[t].tables \in {t, None}
        /\ tables[t].images \in {t, None} \cup {attribute[a] : a \in Overrides}

\* A record persists what was fetched with its own token: the tables always,
\* the model list unless its attributes override the token.
PersistedIsolation ==
    \A a \in AuthIds :
        LET c == file[a].catalog
        IN  c.models # None =>
                /\ c.tables = file[a].token
                /\ a \notin Overrides => c.models = file[a].token

\* Only its owner changes the token of a record.
EditsStick ==
    [][\A a \in AuthIds : file'[a].token # file[a].token => edits' = edits + 1]_vars
=============================================================================
