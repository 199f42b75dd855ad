------------------------- MODULE ModelCatalogProofs -------------------------
(***************************************************************************)
(* Theorems about ModelCatalog, for any number of records, tokens and      *)
(* goroutines.  That a goroutine has a record, its credentials and a token *)
(* from its beginning to its end is what makes the rest inductive.         *)
(***************************************************************************)
EXTENDS ModelCatalog, TLAPS

Working == {p \in Procs : pc[p] # "idle"}

\* A token that may be used for record a with this stored one.
MayUse(t, token, a) == t = token \/ (a \in Overrides /\ t = attribute[a])

\* What a goroutine at work holds; the token it fetches with is that of its
\* credentials, unless a background refresh had it from the attributes.
Holds(p) ==
    /\ auth[p] \in AuthIds
    /\ cred[p] \in Credentials
    /\ cfgToken[p] \in Tokens
    /\ MayUse(cfgToken[p], cred[p].token, auth[p])
    /\ fetched[p] \in {None, cfgToken[p]}
    /\ pc[p] = "response" => fetched[p] = cfgToken[p]
    /\ pc[p] = "release" => p \in Background

WorkInv == TypeOK /\ \A p \in Working : Holds(p)

USE DEF Procs, MayUse

LEMMA WorkInit == Init => WorkInv
  <1> USE NoneAssumption, BoundsAssumption
  <1> SUFFICES ASSUME Init PROVE WorkInv
    OBVIOUS
  <1>1. NoCatalog \in Persisted /\ NoCredentials \notin Credentials
    BY DEF NoCatalog, Persisted, Owner, Credentials, NoCredentials
  <1>2. file \in [AuthIds -> Credentials]
    BY <1>1 DEF Init, Credentials
  <1>3. TypeOK
    BY <1>2 DEF Init, TypeOK, Owner, DynamicCatalog, NoTables
  <1> QED
    BY <1>3 DEF Init, WorkInv, Working

\* A goroutine that begins with the credentials of a record and a token.
LEMMA BeginHolds ==
  ASSUME WorkInv, NEW p \in Procs, NEW a \in AuthIds, NEW t \in Tokens,
         Begin(p, a, t), MayUse(t, file[a].token, a),
         file' = file, attribute' = attribute, tables' \in [Tokens -> DynamicCatalog],
         running' \subseteq Tokens, edits' = edits
  PROVE  WorkInv'
  <1>1. TypeOK'
    BY DEF WorkInv, TypeOK, Begin, Owner
  <1>2. ASSUME NEW q \in Working' PROVE Holds(q)'
    BY <1>2 DEF WorkInv, Working, Holds, TypeOK, Begin
  <1> QED
    BY <1>1, <1>2 DEF WorkInv

\* Steps that leave the goroutines alone.
LEMMA IdleStep ==
  ASSUME WorkInv, UNCHANGED <<pc, local>>, file' \in [AuthIds -> Credentials],
         attribute' = attribute, tables' \in [Tokens -> DynamicCatalog],
         running' \subseteq Tokens, edits' \in 0 .. MaxEdits
  PROVE  WorkInv'
  BY DEF WorkInv, TypeOK, Working, Holds, local

LEMMA RestoredTyped ==
  ASSUME WorkInv, NEW a \in AuthIds
  PROVE  RestoredTables(a) \in [Tokens -> DynamicCatalog]
  BY DEF WorkInv, TypeOK, RestoredTables, Credentials, Persisted, DynamicCatalog

LEMMA SnapshotTyped ==
  ASSUME WorkInv, NEW p \in Working
  PROVE  SnapshotOf(p) \in Credentials /\ SnapshotOf(p).token = cred[p].token
  <1>1. cred[p] \in Credentials /\ fetched[p] \in Owner /\ tables \in [Tokens -> DynamicCatalog]
    BY DEF WorkInv, Working, Holds, TypeOK
  <1>0. tables[cred[p].token].tables \in Owner
    BY <1>1 DEF Credentials, DynamicCatalog
  <1>2. CASE fetched[p] # None /\ tables[cred[p].token].tables # None
    <2> DEFINE c == [models |-> fetched[p], tables |-> tables[cred[p].token].tables, stale |-> FALSE]
    <2>1. c \in Persisted
      BY <1>0, <1>1, <1>2 DEF Persisted, Credentials
    <2>2. SnapshotOf(p) = [cred[p] EXCEPT !.catalog = c]
      BY <1>2 DEF SnapshotOf
    <2> QED
      BY <1>1, <2>1, <2>2 DEF Credentials
  <1> QED
    BY <1>1, <1>2 DEF SnapshotOf

LEMMA EndsHolds ==
  ASSUME WorkInv, NEW p \in Procs, Ends(p), file' \in [AuthIds -> Credentials],
         attribute' = attribute, tables' = tables, running' \subseteq Tokens, edits' = edits
  PROVE  WorkInv'
  <1>1. TypeOK'
    BY DEF WorkInv, TypeOK, Ends, Owner
  <1>2. ASSUME NEW q \in Working' PROVE Holds(q)'
    BY <1>2 DEF WorkInv, Working, Holds, TypeOK, Ends
  <1> QED
    BY <1>1, <1>2 DEF WorkInv

LEMMA SavedHolds ==
  ASSUME WorkInv, NEW p \in Working, AfterSave(p), file' \in [AuthIds -> Credentials],
         attribute' = attribute, tables' = tables, running' = running, edits' = edits
  PROVE  WorkInv'
  <1>0. running' \subseteq Tokens /\ p \in Procs
    BY DEF WorkInv, TypeOK, Working
  <1>1. CASE p \in Handlers /\ Ends(p)
    BY <1>0, <1>1, EndsHolds
  <1>2. CASE p \in Background /\ pc' = [pc EXCEPT ![p] = "release"] /\ UNCHANGED local
    <2>1. TypeOK'
      BY <1>2 DEF WorkInv, TypeOK, local
    <2>2. ASSUME NEW q \in Working' PROVE Holds(q)'
      BY <1>2, <2>2 DEF WorkInv, Working, Holds, TypeOK, local
    <2> QED
      BY <2>1, <2>2 DEF WorkInv
  <1> QED
    BY <1>1, <1>2 DEF AfterSave

LEMMA WorkStep ==
  ASSUME WorkInv, NEW p \in Procs, Work(p)
  PROVE  WorkInv'
  <1> USE DEF environment
  <1>0. p \in Working
    BY DEF Work, Respond, FetchFails, StoreTables, Snapshot, Save, SaveFails, Release, Working
  <1>H. Holds(p) /\ TypeOK
    BY <1>0 DEF WorkInv
  <1>1. CASE Respond(p)
    <2>1. TypeOK'
      BY <1>1, <1>H DEF TypeOK, Respond, Holds, Owner
    <2>2. ASSUME NEW q \in Working' PROVE Holds(q)'
      BY <1>1, <1>0, <2>2 DEF WorkInv, Working, Holds, TypeOK, Respond
    <2> QED
      BY <2>1, <2>2 DEF WorkInv
  <1>2. CASE FetchFails(p)
    <2>1. TypeOK'
      BY <1>2, <1>H DEF TypeOK, FetchFails, Owner
    <2>2. ASSUME NEW q \in Working' PROVE Holds(q)'
      BY <1>2, <1>0, <2>2 DEF WorkInv, Working, Holds, TypeOK, FetchFails
    <2> QED
      BY <2>1, <2>2 DEF WorkInv
  <1>3. CASE StoreTables(p)
    <2>1. TypeOK'
      BY <1>3, <1>H DEF TypeOK, StoreTables, StoreKey, Holds, local, DynamicCatalog, Owner
    <2>2. ASSUME NEW q \in Working' PROVE Holds(q)'
      BY <1>3, <1>0, <2>2 DEF WorkInv, Working, Holds, TypeOK, StoreTables, local
    <2> QED
      BY <2>1, <2>2 DEF WorkInv
  <1>4. CASE Snapshot(p)
    <2>0. SnapshotOf(p) \in Credentials /\ SnapshotOf(p).token = cred[p].token
      BY <1>0, SnapshotTyped
    <2>1. TypeOK'
      BY <1>4, <1>H, <2>0 DEF TypeOK, Snapshot
    <2>2. ASSUME NEW q \in Working' PROVE Holds(q)'
      BY <1>4, <1>0, <2>0, <2>2 DEF WorkInv, Working, Holds, TypeOK, Snapshot
    <2> QED
      BY <2>1, <2>2 DEF WorkInv
  <1>5. CASE Save(p)
    <2>1. file' \in [AuthIds -> Credentials]
      BY <1>5, <1>H DEF Save, TypeOK, Holds
    <2> QED
      BY <1>0, <1>5, <2>1, SavedHolds DEF Save
  <1>6. CASE SaveFails(p)
    BY <1>0, <1>6, <1>H, SavedHolds DEF SaveFails, TypeOK
  <1>7. CASE Release(p)
    BY <1>7, <1>H, EndsHolds DEF Release, TypeOK
  <1> QED
    BY <1>1, <1>2, <1>3, <1>4, <1>5, <1>6, <1>7 DEF Work

LEMMA WorkNext == WorkInv /\ [Next]_vars => WorkInv'
  <1> SUFFICES ASSUME WorkInv, [Next]_vars PROVE WorkInv'
    OBVIOUS
  <1>T. TypeOK
    BY DEF WorkInv
  <1>1. ASSUME NEW a \in AuthIds, ModelsForAuth(a) PROVE WorkInv'
    <2>1. tables' \in [Tokens -> DynamicCatalog]
      BY <1>1, RestoredTyped DEF ModelsForAuth
    <2>2. CASE NeedsRefresh(a) /\ MayRefresh(a)
      <3>1. PICK p \in Background : Begin(p, a, ConfiguredToken(a))
        BY <1>1, <2>2 DEF ModelsForAuth
      <3>2. /\ ConfiguredToken(a) \in Tokens
            /\ MayUse(ConfiguredToken(a), file[a].token, a)
        BY <1>T DEF ConfiguredToken, MayUse, TypeOK, Credentials
      <3>3. running' \subseteq Tokens
        BY <1>1, <2>2, <1>T DEF ModelsForAuth, TypeOK, Credentials
      <3> QED
        BY <1>1, <2>1, <3>1, <3>2, <3>3, BeginHolds DEF ModelsForAuth, environment
    <2>3. CASE ~(NeedsRefresh(a) /\ MayRefresh(a))
      BY <1>1, <1>T, <2>1, <2>3, IdleStep DEF ModelsForAuth, TypeOK, environment
    <2> QED
      BY <2>2, <2>3
  <1>2. ASSUME NEW a \in AuthIds, GrowOld(a) PROVE WorkInv'
    <2>1. file' \in [AuthIds -> Credentials]
      BY <1>2, <1>T DEF GrowOld, TypeOK, Credentials, Persisted
    <2> QED
      BY <1>2, <1>T, <2>1, IdleStep DEF GrowOld, TypeOK, environment
  <1>3. ASSUME NEW p \in Handlers, NEW a \in AuthIds, RefreshAuth(p, a) PROVE WorkInv'
    <2>1. file[a].token \in Tokens /\ MayUse(file[a].token, file[a].token, a)
      BY <1>T DEF TypeOK, Credentials, MayUse
    <2> QED
      BY <1>3, <1>T, <2>1, BeginHolds DEF RefreshAuth, TypeOK, environment
  <1>4. ASSUME NEW p \in Procs, Work(p) PROVE WorkInv'
    BY <1>4, WorkStep
  <1>5. ASSUME NEW a \in AuthIds, NEW t \in Tokens, NEW keep \in BOOLEAN,
               ReplaceToken(a, t, keep)
        PROVE  WorkInv'
    <2>1. NoCatalog \in Persisted /\ file[a].catalog \in Persisted
      BY <1>T DEF TypeOK, Credentials, NoCatalog, Persisted, Owner
    <2>2. file' \in [AuthIds -> Credentials]
      BY <1>5, <1>T, <2>1 DEF ReplaceToken, TypeOK, Credentials
    <2> QED
      BY <1>5, <1>T, <2>2, IdleStep, BoundsAssumption DEF ReplaceToken, TypeOK
  <1>6. CASE UNCHANGED vars
    BY <1>6, <1>T, IdleStep DEF vars, TypeOK, local
  <1> QED
    BY <1>1, <1>2, <1>3, <1>4, <1>5, <1>6 DEF Next

LEMMA WorkInvariance == Spec => []WorkInv
  BY WorkInit, WorkNext, PTL DEF Spec

\* Every variable keeps its type: records, tables and what each goroutine
\* holds, however refreshes, edits and failures follow each other.
THEOREM CatalogTyped == Spec => []TypeOK
  <1>1. WorkInv => TypeOK
    BY DEF WorkInv
  <1> QED
    BY <1>1, WorkInvariance, PTL

-----------------------------------------------------------------------------
\* Refreshes of a token.
LEMMA RefreshInit == Init => OneBackgroundRefresh
  <1> SUFFICES ASSUME Init PROVE OneBackgroundRefresh
    OBVIOUS
  <1>1. \A p \in Background : pc[p] = "idle"
    BY DEF Init
  <1>2. running = {}
    BY DEF Init
  <1> QED
    BY <1>1, <1>2 DEF OneBackgroundRefresh

\* Steps that change neither the tokens goroutines hold nor who is at work.
LEMMA SameRefreshes ==
  ASSUME OneBackgroundRefresh, running' = running,
         \A p \in Background : /\ pc'[p] = "idle" <=> pc[p] = "idle"
                               /\ pc[p] # "idle" => cred'[p].token = cred[p].token
  PROVE  OneBackgroundRefresh'
  <1>1. {q \in Background : pc'[q] # "idle"} = {q \in Background : pc[q] # "idle"}
    OBVIOUS
  <1>2. \A p \in {q \in Background : pc[q] # "idle"} : cred'[p].token = cred[p].token
    OBVIOUS
  <1>3. running' = {cred'[p].token : p \in {q \in Background : pc'[q] # "idle"}}
    BY <1>1, <1>2 DEF OneBackgroundRefresh
  <1>4. \A p, q \in Background :
           pc'[p] # "idle" /\ pc'[q] # "idle" /\ cred'[p].token = cred'[q].token => p = q
    BY <1>1, <1>2 DEF OneBackgroundRefresh
  <1> QED
    BY <1>3, <1>4 DEF OneBackgroundRefresh

LEMMA RefreshNext == WorkInv /\ OneBackgroundRefresh /\ [Next]_vars => OneBackgroundRefresh'
  <1> SUFFICES ASSUME WorkInv, OneBackgroundRefresh, [Next]_vars PROVE OneBackgroundRefresh'
    OBVIOUS
  <1> USE ProcsAssumption
  <1>T. /\ pc \in [Procs -> {"idle", "fetch", "response", "snapshot", "save", "release"}]
        /\ cred \in [Procs -> Credentials \cup {NoCredentials}]
    BY DEF WorkInv, TypeOK
  <1>1. ASSUME NEW a \in AuthIds, ModelsForAuth(a) PROVE OneBackgroundRefresh'
    <2>1. CASE NeedsRefresh(a) /\ MayRefresh(a)
      <3>1. PICK p \in Background : Begin(p, a, ConfiguredToken(a))
        BY <1>1, <2>1 DEF ModelsForAuth
      <3>2. running' = running \cup {file[a].token} /\ file[a].token \notin running
        BY <1>1, <2>1 DEF ModelsForAuth, MayRefresh
      <3>3. /\ cred'[p].token = file[a].token /\ pc[p] = "idle" /\ pc'[p] # "idle"
            /\ \A q \in Background \ {p} : cred'[q] = cred[q] /\ pc'[q] = pc[q]
        BY <3>1, <1>T DEF Begin
      <3>4. \A q \in Background : pc[q] # "idle" => cred[q].token \in running
        BY DEF OneBackgroundRefresh
      <3>5. running' = {cred'[q].token : q \in {r \in Background : pc'[r] # "idle"}}
        BY <3>2, <3>3 DEF OneBackgroundRefresh
      <3> QED
        BY <3>2, <3>3, <3>4, <3>5 DEF OneBackgroundRefresh
    <2>2. CASE ~(NeedsRefresh(a) /\ MayRefresh(a))
      BY <1>1, <2>2, SameRefreshes DEF ModelsForAuth, local
    <2> QED
      BY <2>1, <2>2
  <1>2. ASSUME NEW p \in Handlers, NEW a \in AuthIds, RefreshAuth(p, a)
        PROVE  OneBackgroundRefresh'
    <2>1. \A q \in Background : cred'[q] = cred[q] /\ pc'[q] = pc[q]
      BY <1>2, <1>T DEF RefreshAuth, Begin
    <2> QED
      BY <1>2, <2>1, SameRefreshes DEF RefreshAuth
  <1>3. ASSUME NEW p \in Procs, Release(p) PROVE OneBackgroundRefresh'
    <2>0. p \in Background
      BY <1>3 DEF WorkInv, Working, Holds, Release
    <2>1. /\ pc'[p] = "idle" /\ pc[p] # "idle" /\ running' = running \ {cred[p].token}
          /\ \A q \in Background \ {p} : cred'[q] = cred[q] /\ pc'[q] = pc[q]
      BY <1>3, <1>T DEF Release, Ends
    <2>2. \A q \in Background \ {p} : pc[q] # "idle" => cred[q].token # cred[p].token
      BY <2>0, <2>1 DEF OneBackgroundRefresh
    <2>3. running' = {cred'[q].token : q \in {r \in Background : pc'[r] # "idle"}}
      BY <2>0, <2>1, <2>2 DEF OneBackgroundRefresh
    <2> QED
      BY <2>1, <2>3 DEF OneBackgroundRefresh
  <1>4. ASSUME NEW p \in Procs, Work(p), ~Release(p) PROVE OneBackgroundRefresh'
    <2>0. running' = running
      BY <1>4 DEF Work, Respond, FetchFails, StoreTables, Snapshot, Save, SaveFails
    <2>1. CASE p \in Handlers
      <3>1. \A q \in Background : cred'[q] = cred[q] /\ pc'[q] = pc[q]
        BY <1>4, <2>1, <1>T DEF Work, Respond, FetchFails, StoreTables, Snapshot, Save,
                                SaveFails, AfterSave, Ends, local
      <3> QED
        BY <2>0, <3>1, SameRefreshes
    <2>2. CASE p \notin Handlers
      <3>0. p \in Working
        BY <1>4 DEF Work, Respond, FetchFails, StoreTables, Snapshot, Save, SaveFails, Working
      <3>1. Snapshot(p) => SnapshotOf(p).token = cred[p].token
        BY <3>0, SnapshotTyped
      <3>2. cred'[p].token = cred[p].token /\ pc[p] # "idle" /\ pc'[p] # "idle"
        BY <1>4, <2>2, <3>1, <1>T DEF Work, Respond, FetchFails, StoreTables, Snapshot, Save,
                                      SaveFails, AfterSave, local
      <3>3. \A q \in Background \ {p} : cred'[q] = cred[q] /\ pc'[q] = pc[q]
        BY <1>4, <2>2, <1>T DEF Work, Respond, FetchFails, StoreTables, Snapshot, Save,
                                SaveFails, AfterSave, local
      <3> QED
        BY <2>0, <3>2, <3>3, SameRefreshes
    <2> QED
      BY <2>1, <2>2
  <1>5. ASSUME \/ \E a \in AuthIds : GrowOld(a)
               \/ \E a \in AuthIds, t \in Tokens, keep \in BOOLEAN : ReplaceToken(a, t, keep)
               \/ UNCHANGED vars
        PROVE  OneBackgroundRefresh'
    BY <1>5, SameRefreshes DEF GrowOld, ReplaceToken, vars, local
  <1> QED
    BY <1>1, <1>2, <1>3, <1>4, <1>5 DEF Next

\* Background refreshes of one token never overlap, and each gives its key
\* back: for any number of records that share tokens, of refreshes and edits.
THEOREM RefreshesApart == Spec => []OneBackgroundRefresh
  BY WorkInvariance, RefreshInit, RefreshNext, PTL DEF Spec

-----------------------------------------------------------------------------
\* The catalogue of a token: its tables, and the image support that restoring a
\* record with overriding attributes may have brought.
TablesOwn ==
    \A t \in Tokens :
        /\ tables[t].tables \in {t, None}
        /\ tables[t].images # None => \E a \in AuthIds : MayUse(tables[t].images, t, a)

\* What is persisted for a token, in a file or in a goroutine's copy.
Own(token, catalog, a) ==
    catalog.models # None =>
        /\ catalog.tables = token
        /\ MayUse(catalog.models, token, a)

Isolated ==
    /\ TablesOwn
    /\ \A a \in AuthIds : Own(file[a].token, file[a].catalog, a)
    /\ \A p \in Working : Own(cred[p].token, cred[p].catalog, auth[p])

LEMMA IsolatedInit == Init => Isolated
  BY DEF Init, Isolated, TablesOwn, Own, NoCatalog, NoTables, Working

LEMMA IsolatedWork ==
  ASSUME WorkInv, Isolated, NEW p \in Procs, Work(p)
  PROVE  Isolated'
  <1>0. p \in Working
    BY DEF Work, Respond, FetchFails, StoreTables, Snapshot, Save, SaveFails, Release, Working
  <1>H. Holds(p) /\ TypeOK
    BY <1>0 DEF WorkInv
  <1>A. attribute' = attribute
    BY DEF Work, Respond, FetchFails, StoreTables, Snapshot, Save, SaveFails, Release, environment
  <1>1. CASE Respond(p) \/ FetchFails(p)
    <2>1. /\ UNCHANGED <<file, tables, cred, auth>>
          /\ Working' = Working
      BY <1>1, <1>0, <1>H DEF Respond, FetchFails, Working, TypeOK
    <2> QED
      BY <1>A, <2>1 DEF Isolated, TablesOwn, Own
  <1>2. CASE StoreTables(p)
    <2>1. UNCHANGED <<file, cred, auth>> /\ Working' = Working
      BY <1>2, <1>0, <1>H DEF StoreTables, Working, TypeOK, local
    <2>2. TablesOwn'
      BY <1>A, <1>2, <1>H DEF StoreTables, StoreKey, Isolated, TablesOwn, Holds, TypeOK
    <2> QED
      BY <1>A, <2>1, <2>2 DEF Isolated, Own
  <1>3. CASE Snapshot(p)
    <2>1. UNCHANGED <<file, tables, auth>> /\ Working' = Working
      BY <1>3, <1>0, <1>H DEF Snapshot, Working, TypeOK
    <2>2. Own(SnapshotOf(p).token, SnapshotOf(p).catalog, auth[p])
      <3>1. CASE fetched[p] # None /\ tables[cred[p].token].tables # None
        <4>1. /\ SnapshotOf(p).token = cred[p].token
              /\ SnapshotOf(p).catalog.models = fetched[p]
              /\ SnapshotOf(p).catalog.tables = tables[cred[p].token].tables
          BY <3>1, <1>H DEF SnapshotOf, Holds, Credentials
        <4>2. tables[cred[p].token].tables = cred[p].token
          BY <3>1, <1>H DEF Isolated, TablesOwn, Holds, Credentials
        <4> QED
          BY <3>1, <4>1, <4>2, <1>H DEF Own, Holds
      <3> QED
        BY <3>1, <1>0 DEF SnapshotOf, Isolated
    <2>3. cred' = [cred EXCEPT ![p] = SnapshotOf(p)]
      BY <1>3 DEF Snapshot
    <2> QED
      BY <1>A, <2>1, <2>2, <2>3, <1>H DEF Isolated, TablesOwn, Own, TypeOK, Working
  <1>4. CASE Save(p) \/ SaveFails(p)
    <2>1. UNCHANGED tables
      BY <1>4 DEF Save, SaveFails
    <2>2. \A a \in AuthIds : Own(file'[a].token, file'[a].catalog, a)
      BY <1>A, <1>4, <1>0, <1>H DEF Save, SaveFails, Isolated, Own, TypeOK, Holds
    <2>3. \A q \in Working' : q \in Working /\ cred'[q] = cred[q] /\ auth'[q] = auth[q]
      BY <1>4, <1>0, <1>H DEF Save, SaveFails, AfterSave, Ends, Working, TypeOK, local
    <2> QED
      BY <1>A, <2>1, <2>2, <2>3 DEF Isolated, TablesOwn, Own
  <1>5. CASE Release(p)
    <2>1. UNCHANGED <<file, tables>>
      BY <1>5 DEF Release
    <2>2. \A q \in Working' : q \in Working /\ cred'[q] = cred[q] /\ auth'[q] = auth[q]
      BY <1>5, <1>H DEF Release, Ends, Working, TypeOK
    <2> QED
      BY <1>A, <2>1, <2>2 DEF Isolated, TablesOwn, Own
  <1> QED
    BY <1>1, <1>2, <1>3, <1>4, <1>5 DEF Work

LEMMA IsolatedBegin ==
  ASSUME WorkInv, Isolated, NEW p \in Procs, NEW a \in AuthIds, NEW t, Begin(p, a, t),
         file' = file, attribute' = attribute, TablesOwn'
  PROVE  Isolated'
  <1>1. \A q \in Working' : \/ q = p
                            \/ q \in Working /\ cred'[q] = cred[q] /\ auth'[q] = auth[q]
    BY DEF WorkInv, TypeOK, Begin, Working
  <1>2. cred'[p] = file[a] /\ auth'[p] = a
    BY DEF WorkInv, TypeOK, Begin
  <1> QED
    BY <1>1, <1>2 DEF Isolated, Own

LEMMA IsolatedNext ==
  ASSUME KeptOnEdit = {FALSE}
  PROVE  WorkInv /\ Isolated /\ [Next]_vars => Isolated'
  <1> SUFFICES ASSUME WorkInv, Isolated, [Next]_vars PROVE Isolated'
    OBVIOUS
  <1>T. TypeOK
    BY DEF WorkInv
  <1>1. ASSUME NEW a \in AuthIds, ModelsForAuth(a) PROVE Isolated'
    <2>1. TablesOwn'
      BY <1>1, <1>T DEF ModelsForAuth, environment, RestoredTables, Isolated, TablesOwn, Own, TypeOK
    <2>2. CASE NeedsRefresh(a) /\ MayRefresh(a)
      <3>1. PICK p \in Background : Begin(p, a, ConfiguredToken(a))
        BY <1>1, <2>2 DEF ModelsForAuth
      <3> QED
        BY <1>1, <2>1, <3>1, IsolatedBegin DEF ModelsForAuth, environment
    <2>3. CASE ~(NeedsRefresh(a) /\ MayRefresh(a))
      BY <1>1, <2>1, <2>3 DEF ModelsForAuth, Isolated, Own, Working, local, environment
    <2> QED
      BY <2>2, <2>3
  <1>2. ASSUME NEW p \in Handlers, NEW a \in AuthIds, RefreshAuth(p, a) PROVE Isolated'
    <2>1. TablesOwn'
      BY <1>2 DEF RefreshAuth, Isolated, TablesOwn, environment
    <2> QED
      BY <1>2, <2>1, IsolatedBegin DEF RefreshAuth, environment
  <1>3. ASSUME NEW p \in Procs, Work(p) PROVE Isolated'
    BY <1>3, IsolatedWork
  <1>4. ASSUME NEW a \in AuthIds, GrowOld(a) PROVE Isolated'
    <2>1. \A b \in AuthIds : /\ file'[b].token = file[b].token
                             /\ file'[b].catalog.models = file[b].catalog.models
                             /\ file'[b].catalog.tables = file[b].catalog.tables
      BY <1>4, <1>T DEF GrowOld, TypeOK, Credentials, Persisted
    <2> QED
      BY <1>4, <2>1 DEF GrowOld, Isolated, TablesOwn, Own, Working, local, environment
  <1>5. ASSUME NEW a \in AuthIds, NEW t \in Tokens, NEW keep \in BOOLEAN,
               ReplaceToken(a, t, keep)
        PROVE  Isolated'
    <2>1. file' = [file EXCEPT ![a] = [token |-> t, catalog |-> NoCatalog]]
      BY <1>5 DEF ReplaceToken
    <2>2. \A b \in AuthIds : Own(file'[b].token, file'[b].catalog, b)
      BY <2>1, <1>T DEF Isolated, Own, NoCatalog, TypeOK
    <2> QED
      BY <1>5, <2>2 DEF ReplaceToken, Isolated, TablesOwn, Own, Working, local
  <1>6. CASE UNCHANGED vars
    BY <1>6 DEF vars, Isolated, TablesOwn, Own, Working, local
  <1> QED
    BY <1>1, <1>2, <1>3, <1>4, <1>5, <1>6 DEF Next

LEMMA IsolatedInvariance ==
  ASSUME KeptOnEdit = {FALSE}
  PROVE  Spec => []Isolated
  BY WorkInvariance, IsolatedInit, IsolatedNext, PTL DEF Spec

\* The tables that resolve the models of a token were fetched with it, and its
\* image support with it or with a token of overriding attributes, if an edit of
\* the token drops the catalogue: the run ModelCatalogEdited shows that this is
\* needed.
THEOREM CataloguesIsolated ==
  ASSUME KeptOnEdit = {FALSE}
  PROVE  Spec => []TablesIsolation
  <1>1. Isolated => TablesIsolation
    BY DEF Isolated, TablesOwn, TablesIsolation, MayUse
  <1> QED
    BY <1>1, IsolatedInvariance, PTL

\* Tables and image support are never shared across credentials, if besides no
\* attributes override the token of a record.
THEOREM CataloguesNeverShared ==
  ASSUME KeptOnEdit = {FALSE}, Overrides = {}
  PROVE  Spec => []CatalogIsolation
  <1>1. Isolated => CatalogIsolation
    BY DEF Isolated, TablesOwn, CatalogIsolation, MayUse
  <1> QED
    BY <1>1, IsolatedInvariance, PTL

\* Under the same assumption a record persists only what was fetched with its
\* own token, for any number of records, refreshes, edits and failures.
THEOREM RecordsIsolated ==
  ASSUME KeptOnEdit = {FALSE}
  PROVE  Spec => []PersistedIsolation
  <1>1. Isolated => PersistedIsolation
    BY DEF Isolated, PersistedIsolation, Own
  <1> QED
    BY <1>1, IsolatedInvariance, PTL
=============================================================================
