---------------------------- MODULE LoginProofs -----------------------------
EXTENDS Login, TLAPS

(***************************************************************************)
(* What the credential cache guarantees for every set of accounts, callers *)
(* and validators, every margin and every lifetime.  The safety argument   *)
(* rests on one fact: a key is in the singleflight group exactly while one *)
(* caller, its leader, runs the call.                                      *)
(***************************************************************************)
\* What a process that is not a caller never does.
ValidatorPc == \A v \in Validators : pc[v] \in {"idle", "rpc", "reply", "done"}

TypeInv == TypeOK /\ ValidatorPc

LEMMA ResultsTyped ==
    ASSUME NEW a \in Accounts, NEW t \in Nat
    PROVE  /\ Nothing(a) \in Result
           /\ Token(a, t) \in Result
           /\ Error(a, "upstream") \in Result
           /\ Error(a, "cancelled") \in Result
BY DEF Nothing, Token, Error, Result

LEMMA TypeInit == Init => TypeInv
BY TimeAssumption, ProcsAssumption
   DEF Init, TypeInv, TypeOK, ValidatorPc, Entry, Result, Nothing, Steps, Procs

LEMMA TypeNext == TypeInv /\ [Next]_vars => TypeInv'
<1> SUFFICES ASSUME TypeInv, [Next]_vars
             PROVE  TypeInv'
    OBVIOUS
<1> USE TimeAssumption, ProcsAssumption
        DEF TypeInv, TypeOK, ValidatorPc, Procs, Steps
<1>1. ASSUME NEW c \in Callers, NEW a \in Accounts, Start(c, a) PROVE TypeInv'
    BY <1>1, ResultsTyped DEF Start
<1>2. ASSUME NEW v \in Validators, NEW a \in Accounts, StartValidation(v, a)
      PROVE TypeInv'
    BY <1>2, ResultsTyped DEF StartValidation
<1>3. ASSUME NEW c \in Callers, CheckCache(c) PROVE TypeInv'
    BY <1>3, ResultsTyped DEF CheckCache, Entry
<1>4. ASSUME NEW c \in Callers, EnterFlight(c) PROVE TypeInv'
    BY <1>4 DEF EnterFlight, FlightKey
<1>5. ASSUME NEW c \in Callers, Recheck(c) PROVE TypeInv'
    BY <1>5, ResultsTyped DEF Recheck, Entry
<1>6. ASSUME NEW c \in Callers, Publish(c) PROVE TypeInv'
    BY <1>6 DEF Publish, Served, FlightKey
<1>7. ASSUME NEW p \in Procs, Mint(p) PROVE TypeInv'
    BY <1>7, ResultsTyped DEF Mint
<1>8. ASSUME NEW p \in Procs, Store(p) PROVE TypeInv'
    BY <1>8 DEF Store, AfterRefresh, EntryOf, Entry, Result
<1>9. ASSUME NEW p \in Procs, Fail(p) PROVE TypeInv'
    BY <1>9, ResultsTyped DEF Fail, CallErrors, AfterRefresh, Outstanding
<1>10. ASSUME NEW p \in Procs, Return(p) PROVE TypeInv'
    BY <1>10, ResultsTyped DEF Return
<1>11. ASSUME NEW p \in Procs, Cancel(p) PROVE TypeInv'
    BY <1>11 DEF Cancel
<1>12. CASE Tick
    <2>1. cache' \in [Accounts -> Entry]
        <3>1. ASSUME NEW a \in Accounts
              PROVE  [cache[a] EXCEPT !.ttl = Less(@)] \in Entry
            BY DEF Less, Entry
        <3> QED
            BY <1>12, <3>1 DEF Tick
    <2>2. got' \in [Procs -> Result]
        <3>1. ASSUME NEW p \in Procs
              PROVE  [got[p] EXCEPT !.ttl = Less(@)] \in Result
            BY DEF Less, Result
        <3> QED
            BY <1>12, <3>1 DEF Tick
    <2>3. age' \in [Procs -> 0 .. Timeout]
        BY <1>12 DEF Tick
    <2> QED
        BY <1>12, <2>1, <2>2, <2>3 DEF Tick
<1>13. CASE UNCHANGED vars
    BY <1>13 DEF vars
<1> QED
    BY <1>1, <1>2, <1>3, <1>4, <1>5, <1>6, <1>7, <1>8, <1>9, <1>10,
       <1>11, <1>12, <1>13 DEF Next, CallerStep, RefreshEnds

\* The state of the credential cache always has the types it is declared with.
THEOREM TypeCorrect == Spec => []TypeOK
<1>1. TypeInv => TypeOK
    BY DEF TypeInv
<1> QED
    BY TypeInit, TypeNext, <1>1, PTL DEF Spec

LEMMA TypeInvariant == Spec => []TypeInv
BY TypeInit, TypeNext, PTL DEF Spec

-----------------------------------------------------------------------------
\* A key is in the group exactly while one caller leads its call, and whoever
\* waits for an account waits for a key that is in the group.
FlightInv ==
    /\ \A c \in Callers : Leading(c) => acct[c] \in inFlight
    /\ \A c, d \in Callers :
           Leading(c) /\ Leading(d) /\ acct[c] = acct[d] => c = d
    /\ \A a \in inFlight : \E c \in Callers : Leading(c) /\ acct[c] = a
    /\ \A c \in Callers : pc[c] = "wait" => acct[c] \in inFlight

LEMMA FlightInit == Init => FlightInv
BY DEF Init, FlightInv, Leading, Procs

\* A step that leaves every caller on the same side of leading, and the group
\* as it is, leaves the flights as they are.
LEMMA FlightUnchanged ==
    ASSUME TypeInv, FlightInv, inFlight' = inFlight,
           \A c \in Callers :
               /\ Leading(c)' = Leading(c)
               /\ Leading(c) => acct'[c] = acct[c]
               /\ pc'[c] = "wait" => pc[c] = "wait" /\ acct'[c] = acct[c]
    PROVE  FlightInv'
BY DEF FlightInv, TypeInv, TypeOK, Procs

LEMMA FlightNext == TypeInv /\ FlightInv /\ [Next]_vars => FlightInv'
<1> SUFFICES ASSUME TypeInv, FlightInv, [Next]_vars
             PROVE  FlightInv'
    OBVIOUS
<1> USE ProcsAssumption DEF TypeInv, TypeOK, Procs
<1>1. ASSUME NEW c \in Callers, NEW a \in Accounts, Start(c, a) PROVE FlightInv'
    BY <1>1, FlightUnchanged DEF Start, Leading
<1>2. ASSUME NEW v \in Validators, NEW a \in Accounts, StartValidation(v, a)
      PROVE FlightInv'
    BY <1>2, FlightUnchanged DEF StartValidation, Leading
<1>3. ASSUME NEW c \in Callers, CheckCache(c) PROVE FlightInv'
    BY <1>3, FlightUnchanged DEF CheckCache, Leading
<1>4. ASSUME NEW c \in Callers, EnterFlight(c) PROVE FlightInv'
    <2>1. CASE acct[c] \notin inFlight
        BY <1>4, <2>1 DEF EnterFlight, FlightKey, FlightInv, Leading
    <2>2. CASE acct[c] \in inFlight
        BY <1>4, <2>2 DEF EnterFlight, FlightKey, FlightInv, Leading
    <2> QED
        BY <2>1, <2>2
<1>5. ASSUME NEW c \in Callers, Recheck(c) PROVE FlightInv'
    BY <1>5, FlightUnchanged DEF Recheck, Leading
<1>6. ASSUME NEW c \in Callers, Publish(c) PROVE FlightInv'
    <2>1. Leading(c)
        BY <1>6 DEF Publish, Leading
    <2>2. \A d \in Callers : Leading(d)' <=> Leading(d) /\ d # c
        BY <1>6 DEF Publish, Served, Leading
    <2>3. \A d \in Callers : pc'[d] = "wait" => pc[d] = "wait" /\ acct[d] # acct[c]
        BY <1>6 DEF Publish, Served, FlightKey
    <2>4. inFlight' = inFlight \ {acct[c]} /\ acct' = acct
        BY <1>6 DEF Publish, FlightKey
    <2> QED
        BY <2>1, <2>2, <2>3, <2>4 DEF FlightInv
<1>7. ASSUME NEW p \in Procs, Mint(p) PROVE FlightInv'
    BY <1>7, FlightUnchanged DEF Mint, Leading
<1>8. ASSUME NEW p \in Procs, Store(p) PROVE FlightInv'
    BY <1>8, FlightUnchanged DEF Store, AfterRefresh, Leading
<1>9. ASSUME NEW p \in Procs, Fail(p) PROVE FlightInv'
    BY <1>9, FlightUnchanged DEF Fail, CallErrors, AfterRefresh, Outstanding, Leading
<1>10. ASSUME NEW p \in Procs, Return(p) PROVE FlightInv'
    BY <1>10, FlightUnchanged DEF Return, Leading
<1>11. ASSUME NEW p \in Procs, Cancel(p) PROVE FlightInv'
    BY <1>11, FlightUnchanged DEF Cancel, Leading
<1>12. CASE Tick
    BY <1>12, FlightUnchanged DEF Tick, Leading
<1>13. CASE UNCHANGED vars
    BY <1>13, FlightUnchanged DEF vars, Leading
<1> QED
    BY <1>1, <1>2, <1>3, <1>4, <1>5, <1>6, <1>7, <1>8, <1>9, <1>10,
       <1>11, <1>12, <1>13 DEF Next, CallerStep, RefreshEnds

LEMMA FlightInvariant == Spec => []FlightInv
BY FlightInit, FlightNext, TypeInvariant, PTL DEF Spec

\* At most one caller of getValidJWT refreshes an account at a time, whatever
\* the validators do.
THEOREM SharedRefresh == Spec => []CallersShareRefresh
<1>1. FlightInv => CallersShareRefresh
    BY DEF FlightInv, CallersShareRefresh, Leading, Outstanding
<1> QED
    BY FlightInvariant, <1>1, PTL

\* A caller blocked in refreshGroup.Do always has a leader of its own account
\* to wait for: no success, failure or cancellation leaves it behind.
THEOREM NoOrphanWaiter == Spec => []WaitersHaveLeader
<1>1. FlightInv => WaitersHaveLeader
    BY DEF FlightInv, WaitersHaveLeader
<1> QED
    BY FlightInvariant, <1>1, PTL

-----------------------------------------------------------------------------
LEMMA IsolationNext == TypeInv /\ AccountIsolation /\ [Next]_vars => AccountIsolation'
<1> SUFFICES ASSUME TypeInv, AccountIsolation, [Next]_vars
             PROVE  AccountIsolation'
    OBVIOUS
<1> USE ProcsAssumption DEF TypeInv, TypeOK, Procs, AccountIsolation
<1>1. ASSUME NEW c \in Callers, NEW a \in Accounts, Start(c, a)
      PROVE AccountIsolation'
    BY <1>1 DEF Start, Nothing
<1>2. ASSUME NEW v \in Validators, NEW a \in Accounts, StartValidation(v, a)
      PROVE AccountIsolation'
    BY <1>2 DEF StartValidation, Nothing
<1>3. ASSUME NEW c \in Callers, CheckCache(c) PROVE AccountIsolation'
    BY <1>3 DEF CheckCache, Token
<1>4. ASSUME NEW c \in Callers, EnterFlight(c) PROVE AccountIsolation'
    BY <1>4 DEF EnterFlight
<1>5. ASSUME NEW c \in Callers, Recheck(c) PROVE AccountIsolation'
    BY <1>5 DEF Recheck, Token
<1>6. ASSUME NEW c \in Callers, Publish(c) PROVE AccountIsolation'
    BY <1>6 DEF Publish, Served, FlightKey
<1>7. ASSUME NEW p \in Procs, Mint(p) PROVE AccountIsolation'
    BY <1>7 DEF Mint, Token
<1>8. ASSUME NEW p \in Procs, Store(p) PROVE AccountIsolation'
    BY <1>8 DEF Store, EntryOf
<1>9. ASSUME NEW p \in Procs, Fail(p) PROVE AccountIsolation'
    BY <1>9 DEF Fail, CallErrors, Error
<1>10. ASSUME NEW p \in Procs, Return(p) PROVE AccountIsolation'
    BY <1>10 DEF Return, Nothing
<1>11. ASSUME NEW p \in Procs, Cancel(p) PROVE AccountIsolation'
    BY <1>11 DEF Cancel
<1>12. CASE Tick
    <2>1. ASSUME NEW a \in Accounts PROVE cache'[a].acct = a
        <3>1. [cache[a] EXCEPT !.ttl = Less(@)].acct = cache[a].acct
            BY DEF Entry
        <3> QED
            BY <1>12, <3>1 DEF Tick
    <2>2. ASSUME NEW p \in Procs PROVE got'[p].acct = acct'[p]
        <3>1. [got[p] EXCEPT !.ttl = Less(@)].acct = got[p].acct
            BY DEF Result
        <3> QED
            BY <1>12, <3>1 DEF Tick
    <2> QED
        BY <2>1, <2>2
<1>13. CASE UNCHANGED vars
    BY <1>13 DEF vars
<1> QED
    BY <1>1, <1>2, <1>3, <1>4, <1>5, <1>6, <1>7, <1>8, <1>9, <1>10,
       <1>11, <1>12, <1>13 DEF Next, CallerStep, RefreshEnds

\* Accounts never share a token, although they share the cache and the group.
THEOREM Isolation == Spec => []AccountIsolation
<1>1. Init => AccountIsolation
    BY DEF Init, AccountIsolation, Nothing
<1> QED
    BY <1>1, IsolationNext, TypeInvariant, PTL DEF Spec

-----------------------------------------------------------------------------
\* Without validators only a leader writes the cache, and it is alone.
LEMMA NeedNext ==
    ASSUME Validators = {}
    PROVE  TypeInv /\ FlightInv /\ NoNeedlessRefresh /\ [Next]_vars => NoNeedlessRefresh'
<1> SUFFICES ASSUME TypeInv, FlightInv, NoNeedlessRefresh, [Next]_vars
             PROVE  NoNeedlessRefresh'
    OBVIOUS
<1> USE DEF TypeInv, TypeOK, Procs, NoNeedlessRefresh, Outstanding
<1>1. ASSUME NEW c \in Callers, NEW a \in Accounts, Start(c, a)
      PROVE NoNeedlessRefresh'
    BY <1>1 DEF Start, Fresh
<1>2. ASSUME NEW v \in Validators, NEW a \in Accounts, StartValidation(v, a)
      PROVE NoNeedlessRefresh'
    BY <1>2
<1>3. ASSUME NEW c \in Callers, CheckCache(c) PROVE NoNeedlessRefresh'
    BY <1>3 DEF CheckCache, Fresh
<1>4. ASSUME NEW c \in Callers, EnterFlight(c) PROVE NoNeedlessRefresh'
    BY <1>4 DEF EnterFlight, Fresh
<1>5. ASSUME NEW c \in Callers, Recheck(c) PROVE NoNeedlessRefresh'
    BY <1>5 DEF Recheck, Fresh
<1>6. ASSUME NEW c \in Callers, Publish(c) PROVE NoNeedlessRefresh'
    BY <1>6 DEF Publish, Served, Fresh
<1>7. ASSUME NEW p \in Procs, Mint(p) PROVE NoNeedlessRefresh'
    BY <1>7 DEF Mint, Fresh
<1>8. ASSUME NEW p \in Procs, Store(p) PROVE NoNeedlessRefresh'
    <2>1. p \in Callers /\ Leading(p) /\ pc'[p] = "publish"
        BY <1>8 DEF Store, AfterRefresh, Leading
    <2>2. ASSUME NEW c \in Callers, Outstanding(c)'
          PROVE  ~Fresh(cache[acct[c]])'
        <3>1. c # p /\ pc'[c] = pc[c] /\ acct' = acct
            BY <2>1, <2>2, <1>8 DEF Store
        <3>2. Leading(c)
            BY <2>2, <3>1 DEF Leading
        <3>3. acct[c] # acct[p]
            BY <2>1, <3>1, <3>2 DEF FlightInv
        <3>4. cache'[acct[c]] = cache[acct[c]]
            BY <1>8, <3>3 DEF Store
        <3> QED
            BY <2>2, <3>1, <3>4 DEF Fresh
    <2> QED
        BY <2>2
<1>9. ASSUME NEW p \in Procs, Fail(p) PROVE NoNeedlessRefresh'
    BY <1>9 DEF Fail, CallErrors, AfterRefresh, Fresh
<1>10. ASSUME NEW p \in Procs, Return(p) PROVE NoNeedlessRefresh'
    BY <1>10 DEF Return, Fresh
<1>11. ASSUME NEW p \in Procs, Cancel(p) PROVE NoNeedlessRefresh'
    BY <1>11 DEF Cancel, Fresh
<1>12. CASE Tick
    <2>1. ASSUME NEW a \in Accounts, ~Fresh(cache[a]) PROVE ~Fresh(cache'[a])
        <3>1. cache'[a].ttl = Less(cache[a].ttl)
            BY <1>12 DEF Tick, Entry
        <3>2. cache[a].ttl \in Nat
            BY DEF Entry
        <3> QED
            BY <2>1, <3>1, <3>2, TimeAssumption DEF Fresh, Less
    <2>2. pc' = pc /\ acct' = acct
        BY <1>12 DEF Tick
    <2> QED
        BY <2>1, <2>2 DEF Fresh
<1>13. CASE UNCHANGED vars
    BY <1>13 DEF vars, Fresh
<1> QED
    BY <1>1, <1>2, <1>3, <1>4, <1>5, <1>6, <1>7, <1>8, <1>9, <1>10,
       <1>11, <1>12, <1>13 DEF Next, CallerStep, RefreshEnds

\* In the standalone program a refresh is only made when it is needed: the
\* second look at the cache, under the flight, is enough.
THEOREM RefreshOnlyIfNeeded ==
    ASSUME Validators = {}
    PROVE  Spec => []NoNeedlessRefresh
<1>1. Init => NoNeedlessRefresh
    BY DEF Init, NoNeedlessRefresh, Outstanding, Procs
<1> QED
    BY <1>1, NeedNext, TypeInvariant, FlightInvariant, PTL DEF Spec

-----------------------------------------------------------------------------
\* Where every transport honours the deadline: a token on its way back was
\* minted with more than Margin to live and is no older than its request, so a
\* token that arrives by the deadline has not expired.
DeadlineInv ==
    /\ \A p \in Procs : pc[p] = "reply" => got[p].ttl + age[p] > Margin
    /\ \A p \in Procs : got[p].err # "cancelled"
    /\ \A c \in Callers :
           pc[c] \in {"publish", "done"} /\ got[c].err = "none" => got[c].ttl > 0

LEMMA DeadlineNext ==
    ASSUME Hosted = {}
    PROVE  TypeInv /\ DeadlineInv /\ [Next]_vars => DeadlineInv'
<1> SUFFICES ASSUME TypeInv, DeadlineInv, [Next]_vars
             PROVE  DeadlineInv'
    OBVIOUS
<1> USE TimeAssumption, ProcsAssumption DEF TypeInv, TypeOK, Procs, DeadlineInv
<1>1. ASSUME NEW c \in Callers, NEW a \in Accounts, Start(c, a) PROVE DeadlineInv'
    BY <1>1 DEF Start, Nothing
<1>2. ASSUME NEW v \in Validators, NEW a \in Accounts, StartValidation(v, a)
      PROVE DeadlineInv'
    BY <1>2 DEF StartValidation, Nothing
<1>3. ASSUME NEW c \in Callers, CheckCache(c) PROVE DeadlineInv'
    BY <1>3 DEF CheckCache, Token, Fresh, Entry
<1>4. ASSUME NEW c \in Callers, EnterFlight(c) PROVE DeadlineInv'
    BY <1>4 DEF EnterFlight
<1>5. ASSUME NEW c \in Callers, Recheck(c) PROVE DeadlineInv'
    BY <1>5 DEF Recheck, Token, Fresh, Entry
<1>6. ASSUME NEW c \in Callers, Publish(c) PROVE DeadlineInv'
    BY <1>6 DEF Publish, Served
<1>7. ASSUME NEW p \in Procs, Mint(p) PROVE DeadlineInv'
    BY <1>7 DEF Mint, Token
<1>8. ASSUME NEW p \in Procs, Store(p) PROVE DeadlineInv'
    <2>1. got[p].ttl > 0
        <3>1. got[p].ttl \in Nat /\ age[p] \in 0 .. Timeout
            BY DEF Result
        <3> QED
            BY <1>8, <3>1 DEF Store
    <2> QED
        BY <1>8, <2>1 DEF Store, AfterRefresh
<1>9. ASSUME NEW p \in Procs, Fail(p) PROVE DeadlineInv'
    BY <1>9 DEF Fail, CallErrors, CancelReaches, AfterRefresh, Error
<1>10. ASSUME NEW p \in Procs, Return(p) PROVE DeadlineInv'
    BY <1>10 DEF Return, Nothing
<1>11. ASSUME NEW p \in Procs, Cancel(p) PROVE DeadlineInv'
    BY <1>11 DEF Cancel
<1>12. CASE Tick
    <2>1. pc' = pc /\ \A p \in Procs : pc[p] \in Resting
        BY <1>12 DEF Tick
    <2>2. ASSUME NEW p \in Procs
          PROVE  /\ got'[p].ttl = Less(got[p].ttl)
                 /\ got'[p].err = got[p].err
        BY <1>12 DEF Tick, Result
    <2>3. ASSUME NEW p \in Procs, pc[p] = "reply"
          PROVE  got'[p].ttl + age'[p] > Margin
        <3>1. age[p] # Timeout
            BY <1>12, <2>3 DEF Tick, DeadlineReached, Outstanding
        <3>2. age[p] < Timeout
            BY <3>1
        <3>4. age'[p] = age[p] + 1
            BY <1>12, <2>3, <3>2 DEF Tick, Outstanding
        <3>3. got[p].ttl \in Nat
            BY DEF Result
        <3> QED
            BY <2>2, <2>3, <3>2, <3>3, <3>4 DEF Less
    <2> QED
        BY <2>1, <2>2, <2>3 DEF Resting
<1>13. CASE UNCHANGED vars
    BY <1>13 DEF vars
<1> QED
    BY <1>1, <1>2, <1>3, <1>4, <1>5, <1>6, <1>7, <1>8, <1>9, <1>10,
       <1>11, <1>12, <1>13 DEF Next, CallerStep, RefreshEnds

LEMMA DeadlineInvariant ==
    ASSUME Hosted = {}
    PROVE  Spec => []DeadlineInv
<1>1. Init => DeadlineInv
    BY DEF Init, DeadlineInv, Nothing, Procs
<1> QED
    BY <1>1, DeadlineNext, TypeInvariant, PTL DEF Spec

\* With transports that honour the deadline no request is given an expired
\* token, however its refresh is delayed.
THEOREM UsableToken ==
    ASSUME Hosted = {}
    PROVE  Spec => []TokenUsable
<1>1. DeadlineInv => TokenUsable
    BY DEF DeadlineInv, TokenUsable
<1> QED
    BY <1>1, DeadlineInvariant, PTL

\* With transports that ignore the requests behind a refresh no request fails
\* because another one was cancelled.
THEOREM NoPoison ==
    ASSUME Hosted = {}
    PROVE  Spec => []CancelNotShared
<1>1. DeadlineInv => CancelNotShared
    BY DEF DeadlineInv, CancelNotShared, Procs
<1> QED
    BY <1>1, DeadlineInvariant, PTL

-----------------------------------------------------------------------------
\* The entry a refresh is about to replace was within Margin of expiring when
\* the refresh began, and has lost the time the refresh has taken.
AgedInv ==
    \A c \in Callers :
        Outstanding(c) => \/ cache[acct[c]].ttl = 0
                          \/ cache[acct[c]].ttl + age[c] <= Margin

\* A step that does not touch the cache or an outstanding refresh.
LEMMA AgedUnchanged ==
    ASSUME TypeInv, AgedInv, cache' = cache,
           \A c \in Callers :
               Outstanding(c)' => /\ Outstanding(c)
                                  /\ acct'[c] = acct[c]
                                  /\ age'[c] = age[c]
    PROVE  AgedInv'
BY DEF AgedInv

LEMMA AgedNext ==
    ASSUME Hosted = {}, Validators = {}
    PROVE  TypeInv /\ FlightInv /\ AgedInv /\ [Next]_vars => AgedInv'
<1> SUFFICES ASSUME TypeInv, FlightInv, AgedInv, [Next]_vars
             PROVE  AgedInv'
    OBVIOUS
<1> USE TimeAssumption DEF TypeInv, TypeOK, Procs, Outstanding
<1>1. ASSUME NEW c \in Callers, NEW a \in Accounts, Start(c, a) PROVE AgedInv'
    BY <1>1, AgedUnchanged DEF Start
<1>2. ASSUME NEW v \in Validators, NEW a \in Accounts, StartValidation(v, a)
      PROVE AgedInv'
    BY <1>2
<1>3. ASSUME NEW c \in Callers, CheckCache(c) PROVE AgedInv'
    BY <1>3, AgedUnchanged DEF CheckCache
<1>4. ASSUME NEW c \in Callers, EnterFlight(c) PROVE AgedInv'
    BY <1>4, AgedUnchanged DEF EnterFlight
<1>5. ASSUME NEW c \in Callers, Recheck(c) PROVE AgedInv'
    <2>1. CASE Fresh(cache[acct[c]])
        BY <1>5, <2>1, AgedUnchanged DEF Recheck
    <2>2. CASE ~Fresh(cache[acct[c]])
        <3>1. cache[acct[c]].ttl \in Nat
            BY DEF Entry
        <3>2. cache[acct[c]].ttl + 0 <= Margin
            BY <2>2, <3>1 DEF Fresh
        <3> QED
            BY <1>5, <2>2, <3>2 DEF Recheck, AgedInv
    <2> QED
        BY <2>1, <2>2
<1>6. ASSUME NEW c \in Callers, Publish(c) PROVE AgedInv'
    BY <1>6, AgedUnchanged DEF Publish, Served
<1>7. ASSUME NEW p \in Procs, Mint(p) PROVE AgedInv'
    BY <1>7, AgedUnchanged DEF Mint
<1>8. ASSUME NEW p \in Procs, Store(p) PROVE AgedInv'
    <2>1. p \in Callers /\ Leading(p) /\ pc'[p] = "publish"
        BY <1>8 DEF Store, AfterRefresh, Leading
    <2>2. ASSUME NEW c \in Callers, Outstanding(c)'
          PROVE  /\ Outstanding(c)
                 /\ acct[c] # acct[p]
        <3>1. c # p /\ pc'[c] = pc[c]
            BY <2>1, <2>2, <1>8 DEF Store
        <3>2. Leading(c)
            BY <2>2, <3>1 DEF Leading
        <3> QED
            BY <2>1, <2>2, <3>1, <3>2 DEF FlightInv
    <2> QED
        BY <1>8, <2>2 DEF Store, AgedInv
<1>9. ASSUME NEW p \in Procs, Fail(p) PROVE AgedInv'
    BY <1>9, AgedUnchanged DEF Fail, CallErrors, AfterRefresh
<1>10. ASSUME NEW p \in Procs, Return(p) PROVE AgedInv'
    BY <1>10, AgedUnchanged DEF Return
<1>11. ASSUME NEW p \in Procs, Cancel(p) PROVE AgedInv'
    BY <1>11, AgedUnchanged DEF Cancel
<1>12. CASE Tick
    <2>1. pc' = pc /\ acct' = acct
        BY <1>12 DEF Tick
    <2>2. ASSUME NEW c \in Callers, Outstanding(c)
          PROVE  /\ age[c] \in Nat
                 /\ age'[c] = age[c] + 1
                 /\ cache[acct[c]].ttl \in Nat
                 /\ cache'[acct[c]].ttl = Less(cache[acct[c]].ttl)
        <3>1. age[c] # Timeout
            BY <1>12, <2>2 DEF Tick, DeadlineReached
        <3>2. age[c] < Timeout
            BY <3>1
        <3>3. age'[c] = age[c] + 1
            BY <1>12, <2>2, <3>2 DEF Tick
        <3>4. cache[acct[c]] \in Entry
            BY DEF Entry
        <3>5. cache'[acct[c]] = [cache[acct[c]] EXCEPT !.ttl = Less(@)]
            BY <1>12 DEF Tick
        <3> QED
            BY <3>3, <3>4, <3>5 DEF Entry
    <2> QED
        BY <2>1, <2>2 DEF AgedInv, Less
<1>13. CASE UNCHANGED vars
    BY <1>13, AgedUnchanged DEF vars
<1> QED
    BY <1>1, <1>2, <1>3, <1>4, <1>5, <1>6, <1>7, <1>8, <1>9, <1>10,
       <1>11, <1>12, <1>13 DEF Next, CallerStep, RefreshEnds

\* In the standalone program a write of the cache never shortens the life of
\* the entry: the refresh that writes began when the old entry was nearly over
\* and, bounded as it is, brings back one that lasts longer.
THEOREM NoRegress ==
    ASSUME Hosted = {}, Validators = {}
    PROVE  Spec => ExpiryNeverRegresses
<1>1. Init => AgedInv
    BY DEF Init, AgedInv, Outstanding, Procs
<1>2. ASSUME TypeInv, DeadlineInv, AgedInv, Next, ~Tick, NEW a \in Accounts
      PROVE  cache'[a].ttl >= cache[a].ttl
    <2>1. ASSUME cache' = cache
          PROVE  cache'[a].ttl >= cache[a].ttl
        BY <1>2, <2>1 DEF TypeInv, TypeOK, Entry
    <2>2. ASSUME NEW p \in Procs, Store(p)
          PROVE  cache'[a].ttl >= cache[a].ttl
        <3>1. p \in Callers /\ Outstanding(p) /\ pc[p] = "reply"
            BY <2>2 DEF Store, Outstanding, Procs
        <3>2. /\ cache[acct[p]].ttl \in Nat /\ cache[a].ttl \in Nat
              /\ age[p] \in Nat /\ got[p].ttl \in Nat
            BY <1>2, TimeAssumption DEF TypeInv, TypeOK, Entry, Result
        <3>3. got[p].ttl + age[p] > Margin
            BY <1>2, <3>1 DEF DeadlineInv
        <3>4. got[p].ttl >= cache[acct[p]].ttl
            BY <1>2, <3>1, <3>2, <3>3, TimeAssumption DEF AgedInv
        <3>5. cache' = [cache EXCEPT ![acct[p]] = EntryOf(got[p])]
            BY <2>2 DEF Store
        <3>6. cache \in [Accounts -> Entry]
            BY <1>2 DEF TypeInv, TypeOK
        <3> QED
            BY <3>2, <3>4, <3>5, <3>6 DEF EntryOf
    <2>3. cache' = cache \/ \E p \in Procs : Store(p)
        BY <1>2 DEF Next, CallerStep, RefreshEnds, Start, StartValidation,
                    CheckCache, EnterFlight, Recheck, Publish, Mint, Fail,
                    Return, Cancel
    <2> QED
        BY <2>1, <2>2, <2>3
<1>3. TypeInv /\ DeadlineInv /\ AgedInv /\ [Next]_vars
        => [~Tick => \A a \in Accounts : cache'[a].ttl >= cache[a].ttl]_vars
    BY <1>2
<1> QED
    BY <1>1, <1>3, AgedNext, TypeInvariant, FlightInvariant, DeadlineInvariant, PTL
       DEF Spec, ExpiryNeverRegresses

-----------------------------------------------------------------------------
(***************************************************************************)
(* What a login guarantees for any number of polls, logins, codes and      *)
(* callbacks.  The argument is about the callback a poll holds: from the   *)
(* moment it was removed, the file of no login has that callback again,    *)
(* since a later submission is a later callback.                           *)
(***************************************************************************)
Holding(p) == step[p] # "idle"
Exchanging(p) == step[p] \in {"send", "exchange", "validate"}

\* What a poll may rely on about the callback it has read.
PollInv(p) ==
    /\ Holding(p) => /\ login[p] \in Logins
                     /\ taken[p] # 0
                     /\ callbacks[taken[p]].login = login[p]
    /\ Exchanging(p) => /\ Matches(callbacks[taken[p]], login[p])
                        /\ \A l \in Logins : file[l] # taken[p]
    /\ step[p] = "validate" => acct[p] = OwnerOf[CodeOf(p)]
    /\ answer[p] = "success" => /\ Matches(callbacks[taken[p]], login[p])
                                /\ acct[p] = OwnerOf[CodeOf(p)]
    /\ answer[p] # "none" => step[p] = "answer"

FilesInv == \A l \in Logins : file[l] # 0 => callbacks[file[l]].login = l

LoginInv ==
    /\ LoginTypeOK
    /\ TypeInv
    /\ AccountIsolation
    /\ FilesInv
    /\ \A p \in Validators : PollInv(p)
    /\ SentCodesGone

LEMMA LoginInitially == LoginInit => LoginInv
<1> SUFFICES ASSUME LoginInit PROVE LoginInv
    OBVIOUS
<1>1. TypeInv /\ TypeOK
    BY TypeInit DEF LoginInit, TypeInv
<1>2. AccountIsolation
    BY DEF LoginInit, Init, AccountIsolation, Nothing
<1>3. Len(callbacks) = 0 /\ DOMAIN callbacks = {}
    BY DEF LoginInit
<1>4. LoginTypeOK
    BY <1>1, <1>3 DEF LoginInit, LoginTypeOK
<1> QED
    BY <1>1, <1>2, <1>3, <1>4
       DEF LoginInit, LoginInv, FilesInv, PollInv, Holding, Exchanging, SentCodesGone

\* What a poll exchanges is a code.
LEMMA CodesExchanged ==
    ASSUME LoginInv, NEW p \in Validators, Exchanging(p)
    PROVE  callbacks[taken[p]].code \in Codes
<1>1. taken[p] \in 1 .. Len(callbacks) /\ callbacks \in Seq(Callback)
    BY DEF LoginInv, LoginTypeOK, PollInv, Holding, Exchanging
<1>2. callbacks[taken[p]] \in Callback
    BY <1>1
<1>3. callbacks[taken[p]].code # NoCode
    BY DEF LoginInv, PollInv, Matches
<1> QED
    BY <1>2, <1>3 DEF Callback

-----------------------------------------------------------------------------
\* The credential cache sees of a login nothing but validations of its own.
LEMMA LoginStepsOfCache ==
    ASSUME LoginInv, LoginNext
    PROVE  [Next]_vars
<1> USE DEF LoginInv, ProcsAssumption
<1>1. ASSUME NEW l \in Logins, Submit(l) PROVE UNCHANGED vars
    BY <1>1 DEF Submit
<1>2. ASSUME NEW p \in Validators, NEW l \in Logins, Poll(p, l) PROVE UNCHANGED vars
    BY <1>2 DEF Poll
<1>3. ASSUME NEW p \in Validators, PollStep(p) PROVE [Next]_vars
    <2>1. p \in Procs
        BY DEF Procs
    <2>2. CASE RemoveCallback(p) \/ SendCode(p) \/ Validated(p)
        BY <2>2 DEF RemoveCallback, SendCode, Validated
    <2>3. CASE PollReturns(p)
        BY <2>1, <2>3 DEF PollReturns, Next
    <2> QED
        BY <1>3, <2>2, <2>3 DEF PollStep
<1>4. ASSUME NEW p \in Validators, Exchange(p) PROVE Next
    <2>1. CodeOf(p) \in Codes
        BY <1>4, CodesExchanged DEF Exchange, Exchanging, CodeOf
    <2>2. OwnerOf[CodeOf(p)] \in Accounts
        BY <2>1, LoginAssumption
    <2> QED
        BY <1>4, <2>2 DEF Exchange, Next
<1>5. ASSUME NEW p \in Validators, ExchangeFails(p) PROVE UNCHANGED vars
    BY <1>5 DEF ExchangeFails
<1>6. ASSUME NEW p \in Validators, ValidationEnds(p) \/ HostStep(p) PROVE Next
    BY <1>6 DEF ValidationEnds, HostStep, Next, Procs
<1> QED
    BY <1>1, <1>2, <1>3, <1>4, <1>5, <1>6 DEF LoginNext, HandlerStep, ExchangeEnds

\* Only an exchange changes the account a poll works for.
LEMMA AccountsOfPolls ==
    ASSUME LoginInv, NEW p \in Validators,
           RefreshEnds(p) \/ Mint(p) \/ Cancel(p) \/ Return(p)
    PROVE  acct' = acct
BY DEF RefreshEnds, Store, Fail, Mint, Cancel, Return

LEMMA LoginStepInv ==
    ASSUME LoginInv, [LoginNext]_loginAndCache
    PROVE  LoginInv'
<1>1. [Next]_vars
    BY LoginStepsOfCache DEF loginAndCache
<1>2. TypeInv' /\ TypeOK' /\ AccountIsolation'
    BY <1>1, TypeNext, IsolationNext DEF LoginInv, TypeInv
<1> DEFINE Rest == /\ LoginTypeOK'
                   /\ FilesInv'
                   /\ \A p \in Validators : PollInv(p)'
                   /\ SentCodesGone'
<1> USE LoginAssumption, <1>2
        DEF LoginInv, LoginTypeOK, FilesInv, PollInv, Holding, Exchanging,
            SentCodesGone, CodeOf
<1>3. ASSUME NEW l \in Logins, Submit(l) PROVE Rest
    <2> DEFINE n == Len(callbacks) + 1
    <2>1. PICK c \in Callback : callbacks' = Append(callbacks, c) /\ c.login = l
        BY <1>3 DEF Submit, Callback
    <2>2. /\ callbacks' \in Seq(Callback)
          /\ Len(callbacks') = n
          /\ callbacks'[n] = c
          /\ \A i \in 1 .. Len(callbacks) : callbacks'[i] = callbacks[i]
        BY <2>1
    <2>3. /\ file' = [file EXCEPT ![l] = n]
          /\ UNCHANGED <<acct, sent, spent, step, login, taken, answer>>
        BY <1>3, <2>2 DEF Submit, vars
    <2>4. LoginTypeOK'
        BY <2>2, <2>3
    <2>5. FilesInv' /\ SentCodesGone'
        BY <2>1, <2>2, <2>3
    <2>6. ASSUME NEW p \in Validators PROVE PollInv(p)'
        BY <2>2, <2>3 DEF Matches
    <2> QED
        BY <2>4, <2>5, <2>6
<1>4. ASSUME NEW q \in Validators, NEW l \in Logins, Poll(q, l) PROVE Rest
    <2>1. /\ UNCHANGED <<acct, callbacks, file, sent, spent, answer>>
          /\ step' = [step EXCEPT ![q] = "decode"]
          /\ login' = [login EXCEPT ![q] = l]
          /\ taken' = [taken EXCEPT ![q] = file[l]]
          /\ step[q] = "idle" /\ file[l] # 0
        BY <1>4 DEF Poll, vars
    <2> QED
        BY <2>1
<1>5. ASSUME NEW q \in Validators, RemoveCallback(q) PROVE Rest
    <2>1. /\ UNCHANGED <<acct, callbacks, sent, spent, login, taken>>
          /\ step[q] = "decode"
          /\ file' = [file EXCEPT ![login[q]] = 0]
          /\ \/ /\ Matches(callbacks[taken[q]], login[q])
                /\ step' = [step EXCEPT ![q] = "send"] /\ answer' = answer
             \/ /\ step' = [step EXCEPT ![q] = "answer"]
                /\ answer' = [answer EXCEPT ![q] = "error"]
        BY <1>5 DEF RemoveCallback, Answer, vars
    <2>2. /\ login[q] \in Logins
          /\ \A l \in Logins : file'[l] = IF l = login[q] THEN 0 ELSE file[l]
        BY <2>1
    <2>3. FilesInv' /\ SentCodesGone'
        BY <2>1, <2>2
    <2>4. LoginTypeOK'
        <3>1. file' \in [Logins -> 0 .. Len(callbacks)]
            BY <2>1
        <3>2. /\ step' \in [Validators -> {"idle", "decode", "send", "exchange",
                                           "validate", "answer"}]
              /\ answer' \in [Validators -> {"none", "error", "success"}]
            BY <2>1
        <3> QED
            BY <2>1, <3>1, <3>2
    <2>5. \A l \in Logins : file'[l] # taken[q]
        BY <2>1, <2>2
    <2>6. ASSUME NEW p \in Validators PROVE PollInv(p)'
        BY <2>1, <2>2, <2>5
    <2> QED
        BY <2>3, <2>4, <2>6
<1>6. ASSUME NEW q \in Validators, SendCode(q) PROVE Rest
    <2>1. /\ UNCHANGED <<acct, callbacks, file, spent, login, taken, answer>>
          /\ step[q] = "send" /\ step' = [step EXCEPT ![q] = "exchange"]
          /\ sent' = sent \cup {taken[q]}
        BY <1>6 DEF SendCode, vars
    <2> QED
        BY <2>1
<1>7. ASSUME NEW q \in Validators, Exchange(q) PROVE Rest
    <2>1. /\ UNCHANGED <<callbacks, file, sent, login, taken, answer>>
          /\ step[q] = "exchange" /\ step' = [step EXCEPT ![q] = "validate"]
          /\ spent' = spent \cup {callbacks[taken[q]].code}
          /\ acct' = [acct EXCEPT ![q] = OwnerOf[callbacks[taken[q]].code]]
        BY <1>7 DEF Exchange, StartValidation
    <2>2. callbacks[taken[q]].code \in Codes
        BY <2>1, CodesExchanged
    <2>3. q \in DOMAIN acct
        BY DEF TypeOK, Procs
    <2> QED
        BY <2>1, <2>2, <2>3
<1>8. ASSUME NEW q \in Validators, ExchangeFails(q) PROVE Rest
    <2>1. /\ UNCHANGED <<acct, callbacks, file, sent, login, taken>>
          /\ step[q] = "exchange" /\ step' = [step EXCEPT ![q] = "answer"]
          /\ answer' = [answer EXCEPT ![q] = "error"]
          /\ spent' \in {spent, spent \cup {callbacks[taken[q]].code}}
        BY <1>8 DEF ExchangeFails, Answer, vars
    <2>2. callbacks[taken[q]].code \in Codes
        BY <2>1, CodesExchanged
    <2> QED
        BY <2>1, <2>2
<1>9. ASSUME NEW q \in Validators, Validated(q) PROVE Rest
    <2>1. PICK status \in {"success", "error"} :
              answer' = [answer EXCEPT ![q] = status]
        BY <1>9 DEF Validated, Answer
    <2>2. /\ UNCHANGED <<acct, callbacks, file, sent, spent, login, taken>>
          /\ step[q] = "validate" /\ step' = [step EXCEPT ![q] = "answer"]
        BY <1>9 DEF Validated, Answer, vars
    <2> QED
        BY <2>1, <2>2
<1>10. ASSUME NEW q \in Validators, PollReturns(q) PROVE Rest
    <2>1. acct' = acct
        BY <1>10, AccountsOfPolls DEF PollReturns, vars
    <2>2. /\ UNCHANGED <<callbacks, file, sent, spent>>
          /\ step' = [step EXCEPT ![q] = "idle"]
          /\ login' = [login EXCEPT ![q] = NoLogin]
          /\ taken' = [taken EXCEPT ![q] = 0]
          /\ answer' = [answer EXCEPT ![q] = "none"]
        BY <1>10 DEF PollReturns
    <2> QED
        BY <2>1, <2>2
<1>11. ASSUME NEW q \in Validators, ValidationEnds(q) \/ HostStep(q) PROVE Rest
    <2>1. acct' = acct /\ UNCHANGED loginVars
        BY <1>11, AccountsOfPolls DEF ValidationEnds, HostStep
    <2> QED
        BY <2>1 DEF loginVars
<1>12. CASE UNCHANGED loginAndCache
    BY <1>12 DEF loginAndCache, loginVars, vars
<1> HIDE DEF LoginInv, LoginTypeOK, FilesInv, PollInv, SentCodesGone
<1> QED
    BY <1>3, <1>4, <1>5, <1>6, <1>7, <1>8, <1>9, <1>10, <1>11, <1>12
       DEF LoginInv, LoginNext, HandlerStep, PollStep, ExchangeEnds

LEMMA LoginInvariant == LoginSpec => []LoginInv
BY LoginInitially, LoginStepInv, PTL DEF LoginSpec

-----------------------------------------------------------------------------
\* Whatever polls race and whatever is submitted meanwhile, a code that was sent
\* upstream is in no callback file any more: no later poll sends it again.
THEOREM SentOnce == LoginSpec => []SentCodesGone
<1>1. LoginInv => SentCodesGone
    BY DEF LoginInv
<1> QED
    BY LoginInvariant, <1>1, PTL

\* A login that succeeds is one for the account whose code was given to it.
THEOREM LoginsKeepApart == LoginSpec => []LoginOwnAccount
<1>1. LoginInv => LoginOwnAccount
    BY DEF LoginInv, LoginOwnAccount, PollInv, Holding, Matches, CodeOf,
           AccountIsolation, Procs
<1> QED
    BY LoginInvariant, <1>1, PTL

\* Logins implement the safety of the credential cache: whatever is proved of
\* the steps of JwtCache holds while users log in.
THEOREM LoginImplementsCache == LoginSpec => Init /\ [][Next]_vars
<1>1. LoginInit => Init
    BY DEF LoginInit
<1>2. LoginInv /\ [LoginNext]_loginAndCache => [Next]_vars
    BY LoginStepsOfCache DEF loginAndCache
<1> QED
    BY LoginInvariant, <1>1, <1>2, PTL DEF LoginSpec
=============================================================================
