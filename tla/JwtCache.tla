------------------------------ MODULE JwtCache ------------------------------
(***************************************************************************)
(* The credential cache of auth.go: the map jwts, keyed by session token,  *)
(* and the singleflight group refreshGroup in front of GetUserJwt.  Every  *)
(* chat request runs getValidJWT; in the plugin the auth RPCs (login poll  *)
(* and auth refresh) also run validateCredentials, which calls refreshJWT  *)
(* and writes the cache without going through the group.                   *)
(*                                                                         *)
(* An account stands for its session token.  A token is reduced to its     *)
(* account and to the time it has left, so that time needs no bound: Tick  *)
(* takes one unit from everything that is running out.  An absent cache    *)
(* entry behaves as one with no time left, and is represented by it.       *)
(***************************************************************************)
EXTENDS Naturals

CONSTANTS
    Accounts,     \* session tokens
    Callers,      \* goroutines that run getValidJWT
    Validators,   \* goroutines that run validateCredentials (plugin only)
    Hosted,       \* processes whose HTTP client is the plugin's host transport
    Lifetimes,    \* lifetimes the upstream may give a new token
    Margin,       \* time.Minute of getValidJWT
    Timeout       \* the 20 seconds of refreshCtx

Procs == Callers \cup Validators

ASSUME ProcsAssumption ==
    /\ Callers \cap Validators = {}
    /\ Hosted \subseteq Procs

\* A new token outlives the margin (60 s) within which the cache would refuse
\* it, and the margin is no shorter than the refresh deadline (20 s).
ASSUME TimeAssumption ==
    /\ Margin \in Nat
    /\ Timeout \in Nat
    /\ Timeout <= Margin
    /\ Lifetimes \subseteq Nat
    /\ \A life \in Lifetimes : life > Margin

VARIABLES
    cache,      \* jwts.m: the entry of each account
    inFlight,   \* keys of refreshGroup that have a call running
    pc,         \* where each process is
    acct,       \* the account each process works for
    got,        \* what each process has in hand: an entry and an error
    age,        \* time since the process's GetUserJwt was sent
    cancelled   \* whether the request the process serves was cancelled

vars == <<cache, inFlight, pc, acct, got, age, cancelled>>

Entry == [acct : Accounts, ttl : Nat]
Result == [acct : Accounts, ttl : Nat, err : {"none", "upstream", "cancelled"}]

\* "check", "recheck": before the two looks at the cache.  "join": before
\* refreshGroup.Do.  "wait": in Do behind another call.  "rpc", "reply":
\* GetUserJwt sent, and answered by the upstream.  "publish": the function
\* given to Do has returned.  "done": the caller has its result.
Steps == {"idle", "check", "join", "wait", "recheck", "rpc", "reply",
          "publish", "done"}

\* No time passes while a process has a step of its own to take.
Resting == {"idle", "wait", "rpc", "reply"}

TypeOK ==
    /\ cache \in [Accounts -> Entry]
    /\ inFlight \subseteq Accounts
    /\ pc \in [Procs -> Steps]
    /\ acct \in [Procs -> Accounts]
    /\ got \in [Procs -> Result]
    /\ age \in [Procs -> 0 .. Timeout]
    /\ cancelled \in [Procs -> BOOLEAN]

-----------------------------------------------------------------------------
Nothing(a) == [acct |-> a, ttl |-> 0, err |-> "none"]
Error(a, e) == [acct |-> a, ttl |-> 0, err |-> e]
Token(a, t) == [acct |-> a, ttl |-> t, err |-> "none"]
EntryOf(r) == [acct |-> r.acct, ttl |-> r.ttl]

Fresh(e) == e.ttl > Margin

\* The key given to refreshGroup.Do.
SharedKey(a) == CHOOSE b \in Accounts : TRUE
FlightKey(a) == a

\* Whether the transport under p's GetUserJwt sees that p's request is gone.
\* refreshCtx is detached from the request; the plugin's transport passes the
\* request's host_callback_id instead, whose calls the host cancels.
RequestContextUsed(p) == cancelled[p]
CancelReaches(p) == p \in Hosted /\ cancelled[p]

Outstanding(p) == pc[p] \in {"rpc", "reply"}

AfterRefresh(p) == IF p \in Callers THEN "publish" ELSE "done"

Init ==
    \E a \in Accounts :
        /\ cache = [b \in Accounts |-> [acct |-> b, ttl |-> 0]]
        /\ inFlight = {}
        /\ pc = [p \in Procs |-> "idle"]
        /\ acct = [p \in Procs |-> a]
        /\ got = [p \in Procs |-> Nothing(a)]
        /\ age = [p \in Procs |-> 0]
        /\ cancelled = [p \in Procs |-> FALSE]

-----------------------------------------------------------------------------
\* A request for account a calls getValidJWT.
Start(c, a) ==
    /\ pc[c] = "idle"
    /\ pc' = [pc EXCEPT ![c] = "check"]
    /\ acct' = [acct EXCEPT ![c] = a]
    /\ got' = [got EXCEPT ![c] = Nothing(a)]
    /\ UNCHANGED <<cache, inFlight, age, cancelled>>

\* validateCredentials sends GetUserJwt at once.
StartValidation(v, a) ==
    /\ pc[v] = "idle"
    /\ pc' = [pc EXCEPT ![v] = "rpc"]
    /\ acct' = [acct EXCEPT ![v] = a]
    /\ got' = [got EXCEPT ![v] = Nothing(a)]
    /\ age' = [age EXCEPT ![v] = 0]
    /\ UNCHANGED <<cache, inFlight, cancelled>>

\* First look at the cache, outside the group.
CheckCache(c) ==
    /\ pc[c] = "check"
    /\ \/ /\ Fresh(cache[acct[c]])
          /\ got' = [got EXCEPT ![c] = Token(cache[acct[c]].acct, cache[acct[c]].ttl)]
          /\ pc' = [pc EXCEPT ![c] = "done"]
       \/ /\ ~Fresh(cache[acct[c]])
          /\ pc' = [pc EXCEPT ![c] = "join"]
          /\ UNCHANGED got
    /\ UNCHANGED <<cache, inFlight, acct, age, cancelled>>

EnterAlone(c) ==
    /\ pc[c] = "join"
    /\ inFlight' = inFlight \cup {FlightKey(acct[c])}
    /\ pc' = [pc EXCEPT ![c] = "recheck"]
    /\ UNCHANGED <<cache, acct, got, age, cancelled>>

\* refreshGroup.Do: lead a new call, or wait for the one that is running.
EnterFlight(c) ==
    /\ pc[c] = "join"
    /\ \/ /\ FlightKey(acct[c]) \notin inFlight
          /\ inFlight' = inFlight \cup {FlightKey(acct[c])}
          /\ pc' = [pc EXCEPT ![c] = "recheck"]
       \/ /\ FlightKey(acct[c]) \in inFlight
          /\ pc' = [pc EXCEPT ![c] = "wait"]
          /\ UNCHANGED inFlight
    /\ UNCHANGED <<cache, acct, got, age, cancelled>>

\* Second look, by the leader: another call may have ended since the first.
\* Without a usable entry the leader sends GetUserJwt.
RecheckDropped(c) ==
    /\ pc[c] = "recheck"
    /\ pc' = [pc EXCEPT ![c] = "rpc"]
    /\ age' = [age EXCEPT ![c] = 0]
    /\ UNCHANGED <<cache, inFlight, acct, got, cancelled>>

Recheck(c) ==
    /\ pc[c] = "recheck"
    /\ \/ /\ Fresh(cache[acct[c]])
          /\ got' = [got EXCEPT ![c] = Token(cache[acct[c]].acct, cache[acct[c]].ttl)]
          /\ pc' = [pc EXCEPT ![c] = "publish"]
          /\ UNCHANGED age
       \/ /\ ~Fresh(cache[acct[c]])
          /\ pc' = [pc EXCEPT ![c] = "rpc"]
          /\ age' = [age EXCEPT ![c] = 0]
          /\ UNCHANGED got
    /\ UNCHANGED <<cache, inFlight, acct, cancelled>>

\* The upstream mints a token; the answer is on its way.
Mint(p) ==
    /\ pc[p] = "rpc"
    /\ \E life \in Lifetimes : got' = [got EXCEPT ![p] = Token(acct[p], life)]
    /\ pc' = [pc EXCEPT ![p] = "reply"]
    /\ UNCHANGED <<cache, inFlight, acct, age, cancelled>>

\* refreshJWT returns the new token and it is put in the cache, whatever the
\* cache holds by then.
Store(p) ==
    /\ pc[p] = "reply"
    /\ cache' = [cache EXCEPT ![acct[p]] = EntryOf(got[p])]
    /\ pc' = [pc EXCEPT ![p] = AfterRefresh(p)]
    /\ UNCHANGED <<inFlight, acct, got, age, cancelled>>

\* refreshJWT fails: network, HTTP status, an answer without a token, or, for
\* a transport that honours refreshCtx, the deadline; or the transport gives up
\* because the request it serves is gone.
CallErrors(p) == {"upstream"} \cup (IF CancelReaches(p) THEN {"cancelled"} ELSE {})

Fail(p) ==
    /\ Outstanding(p)
    /\ \E e \in CallErrors(p) : got' = [got EXCEPT ![p] = Error(acct[p], e)]
    /\ pc' = [pc EXCEPT ![p] = AfterRefresh(p)]
    /\ UNCHANGED <<cache, inFlight, acct, age, cancelled>>

\* The call leaves the group and its result goes to the leader and to every
\* caller waiting for it.
Served(c) == {c} \cup {d \in Callers : /\ pc[d] = "wait"
                                       /\ FlightKey(acct[d]) = FlightKey(acct[c])}

PublishToLeaderOnly(c) ==
    /\ pc[c] = "publish"
    /\ inFlight' = inFlight \ {FlightKey(acct[c])}
    /\ pc' = [pc EXCEPT ![c] = "done"]
    /\ UNCHANGED <<cache, got, acct, age, cancelled>>

Publish(c) ==
    /\ pc[c] = "publish"
    /\ inFlight' = inFlight \ {FlightKey(acct[c])}
    /\ pc' = [p \in Procs |-> IF p \in Served(c) THEN "done" ELSE pc[p]]
    /\ got' = [p \in Procs |-> IF p \in Served(c) THEN got[c] ELSE got[p]]
    /\ UNCHANGED <<cache, acct, age, cancelled>>

\* The process's request ends; the process may serve another one.
Return(p) ==
    /\ pc[p] = "done"
    /\ pc' = [pc EXCEPT ![p] = "idle"]
    /\ got' = [got EXCEPT ![p] = Nothing(acct[p])]
    /\ age' = [age EXCEPT ![p] = 0]
    /\ cancelled' = [cancelled EXCEPT ![p] = FALSE]
    /\ UNCHANGED <<cache, inFlight, acct>>

\* The client of p's request disconnects.
Cancel(p) ==
    /\ pc[p] # "idle"
    /\ ~cancelled[p]
    /\ cancelled' = [cancelled EXCEPT ![p] = TRUE]
    /\ UNCHANGED <<cache, inFlight, pc, acct, got, age>>

\* Time passes.  A GetUserJwt under refreshCtx cannot outlast the deadline;
\* the plugin's transport never looks at the context.
Less(n) == IF n > 0 THEN n - 1 ELSE 0

DeadlineMissing(p) == FALSE
DeadlineReached(p) == Outstanding(p) /\ p \notin Hosted /\ age[p] = Timeout

Tick ==
    /\ \A p \in Procs : pc[p] \in Resting /\ ~DeadlineReached(p)
    /\ cache' = [a \in Accounts |-> [cache[a] EXCEPT !.ttl = Less(@)]]
    /\ got' = [p \in Procs |-> [got[p] EXCEPT !.ttl = Less(@)]]
    /\ age' = [p \in Procs |-> IF Outstanding(p) /\ age[p] < Timeout
                               THEN age[p] + 1 ELSE age[p]]
    /\ UNCHANGED <<inFlight, pc, acct, cancelled>>

-----------------------------------------------------------------------------
CallerStep(c) ==
    \/ CheckCache(c)
    \/ EnterFlight(c)
    \/ Recheck(c)
    \/ Publish(c)

\* The ends a GetUserJwt may come to.
RefreshEnds(p) == Store(p) \/ Fail(p)

Next ==
    \/ \E c \in Callers, a \in Accounts : Start(c, a)
    \/ \E v \in Validators, a \in Accounts : StartValidation(v, a)
    \/ \E c \in Callers : CallerStep(c)
    \/ \E p \in Procs : Mint(p) \/ RefreshEnds(p) \/ Return(p) \/ Cancel(p)
    \/ Tick

\* Goroutines run.  A GetUserJwt ends because its deadline makes it end; where
\* the transport ignores the deadline, nothing in this code makes it end.
Fairness ==
    /\ \A c \in Callers : WF_vars(CallerStep(c))
    /\ \A p \in Procs : WF_vars(Return(p))
    /\ \A p \in Procs \ Hosted : WF_vars(RefreshEnds(p))

Spec == Init /\ [][Next]_vars /\ Fairness

-----------------------------------------------------------------------------
\* A request never receives, and the cache never holds, a token of another
\* account: getValidJWT shares a flight and an entry by session token.
AccountIsolation ==
    /\ \A a \in Accounts : cache[a].acct = a
    /\ \A p \in Procs : got[p].acct = acct[p]

\* Requests that find the token expired together share one GetUserJwt: at most
\* one caller of getValidJWT refreshes an account at a time.
CallersShareRefresh ==
    \A c, d \in Callers :
        Outstanding(c) /\ Outstanding(d) /\ acct[c] = acct[d] => c = d

\* A request waiting in refreshGroup.Do waits for a call that is running for
\* its own account: no end of a call leaves a waiter behind.
Leading(c) == pc[c] \in {"recheck", "rpc", "reply", "publish"}

WaitersHaveLeader ==
    \A c \in Callers :
        pc[c] = "wait" => \E d \in Callers : Leading(d) /\ acct[d] = acct[c]

\* A refresh is made only when it is needed: while a caller's GetUserJwt is
\* outstanding the cache has no usable token for that account.  The second
\* look at the cache, under the flight, is what guarantees it.
NoNeedlessRefresh ==
    \A c \in Callers : Outstanding(c) => ~Fresh(cache[acct[c]])

\* getValidJWT returns a token that has not expired: the deadline of the
\* refresh is shorter than the margin that a new token outlives.
TokenUsable ==
    \A c \in Callers :
        pc[c] = "done" /\ got[c].err = "none" => got[c].ttl > 0

\* A caller that was not cancelled never fails because another one was: "one
\* caller cancelling does not poison the shared refresh for others".
CancelNotShared ==
    \A c \in Callers :
        pc[c] = "done" /\ got[c].err = "cancelled" => cancelled[c]

\* Writing the cache never replaces a token by one that expires sooner.
ExpiryNeverRegresses ==
    [][~Tick => \A a \in Accounts : cache'[a].ttl >= cache[a].ttl]_vars

\* Every request that asks for a token gets a token or an error: the refresh
\* it may wait for is bounded, and its end releases every waiter.
CallersReturn ==
    \A c \in Callers : pc[c] = "check" ~> pc[c] = "done"
=============================================================================
