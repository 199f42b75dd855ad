------------------------------- MODULE Login --------------------------------
(***************************************************************************)
(* The login of the plugin, auth_provider.go: startLogin hands out a state *)
(* and keeps nothing; the host writes what the user submits for a state to *)
(* a callback file; each poll of that state looks for the file, takes it   *)
(* away, has its one-time code exchanged for a session token, validates    *)
(* the token as JwtCache's validateCredentials does, and answers.          *)
(*                                                                         *)
(* The goroutines that run polls are validators of JwtCache.  Callbacks    *)
(* are numbered as they are submitted; a file holds such a number.  The    *)
(* directory is one the plugin may read and write: reading and removing    *)
(* fail only without a file.  A poll that finds no file answers "pending"  *)
(* and changes nothing.                                                    *)
(***************************************************************************)
EXTENDS JwtCache, Sequences

CONSTANTS
    Logins,       \* states handed out by startLogin
    Codes,        \* one-time codes of the upstream
    OwnerOf,      \* the account each code was issued to
    NoLogin,      \* the login of a goroutine that runs no poll
    NoCode,       \* a callback that is malformed, or has an error or no code
    MaxCallbacks  \* bound: callbacks submitted in a behaviour

ASSUME LoginAssumption ==
    /\ OwnerOf \in [Codes -> Accounts]
    /\ NoCode \notin Codes
    /\ NoLogin \notin Logins
    /\ MaxCallbacks \in Nat

VARIABLES
    callbacks,  \* what was submitted, in order
    file,       \* the callback in the file of each login, 0 without a file
    sent,       \* callbacks whose code was sent upstream
    spent,      \* codes the upstream has exchanged
    step,       \* where each poll is
    login,      \* the login each poll is for
    taken,      \* the callback each poll has read
    answer      \* what each poll answers

loginVars == <<callbacks, file, sent, spent, step, login, taken, answer>>
loginAndCache == <<vars, loginVars>>

Callback == [login : Logins, state : Logins, code : Codes \cup {NoCode}]

LoginTypeOK ==
    /\ TypeOK
    /\ callbacks \in Seq(Callback)
    /\ file \in [Logins -> 0 .. Len(callbacks)]
    /\ sent \subseteq DOMAIN callbacks
    /\ spent \subseteq Codes
    /\ step \in [Validators -> {"idle", "decode", "send", "exchange",
                                "validate", "answer"}]
    /\ login \in [Validators -> Logins \cup {NoLogin}]
    /\ taken \in [Validators -> 0 .. Len(callbacks)]
    /\ answer \in [Validators -> {"none", "error", "success"}]

-----------------------------------------------------------------------------
LoginInit ==
    /\ Init
    /\ callbacks = <<>>
    /\ file = [l \in Logins |-> 0]
    /\ sent = {}
    /\ spent = {}
    /\ step = [p \in Validators |-> "idle"]
    /\ login = [p \in Validators |-> NoLogin]
    /\ taken = [p \in Validators |-> 0]
    /\ answer = [p \in Validators |-> "none"]

\* The host writes what it was given for login l, over what it wrote before.
Submit(l) ==
    /\ Len(callbacks) < MaxCallbacks
    /\ \E s \in Logins, k \in Codes \cup {NoCode} :
           /\ k = NoCode => s = l
           /\ callbacks' = Append(callbacks, [login |-> l, state |-> s, code |-> k])
    /\ file' = [file EXCEPT ![l] = Len(callbacks')]
    /\ UNCHANGED <<vars, sent, spent, step, login, taken, answer>>

Answer(p, status) ==
    /\ step' = [step EXCEPT ![p] = "answer"]
    /\ answer' = [answer EXCEPT ![p] = status]

\* A poll of login l finds its file and reads it.
Poll(p, l) ==
    /\ step[p] = "idle"
    /\ pc[p] = "idle"
    /\ file[l] # 0
    /\ taken' = [taken EXCEPT ![p] = file[l]]
    /\ login' = [login EXCEPT ![p] = l]
    /\ step' = [step EXCEPT ![p] = "decode"]
    /\ UNCHANGED <<vars, callbacks, file, sent, spent, answer>>

\* Whether a callback is for login l and has a code; any other ends the poll.
AnyState(c, l) == c.code # NoCode
Matches(c, l) == c.state = l /\ c.code # NoCode

KeepGoodCallback(p) ==
    /\ step[p] = "decode"
    /\ IF Matches(callbacks[taken[p]], login[p])
       THEN step' = [step EXCEPT ![p] = "send"] /\ UNCHANGED <<answer, file>>
       ELSE Answer(p, "error") /\ file' = [file EXCEPT ![login[p]] = 0]
    /\ UNCHANGED <<vars, callbacks, sent, spent, login, taken>>

WaitForBetter(p) ==
    /\ step[p] = "decode"
    /\ file' = [file EXCEPT ![login[p]] = 0]
    /\ step' = [step EXCEPT ![p] = IF Matches(callbacks[taken[p]], login[p])
                                   THEN "send" ELSE "idle"]
    /\ UNCHANGED <<vars, callbacks, sent, spent, login, taken, answer>>

\* os.Remove, of whatever the file holds by now, then the callback is decoded.
RemoveCallback(p) ==
    /\ step[p] = "decode"
    /\ file' = [file EXCEPT ![login[p]] = 0]
    /\ IF Matches(callbacks[taken[p]], login[p])
       THEN step' = [step EXCEPT ![p] = "send"] /\ UNCHANGED answer
       ELSE Answer(p, "error")
    /\ UNCHANGED <<vars, callbacks, sent, spent, login, taken>>

\* exchangeDevinCode sends the code.
SendCode(p) ==
    /\ step[p] = "send"
    /\ sent' = sent \cup {taken[p]}
    /\ step' = [step EXCEPT ![p] = "exchange"]
    /\ UNCHANGED <<vars, callbacks, file, spent, login, taken, answer>>

CodeOf(p) == callbacks[taken[p]].code

\* The upstream exchanges a code once; validateCredentials follows.
Exchange(p) ==
    /\ step[p] = "exchange"
    /\ CodeOf(p) \notin spent
    /\ spent' = spent \cup {CodeOf(p)}
    /\ StartValidation(p, OwnerOf[CodeOf(p)])
    /\ step' = [step EXCEPT ![p] = "validate"]
    /\ UNCHANGED <<callbacks, file, sent, login, taken, answer>>

\* The exchange is refused, or fails on its way there or back.
ExchangeFails(p) ==
    /\ step[p] = "exchange"
    /\ Answer(p, "error")
    /\ spent' \in {spent, spent \cup {CodeOf(p)}}
    /\ UNCHANGED <<vars, callbacks, file, sent, login, taken>>

\* The validation has ended.  A catalogue that cannot be fetched then does not
\* make the login fail.
Validated(p) ==
    /\ step[p] = "validate"
    /\ pc[p] = "done"
    /\ Answer(p, IF got[p].err = "none" THEN "success" ELSE "error")
    /\ UNCHANGED <<vars, callbacks, file, sent, spent, login, taken>>

\* The answer is given; a validation of the poll ends with it.
PollReturns(p) ==
    /\ step[p] = "answer"
    /\ IF pc[p] = "done" THEN Return(p) ELSE UNCHANGED vars
    /\ step' = [step EXCEPT ![p] = "idle"]
    /\ login' = [login EXCEPT ![p] = NoLogin]
    /\ taken' = [taken EXCEPT ![p] = 0]
    /\ answer' = [answer EXCEPT ![p] = "none"]
    /\ UNCHANGED <<callbacks, file, sent, spent>>

-----------------------------------------------------------------------------
PollStep(p) ==
    \/ RemoveCallback(p)
    \/ SendCode(p)
    \/ Validated(p)
    \/ PollReturns(p)

ExchangeEnds(p) == Exchange(p) \/ ExchangeFails(p)

\* A poll's validation starts with its exchange and ends with its answer; in
\* between it is one of JwtCache's.  The validations of auth.refresh and chat
\* requests, which share the cache with it, are in JwtCache.
ValidationEnds(p) == RefreshEnds(p) /\ UNCHANGED loginVars

HostStep(p) == (Mint(p) \/ Cancel(p)) /\ UNCHANGED loginVars

HandlerStep(p) == PollStep(p) \/ ExchangeEnds(p) \/ ValidationEnds(p)

LoginNext ==
    \/ \E l \in Logins : Submit(l)
    \/ \E p \in Validators, l \in Logins : Poll(p, l)
    \/ \E p \in Validators : HandlerStep(p) \/ HostStep(p)

\* The host goes on polling every login that is pending, handlers run, and the
\* calls they make through the host end.  Nothing else is assumed of the host or
\* the upstream.
LoginFairness ==
    /\ \A l \in Logins : SF_loginAndCache(\E p \in Validators : Poll(p, l))
    /\ \A p \in Validators : WF_loginAndCache(HandlerStep(p))

LoginSpec == LoginInit /\ [][LoginNext]_loginAndCache /\ LoginFairness

-----------------------------------------------------------------------------
\* A login that succeeds yields the account whose code was submitted for that
\* very login, whatever other logins, polls and requests do meanwhile: the
\* record pollLogin builds and the token it validated are that account's.
LoginOwnAccount ==
    \A p \in Validators :
        answer[p] = "success" =>
            LET c == callbacks[taken[p]] IN
            /\ c.login = login[p] /\ c.state = login[p]
            /\ acct[p] = OwnerOf[c.code]
            /\ got[p].acct = acct[p]

\* Once the code of a callback is on its way upstream no later poll can read
\* that callback again: pollLogin removes the file before it sends the code.
SentCodesGone ==
    \A l \in Logins : file[l] \notin sent

\* What is submitted is answered: a callback in the file of a login leads to a
\* poll of that login that answers "error" or "success", however polls race
\* for it.
Answered(l) == \E p \in Validators : login[p] = l /\ answer[p] \in {"error", "success"}
CallbackAnswered == \A l \in Logins : file[l] # 0 ~> Answered(l)
=============================================================================
