\* The standalone program: every request refreshes through refreshGroup with a
\* transport that honours the deadline.
SPECIFICATION Spec
CONSTANTS
    Accounts = {a1, a2}
    Callers = {c1, c2, c3}
    Validators = {}
    Hosted = {}
    Lifetimes = {2}
    Margin = 1
    Timeout = 1
INVARIANTS
    AccountIsolation
    CallersShareRefresh
    WaitersHaveLeader
    NoNeedlessRefresh
    TokenUsable
    CancelNotShared
PROPERTIES
    ExpiryNeverRegresses
    CallersReturn
