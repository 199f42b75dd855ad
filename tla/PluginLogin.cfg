SPECIFICATION LoginSpec
CONSTANTS
    Accounts = {a1, a2}
    Callers = {}
    Validators = {p1, p2}
    Hosted = {p1, p2}
    Lifetimes = {1}
    Margin = 0
    Timeout = 0
    Logins = {l1, l2}
    Codes = {a1, a2}
    OwnerOf <- OwnCode
    NoLogin = NoLogin
    NoCode = NoCode
    MaxCallbacks = 2
INVARIANTS
    LoginOwnAccount
    SentCodesGone
PROPERTIES
    CallbackAnswered
CHECK_DEADLOCK FALSE
