\* The plugin, against "one caller cancelling does not poison the shared
\* refresh for others".
SPECIFICATION Spec
CONSTANTS
    Accounts = {a1}
    Callers = {c1, c2}
    Validators = {}
    Hosted = {c1, c2}
    Lifetimes = {2}
    Margin = 1
    Timeout = 1
INVARIANTS
    CancelNotShared
