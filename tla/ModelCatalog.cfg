\* Two records, which may hold the same token; the attributes of one may carry
\* another token.  An edit drops the catalogue.
SPECIFICATION Spec
CONSTANTS
    AuthIds = {r1, r2}
    Tokens = {t1, t2}
    None = None
    Background = {b1, b2}
    Handlers = {h1}
    Overrides = {r1}
    KeptOnEdit = {FALSE}
    MaxEdits = 1
SYMMETRY Symmetric
INVARIANTS
    OneBackgroundRefresh
    TablesIsolation
    PersistedIsolation
