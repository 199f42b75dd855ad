\* A token replaced in place, with model_catalog left in the file.
SPECIFICATION Spec
CONSTANTS
    AuthIds = {r1}
    Tokens = {t1, t2}
    None = None
    Background = {b1, b2}
    Handlers = {}
    Overrides = {}
    KeptOnEdit = {TRUE}
    MaxEdits = 1
INVARIANTS
    CatalogIsolation
