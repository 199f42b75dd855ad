\* A token replaced while its record is being refreshed.
SPECIFICATION Spec
CONSTANTS
    AuthIds = {r1}
    Tokens = {t1, t2}
    None = None
    Background = {b1, b2}
    Handlers = {}
    Overrides = {}
    KeptOnEdit = {FALSE}
    MaxEdits = 1
PROPERTIES
    EditsStick
