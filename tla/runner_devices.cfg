SPECIFICATION Spec
CONSTANTS
    Tabs = {t1, t2, t3}
    Browsers = {b1, b2}
    Imports = {i1}
    Digests = {d1}
    Parts = {p1}
    None = None
    Home <- Shared
    Digest <- OwnFile
    ImportOf <- Packed
    MaxLandings = 2
    Events = {"lost"}
CHECK_DEADLOCK FALSE
INVARIANTS Accounted ReceiptFirst OneWriter
