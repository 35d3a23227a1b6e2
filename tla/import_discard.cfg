SPECIFICATION Spec
CONSTANTS
    Tabs = {t1}
    Browsers = {b1}
    Imports = {i1}
    Digests = {d1}
    Parts = {p1, p2}
    None = None
    Home <- Shared
    Digest <- OwnFile
    ImportOf <- Packed
    MaxLandings = 2
    Events = {"refused", "drop"}
CHECK_DEADLOCK FALSE
INVARIANTS DiscardSticks
