SPECIFICATION Spec
CONSTANTS
    Tabs = {t1}
    Browsers = {b1}
    Imports = {i1, i2}
    Digests = {d1, d2}
    Parts = {p1, p2, p3}
    None = None
    Home <- Shared
    Digest <- OwnFile
    ImportOf <- Packed
    MaxLandings = 2
    Events = {"lost", "refused", "named", "unlisted", "full", "close", "halt", "carryOn", "drop"}
CHECK_DEADLOCK FALSE
INVARIANTS TypeOK NeverLost Sheltered StopSticks NoRevival
PROPERTIES KeepsPromise DoneIsDone
