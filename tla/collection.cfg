SPECIFICATION Spec
CONSTANTS
    c1 = c1
    c2 = c2
    x = x
    Cards = {c1, c2}
    Places = {x}
    Unfiled = Unfiled
    COPIES = 3
    Tabs = {t1}
    Parts = {1, 2}
    File <- Placed
    Start <- Two
    Keys = 4
    Presses = 2
    Events = {"overlap", "together", "mixed", "waits", "fails", "untold", "stuck", "lost", "dies"}
CHECK_DEADLOCK FALSE
INVARIANTS TypeOK Kept NeverFewer Seen
PROPERTIES Filed
