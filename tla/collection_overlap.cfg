SPECIFICATION Spec
CONSTANTS
    c1 = c1
    c2 = c2
    x = x
    Cards = {c1, c2}
    Places = {x}
    Unfiled = Unfiled
    COPIES = 3
    Tabs = {t1}
    Parts = {1}
    File <- Repeating
    Start <- Two
    Keys = 4
    Presses = 2
    Events = {"overlap"}
CHECK_DEADLOCK FALSE
INVARIANT Asked
