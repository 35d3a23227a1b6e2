SPECIFICATION Spec
CONSTANTS
    p1 = p1
    p2 = p2
    Printings = {p1, p2}
    Made <- TwoMade
    FLOOR = 5
    COPIES = 2
    Reads <- SomeReads
    Grades = {"nearMint", "played"}
    USUALLY = "nearMint"
    Legacy = "unset"
    Unset = "unset"
    Takes = 2
    Moves = 1
    Starts = 2
    Events = {"leaves", "fails", "dies"}
CHECK_DEADLOCK FALSE
INVARIANTS SavedStays KeptOnce
