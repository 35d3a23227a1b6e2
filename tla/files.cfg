SPECIFICATION Spec
CONSTANTS
    COPIES = 4
    LOTS = 2
    TAGS = 2
    Now = 9
    Printing <- ThePrinting
    Goods <- SomeGoods
    Strangers <- SomeStrangers
    Places <- ThePlaces
    Added <- SomeAdded
    Keys = 3
    Picks = 2
    Edits = 1
INVARIANTS NeverShort LossNamed Recognized Promised
CHECK_DEADLOCK FALSE
