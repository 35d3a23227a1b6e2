SPECIFICATION Spec
CONSTANTS
    CardRows <- CardsHeld
    PrintRows <- PrintsHeld
    CardTables <- CardsHeader
    PrintTables <- PrintsHeader
    FOUND = 2
    SUPER = {"legendary"}
    TYPES = {"creature"}
    Subtypes = {"goblin", "elf", "bear"}
    MANY <- CountsOffered
    Orders <- OrdersOffered
    Typed <- TypedTexts
    Plain <- PlainTexts
    Pressable <- Buttons
    MaxMoves = 3
INVARIANTS Steered Unmixed Found
CHECK_DEADLOCK FALSE
