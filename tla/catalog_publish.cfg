SPECIFICATION FairSpec
CONSTANTS
    c1 = c1
    c2 = c2
    p1 = p1
    a1 = a1
    Files = {c1, c2, p1, a1}
    None = None
    MaxBuild = 3
    REFRESH = 9
    RETRY = 1
    RETRY_MAX = 3
    Cards <- CardsOf
    Prints <- PrintsOf
    Artwork <- ArtworkOf
    Events = {"fails", "lost", "dies"}
INVARIANTS TypeOK SendsWhole SleepsPublished
PROPERTIES KeepsShelf Published
