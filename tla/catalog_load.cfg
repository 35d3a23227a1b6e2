SPECIFICATION FairSpec
CONSTANTS
    c1 = c1
    c2 = c2
    p1 = p1
    a1 = a1
    Files = {c1, c2, p1, a1}
    None = None
    MaxBuild = 3
    Cards <- CardsOf
    Prints <- PrintsOf
    Artwork <- ArtworkOf
    Pages = {g1}
    Loads = {l1}
    Events = {"offline", "full", "reset", "close"}
INVARIANTS CachedWhole NeverGone
PROPERTIES Offers
