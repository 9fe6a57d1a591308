SPECIFICATION MCSpec
CONSTANTS
    Indexed = {a1, a2}
    Texts <- MCTexts
    Rank <- MCRank
    Spaces = {old, new}
    c1 = c1
    c2 = c2
    Threads = {c1, c2}
    MaxHandles = 4
    MaxTokens = 4
    MaxExpiries = 2
SYMMETRY MCSymmetry
INVARIANTS
    IndexIsInTheEmbeddersSpace
    BlipIsNotAQueryError
    OneMintPerExpiry
