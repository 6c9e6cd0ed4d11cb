SPECIFICATION Spec
CONSTANTS
    Runs = {r1, r2, r3}
    PillRuns = {r1, r2}
    Second = {r2, r3}
    Settings = {"stream", "paste", "copyOnly"}
    Pieces = 2
    MaxMoves = 1
    MaxCancels = 1
    None = None
CONSTRAINT SecondIsShort
INVARIANTS
    KeysInOrder
    OfferIsCurrent
PROPERTIES
    NothingLost
CHECK_DEADLOCK FALSE
