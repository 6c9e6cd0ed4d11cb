SPECIFICATION Spec
CONSTANTS
    AskKeys = {a1}
    Flows = {}
    Wakes = {w1}
    DictKeys = {d1}
    Toggles = {t1}
    Escapes = {e1}
    None = None
INVARIANTS
    OnePhase
    AskMicOwned
    RevivedOnlyByNext
    NoCancelLost
    StopRequestHeld
