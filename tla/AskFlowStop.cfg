SPECIFICATION Spec
CONSTANTS
    AskKeys = {a1}
    Flows = {f1}
    Wakes = {}
    DictKeys = {}
    Toggles = {}
    Escapes = {e1}
    None = None
INVARIANT StopRequestHeld
CHECK_DEADLOCK FALSE
