SPECIFICATION Spec
CONSTANTS
    AskKeys = {a1}
    Flows = {f1}
    Wakes = {}
    DictKeys = {}
    Toggles = {t1}
    Escapes = {e1}
    None = None
PROPERTY TailSparesDictation
CHECK_DEADLOCK FALSE
