SPECIFICATION FairSpec
CONSTANTS
    AskKeys = {a1}
    Flows = {f1}
    Wakes = {}
    DictKeys = {}
    Toggles = {t1}
    Escapes = {e1}
    None = None
PROPERTIES
    PipelineFreed
    RunsComeAndGo
