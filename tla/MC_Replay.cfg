SPECIFICATION Spec
CONSTANTS
    FILES = {f, g}
    MAX_CALLS = 4
    NoFile = NoFile
    NoHash = NoHash
INVARIANTS
    QueueIsWindow
PROPERTIES
    KeepsPromise
    ReplayEnds
