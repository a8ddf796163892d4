\* As MC_Monitor_data, with a buffer of two records.
SPECIFICATION Spec
CONSTANTS
    THREADS = {t}
    OTHERS = {o}
    FILES = {x, y}
    CALLS = {"chmod", "chown", "fchmodat", "mkdir", "open", "close", "execve", "other"}
    RING_SIZE = 2
    FPUT_MAX = 1
    MAX_MKDIR = 2
    MAX_CALLS = 3
    None = None
    Garbage = Garbage
    Lower = Lower
SYMMETRY Symmetry
INVARIANT MetaOwn
CHECK_DEADLOCK FALSE
