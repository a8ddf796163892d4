\* One thread of the test and one other, which can fill fput_data_map; an execve
\* and two more calls.
SPECIFICATION Spec
CONSTANTS
    THREADS = {t}
    OTHERS = {o}
    FILES = {x, y}
    CALLS = {"chmod", "chown", "fchmodat", "mkdir", "open", "close", "execve", "other"}
    RING_SIZE = 2
    FPUT_MAX = 1
    MAX_MKDIR = 2
    MAX_CALLS = 3
    None = None
    Garbage = Garbage
    Lower = Lower
SYMMETRY Symmetry
INVARIANTS MonitorTypeOK OwnData InodeOwn ContentOwn NoLeftover
CHECK_DEADLOCK FALSE
