SPECIFICATION Spec
CHECK_DEADLOCK FALSE
CONSTANTS
    NAMES = {a, b}
    INODES = {root, i1, i2}
    ROOT_INO = root
    FD_NUMBERS = {d3, d4}
    OWNERS = {u1}
    MODES = {"plain"}
    MAX_DEPTH = 2
    CONTENTS <- MC_None
    REPORTS = {FALSE}
    OWNER_ARGS = {u1}
    KEEP = KEEP
    AT_FDCWD = AT_FDCWD
    MAX_LINKS = 3
    Unset = Unset
    NoIno = NoIno
SYMMETRY Sym
VIEW View
CONSTRAINT FewPaths
INVARIANTS
    MediatorTypeOK
    NamesAgree
    CwdAgrees
PROPERTIES
    EventsActual
