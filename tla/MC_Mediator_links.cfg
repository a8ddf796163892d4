SPECIFICATION Spec
CHECK_DEADLOCK FALSE
CONSTANTS
    NAMES = {a, b}
    INODES = {root, i1}
    ROOT_INO = root
    FD_NUMBERS = {d3, d4}
    OWNERS = {u1, u2}
    MODES = {"plain", "suid"}
    MAX_DEPTH = 1
    CONTENTS <- MC_None
    REPORTS = {TRUE, FALSE}
    OWNER_ARGS = {u2, KEEP}
    KEEP = KEEP
    AT_FDCWD = AT_FDCWD
    MAX_LINKS = 2
    Unset = Unset
    NoIno = NoIno
SYMMETRY Sym
VIEW View
CONSTRAINT FewLinks
INVARIANTS
    FakeHashFollows
    FdsAgree
    StatsAgree
    LastLinkNoticed
PROPERTIES
    IntegrityFrozen
