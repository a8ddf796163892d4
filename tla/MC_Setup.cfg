SPECIFICATION SetupSpec
CHECK_DEADLOCK FALSE
CONSTANTS
    FILES = {root, exe, d, f, prog, new}
    PROCS = {init, p1}
    USERS = {rootUser, u}
    GROUPS = {rootGroup, g}
    FILE_DESCRIPTORS = {fd}
    STRINGS = {exeName, dName, fName, progName, newName, attr}
    DATA = {v}
    CAPABILITIES <- MC_None
    INIT_PROC = init
    INIT_EXE = exe
    INIT_NAME = exeName
    ROOT = root
    ROOT_USER = rootUser
    ROOT_GROUP = rootGroup
    AT_FDCWD = AT_FDCWD
    MAX_FILES = 6
    PROC_FILE_LIMIT = 1
    FILE_LIMIT = 1
    MODES <- MC_None
    UMASKS <- MC_None
    FLAGS <- MC_None
    TARGETS <- MC_None
    FD_NUMBERS = {3}
    ACLS <- MC_None
    SNAPSHOTS <- MC_Snapshots
    CHMODS <- MC_Chmods
    NEW_NAME = newName
    PROC = p1
    EXE_FILE = prog
    PROTECTED_REGULAR = 1
    MAX_CHMODS = 1
    d = d
    f = f
    u = u
    g = g
    dName = dName
    fName = fName
    progName = progName
    attr = attr
    v = v
INVARIANTS
    SetupAccepted
    AccessSame
    VerdictsAgree
    CasesKept
