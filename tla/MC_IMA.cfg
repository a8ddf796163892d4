SPECIFICATION IMASpec
CONSTANTS
    FILES = {root, exe, dir}
    PROCS = {init}
    USERS = {rootUser}
    GROUPS = {rootGroup, g}
    FILE_DESCRIPTORS = {d1}
    STRINGS = {ima, a}
    DATA = {v}
    CAPABILITIES <- MC_None
    INIT_PROC = init
    INIT_EXE = exe
    INIT_NAME = ima
    ROOT = root
    ROOT_USER = rootUser
    ROOT_GROUP = rootGroup
    AT_FDCWD = AT_FDCWD
    MAX_FILES = 3
    PROC_FILE_LIMIT = 1
    FILE_LIMIT = 1
    MODES <- MC_OneMode
    UMASKS <- MC_None
    FLAGS <- MC_Flags
    TARGETS <- MC_Targets
    FD_NUMBERS = {3}
    ACLS <- MC_None
    HASHES = {h1, h2}
    IMA_STRING = ima
    EVM_STRING = ima
    ROOT_CONTENT_HASH = h1
    ROOT_META_HASH = h1
    INIT_EXE_CONTENT_HASH = h1
    INIT_EXE_META_HASH = h1
CONSTRAINT Small
INVARIANTS
    IMATypeOK
PROPERTIES
    ImmutableHolds
    EnforceFreezes
    MetaHashFollows
