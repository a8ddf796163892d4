SPECIFICATION Spec
CONSTANTS
    FILES = {root, exe}
    PROCS = {init, p1}
    USERS = {rootUser, u}
    GROUPS = {rootGroup, g}
    FILE_DESCRIPTORS <- MC_None
    STRINGS = {exeName}
    DATA = {v}
    CAPABILITIES <- MC_None
    INIT_PROC = init
    INIT_EXE = exe
    INIT_NAME = exeName
    ROOT = root
    ROOT_USER = rootUser
    ROOT_GROUP = rootGroup
    AT_FDCWD = AT_FDCWD
    MAX_FILES = 2
    PROC_FILE_LIMIT = 1
    FILE_LIMIT = 1
    MODES <- MC_AccessModes
    UMASKS <- MC_NoUmask
    FLAGS <- MC_None
    TARGETS <- MC_Targets
    FD_NUMBERS = {3}
    ACLS <- MC_Acls
INVARIANTS
    AclSound
    AccessIsFirstMatch
PROPERTIES
    FreshInode
    UserConfined
