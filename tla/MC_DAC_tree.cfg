SPECIFICATION Spec
CONSTANTS
    FILES = {root, exe, f1, f2}
    PROCS = {init, p1}
    USERS = {rootUser}
    GROUPS = {rootGroup}
    FILE_DESCRIPTORS = {d1, d2, d3}
    STRINGS = {exeName, a}
    DATA <- MC_None
    CAPABILITIES = {c}
    INIT_PROC = init
    INIT_EXE = exe
    INIT_NAME = exeName
    ROOT = root
    ROOT_USER = rootUser
    ROOT_GROUP = rootGroup
    AT_FDCWD = AT_FDCWD
    MAX_FILES = 4
    PROC_FILE_LIMIT = 2
    FILE_LIMIT = 2
    MODES <- MC_FileModes
    UMASKS <- MC_NoUmask
    FLAGS <- MC_Flags
    TARGETS <- MC_Targets
    FD_NUMBERS = {3, 4}
    ACLS <- MC_None
SYMMETRY Sym
CONSTRAINT Explored
INVARIANTS
    TypeOK
    HierarchySound
    PathToRootSound
    NamesUnique
    LimitsHold
    FDNumbersUnique
PROPERTIES
    DescriptorsStable
