-------------------------------- MODULE DAC --------------------------------
(***************************************************************************)
(* The Event-B machine DAC (src/src/DAC.bm): the reference model of Linux  *)
(* discretionary access control against which recorded system calls are    *)
(* replayed.  One action per event; a guard is a conjunct, the parameters  *)
(* of an event are the parameters of its action.                           *)
(*                                                                         *)
(* Representation.  A total function of the machine is a function, a       *)
(* partial one is a function on a smaller domain, a relation is a set of   *)
(* tuples (FileParents: <<file, parent, name>>).  A permission bit is the  *)
(* pair of its class and its access, so that "the same access of another   *)
(* class" is a set image.  Left out: ProcArgv and ProcEnvp, written but    *)
(* never read by any event, and the open flags no guard inspects.          *)
(* INIT is written INIT_PROC (INIT is a keyword of TLC configurations).    *)
(***************************************************************************)
EXTENDS Naturals, FiniteSets

CONSTANTS FILES, PROCS, USERS, GROUPS, FILE_DESCRIPTORS, STRINGS, DATA,
          CAPABILITIES,
          INIT_PROC, INIT_EXE, INIT_NAME, ROOT, ROOT_USER, ROOT_GROUP, AT_FDCWD,
          MAX_FILES, PROC_FILE_LIMIT, FILE_LIMIT

\* The arguments with which the events are called.
CONSTANTS MODES,        \* mode arguments of open, mkdir, chmod
          UMASKS,       \* umask arguments
          FLAGS,        \* flag sets of open and openat
          TARGETS,      \* targets of symlink: <<directory, name>>
          FD_NUMBERS,   \* descriptor numbers the kernel returns
          ACLS          \* arguments of set_acl

USER_PERMISSIONS  == {"U"} \X {"r", "w", "x"}
GROUP_PERMISSIONS == {"G"} \X {"r", "w", "x"}
OTHER_PERMISSIONS == {"O"} \X {"r", "w", "x"}
SET_UID    == <<"M", "suid">>
SET_GID    == <<"M", "sgid">>
STICKY_BIT == <<"M", "sticky">>
FILE_MODES == {SET_UID, SET_GID, STICKY_BIT}
PERMISSIONS == USER_PERMISSIONS \cup GROUP_PERMISSIONS
                 \cup OTHER_PERMISSIONS \cup FILE_MODES

\* Every permission of one class that grants the accesses acc.
Bits(class, acc) == {class} \X acc

DEF_FILE_PERMS    == Bits("U", {"r", "w"}) \cup Bits("G", {"r"})
                       \cup Bits("O", {"r"})
DEF_FOLDER_PERMS  == Bits("U", {"r", "w", "x"}) \cup Bits("G", {"r", "x"})
                       \cup Bits("O", {"r", "x"})
DEF_SYMLINK_PERMS == PERMISSIONS \ FILE_MODES

OPEN_FLAGS == {"O_RDONLY", "O_WRONLY", "O_RDWR", "O_CREAT", "O_EXCL",
               "O_TRUNC", "O_TMPFILE", "O_DIRECTORY", "O_CLOEXEC", "O_PATH"}

ASSUME ContextAssumption ==
    /\ INIT_PROC \in PROCS
    /\ INIT_EXE \in FILES
    /\ INIT_NAME \in STRINGS
    /\ ROOT \in FILES
    /\ ROOT # INIT_EXE
    /\ ROOT_USER \in USERS
    /\ ROOT_GROUP \in GROUPS
    /\ AT_FDCWD \notin FILE_DESCRIPTORS

ASSUME LimitsAssumption ==
    /\ MAX_FILES \in Nat \ {0}
    /\ PROC_FILE_LIMIT \in Nat \ {0}
    /\ FILE_LIMIT \in Nat \ {0}
    /\ IsFiniteSet(FILES)
    /\ Cardinality(FILES) <= MAX_FILES
    /\ IsFiniteSet(FILE_DESCRIPTORS)

ASSUME InputsAssumption ==
    /\ MODES \subseteq SUBSET PERMISSIONS
    /\ UMASKS \subseteq SUBSET (PERMISSIONS \ FILE_MODES)
    /\ FLAGS \subseteq SUBSET OPEN_FLAGS
    /\ TARGETS \subseteq FILES \X STRINGS
    /\ FD_NUMBERS \subseteq Nat

VARIABLES Users, Groups, UserGroups, UserCaps,
          Procs, ProcUser, ProcGroup, ProcUmask, ProcEXE, ProcCwd, ProcParent,
          Files, Folders, SymLinks, FileParents, FileLink, PathToRoot,
          DACPermissions, FileUser, FileGroup, FileXattrs,
          UserACL, GroupObjACL, GroupACL, MaskACL,
          FDs, ProcFDs, FDFlags, FDFile, FDNumber

userVars  == <<Users, Groups, UserGroups, UserCaps>>
procVars  == <<Procs, ProcUser, ProcGroup, ProcUmask, ProcEXE, ProcCwd,
               ProcParent>>
treeVars  == <<Files, Folders, SymLinks, FileParents, FileLink, PathToRoot>>
ownerVars == <<FileUser, FileGroup, FileXattrs>>
aclVars   == <<UserACL, GroupObjACL, GroupACL, MaskACL>>
fileVars  == <<treeVars, ownerVars, DACPermissions, aclVars>>
fdVars    == <<FDs, ProcFDs, FDFlags, FDFile, FDNumber>>
vars      == <<userVars, procVars, fileVars, fdVars>>

-----------------------------------------------------------------------------
(* Functions with a changing domain (Event-B's f(x) := v and S <<| f).     *)

With(f, x, v) == [y \in DOMAIN f \cup {x} |-> IF y = x THEN v ELSE f[y]]
Without(f, S) == [y \in DOMAIN f \ S |-> f[y]]

\* f is a partial function from S to T.
IsPartial(f, S, T) == DOMAIN f \subseteq S /\ f \in [DOMAIN f -> T]

-----------------------------------------------------------------------------
(* The state the machine starts in.                                        *)

Init ==
    /\ Users = {ROOT_USER}
    /\ Groups = {ROOT_GROUP}
    /\ UserGroups = {<<ROOT_USER, ROOT_GROUP>>}
    /\ UserCaps = [u \in {ROOT_USER} |-> {}]
    /\ Procs = {INIT_PROC}
    /\ ProcUser = [p \in {INIT_PROC} |-> ROOT_USER]
    /\ ProcGroup = [p \in {INIT_PROC} |-> ROOT_GROUP]
    /\ ProcUmask = [p \in {INIT_PROC} |-> {}]
    /\ ProcEXE = [p \in {INIT_PROC} |-> INIT_EXE]
    /\ ProcCwd = [p \in {INIT_PROC} |-> ROOT]
    /\ ProcParent = [p \in {} |-> INIT_PROC]
    /\ Files = {ROOT, INIT_EXE}
    /\ Folders = {ROOT}
    /\ SymLinks = {}
    /\ FileParents = {<<INIT_EXE, ROOT, INIT_NAME>>}
    /\ FileLink = [f \in {} |-> <<ROOT, INIT_NAME>>]
    /\ PathToRoot = [f \in {ROOT} |-> {}]
    /\ DACPermissions = [f \in {ROOT, INIT_EXE} |->
                           IF f = ROOT THEN DEF_FOLDER_PERMS ELSE DEF_FILE_PERMS]
    /\ FileUser = [f \in {ROOT, INIT_EXE} |-> ROOT_USER]
    /\ FileGroup = [f \in {ROOT, INIT_EXE} |-> ROOT_GROUP]
    /\ FileXattrs = [f \in {ROOT, INIT_EXE} |-> [n \in {} |-> n]]
    /\ UserACL = [e \in {} |-> {}]
    /\ GroupACL = [e \in {} |-> {}]
    /\ GroupObjACL = [f \in {ROOT, INIT_EXE} |->
                        (IF f = ROOT THEN DEF_FOLDER_PERMS ELSE DEF_FILE_PERMS)
                          \cap GROUP_PERMISSIONS]
    /\ MaskACL = [f \in {} |-> {}]
    /\ FDs = {}
    /\ ProcFDs = {}
    /\ FDFlags = [d \in {} |-> {}]
    /\ FDFile = [d \in {} |-> ROOT]
    /\ FDNumber = [d \in {} |-> 0]

-----------------------------------------------------------------------------
(* The access check every event repeats.                                   *)

\* The groups a process acts for: its effective group and its user's groups.
GroupsOf(proc) == {g \in Groups : \/ g = ProcGroup[proc]
                                  \/ <<ProcUser[proc], g>> \in UserGroups}

\* Some ACL entry of a group the process acts for grants acc.
GroupEntryGrants(proc, f, acc) ==
    \E g \in GroupsOf(proc) :
       \/ /\ <<f, g>> \in DOMAIN GroupACL
          /\ Bits("G", acc) \subseteq GroupACL[<<f, g>>]
       \/ /\ g = FileGroup[f]
          /\ f \in DOMAIN GroupObjACL
          /\ Bits("G", acc) \subseteq GroupObjACL[f]

\* A mask that lets an ACL entry count.
HasMask(f) == f \in DOMAIN MaskACL /\ MaskACL[f] # {}

\* The six alternatives of the guard, each with what it requires of the mask.
OwnerGrants(proc, f, acc) ==
    /\ ProcUser[proc] = FileUser[f]
    /\ Bits("U", acc) \subseteq DACPermissions[f]

OtherGrants(proc, f, acc) ==
    /\ ProcUser[proc] # FileUser[f]
    /\ ~HasMask(f)
    /\ FileGroup[f] \notin GroupsOf(proc)
    /\ Bits("O", acc) \subseteq DACPermissions[f]

NamedUserGrants(proc, f, acc) ==
    /\ ProcUser[proc] # FileUser[f]
    /\ <<f, ProcUser[proc]>> \in DOMAIN UserACL
    /\ Bits("U", acc) \subseteq UserACL[<<f, ProcUser[proc]>>]
    /\ Bits("G", acc) \subseteq MaskACL[f]

MaskedGroupGrants(proc, f, acc) ==
    /\ ProcUser[proc] # FileUser[f]
    /\ <<f, ProcUser[proc]>> \notin DOMAIN UserACL
    /\ GroupEntryGrants(proc, f, acc)
    /\ f \in DOMAIN MaskACL
    /\ Bits("G", acc) \subseteq MaskACL[f]

OwningGroupGrants(proc, f, acc) ==
    /\ ProcUser[proc] # FileUser[f]
    /\ f \notin DOMAIN MaskACL
    /\ FileGroup[f] \in GroupsOf(proc)
    /\ Bits("G", acc) \subseteq DACPermissions[f]

\* A seeded slip, for the runs: a named group's entry is overlooked.
MaskedOtherGrants_Overlooks(proc, f, acc) ==
    /\ ProcUser[proc] # FileUser[f]
    /\ HasMask(f)
    /\ <<f, ProcUser[proc]>> \notin DOMAIN UserACL
    /\ FileGroup[f] \notin GroupsOf(proc)
    /\ Bits("O", acc) \subseteq DACPermissions[f]

MaskedOtherGrants(proc, f, acc) ==
    /\ ProcUser[proc] # FileUser[f]
    /\ HasMask(f)
    /\ <<f, ProcUser[proc]>> \notin DOMAIN UserACL
    /\ \A g \in GroupsOf(proc) : <<f, g>> \notin DOMAIN GroupACL
    /\ FileGroup[f] \notin GroupsOf(proc)
    /\ Bits("O", acc) \subseteq DACPermissions[f]

Grants(proc, f, acc) ==
    \/ OwnerGrants(proc, f, acc)
    \/ OtherGrants(proc, f, acc)
    \/ NamedUserGrants(proc, f, acc)
    \/ MaskedGroupGrants(proc, f, acc)
    \/ OwningGroupGrants(proc, f, acc)
    \/ MaskedOtherGrants(proc, f, acc)

\* Only root passes without a grant.
Refused(proc, f, acc) == ProcUser[proc] # ROOT_USER /\ ~Grants(proc, f, acc)
May(proc, f, acc) == ~Refused(proc, f, acc)

\* The process may search every directory of dirs.
MaySearch(proc, dirs) == \A d \in dirs : May(proc, d, {"x"})

\* Seeded slip: only the nearest directory.
WithAncestors_Nearest(dir) == {dir}
WithAncestors(dir) == PathToRoot[dir] \cup {dir}

\* The process may reach parent and add or remove an entry in it.
MayChangeDir(proc, parent) ==
    /\ MaySearch(proc, PathToRoot[parent])
    /\ May(proc, parent, {"w", "x"})

\* Seeded slip: the owning group counts as the owner.
IsRootOrOwner_OrGroup(proc, file) ==
    \/ ProcUser[proc] \in {ROOT_USER, FileUser[file]}
    \/ ProcGroup[proc] = FileGroup[file]
IsRootOrOwner(proc, file) == ProcUser[proc] \in {ROOT_USER, FileUser[file]}

\* A sticky directory protects its entries from other users.
StickyAllows(proc, parent, file) ==
    STICKY_BIT \in DACPermissions[parent]
      => ProcUser[proc] \in {ROOT_USER, FileUser[file], FileUser[parent]}

-----------------------------------------------------------------------------
(* Pieces several events share.                                            *)

\* Seeded slip: only files that are not directories are looked at.
NameIsFree_Files(parent, name) ==
    \A f \in Files \ Folders : <<f, parent, name>> \notin FileParents
NameIsFree(parent, name) == \A f \in Files : <<f, parent, name>> \notin FileParents

\* Seeded slip: an open descriptor does not keep the inode in use.
IsUnused_ForgetsFDs(file) == file \in FILES \ Files /\ \A p \in Procs : ProcCwd[p] # file

\* An inode number no file, open descriptor or working directory still uses.
IsUnused(file) ==
    /\ file \in FILES \ Files
    /\ \A d \in FDs : FDFile[d] # file
    /\ \A p \in Procs : ProcCwd[p] # file

\* Unlike a file, a directory may take the inode of a removed working
\* directory, but not that of a running executable.
IsUnusedForDir(file) ==
    /\ file \in FILES \ Files
    /\ \A d \in FDs : FDFile[d] # file
    /\ \A p \in Procs : ProcEXE[p] # file

DescriptorsOf(proc) == {d \in FDs : <<proc, d>> \in ProcFDs}
OpenDescriptors == {d \in FDs : \E p \in Procs : <<p, d>> \in ProcFDs}
IsShared(proc, fd) == \E p \in Procs \ {proc} : <<p, fd>> \in ProcFDs

\* Seeded slips: the number is not compared; the limit is off by one.
MayAllocate_AnyNumber(proc, fd, fdNumber) ==
    /\ fd \in FILE_DESCRIPTORS \ FDs
    /\ Cardinality(DescriptorsOf(proc)) < PROC_FILE_LIMIT
    /\ Cardinality(OpenDescriptors) < FILE_LIMIT
MayAllocate_OffByOne(proc, fd, fdNumber) ==
    /\ fd \in FILE_DESCRIPTORS \ FDs
    /\ \A d \in DescriptorsOf(proc) : FDNumber[d] # fdNumber
    /\ Cardinality(DescriptorsOf(proc)) <= PROC_FILE_LIMIT
    /\ Cardinality(OpenDescriptors) <= FILE_LIMIT
MayAllocate(proc, fd, fdNumber) ==
    /\ fd \in FILE_DESCRIPTORS \ FDs
    /\ \A d \in DescriptorsOf(proc) : FDNumber[d] # fdNumber
    /\ Cardinality(DescriptorsOf(proc)) < PROC_FILE_LIMIT
    /\ Cardinality(OpenDescriptors) < FILE_LIMIT

AllocateFD(proc, fd, fdNumber, flags, file) ==
    /\ FDs' = FDs \cup {fd}
    /\ FDNumber' = With(FDNumber, fd, fdNumber)
    /\ ProcFDs' = ProcFDs \cup {<<proc, fd>>}
    /\ FDFlags' = With(FDFlags, fd, flags)
    /\ FDFile' = With(FDFile, fd, file)

\* The descriptors fds cease to exist, for every process that holds them.
ForgetFDs(fds) ==
    /\ FDs' = FDs \ fds
    /\ FDFlags' = Without(FDFlags, fds)
    /\ FDFile' = Without(FDFile, fds)
    /\ FDNumber' = Without(FDNumber, fds)

\* A new file system object, except for its kind (Folders, SymLinks).
CreateEntry(proc, parent, file, name, group, perms) ==
    /\ Files' = Files \cup {file}
    /\ FileParents' = FileParents \cup {<<file, parent, name>>}
    /\ DACPermissions' = With(DACPermissions, file, perms)
    /\ FileUser' = With(FileUser, file, ProcUser[proc])
    /\ FileGroup' = With(FileGroup, file, group)
    /\ FileXattrs' = With(FileXattrs, file, [n \in {} |-> n])
    /\ GroupObjACL' = With(GroupObjACL, file, perms \cap GROUP_PERMISSIONS)
    /\ UNCHANGED <<UserACL, GroupACL, MaskACL>>

\* Seeded slip: the named users' entries stay behind.
ForgetAcls_KeepsUsers(gone) ==
    /\ GroupACL' = Without(GroupACL, gone \X Groups)
    /\ MaskACL' = Without(MaskACL, gone)
    /\ GroupObjACL' = Without(GroupObjACL, gone)
    /\ UNCHANGED UserACL

ForgetAcls(gone) ==
    /\ UserACL' = Without(UserACL, gone \X Users)
    /\ GroupACL' = Without(GroupACL, gone \X Groups)
    /\ MaskACL' = Without(MaskACL, gone)
    /\ GroupObjACL' = Without(GroupObjACL, gone)

\* The attributes of the files of the set gone vanish.
ForgetAttributes(gone) ==
    /\ Files' = Files \ gone
    /\ DACPermissions' = Without(DACPermissions, gone)
    /\ FileUser' = Without(FileUser, gone)
    /\ FileGroup' = Without(FileGroup, gone)
    /\ FileXattrs' = Without(FileXattrs, gone)
    /\ ForgetAcls(gone)

\* A set-group-ID directory passes its group on to what is created in it.
InheritedGroup(proc, parent) ==
    IF SET_GID \in DACPermissions[parent] THEN FileGroup[parent]
                                          ELSE ProcGroup[proc]

\* cwd is the directory that dirfd stands for in an "at" call.
IsBaseDir(proc, dirfd, cwd) ==
    /\ cwd \in Folders
    /\ dirfd = AT_FDCWD => cwd = ProcCwd[proc]
    /\ dirfd # AT_FDCWD => <<proc, dirfd>> \in ProcFDs /\ cwd = FDFile[dirfd]

-----------------------------------------------------------------------------
(* open and openat.                                                        *)

AccessModes == {"O_RDONLY", "O_WRONLY", "O_RDWR"}
HasOneAccessMode(flags) == \E m \in AccessModes : flags \cap AccessModes = {m}
WritesFile(flags) == "O_WRONLY" \in flags \/ "O_RDWR" \in flags

\* The accesses an open with these flags needs on the file.
Wanted(flags) == (IF "O_WRONLY" \in flags THEN {} ELSE {"r"})
                   \cup (IF "O_RDONLY" \in flags THEN {} ELSE {"w"})

FlagsCreate(flags) ==
    /\ "O_CREAT" \in flags \/ "O_TMPFILE" \in flags
    /\ HasOneAccessMode(flags)
    /\ "O_TMPFILE" \in flags => WritesFile(flags)
    /\ "O_PATH" \notin flags

FlagsFit(flags, file) ==
    /\ "O_PATH" \notin flags => ~("O_CREAT" \in flags /\ "O_EXCL" \in flags)
    /\ HasOneAccessMode(flags)
    /\ file \in Folders /\ "O_PATH" \notin flags => ~WritesFile(flags)
    /\ "O_DIRECTORY" \in flags => file \in Folders
    /\ "O_DIRECTORY" \in flags /\ "O_PATH" \notin flags => "O_RDONLY" \in flags

\* open and openat differ only in the directories dirs to be searched.  The
\* guards of the events that Setup replays are operators of their own: they
\* are the machine's verdict on a call.
grd_CreateAndOpen(proc, parent, file, name, flags, fd, fdNumber, dirs) ==
    /\ proc \in Procs
    /\ parent \in Folders
    /\ IsUnused(file)
    /\ NameIsFree(parent, name)
    /\ FlagsCreate(flags)
    /\ Cardinality(Files) < MAX_FILES
    /\ MayAllocate(proc, fd, fdNumber)
    /\ MaySearch(proc, dirs)
    /\ May(proc, parent, {"w", "x"})

CreateAndOpen(proc, parent, file, name, flags, mode, fd, fdNumber, dirs) ==
    /\ grd_CreateAndOpen(proc, parent, file, name, flags, fd, fdNumber, dirs)
    /\ CreateEntry(proc, parent, file, name, InheritedGroup(proc, parent),
                   mode \ ProcUmask[proc])
    /\ AllocateFD(proc, fd, fdNumber, flags, file)
    /\ UNCHANGED <<userVars, procVars, Folders, SymLinks, FileLink, PathToRoot>>

grd_OpenExisting(proc, parent, file, name, flags, fd, fdNumber, dirs) ==
    /\ proc \in Procs
    /\ <<file, parent, name>> \in FileParents
    /\ FlagsFit(flags, file)
    /\ MayAllocate(proc, fd, fdNumber)
    /\ MaySearch(proc, dirs)
    /\ "O_PATH" \notin flags => May(proc, file, Wanted(flags))

OpenExisting(proc, parent, file, name, flags, fd, fdNumber, dirs) ==
    /\ grd_OpenExisting(proc, parent, file, name, flags, fd, fdNumber, dirs)
    /\ AllocateFD(proc, fd, fdNumber, flags, file)
    /\ UNCHANGED <<userVars, procVars, fileVars>>

open_create(proc, parent, file, name, flags, mode, fd, fdNumber) ==
    CreateAndOpen(proc, parent, file, name, flags, mode, fd, fdNumber,
                  PathToRoot[parent])

open_exists(proc, parent, file, name, flags, fd, fdNumber) ==
    OpenExisting(proc, parent, file, name, flags, fd, fdNumber,
                 WithAncestors(parent))

openat_create(proc, dirfd, cwd, parent, file, name, flags, mode, fd, fdNumber) ==
    /\ IsBaseDir(proc, dirfd, cwd)
    /\ cwd \in WithAncestors(parent)
    /\ CreateAndOpen(proc, parent, file, name, flags, mode, fd, fdNumber,
                     PathToRoot[parent] \ PathToRoot[cwd])

openat_exists(proc, dirfd, cwd, parent, file, name, flags, fd, fdNumber) ==
    /\ IsBaseDir(proc, dirfd, cwd)
    /\ cwd \in WithAncestors(parent)
    /\ OpenExisting(proc, parent, file, name, flags, fd, fdNumber,
                    WithAncestors(parent) \ PathToRoot[cwd])

-----------------------------------------------------------------------------
(* Directories, links and removal.                                         *)

MkdirPerms(proc, parent, mode) ==
    (mode \cup (DACPermissions[parent] \cap {SET_GID})) \ (mode \cap ProcUmask[proc])

grd_mkdir(proc, parent, folder, name) ==
    /\ proc \in Procs
    /\ parent \in Folders
    /\ IsUnusedForDir(folder)
    /\ NameIsFree(parent, name)
    /\ Cardinality(Files) < MAX_FILES
    /\ MayChangeDir(proc, parent)

mkdir(proc, parent, folder, name, mode) ==
    /\ grd_mkdir(proc, parent, folder, name)
    /\ Folders' = Folders \cup {folder}
    /\ PathToRoot' = With(PathToRoot, folder, WithAncestors(parent))
    /\ CreateEntry(proc, parent, folder, name, InheritedGroup(proc, parent),
                   MkdirPerms(proc, parent, mode))
    /\ UNCHANGED <<userVars, procVars, fdVars, SymLinks, FileLink>>

grd_link(proc, oldParent, newParent, file, oldName, newName) ==
    /\ proc \in Procs
    /\ file \in Files \ Folders
    /\ <<file, oldParent, oldName>> \in FileParents
    /\ newParent \in Folders
    /\ NameIsFree(newParent, newName)
    /\ MaySearch(proc, WithAncestors(oldParent))
    /\ MayChangeDir(proc, newParent)

link(proc, oldParent, newParent, file, oldName, newName) ==
    /\ grd_link(proc, oldParent, newParent, file, oldName, newName)
    /\ FileParents' = FileParents \cup {<<file, newParent, newName>>}
    /\ UNCHANGED <<userVars, procVars, fdVars, ownerVars, aclVars, DACPermissions,
                   Files, Folders, SymLinks, FileLink, PathToRoot>>

symlink(proc, target, parent, file, name) ==
    /\ proc \in Procs
    /\ parent \in Folders
    /\ NameIsFree(parent, name)
    /\ IsUnused(file)
    /\ MayChangeDir(proc, parent)
    /\ Cardinality(Files) < MAX_FILES
    /\ SymLinks' = SymLinks \cup {file}
    /\ FileLink' = With(FileLink, file, target)
    /\ CreateEntry(proc, parent, file, name, ProcGroup[proc], DEF_SYMLINK_PERMS)
    /\ UNCHANGED <<userVars, procVars, fdVars, Folders, PathToRoot>>

\* Seeded slips: the other names are not looked at; an open file stays.
Unlinked_Always(parent, file, name) == {file}
Unlinked_UnlessOpen(parent, file, name) ==
    IF \/ \E e \in FileParents : e[1] = file /\ e # <<file, parent, name>>
       \/ \E d \in FDs : FDFile[d] = file
    THEN {} ELSE {file}

\* The file itself goes with its last name.
Unlinked(parent, file, name) ==
    IF \E e \in FileParents : e[1] = file /\ e # <<file, parent, name>>
    THEN {} ELSE {file}

unlink(proc, parent, file, name) ==
    /\ proc \in Procs
    /\ file \in Files \ Folders
    /\ <<file, parent, name>> \in FileParents
    /\ MayChangeDir(proc, parent)
    /\ StickyAllows(proc, parent, file)
    /\ FileParents' = FileParents \ {<<file, parent, name>>}
    /\ ForgetAttributes(Unlinked(parent, file, name))
    /\ SymLinks' = SymLinks \ Unlinked(parent, file, name)
    /\ FileLink' = Without(FileLink, Unlinked(parent, file, name))
    /\ UNCHANGED <<userVars, procVars, fdVars, Folders, PathToRoot>>

rmdir(proc, parent, folder, name) ==
    /\ proc \in Procs
    /\ folder \in Folders \ {ROOT}
    /\ <<folder, parent, name>> \in FileParents
    /\ \A e \in FileParents : e[2] # folder
    /\ MayChangeDir(proc, parent)
    /\ StickyAllows(proc, parent, folder)
    /\ FileParents' = FileParents \ {<<folder, parent, name>>}
    /\ Folders' = Folders \ {folder}
    /\ PathToRoot' = Without(PathToRoot, {folder})
    /\ ForgetAttributes({folder})
    /\ UNCHANGED <<userVars, procVars, fdVars, SymLinks, FileLink>>

chdir(proc, dir) ==
    /\ proc \in Procs
    /\ dir \in Folders
    /\ MaySearch(proc, WithAncestors(dir))
    /\ ProcCwd' = With(ProcCwd, proc, dir)
    /\ UNCHANGED <<userVars, fileVars, fdVars, Procs, ProcUser, ProcGroup,
                   ProcUmask, ProcEXE, ProcParent>>

fchdir(proc, fd) ==
    /\ proc \in Procs
    /\ <<proc, fd>> \in ProcFDs
    /\ FDFile[fd] \in Folders
    /\ May(proc, FDFile[fd], {"x"})
    /\ ProcCwd' = With(ProcCwd, proc, FDFile[fd])
    /\ UNCHANGED <<userVars, fileVars, fdVars, Procs, ProcUser, ProcGroup,
                   ProcUmask, ProcEXE, ProcParent>>

getdents(proc, fd) ==
    /\ proc \in Procs
    /\ <<proc, fd>> \in ProcFDs
    /\ FDFile[fd] \in Folders
    /\ UNCHANGED vars

-----------------------------------------------------------------------------
(* Attributes: mode, owner, extended attributes, ACL.                      *)

\* SET_GID survives chmod only on a directory, for root, or for a member of
\* the file's group.
KeptMode(proc, file, mode) ==
    IF \/ file \in Folders
       \/ ProcUser[proc] = ROOT_USER
       \/ <<ProcUser[proc], FileGroup[file]>> \in UserGroups
    THEN mode ELSE mode \ {SET_GID}

\* The group bits of the mode are the mask when there is one.
SetMode(proc, file, mode) ==
    LET groupBits == mode \cap GROUP_PERMISSIONS IN
    /\ IsRootOrOwner(proc, file)
    /\ DACPermissions' = With(DACPermissions, file, KeptMode(proc, file, mode))
    /\ MaskACL' = IF file \in DOMAIN MaskACL
                  THEN With(MaskACL, file, groupBits) ELSE MaskACL
    /\ GroupObjACL' = IF file \in DOMAIN MaskACL
                      THEN GroupObjACL ELSE With(GroupObjACL, file, groupBits)
    /\ UNCHANGED <<userVars, procVars, treeVars, ownerVars, fdVars, UserACL,
                   GroupACL>>

\* The process reaches the file by this name, or holds a descriptor of it.
grd_path(proc, parent, file, name) ==
    /\ proc \in Procs
    /\ <<file, parent, name>> \in FileParents
    /\ MaySearch(proc, WithAncestors(parent))
grd_fd(proc, fd) ==
    /\ proc \in Procs
    /\ <<proc, fd>> \in ProcFDs
    /\ FDFile[fd] \in Files

chmod(proc, parent, file, name, mode) ==
    /\ grd_path(proc, parent, file, name)
    /\ SetMode(proc, file, mode)

fchmod(proc, fd, mode) ==
    /\ grd_fd(proc, fd)
    /\ SetMode(proc, FDFile[fd], mode)

fchmodat(proc, dirfd, cwd, parent, file, name, mode) ==
    /\ proc \in Procs
    /\ IsBaseDir(proc, dirfd, cwd)
    /\ <<file, parent, name>> \in FileParents
    /\ MaySearch(proc, WithAncestors(parent) \ PathToRoot[cwd])
    /\ SetMode(proc, file, mode)

\* Seeded slip: the group's execute bit is stripped with SET_UID.
ChownPerms_StripsExec(file) ==
    DACPermissions[file] \ (IF file \in Folders THEN {} ELSE {SET_UID, <<"G", "x">>})

\* A change of owner strips SET_UID, and SET_GID from a group-executable file.
ChownPerms(file) ==
    DACPermissions[file] \
      (IF file \in Folders THEN {}
       ELSE IF <<"G", "x">> \in DACPermissions[file] THEN {SET_UID, SET_GID}
       ELSE {SET_UID})

MayChown(proc, file, owner, group) ==
    /\ owner \in Users
    /\ group \in Groups
    /\ \/ ProcUser[proc] = ROOT_USER
       \/ /\ owner = ProcUser[proc]
          /\ <<ProcUser[proc], group>> \in UserGroups
          /\ ProcUser[proc] = FileUser[file]

SetOwner(proc, file, owner, group) ==
    /\ MayChown(proc, file, owner, group)
    /\ FileUser' = With(FileUser, file, owner)
    /\ FileGroup' = With(FileGroup, file, group)
    /\ DACPermissions' = With(DACPermissions, file, ChownPerms(file))
    /\ UNCHANGED <<userVars, procVars, treeVars, aclVars, fdVars, FileXattrs>>

chown(proc, parent, file, name, owner, group) ==
    /\ grd_path(proc, parent, file, name)
    /\ SetOwner(proc, file, owner, group)

fchown(proc, fd, owner, group) ==
    /\ grd_fd(proc, fd)
    /\ SetOwner(proc, FDFile[fd], owner, group)

fchownat(proc, dirfd, cwd, parent, file, name, owner, group) ==
    /\ proc \in Procs
    /\ IsBaseDir(proc, dirfd, cwd)
    /\ <<file, parent, name>> \in FileParents
    /\ MaySearch(proc, WithAncestors(parent) \ PathToRoot[cwd])
    /\ SetOwner(proc, file, owner, group)

\* The size 0 asks for the length alone.
getxattr(proc, parent, file, fileName, name, value, size) ==
    /\ proc \in Procs
    /\ <<file, parent, fileName>> \in FileParents
    /\ name \in DOMAIN FileXattrs[file]
    /\ size > 0 => value = FileXattrs[file][name]
    /\ MaySearch(proc, WithAncestors(parent))
    /\ May(proc, file, {"r"})
    /\ UNCHANGED vars

\* flags is a subset of {"XATTR_CREATE", "XATTR_REPLACE"}.
grd_setxattr(proc, parent, file, fileName, name, flags) ==
    /\ grd_path(proc, parent, file, fileName)
    /\ "XATTR_CREATE" \in flags => name \notin DOMAIN FileXattrs[file]
    /\ "XATTR_REPLACE" \in flags => name \in DOMAIN FileXattrs[file]
    /\ May(proc, file, {"w"})

setxattr(proc, parent, file, fileName, name, value, flags) ==
    /\ grd_setxattr(proc, parent, file, fileName, name, flags)
    /\ FileXattrs' = With(FileXattrs, file, With(FileXattrs[file], name, value))
    /\ UNCHANGED <<userVars, procVars, treeVars, aclVars, fdVars, DACPermissions,
                   FileUser, FileGroup>>

\* What an ACL entry implies of the permission bits of its file.
AclsFit(files, userACL, groupACL, groupObjACL, maskACL, perms) ==
    /\ \A e \in DOMAIN userACL : e[1] \in DOMAIN maskACL
    /\ \A e \in DOMAIN groupACL : e[1] \in DOMAIN maskACL
    /\ \A f \in DOMAIN maskACL : maskACL[f] = perms[f] \cap GROUP_PERMISSIONS
    /\ \A f \in files \ DOMAIN maskACL :
          /\ f \in DOMAIN groupObjACL
          /\ groupObjACL[f] = perms[f] \cap GROUP_PERMISSIONS

\* The whole ACL state is replaced at once.
grd_set_acl(acl) ==
    /\ IsPartial(acl.userACL, Files \X Users, SUBSET USER_PERMISSIONS)
    /\ IsPartial(acl.groupACL, Files \X Groups, SUBSET GROUP_PERMISSIONS)
    /\ IsPartial(acl.groupObjACL, Files, SUBSET GROUP_PERMISSIONS)
    /\ IsPartial(acl.maskACL, Files, SUBSET GROUP_PERMISSIONS)
    /\ acl.dacPermissions \in [Files -> SUBSET PERMISSIONS]
    /\ AclsFit(Files, acl.userACL, acl.groupACL, acl.groupObjACL, acl.maskACL,
               acl.dacPermissions)

set_acl(acl) ==
    /\ grd_set_acl(acl)
    /\ UserACL' = acl.userACL
    /\ GroupACL' = acl.groupACL
    /\ GroupObjACL' = acl.groupObjACL
    /\ MaskACL' = acl.maskACL
    /\ DACPermissions' = acl.dacPermissions
    /\ UNCHANGED <<userVars, procVars, treeVars, ownerVars, fdVars>>

-----------------------------------------------------------------------------
(* Processes, users and descriptors.                                       *)

\* Some class may execute the file.
IsExecutable(file) == ({"U", "G", "O"} \X {"x"}) \cap DACPermissions[file] # {}

\* Any of the caller's close-on-exec descriptors may go; a SET_UID or SET_GID
\* file changes the identity of the process.
execve(proc, parent, exeFile, name, fds) ==
    /\ proc \in Procs
    /\ exeFile \in Files \ Folders
    /\ <<exeFile, parent, name>> \in FileParents
    /\ \A d \in fds : <<proc, d>> \in ProcFDs /\ "O_CLOEXEC" \in FDFlags[d]
    /\ MaySearch(proc, WithAncestors(parent))
    /\ May(proc, exeFile, {"x"})
    /\ IsExecutable(exeFile)
    /\ ProcEXE' = With(ProcEXE, proc, exeFile)
    /\ ProcUser' = IF SET_UID \in DACPermissions[exeFile]
                   THEN With(ProcUser, proc, FileUser[exeFile]) ELSE ProcUser
    /\ ProcGroup' = IF SET_GID \in DACPermissions[exeFile]
                    THEN With(ProcGroup, proc, FileGroup[exeFile]) ELSE ProcGroup
    /\ ForgetFDs(fds)
    /\ ProcFDs' = {e \in ProcFDs : e[2] \notin fds}
    /\ UNCHANGED <<userVars, fileVars, Procs, ProcUmask, ProcCwd, ProcParent>>

umask(proc, mask) ==
    /\ proc \in Procs
    /\ ProcUmask' = With(ProcUmask, proc, mask)
    /\ UNCHANGED <<userVars, fileVars, fdVars, Procs, ProcUser, ProcGroup,
                   ProcEXE, ProcCwd, ProcParent>>

\* Any of the descriptors only this process holds may go with it.
exit(proc, fds) ==
    /\ proc \in Procs \ {INIT_PROC}
    /\ fds \subseteq DescriptorsOf(proc)
    /\ \A d \in fds : ~IsShared(proc, d)
    /\ Procs' = Procs \ {proc}
    /\ ProcUser' = Without(ProcUser, {proc})
    /\ ProcGroup' = Without(ProcGroup, {proc})
    /\ ProcUmask' = Without(ProcUmask, {proc})
    /\ ProcEXE' = Without(ProcEXE, {proc})
    /\ ProcCwd' = Without(ProcCwd, {proc})
    /\ ProcParent' = [p \in Procs \ {INIT_PROC, proc} |->
                        IF ProcParent[p] = proc THEN INIT_PROC ELSE ProcParent[p]]
    /\ ForgetFDs(fds)
    /\ ProcFDs' = {e \in ProcFDs : e[1] # proc}
    /\ UNCHANGED <<userVars, fileVars>>

grd_close(proc, fd) == proc \in Procs /\ <<proc, fd>> \in ProcFDs

\* A descriptor shared since a fork stays, in the caller's table too.
close(proc, fd) ==
    LET fds == IF IsShared(proc, fd) THEN {} ELSE {fd} IN
    /\ grd_close(proc, fd)
    /\ ForgetFDs(fds)
    /\ ProcFDs' = {e \in ProcFDs : e[2] \notin fds}
    /\ UNCHANGED <<userVars, procVars, fileVars>>

AddProc(proc, user, group, mask, exe, cwd, parent) ==
    /\ Procs' = Procs \cup {proc}
    /\ ProcUser' = With(ProcUser, proc, user)
    /\ ProcGroup' = With(ProcGroup, proc, group)
    /\ ProcUmask' = With(ProcUmask, proc, mask)
    /\ ProcEXE' = With(ProcEXE, proc, exe)
    /\ ProcCwd' = With(ProcCwd, proc, cwd)
    /\ ProcParent' = With(ProcParent, proc, parent)

fork(proc, newProc) ==
    /\ proc \in Procs
    /\ newProc \in PROCS \ Procs
    /\ AddProc(newProc, ProcUser[proc], ProcGroup[proc], ProcUmask[proc],
               ProcEXE[proc], ProcCwd[proc], proc)
    /\ ProcFDs' = ProcFDs \cup ({newProc} \X DescriptorsOf(proc))
    /\ UNCHANGED <<userVars, fileVars, FDs, FDFlags, FDFile, FDNumber>>

grd_login(user, proc, group, exeFile) ==
    /\ user \in Users
    /\ proc \in PROCS \ Procs
    /\ group \in Groups
    /\ exeFile \in Files \ Folders

login(user, proc, group, exeFile, mask) ==
    /\ grd_login(user, proc, group, exeFile)
    /\ AddProc(proc, user, group, mask, exeFile, ROOT, INIT_PROC)
    /\ UNCHANGED <<userVars, fileVars, fdVars>>

grd_create_user(user, groups) == user \in USERS \ Users /\ groups \subseteq Groups

create_user(user, groups, caps) ==
    /\ grd_create_user(user, groups)
    /\ Users' = Users \cup {user}
    /\ UserGroups' = UserGroups \cup ({user} \X groups)
    /\ UserCaps' = With(UserCaps, user, caps)
    /\ UNCHANGED <<Groups, procVars, fileVars, fdVars>>

grd_create_group(group) == group \in GROUPS \ Groups

create_group(group) ==
    /\ grd_create_group(group)
    /\ Groups' = Groups \cup {group}
    /\ UNCHANGED <<Users, UserGroups, UserCaps, procVars, fileVars, fdVars>>

change_capabilities(user, caps) ==
    /\ user \in Users
    /\ UserCaps' = With(UserCaps, user, caps)
    /\ UNCHANGED <<Users, Groups, UserGroups, procVars, fileVars, fdVars>>

-----------------------------------------------------------------------------
(* The specification.  Every event but any_transition is a call.           *)

DIRFDS == FILE_DESCRIPTORS \cup {AT_FDCWD}
XATTR_FLAGS == {"XATTR_CREATE", "XATTR_REPLACE"}

OpenCall(proc, parent, file, name) ==
    \E flags \in FLAGS, fd \in FILE_DESCRIPTORS, fdNumber \in FD_NUMBERS :
       \/ open_exists(proc, parent, file, name, flags, fd, fdNumber)
       \/ \E mode \in MODES :
             open_create(proc, parent, file, name, flags, mode, fd, fdNumber)
       \/ \E dirfd \in DIRFDS, cwd \in Folders :
             \/ openat_exists(proc, dirfd, cwd, parent, file, name, flags, fd,
                              fdNumber)
             \/ \E mode \in MODES :
                   openat_create(proc, dirfd, cwd, parent, file, name, flags,
                                 mode, fd, fdNumber)

TreeCall(proc, parent, file, name) ==
    \/ \E mode \in MODES : mkdir(proc, parent, file, name, mode)
    \/ \E newParent \in Folders, newName \in STRINGS :
          link(proc, parent, newParent, file, name, newName)
    \/ \E target \in TARGETS : symlink(proc, target, parent, file, name)
    \/ unlink(proc, parent, file, name)
    \/ rmdir(proc, parent, file, name)

AttributeCall(proc, parent, file, name) ==
    \/ \E mode \in MODES :
          \/ chmod(proc, parent, file, name, mode)
          \/ \E dirfd \in DIRFDS, cwd \in Folders :
                fchmodat(proc, dirfd, cwd, parent, file, name, mode)
    \/ \E owner \in Users, group \in Groups :
          \/ chown(proc, parent, file, name, owner, group)
          \/ \E dirfd \in DIRFDS, cwd \in Folders :
                fchownat(proc, dirfd, cwd, parent, file, name, owner, group)
    \/ \E attr \in STRINGS :
          \/ \E value \in DATA, size \in {0, 1} : getxattr(proc, parent, file, name, attr, value, size)
          \/ \E value \in DATA, flags \in SUBSET XATTR_FLAGS :
                setxattr(proc, parent, file, name, attr, value, flags)

DescriptorCall(proc, fd) ==
    \/ fchdir(proc, fd)
    \/ getdents(proc, fd)
    \/ close(proc, fd)
    \/ \E mode \in MODES : fchmod(proc, fd, mode)
    \/ \E owner \in Users, group \in Groups : fchown(proc, fd, owner, group)

ProcessCall(proc) ==
    \/ \E dir \in Folders : chdir(proc, dir)
    \/ \E parent \in Folders, exeFile \in Files, name \in STRINGS,
          fds \in SUBSET FDs : execve(proc, parent, exeFile, name, fds)
    \/ \E mask \in UMASKS : umask(proc, mask)
    \/ \E fds \in SUBSET FDs : exit(proc, fds)
    \/ \E newProc \in PROCS : fork(proc, newProc)

SetupCall ==
    \/ \E user \in USERS, groups \in SUBSET Groups, caps \in SUBSET CAPABILITIES :
          create_user(user, groups, caps)
    \/ \E group \in GROUPS : create_group(group)
    \/ \E user \in Users, proc \in PROCS, group \in Groups, exeFile \in Files,
          mask \in UMASKS : login(user, proc, group, exeFile, mask)
    \/ \E acl \in ACLS : set_acl(acl)
    \/ \E user \in Users, caps \in SUBSET CAPABILITIES :
          change_capabilities(user, caps)

\* A system call of proc.
ProcCall(proc) ==
    \/ \E parent \in Folders, file \in FILES, name \in STRINGS :
          \/ OpenCall(proc, parent, file, name)
          \/ TreeCall(proc, parent, file, name)
          \/ AttributeCall(proc, parent, file, name)
    \/ \E fd \in FDs : DescriptorCall(proc, fd)
    \/ ProcessCall(proc)

Next == (\E proc \in Procs : ProcCall(proc)) \/ SetupCall

Spec == Init /\ [][Next]_vars

-----------------------------------------------------------------------------
(* Invariants of the machine.                                              *)

UsersOK ==
    /\ Users \subseteq USERS /\ ROOT_USER \in Users
    /\ Groups \subseteq GROUPS
    /\ UserGroups \subseteq Users \X Groups
    /\ UserCaps \in [Users -> SUBSET CAPABILITIES]

ProcsOK ==
    /\ Procs \subseteq PROCS /\ INIT_PROC \in Procs
    /\ ProcUser \in [Procs -> Users]
    /\ ProcGroup \in [Procs -> Groups]
    /\ ProcUmask \in [Procs -> SUBSET (PERMISSIONS \ FILE_MODES)]
    /\ ProcEXE \in [Procs -> FILES]
    /\ ProcCwd \in [Procs -> FILES]
    /\ ProcParent \in [Procs \ {INIT_PROC} -> Procs]

TreeOK ==
    /\ Files \subseteq FILES
    /\ Folders \subseteq Files /\ ROOT \in Folders
    /\ SymLinks \subseteq Files
    /\ FileParents \subseteq (Files \ {ROOT}) \X Folders \X STRINGS
    /\ FileLink \in [SymLinks -> FILES \X STRINGS]
    /\ PathToRoot \in [Folders -> SUBSET Folders]

AttributesOK ==
    /\ DACPermissions \in [Files -> SUBSET PERMISSIONS]
    /\ FileUser \in [Files -> Users]
    /\ FileGroup \in [Files -> Groups]
    /\ DOMAIN FileXattrs = Files
    /\ \A f \in Files : IsPartial(FileXattrs[f], STRINGS, DATA)

AclsOK ==
    /\ IsPartial(UserACL, Files \X Users, SUBSET USER_PERMISSIONS)
    /\ IsPartial(GroupACL, Files \X Groups, SUBSET GROUP_PERMISSIONS)
    /\ IsPartial(GroupObjACL, Files, SUBSET GROUP_PERMISSIONS)
    /\ IsPartial(MaskACL, Files, SUBSET GROUP_PERMISSIONS)

FDsOK ==
    /\ FDs \subseteq FILE_DESCRIPTORS
    /\ ProcFDs \subseteq Procs \X FDs
    /\ FDFlags \in [FDs -> SUBSET OPEN_FLAGS]
    /\ FDFile \in [FDs -> FILES]
    /\ FDNumber \in [FDs -> Nat]

\* Every variable has the type the machine gives it (the @..._type labels).
\* In particular no attribute, ACL entry or descriptor table outlives the
\* file, process or descriptor it belongs to.
TypeOK == UsersOK /\ ProcsOK /\ TreeOK /\ AttributesOK /\ AclsOK /\ FDsOK

\* A directory that has lost its last name is gone, and so is any other file:
\* FileParents is total on the files below ROOT, a directory has exactly one
\* entry, and it is not a symbolic link (FileParents_type, FileParents1,
\* SymLinks1), whatever links, removals and inode reuse came before.
HierarchySound ==
    /\ \A f \in Files \ {ROOT} : \E e \in FileParents : e[1] = f
    /\ \A e1, e2 \in FileParents :
          e1[1] = e2[1] /\ e1[1] \in Folders => e1 = e2
    /\ SymLinks \cap Folders = {}

\* PathToRoot, which mkdir and rmdir maintain incrementally and every path
\* check reads, is exactly the set of the ancestors that FileParents gives
\* (PathToRoot1 to PathToRoot4).
PathToRootSound ==
    /\ PathToRoot[ROOT] = {}
    /\ \A e \in FileParents : e[1] \in Folders =>
          PathToRoot[e[1]] = WithAncestors(e[2])
    /\ \A f \in Folders : \A p \in PathToRoot[f] : PathToRoot[p] \subseteq PathToRoot[f]
    /\ \A f \in Folders : \A p \in PathToRoot[f] :
          \E e \in FileParents : e[1] \in WithAncestors(f) /\ e[2] = p

\* The directories form one tree: no directory is above itself and all are
\* below ROOT.
TreeRooted ==
    \A f \in Folders :
       /\ f \notin PathToRoot[f]
       /\ f # ROOT => ROOT \in PathToRoot[f]

\* A name in a directory denotes at most one file.
NamesUnique ==
    \A e1, e2 \in FileParents : e1[2] = e2[2] /\ e1[3] = e2[3] => e1 = e2

\* The ACL of a file and its group permission bits stay in step through
\* chmod, chown, creation, removal and set_acl (ACL1 to ACL4).
AclSound == AclsFit(Files, UserACL, GroupACL, GroupObjACL, MaskACL, DACPermissions)

\* What a process runs is never a directory, even when the executable was
\* removed and its inode reused (ProcEXE1).
ExeNotFolder == \A p \in Procs : ProcEXE[p] \notin Folders

\* A working directory has been removed or is still a directory (ProcCwd1).
CwdIsFolder == \A p \in Procs : ProcCwd[p] \in Files => ProcCwd[p] \in Folders

\* No process holds a directory open for writing, unless by O_PATH (ProcFDs3):
\* inode reuse must not turn an open file into a directory.
NoWritableFolder ==
    \A e \in ProcFDs :
       FDFile[e[2]] \in Folders /\ "O_PATH" \notin FDFlags[e[2]]
         => ~WritesFile(FDFlags[e[2]])

\* The limits on open descriptors hold for each process and for the system
\* (ProcFDs1, ProcFDs2), through fork as well as open.
LimitsHold ==
    /\ \A p \in Procs : Cardinality(DescriptorsOf(p)) <= PROC_FILE_LIMIT
    /\ Cardinality(OpenDescriptors) <= FILE_LIMIT
    /\ Cardinality(Files) <= MAX_FILES

\* A process never holds two descriptors with the same number, though forked
\* processes share descriptors.
FDNumbersUnique ==
    \A p \in Procs : \A d1, d2 \in DescriptorsOf(p) :
       FDNumber[d1] = FDNumber[d2] => d1 = d2

MachineInv ==
    /\ TypeOK
    /\ HierarchySound
    /\ PathToRootSound
    /\ AclSound
    /\ ExeNotFolder
    /\ CwdIsFolder
    /\ NoWritableFolder
    /\ LimitsHold

\* The event that forces a state: its guards are the machine's invariants,
\* stated of the new values.
any_transition == MachineInv'

ForcedSpec == Init /\ [][Next \/ any_transition]_vars

-----------------------------------------------------------------------------
(* What a step may never do, and what the access check computes.           *)

\* As long as a descriptor is open it denotes the same inode, and an inode
\* that was unlinked while open does not come back to life as another file:
\* no creation reuses it.
DescriptorsStable ==
    [][\A d \in FDs \cap FDs' :
          /\ FDFile'[d] = FDFile[d]
          /\ FDFile[d] \notin Files => FDFile[d] \notin Files']_vars

\* A file that takes a freed inode starts with nothing of the file that had
\* it before: no extended attribute, no ACL entry, no mask; it belongs to the
\* user of a running process.
FreshInode ==
    [][\A f \in Files' \ Files :
          /\ DOMAIN FileXattrs'[f] = {}
          /\ f \notin DOMAIN MaskACL'
          /\ \A e \in DOMAIN UserACL' \cup DOMAIN GroupACL' : e[1] # f
          /\ \E p \in Procs : FileUser'[f] = ProcUser[p]]_vars

IsSetUid(f) == f \in Files /\ SET_UID \in DACPermissions[f]

\* No call of an ordinary user's process makes or takes over a set-user-ID
\* file that would run as somebody else: creation, chmod and chown by every
\* path, and the identity change of execve, leave such files as they were.
UserConfined ==
    [][\A proc \in Procs :
          ProcUser[proc] # ROOT_USER /\ ProcCall(proc) =>
             \A f \in Files' :
                IsSetUid(f)' /\ FileUser'[f] # ProcUser[proc]
                  => IsSetUid(f) /\ FileUser'[f] = FileUser[f]]_vars

\* The decision of acl_permission_check and posix_acl_permission in the Linux
\* kernel, whose outcome the events must predict: the first class that
\* concerns the process decides, and the ACL is read only when the group bits
\* of the mode (the mask) are not empty.
FirstMatchGrants(proc, f, acc) ==
    LET user    == ProcUser[proc]
        masked  == Bits("G", acc) \subseteq MaskACL[f]
        inGroup == FileGroup[f] \in GroupsOf(proc)
    IN  IF user = FileUser[f]
        THEN Bits("U", acc) \subseteq DACPermissions[f]
        ELSE IF f \in DOMAIN MaskACL /\ MaskACL[f] # {}
        THEN IF <<f, user>> \in DOMAIN UserACL
             THEN Bits("U", acc) \subseteq UserACL[<<f, user>>] /\ masked
             ELSE IF inGroup \/ \E g \in GroupsOf(proc) : <<f, g>> \in DOMAIN GroupACL
             THEN GroupEntryGrants(proc, f, acc) /\ masked
             ELSE Bits("O", acc) \subseteq DACPermissions[f]
        ELSE Bits(IF inGroup THEN "G" ELSE "O", acc) \subseteq DACPermissions[f]

ACCESSES == (SUBSET {"r", "w", "x"}) \ {{}}

\* In every reachable state the six alternatives of the access guard decide as
\* the kernel's first-match algorithm does, for every process, file and set of
\* accesses: none of them overlaps another with a different answer.
AccessIsFirstMatch ==
    \A proc \in Procs, f \in Files, acc \in ACCESSES :
       Grants(proc, f, acc) <=> FirstMatchGrants(proc, f, acc)
=============================================================================
