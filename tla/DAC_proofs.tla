----------------------------- MODULE DAC_proofs -----------------------------
(***************************************************************************)
(* Proofs about the machine DAC, for all values of its constants.          *)
(***************************************************************************)
EXTENDS DAC, FiniteSetTheorems, TLAPS

-----------------------------------------------------------------------------
(* Functions with a changing domain.                                       *)

LEMMA WithType ==
    ASSUME NEW S, NEW T, NEW f \in [S -> T], NEW x, NEW v \in T
    PROVE  With(f, x, v) \in [S \cup {x} -> T]
BY DEF With

LEMMA WithInside ==
    ASSUME NEW S, NEW T, NEW f \in [S -> T], NEW x \in S, NEW v \in T
    PROVE  With(f, x, v) \in [S -> T]
BY DEF With

LEMMA WithoutType ==
    ASSUME NEW S, NEW T, NEW f \in [S -> T], NEW R
    PROVE  Without(f, R) \in [S \ R -> T]
BY DEF Without

LEMMA WithPartial ==
    ASSUME NEW S, NEW T, NEW f, IsPartial(f, S, T), NEW x, NEW v \in T
    PROVE  IsPartial(With(f, x, v), S \cup {x}, T)
BY DEF With, IsPartial

LEMMA WithoutPartial ==
    ASSUME NEW S, NEW T, NEW f, IsPartial(f, S, T), NEW R, NEW Q, S \ R \subseteq Q
    PROVE  IsPartial(Without(f, R), Q, T)
BY DEF Without, IsPartial

LEMMA PartialMono ==
    ASSUME NEW S, NEW T, NEW f, IsPartial(f, S, T), NEW Q, S \subseteq Q
    PROVE  IsPartial(f, Q, T)
BY DEF IsPartial

-----------------------------------------------------------------------------
(* Type correctness.  Each lemma covers one family of events.              *)

LEMMA PermissionFacts ==
    /\ FILE_MODES \subseteq PERMISSIONS
    /\ SET_UID \in FILE_MODES /\ SET_GID \in FILE_MODES
    /\ GROUP_PERMISSIONS \subseteq PERMISSIONS
    /\ GROUP_PERMISSIONS \cap FILE_MODES = {}
    /\ DEF_SYMLINK_PERMS \subseteq PERMISSIONS
BY DEF PERMISSIONS, FILE_MODES, GROUP_PERMISSIONS, USER_PERMISSIONS,
       OTHER_PERMISSIONS, DEF_SYMLINK_PERMS, SET_UID, SET_GID, STICKY_BIT

LEMMA InitType == Init => TypeOK
<1> SUFFICES ASSUME Init PROVE TypeOK
  OBVIOUS
<1> USE ContextAssumption DEF Init
<1>1. UsersOK /\ ProcsOK /\ TreeOK /\ FDsOK
  BY DEF UsersOK, ProcsOK, TreeOK, FDsOK
<1>2. DEF_FOLDER_PERMS \subseteq PERMISSIONS /\ DEF_FILE_PERMS \subseteq PERMISSIONS
  BY DEF DEF_FOLDER_PERMS, DEF_FILE_PERMS, Bits, PERMISSIONS, USER_PERMISSIONS,
         GROUP_PERMISSIONS, OTHER_PERMISSIONS
<1>3. AttributesOK
  BY <1>2 DEF AttributesOK, IsPartial
<1>4. AclsOK
  BY <1>2 DEF AclsOK, IsPartial
<1> QED BY <1>1, <1>3, <1>4 DEF TypeOK

LEMMA AllocateType ==
    ASSUME TypeOK, NEW proc \in Procs, NEW fd \in FILE_DESCRIPTORS,
           NEW fdNumber \in FD_NUMBERS, NEW flags \in FLAGS, NEW file \in FILES,
           AllocateFD(proc, fd, fdNumber, flags, file), UNCHANGED Procs
    PROVE  FDsOK'
<1>1. flags \in SUBSET OPEN_FLAGS /\ fdNumber \in Nat
  BY InputsAssumption
<1>2. FDs' \subseteq FILE_DESCRIPTORS /\ ProcFDs' \subseteq Procs' \X FDs'
  BY DEF TypeOK, FDsOK, AllocateFD
<1>3. /\ FDFlags' \in [FDs' -> SUBSET OPEN_FLAGS]
      /\ FDFile' \in [FDs' -> FILES]
      /\ FDNumber' \in [FDs' -> Nat]
  BY <1>1, WithType DEF TypeOK, FDsOK, AllocateFD
<1> QED BY <1>2, <1>3 DEF FDsOK

LEMMA ForgetFDsType ==
    ASSUME TypeOK, NEW fds, ForgetFDs(fds), ProcFDs' \subseteq ProcFDs,
           \A e \in ProcFDs' : e[1] \in Procs' /\ e[2] \notin fds
    PROVE  FDsOK'
<1>1. /\ FDFlags' \in [FDs' -> SUBSET OPEN_FLAGS]
      /\ FDFile' \in [FDs' -> FILES]
      /\ FDNumber' \in [FDs' -> Nat]
  BY WithoutType DEF TypeOK, FDsOK, ForgetFDs
<1>2. FDs' \subseteq FILE_DESCRIPTORS /\ ProcFDs' \subseteq Procs' \X FDs'
  BY DEF TypeOK, FDsOK, ForgetFDs
<1> QED BY <1>1, <1>2 DEF FDsOK

LEMMA CreateEntryType ==
    ASSUME TypeOK, NEW proc \in Procs, NEW parent \in Folders,
           NEW file \in FILES \ Files, NEW name \in STRINGS, NEW group \in Groups,
           NEW perms \in SUBSET PERMISSIONS,
           CreateEntry(proc, parent, file, name, group, perms),
           UNCHANGED userVars, Folders \subseteq Folders'
    PROVE  /\ AttributesOK' /\ AclsOK'
           /\ Files' \subseteq FILES
           /\ FileParents' \subseteq (Files' \ {ROOT}) \X Folders' \X STRINGS
<1> USE DEF CreateEntry, userVars
<1>1. ProcUser[proc] \in Users
  BY DEF TypeOK, ProcsOK
<1>2. /\ DACPermissions' \in [Files' -> SUBSET PERMISSIONS]
      /\ FileUser' \in [Files' -> Users']
      /\ FileGroup' \in [Files' -> Groups']
  BY <1>1, WithType DEF TypeOK, AttributesOK
<1>3. DOMAIN FileXattrs' = Files' /\ \A f \in Files' : IsPartial(FileXattrs'[f], STRINGS, DATA)
  BY DEF TypeOK, AttributesOK, With, IsPartial
<1>4. AclsOK'
  <2>1. IsPartial(GroupObjACL', Files', SUBSET GROUP_PERMISSIONS)
    BY WithPartial DEF TypeOK, AclsOK
  <2>2. IsPartial(UserACL, Files' \X Users, SUBSET USER_PERMISSIONS)
    BY PartialMono DEF TypeOK, AclsOK
  <2>3. IsPartial(GroupACL, Files' \X Groups, SUBSET GROUP_PERMISSIONS)
    BY PartialMono DEF TypeOK, AclsOK
  <2>4. IsPartial(MaskACL, Files', SUBSET GROUP_PERMISSIONS)
    BY PartialMono DEF TypeOK, AclsOK
  <2> QED BY <2>1, <2>2, <2>3, <2>4 DEF AclsOK
<1>5. FileParents' \subseteq (Files' \ {ROOT}) \X Folders' \X STRINGS
  BY DEF TypeOK, TreeOK
<1> QED BY <1>2, <1>3, <1>4, <1>5 DEF AttributesOK, TypeOK, TreeOK

LEMMA InheritedGroupType ==
    ASSUME TypeOK, NEW proc \in Procs, NEW parent \in Folders
    PROVE  InheritedGroup(proc, parent) \in Groups
BY DEF InheritedGroup, TypeOK, ProcsOK, TreeOK, AttributesOK

LEMMA OpenExistingType ==
    ASSUME TypeOK, NEW proc \in Procs, NEW parent, NEW file \in FILES, NEW name,
           NEW flags \in FLAGS, NEW fd \in FILE_DESCRIPTORS,
           NEW fdNumber \in FD_NUMBERS, NEW dirs,
           OpenExisting(proc, parent, file, name, flags, fd, fdNumber, dirs)
    PROVE  TypeOK'
<1> USE DEF OpenExisting, userVars, procVars, fileVars, treeVars, ownerVars, aclVars, grd_OpenExisting
<1>1. FDsOK'
  BY AllocateType
<1>2. UsersOK' /\ ProcsOK' /\ TreeOK' /\ AttributesOK' /\ AclsOK'
  BY DEF TypeOK, UsersOK, ProcsOK, TreeOK, AttributesOK, AclsOK
<1> QED BY <1>1, <1>2 DEF TypeOK

LEMMA CreateAndOpenType ==
    ASSUME TypeOK, NEW proc \in Procs, NEW parent \in Folders, NEW file \in FILES,
           NEW name \in STRINGS, NEW flags \in FLAGS, NEW mode \in MODES,
           NEW fd \in FILE_DESCRIPTORS, NEW fdNumber \in FD_NUMBERS, NEW dirs,
           CreateAndOpen(proc, parent, file, name, flags, mode, fd, fdNumber, dirs)
    PROVE  TypeOK'
<1> USE DEF CreateAndOpen, userVars, procVars, grd_CreateAndOpen
<1>1. FDsOK'
  BY AllocateType
<1>2. file \in FILES \ Files /\ mode \ ProcUmask[proc] \in SUBSET PERMISSIONS
  BY InputsAssumption DEF IsUnused
<1>3. /\ AttributesOK' /\ AclsOK'
      /\ Files' \subseteq FILES
      /\ FileParents' \subseteq (Files' \ {ROOT}) \X Folders' \X STRINGS
  BY <1>2, InheritedGroupType, CreateEntryType
<1>4. UsersOK' /\ ProcsOK' /\ TreeOK'
  BY <1>3 DEF TypeOK, UsersOK, ProcsOK, TreeOK, CreateEntry
<1> QED BY <1>1, <1>3, <1>4 DEF TypeOK

LEMMA OpenType ==
    ASSUME TypeOK, NEW proc \in Procs, NEW parent \in Folders, NEW file \in FILES,
           NEW name \in STRINGS, OpenCall(proc, parent, file, name)
    PROVE  TypeOK'
<1>1. PICK flags \in FLAGS, fd \in FILE_DESCRIPTORS, fdNumber \in FD_NUMBERS :
         \/ \E dirs : OpenExisting(proc, parent, file, name, flags, fd, fdNumber, dirs)
         \/ \E dirs : \E mode \in MODES :
               CreateAndOpen(proc, parent, file, name, flags, mode, fd, fdNumber, dirs)
  BY Zenon DEF OpenCall, open_exists, open_create, openat_exists, openat_create
<1>2. CASE \E dirs : OpenExisting(proc, parent, file, name, flags, fd, fdNumber, dirs)
  BY <1>2, OpenExistingType
<1>3. CASE \E dirs : \E mode \in MODES :
              CreateAndOpen(proc, parent, file, name, flags, mode, fd, fdNumber, dirs)
  BY <1>3, CreateAndOpenType
<1> QED BY <1>1, <1>2, <1>3

LEMMA MkdirType ==
    ASSUME TypeOK, NEW proc \in Procs, NEW parent \in Folders, NEW file \in FILES,
           NEW name \in STRINGS, NEW mode \in MODES,
           mkdir(proc, parent, file, name, mode)
    PROVE  TypeOK'
<1> DEFINE perms == (mode \cup (DACPermissions[parent] \cap {SET_GID}))
                      \ (mode \cap ProcUmask[proc])
<1>1. file \in FILES \ Files /\ perms \in SUBSET PERMISSIONS
  BY InputsAssumption, PermissionFacts DEF mkdir, IsUnusedForDir, grd_mkdir, MkdirPerms
<1>2. CreateEntry(proc, parent, file, name, InheritedGroup(proc, parent), perms)
  BY DEF mkdir, grd_mkdir, MkdirPerms
<1> HIDE DEF perms
<1> USE DEF mkdir, userVars, procVars, fdVars, grd_mkdir, MkdirPerms
<1>3. /\ AttributesOK' /\ AclsOK'
      /\ Files' \subseteq FILES
      /\ FileParents' \subseteq (Files' \ {ROOT}) \X Folders' \X STRINGS
  BY <1>1, <1>2, InheritedGroupType, CreateEntryType
<1>4. PathToRoot' \in [Folders' -> SUBSET Folders']
  <2>1. WithAncestors(parent) \in SUBSET Folders' /\ PathToRoot \in [Folders -> SUBSET Folders']
    BY DEF WithAncestors, TypeOK, TreeOK
  <2> QED BY <2>1, WithType
<1>5. UsersOK' /\ ProcsOK' /\ TreeOK' /\ FDsOK'
  BY <1>3, <1>4 DEF TypeOK, UsersOK, ProcsOK, TreeOK, FDsOK, CreateEntry
<1> QED BY <1>3, <1>5 DEF TypeOK

LEMMA SymlinkType ==
    ASSUME TypeOK, NEW proc \in Procs, NEW target \in TARGETS, NEW parent \in Folders,
           NEW file \in FILES, NEW name \in STRINGS,
           symlink(proc, target, parent, file, name)
    PROVE  TypeOK'
<1> USE DEF symlink, userVars, procVars, fdVars
<1>1. file \in FILES \ Files /\ ProcGroup[proc] \in Groups
  BY DEF IsUnused, TypeOK, ProcsOK
<1>2. /\ AttributesOK' /\ AclsOK'
      /\ Files' \subseteq FILES
      /\ FileParents' \subseteq (Files' \ {ROOT}) \X Folders' \X STRINGS
  BY <1>1, PermissionFacts, CreateEntryType
<1>3. FileLink' \in [SymLinks' -> FILES \X STRINGS]
  BY InputsAssumption, WithType DEF TypeOK, TreeOK
<1>4. UsersOK' /\ ProcsOK' /\ TreeOK' /\ FDsOK'
  BY <1>2, <1>3 DEF TypeOK, UsersOK, ProcsOK, TreeOK, FDsOK, CreateEntry
<1> QED BY <1>2, <1>4 DEF TypeOK

LEMMA LinkType ==
    ASSUME TypeOK, NEW proc, NEW oldParent, NEW newParent, NEW file, NEW oldName,
           NEW newName \in STRINGS,
           link(proc, oldParent, newParent, file, oldName, newName)
    PROVE  TypeOK'
<1> USE DEF link, userVars, procVars, fdVars, ownerVars, aclVars, grd_link
<1>1. FileParents' \subseteq (Files' \ {ROOT}) \X Folders' \X STRINGS
  BY DEF TypeOK, TreeOK
<1>2. UsersOK' /\ ProcsOK' /\ TreeOK' /\ FDsOK' /\ AttributesOK' /\ AclsOK'
  BY <1>1 DEF TypeOK, UsersOK, ProcsOK, TreeOK, FDsOK, AttributesOK, AclsOK
<1> QED BY <1>2 DEF TypeOK

LEMMA ForgetAttributesType ==
    ASSUME TypeOK, NEW gone, ForgetAttributes(gone), UNCHANGED userVars
    PROVE  AttributesOK' /\ AclsOK'
<1> USE DEF ForgetAttributes, ForgetAcls, userVars
<1>1. /\ DACPermissions' \in [Files' -> SUBSET PERMISSIONS]
      /\ FileUser' \in [Files' -> Users']
      /\ FileGroup' \in [Files' -> Groups']
  BY WithoutType DEF TypeOK, AttributesOK
<1>2. DOMAIN FileXattrs' = Files' /\ \A f \in Files' : IsPartial(FileXattrs'[f], STRINGS, DATA)
  BY DEF TypeOK, AttributesOK, Without
<1>3. /\ IsPartial(UserACL', Files' \X Users', SUBSET USER_PERMISSIONS)
      /\ IsPartial(GroupACL', Files' \X Groups', SUBSET GROUP_PERMISSIONS)
  <2>1. /\ (Files \X Users) \ (gone \X Users) \subseteq Files' \X Users'
        /\ (Files \X Groups) \ (gone \X Groups) \subseteq Files' \X Groups'
    OBVIOUS
  <2> QED BY <2>1, WithoutPartial DEF TypeOK, AclsOK
<1>4. /\ IsPartial(GroupObjACL', Files', SUBSET GROUP_PERMISSIONS)
      /\ IsPartial(MaskACL', Files', SUBSET GROUP_PERMISSIONS)
  BY WithoutPartial DEF TypeOK, AclsOK
<1> QED BY <1>1, <1>2, <1>3, <1>4 DEF AttributesOK, AclsOK

LEMMA UnlinkType ==
    ASSUME TypeOK, NEW proc, NEW parent, NEW file, NEW name,
           unlink(proc, parent, file, name)
    PROVE  TypeOK'
<1> USE DEF unlink, userVars, procVars, fdVars
<1>1. AttributesOK' /\ AclsOK'
  BY ForgetAttributesType
<1>2. /\ Files' = Files \ Unlinked(parent, file, name)
      /\ Unlinked(parent, file, name) \subseteq {file}
  BY DEF ForgetAttributes, Unlinked
<1>3. Folders' \subseteq Files' /\ ROOT \in Folders'
  BY <1>2 DEF TypeOK, TreeOK
<1>4. FileParents' \subseteq (Files' \ {ROOT}) \X Folders' \X STRINGS
  BY <1>2 DEF TypeOK, TreeOK, Unlinked
<1>5. FileLink' \in [SymLinks' -> FILES \X STRINGS]
  BY WithoutType DEF TypeOK, TreeOK
<1>6. UsersOK' /\ ProcsOK' /\ TreeOK' /\ FDsOK'
  BY <1>2, <1>3, <1>4, <1>5 DEF TypeOK, UsersOK, ProcsOK, TreeOK, FDsOK
<1> QED BY <1>1, <1>6 DEF TypeOK

\* Only here does type correctness need other invariants: the removed
\* directory has no second entry, is no symbolic link and is nobody's ancestor.
LEMMA RmdirType ==
    ASSUME TypeOK, HierarchySound, PathToRootSound, NEW proc, NEW parent, NEW folder, NEW name,
           rmdir(proc, parent, folder, name)
    PROVE  TypeOK'
<1> USE DEF rmdir, userVars, procVars, fdVars
<1>1. AttributesOK' /\ AclsOK'
  BY ForgetAttributesType
<1>2. Files' = Files \ {folder}
  BY DEF ForgetAttributes
<1>3. Folders' \subseteq Files' /\ ROOT \in Folders' /\ SymLinks' = SymLinks
  BY <1>2 DEF TypeOK, TreeOK
<1>4. \A f \in Folders : folder \notin PathToRoot[f]
  BY DEF PathToRootSound
<1>5. PathToRoot' \in [Folders' -> SUBSET Folders']
  <2>1. \A f \in Folders' : PathToRoot[f] \in SUBSET Folders'
    BY <1>4 DEF TypeOK, TreeOK
  <2> QED BY <2>1 DEF Without, TypeOK, TreeOK
<1>6. folder \notin SymLinks
  BY DEF HierarchySound
<1>7. FileParents' \subseteq (Files' \ {ROOT}) \X Folders' \X STRINGS
  <2> SUFFICES ASSUME NEW e \in FileParents' PROVE e[1] # folder /\ e[2] # folder
    BY <1>2 DEF TypeOK, TreeOK
  <2> QED BY DEF HierarchySound
<1>8. UsersOK' /\ ProcsOK' /\ TreeOK' /\ FDsOK'
  BY <1>2, <1>3, <1>5, <1>6, <1>7 DEF TypeOK, UsersOK, ProcsOK, TreeOK, FDsOK
<1> QED BY <1>1, <1>8 DEF TypeOK

LEMMA TreeType ==
    ASSUME TypeOK, HierarchySound, PathToRootSound, NEW proc \in Procs,
           NEW parent \in Folders, NEW file \in FILES, NEW name \in STRINGS,
           TreeCall(proc, parent, file, name)
    PROVE  TypeOK'
BY MkdirType, LinkType, SymlinkType, UnlinkType, RmdirType DEF TreeCall

LEMMA SetModeType ==
    ASSUME TypeOK, NEW proc \in Procs, NEW file \in Files, NEW mode \in MODES,
           SetMode(proc, file, mode)
    PROVE  TypeOK'
<1> USE DEF SetMode, userVars, procVars, treeVars, ownerVars, fdVars
<1>1. KeptMode(proc, file, mode) \in SUBSET PERMISSIONS
  BY InputsAssumption DEF KeptMode
<1>2. DACPermissions' \in [Files -> SUBSET PERMISSIONS]
  BY <1>1, WithInside DEF TypeOK, AttributesOK
<1>3. Files \cup {file} = Files
  OBVIOUS
<1>4. /\ IsPartial(MaskACL', Files, SUBSET GROUP_PERMISSIONS)
      /\ IsPartial(GroupObjACL', Files, SUBSET GROUP_PERMISSIONS)
  BY <1>3, WithPartial DEF TypeOK, AclsOK
<1>5. UsersOK' /\ ProcsOK' /\ TreeOK' /\ AttributesOK' /\ AclsOK' /\ FDsOK'
  BY <1>2, <1>4 DEF TypeOK, UsersOK, ProcsOK, TreeOK, AttributesOK, AclsOK, FDsOK
<1> QED BY <1>5 DEF TypeOK

LEMMA SetOwnerType ==
    ASSUME TypeOK, NEW proc \in Procs, NEW file \in Files, NEW owner, NEW group,
           SetOwner(proc, file, owner, group)
    PROVE  TypeOK'
<1> USE DEF SetOwner, userVars, procVars, treeVars, aclVars, fdVars, MayChown
<1>1. ChownPerms(file) \in SUBSET PERMISSIONS
  BY DEF ChownPerms, TypeOK, AttributesOK
<1>2. /\ DACPermissions' \in [Files -> SUBSET PERMISSIONS]
      /\ FileUser' \in [Files -> Users]
      /\ FileGroup' \in [Files -> Groups]
  BY <1>1, WithInside DEF TypeOK, AttributesOK
<1>3. UsersOK' /\ ProcsOK' /\ TreeOK' /\ AttributesOK' /\ AclsOK' /\ FDsOK'
  BY <1>2 DEF TypeOK, UsersOK, ProcsOK, TreeOK, AttributesOK, AclsOK, FDsOK
<1> QED BY <1>3 DEF TypeOK

LEMMA SetxattrType ==
    ASSUME TypeOK, NEW proc, NEW parent, NEW file, NEW fileName,
           NEW attr \in STRINGS, NEW value \in DATA, NEW flags,
           setxattr(proc, parent, file, fileName, attr, value, flags)
    PROVE  TypeOK'
<1> USE DEF setxattr, userVars, procVars, treeVars, aclVars, fdVars, grd_setxattr, grd_path
<1>1. file \in Files
  BY DEF TypeOK, TreeOK
<1>2. IsPartial(With(FileXattrs[file], attr, value), STRINGS, DATA)
  <2>1. STRINGS \cup {attr} = STRINGS /\ IsPartial(FileXattrs[file], STRINGS, DATA)
    BY <1>1 DEF TypeOK, AttributesOK
  <2> QED BY <2>1, WithPartial
<1>3. DOMAIN FileXattrs' = Files /\ \A f \in Files : IsPartial(FileXattrs'[f], STRINGS, DATA)
  <2> DEFINE x == With(FileXattrs[file], attr, value)
  <2>1. FileXattrs' = With(FileXattrs, file, x) /\ IsPartial(x, STRINGS, DATA)
    BY <1>2
  <2> HIDE DEF x
  <2> QED BY <1>1, <2>1 DEF With, TypeOK, AttributesOK
<1>4. UsersOK' /\ ProcsOK' /\ TreeOK' /\ AttributesOK' /\ AclsOK' /\ FDsOK'
  BY <1>3 DEF TypeOK, UsersOK, ProcsOK, TreeOK, AttributesOK, AclsOK, FDsOK
<1> QED BY <1>4 DEF TypeOK

LEMMA StutterType ==
    ASSUME TypeOK, UNCHANGED vars
    PROVE  TypeOK'
BY DEF TypeOK, UsersOK, ProcsOK, TreeOK, AttributesOK, AclsOK, FDsOK, vars, userVars,
       procVars, fileVars, treeVars, ownerVars, aclVars, fdVars

LEMMA AttributeType ==
    ASSUME TypeOK, NEW proc \in Procs, NEW parent, NEW file, NEW name,
           AttributeCall(proc, parent, file, name)
    PROVE  TypeOK'
<1>1. <<file, parent, name>> \in FileParents
  BY DEF AttributeCall, chmod, fchmodat, chown, fchownat, getxattr, setxattr, grd_path, grd_setxattr
<1>2. file \in Files
  BY <1>1 DEF TypeOK, TreeOK
<1> QED
  BY <1>2, SetModeType, SetOwnerType, SetxattrType, StutterType
     DEF AttributeCall, chmod, fchmodat, chown, fchownat, getxattr, grd_path

LEMMA CwdType ==
    ASSUME TypeOK, NEW proc \in Procs, NEW dir \in FILES,
           ProcCwd' = With(ProcCwd, proc, dir),
           UNCHANGED <<userVars, fileVars, fdVars, Procs, ProcUser, ProcGroup,
                       ProcUmask, ProcEXE, ProcParent>>
    PROVE  TypeOK'
<1> USE DEF userVars, fileVars, fdVars, treeVars, ownerVars, aclVars
<1>1. UsersOK' /\ TreeOK' /\ AttributesOK' /\ AclsOK' /\ FDsOK'
  BY DEF TypeOK, UsersOK, TreeOK, AttributesOK, AclsOK, FDsOK
<1>2. ProcsOK'
  BY WithInside DEF TypeOK, ProcsOK
<1> QED BY <1>1, <1>2 DEF TypeOK

LEMMA CloseType ==
    ASSUME TypeOK, NEW proc, NEW fd, close(proc, fd)
    PROVE  TypeOK'
<1> USE DEF close, userVars, procVars, fileVars, treeVars, ownerVars, aclVars, grd_close
<1>1. FDsOK'
  BY ForgetFDsType DEF TypeOK, FDsOK
<1>2. UsersOK' /\ ProcsOK' /\ TreeOK' /\ AttributesOK' /\ AclsOK'
  BY DEF TypeOK, UsersOK, ProcsOK, TreeOK, AttributesOK, AclsOK
<1> QED BY <1>1, <1>2 DEF TypeOK

LEMMA DescriptorType ==
    ASSUME TypeOK, NEW proc \in Procs, NEW fd \in FDs, DescriptorCall(proc, fd)
    PROVE  TypeOK'
<1>1. FDFile[fd] \in FILES
  BY DEF TypeOK, FDsOK
<1> QED
  BY <1>1, CwdType, CloseType, SetModeType, SetOwnerType, StutterType
     DEF DescriptorCall, fchdir, getdents, fchmod, fchown, grd_fd

LEMMA ExecveType ==
    ASSUME TypeOK, NEW proc \in Procs, NEW parent, NEW exeFile, NEW name, NEW fds,
           execve(proc, parent, exeFile, name, fds)
    PROVE  TypeOK'
<1> USE DEF execve, userVars, fileVars, treeVars, ownerVars, aclVars
<1>1. exeFile \in Files /\ exeFile \in FILES
  BY DEF TypeOK, TreeOK
<1>2. /\ ProcEXE' \in [Procs -> FILES]
      /\ ProcUser' \in [Procs -> Users]
      /\ ProcGroup' \in [Procs -> Groups]
  BY <1>1, WithInside DEF TypeOK, ProcsOK, AttributesOK
<1>3. FDsOK'
  BY ForgetFDsType DEF TypeOK, FDsOK
<1>4. UsersOK' /\ ProcsOK' /\ TreeOK' /\ AttributesOK' /\ AclsOK'
  BY <1>2 DEF TypeOK, UsersOK, ProcsOK, TreeOK, AttributesOK, AclsOK
<1> QED BY <1>3, <1>4 DEF TypeOK

LEMMA UmaskType ==
    ASSUME TypeOK, NEW proc \in Procs, NEW mask \in UMASKS, umask(proc, mask)
    PROVE  TypeOK'
<1> USE DEF umask, userVars, fileVars, fdVars, treeVars, ownerVars, aclVars
<1>1. ProcUmask' \in [Procs -> SUBSET (PERMISSIONS \ FILE_MODES)]
  BY InputsAssumption, WithInside DEF TypeOK, ProcsOK
<1>2. UsersOK' /\ ProcsOK' /\ TreeOK' /\ AttributesOK' /\ AclsOK' /\ FDsOK'
  BY <1>1 DEF TypeOK, UsersOK, ProcsOK, TreeOK, AttributesOK, AclsOK, FDsOK
<1> QED BY <1>2 DEF TypeOK

LEMMA ExitType ==
    ASSUME TypeOK, NEW proc, NEW fds, exit(proc, fds)
    PROVE  TypeOK'
<1> USE DEF exit, userVars, fileVars, treeVars, ownerVars, aclVars
<1>1. /\ ProcUser' \in [Procs' -> Users]
      /\ ProcGroup' \in [Procs' -> Groups]
      /\ ProcUmask' \in [Procs' -> SUBSET (PERMISSIONS \ FILE_MODES)]
      /\ ProcEXE' \in [Procs' -> FILES]
      /\ ProcCwd' \in [Procs' -> FILES]
  BY WithoutType DEF TypeOK, ProcsOK
<1>2. ProcParent' \in [Procs' \ {INIT_PROC} -> Procs']
  BY DEF TypeOK, ProcsOK
<1>3. FDsOK'
  <2>1. \A e \in ProcFDs' : e[1] \in Procs' /\ e[2] \notin fds
    BY DEF TypeOK, FDsOK, IsShared
  <2> QED BY <2>1, ForgetFDsType
<1>4. UsersOK' /\ ProcsOK' /\ TreeOK' /\ AttributesOK' /\ AclsOK'
  BY <1>1, <1>2 DEF TypeOK, UsersOK, ProcsOK, TreeOK, AttributesOK, AclsOK
<1> QED BY <1>3, <1>4 DEF TypeOK

LEMMA AddProcType ==
    ASSUME TypeOK, NEW proc \in PROCS \ Procs, NEW user \in Users, NEW group \in Groups,
           NEW mask \in SUBSET (PERMISSIONS \ FILE_MODES), NEW exe \in FILES,
           NEW cwd \in FILES, NEW parent \in Procs,
           AddProc(proc, user, group, mask, exe, cwd, parent), UNCHANGED userVars
    PROVE  ProcsOK'
<1> USE DEF AddProc, userVars
<1>1. /\ ProcUser' \in [Procs' -> Users]
      /\ ProcGroup' \in [Procs' -> Groups]
      /\ ProcUmask' \in [Procs' -> SUBSET (PERMISSIONS \ FILE_MODES)]
      /\ ProcEXE' \in [Procs' -> FILES]
      /\ ProcCwd' \in [Procs' -> FILES]
  BY WithType DEF TypeOK, ProcsOK
<1>2. ProcParent' \in [Procs' \ {INIT_PROC} -> Procs']
  <2>1. ProcParent \in [Procs \ {INIT_PROC} -> Procs'] /\ parent \in Procs'
    BY DEF TypeOK, ProcsOK
  <2>2. (Procs \ {INIT_PROC}) \cup {proc} = Procs' \ {INIT_PROC}
    BY DEF TypeOK, ProcsOK
  <2>3. ProcParent' \in [(Procs \ {INIT_PROC}) \cup {proc} -> Procs']
    BY <2>1, WithType
  <2> QED BY <2>2, <2>3
<1> QED BY <1>1, <1>2 DEF TypeOK, ProcsOK

LEMMA ForkType ==
    ASSUME TypeOK, NEW proc, NEW newProc, fork(proc, newProc)
    PROVE  TypeOK'
<1> USE DEF fork, userVars, fileVars, treeVars, ownerVars, aclVars
<1>1. ProcsOK'
  <2>1. /\ ProcUser[proc] \in Users /\ ProcGroup[proc] \in Groups
        /\ ProcUmask[proc] \in SUBSET (PERMISSIONS \ FILE_MODES)
        /\ ProcEXE[proc] \in FILES /\ ProcCwd[proc] \in FILES
    BY DEF TypeOK, ProcsOK
  <2> QED BY <2>1, AddProcType
<1>2. FDsOK'
  BY DEF AddProc, DescriptorsOf, TypeOK, FDsOK
<1>3. UsersOK' /\ TreeOK' /\ AttributesOK' /\ AclsOK'
  BY DEF TypeOK, UsersOK, TreeOK, AttributesOK, AclsOK
<1> QED BY <1>1, <1>2, <1>3 DEF TypeOK

LEMMA LoginType ==
    ASSUME TypeOK, NEW user, NEW proc, NEW group, NEW exeFile, NEW mask \in UMASKS,
           login(user, proc, group, exeFile, mask)
    PROVE  TypeOK'
<1> USE DEF login, grd_login, userVars, fileVars, treeVars, ownerVars, aclVars, fdVars
<1>1. ProcsOK'
  <2>1. /\ ROOT \in FILES /\ exeFile \in FILES /\ INIT_PROC \in Procs
        /\ mask \in SUBSET (PERMISSIONS \ FILE_MODES)
    BY ContextAssumption, InputsAssumption DEF TypeOK, TreeOK, ProcsOK
  <2> QED BY <2>1, AddProcType
<1>2. FDsOK'
  BY DEF AddProc, TypeOK, FDsOK
<1>3. UsersOK' /\ TreeOK' /\ AttributesOK' /\ AclsOK'
  BY DEF TypeOK, UsersOK, TreeOK, AttributesOK, AclsOK
<1> QED BY <1>1, <1>2, <1>3 DEF TypeOK

LEMMA ProcessType ==
    ASSUME TypeOK, NEW proc \in Procs, ProcessCall(proc)
    PROVE  TypeOK'
<1>1. Folders \subseteq FILES
  BY DEF TypeOK, TreeOK
<1> QED
  BY <1>1, CwdType, ExecveType, UmaskType, ExitType, ForkType
     DEF ProcessCall, chdir

LEMMA UserType ==
    ASSUME TypeOK, NEW user \in USERS, NEW groups, NEW caps \in SUBSET CAPABILITIES,
           create_user(user, groups, caps)
    PROVE  TypeOK'
<1> USE DEF create_user, procVars, fileVars, treeVars, ownerVars, aclVars, fdVars, grd_create_user
<1>1. UsersOK'
  <2>1. UserCaps' \in [Users' -> SUBSET CAPABILITIES]
    BY WithType DEF TypeOK, UsersOK
  <2> QED BY <2>1 DEF TypeOK, UsersOK
<1>2. AclsOK'
  <2>1. Files \X Users \subseteq Files' \X Users'
    OBVIOUS
  <2> QED BY <2>1, PartialMono DEF TypeOK, AclsOK
<1>3. ProcsOK' /\ TreeOK' /\ AttributesOK' /\ FDsOK'
  BY DEF TypeOK, ProcsOK, TreeOK, AttributesOK, FDsOK
<1> QED BY <1>1, <1>2, <1>3 DEF TypeOK

LEMMA GroupType ==
    ASSUME TypeOK, NEW group, create_group(group)
    PROVE  TypeOK'
<1> USE DEF create_group, procVars, fileVars, treeVars, ownerVars, aclVars, fdVars, grd_create_group
<1>1. AclsOK'
  <2>1. Files \X Groups \subseteq Files' \X Groups'
    OBVIOUS
  <2> QED BY <2>1, PartialMono DEF TypeOK, AclsOK
<1>2. UsersOK' /\ ProcsOK' /\ TreeOK' /\ AttributesOK' /\ FDsOK'
  BY DEF TypeOK, UsersOK, ProcsOK, TreeOK, AttributesOK, FDsOK
<1> QED BY <1>1, <1>2 DEF TypeOK

LEMMA CapabilitiesType ==
    ASSUME TypeOK, NEW user, NEW caps \in SUBSET CAPABILITIES,
           change_capabilities(user, caps)
    PROVE  TypeOK'
<1> USE DEF change_capabilities, procVars, fileVars, treeVars, ownerVars, aclVars, fdVars
<1>1. UserCaps' \in [Users -> SUBSET CAPABILITIES]
  BY WithInside DEF TypeOK, UsersOK
<1>2. UsersOK' /\ ProcsOK' /\ TreeOK' /\ AttributesOK' /\ AclsOK' /\ FDsOK'
  BY <1>1 DEF TypeOK, UsersOK, ProcsOK, TreeOK, AttributesOK, AclsOK, FDsOK
<1> QED BY <1>2 DEF TypeOK

LEMMA SetAclType ==
    ASSUME TypeOK, NEW acl, set_acl(acl)
    PROVE  TypeOK'
<1> USE DEF set_acl, userVars, procVars, treeVars, ownerVars, fdVars, grd_set_acl
<1>1. AclsOK'
  BY DEF AclsOK
<1>2. UsersOK' /\ ProcsOK' /\ TreeOK' /\ AttributesOK' /\ FDsOK'
  BY DEF TypeOK, UsersOK, ProcsOK, TreeOK, AttributesOK, FDsOK
<1> QED BY <1>1, <1>2 DEF TypeOK

LEMMA SetupType ==
    ASSUME TypeOK, SetupCall
    PROVE  TypeOK'
BY UserType, GroupType, LoginType, SetAclType, CapabilitiesType DEF SetupCall

-----------------------------------------------------------------------------
(* The directory tree.                                                     *)

\* The part of the machine's invariants that is about the tree, and what else
\* the events (but not any_transition) preserve of it.
TreeInv == HierarchySound /\ PathToRootSound
TreeKept == /\ TreeInv'
            /\ TreeRooted => TreeRooted'
            /\ NamesUnique => NamesUnique'

LEMMA InitTree == Init => TreeInv /\ TreeRooted /\ NamesUnique
BY ContextAssumption
   DEF Init, TreeInv, HierarchySound, PathToRootSound, TreeRooted, NamesUnique

LEMMA TreeFrame ==
    ASSUME TreeInv, UNCHANGED treeVars
    PROVE  TreeKept
BY DEF TreeKept, TreeInv, HierarchySound, PathToRootSound, TreeRooted, NamesUnique,
       WithAncestors, treeVars

\* A new file or symbolic link.
LEMMA CreateFileTree ==
    ASSUME TypeOK, TreeInv, NEW proc, NEW parent \in Folders,
           NEW file \in FILES \ Files, NEW name, NEW group, NEW perms,
           NameIsFree(parent, name),
           CreateEntry(proc, parent, file, name, group, perms),
           UNCHANGED <<Folders, PathToRoot>>, SymLinks' \subseteq SymLinks \cup {file}
    PROVE  TreeKept
<1>1. /\ Files' = Files \cup {file} /\ file \notin Folders
      /\ FileParents' = FileParents \cup {<<file, parent, name>>}
      /\ \A e \in FileParents : e[1] \in Files /\ e[1] # file /\ e[2] \in Folders
      /\ \A e \in FileParents : e = <<e[1], e[2], e[3]>>
  BY DEF CreateEntry, TypeOK, TreeOK
<1>2. HierarchySound'
  <2>1. \A f \in Files' \ {ROOT} : \E e \in FileParents' : e[1] = f
    <3>1. \E e \in FileParents' : e[1] = file
      <4>1. <<file, parent, name>> \in FileParents' /\ <<file, parent, name>>[1] = file
        BY <1>1
      <4> QED BY <4>1
    <3>2. \A f \in Files \ {ROOT} : \E e \in FileParents' : e[1] = f
      BY <1>1 DEF TreeInv, HierarchySound
    <3> QED BY <1>1, <3>1, <3>2
  <2>2. \A e1, e2 \in FileParents' : e1[1] = e2[1] /\ e1[1] \in Folders' => e1 = e2
    BY <1>1 DEF TreeInv, HierarchySound
  <2> QED BY <1>1, <2>1, <2>2 DEF TreeInv, HierarchySound
<1>3. PathToRootSound'
  <2>1. \A f \in Folders : WithAncestors(f)' = WithAncestors(f)
    BY DEF WithAncestors
  <2> QED BY <1>1, <2>1 DEF TreeInv, PathToRootSound
<1>4. TreeRooted => TreeRooted'
  BY DEF TreeInv, TreeRooted
<1>5. NamesUnique => NamesUnique'
  BY <1>1 DEF TreeInv, NamesUnique, NameIsFree
<1> QED BY <1>2, <1>3, <1>4, <1>5 DEF TreeInv, TreeKept

LEMMA MkdirTree ==
    ASSUME TypeOK, TreeInv, NEW proc, NEW parent \in Folders, NEW file \in FILES,
           NEW name, NEW mode, mkdir(proc, parent, file, name, mode)
    PROVE  TreeKept
<1>1. /\ Files' = Files \cup {file} /\ file \notin Files /\ file \notin Folders
      /\ Folders' = Folders \cup {file} /\ SymLinks' = SymLinks
      /\ FileParents' = FileParents \cup {<<file, parent, name>>}
      /\ \A e \in FileParents : e[1] \in Files /\ e[1] # file /\ e[2] \in Folders
      /\ \A e \in FileParents : e = <<e[1], e[2], e[3]>>
      /\ Folders \subseteq Files /\ SymLinks \subseteq Files /\ ROOT \in Folders
  BY DEF mkdir, IsUnusedForDir, CreateEntry, TypeOK, TreeOK, grd_mkdir, MkdirPerms
<1>2. /\ \A f \in Folders : PathToRoot'[f] = PathToRoot[f] /\ f # file
      /\ PathToRoot'[file] = PathToRoot[parent] \cup {parent}
      /\ \A f \in Folders : PathToRoot[f] \subseteq Folders
  BY <1>1 DEF mkdir, With, WithAncestors, TypeOK, TreeOK, grd_mkdir, MkdirPerms
<1>3. HierarchySound'
  <2>1. \A f \in Files' \ {ROOT} : \E e \in FileParents' : e[1] = f
    <3>1. \E e \in FileParents' : e[1] = file
      <4>1. <<file, parent, name>> \in FileParents' /\ <<file, parent, name>>[1] = file
        BY <1>1
      <4> QED BY <4>1
    <3>2. \A f \in Files \ {ROOT} : \E e \in FileParents' : e[1] = f
      BY <1>1 DEF TreeInv, HierarchySound
    <3> QED BY <1>1, <3>1, <3>2
  <2>2. \A e1, e2 \in FileParents' : e1[1] = e2[1] /\ e1[1] \in Folders' => e1 = e2
    BY <1>1 DEF TreeInv, HierarchySound
  <2> QED BY <1>1, <2>1, <2>2 DEF TreeInv, HierarchySound
<1>4. PathToRootSound'
  <2> USE DEF WithAncestors
  <2>1. PathToRoot'[ROOT] = {}
    BY <1>1, <1>2 DEF TreeInv, PathToRootSound
  <2>2. \A e \in FileParents' : e[1] \in Folders' => PathToRoot'[e[1]] = WithAncestors(e[2])'
    BY <1>1, <1>2 DEF TreeInv, PathToRootSound
  <2>3. \A f \in Folders' : \A p \in PathToRoot'[f] : PathToRoot'[p] \subseteq PathToRoot'[f]
    BY <1>1, <1>2 DEF TreeInv, PathToRootSound
  <2>4. \A f \in Folders' : \A p \in PathToRoot'[f] :
           \E e \in FileParents' : e[1] \in WithAncestors(f)' /\ e[2] = p
    <3>1. \A f \in Folders : \A p \in PathToRoot[f] :
             \E e \in FileParents' : e[1] \in PathToRoot[f] \cup {f} /\ e[2] = p
      BY <1>1 DEF TreeInv, PathToRootSound
    <3>2. \E e \in FileParents' : e[1] = file /\ e[2] = parent
      <4>1. /\ <<file, parent, name>> \in FileParents'
            /\ <<file, parent, name>>[1] = file /\ <<file, parent, name>>[2] = parent
        BY <1>1
      <4> QED BY <4>1
    <3> QED BY <1>1, <1>2, <3>1, <3>2
  <2> QED BY <2>1, <2>2, <2>3, <2>4 DEF PathToRootSound
<1>5. TreeRooted => TreeRooted'
  BY <1>1, <1>2 DEF TreeInv, TreeRooted
<1>6. NamesUnique => NamesUnique'
  BY <1>1 DEF mkdir, TreeInv, NamesUnique, NameIsFree, grd_mkdir, MkdirPerms
<1> QED BY <1>3, <1>4, <1>5, <1>6 DEF TreeInv, TreeKept

LEMMA LinkTree ==
    ASSUME TypeOK, TreeInv, NEW proc, NEW oldParent, NEW newParent, NEW file,
           NEW oldName, NEW newName,
           link(proc, oldParent, newParent, file, oldName, newName)
    PROVE  TreeKept
<1>1. /\ Files' = Files /\ Folders' = Folders /\ SymLinks' = SymLinks
      /\ PathToRoot' = PathToRoot /\ file \notin Folders
      /\ FileParents' = FileParents \cup {<<file, newParent, newName>>}
      /\ \A e \in FileParents : e[1] \in Files /\ e[2] \in Folders
      /\ \A e \in FileParents : e = <<e[1], e[2], e[3]>>
  BY DEF link, TypeOK, TreeOK, grd_link
<1>2. HierarchySound'
  <2>1. \A f \in Files' \ {ROOT} : \E e \in FileParents' : e[1] = f
    BY <1>1 DEF TreeInv, HierarchySound
  <2>2. \A e1, e2 \in FileParents' : e1[1] = e2[1] /\ e1[1] \in Folders' => e1 = e2
    BY <1>1 DEF TreeInv, HierarchySound
  <2> QED BY <1>1, <2>1, <2>2 DEF TreeInv, HierarchySound
<1>3. PathToRootSound'
  BY <1>1 DEF TreeInv, PathToRootSound, WithAncestors
<1>4. TreeRooted => TreeRooted'
  BY <1>1 DEF TreeInv, TreeRooted
<1>5. NamesUnique => NamesUnique'
  BY <1>1 DEF link, TreeInv, NamesUnique, NameIsFree, grd_link
<1> QED BY <1>2, <1>3, <1>4, <1>5 DEF TreeInv, TreeKept

LEMMA UnlinkTree ==
    ASSUME TypeOK, TreeInv, NEW proc, NEW parent, NEW file, NEW name,
           unlink(proc, parent, file, name)
    PROVE  TreeKept
<1>1. /\ Files' = Files \ Unlinked(parent, file, name) /\ Folders' = Folders
      /\ SymLinks' \subseteq SymLinks /\ PathToRoot' = PathToRoot
      /\ FileParents' = FileParents \ {<<file, parent, name>>} /\ file \notin Folders
      /\ \A f \in Folders : PathToRoot[f] \subseteq Folders
  BY DEF unlink, ForgetAttributes, TypeOK, TreeOK
<1>2. \A e \in FileParents : e[1] \in Folders => e \in FileParents'
  BY <1>1
<1>3. HierarchySound'
  <2>1. \A f \in Files' \ {ROOT} : \E e \in FileParents' : e[1] = f
    BY <1>1 DEF TreeInv, HierarchySound, Unlinked
  <2> QED BY <1>1, <2>1 DEF TreeInv, HierarchySound
<1>4. PathToRootSound'
  <2>1. \A f \in Folders : WithAncestors(f)' = WithAncestors(f)
    BY <1>1 DEF WithAncestors
  <2>2. \A f \in Folders' : \A p \in PathToRoot'[f] :
           \E e \in FileParents' : e[1] \in WithAncestors(f)' /\ e[2] = p
    BY <1>1, <1>2, <2>1 DEF TreeInv, PathToRootSound, WithAncestors
  <2> QED BY <1>1, <2>1, <2>2 DEF TreeInv, PathToRootSound, TypeOK, TreeOK, WithAncestors
<1>5. (TreeRooted => TreeRooted') /\ (NamesUnique => NamesUnique')
  BY <1>1 DEF TreeRooted, NamesUnique
<1> QED BY <1>3, <1>4, <1>5 DEF TreeInv, TreeKept

LEMMA RmdirTree ==
    ASSUME TypeOK, TreeInv, NEW proc, NEW parent, NEW folder, NEW name,
           rmdir(proc, parent, folder, name)
    PROVE  TreeKept
<1>1. /\ Files' = Files \ {folder} /\ Folders' = Folders \ {folder}
      /\ SymLinks' = SymLinks /\ folder # ROOT /\ ROOT \in Folders
      /\ FileParents' = FileParents \ {<<folder, parent, name>>}
      /\ \A e \in FileParents : e[2] # folder
      /\ \A f \in Folders' : PathToRoot'[f] = PathToRoot[f]
  BY DEF rmdir, ForgetAttributes, Without, TypeOK, TreeOK
<1>2. \A f \in Folders : folder \notin PathToRoot[f]
  BY <1>1 DEF TreeInv, PathToRootSound
<1>3. \A e \in FileParents : e[1] # folder => e \in FileParents'
  BY <1>1
<1>4. \A e \in FileParents' : e \in FileParents /\ e[1] # folder
  BY <1>1 DEF rmdir, TreeInv, HierarchySound
<1>5. HierarchySound'
  <2>1. \A f \in Files' \ {ROOT} : \E e \in FileParents' : e[1] = f
    BY <1>1, <1>3 DEF TreeInv, HierarchySound
  <2> QED BY <1>1, <1>4, <2>1 DEF TreeInv, HierarchySound
<1>6. PathToRootSound'
  <2> USE DEF WithAncestors
  <2>1. \A f \in Folders : PathToRoot[f] \subseteq Folders
    BY DEF TypeOK, TreeOK
  <2>2. PathToRoot'[ROOT] = {}
    BY <1>1 DEF TreeInv, PathToRootSound
  <2>3. \A e \in FileParents' : e[1] \in Folders' => PathToRoot'[e[1]] = WithAncestors(e[2])'
    <3>1. \A e \in FileParents : e[2] \in Folders'
      BY <1>1 DEF TypeOK, TreeOK
    <3> QED BY <1>1, <1>4, <3>1 DEF TreeInv, PathToRootSound
  <2>4. \A f \in Folders' : \A p \in PathToRoot'[f] : PathToRoot'[p] \subseteq PathToRoot'[f]
    BY <1>1, <1>2, <2>1 DEF TreeInv, PathToRootSound
  <2>5. \A f \in Folders' : \A p \in PathToRoot'[f] :
           \E e \in FileParents' : e[1] \in WithAncestors(f)' /\ e[2] = p
    BY <1>1, <1>2, <1>3 DEF TreeInv, PathToRootSound
  <2> QED BY <2>2, <2>3, <2>4, <2>5 DEF PathToRootSound
<1>7. (TreeRooted => TreeRooted') /\ (NamesUnique => NamesUnique')
  BY <1>1 DEF TreeRooted, NamesUnique
<1> QED BY <1>5, <1>6, <1>7 DEF TreeInv, TreeKept

-----------------------------------------------------------------------------
(* What each family of calls leaves alone.                                 *)

LEMMA OpenExistingFrame ==
    ASSUME NEW proc, NEW parent, NEW file, NEW name, NEW flags, NEW fd,
           NEW fdNumber, NEW dirs,
           OpenExisting(proc, parent, file, name, flags, fd, fdNumber, dirs)
    PROVE  UNCHANGED <<userVars, procVars, Folders, SymLinks, FileLink, PathToRoot>>
BY DEF OpenExisting, fileVars, treeVars, grd_OpenExisting

LEMMA CreateAndOpenFrame ==
    ASSUME NEW proc, NEW parent, NEW file, NEW name, NEW flags, NEW mode, NEW fd,
           NEW fdNumber, NEW dirs,
           CreateAndOpen(proc, parent, file, name, flags, mode, fd, fdNumber, dirs)
    PROVE  UNCHANGED <<userVars, procVars, Folders, SymLinks, FileLink, PathToRoot>>
BY DEF CreateAndOpen, grd_CreateAndOpen

LEMMA OpenFrame ==
    ASSUME NEW proc, NEW parent, NEW file, NEW name, OpenCall(proc, parent, file, name)
    PROVE  UNCHANGED <<userVars, procVars, Folders, SymLinks, FileLink, PathToRoot>>
BY OpenExistingFrame, CreateAndOpenFrame
   DEF OpenCall, open_exists, open_create, openat_exists, openat_create

LEMMA TreeCallFrame ==
    ASSUME NEW proc, NEW parent, NEW file, NEW name, TreeCall(proc, parent, file, name)
    PROVE  UNCHANGED <<userVars, procVars, fdVars>>
BY DEF TreeCall, mkdir, link, symlink, unlink, rmdir, grd_mkdir, MkdirPerms, grd_link

LEMMA AttributeFrame ==
    ASSUME NEW proc, NEW parent, NEW file, NEW name,
           AttributeCall(proc, parent, file, name)
    PROVE  UNCHANGED <<userVars, procVars, treeVars, fdVars>>
BY DEF AttributeCall, chmod, fchmodat, chown, fchownat, getxattr, setxattr, SetMode,
       SetOwner, vars, fileVars, grd_path, grd_setxattr, MayChown

LEMMA DescriptorFrame ==
    ASSUME NEW proc, NEW fd, DescriptorCall(proc, fd)
    PROVE  UNCHANGED <<userVars, treeVars, Procs, ProcEXE>>
BY DEF DescriptorCall, fchdir, getdents, close, fchmod, fchown, SetMode, SetOwner,
       vars, fileVars, procVars, grd_close, grd_fd, MayChown

LEMMA ProcessFrame ==
    ASSUME NEW proc, ProcessCall(proc)
    PROVE  UNCHANGED <<userVars, fileVars>>
BY DEF ProcessCall, chdir, execve, umask, exit, fork

LEMMA SetupFrame ==
    ASSUME SetupCall
    PROVE  UNCHANGED <<treeVars, ownerVars, fdVars>>
BY DEF SetupCall, create_user, create_group, login, set_acl, change_capabilities,
       fileVars, grd_create_user, grd_create_group, grd_set_acl

-----------------------------------------------------------------------------
(* Type correctness and the tree, together: each needs the other.          *)

TypedTree == TypeOK /\ TreeInv

LEMMA OpenExistingTree ==
    ASSUME TypedTree, NEW proc, NEW parent, NEW file, NEW name, NEW flags, NEW fd,
           NEW fdNumber, NEW dirs,
           OpenExisting(proc, parent, file, name, flags, fd, fdNumber, dirs)
    PROVE  TreeKept
BY TreeFrame DEF TypedTree, OpenExisting, fileVars, grd_OpenExisting

LEMMA CreateAndOpenTree ==
    ASSUME TypedTree, NEW proc, NEW parent, NEW file, NEW name, NEW flags, NEW mode,
           NEW fd, NEW fdNumber, NEW dirs,
           CreateAndOpen(proc, parent, file, name, flags, mode, fd, fdNumber, dirs)
    PROVE  TreeKept
BY CreateFileTree DEF TypedTree, CreateAndOpen, IsUnused, grd_CreateAndOpen

LEMMA OpenTree ==
    ASSUME TypedTree, NEW proc, NEW parent, NEW file, NEW name,
           OpenCall(proc, parent, file, name)
    PROVE  TreeKept
BY OpenExistingTree, CreateAndOpenTree
   DEF OpenCall, open_exists, open_create, openat_exists, openat_create

LEMMA TreeCallTree ==
    ASSUME TypedTree, NEW proc \in Procs, NEW parent \in Folders, NEW file \in FILES,
           NEW name \in STRINGS, TreeCall(proc, parent, file, name)
    PROVE  TreeKept
<1>1. ASSUME NEW target, symlink(proc, target, parent, file, name) PROVE TreeKept
  BY <1>1, CreateFileTree DEF TypedTree, symlink, IsUnused
<1> QED
  BY <1>1, MkdirTree, LinkTree, UnlinkTree, RmdirTree DEF TypedTree, TreeCall

LEMMA TypedTreeStep ==
    ASSUME TypedTree, [Next]_vars
    PROVE  TypeOK' /\ TreeKept
<1> USE DEF TypedTree
<1>1. ASSUME NEW proc \in Procs, NEW parent \in Folders, NEW file \in FILES,
             NEW name \in STRINGS, OpenCall(proc, parent, file, name)
      PROVE  TypeOK' /\ TreeKept
  BY <1>1, OpenType, OpenTree
<1>2. ASSUME NEW proc \in Procs, NEW parent \in Folders, NEW file \in FILES,
             NEW name \in STRINGS, TreeCall(proc, parent, file, name)
      PROVE  TypeOK' /\ TreeKept
  BY <1>2, TreeType, TreeCallTree DEF TreeInv
<1>3. ASSUME NEW proc \in Procs, NEW parent \in Folders, NEW file \in FILES,
             NEW name \in STRINGS, AttributeCall(proc, parent, file, name)
      PROVE  TypeOK' /\ TreeKept
  <2>1. TypeOK'
    BY <1>3, AttributeType
  <2>2. UNCHANGED treeVars
    BY <1>3, AttributeFrame
  <2> QED BY <2>1, <2>2, TreeFrame
<1>4. ASSUME NEW proc \in Procs, NEW fd \in FDs, DescriptorCall(proc, fd)
      PROVE  TypeOK' /\ TreeKept
  BY <1>4, DescriptorType, DescriptorFrame, TreeFrame
<1>5. ASSUME NEW proc \in Procs, ProcessCall(proc)
      PROVE  TypeOK' /\ TreeKept
  BY <1>5, ProcessType, ProcessFrame, TreeFrame DEF fileVars
<1>6. CASE SetupCall
  BY <1>6, SetupType, SetupFrame, TreeFrame
<1>7. CASE UNCHANGED vars
  BY <1>7, StutterType, TreeFrame DEF vars, fileVars
<1> QED BY <1>1, <1>2, <1>3, <1>4, <1>5, <1>6, <1>7 DEF Next, ProcCall

-----------------------------------------------------------------------------
(* The ACLs and the group permission bits.                                 *)

aclState == <<Files, aclVars, DACPermissions>>

LEMMA AclFrame ==
    ASSUME AclSound, UNCHANGED aclState
    PROVE  AclSound'
BY DEF AclSound, AclsFit, aclState, aclVars

LEMMA InitAcl == Init => AclSound
BY DEF Init, AclSound, AclsFit

LEMMA CreateEntryAcl ==
    ASSUME TypeOK, AclSound, NEW proc, NEW parent, NEW file \in FILES \ Files, NEW name,
           NEW group, NEW perms, CreateEntry(proc, parent, file, name, group, perms)
    PROVE  AclSound'
<1>1. /\ DOMAIN MaskACL \subseteq Files /\ MaskACL' = MaskACL
      /\ UserACL' = UserACL /\ GroupACL' = GroupACL
      /\ \A f \in Files : DACPermissions'[f] = DACPermissions[f]
      /\ DACPermissions'[file] = perms
      /\ DOMAIN GroupObjACL' = DOMAIN GroupObjACL \cup {file}
      /\ \A f \in DOMAIN GroupObjACL : f # file => GroupObjACL'[f] = GroupObjACL[f]
      /\ GroupObjACL'[file] = perms \cap GROUP_PERMISSIONS
      /\ Files' = Files \cup {file}
  BY DEF CreateEntry, With, TypeOK, AttributesOK, AclsOK, IsPartial
<1> QED BY <1>1 DEF AclSound, AclsFit

LEMMA ForgetAttributesAcl ==
    ASSUME TypeOK, AclSound, NEW gone, ForgetAttributes(gone)
    PROVE  AclSound'
<1>1. /\ Files' = Files \ gone
      /\ DOMAIN MaskACL' = DOMAIN MaskACL \ gone
      /\ \A f \in DOMAIN MaskACL' : MaskACL'[f] = MaskACL[f]
      /\ DOMAIN GroupObjACL' = DOMAIN GroupObjACL \ gone
      /\ \A f \in DOMAIN GroupObjACL' : GroupObjACL'[f] = GroupObjACL[f]
      /\ \A f \in Files' : DACPermissions'[f] = DACPermissions[f]
      /\ DOMAIN UserACL' = DOMAIN UserACL \ (gone \X Users)
      /\ DOMAIN GroupACL' = DOMAIN GroupACL \ (gone \X Groups)
  BY DEF ForgetAttributes, ForgetAcls, Without, TypeOK, AttributesOK
<1>2. /\ DOMAIN UserACL \subseteq Files \X Users
      /\ DOMAIN GroupACL \subseteq Files \X Groups
      /\ DOMAIN MaskACL \subseteq Files
  BY DEF TypeOK, AclsOK, IsPartial
<1>3. /\ \A e \in DOMAIN UserACL' : e[1] \in DOMAIN MaskACL'
      /\ \A e \in DOMAIN GroupACL' : e[1] \in DOMAIN MaskACL'
  BY <1>1, <1>2 DEF AclSound, AclsFit
<1> QED BY <1>1, <1>2, <1>3 DEF AclSound, AclsFit

LEMMA SetModeAcl ==
    ASSUME TypeOK, AclSound, NEW proc, NEW file \in Files, NEW mode,
           SetMode(proc, file, mode)
    PROVE  AclSound'
<1>1. KeptMode(proc, file, mode) \cap GROUP_PERMISSIONS = mode \cap GROUP_PERMISSIONS
  BY PermissionFacts DEF KeptMode
<1>2. /\ Files' = Files /\ UserACL' = UserACL /\ GroupACL' = GroupACL
      /\ DACPermissions' = With(DACPermissions, file, KeptMode(proc, file, mode))
      /\ DOMAIN DACPermissions = Files /\ DOMAIN MaskACL \subseteq Files
  BY DEF SetMode, treeVars, TypeOK, AttributesOK, AclsOK, IsPartial
<1>3. /\ DACPermissions'[file] = KeptMode(proc, file, mode)
      /\ \A f \in Files : f # file => DACPermissions'[f] = DACPermissions[f]
  BY <1>2 DEF With
<1>4. CASE file \in DOMAIN MaskACL
  <2>1. /\ GroupObjACL' = GroupObjACL /\ DOMAIN MaskACL' = DOMAIN MaskACL
        /\ MaskACL'[file] = mode \cap GROUP_PERMISSIONS
        /\ \A f \in DOMAIN MaskACL : f # file => MaskACL'[f] = MaskACL[f]
    BY <1>4 DEF SetMode, With
  <2> QED BY <1>1, <1>2, <1>3, <1>4, <2>1 DEF AclSound, AclsFit
<1>5. CASE file \notin DOMAIN MaskACL
  <2>1. /\ MaskACL' = MaskACL /\ DOMAIN GroupObjACL' = DOMAIN GroupObjACL \cup {file}
        /\ GroupObjACL'[file] = mode \cap GROUP_PERMISSIONS
        /\ \A f \in DOMAIN GroupObjACL : f # file => GroupObjACL'[f] = GroupObjACL[f]
    BY <1>5 DEF SetMode, With
  <2> QED BY <1>1, <1>2, <1>3, <1>5, <2>1 DEF AclSound, AclsFit
<1> QED BY <1>4, <1>5

LEMMA SetOwnerAcl ==
    ASSUME TypeOK, AclSound, NEW proc, NEW file \in Files, NEW owner, NEW group,
           SetOwner(proc, file, owner, group)
    PROVE  AclSound'
<1>1. ChownPerms(file) \cap GROUP_PERMISSIONS = DACPermissions[file] \cap GROUP_PERMISSIONS
  BY PermissionFacts DEF ChownPerms
<1>2. \A f \in Files : DACPermissions'[f] \cap GROUP_PERMISSIONS
                         = DACPermissions[f] \cap GROUP_PERMISSIONS
  BY <1>1 DEF SetOwner, With, TypeOK, AttributesOK, MayChown
<1>3. Files' = Files /\ UNCHANGED aclVars /\ DOMAIN MaskACL \subseteq Files
  BY DEF SetOwner, treeVars, TypeOK, AclsOK, IsPartial, MayChown
<1> QED BY <1>2, <1>3 DEF AclSound, AclsFit, aclVars

LEMMA OpenExistingAcl ==
    ASSUME TypeOK, AclSound, NEW proc, NEW parent, NEW file, NEW name, NEW flags,
           NEW fd, NEW fdNumber, NEW dirs,
           OpenExisting(proc, parent, file, name, flags, fd, fdNumber, dirs)
    PROVE  AclSound'
BY AclFrame DEF OpenExisting, fileVars, treeVars, aclState, grd_OpenExisting

LEMMA CreateAndOpenAcl ==
    ASSUME TypeOK, AclSound, NEW proc, NEW parent, NEW file, NEW name, NEW flags,
           NEW mode, NEW fd, NEW fdNumber, NEW dirs,
           CreateAndOpen(proc, parent, file, name, flags, mode, fd, fdNumber, dirs)
    PROVE  AclSound'
BY CreateEntryAcl DEF CreateAndOpen, IsUnused, grd_CreateAndOpen

LEMMA AclStep ==
    ASSUME TypeOK, AclSound, [Next]_vars
    PROVE  AclSound'
<1>1. ASSUME NEW proc, NEW parent, NEW file, NEW name, OpenCall(proc, parent, file, name)
      PROVE  AclSound'
  BY <1>1, OpenExistingAcl, CreateAndOpenAcl
     DEF OpenCall, open_exists, open_create, openat_exists, openat_create
<1>2. ASSUME NEW proc, NEW parent, NEW file, NEW name, TreeCall(proc, parent, file, name)
      PROVE  AclSound'
  <2>1. ASSUME NEW mode, mkdir(proc, parent, file, name, mode) PROVE AclSound'
    BY <2>1, CreateEntryAcl DEF mkdir, IsUnusedForDir, grd_mkdir, MkdirPerms
  <2>2. ASSUME NEW newParent, NEW newName,
               link(proc, parent, newParent, file, name, newName) PROVE AclSound'
    BY <2>2, AclFrame DEF link, aclState, grd_link
  <2>3. ASSUME NEW target, symlink(proc, target, parent, file, name) PROVE AclSound'
    BY <2>3, CreateEntryAcl DEF symlink, IsUnused
  <2>4. CASE unlink(proc, parent, file, name) \/ rmdir(proc, parent, file, name)
    BY <2>4, ForgetAttributesAcl DEF unlink, rmdir
  <2> QED BY <1>2, <2>1, <2>2, <2>3, <2>4 DEF TreeCall
<1>3. ASSUME NEW proc, NEW parent, NEW file, NEW name,
             AttributeCall(proc, parent, file, name)
      PROVE  AclSound'
  <2>1. file \in Files
    BY <1>3 DEF AttributeCall, chmod, fchmodat, chown, fchownat, getxattr, setxattr,
                TypeOK, TreeOK, grd_path, grd_setxattr
  <2>2. ASSUME UNCHANGED vars PROVE AclSound'
    BY <2>2, AclFrame DEF vars, fileVars, treeVars, aclState
  <2>3. ASSUME NEW attr, NEW value, NEW flags,
               setxattr(proc, parent, file, name, attr, value, flags) PROVE AclSound'
    BY <2>3, AclFrame DEF setxattr, treeVars, aclState, grd_setxattr, grd_path
  <2> QED BY <1>3, <2>1, <2>2, <2>3, SetModeAcl, SetOwnerAcl
          DEF AttributeCall, chmod, fchmodat, chown, fchownat, getxattr, grd_path
<1>4. ASSUME NEW proc, NEW fd, DescriptorCall(proc, fd)
      PROVE  AclSound'
  <2>1. ASSUME UNCHANGED fileVars PROVE AclSound'
    BY <2>1, AclFrame DEF fileVars, treeVars, aclState
  <2> QED BY <1>4, <2>1, SetModeAcl, SetOwnerAcl
          DEF DescriptorCall, fchdir, getdents, close, fchmod, fchown, vars, grd_close, grd_fd
<1>5. ASSUME NEW proc, ProcessCall(proc) PROVE AclSound'
  BY <1>5, ProcessFrame, AclFrame DEF fileVars, treeVars, aclState
<1>6. CASE SetupCall
  <2>1. ASSUME NEW acl, set_acl(acl) PROVE AclSound'
    BY <2>1 DEF set_acl, treeVars, AclSound, grd_set_acl
  <2>2. ASSUME UNCHANGED fileVars PROVE AclSound'
    BY <2>2, AclFrame DEF fileVars, treeVars, aclState
  <2> QED BY <1>6, <2>1, <2>2
          DEF SetupCall, create_user, create_group, login, change_capabilities,
              grd_create_user, grd_create_group
<1>7. CASE UNCHANGED vars
  BY <1>7, AclFrame DEF vars, fileVars, treeVars, aclState
<1> QED BY <1>1, <1>2, <1>3, <1>4, <1>5, <1>6, <1>7 DEF Next, ProcCall

-----------------------------------------------------------------------------
(* What processes and descriptors refer to.                                *)

RefsInv == ExeNotFolder /\ CwdIsFolder /\ NoWritableFolder
RefsKept == RefsInv' /\ (FDNumbersUnique => FDNumbersUnique')

LEMMA InitRefs == Init => RefsInv /\ FDNumbersUnique
BY ContextAssumption
   DEF Init, RefsInv, ExeNotFolder, CwdIsFolder, NoWritableFolder, FDNumbersUnique,
       DescriptorsOf

\* Steps that keep the sets of files and directories.
LEMMA RefsSameFiles ==
    ASSUME RefsInv, UNCHANGED <<Files, Folders, fdVars, Procs, ProcEXE, ProcCwd>>
    PROVE  RefsKept
BY DEF RefsKept, RefsInv, ExeNotFolder, CwdIsFolder, NoWritableFolder,
       FDNumbersUnique, DescriptorsOf, fdVars

LEMMA AllocateRefs ==
    ASSUME TypeOK, RefsInv, NEW proc, NEW fd, NEW fdNumber, NEW flags, NEW file,
           MayAllocate(proc, fd, fdNumber), AllocateFD(proc, fd, fdNumber, flags, file),
           UNCHANGED <<procVars, Folders>>,
           file \in Folders /\ "O_PATH" \notin flags => ~WritesFile(flags),
           Files' \subseteq Files \cup {file},
           file \in Files \/ \A p \in Procs : ProcCwd[p] # file
    PROVE  RefsKept
<1> USE DEF procVars
<1>1. /\ FDFile'[fd] = file /\ FDFlags'[fd] = flags /\ FDNumber'[fd] = fdNumber
      /\ \A d \in FDs : /\ FDFile'[d] = FDFile[d] /\ FDFlags'[d] = FDFlags[d]
                        /\ FDNumber'[d] = FDNumber[d] /\ d # fd
      /\ ProcFDs' = ProcFDs \cup {<<proc, fd>>} /\ FDs' = FDs \cup {fd}
      /\ \A e \in ProcFDs : e[2] \in FDs
  BY DEF MayAllocate, AllocateFD, With, TypeOK, FDsOK
<1>2. ExeNotFolder' /\ CwdIsFolder'
  BY DEF RefsInv, ExeNotFolder, CwdIsFolder
<1>3. NoWritableFolder'
  BY <1>1 DEF RefsInv, NoWritableFolder
<1>4. FDNumbersUnique => FDNumbersUnique'
  BY <1>1 DEF FDNumbersUnique, DescriptorsOf, MayAllocate
<1> QED BY <1>2, <1>3, <1>4 DEF RefsInv, RefsKept

\* Descriptors and processes may go, and directories too.
LEMMA ShrinkRefs ==
    ASSUME TypeOK, RefsInv, NEW fds, ForgetFDs(fds), ProcFDs' \subseteq ProcFDs,
           \A e \in ProcFDs' : e[2] \notin fds,
           Procs' \subseteq Procs, UNCHANGED <<Files, Folders>>,
           \A p \in Procs' : ProcCwd'[p] = ProcCwd[p] /\ ProcEXE'[p] \notin Folders
    PROVE  RefsKept
<1>1. \A d \in FDs' : /\ d \in FDs /\ FDFile'[d] = FDFile[d]
                      /\ FDFlags'[d] = FDFlags[d] /\ FDNumber'[d] = FDNumber[d]
  BY DEF ForgetFDs, Without, TypeOK, FDsOK
<1>2. \A e \in ProcFDs' : e[2] \in FDs'
  BY DEF ForgetFDs, TypeOK, FDsOK
<1>3. ExeNotFolder' /\ CwdIsFolder'
  BY DEF RefsInv, ExeNotFolder, CwdIsFolder
<1>4. NoWritableFolder'
  BY <1>1, <1>2 DEF RefsInv, NoWritableFolder
<1>5. FDNumbersUnique => FDNumbersUnique'
  BY <1>1 DEF FDNumbersUnique, DescriptorsOf
<1> QED BY <1>3, <1>4, <1>5 DEF RefsInv, RefsKept

LEMMA OpenExistingRefs ==
    ASSUME TypeOK, RefsInv, NEW proc, NEW parent, NEW file, NEW name, NEW flags,
           NEW fd, NEW fdNumber, NEW dirs,
           OpenExisting(proc, parent, file, name, flags, fd, fdNumber, dirs)
    PROVE  RefsKept
<1>1. file \in Files
  BY DEF OpenExisting, TypeOK, TreeOK, grd_OpenExisting
<1> QED BY <1>1, AllocateRefs DEF OpenExisting, FlagsFit, fileVars, treeVars, grd_OpenExisting

LEMMA CreateAndOpenRefs ==
    ASSUME TypeOK, RefsInv, NEW proc, NEW parent, NEW file, NEW name, NEW flags,
           NEW mode, NEW fd, NEW fdNumber, NEW dirs,
           CreateAndOpen(proc, parent, file, name, flags, mode, fd, fdNumber, dirs)
    PROVE  RefsKept
<1>1. file \notin Folders /\ Files' = Files \cup {file}
  BY DEF CreateAndOpen, CreateEntry, IsUnused, TypeOK, TreeOK, grd_CreateAndOpen
<1> QED BY <1>1, AllocateRefs DEF CreateAndOpen, IsUnused, grd_CreateAndOpen

LEMMA TreeCallRefs ==
    ASSUME TypeOK, RefsInv, NEW proc, NEW parent, NEW file, NEW name,
           TreeCall(proc, parent, file, name)
    PROVE  RefsKept
<1>1. UNCHANGED <<procVars, fdVars>>
  BY TreeCallFrame
<1> USE DEF procVars, fdVars
<1>2. FDNumbersUnique => FDNumbersUnique'
  BY <1>1 DEF FDNumbersUnique, DescriptorsOf
<1>3. ASSUME NEW mode, mkdir(proc, parent, file, name, mode) PROVE RefsKept
  <2>1. Files' = Files \cup {file} /\ Folders' = Folders \cup {file}
    BY <1>3 DEF mkdir, CreateEntry, grd_mkdir, MkdirPerms
  <2>2. ExeNotFolder' /\ CwdIsFolder'
    BY <1>1, <1>3, <2>1 DEF mkdir, IsUnusedForDir, RefsInv, ExeNotFolder, CwdIsFolder, grd_mkdir, MkdirPerms
  <2>3. NoWritableFolder'
    BY <1>1, <1>3, <2>1 DEF mkdir, IsUnusedForDir, RefsInv, NoWritableFolder,
                            TypeOK, FDsOK, grd_mkdir, MkdirPerms
  <2> QED BY <1>2, <2>2, <2>3 DEF RefsInv, RefsKept
<1>4. ASSUME NEW newParent, NEW newName,
             link(proc, parent, newParent, file, name, newName) PROVE RefsKept
  BY <1>4, RefsSameFiles DEF link, grd_link
<1>5. ASSUME NEW target, symlink(proc, target, parent, file, name) PROVE RefsKept
  <2>1. Files' = Files \cup {file} /\ Folders' = Folders /\ \A p \in Procs : ProcCwd[p] # file
    BY <1>5 DEF symlink, CreateEntry, IsUnused
  <2> QED BY <1>1, <1>2, <2>1 DEF RefsKept, RefsInv, ExeNotFolder, CwdIsFolder, NoWritableFolder
<1>6. CASE unlink(proc, parent, file, name)
  <2>1. Files' \subseteq Files /\ Folders' = Folders
    BY <1>6 DEF unlink, ForgetAttributes
  <2> QED BY <1>1, <1>2, <2>1 DEF RefsKept, RefsInv, ExeNotFolder, CwdIsFolder, NoWritableFolder
<1>7. CASE rmdir(proc, parent, file, name)
  <2>1. Files' = Files \ {file} /\ Folders' = Folders \ {file}
    BY <1>7 DEF rmdir, ForgetAttributes
  <2> QED BY <1>1, <1>2, <2>1 DEF RefsKept, RefsInv, ExeNotFolder, CwdIsFolder, NoWritableFolder
<1> QED BY <1>3, <1>4, <1>5, <1>6, <1>7 DEF TreeCall

LEMMA CwdRefs ==
    ASSUME TypeOK, RefsInv, NEW proc \in Procs, NEW dir \in Folders,
           ProcCwd' = With(ProcCwd, proc, dir),
           UNCHANGED <<fileVars, fdVars, Procs, ProcEXE>>
    PROVE  RefsKept
<1> USE DEF fileVars, treeVars, fdVars
<1>1. ExeNotFolder' /\ NoWritableFolder' /\ (FDNumbersUnique => FDNumbersUnique')
  BY DEF RefsInv, ExeNotFolder, NoWritableFolder, FDNumbersUnique, DescriptorsOf
<1>2. CwdIsFolder'
  BY DEF RefsInv, CwdIsFolder, With, TypeOK, ProcsOK
<1> QED BY <1>1, <1>2 DEF RefsInv, RefsKept

LEMMA CloseRefs ==
    ASSUME TypeOK, RefsInv, NEW proc, NEW fd, close(proc, fd)
    PROVE  RefsKept
<1>1. \A p \in Procs : ProcEXE[p] \notin Folders
  BY DEF RefsInv, ExeNotFolder
<1> QED BY <1>1, ShrinkRefs DEF close, procVars, fileVars, treeVars, grd_close

LEMMA ExecveRefs ==
    ASSUME TypeOK, RefsInv, NEW proc, NEW parent, NEW exeFile, NEW name, NEW fds,
           execve(proc, parent, exeFile, name, fds)
    PROVE  RefsKept
<1>1. \A p \in Procs : ProcEXE'[p] \notin Folders
  BY DEF execve, With, TypeOK, ProcsOK, RefsInv, ExeNotFolder
<1>2. UNCHANGED <<Files, Folders, Procs, ProcCwd>> /\ ForgetFDs(fds)
  BY DEF execve, fileVars, treeVars
<1>3. ProcFDs' \subseteq ProcFDs /\ \A e \in ProcFDs' : e[2] \notin fds
  BY DEF execve
<1> QED BY <1>1, <1>2, <1>3, ShrinkRefs

LEMMA ExitRefs ==
    ASSUME TypeOK, RefsInv, NEW proc, NEW fds, exit(proc, fds)
    PROVE  RefsKept
<1>1. \A p \in Procs' : ProcCwd'[p] = ProcCwd[p] /\ ProcEXE'[p] \notin Folders
  BY DEF exit, Without, TypeOK, ProcsOK, RefsInv, ExeNotFolder
<1>2. UNCHANGED <<Files, Folders>> /\ ForgetFDs(fds) /\ Procs' \subseteq Procs
  BY DEF exit, fileVars, treeVars
<1>3. ProcFDs' \subseteq ProcFDs
  BY DEF exit
<1>4. \A e \in ProcFDs' : e[2] \notin fds
  <2>1. \A e \in ProcFDs' : e \in ProcFDs /\ e[1] # proc /\ e[1] \in Procs /\ e = <<e[1], e[2]>>
    BY DEF exit, TypeOK, FDsOK
  <2> QED BY <2>1 DEF exit, IsShared
<1> QED BY <1>1, <1>2, <1>3, <1>4, ShrinkRefs

LEMMA AddProcRefs ==
    ASSUME TypeOK, RefsInv, NEW proc \in PROCS \ Procs, NEW user, NEW group, NEW mask,
           NEW exe, NEW cwd, NEW parent,
           AddProc(proc, user, group, mask, exe, cwd, parent), UNCHANGED fileVars,
           exe \notin Folders, cwd \in Files => cwd \in Folders
    PROVE  ExeNotFolder' /\ CwdIsFolder'
BY DEF AddProc, With, fileVars, treeVars, TypeOK, ProcsOK, RefsInv, ExeNotFolder,
       CwdIsFolder

LEMMA ForkRefs ==
    ASSUME TypeOK, RefsInv, NEW proc, NEW newProc, fork(proc, newProc)
    PROVE  RefsKept
<1>1. ExeNotFolder' /\ CwdIsFolder'
  BY AddProcRefs DEF fork, RefsInv, ExeNotFolder, CwdIsFolder
<1>2. UNCHANGED <<Folders, FDs, FDFlags, FDFile, FDNumber>> /\ Procs' = Procs \cup {newProc}
  BY DEF fork, AddProc, fileVars, treeVars
<1>3. \A e \in ProcFDs : e[1] # newProc
  BY DEF fork, TypeOK, FDsOK
<1>4. NoWritableFolder'
  BY <1>2 DEF fork, DescriptorsOf, RefsInv, NoWritableFolder
<1>5. FDNumbersUnique => FDNumbersUnique'
  <2>1. /\ \A p \in Procs : DescriptorsOf(p)' = DescriptorsOf(p)
        /\ DescriptorsOf(newProc)' = DescriptorsOf(proc)
    BY <1>2, <1>3 DEF fork, DescriptorsOf
  <2> QED BY <1>2, <2>1 DEF fork, FDNumbersUnique
<1> QED BY <1>1, <1>4, <1>5 DEF RefsInv, RefsKept

LEMMA LoginRefs ==
    ASSUME TypeOK, RefsInv, NEW user, NEW proc, NEW group, NEW exeFile, NEW mask,
           login(user, proc, group, exeFile, mask)
    PROVE  RefsKept
<1>1. ExeNotFolder' /\ CwdIsFolder'
  BY AddProcRefs DEF login, grd_login, TypeOK, TreeOK
<1>2. UNCHANGED <<Folders, fdVars>> /\ Procs' = Procs \cup {proc} /\ proc \notin Procs
  BY DEF login, grd_login, AddProc, fileVars, treeVars
<1>3. NoWritableFolder'
  BY <1>2 DEF fdVars, RefsInv, NoWritableFolder
<1>4. FDNumbersUnique => FDNumbersUnique'
  <2>1. \A e \in ProcFDs : e[1] # proc
    BY <1>2 DEF TypeOK, FDsOK
  <2> QED BY <1>2, <2>1 DEF fdVars, FDNumbersUnique, DescriptorsOf
<1> QED BY <1>1, <1>3, <1>4 DEF RefsInv, RefsKept

LEMMA RefsStep ==
    ASSUME TypeOK, RefsInv, [Next]_vars
    PROVE  RefsKept
<1>1. ASSUME NEW proc, NEW parent, NEW file, NEW name, OpenCall(proc, parent, file, name)
      PROVE  RefsKept
  BY <1>1, OpenExistingRefs, CreateAndOpenRefs
     DEF OpenCall, open_exists, open_create, openat_exists, openat_create
<1>2. ASSUME NEW proc, NEW parent, NEW file, NEW name,
             AttributeCall(proc, parent, file, name)
      PROVE  RefsKept
  <2>1. UNCHANGED <<procVars, treeVars, fdVars>>
    BY <1>2, AttributeFrame
  <2> QED BY <2>1, RefsSameFiles DEF procVars, treeVars
<1>3. ASSUME NEW proc \in Procs, NEW fd, DescriptorCall(proc, fd) PROVE RefsKept
  <2>1. ASSUME UNCHANGED <<procVars, treeVars, fdVars>> PROVE RefsKept
    BY <2>1, RefsSameFiles DEF procVars, treeVars
  <2>2. CASE fchdir(proc, fd)
    BY <2>2, CwdRefs DEF fchdir
  <2>3. CASE getdents(proc, fd)
    BY <2>1, <2>3 DEF getdents, vars, fileVars
  <2>4. CASE close(proc, fd)
    BY <2>4, CloseRefs
  <2>5. ASSUME NEW mode, fchmod(proc, fd, mode) PROVE RefsKept
    BY <2>1, <2>5 DEF fchmod, SetMode, grd_fd
  <2>6. ASSUME NEW owner, NEW group, fchown(proc, fd, owner, group) PROVE RefsKept
    BY <2>1, <2>6 DEF fchown, SetOwner, grd_fd, MayChown
  <2> QED BY <1>3, <2>2, <2>3, <2>4, <2>5, <2>6 DEF DescriptorCall
<1>4. ASSUME NEW proc \in Procs, ProcessCall(proc) PROVE RefsKept
  <2>1. ASSUME NEW dir \in Folders, chdir(proc, dir) PROVE RefsKept
    BY <2>1, CwdRefs DEF chdir
  <2>2. ASSUME NEW mask, umask(proc, mask) PROVE RefsKept
    BY <2>2, RefsSameFiles DEF umask, fileVars, treeVars
  <2> QED BY <1>4, <2>1, <2>2, ExecveRefs, ExitRefs, ForkRefs DEF ProcessCall
<1>5. CASE SetupCall
  <2>1. ASSUME UNCHANGED <<procVars, treeVars, fdVars>> PROVE RefsKept
    BY <2>1, RefsSameFiles DEF procVars, treeVars
  <2>2. ASSUME NEW acl, set_acl(acl) PROVE RefsKept
    BY <2>1, <2>2 DEF set_acl, grd_set_acl
  <2> QED BY <1>5, <2>1, <2>2, LoginRefs
          DEF SetupCall, create_user, create_group, change_capabilities, fileVars,
              grd_create_user, grd_create_group
<1>6. CASE UNCHANGED vars
  BY <1>6, RefsSameFiles DEF vars, procVars, fileVars, treeVars
<1> QED BY <1>1, <1>2, <1>3, <1>4, <1>5, <1>6, TreeCallRefs DEF Next, ProcCall

-----------------------------------------------------------------------------
(* The limits.                                                             *)

LEMMA FilesBounded == TypeOK => Cardinality(Files) <= MAX_FILES
<1> SUFFICES ASSUME TypeOK PROVE Cardinality(Files) <= MAX_FILES
  OBVIOUS
<1>1. Files \in SUBSET FILES
  BY DEF TypeOK, TreeOK
<1>2. Cardinality(Files) <= Cardinality(FILES) /\ IsFiniteSet(Files)
  BY <1>1, FS_Subset, LimitsAssumption
<1>3. Cardinality(Files) \in Nat /\ Cardinality(FILES) \in Nat
  BY <1>2, FS_CardinalityType, LimitsAssumption
<1> QED BY <1>2, <1>3, LimitsAssumption

LEMMA DescriptorSets ==
    ASSUME TypeOK
    PROVE  /\ \A p : IsFiniteSet(DescriptorsOf(p)) /\ Cardinality(DescriptorsOf(p)) \in Nat
           /\ IsFiniteSet(OpenDescriptors) /\ Cardinality(OpenDescriptors) \in Nat
<1>1. FDs \in SUBSET FILE_DESCRIPTORS /\ IsFiniteSet(FILE_DESCRIPTORS)
  BY LimitsAssumption DEF TypeOK, FDsOK
<1>2. IsFiniteSet(FDs)
  BY <1>1, FS_Subset
<1>3. OpenDescriptors \in SUBSET FDs /\ \A p : DescriptorsOf(p) \in SUBSET FDs
  BY DEF OpenDescriptors, DescriptorsOf
<1>4. IsFiniteSet(OpenDescriptors) /\ \A p : IsFiniteSet(DescriptorsOf(p))
  BY <1>2, <1>3, FS_Subset
<1> QED BY <1>4, FS_CardinalityType

\* No process gets more than some process had before.
LEMMA LimitsShrink ==
    ASSUME TypeOK, TypeOK', LimitsHold,
           \A p \in Procs' : \/ DescriptorsOf(p)' = {}
                             \/ \E q \in Procs : DescriptorsOf(p)' \subseteq DescriptorsOf(q),
           OpenDescriptors' \subseteq OpenDescriptors
    PROVE  LimitsHold'
<1> USE LimitsAssumption
<1>1. \A p \in Procs' : Cardinality(DescriptorsOf(p)') <= PROC_FILE_LIMIT
  <2> SUFFICES ASSUME NEW p \in Procs'
               PROVE  Cardinality(DescriptorsOf(p)') <= PROC_FILE_LIMIT
    OBVIOUS
  <2>1. CASE DescriptorsOf(p)' = {}
    BY <2>1, FS_EmptySet
  <2>2. ASSUME NEW q \in Procs, DescriptorsOf(p)' \subseteq DescriptorsOf(q)
        PROVE  Cardinality(DescriptorsOf(p)') <= PROC_FILE_LIMIT
    <3>1. IsFiniteSet(DescriptorsOf(q)) /\ Cardinality(DescriptorsOf(q)) \in Nat
      BY DescriptorSets
    <3>2. IsFiniteSet(DescriptorsOf(p)') /\ Cardinality(DescriptorsOf(p)') <= Cardinality(DescriptorsOf(q))
      BY <2>2, <3>1, FS_Subset
    <3>3. Cardinality(DescriptorsOf(p)') \in Nat
      BY <3>2, FS_CardinalityType
    <3> QED BY <3>1, <3>2, <3>3 DEF LimitsHold
  <2> QED BY <2>1, <2>2
<1>2. Cardinality(OpenDescriptors') <= FILE_LIMIT
  <2>1. IsFiniteSet(OpenDescriptors) /\ Cardinality(OpenDescriptors) \in Nat
    BY DescriptorSets
  <2>2. IsFiniteSet(OpenDescriptors') /\ Cardinality(OpenDescriptors') <= Cardinality(OpenDescriptors)
    BY <2>1, FS_Subset
  <2>3. Cardinality(OpenDescriptors') \in Nat
    BY <2>2, FS_CardinalityType
  <2> QED BY <2>1, <2>2, <2>3 DEF LimitsHold
<1>3. (Cardinality(Files) <= MAX_FILES)'
  BY FilesBounded, PTL
<1> QED BY <1>1, <1>2, <1>3 DEF LimitsHold

LEMMA LimitsFrame ==
    ASSUME TypeOK, TypeOK', LimitsHold, UNCHANGED <<Procs, fdVars>>
    PROVE  LimitsHold'
<1>1. OpenDescriptors' = OpenDescriptors /\ \A p : DescriptorsOf(p)' = DescriptorsOf(p)
  BY DEF fdVars, OpenDescriptors, DescriptorsOf
<1> QED BY <1>1, LimitsShrink

\* The guard of open leaves room for one more descriptor.
LEMMA LimitsAllocate ==
    ASSUME TypeOK, TypeOK', LimitsHold, NEW proc \in Procs, NEW fd, NEW fdNumber,
           NEW flags, NEW file, MayAllocate(proc, fd, fdNumber),
           AllocateFD(proc, fd, fdNumber, flags, file), UNCHANGED Procs
    PROVE  LimitsHold'
<1> USE LimitsAssumption
<1>1. ProcFDs \subseteq Procs \X FDs
  BY DEF TypeOK, FDsOK
<1>2. /\ DescriptorsOf(proc)' = DescriptorsOf(proc) \cup {fd}
      /\ fd \notin DescriptorsOf(proc)
      /\ \A p \in Procs \ {proc} : DescriptorsOf(p)' = DescriptorsOf(p)
      /\ OpenDescriptors' = OpenDescriptors \cup {fd}
      /\ fd \notin OpenDescriptors
  BY <1>1 DEF MayAllocate, AllocateFD, DescriptorsOf, OpenDescriptors
<1>3. /\ Cardinality(DescriptorsOf(proc)') = Cardinality(DescriptorsOf(proc)) + 1
      /\ Cardinality(DescriptorsOf(proc)) \in Nat
  BY <1>2, DescriptorSets, FS_AddElement
<1>4. /\ Cardinality(OpenDescriptors') = Cardinality(OpenDescriptors) + 1
      /\ Cardinality(OpenDescriptors) \in Nat
  BY <1>2, DescriptorSets, FS_AddElement
<1>5. \A p \in Procs' : Cardinality(DescriptorsOf(p)') <= PROC_FILE_LIMIT
  <2> SUFFICES ASSUME NEW p \in Procs
               PROVE  Cardinality(DescriptorsOf(p)') <= PROC_FILE_LIMIT
    OBVIOUS
  <2>1. CASE p = proc
    BY <1>3, <2>1 DEF MayAllocate
  <2>2. CASE p # proc
    BY <1>2, <2>2 DEF LimitsHold
  <2> QED BY <2>1, <2>2
<1>6. Cardinality(OpenDescriptors') <= FILE_LIMIT
  BY <1>4 DEF MayAllocate
<1>7. (Cardinality(Files) <= MAX_FILES)'
  BY FilesBounded, PTL
<1> QED BY <1>5, <1>6, <1>7 DEF LimitsHold

\* Descriptors go, and so may processes.
LEMMA LimitsForget ==
    ASSUME TypeOK, TypeOK', LimitsHold, NEW fds, ForgetFDs(fds),
           ProcFDs' \subseteq ProcFDs, Procs' \subseteq Procs
    PROVE  LimitsHold'
<1>1. OpenDescriptors' \subseteq OpenDescriptors
  BY DEF ForgetFDs, OpenDescriptors
<1>2. \A p \in Procs' : p \in Procs /\ DescriptorsOf(p)' \subseteq DescriptorsOf(p)
  BY DEF ForgetFDs, DescriptorsOf
<1> QED BY <1>1, <1>2, LimitsShrink

\* The child of a fork holds what its parent holds.
LEMMA LimitsFork ==
    ASSUME TypeOK, TypeOK', LimitsHold, NEW proc, NEW newProc, fork(proc, newProc)
    PROVE  LimitsHold'
<1>1. ProcFDs \subseteq Procs \X FDs /\ newProc \notin Procs /\ proc \in Procs
  BY DEF TypeOK, FDsOK, fork
<1>2. Procs' = Procs \cup {newProc} /\ FDs' = FDs
      /\ ProcFDs' = ProcFDs \cup ({newProc} \X DescriptorsOf(proc))
  BY DEF fork, AddProc
<1>3. \A p \in Procs : DescriptorsOf(p)' = DescriptorsOf(p)
  BY <1>1, <1>2 DEF DescriptorsOf
<1>4. DescriptorsOf(newProc)' = DescriptorsOf(proc)
  BY <1>1, <1>2 DEF DescriptorsOf
<1>5. OpenDescriptors' \subseteq OpenDescriptors
  BY <1>1, <1>2 DEF OpenDescriptors, DescriptorsOf
<1> QED BY <1>1, <1>2, <1>3, <1>4, <1>5, LimitsShrink

LEMMA LimitsLogin ==
    ASSUME TypeOK, TypeOK', LimitsHold, NEW user, NEW proc, NEW group, NEW exeFile,
           NEW mask, login(user, proc, group, exeFile, mask)
    PROVE  LimitsHold'
<1>1. ProcFDs \subseteq Procs \X FDs /\ proc \notin Procs
  BY DEF TypeOK, FDsOK, login, grd_login
<1>2. Procs' = Procs \cup {proc} /\ FDs' = FDs /\ ProcFDs' = ProcFDs
  BY DEF login, AddProc, fdVars
<1>3. DescriptorsOf(proc)' = {} /\ \A p \in Procs : DescriptorsOf(p)' = DescriptorsOf(p)
  BY <1>1, <1>2 DEF DescriptorsOf
<1>4. OpenDescriptors' \subseteq OpenDescriptors
  BY <1>1, <1>2 DEF OpenDescriptors
<1> QED BY <1>2, <1>3, <1>4, LimitsShrink

LEMMA InitLimits == Init => LimitsHold
<1> SUFFICES ASSUME Init PROVE LimitsHold
  OBVIOUS
<1>1. OpenDescriptors = {} /\ \A p : DescriptorsOf(p) = {}
  BY DEF Init, OpenDescriptors, DescriptorsOf
<1>2. Cardinality({}) = 0
  BY FS_EmptySet
<1> QED BY <1>1, <1>2, LimitsAssumption, InitType, FilesBounded DEF LimitsHold

LEMMA LimitsStep ==
    ASSUME TypeOK, TypeOK', LimitsHold, [Next]_vars
    PROVE  LimitsHold'
<1>1. ASSUME NEW proc \in Procs, NEW parent, NEW file, NEW name,
             OpenCall(proc, parent, file, name)
      PROVE  LimitsHold'
  <2>1. ASSUME NEW fd, NEW fdNumber, NEW flags, NEW dirs,
               OpenExisting(proc, parent, file, name, flags, fd, fdNumber, dirs)
        PROVE  LimitsHold'
    BY <2>1, LimitsAllocate DEF OpenExisting, procVars, grd_OpenExisting
  <2>2. ASSUME NEW fd, NEW fdNumber, NEW flags, NEW mode, NEW dirs,
               CreateAndOpen(proc, parent, file, name, flags, mode, fd, fdNumber, dirs)
        PROVE  LimitsHold'
    BY <2>2, LimitsAllocate DEF CreateAndOpen, procVars, grd_CreateAndOpen
  <2> QED BY <1>1, <2>1, <2>2
          DEF OpenCall, open_exists, open_create, openat_exists, openat_create
<1>2. ASSUME NEW proc, NEW parent, NEW file, NEW name, TreeCall(proc, parent, file, name)
      PROVE  LimitsHold'
  BY <1>2, TreeCallFrame, LimitsFrame DEF procVars
<1>3. ASSUME NEW proc, NEW parent, NEW file, NEW name,
             AttributeCall(proc, parent, file, name)
      PROVE  LimitsHold'
  BY <1>3, AttributeFrame, LimitsFrame DEF procVars
<1>4. ASSUME NEW proc, NEW fd, DescriptorCall(proc, fd) PROVE LimitsHold'
  <2>1. ASSUME UNCHANGED <<Procs, fdVars>> PROVE LimitsHold'
    BY <2>1, LimitsFrame
  <2>2. CASE close(proc, fd)
    BY <2>2, LimitsForget DEF close, procVars, grd_close
  <2> QED BY <1>4, <2>1, <2>2
          DEF DescriptorCall, fchdir, getdents, fchmod, fchown, SetMode, SetOwner,
              procVars, vars, grd_fd, MayChown
<1>5. ASSUME NEW proc, ProcessCall(proc) PROVE LimitsHold'
  <2>1. ASSUME NEW fds, exit(proc, fds) PROVE LimitsHold'
    BY <2>1, LimitsForget DEF exit
  <2>2. ASSUME NEW parent, NEW exeFile, NEW name, NEW fds,
               execve(proc, parent, exeFile, name, fds) PROVE LimitsHold'
    BY <2>2, LimitsForget DEF execve
  <2>3. ASSUME UNCHANGED <<Procs, fdVars>> PROVE LimitsHold'
    BY <2>3, LimitsFrame
  <2> QED BY <1>5, <2>1, <2>2, <2>3, LimitsFork DEF ProcessCall, chdir, umask
<1>6. CASE SetupCall
  <2>1. ASSUME UNCHANGED <<Procs, fdVars>> PROVE LimitsHold'
    BY <2>1, LimitsFrame
  <2> QED BY <1>6, <2>1, LimitsLogin
          DEF SetupCall, create_user, create_group, change_capabilities, set_acl, procVars,
              grd_create_user, grd_create_group, grd_set_acl
<1>7. CASE UNCHANGED vars
  BY <1>7, LimitsFrame DEF vars, procVars
<1> QED BY <1>1, <1>2, <1>3, <1>4, <1>5, <1>6, <1>7 DEF Next, ProcCall

-----------------------------------------------------------------------------
(* The theorems.                                                           *)

\* Every attribute, ACL entry and descriptor table has the type DAC.bm gives
\* it, for any set of users, files and descriptors and any arguments.
THEOREM TypeCorrect == Spec => []TypeOK
<1>1. Init => TypedTree
  BY InitType, InitTree DEF TypedTree
<1>2. TypedTree /\ [Next]_vars => TypedTree'
  BY TypedTreeStep DEF TypedTree, TreeKept
<1>3. TypedTree => TypeOK
  BY DEF TypedTree
<1> QED BY <1>1, <1>2, <1>3, PTL DEF Spec

TreeSound == TypedTree /\ TreeRooted /\ NamesUnique

\* The directories form one tree in which names are unique, and PathToRoot is
\* the set of ancestors: mkdir and rmdir keep the incremental PathToRoot right
\* and no link, removal or reuse of an inode detaches or duplicates an entry.
THEOREM TreeConsistent ==
    Spec => [](HierarchySound /\ PathToRootSound /\ TreeRooted /\ NamesUnique)
<1>1. Init => TreeSound
  BY InitType, InitTree DEF TreeSound, TypedTree
<1>2. TreeSound /\ [Next]_vars => TreeSound'
  BY TypedTreeStep DEF TreeSound, TypedTree, TreeKept
<1>3. TreeSound => HierarchySound /\ PathToRootSound /\ TreeRooted /\ NamesUnique
  BY DEF TreeSound, TypedTree, TreeInv
<1> QED BY <1>1, <1>2, <1>3, PTL DEF Spec

LEMMA MachineStep ==
    ASSUME MachineInv, [Next]_vars
    PROVE  MachineInv' /\ (FDNumbersUnique => FDNumbersUnique')
<1>1. TypedTree /\ RefsInv /\ AclSound /\ LimitsHold /\ TypeOK
  BY DEF MachineInv, TypedTree, TreeInv, RefsInv
<1>2. TypeOK' /\ TreeKept
  BY <1>1, TypedTreeStep
<1>3. AclSound'
  BY <1>1, AclStep
<1>4. RefsKept
  BY <1>1, RefsStep
<1>5. LimitsHold'
  BY <1>1, <1>2, LimitsStep
<1> QED BY <1>2, <1>3, <1>4, <1>5 DEF MachineInv, TreeKept, TreeInv, RefsKept, RefsInv

LEMMA InitMachine == Init => MachineInv
BY InitType, InitTree, InitAcl, InitRefs, InitLimits
   DEF MachineInv, TreeInv, RefsInv

\* All invariants DAC.bm declares hold of its events, any_transition (which
\* the mediator uses to force recorded hashes into the model) included.
THEOREM MachineSound == ForcedSpec => []MachineInv
<1>1. MachineInv /\ [Next \/ any_transition]_vars => MachineInv'
  BY MachineStep DEF any_transition
<1> QED BY <1>1, InitMachine, PTL DEF ForcedSpec

\* No process ever holds two descriptors with one number, whatever opens,
\* closes, forks and exits came before; and the limits are never exceeded.
THEOREM DescriptorsSound == Spec => [](FDNumbersUnique /\ LimitsHold)
<1>1. Init => MachineInv /\ FDNumbersUnique
  BY InitMachine, InitRefs
<1>2. (MachineInv /\ FDNumbersUnique) /\ [Next]_vars => (MachineInv /\ FDNumbersUnique)'
  BY MachineStep
<1>3. MachineInv => LimitsHold
  BY DEF MachineInv
<1> QED BY <1>1, <1>2, <1>3, PTL DEF Spec

\* A file or directory has a name as long as it exists, a directory exactly
\* one, in every reachable state of the machine.
THEOREM HierarchyHolds == Spec => []HierarchySound
<1>1. HierarchySound /\ PathToRootSound /\ TreeRooted /\ NamesUnique => HierarchySound
  OBVIOUS
<1> QED BY <1>1, TreeConsistent, PTL

\* No sequence of creations, links, removals and reuses of inodes gives one
\* name of a directory to two files.
THEOREM NamesHold == Spec => []NamesUnique
<1>1. HierarchySound /\ PathToRootSound /\ TreeRooted /\ NamesUnique => NamesUnique
  OBVIOUS
<1> QED BY <1>1, TreeConsistent, PTL

\* The limits per process and of the system are not exceeded, whatever is
\* opened and however descriptors are inherited.
THEOREM LimitsNotExceeded == Spec => []LimitsHold
<1>1. FDNumbersUnique /\ LimitsHold => LimitsHold
  OBVIOUS
<1> QED BY <1>1, DescriptorsSound, PTL

\* The ACL and the group bits of the mode stay in step through chmod, chown,
\* creation, removal and set_acl.
THEOREM AclsHold == Spec => []AclSound
<1>1. MachineInv /\ [Next]_vars => MachineInv'
  BY MachineStep
<1>2. MachineInv => AclSound
  BY DEF MachineInv
<1> QED BY <1>1, <1>2, InitMachine, PTL DEF Spec

-----------------------------------------------------------------------------
(* The access check.                                                       *)

LEMMA EmptyMask ==
    ASSUME NEW perms, NEW acc \in ACCESSES, perms \cap GROUP_PERMISSIONS = {}
    PROVE  ~(Bits("G", acc) \subseteq perms) /\ ~(Bits("G", acc) \subseteq {})
<1>1. PICK a \in acc : a \in {"r", "w", "x"}
  BY DEF ACCESSES
<1>2. <<"G", a>> \in Bits("G", acc) /\ <<"G", a>> \in GROUP_PERMISSIONS
  BY <1>1 DEF Bits, GROUP_PERMISSIONS
<1> QED BY <1>2

LEMMA FirstMatch ==
    ASSUME AclSound, NEW proc \in Procs, NEW f \in Files, NEW acc \in ACCESSES
    PROVE  Grants(proc, f, acc) <=> FirstMatchGrants(proc, f, acc)
<1> DEFINE user == ProcUser[proc]
<1> USE DEF HasMask
<1>1. CASE user = FileUser[f]
  BY <1>1 DEF Grants, OwnerGrants, OtherGrants, NamedUserGrants, MaskedGroupGrants,
              OwningGroupGrants, MaskedOtherGrants, FirstMatchGrants
<1>2. CASE user # FileUser[f] /\ HasMask(f) /\ <<f, user>> \in DOMAIN UserACL
  BY <1>2 DEF Grants, OwnerGrants, OtherGrants, NamedUserGrants, MaskedGroupGrants,
              OwningGroupGrants, MaskedOtherGrants, FirstMatchGrants
<1>3. CASE user # FileUser[f] /\ HasMask(f) /\ <<f, user>> \notin DOMAIN UserACL
  <2>1. GroupEntryGrants(proc, f, acc) =>
          \/ FileGroup[f] \in GroupsOf(proc)
          \/ \E g \in GroupsOf(proc) : <<f, g>> \in DOMAIN GroupACL
    BY DEF GroupEntryGrants
  <2> QED
    BY <1>3, <2>1 DEF Grants, OwnerGrants, OtherGrants, NamedUserGrants, MaskedGroupGrants,
                      OwningGroupGrants, MaskedOtherGrants, FirstMatchGrants
<1>4. CASE user # FileUser[f] /\ f \notin DOMAIN MaskACL
  <2>1. <<f, user>> \notin DOMAIN UserACL
    BY <1>4 DEF AclSound, AclsFit
  <2> QED
    BY <1>4, <2>1 DEF Grants, OwnerGrants, OtherGrants, NamedUserGrants, MaskedGroupGrants,
                      OwningGroupGrants, MaskedOtherGrants, FirstMatchGrants
<1>5. CASE user # FileUser[f] /\ f \in DOMAIN MaskACL /\ MaskACL[f] = {}
  <2>1. DACPermissions[f] \cap GROUP_PERMISSIONS = {}
    BY <1>5 DEF AclSound, AclsFit
  <2>2. ~(Bits("G", acc) \subseteq DACPermissions[f]) /\ ~(Bits("G", acc) \subseteq MaskACL[f])
    BY <1>5, <2>1, EmptyMask
  <2> QED
    BY <1>5, <2>2 DEF Grants, OwnerGrants, OtherGrants, NamedUserGrants, MaskedGroupGrants,
                      OwningGroupGrants, MaskedOtherGrants, FirstMatchGrants
<1> QED BY <1>1, <1>2, <1>3, <1>4, <1>5

\* The six overlapping alternatives of the access guard are the kernel's
\* first-match algorithm in every reachable state.  It rests on AclSound: for
\* an ACL whose mask differs from the group bits the two decide differently.
THEOREM AccessSound == ForcedSpec => []AccessIsFirstMatch
<1>1. MachineInv => AccessIsFirstMatch
  BY FirstMatch DEF MachineInv, AccessIsFirstMatch
<1> QED BY <1>1, MachineSound, PTL

-----------------------------------------------------------------------------
(* Reuse of inodes.                                                        *)

StableStep ==
    \A d \in FDs \cap FDs' :
       /\ FDFile'[d] = FDFile[d]
       /\ FDFile[d] \notin Files => FDFile[d] \notin Files'

LEMMA StableAllocate ==
    ASSUME TypeOK, NEW proc, NEW fd, NEW fdNumber, NEW flags, NEW file,
           MayAllocate(proc, fd, fdNumber), AllocateFD(proc, fd, fdNumber, flags, file)
    PROVE  \A d \in FDs : FDFile'[d] = FDFile[d]
BY DEF MayAllocate, AllocateFD, With, TypeOK, FDsOK

LEMMA StableForget ==
    ASSUME TypeOK, NEW fds, ForgetFDs(fds), UNCHANGED Files
    PROVE  StableStep
BY DEF StableStep, ForgetFDs, Without, TypeOK, FDsOK

LEMMA StableTree ==
    ASSUME TypeOK, NEW proc, NEW parent, NEW file, NEW name,
           TreeCall(proc, parent, file, name)
    PROVE  StableStep
<1>1. UNCHANGED fdVars
  BY TreeCallFrame
<1>2. ASSUME Files' \subseteq Files PROVE StableStep
  BY <1>1, <1>2 DEF StableStep, fdVars
<1>3. ASSUME \A d \in FDs : FDFile[d] # file, Files' = Files \cup {file} PROVE StableStep
  BY <1>1, <1>3 DEF StableStep, fdVars
<1>4. ASSUME NEW mode, mkdir(proc, parent, file, name, mode) PROVE StableStep
  BY <1>3, <1>4 DEF mkdir, IsUnusedForDir, CreateEntry, grd_mkdir, MkdirPerms
<1>5. ASSUME NEW target, symlink(proc, target, parent, file, name) PROVE StableStep
  BY <1>3, <1>5 DEF symlink, IsUnused, CreateEntry
<1>6. ASSUME NEW newParent, NEW newName,
             link(proc, parent, newParent, file, name, newName) PROVE StableStep
  BY <1>2, <1>6 DEF link, grd_link
<1>7. CASE unlink(proc, parent, file, name)
  BY <1>2, <1>7 DEF unlink, ForgetAttributes
<1>8. CASE rmdir(proc, parent, file, name)
  BY <1>2, <1>8 DEF rmdir, ForgetAttributes
<1> QED BY <1>4, <1>5, <1>6, <1>7, <1>8 DEF TreeCall

LEMMA StableNext ==
    ASSUME TypeOK, [Next]_vars
    PROVE  StableStep
<1>1. ASSUME UNCHANGED <<fdVars, Files>> PROVE StableStep
  BY <1>1 DEF StableStep, fdVars
<1>2. ASSUME NEW proc, NEW parent, NEW file, NEW name, OpenCall(proc, parent, file, name)
      PROVE  StableStep
  <2>1. ASSUME NEW fd, NEW fdNumber, NEW flags, NEW dirs,
               OpenExisting(proc, parent, file, name, flags, fd, fdNumber, dirs)
        PROVE  StableStep
    <3>1. \A d \in FDs : FDFile'[d] = FDFile[d]
      BY <2>1, StableAllocate DEF OpenExisting, grd_OpenExisting
    <3> QED BY <2>1, <3>1 DEF OpenExisting, StableStep, fileVars, treeVars, grd_OpenExisting
  <2>2. ASSUME NEW fd, NEW fdNumber, NEW flags, NEW mode, NEW dirs,
               CreateAndOpen(proc, parent, file, name, flags, mode, fd, fdNumber, dirs)
        PROVE  StableStep
    <3>1. \A d \in FDs : FDFile'[d] = FDFile[d]
      BY <2>2, StableAllocate DEF CreateAndOpen, grd_CreateAndOpen
    <3> QED BY <2>2, <3>1 DEF CreateAndOpen, CreateEntry, IsUnused, StableStep, grd_CreateAndOpen
  <2> QED BY <1>2, <2>1, <2>2
          DEF OpenCall, open_exists, open_create, openat_exists, openat_create
<1>3. ASSUME NEW proc, NEW parent, NEW file, NEW name,
             AttributeCall(proc, parent, file, name)
      PROVE  StableStep
  BY <1>1, <1>3, AttributeFrame DEF treeVars
<1>4. ASSUME NEW proc, NEW fd, DescriptorCall(proc, fd) PROVE StableStep
  <2>1. CASE close(proc, fd)
    BY <2>1, StableForget DEF close, fileVars, treeVars, grd_close
  <2> QED BY <1>1, <1>4, <2>1
          DEF DescriptorCall, fchdir, getdents, fchmod, fchown, SetMode, SetOwner,
              treeVars, fileVars, vars, grd_fd, MayChown
<1>5. ASSUME NEW proc, ProcessCall(proc) PROVE StableStep
  <2>1. ASSUME NEW fds, exit(proc, fds) PROVE StableStep
    BY <2>1, StableForget DEF exit, fileVars, treeVars
  <2>2. ASSUME NEW parent, NEW exeFile, NEW name, NEW fds,
               execve(proc, parent, exeFile, name, fds) PROVE StableStep
    BY <2>2, StableForget DEF execve, fileVars, treeVars
  <2>3. ASSUME NEW newProc, fork(proc, newProc) PROVE StableStep
    BY <2>3 DEF fork, StableStep, fileVars, treeVars
  <2> QED BY <1>1, <1>5, <2>1, <2>2, <2>3 DEF ProcessCall, chdir, umask, fileVars, treeVars
<1>6. CASE SetupCall
  BY <1>1, <1>6 DEF SetupCall, create_user, create_group, change_capabilities, set_acl,
                    login, fileVars, treeVars, grd_create_user, grd_create_group, grd_set_acl
<1>7. CASE UNCHANGED vars
  BY <1>1, <1>7 DEF vars, fileVars, treeVars
<1> QED BY <1>2, <1>3, <1>4, <1>5, <1>6, <1>7, StableTree DEF Next, ProcCall

\* An open descriptor keeps denoting one inode, and the inode of a removed
\* file is not given to a new one while a descriptor denotes it: the inode
\* guards of open, openat, mkdir and symlink are enough for that.
THEOREM DescriptorsKeepInode == Spec => DescriptorsStable
<1>1. TypeOK /\ [Next]_vars => [StableStep]_vars
  BY StableNext
<1>2. [StableStep]_vars <=>
        [\A d \in FDs \cap FDs' :
           /\ FDFile'[d] = FDFile[d]
           /\ FDFile[d] \notin Files => FDFile[d] \notin Files']_vars
  BY DEF StableStep
<1> QED BY <1>1, <1>2, TypeCorrect, PTL DEF Spec, DescriptorsStable

FreshStep ==
    \A f \in Files' \ Files :
       /\ DOMAIN FileXattrs'[f] = {}
       /\ f \notin DOMAIN MaskACL'
       /\ \A e \in DOMAIN UserACL' \cup DOMAIN GroupACL' : e[1] # f
       /\ \E p \in Procs : FileUser'[f] = ProcUser[p]

\* CreateEntry writes every attribute, and the ACLs have no entry of a file
\* that does not exist.
LEMMA FreshCreate ==
    ASSUME TypeOK, NEW proc \in Procs, NEW parent, NEW file, NEW name, NEW group, NEW perms,
           file \notin Files, CreateEntry(proc, parent, file, name, group, perms)
    PROVE  FreshStep
<1>1. Files' \ Files = {file}
  BY DEF CreateEntry
<1>2. FileXattrs'[file] = [n \in {} |-> n] /\ FileUser'[file] = ProcUser[proc]
  BY DEF CreateEntry, With
<1>3. DOMAIN FileXattrs'[file] = {}
  BY <1>2
<1>4. /\ file \notin DOMAIN MaskACL'
      /\ \A e \in DOMAIN UserACL' \cup DOMAIN GroupACL' : e[1] # file
  BY DEF CreateEntry, TypeOK, AclsOK, IsPartial
<1> QED BY <1>1, <1>2, <1>3, <1>4 DEF FreshStep

LEMMA FreshNext ==
    ASSUME TypeOK, [Next]_vars
    PROVE  FreshStep
<1>1. ASSUME Files' \subseteq Files PROVE FreshStep
  BY <1>1 DEF FreshStep
<1>2. ASSUME NEW proc \in Procs, NEW parent, NEW file, NEW name,
             OpenCall(proc, parent, file, name)
      PROVE  FreshStep
  <2>1. ASSUME NEW fd, NEW fdNumber, NEW flags, NEW dirs,
               OpenExisting(proc, parent, file, name, flags, fd, fdNumber, dirs)
        PROVE  FreshStep
    BY <1>1, <2>1 DEF OpenExisting, fileVars, treeVars, grd_OpenExisting
  <2>2. ASSUME NEW fd, NEW fdNumber, NEW flags, NEW mode, NEW dirs,
               CreateAndOpen(proc, parent, file, name, flags, mode, fd, fdNumber, dirs)
        PROVE  FreshStep
    BY <2>2, FreshCreate DEF CreateAndOpen, IsUnused, grd_CreateAndOpen
  <2> QED BY <1>2, <2>1, <2>2
          DEF OpenCall, open_exists, open_create, openat_exists, openat_create
<1>3. ASSUME NEW proc \in Procs, NEW parent, NEW file, NEW name,
             TreeCall(proc, parent, file, name)
      PROVE  FreshStep
  <2>1. ASSUME NEW mode, mkdir(proc, parent, file, name, mode) PROVE FreshStep
    BY <2>1, FreshCreate DEF mkdir, IsUnusedForDir, grd_mkdir, MkdirPerms
  <2>2. ASSUME NEW target, symlink(proc, target, parent, file, name) PROVE FreshStep
    BY <2>2, FreshCreate DEF symlink, IsUnused
  <2> QED BY <1>1, <1>3, <2>1, <2>2 DEF TreeCall, link, unlink, rmdir, ForgetAttributes, grd_link
<1>4. ASSUME NEW proc, NEW parent, NEW file, NEW name,
             AttributeCall(proc, parent, file, name)
      PROVE  FreshStep
  BY <1>1, <1>4, AttributeFrame DEF treeVars
<1>5. ASSUME NEW proc, NEW fd, DescriptorCall(proc, fd) PROVE FreshStep
  BY <1>1, <1>5, DescriptorFrame DEF treeVars
<1>6. ASSUME NEW proc, ProcessCall(proc) PROVE FreshStep
  BY <1>1, <1>6, ProcessFrame DEF fileVars, treeVars
<1>7. CASE SetupCall
  BY <1>1, <1>7, SetupFrame DEF treeVars
<1>8. CASE UNCHANGED vars
  BY <1>1, <1>8 DEF vars, fileVars, treeVars
<1> QED BY <1>2, <1>3, <1>4, <1>5, <1>6, <1>7, <1>8 DEF Next, ProcCall

\* A file that takes a freed inode has no extended attribute, ACL entry or
\* mask of the file before it, and is owned by a user who runs a process:
\* removal and creation leave no attribute behind in any of the tables.
THEOREM InodesFresh == Spec => FreshInode
<1>1. TypeOK /\ [Next]_vars => [FreshStep]_vars
  BY FreshNext
<1>2. [FreshStep]_vars <=>
        [\A f \in Files' \ Files :
           /\ DOMAIN FileXattrs'[f] = {}
           /\ f \notin DOMAIN MaskACL'
           /\ \A e \in DOMAIN UserACL' \cup DOMAIN GroupACL' : e[1] # f
           /\ \E p \in Procs : FileUser'[f] = ProcUser[p]]_vars
  BY DEF FreshStep
<1> QED BY <1>1, <1>2, TypeCorrect, PTL DEF Spec, FreshInode

-----------------------------------------------------------------------------
(* What the calls of an ordinary user's process can do.                    *)

\* Each set-user-ID file of another user was one before, of the same user.
NoTakeover(proc) ==
    \A f \in Files' :
       IsSetUid(f)' /\ FileUser'[f] # ProcUser[proc]
         => IsSetUid(f) /\ FileUser'[f] = FileUser[f]

LEMMA ConfinedFrame ==
    ASSUME TypeOK, NEW proc, Files' \subseteq Files,
           \A f \in Files' : /\ DACPermissions'[f] = DACPermissions[f]
                             /\ FileUser'[f] = FileUser[f]
    PROVE  NoTakeover(proc)
BY DEF NoTakeover, IsSetUid

LEMMA ConfinedCreate ==
    ASSUME TypeOK, NEW proc, NEW parent, NEW file, NEW name, NEW group, NEW perms,
           file \notin Files, CreateEntry(proc, parent, file, name, group, perms)
    PROVE  NoTakeover(proc)
<1>1. FileUser'[file] = ProcUser[proc] /\ Files' = Files \cup {file}
  BY DEF CreateEntry, With
<1>2. \A f \in Files : /\ DACPermissions'[f] = DACPermissions[f]
                       /\ FileUser'[f] = FileUser[f]
  BY DEF CreateEntry, With, TypeOK, AttributesOK
<1> QED BY <1>1, <1>2 DEF NoTakeover, IsSetUid

LEMMA ConfinedForget ==
    ASSUME TypeOK, NEW proc, NEW gone, ForgetAttributes(gone)
    PROVE  NoTakeover(proc)
<1>1. \A f \in Files' : /\ f \in Files /\ DACPermissions'[f] = DACPermissions[f]
                        /\ FileUser'[f] = FileUser[f]
  BY DEF ForgetAttributes, Without, TypeOK, AttributesOK
<1> QED BY <1>1, ConfinedFrame

LEMMA ConfinedMode ==
    ASSUME TypeOK, NEW proc, NEW file \in Files, NEW mode, ProcUser[proc] # ROOT_USER,
           SetMode(proc, file, mode)
    PROVE  NoTakeover(proc)
<1>1. FileUser' = FileUser /\ Files' = Files /\ FileUser[file] = ProcUser[proc]
  BY DEF SetMode, IsRootOrOwner, ownerVars, treeVars
<1>2. \A f \in Files \ {file} : DACPermissions'[f] = DACPermissions[f]
  BY DEF SetMode, With, TypeOK, AttributesOK
<1> QED BY <1>1, <1>2 DEF NoTakeover, IsSetUid

LEMMA ConfinedOwner ==
    ASSUME TypeOK, NEW proc, NEW file \in Files, NEW owner, NEW group,
           ProcUser[proc] # ROOT_USER, SetOwner(proc, file, owner, group)
    PROVE  NoTakeover(proc)
<1>1. FileUser'[file] = ProcUser[proc] /\ Files' = Files
  BY DEF SetOwner, With, treeVars, MayChown
<1>2. \A f \in Files \ {file} : /\ DACPermissions'[f] = DACPermissions[f]
                                /\ FileUser'[f] = FileUser[f]
  BY DEF SetOwner, With, TypeOK, AttributesOK, MayChown
<1> QED BY <1>1, <1>2 DEF NoTakeover, IsSetUid

LEMMA ConfinedCall ==
    ASSUME TypeOK, NEW proc, ProcUser[proc] # ROOT_USER, ProcCall(proc)
    PROVE  NoTakeover(proc)
<1>1. ASSUME UNCHANGED <<Files, DACPermissions, FileUser>> PROVE NoTakeover(proc)
  BY <1>1, ConfinedFrame
<1>2. ASSUME NEW parent, NEW file, NEW name, OpenCall(proc, parent, file, name)
      PROVE  NoTakeover(proc)
  <2>1. ASSUME NEW fd, NEW fdNumber, NEW flags, NEW dirs,
               OpenExisting(proc, parent, file, name, flags, fd, fdNumber, dirs)
        PROVE  NoTakeover(proc)
    BY <1>1, <2>1 DEF OpenExisting, fileVars, treeVars, ownerVars, grd_OpenExisting
  <2>2. ASSUME NEW fd, NEW fdNumber, NEW flags, NEW mode, NEW dirs,
               CreateAndOpen(proc, parent, file, name, flags, mode, fd, fdNumber, dirs)
        PROVE  NoTakeover(proc)
    BY <2>2, ConfinedCreate DEF CreateAndOpen, IsUnused, grd_CreateAndOpen
  <2> QED BY <1>2, <2>1, <2>2
          DEF OpenCall, open_exists, open_create, openat_exists, openat_create
<1>3. ASSUME NEW parent, NEW file, NEW name, TreeCall(proc, parent, file, name)
      PROVE  NoTakeover(proc)
  <2>1. ASSUME NEW mode, mkdir(proc, parent, file, name, mode) PROVE NoTakeover(proc)
    BY <2>1, ConfinedCreate DEF mkdir, IsUnusedForDir, grd_mkdir, MkdirPerms
  <2>2. ASSUME NEW target, symlink(proc, target, parent, file, name) PROVE NoTakeover(proc)
    BY <2>2, ConfinedCreate DEF symlink, IsUnused
  <2>3. ASSUME NEW newParent, NEW newName,
               link(proc, parent, newParent, file, name, newName) PROVE NoTakeover(proc)
    BY <1>1, <2>3 DEF link, ownerVars, grd_link
  <2>4. CASE unlink(proc, parent, file, name) \/ rmdir(proc, parent, file, name)
    BY <2>4, ConfinedForget DEF unlink, rmdir
  <2> QED BY <1>3, <2>1, <2>2, <2>3, <2>4 DEF TreeCall
<1>4. ASSUME NEW parent, NEW file, NEW name, AttributeCall(proc, parent, file, name)
      PROVE  NoTakeover(proc)
  <2>1. file \in Files
    BY <1>4 DEF AttributeCall, chmod, fchmodat, chown, fchownat, getxattr, setxattr,
                TypeOK, TreeOK, grd_path, grd_setxattr
  <2>2. ASSUME UNCHANGED vars PROVE NoTakeover(proc)
    BY <1>1, <2>2 DEF vars, fileVars, treeVars, ownerVars
  <2>3. ASSUME NEW attr, NEW value, NEW flags,
               setxattr(proc, parent, file, name, attr, value, flags)
        PROVE  NoTakeover(proc)
    BY <1>1, <2>3 DEF setxattr, treeVars, grd_setxattr, grd_path
  <2> QED BY <1>4, <2>1, <2>2, <2>3, ConfinedMode, ConfinedOwner
          DEF AttributeCall, chmod, fchmodat, chown, fchownat, getxattr, grd_path
<1>5. ASSUME NEW fd, DescriptorCall(proc, fd) PROVE NoTakeover(proc)
  <2>1. ASSUME UNCHANGED fileVars PROVE NoTakeover(proc)
    BY <1>1, <2>1 DEF fileVars, treeVars, ownerVars
  <2> QED BY <1>5, <2>1, ConfinedMode, ConfinedOwner
          DEF DescriptorCall, fchdir, getdents, close, fchmod, fchown, vars, grd_close, grd_fd
<1>6. CASE ProcessCall(proc)
  BY <1>1, <1>6, ProcessFrame DEF fileVars, treeVars, ownerVars
<1> QED BY <1>2, <1>3, <1>4, <1>5, <1>6 DEF ProcCall

\* No call of an ordinary user's process makes or takes over a set-user-ID
\* file that would run as somebody else, by whichever of the creating calls
\* and the variants of chmod and chown, and by reusing an inode.
THEOREM UsersConfined == Spec => UserConfined
<1> DEFINE Step == \A proc \in Procs :
                     ProcUser[proc] # ROOT_USER /\ ProcCall(proc) => NoTakeover(proc)
<1>1. TypeOK => [Step]_vars
  BY ConfinedCall
<1>2. [Step]_vars <=>
        [\A proc \in Procs :
           ProcUser[proc] # ROOT_USER /\ ProcCall(proc) =>
              \A f \in Files' :
                 IsSetUid(f)' /\ FileUser'[f] # ProcUser[proc]
                   => IsSetUid(f) /\ FileUser'[f] = FileUser[f]]_vars
  BY DEF NoTakeover
<1> HIDE DEF Step
<1> QED BY <1>1, <1>2, TypeCorrect, PTL DEF UserConfined
=============================================================================
