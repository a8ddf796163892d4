----------------------------- MODULE IMA_proofs -----------------------------
(***************************************************************************)
(* Proofs about IMA: it implements DAC, so that DAC's theorems hold of it, *)
(* its own variables keep their types, and the promises of immutability    *)
(* and of ENFORCE mode hold for every instance.                            *)
(***************************************************************************)
EXTENDS IMA, DAC_proofs

-----------------------------------------------------------------------------
(* IMA implements DAC.                                                     *)

LEMMA OpenSimulation ==
    ASSUME NEW proc, NEW parent, NEW file, NEW name,
           IMAOpenCall(proc, parent, file, name)
    PROVE  OpenCall(proc, parent, file, name)
BY DEF IMAOpenCall, OpenCall, ima_open_exists, ima_openat_exists, ima_open_create,
       ima_openat_create

LEMMA TreeSimulation ==
    ASSUME NEW proc, NEW parent, NEW file, NEW name,
           IMATreeCall(proc, parent, file, name)
    PROVE  TreeCall(proc, parent, file, name)
BY DEF IMATreeCall, TreeCall, ima_mkdir, ima_symlink, ima_unlink, ima_rmdir

LEMMA AttributeSimulation ==
    ASSUME NEW proc, NEW parent, NEW file, NEW name,
           IMAAttributeCall(proc, parent, file, name)
    PROVE  AttributeCall(proc, parent, file, name)
BY DEF IMAAttributeCall, AttributeCall, ima_chmod, ima_fchmodat, ima_chown,
       ima_fchownat, ima_setxattr

LEMMA DescriptorSimulation ==
    ASSUME NEW proc, NEW fd, IMADescriptorCall(proc, fd)
    PROVE  DescriptorCall(proc, fd)
BY DEF IMADescriptorCall, DescriptorCall, ima_close, ima_fchmod, ima_fchown

LEMMA ProcessSimulation ==
    ASSUME NEW proc, IMAProcessCall(proc)
    PROVE  ProcessCall(proc)
BY DEF IMAProcessCall, ProcessCall, ima_execve

LEMMA IntegrityFrame ==
    ASSUME IntegrityCall
    PROVE  UNCHANGED vars
BY DEF IntegrityCall, switch_ima_mode, switch_evm_mode, mark_immutable,
       unmark_immutable, force_set_ima_evm_hash

LEMMA StepSimulation == [IMANext]_<<vars, imaVars>> => [Next]_vars
<1> SUFFICES ASSUME [IMANext]_<<vars, imaVars>> PROVE [Next]_vars
  OBVIOUS
<1>1. ASSUME NEW proc \in Procs, IMAProcCall(proc) PROVE ProcCall(proc)
  BY <1>1, OpenSimulation, TreeSimulation, AttributeSimulation, DescriptorSimulation,
     ProcessSimulation DEF IMAProcCall, ProcCall
<1>2. CASE \E proc \in Procs : IMAProcCall(proc)
  BY <1>1, <1>2 DEF Next
<1>3. CASE SetupCall
  BY <1>3 DEF Next
<1>4. CASE IntegrityCall
  BY <1>4, IntegrityFrame
<1>5. CASE UNCHANGED <<vars, imaVars>>
  BY <1>5
<1> QED BY <1>2, <1>3, <1>4, <1>5 DEF IMANext

\* Every behaviour of IMA is one of DAC: what IMA adds only forbids calls and
\* keeps accounts of its own, as the "extends" of its events promises.
THEOREM ImplementsDAC == IMASpec => Spec
<1>1. IMAInit => Init
  BY DEF IMAInit
<1> QED BY <1>1, StepSimulation, PTL DEF IMASpec, Spec

-----------------------------------------------------------------------------
(* The types of the variables IMA adds.                                    *)

\* What a call does to the set of files.
LEMMA CreateFiles ==
    ASSUME NEW proc, NEW parent, NEW file, NEW name, NEW flags, NEW mode, NEW fd,
           NEW fdNumber, NEW dirs,
           CreateAndOpen(proc, parent, file, name, flags, mode, fd, fdNumber, dirs)
    PROVE  Files' = Files \cup {file}
BY DEF CreateAndOpen, CreateEntry, grd_CreateAndOpen

LEMMA CreateHashedType ==
    ASSUME IMATypeOK, NEW parent, NEW file, NEW contentHash, NEW metaHash,
           CreateHashed(parent, file, contentHash, metaHash), Files' = Files \cup {file}
    PROVE  IMATypeOK'
<1> USE DEF storedHashes, modeVars
<1>1. ContentHash' \in [Files' -> HASHES] /\ MetaHash' \in [Files' -> HASHES]
  BY DEF CreateHashed, IMATypeOK, With
<1>2. IsPartial(IMAHash, Files, HASHES)' /\ IsPartial(EVMHash, Files, HASHES)'
  BY DEF CreateHashed, IMATypeOK, IsPartial
<1> QED BY <1>1, <1>2 DEF CreateHashed, IMATypeOK

LEMMA ForgetHashesType ==
    ASSUME IMATypeOK, NEW parent, NEW file, NEW gone, ForgetHashes(parent, file, gone),
           Files' = Files \ gone
    PROVE  IMATypeOK'
<1> USE DEF modeVars
<1>1. ContentHash' \in [Files' -> HASHES] /\ MetaHash' \in [Files' -> HASHES]
  BY DEF ForgetHashes, IMATypeOK, Without
<1>2. IsPartial(IMAHash, Files, HASHES)' /\ IsPartial(EVMHash, Files, HASHES)'
  <2>1. ASSUME NEW f, IsPartial(f, Files, HASHES)
        PROVE  IsPartial(Without(f, gone), Files', HASHES)
    BY <2>1 DEF IsPartial, Without
  <2> QED BY <2>1 DEF ForgetHashes, IMATypeOK
<1> QED BY <1>1, <1>2 DEF ForgetHashes, IMATypeOK

LEMMA SetMetaHashType ==
    ASSUME IMATypeOK, NEW file \in Files, NEW same, NEW metaHash,
           SetMetaHash(file, same, metaHash), Files' = Files
    PROVE  IMATypeOK'
BY DEF SetMetaHash, IMATypeOK, With, storedHashes, modeVars

LEMMA HashFrame ==
    ASSUME IMATypeOK, UNCHANGED <<Files, imaVars>>
    PROVE  IMATypeOK'
BY DEF IMATypeOK, imaVars, realHashes, storedHashes, modeVars

LEMMA IMAOpenType ==
    ASSUME IMATypeOK, NEW proc, NEW parent, NEW file, NEW name,
           IMAOpenCall(proc, parent, file, name)
    PROVE  IMATypeOK'
<1>1. ASSUME NEW flags, NEW fd, NEW fdNumber, NEW dirs,
             OpenExisting(proc, parent, file, name, flags, fd, fdNumber, dirs),
             UNCHANGED imaVars
      PROVE  IMATypeOK'
  BY <1>1, HashFrame DEF OpenExisting, fileVars, treeVars, grd_OpenExisting
<1>2. ASSUME NEW flags, NEW mode, NEW fd, NEW fdNumber, NEW dirs, NEW contentHash,
             NEW metaHash,
             CreateAndOpen(proc, parent, file, name, flags, mode, fd, fdNumber, dirs),
             CreateHashed(parent, file, contentHash, metaHash)
      PROVE  IMATypeOK'
  BY <1>2, CreateFiles, CreateHashedType
<1>3. ASSUME NEW flags, NEW fd, NEW fdNumber,
             ima_open_exists(proc, parent, file, name, flags, fd, fdNumber)
      PROVE  IMATypeOK'
  BY <1>1, <1>3 DEF ima_open_exists, open_exists
<1>4. ASSUME NEW flags, NEW fd, NEW fdNumber, NEW dirfd, NEW cwd,
             ima_openat_exists(proc, dirfd, cwd, parent, file, name, flags, fd, fdNumber)
      PROVE  IMATypeOK'
  BY <1>1, <1>4 DEF ima_openat_exists, openat_exists
<1>5. ASSUME NEW flags, NEW mode, NEW fd, NEW fdNumber, NEW contentHash, NEW metaHash,
             ima_open_create(proc, parent, file, name, flags, mode, fd, fdNumber,
                             contentHash, metaHash)
      PROVE  IMATypeOK'
  BY <1>2, <1>5 DEF ima_open_create, open_create
<1>6. ASSUME NEW flags, NEW mode, NEW fd, NEW fdNumber, NEW contentHash, NEW metaHash,
             NEW dirfd, NEW cwd,
             ima_openat_create(proc, dirfd, cwd, parent, file, name, flags, mode, fd,
                               fdNumber, contentHash, metaHash)
      PROVE  IMATypeOK'
  BY <1>2, <1>6 DEF ima_openat_create, openat_create
<1> QED BY <1>3, <1>4, <1>5, <1>6 DEF IMAOpenCall

LEMMA IMATreeType ==
    ASSUME IMATypeOK, NEW proc, NEW parent, NEW file, NEW name,
           IMATreeCall(proc, parent, file, name)
    PROVE  IMATypeOK'
<1>1. ASSUME NEW contentHash, NEW metaHash, NEW mode,
             ima_mkdir(proc, parent, file, name, mode, contentHash, metaHash)
      PROVE  IMATypeOK'
  <2>1. Files' = Files \cup {file} /\ CreateHashed(parent, file, contentHash, metaHash)
    BY <1>1 DEF ima_mkdir, mkdir, CreateEntry, grd_mkdir, MkdirPerms
  <2> QED BY <2>1, CreateHashedType
<1>2. ASSUME NEW contentHash, NEW metaHash, NEW target,
             ima_symlink(proc, target, parent, file, name, contentHash, metaHash)
      PROVE  IMATypeOK'
  <2>1. Files' = Files \cup {file} /\ CreateHashed(parent, file, contentHash, metaHash)
    BY <1>2 DEF ima_symlink, symlink, CreateEntry
  <2> QED BY <2>1, CreateHashedType
<1>3. ASSUME NEW newParent, NEW newName,
             link(proc, parent, newParent, file, name, newName), UNCHANGED imaVars
      PROVE  IMATypeOK'
  BY <1>3, HashFrame DEF link, grd_link
<1>4. CASE ima_unlink(proc, parent, file, name)
  <2>1. Files' = Files \ Unlinked(parent, file, name)
    BY <1>4 DEF ima_unlink, unlink, ForgetAttributes
  <2>2. ForgetHashes(parent, file, Unlinked(parent, file, name))
    BY <1>4 DEF ima_unlink
  <2> QED BY <2>1, <2>2, ForgetHashesType
<1>5. CASE ima_rmdir(proc, parent, file, name)
  <2>1. Files' = Files \ {file} /\ ForgetHashes(parent, file, {file})
    BY <1>5 DEF ima_rmdir, rmdir, ForgetAttributes
  <2> QED BY <2>1, ForgetHashesType
<1> QED BY <1>1, <1>2, <1>3, <1>4, <1>5 DEF IMATreeCall

LEMMA IMAAttributeType ==
    ASSUME TypeOK, IMATypeOK, NEW proc, NEW parent, NEW file, NEW name,
           IMAAttributeCall(proc, parent, file, name)
    PROVE  IMATypeOK'
<1>1. Files' = Files
  BY AttributeSimulation, AttributeFrame DEF treeVars
<1>2. ASSUME <<file, parent, name>> \in FileParents PROVE file \in Files
  BY <1>2 DEF TypeOK, TreeOK
<1>3. ASSUME NEW same, NEW metaHash, <<file, parent, name>> \in FileParents,
             SetMetaHash(file, same, metaHash)
      PROVE  IMATypeOK'
  BY <1>1, <1>2, <1>3, SetMetaHashType
<1>4. ASSUME UNCHANGED imaVars PROVE IMATypeOK'
  BY <1>1, <1>4, HashFrame
<1> QED BY <1>3, <1>4
        DEF IMAAttributeCall, ima_chmod, ima_fchmodat, ima_chown, ima_fchownat,
            ima_setxattr, chmod, fchmodat, chown, fchownat, grd_path

LEMMA IMACloseType ==
    ASSUME IMATypeOK, NEW proc, NEW fd, NEW imaHash \in HASHES, NEW evmHash \in HASHES,
           NEW contentHash \in HASHES, NEW metaHash \in HASHES,
           ima_close(proc, fd, imaHash, evmHash, contentHash, metaHash)
    PROVE  IMATypeOK'
<1> DEFINE file == FDFile[fd]
<1>1. Files' = Files
  BY DEF ima_close, close, fileVars, treeVars, grd_close
<1>2. CASE file \notin Files
  <2>1. UNCHANGED imaVars
    BY <1>2 DEF ima_close, imaVars, realHashes, storedHashes, modeVars
  <2> QED BY <1>1, <2>1, HashFrame
<1>3. CASE file \in Files
  <2>1. ContentHash' \in [Files' -> HASHES] /\ MetaHash' \in [Files' -> HASHES]
    BY <1>1, <1>3 DEF ima_close, IMATypeOK, With
  <2>2. ASSUME NEW f, NEW h \in HASHES, IsPartial(f, Files, HASHES)
        PROVE  IsPartial(With(f, file, h), Files', HASHES)
    BY <1>1, <1>3, <2>2, WithPartial
  <2>3. IsPartial(IMAHash, Files, HASHES)' /\ IsPartial(EVMHash, Files, HASHES)'
    BY <1>1, <2>2 DEF ima_close, IMATypeOK
  <2> QED BY <1>1, <2>1, <2>3 DEF ima_close, IMATypeOK, modeVars
<1> QED BY <1>2, <1>3

LEMMA IMADescriptorType ==
    ASSUME TypeOK, IMATypeOK, NEW proc, NEW fd, IMADescriptorCall(proc, fd)
    PROVE  IMATypeOK'
<1>1. Files' = Files
  BY DescriptorSimulation, DescriptorFrame DEF treeVars
<1>2. ASSUME NEW same, NEW metaHash, FDFile[fd] \in Files,
             SetMetaHash(FDFile[fd], same, metaHash)
      PROVE  IMATypeOK'
  BY <1>1, <1>2, SetMetaHashType
<1> QED BY <1>1, <1>2, HashFrame, IMACloseType
        DEF IMADescriptorCall, ima_fchmod, ima_fchown, fchmod, fchown, grd_fd

LEMMA IMAProcessType ==
    ASSUME IMATypeOK, NEW proc, IMAProcessCall(proc)
    PROVE  IMATypeOK'
<1>1. Files' = Files
  BY ProcessSimulation, ProcessFrame DEF fileVars, treeVars
<1> QED BY <1>1, HashFrame DEF IMAProcessCall, ima_execve

LEMMA IntegrityType ==
    ASSUME TypeOK, IMATypeOK, IntegrityCall
    PROVE  IMATypeOK'
<1>1. Files' = Files
  BY IntegrityFrame DEF vars, fileVars, treeVars
<1> USE DEF realHashes, storedHashes, modeVars
<1>2. ASSUME NEW mode \in INTEGRITY_MODES, switch_ima_mode(mode) PROVE IMATypeOK'
  BY <1>1, <1>2 DEF switch_ima_mode, IMATypeOK
<1>3. ASSUME NEW mode \in INTEGRITY_MODES, switch_evm_mode(mode) PROVE IMATypeOK'
  BY <1>1, <1>3 DEF switch_evm_mode, IMATypeOK
<1>4. ASSUME NEW file, mark_immutable(file) PROVE IMATypeOK'
  BY <1>1, <1>4 DEF mark_immutable, IMATypeOK
<1>5. ASSUME NEW file, unmark_immutable(file) PROVE IMATypeOK'
  BY <1>1, <1>5 DEF unmark_immutable, IMATypeOK
<1>6. ASSUME NEW file \in Folders,
             force_set_ima_evm_hash(file, ContentHash[file], MetaHash[file])
      PROVE  IMATypeOK'
  <2>1. file \in Files /\ ContentHash[file] \in HASHES /\ MetaHash[file] \in HASHES
    BY DEF TypeOK, TreeOK, IMATypeOK
  <2>2. IsPartial(IMAHash, Files, HASHES)' /\ IsPartial(EVMHash, Files, HASHES)'
    BY <1>1, <1>6, <2>1, WithPartial DEF force_set_ima_evm_hash, IMATypeOK
  <2> QED BY <1>1, <1>6, <2>2 DEF force_set_ima_evm_hash, IMATypeOK
<1> QED BY <1>2, <1>3, <1>4, <1>5, <1>6 DEF IntegrityCall

LEMMA IMATypeStep ==
    ASSUME TypeOK, IMATypeOK, [IMANext]_<<vars, imaVars>>
    PROVE  IMATypeOK'
<1>1. CASE SetupCall /\ UNCHANGED imaVars
  BY <1>1, SetupFrame, HashFrame DEF fileVars, treeVars
<1>2. CASE UNCHANGED <<vars, imaVars>>
  BY <1>2, HashFrame DEF vars, fileVars, treeVars
<1> QED BY <1>1, <1>2, IMAOpenType, IMATreeType, IMAAttributeType, IMADescriptorType,
           IMAProcessType, IntegrityType DEF IMANext, IMAProcCall

\* No stored hash, real hash or immutable flag outlives its file, and every
\* file has both real hashes, through all the events that touch files.
THEOREM IMATypeCorrect == IMASpec => []IMATypeOK
<1>1. IMAInit => IMATypeOK
  BY ContextAssumption, IntegrityContext
     DEF IMAInit, Init, IMATypeOK, IsPartial, INTEGRITY_MODES
<1>2. IMASpec => []TypeOK
  BY ImplementsDAC, TypeCorrect, PTL
<1>3. TypeOK /\ IMATypeOK /\ [IMANext]_<<vars, imaVars>> => IMATypeOK'
  BY IMATypeStep
<1> QED BY <1>1, <1>2, <1>3, PTL DEF IMASpec

-----------------------------------------------------------------------------
(* What the calls leave alone of a file, and of the open descriptors.      *)

\* A step leaves the attributes and the hashes of f alone.
Kept(f) ==
    /\ FileUser'[f] = FileUser[f] /\ FileGroup'[f] = FileGroup[f]
    /\ DACPermissions'[f] = DACPermissions[f] /\ FileXattrs'[f] = FileXattrs[f]
    /\ ContentHash'[f] = ContentHash[f] /\ MetaHash'[f] = MetaHash[f]

\* A step opens fd, and no descriptor that was open changes.
Opened(fd, file, flags) ==
    /\ FDs' = FDs \cup {fd}
    /\ FDFile'[fd] = file /\ FDFlags'[fd] = flags /\ HasOneAccessMode(flags)
    /\ \A d \in FDs : FDFile'[d] = FDFile[d] /\ FDFlags'[d] = FDFlags[d]

\* A step opens no descriptor and changes none.
NoneOpened ==
    /\ FDs' \subseteq FDs
    /\ \A d \in FDs' : FDFile'[d] = FDFile[d] /\ FDFlags'[d] = FDFlags[d]

Created(file) ==
    /\ file \notin Files /\ Files' = Files \cup {file}
    /\ \A f \in Files : Kept(f)
    /\ FileParents \subseteq FileParents'
    /\ UNCHANGED <<storedHashes, modeVars, ImmutableFiles>>

Removed(parent, file, name) ==
    /\ file \notin ImmutableFiles /\ parent \notin ImmutableFiles
    /\ Files' \subseteq Files /\ Files \ {file} \subseteq Files'
    /\ \A f \in Files' : Kept(f)
    /\ FileParents' = FileParents \ {<<file, parent, name>>}
    /\ ImmutableFiles \ {file} \subseteq ImmutableFiles'

LEMMA KeptFrame ==
    ASSUME UNCHANGED <<ownerVars, DACPermissions, realHashes>>, NEW f
    PROVE  Kept(f)
BY DEF Kept, ownerVars, realHashes

LEMMA AllocateOpens ==
    ASSUME TypeOK, NEW proc, NEW fd, NEW fdNumber, NEW flags, NEW file,
           HasOneAccessMode(flags),
           MayAllocate(proc, fd, fdNumber), AllocateFD(proc, fd, fdNumber, flags, file)
    PROVE  Opened(fd, file, flags)
BY DEF Opened, MayAllocate, AllocateFD, With, TypeOK, FDsOK

LEMMA ForgetOpensNone ==
    ASSUME TypeOK, NEW fds, ForgetFDs(fds)
    PROVE  NoneOpened
BY DEF NoneOpened, ForgetFDs, Without, TypeOK, FDsOK

LEMMA CreateCreates ==
    ASSUME TypeOK, IMATypeOK, NEW proc, NEW parent, NEW file, NEW name, NEW group,
           NEW perms, NEW contentHash, NEW metaHash, file \notin Files,
           CreateEntry(proc, parent, file, name, group, perms),
           CreateHashed(parent, file, contentHash, metaHash)
    PROVE  Created(file)
<1>1. \A f \in Files : Kept(f)
  BY DEF Kept, CreateEntry, CreateHashed, With, TypeOK, AttributesOK, IMATypeOK
<1> QED BY <1>1 DEF Created, CreateEntry, CreateHashed

LEMMA ForgetRemoves ==
    ASSUME TypeOK, IMATypeOK, NEW parent, NEW file, NEW name, NEW gone \in SUBSET {file},
           ForgetAttributes(gone), ForgetHashes(parent, file, gone),
           FileParents' = FileParents \ {<<file, parent, name>>}
    PROVE  Removed(parent, file, name)
<1>1. \A f \in Files' : Kept(f)
  BY DEF Kept, ForgetAttributes, ForgetHashes, Without, TypeOK, AttributesOK, IMATypeOK
<1> QED BY <1>1 DEF Removed, ForgetAttributes, ForgetHashes

\* open and openat: an existing file only after its appraisal.
LEMMA OpenCases ==
    ASSUME TypeOK, IMATypeOK, NEW proc, NEW parent, NEW file, NEW name,
           IMAOpenCall(proc, parent, file, name)
    PROVE  \E fd, flags :
             /\ Opened(fd, file, flags)
             /\ \/ OpenAllowed(parent, file, flags) /\ UNCHANGED <<fileVars, imaVars>>
                \/ Created(file)
<1> DEFINE Case == \E fd, flags :
             /\ Opened(fd, file, flags)
             /\ \/ OpenAllowed(parent, file, flags) /\ UNCHANGED <<fileVars, imaVars>>
                \/ Created(file)
<1>1. ASSUME NEW flags, NEW fd, NEW fdNumber, NEW dirs,
             OpenExisting(proc, parent, file, name, flags, fd, fdNumber, dirs),
             OpenAllowed(parent, file, flags), UNCHANGED imaVars
      PROVE  Case
  <2>1. Opened(fd, file, flags)
    BY <1>1, AllocateOpens DEF OpenExisting, FlagsFit, grd_OpenExisting
  <2> QED BY <1>1, <2>1 DEF OpenExisting, grd_OpenExisting
<1>2. ASSUME NEW flags, NEW mode, NEW fd, NEW fdNumber, NEW dirs, NEW contentHash,
             NEW metaHash,
             CreateAndOpen(proc, parent, file, name, flags, mode, fd, fdNumber, dirs),
             CreateHashed(parent, file, contentHash, metaHash)
      PROVE  Case
  <2>1. Opened(fd, file, flags)
    BY <1>2, AllocateOpens DEF CreateAndOpen, FlagsCreate, grd_CreateAndOpen
  <2>2. Created(file)
    BY <1>2, CreateCreates DEF CreateAndOpen, IsUnused, grd_CreateAndOpen
  <2> QED BY <2>1, <2>2
<1> HIDE DEF Case
<1>3. ASSUME NEW flags, NEW fd, NEW fdNumber,
             ima_open_exists(proc, parent, file, name, flags, fd, fdNumber)
      PROVE  Case
  BY <1>1, <1>3 DEF ima_open_exists, open_exists
<1>4. ASSUME NEW flags, NEW fd, NEW fdNumber, NEW dirfd, NEW cwd,
             ima_openat_exists(proc, dirfd, cwd, parent, file, name, flags, fd, fdNumber)
      PROVE  Case
  BY <1>1, <1>4 DEF ima_openat_exists, openat_exists
<1>5. ASSUME NEW flags, NEW mode, NEW fd, NEW fdNumber, NEW contentHash, NEW metaHash,
             ima_open_create(proc, parent, file, name, flags, mode, fd, fdNumber,
                             contentHash, metaHash)
      PROVE  Case
  BY <1>2, <1>5 DEF ima_open_create, open_create
<1>6. ASSUME NEW flags, NEW mode, NEW fd, NEW fdNumber, NEW contentHash, NEW metaHash,
             NEW dirfd, NEW cwd,
             ima_openat_create(proc, dirfd, cwd, parent, file, name, flags, mode, fd,
                               fdNumber, contentHash, metaHash)
      PROVE  Case
  BY <1>2, <1>6 DEF ima_openat_create, openat_create
<1>7. Case
  BY <1>3, <1>4, <1>5, <1>6 DEF IMAOpenCall
<1> QED BY <1>7 DEF Case

LEMMA TreeCases ==
    ASSUME TypeOK, IMATypeOK, NEW proc, NEW parent, NEW file, NEW name,
           IMATreeCall(proc, parent, file, name)
    PROVE  /\ NoneOpened
           /\ \/ Created(file)
              \/ Removed(parent, file, name)
              \/ /\ FileParents \subseteq FileParents'
                 /\ UNCHANGED <<Files, ownerVars, DACPermissions, imaVars>>
<1>1. NoneOpened
  BY TreeSimulation, TreeCallFrame DEF NoneOpened, fdVars
<1>2. ASSUME NEW contentHash, NEW metaHash, NEW mode,
             ima_mkdir(proc, parent, file, name, mode, contentHash, metaHash)
      PROVE  Created(file)
  BY <1>2, CreateCreates DEF ima_mkdir, mkdir, IsUnusedForDir, grd_mkdir, MkdirPerms
<1>3. ASSUME NEW contentHash, NEW metaHash, NEW target,
             ima_symlink(proc, target, parent, file, name, contentHash, metaHash)
      PROVE  Created(file)
  BY <1>3, CreateCreates DEF ima_symlink, symlink, IsUnused
<1>4. ASSUME NEW newParent, NEW newName,
             link(proc, parent, newParent, file, name, newName), UNCHANGED imaVars
      PROVE  /\ FileParents \subseteq FileParents'
             /\ UNCHANGED <<Files, ownerVars, DACPermissions, imaVars>>
  BY <1>4 DEF link, grd_link
<1>5. CASE ima_unlink(proc, parent, file, name)
  <2>1. Unlinked(parent, file, name) \in SUBSET {file}
    BY DEF Unlinked
  <2> QED BY <1>1, <1>5, <2>1, ForgetRemoves DEF ima_unlink, unlink
<1>6. CASE ima_rmdir(proc, parent, file, name)
  BY <1>1, <1>6, ForgetRemoves DEF ima_rmdir, rmdir
<1> QED BY <1>1, <1>2, <1>3, <1>4, <1>5, <1>6 DEF IMATreeCall

\* The metadata hash of f follows its owner, mode and content.
MetaFollows(f) ==
    /\ <<FileUser'[f], FileGroup'[f]>> # <<FileUser[f], FileGroup[f]>>
         => MetaHash'[f] # MetaHash[f]
    /\ MetaHash'[f] # MetaHash[f]
         => <<FileUser'[f], FileGroup'[f], DACPermissions'[f], ContentHash'[f]>>
              # <<FileUser[f], FileGroup[f], DACPermissions[f], ContentHash[f]>>

\* A step changes mode, owner or an extended attribute of file only.
Changed(file) ==
    /\ \A f \in Files \ {file} : Kept(f)
    /\ MetaFollows(file)
    /\ UNCHANGED <<treeVars, ContentHash, storedHashes, modeVars, ImmutableFiles>>
    /\ file \notin ImmutableFiles \/ FileXattrs' = FileXattrs

LEMMA KeptFollows ==
    ASSUME NEW f, Kept(f) PROVE MetaFollows(f)
BY DEF Kept, MetaFollows

LEMMA ModeChanged ==
    ASSUME TypeOK, IMATypeOK, NEW proc, NEW file \in Files, NEW mode, NEW metaHash,
           SetMode(proc, file, mode), SetMetaHash(file, SameMode(proc, file, mode), metaHash)
    PROVE  Changed(file)
<1>1. UNCHANGED <<treeVars, ownerVars, ContentHash, storedHashes, modeVars, ImmutableFiles>>
  BY DEF SetMode, SetMetaHash
<1>2. \A f \in Files \ {file} : Kept(f)
  BY <1>1 DEF Kept, SetMode, SetMetaHash, With, TypeOK, AttributesOK, IMATypeOK, ownerVars
<1>3. DACPermissions'[file] = KeptMode(proc, file, mode) /\ MetaHash'[file] = metaHash
  BY DEF SetMode, SetMetaHash, With
<1>4. MetaFollows(file)
  BY <1>1, <1>3 DEF MetaFollows, SetMetaHash, SameMode, ownerVars
<1> QED BY <1>1, <1>2, <1>4 DEF Changed, ownerVars

LEMMA OwnerChanged ==
    ASSUME TypeOK, IMATypeOK, NEW proc, NEW file \in Files, NEW owner, NEW group,
           NEW metaHash, SetOwner(proc, file, owner, group),
           SetMetaHash(file, SameOwner(file, owner, group), metaHash)
    PROVE  Changed(file)
<1>1. UNCHANGED <<treeVars, FileXattrs, ContentHash, storedHashes, modeVars, ImmutableFiles>>
  BY DEF SetOwner, SetMetaHash, MayChown
<1>2. \A f \in Files \ {file} : Kept(f)
  BY <1>1 DEF Kept, SetOwner, SetMetaHash, With, TypeOK, AttributesOK, IMATypeOK, MayChown
<1>3. FileUser'[file] = owner /\ FileGroup'[file] = group /\ MetaHash'[file] = metaHash
  BY DEF SetOwner, SetMetaHash, With, MayChown
<1>4. MetaFollows(file)
  BY <1>1, <1>3 DEF MetaFollows, SetMetaHash, SameOwner
<1> QED BY <1>1, <1>2, <1>4 DEF Changed

LEMMA AttributeCases ==
    ASSUME TypeOK, IMATypeOK, NEW proc, NEW parent, NEW file, NEW name,
           IMAAttributeCall(proc, parent, file, name)
    PROVE  /\ NoneOpened
           /\ \/ UNCHANGED <<fileVars, imaVars>>
              \/ file \notin ImmutableFiles /\ Changed(file)
<1>1. NoneOpened
  BY AttributeSimulation, AttributeFrame DEF NoneOpened, fdVars
<1>2. ASSUME <<file, parent, name>> \in FileParents PROVE file \in Files
  BY <1>2 DEF TypeOK, TreeOK
<1>3. ASSUME NEW mode, NEW metaHash,
             \/ ima_chmod(proc, parent, file, name, mode, metaHash)
             \/ \E dirfd, cwd :
                   ima_fchmodat(proc, dirfd, cwd, parent, file, name, mode, metaHash)
      PROVE  file \notin ImmutableFiles /\ Changed(file)
  BY <1>2, <1>3, ModeChanged DEF ima_chmod, ima_fchmodat, chmod, fchmodat, grd_path
<1>4. ASSUME NEW owner, NEW group, NEW metaHash,
             \/ ima_chown(proc, parent, file, name, owner, group, metaHash)
             \/ \E dirfd, cwd :
                   ima_fchownat(proc, dirfd, cwd, parent, file, name, owner, group, metaHash)
      PROVE  file \notin ImmutableFiles /\ Changed(file)
  BY <1>2, <1>4, OwnerChanged DEF ima_chown, ima_fchownat, chown, fchownat, grd_path
<1>5. ASSUME NEW attr, NEW value, NEW flags,
             ima_setxattr(proc, parent, file, name, attr, value, flags)
      PROVE  file \notin ImmutableFiles /\ Changed(file)
  <2>1. /\ file \notin ImmutableFiles
        /\ UNCHANGED <<treeVars, FileUser, FileGroup, DACPermissions, ContentHash, MetaHash,
                       storedHashes, modeVars, ImmutableFiles>>
    BY <1>5 DEF ima_setxattr, setxattr, imaVars, realHashes, grd_setxattr, grd_path
  <2>2. \A f \in Files \ {file} : FileXattrs'[f] = FileXattrs[f]
    BY <1>5 DEF ima_setxattr, setxattr, With, TypeOK, AttributesOK, grd_setxattr, grd_path
  <2> QED BY <2>1, <2>2 DEF Changed, Kept, MetaFollows
<1>6. ASSUME NEW attr, NEW value, NEW size,
             getxattr(proc, parent, file, name, attr, value, size), UNCHANGED imaVars
      PROVE  UNCHANGED <<fileVars, imaVars>>
  BY <1>6 DEF getxattr, vars
<1> QED BY <1>1, <1>3, <1>4, <1>5, <1>6 DEF IMAAttributeCall

\* A close: the hashes of the file it closed, and nothing else of any file.
Closed(fd) ==
    /\ \A f \in Files \ {FDFile[fd]} : Kept(f)
    /\ FDFile[fd] \in Files => MetaFollows(FDFile[fd])
    /\ FDFile[fd] \in Files /\ "O_RDONLY" \in FDFlags[fd] =>
         ContentHash'[FDFile[fd]] = ContentHash[FDFile[fd]]
    /\ UNCHANGED <<fileVars, ImmutableFiles>>

LEMMA CloseCase ==
    ASSUME TypeOK, IMATypeOK, NEW proc, NEW fd, NEW imaHash, NEW evmHash, NEW contentHash,
           NEW metaHash, ima_close(proc, fd, imaHash, evmHash, contentHash, metaHash)
    PROVE  Closed(fd) /\ NoneOpened
<1>1. NoneOpened
  BY ForgetOpensNone DEF ima_close, close, grd_close
<1>2. UNCHANGED <<fileVars, ImmutableFiles>>
  BY DEF ima_close, close, grd_close
<1>3. \A f \in Files \ {FDFile[fd]} : /\ ContentHash'[f] = ContentHash[f]
                                     /\ MetaHash'[f] = MetaHash[f]
  BY DEF ima_close, With, IMATypeOK
<1>4. \A f \in Files \ {FDFile[fd]} : Kept(f)
  BY <1>2, <1>3 DEF Kept, fileVars, ownerVars
<1>5. ASSUME FDFile[fd] \in Files
      PROVE  /\ MetaFollows(FDFile[fd])
             /\ "O_RDONLY" \in FDFlags[fd] =>
                  ContentHash'[FDFile[fd]] = ContentHash[FDFile[fd]]
  <2>1. /\ ContentHash'[FDFile[fd]] = contentHash /\ MetaHash'[FDFile[fd]] = metaHash
        /\ MetaHash[FDFile[fd]] = metaHash
             <=> ContentHash[FDFile[fd]] = contentHash \/ IMAMode # "FIX"
        /\ "O_RDONLY" \in FDFlags[fd] => ContentHash[FDFile[fd]] = contentHash
    BY <1>5 DEF ima_close, With
  <2> QED BY <1>2, <2>1 DEF MetaFollows, fileVars, ownerVars
<1> QED BY <1>1, <1>2, <1>4, <1>5 DEF Closed

LEMMA DescriptorCases ==
    ASSUME TypeOK, IMATypeOK, NEW proc, NEW fd, IMADescriptorCall(proc, fd)
    PROVE  /\ NoneOpened
           /\ \/ UNCHANGED <<fileVars, imaVars>>
              \/ Closed(fd)
              \/ Changed(FDFile[fd]) /\ FileXattrs' = FileXattrs
<1>1. ASSUME UNCHANGED fdVars PROVE NoneOpened
  BY <1>1 DEF NoneOpened, fdVars
<1>2. ASSUME NEW mode, NEW metaHash, ima_fchmod(proc, fd, mode, metaHash)
      PROVE  NoneOpened /\ Changed(FDFile[fd]) /\ FileXattrs' = FileXattrs
  BY <1>1, <1>2, ModeChanged DEF ima_fchmod, fchmod, SetMode, ownerVars, grd_fd
<1>3. ASSUME NEW owner, NEW group, NEW metaHash, ima_fchown(proc, fd, owner, group, metaHash)
      PROVE  NoneOpened /\ Changed(FDFile[fd]) /\ FileXattrs' = FileXattrs
  BY <1>1, <1>3, OwnerChanged DEF ima_fchown, fchown, SetOwner, grd_fd, MayChown
<1>4. ASSUME fchdir(proc, fd) \/ getdents(proc, fd), UNCHANGED imaVars
      PROVE  NoneOpened /\ UNCHANGED <<fileVars, imaVars>>
  BY <1>1, <1>4 DEF fchdir, getdents, vars
<1> QED BY <1>2, <1>3, <1>4, CloseCase DEF IMADescriptorCall

LEMMA ProcessCases ==
    ASSUME TypeOK, NEW proc, IMAProcessCall(proc)
    PROVE  NoneOpened /\ UNCHANGED <<fileVars, imaVars>>
<1>1. ASSUME UNCHANGED <<FDs, FDFile, FDFlags>> PROVE NoneOpened
  BY <1>1 DEF NoneOpened
<1>2. UNCHANGED fileVars
  BY ProcessSimulation, ProcessFrame
<1>3. ASSUME NEW fds, exit(proc, fds) PROVE NoneOpened
  BY <1>3, ForgetOpensNone DEF exit
<1>4. ASSUME NEW parent, NEW exeFile, NEW name, NEW fds,
             ima_execve(proc, parent, exeFile, name, fds)
      PROVE  NoneOpened /\ UNCHANGED imaVars
  BY <1>4, ForgetOpensNone DEF ima_execve, execve
<1> QED BY <1>1, <1>2, <1>3, <1>4 DEF IMAProcessCall, chdir, umask, fork, fdVars

-----------------------------------------------------------------------------
(* ENFORCE mode.  The close of a descriptor that does not write keeps the  *)
(* content, but the machine says so of O_RDONLY: that the two are the same *)
(* needs the invariant that each descriptor has one access mode.           *)

OneAccessMode == \A d \in FDs : HasOneAccessMode(FDFlags[d])

EnforceStep ==
    IMAMode = "ENFORCE" =>
       \A f \in DOMAIN IMAHash \cap Files' :
          NotWritten(f) => NotWritten(f)' /\ ContentHash'[f] = ContentHash[f]

LEMMA NotWrittenKept ==
    ASSUME NoneOpened, NEW f, NotWritten(f) PROVE NotWritten(f)'
BY DEF NoneOpened, NotWritten

LEMMA EnforceKept ==
    ASSUME IMATypeOK, NoneOpened, \A f \in Files \cap Files' : ContentHash'[f] = ContentHash[f]
    PROVE  EnforceStep
<1>1. DOMAIN IMAHash \subseteq Files
  BY DEF IMATypeOK, IsPartial
<1> QED BY <1>1, NotWrittenKept DEF EnforceStep

LEMMA EnforceOpen ==
    ASSUME TypeOK, IMATypeOK, NEW proc, NEW parent, NEW file, NEW name,
           IMAOpenCall(proc, parent, file, name)
    PROVE  EnforceStep
<1> SUFFICES ASSUME IMAMode = "ENFORCE", NEW f \in DOMAIN IMAHash \cap Files', NotWritten(f)
             PROVE  NotWritten(f)' /\ ContentHash'[f] = ContentHash[f]
  BY DEF EnforceStep
<1>1. f \in Files
  BY DEF IMATypeOK, IsPartial
<1>2. PICK fd, flags : /\ Opened(fd, file, flags)
                       /\ \/ OpenAllowed(parent, file, flags) /\ UNCHANGED <<fileVars, imaVars>>
                          \/ Created(file)
  BY OpenCases
<1>3. file = f => ~WritesFile(flags)
  BY <1>1, <1>2 DEF OpenAllowed, Created
<1>4. NotWritten(f)'
  BY <1>2, <1>3 DEF NotWritten, Opened
<1>5. ContentHash'[f] = ContentHash[f]
  BY <1>1, <1>2 DEF Created, Kept, imaVars, realHashes
<1> QED BY <1>4, <1>5

LEMMA EnforceDescriptor ==
    ASSUME TypeOK, IMATypeOK, OneAccessMode, NEW proc, NEW fd \in FDs,
           IMADescriptorCall(proc, fd)
    PROVE  EnforceStep
<1> SUFFICES ASSUME NEW f \in DOMAIN IMAHash \cap Files', NotWritten(f)
             PROVE  NotWritten(f)' /\ ContentHash'[f] = ContentHash[f]
  BY DEF EnforceStep
<1>1. f \in Files
  BY DEF IMATypeOK, IsPartial
<1>2. NotWritten(f)'
  BY DescriptorCases, NotWrittenKept
<1>3. CASE Closed(fd)
  <2>1. FDFile[fd] = f => "O_RDONLY" \in FDFlags[fd]
    BY DEF NotWritten, OneAccessMode, HasOneAccessMode, AccessModes, WritesFile
  <2> QED BY <1>1, <1>2, <1>3, <2>1 DEF Closed, Kept
<1>4. CASE UNCHANGED <<fileVars, imaVars>> \/ Changed(FDFile[fd])
  BY <1>2, <1>4 DEF Changed, imaVars, realHashes
<1> QED BY <1>3, <1>4, DescriptorCases

LEMMA EnforceNext ==
    ASSUME TypeOK, IMATypeOK, OneAccessMode, [IMANext]_<<vars, imaVars>>
    PROVE  EnforceStep
<1>1. ASSUME UNCHANGED <<fdVars, realHashes>> PROVE EnforceStep
  BY <1>1, EnforceKept DEF NoneOpened, fdVars, realHashes
<1>2. ASSUME NEW proc, NEW parent, NEW file, NEW name, IMATreeCall(proc, parent, file, name)
      PROVE  EnforceStep
  <2>1. \A f \in Files \cap Files' : ContentHash'[f] = ContentHash[f]
    BY <1>2, TreeCases DEF Created, Removed, Kept, imaVars, realHashes
  <2> QED BY <1>2, <2>1, TreeCases, EnforceKept
<1>3. ASSUME NEW proc, NEW parent, NEW file, NEW name,
             IMAAttributeCall(proc, parent, file, name)
      PROVE  EnforceStep
  <2>1. ContentHash' = ContentHash
    BY <1>3, AttributeCases DEF Changed, imaVars, realHashes
  <2> QED BY <1>3, <2>1, AttributeCases, EnforceKept
<1>4. ASSUME NEW proc, IMAProcessCall(proc) PROVE EnforceStep
  BY <1>4, ProcessCases, EnforceKept DEF imaVars, realHashes
<1>5. CASE SetupCall /\ UNCHANGED imaVars
  BY <1>1, <1>5, SetupFrame DEF imaVars
<1>6. CASE IntegrityCall
  <2>1. UNCHANGED realHashes
    BY <1>6 DEF IntegrityCall, switch_ima_mode, switch_evm_mode, mark_immutable,
                unmark_immutable, force_set_ima_evm_hash
  <2> QED BY <1>1, <1>6, <2>1, IntegrityFrame DEF vars
<1>7. CASE UNCHANGED <<vars, imaVars>>
  BY <1>1, <1>7 DEF vars, imaVars
<1> QED BY <1>2, <1>3, <1>4, <1>5, <1>6, <1>7, EnforceOpen, EnforceDescriptor
        DEF IMANext, IMAProcCall

LEMMA OneAccessModeStep ==
    ASSUME TypeOK, IMATypeOK, OneAccessMode, [IMANext]_<<vars, imaVars>>
    PROVE  OneAccessMode'
<1>1. ASSUME NoneOpened PROVE OneAccessMode'
  BY <1>1 DEF NoneOpened, OneAccessMode, HasOneAccessMode
<1>2. ASSUME UNCHANGED fdVars PROVE OneAccessMode'
  BY <1>1, <1>2 DEF NoneOpened, fdVars
<1>3. ASSUME NEW proc, NEW parent, NEW file, NEW name, IMAOpenCall(proc, parent, file, name)
      PROVE  OneAccessMode'
  <2>1. PICK fd, flags : Opened(fd, file, flags)
    BY <1>3, OpenCases
  <2> QED BY <2>1 DEF Opened, OneAccessMode, HasOneAccessMode
<1>4. CASE SetupCall \/ IntegrityCall \/ UNCHANGED <<vars, imaVars>>
  BY <1>2, <1>4, SetupFrame, IntegrityFrame DEF vars
<1> QED BY <1>1, <1>3, <1>4, TreeCases, AttributeCases, DescriptorCases, ProcessCases
        DEF IMANext, IMAProcCall

\* In ENFORCE mode the content of a measured file that nobody has open for
\* writing stays as appraisal found it, and nobody gets to write to it: the
\* guards of the four opens and of close are enough, with descriptors that
\* fork shares and inodes that are reused.
THEOREM EnforceHolds == IMASpec => EnforceFreezes
<1>1. IMAInit => OneAccessMode
  BY DEF IMAInit, Init, OneAccessMode
<1>2. IMASpec => []TypeOK
  BY ImplementsDAC, TypeCorrect, PTL
<1>3. TypeOK /\ IMATypeOK /\ OneAccessMode /\ [IMANext]_<<vars, imaVars>> => OneAccessMode'
  BY OneAccessModeStep
<1>4. TypeOK /\ IMATypeOK /\ OneAccessMode /\ [IMANext]_<<vars, imaVars>>
        => [EnforceStep]_<<vars, imaVars>>
  BY EnforceNext
<1>5. [EnforceStep]_<<vars, imaVars>> <=>
        [IMAMode = "ENFORCE" =>
           \A f \in DOMAIN IMAHash \cap Files' :
              NotWritten(f) => NotWritten(f)' /\ ContentHash'[f] = ContentHash[f]
        ]_<<vars, imaVars>>
  BY DEF EnforceStep
<1> QED BY <1>1, <1>2, <1>3, <1>4, <1>5, IMATypeCorrect, PTL DEF IMASpec, EnforceFreezes

-----------------------------------------------------------------------------
(* Immutable files.                                                        *)

ImmutableStep ==
    \A f \in ImmutableFiles :
       /\ f \in Files'
       /\ \A e \in FileParents : f \in {e[1], e[2]} => e \in FileParents'
       /\ FileXattrs'[f] = FileXattrs[f]
       /\ "ENFORCE" \in {IMAMode, EVMMode} => f \in ImmutableFiles'

LEMMA ImmutableFrame ==
    ASSUME IMATypeOK, Files \subseteq Files', FileParents \subseteq FileParents',
           ImmutableFiles \subseteq ImmutableFiles',
           \A f \in ImmutableFiles : FileXattrs'[f] = FileXattrs[f]
    PROVE  ImmutableStep
BY DEF ImmutableStep, IMATypeOK

LEMMA ImmutableNext ==
    ASSUME TypeOK, IMATypeOK, [IMANext]_<<vars, imaVars>>
    PROVE  ImmutableStep
<1>1. ASSUME UNCHANGED <<treeVars, ownerVars, ImmutableFiles>> PROVE ImmutableStep
  BY <1>1, ImmutableFrame DEF treeVars, ownerVars
<1>2. ASSUME NEW file, Created(file) PROVE ImmutableStep
  <2>1. ImmutableFiles \subseteq Files
    BY DEF IMATypeOK
  <2> QED BY <1>2, <2>1, ImmutableFrame DEF Created, Kept
<1>3. ASSUME NEW parent, NEW file, NEW name, Removed(parent, file, name) PROVE ImmutableStep
  <2>1. ImmutableFiles \subseteq Files'
    BY <1>3 DEF Removed, IMATypeOK
  <2>2. ASSUME NEW e \in FileParents, NEW f \in ImmutableFiles, f \in {e[1], e[2]}
        PROVE  e \in FileParents'
    BY <1>3, <2>2 DEF Removed
  <2> QED BY <1>3, <2>1, <2>2 DEF ImmutableStep, Removed, Kept
<1>4. ASSUME NEW proc, NEW parent, NEW file, NEW name, IMAOpenCall(proc, parent, file, name)
      PROVE  ImmutableStep
  BY <1>1, <1>2, <1>4, OpenCases DEF fileVars, imaVars
<1>5. ASSUME NEW proc, NEW parent, NEW file, NEW name, IMATreeCall(proc, parent, file, name)
      PROVE  ImmutableStep
  <2>1. ASSUME FileParents \subseteq FileParents',
               UNCHANGED <<Files, ownerVars, DACPermissions, imaVars>>
        PROVE  ImmutableStep
    BY <2>1, ImmutableFrame DEF ownerVars, imaVars
  <2> QED BY <1>2, <1>3, <1>5, <2>1, TreeCases
<1>6. ASSUME NEW file, Changed(file) PROVE ImmutableStep
  <2>1. ImmutableFiles \subseteq Files
    BY DEF IMATypeOK
  <2> QED BY <1>6, <2>1, ImmutableFrame DEF Changed, Kept, treeVars
<1>7. ASSUME NEW proc, NEW parent, NEW file, NEW name,
             IMAAttributeCall(proc, parent, file, name)
      PROVE  ImmutableStep
  BY <1>1, <1>6, <1>7, AttributeCases DEF fileVars, imaVars
<1>8. ASSUME NEW proc, NEW fd, IMADescriptorCall(proc, fd) PROVE ImmutableStep
  BY <1>1, <1>6, <1>8, DescriptorCases DEF Closed, fileVars, imaVars
<1>9. ASSUME NEW proc, IMAProcessCall(proc) PROVE ImmutableStep
  BY <1>1, <1>9, ProcessCases DEF fileVars, imaVars
<1>10. CASE SetupCall /\ UNCHANGED imaVars
  BY <1>1, <1>10, SetupFrame DEF imaVars
<1>11. CASE IntegrityCall
  <2>1. UNCHANGED <<treeVars, ownerVars>>
    BY <1>11, IntegrityFrame DEF vars, fileVars
  <2>2. ASSUME NEW file, unmark_immutable(file) PROVE ImmutableStep
    BY <2>1, <2>2 DEF unmark_immutable, ImmutableStep, IMATypeOK, treeVars, ownerVars
  <2>3. ASSUME NEW file, mark_immutable(file) PROVE ImmutableStep
    BY <2>1, <2>3, ImmutableFrame DEF mark_immutable, treeVars, ownerVars
  <2> QED BY <1>1, <1>11, <2>1, <2>2, <2>3
          DEF IntegrityCall, switch_ima_mode, switch_evm_mode, force_set_ima_evm_hash
<1>12. CASE UNCHANGED <<vars, imaVars>>
  BY <1>1, <1>12 DEF vars, fileVars, imaVars
<1> QED BY <1>4, <1>5, <1>7, <1>8, <1>9, <1>10, <1>11, <1>12 DEF IMANext, IMAProcCall

\* An immutable file keeps its names, its entries and its extended attributes,
\* and is immutable as long as one of the subsystems enforces: none of the
\* calls that remove, link or change files gets around the flag.
THEOREM ImmutableFilesKept == IMASpec => ImmutableHolds
<1>1. IMASpec => []TypeOK
  BY ImplementsDAC, TypeCorrect, PTL
<1>2. TypeOK /\ IMATypeOK /\ [IMANext]_<<vars, imaVars>> => [ImmutableStep]_<<vars, imaVars>>
  BY ImmutableNext
<1>3. [ImmutableStep]_<<vars, imaVars>> <=>
        [\A f \in ImmutableFiles :
           /\ f \in Files'
           /\ \A e \in FileParents : f \in {e[1], e[2]} => e \in FileParents'
           /\ FileXattrs'[f] = FileXattrs[f]
           /\ "ENFORCE" \in {IMAMode, EVMMode} => f \in ImmutableFiles'
        ]_<<vars, imaVars>>
  BY DEF ImmutableStep
<1> QED BY <1>1, <1>2, <1>3, IMATypeCorrect, PTL DEF IMASpec, ImmutableHolds

-----------------------------------------------------------------------------
(* The hash of the metadata.                                               *)

MetaStep == \A f \in Files \cap Files' : MetaFollows(f)

LEMMA MetaNext ==
    ASSUME TypeOK, IMATypeOK, [IMANext]_<<vars, imaVars>>
    PROVE  MetaStep
<1>1. ASSUME \A f \in Files \cap Files' : Kept(f) PROVE MetaStep
  BY <1>1, KeptFollows DEF MetaStep
<1>2. ASSUME UNCHANGED <<ownerVars, DACPermissions, realHashes>> PROVE MetaStep
  BY <1>1, <1>2, KeptFrame
<1>3. ASSUME UNCHANGED <<ownerVars, MetaHash>> PROVE MetaStep
  BY <1>3 DEF MetaStep, MetaFollows, ownerVars
<1>4. ASSUME NEW proc, NEW parent, NEW file, NEW name, IMAOpenCall(proc, parent, file, name)
      PROVE  MetaStep
  BY <1>1, <1>2, <1>4, OpenCases DEF Created, fileVars, imaVars
<1>5. ASSUME NEW proc, NEW parent, NEW file, NEW name, IMATreeCall(proc, parent, file, name)
      PROVE  MetaStep
  BY <1>1, <1>2, <1>5, TreeCases DEF Created, Removed, imaVars
<1>6. ASSUME NEW file, Changed(file) PROVE MetaStep
  BY <1>6, KeptFollows DEF MetaStep, Changed
<1>7. ASSUME NEW proc, NEW parent, NEW file, NEW name,
             IMAAttributeCall(proc, parent, file, name)
      PROVE  MetaStep
  BY <1>2, <1>6, <1>7, AttributeCases DEF fileVars, imaVars
<1>8. ASSUME NEW proc, NEW fd, IMADescriptorCall(proc, fd) PROVE MetaStep
  <2>1. CASE Closed(fd)
    BY <2>1, KeptFollows DEF MetaStep, Closed
  <2> QED BY <1>2, <1>6, <1>8, <2>1, DescriptorCases DEF fileVars, imaVars
<1>9. ASSUME NEW proc, IMAProcessCall(proc) PROVE MetaStep
  BY <1>2, <1>9, ProcessCases DEF fileVars, imaVars
<1>10. CASE SetupCall /\ UNCHANGED imaVars
  BY <1>3, <1>10, SetupFrame DEF imaVars, realHashes
<1>11. CASE IntegrityCall
  <2>1. UNCHANGED <<ownerVars, MetaHash>>
    BY <1>11, IntegrityFrame
       DEF IntegrityCall, switch_ima_mode, switch_evm_mode, mark_immutable,
           unmark_immutable, force_set_ima_evm_hash, vars, fileVars, realHashes
  <2> QED BY <1>3, <2>1
<1>12. CASE UNCHANGED <<vars, imaVars>>
  BY <1>2, <1>12 DEF vars, fileVars, imaVars
<1> QED BY <1>4, <1>5, <1>7, <1>8, <1>9, <1>10, <1>11, <1>12 DEF IMANext, IMAProcCall

\* The hash of the metadata changes with every change of owner, so that the
\* hash EVM stored no longer vouches for the file, and only with a change of
\* owner, mode or content, by whichever call.
THEOREM MetaHashSound == IMASpec => MetaHashFollows
<1>1. IMASpec => []TypeOK
  BY ImplementsDAC, TypeCorrect, PTL
<1>2. TypeOK /\ IMATypeOK /\ [IMANext]_<<vars, imaVars>> => [MetaStep]_<<vars, imaVars>>
  BY MetaNext
<1>3. [MetaStep]_<<vars, imaVars>> <=>
        [\A f \in Files \cap Files' :
           /\ <<FileUser'[f], FileGroup'[f]>> # <<FileUser[f], FileGroup[f]>>
                => MetaHash'[f] # MetaHash[f]
           /\ MetaHash'[f] # MetaHash[f]
                => <<FileUser'[f], FileGroup'[f], DACPermissions'[f], ContentHash'[f]>>
                     # <<FileUser[f], FileGroup[f], DACPermissions[f], ContentHash[f]>>
        ]_<<vars, imaVars>>
  BY DEF MetaStep, MetaFollows
<1> QED BY <1>1, <1>2, <1>3, IMATypeCorrect, PTL DEF IMASpec, MetaHashFollows
=============================================================================
