-------------------------------- MODULE IMA --------------------------------
(***************************************************************************)
(* The Event-B machine IMA (src/src/IMA.bm), which extends DAC by the      *)
(* integrity subsystems IMA and EVM: every file has the hash of its        *)
(* content and of its metadata, and may have a stored hash of each         *)
(* (security.ima, security.evm).  An event that extends one of DAC is the  *)
(* action of DAC with the guards and updates IMA adds, under the event's   *)
(* name with the prefix ima_.                                              *)
(***************************************************************************)
EXTENDS DAC

CONSTANTS HASHES, IMA_STRING, EVM_STRING,
          ROOT_CONTENT_HASH, ROOT_META_HASH,
          INIT_EXE_CONTENT_HASH, INIT_EXE_META_HASH

INTEGRITY_MODES == {"ENFORCE", "FIX", "OFF"}

ASSUME IntegrityContext ==
    /\ IMA_STRING \in STRINGS
    /\ EVM_STRING \in STRINGS
    /\ ROOT_CONTENT_HASH \in HASHES
    /\ ROOT_META_HASH \in HASHES
    /\ INIT_EXE_CONTENT_HASH \in HASHES
    /\ INIT_EXE_META_HASH \in HASHES

VARIABLES ContentHash, MetaHash, ImmutableFiles, IMAHash, EVMHash,
          IMAMode, EVMMode

realHashes   == <<ContentHash, MetaHash>>
storedHashes == <<IMAHash, EVMHash>>
modeVars     == <<IMAMode, EVMMode>>
imaVars      == <<realHashes, storedHashes, modeVars, ImmutableFiles>>

IMAInit ==
    /\ Init
    /\ ContentHash = [f \in {ROOT, INIT_EXE} |->
                        IF f = ROOT THEN ROOT_CONTENT_HASH ELSE INIT_EXE_CONTENT_HASH]
    /\ MetaHash = [f \in {ROOT, INIT_EXE} |->
                     IF f = ROOT THEN ROOT_META_HASH ELSE INIT_EXE_META_HASH]
    /\ ImmutableFiles = {}
    /\ IMAHash = [f \in {} |-> ROOT_CONTENT_HASH]
    /\ EVMHash = [f \in {} |-> ROOT_META_HASH]
    /\ IMAMode = "OFF"
    /\ EVMMode = "OFF"

-----------------------------------------------------------------------------
(* What several events add.                                                *)

\* The stored hashes vouch for the file; EVM is asked only with IMA.
Appraised(file) ==
    /\ IMAMode = "ENFORCE" /\ EVMMode = "ENFORCE"
         => file \in DOMAIN EVMHash /\ EVMHash[file] = MetaHash[file]
    /\ IMAMode = "ENFORCE"
         => file \in DOMAIN IMAHash /\ IMAHash[file] = ContentHash[file]

\* Seeded slip: the mode is not looked at.
OpenAllowed_IgnoresMode(parent, file, flags) ==
    /\ Appraised(file)
    /\ file \in ImmutableFiles => ~WritesFile(flags)
    /\ parent \notin ImmutableFiles

OpenAllowed(parent, file, flags) ==
    /\ Appraised(file)
    /\ file \in ImmutableFiles => ~WritesFile(flags)
    /\ IMAMode = "ENFORCE" => ~WritesFile(flags)
    /\ parent \notin ImmutableFiles

CreateHashed(parent, file, contentHash, metaHash) ==
    /\ contentHash \in HASHES
    /\ metaHash \in HASHES
    /\ parent \notin ImmutableFiles
    /\ ContentHash' = With(ContentHash, file, contentHash)
    /\ MetaHash' = With(MetaHash, file, metaHash)
    /\ UNCHANGED <<storedHashes, modeVars, ImmutableFiles>>

\* Seeded slip: the reported hash is taken whatever changed.
SetMetaHash_Any(file, same, metaHash) ==
    /\ metaHash \in HASHES
    /\ MetaHash' = With(MetaHash, file, metaHash)
    /\ UNCHANGED <<ContentHash, storedHashes, modeVars, ImmutableFiles>>

\* The hash of the metadata is the same exactly when the metadata are.
SetMetaHash(file, same, metaHash) ==
    /\ metaHash \in HASHES
    /\ same <=> MetaHash[file] = metaHash
    /\ MetaHash' = With(MetaHash, file, metaHash)
    /\ UNCHANGED <<ContentHash, storedHashes, modeVars, ImmutableFiles>>

\* Seeded slips: the stored hashes stay behind; the flag is not looked at.
ForgetHashes_KeepsStored(parent, file, gone) ==
    /\ file \notin ImmutableFiles
    /\ parent \notin ImmutableFiles
    /\ ContentHash' = Without(ContentHash, gone)
    /\ MetaHash' = Without(MetaHash, gone)
    /\ ImmutableFiles' = ImmutableFiles \ gone
    /\ UNCHANGED <<storedHashes, modeVars>>
ForgetHashes_IgnoresParent(parent, file, gone) ==
    /\ file \notin ImmutableFiles
    /\ ContentHash' = Without(ContentHash, gone)
    /\ MetaHash' = Without(MetaHash, gone)
    /\ IMAHash' = Without(IMAHash, gone)
    /\ EVMHash' = Without(EVMHash, gone)
    /\ ImmutableFiles' = ImmutableFiles \ gone
    /\ UNCHANGED modeVars

ForgetHashes(parent, file, gone) ==
    /\ file \notin ImmutableFiles
    /\ parent \notin ImmutableFiles
    /\ ContentHash' = Without(ContentHash, gone)
    /\ MetaHash' = Without(MetaHash, gone)
    /\ IMAHash' = Without(IMAHash, gone)
    /\ EVMHash' = Without(EVMHash, gone)
    /\ ImmutableFiles' = ImmutableFiles \ gone
    /\ UNCHANGED modeVars

-----------------------------------------------------------------------------
(* The events IMA extends.  Those it leaves as they are (chdir, fchdir,    *)
(* getdents, getxattr, link, umask, exit, fork, create_user, create_group, *)
(* login, set_acl, change_capabilities) appear in the next-state relation  *)
(* with imaVars unchanged.                                                 *)

ima_open_create(proc, parent, file, name, flags, mode, fd, fdNumber, hash, meta) ==
    /\ open_create(proc, parent, file, name, flags, mode, fd, fdNumber)
    /\ CreateHashed(parent, file, hash, meta)

ima_openat_create(proc, dirfd, cwd, parent, file, name, flags, mode, fd, fdNumber, hash, meta) ==
    /\ openat_create(proc, dirfd, cwd, parent, file, name, flags, mode, fd, fdNumber)
    /\ CreateHashed(parent, file, hash, meta)

ima_open_exists(proc, parent, file, name, flags, fd, fdNumber) ==
    /\ open_exists(proc, parent, file, name, flags, fd, fdNumber)
    /\ OpenAllowed(parent, file, flags)
    /\ UNCHANGED imaVars

ima_openat_exists(proc, dirfd, cwd, parent, file, name, flags, fd, fdNumber) ==
    /\ openat_exists(proc, dirfd, cwd, parent, file, name, flags, fd, fdNumber)
    /\ OpenAllowed(parent, file, flags)
    /\ UNCHANGED imaVars

ima_mkdir(proc, parent, folder, name, mode, contentHash, metaHash) ==
    /\ mkdir(proc, parent, folder, name, mode)
    /\ CreateHashed(parent, folder, contentHash, metaHash)

ima_symlink(proc, target, parent, file, name, contentHash, metaHash) ==
    /\ symlink(proc, target, parent, file, name)
    /\ CreateHashed(parent, file, contentHash, metaHash)

ima_unlink(proc, parent, file, name) ==
    /\ unlink(proc, parent, file, name)
    /\ ForgetHashes(parent, file, Unlinked(parent, file, name))

ima_rmdir(proc, parent, folder, name) ==
    /\ rmdir(proc, parent, folder, name)
    /\ ForgetHashes(parent, folder, {folder})

SameMode(proc, file, mode) == DACPermissions[file] = KeptMode(proc, file, mode)
SameOwner(file, owner, group) == FileUser[file] = owner /\ FileGroup[file] = group

ima_chmod(proc, parent, file, name, mode, metaHash) ==
    /\ chmod(proc, parent, file, name, mode)
    /\ file \notin ImmutableFiles
    /\ SetMetaHash(file, SameMode(proc, file, mode), metaHash)

ima_fchmodat(proc, dirfd, cwd, parent, file, name, mode, metaHash) ==
    /\ fchmodat(proc, dirfd, cwd, parent, file, name, mode)
    /\ file \notin ImmutableFiles
    /\ SetMetaHash(file, SameMode(proc, file, mode), metaHash)

\* Through a descriptor an immutable file can still be changed.
ima_fchmod(proc, fd, mode, metaHash) ==
    /\ fchmod(proc, fd, mode)
    /\ SetMetaHash(FDFile[fd], SameMode(proc, FDFile[fd], mode), metaHash)

ima_chown(proc, parent, file, name, owner, group, metaHash) ==
    /\ chown(proc, parent, file, name, owner, group)
    /\ file \notin ImmutableFiles
    /\ SetMetaHash(file, SameOwner(file, owner, group), metaHash)

ima_fchownat(proc, dirfd, cwd, parent, file, name, owner, group, metaHash) ==
    /\ fchownat(proc, dirfd, cwd, parent, file, name, owner, group)
    /\ file \notin ImmutableFiles
    /\ SetMetaHash(file, SameOwner(file, owner, group), metaHash)

ima_fchown(proc, fd, owner, group, metaHash) ==
    /\ fchown(proc, fd, owner, group)
    /\ SetMetaHash(FDFile[fd], SameOwner(FDFile[fd], owner, group), metaHash)

ima_setxattr(proc, parent, file, fileName, name, value, flags) ==
    /\ setxattr(proc, parent, file, fileName, name, value, flags)
    /\ name \notin {IMA_STRING, EVM_STRING}
    /\ file \notin ImmutableFiles
    /\ UNCHANGED imaVars

ima_execve(proc, parent, exeFile, name, fds) ==
    /\ execve(proc, parent, exeFile, name, fds)
    /\ Appraised(exeFile)
    /\ UNCHANGED imaVars

\* The hash a close stores: the new one in FIX mode, else the old one.
StoredBy(mode, stored, file, hash, real) ==
    /\ mode = "FIX" => hash = real
    /\ mode # "FIX" /\ file \in DOMAIN stored => hash = stored[file]

ima_close(proc, fd, imaHash, evmHash, contentHash, metaHash) ==
    LET file == FDFile[fd] IN
    /\ close(proc, fd)
    /\ StoredBy(IMAMode, IMAHash, file, imaHash, contentHash)
    /\ StoredBy(EVMMode, EVMHash, file, evmHash, metaHash)
    /\ file \in Files =>
         (MetaHash[file] = metaHash <=> ContentHash[file] = contentHash \/ IMAMode # "FIX")
    /\ "O_RDONLY" \in FDFlags[fd] /\ file \in Files =>
         ContentHash[file] = contentHash /\ MetaHash[file] = metaHash
    /\ EVMHash' = IF EVMMode = "FIX" /\ file \in Files
                  THEN With(EVMHash, file, evmHash) ELSE EVMHash
    /\ IMAHash' = IF IMAMode = "FIX" /\ file \in Files
                  THEN With(IMAHash, file, imaHash) ELSE IMAHash
    /\ ContentHash' = IF file \in Files THEN With(ContentHash, file, contentHash)
                                        ELSE ContentHash
    /\ MetaHash' = IF file \in Files THEN With(MetaHash, file, metaHash) ELSE MetaHash
    /\ UNCHANGED <<modeVars, ImmutableFiles>>

-----------------------------------------------------------------------------
(* The events IMA adds.                                                    *)

switch_ima_mode(mode) ==
    /\ IMAMode' = mode
    /\ UNCHANGED <<vars, realHashes, storedHashes, EVMMode, ImmutableFiles>>

switch_evm_mode(mode) ==
    /\ EVMMode' = mode
    /\ UNCHANGED <<vars, realHashes, storedHashes, IMAMode, ImmutableFiles>>

mark_immutable(file) ==
    /\ file \in Files \ ImmutableFiles
    /\ ImmutableFiles' = ImmutableFiles \cup {file}
    /\ UNCHANGED <<vars, realHashes, storedHashes, modeVars>>

unmark_immutable(file) ==
    /\ file \in ImmutableFiles
    /\ IMAMode # "ENFORCE" /\ EVMMode # "ENFORCE"
    /\ ImmutableFiles' = ImmutableFiles \ {file}
    /\ UNCHANGED <<vars, realHashes, storedHashes, modeVars>>

\* The mediator's only use of any_transition: the machine's own state with
\* the stored hashes of one file replaced.  It is called once a directory has
\* been set up, with the hashes that directory has then.
force_set_ima_evm_hash(file, imaHash, evmHash) ==
    /\ file \in Files
    /\ IMAHash' = With(IMAHash, file, imaHash)
    /\ EVMHash' = With(EVMHash, file, evmHash)
    /\ UNCHANGED <<vars, realHashes, modeVars, ImmutableFiles>>

-----------------------------------------------------------------------------
(* The specification.                                                      *)

IMAOpenCall(proc, parent, file, name) ==
    \E flags \in FLAGS, fd \in FILE_DESCRIPTORS, fdNumber \in FD_NUMBERS :
       \/ ima_open_exists(proc, parent, file, name, flags, fd, fdNumber)
       \/ \E dirfd \in DIRFDS, cwd \in Folders :
             ima_openat_exists(proc, dirfd, cwd, parent, file, name, flags, fd, fdNumber)
       \/ \E mode \in MODES, contentHash \in HASHES, metaHash \in HASHES :
             \/ ima_open_create(proc, parent, file, name, flags, mode, fd, fdNumber,
                                contentHash, metaHash)
             \/ \E dirfd \in DIRFDS, cwd \in Folders :
                   ima_openat_create(proc, dirfd, cwd, parent, file, name, flags, mode,
                                     fd, fdNumber, contentHash, metaHash)

IMATreeCall(proc, parent, file, name) ==
    \/ \E contentHash \in HASHES, metaHash \in HASHES :
          \/ \E mode \in MODES :
                ima_mkdir(proc, parent, file, name, mode, contentHash, metaHash)
          \/ \E target \in TARGETS :
                ima_symlink(proc, target, parent, file, name, contentHash, metaHash)
    \/ \E newParent \in Folders, newName \in STRINGS :
          link(proc, parent, newParent, file, name, newName) /\ UNCHANGED imaVars
    \/ ima_unlink(proc, parent, file, name)
    \/ ima_rmdir(proc, parent, file, name)

IMAAttributeCall(proc, parent, file, name) ==
    \/ \E mode \in MODES, metaHash \in HASHES :
          \/ ima_chmod(proc, parent, file, name, mode, metaHash)
          \/ \E dirfd \in DIRFDS, cwd \in Folders :
                ima_fchmodat(proc, dirfd, cwd, parent, file, name, mode, metaHash)
    \/ \E owner \in Users, group \in Groups, metaHash \in HASHES :
          \/ ima_chown(proc, parent, file, name, owner, group, metaHash)
          \/ \E dirfd \in DIRFDS, cwd \in Folders :
                ima_fchownat(proc, dirfd, cwd, parent, file, name, owner, group, metaHash)
    \/ \E attr \in STRINGS :
          \/ /\ \E value \in DATA, size \in {0, 1} :
                  getxattr(proc, parent, file, name, attr, value, size)
             /\ UNCHANGED imaVars
          \/ \E value \in DATA, flags \in SUBSET XATTR_FLAGS :
                ima_setxattr(proc, parent, file, name, attr, value, flags)

IMADescriptorCall(proc, fd) ==
    \/ (fchdir(proc, fd) \/ getdents(proc, fd)) /\ UNCHANGED imaVars
    \/ \E imaHash, evmHash, contentHash, metaHash \in HASHES :
          ima_close(proc, fd, imaHash, evmHash, contentHash, metaHash)
    \/ \E metaHash \in HASHES :
          \/ \E mode \in MODES : ima_fchmod(proc, fd, mode, metaHash)
          \/ \E owner \in Users, group \in Groups :
                ima_fchown(proc, fd, owner, group, metaHash)

IMAProcessCall(proc) ==
    \/ /\ \/ \E dir \in Folders : chdir(proc, dir)
          \/ \E mask \in UMASKS : umask(proc, mask)
          \/ \E fds \in SUBSET FDs : exit(proc, fds)
          \/ \E newProc \in PROCS : fork(proc, newProc)
       /\ UNCHANGED imaVars
    \/ \E parent \in Folders, exeFile \in Files, name \in STRINGS, fds \in SUBSET FDs :
          ima_execve(proc, parent, exeFile, name, fds)

IntegrityCall ==
    \/ \E mode \in INTEGRITY_MODES : switch_ima_mode(mode) \/ switch_evm_mode(mode)
    \/ \E file \in Files : mark_immutable(file) \/ unmark_immutable(file)
    \/ \E file \in Folders \ {ROOT} :
          force_set_ima_evm_hash(file, ContentHash[file], MetaHash[file])

IMAProcCall(proc) ==
    \/ \E parent \in Folders, file \in FILES, name \in STRINGS :
          \/ IMAOpenCall(proc, parent, file, name)
          \/ IMATreeCall(proc, parent, file, name)
          \/ IMAAttributeCall(proc, parent, file, name)
    \/ \E fd \in FDs : IMADescriptorCall(proc, fd)
    \/ IMAProcessCall(proc)

IMANext == \/ \E proc \in Procs : IMAProcCall(proc)
           \/ SetupCall /\ UNCHANGED imaVars
           \/ IntegrityCall

IMASpec == IMAInit /\ [][IMANext]_<<vars, imaVars>>

-----------------------------------------------------------------------------
(* Properties.                                                             *)

\* The variables IMA adds have their types: in particular every file has its
\* two hashes, and no stored hash or flag outlives its file.
IMATypeOK ==
    /\ ContentHash \in [Files -> HASHES]
    /\ MetaHash \in [Files -> HASHES]
    /\ ImmutableFiles \subseteq Files
    /\ IsPartial(IMAHash, Files, HASHES)
    /\ IsPartial(EVMHash, Files, HASHES)
    /\ IMAMode \in INTEGRITY_MODES
    /\ EVMMode \in INTEGRITY_MODES

\* Nobody has the file open for writing.
NotWritten(f) == \A d \in FDs : FDFile[d] = f => ~WritesFile(FDFlags[d])

\* In ENFORCE mode a measured file that nobody has open for writing stays
\* that way, whatever processes open, fork, chmod, execute or close: its
\* content cannot change, so what appraisal found of it remains true.  Only
\* the descriptors opened before the mode was switched can still write.
EnforceFreezes ==
    [][IMAMode = "ENFORCE" =>
         \A f \in DOMAIN IMAHash \cap Files' :
            NotWritten(f) => NotWritten(f)' /\ ContentHash'[f] = ContentHash[f]
      ]_<<vars, imaVars>>

\* An immutable file is not removed, none of its names and none of the
\* entries in it (of an immutable directory) disappears, its extended
\* attributes stay, and in ENFORCE mode of either subsystem it remains
\* immutable.
ImmutableHolds ==
    [][\A f \in ImmutableFiles :
          /\ f \in Files'
          /\ \A e \in FileParents : f \in {e[1], e[2]} => e \in FileParents'
          /\ FileXattrs'[f] = FileXattrs[f]
          /\ "ENFORCE" \in {IMAMode, EVMMode} => f \in ImmutableFiles'
      ]_<<vars, imaVars>>

\* A change of owner by any of the calls changes the metadata hash, so that
\* EVM's stored hash no longer vouches for the file; and without a change of
\* mode, owner or content a live file keeps the hash.
MetaHashFollows ==
    [][\A f \in Files \cap Files' :
          /\ <<FileUser'[f], FileGroup'[f]>> # <<FileUser[f], FileGroup[f]>>
               => MetaHash'[f] # MetaHash[f]
          /\ MetaHash'[f] # MetaHash[f]
               => <<FileUser'[f], FileGroup'[f], DACPermissions'[f], ContentHash'[f]>>
                    # <<FileUser[f], FileGroup[f], DACPermissions[f], ContentHash[f]>>
      ]_<<vars, imaVars>>
=============================================================================
