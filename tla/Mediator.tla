------------------------------ MODULE Mediator ------------------------------
(***************************************************************************)
(* The mediator: MediatorState (mediator/state.py) and the handlers of     *)
(* TraceTranslator (mediator/translator.py), run in lockstep with the      *)
(* kernel whose calls they replay.  The mediator keeps its own copy of the *)
(* file system, because the records of the monitor name paths and          *)
(* descriptors and the events of the Event-B model name inodes.            *)
(*                                                                         *)
(* Each action is one call of the traced process, with the record the      *)
(* monitor writes for it and the handler that consumes the record; ok is   *)
(* retval >= 0.  A pathname is a base, the root or the working directory,  *)
(* and the names below it.  An exception ends the test, and nothing reads  *)
(* the state after it.  Of an event, the inodes and descriptors it names   *)
(* are kept.                                                               *)
(***************************************************************************)
EXTENDS Kernel

CONSTANTS
    CONTENTS,       \* content hashes a file can have
    REPORTS,        \* does the monitor report a hash: a subset of BOOLEAN
    OWNER_ARGS,     \* the owners chown is called with, KEEP (-1) perhaps
    KEEP,
    AT_FDCWD,       \* the number -100
    MAX_LINKS,      \* bound on st_nlink, which is never decremented
    Unset, NoIno    \* no working directory; no inode

ASSUME MediatorAssumption ==
    /\ REPORTS \subseteq BOOLEAN
    /\ OWNER_ARGS \subseteq OWNERS \cup {KEEP}
    /\ KEEP \notin OWNERS
    /\ AT_FDCWD \notin FD_NUMBERS
    /\ MAX_LINKS \in Nat \ {0}
    /\ Unset \notin PATHS
    /\ NoIno \notin INODES

VARIABLES
    cwd,                \* path of the working directory, or Unset
    path2ino, fd2ino,
    stats,              \* inode |-> [uid, mode, nlink, kind]
    real_hashes,        \* inode |-> [content, meta]
    intergity_hashes,   \* inode |-> [content, meta]
    mode,               \* ima_mode and evm_mode, which are switched together
    phase,              \* of the replay
    raised,             \* the exception that ended the replay, or "none"
    sent,               \* the last event added to the model trace
    actual              \* what the kernel did in the call behind that event

stateVars == <<cwd, path2ino, fd2ino, stats, real_hashes, intergity_hashes, mode>>
vars == <<kernelVars, stateVars, phase, raised, sent, actual>>

NoHash == <<>>

\* A pseudo-hash and an EVM hash tell owners and modes apart; NoHash
\* is b'', nothing known.
calc_fake_meta_hash(uid, perms) == <<"fake", uid, perms>>
is_hash_fake(hash) == hash # NoHash /\ hash[1] = "fake"
MetaHash(reported, uid, perms) == IF reported THEN <<"evm", uid, perms>> ELSE NoHash

FileHash(content, meta) == [content |-> content, meta |-> meta]
get_real_hashes(ino) ==
    IF ino \in DOMAIN real_hashes THEN real_hashes[ino] ELSE FileHash(NoHash, NoHash)

-----------------------------------------------------------------------------
(* Operations of MediatorState.                                            *)

do_exists(path) == path \in DOMAIN path2ino

\* Seeded slip: open descriptors are forgotten.
Referenced_ByName(ino, paths, fds) == ino \in Range(paths)

\* A path or a descriptor refers to the inode.
Referenced(ino, paths, fds) == ino \in Range(paths) \cup Range(fds)

\* Seeded slip: a working directory is set only once.
do_chdir_Once(path) == cwd' = IF cwd = Unset THEN path ELSE cwd

do_chdir(path) == cwd' = path

\* Seeded slip: no check for a duplicate, the old inode stays.
do_open_KeepsOld(fd, file) ==
    fd2ino' = IF fd \in DOMAIN fd2ino THEN fd2ino ELSE With(fd2ino, fd, file)

do_open(fd, file) ==
    /\ fd \notin DOMAIN fd2ino
    /\ fd2ino' = With(fd2ino, fd, file)

do_set_real_hashes(file, hashes) == real_hashes' = With(real_hashes, file, hashes)

\* Seeded slip: links counted from 0.
AddFile_NoLinks(path, file, uid, perms, kind, hashes) ==
    /\ path2ino' = With(path2ino, path, file)
    /\ stats' = With(stats, file, [uid |-> uid, mode |-> perms, nlink |-> 0, kind |-> kind])
    /\ do_set_real_hashes(file, hashes)

\* do_creat and do_mkdir.
AddFile(path, file, uid, perms, kind, hashes) ==
    /\ path2ino' = With(path2ino, path, file)
    /\ stats' = With(stats, file, [uid |-> uid, mode |-> perms, nlink |-> 1, kind |-> kind])
    /\ do_set_real_hashes(file, hashes)

do_creat(path, file, uid, perms, hashes) == AddFile(path, file, uid, perms, "file", hashes)
do_mkdir(path, file, uid, perms, hashes) == AddFile(path, file, uid, perms, "folder", hashes)

\* do_chown followed by do_chmod, or do_chmod alone with the stored owner.
SetStat(file, uid, perms, meta_hash) ==
    /\ stats' = [stats EXCEPT ![file].uid = uid, ![file].mode = perms]
    /\ real_hashes' = [real_hashes EXCEPT ![file].meta = meta_hash]

\* do_set_meta_hash raises ValueError otherwise.
HasHashes(file) == file \in DOMAIN real_hashes

\* Seeded slip: the hashes are stored in every mode.
do_close_Stores(fd, hashes) ==
    LET ino  == fd2ino[fd]
        rest == Without(fd2ino, {fd})
    IN  /\ fd2ino' = rest
        /\ stats' = IF Referenced(ino, path2ino, rest) THEN stats ELSE Without(stats, {ino})
        /\ do_set_real_hashes(ino, hashes)
        /\ intergity_hashes' = With(intergity_hashes, ino, hashes)

do_close(fd, hashes) ==
    LET ino  == fd2ino[fd]
        rest == Without(fd2ino, {fd})
    IN  /\ fd2ino' = rest
        /\ stats' = IF Referenced(ino, path2ino, rest) THEN stats ELSE Without(stats, {ino})
        /\ do_set_real_hashes(ino, hashes)
        /\ intergity_hashes' = IF mode = "FIX" THEN With(intergity_hashes, ino, hashes)
                                               ELSE intergity_hashes

\* Every descriptor is closed with the hashes known of its inode.
do_exit ==
    LET inos == Range(fd2ino) IN
    /\ fd2ino' = Without(fd2ino, DOMAIN fd2ino)
    /\ stats' = Without(stats, inos \ Range(path2ino))
    /\ real_hashes' = [i \in DOMAIN real_hashes \cup inos |-> get_real_hashes(i)]
    /\ intergity_hashes' =
         IF mode # "FIX" THEN intergity_hashes
         ELSE [i \in DOMAIN intergity_hashes \cup inos |->
                 IF i \in inos THEN get_real_hashes(i) ELSE intergity_hashes[i]]

\* Seeded slip: the link is not counted.
do_link_Uncounted(path, newpath) ==
    /\ path2ino' = With(path2ino, newpath, path2ino[path])
    /\ UNCHANGED stats

do_link(path, newpath) ==
    /\ stats[path2ino[path]].nlink < MAX_LINKS
    /\ stats' = [stats EXCEPT ![path2ino[path]].nlink = @ + 1]
    /\ path2ino' = With(path2ino, newpath, path2ino[path])

\* real_hashes[ino] "should always be"; it is deleted with the first name.
do_remove(path) ==
    LET ino  == path2ino[path]
        rest == Without(path2ino, {path})
    IN  /\ path2ino' = rest
        /\ stats' = IF Referenced(ino, rest, fd2ino) THEN stats ELSE Without(stats, {ino})
        /\ real_hashes' = Without(real_hashes, {ino})
        /\ intergity_hashes' = Without(intergity_hashes, {ino})

-----------------------------------------------------------------------------
(* Pathnames and events.                                                   *)

PATHNAMES == [base : {"root"}, rel : PATHS] \cup [base : {"cwd"}, rel : PATHS \ {<<>>}]

\* What the kernel makes of a pathname, and whether it can.
KPath(p) == IF p.base = "root" THEN p.rel ELSE Below(wd, p.rel)
KFinds(p) == (p.base = "root" \/ CanLookBelow(wd)) /\ KPath(p) \in DOMAIN names
KCreates(p) == (p.base = "root" \/ CanLookBelow(wd)) /\ CanCreate(KPath(p))

\* The first path of the inode in the order of the dictionary, one of these;
\* next raises StopIteration if there is none.
get_path(ino) == {path \in DOMAIN path2ino : path2ino[path] = ino}

\* Seeded slip: a relative path is taken from the root.
normalize_FromRoot(p) == p.rel

\* What the mediator makes of it; do_getcwd raises KeyError without a cwd.
normalize(p) == IF p.base = "root" THEN p.rel ELSE cwd \o p.rel
CanNormalize(p) == p.base = "root" \/ cwd # Unset

KnowsParent(p) == CanNormalize(p) /\ do_exists(dirname(normalize(p)))
KnowsFile(p) == KnowsParent(p) /\ do_exists(normalize(p))
ParentOf(path) == path2ino[dirname(path)]

Event(event, parent, file, ok) ==
    [event |-> event, parent |-> parent, file |-> file, dirfd |-> NoIno,
     last |-> FALSE, ok |-> ok]

\* The event of a call that failed only says that the model must refuse it:
\* it changes nothing, and is not kept.
NoEvent == Event("none", NoIno, NoIno, FALSE)
Send(e) == sent' = (IF e.ok THEN e ELSE NoEvent) /\ UNCHANGED <<phase, raised>>

Nothing == [parent |-> NoIno, file |-> NoIno, new |-> FALSE]

Raise(e) ==
    /\ raised' = e
    /\ sent' = NoEvent
    /\ actual' = Nothing
    /\ UNCHANGED <<kernelVars, stateVars, phase>>

\* The item of FILE_DESCRIPTORS_EXTENDED for a descriptor of the traced
\* process; only descriptor 0 of process 0 is the model's AT_FDCWD.
PID == 1
translate_fd(proc, fd) == IF <<proc, fd>> = <<0, 0>> THEN AT_FDCWD ELSE <<proc, fd>>

\* What the kernel does in a call: the directory and the inode it acts on.
KCall(kpath, ino, new) ==
    [parent |-> IF kpath = <<>> THEN ino ELSE names[dirname(kpath)], file |-> ino, new |-> new]
KFile(p) == KCall(KPath(p), names[KPath(p)], FALSE)
KFd(fd) == [parent |-> NoIno, file |-> table[fd], new |-> FALSE]

Acted(k) == actual' = k

\* A call that failed leaves the kernel as it is.
Failed(ok) == ~ok /\ actual' = Nothing /\ UNCHANGED kernelVars

Tracing == phase = "trace" /\ raised = "none"

-----------------------------------------------------------------------------
(* The snapshot: folders first, then files and hard links, then the trace. *)
(* The events of the setup are not kept.                                   *)

Init ==
    /\ KernelInit
    /\ cwd = Unset
    /\ path2ino = [path \in {<<>>} |-> ROOT_INO]
    /\ fd2ino = [fd \in {} |-> ROOT_INO]
    /\ stats = [ino \in {} |-> NoIno]
    /\ real_hashes = [ino \in {} |-> NoIno]
    /\ intergity_hashes = [ino \in {} |-> NoIno]
    /\ mode \in {"OFF", "FIX"}
    /\ phase = "folders"
    /\ raised = "none"
    /\ sent = NoEvent
    /\ actual = Nothing

\* mkdir, chown and chmod are replayed; the hash of the last one is forced
\* into the model and kept.
add_init_folder(path, ino, uid, perms) ==
    LET chmod_meta == calc_fake_meta_hash(uid, perms) IN
    /\ phase = "folders"
    /\ Create(path, ino, "folder", uid, perms)
    /\ do_mkdir(path, ino, uid, perms, FileHash(NoHash, chmod_meta))
    /\ intergity_hashes' = With(intergity_hashes, ino, FileHash(NoHash, chmod_meta))
    /\ UNCHANGED <<table, wd, cwd, fd2ino, mode, phase, raised, sent, actual>>

\* creat, fchown, fchmod and close by process 0; the hashes of the snapshot
\* are used for a file IMA has measured.
add_init_file(path, ino, uid, perms, content, reported) ==
    LET close_meta == IF content # NoHash THEN MetaHash(reported, uid, perms)
                                          ELSE calc_fake_meta_hash(uid, perms)
        hashes     == FileHash(content, close_meta)
    IN  /\ phase \in {"folders", "files"}
        /\ Create(path, ino, "file", uid, perms)
        /\ do_creat(path, ino, uid, perms, hashes)
        /\ intergity_hashes' = IF mode = "FIX" THEN With(intergity_hashes, ino, hashes)
                                               ELSE intergity_hashes
        /\ phase' = "files"
        /\ UNCHANGED <<table, wd, cwd, fd2ino, mode, raised, sent, actual>>

\* A path of an inode the replay has met: a link.  get_path is its first name.
add_init_link(path, newpath) ==
    /\ phase = "files"
    /\ AddName(path, newpath)
    /\ do_link(path, newpath)
    /\ UNCHANGED <<cwd, fd2ino, real_hashes, intergity_hashes, mode, phase, raised,
                   sent, actual>>

\* The end of _replay_setup, and _replay_login, which sets no cwd.
login ==
    /\ phase \in {"folders", "files"}
    /\ mode' = IF mode = "FIX" THEN "ENFORCE" ELSE mode
    /\ phase' = "trace"
    /\ UNCHANGED <<kernelVars, cwd, path2ino, fd2ino, stats, real_hashes,
                   intergity_hashes, raised, sent, actual>>

-----------------------------------------------------------------------------
(* Handlers of the calls that open and create.                             *)

\* The call opens the inode of kpath for fd, and creates it if it must.
KOpen(kpath, ino, uid, perms, fd) ==
    /\ fd \notin DOMAIN table
    /\ table' = With(table, fd, ino)
    /\ UNCHANGED wd
    /\ \/ /\ kpath \in DOMAIN names
          /\ names[kpath] = ino
          /\ attr[ino] = [kind |-> attr[ino].kind, uid |-> uid, mode |-> perms]
          /\ attr[ino].kind # "symlink"
          /\ Acted(KCall(kpath, ino, FALSE))
          /\ UNCHANGED <<names, attr>>
       \/ /\ Create(kpath, ino, "file", uid, perms)
          /\ Acted(KCall(kpath, ino, TRUE))

\* The state update of open, creat and openat.
Opened(path, file, uid, perms, fd) ==
    /\ IF do_exists(path) THEN UNCHANGED <<path2ino, stats, real_hashes>>
       ELSE do_creat(path, file, uid, perms, FileHash(NoHash, calc_fake_meta_hash(uid, perms)))
    /\ do_open(fd, file)
    /\ UNCHANGED <<cwd, intergity_hashes, mode>>

\* Seeded slip: the directory instead of the file.
OpenedFile_Parent(path, ino) == IF do_exists(path) THEN ParentOf(path) ELSE ino
\* The inode of the record, or the one the mediator knows under the path.
OpenedFile(path, ino) == IF do_exists(path) THEN path2ino[path] ELSE ino

open(p, fd, ino, uid, perms, ok) ==
    LET path == normalize(p)
        file == OpenedFile(path, ino)
        call == IF do_exists(path) THEN "open_exists" ELSE "open_create"
    IN  /\ Tracing
        /\ ok => KFinds(p) \/ KCreates(p)
        /\ \/ ~KnowsParent(p) /\ Raise("KeyError")
           \/ KnowsParent(p) /\ ok /\ fd \in DOMAIN fd2ino \ DOMAIN table /\ Raise("ValueError")
           \/ /\ KnowsParent(p)
              /\ Send(Event(call, ParentOf(path), file, ok))
              /\ \/ ok /\ KOpen(KPath(p), ino, uid, perms, fd) /\ Opened(path, file, uid, perms, fd)
                 \/ Failed(ok) /\ UNCHANGED stateVars

\* There is one event, which creates the inode of the record, whether or not
\* the path exists.
creat(p, fd, ino, uid, perms, ok) ==
    LET path == normalize(p)
    IN  /\ Tracing
        /\ ok => KFinds(p) \/ KCreates(p)
        /\ \/ ~KnowsParent(p) /\ Raise("KeyError")
           \/ KnowsParent(p) /\ ok /\ fd \in DOMAIN fd2ino \ DOMAIN table /\ Raise("ValueError")
           \/ /\ KnowsParent(p)
              /\ Send(Event("creat", ParentOf(path), ino, ok))
              /\ \/ ok /\ KOpen(KPath(p), ino, uid, perms, fd) /\ Opened(path, ino, uid, perms, fd)
                 \/ Failed(ok) /\ UNCHANGED stateVars

\* A relative openat; an absolute one is open.  A failed call may have a
\* descriptor that is not open, and one the mediator does not know (KeyError)
\* or still knows.  get_path finds no name for a directory that was removed,
\* and raises StopIteration.
openat(dfd, rel, fd, ino, uid, perms, ok) ==
    LET isCwd   == dfd = AT_FDCWD
        kbase   == IF isCwd THEN wd ELSE table[dfd]
        lost    == ~isCwd /\ get_path(fd2ino[dfd]) = {}
        known   == IF isCwd THEN cwd # Unset ELSE dfd \in DOMAIN fd2ino
        bases   == IF isCwd THEN {cwd} ELSE get_path(fd2ino[dfd])
    IN  /\ Tracing
        /\ ok => dfd \in DOMAIN table \cup {AT_FDCWD} /\ CanLookBelow(kbase)
        /\ \/ ~known /\ Raise("KeyError")
           \/ known /\ lost /\ Raise("StopIteration")
           \/ /\ known /\ ~lost
              /\ \E base \in bases :
                   LET path  == base \o rel
                       file  == OpenedFile(path, ino)
                       call  == IF do_exists(path) THEN "openat_exists" ELSE "openat_create"
                       found == do_exists(base) /\ do_exists(dirname(path))
                   IN  \/ ~found /\ Raise("KeyError")
                       \/ found /\ ok /\ fd \in DOMAIN fd2ino \ DOMAIN table /\ Raise("ValueError")
                       \/ /\ found
                          /\ Send([Event(call, ParentOf(path), file, ok) EXCEPT
                                     !.dirfd = translate_fd(PID, dfd)])
                          /\ \/ /\ ok
                                /\ KOpen(Below(kbase, rel), ino, uid, perms, fd)
                                /\ Opened(path, file, uid, perms, fd)
                             \/ Failed(ok) /\ UNCHANGED stateVars

mkdir(p, ino, uid, perms, ok) ==
    LET path == normalize(p)
        hash == calc_fake_meta_hash(uid, perms)
    IN  /\ Tracing
        /\ ok => KCreates(p)
        /\ \/ ~KnowsParent(p) /\ Raise("KeyError")
           \/ /\ KnowsParent(p)
              /\ Send(Event("mkdir", ParentOf(path), ino, ok))
              /\ \/ /\ ok
                    /\ Create(KPath(p), ino, "folder", uid, perms)
                    /\ Acted(KCall(KPath(p), ino, TRUE))
                    /\ do_mkdir(path, ino, uid, perms, FileHash(NoHash, hash))
                    /\ UNCHANGED <<table, wd, cwd, fd2ino, intergity_hashes, mode>>
                 \/ Failed(ok) /\ UNCHANGED stateVars

\* The mediator keeps nothing of a symbolic link.
symlink(target, p, ino, ok) ==
    /\ Tracing
    /\ ok => KCreates(p)
    /\ \/ ~(KnowsParent(target) /\ KnowsParent(p)) /\ Raise("KeyError")
       \/ /\ KnowsParent(target) /\ KnowsParent(p)
          /\ Send(Event("symlink", ParentOf(normalize(p)), ino, ok))
          /\ UNCHANGED stateVars
          /\ \/ /\ ok
                /\ Create(KPath(p), ino, "symlink", CHOOSE u \in OWNERS : TRUE, "plain")
                /\ Acted(KCall(KPath(p), ino, TRUE))
                /\ UNCHANGED <<table, wd>>
             \/ Failed(ok)

-----------------------------------------------------------------------------
(* Handlers of the calls that change attributes.                           *)

\* The file of a path call, and its event.  The handler raises KeyError for a
\* path the mediator does not know, after a call that failed too.
PathCall(p, ok) == Tracing /\ (ok => KFinds(p) /\ attr[names[KPath(p)]].kind # "symlink")
FileOf(p) == path2ino[normalize(p)]
PathEvent(event, p, ok) == Event(event, ParentOf(normalize(p)), FileOf(p), ok)

FdCall(fd, ok) == Tracing /\ (ok => fd \in DOMAIN table)
FdEvent(event, fd, ok) == Event(event, NoIno, fd2ino[fd], ok)

\* Seeded slip: a stored pseudo-hash is used again.
MetaHashOr_KeepsFake(reported, file, uid, perms) ==
    LET stored == get_real_hashes(file).meta
    IN  IF reported # NoHash THEN reported
        ELSE IF stored = NoHash THEN calc_fake_meta_hash(uid, perms)
        ELSE stored

\* A hash the monitor did not report is the stored one, or a fresh
\* pseudo-hash where that is missing or a pseudo-hash itself.
MetaHashOr(reported, file, uid, perms) ==
    LET stored == get_real_hashes(file).meta
    IN  IF reported # NoHash THEN reported
        ELSE IF stored = NoHash \/ is_hash_fake(stored) THEN calc_fake_meta_hash(uid, perms)
        ELSE stored

\* The state update of the four handlers: file gets owner and perms in its
\* stat, the inode of k gets kuid and perms.  do_stat raises KeyError, which
\* it does for "/", and do_set_meta_hash ValueError.
SetAttributes(event, file, owner, perms, hash, k, kuid) ==
    \/ file \notin DOMAIN stats /\ Raise("KeyError")
    \/ event.ok /\ file \in DOMAIN stats /\ ~HasHashes(file) /\ Raise("ValueError")
    \/ /\ file \in DOMAIN stats
       /\ Send(event)
       /\ \/ /\ event.ok
             /\ HasHashes(file)
             /\ SetAttr(k.file, kuid, perms)
             /\ Acted(k)
             /\ SetStat(file, owner, perms, hash)
             /\ UNCHANGED <<cwd, path2ino, fd2ino, intergity_hashes, mode>>
          \/ Failed(event.ok) /\ UNCHANGED stateVars

Chmod(event, k, perms, reported) ==
    LET file == event.file
        uid  == stats[file].uid
        kuid == attr[k.file].uid
        hash == MetaHashOr(MetaHash(reported, kuid, perms), file, uid, perms)
    IN  SetAttributes(event, file, uid, perms, hash, k, kuid)

\* The pseudo-hash is that of the owner the file gets; the stat keeps the
\* argument, -1 included.
Chown(event, k, owner, reported) ==
    LET file  == event.file
        kuid  == IF owner = KEEP THEN attr[k.file].uid ELSE owner
        uid   == IF owner = KEEP THEN stats[file].uid ELSE owner
        perms == ChownMode(k.file)
        hash  == MetaHashOr(MetaHash(reported, kuid, perms), file, uid, perms)
    IN  SetAttributes(event, file, owner, perms, hash, k, kuid)

chmod(p, perms, reported, ok) ==
    /\ PathCall(p, ok)
    /\ IF KnowsFile(p) THEN Chmod(PathEvent("chmod", p, ok), KFile(p), perms, reported)
                       ELSE Raise("KeyError")

fchmod(fd, perms, reported, ok) ==
    /\ FdCall(fd, ok)
    /\ IF fd \in DOMAIN fd2ino THEN Chmod(FdEvent("fchmod", fd, ok), KFd(fd), perms, reported)
                               ELSE Raise("KeyError")

chown(p, owner, reported, ok) ==
    /\ PathCall(p, ok)
    /\ IF KnowsFile(p) THEN Chown(PathEvent("chown", p, ok), KFile(p), owner, reported)
                       ELSE Raise("KeyError")

fchown(fd, owner, reported, ok) ==
    /\ FdCall(fd, ok)
    /\ IF fd \in DOMAIN fd2ino THEN Chown(FdEvent("fchown", fd, ok), KFd(fd), owner, reported)
                               ELSE Raise("KeyError")

\* getxattr and setxattr: the attributes are kept by the model alone.
xattr(p, event, ok) ==
    /\ PathCall(p, ok)
    /\ IF KnowsFile(p)
         THEN /\ Send(PathEvent(event, p, ok))
              /\ Acted(IF ok THEN KFile(p) ELSE Nothing)
              /\ UNCHANGED <<kernelVars, stateVars>>
         ELSE Raise("KeyError")

-----------------------------------------------------------------------------
(* Handlers of the remaining calls.                                        *)

chdir(p, ok) ==
    /\ PathCall(p, ok)
    /\ IF CanNormalize(p) /\ do_exists(normalize(p))
         THEN /\ Send(Event("chdir", NoIno, FileOf(p), ok))
              /\ \/ /\ ok
                    /\ ChangeDir(names[KPath(p)])
                    /\ Acted([KFile(p) EXCEPT !.parent = NoIno])
                    /\ do_chdir(normalize(p))
                    /\ UNCHANGED <<path2ino, fd2ino, stats, real_hashes, intergity_hashes, mode>>
                 \/ Failed(ok) /\ UNCHANGED stateVars
         ELSE Raise("KeyError")

\* The event names the descriptor alone, so a failed call cannot raise.  The
\* directory may have been removed: get_path then raises StopIteration.
fchdir(fd, ok) ==
    /\ FdCall(fd, ok)
    /\ ok => IsFolder(table[fd])
    /\ \/ ok /\ get_path(fd2ino[fd]) = {} /\ Raise("StopIteration")
       \/ /\ ok
          /\ \E path \in get_path(fd2ino[fd]) : do_chdir(path)
          /\ Send(FdEvent("fchdir", fd, ok))
          /\ ChangeDir(table[fd])
          /\ Acted(KFd(fd))
          /\ UNCHANGED <<path2ino, fd2ino, stats, real_hashes, intergity_hashes, mode>>
       \/ Send(Event("fchdir", NoIno, NoIno, ok)) /\ Failed(ok) /\ UNCHANGED stateVars

\* What link raises: KeyError for a path the mediator does not know and, in
\* do_link, for "/", which has no stat; ValueError for a new path it knows.
LinkError(p, q, ok) ==
    IF ~(KnowsFile(p) /\ KnowsParent(q)) THEN "KeyError"
    ELSE IF ~ok THEN "none"
    ELSE IF normalize(p) = normalize(q) \/ do_exists(normalize(q)) THEN "ValueError"
    ELSE IF FileOf(p) \notin DOMAIN stats THEN "KeyError"
    ELSE "none"

link(p, q, ok) ==
    /\ Tracing
    /\ ok => KFinds(p) /\ KCreates(q)
    /\ IF LinkError(p, q, ok) = "none"
         THEN /\ Send(Event("link", ParentOf(normalize(q)), FileOf(p), ok))
              /\ \/ /\ ok
                    /\ AddName(KPath(p), KPath(q))
                    /\ Acted(KCall(KPath(q), names[KPath(p)], FALSE))
                    /\ do_link(normalize(p), normalize(q))
                    /\ UNCHANGED <<cwd, fd2ino, real_hashes, intergity_hashes, mode>>
                 \/ Failed(ok) /\ UNCHANGED stateVars
         ELSE Raise(LinkError(p, q, ok))

\* The kernel closes the descriptors in cloexec; the mediator does not.
execve(p, cloexec, ok) ==
    /\ PathCall(p, ok)
    /\ IF KnowsFile(p)
         THEN /\ Send(PathEvent("execve", p, ok))
              /\ UNCHANGED stateVars
              /\ \/ ok /\ DropFds(cloexec) /\ Acted(KFile(p))
                 \/ Failed(ok)
         ELSE Raise("KeyError")

\* The hashes are those of __fput, the last known ones where it has none.
close(fd, content, reported, ok) ==
    LET known  == get_real_hashes(fd2ino[fd])
        meta   == MetaHash(reported, attr[table[fd]].uid, attr[table[fd]].mode)
        hashes == FileHash(IF content # NoHash THEN content ELSE known.content,
                           IF ok /\ meta # NoHash THEN meta ELSE known.meta)
    IN  /\ FdCall(fd, ok)
        /\ IF fd \in DOMAIN fd2ino
             THEN /\ Send(FdEvent("close", fd, ok))
                  /\ \/ /\ ok
                        /\ DropFds({fd})
                        /\ Acted(KFd(fd))
                        /\ do_close(fd, hashes)
                        /\ UNCHANGED <<cwd, path2ino, mode>>
                     \/ Failed(ok) /\ UNCHANGED stateVars
             ELSE Raise("KeyError")

exit ==
    /\ Tracing
    /\ phase' = "end"
    /\ sent' = NoEvent
    /\ actual' = Nothing
    /\ DropFds(DOMAIN table)
    /\ do_exit
    /\ UNCHANGED <<raised, cwd, path2ino, mode>>

\* The state update of unlink and rmdir; del real_hashes[ino] may raise.
Remove(event, p) ==
    \/ event.ok /\ ~HasHashes(event.file) /\ Raise("KeyError")
    \/ /\ Send(event)
       /\ \/ /\ event.ok
             /\ HasHashes(event.file)
             /\ RemoveName(KPath(p))
             /\ Acted(KFile(p))
             /\ do_remove(normalize(p))
             /\ UNCHANGED <<cwd, fd2ino, mode>>
          \/ Failed(event.ok) /\ UNCHANGED stateVars

\* files names the inode if its stat has one link; "/" has no stat.
unlink(p, ok) ==
    /\ Tracing
    /\ ok => KFinds(p) /\ ~IsFolder(names[KPath(p)])
    /\ IF KnowsFile(p) /\ FileOf(p) \in DOMAIN stats
         THEN Remove([PathEvent("unlink", p, ok) EXCEPT !.last = (stats[FileOf(p)].nlink = 1)], p)
         ELSE Raise("KeyError")

rmdir(p, ok) ==
    /\ Tracing
    /\ ok => KFinds(p) /\ IsFolder(names[KPath(p)]) /\ IsEmpty(KPath(p))
    /\ IF KnowsFile(p) THEN Remove(PathEvent("rmdir", p, ok), p) ELSE Raise("KeyError")

-----------------------------------------------------------------------------
(* The specification.  A record of a failed call has no inode.             *)

AnyOwner == CHOOSE u \in OWNERS : TRUE
CLOEXEC == SUBSET DOMAIN table

Setup ==
    \/ \E path \in PATHS, ino \in INODES, uid \in OWNERS, perms \in MODES :
         \/ add_init_folder(path, ino, uid, perms)
         \/ \E content \in CONTENTS \cup {NoHash}, reported \in REPORTS :
              add_init_file(path, ino, uid, perms, content, reported)
    \/ \E path, newpath \in PATHS : add_init_link(path, newpath)
    \/ login

\* A call of the traced process succeeds.
Succeeds ==
    \/ \E p \in PATHNAMES, ino \in INODES, uid \in OWNERS, perms \in MODES :
         \/ \E fd \in FD_NUMBERS :
              open(p, fd, ino, uid, perms, TRUE) \/ creat(p, fd, ino, uid, perms, TRUE)
         \/ mkdir(p, ino, uid, perms, TRUE)
    \/ \E dfd \in FD_NUMBERS \cup {AT_FDCWD}, rel \in PATHS \ {<<>>}, fd \in FD_NUMBERS,
          ino \in INODES, uid \in OWNERS, perms \in MODES :
         openat(dfd, rel, fd, ino, uid, perms, TRUE)
    \/ \E p \in PATHNAMES :
         \/ \E perms \in MODES, reported \in REPORTS : chmod(p, perms, reported, TRUE)
         \/ \E owner \in OWNER_ARGS, reported \in REPORTS : chown(p, owner, reported, TRUE)
         \/ \E event \in {"getxattr", "setxattr"} : xattr(p, event, TRUE)
         \/ chdir(p, TRUE) \/ unlink(p, TRUE) \/ rmdir(p, TRUE)
         \/ \E cloexec \in CLOEXEC : execve(p, cloexec, TRUE)
         \/ \E q \in PATHNAMES : link(p, q, TRUE) \/ \E ino \in INODES : symlink(q, p, ino, TRUE)
    \/ \E fd \in FD_NUMBERS, reported \in REPORTS :
         \/ \E perms \in MODES : fchmod(fd, perms, reported, TRUE)
         \/ \E owner \in OWNER_ARGS : fchown(fd, owner, reported, TRUE)
         \/ \E content \in CONTENTS \cup {NoHash} : close(fd, content, reported, TRUE)
         \/ fchdir(fd, TRUE)
    \/ exit

\* A call fails: its handler raises an exception or sends an event that is not
\* kept.  What the call was to set does not matter, nor that a call with two
\* paths may fail with another second one.
Fails ==
    \/ \E p \in PATHNAMES, fd \in FD_NUMBERS :
         \/ open(p, fd, NoIno, AnyOwner, "plain", FALSE)
         \/ creat(p, fd, NoIno, AnyOwner, "plain", FALSE)
    \/ \E dfd \in FD_NUMBERS \cup {AT_FDCWD}, rel \in PATHS \ {<<>>}, fd \in FD_NUMBERS :
         openat(dfd, rel, fd, NoIno, AnyOwner, "plain", FALSE)
    \/ \E p \in PATHNAMES :
         \/ mkdir(p, NoIno, AnyOwner, "plain", FALSE)
         \/ chmod(p, "plain", FALSE, FALSE) \/ chown(p, AnyOwner, FALSE, FALSE)
         \/ \E event \in {"getxattr", "setxattr"} : xattr(p, event, FALSE)
         \/ chdir(p, FALSE) \/ unlink(p, FALSE) \/ rmdir(p, FALSE) \/ execve(p, {}, FALSE)
         \/ link(p, p, FALSE) \/ symlink(p, p, NoIno, FALSE)
    \/ \E fd \in FD_NUMBERS :
         \/ fchmod(fd, "plain", FALSE, FALSE) \/ fchown(fd, AnyOwner, FALSE, FALSE)
         \/ close(fd, NoHash, FALSE, FALSE) \/ fchdir(fd, FALSE)

Next == Setup \/ Succeeds \/ Fails

Spec == Init /\ [][Next]_vars

-----------------------------------------------------------------------------
(* Properties.                                                             *)

\* The types of the dictionaries of MediatorState.
MediatorTypeOK ==
    /\ cwd \in PATHS \cup {Unset}
    /\ DOMAIN path2ino \subseteq PATHS /\ Range(path2ino) \subseteq INODES
    /\ DOMAIN fd2ino \subseteq FD_NUMBERS /\ Range(fd2ino) \subseteq INODES
    /\ DOMAIN stats \subseteq INODES
    /\ \A ino \in DOMAIN stats :
         stats[ino] \in [uid : OWNERS \cup {KEEP}, mode : MODES,
                        nlink : 1..MAX_LINKS, kind : {"file", "folder"}]
    /\ DOMAIN real_hashes \cup DOMAIN intergity_hashes \subseteq INODES
    /\ mode \in {"OFF", "FIX", "ENFORCE"}
    /\ phase \in {"folders", "files", "trace", "end"}
    /\ raised \in {"none", "KeyError", "ValueError", "StopIteration"}

\* The paths of the mediator are those of the kernel, symbolic links
\* excepted, whatever calls the process made relative to whatever directory.
NamesAgree ==
    /\ \A path \in DOMAIN names :
         attr[names[path]].kind # "symlink" => do_exists(path) /\ path2ino[path] = names[path]
    /\ DOMAIN path2ino \subseteq DOMAIN names

\* The mediator knows every open descriptor under its inode, descriptors
\* reused after a close or an execve included.
FdsAgree ==
    \A fd \in DOMAIN table : fd \in DOMAIN fd2ino /\ fd2ino[fd] = table[fd]

\* Once it is set, the path of the working directory leads to it, as long as
\* the directory has not been removed.
CwdAgrees ==
    cwd # Unset /\ Named(wd) => do_exists(cwd) /\ path2ino[cwd] = wd

\* Every file that has a name or a descriptor has a stat, with its mode and
\* its owner, or the -1 the last chown was called with.
StatsAgree ==
    \A ino \in (Range(path2ino) \cup Range(table)) \ {ROOT_INO} :
        /\ ino \in DOMAIN stats
        /\ stats[ino].mode = attr[ino].mode
        /\ stats[ino].kind = attr[ino].kind
        /\ stats[ino].uid \in {attr[ino].uid, KEEP}

\* unlink declares a file gone (files = [file]) only with its last name.
LastLinkNoticed ==
    \A ino \in DOMAIN stats : stats[ino].nlink = 1 => Cardinality(NamesOf(ino)) <= 1

Creating == {"open_create", "openat_create", "creat", "mkdir", "symlink"}
EventRight ==
    sent.ok =>
        /\ sent.parent = actual.parent
        /\ sent.file = actual.file
        /\ actual.new => sent.event \in Creating
        /\ sent.event \in Creating => actual.new \/ sent.event = "creat"

\* The event of a call that succeeded names the directory and the inode the
\* kernel acted on.  It creates a file exactly if the call did, but for the
\* event of creat, which creates the file also when the call opened one that
\* existed (TraceTranslator.creat; the model has no other event for it).
EventsActual == [][EventRight']_vars

\* A pseudo-hash is that of the actual metadata of the file, as
\* docs/mediator.md says.  Violated: do_chown stores the owner it is called
\* with, and after chown(-1) the next chmod computes a pseudo-hash of -1.
FakeHashActual ==
    \A ino \in DOMAIN real_hashes \cap Range(path2ino) :
        is_hash_fake(real_hashes[ino].meta) =>
            real_hashes[ino].meta = calc_fake_meta_hash(attr[ino].uid, attr[ino].mode)

\* A pseudo-hash is that of the actual mode of the file and of its actual
\* owner, or of the -1 that its stat holds since chown(-1), through every
\* order of chmod and chown and whether or not the monitor reported hashes in
\* between: a stale pseudo-hash is never used (chmod, chown in translator.py).
FakeHashFollows ==
    \A ino \in DOMAIN real_hashes \cap Range(path2ino) :
        is_hash_fake(real_hashes[ino].meta) =>
            \/ real_hashes[ino].meta = calc_fake_meta_hash(attr[ino].uid, attr[ino].mode)
            \/ /\ stats[ino].uid = KEEP
               /\ real_hashes[ino].meta = calc_fake_meta_hash(KEEP, attr[ino].mode)

\* While the trace is replayed, the stored hashes are compared and never
\* replaced.
IntegrityFrozen ==
    [][phase = "trace" =>
         \A ino \in DOMAIN intergity_hashes' :
             ino \in DOMAIN intergity_hashes
               /\ intergity_hashes'[ino] = intergity_hashes[ino]]_vars

\* do_remove: the real hashes of a file that has a name "should always be".
HashesAlwaysThere ==
    \A ino \in Range(path2ino) \ {ROOT_INO} : HasHashes(ino)
=============================================================================
