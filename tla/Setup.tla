------------------------------- MODULE Setup -------------------------------
(***************************************************************************)
(* The machine is brought to the state of the container by _replay_setup   *)
(* (testing/spec_impl.py), through the set-up methods of TraceTranslator   *)
(* (mediator/translator.py) and the events of EventsBuilder                *)
(* (mediator/builder.py); then the test's program logs in and calls open,  *)
(* chmod and link, and the verdict of the machine on each call is compared *)
(* with that of the kernel.                                                *)
(*                                                                         *)
(* The kernel and the interpreter of the machine are external.  An event   *)
(* is an action of DAC_EXT with the arguments the builder gives it; the    *)
(* interpreter refuses it when its guards do not hold.                     *)
(* Paths are given by their directory and name; how the mediator looks     *)
(* them up is modelled in Mediator.  IMA's hashes and modes are in IMA.    *)
(***************************************************************************)
EXTENDS DAC_EXT, OpenFlags, Sequences, SequencesExt

CONSTANTS
    SNAPSHOTS,      \* what read_gathered_info may return
    CHMODS,         \* mode arguments of chmod
    NEW_NAME,       \* a name that does not exist yet
    PROC,           \* the process of the program
    EXE_FILE,       \* the program
    PROTECTED_REGULAR,  \* the setting fs.protected_regular of the kernel
    MAX_CHMODS      \* bound on the calls of chmod; open and link end the program

ACCESS == {"r", "w", "x"}
Modes == [S_ISUID |-> SET_UID, S_ISGID |-> SET_GID, S_ISVTX |-> STICKY_BIT]

\* A mode is a record of the accesses of its three classes, the special bits
\* and the type of the file; an ACL has entries for users and groups, one for
\* the owning group, and at most one mask: mask is a set of none or one.
MODE == [u : SUBSET ACCESS, g : SUBSET ACCESS, o : SUBSET ACCESS,
         special : SUBSET DOMAIN Modes, dir : BOOLEAN]
INODE_FIELDS == {"uid", "gid", "mode", "acl"}
IsInode(i, users, groups) ==
    /\ DOMAIN i = INODE_FIELDS
    /\ i.uid \in users /\ i.gid \in groups
    /\ i.mode \in MODE
    /\ IsPartial(i.acl.user, users, SUBSET ACCESS)
    /\ IsPartial(i.acl.group, groups, SUBSET ACCESS)
    /\ i.acl.obj \subseteq ACCESS
    /\ i.acl.mask \subseteq {i.mode.g}
    /\ i.acl.mask = {} => i.acl.obj = i.mode.g
    /\ i.acl.mask = {} => DOMAIN i.acl.user \cup DOMAIN i.acl.group = {}

\* What _replay_setup relies on: getent and id list each group and user once;
\* the directories are sorted, so that parents come first; the paths are the
\* keys of dictionaries; stat and getfacl know every inode; the program is one
\* of the files.  root belongs to the machine from the start, and so does the
\* root directory, which the first set-up command of every test, chmod a+w /,
\* makes writable for everybody.
AccountsFit(s) ==
    /\ s.groups \in Seq(GROUPS \ {ROOT_GROUP})
    /\ \A i, j \in DOMAIN s.groups : s.groups[i] = s.groups[j] => i = j
    /\ s.users \in Seq([uid : USERS \ {ROOT_USER},
                        gids : SUBSET ({ROOT_GROUP} \cup Range(s.groups))])
    /\ \A i, j \in DOMAIN s.users : s.users[i].uid = s.users[j].uid => i = j

ENTRY == [ino : FILES \ {ROOT, INIT_EXE}, parent : FILES, name : STRINGS]
SamePlace(e1, e2) == e1.parent = e2.parent /\ e1.name = e2.name
TreeFits(s) ==
    /\ s.folders \in Seq(ENTRY) /\ s.files \in Seq(ENTRY)
    /\ \A i \in DOMAIN s.folders :
         /\ \/ s.folders[i].parent = ROOT
            \/ \E j \in 1..(i - 1) : s.folders[i].parent = s.folders[j].ino
         /\ \A j \in DOMAIN s.folders : s.folders[i].ino = s.folders[j].ino => i = j
         /\ \A j \in DOMAIN s.folders : SamePlace(s.folders[i], s.folders[j]) => i = j
    /\ \A i \in DOMAIN s.files :
         /\ \/ s.files[i].parent = ROOT
            \/ \E j \in DOMAIN s.folders : s.files[i].parent = s.folders[j].ino
         /\ \A j \in DOMAIN s.folders : s.files[i].ino # s.folders[j].ino
         /\ \A j \in DOMAIN s.folders : ~SamePlace(s.files[i], s.folders[j])
         /\ \A j \in DOMAIN s.files : SamePlace(s.files[i], s.files[j]) => i = j
    /\ \A e \in Range(s.folders) \cup Range(s.files) : ~(e.parent = ROOT /\ e.name = INIT_NAME)

\* The entry the attributes x are of.
EntryOf(x) == [ino |-> x.ino, parent |-> x.parent, name |-> x.name]
InodesFit(s) ==
    LET users  == {ROOT_USER} \cup {u.uid : u \in Range(s.users)}
        groups == {ROOT_GROUP} \cup Range(s.groups)
        dirs   == {ROOT} \cup {e.ino : e \in Range(s.folders)}
        root   == s.inodes[ROOT]
    IN  /\ DOMAIN s.inodes = dirs \cup {e.ino : e \in Range(s.files)}
        /\ \A f \in DOMAIN s.inodes : /\ IsInode(s.inodes[f], users, groups)
                                      /\ s.inodes[f].mode.dir <=> f \in dirs
        /\ root.uid = ROOT_USER /\ root.gid = ROOT_GROUP /\ root.acl.mask = {}
        /\ root.mode.u = ACCESS /\ root.mode.g = ACCESS /\ root.mode.o = ACCESS
        /\ root.mode.special = {}
        /\ \E e \in Range(s.files) : e.ino = EXE_FILE
        /\ \A x \in Range(s.folders_xattrs) : EntryOf(x) \in Range(s.folders)
        /\ \A x \in Range(s.files_xattrs) : EntryOf(x) \in Range(s.files)

\* The machine has room for one more file and a descriptor for it.
ASSUME SetupAssumption ==
    /\ MAX_CHMODS \in Nat
    /\ PROTECTED_REGULAR \in 0..2
    /\ PROC \in PROCS \ {INIT_PROC}
    /\ FILE_DESCRIPTORS # {}
    /\ CHMODS \subseteq MODE
    /\ \A s \in SNAPSHOTS :
         /\ AccountsFit(s) /\ TreeFits(s) /\ InodesFit(s)
         /\ s.folders_xattrs \in Seq(Range(s.folders_xattrs))
         /\ s.files_xattrs \in Seq(Range(s.files_xattrs))
         /\ FILES \ (DOMAIN s.inodes \cup {INIT_EXE}) # {}

VARIABLES
    snapshot,       \* the output of gather_info.sh
    disk,           \* the inodes of the container
    item,           \* the number of the item that the loop of the set-up is at
    ops,            \* events of the item still to be sent
    chmods,         \* calls of chmod by the program
    opened,         \* the case of the last open, and what the machine sees of it
    verdict,        \* what the kernel and the machine say of the last call, and
                    \* whether a rule the machine lacks has decided
    pc              \* a loop of _replay_setup, or what comes after it

allVars == <<vars, snapshot, disk, item, ops, chmods, opened, verdict, pc>>

NoCase == [event |-> "none", grd |-> "none", on |-> {}, off |-> {}, some |-> {}]
NotOpened == [case |-> NoCase, seen |-> {}]
Agreed == [kernel |-> TRUE, machine |-> TRUE, lacks |-> FALSE]

-----------------------------------------------------------------------------
(* Modes and ACLs on their way to the machine.                             *)

\* The type of the file is dropped by S_IMODE.
translate_mode(mode) ==
    Bits("U", mode.u) \cup Bits("G", mode.g) \cup Bits("O", mode.o)
      \cup {Modes[b] : b \in mode.special}

\* 0o777 and 0o070.
AllPerms == PERMISSIONS \ FILE_MODES
GroupPerms == GROUP_PERMISSIONS

\* The rights of an entry that the mask leaves.
Effective(acl, acc) == {x \in acc : \A m \in acl.mask : x \in m}

\* getfacl -e prints the effective rights last, and the pattern takes the
\* last three characters of the line.
Shown(acl, acc) == Effective(acl, acc)

\* The entries with a qualifier, of the inodes inos.
NamedUsers(s, inos) ==
    {p \in inos \X USERS : p[2] \in DOMAIN s.inodes[p[1]].acl.user}

\* Seeded slip: a group with a qualifier is taken for the owning group.
NamedGroups_None(s, inos) == {}

NamedGroups(s, inos) ==
    {p \in inos \X GROUPS : p[2] \in DOMAIN s.inodes[p[1]].acl.group}

\* set_init_acl and set_acl: ROOT and INIT_EXE are not in the snapshot.
AclEvent(s) ==
    LET inos == DOMAIN s.inodes \ {ROOT}
        acl(f) == s.inodes[f].acl
    IN  [userACL |-> [e \in NamedUsers(s, inos) |->
                        Bits("U", Shown(acl(e[1]), acl(e[1]).user[e[2]]))],
         groupACL |-> [e \in NamedGroups(s, inos) |->
                         Bits("G", Shown(acl(e[1]), acl(e[1]).group[e[2]]))],
         groupObjACL |-> [f \in inos \cup {ROOT, INIT_EXE} |->
                            IF f \in inos THEN Bits("G", Shown(acl(f), acl(f).obj))
                                          ELSE GroupPerms],
         maskACL |-> [f \in {i \in inos : acl(i).mask # {}} |->
                        Bits("G", s.inodes[f].mode.g)],
         dacPermissions |-> [f \in inos \cup {ROOT, INIT_EXE} |->
                               IF f \in inos THEN translate_mode(s.inodes[f].mode)
                                             ELSE AllPerms]]

-----------------------------------------------------------------------------
(* The set-up events, in the order of _replay_setup.                       *)

\* The descriptor of every file the set-up creates, number 3 of process 0.
InitFD == CHOOSE d \in FILE_DESCRIPTORS : TRUE

Op(op, e) == [op |-> op, e |-> e]

add_init_folder(e) == <<Op("mkdir", e), Op("chown", e), Op("chmod", e)>>

\* A second path of an inode is a link to its first.
add_init_file_or_link(files, i) ==
    LET first == CHOOSE j \in 1..i : /\ files[j].ino = files[i].ino
                                     /\ \A k \in 1..(j - 1) : files[k].ino # files[i].ino
    IN  IF first < i
        THEN <<Op("link", [old |-> files[first], new |-> files[i]])>>
        ELSE <<Op("creat", files[i]), Op("fchown", files[i]),
               Op("fchmod", files[i]), Op("close", files[i])>>

\* The loops of _replay_setup, with what each sends for an item.
After == [groups |-> "users", users |-> "folders", folders |-> "folders_xattrs",
          folders_xattrs |-> "files", files |-> "files_xattrs", files_xattrs |-> "acl",
          acl |-> "login"]
LOOPS == DOMAIN After
Items(s, loop) == IF loop = "acl" THEN <<s>> ELSE s[loop]
SetupEvents(s, loop, i) ==
    LET e == Items(s, loop)[i] IN
    CASE loop = "groups"  -> <<Op("create_group", e)>>
      [] loop = "users"   -> <<Op("create_user", e)>>
      [] loop = "folders" -> add_init_folder(e)
      [] loop = "files"   -> add_init_file_or_link(s.files, i)
      [] loop = "acl"     -> <<Op("set_acl", e)>>
      [] OTHER            -> <<Op("setxattr", e)>>

\* The builder reports gid 0 and mode 0o777 for what INIT creates; the guards
\* of mkdir and of open_create compare them with what the machine computes.
CreatedAsReported(parent, perms) ==
    InheritedGroup(INIT_PROC, parent) = ROOT_GROUP /\ perms = AllPerms

\* The guards of chown and fchown compare the bits a change of owner leaves;
\* the builder reports 0o777 again.
ChownedAsReported(file) == ChownPerms(file) = AllPerms

\* Seeded slip: creat is sent with the flags of open.
CreatFlags_Open == {"O_CREAT", "O_WRONLY"}
CreatFlags == {"O_CREAT", "O_TRUNC", "O_WRONLY"}

\* The owner and the mode of the snapshot's entry e.
Ino(e) == snapshot.inodes[e.ino]

\* The guards of the event hold; then it happens.
Accepts(op, e) ==
    \/ op = "create_group" /\ grd_create_group(e)
    \/ op = "create_user" /\ grd_create_user(e.uid, e.gids)
    \/ /\ op = "mkdir"
       /\ grd_mkdir(INIT_PROC, e.parent, e.ino, e.name)
       /\ CreatedAsReported(e.parent, MkdirPerms(INIT_PROC, e.parent, AllPerms))
    \/ /\ op = "chown"
       /\ grd_path(INIT_PROC, e.parent, e.ino, e.name)
       /\ MayChown(INIT_PROC, e.ino, Ino(e).uid, Ino(e).gid)
       /\ ChownedAsReported(e.ino)
    \/ /\ op = "chmod"
       /\ grd_path(INIT_PROC, e.parent, e.ino, e.name) /\ IsRootOrOwner(INIT_PROC, e.ino)
    \/ op = "setxattr" /\ grd_setxattr(INIT_PROC, e.parent, e.ino, e.name, e.attr, {})
    \/ /\ op = "creat"
       /\ grd_creat(INIT_PROC, e.parent, e.ino, e.name, CreatFlags, InitFD, 3)
       /\ CreatedAsReported(e.parent, AllPerms \ ProcUmask[INIT_PROC])
    \/ /\ op = "fchown"
       /\ grd_fd(INIT_PROC, InitFD)
       /\ MayChown(INIT_PROC, FDFile[InitFD], Ino(e).uid, Ino(e).gid)
       /\ ChownedAsReported(FDFile[InitFD])
    \/ op = "fchmod" /\ grd_fd(INIT_PROC, InitFD) /\ IsRootOrOwner(INIT_PROC, FDFile[InitFD])
    \/ op = "close" /\ grd_close(INIT_PROC, InitFD)
    \/ op = "link" /\ grd_link_Protected(INIT_PROC, e.old.parent, e.new.parent, e.old.ino,
                                         e.old.name, e.new.name)
    \/ op = "set_acl" /\ grd_set_acl(AclEvent(e))

SetupEvent(op, e) ==
    \/ op = "create_group" /\ create_group(e)
    \/ op = "create_user" /\ create_user(e.uid, e.gids, {})
    \/ op = "mkdir" /\ mkdir(INIT_PROC, e.parent, e.ino, e.name, AllPerms)
    \/ op = "chown" /\ chown(INIT_PROC, e.parent, e.ino, e.name, Ino(e).uid, Ino(e).gid)
    \/ op = "chmod" /\ chmod(INIT_PROC, e.parent, e.ino, e.name, translate_mode(Ino(e).mode))
    \/ op = "setxattr" /\ setxattr(INIT_PROC, e.parent, e.ino, e.name, e.attr, e.value, {})
    \/ op = "creat" /\ creat(INIT_PROC, e.parent, e.ino, e.name, CreatFlags, AllPerms, InitFD, 3)
    \/ op = "fchown" /\ fchown(INIT_PROC, InitFD, Ino(e).uid, Ino(e).gid)
    \/ op = "fchmod" /\ fchmod(INIT_PROC, InitFD, translate_mode(Ino(e).mode))
    \/ op = "close" /\ close(INIT_PROC, InitFD)
    \/ op = "link" /\ link_Protected(INIT_PROC, e.old.parent, e.new.parent, e.old.ino,
                                     e.old.name, e.new.name)
    \/ op = "set_acl" /\ set_acl(AclEvent(e))

NextItem ==
    /\ pc \in LOOPS /\ ops = <<>>
    /\ IF item < Len(Items(snapshot, pc))
       THEN item' = item + 1 /\ ops' = SetupEvents(snapshot, pc, item + 1) /\ pc' = pc
       ELSE item' = 0 /\ pc' = After[pc] /\ UNCHANGED ops
    /\ UNCHANGED <<vars, snapshot, disk, chmods, opened, verdict>>

Setup ==
    /\ pc \in LOOPS /\ ops # <<>>
    /\ ops' = Tail(ops)
    /\ IF Accepts(Head(ops).op, Head(ops).e)
       THEN SetupEvent(Head(ops).op, Head(ops).e) /\ pc' = pc
       ELSE pc' = "refused" /\ UNCHANGED vars
    /\ UNCHANGED <<snapshot, disk, item, chmods, opened, verdict>>

\* The execve that starts the program: sudo gives it any user of the test and
\* any group.
Login(user, group) ==
    /\ pc = "login"
    /\ IF grd_login(user, PROC, group, EXE_FILE)
       THEN login(user, PROC, group, EXE_FILE, {}) /\ pc' = "running"
       ELSE pc' = "refused" /\ UNCHANGED vars
    /\ UNCHANGED <<snapshot, disk, item, ops, chmods, opened, verdict>>

-----------------------------------------------------------------------------
(* The kernel (external): acl_permission_check and posix_acl_permission,   *)
(* the flags open accepts (Linux 6.4 and later), fs.protected_hardlinks    *)
(* and fs.protected_regular.                                               *)

\* root, too, executes only a file that somebody may execute.
KernelAllows(f, acc) ==
    LET i       == disk[f]
        user    == ProcUser[PROC]
        groups  == GroupsOf(PROC)
        entries == {i.acl.group[g] : g \in groups \cap DOMAIN i.acl.group}
                     \cup (IF i.gid \in groups THEN {i.acl.obj} ELSE {})
    IN  IF user = ROOT_USER
        THEN "x" \in acc => i.mode.dir \/ "x" \in i.mode.u \cup i.mode.g \cup i.mode.o
        ELSE IF user = i.uid THEN acc \subseteq i.mode.u
        ELSE IF i.acl.mask = {} \/ i.mode.g = {}
        THEN acc \subseteq (IF i.gid \in groups THEN i.mode.g ELSE i.mode.o)
        ELSE IF user \in DOMAIN i.acl.user
        THEN acc \subseteq Effective(i.acl, i.acl.user[user])
        ELSE IF entries # {}
        THEN \E e \in entries : acc \subseteq Effective(i.acl, e)
        ELSE acc \subseteq i.mode.o

KernelReaches(dir) == \A d \in PathToRoot[dir] \cup {dir} : KernelAllows(d, {"x"})
KernelAdds(dir) == KernelReaches(dir) /\ KernelAllows(dir, {"w", "x"})

\* may_create_in_sticky: an existing file of somebody else is not opened in
\* place of a new one.
ProtectedRegular(flags, f, parent) ==
    LET dir == disk[parent] IN
    /\ PROTECTED_REGULAR > 0
    /\ "CREAT" \in flags /\ "PATH" \notin flags
    /\ "S_ISVTX" \in dir.mode.special
    /\ disk[f].uid \notin {dir.uid, ProcUser[PROC]}
    /\ "w" \in dir.mode.o \/ (PROTECTED_REGULAR = 2 /\ "w" \in dir.mode.g)

\* Everything else that open asks of an existing file.
MayOpen(flags, f, parent) ==
    LET writes == flags \cap {"WRONLY", "RDWR"} # {}
        acc    == (IF "WRONLY" \in flags /\ "RDWR" \notin flags THEN {} ELSE {"r"})
                    \cup (IF writes THEN {"w"} ELSE {})
    IN  /\ KernelReaches(parent)
        /\ "DIRECTORY" \in flags => disk[f].mode.dir
        /\ "PATH" \notin flags =>
              /\ "CREAT" \in flags => flags \cap {"EXCL", "DIRECTORY"} = {}
              /\ disk[f].mode.dir => "CREAT" \notin flags /\ ~writes
              /\ KernelAllows(f, acc)

\* O_TMPFILE wants an existing directory.
KernelCreates(flags, parent) ==
    /\ "CREAT" \in flags
    /\ flags \cap {"PATH", "DIRECTORY", "TMPFILE"} = {}
    /\ KernelAdds(parent)

\* safe_hardlink_source: nobody links the set-ID program of somebody else.
UnsafeSource(f) ==
    LET mode == disk[f].mode IN
    /\ ProcUser[PROC] \notin {ROOT_USER, disk[f].uid}
    /\ "S_ISUID" \in mode.special \/ ("S_ISGID" \in mode.special /\ "x" \in mode.g)

\* Everything else that link asks, the rest of fs.protected_hardlinks with it.
MayLink(f, oldParent, newParent) ==
    /\ KernelReaches(oldParent)
    /\ KernelAdds(newParent)
    /\ ~disk[f].mode.dir
    /\ \/ ProcUser[PROC] \in {ROOT_USER, disk[f].uid}
       \/ KernelAllows(f, {"r", "w"})

-----------------------------------------------------------------------------
(* The calls of the program.  The trace translator sends open_exists when  *)
(* it knows the path and open_create when it does not.                     *)

\* The event goes to the machine, whose guards are guard, with the outcome of
\* the call in the kernel: it passes if may holds and the rule that the machine
\* lacks does not forbid it.  When the machine refuses it, or they differ, the
\* machine stays as it is.
Send(guard, event, may, rule) ==
    /\ pc = "running"
    /\ verdict' = [kernel |-> may /\ ~rule, machine |-> guard, lacks |-> may /\ rule]
    /\ IF may /\ ~rule /\ guard THEN event ELSE UNCHANGED vars
    /\ UNCHANGED <<snapshot, item, ops>>

Entries == {e \in FileParents : e[1] \in DOMAIN disk}

OpenExists(e, c, a) ==
    LET flags == translate_file_flags(model_to_flags(a)) IN
    /\ c.event = "open_exists"
    /\ ("is_folder" \in a) = disk[e[1]].mode.dir
    /\ Send(\E fd \in FILE_DESCRIPTORS : grd_open_exists_EXT(PROC, e[2], e[1], e[3], flags, fd, 3),
            \E fd \in FILE_DESCRIPTORS : open_exists_EXT(PROC, e[2], e[1], e[3], flags, fd, 3),
            MayOpen(model_to_flags(a), e[1], e[2]),
            ProtectedRegular(model_to_flags(a), e[1], e[2]))
    /\ opened' = [case |-> c, seen |-> Seen(c.event, flags, disk[e[1]].mode.dir)]
    /\ pc' = "ended"
    /\ UNCHANGED <<disk, chmods>>

OpenCreate(parent, c, a) ==
    LET flags == translate_file_flags(model_to_flags(a)) IN
    /\ c.event = "open_create"
    /\ NameIsFree(parent, NEW_NAME)
    /\ Send(\E file \in FILES \ Files, fd \in FILE_DESCRIPTORS :
               grd_open_create_EXT(PROC, parent, file, NEW_NAME, flags, fd, 3),
            \E file \in FILES \ Files, fd \in FILE_DESCRIPTORS :
               open_create_EXT(PROC, parent, file, NEW_NAME, flags, AllPerms, fd, 3),
            KernelCreates(model_to_flags(a), parent), FALSE)
    /\ opened' = [case |-> c, seen |-> Seen(c.event, flags, FALSE)]
    /\ pc' = "ended"
    /\ UNCHANGED <<disk, chmods>>

\* The group bits are those of the mask where there is one.
Chmod(e, mode) ==
    LET i      == disk[e[1]]
        kernel == KernelReaches(e[2]) /\ ProcUser[PROC] \in {ROOT_USER, i.uid}
        acl    == IF i.acl.mask # {} THEN [i.acl EXCEPT !.mask = {mode.g}]
                                     ELSE [i.acl EXCEPT !.obj = mode.g]
    IN  /\ chmods < MAX_CHMODS
        /\ mode.dir = i.mode.dir
        /\ Send(grd_path(PROC, e[2], e[1], e[3]) /\ IsRootOrOwner(PROC, e[1]),
                chmod(PROC, e[2], e[1], e[3], translate_mode(mode)), kernel, FALSE)
        /\ disk' = IF kernel THEN [disk EXCEPT ![e[1]].mode = mode, ![e[1]].acl = acl]
                             ELSE disk
        /\ chmods' = chmods + 1
        /\ UNCHANGED <<opened, pc>>

Link(e, newParent) ==
    /\ NameIsFree(newParent, NEW_NAME)
    /\ Send(grd_link_Protected(PROC, e[2], newParent, e[1], e[3], NEW_NAME),
            link_Protected(PROC, e[2], newParent, e[1], e[3], NEW_NAME),
            MayLink(e[1], e[2], newParent), UnsafeSource(e[1]))
    /\ pc' = "ended"
    /\ UNCHANGED <<disk, chmods, opened>>

-----------------------------------------------------------------------------
SetupInit ==
    /\ Init
    /\ snapshot \in SNAPSHOTS
    /\ disk = snapshot.inodes
    /\ item = 0
    /\ ops = <<>>
    /\ chmods = 0
    /\ opened = NotOpened
    /\ verdict = Agreed
    /\ pc = "groups"

SetupNext ==
    \/ NextItem
    \/ Setup
    \/ \E user \in Users, group \in Groups : Login(user, group)
    \/ /\ pc = "running"
       /\ \/ \E t \in TESTS :
                \/ \E e \in Entries : OpenExists(e, t.case, t.model)
                \/ \E parent \in Folders : OpenCreate(parent, t.case, t.model)
          \/ \E e \in Entries :
                \/ \E mode \in CHMODS : Chmod(e, mode)
                \/ \E newParent \in Folders : Link(e, newParent)

SetupSpec == SetupInit /\ [][SetupNext]_allVars

-----------------------------------------------------------------------------
(* Properties.                                                             *)

\* A set-group-ID directory with something in it.
SetGidParent ==
    \E i \in 1..Len(snapshot.folders) :
       /\ "S_ISGID" \in snapshot.inodes[snapshot.folders[i].ino].mode.special
       /\ \E e \in Range(snapshot.folders) \cup Range(snapshot.files) :
             e.parent = snapshot.folders[i].ino

\* The machine refuses no event of the set-up: the order of groups, users,
\* directories, files and ACLs satisfies every guard, and the arguments the
\* builder makes up (gid 0, mode 0o777, the entries of ROOT and INIT_EXE) are
\* those the machine computes.  Not so below a set-group-ID directory.
SetupAccepted == pc = "refused" => SetGidParent

\* The access the machine grants to the program; execve also wants the file
\* to be executable for somebody.
Allows(f, acc) ==
    May(PROC, f, acc) /\ ("x" \in acc /\ f \notin Folders => IsExecutable(f))

\* From the login on, the machine grants the program exactly the accesses the
\* kernel grants, through every order of mode, owner, mask and named entries
\* and after chmod.  The set-up has given the machine only the effective
\* rights; what a wider mask would uncover is nothing to the owner and to
\* root, the only ones who can widen it.
AccessSame ==
    pc = "running" =>
       \A f \in DOMAIN disk, acc \in ACCESSES : Allows(f, acc) <=> KernelAllows(f, acc)

\* The verdict of the machine on a call with generated flags, on chmod and on
\* link is the kernel's, but for the calls that the kernel refuses by
\* fs.protected_regular or safe_hardlink_source and by nothing else: the
\* machine has neither rule and accepts exactly these as well.
VerdictsAgree == verdict.machine <=> verdict.kernel \/ verdict.lacks

\* The truth values for which a test was generated are those the guards of
\* the machine see in the flags it receives: translation loses no case, but
\* for those without an access mode, which O_RDONLY, having no bit, repairs.
CasesKept ==
    LET c == opened.case IN
    c # NoCase /\ ~(c.on = {} /\ {"rdonly", "wronly", "rdwr"} \subseteq c.off)
      => Satisfies(opened.seen, c)
=============================================================================
