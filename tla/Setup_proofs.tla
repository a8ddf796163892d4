---------------------------- MODULE Setup_proofs ----------------------------
(***************************************************************************)
(* Proofs about Setup and OpenFlags, for every snapshot and every program. *)
(* The flags of a generated test reach the machine with the truth values   *)
(* the test was generated for (CasesArrive).  The machine accepts the      *)
(* events of the set-up (SetupNeverRefused), and then grants what the      *)
(* kernel grants (AccessAgrees) and judges each call as the kernel does    *)
(* (VerdictsSame).                                                         *)
(*                                                                         *)
(* While the loops of _replay_setup run, the invariant says how far they   *)
(* have come and what the machine has been told by then; from the login on *)
(* it follows each file of the kernel in the maps of the machine.          *)
(***************************************************************************)
EXTENDS Setup, FiniteSetTheorems, WellFoundedInduction, TLAPS

\* A case for which the solver may find no access mode at all.
NoMode(c) == c.on = {} /\ {"rdonly", "wronly", "rdwr"} \subseteq c.off

-----------------------------------------------------------------------------
(* The bits of a flag and back.                                            *)

\* The bits in the argument of the call are those of the true variables.
LEMMA BitsOfModel ==
    ASSUME NEW event \in {"open_create", "open_exists"}, NEW a, a \subseteq VARS[event]
    PROVE  /\ "WRONLY" \in model_to_flags(a) <=> "wronly" \in a
           /\ "RDWR" \in model_to_flags(a) <=> "rdwr" \in a
           /\ "CREAT" \in model_to_flags(a) <=> "creat" \in a
           /\ "EXCL" \in model_to_flags(a) <=> "excl" \in a
           /\ "PATH" \in model_to_flags(a) <=> "path" \in a
           /\ "TMPFILE" \in model_to_flags(a) <=> "tmpfile" \in a
           /\ "DIRECTORY" \in model_to_flags(a) <=> "directory" \in a \/ "tmpfile" \in a
<1>1. a \subseteq {"creat", "tmpfile", "rdonly", "wronly", "rdwr", "path", "excl", "directory",
                   "is_folder"}
  BY DEF VARS
<1>2. \A b : b \in model_to_flags(a) <=> \E v \in a \ {"is_folder"} : b \in FileFlags[FlagOf[v]]
  BY DEF model_to_flags
<1>3. /\ FileFlags[FlagOf["creat"]] = {"CREAT"} /\ FileFlags[FlagOf["rdonly"]] = {}
      /\ FileFlags[FlagOf["wronly"]] = {"WRONLY"} /\ FileFlags[FlagOf["rdwr"]] = {"RDWR"}
      /\ FileFlags[FlagOf["path"]] = {"PATH"} /\ FileFlags[FlagOf["excl"]] = {"EXCL"}
      /\ FileFlags[FlagOf["directory"]] = {"DIRECTORY"}
      /\ FileFlags[FlagOf["tmpfile"]] = {"TMPFILE", "DIRECTORY"}
  BY DEF FileFlags, FlagOf
<1> QED BY <1>1, <1>2, <1>3

\* What the machine receives: one access mode, and the other flags unchanged.
LEMMA FlagsOfBits ==
    ASSUME NEW bits
    PROVE  /\ "O_RDWR" \in translate_file_flags(bits) <=> "RDWR" \in bits
           /\ "O_WRONLY" \in translate_file_flags(bits) <=> "WRONLY" \in bits /\ "RDWR" \notin bits
           /\ "O_RDONLY" \in translate_file_flags(bits)
                <=> "WRONLY" \notin bits /\ "RDWR" \notin bits
           /\ "O_CREAT" \in translate_file_flags(bits) <=> "CREAT" \in bits
           /\ "O_EXCL" \in translate_file_flags(bits) <=> "EXCL" \in bits
           /\ "O_PATH" \in translate_file_flags(bits) <=> "PATH" \in bits
           /\ "O_DIRECTORY" \in translate_file_flags(bits) <=> "DIRECTORY" \in bits
           /\ "O_TMPFILE" \in translate_file_flags(bits)
                <=> "TMPFILE" \in bits /\ "DIRECTORY" \in bits
<1> DEFINE mode == IF "RDWR" \in bits THEN "O_RDWR"
                   ELSE IF "WRONLY" \in bits THEN "O_WRONLY" ELSE "O_RDONLY"
           rest == bits \ {"WRONLY", "RDWR"}
<1>1. DOMAIN FileFlags = {"O_RDONLY", "O_WRONLY", "O_RDWR", "O_CREAT", "O_EXCL", "O_TRUNC",
                          "O_DIRECTORY", "O_CLOEXEC", "O_PATH", "O_TMPFILE"}
  BY DEF FileFlags
<1>2. /\ FileFlags["O_CREAT"] = {"CREAT"} /\ FileFlags["O_EXCL"] = {"EXCL"}
      /\ FileFlags["O_PATH"] = {"PATH"} /\ FileFlags["O_DIRECTORY"] = {"DIRECTORY"}
      /\ FileFlags["O_TMPFILE"] = {"TMPFILE", "DIRECTORY"}
  BY DEF FileFlags
<1>3. \A f : f \in translate_file_flags(bits) <=>
               \/ f = mode
               \/ f \in DOMAIN FileFlags \ ACCESS_MODES /\ FileFlags[f] \subseteq rest
  BY DEF translate_file_flags
<1>4. /\ "O_RDWR" \in translate_file_flags(bits) <=> mode = "O_RDWR"
      /\ "O_WRONLY" \in translate_file_flags(bits) <=> mode = "O_WRONLY"
      /\ "O_RDONLY" \in translate_file_flags(bits) <=> mode = "O_RDONLY"
  BY <1>3 DEF ACCESS_MODES
<1>5. \A f \in {"O_CREAT", "O_EXCL", "O_PATH", "O_DIRECTORY", "O_TMPFILE"} :
        f \in translate_file_flags(bits) <=> FileFlags[f] \subseteq rest
  BY <1>1, <1>3 DEF ACCESS_MODES
<1> QED BY <1>2, <1>4, <1>5

\* The way there and back changes nothing but the access mode, and that only
\* where there is none or more than one.
LEMMA RoundTrip ==
    ASSUME NEW event \in {"open_create", "open_exists"}, NEW a, a \subseteq VARS[event],
           NEW isFolder, event = "open_exists" => ("is_folder" \in a <=> isFolder),
           SomeMode(a), OneMode(a)
    PROVE  Seen(event, translate_file_flags(model_to_flags(a)), isFolder) = a
<1>0. PICK flags : flags = translate_file_flags(model_to_flags(a))
  OBVIOUS
<1>1. /\ "O_RDWR" \in flags <=> "rdwr" \in a
      /\ "O_WRONLY" \in flags <=> "wronly" \in a /\ "rdwr" \notin a
      /\ "O_RDONLY" \in flags <=> "wronly" \notin a /\ "rdwr" \notin a
      /\ "O_CREAT" \in flags <=> "creat" \in a
      /\ "O_EXCL" \in flags <=> "excl" \in a
      /\ "O_PATH" \in flags <=> "path" \in a
      /\ "O_TMPFILE" \in flags <=> "tmpfile" \in a
      /\ "O_DIRECTORY" \in flags <=> "directory" \in a \/ "tmpfile" \in a
  BY <1>0, BitsOfModel, FlagsOfBits
<1>2. /\ "O_WRONLY" \in flags <=> "wronly" \in a
      /\ "O_RDONLY" \in flags <=> "rdonly" \in a
  <2>1. ~({"wronly", "rdwr"} \subseteq a) /\ ~({"rdonly", "rdwr"} \subseteq a)
        /\ ~({"rdonly", "wronly"} \subseteq a)
    BY DEF OneMode
  <2>2. "rdonly" \in a \/ "wronly" \in a \/ "rdwr" \in a
    BY DEF SomeMode
  <2> QED BY <1>1, <2>1, <2>2
<1>3. /\ FlagOf["creat"] = "O_CREAT" /\ FlagOf["tmpfile"] = "O_TMPFILE"
      /\ FlagOf["rdonly"] = "O_RDONLY" /\ FlagOf["wronly"] = "O_WRONLY"
      /\ FlagOf["rdwr"] = "O_RDWR" /\ FlagOf["path"] = "O_PATH"
      /\ FlagOf["excl"] = "O_EXCL" /\ FlagOf["directory"] = "O_DIRECTORY"
  BY DEF FlagOf
<1>4. /\ VARS["open_create"] = {"creat", "tmpfile", "rdonly", "wronly", "rdwr", "path"}
      /\ VARS["open_exists"] = {"path", "creat", "excl", "rdonly", "wronly", "rdwr",
                                "directory", "is_folder"}
  BY DEF VARS
<1>5. \A v : v \in Seen(event, flags, isFolder) <=>
               \/ v \in VARS[event] \ {"is_folder"} /\ FlagOf[v] \in flags
               \/ isFolder /\ v \in VARS[event] /\ v = "is_folder"
  BY DEF Seen
<1>6. CASE event = "open_create"
  <2>1. \A v \in VARS[event] : v \in Seen(event, flags, isFolder) <=> v \in a
    BY <1>1, <1>2, <1>3, <1>4, <1>5, <1>6
  <2> QED BY <1>0, <1>5, <2>1
<1>7. CASE event = "open_exists"
  <2>1. \A v \in VARS[event] : v \in Seen(event, flags, isFolder) <=> v \in a
    BY <1>1, <1>2, <1>3, <1>4, <1>5, <1>7
  <2> QED BY <1>0, <1>5, <2>1
<1> QED BY <1>6, <1>7

-----------------------------------------------------------------------------
(* The cases.                                                              *)

MODE_VARS == {"rdonly", "wronly", "rdwr"}

\* No case is about the guard that there is one access mode at most; one that
\* is about the guard that there is one fixes all three.
LEMMA CasesAbout ==
    ASSUME NEW c \in CASES, ~NoMode(c)
    PROVE  \/ /\ c.event = "open_create" /\ c.grd # "grd13"
              /\ c.grd = "grd12" => c.on \cap MODE_VARS # {}
           \/ /\ c.event = "open_exists" /\ c.grd # "grd11"
              /\ c.grd = "grd10" => c.on \cap MODE_VARS # {}
<1>1. ASSUME NEW event, NEW grd, c \in ModeCases(event, grd)
      PROVE  c.event = event /\ c.grd = grd /\ c.on \cap MODE_VARS # {}
  <2>1. PICK on \in {{}} \cup {{v} : v \in MODE_VARS} : c = Case(event, grd, on, MODE_VARS \ on)
    BY <1>1 DEF ModeCases, MODE_VARS
  <2>2. c.event = event /\ c.grd = grd /\ c.on = on /\ c.off = MODE_VARS \ on
    BY <2>1 DEF Case
  <2>3. on # {}
    BY <2>2 DEF NoMode, MODE_VARS
  <2> QED BY <2>1, <2>2, <2>3
<1>2. CASE c \in open_create_flags
  <2>1. CASE c \in ModeCases("open_create", "grd12")
    BY <1>1, <2>1
  <2>2. CASE c \notin ModeCases("open_create", "grd12")
    BY <1>2, <2>2 DEF open_create_flags, Case
  <2> QED BY <2>1, <2>2
<1>3. CASE c \in open_exists_flags
  <2>1. CASE c \in ModeCases("open_exists", "grd10")
    BY <1>1, <2>1
  <2>2. CASE c \notin ModeCases("open_exists", "grd10")
    BY <1>3, <2>2 DEF open_exists_flags, Case, CaseSome
  <2> QED BY <2>1, <2>2
<1> QED BY <1>2, <1>3 DEF CASES

LEMMA SolutionHasMode ==
    ASSUME NEW c \in CASES, ~NoMode(c), NEW a, Satisfies(a, c)
    PROVE  SomeMode(a) /\ OneMode(a) /\ c.event \in {"open_create", "open_exists"}
<1>1. c.on \subseteq a /\ \A grd \in DOMAIN guards(c.event, a) \ {c.grd} : guards(c.event, a)[grd]
  BY DEF Satisfies
<1>2. c.on \cap MODE_VARS # {} => SomeMode(a)
  BY <1>1 DEF SomeMode, MODE_VARS
<1>3. CASE /\ c.event = "open_create" /\ c.grd # "grd13"
           /\ c.grd = "grd12" => c.on \cap MODE_VARS # {}
  <2>1. guards(c.event, a) = open_create_guards(a)
    BY <1>3 DEF guards
  <2>2. /\ {"grd12", "grd13"} \subseteq DOMAIN open_create_guards(a)
        /\ open_create_guards(a)["grd12"] = SomeMode(a)
        /\ open_create_guards(a)["grd13"] = OneMode(a)
    BY DEF open_create_guards
  <2> QED BY <1>1, <1>2, <1>3, <2>1, <2>2
<1>4. CASE /\ c.event = "open_exists" /\ c.grd # "grd11"
           /\ c.grd = "grd10" => c.on \cap MODE_VARS # {}
  <2>1. guards(c.event, a) = open_exists_guards(a)
    BY <1>4 DEF guards
  <2>2. /\ {"grd10", "grd11"} \subseteq DOMAIN open_exists_guards(a)
        /\ open_exists_guards(a)["grd10"] = SomeMode(a)
        /\ open_exists_guards(a)["grd11"] = OneMode(a)
    BY DEF open_exists_guards
  <2> QED BY <1>1, <1>2, <1>4, <2>1, <2>2
<1> QED BY <1>3, <1>4, CasesAbout

\* The machine sees the truth values of the case.
LEMMA SeenSatisfies ==
    ASSUME NEW t \in TESTS, ~NoMode(t.case), NEW isFolder,
           t.case.event = "open_exists" => ("is_folder" \in t.model <=> isFolder)
    PROVE  Satisfies(Seen(t.case.event, translate_file_flags(model_to_flags(t.model)), isFolder),
                     t.case)
<1>1. t.case \in CASES /\ t.model \in solve(t.case)
  BY DEF TESTS
<1>2. t.model \subseteq VARS[t.case.event] /\ Satisfies(t.model, t.case)
  BY <1>1 DEF solve
<1>3. /\ SomeMode(t.model) /\ OneMode(t.model)
      /\ t.case.event \in {"open_create", "open_exists"}
  BY <1>1, <1>2, SolutionHasMode
<1>4. Seen(t.case.event, translate_file_flags(model_to_flags(t.model)), isFolder) = t.model
  BY <1>2, <1>3, RoundTrip
<1> QED BY <1>2, <1>4

LEMMA CasesStep ==
    ASSUME CasesKept, [SetupNext]_allVars
    PROVE  CasesKept'
<1>1. CASE UNCHANGED opened
  BY <1>1 DEF CasesKept
<1>2. ASSUME NEW t \in TESTS, NEW isFolder,
             t.case.event = "open_exists" => ("is_folder" \in t.model <=> isFolder),
             opened' = [case |-> t.case,
                        seen |-> Seen(t.case.event, translate_file_flags(model_to_flags(t.model)),
                                      isFolder)]
      PROVE  CasesKept'
  BY <1>2, SeenSatisfies DEF CasesKept, NoMode
<1>3. CASE NextItem \/ Setup
  BY <1>1, <1>3 DEF NextItem, Setup
<1>4. CASE \E user \in Users, group \in Groups : Login(user, group)
  BY <1>1, <1>4 DEF Login
<1>5. ASSUME NEW t \in TESTS, NEW e \in Entries, OpenExists(e, t.case, t.model)
      PROVE  CasesKept'
  <2>1. PICK isFolder : isFolder = disk[e[1]].mode.dir
    OBVIOUS
  <2>2. /\ t.case.event = "open_exists" /\ ("is_folder" \in t.model <=> isFolder)
        /\ opened' = [case |-> t.case,
                      seen |-> Seen(t.case.event, translate_file_flags(model_to_flags(t.model)),
                                    isFolder)]
    BY <1>5, <2>1 DEF OpenExists
  <2> QED BY <1>2, <2>2
<1>6. ASSUME NEW t \in TESTS, NEW parent \in Folders, OpenCreate(parent, t.case, t.model)
      PROVE  CasesKept'
  <2>1. /\ t.case.event = "open_create"
        /\ opened' = [case |-> t.case,
                      seen |-> Seen(t.case.event, translate_file_flags(model_to_flags(t.model)),
                                    FALSE)]
    BY <1>6 DEF OpenCreate
  <2> QED BY <1>2, <2>1
<1>7. CASE \E e \in Entries :
             \/ \E mode \in CHMODS : Chmod(e, mode)
             \/ \E newParent \in Folders : Link(e, newParent)
  BY <1>1, <1>7 DEF Chmod, Link
<1>8. CASE UNCHANGED allVars
  BY <1>1, <1>8 DEF allVars
<1> QED BY <1>3, <1>4, <1>5, <1>6, <1>7, <1>8 DEF SetupNext

\* Every generated open reaches the machine with the truth values of its
\* case, whatever solution the solver found (translate_file_flags of what
\* model_to_flags made of it).
THEOREM CasesArrive == SetupSpec => []CasesKept
<1>1. SetupInit => CasesKept
  BY DEF SetupInit, CasesKept, NotOpened
<1>2. CasesKept /\ [SetupNext]_allVars => CasesKept'
  BY CasesStep
<1> QED BY <1>1, <1>2, PTL DEF SetupSpec

-----------------------------------------------------------------------------
(* The inductive invariant.  During the set-up it says how much of the     *)
(* snapshot the machine has received; while the program runs, how the      *)
(* machine and the disk correspond.                                        *)

AfterSetup == {"running", "ended", "refused"}
CREATING == {"create_group", "create_user", "mkdir", "creat", "link"}
Before == [groups |-> {}, users |-> {"groups"}, folders |-> {"groups", "users"},
           files |-> {"groups", "users", "folders", "folders_xattrs"}]

\* The operation at the head of ops is one of names.
AtOp(names) == ops # <<>> /\ Head(ops).op \in names

\* The number of items of a loop that the machine has, and the items.
Number(loop) ==
    IF pc = loop THEN IF AtOp(CREATING) THEN item - 1 ELSE item
    ELSE IF pc \in Before[loop] THEN 0 ELSE Len(snapshot[loop])
Made(loop) == {snapshot[loop][i] : i \in 1..Number(loop)}

\* What is left of the events of the item, by the place in _replay_setup.
FolderOps(e) == \/ ops = <<Op("mkdir", e), Op("chown", e), Op("chmod", e)>>
                \/ ops = <<Op("chown", e), Op("chmod", e)>>
                \/ ops = <<Op("chmod", e)>>
FileOps(files, i) ==
    LET e == files[i] IN
    \/ \E j \in 1..(i - 1) : /\ files[j].ino = e.ino
                             /\ ops = <<Op("link", [old |-> files[j], new |-> e])>>
    \/ /\ \A j \in 1..(i - 1) : files[j].ino # e.ino
       /\ ops = <<Op("creat", e), Op("fchown", e), Op("fchmod", e), Op("close", e)>>
    \/ ops = <<Op("fchown", e), Op("fchmod", e), Op("close", e)>>
    \/ ops = <<Op("fchmod", e), Op("close", e)>>
    \/ ops = <<Op("close", e)>>
OpsLeft ==
    LET e == Items(snapshot, pc)[item] IN
    \/ pc = "groups" /\ ops = <<Op("create_group", e)>>
    \/ pc = "users" /\ ops = <<Op("create_user", e)>>
    \/ pc = "folders" /\ FolderOps(e)
    \/ pc \in {"folders_xattrs", "files_xattrs"} /\ ops = <<Op("setxattr", e)>>
    \/ pc = "files" /\ FileOps(snapshot.files, item)
    \/ pc = "acl" /\ ops = <<Op("set_acl", snapshot)>>

Progress ==
    /\ pc \in LOOPS => item \in 0..Len(Items(snapshot, pc))
    /\ ops # <<>> => pc \in LOOPS /\ item # 0 /\ OpsLeft

AccountsMade ==
    /\ Groups = {ROOT_GROUP} \cup Made("groups")
    /\ Users = {ROOT_USER} \cup {e.uid : e \in Made("users")}

TreeMade ==
    /\ Folders = {ROOT} \cup {e.ino : e \in Made("folders")}
    /\ Files = Folders \cup {INIT_EXE} \cup {e.ino : e \in Made("files")}
    /\ FileParents = {<<INIT_EXE, ROOT, INIT_NAME>>}
                       \cup {<<e.ino, e.parent, e.name>> : e \in Made("folders") \cup Made("files")}
    /\ PathToRoot \in [Folders -> SUBSET Folders]

\* Whatever is created belongs to root until the next event.
OwnersMade ==
    /\ DOMAIN FileUser = Files /\ DOMAIN FileGroup = Files
    /\ \A f \in Files \ {INIT_EXE} :
          \/ FileUser[f] = snapshot.inodes[f].uid /\ FileGroup[f] = snapshot.inodes[f].gid
          \/ AtOp({"chown", "fchown"}) /\ Head(ops).e.ino = f

\* Only chmod and fchmod bring the set-group-ID bit, that of the snapshot.
ModesMade ==
    /\ DOMAIN DACPermissions = Files
    /\ pc \in LOOPS \ {"acl"} =>
          \A f \in Files : SET_GID \in DACPermissions[f] =>
             f \notin {ROOT, INIT_EXE} /\ "S_ISGID" \in snapshot.inodes[f].mode.special

\* Whatever is created has the mode 0o777 until it has its owner.
NewMade == AtOp({"chown", "fchown"}) => DACPermissions[Head(ops).e.ino] = AllPerms

\* INIT is the only process, as root, with at most one descriptor.
ProcsMade ==
    /\ Procs = {INIT_PROC} /\ ProcUser[INIT_PROC] = ROOT_USER
    /\ ProcGroup[INIT_PROC] = ROOT_GROUP /\ ProcUmask[INIT_PROC] = {}
    /\ ProcEXE[INIT_PROC] = INIT_EXE
    /\ DOMAIN ProcCwd = Procs /\ ProcCwd[INIT_PROC] = ROOT
    /\ IF AtOp({"fchown", "fchmod", "close"})
       THEN FDs = {InitFD} /\ ProcFDs = {<<INIT_PROC, InitFD>>} /\ FDFile[InitFD] = Head(ops).e.ino
       ELSE FDs = {} /\ ProcFDs = {}

\* The machine has the modes and the ACLs of the snapshot.
AclMade ==
    /\ UserACL = AclEvent(snapshot).userACL /\ GroupACL = AclEvent(snapshot).groupACL
    /\ GroupObjACL = AclEvent(snapshot).groupObjACL /\ MaskACL = AclEvent(snapshot).maskACL
    /\ DACPermissions = AclEvent(snapshot).dacPermissions

SetupInv ==
    /\ disk = snapshot.inodes /\ verdict = Agreed
    /\ Progress /\ AccountsMade /\ TreeMade /\ OwnersMade /\ ModesMade /\ NewMade /\ ProcsMade
    /\ pc = "login" \/ (pc = "acl" /\ item = 1 /\ ops = <<>>) => AclMade

\* Nobody but root and its owner can have changed the file since the login.
AsInSnapshot(f) ==
    LET acl == AclEvent(snapshot) IN
    /\ disk[f] = snapshot.inodes[f]
    /\ DACPermissions[f] = acl.dacPermissions[f]
    /\ f \in DOMAIN MaskACL <=> f \in DOMAIN acl.maskACL
    /\ f \in DOMAIN MaskACL => MaskACL[f] = acl.maskACL[f]
    /\ f \in DOMAIN GroupObjACL /\ GroupObjACL[f] = acl.groupObjACL[f]
SomeX(mode) == "x" \in mode.u \cup mode.g \cup mode.o
FileTracked(f) ==
    /\ DOMAIN disk[f] = INODE_FIELDS
    /\ FileUser[f] = disk[f].uid /\ FileGroup[f] = disk[f].gid
    /\ f \in Folders <=> disk[f].mode.dir
    /\ f # ROOT => \A acc \in ACCESSES :
                      Bits("U", acc) \subseteq DACPermissions[f] <=> acc \subseteq disk[f].mode.u
    /\ f # ROOT => (IsExecutable(f) <=> SomeX(disk[f].mode))
    /\ f = ROOT \/ ProcUser[PROC] \notin {ROOT_USER, disk[f].uid} => AsInSnapshot(f)
RunInv ==
    /\ PROC \in Procs /\ FDs = {} /\ ProcFDs = {}
    /\ \A p \in Procs : ProcCwd[p] = ROOT
    /\ DOMAIN disk = DOMAIN snapshot.inodes
    /\ Files = DOMAIN disk \cup {INIT_EXE} /\ DOMAIN DACPermissions = Files
    /\ Folders \subseteq DOMAIN disk
    /\ FileParents \subseteq (FILES \ {ROOT}) \X Folders \X STRINGS
    /\ PathToRoot \in [Folders -> SUBSET Folders]
    /\ UserACL = AclEvent(snapshot).userACL /\ GroupACL = AclEvent(snapshot).groupACL
    /\ \A f \in DOMAIN disk : FileTracked(f)

SetupIInv ==
    /\ snapshot \in SNAPSHOTS
    /\ pc \in LOOPS \cup {"login"} \cup AfterSetup
    /\ pc \notin AfterSetup => SetupInv
    /\ pc = "running" => RunInv

-----------------------------------------------------------------------------
(* Modes as sets of permissions.                                           *)

LEMMA BitsSubset ==
    ASSUME NEW class, NEW acc, NEW perms
    PROVE  Bits(class, acc) \subseteq perms <=> \A x \in acc : <<class, x>> \in perms
BY DEF Bits

LEMMA BitsMonotone ==
    ASSUME NEW class, NEW acc, NEW acc2
    PROVE  Bits(class, acc) \subseteq Bits(class, acc2) <=> acc \subseteq acc2
<1>1. \A x : <<class, x>> \in Bits(class, acc2) <=> x \in acc2
  BY DEF Bits
<1> QED BY <1>1, BitsSubset

LEMMA ModeMembers ==
    ASSUME NEW mode \in MODE
    PROVE  /\ \A x : <<"U", x>> \in translate_mode(mode) <=> x \in mode.u
           /\ \A x : <<"G", x>> \in translate_mode(mode) <=> x \in mode.g
           /\ \A x : <<"O", x>> \in translate_mode(mode) <=> x \in mode.o
           /\ SET_GID \in translate_mode(mode) <=> "S_ISGID" \in mode.special
           /\ translate_mode(mode) \subseteq PERMISSIONS
<1>1. /\ mode.u \subseteq ACCESS /\ mode.g \subseteq ACCESS /\ mode.o \subseteq ACCESS
      /\ mode.special \subseteq DOMAIN Modes
  BY DEF MODE
<1>2. /\ DOMAIN Modes = {"S_ISUID", "S_ISGID", "S_ISVTX"}
      /\ Modes["S_ISUID"] = <<"M", "suid">> /\ Modes["S_ISGID"] = <<"M", "sgid">>
      /\ Modes["S_ISVTX"] = <<"M", "sticky">>
  BY DEF Modes, SET_UID, SET_GID, STICKY_BIT
<1>3. \A p : p \in translate_mode(mode) <=>
               \/ \E x \in mode.u : p = <<"U", x>>
               \/ \E x \in mode.g : p = <<"G", x>>
               \/ \E x \in mode.o : p = <<"O", x>>
               \/ \E b \in mode.special : p = Modes[b]
  BY DEF translate_mode, Bits
<1>4. /\ \A x : <<"U", x>> \in translate_mode(mode) <=> x \in mode.u
      /\ \A x : <<"G", x>> \in translate_mode(mode) <=> x \in mode.g
      /\ \A x : <<"O", x>> \in translate_mode(mode) <=> x \in mode.o
  BY <1>1, <1>2, <1>3
<1>5. SET_GID \in translate_mode(mode) <=> "S_ISGID" \in mode.special
  BY <1>1, <1>2, <1>3 DEF SET_GID
<1>6. translate_mode(mode) \subseteq PERMISSIONS
  BY <1>1, <1>2, <1>3 DEF PERMISSIONS, USER_PERMISSIONS, GROUP_PERMISSIONS, OTHER_PERMISSIONS,
       FILE_MODES, SET_UID, SET_GID, STICKY_BIT, ACCESS
<1> QED BY <1>4, <1>5, <1>6

\* Somebody may execute the file.
LEMMA ExecuteBits ==
    ASSUME NEW f
    PROVE  IsExecutable(f) <=> \E class \in {"U", "G", "O"} : <<class, "x">> \in DACPermissions[f]
BY DEF IsExecutable

\* Which accesses a mode grants to a class, and the part of it that the mask
\* is compared with.
LEMMA ModeBits ==
    ASSUME NEW mode \in MODE, NEW acc
    PROVE  /\ Bits("U", acc) \subseteq translate_mode(mode) <=> acc \subseteq mode.u
           /\ Bits("G", acc) \subseteq translate_mode(mode) <=> acc \subseteq mode.g
           /\ Bits("O", acc) \subseteq translate_mode(mode) <=> acc \subseteq mode.o
           /\ translate_mode(mode) \cap GROUP_PERMISSIONS = Bits("G", mode.g)
<1>1. /\ Bits("U", acc) \subseteq translate_mode(mode) <=> acc \subseteq mode.u
      /\ Bits("G", acc) \subseteq translate_mode(mode) <=> acc \subseteq mode.g
      /\ Bits("O", acc) \subseteq translate_mode(mode) <=> acc \subseteq mode.o
  BY ModeMembers, BitsSubset
<1>2. mode.g \subseteq ACCESS
  BY DEF MODE
<1>3. translate_mode(mode) \cap GROUP_PERMISSIONS = Bits("G", mode.g)
  BY <1>2, ModeMembers DEF GROUP_PERMISSIONS, Bits, ACCESS
<1> QED BY <1>1, <1>3

LEMMA AllPermsFacts ==
    /\ AllPerms \subseteq PERMISSIONS /\ SET_GID \notin AllPerms
    /\ AllPerms \cap GROUP_PERMISSIONS = GroupPerms
    /\ \A acc \in ACCESSES : Bits("U", acc) \subseteq AllPerms /\ Bits("G", acc) \subseteq AllPerms
                               /\ Bits("O", acc) \subseteq AllPerms
<1>1. AllPerms \subseteq PERMISSIONS /\ SET_GID \notin AllPerms
  BY DEF AllPerms, FILE_MODES
<1>2. \A p : p \in FILE_MODES => \E x : p = <<"M", x>>
  BY DEF FILE_MODES, SET_UID, SET_GID, STICKY_BIT
<1>3. /\ \A x \in {"r", "w", "x"} : <<"U", x>> \in AllPerms /\ <<"G", x>> \in AllPerms
                                      /\ <<"O", x>> \in AllPerms
  BY <1>2 DEF AllPerms, PERMISSIONS, USER_PERMISSIONS, GROUP_PERMISSIONS, OTHER_PERMISSIONS
<1>4. AllPerms \cap GROUP_PERMISSIONS = GroupPerms
  BY <1>3 DEF GroupPerms, GROUP_PERMISSIONS
<1>5. \A acc \in ACCESSES : acc \subseteq {"r", "w", "x"}
  BY DEF ACCESSES
<1> QED BY <1>1, <1>3, <1>4, <1>5, BitsSubset

-----------------------------------------------------------------------------
(* The flags of open, as the kernel and as the machine read them.          *)

LEMMA OneAccessMode ==
    ASSUME NEW bits
    PROVE  /\ HasOneAccessMode(translate_file_flags(bits))
           /\ WritesFile(translate_file_flags(bits)) <=> bits \cap {"WRONLY", "RDWR"} # {}
           /\ Wanted(translate_file_flags(bits)) =
                (IF "WRONLY" \in bits /\ "RDWR" \notin bits THEN {} ELSE {"r"})
                  \cup (IF bits \cap {"WRONLY", "RDWR"} # {} THEN {"w"} ELSE {})
           /\ Wanted(translate_file_flags(bits)) \in ACCESSES
<1>0. PICK flags : flags = translate_file_flags(bits)
  OBVIOUS
<1>1. /\ "O_RDWR" \in flags <=> "RDWR" \in bits
      /\ "O_WRONLY" \in flags <=> "WRONLY" \in bits /\ "RDWR" \notin bits
      /\ "O_RDONLY" \in flags <=> "WRONLY" \notin bits /\ "RDWR" \notin bits
  BY <1>0, FlagsOfBits
<1>2. HasOneAccessMode(flags)
  <2>1. CASE "RDWR" \in bits
    <3>1. flags \cap AccessModes = {"O_RDWR"}
      BY <1>1, <2>1 DEF AccessModes
    <3> QED BY <3>1 DEF HasOneAccessMode, AccessModes
  <2>2. CASE "RDWR" \notin bits /\ "WRONLY" \in bits
    <3>1. flags \cap AccessModes = {"O_WRONLY"}
      BY <1>1, <2>2 DEF AccessModes
    <3> QED BY <3>1 DEF HasOneAccessMode, AccessModes
  <2>3. CASE "RDWR" \notin bits /\ "WRONLY" \notin bits
    <3>1. flags \cap AccessModes = {"O_RDONLY"}
      BY <1>1, <2>3 DEF AccessModes
    <3> QED BY <3>1 DEF HasOneAccessMode, AccessModes
  <2> QED BY <2>1, <2>2, <2>3
<1>3. /\ WritesFile(flags) <=> bits \cap {"WRONLY", "RDWR"} # {}
      /\ Wanted(flags) = (IF "WRONLY" \in bits /\ "RDWR" \notin bits THEN {} ELSE {"r"})
                           \cup (IF bits \cap {"WRONLY", "RDWR"} # {} THEN {"w"} ELSE {})
  BY <1>1 DEF WritesFile, Wanted
<1>4. Wanted(flags) \in ACCESSES
  BY <1>1 DEF Wanted, ACCESSES
<1> QED BY <1>0, <1>2, <1>3, <1>4

-----------------------------------------------------------------------------
(* What the snapshot says of an inode, and what set_acl makes of it.       *)

\* The users and groups of a snapshot.
UsersOf(s) == {ROOT_USER} \cup {u.uid : u \in Range(s.users)}
AllGroups(s) == {ROOT_GROUP} \cup Range(s.groups)
DirsOf(s) == {ROOT} \cup {e.ino : e \in Range(s.folders)}

LEMMA ElementOf ==
    ASSUME NEW S, NEW q \in Seq(S)
    PROVE  /\ DOMAIN q = 1..Len(q) /\ Len(q) \in Nat
           /\ \A i \in 1..Len(q) : q[i] \in S
OBVIOUS

LEMMA AccountsKnown ==
    ASSUME NEW s \in SNAPSHOTS
    PROVE  UsersOf(s) \subseteq USERS /\ AllGroups(s) \subseteq GROUPS
<1>1. AccountsFit(s)
  BY SetupAssumption
<1>2. \A i \in DOMAIN s.groups : s.groups[i] \in GROUPS
  <2>1. s.groups \in Seq(GROUPS \ {ROOT_GROUP})
    BY <1>1 DEF AccountsFit
  <2> QED BY <2>1
<1>3. \A i \in DOMAIN s.users : s.users[i].uid \in USERS
  <2> DEFINE USER == [uid : USERS \ {ROOT_USER}, gids : SUBSET ({ROOT_GROUP} \cup Range(s.groups))]
  <2>1. s.users \in Seq(USER)
    BY <1>1 DEF AccountsFit
  <2>2. \A i \in DOMAIN s.users : s.users[i] \in USER
    <3> HIDE DEF USER
    <3> QED BY <2>1, ElementOf
  <2> QED BY <2>2
<1> QED BY <1>2, <1>3, ContextAssumption DEF UsersOf, AllGroups, Range

LEMMA InodeFacts ==
    ASSUME NEW s \in SNAPSHOTS, NEW f \in DOMAIN s.inodes
    PROVE  /\ s.inodes[f].uid \in UsersOf(s) /\ s.inodes[f].gid \in AllGroups(s)
           /\ s.inodes[f].mode \in MODE /\ DOMAIN s.inodes[f] = INODE_FIELDS
           /\ s.inodes[f].mode.dir <=> f \in DirsOf(s)
           /\ IsPartial(s.inodes[f].acl.user, UsersOf(s), SUBSET ACCESS)
           /\ IsPartial(s.inodes[f].acl.group, AllGroups(s), SUBSET ACCESS)
           /\ s.inodes[f].acl.obj \subseteq ACCESS
           /\ s.inodes[f].acl.mask \subseteq {s.inodes[f].mode.g}
           /\ s.inodes[f].acl.mask = {} =>
                 /\ s.inodes[f].acl.obj = s.inodes[f].mode.g
                 /\ DOMAIN s.inodes[f].acl.user = {} /\ DOMAIN s.inodes[f].acl.group = {}
<1>1. InodesFit(s)
  BY SetupAssumption
<1>2. IsInode(s.inodes[f], UsersOf(s), AllGroups(s))
  BY <1>1 DEF InodesFit, UsersOf, AllGroups
<1>3. s.inodes[f].mode.dir <=> f \in DirsOf(s)
  BY <1>1 DEF InodesFit, DirsOf
<1>4. \A A, B : A \cup B = {} => A = {} /\ B = {}
  OBVIOUS
<1> QED BY <1>2, <1>3, <1>4 DEF IsInode

LEMMA InodesOf ==
    ASSUME NEW s \in SNAPSHOTS
    PROVE  /\ DOMAIN s.inodes = DirsOf(s) \cup {e.ino : e \in Range(s.files)}
           /\ ROOT \in DOMAIN s.inodes /\ INIT_EXE \notin DOMAIN s.inodes
           /\ DOMAIN s.inodes \subseteq FILES
           /\ s.inodes[ROOT].uid = ROOT_USER /\ s.inodes[ROOT].gid = ROOT_GROUP
           /\ s.inodes[ROOT].acl.mask = {}
           /\ s.inodes[ROOT].mode.g = ACCESS /\ s.inodes[ROOT].mode.o = ACCESS
<1>1. InodesFit(s) /\ TreeFits(s)
  BY SetupAssumption
<1>2. /\ DOMAIN s.inodes = DirsOf(s) \cup {e.ino : e \in Range(s.files)}
      /\ s.inodes[ROOT].uid = ROOT_USER /\ s.inodes[ROOT].gid = ROOT_GROUP
      /\ s.inodes[ROOT].acl.mask = {}
      /\ s.inodes[ROOT].mode.g = ACCESS /\ s.inodes[ROOT].mode.o = ACCESS
  BY <1>1 DEF InodesFit, DirsOf
<1>3. \A e \in Range(s.folders) \cup Range(s.files) : e.ino \in FILES \ {ROOT, INIT_EXE}
  <2>1. /\ \A i \in DOMAIN s.folders : s.folders[i] \in ENTRY
        /\ \A i \in DOMAIN s.files : s.files[i] \in ENTRY
    BY <1>1 DEF TreeFits
  <2> QED BY <2>1 DEF ENTRY, Range
<1> QED BY <1>2, <1>3, ContextAssumption DEF DirsOf

\* The event of set_acl, file by file.
LEMMA AclEventFile ==
    ASSUME NEW s \in SNAPSHOTS, NEW f \in DOMAIN s.inodes \ {ROOT}
    PROVE  /\ AclEvent(s).dacPermissions[f] = translate_mode(s.inodes[f].mode)
           /\ f \in DOMAIN AclEvent(s).maskACL <=> s.inodes[f].acl.mask # {}
           /\ s.inodes[f].acl.mask # {} => AclEvent(s).maskACL[f] = Bits("G", s.inodes[f].mode.g)
           /\ AclEvent(s).groupObjACL[f] =
                Bits("G", Effective(s.inodes[f].acl, s.inodes[f].acl.obj))
           /\ \A u : <<f, u>> \in DOMAIN AclEvent(s).userACL <=> u \in DOMAIN s.inodes[f].acl.user
           /\ \A g : <<f, g>> \in DOMAIN AclEvent(s).groupACL <=> g \in DOMAIN s.inodes[f].acl.group
           /\ \A u \in DOMAIN s.inodes[f].acl.user :
                 AclEvent(s).userACL[<<f, u>>] =
                   Bits("U", Effective(s.inodes[f].acl, s.inodes[f].acl.user[u]))
           /\ \A g \in DOMAIN s.inodes[f].acl.group :
                 AclEvent(s).groupACL[<<f, g>>] =
                   Bits("G", Effective(s.inodes[f].acl, s.inodes[f].acl.group[g]))
<1> DEFINE inos == DOMAIN s.inodes \ {ROOT}
           acl(i) == s.inodes[i].acl
<1>1. DOMAIN acl(f).user \subseteq USERS /\ DOMAIN acl(f).group \subseteq GROUPS
  BY AccountsKnown, InodeFacts DEF IsPartial
<1>2. /\ \A u : <<f, u>> \in NamedUsers(s, inos) <=> u \in DOMAIN acl(f).user
      /\ \A g : <<f, g>> \in NamedGroups(s, inos) <=> g \in DOMAIN acl(f).group
  BY <1>1 DEF NamedUsers, NamedGroups
<1>3. /\ AclEvent(s).userACL = [e \in NamedUsers(s, inos) |->
                                  Bits("U", Effective(acl(e[1]), acl(e[1]).user[e[2]]))]
      /\ AclEvent(s).groupACL = [e \in NamedGroups(s, inos) |->
                                   Bits("G", Effective(acl(e[1]), acl(e[1]).group[e[2]]))]
  BY DEF AclEvent, Shown
<1>4. /\ AclEvent(s).dacPermissions[f] = translate_mode(s.inodes[f].mode)
      /\ f \in DOMAIN AclEvent(s).maskACL <=> s.inodes[f].acl.mask # {}
      /\ s.inodes[f].acl.mask # {} => AclEvent(s).maskACL[f] = Bits("G", s.inodes[f].mode.g)
      /\ AclEvent(s).groupObjACL[f] = Bits("G", Effective(s.inodes[f].acl, s.inodes[f].acl.obj))
  BY DEF AclEvent, Shown
<1> QED BY <1>2, <1>3, <1>4

LEMMA AclEventRoot ==
    ASSUME NEW s \in SNAPSHOTS
    PROVE  /\ AclEvent(s).dacPermissions[ROOT] = AllPerms
           /\ ROOT \notin DOMAIN AclEvent(s).maskACL
           /\ \A u : <<ROOT, u>> \notin DOMAIN AclEvent(s).userACL
           /\ \A g : <<ROOT, g>> \notin DOMAIN AclEvent(s).groupACL
BY DEF AclEvent, NamedUsers, NamedGroups

-----------------------------------------------------------------------------
(* The accesses of a file the program has not changed, by the six          *)
(* alternatives of the machine and by the kernel.                          *)

LEMMA NonEmptyBits ==
    ASSUME NEW acc \in ACCESSES, NEW class
    PROVE  ~(Bits(class, acc) \subseteq {})
<1>1. PICK x : x \in acc
  BY DEF ACCESSES
<1>2. <<class, x>> \in Bits(class, acc)
  BY <1>1 DEF Bits
<1> QED BY <1>2

\* Without a mask, or with an empty one, the group bits or the other bits
\* decide.
LEMMA UnmaskedAccess ==
    ASSUME snapshot \in SNAPSHOTS, NEW f \in DOMAIN snapshot.inodes \ {ROOT}, AsInSnapshot(f),
           UserACL = AclEvent(snapshot).userACL, GroupACL = AclEvent(snapshot).groupACL,
           FileUser[f] = disk[f].uid, FileGroup[f] = disk[f].gid,
           ProcUser[PROC] \notin {ROOT_USER, disk[f].uid}, NEW acc \in ACCESSES,
           disk[f].acl.mask = {} \/ disk[f].mode.g = {}
    PROVE  Grants(PROC, f, acc) <=> KernelAllows(f, acc)
<1> DEFINE i == snapshot.inodes[f]
           in == i.gid \in GroupsOf(PROC)
<1>1. disk[f] = i /\ i.mode \in MODE
  BY InodeFacts DEF AsInSnapshot
<1>2. /\ Bits("G", acc) \subseteq DACPermissions[f] <=> acc \subseteq i.mode.g
      /\ Bits("O", acc) \subseteq DACPermissions[f] <=> acc \subseteq i.mode.o
  BY <1>1, AclEventFile, ModeBits DEF AsInSnapshot
<1>3. KernelAllows(f, acc) <=> acc \subseteq (IF in THEN i.mode.g ELSE i.mode.o)
  BY <1>1 DEF KernelAllows
<1>4. ~OwnerGrants(PROC, f, acc)
  BY DEF OwnerGrants
<1>5. f \in DOMAIN MaskACL <=> i.acl.mask # {}
  BY AclEventFile DEF AsInSnapshot
<1>6. i.acl.mask # {} => MaskACL[f] = {}
  <2>1. i.acl.mask # {} => MaskACL[f] = Bits("G", i.mode.g) /\ i.mode.g = {}
    BY <1>1, <1>5, AclEventFile DEF AsInSnapshot
  <2> QED BY <2>1 DEF Bits
<1>7. ~HasMask(f)
  BY <1>5, <1>6 DEF HasMask
<1>8. /\ ~(f \in DOMAIN MaskACL /\ Bits("G", acc) \subseteq MaskACL[f])
      /\ ~MaskedGroupGrants(PROC, f, acc)
  BY <1>5, <1>6, NonEmptyBits DEF MaskedGroupGrants
<1>9. ~NamedUserGrants(PROC, f, acc)
  <2>1. CASE i.acl.mask = {}
    BY <2>1, InodeFacts, AclEventFile DEF NamedUserGrants
  <2>2. CASE i.acl.mask # {}
    BY <1>5, <1>8, <2>2 DEF NamedUserGrants
  <2> QED BY <2>1, <2>2
<1>10. ~MaskedOtherGrants(PROC, f, acc)
  BY <1>7 DEF MaskedOtherGrants
<1>11. Grants(PROC, f, acc) <=> OtherGrants(PROC, f, acc) \/ OwningGroupGrants(PROC, f, acc)
  BY <1>4, <1>8, <1>9, <1>10 DEF Grants
<1>12. OtherGrants(PROC, f, acc) <=> ~in /\ acc \subseteq i.mode.o
  BY <1>1, <1>2, <1>7 DEF OtherGrants
<1>13. OwningGroupGrants(PROC, f, acc) <=> in /\ acc \subseteq i.mode.g
  <2>1. i.acl.mask # {} => ~(acc \subseteq i.mode.g)
    BY <1>1 DEF ACCESSES
  <2> QED BY <1>1, <1>2, <1>5, <2>1 DEF OwningGroupGrants
<1> QED BY <1>3, <1>11, <1>12, <1>13

\* With a mask, the entry of the user, those of the groups or the other bits.
LEMMA MaskedAccess ==
    ASSUME snapshot \in SNAPSHOTS, NEW f \in DOMAIN snapshot.inodes \ {ROOT}, AsInSnapshot(f),
           UserACL = AclEvent(snapshot).userACL, GroupACL = AclEvent(snapshot).groupACL,
           FileUser[f] = disk[f].uid, FileGroup[f] = disk[f].gid,
           ProcUser[PROC] \notin {ROOT_USER, disk[f].uid}, NEW acc \in ACCESSES,
           disk[f].acl.mask # {}, disk[f].mode.g # {}
    PROVE  Grants(PROC, f, acc) <=> KernelAllows(f, acc)
<1> DEFINE i == snapshot.inodes[f]
           user == ProcUser[PROC]
           in == i.gid \in GroupsOf(PROC)
           named == \E g \in GroupsOf(PROC) : g \in DOMAIN i.acl.group
           entries == {i.acl.group[g] : g \in GroupsOf(PROC) \cap DOMAIN i.acl.group}
                        \cup (IF in THEN {i.acl.obj} ELSE {})
<1>1. disk[f] = i /\ i.mode \in MODE /\ i.acl.mask # {} /\ i.acl.mask \subseteq {i.mode.g}
  BY InodeFacts DEF AsInSnapshot
<1>2. /\ f \in DOMAIN MaskACL /\ MaskACL[f] = Bits("G", i.mode.g)
      /\ f \in DOMAIN GroupObjACL /\ GroupObjACL[f] = Bits("G", Effective(i.acl, i.acl.obj))
  BY <1>1, AclEventFile DEF AsInSnapshot
<1>3. HasMask(f)
  <2>1. PICK x : x \in i.mode.g
    BY <1>1
  <2>2. <<"G", x>> \in Bits("G", i.mode.g)
    BY <2>1 DEF Bits
  <2> QED BY <1>2, <2>2 DEF HasMask
<1>4. Bits("O", acc) \subseteq DACPermissions[f] <=> acc \subseteq i.mode.o
  BY <1>1, AclEventFile, ModeBits DEF AsInSnapshot
<1>5. /\ Bits("G", acc) \subseteq MaskACL[f] <=> acc \subseteq i.mode.g
      /\ Bits("G", acc) \subseteq GroupObjACL[f] <=> acc \subseteq Effective(i.acl, i.acl.obj)
  BY <1>2, BitsMonotone
<1>6. /\ <<f, user>> \in DOMAIN UserACL <=> user \in DOMAIN i.acl.user
      /\ user \in DOMAIN i.acl.user =>
           (Bits("U", acc) \subseteq UserACL[<<f, user>>]
              <=> acc \subseteq Effective(i.acl, i.acl.user[user]))
  <2>1. /\ <<f, user>> \in DOMAIN UserACL <=> user \in DOMAIN i.acl.user
        /\ user \in DOMAIN i.acl.user =>
             UserACL[<<f, user>>] = Bits("U", Effective(i.acl, i.acl.user[user]))
    BY AclEventFile
  <2>2. Bits("U", acc) \subseteq Bits("U", Effective(i.acl, i.acl.user[user]))
          <=> acc \subseteq Effective(i.acl, i.acl.user[user])
    BY BitsMonotone
  <2> QED BY <2>1, <2>2
<1>7. \A g : /\ <<f, g>> \in DOMAIN GroupACL <=> g \in DOMAIN i.acl.group
             /\ g \in DOMAIN i.acl.group =>
                  (Bits("G", acc) \subseteq GroupACL[<<f, g>>]
                     <=> acc \subseteq Effective(i.acl, i.acl.group[g]))
  <2>1. \A g : /\ <<f, g>> \in DOMAIN GroupACL <=> g \in DOMAIN i.acl.group
               /\ g \in DOMAIN i.acl.group =>
                    GroupACL[<<f, g>>] = Bits("G", Effective(i.acl, i.acl.group[g]))
    BY AclEventFile
  <2>2. \A g : Bits("G", acc) \subseteq Bits("G", Effective(i.acl, i.acl.group[g]))
                 <=> acc \subseteq Effective(i.acl, i.acl.group[g])
    BY BitsMonotone
  <2> QED BY <2>1, <2>2
<1>8. \A entry : acc \subseteq Effective(i.acl, entry) => acc \subseteq i.mode.g
  <2>1. i.mode.g \in i.acl.mask
    BY <1>1
  <2> QED BY <2>1 DEF Effective
<1>9. /\ ~OwnerGrants(PROC, f, acc) /\ ~OtherGrants(PROC, f, acc)
      /\ ~OwningGroupGrants(PROC, f, acc)
  BY <1>2, <1>3 DEF OwnerGrants, OtherGrants, OwningGroupGrants
<1>10. NamedUserGrants(PROC, f, acc) <=>
         user \in DOMAIN i.acl.user /\ acc \subseteq Effective(i.acl, i.acl.user[user])
  BY <1>5, <1>6, <1>8 DEF NamedUserGrants
<1>11. GroupEntryGrants(PROC, f, acc) <=> \E e \in entries : acc \subseteq Effective(i.acl, e)
  <2>1. GroupEntryGrants(PROC, f, acc) <=>
          \/ \E g \in GroupsOf(PROC) : /\ g \in DOMAIN i.acl.group
                                       /\ acc \subseteq Effective(i.acl, i.acl.group[g])
          \/ in /\ acc \subseteq Effective(i.acl, i.acl.obj)
    BY <1>1, <1>2, <1>5, <1>7 DEF GroupEntryGrants
  <2> QED BY <2>1
<1>12. MaskedGroupGrants(PROC, f, acc) <=>
         user \notin DOMAIN i.acl.user /\ \E e \in entries : acc \subseteq Effective(i.acl, e)
  BY <1>2, <1>5, <1>6, <1>8, <1>11 DEF MaskedGroupGrants
<1>13. MaskedOtherGrants(PROC, f, acc) <=>
         user \notin DOMAIN i.acl.user /\ entries = {} /\ acc \subseteq i.mode.o
  <2>1. entries = {} <=> ~in /\ ~named
    OBVIOUS
  <2> QED BY <1>1, <1>3, <1>4, <1>6, <1>7, <2>1 DEF MaskedOtherGrants
<1>14. KernelAllows(f, acc) <=>
         IF user \in DOMAIN i.acl.user THEN acc \subseteq Effective(i.acl, i.acl.user[user])
         ELSE IF entries # {} THEN \E e \in entries : acc \subseteq Effective(i.acl, e)
         ELSE acc \subseteq i.mode.o
  BY <1>1 DEF KernelAllows
<1> QED BY <1>9, <1>10, <1>12, <1>13, <1>14 DEF Grants

\* Everybody may do everything in the root directory.
LEMMA RootAccess ==
    ASSUME snapshot \in SNAPSHOTS, AsInSnapshot(ROOT),
           FileUser[ROOT] = disk[ROOT].uid, FileGroup[ROOT] = disk[ROOT].gid,
           NEW acc \in ACCESSES
    PROVE  May(PROC, ROOT, acc) /\ KernelAllows(ROOT, acc) /\ disk[ROOT].mode.dir
<1>1. /\ disk[ROOT] = snapshot.inodes[ROOT] /\ DACPermissions[ROOT] = AllPerms
      /\ ROOT \notin DOMAIN MaskACL /\ FileUser[ROOT] = ROOT_USER
  BY AclEventRoot, InodesOf DEF AsInSnapshot
<1>2. May(PROC, ROOT, acc)
  <2>1. OtherGrants(PROC, ROOT, acc) \/ OwningGroupGrants(PROC, ROOT, acc)
          \/ ProcUser[PROC] = ROOT_USER
    BY <1>1, AllPermsFacts DEF OtherGrants, OwningGroupGrants, HasMask
  <2> QED BY <2>1 DEF May, Refused, Grants
<1>3. disk[ROOT].mode.dir
  BY <1>1, InodesOf, InodeFacts DEF DirsOf
<1>4. KernelAllows(ROOT, acc)
  <2>1. acc \subseteq ACCESS
    BY DEF ACCESSES, ACCESS
  <2>2. disk[ROOT].acl.mask = {} /\ disk[ROOT].uid = ROOT_USER
        /\ acc \subseteq disk[ROOT].mode.g /\ acc \subseteq disk[ROOT].mode.o
    BY <1>1, <2>1, InodesOf
  <2> QED BY <1>3, <2>2 DEF KernelAllows
<1> QED BY <1>2, <1>3, <1>4

\* Whoever may execute a file by an entry of it finds that right in its mode.
LEMMA ExecuteInMode ==
    ASSUME snapshot \in SNAPSHOTS, NEW f \in DOMAIN snapshot.inodes, NEW acc,
           disk[f] = snapshot.inodes[f], ProcUser[PROC] # ROOT_USER,
           KernelAllows(f, acc), "x" \in acc
    PROVE  SomeX(disk[f].mode)
<1>1. disk[f].acl.mask \subseteq {disk[f].mode.g}
  BY InodeFacts
<1>2. ASSUME NEW A, disk[f].acl.mask # {}, acc \subseteq Effective(disk[f].acl, A)
      PROVE  "x" \in disk[f].mode.g
  BY <1>1, <1>2 DEF Effective
<1> QED BY <1>2 DEF KernelAllows, SomeX

\* AccessSame, file by file.
LEMMA FileAccess ==
    ASSUME snapshot \in SNAPSHOTS, RunInv, NEW f \in DOMAIN disk, NEW acc \in ACCESSES
    PROVE  Allows(f, acc) <=> KernelAllows(f, acc)
<1>1. /\ f \in DOMAIN snapshot.inodes /\ FileTracked(f)
      /\ UserACL = AclEvent(snapshot).userACL /\ GroupACL = AclEvent(snapshot).groupACL
  BY DEF RunInv
<1>2. /\ FileUser[f] = disk[f].uid /\ FileGroup[f] = disk[f].gid
      /\ f \in Folders <=> disk[f].mode.dir
      /\ f # ROOT => (IsExecutable(f) <=> SomeX(disk[f].mode))
  BY <1>1 DEF FileTracked
<1>3. CASE f = ROOT
  BY <1>1, <1>2, <1>3, RootAccess DEF FileTracked, Allows
<1>4. CASE f # ROOT /\ ProcUser[PROC] = ROOT_USER
  BY <1>2, <1>4 DEF Allows, May, Refused, KernelAllows, SomeX
<1>5. CASE f # ROOT /\ ProcUser[PROC] # ROOT_USER /\ ProcUser[PROC] = disk[f].uid
  <2>1. Grants(PROC, f, acc) <=> OwnerGrants(PROC, f, acc)
    BY <1>2, <1>5 DEF Grants, OtherGrants, NamedUserGrants, MaskedGroupGrants,
         OwningGroupGrants, MaskedOtherGrants
  <2>2. OwnerGrants(PROC, f, acc) <=> acc \subseteq disk[f].mode.u
    BY <1>1, <1>2, <1>5 DEF OwnerGrants, FileTracked
  <2>3. KernelAllows(f, acc) <=> acc \subseteq disk[f].mode.u
    BY <1>5 DEF KernelAllows
  <2>4. "x" \in acc /\ acc \subseteq disk[f].mode.u => IsExecutable(f)
    BY <1>2, <1>5 DEF SomeX
  <2> QED BY <1>5, <2>1, <2>2, <2>3, <2>4 DEF Allows, May, Refused
<1>6. CASE f # ROOT /\ ProcUser[PROC] \notin {ROOT_USER, disk[f].uid}
  <2>1. AsInSnapshot(f)
    BY <1>1, <1>6 DEF FileTracked
  <2>2. Grants(PROC, f, acc) <=> KernelAllows(f, acc)
    BY <1>1, <1>2, <1>6, <2>1, UnmaskedAccess, MaskedAccess
  <2>3. "x" \in acc /\ KernelAllows(f, acc) => IsExecutable(f)
    BY <1>1, <1>2, <1>6, <2>1, ExecuteInMode DEF AsInSnapshot
  <2> QED BY <1>6, <2>2, <2>3 DEF Allows, May, Refused
<1> QED BY <1>3, <1>4, <1>5, <1>6

\* The check of every event but execve.
LEMMA MayAccess ==
    ASSUME snapshot \in SNAPSHOTS, RunInv, NEW f \in DOMAIN disk, NEW acc \in ACCESSES,
           f \in Folders \/ "x" \notin acc
    PROVE  May(PROC, f, acc) <=> KernelAllows(f, acc)
BY FileAccess DEF Allows

-----------------------------------------------------------------------------
(* The verdicts on the calls of the program.                               *)

LEMMA KernelMonotone ==
    ASSUME NEW f, KernelAllows(f, {"w", "x"})
    PROVE  KernelAllows(f, {"x"})
BY DEF KernelAllows

LEMMA ReachesSame ==
    ASSUME snapshot \in SNAPSHOTS, RunInv, NEW dir \in Folders
    PROVE  KernelReaches(dir) <=> MaySearch(PROC, WithAncestors(dir))
<1>1. \A f \in WithAncestors(dir) : f \in DOMAIN disk /\ f \in Folders
  BY DEF RunInv, WithAncestors
<1>2. {"x"} \in ACCESSES
  BY DEF ACCESSES
<1>3. \A f \in WithAncestors(dir) : May(PROC, f, {"x"}) <=> KernelAllows(f, {"x"})
  BY <1>1, <1>2, MayAccess
<1> QED BY <1>3 DEF KernelReaches, MaySearch, WithAncestors

LEMMA AddsSame ==
    ASSUME snapshot \in SNAPSHOTS, RunInv, NEW dir \in Folders
    PROVE  KernelAdds(dir) <=> MayChangeDir(PROC, dir)
<1>1. {"x"} \in ACCESSES /\ {"w", "x"} \in ACCESSES /\ dir \in DOMAIN disk
  BY DEF ACCESSES, RunInv
<1>2. May(PROC, dir, {"w", "x"}) <=> KernelAllows(dir, {"w", "x"})
  BY <1>1, MayAccess
<1>3. May(PROC, dir, {"x"}) <=> KernelAllows(dir, {"x"})
  BY <1>1, MayAccess
<1>4. KernelReaches(dir) <=> MaySearch(PROC, PathToRoot[dir]) /\ May(PROC, dir, {"x"})
  BY ReachesSame DEF MaySearch, WithAncestors
<1> QED BY <1>2, <1>3, <1>4, KernelMonotone DEF KernelAdds, MayChangeDir

\* No descriptor is open, so that any may be allocated.
LEMMA DescriptorFree ==
    ASSUME FDs = {}, NEW proc, NEW fd \in FILE_DESCRIPTORS, NEW number
    PROVE  MayAllocate(proc, fd, number)
<1>1. DescriptorsOf(proc) = {} /\ OpenDescriptors = {}
  BY DEF DescriptorsOf, OpenDescriptors
<1> QED BY <1>1, FS_EmptySet, LimitsAssumption DEF MayAllocate

\* There is room for another file as long as there is an inode for it.
LEMMA RoomForFile ==
    ASSUME NEW file \in FILES \ Files, Files \subseteq FILES
    PROVE  Cardinality(Files) < MAX_FILES
<1>1. IsFiniteSet(FILES) /\ Cardinality(FILES) <= MAX_FILES /\ MAX_FILES \in Nat
  BY LimitsAssumption
<1>2. Cardinality(FILES) \in Nat
  BY <1>1, FS_CardinalityType
<1>3. /\ IsFiniteSet(Files) /\ Cardinality(Files) <= Cardinality(FILES)
      /\ Cardinality(FILES) = Cardinality(Files) => FILES = Files
  BY <1>1, FS_Subset
<1>4. Cardinality(Files) \in Nat
  BY <1>3, FS_CardinalityType
<1> QED BY <1>1, <1>2, <1>3, <1>4

\* Entries are of files on the disk, below a directory.
LEMMA EntryFacts ==
    ASSUME RunInv, NEW e \in Entries
    PROVE  /\ e = <<e[1], e[2], e[3]>> /\ e \in FileParents
           /\ e[1] \in DOMAIN disk /\ e[1] # ROOT /\ e[2] \in Folders
           /\ FileTracked(e[1])
BY DEF RunInv, Entries

LEMMA OpenVerdict ==
    ASSUME snapshot \in SNAPSHOTS, RunInv, NEW e \in Entries, NEW bits
    PROVE  (\E fd \in FILE_DESCRIPTORS :
              grd_open_exists_EXT(PROC, e[2], e[1], e[3], translate_file_flags(bits), fd, 3))
             <=> MayOpen(bits, e[1], e[2])
<1>0. PICK flags : flags = translate_file_flags(bits)
  OBVIOUS
<1>1. /\ e = <<e[1], e[2], e[3]>> /\ e \in FileParents /\ e[1] \in DOMAIN disk
      /\ e[1] # ROOT /\ e[2] \in Folders /\ FileTracked(e[1])
  BY EntryFacts
<1>2. \A fd \in FILE_DESCRIPTORS : MayAllocate(PROC, fd, 3)
  BY DescriptorFree DEF RunInv
<1>3. PICK fd0 : fd0 \in FILE_DESCRIPTORS
  BY SetupAssumption
<1>4. KernelReaches(e[2]) <=> MaySearch(PROC, WithAncestors(e[2]))
  BY <1>1, ReachesSame
<1>5. /\ HasOneAccessMode(flags)
      /\ WritesFile(flags) <=> bits \cap {"WRONLY", "RDWR"} # {}
      /\ Wanted(flags) = (IF "WRONLY" \in bits /\ "RDWR" \notin bits THEN {} ELSE {"r"})
                           \cup (IF bits \cap {"WRONLY", "RDWR"} # {} THEN {"w"} ELSE {})
      /\ Wanted(flags) \in ACCESSES
  BY <1>0, OneAccessMode
<1>6. May(PROC, e[1], Wanted(flags)) <=> KernelAllows(e[1], Wanted(flags))
  <2>1. "x" \notin Wanted(flags)
    BY <1>5
  <2> QED BY <1>1, <1>5, <2>1, MayAccess
<1>7. /\ "O_CREAT" \in flags <=> "CREAT" \in bits
      /\ "O_EXCL" \in flags <=> "EXCL" \in bits
      /\ "O_PATH" \in flags <=> "PATH" \in bits
      /\ "O_DIRECTORY" \in flags <=> "DIRECTORY" \in bits
      /\ "O_RDONLY" \in flags <=> bits \cap {"WRONLY", "RDWR"} = {}
  BY <1>0, FlagsOfBits
<1>8. e[1] \in Folders <=> disk[e[1]].mode.dir
  BY <1>1 DEF FileTracked
<1>9. FlagsFit(flags, e[1]) /\ FlagsFit_EXT(flags, e[1]) <=>
        /\ "DIRECTORY" \in bits => disk[e[1]].mode.dir
        /\ "PATH" \notin bits =>
             /\ "CREAT" \in bits => bits \cap {"EXCL", "DIRECTORY"} = {}
             /\ disk[e[1]].mode.dir => "CREAT" \notin bits /\ bits \cap {"WRONLY", "RDWR"} = {}
  <2>1. bits \cap {"EXCL", "DIRECTORY"} = {} <=> "EXCL" \notin bits /\ "DIRECTORY" \notin bits
    OBVIOUS
  <2> QED BY <1>5, <1>7, <1>8, <2>1 DEF FlagsFit, FlagsFit_EXT
<1>10. MayOpen(bits, e[1], e[2]) <=>
         /\ KernelReaches(e[2]) /\ FlagsFit(flags, e[1]) /\ FlagsFit_EXT(flags, e[1])
         /\ "PATH" \notin bits => KernelAllows(e[1], Wanted(flags))
  BY <1>5, <1>9 DEF MayOpen
<1>11. \A fd \in FILE_DESCRIPTORS :
         grd_open_exists_EXT(PROC, e[2], e[1], e[3], flags, fd, 3) <=>
           /\ MaySearch(PROC, WithAncestors(e[2]))
           /\ FlagsFit(flags, e[1]) /\ FlagsFit_EXT(flags, e[1])
           /\ "O_PATH" \notin flags => May(PROC, e[1], Wanted(flags))
  BY <1>1, <1>2 DEF grd_open_exists_EXT, grd_OpenExisting, RunInv
<1> QED BY <1>0, <1>3, <1>4, <1>6, <1>7, <1>10, <1>11

LEMMA CreateVerdict ==
    ASSUME snapshot \in SNAPSHOTS, RunInv, NEW parent \in Folders,
           NameIsFree(parent, NEW_NAME), NEW bits, "TMPFILE" \in bits => "DIRECTORY" \in bits
    PROVE  (\E file \in FILES \ Files, fd \in FILE_DESCRIPTORS :
              grd_open_create_EXT(PROC, parent, file, NEW_NAME, translate_file_flags(bits), fd, 3))
             <=> KernelCreates(bits, parent)
<1>0. PICK flags : flags = translate_file_flags(bits)
  OBVIOUS
<1>1. \A fd \in FILE_DESCRIPTORS : MayAllocate(PROC, fd, 3)
  BY DescriptorFree DEF RunInv
<1>2. PICK fd0 : fd0 \in FILE_DESCRIPTORS
  BY SetupAssumption
<1>3. PICK file0 : file0 \in FILES \ Files
  BY SetupAssumption DEF RunInv
<1>4. \A file \in FILES \ Files : IsUnused(file)
  BY InodesOf DEF IsUnused, RunInv
<1>5. Cardinality(Files) < MAX_FILES
  <2>1. Files \subseteq FILES
    BY InodesOf, ContextAssumption DEF RunInv
  <2> QED BY <1>3, <2>1, RoomForFile
<1>6. /\ "O_CREAT" \in flags <=> "CREAT" \in bits
      /\ "O_PATH" \in flags <=> "PATH" \in bits
      /\ "O_DIRECTORY" \in flags <=> "DIRECTORY" \in bits
      /\ "O_TMPFILE" \in flags <=> "TMPFILE" \in bits /\ "DIRECTORY" \in bits
      /\ HasOneAccessMode(flags)
  BY <1>0, FlagsOfBits, OneAccessMode
<1>7. "O_DIRECTORY" \notin flags /\ FlagsCreate(flags) <=>
        "CREAT" \in bits /\ bits \cap {"PATH", "DIRECTORY", "TMPFILE"} = {}
  <2>1. bits \cap {"PATH", "DIRECTORY", "TMPFILE"} = {}
          <=> "PATH" \notin bits /\ "DIRECTORY" \notin bits /\ "TMPFILE" \notin bits
    OBVIOUS
  <2> QED BY <1>6, <2>1 DEF FlagsCreate
<1>8. \A file \in FILES \ Files, fd \in FILE_DESCRIPTORS :
        grd_open_create_EXT(PROC, parent, file, NEW_NAME, flags, fd, 3) <=>
          "O_DIRECTORY" \notin flags /\ FlagsCreate(flags) /\ MayChangeDir(PROC, parent)
  BY <1>1, <1>4, <1>5 DEF grd_open_create_EXT, grd_CreateAndOpen, MayChangeDir, RunInv
<1>9. KernelAdds(parent) <=> MayChangeDir(PROC, parent)
  BY AddsSame
<1>10. KernelCreates(bits, parent) <=>
         "O_DIRECTORY" \notin flags /\ FlagsCreate(flags) /\ KernelAdds(parent)
  BY <1>7 DEF KernelCreates
<1> QED BY <1>0, <1>2, <1>3, <1>8, <1>9, <1>10

LEMMA ChmodVerdict ==
    ASSUME snapshot \in SNAPSHOTS, RunInv, NEW e \in Entries
    PROVE  grd_path(PROC, e[2], e[1], e[3]) /\ IsRootOrOwner(PROC, e[1])
             <=> KernelReaches(e[2]) /\ ProcUser[PROC] \in {ROOT_USER, disk[e[1]].uid}
<1>1. /\ e = <<e[1], e[2], e[3]>> /\ e \in FileParents /\ e[2] \in Folders
      /\ FileUser[e[1]] = disk[e[1]].uid
  BY EntryFacts DEF FileTracked
<1>2. KernelReaches(e[2]) <=> MaySearch(PROC, WithAncestors(e[2]))
  BY <1>1, ReachesSame
<1> QED BY <1>1, <1>2 DEF grd_path, IsRootOrOwner, RunInv

LEMMA LinkVerdict ==
    ASSUME snapshot \in SNAPSHOTS, RunInv, NEW e \in Entries, NEW newParent \in Folders,
           NameIsFree(newParent, NEW_NAME)
    PROVE  grd_link_Protected(PROC, e[2], newParent, e[1], e[3], NEW_NAME)
             <=> MayLink(e[1], e[2], newParent)
<1>1. /\ e = <<e[1], e[2], e[3]>> /\ e \in FileParents /\ e[2] \in Folders
      /\ e[1] \in DOMAIN disk /\ e[1] # ROOT
      /\ FileUser[e[1]] = disk[e[1]].uid /\ (e[1] \in Folders <=> disk[e[1]].mode.dir)
  BY EntryFacts DEF FileTracked
<1>2. KernelReaches(e[2]) <=> MaySearch(PROC, WithAncestors(e[2]))
  BY <1>1, ReachesSame
<1>3. KernelAdds(newParent) <=> MayChangeDir(PROC, newParent)
  BY AddsSame
<1>4. May(PROC, e[1], {"r", "w"}) <=> KernelAllows(e[1], {"r", "w"})
  <2>1. {"r", "w"} \in ACCESSES
    BY DEF ACCESSES
  <2> QED BY <1>1, <2>1, MayAccess
<1>5. PROC \in Procs /\ e[1] \in Files
  BY <1>1 DEF RunInv
<1> QED BY <1>1, <1>2, <1>3, <1>4, <1>5
        DEF grd_link_Protected, grd_link, MayLink, May, Refused

\* What the machine accepts is what the kernel accepts but for the rule.
LEMMA SendAgrees ==
    ASSUME NEW guard \in BOOLEAN, NEW may \in BOOLEAN, NEW rule \in BOOLEAN, guard <=> may,
           verdict' = [kernel |-> may /\ ~rule, machine |-> guard, lacks |-> may /\ rule]
    PROVE  VerdictsAgree'
BY DEF VerdictsAgree

LEMMA OpenExistsAgrees ==
    ASSUME snapshot \in SNAPSHOTS, RunInv, NEW e \in Entries, NEW c, NEW a, OpenExists(e, c, a)
    PROVE  VerdictsAgree'
<1> DEFINE bits == model_to_flags(a)
           guard == \E fd \in FILE_DESCRIPTORS :
                      grd_open_exists_EXT(PROC, e[2], e[1], e[3], translate_file_flags(bits), fd, 3)
           may == MayOpen(bits, e[1], e[2])
           rule == ProtectedRegular(bits, e[1], e[2])
<1>1. guard <=> may
  BY OpenVerdict
<1>2. verdict' = [kernel |-> may /\ ~rule, machine |-> guard, lacks |-> may /\ rule]
  BY DEF OpenExists, Send
<1>3. guard \in BOOLEAN /\ may \in BOOLEAN /\ rule \in BOOLEAN
  BY DEF MayOpen, ProtectedRegular
<1> HIDE DEF guard, may, rule
<1> QED BY <1>1, <1>2, <1>3, SendAgrees

LEMMA OpenCreateAgrees ==
    ASSUME snapshot \in SNAPSHOTS, RunInv, NEW parent \in Folders, NEW t \in TESTS,
           OpenCreate(parent, t.case, t.model)
    PROVE  VerdictsAgree'
<1> DEFINE bits == model_to_flags(t.model)
           flags == translate_file_flags(bits)
           guard == \E file \in FILES \ Files, fd \in FILE_DESCRIPTORS :
                      grd_open_create_EXT(PROC, parent, file, NEW_NAME, flags, fd, 3)
           may == KernelCreates(bits, parent)
<1>1. NameIsFree(parent, NEW_NAME) /\ t.case.event = "open_create"
  BY DEF OpenCreate
<1>2. "TMPFILE" \in bits => "DIRECTORY" \in bits
  <2>1. t.model \subseteq VARS["open_create"]
    BY <1>1 DEF TESTS, solve
  <2> QED BY <2>1, BitsOfModel
<1>3. guard <=> may
  BY <1>1, <1>2, CreateVerdict
<1>4. verdict' = [kernel |-> may /\ ~FALSE, machine |-> guard, lacks |-> may /\ FALSE]
  BY DEF OpenCreate, Send
<1>5. guard \in BOOLEAN /\ may \in BOOLEAN
  BY DEF KernelCreates
<1> HIDE DEF guard, may
<1> QED BY <1>3, <1>4, <1>5, SendAgrees

LEMMA ChmodAgrees ==
    ASSUME snapshot \in SNAPSHOTS, RunInv, NEW e \in Entries, NEW mode, Chmod(e, mode)
    PROVE  VerdictsAgree'
<1> DEFINE guard == grd_path(PROC, e[2], e[1], e[3]) /\ IsRootOrOwner(PROC, e[1])
           may == KernelReaches(e[2]) /\ ProcUser[PROC] \in {ROOT_USER, disk[e[1]].uid}
<1>1. guard <=> may
  BY ChmodVerdict
<1>2. verdict' = [kernel |-> may /\ ~FALSE, machine |-> guard, lacks |-> may /\ FALSE]
  BY DEF Chmod, Send
<1>3. guard \in BOOLEAN /\ may \in BOOLEAN
  OBVIOUS
<1> HIDE DEF guard, may
<1> QED BY <1>1, <1>2, <1>3, SendAgrees

LEMMA LinkAgrees ==
    ASSUME snapshot \in SNAPSHOTS, RunInv, NEW e \in Entries, NEW newParent \in Folders,
           Link(e, newParent)
    PROVE  VerdictsAgree'
<1> DEFINE guard == grd_link_Protected(PROC, e[2], newParent, e[1], e[3], NEW_NAME)
           may == MayLink(e[1], e[2], newParent)
           rule == UnsafeSource(e[1])
<1>1. NameIsFree(newParent, NEW_NAME)
  BY DEF Link
<1>2. guard <=> may
  BY <1>1, LinkVerdict
<1>3. verdict' = [kernel |-> may /\ ~rule, machine |-> guard, lacks |-> may /\ rule]
  BY DEF Link, Send
<1>4. guard \in BOOLEAN /\ may \in BOOLEAN /\ rule \in BOOLEAN
  BY DEF grd_link_Protected, MayLink, UnsafeSource
<1> HIDE DEF guard, may, rule
<1> QED BY <1>2, <1>3, <1>4, SendAgrees

-----------------------------------------------------------------------------
(* chmod keeps the machine and the disk in step.                           *)

LEMMA SetModeEffect ==
    ASSUME NEW f, NEW mode, SetMode(PROC, f, mode)
    PROVE  /\ DACPermissions' = With(DACPermissions, f, KeptMode(PROC, f, mode))
           /\ \A x : x # f => (x \in DOMAIN MaskACL' <=> x \in DOMAIN MaskACL)
           /\ \A x : x # f => (x \in DOMAIN GroupObjACL' <=> x \in DOMAIN GroupObjACL)
           /\ \A x \in DOMAIN MaskACL : x # f => MaskACL'[x] = MaskACL[x]
           /\ \A x \in DOMAIN GroupObjACL : x # f => GroupObjACL'[x] = GroupObjACL[x]
           /\ UNCHANGED <<userVars, procVars, treeVars, ownerVars, fdVars, UserACL, GroupACL>>
BY DEF SetMode, With

LEMMA ChmodKeeps ==
    ASSUME snapshot \in SNAPSHOTS, RunInv, NEW e \in Entries, NEW mode \in CHMODS, Chmod(e, mode)
    PROVE  RunInv'
<1> DEFINE f == e[1]
           guard == grd_path(PROC, e[2], e[1], e[3]) /\ IsRootOrOwner(PROC, e[1])
           kernel == KernelReaches(e[2]) /\ ProcUser[PROC] \in {ROOT_USER, disk[e[1]].uid}
<1>0. UNCHANGED snapshot /\ f \in DOMAIN disk /\ f # ROOT
  BY EntryFacts DEF Chmod, Send
<1>1. guard <=> kernel
  BY ChmodVerdict
<1>2. CASE ~kernel
  <2>1. UNCHANGED <<vars, disk, snapshot>>
    BY <1>0, <1>2 DEF Chmod, Send
  <2> QED BY <2>1 DEF RunInv, FileTracked, IsExecutable, AsInSnapshot, vars, userVars, procVars,
             fileVars, treeVars, ownerVars, aclVars, fdVars
<1>3. CASE kernel
  <2>1. SetMode(PROC, f, translate_mode(mode))
    BY <1>1, <1>3 DEF Chmod, Send, chmod
  <2>2. PICK acl : disk' = [disk EXCEPT ![f].mode = mode, ![f].acl = acl]
    BY <1>3 DEF Chmod
  <2>3. mode \in MODE /\ mode.dir = disk[f].mode.dir
    BY SetupAssumption DEF Chmod
  <2>4. /\ DOMAIN disk' = DOMAIN disk /\ DOMAIN disk'[f] = DOMAIN disk[f]
        /\ disk'[f].mode = mode /\ disk'[f].uid = disk[f].uid /\ disk'[f].gid = disk[f].gid
        /\ \A x \in DOMAIN disk : x # f => disk'[x] = disk[x]
    <3>1. FileTracked(f)
      BY <1>0 DEF RunInv
    <3> QED BY <1>0, <2>2, <3>1 DEF FileTracked, INODE_FIELDS
  <2>5. /\ UNCHANGED <<Procs, ProcUser, ProcCwd, Files, Folders, FileParents, PathToRoot, FileUser,
                       FileGroup, FDs, ProcFDs, UserACL, GroupACL>>
        /\ DACPermissions' = With(DACPermissions, f, KeptMode(PROC, f, translate_mode(mode)))
    BY <2>1, SetModeEffect DEF procVars, treeVars, ownerVars, fdVars
  <2>6. /\ f \in DOMAIN DACPermissions /\ DOMAIN DACPermissions' = DOMAIN DACPermissions
        /\ DACPermissions'[f] = KeptMode(PROC, f, translate_mode(mode))
        /\ \A x \in DOMAIN disk : x # f => DACPermissions'[x] = DACPermissions[x]
    BY <1>0, <2>5 DEF With, RunInv
  <2>7. ASSUME NEW x \in DOMAIN disk, x # f PROVE FileTracked(x)'
    <3>1. FileTracked(x)
      BY DEF RunInv
    <3>2. AsInSnapshot(x) => AsInSnapshot(x)'
      BY <1>0, <2>1, <2>4, <2>6, <2>7, SetModeEffect DEF AsInSnapshot
    <3> QED BY <2>4, <2>5, <2>6, <2>7, <3>1, <3>2 DEF FileTracked, IsExecutable
  <2>8. FileTracked(f)'
    <3>1. \A acc \in ACCESSES : Bits("U", acc) \subseteq DACPermissions'[f] <=> acc \subseteq mode.u
      <4>1. \A x : <<"U", x>> \in DACPermissions'[f] <=> x \in mode.u
        BY <2>3, <2>6, ModeMembers DEF KeptMode, SET_GID
      <4>2. \A acc : Bits("U", acc) \subseteq DACPermissions'[f]
                       <=> \A x \in acc : <<"U", x>> \in DACPermissions'[f]
        BY BitsSubset
      <4> QED BY <4>1, <4>2
    <3>2. FileTracked(f)
      BY <1>0 DEF RunInv
    <3>3. IsExecutable(f)' <=> SomeX(mode)
      <4>1. /\ <<"U", "x">> \in DACPermissions'[f] <=> "x" \in mode.u
            /\ <<"G", "x">> \in DACPermissions'[f] <=> "x" \in mode.g
            /\ <<"O", "x">> \in DACPermissions'[f] <=> "x" \in mode.o
        BY <2>3, <2>6, ModeMembers DEF KeptMode, SET_GID
      <4>2. IsExecutable(f)' <=> \E class \in {"U", "G", "O"} : <<class, "x">> \in DACPermissions'[f]
        BY DEF IsExecutable
      <4> QED BY <4>1, <4>2 DEF SomeX
    <3> QED BY <1>0, <1>3, <2>3, <2>4, <2>5, <3>1, <3>2, <3>3 DEF FileTracked
  <2>9. \A x \in DOMAIN disk : FileTracked(x)'
    BY <2>7, <2>8
  <2> QED BY <1>0, <2>4, <2>5, <2>6, <2>9 DEF RunInv
<1> QED BY <1>2, <1>3

-----------------------------------------------------------------------------
(* The loops of the set-up.                                                *)

CREATORS == {"groups", "users", "folders", "files"}

\* ops begins with the event op of e and goes on with rest.
At(op, e, rest) == ops # <<>> /\ Head(ops).op = op /\ Head(ops).e = e /\ Tail(ops) = rest

LEMMA OpsAt ==
    ASSUME Progress, ops # <<>>
    PROVE  LET e == Items(snapshot, pc)[item]
               old(j) == snapshot.files[j]
           IN  \/ pc = "groups" /\ At("create_group", e, <<>>)
               \/ pc = "users" /\ At("create_user", e, <<>>)
               \/ pc = "folders" /\ At("mkdir", e, <<Op("chown", e), Op("chmod", e)>>)
               \/ pc = "folders" /\ At("chown", e, <<Op("chmod", e)>>)
               \/ pc = "folders" /\ At("chmod", e, <<>>)
               \/ pc \in {"folders_xattrs", "files_xattrs"} /\ At("setxattr", e, <<>>)
               \/ /\ pc = "files" /\ \A j \in 1..(item - 1) : old(j).ino # e.ino
                  /\ At("creat", e, <<Op("fchown", e), Op("fchmod", e), Op("close", e)>>)
               \/ pc = "files" /\ At("fchown", e, <<Op("fchmod", e), Op("close", e)>>)
               \/ pc = "files" /\ At("fchmod", e, <<Op("close", e)>>)
               \/ pc = "files" /\ At("close", e, <<>>)
               \/ /\ pc = "files"
                  /\ \E j \in 1..(item - 1) : /\ old(j).ino = e.ino
                                              /\ At("link", [old |-> old(j), new |-> e], <<>>)
               \/ pc = "acl" /\ At("set_acl", snapshot, <<>>)
<1> DEFINE e == Items(snapshot, pc)[item]
<1>1. \A x, y : ops = <<Op(x, y)>> => At(x, y, <<>>)
  BY DEF At, Op
<1>2. \A x, y, o : ops = <<Op(x, y), o>> => At(x, y, <<o>>)
  BY DEF At, Op
<1>3. \A x, y, o, o2 : ops = <<Op(x, y), o, o2>> => At(x, y, <<o, o2>>)
  BY DEF At, Op
<1>4. \A x, y, o, o2, o3 : ops = <<Op(x, y), o, o2, o3>> => At(x, y, <<o, o2, o3>>)
  BY DEF At, Op
<1>5. OpsLeft
  BY DEF Progress
<1>6. CASE pc = "groups" \/ pc = "users" \/ pc = "acl" \/ pc \in {"folders_xattrs", "files_xattrs"}
  BY <1>1, <1>5, <1>6 DEF OpsLeft
<1>7. CASE pc = "folders"
  <2>1. FolderOps(e)
    BY <1>5, <1>7 DEF OpsLeft
  <2> HIDE DEF e
  <2> QED BY <1>1, <1>2, <1>3, <1>7, <2>1 DEF FolderOps, e
<1>8. CASE pc = "files"
  <2>1. FileOps(snapshot.files, item) /\ e = snapshot.files[item]
    BY <1>5, <1>8 DEF OpsLeft, Items
  <2> HIDE DEF e
  <2>2. \/ \E j \in 1..(item - 1) :
              /\ snapshot.files[j].ino = e.ino
              /\ ops = <<Op("link", [old |-> snapshot.files[j], new |-> e])>>
        \/ /\ \A j \in 1..(item - 1) : snapshot.files[j].ino # e.ino
           /\ ops = <<Op("creat", e), Op("fchown", e), Op("fchmod", e), Op("close", e)>>
        \/ ops = <<Op("fchown", e), Op("fchmod", e), Op("close", e)>>
        \/ ops = <<Op("fchmod", e), Op("close", e)>>
        \/ ops = <<Op("close", e)>>
    BY <2>1 DEF FileOps
  <2> QED BY <1>1, <1>2, <1>3, <1>4, <1>8, <2>2 DEF e
<1> QED BY <1>5, <1>6, <1>7, <1>8 DEF OpsLeft

\* The least element of a set of natural numbers.
LEMMA LeastOf ==
    ASSUME NEW T \in SUBSET Nat, T # {}
    PROVE  \E x \in T : \A y \in T : ~(y < x)
<1> DEFINE R == OpToRel(<, Nat)
<1>1. \A x, y \in Nat : x < y => <<x, y>> \in R
  BY DEF OpToRel
<1>2. \E x \in T : \A y \in T : ~(<<y, x>> \in R)
  <2> HIDE DEF R
  <2>1. IsWellFoundedOn(R, Nat)
    BY NatLessThanWellFounded, Zenon DEF R
  <2> QED BY <2>1, WFMin
<1> QED BY <1>1, <1>2

\* The first path of an inode is the one its other paths are linked to.
LEMMA FileEvents ==
    ASSUME NEW files, NEW i \in Nat \ {0}
    PROVE  LET e == files[i] IN
           \/ \E j \in 1..(i - 1) :
                 /\ files[j].ino = e.ino
                 /\ add_init_file_or_link(files, i) =
                      <<Op("link", [old |-> files[j], new |-> e])>>
           \/ /\ \A j \in 1..(i - 1) : files[j].ino # e.ino
              /\ add_init_file_or_link(files, i) =
                   <<Op("creat", e), Op("fchown", e), Op("fchmod", e), Op("close", e)>>
<1> DEFINE P(j) == files[j].ino = files[i].ino /\ \A k \in 1..(j - 1) : files[k].ino # files[i].ino
           first == CHOOSE j \in 1..i : P(j)
           T == {j \in 1..i : files[j].ino = files[i].ino}
<1>1. \E j \in 1..i : P(j)
  <2>1. T \in SUBSET Nat /\ i \in T
    OBVIOUS
  <2>2. PICK x \in T : \A y \in T : ~(y < x)
    BY <2>1, LeastOf
  <2> QED BY <2>2
<1>2. first \in 1..i /\ P(first)
  BY <1>1, Zenon
<1>3. add_init_file_or_link(files, i) =
        IF first < i THEN <<Op("link", [old |-> files[first], new |-> files[i]])>>
        ELSE <<Op("creat", files[i]), Op("fchown", files[i]), Op("fchmod", files[i]),
               Op("close", files[i])>>
  BY Zenon DEF add_init_file_or_link
<1>4. PICK n : n = first
  OBVIOUS
<1>5. n \in 1..i /\ P(n)
  BY <1>2, <1>4
<1> HIDE DEF first
<1>6. CASE n < i
  BY <1>3, <1>4, <1>5, <1>6
<1>7. CASE ~(n < i)
  BY <1>3, <1>4, <1>5, <1>7
<1> QED BY <1>6, <1>7

\* The lists of a snapshot.
LEMMA SnapshotLists ==
    ASSUME NEW s \in SNAPSHOTS, NEW loop \in LOOPS
    PROVE  /\ Len(Items(s, loop)) \in Nat
           /\ DOMAIN Items(s, loop) = 1..Len(Items(s, loop))
<1>1. AccountsFit(s) /\ TreeFits(s)
  BY SetupAssumption
<1>2. LOOPS = {"groups", "users", "folders", "folders_xattrs", "files", "files_xattrs", "acl"}
  BY DEF LOOPS, After
<1>3. CASE loop = "groups"
  BY <1>1, <1>3, ElementOf DEF AccountsFit, Items
<1>4. CASE loop = "users"
  <2> DEFINE USER == [uid : USERS \ {ROOT_USER}, gids : SUBSET ({ROOT_GROUP} \cup Range(s.groups))]
  <2>1. s.users \in Seq(USER)
    BY <1>1 DEF AccountsFit
  <2> HIDE DEF USER
  <2> QED BY <1>4, <2>1, ElementOf DEF Items
<1>5. CASE loop = "folders"
  BY <1>1, <1>5, ElementOf DEF TreeFits, Items
<1>6. CASE loop = "files"
  BY <1>1, <1>6, ElementOf DEF TreeFits, Items
<1>7. CASE loop = "folders_xattrs"
  BY <1>7, ElementOf, SetupAssumption DEF Items
<1>8. CASE loop = "files_xattrs"
  BY <1>8, ElementOf, SetupAssumption DEF Items
<1>9. CASE loop = "acl"
  BY <1>9 DEF Items
<1> QED BY <1>2, <1>3, <1>4, <1>5, <1>6, <1>7, <1>8, <1>9

LEMMA LoopFacts ==
    /\ LOOPS = {"groups", "users", "folders", "folders_xattrs", "files", "files_xattrs", "acl"}
    /\ After["groups"] = "users" /\ After["users"] = "folders"
    /\ After["folders"] = "folders_xattrs" /\ After["folders_xattrs"] = "files"
    /\ After["files"] = "files_xattrs" /\ After["files_xattrs"] = "acl"
    /\ After["acl"] = "login"
    /\ Before["groups"] = {} /\ Before["users"] = {"groups"}
    /\ Before["folders"] = {"groups", "users"}
    /\ Before["files"] = {"groups", "users", "folders", "folders_xattrs"}
BY DEF LOOPS, After, Before

\* An accepted event that creates its item adds it to what has been made.
LEMMA MadeAdds ==
    ASSUME snapshot \in SNAPSHOTS, pc \in CREATORS, item \in 1..Len(snapshot[pc]),
           AtOp(CREATING), ~AtOp(CREATING)', UNCHANGED <<snapshot, pc, item>>
    PROVE  /\ Made(pc) = {snapshot[pc][i] : i \in 1..(item - 1)}
           /\ Made(pc)' = Made(pc) \cup {snapshot[pc][item]}
           /\ \A loop \in CREATORS \ {pc} : Made(loop)' = Made(loop)
<1>0. Len(snapshot[pc]) \in Nat
  BY SnapshotLists, LoopFacts DEF CREATORS, Items
<1>1. Number(pc) = item - 1 /\ Number(pc)' = item
  BY DEF Number
<1>2. \A loop \in CREATORS \ {pc} : Number(loop)' = Number(loop)
  BY DEF Number
<1>3. 1..item = (1..(item - 1)) \cup {item}
  BY <1>0
<1> QED BY <1>1, <1>2, <1>3 DEF Made

LEMMA MadeSame ==
    ASSUME UNCHANGED <<snapshot, pc, item>>, AtOp(CREATING)' <=> AtOp(CREATING)
    PROVE  \A loop \in CREATORS : Made(loop)' = Made(loop)
BY DEF Made, Number

\* What has been made in the loops that are over, and in those to come.
LEMMA MadeOf ==
    ASSUME snapshot \in SNAPSHOTS
    PROVE  /\ pc \notin {"groups"} => Made("groups") = Range(snapshot.groups)
           /\ pc \notin {"groups", "users"} => Made("users") = Range(snapshot.users)
           /\ pc \notin {"groups", "users", "folders"} => Made("folders") = Range(snapshot.folders)
           /\ pc \notin {"groups", "users", "folders", "folders_xattrs", "files"}
                => Made("files") = Range(snapshot.files)
           /\ pc \in {"groups", "users", "folders", "folders_xattrs"} => Made("files") = {}
<1>1. /\ DOMAIN snapshot.groups = 1..Len(snapshot.groups)
      /\ DOMAIN snapshot.users = 1..Len(snapshot.users)
      /\ DOMAIN snapshot.folders = 1..Len(snapshot.folders)
      /\ DOMAIN snapshot.files = 1..Len(snapshot.files)
  BY SnapshotLists, LoopFacts DEF Items
<1> QED BY <1>1, LoopFacts DEF Made, Number, Range

LEMMA NextItemProgress ==
    ASSUME snapshot \in SNAPSHOTS, Progress, NextItem
    PROVE  /\ Progress'
           /\ AtOp(CREATING)' <=> item < Len(Items(snapshot, pc)) /\ pc \in CREATORS
           /\ ~AtOp({"chown", "fchown", "fchmod", "close"})'
<1>1. pc \in LOOPS /\ ops = <<>> /\ UNCHANGED snapshot /\ item \in 0..Len(Items(snapshot, pc))
  BY DEF NextItem, Progress
<1>2. Len(Items(snapshot, pc)) \in Nat
  BY <1>1, SnapshotLists
<1>3. CASE ~(item < Len(Items(snapshot, pc)))
  <2>1. item' = 0 /\ pc' = After[pc] /\ ops' = <<>>
    BY <1>1, <1>3 DEF NextItem
  <2>2. pc' \in LOOPS => Len(Items(snapshot, pc')) \in Nat
    BY SnapshotLists
  <2>3. pc' \in LOOPS => item' \in 0..Len(Items(snapshot', pc'))
    BY <1>1, <2>1, <2>2
  <2> QED BY <1>3, <2>1, <2>3 DEF Progress, AtOp
<1>4. CASE item < Len(Items(snapshot, pc))
  <2>1. item' = item + 1 /\ ops' = SetupEvents(snapshot, pc, item') /\ pc' = pc
    BY <1>1, <1>4 DEF NextItem
  <2>2. item' \in 1..Len(Items(snapshot, pc)) /\ item' \in Nat \ {0}
    BY <1>1, <1>2, <1>4, <2>1
  <2> DEFINE e == Items(snapshot, pc)[item']
  <2>3. CASE pc = "groups"
    <3>1. ops' = <<Op("create_group", e)>>
      BY <2>1, <2>3 DEF SetupEvents
    <3> QED BY <1>1, <1>4, <2>1, <2>2, <2>3, <3>1
            DEF Progress, OpsLeft, AtOp, Op, CREATORS, CREATING
  <2>4. CASE pc = "users"
    <3>1. ops' = <<Op("create_user", e)>>
      BY <2>1, <2>4 DEF SetupEvents
    <3> QED BY <1>1, <1>4, <2>1, <2>2, <2>4, <3>1
            DEF Progress, OpsLeft, AtOp, Op, CREATORS, CREATING
  <2>5. CASE pc = "folders"
    <3>1. ops' = <<Op("mkdir", e), Op("chown", e), Op("chmod", e)>>
      BY <2>1, <2>5 DEF SetupEvents, add_init_folder
    <3> QED BY <1>1, <1>4, <2>1, <2>2, <2>5, <3>1
            DEF Progress, OpsLeft, FolderOps, AtOp, Op, CREATORS, CREATING
  <2>6. CASE pc \in {"folders_xattrs", "files_xattrs"}
    <3>1. ops' = <<Op("setxattr", e)>>
      BY <2>1, <2>6 DEF SetupEvents
    <3> QED BY <1>1, <1>4, <2>1, <2>2, <2>6, <3>1
            DEF Progress, OpsLeft, AtOp, Op, CREATORS, CREATING
  <2>7. CASE pc = "acl"
    <3>1. ops' = <<Op("set_acl", snapshot)>>
      BY <1>1, <2>1, <2>2, <2>7 DEF SetupEvents, Items
    <3> QED BY <1>1, <1>4, <2>1, <2>2, <2>7, <3>1
            DEF Progress, OpsLeft, AtOp, Op, CREATORS, CREATING
  <2>8. CASE pc = "files"
    <3> DEFINE x == snapshot.files[item']
    <3>1. ops' = add_init_file_or_link(snapshot.files, item')
      BY <2>1, <2>8 DEF SetupEvents
    <3>2. \/ \E j \in 1..(item' - 1) :
                /\ snapshot.files[j].ino = x.ino
                /\ ops' = <<Op("link", [old |-> snapshot.files[j], new |-> x])>>
          \/ /\ \A j \in 1..(item' - 1) : snapshot.files[j].ino # x.ino
             /\ ops' = <<Op("creat", x), Op("fchown", x), Op("fchmod", x), Op("close", x)>>
      BY <2>2, <3>1, FileEvents
    <3>3. FileOps(snapshot.files, item)'
      BY <1>1, <3>2 DEF FileOps
    <3>4. ops' # <<>> /\ Head(ops').op \in {"link", "creat"}
      BY <3>2 DEF Op
    <3> QED BY <1>1, <1>4, <2>1, <2>2, <2>8, <3>3, <3>4
            DEF Progress, OpsLeft, AtOp, CREATORS, CREATING
  <2> QED BY <1>1, <2>3, <2>4, <2>5, <2>6, <2>7, <2>8, LoopFacts
<1> QED BY <1>3, <1>4

LEMMA NextItemMade ==
    ASSUME snapshot \in SNAPSHOTS, Progress, NextItem
    PROVE  \A loop \in CREATORS : Made(loop)' = Made(loop)
<1>1. /\ pc \in LOOPS /\ ops = <<>> /\ UNCHANGED snapshot
      /\ item \in 0..Len(Items(snapshot, pc)) /\ ~AtOp(CREATING)
  BY DEF NextItem, Progress, AtOp
<1>2. Len(Items(snapshot, pc)) \in Nat
  BY <1>1, SnapshotLists
<1>3. CASE item < Len(Items(snapshot, pc))
  <2>1. item' = item + 1 /\ pc' = pc
    BY <1>1, <1>3 DEF NextItem
  <2>2. AtOp(CREATING)' <=> pc \in CREATORS
    BY <1>3, NextItemProgress
  <2>3. \A loop \in CREATORS : Number(loop)' = Number(loop)
    BY <1>1, <1>2, <2>1, <2>2 DEF Number
  <2> QED BY <1>1, <2>3 DEF Made
<1>4. CASE ~(item < Len(Items(snapshot, pc)))
  <2>1. item' = 0 /\ pc' = After[pc] /\ ~AtOp(CREATING)'
    BY <1>1, <1>4, NextItemProgress DEF NextItem
  <2>2. item = Len(Items(snapshot, pc))
    BY <1>1, <1>2, <1>4
  <2>3. Items(snapshot, pc) = IF pc = "acl" THEN <<snapshot>> ELSE snapshot[pc]
    BY DEF Items
  <2>4. ASSUME NEW loop \in CREATORS PROVE Number(loop)' = Number(loop)
    <3>1. CASE loop = pc
      <4>1. Number(loop) = Len(snapshot[pc])
        BY <1>1, <2>2, <2>3, <3>1 DEF Number, CREATORS
      <4>2. pc' # loop /\ pc' \notin Before[loop]
        BY <1>1, <2>1, <3>1, LoopFacts DEF CREATORS
      <4> QED BY <1>1, <3>1, <4>1, <4>2 DEF Number
    <3>2. CASE loop # pc /\ loop = pc'
      <4>1. pc \in Before[loop]
        BY <1>1, <2>1, <3>2, LoopFacts DEF CREATORS
      <4> QED BY <2>1, <3>2, <4>1 DEF Number
    <3>3. CASE loop # pc /\ loop # pc'
      <4>1. pc \in Before[loop] <=> pc' \in Before[loop]
        BY <1>1, <2>1, <3>3, LoopFacts DEF CREATORS
      <4> QED BY <1>1, <3>3, <4>1 DEF Number
    <3> QED BY <3>1, <3>2, <3>3
  <2> QED BY <1>1, <2>4 DEF Made
<1> QED BY <1>3, <1>4

LEMMA NextItemKeeps ==
    ASSUME snapshot \in SNAPSHOTS, SetupInv, NextItem
    PROVE  SetupInv' /\ pc' \notin AfterSetup
<1>1. /\ pc \in LOOPS /\ ops = <<>> /\ UNCHANGED <<vars, snapshot, disk, verdict>>
      /\ pc' = pc \/ pc' = After[pc]
  BY DEF NextItem
<1>2. UNCHANGED <<Users, Groups, Procs, ProcUser, ProcGroup, ProcUmask, ProcEXE, ProcCwd, Files,
                  Folders, FileParents, PathToRoot, DACPermissions, FileUser, FileGroup, UserACL,
                  GroupObjACL, GroupACL, MaskACL, FDs, ProcFDs, FDFile>>
  BY <1>1 DEF vars, userVars, procVars, fileVars, treeVars, ownerVars, aclVars, fdVars
<1>3. Progress' /\ ~AtOp({"chown", "fchown", "fchmod", "close"})'
  BY NextItemProgress DEF SetupInv
<1>4. ~AtOp({"chown", "fchown"})' /\ ~AtOp({"fchown", "fchmod", "close"})'
  BY <1>3 DEF AtOp
<1>5. /\ Made("groups")' = Made("groups") /\ Made("users")' = Made("users")
      /\ Made("folders")' = Made("folders") /\ Made("files")' = Made("files")
  BY NextItemMade DEF SetupInv, CREATORS
<1>6. AccountsMade' /\ TreeMade'
  BY <1>2, <1>5 DEF SetupInv, AccountsMade, TreeMade
<1>7. OwnersMade' /\ ProcsMade'
  <2>1. /\ OwnersMade /\ ProcsMade
        /\ ~AtOp({"chown", "fchown"}) /\ ~AtOp({"fchown", "fchmod", "close"})
    BY <1>1 DEF SetupInv, AtOp
  <2> QED BY <1>1, <1>2, <1>4, <2>1 DEF OwnersMade, ProcsMade
<1>8. pc' \in LOOPS \cup {"login"} /\ (pc' \in LOOPS \ {"acl"} => pc \in LOOPS \ {"acl"})
  BY <1>1, LoopFacts
<1>9. ModesMade'
  BY <1>1, <1>2, <1>8 DEF SetupInv, ModesMade
<1>10. pc' = "login" \/ (pc' = "acl" /\ item' = 1 /\ ops' = <<>>) => AclMade'
  <2>1. SUFFICES ASSUME pc' = "login" \/ (pc' = "acl" /\ item' = 1 /\ ops' = <<>>) PROVE AclMade'
    OBVIOUS
  <2>2. pc = "acl" /\ item = 1
    <3>1. /\ Len(Items(snapshot, "acl")) = 1
          /\ \A x : SetupEvents(snapshot, "acl", x) # <<>>
      BY DEF Items, SetupEvents
    <3>2. item \in 0..Len(Items(snapshot, pc))
      BY <1>1 DEF SetupInv, Progress
    <3>3. pc = "acl" /\ ~(item < Len(Items(snapshot, pc)))
      BY <1>1, <2>1, <3>1, LoopFacts DEF NextItem
    <3>4. item \in 0..1 /\ ~(item < 1)
      BY <3>1, <3>2, <3>3, Zenon
    <3> QED BY <3>3, <3>4
  <2>3. AclMade
    BY <1>1, <2>2 DEF SetupInv
  <2> QED BY <1>1, <1>2, <2>3 DEF AclMade
<1>11. NewMade'
  BY <1>4 DEF NewMade
<1> QED BY <1>1, <1>3, <1>6, <1>7, <1>8, <1>9, <1>10, <1>11, LoopFacts DEF SetupInv, AfterSetup

LEMMA InitSetup ==
    ASSUME SetupInit
    PROVE  SetupIInv /\ VerdictsAgree
<1>1. /\ snapshot \in SNAPSHOTS /\ pc = "groups" /\ item = 0 /\ ops = <<>>
      /\ disk = snapshot.inodes /\ verdict = Agreed
  BY DEF SetupInit
<1>2. Number("groups") = 0 /\ Number("users") = 0 /\ Number("folders") = 0 /\ Number("files") = 0
  BY <1>1, LoopFacts DEF Number, AtOp
<1>3. Made("groups") = {} /\ Made("users") = {} /\ Made("folders") = {} /\ Made("files") = {}
  BY <1>2 DEF Made
<1>4. AccountsMade /\ TreeMade
  BY <1>3 DEF SetupInit, Init, AccountsMade, TreeMade
<1>5. OwnersMade
  BY <1>1, InodesOf DEF SetupInit, Init, OwnersMade
<1>6. ModesMade
  <2>1. SET_GID \notin DEF_FOLDER_PERMS /\ SET_GID \notin DEF_FILE_PERMS
    BY DEF DEF_FOLDER_PERMS, DEF_FILE_PERMS, Bits, SET_GID
  <2> QED BY <2>1 DEF SetupInit, Init, ModesMade
<1>7. ProcsMade
  BY <1>1 DEF SetupInit, Init, ProcsMade, AtOp
<1>8. Progress
  <2>1. Len(Items(snapshot, pc)) \in Nat
    BY <1>1, SnapshotLists, LoopFacts
  <2> QED BY <1>1, <2>1 DEF Progress
<1>9. SetupInv
  BY <1>1, <1>4, <1>5, <1>6, <1>7, <1>8 DEF SetupInv, NewMade, AtOp
<1> QED BY <1>1, <1>9, LoopFacts DEF SetupIInv, AfterSetup, VerdictsAgree, Agreed

\* What the program meets: everything of the snapshot and nothing else.
LEMMA LoginAccepted ==
    ASSUME snapshot \in SNAPSHOTS, SetupInv, pc = "login", NEW user \in Users, NEW group \in Groups
    PROVE  grd_login(user, PROC, group, EXE_FILE)
<1>1. /\ Made("folders") = Range(snapshot.folders) /\ Made("files") = Range(snapshot.files)
  BY MadeOf
<1>2. InodesFit(snapshot) /\ TreeFits(snapshot)
  BY SetupAssumption
<1>3. PICK i \in DOMAIN snapshot.files : snapshot.files[i].ino = EXE_FILE
  BY <1>2 DEF InodesFit, Range
<1>4. /\ \A j \in DOMAIN snapshot.folders : snapshot.folders[j].ino # EXE_FILE
      /\ snapshot.files[i] \in ENTRY
  BY <1>2, <1>3, ElementOf DEF TreeFits
<1>5. EXE_FILE \in Files
  BY <1>1, <1>3 DEF SetupInv, TreeMade, Range
<1>6. EXE_FILE \notin Folders
  BY <1>1, <1>3, <1>4 DEF SetupInv, TreeMade, Range, ENTRY
<1>7. PROC \in PROCS \ Procs
  BY SetupAssumption DEF SetupInv, ProcsMade
<1> QED BY <1>5, <1>6, <1>7 DEF grd_login

LEMMA LoginStarts ==
    ASSUME snapshot \in SNAPSHOTS, SetupInv, NEW user \in Users, NEW group \in Groups,
           Login(user, group)
    PROVE  RunInv' /\ pc' = "running"
<1>1. /\ pc = "login" /\ ops = <<>> /\ login(user, PROC, group, EXE_FILE, {}) /\ pc' = "running"
      /\ UNCHANGED <<snapshot, disk>> /\ disk = snapshot.inodes
  BY LoopFacts, LoginAccepted DEF Login, SetupInv, Progress
<1>2. /\ Procs' = Procs \cup {PROC} /\ ProcCwd' = With(ProcCwd, PROC, ROOT)
      /\ UNCHANGED <<Files, Folders, FileParents, PathToRoot, DACPermissions, FileUser, FileGroup,
                     UserACL, GroupObjACL, GroupACL, MaskACL, FDs, ProcFDs>>
  BY <1>1 DEF login, AddProc, fileVars, treeVars, ownerVars, aclVars, fdVars
<1>3. /\ Made("folders") = Range(snapshot.folders) /\ Made("files") = Range(snapshot.files)
  BY <1>1, MadeOf
<1>4. /\ ROOT \in DOMAIN disk /\ INIT_EXE \notin DOMAIN disk /\ DOMAIN disk \subseteq FILES
      /\ DOMAIN disk = DirsOf(snapshot) \cup {e.ino : e \in Range(snapshot.files)}
  BY <1>1, InodesOf
<1>5. /\ Folders = DirsOf(snapshot) /\ Files = DOMAIN disk \cup {INIT_EXE}
      /\ PathToRoot \in [Folders -> SUBSET Folders] /\ DOMAIN DACPermissions = Files
  BY <1>3, <1>4 DEF SetupInv, TreeMade, ModesMade, DirsOf
<1>6. FileParents \subseteq (FILES \ {ROOT}) \X Folders \X STRINGS
  <2>1. TreeFits(snapshot)
    BY SetupAssumption
  <2>2. ASSUME NEW e \in Range(snapshot.folders) \cup Range(snapshot.files)
        PROVE  e.ino \in FILES \ {ROOT} /\ e.name \in STRINGS /\ e.parent \in Folders
    <3>1. e \in ENTRY
      <4>1. \A i \in DOMAIN snapshot.folders : snapshot.folders[i] \in ENTRY
        BY <2>1, ElementOf DEF TreeFits
      <4>2. \A i \in DOMAIN snapshot.files : snapshot.files[i] \in ENTRY
        BY <2>1, ElementOf DEF TreeFits
      <4> QED BY <4>1, <4>2 DEF Range
    <3>2. e.parent = ROOT \/ \E j \in DOMAIN snapshot.folders : e.parent = snapshot.folders[j].ino
      <4>1. DOMAIN snapshot.folders = 1..Len(snapshot.folders) /\ Len(snapshot.folders) \in Nat
        BY <2>1, ElementOf DEF TreeFits
      <4>2. ASSUME NEW i \in DOMAIN snapshot.folders, e = snapshot.folders[i]
            PROVE  \/ e.parent = ROOT
                   \/ \E j \in DOMAIN snapshot.folders : e.parent = snapshot.folders[j].ino
        <5>1. e.parent = ROOT \/ \E j \in 1..(i - 1) : e.parent = snapshot.folders[j].ino
          BY <2>1, <4>2 DEF TreeFits
        <5> QED BY <4>1, <5>1
      <4>3. ASSUME NEW i \in DOMAIN snapshot.files, e = snapshot.files[i]
            PROVE  \/ e.parent = ROOT
                   \/ \E j \in DOMAIN snapshot.folders : e.parent = snapshot.folders[j].ino
        BY <2>1, <4>3 DEF TreeFits
      <4> QED BY <4>2, <4>3 DEF Range
    <3>3. e.parent \in Folders
      BY <1>5, <3>2 DEF DirsOf, Range
    <3> QED BY <3>1, <3>3 DEF ENTRY
  <2>3. ROOT \in Folders
    BY <1>5 DEF DirsOf
  <2> QED BY <1>3, <2>2, <2>3, ContextAssumption DEF SetupInv, TreeMade
<1>7. AclMade
  BY <1>1 DEF SetupInv
<1>8. ASSUME NEW f \in DOMAIN disk PROVE FileTracked(f)'
  <2>1. FileUser[f] = disk[f].uid /\ FileGroup[f] = disk[f].gid
    <3>1. f \in Files \ {INIT_EXE} /\ ~AtOp({"chown", "fchown"})
      BY <1>1, <1>4, <1>5 DEF AtOp
    <3> QED BY <1>1, <3>1 DEF SetupInv, OwnersMade
  <2>2. /\ disk[f].mode \in MODE /\ DOMAIN disk[f] = INODE_FIELDS
        /\ f \in Folders <=> disk[f].mode.dir
    BY <1>1, <1>5, InodeFacts
  <2>3. /\ f # ROOT => \A acc \in ACCESSES :
             Bits("U", acc) \subseteq DACPermissions[f] <=> acc \subseteq disk[f].mode.u
        /\ f # ROOT => (IsExecutable(f) <=> SomeX(disk[f].mode))
    <3>1. f # ROOT => DACPermissions[f] = translate_mode(disk[f].mode)
      BY <1>1, <1>7, AclEventFile DEF AclMade
    <3>2. f # ROOT => \A acc \in ACCESSES :
             Bits("U", acc) \subseteq DACPermissions[f] <=> acc \subseteq disk[f].mode.u
      BY <2>2, <3>1, ModeBits
    <3>3. f # ROOT => (IsExecutable(f) <=> SomeX(disk[f].mode))
      BY <2>2, <3>1, ExecuteBits, ModeMembers DEF SomeX
    <3> QED BY <3>2, <3>3
  <2>4. f \in DOMAIN GroupObjACL
    BY <1>1, <1>7 DEF AclMade, AclEvent
  <2>5. AsInSnapshot(f)'
    BY <1>1, <1>2, <1>7, <2>4 DEF AsInSnapshot, AclMade
  <2> QED BY <1>1, <1>2, <2>1, <2>2, <2>3, <2>5 DEF FileTracked, IsExecutable
<1>9. \A p \in Procs' : ProcCwd'[p] = ROOT
  BY <1>2 DEF With, SetupInv, ProcsMade
<1>10. FDs = {} /\ ProcFDs = {}
  BY <1>1 DEF SetupInv, ProcsMade, AtOp
<1> QED BY <1>1, <1>2, <1>4, <1>5, <1>6, <1>7, <1>8, <1>9, <1>10 DEF RunInv, AclMade, DirsOf

-----------------------------------------------------------------------------
(* The events of the set-up are accepted.                                  *)

\* What the snapshot's lists say of the item at i and those before it.
LEMMA GroupFresh ==
    ASSUME NEW s \in SNAPSHOTS, NEW i \in 1..Len(s.groups)
    PROVE  /\ s.groups[i] \in GROUPS \ {ROOT_GROUP}
           /\ \A j \in 1..(i - 1) : s.groups[j] # s.groups[i]
<1>1. AccountsFit(s)
  BY SetupAssumption
<1>2. /\ DOMAIN s.groups = 1..Len(s.groups) /\ Len(s.groups) \in Nat
      /\ \A j \in 1..Len(s.groups) : s.groups[j] \in GROUPS \ {ROOT_GROUP}
  BY <1>1, ElementOf DEF AccountsFit
<1>3. \A j \in DOMAIN s.groups : s.groups[i] = s.groups[j] => i = j
  BY <1>1, <1>2 DEF AccountsFit
<1> QED BY <1>2, <1>3

LEMMA UserFresh ==
    ASSUME NEW s \in SNAPSHOTS, NEW i \in 1..Len(s.users)
    PROVE  /\ s.users[i].uid \in USERS \ {ROOT_USER}
           /\ s.users[i].gids \subseteq AllGroups(s)
           /\ \A j \in 1..(i - 1) : s.users[j].uid # s.users[i].uid
<1> DEFINE USER == [uid : USERS \ {ROOT_USER}, gids : SUBSET ({ROOT_GROUP} \cup Range(s.groups))]
<1>1. AccountsFit(s)
  BY SetupAssumption
<1>2. s.users \in Seq(USER)
  BY <1>1 DEF AccountsFit
<1>3. /\ DOMAIN s.users = 1..Len(s.users) /\ Len(s.users) \in Nat
      /\ \A j \in 1..Len(s.users) : s.users[j] \in USER
  <2> HIDE DEF USER
  <2> QED BY <1>2, ElementOf
<1>4. \A j \in DOMAIN s.users : s.users[i].uid = s.users[j].uid => i = j
  BY <1>1, <1>3 DEF AccountsFit
<1>5. \A j \in 1..(i - 1) : s.users[j].uid # s.users[i].uid
  BY <1>3, <1>4
<1>6. s.users[i].uid \in USERS \ {ROOT_USER} /\ s.users[i].gids \subseteq AllGroups(s)
  BY <1>3 DEF AllGroups
<1> QED BY <1>5, <1>6

LEMMA TreeLists ==
    ASSUME NEW s \in SNAPSHOTS
    PROVE  /\ DOMAIN s.folders = 1..Len(s.folders) /\ Len(s.folders) \in Nat
           /\ DOMAIN s.files = 1..Len(s.files) /\ Len(s.files) \in Nat
           /\ \A i \in 1..Len(s.folders) : s.folders[i] \in ENTRY
           /\ \A i \in 1..Len(s.files) : s.files[i] \in ENTRY
<1>1. s.folders \in Seq(ENTRY) /\ s.files \in Seq(ENTRY)
  BY SetupAssumption DEF TreeFits
<1> QED BY <1>1, ElementOf

LEMMA FolderFresh ==
    ASSUME NEW s \in SNAPSHOTS, NEW i \in 1..Len(s.folders)
    PROVE  LET e == s.folders[i] IN
           /\ e \in ENTRY
           /\ e.parent = ROOT \/ \E j \in 1..(i - 1) : e.parent = s.folders[j].ino
           /\ \A j \in 1..(i - 1) : s.folders[j].ino # e.ino /\ ~SamePlace(s.folders[j], e)
           /\ ~(e.parent = ROOT /\ e.name = INIT_NAME)
<1>1. TreeFits(s)
  BY SetupAssumption
<1>2. DOMAIN s.folders = 1..Len(s.folders) /\ Len(s.folders) \in Nat /\ s.folders[i] \in ENTRY
  BY TreeLists
<1>3. /\ s.folders[i].parent = ROOT \/ \E j \in 1..(i - 1) : s.folders[i].parent = s.folders[j].ino
      /\ \A j \in DOMAIN s.folders : s.folders[i].ino = s.folders[j].ino => i = j
      /\ \A j \in DOMAIN s.folders : SamePlace(s.folders[i], s.folders[j]) => i = j
  BY <1>1, <1>2 DEF TreeFits
<1>4. ~(s.folders[i].parent = ROOT /\ s.folders[i].name = INIT_NAME)
  BY <1>1, <1>2 DEF TreeFits, Range
<1> QED BY <1>2, <1>3, <1>4 DEF SamePlace

LEMMA FileFresh ==
    ASSUME NEW s \in SNAPSHOTS, NEW i \in 1..Len(s.files)
    PROVE  LET e == s.files[i] IN
           /\ e \in ENTRY
           /\ e.parent \in DirsOf(s) /\ e.ino \notin DirsOf(s)
           /\ \A j \in 1..(i - 1) : ~SamePlace(s.files[j], e)
           /\ \A x \in Range(s.folders) : ~SamePlace(x, e)
           /\ ~(e.parent = ROOT /\ e.name = INIT_NAME)
<1>1. TreeFits(s)
  BY SetupAssumption
<1>2. DOMAIN s.files = 1..Len(s.files) /\ Len(s.files) \in Nat /\ s.files[i] \in ENTRY
  BY TreeLists
<1>3. /\ \/ s.files[i].parent = ROOT
         \/ \E j \in DOMAIN s.folders : s.files[i].parent = s.folders[j].ino
      /\ \A j \in DOMAIN s.folders : s.files[i].ino # s.folders[j].ino
      /\ \A j \in DOMAIN s.folders : ~SamePlace(s.files[i], s.folders[j])
      /\ \A j \in DOMAIN s.files : SamePlace(s.files[i], s.files[j]) => i = j
  BY <1>1, <1>2 DEF TreeFits
<1>4. ~(s.files[i].parent = ROOT /\ s.files[i].name = INIT_NAME)
  BY <1>1, <1>2 DEF TreeFits, Range
<1>5. s.files[i].parent \in DirsOf(s)
  BY <1>3 DEF DirsOf, Range
<1>6. s.files[i].ino \notin DirsOf(s)
  BY <1>2, <1>3 DEF DirsOf, Range, ENTRY
<1> QED BY <1>2, <1>3, <1>4, <1>5, <1>6 DEF SamePlace, Range

\* INIT is root.
LEMMA InitMay ==
    ASSUME ProcsMade
    PROVE  /\ INIT_PROC \in Procs
           /\ \A f, acc : May(INIT_PROC, f, acc)
           /\ \A dirs : MaySearch(INIT_PROC, dirs)
           /\ \A dir : MayChangeDir(INIT_PROC, dir)
           /\ \A f : IsRootOrOwner(INIT_PROC, f)
BY DEF ProcsMade, May, Refused, MaySearch, MayChangeDir, IsRootOrOwner

LEMMA FolderPlace ==
    ASSUME snapshot \in SNAPSHOTS, SetupInv, pc = "folders", AtOp(CREATING),
           item \in 1..Len(snapshot.folders), NEW e, e = snapshot.folders[item]
    PROVE  /\ e \in ENTRY /\ e \in Range(snapshot.folders)
           /\ e.parent \in Folders /\ e.ino \notin Files
           /\ NameIsFree(e.parent, e.name)
           /\ Cardinality(Files) < MAX_FILES
<1>1. /\ e \in ENTRY
      /\ e.parent = ROOT \/ \E j \in 1..(item - 1) : e.parent = snapshot.folders[j].ino
      /\ \A j \in 1..(item - 1) : /\ snapshot.folders[j].ino # e.ino
                                  /\ ~SamePlace(snapshot.folders[j], e)
      /\ ~(e.parent = ROOT /\ e.name = INIT_NAME)
  BY FolderFresh
<1>2. /\ Made("folders") = {snapshot.folders[j] : j \in 1..(item - 1)} /\ Made("files") = {}
  BY MadeOf DEF Made, Number
<1>3. /\ Folders = {ROOT} \cup {x.ino : x \in Made("folders")} /\ Files = Folders \cup {INIT_EXE}
      /\ FileParents = {<<INIT_EXE, ROOT, INIT_NAME>>}
                         \cup {<<x.ino, x.parent, x.name>> : x \in Made("folders")}
  BY <1>2 DEF SetupInv, TreeMade
<1>4. e.parent \in Folders /\ e.ino \notin Files
  BY <1>1, <1>2, <1>3 DEF ENTRY
<1>5. NameIsFree(e.parent, e.name)
  BY <1>1, <1>2, <1>3 DEF NameIsFree, SamePlace
<1>6. DOMAIN snapshot.folders = 1..Len(snapshot.folders)
      /\ \A j \in 1..Len(snapshot.folders) : snapshot.folders[j] \in ENTRY
      /\ Len(snapshot.folders) \in Nat
  BY TreeLists
<1>7. Files \subseteq FILES
  BY <1>2, <1>3, <1>6, ContextAssumption DEF ENTRY
<1>8. e.ino \in FILES \ Files
  BY <1>1, <1>4 DEF ENTRY
<1> QED BY <1>1, <1>4, <1>5, <1>6, <1>7, <1>8, RoomForFile DEF Range

LEMMA FilePlace ==
    ASSUME snapshot \in SNAPSHOTS, SetupInv, pc = "files", AtOp(CREATING),
           item \in 1..Len(snapshot.files), NEW e, e = snapshot.files[item]
    PROVE  /\ e \in ENTRY /\ e \in Range(snapshot.files)
           /\ e.parent \in Folders /\ e.ino \notin Folders
           /\ NameIsFree(e.parent, e.name)
           /\ \A j \in 1..(item - 1) : /\ snapshot.files[j].ino \in Files
                                       /\ <<snapshot.files[j].ino, snapshot.files[j].parent,
                                            snapshot.files[j].name>> \in FileParents
           /\ (\A j \in 1..(item - 1) : snapshot.files[j].ino # e.ino) =>
                e.ino \notin Files /\ Cardinality(Files) < MAX_FILES
<1>1. /\ e \in ENTRY /\ e.parent \in DirsOf(snapshot) /\ e.ino \notin DirsOf(snapshot)
      /\ \A j \in 1..(item - 1) : ~SamePlace(snapshot.files[j], e)
      /\ \A x \in Range(snapshot.folders) : ~SamePlace(x, e)
      /\ ~(e.parent = ROOT /\ e.name = INIT_NAME)
  BY FileFresh
<1>2. /\ Made("files") = {snapshot.files[j] : j \in 1..(item - 1)}
      /\ Made("folders") = Range(snapshot.folders)
  BY MadeOf DEF Made, Number
<1>3. /\ Folders = DirsOf(snapshot)
      /\ Files = Folders \cup {INIT_EXE} \cup {x.ino : x \in Made("files")}
      /\ FileParents = {<<INIT_EXE, ROOT, INIT_NAME>>}
                         \cup {<<x.ino, x.parent, x.name>> : x \in Made("folders") \cup Made("files")}
  BY <1>2 DEF SetupInv, TreeMade, DirsOf
<1>4. NameIsFree(e.parent, e.name)
  BY <1>1, <1>2, <1>3 DEF NameIsFree, SamePlace
<1>5. DOMAIN snapshot.files = 1..Len(snapshot.files) /\ Len(snapshot.files) \in Nat
      /\ \A j \in 1..Len(snapshot.files) : snapshot.files[j] \in ENTRY
  BY TreeLists
<1>6. ASSUME \A j \in 1..(item - 1) : snapshot.files[j].ino # e.ino
      PROVE  e.ino \notin Files /\ Cardinality(Files) < MAX_FILES
  <2>1. e.ino \in FILES \ Files
    BY <1>1, <1>2, <1>3, <1>6 DEF ENTRY
  <2>2. Files \subseteq FILES
    <3>1. Folders \subseteq FILES
      BY <1>3, InodesOf
    <3>2. \A x \in Made("files") : x.ino \in FILES
      BY <1>2, <1>5 DEF ENTRY
    <3> QED BY <1>3, <3>1, <3>2, ContextAssumption
  <2> QED BY <2>1, <2>2, RoomForFile
<1>7. \A j \in 1..(item - 1) : /\ snapshot.files[j].ino \in Files
                               /\ <<snapshot.files[j].ino, snapshot.files[j].parent,
                                    snapshot.files[j].name>> \in FileParents
  BY <1>2, <1>3
<1> QED BY <1>1, <1>3, <1>4, <1>5, <1>6, <1>7 DEF Range

\* Only below a set-group-ID directory is the group or the mode of something
\* new not what the builder reports.
LEMMA ReportedOrSetGid ==
    ASSUME snapshot \in SNAPSHOTS, SetupInv, pc \in {"folders", "files"},
           NEW e \in Range(snapshot.folders) \cup Range(snapshot.files), e.parent \in Folders
    PROVE  \/ SetGidParent
           \/ /\ CreatedAsReported(e.parent, MkdirPerms(INIT_PROC, e.parent, AllPerms))
              /\ CreatedAsReported(e.parent, AllPerms \ ProcUmask[INIT_PROC])
<1>1. ProcGroup[INIT_PROC] = ROOT_GROUP /\ ProcUmask[INIT_PROC] = {}
  BY DEF SetupInv, ProcsMade
<1>2. CASE SET_GID \notin DACPermissions[e.parent]
  <2>1. InheritedGroup(INIT_PROC, e.parent) = ROOT_GROUP
    BY <1>1, <1>2 DEF InheritedGroup
  <2>2. MkdirPerms(INIT_PROC, e.parent, AllPerms) = AllPerms
    BY <1>1, <1>2 DEF MkdirPerms
  <2>3. AllPerms \ ProcUmask[INIT_PROC] = AllPerms
    BY <1>1
  <2> QED BY <2>1, <2>2, <2>3 DEF CreatedAsReported
<1>3. CASE SET_GID \in DACPermissions[e.parent]
  <2>1. e.parent \in Files /\ pc \in LOOPS \ {"acl"}
    BY LoopFacts DEF SetupInv, TreeMade
  <2>2. e.parent # ROOT /\ "S_ISGID" \in snapshot.inodes[e.parent].mode.special
    BY <1>3, <2>1 DEF SetupInv, ModesMade
  <2>3. PICK x \in Made("folders") : x.ino = e.parent
    BY <2>2 DEF SetupInv, TreeMade
  <2>4. Number("folders") \in 0..Len(snapshot.folders) /\ Len(snapshot.folders) \in Nat
    <3>1. Len(snapshot.folders) \in Nat /\ pc \in LOOPS
      BY TreeLists, LoopFacts
    <3>2. CASE pc = "folders"
      <4>1. Items(snapshot, pc) = snapshot.folders
        BY <3>2 DEF Items
      <4>2. item \in 0..Len(Items(snapshot, pc)) /\ (AtOp(CREATING) => item # 0)
        BY <3>1 DEF SetupInv, Progress, AtOp
      <4>3. item \in 0..Len(snapshot.folders)
        BY <4>1, <4>2, Zenon
      <4>4. Number("folders") = IF AtOp(CREATING) THEN item - 1 ELSE item
        BY <3>2 DEF Number
      <4> QED BY <3>1, <4>2, <4>3, <4>4
    <3>3. CASE pc = "files"
      BY <3>1, <3>3, LoopFacts DEF Number
    <3> QED BY <3>2, <3>3
  <2>5. PICK i \in 1..Len(snapshot.folders) : snapshot.folders[i].ino = e.parent
    BY <2>3, <2>4 DEF Made
  <2> QED BY <2>2, <2>5 DEF SetGidParent
<1> QED BY <1>2, <1>3

\* The entry of the attributes is one of the machine's.
LEMMA XattrEntry ==
    ASSUME snapshot \in SNAPSHOTS, SetupInv, pc \in {"folders_xattrs", "files_xattrs"},
           item \in 1..Len(Items(snapshot, pc)), NEW x, x = Items(snapshot, pc)[item]
    PROVE  <<x.ino, x.parent, x.name>> \in FileParents
<1>1. InodesFit(snapshot)
  BY SetupAssumption
<1>2. x \in Range(Items(snapshot, pc))
  BY SnapshotLists, LoopFacts DEF Range
<1>3. EntryOf(x) \in Range(snapshot.folders) \cup Range(snapshot.files)
  BY <1>1, <1>2 DEF Items, InodesFit
<1>4. EntryOf(x) \in Made("folders") \cup Made("files")
  <2>1. CASE pc = "folders_xattrs"
    <3>1. EntryOf(x) \in Range(snapshot.folders)
      BY <1>1, <1>2, <2>1 DEF Items, InodesFit
    <3> QED BY <2>1, <3>1, MadeOf
  <2>2. CASE pc = "files_xattrs"
    BY <1>3, <2>2, MadeOf
  <2> QED BY <2>1, <2>2
<1>5. PICK y \in Made("folders") \cup Made("files") : y = EntryOf(x)
  BY <1>4
<1>6. <<y.ino, y.parent, y.name>> \in FileParents
  BY DEF SetupInv, TreeMade
<1> QED BY <1>5, <1>6 DEF EntryOf

\* The item the set-up is at has been created and has its entry.
LEMMA ItemMade ==
    ASSUME snapshot \in SNAPSHOTS, SetupInv, pc \in {"folders", "files"}, ~AtOp(CREATING),
           item \in 1..Len(snapshot[pc]), NEW e, e = snapshot[pc][item]
    PROVE  /\ e.ino \in Files \ {INIT_EXE, ROOT} /\ e.ino \in DOMAIN snapshot.inodes
           /\ <<e.ino, e.parent, e.name>> \in FileParents
           /\ snapshot.inodes[e.ino].uid \in Users /\ snapshot.inodes[e.ino].gid \in Groups
           /\ snapshot.inodes[e.ino].mode \in MODE
<1>1. e \in Made(pc)
  BY DEF Made, Number
<1>2. e.ino \in Files /\ <<e.ino, e.parent, e.name>> \in FileParents
  BY <1>1 DEF SetupInv, TreeMade
<1>3. e \in ENTRY /\ e \in Range(snapshot.folders) \cup Range(snapshot.files)
  BY TreeLists DEF Range
<1>4. e.ino \in DOMAIN snapshot.inodes
  BY <1>3, InodesOf DEF DirsOf
<1>5. Users = UsersOf(snapshot) /\ Groups = AllGroups(snapshot)
  BY MadeOf DEF SetupInv, AccountsMade, UsersOf, AllGroups
<1> QED BY <1>2, <1>3, <1>4, <1>5, InodeFacts DEF ENTRY

\* The ACL of the snapshot fits the files, users and groups of the machine.
LEMMA AclAccepted ==
    ASSUME snapshot \in SNAPSHOTS, SetupInv, pc = "acl"
    PROVE  grd_set_acl(AclEvent(snapshot))
<1> DEFINE s == snapshot
           inos == DOMAIN s.inodes \ {ROOT}
           acl == AclEvent(s)
<1>1. Users = UsersOf(s) /\ Groups = AllGroups(s) /\ Files = inos \cup {ROOT, INIT_EXE}
  <2>1. Users = UsersOf(s) /\ Groups = AllGroups(s)
    BY MadeOf DEF SetupInv, AccountsMade, UsersOf, AllGroups
  <2>2. Files = DirsOf(s) \cup {INIT_EXE} \cup {e.ino : e \in Range(s.files)}
    BY MadeOf DEF SetupInv, TreeMade, DirsOf
  <2> QED BY <2>1, <2>2, InodesOf
<1>2. INIT_EXE \notin inos
  BY InodesOf
<1>3. /\ DOMAIN acl.userACL = NamedUsers(s, inos) /\ DOMAIN acl.groupACL = NamedGroups(s, inos)
      /\ DOMAIN acl.groupObjACL = Files /\ DOMAIN acl.dacPermissions = Files
      /\ DOMAIN acl.maskACL = {i \in inos : s.inodes[i].acl.mask # {}}
      /\ acl.userACL = [e \in DOMAIN acl.userACL |-> acl.userACL[e]]
      /\ acl.groupACL = [e \in DOMAIN acl.groupACL |-> acl.groupACL[e]]
      /\ acl.groupObjACL = [e \in DOMAIN acl.groupObjACL |-> acl.groupObjACL[e]]
      /\ acl.maskACL = [e \in DOMAIN acl.maskACL |-> acl.maskACL[e]]
      /\ acl.dacPermissions = [e \in DOMAIN acl.dacPermissions |-> acl.dacPermissions[e]]
      /\ acl.groupObjACL[ROOT] = GroupPerms /\ acl.groupObjACL[INIT_EXE] = GroupPerms
      /\ acl.dacPermissions[ROOT] = AllPerms /\ acl.dacPermissions[INIT_EXE] = AllPerms
  BY <1>1, <1>2 DEF AclEvent
<1>4. /\ \A e \in DOMAIN acl.userACL : /\ e = <<e[1], e[2]>> /\ e[1] \in inos
                                       /\ e[2] \in DOMAIN s.inodes[e[1]].acl.user
      /\ \A e \in DOMAIN acl.groupACL : /\ e = <<e[1], e[2]>> /\ e[1] \in inos
                                        /\ e[2] \in DOMAIN s.inodes[e[1]].acl.group
  BY <1>3 DEF NamedUsers, NamedGroups
<1>5. /\ DOMAIN acl.userACL \subseteq Files \X Users
      /\ DOMAIN acl.groupACL \subseteq Files \X Groups
  BY <1>1, <1>4, InodeFacts DEF IsPartial
<1>6. \A x, i : x \subseteq ACCESS => Effective(i, x) \subseteq ACCESS
  BY DEF Effective
<1>7. /\ \A x : x \subseteq ACCESS => Bits("U", x) \subseteq USER_PERMISSIONS
      /\ \A x : x \subseteq ACCESS => Bits("G", x) \subseteq GROUP_PERMISSIONS
  BY DEF Bits, ACCESS, USER_PERMISSIONS, GROUP_PERMISSIONS
<1>8. \A e \in DOMAIN acl.userACL : acl.userACL[e] \subseteq USER_PERMISSIONS
  <2> TAKE e \in DOMAIN acl.userACL
  <2>1. acl.userACL[e] = Bits("U", Effective(s.inodes[e[1]].acl, s.inodes[e[1]].acl.user[e[2]]))
    BY <1>4, AclEventFile
  <2>2. s.inodes[e[1]].acl.user[e[2]] \subseteq ACCESS
    BY <1>4, InodeFacts DEF IsPartial
  <2> QED BY <1>6, <1>7, <2>1, <2>2
<1>9. \A e \in DOMAIN acl.groupACL : acl.groupACL[e] \subseteq GROUP_PERMISSIONS
  <2> TAKE e \in DOMAIN acl.groupACL
  <2>1. acl.groupACL[e] = Bits("G", Effective(s.inodes[e[1]].acl, s.inodes[e[1]].acl.group[e[2]]))
    BY <1>4, AclEventFile
  <2>2. s.inodes[e[1]].acl.group[e[2]] \subseteq ACCESS
    BY <1>4, InodeFacts DEF IsPartial
  <2> QED BY <1>6, <1>7, <2>1, <2>2
<1>10. ASSUME NEW f \in inos
       PROVE  /\ acl.dacPermissions[f] \subseteq PERMISSIONS
              /\ acl.groupObjACL[f] \subseteq GROUP_PERMISSIONS
              /\ f \in DOMAIN acl.maskACL =>
                    acl.maskACL[f] = acl.dacPermissions[f] \cap GROUP_PERMISSIONS
              /\ f \notin DOMAIN acl.maskACL =>
                    acl.groupObjACL[f] = acl.dacPermissions[f] \cap GROUP_PERMISSIONS
  <2> DEFINE i == s.inodes[f]
  <2>1. /\ i.mode \in MODE /\ i.acl.obj \subseteq ACCESS
        /\ i.acl.mask = {} => i.acl.obj = i.mode.g
    BY <1>10, InodeFacts
  <2>2. /\ acl.dacPermissions[f] = translate_mode(i.mode)
        /\ f \in DOMAIN acl.maskACL <=> i.acl.mask # {}
        /\ i.acl.mask # {} => acl.maskACL[f] = Bits("G", i.mode.g)
        /\ acl.groupObjACL[f] = Bits("G", Effective(i.acl, i.acl.obj))
    BY <1>10, AclEventFile
  <2>3. translate_mode(i.mode) \cap GROUP_PERMISSIONS = Bits("G", i.mode.g)
        /\ translate_mode(i.mode) \subseteq PERMISSIONS
    BY <2>1, ModeBits, ModeMembers
  <2>4. i.acl.mask = {} => Effective(i.acl, i.acl.obj) = i.acl.obj
    BY DEF Effective
  <2>5. acl.groupObjACL[f] \subseteq GROUP_PERMISSIONS
    BY <1>6, <1>7, <2>1, <2>2
  <2> QED BY <2>1, <2>2, <2>3, <2>4, <2>5
<1> HIDE DEF acl
<1>11. /\ IsPartial(acl.userACL, Files \X Users, SUBSET USER_PERMISSIONS)
       /\ IsPartial(acl.groupACL, Files \X Groups, SUBSET GROUP_PERMISSIONS)
  BY <1>3, <1>5, <1>8, <1>9 DEF IsPartial
<1>12. acl.dacPermissions \in [Files -> SUBSET PERMISSIONS]
  BY <1>1, <1>3, <1>10, AllPermsFacts
<1>13. IsPartial(acl.groupObjACL, Files, SUBSET GROUP_PERMISSIONS)
  BY <1>1, <1>3, <1>10 DEF IsPartial, GroupPerms
<1>14. IsPartial(acl.maskACL, Files, SUBSET GROUP_PERMISSIONS)
  <2>1. \A f \in DOMAIN acl.maskACL : f \in inos /\ acl.maskACL[f] \subseteq GROUP_PERMISSIONS
    BY <1>3, <1>10
  <2> QED BY <1>1, <1>3, <2>1 DEF IsPartial
<1>15. AclsFit(Files, acl.userACL, acl.groupACL, acl.groupObjACL, acl.maskACL, acl.dacPermissions)
  <2>1. /\ \A e \in DOMAIN acl.userACL : e[1] \in DOMAIN acl.maskACL
        /\ \A e \in DOMAIN acl.groupACL : e[1] \in DOMAIN acl.maskACL
    <3>1. \A f \in inos : /\ s.inodes[f].acl.mask = {} => DOMAIN s.inodes[f].acl.user = {}
                          /\ s.inodes[f].acl.mask = {} => DOMAIN s.inodes[f].acl.group = {}
      BY InodeFacts
    <3>2. \A f \in inos : s.inodes[f].acl.mask # {} => f \in DOMAIN acl.maskACL
      BY <1>3
    <3> QED BY <1>4, <3>1, <3>2, Zenon
  <2>2. \A f \in DOMAIN acl.maskACL : acl.maskACL[f] = acl.dacPermissions[f] \cap GROUP_PERMISSIONS
    BY <1>3, <1>10
  <2>3. \A f \in Files \ DOMAIN acl.maskACL :
          /\ f \in DOMAIN acl.groupObjACL
          /\ acl.groupObjACL[f] = acl.dacPermissions[f] \cap GROUP_PERMISSIONS
    BY <1>1, <1>3, <1>10, AllPermsFacts
  <2> QED BY <2>1, <2>2, <2>3 DEF AclsFit
<1> QED BY <1>11, <1>12, <1>13, <1>14, <1>15 DEF grd_set_acl, acl

\* The number of the item is in the list while it has events left.
LEMMA ItemInList ==
    ASSUME snapshot \in SNAPSHOTS, Progress, pc \in LOOPS, ops # <<>>
    PROVE  /\ item \in 1..Len(Items(snapshot, pc))
           /\ pc # "acl" => item \in 1..Len(snapshot[pc]) /\ Items(snapshot, pc) = snapshot[pc]
<1>1. item \in 0..Len(Items(snapshot, pc)) /\ item # 0 /\ Len(Items(snapshot, pc)) \in Nat
  BY SnapshotLists DEF Progress
<1>2. item \in 1..Len(Items(snapshot, pc))
  BY <1>1
<1>3. pc # "acl" => Items(snapshot, pc) = snapshot[pc]
  BY DEF Items
<1> QED BY <1>2, <1>3, Zenon

\* There are no set-ID bits yet for a change of owner to take.
LEMMA ChownedNew ==
    ASSUME NewMade, AtOp({"chown", "fchown"})
    PROVE  ChownedAsReported(Head(ops).e.ino)
<1>1. DACPermissions[Head(ops).e.ino] = AllPerms
  BY DEF NewMade
<1>2. SET_UID \notin AllPerms /\ SET_GID \notin AllPerms
  BY DEF AllPerms, FILE_MODES
<1> QED BY <1>1, <1>2 DEF ChownedAsReported, ChownPerms

\* Every guard of the event that is sent next holds, or there is a
\* set-group-ID directory to blame.
LEMMA AcceptsOrBlames ==
    ASSUME snapshot \in SNAPSHOTS, SetupInv, pc \in LOOPS, ops # <<>>
    PROVE  Accepts(Head(ops).op, Head(ops).e) \/ SetGidParent
<1> DEFINE x == Items(snapshot, pc)[item]
<1>1. Progress /\ ProcsMade
  BY DEF SetupInv
<1>2. /\ INIT_PROC \in Procs /\ \A f, acc : May(INIT_PROC, f, acc)
      /\ \A dirs : MaySearch(INIT_PROC, dirs) /\ \A dir : MayChangeDir(INIT_PROC, dir)
      /\ \A f : IsRootOrOwner(INIT_PROC, f)
      /\ ProcUser[INIT_PROC] = ROOT_USER /\ Procs = {INIT_PROC}
      /\ ProcCwd[INIT_PROC] = ROOT /\ ProcEXE[INIT_PROC] = INIT_EXE
  BY <1>1, InitMay DEF ProcsMade
<1>3. /\ item \in 1..Len(Items(snapshot, pc))
      /\ pc # "acl" => item \in 1..Len(snapshot[pc]) /\ x = snapshot[pc][item]
  BY <1>1, ItemInList
<1>4. InitFD \in FILE_DESCRIPTORS
  BY SetupAssumption, Zenon DEF InitFD
<1> HIDE DEF x
<1>5. ASSUME pc = "groups", At("create_group", x, <<>>) PROVE Accepts(Head(ops).op, Head(ops).e)
  <2>1. x \in GROUPS \ {ROOT_GROUP} /\ \A j \in 1..(item - 1) : snapshot.groups[j] # x
    BY <1>3, <1>5, GroupFresh
  <2>2. Made("groups") = {snapshot.groups[j] : j \in 1..(item - 1)}
    BY <1>5 DEF Made, Number, AtOp, At, CREATING
  <2>3. grd_create_group(x)
    BY <2>1, <2>2 DEF grd_create_group, SetupInv, AccountsMade
  <2> QED BY <1>5, <2>3 DEF At, Accepts
<1>6. ASSUME pc = "users", At("create_user", x, <<>>) PROVE Accepts(Head(ops).op, Head(ops).e)
  <2>1. /\ x.uid \in USERS \ {ROOT_USER} /\ x.gids \subseteq AllGroups(snapshot)
        /\ \A j \in 1..(item - 1) : snapshot.users[j].uid # x.uid
    BY <1>3, <1>6, UserFresh
  <2>2. Made("users") = {snapshot.users[j] : j \in 1..(item - 1)}
    BY <1>6 DEF Made, Number, AtOp, At, CREATING
  <2>3. Groups = AllGroups(snapshot)
    BY <1>6, MadeOf DEF SetupInv, AccountsMade, AllGroups
  <2>4. grd_create_user(x.uid, x.gids)
    BY <2>1, <2>2, <2>3 DEF grd_create_user, SetupInv, AccountsMade
  <2> QED BY <1>6, <2>4 DEF At, Accepts
<1>7. ASSUME pc = "folders", At("mkdir", x, <<Op("chown", x), Op("chmod", x)>>)
      PROVE  Accepts(Head(ops).op, Head(ops).e) \/ SetGidParent
  <2>1. AtOp(CREATING) /\ ~AtOp({"fchown", "fchmod", "close"})
    BY <1>7 DEF AtOp, At, CREATING
  <2>2. /\ x \in ENTRY /\ x \in Range(snapshot.folders)
        /\ x.parent \in Folders /\ x.ino \notin Files
        /\ NameIsFree(x.parent, x.name) /\ Cardinality(Files) < MAX_FILES
    BY <1>3, <1>7, <2>1, FolderPlace
  <2>3. x.ino \in FILES \ {ROOT, INIT_EXE} /\ FDs = {}
    BY <1>1, <2>1, <2>2 DEF ENTRY, ProcsMade
  <2>4. grd_mkdir(INIT_PROC, x.parent, x.ino, x.name)
    BY <1>2, <2>2, <2>3 DEF grd_mkdir, IsUnusedForDir
  <2>5. SetGidParent \/ CreatedAsReported(x.parent, MkdirPerms(INIT_PROC, x.parent, AllPerms))
    BY <1>7, <2>2, ReportedOrSetGid
  <2> QED BY <1>7, <2>4, <2>5 DEF At, Accepts
<1>8. ASSUME pc \in {"folders", "files"}, ~AtOp(CREATING)
      PROVE  /\ x.ino \in Files /\ <<x.ino, x.parent, x.name>> \in FileParents
             /\ grd_path(INIT_PROC, x.parent, x.ino, x.name)
             /\ \A f : MayChown(INIT_PROC, f, Ino(x).uid, Ino(x).gid)
  <2>1. /\ x.ino \in Files /\ <<x.ino, x.parent, x.name>> \in FileParents
        /\ snapshot.inodes[x.ino].uid \in Users /\ snapshot.inodes[x.ino].gid \in Groups
    BY <1>3, <1>8, ItemMade
  <2> QED BY <1>2, <2>1 DEF grd_path, MayChown, Ino
<1>9. ASSUME pc = "folders", At("chown", x, <<Op("chmod", x)>>)
      PROVE  Accepts(Head(ops).op, Head(ops).e)
  <2>1. ~AtOp(CREATING) /\ AtOp({"chown", "fchown"}) /\ Head(ops).e = x
    BY <1>9 DEF AtOp, At, CREATING
  <2>2. ChownedAsReported(x.ino)
    BY <2>1, ChownedNew DEF SetupInv
  <2> QED BY <1>8, <1>9, <2>1, <2>2 DEF At, Accepts
<1>10. ASSUME pc = "folders", At("chmod", x, <<>>) PROVE Accepts(Head(ops).op, Head(ops).e)
  <2>1. ~AtOp(CREATING)
    BY <1>10 DEF AtOp, At, CREATING
  <2> QED BY <1>2, <1>8, <1>10, <2>1 DEF At, Accepts
<1>11. ASSUME pc \in {"folders_xattrs", "files_xattrs"}, At("setxattr", x, <<>>)
       PROVE  Accepts(Head(ops).op, Head(ops).e)
  <2>1. <<x.ino, x.parent, x.name>> \in FileParents
    BY <1>3, <1>11, XattrEntry DEF x
  <2>2. grd_setxattr(INIT_PROC, x.parent, x.ino, x.name, x.attr, {})
    BY <1>2, <2>1 DEF grd_setxattr, grd_path
  <2> QED BY <1>11, <2>2 DEF At, Accepts
<1>12. ASSUME pc = "files", \A j \in 1..(item - 1) : snapshot.files[j].ino # x.ino,
              At("creat", x, <<Op("fchown", x), Op("fchmod", x), Op("close", x)>>)
       PROVE  Accepts(Head(ops).op, Head(ops).e) \/ SetGidParent
  <2>1. AtOp(CREATING) /\ ~AtOp({"fchown", "fchmod", "close"})
    BY <1>12 DEF AtOp, At, CREATING
  <2>2. /\ x \in ENTRY /\ x \in Range(snapshot.files)
        /\ x.parent \in Folders /\ x.ino \notin Files
        /\ NameIsFree(x.parent, x.name) /\ Cardinality(Files) < MAX_FILES
    BY <1>3, <1>12, <2>1, FilePlace
  <2>3. x.ino \in FILES \ {ROOT, INIT_EXE} /\ FDs = {}
    BY <1>1, <2>1, <2>2 DEF ENTRY, ProcsMade
  <2>4. IsUnused(x.ino) /\ MayAllocate(INIT_PROC, InitFD, 3)
    BY <1>2, <1>4, <2>2, <2>3, DescriptorFree DEF IsUnused
  <2>5. FlagsCreate(CreatFlags) /\ CreatFlags = {"O_CREAT", "O_WRONLY", "O_TRUNC"}
    <3>1. CreatFlags \cap AccessModes = {"O_WRONLY"} /\ "O_WRONLY" \in AccessModes
      BY DEF CreatFlags, AccessModes
    <3> QED BY <3>1 DEF FlagsCreate, CreatFlags, HasOneAccessMode
  <2>6. grd_creat(INIT_PROC, x.parent, x.ino, x.name, CreatFlags, InitFD, 3)
    BY <1>2, <2>2, <2>4, <2>5 DEF grd_creat, grd_CreateAndOpen
  <2>7. SetGidParent \/ CreatedAsReported(x.parent, AllPerms \ ProcUmask[INIT_PROC])
    BY <1>12, <2>2, ReportedOrSetGid
  <2> QED BY <1>12, <2>6, <2>7 DEF At, Accepts
<1>13. ASSUME pc = "files", AtOp({"fchown", "fchmod", "close"}), Head(ops).e = x
       PROVE  /\ grd_fd(INIT_PROC, InitFD) /\ grd_close(INIT_PROC, InitFD)
              /\ MayChown(INIT_PROC, FDFile[InitFD], Ino(x).uid, Ino(x).gid)
  <2>1. ~AtOp(CREATING)
    BY <1>13 DEF AtOp, CREATING
  <2>2. <<INIT_PROC, InitFD>> \in ProcFDs /\ FDFile[InitFD] = x.ino
    BY <1>1, <1>13 DEF ProcsMade
  <2> QED BY <1>2, <1>8, <1>13, <2>1, <2>2 DEF grd_fd, grd_close
<1>14. ASSUME pc = "files", At("fchown", x, <<Op("fchmod", x), Op("close", x)>>)
       PROVE  Accepts(Head(ops).op, Head(ops).e)
  <2>1. /\ AtOp({"chown", "fchown"}) /\ AtOp({"fchown", "fchmod", "close"})
        /\ Head(ops).op = "fchown" /\ Head(ops).e = x
    BY <1>14 DEF AtOp, At
  <2>2. ChownedAsReported(x.ino) /\ FDFile[InitFD] = x.ino
    BY <1>1, <2>1, ChownedNew DEF SetupInv, ProcsMade
  <2> QED BY <1>13, <1>14, <2>1, <2>2 DEF Accepts
<1>15. ASSUME pc = "files", At("fchmod", x, <<Op("close", x)>>)
       PROVE  Accepts(Head(ops).op, Head(ops).e)
  BY <1>2, <1>13, <1>15 DEF At, AtOp, Accepts
<1>16. ASSUME pc = "files", At("close", x, <<>>) PROVE Accepts(Head(ops).op, Head(ops).e)
  BY <1>13, <1>16 DEF At, AtOp, Accepts
<1>17. ASSUME pc = "files", NEW j \in 1..(item - 1), snapshot.files[j].ino = x.ino,
              At("link", [old |-> snapshot.files[j], new |-> x], <<>>)
       PROVE  Accepts(Head(ops).op, Head(ops).e)
  <2> DEFINE old == snapshot.files[j]
  <2>1. AtOp(CREATING)
    BY <1>17 DEF AtOp, At, CREATING
  <2>2. /\ x.parent \in Folders /\ x.ino \notin Folders /\ NameIsFree(x.parent, x.name)
        /\ old.ino \in Files /\ <<old.ino, old.parent, old.name>> \in FileParents
    BY <1>3, <1>17, <2>1, FilePlace
  <2>3. grd_link_Protected(INIT_PROC, old.parent, x.parent, old.ino, old.name, x.name)
    BY <1>2, <1>17, <2>2 DEF grd_link_Protected, grd_link
  <2>4. /\ Head(ops).op = "link" /\ Head(ops).e.old = old /\ Head(ops).e.new = x
    BY <1>17 DEF At
  <2> QED BY <2>3, <2>4 DEF Accepts
<1>18. ASSUME pc = "acl", At("set_acl", snapshot, <<>>) PROVE Accepts(Head(ops).op, Head(ops).e)
  BY <1>18, AclAccepted DEF At, Accepts
<1> QED BY <1>1, <1>5, <1>6, <1>7, <1>9, <1>10, <1>11, <1>12, <1>14, <1>15, <1>16, <1>17, <1>18,
           OpsAt DEF x


-----------------------------------------------------------------------------
(* An accepted event brings the machine closer to the snapshot.            *)

\* An event of the set-up is done.
Sent(op) ==
    /\ ops # <<>> /\ Head(ops).op = op /\ ops' = Tail(ops)
    /\ UNCHANGED <<snapshot, disk, verdict, item, pc>>

\* What is left of the item, and which events have followed.
LEMMA SentProgress ==
    ASSUME Progress, pc \in LOOPS, NEW op, Sent(op)
    PROVE  /\ Progress' /\ ~AtOp(CREATING)'
           /\ AtOp({"chown", "fchown"})' <=> op \in {"mkdir", "creat"}
           /\ AtOp({"fchown", "fchmod", "close"})' <=> op \in {"creat", "fchown", "fchmod"}
           /\ ops' # <<>> => Head(ops').e = Head(ops).e
           /\ ops' = <<>> <=> op \notin {"mkdir", "chown", "creat", "fchown", "fchmod"}
<1> DEFINE x == Items(snapshot, pc)[item]
<1>1. /\ ops # <<>> /\ Head(ops).op = op /\ ops' = Tail(ops) /\ UNCHANGED <<snapshot, item, pc>>
      /\ item \in 0..Len(Items(snapshot, pc)) /\ item # 0
  BY DEF Sent, Progress
<1>2. /\ (item \in 0..Len(Items(snapshot, pc)))'
  BY <1>1
<1>3. /\ pc = "files" => x = snapshot'.files[item'] /\ x = snapshot.files[item]
      /\ x = Items(snapshot', pc')[item']
  BY <1>1 DEF Items
<1> HIDE DEF x
<1>4. CASE op \notin {"mkdir", "chown", "creat", "fchown", "fchmod"}
  <2>1. ops' = <<>>
    BY <1>1, <1>4, OpsAt DEF At
  <2> QED BY <1>1, <1>2, <1>4, <2>1 DEF Progress, AtOp
<1>5. CASE op = "mkdir"
  <2>1. pc = "folders" /\ ops' = <<Op("chown", x), Op("chmod", x)>> /\ Head(ops).e = x
    BY <1>1, <1>5, OpsAt DEF At, x
  <2>2. OpsLeft'
    BY <1>1, <1>3, <2>1 DEF OpsLeft, FolderOps
  <2>3. ops' # <<>> /\ Head(ops').op = "chown" /\ Head(ops').e = x
    BY <2>1 DEF Op
  <2> QED BY <1>1, <1>2, <1>5, <2>1, <2>2, <2>3 DEF Progress, AtOp, CREATING
<1>6. CASE op = "chown"
  <2>1. pc = "folders" /\ ops' = <<Op("chmod", x)>> /\ Head(ops).e = x
    BY <1>1, <1>6, OpsAt DEF At, x
  <2>2. OpsLeft'
    BY <1>1, <1>3, <2>1 DEF OpsLeft, FolderOps
  <2>3. ops' # <<>> /\ Head(ops').op = "chmod" /\ Head(ops').e = x
    BY <2>1 DEF Op
  <2> QED BY <1>1, <1>2, <1>6, <2>1, <2>2, <2>3 DEF Progress, AtOp, CREATING
<1>7. CASE op = "creat"
  <2>1. /\ pc = "files" /\ ops' = <<Op("fchown", x), Op("fchmod", x), Op("close", x)>>
        /\ Head(ops).e = x
    BY <1>1, <1>7, OpsAt DEF At, x
  <2>2. OpsLeft'
    <3>1. FileOps(snapshot.files, item)'
      BY <1>3, <2>1 DEF FileOps
    <3> QED BY <1>1, <2>1, <3>1 DEF OpsLeft
  <2>3. ops' # <<>> /\ Head(ops').op = "fchown" /\ Head(ops').e = x
    BY <2>1 DEF Op
  <2> QED BY <1>1, <1>2, <1>7, <2>1, <2>2, <2>3 DEF Progress, AtOp, CREATING
<1>8. CASE op = "fchown"
  <2>1. pc = "files" /\ ops' = <<Op("fchmod", x), Op("close", x)>> /\ Head(ops).e = x
    BY <1>1, <1>8, OpsAt DEF At, x
  <2>2. OpsLeft'
    <3>1. FileOps(snapshot.files, item)'
      BY <1>3, <2>1 DEF FileOps
    <3> QED BY <1>1, <2>1, <3>1 DEF OpsLeft
  <2>3. ops' # <<>> /\ Head(ops').op = "fchmod" /\ Head(ops').e = x
    BY <2>1 DEF Op
  <2> QED BY <1>1, <1>2, <1>8, <2>1, <2>2, <2>3 DEF Progress, AtOp, CREATING
<1>9. CASE op = "fchmod"
  <2>1. pc = "files" /\ ops' = <<Op("close", x)>> /\ Head(ops).e = x
    BY <1>1, <1>9, OpsAt DEF At, x
  <2>2. OpsLeft'
    <3>1. FileOps(snapshot.files, item)'
      BY <1>3, <2>1 DEF FileOps
    <3> QED BY <1>1, <2>1, <3>1 DEF OpsLeft
  <2>3. ops' # <<>> /\ Head(ops').op = "close" /\ Head(ops').e = x
    BY <2>1 DEF Op
  <2> QED BY <1>1, <1>2, <1>9, <2>1, <2>2, <2>3 DEF Progress, AtOp, CREATING
<1> QED BY <1>4, <1>5, <1>6, <1>7, <1>8, <1>9


\* The loop an event belongs to, and its item.
LEMMA SentItem ==
    ASSUME snapshot \in SNAPSHOTS, Progress, pc \in LOOPS, NEW op, Sent(op)
    PROVE  /\ op = "create_group" => pc = "groups"
           /\ op = "create_user" => pc = "users"
           /\ op \in {"mkdir", "chown", "chmod"} => pc = "folders"
           /\ op \in {"creat", "fchown", "fchmod", "close", "link"} => pc = "files"
           /\ op = "set_acl" <=> pc = "acl"
           /\ pc = "acl" => Head(ops).e = snapshot /\ item = 1
           /\ pc # "acl" => item \in 1..Len(snapshot[pc])
           /\ op \notin {"link", "set_acl"} => Head(ops).e = Items(snapshot, pc)[item]
           /\ op = "link" => \E j \in 1..(item - 1) :
                                /\ snapshot.files[j].ino = snapshot.files[item].ino
                                /\ Head(ops).e = [old |-> snapshot.files[j],
                                                  new |-> snapshot.files[item]]
           /\ op \in CREATING => pc \in CREATORS
<1> DEFINE x == Items(snapshot, pc)[item]
<1>1. ops # <<>> /\ Head(ops).op = op
  BY DEF Sent
<1>2. item \in 1..Len(Items(snapshot, pc)) /\ (pc # "acl" => item \in 1..Len(snapshot[pc]))
  BY <1>1, ItemInList
<1>3. pc = "acl" => item = 1
  <2>1. Len(Items(snapshot, "acl")) = 1
    BY DEF Items
  <2>2. pc = "acl" => item \in 1..1
    BY <1>2, <2>1, Zenon
  <2> QED BY <2>2
<1>4. pc = "files" => x = snapshot.files[item]
  BY DEF Items
<1> HIDE DEF x
<1>5. \/ pc = "groups" /\ op = "create_group" /\ Head(ops).e = x
      \/ pc = "users" /\ op = "create_user" /\ Head(ops).e = x
      \/ pc = "folders" /\ op \in {"mkdir", "chown", "chmod"} /\ Head(ops).e = x
      \/ pc \in {"folders_xattrs", "files_xattrs"} /\ op = "setxattr" /\ Head(ops).e = x
      \/ pc = "files" /\ op \in {"creat", "fchown", "fchmod", "close"} /\ Head(ops).e = x
      \/ /\ pc = "files" /\ op = "link"
         /\ \E j \in 1..(item - 1) : /\ snapshot.files[j].ino = x.ino
                                     /\ Head(ops).e = [old |-> snapshot.files[j], new |-> x]
      \/ pc = "acl" /\ op = "set_acl" /\ Head(ops).e = snapshot
  BY <1>1, OpsAt DEF At, x
<1> QED BY <1>2, <1>3, <1>4, <1>5 DEF CREATING, CREATORS, x

\* What has been made grows by the item exactly when an event creates it.
LEMMA SentMade ==
    ASSUME snapshot \in SNAPSHOTS, Progress, pc \in LOOPS, NEW op, Sent(op)
    PROVE  /\ op \notin CREATING => \A loop \in CREATORS : Made(loop)' = Made(loop)
           /\ op \in CREATING => \A loop \in CREATORS :
                 /\ pc = loop => Made(loop)' = Made(loop) \cup {snapshot[loop][item]}
                 /\ pc # loop => Made(loop)' = Made(loop)
<1>1. /\ AtOp(CREATING) <=> op \in CREATING
      /\ ~AtOp(CREATING)' /\ UNCHANGED <<snapshot, pc, item>>
  BY SentProgress DEF AtOp, Sent
<1>2. CASE op \notin CREATING
  BY <1>1, <1>2, MadeSame
<1>3. CASE op \in CREATING
  <2>1. pc \in CREATORS /\ item \in 1..Len(snapshot[pc])
    BY <1>3, SentItem DEF CREATORS
  <2>2. /\ Made(pc)' = Made(pc) \cup {snapshot[pc][item]}
        /\ \A loop \in CREATORS \ {pc} : Made(loop)' = Made(loop)
    BY <1>1, <1>3, <2>1, MadeAdds
  <2> QED BY <1>1, <1>3, <2>2
<1> QED BY <1>2, <1>3

\* What an event does not touch keeps its part of the invariant.
LEMMA SentFrame ==
    ASSUME snapshot \in SNAPSHOTS, SetupInv, pc \in LOOPS, NEW op, Sent(op)
    PROVE  /\ Progress' /\ (disk = snapshot.inodes /\ verdict = Agreed)'
           /\ op # "set_acl" => (pc = "login" \/ (pc = "acl" /\ item = 1 /\ ops = <<>>) => AclMade)'
           /\ UNCHANGED userVars /\ op \notin {"create_group", "create_user"} => AccountsMade'
           /\ UNCHANGED treeVars /\ op \notin {"mkdir", "creat", "link"} => TreeMade'
           /\ UNCHANGED <<Files, FileUser, FileGroup>>
                /\ op \notin {"mkdir", "creat", "chown", "fchown"} => OwnersMade'
           /\ UNCHANGED <<Files, DACPermissions>> => ModesMade'
           /\ op \notin {"mkdir", "creat"} => NewMade'
           /\ UNCHANGED <<procVars, fdVars>> /\ op \notin {"creat", "close"} => ProcsMade'
<1>1. /\ Progress /\ UNCHANGED <<snapshot, disk, verdict, item, pc>>
      /\ ops # <<>> /\ Head(ops).op = op
  BY DEF SetupInv, Sent
<1>2. /\ Progress'
      /\ AtOp({"chown", "fchown"})' <=> op \in {"mkdir", "creat"}
      /\ AtOp({"fchown", "fchmod", "close"})' <=> op \in {"creat", "fchown", "fchmod"}
      /\ ops' # <<>> => Head(ops').e = Head(ops).e
  BY <1>1, SentProgress
<1>3. /\ op \notin {"create_group", "create_user"} =>
            Made("groups")' = Made("groups") /\ Made("users")' = Made("users")
      /\ op \notin {"mkdir", "creat", "link"} =>
            Made("folders")' = Made("folders") /\ Made("files")' = Made("files")
  <2>1. /\ op = "create_group" => pc = "groups"
        /\ op = "create_user" => pc = "users"
        /\ op = "mkdir" => pc = "folders"
        /\ op \in {"creat", "link"} => pc = "files"
    BY <1>1, SentItem
  <2>2. /\ op \notin CREATING => \A loop \in CREATORS : Made(loop)' = Made(loop)
        /\ op \in CREATING => \A loop \in CREATORS : pc # loop => Made(loop)' = Made(loop)
    BY <1>1, SentMade
  <2> QED BY <2>1, <2>2 DEF CREATING, CREATORS
<1>4. (disk = snapshot.inodes /\ verdict = Agreed)'
  BY <1>1 DEF SetupInv
<1>5. op # "set_acl" => (pc = "login" \/ (pc = "acl" /\ item = 1 /\ ops = <<>>) => AclMade)'
  <2>1. op # "set_acl" => pc' # "login" /\ pc' # "acl"
    BY <1>1, SentItem, LoopFacts
  <2> QED BY <2>1
<1>6. UNCHANGED userVars /\ op \notin {"create_group", "create_user"} => AccountsMade'
  BY <1>1, <1>3 DEF userVars, SetupInv, AccountsMade
<1>7. UNCHANGED treeVars /\ op \notin {"mkdir", "creat", "link"} => TreeMade'
  BY <1>1, <1>3 DEF treeVars, SetupInv, TreeMade
<1>8. UNCHANGED <<Files, FileUser, FileGroup>> /\ op \notin {"mkdir", "creat", "chown", "fchown"}
        => OwnersMade'
  <2>1. op \notin {"chown", "fchown"} => ~AtOp({"chown", "fchown"})
    BY <1>1 DEF AtOp
  <2> QED BY <1>1, <2>1 DEF SetupInv, OwnersMade
<1>9. UNCHANGED <<Files, DACPermissions>> => ModesMade'
  BY <1>1 DEF SetupInv, ModesMade
<1>10. UNCHANGED <<procVars, fdVars>> /\ op \notin {"creat", "close"} => ProcsMade'
  <2>1. op \notin {"creat", "close"} => AtOp({"fchown", "fchmod", "close"})' =
                                         AtOp({"fchown", "fchmod", "close"})
    BY <1>1, <1>2 DEF AtOp
  <2>2. AtOp({"fchown", "fchmod", "close"})' => Head(ops').e = Head(ops).e
    BY <1>2 DEF AtOp
  <2> QED BY <1>1, <2>1, <2>2 DEF procVars, fdVars, SetupInv, ProcsMade
<1>11. op \notin {"mkdir", "creat"} => NewMade'
  BY <1>2 DEF NewMade
<1> QED BY <1>2, <1>4, <1>5, <1>6, <1>7, <1>8, <1>9, <1>10, <1>11

LEMMA AccountKeeps ==
    ASSUME snapshot \in SNAPSHOTS, SetupInv, pc \in LOOPS, NEW op, Sent(op),
           \/ op = "create_group" /\ create_group(Head(ops).e)
           \/ op = "create_user" /\ create_user(Head(ops).e.uid, Head(ops).e.gids, {})
    PROVE  SetupInv'
<1>1. /\ UNCHANGED <<procVars, fileVars, fdVars>>
      /\ \/ /\ op = "create_group" /\ Groups' = Groups \cup {Head(ops).e} /\ UNCHANGED Users
         \/ /\ op = "create_user" /\ Users' = Users \cup {Head(ops).e.uid} /\ UNCHANGED Groups
  BY DEF create_group, create_user
<1>2. UNCHANGED <<treeVars, Files, FileUser, FileGroup, DACPermissions>>
  BY <1>1 DEF fileVars, treeVars, ownerVars
<1>3. Progress
  BY DEF SetupInv
<1>4. /\ op = "create_group" => pc = "groups" /\ Head(ops).e = snapshot.groups[item]
      /\ op = "create_user" => pc = "users" /\ Head(ops).e = snapshot.users[item]
  BY <1>1, <1>3, SentItem DEF Items
<1>5. AccountsMade'
  <2>1. CASE op = "create_group"
    <3>1. /\ Made("groups")' = Made("groups") \cup {snapshot.groups[item]}
          /\ Made("users")' = Made("users")
      BY <1>3, <1>4, <2>1, SentMade DEF CREATING, CREATORS
    <3> QED BY <1>1, <1>4, <2>1, <3>1 DEF SetupInv, AccountsMade
  <2>2. CASE op = "create_user"
    <3>1. /\ Made("users")' = Made("users") \cup {snapshot.users[item]}
          /\ Made("groups")' = Made("groups")
      BY <1>3, <1>4, <2>2, SentMade DEF CREATING, CREATORS
    <3> QED BY <1>1, <1>4, <2>2, <3>1 DEF SetupInv, AccountsMade
  <2> QED BY <1>1, <2>1, <2>2
<1> QED BY <1>1, <1>2, <1>5, SentFrame DEF SetupInv

\* mkdir and creat: what is new belongs to root and has the mode 0o777.
LEMMA CreatedOwner ==
    ASSUME snapshot \in SNAPSHOTS, SetupInv, pc \in LOOPS, NEW op \in {"mkdir", "creat"}, Sent(op),
           NEW e, e = Head(ops).e, e.ino \in FILES \ {ROOT, INIT_EXE}, NEW group,
           CreateEntry(INIT_PROC, e.parent, e.ino, e.name, group, AllPerms)
    PROVE  OwnersMade' /\ ModesMade' /\ NewMade'
<1>1. /\ Files' = Files \cup {e.ino} /\ DACPermissions' = With(DACPermissions, e.ino, AllPerms)
      /\ FileUser' = With(FileUser, e.ino, ProcUser[INIT_PROC])
      /\ FileGroup' = With(FileGroup, e.ino, group)
  BY DEF CreateEntry
<1>2. /\ UNCHANGED <<snapshot, pc>> /\ AtOp({"chown", "fchown"})' /\ Head(ops').e = e
      /\ ~AtOp({"chown", "fchown"})
  <2>1. Progress /\ UNCHANGED <<snapshot, pc>> /\ Head(ops).op = op
    BY DEF Sent, SetupInv
  <2>2. AtOp({"chown", "fchown"})' /\ (ops' # <<>> => Head(ops').e = e)
    BY <2>1, SentProgress
  <2> QED BY <2>1, <2>2 DEF AtOp
<1>3. OwnersMade'
  BY <1>1, <1>2 DEF SetupInv, OwnersMade, With
<1>4. SET_GID \notin AllPerms
  BY DEF AllPerms, FILE_MODES
<1>5. ModesMade'
  BY <1>1, <1>2, <1>4 DEF SetupInv, ModesMade, With
<1>6. NewMade'
  BY <1>1, <1>2 DEF NewMade, With
<1> QED BY <1>3, <1>5, <1>6

LEMMA MkdirKeeps ==
    ASSUME snapshot \in SNAPSHOTS, SetupInv, pc \in LOOPS, Sent("mkdir"),
           NEW e, e = Head(ops).e,
           CreatedAsReported(e.parent, MkdirPerms(INIT_PROC, e.parent, AllPerms)),
           mkdir(INIT_PROC, e.parent, e.ino, e.name, AllPerms)
    PROVE  SetupInv'
<1>1. Progress /\ ops # <<>> /\ Head(ops).op = "mkdir" /\ UNCHANGED snapshot
  BY DEF SetupInv, Sent
<1>2. pc = "folders" /\ e = snapshot.folders[item] /\ item \in 1..Len(snapshot.folders)
  BY <1>1, SentItem DEF Items
<1>3. /\ Folders' = Folders \cup {e.ino}
      /\ PathToRoot' = With(PathToRoot, e.ino, WithAncestors(e.parent))
      /\ CreateEntry(INIT_PROC, e.parent, e.ino, e.name,
                     InheritedGroup(INIT_PROC, e.parent), AllPerms)
      /\ UNCHANGED <<userVars, procVars, fdVars>> /\ e.parent \in Folders
  BY DEF mkdir, CreatedAsReported, grd_mkdir
<1>4. /\ Files' = Files \cup {e.ino}
      /\ FileParents' = FileParents \cup {<<e.ino, e.parent, e.name>>}
  BY <1>3 DEF CreateEntry
<1>5. e.ino \in FILES \ {ROOT, INIT_EXE}
  BY <1>2, FolderFresh DEF ENTRY
<1>6. OwnersMade' /\ ModesMade' /\ NewMade'
  BY <1>3, <1>5, CreatedOwner
<1>7. TreeMade'
  <2>1. Made("folders")' = Made("folders") \cup {e} /\ Made("files")' = Made("files")
    BY <1>1, <1>2, SentMade DEF CREATING, CREATORS
  <2>2. PathToRoot' \in [Folders' -> SUBSET Folders']
    BY <1>3 DEF With, WithAncestors, SetupInv, TreeMade
  <2>3. Folders' = {ROOT} \cup {x.ino : x \in Made("folders")'}
    BY <1>3, <2>1 DEF SetupInv, TreeMade
  <2>4. Files' = Folders' \cup {INIT_EXE} \cup {x.ino : x \in Made("files")'}
    BY <1>3, <1>4, <2>1 DEF SetupInv, TreeMade
  <2>5. FileParents' = {<<INIT_EXE, ROOT, INIT_NAME>>}
          \cup {<<x.ino, x.parent, x.name>> : x \in Made("folders")' \cup Made("files")'}
    BY <1>4, <2>1 DEF SetupInv, TreeMade
  <2> QED BY <2>2, <2>3, <2>4, <2>5 DEF TreeMade
<1> QED BY <1>3, <1>6, <1>7, SentFrame DEF SetupInv

LEMMA CreatKeeps ==
    ASSUME snapshot \in SNAPSHOTS, SetupInv, pc \in LOOPS, Sent("creat"),
           NEW e, e = Head(ops).e,
           CreatedAsReported(e.parent, AllPerms \ ProcUmask[INIT_PROC]),
           creat(INIT_PROC, e.parent, e.ino, e.name, CreatFlags, AllPerms, InitFD, 3)
    PROVE  SetupInv'
<1>1. Progress /\ ops # <<>> /\ Head(ops).op = "creat" /\ UNCHANGED snapshot
  BY DEF SetupInv, Sent
<1>2. pc = "files" /\ e = snapshot.files[item] /\ item \in 1..Len(snapshot.files)
  BY <1>1, SentItem DEF Items
<1>3. /\ CreateEntry(INIT_PROC, e.parent, e.ino, e.name,
                     InheritedGroup(INIT_PROC, e.parent), AllPerms)
      /\ AllocateFD(INIT_PROC, InitFD, 3, CreatFlags, e.ino)
      /\ UNCHANGED <<userVars, procVars, Folders, PathToRoot>>
  BY DEF creat, open_create, CreateAndOpen, CreatedAsReported
<1>4. /\ Files' = Files \cup {e.ino}
      /\ FileParents' = FileParents \cup {<<e.ino, e.parent, e.name>>}
  BY <1>3 DEF CreateEntry
<1>5. e.ino \in FILES \ {ROOT, INIT_EXE}
  BY <1>2, FileFresh DEF ENTRY
<1>6. OwnersMade' /\ ModesMade' /\ NewMade'
  BY <1>3, <1>5, CreatedOwner
<1>7. TreeMade'
  <2>1. Made("files")' = Made("files") \cup {e} /\ Made("folders")' = Made("folders")
    BY <1>1, <1>2, SentMade DEF CREATING, CREATORS
  <2>2. PathToRoot' \in [Folders' -> SUBSET Folders']
    BY <1>3 DEF SetupInv, TreeMade
  <2>3. Folders' = {ROOT} \cup {x.ino : x \in Made("folders")'}
    BY <1>3, <2>1 DEF SetupInv, TreeMade
  <2>4. Files' = Folders' \cup {INIT_EXE} \cup {x.ino : x \in Made("files")'}
    BY <1>3, <1>4, <2>1 DEF SetupInv, TreeMade
  <2>5. FileParents' = {<<INIT_EXE, ROOT, INIT_NAME>>}
          \cup {<<x.ino, x.parent, x.name>> : x \in Made("folders")' \cup Made("files")'}
    BY <1>4, <2>1 DEF SetupInv, TreeMade
  <2> QED BY <2>2, <2>3, <2>4, <2>5 DEF TreeMade
<1>8. ProcsMade'
  <2>1. ~AtOp({"fchown", "fchmod", "close"}) /\ AtOp({"fchown", "fchmod", "close"})'
    BY <1>1, SentProgress DEF AtOp
  <2>2. Head(ops').e = e
    BY <1>1, <2>1, SentProgress DEF AtOp
  <2>3. FDs = {} /\ ProcFDs = {}
    BY <2>1 DEF SetupInv, ProcsMade
  <2>4. FDs' = {InitFD} /\ ProcFDs' = {<<INIT_PROC, InitFD>>} /\ FDFile'[InitFD] = e.ino
    BY <1>3, <2>3 DEF AllocateFD, With
  <2> QED BY <1>3, <2>1, <2>2, <2>4 DEF procVars, SetupInv, ProcsMade
<1> QED BY <1>3, <1>6, <1>7, <1>8, SentFrame DEF SetupInv


\* chown and fchown give the item the owner it has in the snapshot.
LEMMA ChownKeeps ==
    ASSUME snapshot \in SNAPSHOTS, SetupInv, pc \in LOOPS, NEW op \in {"chown", "fchown"}, Sent(op),
           NEW e, e = Head(ops).e, SetOwner(INIT_PROC, e.ino, Ino(e).uid, Ino(e).gid)
    PROVE  SetupInv'
<1>1. Progress /\ ops # <<>> /\ Head(ops).op = op /\ UNCHANGED <<snapshot, pc>> /\ ~AtOp(CREATING)
  BY DEF SetupInv, Sent, AtOp, CREATING
<1>2. pc \in {"folders", "files"} /\ e = snapshot[pc][item] /\ item \in 1..Len(snapshot[pc])
  BY <1>1, SentItem DEF Items
<1>3. e.ino \in Files
  BY <1>1, <1>2, ItemMade
<1>4. /\ FileUser' = With(FileUser, e.ino, snapshot.inodes[e.ino].uid)
      /\ FileGroup' = With(FileGroup, e.ino, snapshot.inodes[e.ino].gid)
      /\ DACPermissions' = With(DACPermissions, e.ino, ChownPerms(e.ino))
      /\ UNCHANGED <<userVars, procVars, treeVars, fdVars>>
  BY DEF SetOwner, Ino
<1>5. UNCHANGED Files
  BY <1>4 DEF treeVars
<1>6. OwnersMade'
  <2>1. \A f \in Files \ {INIT_EXE} : f # e.ino =>
          FileUser[f] = snapshot.inodes[f].uid /\ FileGroup[f] = snapshot.inodes[f].gid
    BY DEF SetupInv, OwnersMade
  <2>2. DOMAIN FileUser = Files /\ DOMAIN FileGroup = Files
    BY DEF SetupInv, OwnersMade
  <2> QED BY <1>1, <1>3, <1>4, <1>5, <2>1, <2>2 DEF OwnersMade, With
<1>7. ModesMade'
  <2>1. ChownPerms(e.ino) \subseteq DACPermissions[e.ino]
    BY DEF ChownPerms
  <2>2. DOMAIN DACPermissions' = Files'
    BY <1>3, <1>4, <1>5 DEF With, SetupInv, ModesMade
  <2>3. \A f \in Files : DACPermissions'[f] \subseteq DACPermissions[f]
    BY <1>4, <2>1 DEF With, SetupInv, ModesMade
  <2> QED BY <1>1, <1>5, <2>2, <2>3 DEF SetupInv, ModesMade
<1> QED BY <1>4, <1>6, <1>7, SentFrame DEF SetupInv

\* chmod and fchmod give it the mode.
LEMMA SetModeKeeps ==
    ASSUME snapshot \in SNAPSHOTS, SetupInv, pc \in LOOPS, NEW op \in {"chmod", "fchmod"}, Sent(op),
           NEW e, e = Head(ops).e, SetMode(INIT_PROC, e.ino, translate_mode(Ino(e).mode))
    PROVE  SetupInv'
<1>1. Progress /\ ops # <<>> /\ Head(ops).op = op /\ UNCHANGED <<snapshot, pc>> /\ ~AtOp(CREATING)
  BY DEF SetupInv, Sent, AtOp, CREATING
<1>2. pc \in {"folders", "files"} /\ e = snapshot[pc][item] /\ item \in 1..Len(snapshot[pc])
  BY <1>1, SentItem DEF Items
<1>3. e.ino \in Files \ {INIT_EXE, ROOT} /\ snapshot.inodes[e.ino].mode \in MODE
  BY <1>1, <1>2, ItemMade
<1>4. /\ DACPermissions' = With(DACPermissions, e.ino,
                                KeptMode(INIT_PROC, e.ino, translate_mode(Ino(e).mode)))
      /\ UNCHANGED <<userVars, procVars, treeVars, ownerVars, fdVars>>
  BY DEF SetMode
<1>5. UNCHANGED <<Files, FileUser, FileGroup>>
  BY <1>4 DEF treeVars, ownerVars
<1>6. ModesMade'
  <2>1. SET_GID \in KeptMode(INIT_PROC, e.ino, translate_mode(Ino(e).mode))
          => "S_ISGID" \in snapshot.inodes[e.ino].mode.special
    BY <1>3, ModeMembers DEF KeptMode, Ino
  <2>2. DOMAIN DACPermissions' = Files'
    BY <1>3, <1>4, <1>5 DEF With, SetupInv, ModesMade
  <2>3. \A f \in Files : f # e.ino => DACPermissions'[f] = DACPermissions[f]
    BY <1>4 DEF With, SetupInv, ModesMade
  <2>4. DACPermissions'[e.ino] = KeptMode(INIT_PROC, e.ino, translate_mode(Ino(e).mode))
    BY <1>4 DEF With
  <2> QED BY <1>1, <1>3, <1>5, <2>1, <2>2, <2>3, <2>4 DEF SetupInv, ModesMade
<1> QED BY <1>4, <1>5, <1>6, SentFrame DEF SetupInv

\* INIT shares its descriptor with nobody.
LEMMA CloseKeeps ==
    ASSUME snapshot \in SNAPSHOTS, SetupInv, pc \in LOOPS, Sent("close"), close(INIT_PROC, InitFD)
    PROVE  SetupInv'
<1>1. Progress /\ ops # <<>> /\ Head(ops).op = "close"
  BY DEF SetupInv, Sent
<1>2. /\ Procs = {INIT_PROC} /\ FDs = {InitFD} /\ ProcFDs = {<<INIT_PROC, InitFD>>}
  BY <1>1 DEF SetupInv, ProcsMade, AtOp
<1>3. ~IsShared(INIT_PROC, InitFD)
  BY <1>2 DEF IsShared
<1>4. /\ FDs' = FDs \ {InitFD} /\ ProcFDs' = {d \in ProcFDs : d[2] \notin {InitFD}}
      /\ UNCHANGED <<userVars, procVars, fileVars>>
  BY <1>3 DEF close, ForgetFDs
<1>5. FDs' = {} /\ ProcFDs' = {}
  BY <1>2, <1>4
<1>6. ProcsMade'
  <2>1. ~AtOp({"fchown", "fchmod", "close"})'
    BY <1>1, SentProgress
  <2> QED BY <1>4, <1>5, <2>1 DEF procVars, SetupInv, ProcsMade
<1>7. UNCHANGED <<treeVars, Files, FileUser, FileGroup, DACPermissions>>
  BY <1>4 DEF fileVars, treeVars, ownerVars
<1> QED BY <1>4, <1>6, <1>7, SentFrame DEF SetupInv

\* The linked inode is one the machine has.
LEMMA LinkKeeps ==
    ASSUME snapshot \in SNAPSHOTS, SetupInv, pc \in LOOPS, Sent("link"), NEW e, e = Head(ops).e,
           link(INIT_PROC, e.old.parent, e.new.parent, e.old.ino, e.old.name, e.new.name)
    PROVE  SetupInv'
<1>1. Progress /\ ops # <<>> /\ Head(ops).op = "link" /\ UNCHANGED snapshot
  BY DEF SetupInv, Sent
<1>2. pc = "files" /\ item \in 1..Len(snapshot.files)
  BY <1>1, SentItem
<1>3. PICK j \in 1..(item - 1) : /\ snapshot.files[j].ino = snapshot.files[item].ino
                                 /\ e = [old |-> snapshot.files[j], new |-> snapshot.files[item]]
  BY <1>1, SentItem
<1> DEFINE x == snapshot.files[item]
<1>4. e.new = x /\ e.old.ino = x.ino
  BY <1>3
<1>5. /\ FileParents' = FileParents \cup {<<x.ino, x.parent, x.name>>} /\ x.ino \in Files
      /\ UNCHANGED <<userVars, procVars, fdVars, ownerVars, DACPermissions, Files, Folders,
                     PathToRoot>>
  BY <1>4 DEF link, grd_link
<1>6. TreeMade'
  <2>1. Made("files")' = Made("files") \cup {x} /\ Made("folders")' = Made("folders")
    BY <1>1, <1>2, SentMade DEF CREATING, CREATORS
  <2> HIDE DEF x
  <2>2. Folders' = {ROOT} \cup {y.ino : y \in Made("folders")'}
        /\ PathToRoot' \in [Folders' -> SUBSET Folders']
    BY <1>5, <2>1 DEF SetupInv, TreeMade
  <2>3. Files' = Folders' \cup {INIT_EXE} \cup {y.ino : y \in Made("files")'}
    BY <1>5, <2>1 DEF SetupInv, TreeMade
  <2>4. FileParents' = {<<INIT_EXE, ROOT, INIT_NAME>>}
          \cup {<<y.ino, y.parent, y.name>> : y \in Made("folders")' \cup Made("files")'}
    BY <1>5, <2>1 DEF SetupInv, TreeMade
  <2> QED BY <2>2, <2>3, <2>4 DEF TreeMade
<1>7. UNCHANGED <<FileUser, FileGroup>>
  BY <1>5 DEF ownerVars
<1> QED BY <1>5, <1>6, <1>7, SentFrame DEF SetupInv

LEMMA XattrKeeps ==
    ASSUME snapshot \in SNAPSHOTS, SetupInv, pc \in LOOPS, Sent("setxattr"), NEW e,
           setxattr(INIT_PROC, e.parent, e.ino, e.name, e.attr, e.value, {})
    PROVE  SetupInv'
<1>1. UNCHANGED <<userVars, procVars, treeVars, fdVars, DACPermissions, FileUser, FileGroup>>
  BY DEF setxattr
<1>2. UNCHANGED Files
  BY <1>1 DEF treeVars
<1> QED BY <1>1, <1>2, SentFrame DEF SetupInv

LEMMA AclKeeps ==
    ASSUME snapshot \in SNAPSHOTS, SetupInv, pc \in LOOPS, Sent("set_acl"),
           set_acl(AclEvent(Head(ops).e))
    PROVE  SetupInv'
<1>1. Progress /\ UNCHANGED <<snapshot, pc>>
  BY DEF SetupInv, Sent
<1>2. pc = "acl" /\ Head(ops).e = snapshot
  BY <1>1, SentItem
<1>3. /\ AclMade' /\ DOMAIN DACPermissions' = Files
      /\ UNCHANGED <<userVars, procVars, treeVars, ownerVars, fdVars>>
  BY <1>1, <1>2 DEF AclMade, set_acl, grd_set_acl
<1>4. UNCHANGED <<Files, FileUser, FileGroup>>
  BY <1>3 DEF treeVars, ownerVars
<1>5. ModesMade'
  BY <1>1, <1>2, <1>3, <1>4 DEF ModesMade
<1> QED BY <1>3, <1>4, <1>5, SentFrame DEF SetupInv


\* One event of the set-up: done, or refused with a directory to blame.
LEMMA SetupKeeps ==
    ASSUME snapshot \in SNAPSHOTS, SetupInv, Setup
    PROVE  \/ pc' = pc /\ pc \in LOOPS /\ SetupInv'
           \/ pc' = "refused" /\ SetGidParent
<1> DEFINE op == Head(ops).op
           e == Head(ops).e
<1>1. pc \in LOOPS /\ ops # <<>> /\ ops' = Tail(ops) /\ UNCHANGED <<snapshot, disk, verdict, item>>
  BY DEF Setup
<1>2. CASE ~Accepts(op, e)
  BY <1>1, <1>2, AcceptsOrBlames DEF Setup
<1>3. CASE Accepts(op, e)
  <2>1. SetupEvent(op, e) /\ pc' = pc
    BY <1>3 DEF Setup
  <2>2. Sent(op)
    BY <1>1, <2>1 DEF Sent
  <2>3. ops # <<>> /\ Head(ops).op = op /\ e = Head(ops).e /\ Progress
    BY <1>1 DEF SetupInv
  <2> HIDE DEF op, e
  <2>4. CASE op \in {"create_group", "create_user"}
    <3>1. \/ op = "create_group" /\ create_group(e)
          \/ op = "create_user" /\ create_user(e.uid, e.gids, {})
      BY <2>1, <2>4 DEF SetupEvent
    <3> QED BY <1>1, <2>1, <2>2, <2>3, <3>1, AccountKeeps
  <2>5. CASE op = "mkdir"
    <3>1. /\ mkdir(INIT_PROC, e.parent, e.ino, e.name, AllPerms)
          /\ CreatedAsReported(e.parent, MkdirPerms(INIT_PROC, e.parent, AllPerms))
      BY <1>3, <2>1, <2>5 DEF SetupEvent, Accepts
    <3> QED BY <1>1, <2>1, <2>2, <2>3, <2>5, <3>1, MkdirKeeps
  <2>6. CASE op = "creat"
    <3>1. /\ creat(INIT_PROC, e.parent, e.ino, e.name, CreatFlags, AllPerms, InitFD, 3)
          /\ CreatedAsReported(e.parent, AllPerms \ ProcUmask[INIT_PROC])
      BY <1>3, <2>1, <2>6 DEF SetupEvent, Accepts
    <3> QED BY <1>1, <2>1, <2>2, <2>3, <2>6, <3>1, CreatKeeps
  <2>7. op \in {"fchown", "fchmod"} => FDFile[InitFD] = e.ino
    BY <2>3 DEF SetupInv, ProcsMade, AtOp
  <2>8. CASE op \in {"chown", "fchown"}
    <3>1. SetOwner(INIT_PROC, e.ino, Ino(e).uid, Ino(e).gid)
      BY <2>1, <2>7, <2>8 DEF SetupEvent, chown, fchown
    <3> QED BY <1>1, <2>1, <2>2, <2>3, <2>8, <3>1, ChownKeeps
  <2>9. CASE op \in {"chmod", "fchmod"}
    <3>1. SetMode(INIT_PROC, e.ino, translate_mode(Ino(e).mode))
      BY <2>1, <2>7, <2>9 DEF SetupEvent, chmod, fchmod
    <3> QED BY <1>1, <2>1, <2>2, <2>3, <2>9, <3>1, SetModeKeeps
  <2>10. CASE op = "close"
    <3>1. close(INIT_PROC, InitFD)
      BY <2>1, <2>10 DEF SetupEvent
    <3> QED BY <1>1, <2>1, <2>2, <2>10, <3>1, CloseKeeps
  <2>11. CASE op = "link"
    <3>1. link(INIT_PROC, e.old.parent, e.new.parent, e.old.ino, e.old.name, e.new.name)
      BY <2>1, <2>11 DEF SetupEvent, link_Protected
    <3> QED BY <1>1, <2>1, <2>2, <2>3, <2>11, <3>1, LinkKeeps
  <2>12. CASE op = "setxattr"
    <3>1. setxattr(INIT_PROC, e.parent, e.ino, e.name, e.attr, e.value, {})
      BY <2>1, <2>12 DEF SetupEvent
    <3> QED BY <1>1, <2>1, <2>2, <2>12, <3>1, XattrKeeps
  <2>13. CASE op = "set_acl"
    <3>1. set_acl(AclEvent(Head(ops).e))
      BY <2>1, <2>3, <2>13 DEF SetupEvent
    <3> QED BY <1>1, <2>1, <2>2, <2>13, <3>1, AclKeeps
  <2> QED BY <2>1, <2>4, <2>5, <2>6, <2>8, <2>9, <2>10, <2>11, <2>12, <2>13 DEF SetupEvent
<1> QED BY <1>2, <1>3

-----------------------------------------------------------------------------
(* The theorems.                                                           *)

\* The three properties the invariant is kept with.
LEMMA SetupStep ==
    ASSUME SetupIInv, VerdictsAgree, SetupAccepted, [SetupNext]_allVars
    PROVE  SetupIInv' /\ VerdictsAgree' /\ SetupAccepted'
<1>1. /\ snapshot \in SNAPSHOTS /\ (pc \notin AfterSetup => SetupInv) /\ (pc = "running" => RunInv)
      /\ pc \in LOOPS \cup {"login"} \cup AfterSetup
  BY DEF SetupIInv
<1>2. LOOPS \cap AfterSetup = {} /\ "login" \notin AfterSetup
  BY LoopFacts DEF AfterSetup
<1>3. SetupInv => VerdictsAgree
  BY DEF SetupInv, VerdictsAgree, Agreed
<1>4. CASE NextItem
  <2>1. pc \notin AfterSetup /\ pc' \in LOOPS \cup {"login"} /\ UNCHANGED snapshot
    BY <1>2, <1>4, LoopFacts DEF NextItem
  <2>2. SetupInv' /\ pc' \notin AfterSetup
    BY <1>1, <1>4, <2>1, NextItemKeeps
  <2>3. VerdictsAgree' /\ SetupAccepted'
    BY <2>2 DEF SetupInv, VerdictsAgree, Agreed, SetupAccepted, AfterSetup
  <2> QED BY <1>1, <2>1, <2>2, <2>3 DEF SetupIInv, AfterSetup
<1>5. CASE Setup
  <2>1. pc \in LOOPS /\ UNCHANGED <<snapshot, verdict>> /\ SetupInv
    BY <1>1, <1>2, <1>5 DEF Setup
  <2>2. CASE pc' = pc /\ SetupInv'
    <3>1. VerdictsAgree' /\ SetupAccepted'
      BY <1>2, <2>1, <2>2 DEF SetupInv, VerdictsAgree, Agreed, SetupAccepted, AfterSetup
    <3> QED BY <1>1, <1>2, <2>1, <2>2, <3>1 DEF SetupIInv, AfterSetup
  <2>3. CASE pc' = "refused" /\ SetGidParent
    <3>1. SetupAccepted'
      BY <2>1, <2>3 DEF SetupAccepted, SetGidParent
    <3>2. VerdictsAgree'
      BY <2>1 DEF SetupInv, VerdictsAgree, Agreed
    <3> QED BY <1>1, <2>1, <2>3, <3>1, <3>2 DEF SetupIInv, AfterSetup
  <2> QED BY <1>1, <1>5, <2>1, <2>2, <2>3, SetupKeeps
<1>6. ASSUME NEW user \in Users, NEW group \in Groups, Login(user, group)
      PROVE  SetupIInv' /\ VerdictsAgree' /\ SetupAccepted'
  <2>1. pc = "login" /\ UNCHANGED <<snapshot, verdict>> /\ SetupInv
    BY <1>1, <1>2, <1>6 DEF Login
  <2>2. RunInv' /\ pc' = "running"
    BY <1>1, <1>6, <2>1, LoginStarts
  <2>3. VerdictsAgree' /\ SetupAccepted'
    BY <2>1, <2>2 DEF SetupInv, VerdictsAgree, Agreed, SetupAccepted
  <2> QED BY <1>1, <2>1, <2>2, <2>3 DEF SetupIInv, AfterSetup
<1>7. ASSUME pc' = "ended", UNCHANGED snapshot PROVE SetupIInv' /\ SetupAccepted'
  BY <1>1, <1>7 DEF SetupIInv, AfterSetup, SetupAccepted
<1>8. ASSUME pc = "running", NEW t \in TESTS, NEW e \in Entries, OpenExists(e, t.case, t.model)
      PROVE  SetupIInv' /\ VerdictsAgree' /\ SetupAccepted'
  <2>1. pc' = "ended" /\ UNCHANGED snapshot
    BY <1>8 DEF OpenExists, Send
  <2> QED BY <1>1, <1>7, <1>8, <2>1, OpenExistsAgrees
<1>9. ASSUME pc = "running", NEW t \in TESTS, NEW parent \in Folders,
             OpenCreate(parent, t.case, t.model)
      PROVE  SetupIInv' /\ VerdictsAgree' /\ SetupAccepted'
  <2>1. pc' = "ended" /\ UNCHANGED snapshot
    BY <1>9 DEF OpenCreate, Send
  <2> QED BY <1>1, <1>7, <1>9, <2>1, OpenCreateAgrees
<1>10. ASSUME pc = "running", NEW e \in Entries, NEW newParent \in Folders, Link(e, newParent)
       PROVE  SetupIInv' /\ VerdictsAgree' /\ SetupAccepted'
  <2>1. pc' = "ended" /\ UNCHANGED snapshot
    BY <1>10 DEF Link, Send
  <2> QED BY <1>1, <1>7, <1>10, <2>1, LinkAgrees
<1>11. ASSUME pc = "running", NEW e \in Entries, NEW mode \in CHMODS, Chmod(e, mode)
       PROVE  SetupIInv' /\ VerdictsAgree' /\ SetupAccepted'
  <2>1. pc' = "running" /\ UNCHANGED snapshot
    BY <1>11 DEF Chmod, Send
  <2>2. RunInv' /\ VerdictsAgree'
    BY <1>1, <1>11, ChmodKeeps, ChmodAgrees
  <2> QED BY <1>1, <2>1, <2>2 DEF SetupIInv, AfterSetup, SetupAccepted
<1>12. CASE UNCHANGED allVars
  <2>1. UNCHANGED <<vars, snapshot, disk, item, ops, verdict, pc>>
    BY <1>12 DEF allVars
  <2>2. UNCHANGED <<Users, Groups, UserGroups, Procs, ProcUser, ProcGroup, ProcUmask, ProcEXE, ProcCwd,
                    Files, Folders, FileParents, PathToRoot, DACPermissions, FileUser, FileGroup,
                    UserACL, GroupObjACL, GroupACL, MaskACL, FDs, ProcFDs, FDFile>>
    BY <2>1 DEF vars, userVars, procVars, fileVars, treeVars, ownerVars, aclVars, fdVars
  <2>3. VerdictsAgree' /\ SetupAccepted'
    BY <2>1, <2>2 DEF VerdictsAgree, SetupAccepted, SetGidParent
  <2>4. RunInv => RunInv'
    BY <2>1, <2>2 DEF RunInv, FileTracked, AsInSnapshot, IsExecutable
  <2>5. SetupInv => SetupInv'
    <3>1. \A loop \in CREATORS : Made(loop)' = Made(loop)
      BY <2>1, MadeSame DEF AtOp
    <3>2. /\ Made("groups")' = Made("groups") /\ Made("users")' = Made("users")
          /\ Made("folders")' = Made("folders") /\ Made("files")' = Made("files")
      BY <3>1 DEF CREATORS
    <3>3. AccountsMade /\ TreeMade => AccountsMade' /\ TreeMade'
      BY <2>2, <3>2 DEF AccountsMade, TreeMade
    <3>4. OwnersMade /\ ModesMade /\ NewMade /\ ProcsMade
            => OwnersMade' /\ ModesMade' /\ NewMade' /\ ProcsMade'
      BY <2>1, <2>2 DEF OwnersMade, ModesMade, NewMade, ProcsMade, AtOp
    <3>5. Progress => Progress'
      BY <2>1 DEF Progress, OpsLeft, FolderOps, FileOps
    <3>6. AclMade => AclMade'
      BY <2>1, <2>2 DEF AclMade
    <3> QED BY <2>1, <3>3, <3>4, <3>5, <3>6 DEF SetupInv
  <2> QED BY <1>1, <2>1, <2>3, <2>4, <2>5 DEF SetupIInv
<1> QED BY <1>4, <1>5, <1>6, <1>8, <1>9, <1>10, <1>11, <1>12 DEF SetupNext

\* How the machine, the disk and the loops of _replay_setup correspond, in
\* every state.
THEOREM SetupInvariant == SetupSpec => [](SetupIInv /\ VerdictsAgree /\ SetupAccepted)
<1>1. SetupInit => SetupIInv /\ VerdictsAgree /\ SetupAccepted
  <2>1. SetupInit => pc = "groups"
    BY DEF SetupInit
  <2> QED BY <2>1, InitSetup DEF SetupAccepted
<1>2. SetupIInv /\ VerdictsAgree /\ SetupAccepted /\ [SetupNext]_allVars
        => (SetupIInv /\ VerdictsAgree /\ SetupAccepted)'
  BY SetupStep
<1> QED BY <1>1, <1>2, PTL DEF SetupSpec

\* The machine refuses no event of _replay_setup, whatever the snapshot, but
\* below a set-group-ID directory: every guard of create_group, create_user,
\* mkdir, chown, chmod, setxattr, creat, fchown, fchmod, close, link and
\* set_acl, the mode and the group the builder reports among them, and of the
\* login that follows, holds in the order they are sent.
THEOREM SetupNeverRefused == SetupSpec => []SetupAccepted
BY SetupInvariant, PTL

\* From the login on, through every chmod, the machine grants the program the
\* accesses the kernel grants, for every mode, owner, mask and named entry,
\* to root and to everybody else.
THEOREM AccessAgrees == SetupSpec => []AccessSame
<1>1. SetupIInv => AccessSame
  BY FileAccess DEF SetupIInv, AccessSame
<1> QED BY <1>1, SetupInvariant, PTL

\* The machine accepts an open, a chmod or a link exactly when the kernel does
\* or when fs.protected_regular or safe_hardlink_source, which the machine does
\* not have, is all that refuses it; at every setting of fs.protected_regular.
THEOREM VerdictsSame == SetupSpec => []VerdictsAgree
BY SetupInvariant, PTL
=============================================================================
