------------------------------ MODULE MC_DAC ------------------------------
(***************************************************************************)
(* Instances of DAC for TLC.  The sets of files, processes, users and      *)
(* descriptors are model values of the configurations; here are the        *)
(* arguments with which the events are called.                             *)
(***************************************************************************)
EXTENDS DAC, TLC

MC_None == {}

\* One mode: the tree run is not about permissions, and its user is root.
MC_FileModes == {DEF_FILE_PERMS}
MC_NoUmask == {{}}
MC_Targets == {<<ROOT, INIT_NAME>>}

\* Close-on-exec, creations for writing, and O_PATH, which makes a "writable"
\* descriptor of a directory legal.
MC_Flags == {{"O_RDONLY", "O_CLOEXEC"}, {"O_WRONLY", "O_CREAT"},
             {"O_WRONLY", "O_PATH"}}

\* The space the tree run explores: trees of four files and two names under
\* one process with one descriptor, and two processes that share two
\* descriptors of at most three files of one name.  The steps out of it, to a
\* third descriptor, another executable, other capabilities or a symbolic
\* link beside a second process, are checked and not followed further.
OneProcess ==
    /\ Procs = {INIT_PROC}
    /\ Cardinality(FDs) <= 1
    /\ \A d \in FDs : FDNumber[d] = 3 /\ "O_PATH" \notin FDFlags[d]
TwoProcesses ==
    /\ Cardinality(FDs) <= 2
    /\ Cardinality(Files) <= 3
    /\ SymLinks = {}
    /\ \A e \in FileParents : e[3] = INIT_NAME
    /\ \A p \in Procs : ProcCwd[p] = ROOT
Explored ==
    /\ UserCaps[ROOT_USER] = {}
    /\ \A p \in Procs : ProcEXE[p] = INIT_EXE
    /\ OneProcess \/ TwoProcesses

-----------------------------------------------------------------------------
(* The access run: ACLs on INIT_EXE, for the ordinary users and groups.    *)

Other(S, x) == S \ {x}

\* A mode whose group bits are those of the mask, or of the group entry.
ModeFor(group, other) ==
    Bits("U", {"r", "x"}) \cup Bits("G", group) \cup Bits("O", other)

\* The ACL of INIT_EXE is given by the accesses of its entries; "none" where
\* the entry is absent.  ROOT keeps a plain mode.
AclWith(user, group, obj, mask, other) ==
    LET entry(k, v) == IF v = {"none"} THEN {} ELSE k
        classBits   == IF mask = {"none"} THEN obj ELSE mask
    IN  [userACL |-> [e \in entry({INIT_EXE} \X Other(USERS, ROOT_USER), user) |->
                        Bits("U", user)],
         groupACL |-> [e \in entry({INIT_EXE} \X Other(GROUPS, ROOT_GROUP), group) |->
                         Bits("G", group)],
         groupObjACL |-> [f \in {ROOT} \cup entry({INIT_EXE}, obj) |->
                            IF f = ROOT THEN Bits("G", {"r", "x"})
                                        ELSE Bits("G", obj)],
         maskACL |-> [f \in entry({INIT_EXE}, mask) |-> Bits("G", mask)],
         dacPermissions |-> [f \in {ROOT, INIT_EXE} |->
                               IF f = ROOT THEN DEF_FOLDER_PERMS
                                           ELSE ModeFor(classBits \ {"none"}, other)]]

MC_Acls == {AclWith(user, group, {"x"}, mask, {"x"}) :
              user \in {{"none"}, {"r"}}, group \in {{"none"}, {"r"}},
              mask \in {{"none"}, {}, {"r"}}}

\* A sticky mode that lets others write, and set-ID modes.
MC_AccessModes == {DEF_SYMLINK_PERMS \cup {STICKY_BIT},
                   ModeFor({"r"}, {}) \cup {SET_UID, SET_GID}}

-----------------------------------------------------------------------------
Sym == Permutations(FILES \ {ROOT, INIT_EXE}) \cup Permutations(FILE_DESCRIPTORS)
         \cup Permutations(PROCS \ {INIT_PROC})
===========================================================================
