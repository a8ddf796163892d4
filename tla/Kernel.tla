------------------------------- MODULE Kernel -------------------------------
(***************************************************************************)
(* The file system of the container while one test program runs: the       *)
(* effect of the successful calls of the one traced process.  External:    *)
(* this is Linux, as far as the mediator's handlers depend on it.          *)
(* A path is the sequence of its names; <<>> is "/".  The group of a file  *)
(* is treated by the mediator exactly as its owner, so only the owner is   *)
(* kept.                                                                   *)
(***************************************************************************)
EXTENDS Naturals, Sequences, Functions, FiniteSets

CONSTANTS NAMES, INODES, ROOT_INO, FD_NUMBERS, OWNERS, MODES, MAX_DEPTH

PATHS == UNION {[1..n -> NAMES] : n \in 0..MAX_DEPTH}

\* os.path.dirname, which leaves "/" as it is.
dirname(path) == IF path = <<>> THEN <<>> ELSE SubSeq(path, 1, Len(path) - 1)

ASSUME KernelAssumption ==
    /\ ROOT_INO \in INODES
    /\ "plain" \in MODES
    /\ MAX_DEPTH \in Nat

VARIABLES names,    \* path |-> inode
          table,    \* descriptor number |-> inode
          wd,       \* inode of the working directory
          attr      \* inode |-> its kind, owner and mode

kernelVars == <<names, table, wd, attr>>

With(f, x, v) == [y \in DOMAIN f \cup {x} |-> IF y = x THEN v ELSE f[y]]
Without(f, S) == [y \in DOMAIN f \ S |-> f[y]]

Named(ino) == ino \in Range(names)
InUse(ino) == Named(ino) \/ ino \in Range(table) \/ ino = wd
IsFolder(ino) == attr[ino].kind = "folder"
IsEmpty(path) == \A q \in DOMAIN names : q = <<>> \/ dirname(q) # path
NamesOf(ino) == {path \in DOMAIN names : names[path] = ino}

\* Where the kernel looks up a relative path: below a directory that still
\* has a name.
Below(ino, rel) == (CHOOSE path \in NamesOf(ino) : TRUE) \o rel
CanLookBelow(ino) == Named(ino) /\ IsFolder(ino)

KernelInit ==
    /\ names = [path \in {<<>>} |-> ROOT_INO]
    /\ table = [fd \in {} |-> ROOT_INO]
    /\ wd = ROOT_INO
    /\ attr = [ino \in {ROOT_INO} |->
                 [kind |-> "folder", uid |-> CHOOSE u \in OWNERS : TRUE, mode |-> "plain"]]

\* The attributes of the inodes something still refers to.
Attributes(names1, table1, wd1) ==
    [ino \in DOMAIN attr \cap (Range(names1) \cup Range(table1) \cup {wd1}) |-> attr[ino]]

CanCreate(path) ==
    /\ path \in PATHS \ DOMAIN names
    /\ dirname(path) \in DOMAIN names
    /\ IsFolder(names[dirname(path)])

\* A new inode, under a number that nothing uses.
Create(path, ino, kind, uid, mode) ==
    /\ CanCreate(path)
    /\ ~InUse(ino)
    /\ names' = With(names, path, ino)
    /\ attr' = With(attr, ino, [kind |-> kind, uid |-> uid, mode |-> mode])

\* A second name for a file.
AddName(path, newpath) ==
    /\ path \in DOMAIN names
    /\ attr[names[path]].kind = "file"
    /\ CanCreate(newpath)
    /\ names' = With(names, newpath, names[path])
    /\ UNCHANGED <<table, wd, attr>>

RemoveName(path) ==
    /\ path \in DOMAIN names \ {<<>>}
    /\ names' = Without(names, {path})
    /\ attr' = Attributes(Without(names, {path}), table, wd)
    /\ UNCHANGED <<table, wd>>

SetAttr(ino, uid, mode) ==
    /\ attr' = [attr EXCEPT ![ino].uid = uid, ![ino].mode = mode]
    /\ UNCHANGED <<names, table, wd>>

\* A change of owner clears the set-user-ID bit of a file.
ChownMode(ino) == IF IsFolder(ino) THEN attr[ino].mode ELSE "plain"

ChangeDir(ino) ==
    /\ IsFolder(ino)
    /\ wd' = ino
    /\ attr' = Attributes(names, table, ino)
    /\ UNCHANGED <<names, table>>

DropFds(fds) ==
    /\ table' = Without(table, fds)
    /\ attr' = Attributes(names, Without(table, fds), wd)
    /\ UNCHANGED <<names, wd>>
=============================================================================
