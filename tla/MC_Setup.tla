------------------------------ MODULE MC_Setup ------------------------------
(***************************************************************************)
(* Instances of Setup for TLC: a directory, sticky or not, a file in it    *)
(* with or without an ACL, set-ID bits and a second name, and the program, *)
(* for a user of two groups.                                               *)
(***************************************************************************)
EXTENDS Setup, TLC

CONSTANTS d, f, u, g, dName, fName, progName, attr, v

MC_None == {}

All == {"r", "w", "x"}
Mode(user, group, other, special, dir) ==
    [u |-> user, g |-> group, o |-> other, special |-> special, dir |-> dir]

\* No entry for anybody but the owning group, and entries for u and g.
NoAcl(group) == [user |-> [e \in {} |-> {}], group |-> [e \in {} |-> {}],
                 obj |-> group, mask |-> {}]
Acl(user, group, obj, mask) ==
    [user |-> [e \in user |-> {"r", "w"}], group |-> [e \in group |-> {"r", "x"}],
     obj |-> obj, mask |-> {mask}]

Inode(uid, gid, mode, acl) == [uid |-> uid, gid |-> gid, mode |-> mode, acl |-> acl]
RootInode == Inode(ROOT_USER, ROOT_GROUP, Mode(All, All, All, {}, TRUE), NoAcl(All))
ProgInode == Inode(ROOT_USER, ROOT_GROUP, Mode(All, All, All, {}, FALSE), NoAcl(All))

\* Directories that only root may add to, and sticky ones for everybody or
\* for the group.
ClosedDirs == {Inode(ROOT_USER, g, Mode(All, {"x"}, {"r", "x"}, special, TRUE), acl) :
                  special \in {{}, {"S_ISGID"}},
                  acl \in {NoAcl({"x"}), Acl({u}, {}, {"r", "x"}, {"x"})}}
StickyDirs == {Inode(uid, g, Mode(All, All, other, {"S_ISVTX"}, TRUE), NoAcl(All)) :
                  uid \in {ROOT_USER, u}, other \in {{"x"}, All}}

MaskedFiles(uid, gid) ==
    {Inode(uid, gid, Mode({"r", "w"}, mask, {"x"}, special, FALSE),
           Acl(user, group, {"w"}, mask)) :
        mask \in {{}, {"r", "w"}, All}, user \in {{}, {u}}, group \in {{}, {g}},
        special \in {{}, {"S_ISUID"}, {"S_ISGID"}}}
PlainFiles(uid, gid) ==
    {Inode(uid, gid, Mode({"r"}, group, {"w"}, {"S_ISUID"}, FALSE), NoAcl(group)) :
        group \in {{"w"}, {"r", "w"}}}

Entry(ino, parent, name) == [ino |-> ino, parent |-> parent, name |-> name]

Snapshot(dir, file, linked) ==
    [groups |-> <<g>>,
     users |-> <<[uid |-> u, gids |-> {g}]>>,
     folders |-> <<Entry(d, ROOT, dName)>>,
     folders_xattrs |-> <<[ino |-> d, parent |-> ROOT, name |-> dName, attr |-> attr, value |-> v]>>,
     files |-> <<Entry(f, d, fName), Entry(EXE_FILE, ROOT, progName)>>
                 \o (IF linked THEN <<Entry(f, ROOT, fName)>> ELSE <<>>),
     files_xattrs |-> <<[ino |-> f, parent |-> d, name |-> fName, attr |-> attr, value |-> v]>>,
     inodes |-> (ROOT :> RootInode) @@ (EXE_FILE :> ProgInode)
                  @@ (d :> dir) @@ (f :> file)]

MC_Snapshots ==
    {Snapshot(dir, file, file.uid = ROOT_USER) :
        dir \in ClosedDirs \cup StickyDirs,
        file \in MaskedFiles(ROOT_USER, g) \cup MaskedFiles(ROOT_USER, ROOT_GROUP)
                   \cup PlainFiles(u, ROOT_GROUP) \cup PlainFiles(ROOT_USER, g)}

MC_Chmods == {Mode({"r"}, group, {"w"}, {}, FALSE) : group \in {{}, {"r"}, {"r", "w"}}}
==============================================================================
