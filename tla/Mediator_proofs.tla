-------------------------- MODULE Mediator_proofs --------------------------
(***************************************************************************)
(* Proofs about Mediator, for any names, inodes, descriptors, owners,      *)
(* modes and depth of paths: the copy of the file system that the mediator *)
(* keeps stays that of the kernel, whatever calls the process makes.       *)
(***************************************************************************)
EXTENDS Mediator, FiniteSetTheorems, TLAPS

UIDS == OWNERS \cup {KEEP, AnyOwner}
ATTR == [kind : {"file", "folder", "symlink"}, uid : UIDS, mode : MODES]
STAT == [uid : OWNERS \cup {KEEP}, mode : MODES, nlink : 1..MAX_LINKS, kind : {"file", "folder"}]

-----------------------------------------------------------------------------
(* The kernel.                                                             *)

KernelType ==
    /\ DOMAIN names \subseteq PATHS /\ IsFiniteSet(DOMAIN names)
    /\ DOMAIN table \subseteq FD_NUMBERS
    /\ DOMAIN attr \subseteq INODES
    /\ \A ino \in DOMAIN attr : attr[ino] \in ATTR
    /\ \A path \in DOMAIN names : names[path] \in DOMAIN attr
    /\ \A fd \in DOMAIN table : table[fd] \in DOMAIN attr
    /\ wd \in DOMAIN attr

\* A folder has one name, so that a relative path leads to one place.
FoldersInv ==
    /\ <<>> \in DOMAIN names /\ names[<<>>] = ROOT_INO /\ IsFolder(ROOT_INO)
    /\ IsFolder(wd)
    /\ \A fd \in DOMAIN table : attr[table[fd]].kind # "symlink"
    /\ \A p, q \in DOMAIN names : names[p] = names[q] /\ IsFolder(names[p]) => p = q

-----------------------------------------------------------------------------
(* The mediator's copy.                                                    *)

\* The paths are those of the kernel without the symbolic links.
PathsInv ==
    /\ DOMAIN path2ino \subseteq DOMAIN names
    /\ \A path \in DOMAIN names :
         /\ path \in DOMAIN path2ino <=> attr[names[path]].kind # "symlink"
         /\ path \in DOMAIN path2ino => path2ino[path] = names[path]

FdsInv ==
    /\ DOMAIN fd2ino \subseteq FD_NUMBERS
    /\ \A fd \in DOMAIN fd2ino : fd2ino[fd] \in INODES
    /\ \A fd \in DOMAIN table : fd \in DOMAIN fd2ino /\ fd2ino[fd] = table[fd]

CwdInv ==
    /\ cwd \in PATHS \cup {Unset}
    /\ cwd # Unset /\ Named(wd) => cwd \in DOMAIN names /\ names[cwd] = wd

\* Links are counted and never discounted.
StatsInv ==
    /\ DOMAIN stats \subseteq INODES \ {ROOT_INO}
    /\ \A ino \in DOMAIN stats : /\ stats[ino] \in STAT
                                 /\ Cardinality(NamesOf(ino)) <= stats[ino].nlink

IsFileHash(h) == h = FileHash(h.content, h.meta)
HashesInv ==
    /\ DOMAIN real_hashes \cup DOMAIN intergity_hashes \subseteq INODES
    /\ \A ino \in DOMAIN real_hashes : IsFileHash(real_hashes[ino])
    /\ ROOT_INO \in DOMAIN real_hashes => ~is_hash_fake(real_hashes[ROOT_INO].meta)

PhaseInv ==
    /\ mode \in {"OFF", "FIX", "ENFORCE"}
    /\ phase \in {"folders", "files", "trace", "end"}
    /\ raised \in {"none", "KeyError", "ValueError", "StopIteration"}
    /\ phase = "trace" => mode # "FIX"

CopyInv ==
    /\ KernelType /\ FoldersInv
    /\ PathsInv /\ FdsInv /\ CwdInv /\ StatsInv /\ StatsAgree /\ HashesInv /\ FakeHashFollows

IInv == CopyInv /\ PhaseInv /\ EventRight

-----------------------------------------------------------------------------
(* What a call can do to the kernel and to the copy at once.               *)

\* A pseudo-hash among hashes is that of the owner and the mode.
FakeOf(meta, uid, perms) == is_hash_fake(meta) => meta = calc_fake_meta_hash(uid, perms)

\* The call opens the inode, or leaves the descriptors alone.
MayOpen(ino) ==
    \/ UNCHANGED <<table, fd2ino>>
    \/ \E fd \in FD_NUMBERS \ DOMAIN table :
         table' = With(table, fd, ino) /\ fd2ino' = With(fd2ino, fd, ino)

HashesTyped ==
    /\ DOMAIN intergity_hashes' \subseteq INODES
    /\ DOMAIN real_hashes' \subseteq INODES
    /\ \A ino \in DOMAIN real_hashes' : IsFileHash(real_hashes'[ino])

\* A file or a folder is made under a new inode.
LEMMA MadeKeeps ==
    ASSUME CopyInv, NEW path, NEW ino \in INODES, NEW kind \in {"file", "folder"},
           NEW uid \in OWNERS, NEW perms \in MODES, NEW hashes,
           FakeOf(hashes.meta, uid, perms),
           Create(path, ino, kind, uid, perms),
           AddFile(path, ino, uid, perms, kind, hashes),
           MayOpen(ino), HashesTyped, UNCHANGED <<wd, cwd>>
    PROVE  CopyInv'
<1>1. /\ path \in PATHS \ DOMAIN names
      /\ names' = With(names, path, ino)
      /\ attr' = With(attr, ino, [kind |-> kind, uid |-> uid, mode |-> perms])
      /\ path2ino' = With(path2ino, path, ino)
      /\ stats' = With(stats, ino, [uid |-> uid, mode |-> perms, nlink |-> 1, kind |-> kind])
      /\ real_hashes' = With(real_hashes, ino, hashes)
  BY DEF Create, CanCreate, AddFile, do_set_real_hashes
<1>2. /\ \A q \in DOMAIN names : names[q] # ino
      /\ \A fd \in DOMAIN table : table[fd] # ino
      /\ wd # ino
  BY DEF Create, InUse, Named, Range
<1>3. /\ [kind |-> kind, uid |-> uid, mode |-> perms] \in ATTR
      /\ [uid |-> uid, mode |-> perms, nlink |-> 1, kind |-> kind] \in STAT
  BY MediatorAssumption DEF ATTR, STAT, UIDS
<1>4. /\ DOMAIN names' = DOMAIN names \cup {path} /\ names'[path] = ino
      /\ \A q \in DOMAIN names : names'[q] = names[q]
      /\ DOMAIN attr' = DOMAIN attr \cup {ino}
      /\ attr'[ino] = [kind |-> kind, uid |-> uid, mode |-> perms]
      /\ \A i \in DOMAIN attr \ {ino} : attr'[i] = attr[i]
  BY <1>1 DEF With
<1>5. /\ \A fd \in DOMAIN table' : table'[fd] = ino \/ (fd \in DOMAIN table /\ table'[fd] = table[fd])
      /\ DOMAIN table' \subseteq FD_NUMBERS
  BY DEF MayOpen, With, CopyInv, KernelType
<1>6. KernelType'
  <2>1. IsFiniteSet(DOMAIN names')
    BY <1>4, FS_AddElement DEF CopyInv, KernelType
  <2> QED BY <1>1, <1>3, <1>4, <1>5, <2>1 DEF CopyInv, KernelType
<1>7. FoldersInv'
  BY <1>1, <1>2, <1>4, <1>5 DEF CopyInv, KernelType, FoldersInv, IsFolder
<1>8. /\ DOMAIN path2ino' = DOMAIN path2ino \cup {path} /\ path2ino'[path] = ino
      /\ \A q \in DOMAIN path2ino : path2ino'[q] = path2ino[q]
  BY <1>1 DEF With, CopyInv, PathsInv
<1>9. PathsInv'
  BY <1>2, <1>4, <1>8 DEF CopyInv, KernelType, PathsInv
<1>10. FdsInv'
  BY DEF CopyInv, FdsInv, MayOpen, With
<1>11. CwdInv'
  BY <1>2, <1>4 DEF CopyInv, CwdInv, Named, Range
<1>12. /\ DOMAIN stats' = DOMAIN stats \cup {ino}
       /\ stats'[ino] = [uid |-> uid, mode |-> perms, nlink |-> 1, kind |-> kind]
       /\ \A i \in DOMAIN stats \ {ino} : stats'[i] = stats[i]
       /\ DOMAIN real_hashes' = DOMAIN real_hashes \cup {ino} /\ real_hashes'[ino] = hashes
       /\ \A i \in DOMAIN real_hashes \ {ino} : real_hashes'[i] = real_hashes[i]
  BY <1>1 DEF With
<1>13. StatsInv'
  <2>1. \A i : i # ino => NamesOf(i)' = NamesOf(i)
    BY <1>1, <1>4 DEF NamesOf
  <2>2. NamesOf(ino)' = {path}
    BY <1>2, <1>4 DEF NamesOf
  <2>3. Cardinality(NamesOf(ino)') = 1
    BY <2>2, FS_Singleton
  <2>4. ino # ROOT_INO
    BY <1>2 DEF CopyInv, FoldersInv
  <2> QED BY <1>3, <1>12, <2>1, <2>3, <2>4 DEF CopyInv, StatsInv
<1>14. StatsAgree'
  <2> SUFFICES ASSUME NEW i \in (Range(path2ino)' \cup Range(table)') \ {ROOT_INO}
               PROVE  /\ i \in DOMAIN stats'
                      /\ stats'[i].mode = attr'[i].mode
                      /\ stats'[i].kind = attr'[i].kind
                      /\ stats'[i].uid \in {attr'[i].uid, KEEP}
    BY DEF StatsAgree
  <2>1. CASE i = ino
    BY <1>4, <1>12, <2>1
  <2>2. CASE i # ino
    <3>1. i \in Range(path2ino) \cup Range(table) /\ i \in DOMAIN attr
      BY <1>5, <1>8, <2>2 DEF Range, CopyInv, KernelType, PathsInv
    <3> QED BY <1>4, <1>12, <2>2, <3>1 DEF CopyInv, StatsAgree
  <2> QED BY <2>1, <2>2
<1>15. FakeHashFollows'
  <2> SUFFICES ASSUME NEW i \in DOMAIN real_hashes' \cap Range(path2ino)',
                      is_hash_fake(real_hashes'[i].meta)
               PROVE  \/ real_hashes'[i].meta = calc_fake_meta_hash(attr'[i].uid, attr'[i].mode)
                      \/ /\ stats'[i].uid = KEEP
                         /\ real_hashes'[i].meta = calc_fake_meta_hash(KEEP, attr'[i].mode)
    BY DEF FakeHashFollows, is_hash_fake, calc_fake_meta_hash
  <2>1. CASE i = ino
    BY <1>4, <1>12, <2>1 DEF FakeOf
  <2>2. CASE i # ino
    <3>1. i \in DOMAIN real_hashes \cap Range(path2ino) /\ i \in DOMAIN attr
      BY <1>8, <1>12, <2>2 DEF Range, CopyInv, KernelType, PathsInv
    <3>2. i # ROOT_INO
      BY <1>12, <2>2, <3>1 DEF CopyInv, HashesInv
    <3>3. i \in DOMAIN stats
      BY <3>1, <3>2 DEF CopyInv, StatsAgree
    <3> QED BY <1>4, <1>12, <2>2, <3>1, <3>3 DEF CopyInv, FakeHashFollows
  <2> QED BY <2>1, <2>2
<1>16. HashesInv'
  BY <1>2, <1>12 DEF HashesTyped, HashesInv, CopyInv, FoldersInv
<1> QED BY <1>6, <1>7, <1>9, <1>10, <1>11, <1>13, <1>14, <1>15, <1>16 DEF CopyInv

\* A file that exists is opened.
LEMMA OpenedKeeps ==
    ASSUME CopyInv, NEW path \in DOMAIN path2ino, MayOpen(path2ino[path]),
           UNCHANGED <<names, attr, wd, cwd, path2ino, stats, real_hashes, intergity_hashes>>
    PROVE  CopyInv'
<1> DEFINE ino == path2ino[path]
<1>1. /\ ino = names[path] /\ path \in DOMAIN names /\ ino \in DOMAIN attr /\ ino \in INODES
      /\ attr[ino].kind # "symlink"
  BY DEF CopyInv, PathsInv, KernelType
<1>2. /\ \A fd \in DOMAIN table' : table'[fd] = ino \/ (fd \in DOMAIN table /\ table'[fd] = table[fd])
      /\ DOMAIN table' \subseteq FD_NUMBERS
  BY DEF MayOpen, With, CopyInv, KernelType
<1>3. KernelType' /\ FoldersInv'
  BY <1>1, <1>2 DEF CopyInv, KernelType, FoldersInv, IsFolder
<1>4. PathsInv' /\ CwdInv' /\ HashesInv' /\ FakeHashFollows'
  BY DEF CopyInv, PathsInv, CwdInv, Named, Range, HashesInv, FakeHashFollows, is_hash_fake,
         calc_fake_meta_hash
<1>5. FdsInv'
  BY <1>1 DEF CopyInv, FdsInv, MayOpen, With
<1>6. StatsInv'
  BY DEF CopyInv, StatsInv, NamesOf
<1>7. StatsAgree'
  <2>1. Range(table)' \subseteq Range(table) \cup Range(path2ino) /\ Range(path2ino)' = Range(path2ino)
    BY <1>2 DEF Range
  <2> QED BY <2>1 DEF CopyInv, StatsAgree
<1> QED BY <1>3, <1>4, <1>5, <1>6, <1>7 DEF CopyInv

\* A symbolic link is made, and the mediator does not notice.
LEMMA SymlinkKeeps ==
    ASSUME CopyInv, NEW path, NEW ino \in INODES,
           Create(path, ino, "symlink", AnyOwner, "plain"),
           UNCHANGED <<table, wd, cwd, path2ino, fd2ino, stats, real_hashes, intergity_hashes>>
    PROVE  CopyInv'
<1>1. /\ path \in PATHS \ DOMAIN names
      /\ names' = With(names, path, ino)
      /\ attr' = With(attr, ino, [kind |-> "symlink", uid |-> AnyOwner, mode |-> "plain"])
  BY DEF Create, CanCreate
<1>2. /\ \A q \in DOMAIN names : names[q] # ino
      /\ \A fd \in DOMAIN table : table[fd] # ino
      /\ wd # ino
  BY DEF Create, InUse, Named, Range
<1>3. [kind |-> "symlink", uid |-> AnyOwner, mode |-> "plain"] \in ATTR
  BY KernelAssumption DEF ATTR, UIDS
<1>4. /\ DOMAIN names' = DOMAIN names \cup {path} /\ names'[path] = ino
      /\ \A q \in DOMAIN names : names'[q] = names[q]
      /\ DOMAIN attr' = DOMAIN attr \cup {ino}
      /\ attr'[ino] = [kind |-> "symlink", uid |-> AnyOwner, mode |-> "plain"]
      /\ \A i \in DOMAIN attr \ {ino} : attr'[i] = attr[i]
  BY <1>1 DEF With
<1>5. KernelType'
  <2>1. IsFiniteSet(DOMAIN names')
    BY <1>4, FS_AddElement DEF CopyInv, KernelType
  <2> QED BY <1>1, <1>3, <1>4, <2>1 DEF CopyInv, KernelType
<1>6. FoldersInv'
  BY <1>1, <1>2, <1>4 DEF CopyInv, KernelType, FoldersInv, IsFolder
<1>7. PathsInv'
  BY <1>1, <1>2, <1>4 DEF CopyInv, KernelType, PathsInv
<1>8. FdsInv' /\ CwdInv' /\ HashesInv'
  BY <1>2, <1>4 DEF CopyInv, FdsInv, CwdInv, HashesInv, Named, Range, is_hash_fake
<1>9. StatsInv'
  <2>1. \A i : i # ino => NamesOf(i)' = NamesOf(i)
    BY <1>1, <1>4 DEF NamesOf
  <2>2. NamesOf(ino)' = {path}
    BY <1>2, <1>4 DEF NamesOf
  <2>3. Cardinality(NamesOf(ino)') = 1
    BY <2>2, FS_Singleton
  <2>4. ino \in DOMAIN stats => 1 <= stats[ino].nlink
    BY MediatorAssumption DEF CopyInv, StatsInv, STAT
  <2> QED BY <2>1, <2>3, <2>4 DEF CopyInv, StatsInv
<1>10. \A i \in Range(path2ino) \cup Range(table) : i \in DOMAIN attr /\ i # ino
  BY <1>2 DEF Range, CopyInv, KernelType, PathsInv
<1>11. StatsAgree'
  BY <1>4, <1>10 DEF CopyInv, StatsAgree, Range
<1>12. FakeHashFollows'
  BY <1>4, <1>10 DEF CopyInv, FakeHashFollows, Range, is_hash_fake, calc_fake_meta_hash
<1> QED BY <1>5, <1>6, <1>7, <1>8, <1>9, <1>11, <1>12 DEF CopyInv

\* A file gets a second name.
LEMMA LinkedKeeps ==
    ASSUME CopyInv, NEW path, NEW newpath, AddName(path, newpath), do_link(path, newpath),
           UNCHANGED <<cwd, fd2ino, real_hashes, intergity_hashes>>
    PROVE  CopyInv'
<1>0. PICK ino : ino = names[path]
  OBVIOUS
<1>1. /\ path \in DOMAIN names /\ attr[ino].kind = "file" /\ newpath \in PATHS \ DOMAIN names
      /\ names' = With(names, newpath, ino)
      /\ UNCHANGED <<table, wd, attr>>
  BY <1>0 DEF AddName, CanCreate
<1>2. ino \in DOMAIN attr /\ path \in DOMAIN path2ino /\ path2ino[path] = ino
  BY <1>0, <1>1 DEF CopyInv, KernelType, PathsInv
<1>3. /\ stats[ino].nlink < MAX_LINKS
      /\ stats' = [stats EXCEPT ![ino].nlink = @ + 1]
      /\ path2ino' = With(path2ino, newpath, ino)
  BY <1>2 DEF do_link
<1>4. /\ ino \in DOMAIN stats /\ stats[ino] \in STAT /\ ino # ROOT_INO /\ ino # wd
  BY <1>1, <1>2 DEF CopyInv, StatsAgree, StatsInv, Range, FoldersInv, IsFolder
<1>5. /\ DOMAIN names' = DOMAIN names \cup {newpath} /\ names'[newpath] = ino
      /\ \A q \in DOMAIN names : names'[q] = names[q]
      /\ DOMAIN path2ino' = DOMAIN path2ino \cup {newpath} /\ path2ino'[newpath] = ino
      /\ \A q \in DOMAIN path2ino : path2ino'[q] = path2ino[q]
  BY <1>1, <1>3 DEF With, CopyInv, PathsInv
<1>6. KernelType'
  <2>1. IsFiniteSet(DOMAIN names')
    BY <1>5, FS_AddElement DEF CopyInv, KernelType
  <2> QED BY <1>1, <1>2, <1>5, <2>1 DEF CopyInv, KernelType
<1>7. FoldersInv'
  BY <1>1, <1>5 DEF CopyInv, FoldersInv, IsFolder
<1>8. PathsInv'
  BY <1>1, <1>5 DEF CopyInv, PathsInv
<1>9. FdsInv' /\ HashesInv'
  BY <1>1 DEF CopyInv, FdsInv, HashesInv, is_hash_fake
<1>10. CwdInv'
  BY <1>1, <1>4, <1>5 DEF CopyInv, CwdInv, Named, Range
<1>11. /\ DOMAIN stats' = DOMAIN stats
       /\ stats'[ino] = [stats[ino] EXCEPT !.nlink = @ + 1]
       /\ \A i \in DOMAIN stats \ {ino} : stats'[i] = stats[i]
  BY <1>3, <1>4
<1>12. /\ stats'[ino] \in STAT /\ stats'[ino].nlink = stats[ino].nlink + 1
       /\ stats'[ino].uid = stats[ino].uid /\ stats'[ino].mode = stats[ino].mode
       /\ stats'[ino].kind = stats[ino].kind
  BY <1>3, <1>4, <1>11, MediatorAssumption DEF STAT
<1>13. StatsInv'
  <2>1. \A i : i # ino => NamesOf(i)' = NamesOf(i)
    BY <1>1, <1>5 DEF NamesOf
  <2>2. NamesOf(ino)' = NamesOf(ino) \cup {newpath} /\ newpath \notin NamesOf(ino)
    BY <1>1, <1>5 DEF NamesOf
  <2>3. IsFiniteSet(NamesOf(ino))
    BY FS_Subset DEF NamesOf, CopyInv, KernelType
  <2>4. Cardinality(NamesOf(ino)') = Cardinality(NamesOf(ino)) + 1 /\ Cardinality(NamesOf(ino)) \in Nat
    BY <2>2, <2>3, FS_AddElement, FS_CardinalityType
  <2>5. Cardinality(NamesOf(ino)') <= stats'[ino].nlink
    BY <1>4, <1>12, <2>4, MediatorAssumption DEF CopyInv, StatsInv, STAT
  <2> QED BY <1>11, <1>12, <2>1, <2>5 DEF CopyInv, StatsInv
<1>14. Range(path2ino)' = Range(path2ino) /\ Range(table)' = Range(table)
  BY <1>1, <1>2, <1>5 DEF Range
<1>15. StatsAgree'
  <2>1. ASSUME NEW i \in (Range(path2ino) \cup Range(table)) \ {ROOT_INO}
        PROVE  /\ i \in DOMAIN stats'
               /\ stats'[i].mode = attr[i].mode
               /\ stats'[i].kind = attr[i].kind
               /\ stats'[i].uid \in {attr[i].uid, KEEP}
    <3>1. /\ i \in DOMAIN stats /\ stats[i].mode = attr[i].mode /\ stats[i].kind = attr[i].kind
          /\ stats[i].uid \in {attr[i].uid, KEEP}
      BY DEF CopyInv, StatsAgree
    <3> QED BY <1>11, <1>12, <3>1
  <2> QED BY <1>1, <1>14, <2>1 DEF StatsAgree
<1>16. FakeHashFollows'
  <2> SUFFICES ASSUME NEW i \in DOMAIN real_hashes \cap Range(path2ino),
                      is_hash_fake(real_hashes[i].meta)
               PROVE  \/ real_hashes[i].meta = calc_fake_meta_hash(attr[i].uid, attr[i].mode)
                      \/ /\ stats'[i].uid = KEEP
                         /\ real_hashes[i].meta = calc_fake_meta_hash(KEEP, attr[i].mode)
    BY <1>1, <1>14 DEF FakeHashFollows, is_hash_fake, calc_fake_meta_hash
  <2>1. i \in DOMAIN stats
    BY DEF CopyInv, HashesInv, StatsAgree
  <2> QED BY <1>11, <1>12, <2>1 DEF CopyInv, FakeHashFollows
<1> QED BY <1>6, <1>7, <1>8, <1>9, <1>10, <1>13, <1>15, <1>16 DEF CopyInv

\* The owner and the mode of a file change.
LEMMA AttrKeeps ==
    ASSUME CopyInv, NEW ino \in DOMAIN attr, NEW owner \in OWNERS \cup {KEEP}, NEW kuid \in UIDS,
           NEW perms \in MODES, NEW hash,
           ino \in DOMAIN stats, HasHashes(ino), owner \in {kuid, KEEP},
           is_hash_fake(hash) =>
             \/ hash = calc_fake_meta_hash(kuid, perms)
             \/ owner = KEEP /\ hash = calc_fake_meta_hash(KEEP, perms),
           SetAttr(ino, kuid, perms), SetStat(ino, owner, perms, hash),
           UNCHANGED <<cwd, path2ino, fd2ino, intergity_hashes>>
    PROVE  CopyInv'
<1>1. /\ attr' = [attr EXCEPT ![ino].uid = kuid, ![ino].mode = perms]
      /\ stats' = [stats EXCEPT ![ino].uid = owner, ![ino].mode = perms]
      /\ real_hashes' = [real_hashes EXCEPT ![ino].meta = hash]
      /\ UNCHANGED <<names, table, wd>>
  BY DEF SetAttr, SetStat
<1>2. attr[ino] \in ATTR /\ stats[ino] \in STAT
  BY DEF CopyInv, KernelType, StatsInv
<1>3. /\ DOMAIN attr' = DOMAIN attr /\ \A i \in DOMAIN attr \ {ino} : attr'[i] = attr[i]
      /\ attr'[ino] \in ATTR /\ attr'[ino].kind = attr[ino].kind
      /\ attr'[ino].uid = kuid /\ attr'[ino].mode = perms
  BY <1>1, <1>2 DEF ATTR
<1>4. /\ DOMAIN stats' = DOMAIN stats /\ \A i \in DOMAIN stats \ {ino} : stats'[i] = stats[i]
      /\ stats'[ino] \in STAT /\ stats'[ino].kind = stats[ino].kind
      /\ stats'[ino].nlink = stats[ino].nlink
      /\ stats'[ino].uid = owner /\ stats'[ino].mode = perms
  BY <1>1, <1>2 DEF STAT
<1>5. /\ DOMAIN real_hashes' = DOMAIN real_hashes
      /\ \A i \in DOMAIN real_hashes \ {ino} : real_hashes'[i] = real_hashes[i]
      /\ IsFileHash(real_hashes'[ino])
      /\ is_hash_fake(real_hashes'[ino].meta) =>
           \/ real_hashes'[ino].meta = calc_fake_meta_hash(kuid, perms)
           \/ owner = KEEP /\ real_hashes'[ino].meta = calc_fake_meta_hash(KEEP, perms)
  <2>1. real_hashes'[ino] = [real_hashes[ino] EXCEPT !.meta = hash]
    BY <1>1 DEF HasHashes
  <2>2. IsFileHash(real_hashes[ino])
    BY DEF HasHashes, CopyInv, HashesInv
  <2>3. IsFileHash(real_hashes'[ino]) /\ real_hashes'[ino].meta = hash
    BY <2>1, <2>2 DEF IsFileHash, FileHash
  <2> QED BY <1>1, <2>3
<1>6. KernelType' /\ FoldersInv'
  BY <1>1, <1>3 DEF CopyInv, KernelType, FoldersInv, IsFolder
<1>7. PathsInv'
  BY <1>1, <1>3 DEF CopyInv, KernelType, PathsInv
<1>8. FdsInv' /\ CwdInv'
  BY <1>1 DEF CopyInv, FdsInv, CwdInv, Named, Range
<1>9. ino # ROOT_INO
  BY DEF CopyInv, StatsInv
<1>10. HashesInv'
  BY <1>1, <1>5, <1>9 DEF CopyInv, HashesInv
<1>11. StatsInv'
  BY <1>1, <1>4 DEF CopyInv, StatsInv, NamesOf
<1>12. Range(path2ino)' = Range(path2ino) /\ Range(table)' = Range(table)
  BY <1>1
<1>13. \A i \in Range(path2ino) \cup Range(table) : i \in DOMAIN attr
  BY DEF Range, CopyInv, KernelType, PathsInv
<1>14. StatsAgree'
  <2>1. ASSUME NEW i \in (Range(path2ino) \cup Range(table)) \ {ROOT_INO}
        PROVE  /\ i \in DOMAIN stats'
               /\ stats'[i].mode = attr'[i].mode
               /\ stats'[i].kind = attr'[i].kind
               /\ stats'[i].uid \in {attr'[i].uid, KEEP}
    <3>1. /\ i \in DOMAIN stats /\ stats[i].mode = attr[i].mode /\ stats[i].kind = attr[i].kind
          /\ stats[i].uid \in {attr[i].uid, KEEP} /\ i \in DOMAIN attr
      BY <1>13 DEF CopyInv, StatsAgree
    <3> QED BY <1>3, <1>4, <3>1
  <2> QED BY <1>12, <2>1 DEF StatsAgree
<1>15. FakeHashFollows'
  <2> SUFFICES ASSUME NEW i \in DOMAIN real_hashes' \cap Range(path2ino),
                      is_hash_fake(real_hashes'[i].meta)
               PROVE  \/ real_hashes'[i].meta = calc_fake_meta_hash(attr'[i].uid, attr'[i].mode)
                      \/ /\ stats'[i].uid = KEEP
                         /\ real_hashes'[i].meta = calc_fake_meta_hash(KEEP, attr'[i].mode)
    BY <1>12 DEF FakeHashFollows, is_hash_fake, calc_fake_meta_hash
  <2>1. CASE i = ino
    BY <1>3, <1>4, <1>5, <2>1
  <2>2. CASE i # ino
    <3>1. i \in DOMAIN attr /\ i \in DOMAIN real_hashes /\ real_hashes'[i] = real_hashes[i]
      BY <1>5, <1>13, <2>2
    <3>2. i \in DOMAIN stats
      BY <3>1 DEF CopyInv, HashesInv, StatsAgree
    <3> QED BY <1>3, <1>4, <2>2, <3>1, <3>2 DEF CopyInv, FakeHashFollows
  <2> QED BY <2>1, <2>2
<1> QED BY <1>6, <1>7, <1>8, <1>10, <1>11, <1>14, <1>15 DEF CopyInv

\* The working directory changes.
LEMMA ChdirKeeps ==
    ASSUME CopyInv, NEW path \in DOMAIN path2ino, ChangeDir(path2ino[path]), do_chdir(path),
           UNCHANGED <<path2ino, fd2ino, stats, real_hashes, intergity_hashes>>
    PROVE  CopyInv'
<1>0. PICK ino : ino = path2ino[path]
  OBVIOUS
<1>1. /\ IsFolder(ino) /\ wd' = ino /\ attr' = Attributes(names, table, ino)
      /\ UNCHANGED <<names, table>> /\ cwd' = path
  BY <1>0 DEF ChangeDir, do_chdir
<1>2. path \in DOMAIN names /\ names[path] = ino /\ ino \in DOMAIN attr /\ path \in PATHS
  BY <1>0 DEF CopyInv, KernelType, PathsInv
<1>3. /\ DOMAIN attr' \subseteq DOMAIN attr
      /\ \A i \in DOMAIN attr' : attr'[i] = attr[i]
      /\ \A q \in DOMAIN names : names[q] \in DOMAIN attr'
      /\ \A fd \in DOMAIN table : table[fd] \in DOMAIN attr'
      /\ ino \in DOMAIN attr'
  BY <1>1, <1>2 DEF Attributes, Range, CopyInv, KernelType
<1>4. KernelType'
  BY <1>1, <1>3 DEF CopyInv, KernelType
<1>5. FoldersInv'
  BY <1>1, <1>2, <1>3 DEF CopyInv, FoldersInv, IsFolder
<1>6. PathsInv'
  BY <1>1, <1>3 DEF CopyInv, PathsInv
<1>7. FdsInv' /\ HashesInv' /\ StatsInv'
  BY <1>1 DEF CopyInv, FdsInv, HashesInv, is_hash_fake, StatsInv, NamesOf
<1>8. CwdInv'
  BY <1>1, <1>2 DEF CwdInv
<1>9. /\ Range(path2ino)' = Range(path2ino) /\ Range(table)' = Range(table)
      /\ \A i \in Range(path2ino) \cup Range(table) : i \in DOMAIN attr'
  BY <1>1, <1>3 DEF Range, CopyInv, PathsInv
<1>10. StatsAgree'
  BY <1>3, <1>9 DEF CopyInv, StatsAgree
<1>11. FakeHashFollows'
  BY <1>3, <1>9 DEF CopyInv, FakeHashFollows, is_hash_fake, calc_fake_meta_hash
<1> QED BY <1>4, <1>5, <1>6, <1>7, <1>8, <1>10, <1>11 DEF CopyInv

\* Descriptors are closed in the kernel; the mediator closes as many or fewer,
\* and forgets the stats of inodes it knows no reference to.
LEMMA DroppedKeeps ==
    ASSUME CopyInv, NEW fds, NEW closed, NEW gone,
           DropFds(fds), DOMAIN fd2ino' = DOMAIN fd2ino \ closed,
           \A fd \in DOMAIN fd2ino' : fd2ino'[fd] = fd2ino[fd],
           \A fd \in DOMAIN table : fd \in closed => fd \in fds,
           DOMAIN stats' = DOMAIN stats \ gone, \A i \in DOMAIN stats' : stats'[i] = stats[i],
           \A i \in gone : ~Referenced(i, path2ino, fd2ino'),
           HashesTyped,
           \A i \in DOMAIN real_hashes' : is_hash_fake(real_hashes'[i].meta) =>
             i \in DOMAIN real_hashes /\ real_hashes[i].meta = real_hashes'[i].meta,
           UNCHANGED <<cwd, path2ino>>
    PROVE  CopyInv'
<1>1. /\ table' = Without(table, fds) /\ attr' = Attributes(names, Without(table, fds), wd)
      /\ UNCHANGED <<names, wd>>
  BY DEF DropFds
<1>2. /\ DOMAIN table' = DOMAIN table \ fds /\ \A fd \in DOMAIN table' : table'[fd] = table[fd]
  BY <1>1 DEF Without
<1>3. /\ DOMAIN attr' \subseteq DOMAIN attr
      /\ \A i \in DOMAIN attr' : attr'[i] = attr[i]
      /\ \A q \in DOMAIN names : names[q] \in DOMAIN attr'
      /\ \A fd \in DOMAIN table' : table'[fd] \in DOMAIN attr'
      /\ wd \in DOMAIN attr'
  <2>1. attr' = Attributes(names, table', wd)
    BY <1>1
  <2> QED BY <1>2, <2>1 DEF Attributes, Range, CopyInv, KernelType
<1>4. KernelType' /\ FoldersInv' /\ PathsInv'
  <2>1. KernelType'
    BY <1>1, <1>2, <1>3 DEF CopyInv, KernelType
  <2>2. FoldersInv'
    BY <1>1, <1>2, <1>3 DEF CopyInv, FoldersInv, IsFolder
  <2>3. PathsInv'
    BY <1>1, <1>3 DEF CopyInv, PathsInv
  <2> QED BY <2>1, <2>2, <2>3
<1>5. FdsInv'
  BY <1>2 DEF CopyInv, FdsInv
<1>6. CwdInv' /\ StatsInv'
  BY <1>1, <1>2 DEF CopyInv, CwdInv, Named, Range, StatsInv, NamesOf
<1>7. HashesInv'
  BY DEF HashesTyped, CopyInv, HashesInv, is_hash_fake
<1>8. ASSUME NEW i \in Range(path2ino)' \cup Range(table)'
      PROVE  /\ i \in Range(path2ino) \cup Range(table) /\ i \notin gone
             /\ i \in DOMAIN attr' /\ attr'[i] = attr[i]
  <2>1. i \in Range(path2ino) \/ \E fd \in DOMAIN table' : i = table'[fd] /\ i = fd2ino'[fd]
                                                           /\ fd \in DOMAIN fd2ino'
    BY <1>2 DEF Range, CopyInv, FdsInv
  <2>2. Referenced(i, path2ino, fd2ino')
    BY <2>1 DEF Referenced, Range
  <2>3. i \in DOMAIN attr'
    BY <1>3 DEF Range, CopyInv, PathsInv
  <2> QED BY <1>2, <1>3, <2>1, <2>2, <2>3 DEF Range
<1>9. StatsAgree'
  BY <1>2, <1>8 DEF CopyInv, StatsAgree
<1>10. FakeHashFollows'
  <2> SUFFICES ASSUME NEW i \in DOMAIN real_hashes' \cap Range(path2ino)',
                      is_hash_fake(real_hashes'[i].meta)
               PROVE  \/ real_hashes'[i].meta = calc_fake_meta_hash(attr'[i].uid, attr'[i].mode)
                      \/ /\ stats'[i].uid = KEEP
                         /\ real_hashes'[i].meta = calc_fake_meta_hash(KEEP, attr'[i].mode)
    BY DEF FakeHashFollows, is_hash_fake, calc_fake_meta_hash
  <2>1. /\ i \in DOMAIN real_hashes /\ real_hashes[i].meta = real_hashes'[i].meta
        /\ i \in Range(path2ino) /\ i \notin gone /\ attr'[i] = attr[i]
    BY <1>8 DEF Range
  <2>2. i \in DOMAIN stats'
    BY <1>2, <2>1 DEF CopyInv, HashesInv, StatsAgree
  <2> QED BY <1>2, <2>1, <2>2 DEF CopyInv, FakeHashFollows
<1> QED BY <1>4, <1>5, <1>6, <1>7, <1>9, <1>10 DEF CopyInv

\* A name is removed.
LEMMA RemovedKeeps ==
    ASSUME CopyInv, NEW path \in DOMAIN path2ino, RemoveName(path), do_remove(path),
           UNCHANGED <<cwd, fd2ino>>
    PROVE  CopyInv'
<1>0. PICK ino : ino = path2ino[path]
  OBVIOUS
<1> DEFINE rest == Without(path2ino, {path})
<1>1. /\ path # <<>> /\ names' = Without(names, {path})
      /\ attr' = Attributes(Without(names, {path}), table, wd)
      /\ UNCHANGED <<table, wd>>
      /\ path2ino' = rest
      /\ stats' = IF Referenced(ino, rest, fd2ino) THEN stats ELSE Without(stats, {ino})
      /\ real_hashes' = Without(real_hashes, {ino})
      /\ intergity_hashes' = Without(intergity_hashes, {ino})
  BY <1>0 DEF RemoveName, do_remove
<1>2. /\ DOMAIN names' = DOMAIN names \ {path} /\ \A q \in DOMAIN names' : names'[q] = names[q]
      /\ DOMAIN path2ino' = DOMAIN path2ino \ {path}
      /\ \A q \in DOMAIN path2ino' : path2ino'[q] = path2ino[q]
      /\ DOMAIN real_hashes' = DOMAIN real_hashes \ {ino}
      /\ \A i \in DOMAIN real_hashes' : real_hashes'[i] = real_hashes[i]
      /\ DOMAIN intergity_hashes' \subseteq DOMAIN intergity_hashes
  BY <1>1 DEF Without
<1>3. /\ DOMAIN attr' \subseteq DOMAIN attr
      /\ \A i \in DOMAIN attr' : attr'[i] = attr[i]
      /\ \A q \in DOMAIN names' : names'[q] \in DOMAIN attr'
      /\ \A fd \in DOMAIN table : table[fd] \in DOMAIN attr'
      /\ wd \in DOMAIN attr'
  <2>1. attr' = Attributes(names', table, wd)
    BY <1>1
  <2> QED BY <1>2, <2>1 DEF Attributes, Range, CopyInv, KernelType
<1>4. /\ DOMAIN stats' \subseteq DOMAIN stats /\ \A i \in DOMAIN stats' : stats'[i] = stats[i]
      /\ \A i \in DOMAIN stats : Referenced(i, rest, fd2ino) => i \in DOMAIN stats'
  BY <1>1 DEF Without
<1>5. KernelType'
  <2>1. IsFiniteSet(DOMAIN names')
    BY <1>2, FS_Subset DEF CopyInv, KernelType
  <2> QED BY <1>1, <1>2, <1>3, <2>1 DEF CopyInv, KernelType
<1>6. FoldersInv'
  <2>1. <<>> \in DOMAIN names' /\ names'[<<>>] = ROOT_INO
    BY <1>1, <1>2 DEF CopyInv, FoldersInv
  <2>2. ROOT_INO \in DOMAIN attr'
    BY <1>3, <2>1
  <2>3. IsFolder(ROOT_INO)' /\ IsFolder(wd)'
    BY <1>1, <1>3, <2>2 DEF CopyInv, FoldersInv, IsFolder
  <2>4. \A fd \in DOMAIN table' : attr'[table'[fd]].kind # "symlink"
    BY <1>1, <1>3 DEF CopyInv, FoldersInv
  <2>5. ASSUME NEW p \in DOMAIN names', NEW q \in DOMAIN names',
               names'[p] = names'[q], IsFolder(names[p])'
        PROVE  p = q
    BY <1>2, <1>3, <2>5 DEF CopyInv, FoldersInv, IsFolder
  <2> QED BY <2>1, <2>3, <2>4, <2>5 DEF FoldersInv
<1>7. PathsInv'
  BY <1>2, <1>3 DEF CopyInv, PathsInv
<1>8. FdsInv'
  BY <1>1 DEF CopyInv, FdsInv
<1>9. CwdInv'
  <2> SUFFICES ASSUME cwd # Unset, Named(wd)' PROVE cwd \in DOMAIN names' /\ names'[cwd] = wd
    BY <1>1 DEF CopyInv, CwdInv
  <2>1. PICK q \in DOMAIN names' : names'[q] = wd
    BY <1>1 DEF Named, Range
  <2>2. q \in DOMAIN names /\ names[q] = wd /\ q # path
    BY <1>2, <2>1
  <2>3. cwd \in DOMAIN names /\ names[cwd] = wd
    BY <2>2 DEF CopyInv, CwdInv, Named, Range
  <2>4. cwd = q
    BY <2>2, <2>3 DEF CopyInv, FoldersInv
  <2> QED BY <2>1, <2>4
<1>10. HashesInv'
  BY <1>2 DEF CopyInv, HashesInv
<1>11. StatsInv'
  <2>1. ASSUME NEW i PROVE Cardinality(NamesOf(i)') <= Cardinality(NamesOf(i))
                           /\ Cardinality(NamesOf(i)') \in Nat /\ Cardinality(NamesOf(i)) \in Nat
    <3>1. NamesOf(i)' \subseteq NamesOf(i)
      BY <1>2 DEF NamesOf
    <3>2. IsFiniteSet(NamesOf(i))
      BY FS_Subset DEF NamesOf, CopyInv, KernelType
    <3>3. IsFiniteSet(NamesOf(i)')
      BY <3>1, <3>2, FS_Subset
    <3> QED BY <3>1, <3>2, <3>3, FS_Subset, FS_CardinalityType
  <2>2. \A i \in DOMAIN stats : stats[i].nlink \in Nat
    BY MediatorAssumption DEF CopyInv, StatsInv, STAT
  <2>3. ASSUME NEW i \in DOMAIN stats' PROVE Cardinality(NamesOf(i)') <= stats'[i].nlink
    <3>1. i \in DOMAIN stats /\ stats'[i] = stats[i] /\ Cardinality(NamesOf(i)) <= stats[i].nlink
      BY <1>4 DEF CopyInv, StatsInv
    <3> QED BY <2>1, <2>2, <3>1
  <2> QED BY <1>4, <2>3 DEF CopyInv, StatsInv
<1>12. ASSUME NEW i \in (Range(path2ino)' \cup Range(table)') \ {ROOT_INO}
       PROVE  /\ i \in Range(path2ino) \cup Range(table) /\ i \in DOMAIN stats'
              /\ i \in DOMAIN attr' /\ attr'[i] = attr[i]
  <2>1. i \in Range(rest) \/ (i \in Range(table) /\ i \in Range(fd2ino))
    BY <1>1 DEF Range, CopyInv, FdsInv
  <2>2. i \in Range(path2ino) \cup Range(table) /\ Referenced(i, rest, fd2ino)
    <3>1. Range(rest) \subseteq Range(path2ino)
      BY DEF Without, Range
    <3> QED BY <2>1, <3>1 DEF Referenced
  <2>3. i \in DOMAIN stats'
    BY <1>4, <2>2 DEF CopyInv, StatsAgree
  <2>4. i \in DOMAIN attr'
    <3>1. CASE i \in Range(table)'
      BY <1>1, <1>3, <3>1 DEF Range
    <3>2. CASE \E q \in DOMAIN path2ino' : i = path2ino'[q]
      BY <1>3, <1>7, <3>2 DEF PathsInv
    <3> QED BY <3>1, <3>2 DEF Range
  <2> QED BY <1>3, <2>2, <2>3, <2>4
<1>13. StatsAgree'
  BY <1>4, <1>12 DEF CopyInv, StatsAgree
<1>14. FakeHashFollows'
  <2> SUFFICES ASSUME NEW i \in DOMAIN real_hashes' \cap Range(path2ino)',
                      is_hash_fake(real_hashes'[i].meta)
               PROVE  \/ real_hashes'[i].meta = calc_fake_meta_hash(attr'[i].uid, attr'[i].mode)
                      \/ /\ stats'[i].uid = KEEP
                         /\ real_hashes'[i].meta = calc_fake_meta_hash(KEEP, attr'[i].mode)
    BY DEF FakeHashFollows, is_hash_fake, calc_fake_meta_hash
  <2>1. /\ i \in DOMAIN real_hashes /\ real_hashes[i] = real_hashes'[i]
        /\ i \in Range(path2ino) /\ i # ROOT_INO
    BY <1>2 DEF Range, CopyInv, HashesInv
  <2> QED BY <1>4, <1>12, <2>1 DEF CopyInv, FakeHashFollows
<1> QED BY <1>5, <1>6, <1>7, <1>8, <1>9, <1>10, <1>11, <1>13, <1>14 DEF CopyInv

\* Nothing of it changes.
LEMMA QuietKeeps ==
    ASSUME CopyInv,
           UNCHANGED <<kernelVars, cwd, path2ino, fd2ino, stats, real_hashes, intergity_hashes>>
    PROVE  CopyInv'
<1>1. KernelType' /\ FoldersInv'
  BY DEF CopyInv, KernelType, FoldersInv, IsFolder, kernelVars
<1>2. PathsInv' /\ FdsInv' /\ CwdInv' /\ StatsInv' /\ HashesInv'
  BY DEF CopyInv, PathsInv, FdsInv, CwdInv, StatsInv, HashesInv, NamesOf, Named, Range, kernelVars
<1>3. StatsAgree' /\ FakeHashFollows'
  BY DEF CopyInv, StatsAgree, FakeHashFollows, Range, calc_fake_meta_hash, is_hash_fake, kernelVars
<1> QED BY <1>1, <1>2, <1>3 DEF CopyInv

-----------------------------------------------------------------------------
(* What the handlers have in common.                                       *)

EXCEPTIONS == {"KeyError", "ValueError", "StopIteration"}

\* No stored hash is added or replaced.
Frozen ==
    \A ino \in DOMAIN intergity_hashes' :
        ino \in DOMAIN intergity_hashes /\ intergity_hashes'[ino] = intergity_hashes[ino]

\* The event names what the kernel acted on.
Meets(e, k) ==
    /\ e.parent = k.parent
    /\ e.file = k.file
    /\ k.new => e.event \in Creating
    /\ e.event \in Creating => k.new \/ e.event = "creat"

LEMMA EventFields ==
    ASSUME NEW event, NEW parent, NEW file, NEW ok
    PROVE  /\ Event(event, parent, file, ok).event = event
           /\ Event(event, parent, file, ok).parent = parent
           /\ Event(event, parent, file, ok).file = file
           /\ Event(event, parent, file, ok).ok = ok
  BY DEF Event

LEMMA NoEventKeeps ==
    ASSUME sent' = NoEvent
    PROVE  EventRight'
<1>1. ~NoEvent.ok
  BY DEF NoEvent, Event
<1>2. ~sent'.ok
  BY <1>1
<1> QED BY <1>2 DEF EventRight

\* The end of a handler that sends an event for a call that succeeded.
LEMMA SentKeeps ==
    ASSUME IInv, CopyInv', NEW e, NEW k, Send(e), Acted(k), Meets(e, k), UNCHANGED mode
    PROVE  IInv'
<1>1. UNCHANGED <<phase, raised>> /\ PhaseInv'
  BY DEF Send, IInv, PhaseInv
<1>2. EventRight'
  <2>1. CASE sent' = NoEvent
    BY <2>1, NoEventKeeps
  <2>2. CASE sent' = e
    BY <2>2 DEF Acted, Meets, EventRight
  <2> QED BY <2>1, <2>2 DEF Send
<1> QED BY <1>1, <1>2 DEF IInv

\* A handler that raises, or whose call failed.
LEMMA RaiseKeeps ==
    ASSUME IInv, NEW x \in EXCEPTIONS, Raise(x)
    PROVE  IInv' /\ Frozen
<1>1. CopyInv'
  BY QuietKeeps DEF IInv, Raise, stateVars
<1>2. PhaseInv'
  BY DEF IInv, PhaseInv, Raise, stateVars, EXCEPTIONS
<1>3. EventRight'
  BY NoEventKeeps DEF Raise
<1>4. Frozen
  BY DEF Frozen, Raise, stateVars
<1> QED BY <1>1, <1>2, <1>3, <1>4 DEF IInv

LEMMA FailedKeeps ==
    ASSUME IInv, NEW e, e.ok = FALSE, Send(e), UNCHANGED <<kernelVars, stateVars>>
    PROVE  IInv' /\ Frozen
<1>1. CopyInv' /\ Frozen
  BY QuietKeeps DEF IInv, stateVars, Frozen
<1>2. PhaseInv'
  BY DEF IInv, PhaseInv, Send, stateVars
<1>3. sent' = NoEvent
  BY DEF Send
<1>4. EventRight'
  BY <1>3, NoEventKeeps
<1> QED BY <1>1, <1>2, <1>4 DEF IInv

\* Below a folder that has a name, the kernel and the mediator look up the
\* same path.
LEMMA BelowName ==
    ASSUME CopyInv, NEW base \in DOMAIN names, IsFolder(names[base]), NEW rel
    PROVE  Below(names[base], rel) = base \o rel
<1>1. base \in NamesOf(names[base])
  BY DEF NamesOf
<1>2. (CHOOSE path \in NamesOf(names[base]) : TRUE) \in NamesOf(names[base])
  BY <1>1
<1>3. (CHOOSE path \in NamesOf(names[base]) : TRUE) = base
  BY <1>2 DEF CopyInv, FoldersInv, NamesOf
<1> QED BY <1>3 DEF Below

LEMMA PathMeets ==
    ASSUME CopyInv, NEW p, CanNormalize(p), p.base = "root" \/ CanLookBelow(wd)
    PROVE  KPath(p) = normalize(p)
<1>1. CASE p.base = "root"
  BY <1>1 DEF KPath, normalize
<1>2. CASE p.base # "root"
  <2>1. cwd \in DOMAIN names /\ names[cwd] = wd /\ IsFolder(wd)
    BY <1>2 DEF CanNormalize, CanLookBelow, CopyInv, CwdInv
  <2> QED BY <1>2, <2>1, BelowName DEF KPath, normalize
<1> QED BY <1>1, <1>2

\* The directory of the event of a path.
LEMMA ParentMeets ==
    ASSUME CopyInv, NEW path, do_exists(dirname(path)), NEW ino, path # <<>> \/ ino = ROOT_INO
    PROVE  (IF path = <<>> THEN ino ELSE names[dirname(path)]) = ParentOf(path)
<1>1. path2ino[dirname(path)] = names[dirname(path)]
  BY DEF do_exists, CopyInv, PathsInv
<1>2. path = <<>> => dirname(path) = <<>>
  BY DEF dirname
<1>3. names[<<>>] = ROOT_INO
  BY DEF CopyInv, FoldersInv
<1> QED BY <1>1, <1>2, <1>3 DEF ParentOf

-----------------------------------------------------------------------------
(* The calls that fail.                                                    *)

\* A handler whose call failed either raises or only sends its event.
Refused ==
    \/ \E x \in EXCEPTIONS : Raise(x)
    \/ \E e : e.ok = FALSE /\ Send(e) /\ UNCHANGED <<kernelVars, stateVars>>

LEMMA RefusedKeeps ==
    ASSUME IInv, Refused
    PROVE  IInv' /\ Frozen
  BY RaiseKeeps, FailedKeeps DEF Refused

LEMMA RefusedBy ==
    ASSUME \/ Raise("KeyError") \/ Raise("ValueError") \/ Raise("StopIteration")
    PROVE  Refused
  BY DEF Refused, EXCEPTIONS

LEMMA SentRefused ==
    ASSUME NEW e, e.ok = FALSE, Send(e), UNCHANGED kernelVars, UNCHANGED stateVars
    PROVE  Refused
  BY DEF Refused

LEMMA EventRefused ==
    ASSUME NEW event, NEW parent, NEW file, Send(Event(event, parent, file, FALSE)),
           UNCHANGED kernelVars, UNCHANGED stateVars
    PROVE  Refused
<1>1. Event(event, parent, file, FALSE).ok = FALSE
  BY DEF Event
<1> QED BY <1>1, SentRefused

LEMMA OpenRefused ==
    ASSUME NEW p, NEW fd, NEW ino, NEW uid, NEW perms,
           open(p, fd, ino, uid, perms, FALSE) \/ creat(p, fd, ino, uid, perms, FALSE)
    PROVE  Refused
<1>1. CASE open(p, fd, ino, uid, perms, FALSE)
  BY <1>1, RefusedBy, EventRefused DEF open, Failed
<1>2. CASE creat(p, fd, ino, uid, perms, FALSE)
  BY <1>2, RefusedBy, EventRefused DEF creat, Failed
<1> QED BY <1>1, <1>2

LEMMA OpenatRefused ==
    ASSUME NEW dfd, NEW rel, NEW fd, NEW ino, NEW uid, NEW perms,
           openat(dfd, rel, fd, ino, uid, perms, FALSE)
    PROVE  Refused
<1>1. ASSUME NEW event, NEW parent, NEW file, NEW d,
             Send([Event(event, parent, file, FALSE) EXCEPT !.dirfd = d]),
             UNCHANGED kernelVars, UNCHANGED stateVars
      PROVE  Refused
  <2>1. [Event(event, parent, file, FALSE) EXCEPT !.dirfd = d].ok = FALSE
    BY DEF Event
  <2> QED BY <1>1, <2>1, SentRefused
<1> QED BY <1>1, RefusedBy DEF openat, Failed

LEMMA MkdirRefused ==
    ASSUME NEW p, NEW q, NEW ino, NEW uid, NEW perms,
           mkdir(p, ino, uid, perms, FALSE) \/ link(p, q, FALSE) \/ symlink(q, p, ino, FALSE)
    PROVE  Refused
<1>1. CASE mkdir(p, ino, uid, perms, FALSE)
  BY <1>1, RefusedBy, EventRefused DEF mkdir, Failed
<1>2. CASE link(p, q, FALSE)
  <2>1. LinkError(p, q, FALSE) \in {"none", "KeyError"}
    BY DEF LinkError
  <2> QED BY <1>2, <2>1, RefusedBy, EventRefused DEF link, Failed
<1>3. CASE symlink(q, p, ino, FALSE)
  BY <1>3, RefusedBy, EventRefused DEF symlink, Failed
<1> QED BY <1>1, <1>2, <1>3

LEMMA SetAttributesRefused ==
    ASSUME NEW e, e.ok = FALSE, NEW file, NEW owner, NEW perms, NEW hash, NEW k, NEW kuid,
           SetAttributes(e, file, owner, perms, hash, k, kuid)
    PROVE  Refused
  BY RefusedBy, SentRefused DEF SetAttributes, Failed

LEMMA AttrRefused ==
    ASSUME NEW p, NEW fd, NEW perms, NEW owner, NEW reported,
           \/ chmod(p, perms, reported, FALSE) \/ chown(p, owner, reported, FALSE)
           \/ fchmod(fd, perms, reported, FALSE) \/ fchown(fd, owner, reported, FALSE)
    PROVE  Refused
<1>1. PathEvent("chmod", p, FALSE).ok = FALSE /\ PathEvent("chown", p, FALSE).ok = FALSE
  BY DEF PathEvent, Event
<1>2. FdEvent("fchmod", fd, FALSE).ok = FALSE /\ FdEvent("fchown", fd, FALSE).ok = FALSE
  BY DEF FdEvent, Event
<1>3. CASE chmod(p, perms, reported, FALSE)
  BY <1>1, <1>3, SetAttributesRefused, RefusedBy DEF chmod, Chmod
<1>4. CASE chown(p, owner, reported, FALSE)
  BY <1>1, <1>4, SetAttributesRefused, RefusedBy DEF chown, Chown
<1>5. CASE fchmod(fd, perms, reported, FALSE)
  BY <1>2, <1>5, SetAttributesRefused, RefusedBy DEF fchmod, Chmod
<1>6. CASE fchown(fd, owner, reported, FALSE)
  BY <1>2, <1>6, SetAttributesRefused, RefusedBy DEF fchown, Chown
<1> QED BY <1>3, <1>4, <1>5, <1>6

LEMMA RemoveRefused ==
    ASSUME NEW e, e.ok = FALSE, NEW p, Remove(e, p)
    PROVE  Refused
  BY RefusedBy, SentRefused DEF Remove, Failed

LEMMA PathRefused ==
    ASSUME NEW p, NEW event, NEW cloexec,
           \/ xattr(p, event, FALSE) \/ chdir(p, FALSE) \/ unlink(p, FALSE) \/ rmdir(p, FALSE)
           \/ execve(p, cloexec, FALSE)
    PROVE  Refused
<1>1. \A ev : PathEvent(ev, p, FALSE).ok = FALSE
  BY DEF PathEvent, Event
<1>2. CASE xattr(p, event, FALSE)
  BY <1>1, <1>2, RefusedBy, SentRefused DEF xattr, kernelVars, stateVars
<1>3. CASE chdir(p, FALSE)
  BY <1>3, RefusedBy, EventRefused DEF chdir, Failed
<1>4. CASE unlink(p, FALSE)
  <2>1. [PathEvent("unlink", p, FALSE) EXCEPT !.last = (stats[FileOf(p)].nlink = 1)].ok = FALSE
    BY DEF PathEvent, Event
  <2> QED BY <1>4, <2>1, RemoveRefused, RefusedBy DEF unlink
<1>5. CASE rmdir(p, FALSE)
  BY <1>1, <1>5, RemoveRefused, RefusedBy DEF rmdir
<1>6. CASE execve(p, cloexec, FALSE)
  BY <1>1, <1>6, RefusedBy, SentRefused DEF execve, Failed
<1> QED BY <1>2, <1>3, <1>4, <1>5, <1>6

LEMMA FdRefused ==
    ASSUME NEW fd, NEW content, NEW reported,
           close(fd, content, reported, FALSE) \/ fchdir(fd, FALSE)
    PROVE  Refused
<1>1. FdEvent("close", fd, FALSE).ok = FALSE
  BY DEF FdEvent, Event
<1>2. CASE close(fd, content, reported, FALSE)
  BY <1>1, <1>2, RefusedBy, SentRefused DEF close, Failed
<1>3. CASE fchdir(fd, FALSE)
  BY <1>3, RefusedBy, EventRefused DEF fchdir, Failed
<1> QED BY <1>2, <1>3

LEMMA FailsKeeps ==
    ASSUME IInv, Fails
    PROVE  IInv' /\ Frozen
<1>1. Refused
  <2>1. CASE \E p \in PATHNAMES, fd \in FD_NUMBERS :
               \/ open(p, fd, NoIno, AnyOwner, "plain", FALSE)
               \/ creat(p, fd, NoIno, AnyOwner, "plain", FALSE)
    BY <2>1, OpenRefused
  <2>2. CASE \E dfd \in FD_NUMBERS \cup {AT_FDCWD}, rel \in PATHS \ {<<>>}, fd \in FD_NUMBERS :
               openat(dfd, rel, fd, NoIno, AnyOwner, "plain", FALSE)
    BY <2>2, OpenatRefused
  <2>3. CASE \E p \in PATHNAMES :
               \/ mkdir(p, NoIno, AnyOwner, "plain", FALSE)
               \/ chmod(p, "plain", FALSE, FALSE) \/ chown(p, AnyOwner, FALSE, FALSE)
               \/ \E event \in {"getxattr", "setxattr"} : xattr(p, event, FALSE)
               \/ chdir(p, FALSE) \/ unlink(p, FALSE) \/ rmdir(p, FALSE) \/ execve(p, {}, FALSE)
               \/ link(p, p, FALSE) \/ symlink(p, p, NoIno, FALSE)
    BY <2>3, MkdirRefused, AttrRefused, PathRefused
  <2>4. CASE \E fd \in FD_NUMBERS :
               \/ fchmod(fd, "plain", FALSE, FALSE) \/ fchown(fd, AnyOwner, FALSE, FALSE)
               \/ close(fd, NoHash, FALSE, FALSE) \/ fchdir(fd, FALSE)
    BY <2>4, AttrRefused, FdRefused
  <2> QED BY <2>1, <2>2, <2>3, <2>4 DEF Fails
<1> QED BY <1>1, RefusedKeeps

-----------------------------------------------------------------------------
(* The setup.                                                              *)

LEMMA FakeIsOf == ASSUME NEW uid, NEW perms
                  PROVE  FakeOf(calc_fake_meta_hash(uid, perms), uid, perms)
  BY DEF FakeOf

LEMMA ReportedIsOf ==
    ASSUME NEW reported, NEW uid, NEW perms, NEW u, NEW m
    PROVE  FakeOf(MetaHash(reported, uid, perms), u, m)
<1>1. ~is_hash_fake(NoHash) /\ ~is_hash_fake(<<"evm", uid, perms>>)
  BY DEF is_hash_fake
<1> QED BY <1>1 DEF FakeOf, MetaHash

LEMMA FileHashFields ==
    ASSUME NEW content, NEW meta
    PROVE  /\ IsFileHash(FileHash(content, meta))
           /\ FileHash(content, meta).meta = meta
           /\ FileHash(content, meta).content = content
  BY DEF IsFileHash, FileHash

\* Storing the hashes of one inode.
LEMMA StoredTyped ==
    ASSUME CopyInv, NEW ino \in INODES, NEW content, NEW meta, NEW h,
           do_set_real_hashes(ino, FileHash(content, meta)),
           intergity_hashes' \in {intergity_hashes, With(intergity_hashes, ino, h)}
    PROVE  HashesTyped
<1>1. /\ DOMAIN real_hashes' = DOMAIN real_hashes \cup {ino}
      /\ real_hashes'[ino] = FileHash(content, meta)
      /\ \A i \in DOMAIN real_hashes \ {ino} : real_hashes'[i] = real_hashes[i]
      /\ DOMAIN intergity_hashes' \subseteq DOMAIN intergity_hashes \cup {ino}
  BY DEF do_set_real_hashes, With
<1> QED BY <1>1, FileHashFields DEF HashesTyped, CopyInv, HashesInv

LEMMA SetupKeeps ==
    ASSUME IInv, Setup
    PROVE  IInv' /\ phase # "trace"
<1>1. ASSUME NEW path \in PATHS, NEW ino \in INODES, NEW uid \in OWNERS, NEW perms \in MODES,
             add_init_folder(path, ino, uid, perms)
      PROVE  IInv' /\ phase # "trace"
  <2> DEFINE meta == calc_fake_meta_hash(uid, perms)
  <2>1. /\ phase = "folders"
        /\ Create(path, ino, "folder", uid, perms)
        /\ AddFile(path, ino, uid, perms, "folder", FileHash(NoHash, meta))
        /\ intergity_hashes' = With(intergity_hashes, ino, FileHash(NoHash, meta))
        /\ UNCHANGED <<table, wd, cwd, fd2ino, mode, phase, raised, sent, actual>>
    BY <1>1 DEF add_init_folder, do_mkdir
  <2>2. FakeOf(FileHash(NoHash, meta).meta, uid, perms)
    BY FileHashFields, FakeIsOf
  <2>3. HashesTyped
    BY <2>1, StoredTyped DEF AddFile, IInv
  <2>4. MayOpen(ino)
    BY <2>1 DEF MayOpen
  <2> HIDE DEF meta
  <2>5. CopyInv'
    BY <2>1, <2>2, <2>3, <2>4, MadeKeeps DEF IInv
  <2>6. PhaseInv' /\ EventRight'
    BY <2>1 DEF IInv, PhaseInv, EventRight
  <2> QED BY <2>1, <2>5, <2>6 DEF IInv
<1>2. ASSUME NEW path \in PATHS, NEW ino \in INODES, NEW uid \in OWNERS, NEW perms \in MODES,
             NEW content \in CONTENTS \cup {NoHash}, NEW reported \in REPORTS,
             add_init_file(path, ino, uid, perms, content, reported)
      PROVE  IInv' /\ phase # "trace"
  <2> DEFINE meta == IF content # NoHash THEN MetaHash(reported, uid, perms)
                                         ELSE calc_fake_meta_hash(uid, perms)
  <2>1. /\ phase \in {"folders", "files"}
        /\ Create(path, ino, "file", uid, perms)
        /\ AddFile(path, ino, uid, perms, "file", FileHash(content, meta))
        /\ intergity_hashes' \in {intergity_hashes,
                                  With(intergity_hashes, ino, FileHash(content, meta))}
        /\ phase' = "files"
        /\ UNCHANGED <<table, wd, cwd, fd2ino, mode, raised, sent, actual>>
    BY <1>2 DEF add_init_file, do_creat
  <2>2. FakeOf(FileHash(content, meta).meta, uid, perms)
    BY FileHashFields, FakeIsOf, ReportedIsOf
  <2>3. HashesTyped
    BY <2>1, StoredTyped DEF AddFile, IInv
  <2>4. MayOpen(ino)
    BY <2>1 DEF MayOpen
  <2> HIDE DEF meta
  <2>5. CopyInv'
    BY <2>1, <2>2, <2>3, <2>4, MadeKeeps DEF IInv
  <2>6. PhaseInv' /\ EventRight'
    BY <2>1 DEF IInv, PhaseInv, EventRight
  <2> QED BY <2>1, <2>5, <2>6 DEF IInv
<1>3. ASSUME NEW path \in PATHS, NEW newpath \in PATHS, add_init_link(path, newpath)
      PROVE  IInv' /\ phase # "trace"
  <2>1. /\ phase = "files" /\ AddName(path, newpath) /\ do_link(path, newpath)
        /\ UNCHANGED <<cwd, fd2ino, real_hashes, intergity_hashes, mode, phase, raised,
                       sent, actual>>
    BY <1>3 DEF add_init_link
  <2>2. CopyInv'
    BY <2>1, LinkedKeeps DEF IInv
  <2>3. PhaseInv' /\ EventRight'
    BY <2>1 DEF IInv, PhaseInv, EventRight
  <2> QED BY <2>1, <2>2, <2>3 DEF IInv
<1>4. CASE login
  <2>1. CopyInv'
    BY <1>4, QuietKeeps DEF login, IInv
  <2>2. PhaseInv' /\ EventRight'
    BY <1>4 DEF login, IInv, PhaseInv, EventRight
  <2> QED BY <1>4, <2>1, <2>2 DEF IInv, login
<1> QED BY <1>1, <1>2, <1>3, <1>4 DEF Setup

-----------------------------------------------------------------------------
(* The calls that open and create.                                         *)

\* open, creat and openat once the path of the kernel is the mediator's.
LEMMA OpenedTogether ==
    ASSUME IInv, NEW path, NEW fd \in FD_NUMBERS, NEW ino \in INODES, NEW uid \in OWNERS,
           NEW perms \in MODES, NEW file \in {ino, OpenedFile(path, ino)},
           do_exists(dirname(path)),
           KOpen(path, ino, uid, perms, fd), Opened(path, file, uid, perms, fd)
    PROVE  /\ CopyInv' /\ Frozen /\ UNCHANGED mode /\ file = ino
           /\ \E new \in BOOLEAN :
                /\ Acted(KCall(path, ino, new))
                /\ new <=> ~do_exists(path)
                /\ KCall(path, ino, new).parent = ParentOf(path)
                /\ KCall(path, ino, new).file = ino
                /\ KCall(path, ino, new).new = new
<1> CopyInv
  BY DEF IInv
<1>1. /\ fd \notin DOMAIN table /\ table' = With(table, fd, ino) /\ UNCHANGED wd
      /\ fd2ino' = With(fd2ino, fd, file)
      /\ UNCHANGED <<cwd, intergity_hashes, mode>>
  BY DEF KOpen, Opened, do_open
<1>2. CASE /\ path \in DOMAIN names
           /\ names[path] = ino
           /\ attr[ino].kind # "symlink"
           /\ Acted(KCall(path, ino, FALSE))
           /\ UNCHANGED <<names, attr>>
  <2>1. do_exists(path) /\ path \in DOMAIN path2ino /\ path2ino[path] = ino
    BY <1>2 DEF CopyInv, PathsInv, do_exists
  <2>2. file = ino
    BY <2>1 DEF OpenedFile
  <2>3. UNCHANGED <<path2ino, stats, real_hashes>>
    BY <2>1 DEF Opened
  <2>4. MayOpen(path2ino[path])
    BY <1>1, <2>1, <2>2 DEF MayOpen
  <2>5. CopyInv'
    BY <1>1, <1>2, <2>1, <2>3, <2>4, OpenedKeeps
  <2>6. path # <<>> \/ ino = ROOT_INO
    BY <1>2 DEF CopyInv, FoldersInv
  <2>7. Frozen
    BY <1>1 DEF Frozen
  <2>8. /\ KCall(path, ino, FALSE).parent = ParentOf(path)
        /\ KCall(path, ino, FALSE).file = ino
        /\ KCall(path, ino, FALSE).new = FALSE
    BY <2>6, ParentMeets DEF KCall
  <2>9. \E new \in BOOLEAN :
          /\ Acted(KCall(path, ino, new))
          /\ new <=> ~do_exists(path)
          /\ KCall(path, ino, new).parent = ParentOf(path)
          /\ KCall(path, ino, new).file = ino
          /\ KCall(path, ino, new).new = new
    <3> WITNESS FALSE \in BOOLEAN
    <3> QED BY <1>2, <2>1, <2>8
  <2> QED BY <1>1, <2>2, <2>5, <2>7, <2>9
<1>3. CASE Create(path, ino, "file", uid, perms) /\ Acted(KCall(path, ino, TRUE))
  <2>1. ~do_exists(path) /\ path # <<>>
    BY <1>3 DEF Create, CanCreate, CopyInv, PathsInv, FoldersInv, do_exists
  <2>2. file = ino
    BY <2>1 DEF OpenedFile
  <2> DEFINE meta == calc_fake_meta_hash(uid, perms)
  <2>3. AddFile(path, ino, uid, perms, "file", FileHash(NoHash, meta))
    BY <2>1, <2>2 DEF Opened, do_creat
  <2>4. FakeOf(FileHash(NoHash, meta).meta, uid, perms)
    BY FileHashFields, FakeIsOf
  <2> HIDE DEF meta
  <2>5. HashesTyped
    BY <1>1, <2>3, StoredTyped DEF AddFile
  <2>6. MayOpen(ino)
    BY <1>1, <2>2 DEF MayOpen
  <2>7. CopyInv'
    BY <1>1, <1>3, <2>3, <2>4, <2>5, <2>6, MadeKeeps
  <2>8. Frozen
    BY <1>1 DEF Frozen
  <2>9. /\ KCall(path, ino, TRUE).parent = ParentOf(path)
        /\ KCall(path, ino, TRUE).file = ino
        /\ KCall(path, ino, TRUE).new = TRUE
    BY <2>1, ParentMeets DEF KCall
  <2>10. \E new \in BOOLEAN :
           /\ Acted(KCall(path, ino, new))
           /\ new <=> ~do_exists(path)
           /\ KCall(path, ino, new).parent = ParentOf(path)
           /\ KCall(path, ino, new).file = ino
           /\ KCall(path, ino, new).new = new
    <3> WITNESS TRUE \in BOOLEAN
    <3> QED BY <1>3, <2>1, <2>9
  <2> QED BY <1>1, <2>2, <2>7, <2>8, <2>10
<1> QED BY <1>2, <1>3 DEF KOpen

\* The end of open, creat and openat: the event tells creation from opening.
LEMMA OpenSent ==
    ASSUME IInv, NEW path, NEW fd \in FD_NUMBERS, NEW ino \in INODES, NEW uid \in OWNERS,
           NEW perms \in MODES, NEW file \in {ino, OpenedFile(path, ino)}, NEW e,
           do_exists(dirname(path)), KOpen(path, ino, uid, perms, fd),
           Opened(path, file, uid, perms, fd), Send(e),
           e.parent = ParentOf(path), e.file = file,
           ~do_exists(path) => e.event \in Creating,
           e.event \in Creating => ~do_exists(path) \/ e.event = "creat"
    PROVE  IInv' /\ Frozen
<1>1. /\ CopyInv' /\ Frozen /\ UNCHANGED mode /\ file = ino
      /\ \E new \in BOOLEAN :
           /\ Acted(KCall(path, ino, new))
           /\ new <=> ~do_exists(path)
           /\ KCall(path, ino, new).parent = ParentOf(path)
           /\ KCall(path, ino, new).file = ino
           /\ KCall(path, ino, new).new = new
  BY OpenedTogether
<1>2. PICK new \in BOOLEAN : /\ Acted(KCall(path, ino, new))
                             /\ new <=> ~do_exists(path)
                             /\ KCall(path, ino, new).parent = ParentOf(path)
                             /\ KCall(path, ino, new).file = ino
                             /\ KCall(path, ino, new).new = new
  BY <1>1
<1>3. Meets(e, KCall(path, ino, new))
  <2>1. KCall(path, ino, new).new <=> ~do_exists(path)
    BY <1>2
  <2> QED BY <1>1, <1>2, <2>1 DEF Meets
<1> QED BY <1>1, <1>2, <1>3, SentKeeps

LEMMA OpenKeeps ==
    ASSUME IInv, NEW p, NEW fd \in FD_NUMBERS, NEW ino \in INODES, NEW uid \in OWNERS,
           NEW perms \in MODES, open(p, fd, ino, uid, perms, TRUE)
    PROVE  IInv' /\ Frozen
<1>0. PICK path : path = normalize(p)
  OBVIOUS
<1> DEFINE file == OpenedFile(path, ino)
           call == IF do_exists(path) THEN "open_exists" ELSE "open_create"
           e    == Event(call, ParentOf(path), file, TRUE)
<1>1. CASE Raise("KeyError") \/ Raise("ValueError")
  BY <1>1, RaiseKeeps DEF EXCEPTIONS
<1>2. CASE /\ KFinds(p) \/ KCreates(p)
           /\ KnowsParent(p)
           /\ Send(e)
           /\ KOpen(KPath(p), ino, uid, perms, fd) /\ Opened(path, file, uid, perms, fd)
  <2>1. KPath(p) = path /\ do_exists(dirname(path))
    BY <1>0, <1>2, PathMeets DEF IInv, KFinds, KCreates, KnowsParent
  <2>2. KOpen(path, ino, uid, perms, fd)
    BY <1>2, <2>1
  <2>3. e.parent = ParentOf(path) /\ e.file = file /\ e.event = call
    BY DEF Event
  <2>4. /\ ~do_exists(path) => call \in Creating
        /\ call \in Creating => ~do_exists(path) \/ call = "creat"
        /\ file \in {ino, OpenedFile(path, ino)}
    BY DEF Creating
  <2> HIDE DEF file, call, e
  <2> QED BY <1>2, <2>1, <2>2, <2>3, <2>4, OpenSent
<1>3. \/ Raise("KeyError") \/ Raise("ValueError")
      \/ /\ KFinds(p) \/ KCreates(p)
         /\ KnowsParent(p)
         /\ Send(e)
         /\ KOpen(KPath(p), ino, uid, perms, fd) /\ Opened(path, file, uid, perms, fd)
  BY <1>0 DEF open, Failed
<1> QED BY <1>1, <1>2, <1>3

LEMMA CreatKeeps ==
    ASSUME IInv, NEW p, NEW fd \in FD_NUMBERS, NEW ino \in INODES, NEW uid \in OWNERS,
           NEW perms \in MODES, creat(p, fd, ino, uid, perms, TRUE)
    PROVE  IInv' /\ Frozen
<1>0. PICK path : path = normalize(p)
  OBVIOUS
<1> DEFINE e == Event("creat", ParentOf(path), ino, TRUE)
<1>1. CASE Raise("KeyError") \/ Raise("ValueError")
  BY <1>1, RaiseKeeps DEF EXCEPTIONS
<1>2. CASE /\ KFinds(p) \/ KCreates(p)
           /\ KnowsParent(p)
           /\ Send(e)
           /\ KOpen(KPath(p), ino, uid, perms, fd) /\ Opened(path, ino, uid, perms, fd)
  <2>1. KPath(p) = path /\ do_exists(dirname(path))
    BY <1>0, <1>2, PathMeets DEF IInv, KFinds, KCreates, KnowsParent
  <2>2. KOpen(path, ino, uid, perms, fd)
    BY <1>2, <2>1
  <2>3. e.parent = ParentOf(path) /\ e.file = ino /\ e.event = "creat" /\ e.event \in Creating
    BY DEF Event, Creating
  <2> HIDE DEF e
  <2> QED BY <1>2, <2>1, <2>2, <2>3, OpenSent
<1>3. \/ Raise("KeyError") \/ Raise("ValueError")
      \/ /\ KFinds(p) \/ KCreates(p)
         /\ KnowsParent(p)
         /\ Send(e)
         /\ KOpen(KPath(p), ino, uid, perms, fd) /\ Opened(path, ino, uid, perms, fd)
  BY <1>0 DEF creat, Failed
<1> QED BY <1>1, <1>2, <1>3

LEMMA OpenatKeeps ==
    ASSUME IInv, NEW dfd, NEW rel, NEW fd \in FD_NUMBERS, NEW ino \in INODES,
           NEW uid \in OWNERS, NEW perms \in MODES, openat(dfd, rel, fd, ino, uid, perms, TRUE)
    PROVE  IInv' /\ Frozen
<1>0. PICK kbase : kbase = IF dfd = AT_FDCWD THEN wd ELSE table[dfd]
  OBVIOUS
<1> DEFINE path(base) == base \o rel
           file(base) == OpenedFile(path(base), ino)
           call(base) == IF do_exists(path(base)) THEN "openat_exists" ELSE "openat_create"
           e(base)    == [Event(call(base), ParentOf(path(base)), file(base), TRUE) EXCEPT
                            !.dirfd = translate_fd(PID, dfd)]
           Opens(base) == /\ do_exists(base) /\ do_exists(dirname(path(base)))
                          /\ Send(e(base))
                          /\ KOpen(Below(kbase, rel), ino, uid, perms, fd)
                          /\ Opened(path(base), file(base), uid, perms, fd)
           bases == IF dfd = AT_FDCWD THEN {cwd} ELSE get_path(fd2ino[dfd])
<1>1. /\ dfd \in DOMAIN table \cup {AT_FDCWD}
      /\ CanLookBelow(kbase)
      /\ \/ Raise("KeyError") \/ Raise("ValueError") \/ Raise("StopIteration")
         \/ /\ IF dfd = AT_FDCWD THEN cwd # Unset ELSE dfd \in DOMAIN fd2ino
            /\ \E base \in bases : Opens(base)
  BY <1>0 DEF openat, Failed
<1>2. CASE Raise("KeyError") \/ Raise("ValueError") \/ Raise("StopIteration")
  BY <1>2, RaiseKeeps DEF EXCEPTIONS
<1>3. CASE /\ IF dfd = AT_FDCWD THEN cwd # Unset ELSE dfd \in DOMAIN fd2ino
           /\ \E base \in bases : Opens(base)
  <2>1. PICK base \in bases : Opens(base)
    BY <1>3
  <2>2. base \in DOMAIN names /\ names[base] = kbase /\ IsFolder(kbase)
    <3>1. CASE dfd = AT_FDCWD
      BY <1>0, <1>1, <1>3, <3>1 DEF IInv, CopyInv, CwdInv, CanLookBelow
    <3>2. CASE dfd # AT_FDCWD
      <4>1. fd2ino[dfd] = kbase
        BY <1>0, <1>1, <3>2 DEF IInv, CopyInv, FdsInv
      <4>2. base \in DOMAIN path2ino /\ path2ino[base] = kbase
        BY <3>2, <4>1 DEF get_path
      <4> QED BY <1>1, <4>2 DEF IInv, CopyInv, PathsInv, CanLookBelow
    <3> QED BY <3>1, <3>2
  <2>3. Below(kbase, rel) = path(base)
    BY <2>2, BelowName DEF IInv
  <2>4. e(base).parent = ParentOf(path(base)) /\ e(base).file = file(base)
        /\ e(base).event = call(base)
    BY DEF Event
  <2>5. /\ ~do_exists(path(base)) => call(base) \in Creating
        /\ call(base) \in Creating => ~do_exists(path(base)) \/ call(base) = "creat"
        /\ file(base) \in {ino, OpenedFile(path(base), ino)}
    BY DEF Creating
  <2>6. /\ do_exists(dirname(path(base))) /\ Send(e(base))
        /\ KOpen(path(base), ino, uid, perms, fd)
        /\ Opened(path(base), file(base), uid, perms, fd)
    BY <2>1, <2>3
  <2> HIDE DEF path, file, call, e
  <2> QED BY <2>4, <2>5, <2>6, OpenSent
<1> QED BY <1>1, <1>2, <1>3

LEMMA MkdirKeeps ==
    ASSUME IInv, NEW p, NEW ino \in INODES, NEW uid \in OWNERS, NEW perms \in MODES,
           mkdir(p, ino, uid, perms, TRUE)
    PROVE  IInv' /\ Frozen
<1>0. PICK path : path = normalize(p)
  OBVIOUS
<1> DEFINE meta == calc_fake_meta_hash(uid, perms)
           e    == Event("mkdir", ParentOf(path), ino, TRUE)
<1>1. \/ Raise("KeyError")
      \/ /\ KCreates(p) /\ KnowsParent(p)
         /\ Send(e)
         /\ Create(KPath(p), ino, "folder", uid, perms)
         /\ Acted(KCall(KPath(p), ino, TRUE))
         /\ AddFile(path, ino, uid, perms, "folder", FileHash(NoHash, meta))
         /\ UNCHANGED <<table, wd, cwd, fd2ino, intergity_hashes, mode>>
  BY <1>0 DEF mkdir, do_mkdir, Failed
<1>2. CASE Raise("KeyError")
  BY <1>2, RaiseKeeps DEF EXCEPTIONS
<1>3. CASE ~Raise("KeyError")
  <2>1. KPath(p) = path /\ do_exists(dirname(path))
    BY <1>0, <1>1, <1>3, PathMeets DEF IInv, KCreates, KnowsParent
  <2>2. Create(path, ino, "folder", uid, perms) /\ Acted(KCall(path, ino, TRUE))
    BY <1>1, <1>3, <2>1
  <2>3. path # <<>>
    BY <2>2 DEF Create, CanCreate, IInv, CopyInv, FoldersInv
  <2>4. FakeOf(FileHash(NoHash, meta).meta, uid, perms)
    BY FileHashFields, FakeIsOf
  <2>5. Meets(e, KCall(path, ino, TRUE))
    <3>1. /\ KCall(path, ino, TRUE).parent = ParentOf(path) /\ KCall(path, ino, TRUE).file = ino
          /\ KCall(path, ino, TRUE).new = TRUE
      BY <2>1, <2>3, ParentMeets DEF KCall, IInv
    <3>2. e.parent = ParentOf(path) /\ e.file = ino /\ e.event \in Creating
      BY DEF Event, Creating
    <3> HIDE DEF e
    <3> QED BY <3>1, <3>2 DEF Meets
  <2>6. MayOpen(ino) /\ Frozen
    BY <1>1, <1>3 DEF MayOpen, Frozen
  <2> HIDE DEF meta, e
  <2>7. HashesTyped
    BY <1>1, <1>3, StoredTyped DEF AddFile, IInv
  <2>8. CopyInv'
    BY <1>1, <1>3, <2>2, <2>4, <2>6, <2>7, MadeKeeps DEF IInv
  <2> QED BY <1>1, <1>3, <2>2, <2>5, <2>6, <2>8, SentKeeps
<1> QED BY <1>2, <1>3

LEMMA MadeSymlink ==
    ASSUME IInv, NEW target, NEW p, NEW ino \in INODES, symlink(target, p, ino, TRUE)
    PROVE  IInv' /\ Frozen
<1>0. PICK path : path = normalize(p)
  OBVIOUS
<1> DEFINE e == Event("symlink", ParentOf(path), ino, TRUE)
<1>1. \/ Raise("KeyError")
      \/ /\ KCreates(p) /\ KnowsParent(p)
         /\ Send(e)
         /\ Create(KPath(p), ino, "symlink", AnyOwner, "plain")
         /\ Acted(KCall(KPath(p), ino, TRUE))
         /\ UNCHANGED <<table, wd>> /\ UNCHANGED stateVars
  BY <1>0 DEF symlink, AnyOwner, Failed
<1>2. CASE Raise("KeyError")
  BY <1>2, RaiseKeeps DEF EXCEPTIONS
<1>3. CASE ~Raise("KeyError")
  <2>1. KPath(p) = path /\ do_exists(dirname(path))
    BY <1>0, <1>1, <1>3, PathMeets DEF IInv, KCreates, KnowsParent
  <2>2. Create(path, ino, "symlink", AnyOwner, "plain") /\ Acted(KCall(path, ino, TRUE))
    BY <1>1, <1>3, <2>1
  <2>3. path # <<>>
    BY <2>2 DEF Create, CanCreate, IInv, CopyInv, FoldersInv
  <2>4. Meets(e, KCall(path, ino, TRUE))
    <3>1. /\ KCall(path, ino, TRUE).parent = ParentOf(path) /\ KCall(path, ino, TRUE).file = ino
          /\ KCall(path, ino, TRUE).new = TRUE
      BY <2>1, <2>3, ParentMeets DEF KCall, IInv
    <3>2. e.parent = ParentOf(path) /\ e.file = ino /\ e.event \in Creating
      BY DEF Event, Creating
    <3> HIDE DEF e
    <3> QED BY <3>1, <3>2 DEF Meets
  <2>5. UNCHANGED <<table, wd, cwd, path2ino, fd2ino, stats, real_hashes, intergity_hashes, mode>>
    BY <1>1, <1>3 DEF stateVars
  <2>6. Frozen
    BY <2>5 DEF Frozen
  <2> HIDE DEF e
  <2>7. CopyInv'
    BY <2>2, <2>5, SymlinkKeeps DEF IInv
  <2> QED BY <1>1, <1>3, <2>2, <2>4, <2>5, <2>6, <2>7, SentKeeps
<1> QED BY <1>2, <1>3

-----------------------------------------------------------------------------
(* The calls that change attributes.                                       *)

\* The kernel and the mediator find the same file under a path.
LEMMA FileMeets ==
    ASSUME IInv, NEW p, KFinds(p), KnowsFile(p)
    PROVE  /\ KPath(p) = normalize(p) /\ FileOf(p) = names[KPath(p)]
           /\ normalize(p) \in DOMAIN path2ino
           /\ KFile(p).file = FileOf(p) /\ KFile(p).parent = ParentOf(normalize(p))
           /\ KFile(p).new = FALSE
           /\ FileOf(p) \in Range(path2ino) /\ FileOf(p) \in DOMAIN attr
<1> CopyInv
  BY DEF IInv
<1>0. PICK path : path = normalize(p)
  OBVIOUS
<1>1. KPath(p) = path /\ do_exists(dirname(path)) /\ path \in DOMAIN path2ino
  BY <1>0, PathMeets DEF KFinds, KnowsFile, KnowsParent, do_exists
<1>2. path2ino[path] = names[path] /\ path \in DOMAIN names /\ names[path] \in DOMAIN attr
  BY <1>1 DEF CopyInv, PathsInv, KernelType
<1>3. path # <<>> \/ names[path] = ROOT_INO
  BY DEF CopyInv, FoldersInv
<1>4. KFile(p).file = names[path] /\ KFile(p).parent = ParentOf(path) /\ KFile(p).new = FALSE
  BY <1>1, <1>3, ParentMeets DEF KFile, KCall
<1> QED BY <1>0, <1>1, <1>2, <1>4 DEF FileOf, Range

LEMMA PathEventMeets ==
    ASSUME IInv, NEW p, KFinds(p), KnowsFile(p), NEW ev, ev \notin Creating
    PROVE  Meets(PathEvent(ev, p, TRUE), KFile(p))
<1>1. /\ PathEvent(ev, p, TRUE).event = ev
      /\ PathEvent(ev, p, TRUE).parent = ParentOf(normalize(p))
      /\ PathEvent(ev, p, TRUE).file = FileOf(p)
  BY DEF PathEvent, Event
<1> QED BY <1>1, FileMeets DEF Meets

LEMMA FdMeets ==
    ASSUME IInv, NEW fd \in DOMAIN table
    PROVE  /\ fd2ino[fd] = table[fd] /\ fd \in DOMAIN fd2ino
           /\ KFd(fd).file = table[fd] /\ KFd(fd).parent = NoIno /\ KFd(fd).new = FALSE
           /\ table[fd] \in Range(table) /\ table[fd] \in DOMAIN attr
  BY DEF KFd, IInv, CopyInv, FdsInv, KernelType, Range

LEMMA FdEventMeets ==
    ASSUME IInv, NEW fd \in DOMAIN table, NEW ev, ev \notin Creating
    PROVE  Meets(FdEvent(ev, fd, TRUE), KFd(fd))
<1>1. /\ FdEvent(ev, fd, TRUE).event = ev
      /\ FdEvent(ev, fd, TRUE).parent = NoIno
      /\ FdEvent(ev, fd, TRUE).file = fd2ino[fd]
  BY DEF FdEvent, Event
<1> QED BY <1>1, FdMeets DEF Meets

\* A pseudo-hash that is taken over is that of the owner and the mode.
LEMMA MetaHashOrFake ==
    ASSUME NEW reported, NEW kuid, NEW file, NEW uid, NEW perms
    PROVE  FakeOf(MetaHashOr(MetaHash(reported, kuid, perms), file, uid, perms), uid, perms)
<1>1. ~is_hash_fake(<<"evm", kuid, perms>>)
  BY DEF is_hash_fake
<1>2. MetaHash(reported, kuid, perms) \in {<<"evm", kuid, perms>>, NoHash}
  BY DEF MetaHash
<1> QED BY <1>1, <1>2 DEF MetaHashOr, FakeOf

LEMMA AttributesSet ==
    ASSUME IInv, NEW e, e.ok = TRUE, NEW file, NEW owner, NEW perms \in MODES, NEW hash, NEW k,
           NEW kuid, SetAttributes(e, file, owner, perms, hash, k, kuid),
           Meets(e, k), file = k.file,
           file \in DOMAIN stats =>
             /\ file \in DOMAIN attr /\ owner \in OWNERS \cup {KEEP} /\ kuid \in UIDS
             /\ owner \in {kuid, KEEP}
             /\ is_hash_fake(hash) =>
                  \/ hash = calc_fake_meta_hash(kuid, perms)
                  \/ owner = KEEP /\ hash = calc_fake_meta_hash(KEEP, perms)
    PROVE  IInv' /\ Frozen
<1>1. CASE Raise("KeyError") \/ Raise("ValueError")
  BY <1>1, RaiseKeeps DEF EXCEPTIONS
<1>2. CASE /\ file \in DOMAIN stats /\ Send(e) /\ HasHashes(file)
           /\ SetAttr(file, kuid, perms) /\ Acted(k)
           /\ SetStat(file, owner, perms, hash)
           /\ UNCHANGED <<cwd, path2ino, fd2ino, intergity_hashes, mode>>
  <2>1. CopyInv'
    BY <1>2, AttrKeeps DEF IInv
  <2>2. Frozen
    BY <1>2 DEF Frozen
  <2> QED BY <1>2, <2>1, <2>2, SentKeeps
<1> QED BY <1>1, <1>2 DEF SetAttributes, Failed

\* The stored owner and mode of a file the process can name.
LEMMA StatOf ==
    ASSUME IInv, NEW file \in Range(path2ino) \cup Range(table), file \in DOMAIN stats,
           file \in DOMAIN attr
    PROVE  /\ stats[file].uid \in {attr[file].uid, KEEP} /\ stats[file].uid \in OWNERS \cup {KEEP}
           /\ attr[file].uid \in UIDS /\ attr[file].mode \in MODES
<1>1. stats[file] \in STAT /\ attr[file] \in ATTR /\ file # ROOT_INO
  BY DEF IInv, CopyInv, StatsInv, KernelType
<1> QED BY <1>1 DEF IInv, CopyInv, StatsAgree, STAT, ATTR

LEMMA ChmodKeeps ==
    ASSUME IInv, NEW e, e.ok = TRUE, NEW k, NEW perms \in MODES, NEW reported,
           Meets(e, k), e.file \in Range(path2ino) \cup Range(table), e.file \in DOMAIN attr,
           Chmod(e, k, perms, reported)
    PROVE  IInv' /\ Frozen
<1>0. PICK file, uid, kuid, hash :
        /\ file = e.file /\ uid = stats[file].uid /\ kuid = attr[k.file].uid
        /\ hash = MetaHashOr(MetaHash(reported, kuid, perms), file, uid, perms)
  OBVIOUS
<1>1. SetAttributes(e, file, uid, perms, hash, k, kuid)
  BY <1>0 DEF Chmod
<1>2. FakeOf(hash, uid, perms)
  BY <1>0, MetaHashOrFake
<1>3. file = k.file
  BY <1>0 DEF Meets
<1>4. file \in DOMAIN stats =>
        /\ file \in DOMAIN attr /\ uid \in OWNERS \cup {KEEP} /\ kuid \in UIDS
        /\ uid \in {kuid, KEEP}
  BY <1>0, <1>3, StatOf
<1> QED BY <1>1, <1>2, <1>3, <1>4, AttributesSet DEF FakeOf

LEMMA ChownKeeps ==
    ASSUME IInv, NEW e, e.ok = TRUE, NEW k, NEW owner \in OWNER_ARGS, NEW reported,
           Meets(e, k), e.file \in Range(path2ino) \cup Range(table), e.file \in DOMAIN attr,
           Chown(e, k, owner, reported)
    PROVE  IInv' /\ Frozen
<1>0. PICK file, uid, kuid, perms, hash :
        /\ file = e.file
        /\ kuid = IF owner = KEEP THEN attr[k.file].uid ELSE owner
        /\ uid = IF owner = KEEP THEN stats[file].uid ELSE owner
        /\ perms = ChownMode(k.file)
        /\ hash = MetaHashOr(MetaHash(reported, kuid, perms), file, uid, perms)
  OBVIOUS
<1>1. SetAttributes(e, file, owner, perms, hash, k, kuid)
  BY <1>0 DEF Chown
<1>2. FakeOf(hash, uid, perms)
  BY <1>0, MetaHashOrFake
<1>3. file = k.file
  BY <1>0 DEF Meets
<1>4. perms \in MODES
  <2>1. attr[file] \in ATTR
    BY <1>0 DEF IInv, CopyInv, KernelType
  <2> QED BY <1>0, <1>3, <2>1, KernelAssumption DEF ChownMode, ATTR
<1>5. file \in DOMAIN stats =>
        /\ file \in DOMAIN attr /\ owner \in OWNERS \cup {KEEP} /\ kuid \in UIDS
        /\ owner \in {kuid, KEEP}
        /\ uid = kuid \/ (owner = KEEP /\ uid = KEEP)
  BY <1>0, <1>3, StatOf, MediatorAssumption DEF UIDS
<1> QED BY <1>1, <1>2, <1>3, <1>4, <1>5, AttributesSet DEF FakeOf

LEMMA PathAttrKeeps ==
    ASSUME IInv, NEW p, NEW reported,
           \/ \E perms \in MODES : chmod(p, perms, reported, TRUE)
           \/ \E owner \in OWNER_ARGS : chown(p, owner, reported, TRUE)
    PROVE  IInv' /\ Frozen
<1>1. CASE Raise("KeyError")
  BY <1>1, RaiseKeeps DEF EXCEPTIONS
<1>2. \A ev : PathEvent(ev, p, TRUE).ok = TRUE /\ PathEvent(ev, p, TRUE).file = FileOf(p)
  BY DEF PathEvent, Event
<1>3. CASE /\ KFinds(p) /\ KnowsFile(p)
           /\ \/ \E perms \in MODES : Chmod(PathEvent("chmod", p, TRUE), KFile(p), perms, reported)
              \/ \E owner \in OWNER_ARGS :
                   Chown(PathEvent("chown", p, TRUE), KFile(p), owner, reported)
  <2>1. FileOf(p) \in Range(path2ino) \cup Range(table) /\ FileOf(p) \in DOMAIN attr
    BY <1>3, FileMeets
  <2>2. /\ Meets(PathEvent("chmod", p, TRUE), KFile(p))
        /\ Meets(PathEvent("chown", p, TRUE), KFile(p))
    BY <1>3, PathEventMeets DEF Creating
  <2> QED BY <1>2, <1>3, <2>1, <2>2, ChmodKeeps, ChownKeeps
<1> QED BY <1>1, <1>3 DEF chmod, chown, PathCall

LEMMA FdAttrKeeps ==
    ASSUME IInv, NEW fd, NEW reported,
           \/ \E perms \in MODES : fchmod(fd, perms, reported, TRUE)
           \/ \E owner \in OWNER_ARGS : fchown(fd, owner, reported, TRUE)
    PROVE  IInv' /\ Frozen
<1>1. CASE Raise("KeyError")
  BY <1>1, RaiseKeeps DEF EXCEPTIONS
<1>2. \A ev : FdEvent(ev, fd, TRUE).ok = TRUE /\ FdEvent(ev, fd, TRUE).file = fd2ino[fd]
  BY DEF FdEvent, Event
<1>3. CASE /\ fd \in DOMAIN table
           /\ \/ \E perms \in MODES : Chmod(FdEvent("fchmod", fd, TRUE), KFd(fd), perms, reported)
              \/ \E owner \in OWNER_ARGS :
                   Chown(FdEvent("fchown", fd, TRUE), KFd(fd), owner, reported)
  <2>1. fd2ino[fd] \in Range(path2ino) \cup Range(table) /\ fd2ino[fd] \in DOMAIN attr
    BY <1>3, FdMeets
  <2>2. /\ Meets(FdEvent("fchmod", fd, TRUE), KFd(fd))
        /\ Meets(FdEvent("fchown", fd, TRUE), KFd(fd))
    BY <1>3, FdEventMeets DEF Creating
  <2> QED BY <1>2, <1>3, <2>1, <2>2, ChmodKeeps, ChownKeeps
<1> QED BY <1>1, <1>3 DEF fchmod, fchown, FdCall

-----------------------------------------------------------------------------
(* The remaining calls.                                                    *)

LEMMA XattrKeeps ==
    ASSUME IInv, NEW p, NEW event \in {"getxattr", "setxattr"}, xattr(p, event, TRUE)
    PROVE  IInv' /\ Frozen
<1>1. CASE Raise("KeyError")
  BY <1>1, RaiseKeeps DEF EXCEPTIONS
<1>2. CASE /\ KFinds(p) /\ KnowsFile(p) /\ Send(PathEvent(event, p, TRUE)) /\ Acted(KFile(p))
           /\ UNCHANGED <<kernelVars, stateVars>>
  <2>1. UNCHANGED <<kernelVars, cwd, path2ino, fd2ino, stats, real_hashes, intergity_hashes, mode>>
    BY <1>2 DEF stateVars
  <2>2. CopyInv' /\ Frozen
    BY <2>1, QuietKeeps DEF IInv, Frozen
  <2>3. Meets(PathEvent(event, p, TRUE), KFile(p))
    BY <1>2, PathEventMeets DEF Creating
  <2> QED BY <1>2, <2>1, <2>2, <2>3, SentKeeps
<1> QED BY <1>1, <1>2 DEF xattr, PathCall

LEMMA ChdirCallKeeps ==
    ASSUME IInv, NEW p, chdir(p, TRUE)
    PROVE  IInv' /\ Frozen
<1>0. PICK path, ino : path = normalize(p) /\ ino = names[path]
  OBVIOUS
<1> DEFINE e == Event("chdir", NoIno, path2ino[path], TRUE)
           k == [KCall(path, ino, FALSE) EXCEPT !.parent = NoIno]
<1>1. CASE Raise("KeyError")
  BY <1>1, RaiseKeeps DEF EXCEPTIONS
<1>2. CASE /\ KFinds(p) /\ CanNormalize(p) /\ do_exists(path)
           /\ Send(Event("chdir", NoIno, FileOf(p), TRUE))
           /\ ChangeDir(names[KPath(p)])
           /\ Acted([KFile(p) EXCEPT !.parent = NoIno])
           /\ do_chdir(path)
           /\ UNCHANGED <<path2ino, fd2ino, stats, real_hashes, intergity_hashes, mode>>
  <2>1. KPath(p) = path
    BY <1>0, <1>2, PathMeets DEF IInv, KFinds
  <2>2. path \in DOMAIN path2ino /\ path2ino[path] = ino
    BY <1>0, <1>2 DEF do_exists, IInv, CopyInv, PathsInv
  <2>3. Send(e) /\ ChangeDir(path2ino[path]) /\ Acted(k)
    BY <1>0, <1>2, <2>1, <2>2 DEF FileOf, KFile
  <2>4. Meets(e, k)
    <3>1. e.event = "chdir" /\ e.event \notin Creating /\ e.parent = NoIno /\ e.file = ino
      BY <2>2 DEF Event, Creating
    <3>2. k.parent = NoIno /\ k.file = ino /\ k.new = FALSE
      BY DEF KCall
    <3> HIDE DEF e, k
    <3> QED BY <3>1, <3>2 DEF Meets
  <2> HIDE DEF e, k
  <2>5. CopyInv' /\ Frozen
    BY <1>2, <2>2, <2>3, ChdirKeeps DEF IInv, Frozen
  <2> QED BY <1>2, <2>3, <2>4, <2>5, SentKeeps
<1> QED BY <1>0, <1>1, <1>2 DEF chdir, PathCall, Failed

LEMMA FchdirKeeps ==
    ASSUME IInv, NEW fd, fchdir(fd, TRUE)
    PROVE  IInv' /\ Frozen
<1>1. CASE Raise("StopIteration")
  BY <1>1, RaiseKeeps DEF EXCEPTIONS
<1>2. CASE /\ fd \in DOMAIN table
           /\ \E path \in get_path(fd2ino[fd]) : do_chdir(path)
           /\ Send(FdEvent("fchdir", fd, TRUE))
           /\ ChangeDir(table[fd])
           /\ Acted(KFd(fd))
           /\ UNCHANGED <<path2ino, fd2ino, stats, real_hashes, intergity_hashes, mode>>
  <2>1. PICK path \in get_path(fd2ino[fd]) : do_chdir(path)
    BY <1>2
  <2>2. path \in DOMAIN path2ino /\ path2ino[path] = table[fd]
    BY <1>2, FdMeets DEF get_path
  <2>3. CopyInv' /\ Frozen
    BY <1>2, <2>1, <2>2, ChdirKeeps DEF IInv, Frozen
  <2>4. Meets(FdEvent("fchdir", fd, TRUE), KFd(fd))
    BY <1>2, FdEventMeets DEF Creating
  <2> QED BY <1>2, <2>3, <2>4, SentKeeps
<1> QED BY <1>1, <1>2 DEF fchdir, FdCall, Failed

LEMMA LinkKeeps ==
    ASSUME IInv, NEW p, NEW q, link(p, q, TRUE)
    PROVE  IInv' /\ Frozen
<1>0. PICK path, newpath : path = normalize(p) /\ newpath = normalize(q)
  OBVIOUS
<1> DEFINE e == Event("link", ParentOf(newpath), path2ino[path], TRUE)
           k == KCall(newpath, names[path], FALSE)
<1>1. CASE LinkError(p, q, TRUE) # "none"
  <2>1. LinkError(p, q, TRUE) \in EXCEPTIONS
    BY <1>1 DEF LinkError, EXCEPTIONS
  <2>2. Raise(LinkError(p, q, TRUE))
    BY <1>1 DEF link
  <2> QED BY <2>1, <2>2, RaiseKeeps
<1>2. CASE /\ KFinds(p) /\ KCreates(q) /\ KnowsFile(p) /\ KnowsParent(q)
           /\ Send(Event("link", ParentOf(newpath), FileOf(p), TRUE))
           /\ AddName(KPath(p), KPath(q))
           /\ Acted(KCall(KPath(q), names[KPath(p)], FALSE))
           /\ do_link(path, newpath)
           /\ UNCHANGED <<cwd, fd2ino, real_hashes, intergity_hashes, mode>>
  <2>1. KPath(p) = path /\ path2ino[path] = names[path]
    BY <1>0, <1>2, FileMeets DEF FileOf
  <2>2. KPath(q) = newpath /\ do_exists(dirname(newpath))
    BY <1>0, <1>2, PathMeets DEF IInv, KCreates, KnowsParent
  <2>3. Send(e) /\ AddName(path, newpath) /\ Acted(k)
    BY <1>0, <1>2, <2>1, <2>2 DEF FileOf
  <2>4. newpath # <<>>
    BY <2>3 DEF AddName, CanCreate, IInv, CopyInv, FoldersInv
  <2>5. Meets(e, k)
    <3>1. /\ e.event = "link" /\ e.event \notin Creating
          /\ e.parent = ParentOf(newpath) /\ e.file = names[path]
      BY <2>1 DEF Event, Creating
    <3>2. k.parent = ParentOf(newpath) /\ k.file = names[path] /\ k.new = FALSE
      BY <2>2, <2>4, ParentMeets DEF KCall, IInv
    <3> HIDE DEF e, k
    <3> QED BY <3>1, <3>2 DEF Meets
  <2> HIDE DEF e, k
  <2>6. CopyInv' /\ Frozen
    BY <1>2, <2>3, LinkedKeeps DEF IInv, Frozen
  <2> QED BY <1>2, <2>3, <2>5, <2>6, SentKeeps
<1>3. LinkError(p, q, TRUE) = "none" => KnowsFile(p) /\ KnowsParent(q)
  BY DEF LinkError
<1> QED BY <1>0, <1>1, <1>2, <1>3 DEF link, Failed

LEMMA ExecveKeeps ==
    ASSUME IInv, NEW p, NEW cloexec, execve(p, cloexec, TRUE)
    PROVE  IInv' /\ Frozen
<1>1. CASE Raise("KeyError")
  BY <1>1, RaiseKeeps DEF EXCEPTIONS
<1>2. CASE /\ KFinds(p) /\ KnowsFile(p) /\ Send(PathEvent("execve", p, TRUE))
           /\ UNCHANGED stateVars /\ DropFds(cloexec) /\ Acted(KFile(p))
  <2>1. UNCHANGED <<cwd, path2ino, fd2ino, stats, real_hashes, intergity_hashes, mode>>
    BY <1>2 DEF stateVars
  <2>0. PICK none : none = {}
    OBVIOUS
  <2>2. /\ DOMAIN fd2ino' = DOMAIN fd2ino \ none
        /\ \A fd \in DOMAIN fd2ino' : fd2ino'[fd] = fd2ino[fd]
        /\ DOMAIN stats' = DOMAIN stats \ none /\ \A i \in DOMAIN stats' : stats'[i] = stats[i]
        /\ \A fd \in DOMAIN table : fd \in none => fd \in cloexec
        /\ \A i \in none : ~Referenced(i, path2ino, fd2ino')
    BY <2>0, <2>1
  <2>3. HashesTyped
    BY <2>1 DEF HashesTyped, IInv, CopyInv, HashesInv
  <2>4. \A i \in DOMAIN real_hashes' : is_hash_fake(real_hashes'[i].meta) =>
          i \in DOMAIN real_hashes /\ real_hashes[i].meta = real_hashes'[i].meta
    BY <2>1
  <2>5. CopyInv'
    BY <1>2, <2>1, <2>2, <2>3, <2>4, DroppedKeeps DEF IInv
  <2>6. Meets(PathEvent("execve", p, TRUE), KFile(p)) /\ Frozen
    BY <1>2, <2>1, PathEventMeets DEF Creating, Frozen
  <2> QED BY <1>2, <2>1, <2>5, <2>6, SentKeeps
<1> QED BY <1>1, <1>2 DEF execve, PathCall, Failed

LEMMA KnownHashes ==
    ASSUME CopyInv, NEW ino
    PROVE  /\ IsFileHash(get_real_hashes(ino))
           /\ is_hash_fake(get_real_hashes(ino).meta) =>
                ino \in DOMAIN real_hashes /\ get_real_hashes(ino) = real_hashes[ino]
<1>1. IsFileHash(FileHash(NoHash, NoHash)) /\ FileHash(NoHash, NoHash).meta = NoHash
  BY FileHashFields
<1>2. CASE ino \in DOMAIN real_hashes
  BY <1>2 DEF get_real_hashes, CopyInv, HashesInv
<1>3. CASE ino \notin DOMAIN real_hashes
  BY <1>1, <1>3 DEF get_real_hashes, is_hash_fake
<1> QED BY <1>2, <1>3

LEMMA CloseKeeps ==
    ASSUME IInv, NEW fd, NEW content, NEW reported, close(fd, content, reported, TRUE)
    PROVE  IInv' /\ Frozen
<1> CopyInv
  BY DEF IInv
<1>1. CASE Raise("KeyError")
  BY <1>1, RaiseKeeps DEF EXCEPTIONS
<1>0. PICK ino, known, meta, c, m :
        /\ ino = fd2ino[fd] /\ known = get_real_hashes(ino)
        /\ meta = MetaHash(reported, attr[table[fd]].uid, attr[table[fd]].mode)
        /\ c = IF content # NoHash THEN content ELSE known.content
        /\ m = IF meta # NoHash THEN meta ELSE known.meta
  OBVIOUS
<1>2. CASE /\ phase = "trace" /\ fd \in DOMAIN table /\ fd \in DOMAIN fd2ino
           /\ Send(FdEvent("close", fd, TRUE)) /\ DropFds({fd}) /\ Acted(KFd(fd))
           /\ do_close(fd, FileHash(c, m))
           /\ UNCHANGED <<cwd, path2ino, mode>>
  <2>1. mode # "FIX"
    BY <1>2 DEF IInv, PhaseInv
  <2>2. PICK gone : gone = IF Referenced(ino, path2ino, fd2ino') THEN {} ELSE {ino}
    OBVIOUS
  <2>3. /\ fd2ino' = Without(fd2ino, {fd})
        /\ stats' = IF Referenced(ino, path2ino, fd2ino') THEN stats ELSE Without(stats, {ino})
        /\ do_set_real_hashes(ino, FileHash(c, m))
        /\ intergity_hashes' = intergity_hashes
    BY <1>0, <1>2, <2>1 DEF do_close
  <2>4. /\ DOMAIN fd2ino' = DOMAIN fd2ino \ {fd}
        /\ \A d \in DOMAIN fd2ino' : fd2ino'[d] = fd2ino[d]
        /\ \A i \in gone : ~Referenced(i, path2ino, fd2ino')
        /\ \A d \in DOMAIN table : d \in {fd} => d \in {fd}
    BY <2>2, <2>3 DEF Without
  <2>5. DOMAIN stats' = DOMAIN stats \ gone /\ \A i \in DOMAIN stats' : stats'[i] = stats[i]
    BY <2>2, <2>3 DEF Without
  <2>6. ino \in INODES
    BY <1>0, <1>2 DEF CopyInv, FdsInv
  <2>7. HashesTyped
    BY <2>3, <2>6, StoredTyped
  <2>8. is_hash_fake(m) => ino \in DOMAIN real_hashes /\ m = real_hashes[ino].meta
    <3>1. ~is_hash_fake(meta)
      BY <1>0 DEF MetaHash, is_hash_fake
    <3> QED BY <1>0, <3>1, KnownHashes
  <2>9. ASSUME NEW i \in DOMAIN real_hashes', is_hash_fake(real_hashes'[i].meta)
        PROVE  i \in DOMAIN real_hashes /\ real_hashes[i].meta = real_hashes'[i].meta
    <3>1. real_hashes' = With(real_hashes, ino, FileHash(c, m))
      BY <2>3 DEF do_set_real_hashes
    <3>2. CASE i = ino
      <4>1. real_hashes'[i].meta = m
        BY <3>1, <3>2, FileHashFields DEF With
      <4> QED BY <2>8, <2>9, <3>2, <4>1
    <3>3. CASE i # ino
      BY <3>1, <3>3 DEF With
    <3> QED BY <3>2, <3>3
  <2>10. CopyInv'
    BY <1>2, <2>4, <2>5, <2>7, <2>9, DroppedKeeps
  <2>11. Meets(FdEvent("close", fd, TRUE), KFd(fd)) /\ Frozen
    BY <1>2, <2>3, FdEventMeets DEF Creating, Frozen
  <2> QED BY <1>2, <2>10, <2>11, SentKeeps
<1> QED BY <1>0, <1>1, <1>2 DEF close, FdCall, Tracing, Failed

LEMMA ExitKeeps ==
    ASSUME IInv, exit
    PROVE  IInv' /\ Frozen
<1> CopyInv
  BY DEF IInv
<1>1. /\ DropFds(DOMAIN table) /\ do_exit /\ phase = "trace"
      /\ phase' = "end" /\ sent' = NoEvent /\ UNCHANGED <<raised, cwd, path2ino, mode>>
  BY DEF exit, Tracing
<1>2. mode # "FIX"
  BY <1>1 DEF IInv, PhaseInv
<1>0. PICK gone, closed : gone = Range(fd2ino) \ Range(path2ino) /\ closed = DOMAIN fd2ino
  OBVIOUS
<1>3. /\ fd2ino' = Without(fd2ino, closed)
      /\ stats' = Without(stats, gone)
      /\ real_hashes' = [i \in DOMAIN real_hashes \cup Range(fd2ino) |-> get_real_hashes(i)]
      /\ intergity_hashes' = intergity_hashes
  BY <1>0, <1>1, <1>2 DEF do_exit
<1>4. /\ DOMAIN fd2ino' = DOMAIN fd2ino \ closed /\ DOMAIN fd2ino' = {}
      /\ \A fd \in DOMAIN fd2ino' : fd2ino'[fd] = fd2ino[fd]
      /\ DOMAIN stats' = DOMAIN stats \ gone /\ \A i \in DOMAIN stats' : stats'[i] = stats[i]
  BY <1>0, <1>3 DEF Without
<1>5. \A i \in gone : ~Referenced(i, path2ino, fd2ino')
  BY <1>0, <1>4 DEF Referenced, Range
<1>6. Range(fd2ino) \subseteq INODES
  BY DEF CopyInv, FdsInv, Range
<1>7. HashesTyped
  BY <1>3, <1>6, KnownHashes DEF HashesTyped, CopyInv, HashesInv
<1>8. \A i \in DOMAIN real_hashes' : is_hash_fake(real_hashes'[i].meta) =>
        i \in DOMAIN real_hashes /\ real_hashes[i].meta = real_hashes'[i].meta
  BY <1>3, KnownHashes
<1>9. \A fd \in DOMAIN table : fd \in closed => fd \in DOMAIN table
  OBVIOUS
<1>10. CopyInv'
  BY <1>1, <1>4, <1>5, <1>7, <1>8, <1>9, DroppedKeeps
<1>11. PhaseInv' /\ EventRight' /\ Frozen
  BY <1>1, <1>3, NoEventKeeps DEF IInv, PhaseInv, Frozen
<1> QED BY <1>10, <1>11 DEF IInv

LEMMA RemoveKeeps ==
    ASSUME IInv, NEW e, e.ok = TRUE, NEW p, KFinds(p), KnowsFile(p), Meets(e, KFile(p)),
           Remove(e, p)
    PROVE  IInv' /\ Frozen
<1>0. PICK path : path = normalize(p)
  OBVIOUS
<1>1. CASE Raise("KeyError")
  BY <1>1, RaiseKeeps DEF EXCEPTIONS
<1>2. CASE /\ Send(e) /\ RemoveName(KPath(p)) /\ Acted(KFile(p)) /\ do_remove(path)
           /\ UNCHANGED <<cwd, fd2ino, mode>>
  <2>1. KPath(p) = path /\ path \in DOMAIN path2ino
    BY <1>0, <1>2, FileMeets
  <2>2. RemoveName(path)
    BY <1>2, <2>1
  <2>3. CopyInv'
    BY <1>2, <2>1, <2>2, RemovedKeeps DEF IInv
  <2>4. Frozen
    BY <1>2 DEF do_remove, Without, Frozen
  <2> QED BY <1>2, <2>3, <2>4, SentKeeps
<1> QED BY <1>0, <1>1, <1>2 DEF Remove, Failed

LEMMA UnlinkKeeps ==
    ASSUME IInv, NEW p, unlink(p, TRUE) \/ rmdir(p, TRUE)
    PROVE  IInv' /\ Frozen
<1>1. CASE Raise("KeyError")
  BY <1>1, RaiseKeeps DEF EXCEPTIONS
<1>2. CASE KFinds(p) /\ KnowsFile(p) /\ unlink(p, TRUE) /\ ~Raise("KeyError")
  <2> DEFINE e == [PathEvent("unlink", p, TRUE) EXCEPT !.last = (stats[FileOf(p)].nlink = 1)]
  <2>1. Remove(e, p)
    BY <1>2 DEF unlink
  <2>2. /\ e.ok = TRUE /\ e.event = PathEvent("unlink", p, TRUE).event
        /\ e.parent = PathEvent("unlink", p, TRUE).parent
        /\ e.file = PathEvent("unlink", p, TRUE).file
    BY DEF PathEvent, Event
  <2>3. Meets(PathEvent("unlink", p, TRUE), KFile(p))
    BY <1>2, PathEventMeets DEF Creating
  <2> HIDE DEF e
  <2>4. Meets(e, KFile(p))
    BY <2>2, <2>3 DEF Meets
  <2> QED BY <1>2, <2>1, <2>2, <2>4, RemoveKeeps
<1>3. CASE KFinds(p) /\ KnowsFile(p) /\ rmdir(p, TRUE) /\ ~Raise("KeyError")
  <2>1. Remove(PathEvent("rmdir", p, TRUE), p)
    BY <1>3 DEF rmdir
  <2>2. PathEvent("rmdir", p, TRUE).ok = TRUE
    BY DEF PathEvent, Event
  <2>3. Meets(PathEvent("rmdir", p, TRUE), KFile(p))
    BY <1>3, PathEventMeets DEF Creating
  <2> QED BY <1>3, <2>1, <2>2, <2>3, RemoveKeeps
<1> QED BY <1>1, <1>2, <1>3 DEF unlink, rmdir

-----------------------------------------------------------------------------
(* The results.                                                            *)

LEMMA SucceedsKeeps ==
    ASSUME IInv, Succeeds
    PROVE  IInv' /\ Frozen
<1>1. CASE \E p \in PATHNAMES, ino \in INODES, uid \in OWNERS, perms \in MODES :
             \/ \E fd \in FD_NUMBERS :
                  open(p, fd, ino, uid, perms, TRUE) \/ creat(p, fd, ino, uid, perms, TRUE)
             \/ mkdir(p, ino, uid, perms, TRUE)
  BY <1>1, OpenKeeps, CreatKeeps, MkdirKeeps
<1>2. CASE \E dfd \in FD_NUMBERS \cup {AT_FDCWD}, rel \in PATHS \ {<<>>}, fd \in FD_NUMBERS,
              ino \in INODES, uid \in OWNERS, perms \in MODES :
             openat(dfd, rel, fd, ino, uid, perms, TRUE)
  BY <1>2, OpenatKeeps
<1>3. ASSUME NEW p \in PATHNAMES,
             \/ \E perms \in MODES, reported \in REPORTS : chmod(p, perms, reported, TRUE)
             \/ \E owner \in OWNER_ARGS, reported \in REPORTS : chown(p, owner, reported, TRUE)
             \/ \E event \in {"getxattr", "setxattr"} : xattr(p, event, TRUE)
             \/ chdir(p, TRUE) \/ unlink(p, TRUE) \/ rmdir(p, TRUE)
             \/ \E cloexec \in CLOEXEC : execve(p, cloexec, TRUE)
             \/ \E q \in PATHNAMES : link(p, q, TRUE) \/ \E ino \in INODES : symlink(q, p, ino, TRUE)
      PROVE  IInv' /\ Frozen
  <2>1. CASE \/ \E perms \in MODES, reported \in REPORTS : chmod(p, perms, reported, TRUE)
             \/ \E owner \in OWNER_ARGS, reported \in REPORTS : chown(p, owner, reported, TRUE)
    BY <2>1, PathAttrKeeps
  <2>2. CASE \E event \in {"getxattr", "setxattr"} : xattr(p, event, TRUE)
    BY <2>2, XattrKeeps
  <2>3. CASE chdir(p, TRUE) \/ unlink(p, TRUE) \/ rmdir(p, TRUE)
    BY <2>3, ChdirCallKeeps, UnlinkKeeps
  <2>4. CASE \E cloexec \in CLOEXEC : execve(p, cloexec, TRUE)
    BY <2>4, ExecveKeeps
  <2>5. CASE \E q \in PATHNAMES : link(p, q, TRUE) \/ \E ino \in INODES : symlink(q, p, ino, TRUE)
    BY <2>5, LinkKeeps, MadeSymlink
  <2> QED BY <1>3, <2>1, <2>2, <2>3, <2>4, <2>5
<1>4. CASE \E fd \in FD_NUMBERS, reported \in REPORTS :
             \/ \E perms \in MODES : fchmod(fd, perms, reported, TRUE)
             \/ \E owner \in OWNER_ARGS : fchown(fd, owner, reported, TRUE)
             \/ \E content \in CONTENTS \cup {NoHash} : close(fd, content, reported, TRUE)
             \/ fchdir(fd, TRUE)
  BY <1>4, FdAttrKeeps, CloseKeeps, FchdirKeeps
<1> QED BY <1>1, <1>2, <1>3, <1>4, ExitKeeps DEF Succeeds

LEMMA InitIInv == Init => IInv
<1> SUFFICES ASSUME Init PROVE IInv
  OBVIOUS
<1>1. /\ names = [path \in {<<>>} |-> ROOT_INO] /\ table = [fd \in {} |-> ROOT_INO]
      /\ wd = ROOT_INO
      /\ attr = [ino \in {ROOT_INO} |-> [kind |-> "folder", uid |-> AnyOwner, mode |-> "plain"]]
      /\ path2ino = [path \in {<<>>} |-> ROOT_INO] /\ fd2ino = [fd \in {} |-> ROOT_INO]
      /\ cwd = Unset /\ sent = NoEvent
      /\ stats = [ino \in {} |-> NoIno] /\ real_hashes = [ino \in {} |-> NoIno]
      /\ intergity_hashes = [ino \in {} |-> NoIno]
  BY DEF Init, KernelInit, AnyOwner
<1>2. <<>> \in PATHS
  <2>1. 0 \in 0..MAX_DEPTH
    BY KernelAssumption
  <2>2. <<>> \in [1..0 -> NAMES]
    OBVIOUS
  <2> QED BY <2>1, <2>2 DEF PATHS
<1>3. [kind |-> "folder", uid |-> AnyOwner, mode |-> "plain"] \in ATTR
  BY KernelAssumption DEF ATTR, UIDS
<1>4. KernelType
  BY <1>1, <1>2, <1>3, FS_Singleton, KernelAssumption DEF KernelType
<1>5. FoldersInv /\ PathsInv /\ FdsInv /\ CwdInv /\ StatsInv /\ HashesInv
  BY <1>1 DEF FoldersInv, PathsInv, FdsInv, CwdInv, StatsInv, HashesInv, IsFolder
<1>6. StatsAgree
  BY <1>1 DEF StatsAgree, Range
<1>7. FakeHashFollows
  BY <1>1 DEF FakeHashFollows
<1>8. PhaseInv
  BY DEF Init, PhaseInv
<1>9. EventRight
  <2>1. ~NoEvent.ok
    BY DEF NoEvent, Event
  <2> QED BY <1>1, <2>1 DEF EventRight
<1> QED BY <1>4, <1>5, <1>6, <1>7, <1>8, <1>9 DEF IInv, CopyInv

LEMMA NextIInv ==
    ASSUME IInv, [Next]_vars
    PROVE  IInv' /\ (phase = "trace" => Frozen)
<1>1. CASE Next
  BY <1>1, SetupKeeps, SucceedsKeeps, FailsKeeps DEF Next
<1>2. CASE UNCHANGED vars
  <2>1. UNCHANGED <<kernelVars, cwd, path2ino, fd2ino, stats, real_hashes, intergity_hashes, mode,
                    phase, raised, sent, actual>>
    BY <1>2 DEF vars, stateVars
  <2>2. CopyInv'
    BY <2>1, QuietKeeps DEF IInv
  <2>3. PhaseInv' /\ EventRight' /\ Frozen
    BY <2>1 DEF IInv, PhaseInv, EventRight, Frozen
  <2> QED BY <2>2, <2>3 DEF IInv
<1> QED BY <1>1, <1>2

\* The inductive invariant holds in every reachable state.
THEOREM MediatorIInv == Spec => []IInv
<1>1. Init => IInv
  BY InitIInv
<1>2. IInv /\ [Next]_vars => IInv'
  BY NextIInv
<1> QED BY <1>1, <1>2, PTL DEF Spec

\* The dictionaries of MediatorState keep their types.
THEOREM MediatorTypeCorrect == Spec => []MediatorTypeOK
<1>1. IInv => MediatorTypeOK
  <2> SUFFICES ASSUME IInv PROVE MediatorTypeOK
    OBVIOUS
  <2>1. /\ DOMAIN path2ino \subseteq PATHS /\ Range(path2ino) \subseteq INODES
        /\ DOMAIN fd2ino \subseteq FD_NUMBERS /\ Range(fd2ino) \subseteq INODES
    BY DEF IInv, CopyInv, KernelType, PathsInv, FdsInv, Range
  <2>2. \A ino \in DOMAIN stats : stats[ino] \in STAT
    BY DEF IInv, CopyInv, StatsInv
  <2> QED BY <2>1, <2>2 DEF MediatorTypeOK, STAT, IInv, CopyInv, CwdInv, StatsInv, HashesInv,
                            PhaseInv
<1> QED BY <1>1, MediatorIInv, PTL

\* path2ino is the directory tree of the kernel without its symbolic links,
\* for trees of any depth and any sequence of calls.
THEOREM NamesFollow == Spec => []NamesAgree
<1>1. IInv => NamesAgree
  BY DEF IInv, CopyInv, PathsInv, NamesAgree, do_exists
<1> QED BY <1>1, MediatorIInv, PTL

\* fd2ino knows every open descriptor under its inode, although the handler
\* of execve closes none.
THEOREM FdsFollow == Spec => []FdsAgree
<1>1. IInv => FdsAgree
  BY DEF IInv, CopyInv, FdsInv, FdsAgree
<1> QED BY <1>1, MediatorIInv, PTL

\* The path do_getcwd returns leads to the working directory.
THEOREM CwdFollows == Spec => []CwdAgrees
<1>1. IInv => CwdAgrees
  <2> SUFFICES ASSUME IInv, cwd # Unset, Named(wd) PROVE do_exists(cwd) /\ path2ino[cwd] = wd
    BY DEF CwdAgrees
  <2>1. cwd \in DOMAIN names /\ names[cwd] = wd
    BY DEF IInv, CopyInv, CwdInv
  <2>2. attr[wd].kind # "symlink"
    BY DEF IInv, CopyInv, FoldersInv, IsFolder
  <2> QED BY <2>1, <2>2 DEF IInv, CopyInv, PathsInv, do_exists
<1> QED BY <1>1, MediatorIInv, PTL

\* do_stat knows the mode and the owner, or -1, of every file the process can
\* reach.
THEOREM StatsFollow == Spec => []StatsAgree
<1>1. IInv => StatsAgree
  BY DEF IInv, CopyInv
<1> QED BY <1>1, MediatorIInv, PTL

\* A stat with one link is that of a file with at most one name, so unlink
\* declares a file gone only with its last name.
THEOREM LastLinkSound == Spec => []LastLinkNoticed
<1>1. IInv => LastLinkNoticed
  BY DEF IInv, CopyInv, StatsInv, LastLinkNoticed
<1> QED BY <1>1, MediatorIInv, PTL

\* A pseudo-hash is that of the actual mode of its file and of its actual
\* owner, or of -1 while the stat of the file holds the -1 of a chown, in
\* whatever order chmod and chown come.
THEOREM FakeHashesFollow == Spec => []FakeHashFollows
<1>1. IInv => FakeHashFollows
  BY DEF IInv, CopyInv
<1> QED BY <1>1, MediatorIInv, PTL

\* Each event that the handlers add for a call that succeeded names the
\* directory and the inode the kernel acted on, and creates a file exactly if
\* the call did, the event of creat excepted, which always creates one.
THEOREM EventsFollow == Spec => EventsActual
<1>1. IInv /\ [Next]_vars => [EventRight']_vars
  BY NextIInv DEF IInv
<1>2. [][EventRight']_vars <=> EventsActual
  BY DEF EventsActual
<1> QED BY <1>1, <1>2, MediatorIInv, PTL DEF Spec

\* No handler adds or replaces a stored integrity hash during the trace:
\* the mode has left FIX by then.
THEOREM IntegrityStays == Spec => IntegrityFrozen
<1>1. IInv /\ [Next]_vars => [phase = "trace" => Frozen]_vars
  BY NextIInv
<1>2. [][phase = "trace" => Frozen]_vars <=> IntegrityFrozen
  BY DEF IntegrityFrozen, Frozen
<1> QED BY <1>1, <1>2, MediatorIInv, PTL DEF Spec
=============================================================================
