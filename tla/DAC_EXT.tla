------------------------------ MODULE DAC_EXT ------------------------------
(***************************************************************************)
(* The machines that are run against Linux: DAC_EXT (src/src/DAC_EXT.bm),  *)
(* which adds to DAC the guards "from Linux implementation" on the flags   *)
(* of open, and ProtectedHardlinks (src/src/ProtectedHardlinks.bm), which  *)
(* adds to link what fs.protected_hardlinks asks.  An event of either has  *)
(* all guards and actions of the event it extends; the events not listed   *)
(* here are extended without a guard.                                      *)
(***************************************************************************)
EXTENDS DAC

grd_open_create_EXT(proc, parent, file, name, flags, fd, fdNumber) ==
    /\ "O_DIRECTORY" \notin flags
    /\ grd_CreateAndOpen(proc, parent, file, name, flags, fd, fdNumber, PathToRoot[parent])

open_create_EXT(proc, parent, file, name, flags, mode, fd, fdNumber) ==
    /\ grd_open_create_EXT(proc, parent, file, name, flags, fd, fdNumber)
    /\ open_create(proc, parent, file, name, flags, mode, fd, fdNumber)

openat_create_EXT(proc, dirfd, cwd, parent, file, name, flags, mode, fd, fdNumber) ==
    /\ "O_DIRECTORY" \notin flags
    /\ openat_create(proc, dirfd, cwd, parent, file, name, flags, mode, fd, fdNumber)

\* Seeded slip: the guard on directories looks at O_CREAT alone.
FlagsFit_EXT_Path(flags, file) ==
    "O_CREAT" \in flags => "O_DIRECTORY" \notin flags /\ file \notin Folders

\* grd21 and grd22 of open_exists, grd26 and grd27 of openat_exists.
FlagsFit_EXT(flags, file) ==
    "O_PATH" \notin flags /\ "O_CREAT" \in flags
      => "O_DIRECTORY" \notin flags /\ file \notin Folders

grd_open_exists_EXT(proc, parent, file, name, flags, fd, fdNumber) ==
    /\ FlagsFit_EXT(flags, file)
    /\ grd_OpenExisting(proc, parent, file, name, flags, fd, fdNumber, WithAncestors(parent))

open_exists_EXT(proc, parent, file, name, flags, fd, fdNumber) ==
    /\ grd_open_exists_EXT(proc, parent, file, name, flags, fd, fdNumber)
    /\ open_exists(proc, parent, file, name, flags, fd, fdNumber)

openat_exists_EXT(proc, dirfd, cwd, parent, file, name, flags, fd, fdNumber) ==
    /\ FlagsFit_EXT(flags, file)
    /\ openat_exists(proc, dirfd, cwd, parent, file, name, flags, fd, fdNumber)

\* creat extends DAC's open_create, not the one above.
grd_creat(proc, parent, file, name, flags, fd, fdNumber) ==
    /\ flags = {"O_CREAT", "O_WRONLY", "O_TRUNC"}
    /\ grd_CreateAndOpen(proc, parent, file, name, flags, fd, fdNumber, PathToRoot[parent])

creat(proc, parent, file, name, flags, mode, fd, fdNumber) ==
    /\ grd_creat(proc, parent, file, name, flags, fd, fdNumber)
    /\ open_create(proc, parent, file, name, flags, mode, fd, fdNumber)

\* Whoever links another user's file must be able to read and write it.
grd_link_Protected(proc, oldParent, newParent, file, oldName, newName) ==
    /\ ProcUser[proc] \notin {FileUser[file], ROOT_USER}
         => Grants(proc, file, {"r", "w"})
    /\ grd_link(proc, oldParent, newParent, file, oldName, newName)

link_Protected(proc, oldParent, newParent, file, oldName, newName) ==
    /\ grd_link_Protected(proc, oldParent, newParent, file, oldName, newName)
    /\ link(proc, oldParent, newParent, file, oldName, newName)
=============================================================================
