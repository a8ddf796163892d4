------------------------------ MODULE MC_IMA ------------------------------
(***************************************************************************)
(* Instances of IMA for TLC.                                               *)
(***************************************************************************)
EXTENDS IMA, TLC

MC_None == {}
MC_OneMode == {DEF_FOLDER_PERMS}
MC_Targets == {<<ROOT, INIT_NAME>>}
MC_Flags == {{"O_RDONLY"}, {"O_WRONLY", "O_CREAT"}}

\* The space that is explored: one inode besides ROOT at a time, INIT_EXE for
\* a file or a third one for a directory.  The steps to a symbolic link, which
\* is hashed as a new file is, and to another working directory are checked
\* and not followed further.
Small ==
    /\ Cardinality(Files) <= 2
    /\ \A e \in FileParents : e[1] = INIT_EXE \/ (e[1] \in Folders /\ e[3] = INIT_NAME)
    /\ SymLinks = {}
    /\ \A p \in Procs : ProcCwd[p] = ROOT
===========================================================================
