---------------------------- MODULE MC_Mediator ----------------------------
(***************************************************************************)
(* Instances of Mediator for TLC.                                          *)
(***************************************************************************)
EXTENDS Mediator, TLC

MC_None == {}

\* The last event and the call behind it are checked in the step that sets
\* them, and no step reads them; nothing happens after an exception.
View == IF raised = "none" THEN <<kernelVars, stateVars, phase>> ELSE <<raised>>

\* The states from which calls are made; the steps out of them, to a second
\* descriptor and more entries, are checked.  Paths and events do not depend
\* on the mode, in which one run has integrity off and the other does not.
OneFd == Cardinality(DOMAIN fd2ino) <= 1
FewPaths == mode = "OFF" /\ OneFd /\ Cardinality(DOMAIN names) + Cardinality(DOMAIN fd2ino) <= 4
FewLinks == mode # "OFF" /\ OneFd

\* No constant names a particular one of these.
Sym == Permutations(INODES \ {ROOT_INO}) \cup Permutations(NAMES)
         \cup Permutations(FD_NUMBERS)
=============================================================================
