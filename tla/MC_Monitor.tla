----------------------------- MODULE MC_Monitor -----------------------------
(* Instances of Monitor for TLC: see the MC_Monitor_*.cfg files.           *)
EXTENDS Monitor, TLC

\* No constant names a particular file.
Symmetry == Permutations(FILES)
=============================================================================
