---------------------------- MODULE MCArchiveSets ----------------------------
(* Small instances of ArchiveSets for TLC. *)
EXTENDS ArchiveSets, TLC

\* createJob hands out random ids.
RunSymmetry == Permutations(Runs)
=============================================================================
