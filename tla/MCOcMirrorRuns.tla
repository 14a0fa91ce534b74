--------------------------- MODULE MCOcMirrorRuns ---------------------------
(* Small instances of OcMirrorRuns for TLC. *)
EXTENDS OcMirrorRuns, TLC

\* Ids are interchangeable: createJob hands out a random one (safety runs only).
JobSymmetry == Permutations(Jobs)
=============================================================================
