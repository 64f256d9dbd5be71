--------------------------- MODULE MCRestoreFiles ---------------------------
(* RestoreFiles with interchangeable contents. *)
EXTENDS RestoreFiles, TLC

Symmetry == Permutations(Version)
=============================================================================
