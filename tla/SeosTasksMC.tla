---------------------------- MODULE SeosTasksMC ----------------------------
(* Small instances of SeosTasks: see the .cfg files for the sizes.          *)
EXTENDS SeosTasks, TLC

Symmetry == Permutations(Apps)
=============================================================================
