-------------------------- MODULE MCManifestSnapshot --------------------------
(***************************************************************************)
(* An instance of ManifestSnapshot for TLC.                                *)
(***************************************************************************)
EXTENDS ManifestSnapshot, TLC

Symmetry == Permutations(Good) \cup Permutations(Inodes)
==============================================================================
