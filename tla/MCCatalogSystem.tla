-------------------------- MODULE MCCatalogSystem --------------------------
(***************************************************************************)
(* Small instances of CatalogSystem for TLC.                               *)
(***************************************************************************)
EXTENDS CatalogSystem, TLC

PhotoSymmetry == Permutations(Photos) \cup Permutations(Tabs)
=============================================================================
