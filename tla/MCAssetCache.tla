---------------------------- MODULE MCAssetCache ----------------------------
(***************************************************************************)
(* One asset of a site that is deployed in two builds, asked for by two     *)
(* processes.                                                              *)
(***************************************************************************)
EXTENDS AssetCache, TLC

CONSTANTS script, manifest, b1, b2, k1, k2, p1, p2

Symmetry == Permutations(Body) \cup Permutations(Key) \cup Permutations(Proc)
=============================================================================
