-------------------------- MODULE MCPermissionSite --------------------------
(* A small instance of PermissionSite: calls nest, repeat and recurse.     *)
EXTENDS PermissionSite, TLC

Symmetry == Permutations(Frame)
=============================================================================
