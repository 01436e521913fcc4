----------------------------- MODULE MCIdentity -----------------------------
(* Identity for TLC: the tabs are interchangeable. *)
EXTENDS Identity, TLC

TabSymmetry == Permutations(Tabs)
=============================================================================
