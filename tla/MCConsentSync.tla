---------------------------- MODULE MCConsentSync ----------------------------
(* ConsentSync for TLC: the tabs are interchangeable. *)
EXTENDS ConsentSync, TLC

TabSymmetry == Permutations(Tabs)
=============================================================================
