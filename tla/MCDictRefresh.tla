--------------------------- MODULE MCDictRefresh ---------------------------
(* DictRefresh with interchangeable runs and items. *)
EXTENDS DictRefresh, TLC

MCSymmetry == Permutations(Runs) \cup Permutations(Items)
=============================================================================
