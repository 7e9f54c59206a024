------------------------------ MODULE MCStore ------------------------------
(* Small instances of Store for TLC.                                       *)
EXTENDS Store, TLC

CONSTANTS devices, macros, i1, i2

IdSymmetry == Permutations(Ids)
ListSymmetry == Permutations(Lists)
StoreSymmetry == IdSymmetry \cup ListSymmetry
=============================================================================
