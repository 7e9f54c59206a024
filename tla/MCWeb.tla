------------------------------- MODULE MCWeb -------------------------------
(* Small instances of Web for TLC.                                         *)
EXTENDS Web

CONSTANTS c1, c2, t1, a

OnlyA == {<<[mods |-> {}, keys |-> <<a>>]>>}
=============================================================================
