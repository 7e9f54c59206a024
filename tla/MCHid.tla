------------------------------- MODULE MCHid -------------------------------
(* Small instances of Hid for TLC.                                         *)
EXTENDS Hid

CONSTANTS c1, c2, t1, a, left

\* A chord of more keys than two key slots hold.
LongChord == {<<[mods |-> {}, keys |-> <<a, a, a>>]>>}
=============================================================================
