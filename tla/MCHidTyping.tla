---------------------------- MODULE MCHidTyping ----------------------------
(* Small instances of HidTyping for TLC.                                   *)
EXTENDS HidTyping

CONSTANTS c1, t1, t2, shift, a, b, left

Letter(k) == [mods |-> {}, keys |-> <<k>>]
Capital(k) == [mods |-> {shift}, keys |-> <<k>>]

\* "aAb" has a letter twice in a row; "a" is a paste of its own.
Texts == {<<Letter(a), Capital(a), Letter(b)>>, <<Letter(a)>>}
=============================================================================
