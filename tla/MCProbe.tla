------------------------------ MODULE MCProbe ------------------------------
(* Small instances of Probe for TLC: the clocks of probe_of and one it     *)
(* does not support; the board's link frequency, the faster one of the     *)
(* comments there, and both ends of the allowed range.                     *)
EXTENDS Probe

Clks == {25000000, 26000000, 27000000, 42000000}
Links == {31249999, 31250000, 297000000, 486000000, 500000000, 500000001}
=============================================================================
