----------------------------- MODULE MCWatchdog -----------------------------
(* Small instances of Watchdog for TLC.                                    *)
EXTENDS Watchdog, TLC

CONSTANTS hd, full30, full60, small, big

\* Two resolutions, each in a mode the link carries, or one of them not.
TwoThatFit == hd :> small @@ full30 :> big
OneTooHigh == hd :> small @@ full60 :> big

\* Two seconds back, and far ahead.
ClockSettings == {-2, 8}
=============================================================================
