------------------------------ MODULE MCBridge ------------------------------
(* Small instances of Bridge for TLC.                                      *)
EXTENDS Bridge, TLC

CONSTANTS p720, p1080, fast

\* 1080p25 and 720p50 have one pixel clock.
Clocks == p720 :> fast @@ p1080 :> fast
=============================================================================
