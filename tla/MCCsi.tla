------------------------------- MODULE MCCsi -------------------------------
(* Small instances of Csi for TLC.                                         *)
EXTENDS Csi

\* The board's 594 Mbps, the 972 Mbps of the comments in probe_of, and the ends
\* of the allowed range.
Boards == {[refclk |-> 27000000, link |-> 297000000], [refclk |-> 27000000, link |-> 486000000],
           [refclk |-> 27000000, link |-> 500000000], [refclk |-> 42000000, link |-> 31250000]}

Mode(w, h, hb, vb, hz) ==
    [width |-> w, height |-> h, hblank |-> hb, vblank |-> vb, clock |-> hz]

\* 720p60 and 1080p60 (CEA), 1920x1200 with reduced blanking (DMT), and a mode
\* beyond the cap.
Modes == {Mode(1280, 720, 370, 30, 74250000), Mode(1920, 1080, 280, 45, 148500000),
          Mode(1920, 1200, 160, 35, 154000000), Mode(3840, 2160, 560, 90, 297000000)}
=============================================================================
