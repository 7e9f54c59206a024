------------------------------ MODULE Watchdog ------------------------------
(***************************************************************************)
(* The capture watchdog (packaging/q6a-kvm-watchdog.sh) over the video     *)
(* path of Capture: every POLL seconds it reads the live timings, the      *)
(* pixel clock, the capture format and the frame rate, one command after   *)
(* the other, and restarts the streamer when they disagree, no more often  *)
(* than MIN_INTERVAL allows and not for a mode the link cannot carry.      *)
(*                                                                         *)
(* Left out: the log and the variable unsup, which only keeps the log      *)
(* quiet; the death of the watchdog itself.                                *)
(***************************************************************************)
EXTENDS Capture

CONSTANTS
    Poll,         \* POLL: 2
    StallTicks,   \* STALL_TICKS: 3
    MinInterval,  \* MIN_INTERVAL: 8
    KickSleep,    \* 6: seconds rekick sleeps after the restart
    Settings,     \* what since may become when the clock is set: back at the
                  \* start (negative), forward at any time
    NoSize        \* bridge_timings printed nothing

\* The watchdog looks more often than it may restart.
ASSUME WatchdogAssumption ==
    /\ Poll \in Nat \ {0} /\ StallTicks \in Nat \ {0}
    /\ MinInterval \in Nat \ {0} /\ KickSleep \in Nat \ {0}
    /\ Poll <= MinInterval
    /\ Settings \subseteq Int /\ \A s \in Settings : s <= MinInterval
    /\ NoSize \notin Sizes

VARIABLES
    dog,     \* where the loop is: "sleep", "clock", "compare" or "kicked"
    nap,     \* seconds it still sleeps
    have,    \* a signal was there at the last look
    stall,   \* looks in a row without frames (counted up to StallTicks)
    seen,    \* t: the resolution of the live source as it was read
    since,   \* seconds since last by the clock (counted up to MinInterval)
    ahead,   \* history: it was set forward since last was noted
    gap      \* seconds since the watchdog last restarted the streamer, or
             \* since it started (counted up to MinInterval + KickSleep)

dogVars == <<dog, nap, have, stall, seen, since, ahead, gap>>
vars == <<captureVars, dogVars>>

TypeOK ==
    /\ CaptureTypeOK
    /\ dog \in {"sleep", "clock", "compare", "kicked"}
    /\ nap \in 0 .. Poll + KickSleep
    /\ have \in BOOLEAN
    /\ stall \in 0 .. StallTicks
    /\ seen \in Sizes \cup {NoSize}
    /\ since \in Int /\ since <= MinInterval
    /\ ahead \in BOOLEAN
    /\ gap \in 0 .. MinInterval + KickSleep

Init ==
    /\ CaptureInit
    /\ dog = "sleep"
    /\ nap = Poll
    /\ have = Signal
    /\ stall = 0
    /\ seen = NoSize
    /\ since \in {0} \cup {s \in Settings : s < 0}
    /\ ahead = FALSE
    /\ gap = MinInterval + KickSleep

Sleep == dog' = "sleep" /\ nap' = Poll

Awake(place) == dog = place /\ nap = 0

\* bridge_timings: no signal is waited for.
ReadTimings ==
    /\ Awake("sleep")
    /\ IF Signal
       THEN /\ seen' = SizeOf[want]
            /\ dog' = "clock"
            /\ UNCHANGED <<nap, have, stall>>
       ELSE /\ seen' = NoSize
            /\ have' = FALSE
            /\ stall' = 0
            /\ Sleep
    /\ UNCHANGED <<captureVars, since, ahead, gap>>

\* bridge_pclk: a mode over the budget is left alone.
TooHigh == Signal /\ want \notin Fits

\* systemctl restart: the script is stopped where it is and starts over.
Kick ==
    /\ script' = "edid" /\ wait' = 0
    /\ gst' = FALSE
    /\ muted' = (muted \/ gst)
    /\ UNCHANGED <<sourceVars, edid, dv, pipeVars, tries, faults>>
    /\ dog' = "kicked" /\ nap' = KickSleep
    /\ gap' = 0

\* Mutant: the interval between restarts is not looked at.
KickAlways == Kick

\* rekick if the last one is long enough ago.
KickIfDue ==
    IF since >= MinInterval THEN Kick ELSE Sleep /\ UNCHANGED <<captureVars, gap>>

\* Mutant: the pixel clock is not looked at.
JudgeSizeOnly ==
    /\ Awake("clock")
    /\ IF ~have
       THEN have' = TRUE /\ stall' = 0 /\ KickIfDue
       ELSE dog' = "compare" /\ UNCHANGED <<captureVars, nap, have, stall, gap>>
    /\ UNCHANGED <<seen, since, ahead>>

\* The pixel clock, then whether the signal has just come back.
Judge ==
    /\ Awake("clock")
    /\ IF TooHigh
       THEN have' = TRUE /\ stall' = 0 /\ Sleep /\ UNCHANGED <<captureVars, gap>>
       ELSE IF ~have
       THEN have' = TRUE /\ stall' = 0 /\ KickIfDue
       ELSE dog' = "compare" /\ UNCHANGED <<captureVars, nap, have, stall, gap>>
    /\ UNCHANGED <<seen, since, ahead>>

\* The capture format differs from the live source.
SizeChanged ==
    /\ cam # seen
    /\ stall' = 0
    /\ KickIfDue

\* ust_fps: nothing has come for StallTicks looks.
Stalled ==
    /\ cam = seen
    /\ ~Live
    /\ IF stall + 1 >= StallTicks /\ since >= MinInterval
       THEN Kick /\ stall' = 0
       ELSE /\ Sleep
            /\ stall' = IF stall < StallTicks THEN stall + 1 ELSE stall
            /\ UNCHANGED <<captureVars, gap>>

Fine ==
    /\ cam = seen
    /\ Live
    /\ stall' = 0
    /\ Sleep
    /\ UNCHANGED <<captureVars, gap>>

\* Mutant: a stall is not looked for.
CompareSizeOnly ==
    /\ Awake("compare")
    /\ \/ SizeChanged
       \/ cam = seen /\ stall' = 0 /\ Sleep /\ UNCHANGED <<captureVars, gap>>
    /\ UNCHANGED <<have, seen, since, ahead>>

Compare ==
    /\ Awake("compare")
    /\ SizeChanged \/ Stalled \/ Fine
    /\ UNCHANGED <<have, seen, since, ahead>>

\* last=$(date +%s) after rekick has slept.
Kicked ==
    /\ Awake("kicked")
    /\ since' = 0 /\ ahead' = FALSE
    /\ Sleep
    /\ UNCHANGED <<captureVars, have, stall, seen, gap>>

More(n, max) == IF n < max THEN n + 1 ELSE max

\* A second passes.
Tick ==
    /\ nap > 0
    /\ CaptureTick
    /\ nap' = nap - 1
    /\ since' = More(since, MinInterval)
    /\ gap' = More(gap, MinInterval + KickSleep)
    /\ UNCHANGED <<dog, have, stall, seen, ahead>>

\* The clock is set forward, as by NTP after boot.  It is read once for each
\* look, and after rekick has slept: what counts is how it stands just before.
SetClock(s) ==
    /\ Awake("sleep")
    /\ faults < MaxFaults
    /\ faults' = faults + 1
    /\ s > since
    /\ since' = s /\ ahead' = TRUE
    /\ UNCHANGED <<sourceVars, bridgeVars, pipeVars, script, wait, tries, gst,
                   dog, nap, have, stall, seen, gap>>

Dog == ReadTimings \/ Judge \/ Compare \/ Kicked

TargetStep == \E w \in Modes \cup {Asleep, Unplugged}, s \in {0, Retrain} :
                  TargetChanges(w, s)

Next ==
    \/ (TargetStep \/ Script \/ FeederDies \/ StreamerDies) /\ UNCHANGED dogVars
    \/ Dog
    \/ \E s \in Settings : SetClock(s)
    \/ Tick

Spec == Init /\ [][Next]_vars

\* Both scripts run on and time passes.  Nothing makes the target change, and
\* nothing makes a process die.
FairSpec == Spec /\ WF_vars(Script /\ UNCHANGED dogVars) /\ WF_vars(Dog) /\ WF_vars(Tick)

-----------------------------------------------------------------------------
\* The watchdog never restarts the streamer twice within MIN_INTERVAL plus the
\* sleep of rekick, whichever of its three triggers fire and however the
\* target flaps ("Debounced; min 8s between re-kicks", packaging/README.md).  A
\* clock that is set forward makes one interval shorter, down to a look.
NoThrash ==
    [][gap' = 0 => gap >= KickSleep + (IF ahead THEN Poll ELSE MinInterval)]_gap

\* A mode the link cannot carry is left alone: while the target keeps sending
\* it, restarts come to an end ("so a too-high source doesn't cause a restart
\* storm", q6a-kvm-watchdog.sh).
TooHighBacksOff ==
    \A m \in Modes \ Fits : <>[](want = m) => <>[](dog # "kicked")

\* The video follows the target: when it stays on a mode the link carries,
\* the stream shows it in the end and goes on showing it, whatever happened
\* before, in whatever order, whichever processes died and however the clock
\* was set (q6a-kvm-watchdog.sh, q6a-kvm-stream.sh, q6a-kvm-configure.sh).
VideoFollows == \A m \in Fits : <>[](want = m) => <>[]Live
=============================================================================
