--------------------------- MODULE WatchdogProofs ---------------------------
(***************************************************************************)
(* Theorems about Watchdog, for every set of modes, every delay of the     *)
(* scripts and of the target, and every setting of the clock.              *)
(***************************************************************************)
EXTENDS Watchdog, TLAPS

\* Seconds since the last restart, against what is left of the sleep that
\* follows it, of the one between two looks, and against the clock, unless it
\* was set forward.
GapInv ==
    /\ dog \in {"clock", "compare"} => nap = 0
    /\ dog = "kicked" => gap + nap >= KickSleep
    /\ dog # "kicked" => /\ gap + nap >= KickSleep + Poll
                         /\ ~ahead => gap >= KickSleep + since

WatchdogInv == TypeOK /\ GapInv

LEMMA Numbers ==
    /\ Retrain \in Nat /\ LockTries \in Nat /\ GstWait \in Nat /\ RestartSec \in Nat
    /\ MaxFaults \in Nat /\ Poll \in Nat /\ StallTicks \in Nat
    /\ MinInterval \in Nat /\ KickSleep \in Nat
    /\ Retrain > 0 /\ GstWait > 0 /\ StallTicks > 0 /\ MinInterval > 0 /\ KickSleep > 0
    /\ Poll <= MinInterval
BY CaptureAssumption, WatchdogAssumption

LEMMA InitInv == Init => WatchdogInv
<1> SUFFICES ASSUME Init PROVE WatchdogInv
  OBVIOUS
<1>1. CaptureTypeOK
  <2>1. Fits \subseteq Modes /\ BootMode \in Modes /\ BootSize \in Sizes
    BY CaptureAssumption
  <2>2. 0 \in 0 .. Retrain /\ 0 \in 0 .. GstWait + RestartSec /\ 0 \in 0 .. LockTries
        /\ 0 \in 0 .. MaxFaults
    BY Numbers
  <2>3. QED
    BY <2>1, <2>2 DEF Init, CaptureInit, CaptureTypeOK, ScriptPlaces
<1>2. since \in Int /\ since <= 0
  BY WatchdogAssumption DEF Init
<1>3. have \in BOOLEAN
  BY DEF Init, Signal, CaptureInit
<1>4. TypeOK
  <2>1. 0 \in 0 .. StallTicks /\ Poll \in 0 .. Poll + KickSleep
        /\ MinInterval + KickSleep \in 0 .. MinInterval + KickSleep
    BY Numbers
  <2>2. since <= MinInterval
    BY <1>2, Numbers
  <2>3. QED
    BY <1>1, <1>2, <1>3, <2>1, <2>2 DEF Init, TypeOK
<1>5. GapInv
  BY <1>2, Numbers DEF Init, GapInv
<1>6. QED
  BY <1>4, <1>5 DEF WatchdogInv

-----------------------------------------------------------------------------
(* Typing.                                                                 *)

\* The script sets the mute to what it was, up or down.
LEMMA ScriptTyped ==
    ASSUME CaptureTypeOK, Script
    PROVE  CaptureTypeOK'
<1> USE Numbers DEF CaptureTypeOK, ScriptPlaces, At, Go, sourceVars, bridgeVars, pipeVars
<1>1. CASE LoadEdid
  <2>1. /\ UNCHANGED <<want, dv, cam, routed, gst, faults>>
        /\ edid' = TRUE /\ script' = "lock" /\ wait' = 0 /\ tries' = 0
        /\ settle' \in {settle, Retrain}
        /\ muted' \in BOOLEAN
    BY <1>1 DEF LoadEdid
  <2>2. Retrain \in 0 .. Retrain /\ 0 \in 0 .. GstWait + RestartSec /\ 0 \in 0 .. LockTries
    OBVIOUS
  <2>3. QED
    BY <2>1, <2>2
<1>2. CASE AwaitLock
  BY <1>2 DEF AwaitLock
<1>3. CASE SetTimings
  BY <1>3 DEF SetTimings, Signal
<1>4. CASE SetFormat
  <2>1. dv # NoMode => SizeOf[dv] \in Sizes
    BY CaptureAssumption
  <2>2. QED
    BY <1>4, <2>1 DEF SetFormat
<1>5. CASE StartFeeder
  BY <1>5 DEF StartFeeder, Streamable
<1>6. CASE CheckFeeder \/ AutoRestart
  BY <1>6 DEF CheckFeeder, AutoRestart
<1>7. QED
  BY <1>1, <1>2, <1>3, <1>4, <1>5, <1>6 DEF Script

LEMMA SourceTyped ==
    ASSUME CaptureTypeOK, TargetStep \/ FeederDies \/ StreamerDies \/ CaptureTick
    PROVE  CaptureTypeOK'
<1> USE Numbers DEF CaptureTypeOK, ScriptPlaces, Go, sourceVars, bridgeVars, pipeVars, scriptVars
<1>1. CASE TargetStep
  BY <1>1 DEF TargetStep, TargetChanges
<1>2. CASE FeederDies
  <2>1. UNCHANGED <<want, settle, edid, dv, cam, routed, script, wait, tries>>
    BY <1>2 DEF FeederDies
  <2>2. gst' = FALSE /\ muted' = TRUE /\ faults' \in 0 .. MaxFaults
    BY <1>2 DEF FeederDies
  <2>3. QED
    BY <2>1, <2>2
<1>3. CASE StreamerDies
  <2>1. /\ UNCHANGED <<want, settle, edid, dv, cam, routed, tries>>
        /\ script' = "dead" /\ gst' = FALSE
    BY <1>3 DEF StreamerDies
  <2>4. wait' \in 0 .. GstWait + RestartSec /\ faults' \in 0 .. MaxFaults
    BY <1>3 DEF StreamerDies
  <2>2. muted' \in BOOLEAN
    BY <1>3 DEF StreamerDies
  <2>3. QED
    BY <2>1, <2>2, <2>4
<1>4. CASE CaptureTick
  <2>1. /\ UNCHANGED <<want, edid, dv, cam, routed, script, tries, gst, faults>>
        /\ settle' = Less(settle) /\ wait' = Less(wait)
    BY <1>4 DEF CaptureTick
  <2>2. muted' \in BOOLEAN
    BY <1>4 DEF CaptureTick
  <2>3. QED
    BY <2>1, <2>2 DEF Less
<1>5. QED
  BY <1>1, <1>2, <1>3, <1>4

\* A step of the watchdog restarts the script or leaves it alone.
LEMMA DogSteps ==
    ASSUME WatchdogInv, Dog
    PROVE  /\ Kick \/ UNCHANGED <<captureVars, gap>>
           /\ nap = 0
           /\ \/ Kick /\ since >= MinInterval /\ dog # "kicked" /\ UNCHANGED <<since, ahead>>
              \/ dog = "sleep" /\ dog' = "clock" /\ UNCHANGED <<nap, since, ahead>>
              \/ dog = "clock" /\ dog' = "compare" /\ UNCHANGED <<nap, since, ahead>>
              \/ dog # "kicked" /\ Sleep /\ UNCHANGED <<since, ahead>>
              \/ Kicked
<1> USE DEF Awake
<1>1. CASE ReadTimings
  BY <1>1 DEF ReadTimings
<1>2. CASE Judge
  BY <1>2 DEF Judge, KickIfDue
<1>3. CASE Compare
  BY <1>3 DEF Compare, SizeChanged, Stalled, Fine, KickIfDue
<1>4. CASE Kicked
  BY <1>4 DEF Kicked
<1>5. QED
  BY <1>1, <1>2, <1>3, <1>4 DEF Dog

LEMMA DogTyped ==
    ASSUME WatchdogInv, Dog
    PROVE  TypeOK'
<1>1. TypeOK
  BY DEF WatchdogInv
<1>2. CaptureTypeOK'
  <2>1. CASE Kick
    <3>1. muted' \in BOOLEAN
      BY <1>1, <2>1 DEF Kick, TypeOK, CaptureTypeOK
    <3>2. /\ UNCHANGED <<want, settle, edid, dv, cam, routed, tries, faults>>
          /\ script' = "edid" /\ wait' = 0 /\ gst' = FALSE
      BY <2>1 DEF Kick, sourceVars, pipeVars
    <3>3. 0 \in 0 .. GstWait + RestartSec
      BY Numbers
    <3>4. QED
      BY <1>1, <3>1, <3>2, <3>3 DEF TypeOK, CaptureTypeOK, ScriptPlaces
  <2>2. CASE UNCHANGED captureVars
    BY <1>1, <2>2 DEF TypeOK, CaptureTypeOK, captureVars, sourceVars, bridgeVars, pipeVars, scriptVars
  <2>3. QED
    BY <2>1, <2>2, DogSteps
<1>3. /\ dog' \in {"sleep", "clock", "compare", "kicked"}
      /\ ahead' \in BOOLEAN
      /\ nap' \in {nap, Poll, KickSleep} /\ since' \in {since, 0} /\ gap' \in {gap, 0}
  <2>1. ahead' \in BOOLEAN /\ gap' \in {gap, 0}
    BY <1>1, DogSteps DEF TypeOK, Kick, Kicked
  <2>2. QED
    BY <1>1, <2>1, DogSteps DEF TypeOK, Kick, Sleep, Kicked
<1>7. /\ nap' \in 0 .. Poll + KickSleep
      /\ since' \in Int /\ since' <= MinInterval
      /\ gap' \in 0 .. MinInterval + KickSleep
  BY <1>1, <1>3, Numbers DEF TypeOK
<1>4. seen' \in Sizes \cup {NoSize}
  <2>1. want \in Modes => SizeOf[want] \in Sizes
    BY CaptureAssumption
  <2>2. QED
    BY <1>1, <2>1 DEF TypeOK, Dog, ReadTimings, Judge, Compare, Kicked, Signal
<1>5. have' \in BOOLEAN /\ stall' \in 0 .. StallTicks
  <2>1. have' \in BOOLEAN
    BY <1>1 DEF TypeOK, Dog, ReadTimings, Judge, Compare, Kicked
  <2>2. stall' \in {0, stall} \/ (stall < StallTicks /\ stall' = stall + 1)
    BY DEF Dog, ReadTimings, Judge, Compare, Kicked, SizeChanged, Stalled, Fine
  <2>3. QED
    BY <1>1, <2>1, <2>2, Numbers DEF TypeOK
<1>6. QED
  BY <1>2, <1>3, <1>4, <1>5, <1>7 DEF TypeOK

LEMMA DogKeeps ==
    ASSUME WatchdogInv, Dog
    PROVE  WatchdogInv'
<1> SUFFICES GapInv'
  BY DogTyped DEF WatchdogInv
<1> DEFINE Quiet == UNCHANGED <<since, ahead, gap>>
<1>1. GapInv /\ nap = 0 /\ nap \in Int /\ gap \in Int /\ since \in Int
  BY DogSteps DEF WatchdogInv, TypeOK
<1>2. \/ Kick /\ UNCHANGED <<since, ahead>>
      \/ Kicked
      \/ dog # "kicked" /\ Quiet /\ ((dog' \in {"clock", "compare"} /\ nap' = nap) \/ Sleep)
  BY DogSteps, Zenon DEF Kick, captureVars
<1>3. CASE Kick
  BY <1>1, <1>3, Numbers DEF GapInv, Kick
<1>4. CASE Kicked
  BY <1>1, <1>4, Numbers DEF GapInv, Kicked, Awake, Sleep
<1>5. CASE dog # "kicked" /\ Quiet /\ ((dog' \in {"clock", "compare"} /\ nap' = nap) \/ Sleep)
  BY <1>1, <1>5, Numbers DEF GapInv, Sleep
<1>6. QED
  BY <1>2, <1>3, <1>4, <1>5

\* The script, the target and the processes move under the watchdog.
LEMMA ScriptKeeps ==
    ASSUME WatchdogInv, TargetStep \/ Script \/ FeederDies \/ StreamerDies, UNCHANGED dogVars
    PROVE  WatchdogInv'
<1>1. CaptureTypeOK'
  BY ScriptTyped, SourceTyped DEF WatchdogInv, TypeOK
<1>2. QED
  BY <1>1 DEF WatchdogInv, TypeOK, GapInv, dogVars

LEMMA TickKeeps ==
    ASSUME WatchdogInv, Tick
    PROVE  WatchdogInv'
<1>1. CaptureTypeOK'
  BY SourceTyped DEF WatchdogInv, TypeOK, Tick
<1>2. /\ nap > 0 /\ nap' = nap - 1
      /\ since' = More(since, MinInterval)
      /\ gap' = More(gap, MinInterval + KickSleep)
      /\ UNCHANGED <<dog, have, stall, seen, ahead>>
  BY DEF Tick
<1>3. TypeOK'
  BY <1>1, <1>2, Numbers DEF WatchdogInv, TypeOK, More
<1>4. GapInv'
  BY <1>2, Numbers DEF WatchdogInv, TypeOK, GapInv, More
<1>5. QED
  BY <1>3, <1>4 DEF WatchdogInv

LEMMA SetClockKeeps ==
    ASSUME WatchdogInv, NEW s \in Settings, SetClock(s)
    PROVE  WatchdogInv'
<1>1. CaptureTypeOK'
  BY Numbers DEF WatchdogInv, TypeOK, SetClock, CaptureTypeOK, sourceVars, bridgeVars, pipeVars
<1>2. s \in Int /\ s <= MinInterval
  BY WatchdogAssumption
<1>3. QED
  BY <1>1, <1>2 DEF WatchdogInv, TypeOK, GapInv, SetClock, Awake

LEMMA NextInv == WatchdogInv /\ [Next]_vars => WatchdogInv'
<1>1. ASSUME WatchdogInv, UNCHANGED vars PROVE WatchdogInv'
  BY <1>1 DEF WatchdogInv, TypeOK, GapInv, CaptureTypeOK, vars, dogVars, captureVars,
              sourceVars, bridgeVars, pipeVars, scriptVars
<1>2. QED
  BY <1>1, DogKeeps, ScriptKeeps, TickKeeps, SetClockKeeps DEF Next

LEMMA InvHolds == Spec => []WatchdogInv
BY InitInv, NextInv, PTL DEF Spec

-----------------------------------------------------------------------------
(* Theorems.                                                               *)

\* Every reachable state of the video path and of the watchdog is typed.
THEOREM WatchdogTyped == Spec => []TypeOK
<1>1. WatchdogInv => TypeOK
  BY DEF WatchdogInv
<1>2. QED
  BY <1>1, InvHolds, PTL

\* Whichever trigger fires and however the target flaps, MIN_INTERVAL and the
\* sleep of rekick are between two restarts, or what a clock that was set
\* forward leaves of them: a look and that sleep (rekick).
THEOREM RestartsAreSpaced == Spec => NoThrash
<1>1. ASSUME WatchdogInv, [Next]_vars
      PROVE  [gap' = 0 => gap >= KickSleep + (IF ahead THEN Poll ELSE MinInterval)]_gap
  <2> SUFFICES ASSUME gap' # gap, gap' = 0
               PROVE  gap >= KickSleep + (IF ahead THEN Poll ELSE MinInterval)
    OBVIOUS
  <2>1. ~Tick
    BY <1>1, Numbers DEF Tick, More, WatchdogInv, TypeOK
  <2>2. Dog
    BY <1>1, <2>1 DEF Next, SetClock, vars, dogVars
  <2>3. Kick /\ since >= MinInterval /\ dog # "kicked" /\ nap = 0
    BY <1>1, <2>2, DogSteps DEF Kicked, captureVars, Sleep, Kick
  <2>4. QED
    BY <1>1, <2>3, Numbers DEF WatchdogInv, TypeOK, GapInv
<1>2. QED
  BY <1>1, InvHolds, PTL DEF Spec, NoThrash
=============================================================================
