------------------------------ MODULE Capture ------------------------------
(***************************************************************************)
(* The video path of rad-kvm: the target's HDMI output, the bridge that    *)
(* captures it, and the script that configures and feeds the stream        *)
(* (packaging/q6a-kvm-stream.sh, which runs q6a-kvm-configure.sh first)    *)
(* under systemd's Restart=always.                                         *)
(*                                                                         *)
(* Time is counted in seconds.  A command takes no time, a sleep takes     *)
(* its seconds, and Tick lets a second pass when every script sleeps.      *)
(*                                                                         *)
(* External: the target, which drops its signal and takes Retrain seconds  *)
(* to bring it back whenever it sees the bridge's hot-plug line go down    *)
(* and up again; the camera receiver, which accepts a stream only when its *)
(* format agrees with the bridge's.  The bridge's driver is modelled by    *)
(* what it does to the stream (tc358743.c); Bridge has its concurrency.    *)
(***************************************************************************)
EXTENDS Integers

CONSTANTS
    Modes,      \* video modes the target may put out
    Fits,       \* those whose pixel clock the two CSI lanes carry
    Sizes,      \* resolutions
    SizeOf,     \* the resolution of each mode
    BootMode,   \* the timings the driver's probe sets
    BootSize,   \* the capture node's format after boot
    Asleep,     \* the target is plugged in and sends nothing
    Unplugged,  \* no 5 V on the cable
    NoMode,     \* all-zero timings
    Retrain,    \* seconds until a target sends again after a hot-plug pulse
    LockTries,  \* 8: seconds configure waits for a lock
    GstWait,    \* 2: seconds until the feeder is looked at
    RestartSec, \* 5: systemd's delay before it starts the script again
    MaxFaults   \* most deaths of processes and settings of the clock (bound)

ASSUME CaptureAssumption ==
    /\ Fits \subseteq Modes /\ BootMode \in Modes
    /\ SizeOf \in [Modes -> Sizes] /\ BootSize \in Sizes
    /\ NoMode \notin Modes /\ {Asleep, Unplugged} \cap Modes = {}
    /\ Asleep # Unplugged
    /\ Retrain \in Nat \ {0} /\ LockTries \in Nat \ {0}
    /\ GstWait \in Nat \ {0} /\ RestartSec \in Nat \ {0}
    /\ MaxFaults \in Nat

VARIABLES
    want,     \* what the target would send
    settle,   \* seconds until it sends it
    edid,     \* the bridge holds an EDID and raises hot-plug
    dv,       \* the bridge's timings (state->timings)
    muted,    \* the bridge's stream is disabled (VI_MUTE, CONFCTL)
    cam,      \* the capture node's resolution
    routed,   \* the media links have been set up
    script,   \* where q6a-kvm-stream is
    wait,     \* seconds it still sleeps
    tries,    \* failed looks for a lock
    gst,      \* the feeder runs
    faults    \* those so far

sourceVars == <<want, settle>>
bridgeVars == <<edid, dv, muted>>
pipeVars == <<cam, routed>>
scriptVars == <<script, wait, tries, gst, faults>>
captureVars == <<sourceVars, bridgeVars, pipeVars, scriptVars>>

ScriptPlaces == {"edid", "lock", "timings", "format", "feed", "check", "run", "dead"}

CaptureTypeOK ==
    /\ want \in Modes \cup {Asleep, Unplugged}
    /\ settle \in 0 .. Retrain
    /\ edid \in BOOLEAN
    /\ dv \in Modes \cup {NoMode}
    /\ muted \in BOOLEAN
    /\ cam \in Sizes
    /\ routed \in BOOLEAN
    /\ script \in ScriptPlaces
    /\ wait \in 0 .. GstWait + RestartSec
    /\ tries \in 0 .. LockTries
    /\ gst \in BOOLEAN
    /\ faults \in 0 .. MaxFaults

CaptureInit ==
    /\ want \in Modes \cup {Asleep, Unplugged}
    /\ settle = 0
    /\ edid = FALSE
    /\ dv = BootMode
    /\ muted = TRUE
    /\ cam = BootSize
    /\ routed = FALSE
    /\ script = "edid"
    /\ wait = 0
    /\ tries = 0
    /\ gst = FALSE
    /\ faults = 0

\* query_dv_timings succeeds: hot-plug is up and there is a stable signal.
Signal == edid /\ want \in Modes /\ settle = 0

\* Frames reach the capture node.
Frames ==
    /\ gst /\ ~muted
    /\ Signal /\ want \in Fits
    /\ dv = want /\ cam = SizeOf[dv]

\* ustreamer serves what the target shows.
Live == script = "run" /\ Frames

-----------------------------------------------------------------------------
(* The target.                                                             *)

\* It changes its mode, wakes, sleeps, is plugged in or out.  The bridge
\* mutes on anything but the mode it is set to; without 5 V it also forgets
\* its timings.
TargetChanges(w, s) ==
    /\ w # want
    /\ s # 0 => w \in Modes
    /\ want' = w
    /\ settle' = s
    /\ dv' = IF w = Unplugged THEN NoMode ELSE dv
    /\ muted' = (muted \/ s # 0 \/ w # dv)
    /\ UNCHANGED <<edid, pipeVars, scriptVars>>

-----------------------------------------------------------------------------
(* q6a-kvm-configure, as q6a-kvm-stream runs it.                           *)

At(p) == script = p /\ wait = 0
Go(p, seconds) == script' = p /\ wait' = seconds

\* s_edid lowers hot-plug and raises it again, whether the EDID is new or not.
LoadEdid ==
    /\ At("edid")
    /\ edid' = TRUE
    /\ IF want \in Modes THEN settle' = Retrain /\ muted' = TRUE
                         ELSE UNCHANGED <<settle, muted>>
    /\ Go("lock", 0)
    /\ tries' = 0
    /\ UNCHANGED <<want, dv, pipeVars, gst, faults>>

\* Mutant: one look too many.
AwaitLockLonger ==
    /\ At("lock")
    /\ IF tries > LockTries THEN Go("feed", 0) /\ tries' = tries
       ELSE IF Signal THEN Go("timings", 0) /\ tries' = tries
       ELSE Go("lock", 1) /\ tries' = tries + 1
    /\ UNCHANGED <<sourceVars, bridgeVars, pipeVars, gst, faults>>

\* One look a second; the script goes on to the stream even without a lock.
AwaitLock ==
    /\ At("lock")
    /\ IF tries = LockTries THEN Go("feed", 0) /\ tries' = tries
       ELSE IF Signal THEN Go("timings", 0) /\ tries' = tries
       ELSE Go("lock", 1) /\ tries' = tries + 1
    /\ UNCHANGED <<sourceVars, bridgeVars, pipeVars, gst, faults>>

\* --set-dv-bt-timings query: its failure is ignored.
SetTimings ==
    /\ At("timings")
    /\ IF Signal /\ want # dv THEN dv' = want /\ muted' = TRUE
                              ELSE UNCHANGED <<dv, muted>>
    /\ Go("format", 0)
    /\ UNCHANGED <<sourceVars, edid, pipeVars, tries, gst, faults>>

\* The width and height the bridge reports go to every pad and to the capture
\* node; a width of zero ends the script's attempt.
SetFormat ==
    /\ At("format")
    /\ IF dv = NoMode THEN UNCHANGED <<muted, pipeVars>>
       ELSE muted' = TRUE /\ cam' = SizeOf[dv] /\ routed' = TRUE
    /\ Go("feed", 0)
    /\ UNCHANGED <<sourceVars, edid, dv, tries, gst, faults>>

-----------------------------------------------------------------------------
(* q6a-kvm-stream.                                                         *)

\* The receiver's link validation: every pad has the bridge's resolution.
Streamable == routed /\ dv # NoMode /\ SizeOf[dv] = cam

\* The feeder starts the stream, which unmutes the bridge, or exits.
StartFeeder ==
    /\ At("feed")
    /\ gst' = Streamable
    /\ muted' = (muted /\ ~Streamable)
    /\ Go("check", GstWait)
    /\ UNCHANGED <<sourceVars, edid, dv, pipeVars, tries, faults>>

CheckFeeder ==
    /\ At("check")
    /\ IF gst THEN Go("run", 0) ELSE Go("dead", RestartSec)
    /\ UNCHANGED <<sourceVars, bridgeVars, pipeVars, tries, gst, faults>>

\* systemd starts a dead script again.
AutoRestart ==
    /\ At("dead")
    /\ Go("edid", 0)
    /\ UNCHANGED <<sourceVars, bridgeVars, pipeVars, tries, gst, faults>>

\* The feeder dies; ustreamer stays and serves a still picture.
FeederDies ==
    /\ gst
    /\ faults < MaxFaults
    /\ faults' = faults + 1
    /\ gst' = FALSE
    /\ muted' = TRUE
    /\ UNCHANGED <<sourceVars, edid, dv, pipeVars, script, wait, tries>>

\* ustreamer dies; the trap takes the feeder with it.
StreamerDies ==
    /\ script = "run"
    /\ faults < MaxFaults
    /\ faults' = faults + 1
    /\ gst' = FALSE
    /\ muted' = (muted \/ gst)
    /\ Go("dead", RestartSec)
    /\ UNCHANGED <<sourceVars, edid, dv, pipeVars, tries>>

Script == \/ LoadEdid \/ AwaitLock \/ SetTimings \/ SetFormat
          \/ StartFeeder \/ CheckFeeder \/ AutoRestart

\* The script has nothing to do this second.
ScriptSleeps == wait > 0 \/ script = "run"

Less(n) == IF n > 0 THEN n - 1 ELSE 0

\* A second of the target, the bridge and the script.  The bridge mutes when
\* the signal that comes back is not the one it is set to.
CaptureTick ==
    /\ ScriptSleeps
    /\ settle' = Less(settle)
    /\ wait' = Less(wait)
    /\ muted' = (muted \/ (edid /\ settle = 1 /\ want # dv))
    /\ UNCHANGED <<want, edid, dv, pipeVars, script, tries, gst, faults>>
=============================================================================
