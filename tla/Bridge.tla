------------------------------- MODULE Bridge -------------------------------
(***************************************************************************)
(* The driver of the HDMI to CSI bridge (kernel/tc358743/tc358743.c) as    *)
(* three threads that share its registers without a lock: the interrupt    *)
(* service routine, run by a timer's work item on this board (the device   *)
(* tree names no interrupt); the delayed work that raises hot-plug 143 ms  *)
(* after it is scheduled; and the calls of user space (v4l2-ctl, media-ctl *)
(* and the stream's start), which come one at a time.  A step is one       *)
(* register access or one access to the driver's state.                    *)
(*                                                                         *)
(* Left out: audio, CEC, HDCP, DVI detection, the PHY reset, PLL and CSI   *)
(* set-up; a call that clears the EDID; the lengths of delays.  External:  *)
(* the chip, whose INTSTATUS bit stays set while an unmasked cause is      *)
(* pending.                                                                *)
(***************************************************************************)
EXTENDS Integers

CONSTANTS
    Modes,    \* video modes of the source
    ClockOf,  \* their pixel clocks
    Silent,   \* the source sends nothing
    NoMode,   \* all-zero timings; also: no timings detected
    BootMode  \* default_timing

ASSUME BridgeAssumption ==
    /\ BootMode \in Modes
    /\ {Silent, NoMode} \cap Modes = {} /\ Silent # NoMode
    /\ DOMAIN ClockOf = Modes

VARIABLES
    power,   \* 5 V from the source
    src,     \* what the source sends
    raw,     \* latched interrupt causes: "sync", "de", "ddc"
    armed,   \* "sync" and "de" are unmasked ("ddc" always is)
    hpd,     \* HPD_OUT0: hot-plug is up and the source may read the EDID
    open,    \* VI_MUTE: the video is not muted
    buf,     \* CONFCTL: VBUFEN and ABUFEN
    blocks,  \* state->edid_blocks_written is not 0
    dv,      \* state->timings
    due,     \* delayed_work_enable_hotplug is scheduled
    isr,     \* [at, seen, torn]: where the service routine is, the causes it
             \* saw and has yet to handle, and whether the source has changed
             \* while it reads the timings
    call,    \* [at, arg]: the call of user space
    moved    \* history: the source has changed, and s_stream(1) has not set
             \* VI_MUTE since the service routine was done with that change

chipVars == <<raw, armed, hpd, open, buf>>
stateVars == <<blocks, dv, due>>
vars == <<power, src, chipVars, stateVars, isr, call, moved>>

Causes == {"sync", "de", "ddc"}

IsrPlaces == {"idle", "misc", "clk", "sys", "decide", "compare", "mute", "unbuf", "read5v",
              "edid", "plug", "arm", "disarm", "cancel", "low", "zero"}
CallPlaces == {"idle", "cancel", "low", "write", "read5v",
               "plug", "arm", "match", "set", "mute", "unbuf", "unmute", "rebuf"}

TypeOK ==
    /\ power \in BOOLEAN
    /\ src \in Modes \cup {Silent}
    /\ raw \subseteq Causes
    /\ armed \in BOOLEAN /\ hpd \in BOOLEAN
    /\ open \in BOOLEAN /\ buf \in BOOLEAN
    /\ blocks \in BOOLEAN
    /\ dv \in Modes \cup {NoMode}
    /\ due \in BOOLEAN
    /\ isr \in [at : IsrPlaces, seen : SUBSET Causes, torn : BOOLEAN]
    /\ isr.at = "idle" => isr.seen = {}
    /\ isr.torn => isr.at = "compare"
    /\ call \in [at : CallPlaces, arg : Modes \cup {NoMode}]
    /\ moved \in BOOLEAN

\* As probe leaves it.
Init ==
    /\ power \in BOOLEAN
    /\ src = Silent
    /\ raw = {}
    /\ armed = power
    /\ hpd = FALSE
    /\ open = FALSE /\ buf = FALSE
    /\ blocks = FALSE
    /\ dv = BootMode
    /\ due = FALSE
    /\ isr = [at |-> "idle", seen |-> {}, torn |-> FALSE]
    /\ call = [at |-> "idle", arg |-> NoMode]
    /\ moved = FALSE

\* get_detected_timings of a source that stays as it is; with hot-plug low any
\* video is ignored.
Detected == IF hpd /\ src # Silent THEN src ELSE NoMode

\* INTSTATUS has its HDMI bit set.
Visible == IF armed THEN raw ELSE raw \cap {"ddc"}

-----------------------------------------------------------------------------
(* The source (external).                                                  *)

\* The timings are a dozen registers: what is read of them meanwhile is torn.
Tears == isr' = [isr EXCEPT !.torn = (isr.at = "compare")]

PowerChanges ==
    /\ power' = ~power
    /\ src' = Silent
    /\ raw' = raw \cup {"ddc"} \cup (IF src = Silent THEN {} ELSE {"sync"})
    /\ moved' = TRUE
    /\ Tears
    /\ UNCHANGED <<armed, hpd, open, buf, stateVars, call>>

\* Between modes of one pixel clock the sync is not always lost.
SourceChanges(s) ==
    /\ power
    /\ s # src
    /\ src' = s
    /\ \E quiet \in BOOLEAN :
          /\ quiet => {s, src} \subseteq Modes /\ ClockOf[s] = ClockOf[src]
          /\ raw' = raw \cup (IF quiet THEN {"de"} ELSE {"sync", "de"})
    /\ moved' = TRUE
    /\ Tears
    /\ UNCHANGED <<power, armed, hpd, open, buf, stateVars, call>>

-----------------------------------------------------------------------------
(* The interrupt service routine.                                          *)

IsrAt(p) == isr.at = p
IsrGo(p) == isr' = [isr EXCEPT !.at = p, !.torn = FALSE]
IsrKeeps == UNCHANGED <<power, src, call, moved>>

\* The handlers run in this order, each if its cause was seen.
HandlerOf(S) == IF "sync" \in S THEN "misc"
                ELSE IF "de" \in S THEN "clk"
                ELSE IF "ddc" \in S THEN "sys" ELSE "idle"

IsrGoOn == IsrGo(HandlerOf(isr.seen))

IsrBegin ==
    /\ IsrAt("idle")
    /\ Visible # {}
    /\ isr' = [at |-> HandlerOf(Visible), seen |-> Visible, torn |-> FALSE]
    /\ IsrKeeps /\ UNCHANGED <<chipVars, stateVars>>

\* A handler clears its cause before it acts on it.
Handle(cause, go) ==
    /\ raw' = raw \ {cause}
    /\ isr' = [at |-> go, seen |-> isr.seen \ {cause}, torn |-> FALSE]
    /\ IsrKeeps /\ UNCHANGED <<armed, hpd, open, buf, stateVars>>

IsrMisc == IsrAt("misc") /\ Handle("sync", "decide")

\* Mutant: a run handles one group only.
ClkElse ==
    /\ IsrAt("clk")
    /\ Handle("de", IF src # Silent THEN "decide" ELSE "idle")

\* A changed picture counts only while the signal is stable.
IsrClk ==
    /\ IsrAt("clk")
    /\ Handle("de", IF src # Silent THEN "decide" ELSE HandlerOf(isr.seen \ {"de"}))

\* Mutant: only a lost signal disables the stream.
DecideLossOnly ==
    /\ IsrAt("decide")
    /\ IF Detected = NoMode THEN IsrGo("mute") ELSE IsrGoOn
    /\ IsrKeeps /\ UNCHANGED <<chipVars, stateVars>>

\* format_change: without a signal the stream is disabled ...
IsrDecide ==
    /\ IsrAt("decide")
    /\ IsrGo(IF Detected = NoMode THEN "mute" ELSE "compare")
    /\ IsrKeeps /\ UNCHANGED <<chipVars, stateVars>>

\* ... and otherwise unless what is read is what is set, which torn timings may
\* be or not.
IsrCompare ==
    /\ IsrAt("compare")
    /\ \/ (isr.torn \/ src # dv) /\ IsrGo("mute")
       \/ (isr.torn \/ src = dv) /\ IsrGoOn
    /\ IsrKeeps /\ UNCHANGED <<chipVars, stateVars>>

\* enable_stream(false): VI_MUTE without a lock, then CONFCTL under its mutex.
IsrMute ==
    /\ IsrAt("mute")
    /\ open' = FALSE
    /\ IsrGo("unbuf")
    /\ IsrKeeps /\ UNCHANGED <<raw, armed, hpd, buf, stateVars>>

IsrUnbuf ==
    /\ IsrAt("unbuf")
    /\ buf' = FALSE
    /\ IsrGoOn
    /\ IsrKeeps /\ UNCHANGED <<raw, armed, hpd, open, stateVars>>

IsrSys == IsrAt("sys") /\ Handle("ddc", "read5v")

IsrRead5v ==
    /\ IsrAt("read5v")
    /\ IsrGo(IF power THEN "edid" ELSE "disarm")
    /\ IsrKeeps /\ UNCHANGED <<chipVars, stateVars>>

\* enable_edid: without an EDID nothing is enabled.
IsrEdid ==
    /\ IsrAt("edid")
    /\ IsrGo(IF blocks THEN "plug" ELSE "idle")
    /\ IsrKeeps /\ UNCHANGED <<chipVars, stateVars>>

IsrPlug ==
    /\ IsrAt("plug")
    /\ due' = TRUE
    /\ IsrGo("arm")
    /\ IsrKeeps /\ UNCHANGED <<chipVars, blocks, dv>>

\* enable_interrupts.
IsrArm ==
    /\ \/ IsrAt("arm") /\ armed' = TRUE /\ IsrGo("idle")
       \/ IsrAt("disarm") /\ armed' = FALSE /\ IsrGo("cancel")
    /\ IsrKeeps /\ UNCHANGED <<raw, hpd, open, buf, stateVars>>

\* disable_edid: the work is cancelled, then hot-plug goes down.
IsrCancel ==
    /\ IsrAt("cancel")
    /\ due' = FALSE
    /\ IsrGo("low")
    /\ IsrKeeps /\ UNCHANGED <<chipVars, blocks, dv>>

IsrLow ==
    /\ IsrAt("low")
    /\ hpd' = FALSE
    /\ IsrGo("zero")
    /\ IsrKeeps /\ UNCHANGED <<raw, armed, open, buf, stateVars>>

IsrZero ==
    /\ IsrAt("zero")
    /\ dv' = NoMode
    /\ IsrGo("idle")
    /\ IsrKeeps /\ UNCHANGED <<chipVars, blocks, due>>

Isr == \/ IsrBegin \/ IsrMisc \/ IsrClk \/ IsrDecide \/ IsrCompare \/ IsrMute \/ IsrUnbuf
       \/ IsrSys \/ IsrRead5v \/ IsrEdid \/ IsrPlug \/ IsrArm
       \/ IsrCancel \/ IsrLow \/ IsrZero

\* The delayed work.
Hotplug ==
    /\ due
    /\ due' = FALSE
    /\ hpd' = TRUE
    /\ UNCHANGED <<power, src, raw, armed, open, buf, blocks, dv, isr, call, moved>>

-----------------------------------------------------------------------------
(* The calls of user space.                                                *)

CallAt(p) == call.at = p
CallGo(p) == call' = [call EXCEPT !.at = p]
Return == call' = [at |-> "idle", arg |-> NoMode]
CallKeeps == UNCHANGED <<power, src, isr>>

Call(at, arg) ==
    /\ CallAt("idle")
    /\ call' = [at |-> at, arg |-> arg]
    /\ CallKeeps /\ UNCHANGED <<chipVars, stateVars, moved>>

SEdid == Call("cancel", NoMode)
SDvTimings(m) == Call("match", m)
SStreamOn == Call("unmute", NoMode)
SStreamOff == Call("mute", NoMode)   \* and set_fmt

EdidCancel ==
    /\ CallAt("cancel")
    /\ due' = FALSE
    /\ CallGo("low")
    /\ CallKeeps /\ UNCHANGED <<chipVars, blocks, dv, moved>>

EdidLow ==
    /\ CallAt("low")
    /\ hpd' = FALSE
    /\ CallGo("write")
    /\ CallKeeps /\ UNCHANGED <<raw, armed, open, buf, stateVars, moved>>

\* The length and the blocks are written, in bursts of eight bytes, and with
\* them the number of blocks.
EdidWrite ==
    /\ CallAt("write")
    /\ blocks' = TRUE
    /\ CallGo("read5v")
    /\ CallKeeps /\ UNCHANGED <<chipVars, dv, due, moved>>

\* Mutant: s_edid leaves hot-plug to the next 5 V interrupt.
EdidWaits5v ==
    /\ CallAt("read5v")
    /\ Return
    /\ CallKeeps /\ UNCHANGED <<chipVars, stateVars, moved>>

\* enable_edid follows at once: no other thread changes the number of blocks.
EdidRead5v ==
    /\ CallAt("read5v")
    /\ IF power THEN CallGo("plug") ELSE Return
    /\ CallKeeps /\ UNCHANGED <<chipVars, stateVars, moved>>

EdidPlug ==
    /\ CallAt("plug")
    /\ due' = TRUE
    /\ CallGo("arm")
    /\ CallKeeps /\ UNCHANGED <<chipVars, blocks, dv, moved>>

EdidArm ==
    /\ CallAt("arm")
    /\ armed' = TRUE
    /\ Return
    /\ CallKeeps /\ UNCHANGED <<raw, hpd, open, buf, stateVars, moved>>

\* s_dv_timings: timings that are set already change nothing.
TimingsMatch ==
    /\ CallAt("match")
    /\ IF call.arg = dv THEN Return ELSE CallGo("set")
    /\ CallKeeps /\ UNCHANGED <<chipVars, stateVars, moved>>

TimingsSet ==
    /\ CallAt("set")
    /\ dv' = call.arg
    /\ CallGo("mute")
    /\ CallKeeps /\ UNCHANGED <<chipVars, blocks, due, moved>>

\* The service routine is not done with the last change of the source: its
\* interrupt is latched or seen, or it has yet to clear VI_MUTE if it must.
ToBeStopped ==
    \/ raw \cap {"sync", "de"} # {} \/ isr.seen \cap {"sync", "de"} # {}
    \/ isr.at \in {"decide", "compare", "mute"}

\* enable_stream, in either direction.
StreamMute ==
    /\ \/ CallAt("mute") /\ open' = FALSE /\ CallGo("unbuf") /\ moved' = moved
       \/ CallAt("unmute") /\ open' = TRUE /\ CallGo("rebuf") /\ moved' = (moved /\ ToBeStopped)
    /\ CallKeeps /\ UNCHANGED <<raw, armed, hpd, buf, stateVars>>

StreamBuf ==
    /\ \/ CallAt("unbuf") /\ buf' = FALSE
       \/ CallAt("rebuf") /\ buf' = TRUE
    /\ Return
    /\ CallKeeps /\ UNCHANGED <<raw, armed, hpd, open, stateVars, moved>>

CallStep ==
    \/ EdidCancel \/ EdidLow \/ EdidWrite \/ EdidRead5v
    \/ EdidPlug \/ EdidArm
    \/ TimingsMatch \/ TimingsSet \/ StreamMute \/ StreamBuf

User == SEdid \/ (\E m \in Modes : SDvTimings(m)) \/ SStreamOn \/ SStreamOff

Source == PowerChanges \/ \E s \in Modes \cup {Silent} : SourceChanges(s)

Next == Source \/ Isr \/ Hotplug \/ User \/ CallStep

Spec == Init /\ [][Next]_vars

\* The poll timer and the work queue run, and a call that has begun goes on.
FairSpec == Spec /\ WF_vars(Isr) /\ WF_vars(Hotplug) /\ WF_vars(CallStep)

-----------------------------------------------------------------------------
\* No thread is in the driver and no interrupt is to be served.
Quiet == isr.at = "idle" /\ call.at = "idle" /\ Visible = {}

\* A source that is plugged in is offered the EDID: whatever 5 V events fall
\* into whatever step of s_edid and of the service routine, at the end hot-plug
\* is up or about to go up (s_edid, sys_int_handler, enable_edid).
EdidOffered == Quiet /\ power /\ blocks => hpd \/ due

\* A picture the receiver is not set up for does not get through: once the
\* source has changed, and the driver has come to rest, the video is muted
\* unless the source is back at the mode that is set (format_change,
\* s_dv_timings), also when the change fell into s_stream(1) or s_stream(1) into
\* the service routine.  Exempt is an s_stream(1) that sets VI_MUTE after the
\* routine was done with the change: it does not look at the timings, and
\* nothing makes it wait for the routine (line 656 is outside confctl_mutex).
WrongPictureStops ==
    Quiet /\ moved /\ Detected \in Modes \ {dv} => ~open

\* With the cable in and an EDID loaded, hot-plug goes up in the end and stays
\* up, whatever happened before.
HotplugComes == <>[](power /\ blocks /\ call.at = "idle") => <>[]hpd
=============================================================================
