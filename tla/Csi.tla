-------------------------------- MODULE Csi --------------------------------
(***************************************************************************)
(* How the bridge driver sets up its CSI transmitter: the lanes a mode     *)
(* needs (tc358743_num_csi_lanes_needed), the registers that switch lanes  *)
(* on (tc358743_set_csi), the PLL, the output format and the stream.       *)
(* Calls of user space (s_dv_timings, set_fmt, s_stream) come one at a     *)
(* time; the interrupt service routine runs beside them, disables the      *)
(* stream (format_change) and clears state->timings when the 5 V go.       *)
(*                                                                         *)
(* CONFCTL is read and written back under confctl_mutex, by two threads.   *)
(* state->timings is under no lock: the memset of the service routine may  *)
(* tear what a call writes or reads at the same time.                      *)
(*                                                                         *)
(* Abstractions: a call that is refused, a look at state and the lengths   *)
(* of the transmitter's delays change nothing here and are left out; a     *)
(* register is what its bits mean.                                         *)
(***************************************************************************)
EXTENDS Pll

CONSTANTS
    DeviceTrees, \* reference clock and link frequency, in Hz
    Timings      \* timings a call may ask for: picture, blanking, pixel clock

AllTimings == [width : Nat, height : Nat, hblank : Nat, vblank : Nat, clock : Nat]

ASSUME CsiAssumption ==
    /\ DeviceTrees \subseteq [refclk : Nat, link : Nat]
    /\ \A d \in DeviceTrees : Supported(d.refclk) /\ d.link <= MaxLink /\ RateAllowed(Bps(d))
    /\ Timings \subseteq AllTimings

VARIABLES
    pdata,   \* state->pdata: reference clock and dividers
    timings, \* state->timings
    code,    \* state->mbus_fmt_code
    lanes,   \* state->csi_lanes_in_use, what get_mbus_config tells the receiver
    pll,     \* PLLCTL0: the dividers in use
    tx,      \* the transmitter: lanes that are on, those that have their
             \* supply (HSTXVREGEN), the clock lane, and the number of lanes
    muted,   \* VI_MUTE
    sel,     \* VOUT_SET2 and VI_REP: the colour space of the output
    confctl, \* CONFCTL: buffers enabled, format of the output
    req,     \* the call under way: [op, at, arg, torn, seen]
    isr      \* the service routine disabling the stream: [at, seen]

stateVars == <<timings, code, lanes>>
regVars == <<pll, tx, muted, sel, confctl>>
vars == <<pdata, stateVars, regVars, req, isr>>

Rgb == "RGB888_1X24"
Uyvy == "UYVY8_1X16"
Codes == {Rgb, Uyvy}

NoTimings == [width |-> 0, height |-> 0, hblank |-> 0, vblank |-> 0, clock |-> 0]

\* default_timing of probe, V4L2_DV_BT_CEA_640X480P59_94.
BootTimings == [width |-> 640, height |-> 480, hblank |-> 160, vblank |-> 45,
                clock |-> 25175000]

\* tc358743_timings_cap.
InCap(t) ==
    /\ 640 <= t.width /\ t.width <= 1920
    /\ 350 <= t.height /\ t.height <= 1200
    /\ 13000000 <= t.clock /\ t.clock <= 165000000

\* What may be seen of timings that change from a to b meanwhile.
Mix(a, b) == [width : {a.width, b.width}, height : {a.height, b.height},
              hblank : {a.hblank, b.hblank}, vblank : {a.vblank, b.vblank},
              clock : {a.clock, b.clock}]

Buffers == [on : BOOLEAN, fmt : Codes]
NoBuffers == [on |-> FALSE, fmt |-> Rgb]
NoReq == [op |-> "none", at |-> "idle", arg |-> NoTimings, torn |-> FALSE, seen |-> NoBuffers]
NoIsr == [at |-> "idle", seen |-> NoBuffers]

\* The number of lanes fits its u8, whatever rate is allowed; the rest is typing.
TypeOK ==
    /\ pdata \in {Pdata(d) : d \in DeviceTrees}
    /\ timings \in AllTimings
    /\ code \in Codes /\ sel \in Codes
    /\ lanes \in 0 .. 255
    /\ tx.on \subseteq 0 .. 3 /\ tx.supplied \subseteq 0 .. 3 /\ tx.nol \in 1 .. 4
    /\ muted \in BOOLEAN
    /\ confctl \in Buffers /\ req.seen \in Buffers /\ isr.seen \in Buffers
    /\ req.at = "idle" => req = NoReq

-----------------------------------------------------------------------------
(* The arithmetic, exact on 32 bits.  All rates are multiples of eight     *)
(* bits per second, so an octet per second is the unit.                    *)

FrameSize(t) == (t.width + t.hblank) * (t.height + t.vblank)

\* fps(): the rate of the pictures, to the nearest whole number.
Fps(t) == IF FrameSize(t) = 0 THEN 0
          ELSE (t.clock + FrameSize(t) \div 2) \div FrameSize(t)

\* Mutant: every format is taken for 24 bits.
PixelOctets24(c) == 3

PixelOctets(c) == IF c = Uyvy THEN 2 ELSE 3

Octets(t, c) == t.width * t.height * Fps(t) * PixelOctets(c)

\* 2^32 bits in octets, where a u32 of bits wraps.
Word == 536870912

\* Mutant: the quotient is not rounded up.
LanesRoundedDown(t, c, p) == (Octets(t, c) % Word) \div (LaneRate(p) \div 8)

\* DIV_ROUND_UP(bps, bps_pr_lane): a sum of 2^32 and more wraps.
LanesNeeded(t, c, p) ==
    LET lane == LaneRate(p) \div 8
    IN  ((Octets(t, c) + lane - 1) % Word) \div lane

-----------------------------------------------------------------------------

\* Mutant: more than four lanes are counted as they are.
TransmitterUncapped(n) == [clock |-> n >= 1, on |-> {d \in 0 .. 3 : d < n},
                           supplied |-> {d \in 0 .. 3 : d < n}, nol |-> n]

\* set_csi on a transmitter that has just been reset, for n lanes.
Transmitter(n) == [clock |-> n >= 1, on |-> {d \in 0 .. 3 : d < n},
                   supplied |-> {d \in 0 .. 3 : d < n},
                   nol |-> IF n \in 2 .. 4 THEN n ELSE 1]

\* As probe leaves it: the default timings, RGB, and everything set up for them.
Init ==
    /\ pdata \in {Pdata(d) : d \in DeviceTrees}
    /\ timings = BootTimings /\ code = Rgb
    /\ lanes = LanesNeeded(BootTimings, Rgb, pdata)
    /\ pll = [prd |-> pdata.prd, fbd |-> pdata.fbd]
    /\ tx = Transmitter(lanes)
    /\ muted = TRUE /\ sel = Rgb /\ confctl = NoBuffers
    /\ req = NoReq
    /\ isr = NoIsr

\* Nobody is between reading CONFCTL and writing it back.
Unlocked == isr.at # "write" /\ req.at \notin {"write", "writefmt"}

-----------------------------------------------------------------------------
(* The calls of user space.                                                *)

At(place) == req.at = place

\* On to the next place; at "store" and "lanes" the timings are accessed.
Enter(place) ==
    req' = IF place = "idle" THEN NoReq
           ELSE [req EXCEPT !.at = place, !.torn = FALSE,
                            !.arg = IF place = "lanes" THEN timings ELSE NoTimings]

Begin(op, place, arg) ==
    /\ At("idle")
    /\ req' = [NoReq EXCEPT !.op = op, !.at = place, !.arg = arg]
    /\ UNCHANGED <<pdata, stateVars, regVars, isr>>

\* Timings that are set already, or that are out of range, change nothing.
SDvTimings(t) ==
    /\ t # timings
    /\ InCap(t)
    /\ Begin("timings", "store", t)

\* TRY changes nothing; an unknown code is replaced by the current one.
SetFmt(c) ==
    /\ At("idle")
    /\ code' = c
    /\ req' = [NoReq EXCEPT !.op = "fmt", !.at = "mute"]
    /\ UNCHANGED <<pdata, timings, lanes, regVars, isr>>

SStream(enable) == Begin(IF enable THEN "on" ELSE "off", "mute", NoTimings)

\* What is accessed here, torn if the service routine clears it meanwhile.
Accessed == IF req.torn THEN Mix(req.arg, NoTimings) ELSE {req.arg}

StoreTimings ==
    /\ At("store")
    /\ timings' \in Accessed
    /\ Enter("mute")
    /\ UNCHANGED <<pdata, code, lanes, regVars, isr>>

\* enable_stream: VI_MUTE, without a lock ...
Mute ==
    /\ At("mute")
    /\ muted' = (req.op # "on")
    /\ Enter("take")
    /\ UNCHANGED <<pdata, stateVars, pll, tx, sel, confctl, isr>>

\* ... then CONFCTL, read ...
TakeConfctl ==
    /\ At("take") \/ At("takefmt")
    /\ Unlocked
    /\ req' = [req EXCEPT !.at = IF At("take") THEN "write" ELSE "writefmt",
                          !.seen = confctl]
    /\ UNCHANGED <<pdata, stateVars, regVars, isr>>

\* ... and written back.
WriteBuffers ==
    /\ At("write")
    /\ confctl' = [req.seen EXCEPT !.on = (req.op = "on")]
    /\ Enter(CASE req.op = "on" -> "idle" [] req.op = "off" -> "lanes" [] OTHER -> "pll")
    /\ UNCHANGED <<pdata, stateVars, pll, tx, muted, sel, isr>>

\* set_pll writes only what differs.
SetPll ==
    /\ At("pll")
    /\ pll' = [prd |-> pdata.prd, fbd |-> pdata.fbd]
    /\ Enter("lanes")
    /\ UNCHANGED <<pdata, stateVars, tx, muted, sel, confctl, isr>>

\* set_csi: the lanes that are needed are in use ...
NeedLanes ==
    /\ At("lanes")
    /\ \E t \in Accessed : lanes' = LanesNeeded(t, code, pdata)
    /\ Enter("tx")
    /\ UNCHANGED <<pdata, timings, code, regVars, isr>>

\* Mutant: set_csi without the reset, which alone switches lanes on again.
ProgramNoReset ==
    /\ At("tx")
    /\ tx' = [Transmitter(lanes) EXCEPT !.on = @ \cap tx.on,
                                        !.clock = @ /\ tx.clock]
    /\ Enter(IF req.op = "fmt" THEN "sel" ELSE "idle")
    /\ UNCHANGED <<pdata, stateVars, pll, muted, sel, confctl, isr>>

\* ... and the transmitter is reset and programmed for them.
ProgramTx ==
    /\ At("tx")
    /\ tx' = Transmitter(lanes)
    /\ Enter(IF req.op = "fmt" THEN "sel" ELSE "idle")
    /\ UNCHANGED <<pdata, stateVars, pll, muted, sel, confctl, isr>>

\* set_csi_color_space: the output's registers, and the format in CONFCTL.
SelectColour ==
    /\ At("sel")
    /\ sel' = code
    /\ Enter("takefmt")
    /\ UNCHANGED <<pdata, stateVars, pll, tx, muted, confctl, isr>>

WriteFormat ==
    /\ At("writefmt")
    /\ confctl' = [req.seen EXCEPT !.fmt = code]
    /\ Enter("idle")
    /\ UNCHANGED <<pdata, stateVars, pll, tx, muted, sel, isr>>

Call ==
    \/ \E t \in Timings : SDvTimings(t)
    \/ \E c \in Codes : SetFmt(c)
    \/ \E enable \in BOOLEAN : SStream(enable)

CallStep ==
    \/ StoreTimings \/ Mute \/ TakeConfctl \/ WriteBuffers \/ SetPll
    \/ NeedLanes \/ ProgramTx \/ SelectColour \/ WriteFormat

-----------------------------------------------------------------------------
(* The service routine.                                                    *)

\* format_change: enable_stream(false).
IsrMutes ==
    /\ isr.at = "idle"
    /\ muted' = TRUE
    /\ isr' = [isr EXCEPT !.at = "take"]
    /\ UNCHANGED <<pdata, stateVars, pll, tx, sel, confctl, req>>

\* Mutant: the service routine does without the mutex.
IsrTakesUnlocked ==
    /\ isr.at = "take"
    /\ isr' = [at |-> "write", seen |-> confctl]
    /\ UNCHANGED <<pdata, stateVars, regVars, req>>

IsrTakes ==
    /\ isr.at = "take"
    /\ Unlocked
    /\ isr' = [at |-> "write", seen |-> confctl]
    /\ UNCHANGED <<pdata, stateVars, regVars, req>>

IsrWrites ==
    /\ isr.at = "write"
    /\ confctl' = [isr.seen EXCEPT !.on = FALSE]
    /\ isr' = NoIsr
    /\ UNCHANGED <<pdata, stateVars, pll, tx, muted, sel, req>>

\* sys_int_handler, with the 5 V gone: the timings are cleared, no more.
IsrUnplugs ==
    /\ isr.at = "idle"
    /\ timings' = NoTimings
    /\ req' = [req EXCEPT !.torn = @ \/ req.at \in {"store", "lanes"}]
    /\ UNCHANGED <<pdata, code, lanes, regVars, isr>>

Isr == IsrMutes \/ IsrTakes \/ IsrWrites \/ IsrUnplugs

Next == Call \/ CallStep \/ Isr

Spec == Init /\ [][Next]_vars

-----------------------------------------------------------------------------

\* The lanes the receiver is told of are those that are on, supplied and
\* counted, however the modes before used them (set_csi, get_mbus_config).  Left
\* out are modes that need no lane or more than four: set_csi has the
\* transmitter count one for them, and get_mbus_config reports what they need.
LanesAgree ==
    At("idle") /\ lanes \in 1 .. 4 =>
        tx = [clock |-> TRUE, on |-> 0 .. lanes - 1, supplied |-> 0 .. lanes - 1,
              nol |-> lanes]

\* With the format the pipeline sets, the lanes in use carry the timings that
\* are set, whatever the order of calls, unless the cable has been pulled since;
\* two threads may cross, nothing wraps (num_csi_lanes_needed, s_dv_timings).
FitsLink ==
    At("idle") /\ code = Uyvy => Octets(timings, Uyvy) <= lanes * (LaneRate(pdata) \div 8)

\* The most the watchdog takes for a mode that two lanes carry (MAXPCLK), and a
\* blanking of at least one pixel in 25, as every standard mode has.
Budgeted(t) ==
    /\ t # NoTimings
    /\ t.clock <= 75000000
    /\ 26 * t.width * t.height <= 25 * FrameSize(t)

\* At the board's 594 Mbps no mode within the watchdog's budget is ever given more
\* than the two lanes that are wired: neither script nor driver compares the
\* two (MAXPCLK in q6a-kvm-watchdog.sh, num_csi_lanes_needed).
WiredLanesSuffice ==
    At("idle") /\ code = Uyvy /\ LaneRate(pdata) = 594000000 /\ Budgeted(timings)
        => lanes <= 2

\* Between two calls the output has the format that get_fmt reports, however
\* the service routine crosses the set-up (set_csi_color_space, enable_stream).
ColourKept == At("idle") => sel = code /\ confctl.fmt = code
=============================================================================
