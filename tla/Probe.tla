------------------------------- MODULE Probe -------------------------------
(***************************************************************************)
(* How the bridge driver starts and stops (tc358743_probe_of,              *)
(* tc358743_probe, tc358743_remove in src/kernel/tc358743/tc358743.c) on a *)
(* board without an interrupt line, such as the one of the device tree     *)
(* src/kernel/dts: a timer queues a work item that runs the interrupt      *)
(* service routine.                                                        *)
(*                                                                         *)
(* The thread that binds and unbinds the driver goes through the steps of  *)
(* probe, of its error path or of remove.  Beside it run the timer's       *)
(* callback, the poll work, the delayed hot-plug work and, while the       *)
(* subdevice is registered, calls from user space that set an EDID.  An    *)
(* EDID goes out in bursts, which may fail (i2c_wr); the source can read   *)
(* it while hot-plug is up.                                                *)
(*                                                                         *)
(* Time matters in one place only: the hot-plug work runs 143 ms after it  *)
(* is scheduled.  A unit of time is the longest that one transfer takes.   *)
(*                                                                         *)
(* Abstractions: an allocation, a registration or a look-up of the kernel  *)
(* succeeds or fails as it likes (external); what the service routine does *)
(* to the picture is in Bridge, here it only plugs and unplugs; s_edid with *)
(* no blocks, which clears the EDID, is left out.                          *)
(***************************************************************************)
EXTENDS Pll

CONSTANTS
    RefClks,    \* reference clocks a device tree may name, in Hz
    LinkFreqs,  \* link frequencies a device tree may name, in Hz
    LaneCounts, \* numbers of data lanes a device tree may name
    Blocks,     \* blocks of the EDID
    BlockBursts, \* transfers that i2c_wr makes of a block
    Delay       \* HZ/7, after which the hot-plug work runs

ASSUME ProbeAssumption ==
    /\ RefClks \subseteq Nat \ {0}
    /\ LinkFreqs \subseteq Nat \ {0}
    /\ \A f \in LinkFreqs : f <= MaxLink
    /\ LaneCounts \subseteq Nat

RamTransfers == Blocks * BlockBursts

\* The transfers of s_edid: hot-plug down, two of the length, the blocks.
Transfers == RamTransfers + 3

\* An EDID is written in less time than the hot-plug work waits, unless the
\* bus is held up: 35 transfers for the board's two blocks against 143 ms.
ASSUME EdidAssumption ==
    /\ Blocks \in Nat \ {0} /\ BlockBursts \in Nat \ {0}
    /\ Delay \in Nat /\ Transfers < Delay

VARIABLES
    dt,       \* the device tree's clock, link frequency and lanes
    at,       \* where the thread that binds and unbinds is
    removing, \* it unbinds, rather than clean up after a failed attempt
    clk,      \* this binding of the driver has enabled the reference clock
    pdata,    \* what probe_of leaves in state->pdata: refclk_hz and the PLL
    timer,    \* the poll timer is armed
    firing,   \* its callback runs
    queued,   \* the poll work is queued
    running,  \* the poll work runs
    hotplug,  \* the delayed hot-plug work is pending
    edid,     \* an EDID has been written
    listed,   \* the subdevice is registered
    call,     \* a call from user space that sets an EDID is under way
    late,     \* history: such a call plugged after remove had cancelled
    wait,     \* time until the hot-plug work runs
    hpd,      \* HPD_OUT0: hot-plug is up, the source may read the EDID
    left,     \* transfers that the call has yet to make
    whole,    \* history: the chip has all of the EDID that was set last
    failed    \* history: a transfer of that call failed

treeVars == <<dt, clk, pdata>>
pollVars == <<timer, firing, queued, running>>
callVars == <<hotplug, edid, call, late, wait, left>>
chipVars == <<hpd, whole, failed>>
vars == <<dt, at, removing, clk, pdata, timer, firing, queued, running,
          hotplug, edid, listed, call, late, wait, hpd, left, whole, failed>>

Starting == {"of", "chip", "objects", "setup", "poll", "cec", "mask", "list"}
Stopping == {"delete", "flush", "cancel", "unlist", "free"}

\* The dividers fit the four and the nine bits that PLLCTL0 has for them less
\* one; the rest is typing.
TypeOK ==
    /\ dt \in [refclk : RefClks, link : LinkFreqs, lanes : LaneCounts]
    /\ at \in Starting \cup Stopping \cup {"none", "bound", "bug"}
    /\ pdata \in [refclk : RefClks \cup {0}, prd : 0 .. 16, fbd : 0 .. 512]
    /\ {removing, clk, timer, firing, queued, running, hotplug, edid,
        listed, call, late, hpd, whole, failed} \subseteq BOOLEAN
    /\ wait \in 0 .. Delay /\ left \in 0 .. Transfers

NoPdata == [refclk |-> 0, prd |-> 0, fbd |-> 0]

Init ==
    /\ dt \in [refclk : RefClks, link : LinkFreqs, lanes : LaneCounts]
    /\ at = "none"
    /\ pdata = NoPdata
    /\ removing = FALSE /\ clk = FALSE
    /\ timer = FALSE /\ firing = FALSE /\ queued = FALSE /\ running = FALSE
    /\ hotplug = FALSE /\ edid = FALSE /\ listed = FALSE
    /\ call = FALSE /\ late = FALSE
    /\ wait = 0 /\ hpd = FALSE /\ left = 0 /\ whole = FALSE /\ failed = FALSE

-----------------------------------------------------------------------------
(* Binding.  A step of probe either goes on or fails; a failure goes to    *)
(* one of the labels of the error path, or straight out.                   *)

GoTo(next) == at' = next /\ UNCHANGED removing

\* The attempt is over: the core frees what devm_ holds, state among it.
Gone == GoTo("none")

\* The labels err_work_queues and err_hdl.
ToErrWorkQueues == at' = "delete" /\ removing' = FALSE
ToErrHdl == at' = "free" /\ removing' = FALSE

\* The core binds the driver: a fresh state.
Bind ==
    /\ at = "none"
    /\ ~call /\ ~hotplug
    /\ at' = "of"
    /\ removing' = FALSE
    /\ clk' = FALSE /\ pdata' = NoPdata
    /\ edid' = FALSE /\ late' = FALSE
    /\ UNCHANGED <<dt, pollVars, hotplug, listed, call, wait, left, chipVars>>

\* No clock, no endpoint, a lane count or a rate that is not allowed, no reset
\* line: whatever was enabled is disabled again, and the attempt fails.
ProbeOfFails ==
    /\ at = "of"
    /\ Gone
    /\ UNCHANGED <<treeVars, pollVars, callVars, chipVars, listed>>

LanesAllowed == dt.lanes \in 1 .. 4

\* Mutant: success falls through to the label that disables the clock.
ProbeOfFallsThrough ==
    /\ at = "of"
    /\ LanesAllowed
    /\ Supported(dt.refclk) /\ RateAllowed(Bps(dt))
    /\ pdata' = Pdata(dt)
    /\ clk' = FALSE
    /\ GoTo("chip")
    /\ UNCHANGED <<dt, pollVars, callVars, chipVars, listed>>

\* A supported clock and rate: the PLL is worked out, the clock stays on.
ProbeOf ==
    /\ at = "of"
    /\ LanesAllowed
    /\ Supported(dt.refclk) /\ RateAllowed(Bps(dt))
    /\ pdata' = Pdata(dt)
    /\ clk' = TRUE
    /\ GoTo("chip")
    /\ UNCHANGED <<dt, pollVars, callVars, chipVars, listed>>

\* A clock rate that is not supported: the clock is disabled again, but ret
\* is still the 0 of clk_prepare_enable, so the caller goes on.
ProbeOfUnsupported ==
    /\ at = "of"
    /\ LanesAllowed
    /\ ~Supported(dt.refclk)
    /\ pdata' = [refclk |-> dt.refclk, prd |-> 0, fbd |-> 0]
    /\ clk' = FALSE
    /\ GoTo("chip")
    /\ UNCHANGED <<dt, pollVars, callVars, chipVars, listed>>

\* The chip's identity; with another chip the attempt ends without a label,
\* and the clock stays on.
ReadChipId ==
    /\ at = "chip"
    /\ GoTo("objects") \/ Gone
    /\ UNCHANGED <<treeVars, pollVars, callVars, chipVars, listed>>

\* The control handler and its first values, the media pad, the mutex, the
\* hot-plug work and the CEC adapter.
MakeObjects ==
    /\ at = "objects"
    /\ GoTo("setup") \/ ToErrHdl
    /\ UNCHANGED <<treeVars, pollVars, callVars, chipVars, listed>>

\* The registers, the HDMI part of the chip reset first: BUG_ON stops the
\* kernel on a clock that is not supported.
SetUp ==
    /\ at = "setup"
    /\ GoTo(IF Supported(pdata.refclk) THEN "poll" ELSE "bug")
    /\ hpd' = FALSE
    /\ UNCHANGED <<treeVars, pollVars, callVars, whole, failed, listed>>

StartPolling ==
    /\ at = "poll"
    /\ timer' = TRUE
    /\ GoTo("cec")
    /\ UNCHANGED <<treeVars, firing, queued, running, callVars, chipVars, listed>>

RegisterCec ==
    /\ at = "cec"
    /\ GoTo("mask") \/ ToErrWorkQueues
    /\ UNCHANGED <<treeVars, pollVars, callVars, chipVars, listed>>

\* The interrupt masks and the values of the controls.
SetUpControls ==
    /\ at = "mask"
    /\ GoTo("list") \/ ToErrWorkQueues
    /\ UNCHANGED <<treeVars, pollVars, callVars, chipVars, listed>>

Register ==
    /\ at = "list"
    /\ \/ GoTo("bound") /\ listed' = TRUE
       \/ ToErrWorkQueues /\ UNCHANGED listed
    /\ UNCHANGED <<treeVars, pollVars, callVars, chipVars>>

-----------------------------------------------------------------------------
(* Unbinding, and the error path, which takes the same steps but one.      *)

Unbind ==
    /\ at = "bound"
    /\ at' = "delete"
    /\ removing' = TRUE
    /\ UNCHANGED <<treeVars, pollVars, callVars, chipVars, listed>>

\* Mutant: timer_delete in place of timer_delete_sync.
DeleteTimerNoSync ==
    /\ at = "delete"
    /\ timer' = FALSE
    /\ GoTo("flush")
    /\ UNCHANGED <<treeVars, firing, queued, running, callVars, chipVars, listed>>

\* timer_delete_sync waits for a callback that runs, and outlasts its re-arming.
DeleteTimer ==
    /\ at = "delete"
    /\ ~firing
    /\ timer' = FALSE
    /\ GoTo("flush")
    /\ UNCHANGED <<treeVars, firing, queued, running, callVars, chipVars, listed>>

\* Mutant: the error path and remove do not wait for the poll work.
FlushNothing ==
    /\ at = "flush"
    /\ GoTo("cancel")
    /\ UNCHANGED <<treeVars, pollVars, callVars, chipVars, listed>>

FlushWork ==
    /\ at = "flush"
    /\ ~queued /\ ~running
    /\ GoTo("cancel")
    /\ UNCHANGED <<treeVars, pollVars, callVars, chipVars, listed>>

CancelHotplug ==
    /\ at = "cancel"
    /\ hotplug' = FALSE
    /\ GoTo(IF removing THEN "unlist" ELSE "free")
    /\ UNCHANGED <<treeVars, pollVars, edid, call, late, wait, left, chipVars, listed>>

\* Calls that have begun go on.
Unregister ==
    /\ at = "unlist"
    /\ listed' = FALSE
    /\ GoTo("free")
    /\ UNCHANGED <<treeVars, pollVars, callVars, chipVars>>

\* The handler goes, then the core frees the state; nobody disables the clock.
Free ==
    /\ at = "free"
    /\ Gone
    /\ UNCHANGED <<treeVars, pollVars, callVars, chipVars, listed>>

-----------------------------------------------------------------------------
(* The timer, the works and user space.                                    *)

TimerFires ==
    /\ timer
    /\ timer' = FALSE /\ firing' = TRUE
    /\ queued' = TRUE
    /\ UNCHANGED <<treeVars, at, removing, running, callVars, chipVars, listed>>

TimerRearms ==
    /\ firing
    /\ firing' = FALSE /\ timer' = TRUE
    /\ UNCHANGED <<treeVars, at, removing, queued, running, callVars, chipVars, listed>>

PollBegins ==
    /\ queued /\ ~running
    /\ queued' = FALSE /\ running' = TRUE
    /\ UNCHANGED <<treeVars, at, removing, timer, firing, callVars, chipVars, listed>>

\* schedule_delayed_work: work that is pending keeps its time.
Schedule ==
    /\ hotplug' = TRUE
    /\ wait' = IF hotplug THEN wait ELSE Delay

\* The service routine: a 5 V change plugs (if there is an EDID) or unplugs,
\* which the chip may not be told if the transfer fails.
PollEnds ==
    /\ running
    /\ running' = FALSE
    /\ \/ UNCHANGED <<hotplug, wait, hpd>>
       \/ edid /\ Schedule /\ UNCHANGED hpd
       \/ hotplug' = FALSE /\ hpd' \in {FALSE, hpd} /\ UNCHANGED wait
    /\ UNCHANGED <<treeVars, at, removing, timer, firing, queued, edid,
                   call, late, left, whole, failed, listed>>

HotplugRuns ==
    /\ hotplug /\ wait = 0
    /\ hotplug' = FALSE
    /\ hpd' \in {TRUE, hpd}
    /\ UNCHANGED <<treeVars, at, removing, pollVars, edid, call, late, wait, left,
                   whole, failed, listed>>

\* VIDIOC_SUBDEV_S_EDID: the hot-plug work is cancelled ...
SEdid ==
    /\ listed /\ ~call
    /\ call' = TRUE
    /\ hotplug' = FALSE
    /\ left' = Transfers
    /\ UNCHANGED <<treeVars, at, removing, pollVars, edid, late, wait, chipVars, listed>>

\* Mutant: hot-plug is left up while the EDID is written.
StaysUp(ok) ==
    /\ left = Transfers
    /\ left' = left - 1
    /\ failed' = ~ok
    /\ UNCHANGED <<hpd, whole>>

\* ... hot-plug goes down ...
GoesDown(ok) ==
    /\ left = Transfers
    /\ left' = left - 1
    /\ hpd' = (hpd /\ ~ok)
    /\ failed' = ~ok
    /\ UNCHANGED whole

\* ... and the length and the blocks are written.  A burst that fails ends its
\* block, and nobody is told.
WritesEdid(ok) ==
    /\ left \in 1 .. Transfers - 1
    /\ left' = IF ok \/ left > RamTransfers THEN left - 1
               ELSE ((left - 1) \div BlockBursts) * BlockBursts
    /\ failed' = (failed \/ ~ok)
    /\ whole' = (left' = 0 /\ ~failed')
    /\ UNCHANGED hpd

Transfer(ok) == GoesDown(ok) \/ WritesEdid(ok)

\* One transfer, in less than a unit of time.
SEdidTransfers ==
    /\ \E ok \in BOOLEAN : Transfer(ok)
    /\ UNCHANGED <<treeVars, at, removing, pollVars, hotplug, edid, call, late, wait, listed>>

\* A unit of time, in which a call that writes gets a transfer done.
Tick ==
    /\ wait > 0
    /\ wait' = wait - 1
    /\ IF left > 0 THEN \E ok \in BOOLEAN : Transfer(ok)
       ELSE UNCHANGED <<left, chipVars>>
    /\ UNCHANGED <<treeVars, at, removing, pollVars, hotplug, edid, call, late, listed>>

\* The hot-plug work has been cancelled for good.
Cancelled == at \in {"unlist", "free", "none"}

\* There is an EDID now; with a source there, the hot-plug work is scheduled.
SEdidEnds ==
    /\ call /\ left = 0
    /\ call' = FALSE
    /\ edid' = TRUE
    /\ \/ Schedule /\ late' = (late \/ Cancelled)
       \/ UNCHANGED <<hotplug, wait, late>>
    /\ UNCHANGED <<treeVars, at, removing, pollVars, left, chipVars, listed>>

Probing == ProbeOfFails \/ ProbeOf \/ ProbeOfUnsupported \/ ReadChipId \/ MakeObjects \/ SetUp \/ StartPolling
           \/ RegisterCec \/ SetUpControls \/ Register

Ending == DeleteTimer \/ FlushWork \/ CancelHotplug \/ Unregister \/ Free

Next ==
    \/ Bind \/ Probing \/ Unbind \/ Ending
    \/ TimerFires \/ TimerRearms \/ PollBegins \/ PollEnds
    \/ HotplugRuns \/ SEdid \/ SEdidTransfers \/ SEdidEnds \/ Tick

Spec == Init /\ [][Next]_vars

\* The thread that binds and unbinds runs, the timer wheel finishes a callback,
\* and the work queue gets to its items.  An expiry is 10 ms or more after the
\* re-arming, so timer_delete_sync finds the timer between two callbacks.
\* Nobody has to bind, unbind or call.
Fairness ==
    /\ WF_vars(Probing) /\ WF_vars(Ending) /\ SF_vars(DeleteTimer)
    /\ WF_vars(TimerRearms) /\ WF_vars(PollBegins) /\ WF_vars(PollEnds)

FairSpec == Spec /\ Fairness

-----------------------------------------------------------------------------

\* After a failed attempt and after a removal nothing of the driver is left
\* that would run on the freed state: no timer, no poll work, and no hot-plug
\* work except one that a call of user space scheduled after remove had
\* cancelled it (tc358743_remove, err_work_queues).
NothingOutlives ==
    at = "none" => /\ ~timer /\ ~firing /\ ~queued /\ ~running
                   /\ hotplug => late

\* While the chip is polled or user space can call it, its clock runs and its
\* PLL is fed with 6 to 40 MHz and makes at most what the device tree asks
\* for, short of it by less than one reference clock (probe_of, set_pll).
ServedWithClock ==
    timer \/ running \/ listed =>
        /\ clk
        /\ 6000000 <= PllInput(pdata) /\ PllInput(pdata) <= 40000000
        /\ LaneRate(pdata) <= Bps(dt) /\ Bps(dt) - LaneRate(pdata) < dt.refclk

\* The source is never offered an EDID that is being written, or of which part
\* is missing, though hot-plug may be scheduled by a 5 V interrupt in the middle
\* of s_edid, unless a transfer of that call failed (disable_edid, enable_edid).
OfferedWhole == hpd => whole \/ failed

\* A removal, or the clean-up of a failed attempt, comes to its end, however
\* often the timer re-arms itself and the work is queued (timer_delete_sync,
\* flush_work).
StoppingEnds == at \in Stopping ~> at = "none"

\* The kernel is never stopped by the driver's own check (BUG_ON in set_ref_clk).
NeverBug == at # "bug"
=============================================================================
