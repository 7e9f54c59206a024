---------------------------- MODULE ProbeProofs ----------------------------
(***************************************************************************)
(* Theorems about Probe, for every set of reference clocks, of link        *)
(* frequencies and of lane counts a device tree may name, and every size   *)
(* of an EDID.                                                             *)
(***************************************************************************)
EXTENDS Probe, TLAPS

Polling == timer \/ firing \/ queued \/ running

\* Between StartPolling and the end of the flush, and nowhere else, the timer
\* and the poll work are about; the flush finds the timer stopped.
PollInv ==
    /\ Polling => at \in {"cec", "mask", "list", "bound", "delete", "flush"}
    /\ at = "flush" => ~timer /\ ~firing

\* The subdevice is registered from the end of probe to the middle of remove.
ListedInv == listed => /\ at \in {"bound", "delete", "flush", "cancel", "unlist"}
                       /\ at # "bound" => removing

\* A call may last longer, but no attempt begins under it.
CallInv == call => at \in {"bound", "none"} \cup Stopping

\* The hot-plug work is pending while somebody may still cancel it, or late.
HotplugInv == hotplug => \/ late
                         \/ at \in {"cec", "mask", "list", "bound",
                                    "delete", "flush", "cancel"}

\* The PLL has been worked out from a supported clock, which is on.
PllInv ==
    /\ dt \in [refclk : RefClks, link : LinkFreqs, lanes : LaneCounts]
    /\ at \in {"chip", "objects", "setup", "poll", "cec", "mask", "list", "bound",
               "delete", "flush", "cancel", "unlist"}
        => \/ /\ clk
              /\ Supported(dt.refclk)
              /\ pdata = Pdata(dt)
           \/ ~Supported(pdata.refclk) /\ at \in {"chip", "objects", "setup"}

ProbeInv == PollInv /\ ListedInv /\ CallInv /\ HotplugInv

LEMMA ProbeInit == Init => ProbeInv /\ PllInv
BY DEF Init, ProbeInv, PollInv, ListedInv, CallInv, HotplugInv, PllInv, Polling

\* The steps of the thread that binds and unbinds.
LEMMA ProbingKeeps == ASSUME ProbeInv, Bind \/ Probing PROVE ProbeInv'
BY DEF ProbeInv, PollInv, ListedInv, CallInv, HotplugInv, Polling, Stopping,
       Bind, Probing, ProbeOfFails, ProbeOf, ProbeOfUnsupported, ReadChipId,
       MakeObjects, SetUp, StartPolling, RegisterCec, SetUpControls, Register,
       GoTo, Gone, ToErrHdl, ToErrWorkQueues, treeVars, pollVars, callVars

LEMMA EndingKeeps == ASSUME ProbeInv, Unbind \/ Ending PROVE ProbeInv'
BY DEF ProbeInv, PollInv, ListedInv, CallInv, HotplugInv, Polling, Stopping,
       Unbind, Ending, DeleteTimer, FlushWork, CancelHotplug, Unregister, Free,
       GoTo, Gone, treeVars, pollVars, callVars

\* The timer, the works and the calls, each with the parts it touches.
LEMMA OthersKeep ==
    ASSUME ProbeInv,
           TimerFires \/ TimerRearms \/ PollBegins \/ PollEnds
           \/ HotplugRuns \/ SEdid \/ SEdidTransfers \/ SEdidEnds \/ Tick
    PROVE  ProbeInv'
<1>1. CASE TimerFires \/ TimerRearms \/ PollBegins
  BY <1>1 DEF ProbeInv, PollInv, ListedInv, CallInv, HotplugInv, Polling,
              TimerFires, TimerRearms, PollBegins, treeVars, callVars
<1>2. CASE PollEnds \/ HotplugRuns
  <2>1. UNCHANGED <<at, removing, timer, firing, queued, call, late, listed>>
    BY <1>2 DEF PollEnds, HotplugRuns, pollVars
  <2>2. running' => running
    BY <1>2, Zenon DEF PollEnds, HotplugRuns, pollVars
  <2>3. PollInv' /\ ListedInv' /\ CallInv'
    BY <2>1, <2>2 DEF ProbeInv, PollInv, ListedInv, CallInv, Polling
  <2>4. HotplugInv'
    BY <1>2 DEF ProbeInv, PollInv, HotplugInv, Polling, PollEnds, HotplugRuns,
                Schedule, treeVars, pollVars
  <2>5. QED
    BY <2>3, <2>4 DEF ProbeInv
<1>3. CASE SEdid \/ SEdidEnds
  <2>1. PollInv' /\ ListedInv' /\ CallInv'
    BY <1>3 DEF ProbeInv, PollInv, ListedInv, CallInv, Polling, Stopping,
                SEdid, SEdidEnds, treeVars, pollVars
  <2>2. HotplugInv'
    BY <1>3 DEF ProbeInv, CallInv, HotplugInv, Stopping, Cancelled,
                SEdid, SEdidEnds, Schedule, treeVars, pollVars
  <2>3. QED
    BY <2>1, <2>2 DEF ProbeInv
<1>4. CASE SEdidTransfers \/ Tick
  <2>1. UNCHANGED <<at, removing, timer, firing, queued, running, hotplug, call, late, listed>>
    BY <1>4 DEF SEdidTransfers, Tick, pollVars
  <2>2. QED
    BY <2>1 DEF ProbeInv, PollInv, ListedInv, CallInv, HotplugInv, Polling
<1>5. QED
  BY <1>1, <1>2, <1>3, <1>4

LEMMA ProbeNext == ProbeInv /\ [Next]_vars => ProbeInv'
<1>1. ASSUME ProbeInv, UNCHANGED vars PROVE ProbeInv'
  BY <1>1 DEF ProbeInv, PollInv, ListedInv, CallInv, HotplugInv, Polling, vars
<1>2. QED
  BY <1>1, ProbingKeeps, EndingKeeps, OthersKeep DEF Next

\* A failed attempt and a removal leave nothing that would run on the freed
\* state, but for what a call of user space scheduled too late
\* (tc358743_remove, err_work_queues).
THEOREM NothingIsLeft == Spec => []NothingOutlives
<1>1. ProbeInv => NothingOutlives
  BY DEF ProbeInv, PollInv, HotplugInv, Polling, NothingOutlives
<1>2. QED
  BY <1>1, ProbeInit, ProbeNext, PTL DEF Spec

-----------------------------------------------------------------------------

\* Only a supported clock gets past the registers.
LEMMA PllNext == PllInv /\ [Next]_vars => PllInv'
<1>1. ASSUME PllInv, Bind \/ Probing PROVE PllInv'
  BY <1>1 DEF PllInv, Bind, Probing, ProbeOfFails, ProbeOf, ProbeOfUnsupported,
              ReadChipId, MakeObjects, SetUp, StartPolling, RegisterCec,
              SetUpControls, Register, GoTo, Gone, ToErrHdl, ToErrWorkQueues, treeVars, Pdata
<1>2. ASSUME PllInv, Unbind \/ Ending PROVE PllInv'
  BY <1>2 DEF PllInv, Unbind, Ending, DeleteTimer, FlushWork, CancelHotplug,
              Unregister, Free, GoTo, Gone, treeVars
<1>3. ASSUME PllInv, UNCHANGED <<at, treeVars>> PROVE PllInv'
  BY <1>3 DEF PllInv, treeVars
<1>4. QED
  BY <1>1, <1>2, <1>3 DEF Next, vars, treeVars, TimerFires, TimerRearms, PollBegins,
                          PollEnds, HotplugRuns, SEdid, SEdidTransfers, SEdidEnds, Tick

\* Rounding the quotient before multiplying costs less than one reference clock.
LEMMA PllRate ==
    ASSUME NEW refclk, Supported(refclk), NEW bps \in Nat,
           NEW p, p = [refclk |-> refclk, prd |-> PllPrd(refclk), fbd |-> PllFbd(bps, refclk)]
    PROVE  /\ 6000000 <= PllInput(p) /\ PllInput(p) <= 40000000
           /\ LaneRate(p) <= bps /\ bps - LaneRate(p) < refclk
<1>1. PICK q \in Nat, r \in Nat : bps = q * refclk + r /\ r < refclk /\ q = bps \div refclk
  BY DEF Supported
<1>2. CASE refclk = 26000000
  BY <1>1, <1>2 DEF PllInput, LaneRate, PllPrd, PllFbd
<1>3. CASE refclk = 27000000
  BY <1>1, <1>3 DEF PllInput, LaneRate, PllPrd, PllFbd
<1>4. CASE refclk = 42000000
  BY <1>1, <1>4 DEF PllInput, LaneRate, PllPrd, PllFbd
<1>5. QED
  BY <1>2, <1>3, <1>4 DEF Supported

\* Whatever the device tree says: who is polled or called has its clock, and
\* its lanes run at most one reference clock slower than asked (set_pll).
THEOREM ServedRight == Spec => []ServedWithClock
<1>1. ProbeInv /\ PllInv => ServedWithClock
  <2> SUFFICES ASSUME ProbeInv, PllInv, timer \/ running \/ listed
               PROVE  /\ clk
                      /\ 6000000 <= PllInput(pdata) /\ PllInput(pdata) <= 40000000
                      /\ LaneRate(pdata) <= Bps(dt) /\ Bps(dt) - LaneRate(pdata) < dt.refclk
    BY DEF ServedWithClock
  <2>1. at \in {"cec", "mask", "list", "bound", "delete", "flush", "cancel", "unlist"}
    BY DEF ProbeInv, PollInv, ListedInv, Polling
  <2>2. /\ clk
        /\ Supported(dt.refclk)
        /\ pdata = Pdata(dt)
    BY <2>1 DEF PllInv
  <2>a. dt.link \in Nat
    BY ProbeAssumption DEF PllInv
  <2>3. Bps(dt) \in Nat
    BY <2>a DEF Bps
  <2>4. QED
    BY <2>2, <2>3, PllRate DEF Pdata
<1>2. QED
  BY <1>1, ProbeInit, ProbeNext, PllNext, PTL DEF Spec

-----------------------------------------------------------------------------
(* The EDID.                                                               *)

EdidTyped == wait \in 0 .. Delay /\ left \in 0 .. Transfers

\* The chip has what was set last, or a transfer has failed.
Good == whole \/ failed

\* Work that is pending under a call was scheduled after the call had cancelled,
\* so it waits longer than the call has left to write.
EdidInv ==
    /\ EdidTyped
    /\ left > 0 => call
    /\ hotplug /\ left > 0 => wait > left
    /\ left = 0 /\ (hotplug \/ edid \/ call) => Good
    /\ left \in 1 .. Transfers - 1 => ~hpd \/ failed
    /\ hpd => Good

LEMMA Sizes ==
    /\ RamTransfers \in Nat \ {0} /\ Transfers = RamTransfers + 3
    /\ Delay \in Nat /\ Transfers < Delay
<1>1. RamTransfers \in Nat \ {0}
  BY EdidAssumption DEF RamTransfers
<1>2. QED
  BY <1>1, EdidAssumption DEF Transfers

\* A block is skipped to its end, not beyond.
LEMMA BlockEnd ==
    ASSUME NEW n \in Nat \ {0}, NEW d \in Nat \ {0}
    PROVE  ((n - 1) \div d) * d \in 0 .. n - 1
<1>1. PICK q \in Nat : q = (n - 1) \div d /\ q * d <= n - 1
  BY SMT
<1>2. q * d \in Nat
  OBVIOUS
<1>3. QED
  BY <1>1, <1>2

LEMMA EdidInit == Init => EdidInv
BY Sizes DEF Init, EdidInv, EdidTyped, Good

\* What one transfer does, whichever it is.
LEMMA TransferKeeps ==
    ASSUME EdidInv, NEW ok \in BOOLEAN, Transfer(ok)
    PROVE  /\ left > 0 /\ left' \in 0 .. left - 1
           /\ left' = 0 => Good'
           /\ left' > 0 => left' \in 1 .. Transfers - 1 /\ (~hpd' \/ failed')
           /\ hpd' => Good'
<1> USE Sizes DEF EdidInv, EdidTyped, Good
<1>1. CASE GoesDown(ok)
  <2>1. left = Transfers /\ left' = Transfers - 1 /\ Transfers - 1 \in 1 .. Transfers - 1
    BY <1>1 DEF GoesDown
  <2>2. hpd' => failed'
    BY <1>1, Zenon DEF GoesDown
  <2>3. QED
    BY <2>1, <2>2
<1>2. CASE WritesEdid(ok)
  <2>1. left \in 1 .. Transfers - 1
    BY <1>2 DEF WritesEdid
  <2>2. left' \in 0 .. left - 1
    <3>1. ((left - 1) \div BlockBursts) * BlockBursts \in 0 .. left - 1
      BY <2>1, BlockEnd, EdidAssumption
    <3>2. QED
      BY <1>2, <2>1, <3>1 DEF WritesEdid
  <2>3. hpd' = hpd /\ (failed => failed')
    BY <1>2, Zenon DEF WritesEdid
  <2>4. left' = 0 => whole' \/ failed'
    BY <1>2, Zenon DEF WritesEdid
  <2>5. ~hpd \/ failed
    BY <2>1
  <2>6. QED
    BY <2>1, <2>2, <2>3, <2>4, <2>5
<1>3. QED
  BY <1>1, <1>2 DEF Transfer

LEMMA EdidNext == EdidInv /\ [Next]_vars => EdidInv'
<1> SUFFICES ASSUME EdidInv, [Next]_vars PROVE EdidInv'
  OBVIOUS
<1> USE Sizes DEF EdidInv, EdidTyped, Good
<1>1. CASE Bind
  BY <1>1 DEF Bind, chipVars
<1>2. ASSUME UNCHANGED <<hotplug, edid, call, wait, hpd, left, whole, failed>>
      PROVE  EdidInv'
  BY <1>2
<1>3. CASE Probing
  <2>1. CASE SetUp
    BY <2>1 DEF SetUp, callVars
  <2>2. CASE ~SetUp
    BY <1>2, <1>3, <2>2 DEF Probing, ProbeOfFails, ProbeOf, ProbeOfUnsupported, ReadChipId,
                            MakeObjects, StartPolling, RegisterCec, SetUpControls, Register,
                            callVars, chipVars
  <2>3. QED
    BY <2>1, <2>2
<1>4. CASE Unbind \/ TimerFires \/ TimerRearms \/ PollBegins
  BY <1>2, <1>4 DEF Unbind, TimerFires, TimerRearms, PollBegins, callVars, chipVars
<1>5. CASE Ending
  <2>1. CASE CancelHotplug
    BY <2>1 DEF CancelHotplug, chipVars
  <2>2. CASE ~CancelHotplug
    BY <1>2, <1>5, <2>2 DEF Ending, DeleteTimer, FlushWork, Unregister, Free,
                            callVars, chipVars
  <2>3. QED
    BY <2>1, <2>2
<1>6. CASE PollEnds
  <2>1. UNCHANGED <<edid, call, left, whole, failed>>
    BY <1>6 DEF PollEnds
  <2>2. CASE UNCHANGED <<hotplug, wait, hpd>>
    BY <1>2, <2>1, <2>2
  <2>3. CASE edid /\ Schedule /\ UNCHANGED hpd
    BY <2>1, <2>3 DEF Schedule
  <2>4. CASE hotplug' = FALSE /\ hpd' \in {FALSE, hpd} /\ UNCHANGED wait
    <3>1. hpd' => hpd
      BY <2>4, Zenon
    <3>2. hotplug' = FALSE /\ wait' = wait
      BY <2>4
    <3>3. QED
      BY <2>1, <3>1, <3>2
  <2>5. QED
    BY <1>6, <2>2, <2>3, <2>4 DEF PollEnds
<1>7. CASE HotplugRuns
  <2>1. left = 0 /\ Good
    BY <1>7 DEF HotplugRuns
  <2>2. hotplug' = FALSE /\ UNCHANGED <<edid, call, wait, left, whole, failed>>
    BY <1>7 DEF HotplugRuns
  <2>3. QED
    BY <2>1, <2>2
<1>8. CASE SEdid
  BY <1>8 DEF SEdid, chipVars
<1>9. CASE SEdidTransfers
  <2>1. PICK ok \in BOOLEAN : Transfer(ok)
    BY <1>9 DEF SEdidTransfers
  <2>2. UNCHANGED <<hotplug, edid, call, wait>>
    BY <1>9 DEF SEdidTransfers
  <2>3. QED
    BY <2>1, <2>2, TransferKeeps
<1>10. CASE Tick
  <2>1. wait > 0 /\ wait' = wait - 1 /\ UNCHANGED <<hotplug, edid, call>>
    BY <1>10 DEF Tick
  <2>2. CASE left > 0
    <3>1. PICK ok \in BOOLEAN : Transfer(ok)
      BY <1>10, <2>2 DEF Tick
    <3>2. QED
      BY <2>1, <2>2, <3>1, TransferKeeps
  <2>3. CASE left = 0
    BY <1>10, <2>1, <2>3 DEF Tick, chipVars
  <2>4. QED
    BY <2>2, <2>3
<1>11. CASE SEdidEnds
  <2>1. left = 0 /\ call /\ Good /\ call' = FALSE /\ edid' = TRUE
    BY <1>11 DEF SEdidEnds
  <2>2. UNCHANGED <<left, hpd, whole, failed>>
    BY <1>11 DEF SEdidEnds, chipVars
  <2>3. wait' \in 0 .. Delay
    BY <1>11 DEF SEdidEnds, Schedule
  <2>4. QED
    BY <2>1, <2>2, <2>3
<1>12. CASE UNCHANGED vars
  BY <1>2, <1>12 DEF vars
<1>13. QED
  BY <1>1, <1>3, <1>4, <1>5, <1>6, <1>7, <1>8, <1>9, <1>10, <1>11, <1>12 DEF Next

\* Hot-plug is not raised over an EDID of which part is missing, whatever 5 V
\* interrupts fall into s_edid, for any EDID that is written within the delay of
\* the hot-plug work (disable_edid, enable_edid, i2c_wr).
THEOREM OfferIsWhole == Spec => []OfferedWhole
<1>1. EdidInv => OfferedWhole
  BY DEF EdidInv, Good, OfferedWhole
<1>2. QED
  BY <1>1, EdidInit, EdidNext, PTL DEF Spec

-----------------------------------------------------------------------------
(* Typing, in parts: EdidTyped above is one of them.                       *)

PlaceTyped ==
    /\ dt \in [refclk : RefClks, link : LinkFreqs, lanes : LaneCounts]
    /\ at \in Starting \cup Stopping \cup {"none", "bound", "bug"}
    /\ pdata \in [refclk : RefClks \cup {0}, prd : 0 .. 16, fbd : 0 .. 512]

RunTyped == timer \in BOOLEAN /\ firing \in BOOLEAN /\ queued \in BOOLEAN /\ running \in BOOLEAN
CallTyped == hotplug \in BOOLEAN /\ edid \in BOOLEAN /\ call \in BOOLEAN /\ late \in BOOLEAN
ChipTyped == hpd \in BOOLEAN /\ whole \in BOOLEAN /\ failed \in BOOLEAN
BoundTyped == removing \in BOOLEAN /\ clk \in BOOLEAN /\ listed \in BOOLEAN

FlagsTyped == RunTyped /\ CallTyped /\ ChipTyped /\ BoundTyped

\* At the rates allowed neither divider is too large for its register.
LEMMA DividersFit ==
    ASSUME NEW refclk, Supported(refclk), NEW bps \in Nat, RateAllowed(bps)
    PROVE  PllPrd(refclk) \in 0 .. 16 /\ PllFbd(bps, refclk) \in 0 .. 512
<1>1. PICK q \in Nat, r \in Nat : bps = q * refclk + r /\ r < refclk /\ q = bps \div refclk
  BY DEF Supported
<1>2. bps <= 1000000000
  BY DEF RateAllowed
<1>3. CASE refclk = 26000000
  <2>1. q <= 38
    BY <1>1, <1>2, <1>3
  <2>2. QED
    BY <1>1, <1>3, <2>1 DEF PllPrd, PllFbd
<1>4. CASE refclk = 27000000
  <2>1. q <= 38
    BY <1>1, <1>2, <1>4
  <2>2. QED
    BY <1>1, <1>4, <2>1 DEF PllPrd, PllFbd
<1>5. CASE refclk = 42000000
  <2>1. q <= 38
    BY <1>1, <1>2, <1>5
  <2>2. QED
    BY <1>1, <1>5, <2>1 DEF PllPrd, PllFbd
<1>6. QED
  BY <1>3, <1>4, <1>5 DEF Supported

LEMMA PlaceNext == PlaceTyped /\ [Next]_vars => PlaceTyped'
<1> SUFFICES ASSUME PlaceTyped, [Next]_vars PROVE PlaceTyped'
  OBVIOUS
<1>1. CASE Bind
  <2>1. NoPdata \in [refclk : RefClks \cup {0}, prd : 0 .. 16, fbd : 0 .. 512]
    BY DEF NoPdata
  <2>2. QED
    BY <1>1, <2>1 DEF Bind, PlaceTyped, Starting
<1>2. CASE ProbeOf
  <2>a. dt.refclk \in RefClks /\ dt.link \in Nat
    BY ProbeAssumption DEF PlaceTyped
  <2>1. dt.refclk \in RefClks /\ Bps(dt) \in Nat
    BY <2>a DEF Bps
  <2>2. PllPrd(dt.refclk) \in 0 .. 16 /\ PllFbd(Bps(dt), dt.refclk) \in 0 .. 512
    BY <1>2, <2>1, DividersFit DEF ProbeOf
  <2>3. Pdata(dt) \in [refclk : RefClks \cup {0}, prd : 0 .. 16, fbd : 0 .. 512]
    BY <2>1, <2>2 DEF Pdata
  <2>4. QED
    BY <1>2, <2>3 DEF ProbeOf, GoTo, PlaceTyped, Starting
<1>3. CASE ProbeOfUnsupported
  <2>1. pdata' \in [refclk : RefClks \cup {0}, prd : 0 .. 16, fbd : 0 .. 512]
    BY <1>3 DEF ProbeOfUnsupported, PlaceTyped
  <2>2. QED
    BY <1>3, <2>1 DEF ProbeOfUnsupported, GoTo, PlaceTyped, Starting
<1>4. CASE Probing /\ UNCHANGED treeVars
  BY <1>4 DEF Probing, ProbeOfFails, ProbeOf, ProbeOfUnsupported, ReadChipId, MakeObjects, SetUp,
              StartPolling, RegisterCec, SetUpControls, Register, GoTo, Gone, ToErrHdl,
              ToErrWorkQueues, treeVars, PlaceTyped, Starting, Stopping
<1>5. CASE Unbind \/ Ending
  BY <1>5 DEF Unbind, Ending, DeleteTimer, FlushWork, CancelHotplug, Unregister, Free, GoTo, Gone,
              treeVars, PlaceTyped, Stopping
<1>6. CASE UNCHANGED <<at, treeVars>>
  BY <1>6 DEF PlaceTyped, treeVars
<1>7. Probing => ProbeOf \/ ProbeOfUnsupported \/ UNCHANGED treeVars
  BY DEF Probing, ProbeOfFails, ReadChipId, MakeObjects, SetUp, StartPolling, RegisterCec,
         SetUpControls, Register
<1>8. QED
  BY <1>1, <1>2, <1>3, <1>4, <1>5, <1>6, <1>7
     DEF Next, vars, treeVars, TimerFires, TimerRearms, PollBegins, PollEnds, HotplugRuns,
         SEdid, SEdidTransfers, SEdidEnds, Tick

LEMMA RunNext == RunTyped /\ [Next]_vars => RunTyped'
<1> SUFFICES ASSUME RunTyped, [Next]_vars PROVE RunTyped'
  OBVIOUS
<1> USE DEF RunTyped
<1>1. CASE Bind \/ Unbind
  BY <1>1 DEF Bind, Unbind, treeVars, pollVars, callVars, chipVars
<1>2. CASE Probing
  BY <1>2 DEF Probing, ProbeOfFails, ProbeOf, ProbeOfUnsupported, ReadChipId, MakeObjects, SetUp,
                StartPolling, RegisterCec, SetUpControls, Register, GoTo, Gone, ToErrHdl,
                ToErrWorkQueues, treeVars, pollVars, callVars, chipVars
<1>3. CASE Ending
  BY <1>3 DEF Ending, DeleteTimer, FlushWork, CancelHotplug, Unregister, Free, GoTo, Gone,
                treeVars, pollVars, callVars, chipVars
<1>4. CASE TimerFires \/ TimerRearms \/ PollBegins
  BY <1>4 DEF TimerFires, TimerRearms, PollBegins, treeVars, callVars, chipVars
<1>5. CASE PollEnds
  BY <1>5 DEF PollEnds, Schedule, treeVars
<1>6. CASE HotplugRuns
  BY <1>6 DEF HotplugRuns, treeVars, pollVars
<1>7. CASE SEdid
  BY <1>7 DEF SEdid, treeVars, pollVars, chipVars
<1>8. CASE SEdidTransfers
  BY <1>8 DEF SEdidTransfers, Transfer, GoesDown, WritesEdid, treeVars, pollVars
<1>9. CASE Tick
  BY <1>9 DEF Tick, Transfer, GoesDown, WritesEdid, treeVars, pollVars, chipVars
<1>10. CASE SEdidEnds
  BY <1>10 DEF SEdidEnds, Schedule, treeVars, pollVars, chipVars
<1>11. CASE UNCHANGED vars
  BY <1>11 DEF vars
<1>12. QED
  BY <1>1, <1>2, <1>3, <1>4, <1>5, <1>6, <1>7, <1>8, <1>9, <1>10, <1>11 DEF Next

LEMMA CallNext == CallTyped /\ [Next]_vars => CallTyped'
<1> SUFFICES ASSUME CallTyped, [Next]_vars PROVE CallTyped'
  OBVIOUS
<1> USE DEF CallTyped
<1>1. CASE Bind \/ Unbind
  BY <1>1 DEF Bind, Unbind, treeVars, pollVars, callVars, chipVars
<1>2. CASE Probing
  BY <1>2 DEF Probing, ProbeOfFails, ProbeOf, ProbeOfUnsupported, ReadChipId, MakeObjects, SetUp,
                StartPolling, RegisterCec, SetUpControls, Register, GoTo, Gone, ToErrHdl,
                ToErrWorkQueues, treeVars, pollVars, callVars, chipVars
<1>3. CASE Ending
  BY <1>3 DEF Ending, DeleteTimer, FlushWork, CancelHotplug, Unregister, Free, GoTo, Gone,
                treeVars, pollVars, callVars, chipVars
<1>4. CASE TimerFires \/ TimerRearms \/ PollBegins
  BY <1>4 DEF TimerFires, TimerRearms, PollBegins, treeVars, callVars, chipVars
<1>5. CASE PollEnds
  BY <1>5 DEF PollEnds, Schedule, treeVars
<1>6. CASE HotplugRuns
  BY <1>6 DEF HotplugRuns, treeVars, pollVars
<1>7. CASE SEdid
  BY <1>7 DEF SEdid, treeVars, pollVars, chipVars
<1>8. CASE SEdidTransfers
  BY <1>8 DEF SEdidTransfers, Transfer, GoesDown, WritesEdid, treeVars, pollVars
<1>9. CASE Tick
  BY <1>9 DEF Tick, Transfer, GoesDown, WritesEdid, treeVars, pollVars, chipVars
<1>10. CASE SEdidEnds
  BY <1>10 DEF SEdidEnds, Schedule, treeVars, pollVars, chipVars
<1>11. CASE UNCHANGED vars
  BY <1>11 DEF vars
<1>12. QED
  BY <1>1, <1>2, <1>3, <1>4, <1>5, <1>6, <1>7, <1>8, <1>9, <1>10, <1>11 DEF Next

LEMMA ChipNext == ChipTyped /\ [Next]_vars => ChipTyped'
<1> SUFFICES ASSUME ChipTyped, [Next]_vars PROVE ChipTyped'
  OBVIOUS
<1> USE DEF ChipTyped
<1>1. CASE Bind \/ Unbind
  BY <1>1 DEF Bind, Unbind, treeVars, pollVars, callVars, chipVars
<1>2. CASE Probing
  BY <1>2 DEF Probing, ProbeOfFails, ProbeOf, ProbeOfUnsupported, ReadChipId, MakeObjects, SetUp,
                StartPolling, RegisterCec, SetUpControls, Register, GoTo, Gone, ToErrHdl,
                ToErrWorkQueues, treeVars, pollVars, callVars, chipVars
<1>3. CASE Ending
  BY <1>3 DEF Ending, DeleteTimer, FlushWork, CancelHotplug, Unregister, Free, GoTo, Gone,
                treeVars, pollVars, callVars, chipVars
<1>4. CASE TimerFires \/ TimerRearms \/ PollBegins
  BY <1>4 DEF TimerFires, TimerRearms, PollBegins, treeVars, callVars, chipVars
<1>5. CASE PollEnds
  BY <1>5 DEF PollEnds, Schedule, treeVars
<1>6. CASE HotplugRuns
  BY <1>6 DEF HotplugRuns, treeVars, pollVars
<1>7. CASE SEdid
  BY <1>7 DEF SEdid, treeVars, pollVars, chipVars
<1>8. CASE SEdidTransfers
  BY <1>8 DEF SEdidTransfers, Transfer, GoesDown, WritesEdid, treeVars, pollVars
<1>9. CASE Tick
  BY <1>9 DEF Tick, Transfer, GoesDown, WritesEdid, treeVars, pollVars, chipVars
<1>10. CASE SEdidEnds
  BY <1>10 DEF SEdidEnds, Schedule, treeVars, pollVars, chipVars
<1>11. CASE UNCHANGED vars
  BY <1>11 DEF vars
<1>12. QED
  BY <1>1, <1>2, <1>3, <1>4, <1>5, <1>6, <1>7, <1>8, <1>9, <1>10, <1>11 DEF Next

LEMMA BoundNext == BoundTyped /\ [Next]_vars => BoundTyped'
<1> SUFFICES ASSUME BoundTyped, [Next]_vars PROVE BoundTyped'
  OBVIOUS
<1> USE DEF BoundTyped
<1>1. CASE Bind \/ Unbind
  BY <1>1 DEF Bind, Unbind, treeVars, pollVars, callVars, chipVars
<1>2. CASE Probing
  BY <1>2 DEF Probing, ProbeOfFails, ProbeOf, ProbeOfUnsupported, ReadChipId, MakeObjects, SetUp,
                StartPolling, RegisterCec, SetUpControls, Register, GoTo, Gone, ToErrHdl,
                ToErrWorkQueues, treeVars, pollVars, callVars, chipVars
<1>3. CASE Ending
  BY <1>3 DEF Ending, DeleteTimer, FlushWork, CancelHotplug, Unregister, Free, GoTo, Gone,
                treeVars, pollVars, callVars, chipVars
<1>4. CASE TimerFires \/ TimerRearms \/ PollBegins
  BY <1>4 DEF TimerFires, TimerRearms, PollBegins, treeVars, callVars, chipVars
<1>5. CASE PollEnds
  BY <1>5 DEF PollEnds, Schedule, treeVars
<1>6. CASE HotplugRuns
  BY <1>6 DEF HotplugRuns, treeVars, pollVars
<1>7. CASE SEdid
  BY <1>7 DEF SEdid, treeVars, pollVars, chipVars
<1>8. CASE SEdidTransfers
  BY <1>8 DEF SEdidTransfers, Transfer, GoesDown, WritesEdid, treeVars, pollVars
<1>9. CASE Tick
  BY <1>9 DEF Tick, Transfer, GoesDown, WritesEdid, treeVars, pollVars, chipVars
<1>10. CASE SEdidEnds
  BY <1>10 DEF SEdidEnds, Schedule, treeVars, pollVars, chipVars
<1>11. CASE UNCHANGED vars
  BY <1>11 DEF vars
<1>12. QED
  BY <1>1, <1>2, <1>3, <1>4, <1>5, <1>6, <1>7, <1>8, <1>9, <1>10, <1>11 DEF Next

\* Every reachable state is typed; the dividers that probe_of works out fit the
\* four and the nine bits of PLLCTL0, whatever clock and rate it accepts.
THEOREM ProbeTyped == Spec => []TypeOK
<1>1. Init => PlaceTyped /\ FlagsTyped
  <2>1. NoPdata \in [refclk : RefClks \cup {0}, prd : 0 .. 16, fbd : 0 .. 512]
    BY DEF NoPdata
  <2>2. QED
    BY <2>1 DEF Init, PlaceTyped, FlagsTyped, RunTyped, CallTyped, ChipTyped, BoundTyped
<1>2. EdidInv /\ PlaceTyped /\ FlagsTyped => TypeOK
  BY DEF EdidInv, EdidTyped, PlaceTyped, FlagsTyped, RunTyped, CallTyped, ChipTyped,
         BoundTyped, TypeOK
<1>3. QED
  BY <1>1, <1>2, PlaceNext, RunNext, CallNext, ChipNext, BoundNext, EdidInit, EdidNext, PTL
     DEF Spec, FlagsTyped
=============================================================================
