----------------------------- MODULE CsiProofs -----------------------------
(***************************************************************************)
(* Theorems about Csi, for every set of device trees the driver accepts    *)
(* and every timings a call may ask for.                                   *)
(***************************************************************************)
EXTENDS Csi, TLAPS

(* Arithmetic.                                                             *)

\* Multiplying by a number keeps an order.
LEMMA TimesMonotone ==
    ASSUME NEW a \in Nat, NEW b \in Nat, NEW k \in Nat, a <= b
    PROVE  a * k <= b * k
<1>1. PICK d \in Nat : b = a + d
  <2>1. b - a \in Nat /\ b = a + (b - a)
    OBVIOUS
  <2>2. QED
    BY <2>1
<1>2. b * k = a * k + d * k
  BY <1>1
<1>3. d * k \in Nat
  OBVIOUS
<1>4. a * k \in Nat
  OBVIOUS
<1>5. QED
  BY <1>2, <1>3, <1>4

\* A quotient and its remainder.
LEMMA Quotient ==
    ASSUME NEW n \in Nat, NEW d \in Nat \ {0}
    PROVE  /\ n \div d \in Nat
           /\ (n \div d) * d <= n
           /\ n < (n \div d) * d + d
BY SMT

\* Half a frame more than the clock is all that rounding can add.
LEMMA RoundedRate ==
    ASSUME NEW p \in Nat, NEW frame \in Nat \ {0}, p <= frame, NEW c \in Nat,
           NEW f \in Nat, f = (c + frame \div 2) \div frame
    PROVE  2 * (p * f) <= 2 * c + p
<1>1. frame \div 2 \in Nat /\ 2 * (frame \div 2) <= frame
  OBVIOUS
<1>2. f * frame <= c + frame \div 2
  BY <1>1, Quotient
<1>3. CASE f = 0
  BY <1>3
<1>4. CASE f # 0
  <2> DEFINE g == 2 * f - 1
  <2>1. g \in Nat
    BY <1>4
  <2>2. p * g <= frame * g
    BY <2>1, TimesMonotone
  <2>3. p * g = 2 * (p * f) - p
    OBVIOUS
  <2>4. frame * g = 2 * (f * frame) - frame
    OBVIOUS
  <2>5. p * f \in Nat /\ f * frame \in Nat
    OBVIOUS
  <2> HIDE DEF g
  <2>6. QED
    BY <1>1, <1>2, <2>2, <2>3, <2>4, <2>5
<1>5. QED
  BY <1>3, <1>4

LEMMA SizesTyped ==
    ASSUME NEW t \in AllTimings
    PROVE  /\ t.width * t.height \in Nat
           /\ FrameSize(t) \in Nat
           /\ t.width * t.height <= FrameSize(t)
           /\ t.clock \in Nat
<1> USE DEF AllTimings
<1>1. /\ t.width \in Nat /\ t.height \in Nat /\ t.hblank \in Nat /\ t.vblank \in Nat
      /\ t.clock \in Nat
  OBVIOUS
<1>2. FrameSize(t) = t.width * t.height + t.width * t.vblank + t.hblank * t.height
                     + t.hblank * t.vblank
  BY <1>1 DEF FrameSize
<1>3. /\ t.width * t.height \in Nat /\ t.width * t.vblank \in Nat
      /\ t.hblank * t.height \in Nat /\ t.hblank * t.vblank \in Nat
  BY <1>1
<1>4. QED
  BY <1>1, <1>2, <1>3

\* fps() overshoots the pixel clock by half a picture at most.
LEMMA FpsBound ==
    ASSUME NEW t \in AllTimings
    PROVE  /\ Fps(t) \in Nat
           /\ 2 * (t.width * t.height * Fps(t)) <= 2 * t.clock + t.width * t.height
<1>1. CASE FrameSize(t) = 0
  <2>1. Fps(t) = 0
    BY <1>1 DEF Fps
  <2>2. t.width * t.height * 0 = 0
    BY SizesTyped
  <2>3. QED
    BY <2>1, <2>2, SizesTyped
<1>2. CASE FrameSize(t) # 0
  <2>1. FrameSize(t) \div 2 \in Nat
    BY SizesTyped
  <2>2. t.clock + FrameSize(t) \div 2 \in Nat
    BY <2>1, SizesTyped
  <2>3. Fps(t) \in Nat
    BY <1>2, <2>2, SizesTyped, Quotient DEF Fps
  <2>4. QED
    BY <1>2, <2>3, SizesTyped, RoundedRate DEF Fps
<1>3. QED
  BY <1>1, <1>2

\* The rate of a lane, in octets, on any board the driver accepts.
LaneOctets(p) == LaneRate(p) \div 8

LEMMA LaneRates ==
    ASSUME NEW d \in DeviceTrees
    PROVE  /\ LaneOctets(Pdata(d)) \in Nat
           /\ 5250000 <= LaneOctets(Pdata(d)) /\ LaneOctets(Pdata(d)) <= 125000000
<1> DEFINE q == Bps(d) \div d.refclk
<1>1. /\ Supported(d.refclk)
      /\ Bps(d) \in Nat /\ 62500000 <= Bps(d) /\ Bps(d) <= 1000000000
  BY CsiAssumption, SMT DEF Bps, RateAllowed
<1>2. /\ q \in Nat
      /\ q * d.refclk <= Bps(d) /\ Bps(d) < q * d.refclk + d.refclk
  <2>1. d.refclk \in Nat \ {0}
    BY <1>1, SMT DEF Supported
  <2>2. QED
    BY <1>1, <2>1, Quotient, SMT
<1>3. LaneOctets(Pdata(d)) = ((d.refclk \div PllPrd(d.refclk)) * (q * PllPrd(d.refclk))) \div 8
  BY SMT DEF LaneOctets, LaneRate, PllInput, Pdata, PllFbd
<1> HIDE DEF q
<1>4. CASE d.refclk = 26000000
  <2>1. PllPrd(d.refclk) = 4 /\ d.refclk \div PllPrd(d.refclk) = 6500000
    BY <1>4, SMT DEF PllPrd
  <2>2. LaneOctets(Pdata(d)) = 3250000 * q
    BY <1>2, <1>3, <2>1, SMT
  <2>3. q * 26000000 <= 1000000000 /\ 62500000 < q * 26000000 + 26000000
    BY <1>1, <1>2, <1>4, SMT
  <2>4. 2 <= q /\ q <= 38
    BY <1>2, <2>3, SMT
  <2>5. QED
    BY <1>2, <2>2, <2>4, SMT
<1>5. CASE d.refclk = 27000000
  <2>1. PllPrd(d.refclk) = 4 /\ d.refclk \div PllPrd(d.refclk) = 6750000
    BY <1>5, SMT DEF PllPrd
  <2>2. LaneOctets(Pdata(d)) = 3375000 * q
    BY <1>2, <1>3, <2>1, SMT
  <2>3. q * 27000000 <= 1000000000 /\ 62500000 < q * 27000000 + 27000000
    BY <1>1, <1>2, <1>5, SMT
  <2>4. 2 <= q /\ q <= 37
    BY <1>2, <2>3, SMT
  <2>5. QED
    BY <1>2, <2>2, <2>4, SMT
<1>6. CASE d.refclk = 42000000
  <2>1. PllPrd(d.refclk) = 7 /\ d.refclk \div PllPrd(d.refclk) = 6000000
    BY <1>6, SMT DEF PllPrd
  <2>2. LaneOctets(Pdata(d)) = 5250000 * q
    BY <1>2, <1>3, <2>1, SMT
  <2>3. q * 42000000 <= 1000000000 /\ 62500000 < q * 42000000 + 42000000
    BY <1>1, <1>2, <1>6, SMT
  <2>4. 1 <= q /\ q <= 23
    BY <1>2, <2>3, SMT
  <2>5. QED
    BY <1>2, <2>2, <2>4, SMT
<1>7. QED
  BY <1>1, <1>4, <1>5, <1>6, SMT DEF Supported

\* Rounding up, while the sum does not wrap.
LEMMA RoundingUp ==
    ASSUME NEW n \in Nat, NEW lane \in Nat \ {0}, n + lane - 1 < Word
    PROVE  n <= (((n + lane - 1) % Word) \div lane) * lane
<1>1. n + lane - 1 \in Nat /\ Word \in Nat
  BY DEF Word, SMT
<1>2. (n + lane - 1) % Word = n + lane - 1
  BY <1>1, SMT
<1>3. PICK q \in Nat : /\ q = (n + lane - 1) \div lane
                       /\ n + lane - 1 < q * lane + lane
  BY <1>1, Quotient, SMT
<1>4. q * lane \in Nat
  OBVIOUS
<1>5. QED
  BY <1>2, <1>3, <1>4, SMT

-----------------------------------------------------------------------------

\* Timings within the cap, or what a torn access makes of them.
Bounded(t) == /\ t \in AllTimings
              /\ t.width <= 1920 /\ t.height <= 1200 /\ t.clock <= 165000000

LEMMA CapBounds ==
    ASSUME NEW t \in AllTimings, InCap(t)
    PROVE  Bounded(t)
<1>1. t.width \in Nat /\ t.height \in Nat /\ t.clock \in Nat
  BY DEF AllTimings
<1>2. t.width <= 1920 /\ t.height <= 1200
  BY <1>1, SMT DEF InCap
<1>3. t.clock <= 165000000
  BY <1>1, SMT DEF InCap
<1>4. QED
  BY <1>2, <1>3 DEF Bounded

\* With two octets to a pixel no timings come near 2^32 bits a second.
LEMMA OctetsBound ==
    ASSUME NEW t, Bounded(t)
    PROVE  Octets(t, Uyvy) \in Nat /\ Octets(t, Uyvy) <= 332304000
<1>1. /\ t \in AllTimings /\ t.width \in Nat /\ t.height \in Nat /\ t.clock \in Nat
      /\ t.width <= 1920 /\ t.height <= 1200 /\ t.clock <= 165000000
  BY SMT DEF Bounded, AllTimings
<1>2. t.width * t.height <= 2304000
  <2>1. t.width * t.height <= 1920 * t.height
    BY <1>1, TimesMonotone, SMT
  <2>2. t.height * 1920 <= 1200 * 1920
    BY <1>1, TimesMonotone, SMT
  <2>3. QED
    BY <1>1, <2>1, <2>2, SMT
<1>3. /\ Fps(t) \in Nat /\ t.width * t.height \in Nat
      /\ 2 * (t.width * t.height * Fps(t)) <= 2 * t.clock + t.width * t.height
  BY <1>1, FpsBound, SizesTyped
<1>4. Octets(t, Uyvy) = 2 * (t.width * t.height * Fps(t))
  BY <1>1, <1>3, SMT DEF Octets, PixelOctets
<1>5. t.width * t.height * Fps(t) \in Nat
  BY <1>3, SMT
<1> DEFINE n == t.width * t.height * Fps(t)
           s == t.width * t.height
<1>6. n \in Nat /\ s \in Nat /\ s <= 2304000 /\ 2 * n <= 2 * t.clock + s
  BY <1>2, <1>3, <1>5
<1> HIDE DEF n, s
<1>7. 2 * n <= 332304000
  BY <1>1, <1>6, SMT
<1>8. QED
  BY <1>4, <1>6, <1>7, SMT DEF n

\* So the lanes that are worked out for it carry it.
LEMMA LanesCarry ==
    ASSUME NEW t, Bounded(t), NEW d \in DeviceTrees
    PROVE  Octets(t, Uyvy) <= LanesNeeded(t, Uyvy, Pdata(d)) * LaneOctets(Pdata(d))
<1>1. /\ Octets(t, Uyvy) \in Nat
      /\ LaneOctets(Pdata(d)) \in Nat \ {0}
      /\ Octets(t, Uyvy) + LaneOctets(Pdata(d)) - 1 < Word
  BY OctetsBound, LaneRates, SMT DEF Word
<1>2. QED
  BY <1>1, RoundingUp DEF LanesNeeded, LaneOctets

\* Whatever wraps, the number of lanes fits a u8.
LEMMA LanesBound ==
    ASSUME NEW t \in AllTimings, NEW c, NEW d \in DeviceTrees
    PROVE  LanesNeeded(t, c, Pdata(d)) \in 0 .. 255
<1> DEFINE lane == LaneOctets(Pdata(d))
           n == (Octets(t, c) + lane - 1) % Word
<1>1. lane \in Nat \ {0} /\ 5250000 <= lane
  BY LaneRates, SMT
<1>2. Octets(t, c) \in Nat
  <2>1. PixelOctets(c) \in Nat
    BY DEF PixelOctets
  <2>2. QED
    BY <2>1, FpsBound, SizesTyped DEF Octets
<1>3. n \in Nat /\ n < 536870912
  <2> HIDE DEF lane
  <2>1. Octets(t, c) + lane - 1 \in Nat
    BY <1>1, <1>2
  <2>2. QED
    BY <2>1, SMT DEF Word
<1>4. LanesNeeded(t, c, Pdata(d)) = n \div lane
  BY DEF LanesNeeded, LaneOctets
<1> HIDE DEF n, lane
<1>5. PICK q \in Nat : q = n \div lane /\ q * lane <= n
  BY <1>1, <1>3, Quotient
<1>6. 5250000 * q <= lane * q
  BY <1>1, <1>5, TimesMonotone, SMT
<1>7. q <= 255
  BY <1>1, <1>3, <1>5, <1>6, SMT
<1>8. QED
  BY <1>4, <1>5, <1>7

-----------------------------------------------------------------------------
(* Typing.                                                                 *)

Calls == {"none", "timings", "fmt", "on", "off"}
Places == {"idle", "store", "mute", "take", "write", "pll", "lanes", "tx", "sel",
           "takefmt", "writefmt"}
Requests == [op : Calls, at : Places, arg : AllTimings, torn : BOOLEAN, seen : Buffers]
Services == [at : {"idle", "take", "write"}, seen : Buffers]

\* TypeOK as an induction needs it: the records of the two threads are records.
Typed == TypeOK /\ req \in Requests /\ isr \in Services

LEMMA Constants ==
    /\ NoTimings \in AllTimings /\ BootTimings \in AllTimings
    /\ NoBuffers \in Buffers
    /\ NoReq \in Requests
    /\ NoIsr \in Services
<1>1. NoTimings \in AllTimings /\ BootTimings \in AllTimings
  BY SMT DEF NoTimings, BootTimings, AllTimings
<1>2. NoBuffers \in Buffers
  BY DEF NoBuffers, Buffers, Codes
<1>3. NoReq \in Requests
  BY <1>1, <1>2 DEF NoReq, Requests, Calls, Places
<1>4. QED
  BY <1>1, <1>2, <1>3 DEF NoIsr, Services

\* What Enter leaves of the call.
LEMMA Entered ==
    ASSUME req \in Requests, timings \in AllTimings, NEW place \in Places, Enter(place)
    PROVE  /\ req' \in Requests
           /\ req'.at = place
           /\ place = "idle" => req' = NoReq
           /\ place # "idle" =>
                /\ req'.op = req.op /\ req'.seen = req.seen /\ ~req'.torn
                /\ req'.arg = IF place = "lanes" THEN timings ELSE NoTimings
<1>1. CASE place = "idle"
  BY <1>1, Constants DEF Enter, NoReq
<1>2. CASE place # "idle"
  BY <1>2, Constants DEF Enter, Requests
<1>3. QED
  BY <1>1, <1>2

LEMMA AccessedTyped ==
    ASSUME req \in Requests
    PROVE  Accessed \subseteq AllTimings
<1>1. req.arg \in AllTimings
  BY DEF Requests
<1>2. Mix(req.arg, NoTimings) \subseteq AllTimings
  BY <1>1, Constants, SMT DEF Mix, AllTimings
<1>3. QED
  BY <1>1, <1>2 DEF Accessed

\* A transmitter is one whatever it is programmed for.
LEMMA TransmitterTyped ==
    ASSUME NEW n
    PROVE  /\ Transmitter(n).on \subseteq 0 .. 3
           /\ Transmitter(n).supplied \subseteq 0 .. 3
           /\ Transmitter(n).nol \in 1 .. 4
BY SMT DEF Transmitter

LEMMA TypedInit == Init => Typed
<1> SUFFICES ASSUME Init PROVE Typed
  OBVIOUS
<1> USE DEF Init
<1>1. PICK d \in DeviceTrees : pdata = Pdata(d)
  OBVIOUS
<1>2. lanes \in 0 .. 255
  BY <1>1, LanesBound, Constants
<1>3. tx.on \subseteq 0 .. 3 /\ tx.supplied \subseteq 0 .. 3 /\ tx.nol \in 1 .. 4
  BY TransmitterTyped
<1>4. timings \in AllTimings /\ code \in Codes /\ sel \in Codes /\ muted \in BOOLEAN
  BY Constants DEF Codes
<1>5. confctl \in Buffers /\ req.seen \in Buffers /\ isr.seen \in Buffers
  BY Constants DEF NoReq, NoIsr
<1>6. QED
  BY <1>2, <1>3, <1>4, <1>5, Constants DEF Typed, TypeOK

LEMMA TypedNext == Typed /\ [Next]_vars => Typed'
<1> SUFFICES ASSUME Typed, [Next]_vars PROVE Typed'
  OBVIOUS
<1>1. /\ TypeOK /\ req \in Requests /\ isr \in Services /\ timings \in AllTimings
      /\ confctl \in Buffers
  BY DEF Typed, TypeOK
<1>2. CASE Call
  <2>1. ASSUME NEW op \in Calls, NEW place \in Places, NEW arg \in AllTimings,
               req' = [NoReq EXCEPT !.op = op, !.at = place, !.arg = arg], place # "idle"
        PROVE  req' \in Requests /\ req'.seen \in Buffers /\ req'.at # "idle"
    BY <2>1, Constants DEF NoReq, Requests
  <2>2. ASSUME NEW t \in Timings, SDvTimings(t) PROVE Typed'
    <3>1. t \in AllTimings
      BY CsiAssumption
    <3>2. req' \in Requests /\ req'.seen \in Buffers /\ req'.at # "idle"
      BY <2>1, <2>2, <3>1 DEF SDvTimings, Begin, Calls, Places
    <3>3. QED
      BY <1>1, <2>2, <3>2 DEF SDvTimings, Begin, stateVars, regVars, Typed, TypeOK
  <2>3. ASSUME NEW c \in Codes, SetFmt(c) PROVE Typed'
    <3>1. req' \in Requests /\ req'.seen \in Buffers /\ req'.at # "idle"
      BY <2>3, Constants DEF SetFmt, NoReq, Requests, Calls, Places
    <3>2. QED
      BY <1>1, <2>3, <3>1 DEF SetFmt, regVars, Typed, TypeOK
  <2>4. ASSUME NEW enable \in BOOLEAN, SStream(enable) PROVE Typed'
    <3>1. req' \in Requests /\ req'.seen \in Buffers /\ req'.at # "idle"
      BY <2>1, <2>4, Constants DEF SStream, Begin, Calls, Places
    <3>2. QED
      BY <1>1, <2>4, <3>1 DEF SStream, Begin, stateVars, regVars, Typed, TypeOK
  <2>5. QED
    BY <1>2, <2>2, <2>3, <2>4 DEF Call
<1>3. ASSUME NEW place \in Places, Enter(place)
      PROVE  req' \in Requests /\ req'.seen \in Buffers /\ (req'.at = "idle" => req' = NoReq)
  <2>1. req' \in Requests /\ (req'.at = "idle" => req' = NoReq)
    BY <1>1, <1>3, Entered
  <2>2. QED
    BY <2>1 DEF Requests
<1>4. CASE StoreTimings
  <2>1. timings' \in AllTimings
    BY <1>1, <1>4, AccessedTyped DEF StoreTimings
  <2>2. QED
    BY <1>1, <1>3, <1>4, <2>1 DEF StoreTimings, Places, regVars, Typed, TypeOK
<1>5. CASE Mute
  <2>1. muted' \in BOOLEAN
    BY <1>5 DEF Mute
  <2>2. QED
    BY <1>1, <1>3, <1>5, <2>1 DEF Mute, Places, stateVars, Typed, TypeOK
<1>6. CASE TakeConfctl
  <2>1. req' \in Requests /\ req'.seen \in Buffers /\ req'.at # "idle"
    BY <1>1, <1>6 DEF TakeConfctl, Requests, Places
  <2>2. QED
    BY <1>1, <1>6, <2>1 DEF TakeConfctl, stateVars, regVars, Typed, TypeOK
<1>7. CASE WriteBuffers
  <2>1. confctl' \in Buffers
    BY <1>1, <1>7 DEF WriteBuffers, Requests, Buffers
  <2>2. PICK place \in Places : Enter(place)
    BY <1>7 DEF WriteBuffers, Places
  <2>3. QED
    BY <1>1, <1>3, <1>7, <2>1, <2>2 DEF WriteBuffers, stateVars, Typed, TypeOK
<1>8. CASE SetPll
  BY <1>1, <1>3, <1>8 DEF SetPll, Places, stateVars, Typed, TypeOK
<1>9. CASE NeedLanes
  <2>1. PICK t \in AllTimings, d \in DeviceTrees :
            lanes' = LanesNeeded(t, code, Pdata(d))
    BY <1>1, <1>9, AccessedTyped DEF NeedLanes, TypeOK
  <2>2. lanes' \in 0 .. 255
    BY <2>1, LanesBound
  <2>3. QED
    BY <1>1, <1>3, <1>9, <2>2 DEF NeedLanes, Places, regVars, Typed, TypeOK
<1>10. CASE ProgramTx
  <2>1. tx'.on \subseteq 0 .. 3 /\ tx'.supplied \subseteq 0 .. 3 /\ tx'.nol \in 1 .. 4
    BY <1>10, TransmitterTyped DEF ProgramTx
  <2>2. PICK place \in Places : Enter(place)
    BY <1>10 DEF ProgramTx, Places
  <2>3. QED
    BY <1>1, <1>3, <1>10, <2>1, <2>2 DEF ProgramTx, stateVars, Typed, TypeOK
<1>11. CASE SelectColour
  BY <1>1, <1>3, <1>11 DEF SelectColour, Places, stateVars, Typed, TypeOK
<1>12. CASE WriteFormat
  <2>1. confctl' \in Buffers
    BY <1>1, <1>12 DEF WriteFormat, TypeOK, Requests, Buffers
  <2>2. QED
    BY <1>1, <1>3, <1>12, <2>1 DEF WriteFormat, Places, stateVars, Typed, TypeOK
<1>13. CASE Isr
  <2>1. CASE IsrMutes
    <3>1. isr' \in Services /\ isr'.seen \in Buffers
      BY <1>1, <2>1 DEF IsrMutes, Services
    <3>2. QED
      BY <1>1, <2>1, <3>1 DEF IsrMutes, stateVars, Typed, TypeOK
  <2>2. CASE IsrTakes
    <3>1. isr' \in Services /\ isr'.seen \in Buffers
      BY <1>1, <2>2 DEF IsrTakes, Services
    <3>2. QED
      BY <1>1, <2>2, <3>1 DEF IsrTakes, stateVars, regVars, Typed, TypeOK
  <2>3. CASE IsrWrites
    <3>1. confctl' \in Buffers /\ isr' \in Services /\ isr'.seen \in Buffers
      BY <1>1, <2>3, Constants DEF IsrWrites, Services, Buffers, NoIsr
    <3>2. QED
      BY <1>1, <2>3, <3>1 DEF IsrWrites, stateVars, Typed, TypeOK
  <2>4. CASE IsrUnplugs
    <3>1. req' \in Requests /\ req'.seen \in Buffers /\ req'.at = req.at
      BY <1>1, <2>4 DEF IsrUnplugs, Requests
    <3>2. ASSUME req.at = "idle" PROVE req' = NoReq
      <4>1. req = NoReq
        BY <1>1, <3>2 DEF TypeOK
      <4>2. (req.torn \/ req.at \in {"store", "lanes"}) = FALSE
        BY <4>1 DEF NoReq
      <4>3. req' \in Requests /\ NoReq \in Requests
        BY <3>1, Constants
      <4>4. /\ req'.op = NoReq.op /\ req'.at = NoReq.at /\ req'.arg = NoReq.arg
            /\ req'.torn = NoReq.torn /\ req'.seen = NoReq.seen
        <5>1. req' = [NoReq EXCEPT !.torn = FALSE]
          BY <2>4, <4>1, <4>2, Zenon DEF IsrUnplugs
        <5>2. QED
          BY <5>1 DEF NoReq
      <4>5. QED
        BY <4>3, <4>4 DEF Requests
    <3>3. timings' \in AllTimings
      BY <2>4, Constants DEF IsrUnplugs
    <3>4. QED
      BY <1>1, <2>4, <3>1, <3>2, <3>3 DEF IsrUnplugs, regVars, Typed, TypeOK
  <2>5. QED
    BY <1>13, <2>1, <2>2, <2>3, <2>4 DEF Isr
<1>14. CASE UNCHANGED vars
  BY <1>1, <1>14 DEF vars, stateVars, regVars, Typed, TypeOK
<1>15. QED
  BY <1>2, <1>4, <1>5, <1>6, <1>7, <1>8, <1>9, <1>10, <1>11, <1>12, <1>13, <1>14
     DEF Next, CallStep

\* The variables keep their types, and no board and no mode ever asks for more
\* lanes than fit the driver's u8, though the sum wraps (num_csi_lanes_needed).
THEOREM Typing == Spec => []TypeOK
<1>1. Typed => TypeOK
  BY DEF Typed
<1>2. QED
  BY <1>1, TypedInit, TypedNext, PTL DEF Spec

-----------------------------------------------------------------------------
(* The registers and what the driver believes of them.                     *)

\* Between two calls, and in a call until set_csi counts anew, the transmitter
\* is as it was programmed for the lanes in use.
TxFollows == At("tx") \/ tx = Transmitter(lanes)

LEMMA TxFollowsInit == Init => TxFollows
BY DEF Init, TxFollows

LEMMA TxFollowsNext == Typed /\ TxFollows /\ [Next]_vars => TxFollows'
<1> SUFFICES ASSUME Typed, TxFollows, [Next]_vars PROVE TxFollows'
  OBVIOUS
<1>1. req \in Requests /\ timings \in AllTimings
  BY DEF Typed, TypeOK
<1>2. CASE NeedLanes
  <2>1. req'.at = "tx"
    BY <1>1, <1>2, Entered DEF NeedLanes, Places
  <2>2. QED
    BY <2>1 DEF TxFollows, At
<1>3. CASE ProgramTx
  BY <1>3 DEF ProgramTx, TxFollows, stateVars
<1>4. ASSUME lanes' = lanes, tx' = tx, req.at # "tx"
      PROVE  TxFollows'
  BY <1>4 DEF TxFollows, At
<1>5. CASE Call
  BY <1>4, <1>5 DEF Call, SDvTimings, SetFmt, SStream, Begin, At, stateVars, regVars
<1>6. CASE StoreTimings \/ Mute \/ TakeConfctl \/ WriteBuffers \/ SetPll \/ SelectColour
           \/ WriteFormat
  BY <1>4, <1>6 DEF StoreTimings, Mute, TakeConfctl, WriteBuffers, SetPll, SelectColour,
                    WriteFormat, At, stateVars, regVars
<1>7. ASSUME lanes' = lanes, tx' = tx, req'.at = req.at
      PROVE  TxFollows'
  BY <1>7 DEF TxFollows, At
<1>8. CASE Isr
  <2>1. CASE IsrUnplugs
    <3>1. req'.at = req.at
      BY <1>1, <2>1 DEF IsrUnplugs, Requests
    <3>2. QED
      BY <1>7, <2>1, <3>1 DEF IsrUnplugs, regVars
  <2>2. CASE IsrMutes \/ IsrTakes \/ IsrWrites
    BY <1>7, <2>2 DEF IsrMutes, IsrTakes, IsrWrites, stateVars, regVars
  <2>3. QED
    BY <1>8, <2>1, <2>2 DEF Isr
<1>9. CASE UNCHANGED vars
  BY <1>7, <1>9 DEF vars, stateVars, regVars
<1>10. QED
  BY <1>2, <1>3, <1>5, <1>6, <1>8, <1>9 DEF Next, CallStep

\* Between two calls the lanes that are on, supplied and counted are those the
\* receiver is told of, on every board and for every history of modes (set_csi).
THEOREM LanesKept == Spec => []LanesAgree
<1>1. Typed /\ TxFollows => LanesAgree
  <2> SUFFICES ASSUME TxFollows, At("idle"), lanes \in 1 .. 4
               PROVE  tx = [clock |-> TRUE, on |-> 0 .. lanes - 1,
                            supplied |-> 0 .. lanes - 1, nol |-> lanes]
    BY DEF LanesAgree
  <2>1. tx = Transmitter(lanes)
    BY DEF TxFollows, At
  <2>2. {d \in 0 .. 3 : d < lanes} = 0 .. lanes - 1
    OBVIOUS
  <2>3. (lanes >= 1) = TRUE
    OBVIOUS
  <2>4. (IF lanes \in 2 .. 4 THEN lanes ELSE 1) = lanes
    OBVIOUS
  <2>5. QED
    BY <2>1, <2>2, <2>3, <2>4, Zenon DEF Transmitter
<1>2. QED
  BY <1>1, TypedInit, TypedNext, TxFollowsInit, TxFollowsNext, PTL DEF Spec

-----------------------------------------------------------------------------

CallWrites == At("write") \/ At("writefmt")

\* Whoever is between reading CONFCTL and writing it back is alone, and has read
\* what is in it; the output is in a format other than the driver's only while
\* set_fmt is under way.
ColourFollows ==
    /\ isr.at = "write" => isr.seen = confctl
    /\ CallWrites => req.seen = confctl
    /\ ~(CallWrites /\ isr.at = "write")
    /\ req.op # "fmt" => sel = code /\ confctl.fmt = code
    /\ At("takefmt") \/ At("writefmt") => sel = code

LEMMA ColourFollowsInit == Init => ColourFollows
BY DEF Init, ColourFollows, CallWrites, At, NoReq, NoIsr, NoBuffers

LEMMA ColourFollowsNext == Typed /\ ColourFollows /\ [Next]_vars => ColourFollows'
<1> SUFFICES ASSUME Typed, ColourFollows, [Next]_vars PROVE ColourFollows'
  OBVIOUS
<1> USE DEF ColourFollows, CallWrites, At
<1>1. /\ req \in Requests /\ isr \in Services /\ timings \in AllTimings
      /\ confctl \in Buffers
      /\ req.at = "idle" => req.op = "none"
  BY DEF Typed, TypeOK, NoReq
<1>2. ASSUME NEW op, NEW place, NEW arg, req' = [NoReq EXCEPT !.op = op, !.at = place, !.arg = arg]
      PROVE  req'.op = op /\ req'.at = place
  BY <1>2 DEF NoReq
<1>3. CASE Call
  <2>1. ASSUME req.at = "idle", req'.at \in {"store", "mute"}, UNCHANGED <<confctl, isr, sel>>,
               req'.op = "fmt" \/ code' = code
        PROVE  ColourFollows'
    BY <1>1, <2>1
  <2>2. ASSUME NEW t \in Timings, SDvTimings(t) PROVE ColourFollows'
    BY <1>2, <2>1, <2>2 DEF SDvTimings, Begin, stateVars, regVars
  <2>3. ASSUME NEW c \in Codes, SetFmt(c) PROVE ColourFollows'
    <3>1. req'.op = "fmt" /\ req'.at = "mute"
      BY <2>3 DEF SetFmt, NoReq
    <3>2. QED
      BY <2>1, <2>3, <3>1 DEF SetFmt, regVars
  <2>4. ASSUME NEW enable \in BOOLEAN, SStream(enable) PROVE ColourFollows'
    BY <1>2, <2>1, <2>4 DEF SStream, Begin, stateVars, regVars
  <2>5. QED
    BY <1>3, <2>2, <2>3, <2>4 DEF Call
<1>4. ASSUME NEW place \in Places, Enter(place)
      PROVE  /\ req'.at = place
             /\ req'.op \in {"none", req.op}
             /\ place # "idle" => req'.op = req.op
  BY <1>1, <1>4, Entered DEF NoReq
<1>5. CASE StoreTimings
  BY <1>4, <1>5 DEF StoreTimings, Places, regVars
<1>6. CASE Mute
  BY <1>4, <1>6 DEF Mute, Places, stateVars
<1>7. CASE TakeConfctl
  <2>1. /\ req'.at \in {"write", "writefmt"} /\ req'.seen = confctl /\ req'.op = req.op
        /\ req'.at = "writefmt" => req.at = "takefmt"
    BY <1>1, <1>7 DEF TakeConfctl, Requests
  <2>2. QED
    BY <1>7, <2>1 DEF TakeConfctl, Unlocked, stateVars, regVars
<1>8. CASE WriteBuffers
  <2>1. confctl'.fmt = confctl.fmt
    BY <1>1, <1>8 DEF WriteBuffers, Requests, Buffers
  <2>2. PICK place \in Places \ {"takefmt", "writefmt", "write"} : Enter(place)
    BY <1>8 DEF WriteBuffers, Places
  <2>3. req.op # "fmt" => req'.op # "fmt"
    BY <1>4, <2>2
  <2>4. req.op = "fmt" => req'.op = "fmt"
    <3>1. req.op = "fmt" => Enter("pll")
      BY <1>8 DEF WriteBuffers
    <3>2. QED
      BY <1>4, <3>1 DEF Places
  <2>5. req'.at \notin {"takefmt", "writefmt", "write"}
    BY <1>4, <2>2
  <2>6. QED
    BY <1>8, <2>1, <2>3, <2>4, <2>5 DEF WriteBuffers, stateVars
<1>9. CASE SetPll
  BY <1>4, <1>9 DEF SetPll, Places, stateVars
<1>10. CASE NeedLanes
  BY <1>4, <1>10 DEF NeedLanes, Places, regVars
<1>11. CASE ProgramTx
  <2>1. CASE req.op = "fmt"
    BY <1>4, <1>11, <2>1 DEF ProgramTx, Places, stateVars
  <2>2. CASE req.op # "fmt"
    BY <1>4, <1>11, <2>2 DEF ProgramTx, Places, stateVars
  <2>3. QED
    BY <2>1, <2>2
<1>12. CASE SelectColour
  BY <1>4, <1>12 DEF SelectColour, Places, stateVars
<1>13. CASE WriteFormat
  <2>1. confctl'.fmt = code
    BY <1>1, <1>13 DEF WriteFormat, Requests, Buffers
  <2>2. QED
    BY <1>4, <1>13, <2>1 DEF WriteFormat, Places, stateVars
<1>14. CASE Isr
  <2>1. CASE IsrMutes
    <3>1. isr'.at = "take"
      BY <1>1, <2>1 DEF IsrMutes, Services
    <3>2. QED
      BY <2>1, <3>1 DEF IsrMutes, stateVars
  <2>2. CASE IsrTakes
    BY <2>2 DEF IsrTakes, Unlocked, stateVars, regVars
  <2>3. CASE IsrWrites
    <3>1. confctl'.fmt = confctl.fmt
      BY <1>1, <2>3 DEF IsrWrites, Buffers
    <3>2. isr'.at = "idle"
      BY <2>3 DEF IsrWrites, NoIsr
    <3>3. QED
      BY <2>3, <3>1, <3>2 DEF IsrWrites, stateVars
  <2>4. CASE IsrUnplugs
    <3>1. req'.at = req.at /\ req'.op = req.op /\ req'.seen = req.seen
      BY <1>1, <2>4 DEF IsrUnplugs, Requests
    <3>2. QED
      BY <2>4, <3>1 DEF IsrUnplugs, regVars
  <2>5. QED
    BY <1>14, <2>1, <2>2, <2>3, <2>4 DEF Isr
<1>15. CASE UNCHANGED vars
  BY <1>15 DEF vars, stateVars, regVars
<1>16. QED
  BY <1>3, <1>5, <1>6, <1>7, <1>8, <1>9, <1>10, <1>11, <1>12, <1>13, <1>14, <1>15
     DEF Next, CallStep

\* However the service routine crosses set_fmt, the output has the format that
\* get_fmt reports once no call is under way (set_csi_color_space, confctl_mutex).
THEOREM ColourHeld == Spec => []ColourKept
<1>1. Typed /\ ColourFollows => ColourKept
  BY DEF Typed, TypeOK, ColourFollows, ColourKept, At, NoReq
<1>2. QED
  BY <1>1, TypedInit, TypedNext, ColourFollowsInit, ColourFollowsNext, PTL DEF Spec

-----------------------------------------------------------------------------
(* The lanes in use and the mode they carry.                               *)

LEMMA NothingBounded == Bounded(NoTimings) /\ Octets(NoTimings, Uyvy) = 0
<1>1. /\ NoTimings.width = 0 /\ NoTimings.height = 0 /\ NoTimings.hblank = 0
      /\ NoTimings.vblank = 0 /\ NoTimings.clock = 0
  BY DEF NoTimings
<1>2. Fps(NoTimings) = 0
  BY <1>1, SMT DEF Fps, FrameSize
<1>3. Octets(NoTimings, Uyvy) = 0
  BY <1>1, <1>2, SMT DEF Octets, PixelOctets
<1>4. QED
  BY <1>1, <1>3, Constants, SMT DEF Bounded

\* Torn timings are no larger than whole ones.
LEMMA AccessedBounded ==
    ASSUME req \in Requests, Bounded(req.arg)
    PROVE  \A t \in Accessed : Bounded(t)
<1>1. Accessed \subseteq AllTimings
  BY AccessedTyped
<1>2. /\ NoTimings.width = 0 /\ NoTimings.height = 0 /\ NoTimings.clock = 0
  BY DEF NoTimings
<1>3. ASSUME NEW t \in Mix(req.arg, NoTimings)
      PROVE  /\ t.width \in {req.arg.width, 0} /\ t.height \in {req.arg.height, 0}
             /\ t.clock \in {req.arg.clock, 0}
  BY <1>2 DEF Mix
<1>4. ASSUME NEW t \in Mix(req.arg, NoTimings)
      PROVE  t.width <= 1920 /\ t.height <= 1200 /\ t.clock <= 165000000
  BY <1>3, SMT DEF Bounded
<1>5. ASSUME NEW t \in Accessed PROVE Bounded(t)
  <2>1. CASE req.torn
    <3>1. t \in Mix(req.arg, NoTimings)
      BY <1>5, <2>1 DEF Accessed
    <3>2. QED
      BY <1>1, <1>4, <1>5, <3>1 DEF Bounded
  <2>2. CASE ~req.torn
    BY <1>5, <2>2 DEF Accessed
  <2>3. QED
    BY <2>1, <2>2
<1>6. QED
  BY <1>5

\* The lanes have been counted since the mode or the format was last set.
Settled == req.op \in {"none", "on"} \/ req.at \in {"tx", "sel", "takefmt", "writefmt"}

LanesFollow ==
    /\ Bounded(timings)
    /\ At("store") => req.op = "timings" /\ Bounded(req.arg)
    /\ At("lanes") => IF req.torn THEN timings = NoTimings ELSE req.arg = timings
    /\ Settled => lanes = LanesNeeded(timings, code, pdata) \/ timings = NoTimings

LEMMA LanesFollowInit == Init => LanesFollow
<1>1. Bounded(BootTimings)
  BY Constants, SMT DEF Bounded, BootTimings
<1>2. QED
  BY <1>1 DEF Init, LanesFollow, At, NoReq

LEMMA LanesFollowNext == Typed /\ LanesFollow /\ [Next]_vars => LanesFollow'
<1> SUFFICES ASSUME Typed, LanesFollow, [Next]_vars PROVE LanesFollow'
  OBVIOUS
<1> USE DEF LanesFollow, Settled, At
<1>1. /\ req \in Requests /\ timings \in AllTimings
      /\ req.at = "idle" => req.op = "none"
  BY DEF Typed, TypeOK, NoReq
<1>2. ASSUME NEW op, NEW place, NEW arg,
             req' = [NoReq EXCEPT !.op = op, !.at = place, !.arg = arg]
      PROVE  req'.op = op /\ req'.at = place /\ req'.arg = arg
  BY <1>2 DEF NoReq
\* A step that counts no lanes and stores no timings.
<1>3. ASSUME UNCHANGED <<pdata, timings, code, lanes>>, req'.at # "store",
             req'.at = "lanes" => ~req'.torn /\ req'.arg = timings,
             Settled' => Settled
      PROVE  LanesFollow'
  BY <1>3
<1>4. CASE Call
  <2>1. ASSUME NEW t \in Timings, SDvTimings(t) PROVE LanesFollow'
    <3>1. Bounded(t)
      <4>1. InCap(t) /\ t \in AllTimings
        BY <2>1, CsiAssumption DEF SDvTimings
      <4>2. QED
        BY <4>1, CapBounds
    <3>2. req'.op = "timings" /\ req'.at = "store" /\ req'.arg = t
      BY <1>2, <2>1 DEF SDvTimings, Begin
    <3>3. QED
      BY <2>1, <3>1, <3>2 DEF SDvTimings, Begin, stateVars
  <2>2. ASSUME NEW c \in Codes, SetFmt(c) PROVE LanesFollow'
    <3>1. req'.op = "fmt" /\ req'.at = "mute"
      BY <2>2 DEF SetFmt, NoReq
    <3>2. QED
      BY <2>2, <3>1 DEF SetFmt
  <2>3. ASSUME NEW enable \in BOOLEAN, SStream(enable) PROVE LanesFollow'
    <3>1. req'.at = "mute" /\ req.at = "idle"
      BY <1>2, <2>3 DEF SStream, Begin
    <3>2. UNCHANGED <<pdata, timings, code, lanes>>
      BY <2>3 DEF SStream, Begin, stateVars
    <3>3. QED
      BY <1>1, <1>3, <3>1, <3>2
  <2>4. QED
    BY <1>4, <2>1, <2>2, <2>3 DEF Call
<1>5. ASSUME NEW place \in Places, Enter(place)
      PROVE  /\ req'.at = place
             /\ place # "idle" => req'.op = req.op
             /\ place = "lanes" => ~req'.torn /\ req'.arg = timings
  BY <1>1, <1>5, Entered
<1>6. CASE StoreTimings
  <2>1. \A t \in Accessed : Bounded(t)
    BY <1>1, <1>6, AccessedBounded DEF StoreTimings
  <2>2. Bounded(timings')
    BY <1>6, <2>1 DEF StoreTimings
  <2>3. req'.at = "mute" /\ req'.op = "timings"
    BY <1>5, <1>6 DEF StoreTimings, Places
  <2>4. QED
    BY <2>2, <2>3
<1>7. CASE Mute
  <2>1. req'.at = "take" /\ req'.op = req.op /\ req.at = "mute"
    BY <1>5, <1>7 DEF Mute, Places
  <2>2. QED
    BY <1>3, <1>7, <2>1 DEF Mute, stateVars
<1>8. CASE TakeConfctl
  <2>1. /\ req'.at \in {"write", "writefmt"} /\ req'.op = req.op
        /\ req'.at = "writefmt" => req.at = "takefmt"
    BY <1>1, <1>8 DEF TakeConfctl, Requests
  <2>2. QED
    BY <1>3, <1>8, <2>1 DEF TakeConfctl, stateVars
<1>9. CASE WriteBuffers
  <2>1. CASE req.op = "on"
    <3>1. req'.at = "idle"
      BY <1>5, <1>9, <2>1 DEF WriteBuffers, Places
    <3>2. QED
      BY <1>3, <1>9, <2>1, <3>1 DEF WriteBuffers, stateVars
  <2>2. CASE req.op # "on"
    <3>1. PICK place \in {"lanes", "pll"} : Enter(place)
      BY <1>9, <2>2 DEF WriteBuffers
    <3>2. /\ req'.at \in {"lanes", "pll"} /\ req'.op = req.op
          /\ req'.at = "lanes" => ~req'.torn /\ req'.arg = timings
      BY <1>5, <3>1 DEF Places
    <3>3. QED
      BY <1>3, <1>9, <3>2 DEF WriteBuffers, stateVars
  <2>3. QED
    BY <2>1, <2>2
<1>10. CASE SetPll
  <2>1. /\ req'.at = "lanes" /\ req'.op = req.op
        /\ ~req'.torn /\ req'.arg = timings
    BY <1>5, <1>10 DEF SetPll, Places
  <2>2. QED
    BY <1>3, <1>10, <2>1 DEF SetPll, stateVars
<1>11. CASE NeedLanes
  <2>1. PICK t \in Accessed : lanes' = LanesNeeded(t, code, pdata)
    BY <1>11 DEF NeedLanes
  <2>2. t = timings \/ timings = NoTimings
    BY <1>11, <2>1 DEF NeedLanes, Accessed
  <2>3. req'.at = "tx"
    BY <1>5, <1>11 DEF NeedLanes, Places
  <2>4. QED
    BY <1>11, <2>1, <2>2, <2>3 DEF NeedLanes
<1>12. CASE ProgramTx
  <2>1. req'.at \in {"sel", "idle"} /\ req.at = "tx"
    BY <1>5, <1>12 DEF ProgramTx, Places
  <2>2. QED
    BY <1>3, <1>12, <2>1 DEF ProgramTx, stateVars
<1>13. CASE SelectColour
  <2>1. req'.at = "takefmt" /\ req.at = "sel"
    BY <1>5, <1>13 DEF SelectColour, Places
  <2>2. QED
    BY <1>3, <1>13, <2>1 DEF SelectColour, stateVars
<1>14. CASE WriteFormat
  <2>1. req'.at = "idle" /\ req.at = "writefmt"
    BY <1>5, <1>14 DEF WriteFormat, Places
  <2>2. QED
    BY <1>3, <1>14, <2>1 DEF WriteFormat, stateVars
<1>15. CASE IsrUnplugs
  <2>1. /\ req'.at = req.at /\ req'.op = req.op /\ req'.arg = req.arg
        /\ req.at = "lanes" => req'.torn
    BY <1>1, <1>15 DEF IsrUnplugs, Requests
  <2>2. timings' = NoTimings
    BY <1>15 DEF IsrUnplugs
  <2>3. QED
    BY <2>1, <2>2, NothingBounded
<1>16. CASE IsrMutes \/ IsrTakes \/ IsrWrites
  <2>1. UNCHANGED <<pdata, timings, code, lanes, req>>
    BY <1>16 DEF IsrMutes, IsrTakes, IsrWrites, stateVars
  <2>2. QED
    BY <2>1
<1>17. CASE UNCHANGED vars
  BY <1>17 DEF vars, stateVars
<1>18. QED
  BY <1>4, <1>6, <1>7, <1>8, <1>9, <1>10, <1>11, <1>12, <1>13, <1>14, <1>15, <1>16, <1>17
     DEF Next, CallStep, Isr

\* Between two calls the lanes are those of the timings, or the cable is out.
LEMMA LanesAtRest ==
    ASSUME Typed, LanesFollow, At("idle"), code = Uyvy
    PROVE  /\ Bounded(timings)
           /\ lanes \in Nat
           /\ \E d \in DeviceTrees : pdata = Pdata(d)
           /\ timings = NoTimings \/ lanes = LanesNeeded(timings, Uyvy, pdata)
<1>1. /\ pdata \in {Pdata(d) : d \in DeviceTrees} /\ lanes \in 0 .. 255 /\ req = NoReq
  BY DEF Typed, TypeOK, At
<1>2. lanes \in Nat
  BY <1>1, SMT
<1>3. QED
  BY <1>1, <1>2 DEF LanesFollow, Settled, NoReq

\* In the pipeline's format no allowed mode on any board asks for more than the
\* lanes in use carry: the sum that wraps for RGB888 never does for UYVY, and a
\* torn read of the timings is never what remains (num_csi_lanes_needed).
THEOREM LinkFits == Spec => []FitsLink
<1>1. Typed /\ LanesFollow => FitsLink
  <2> SUFFICES ASSUME Typed, LanesFollow, At("idle"), code = Uyvy
               PROVE  Octets(timings, Uyvy) <= lanes * LaneOctets(pdata)
    BY DEF FitsLink, LaneOctets
  <2>1. PICK d \in DeviceTrees : pdata = Pdata(d)
    BY LanesAtRest
  <2>2. CASE timings = NoTimings
    <3>1. LaneOctets(pdata) \in Nat /\ lanes \in Nat
      BY <2>1, LaneRates, LanesAtRest
    <3>2. lanes * LaneOctets(pdata) \in Nat
      BY <3>1
    <3>3. QED
      BY <2>2, <3>2, NothingBounded
  <2>3. CASE timings # NoTimings
    BY <2>1, <2>3, LanesAtRest, LanesCarry
  <2>4. QED
    BY <2>2, <2>3
<1>2. QED
  BY <1>1, TypedInit, TypedNext, LanesFollowInit, LanesFollowNext, PTL DEF Spec

\* With some blanking the rounding of fps() adds less than a picture.
LEMMA BlankedRate ==
    ASSUME NEW p \in Nat, NEW frame \in Nat \ {0}, 26 * p <= 25 * frame, NEW c \in Nat,
           NEW f \in Nat, f = (c + frame \div 2) \div frame
    PROVE  52 * (p * f) <= 50 * c + 26 * p
<1>1. frame \div 2 \in Nat /\ 2 * (frame \div 2) <= frame
  OBVIOUS
<1>2. f * frame <= c + frame \div 2
  BY <1>1, Quotient
<1>3. CASE f = 0
  BY <1>3
<1>4. CASE f # 0
  <2> DEFINE g == 2 * f - 1
  <2>1. g \in Nat
    BY <1>4
  <2>2. (26 * p) * g <= (25 * frame) * g
    BY <2>1, TimesMonotone
  <2>3. (26 * p) * g = 52 * (p * f) - 26 * p
    OBVIOUS
  <2>4. (25 * frame) * g = 50 * (f * frame) - 25 * frame
    OBVIOUS
  <2>5. p * f \in Nat /\ f * frame \in Nat
    OBVIOUS
  <2> HIDE DEF g
  <2>6. QED
    BY <1>1, <1>2, <2>2, <2>3, <2>4, <2>5
<1>5. QED
  BY <1>3, <1>4

\* What a mode within the budget needs stays below two lanes of 594 Mbps.
LEMMA BudgetOctets ==
    ASSUME NEW t, Bounded(t), Budgeted(t)
    PROVE  Octets(t, Uyvy) \in Nat /\ Octets(t, Uyvy) <= 148500000
<1> DEFINE p == t.width * t.height
           n == p * Fps(t)
<1>1. t \in AllTimings /\ t.clock \in Nat /\ t.clock <= 75000000 /\ Fps(t) \in Nat
  <2>1. t \in AllTimings /\ t.clock <= 75000000
    BY DEF Bounded, Budgeted
  <2>2. QED
    BY <2>1, SizesTyped, FpsBound
<1>2. p \in Nat /\ p <= 2304000
  <2>1. t.width \in Nat /\ t.height \in Nat /\ t.width <= 1920 /\ t.height <= 1200
    BY SMT DEF Bounded, AllTimings
  <2>2. p <= 1920 * t.height
    BY <2>1, TimesMonotone, SMT
  <2>3. t.height * 1920 <= 1200 * 1920
    BY <2>1, TimesMonotone, SMT
  <2>4. QED
    BY <1>1, <2>1, <2>2, <2>3, SizesTyped, SMT
<1>3. n \in Nat
  BY <1>1, <1>2
<1>4. 52 * n <= 50 * t.clock + 26 * p
  <2>1. CASE FrameSize(t) = 0
    <3>1. Fps(t) = 0
      BY <2>1 DEF Fps
    <3>2. n = 0
      BY <1>2, <3>1
    <3> HIDE DEF n, p
    <3>3. QED
      BY <1>1, <1>2, <3>2, SMT
  <2>2. CASE FrameSize(t) # 0
    <3>1. 26 * p <= 25 * FrameSize(t)
      <4>1. /\ t.width \in Nat /\ t.height \in Nat
            /\ 26 * t.width * t.height <= 25 * FrameSize(t)
        BY DEF Bounded, Budgeted, AllTimings
      <4>2. 26 * t.width * t.height = 26 * p
        BY <4>1, SMT
      <4>3. QED
        BY <4>1, <4>2
    <3>2. FrameSize(t) \in Nat \ {0}
      BY <1>1, <2>2, SizesTyped
    <3>3. Fps(t) = (t.clock + FrameSize(t) \div 2) \div FrameSize(t)
      BY <2>2 DEF Fps
    <3> HIDE DEF p
    <3>4. QED
      BY <1>1, <1>2, <3>1, <3>2, <3>3, BlankedRate
  <2>3. QED
    BY <2>1, <2>2
<1>5. Octets(t, Uyvy) = 2 * n
  BY <1>1, <1>2, <1>3, SMT DEF Octets, PixelOctets
<1> HIDE DEF n, p
<1>6. 52 * n <= 3809904000
  BY <1>1, <1>2, <1>3, <1>4, SMT
<1>7. QED
  BY <1>3, <1>5, <1>6, SMT

\* At the board's rate every mode that the watchdog lets pass, and that has the
\* blanking of a standard mode, is carried by the two lanes that are wired.
THEOREM TwoLanesSuffice == Spec => []WiredLanesSuffice
<1>1. Typed /\ LanesFollow => WiredLanesSuffice
  <2> SUFFICES ASSUME Typed, LanesFollow, At("idle"), code = Uyvy,
                      LaneRate(pdata) = 594000000, Budgeted(timings)
               PROVE  lanes <= 2
    BY DEF WiredLanesSuffice
  <2>1. Bounded(timings) /\ lanes = LanesNeeded(timings, Uyvy, pdata)
    BY LanesAtRest DEF Budgeted
  <2>2. Octets(timings, Uyvy) \in Nat /\ Octets(timings, Uyvy) <= 148500000
    BY <2>1, BudgetOctets
  <2>3. lanes = ((Octets(timings, Uyvy) + 74250000 - 1) % 536870912) \div 74250000
    BY <2>1, SMT DEF LanesNeeded, Word
  <2> DEFINE o == Octets(timings, Uyvy)
  <2>4. o \in Nat /\ o <= 148500000 /\ lanes = ((o + 74250000 - 1) % 536870912) \div 74250000
    BY <2>2, <2>3
  <2> HIDE DEF o
  <2>5. QED
    BY <2>4, SMT
<1>2. QED
  BY <1>1, TypedInit, TypedNext, LanesFollowInit, LanesFollowNext, PTL DEF Spec
=============================================================================
