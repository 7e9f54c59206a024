-------------------------------- MODULE Pll --------------------------------
(***************************************************************************)
(* The PLL of the bridge's CSI transmitter, as tc358743_probe_of works it  *)
(* out from the device tree and set_pll uses it.                           *)
(***************************************************************************)
EXTENDS Integers

\* Reference clocks the driver can use, in Hz.
Supported(refclk) == refclk \in {26000000, 27000000, 42000000}

\* Twice a link frequency beyond this does not fit its u32; none is modelled.
MaxLink == 2147483647

\* Bits per second and lane that the device tree asks for.
Bps(d) == 2 * d.link

RateAllowed(bps) == 62500000 <= bps /\ bps <= 1000000000

\* Mutant: a zero too few.
PllPrdTooBig(refclk) == refclk \div 600000

PllPrd(refclk) == refclk \div 6000000

\* Mutant: the feedback divider forgets the input divider.
PllFbdNoPrd(bps, refclk) == bps \div refclk

\* The quotient is rounded before it is multiplied.
PllFbd(bps, refclk) == (bps \div refclk) * PllPrd(refclk)

\* state->pdata, as far as the PLL goes.
Pdata(d) == [refclk |-> d.refclk, prd |-> PllPrd(d.refclk),
             fbd |-> PllFbd(Bps(d), d.refclk)]

\* What the PLL makes of it.
PllInput(p) == p.refclk \div p.prd
LaneRate(p) == PllInput(p) * p.fbd
=============================================================================
