------------------------------- MODULE Clocks -------------------------------
(***************************************************************************)
(* setup_clocks of the root task (usr/root/clocks.c): from the ring        *)
(* oscillator the processor starts with, by way of the crystal and the two *)
(* PLLs, to clk_sys and clk_peri at 125 MHz.  One step is what the root    *)
(* task does between two of its waits.  What it waits for, the oscillator, *)
(* the resets, the PLLs and the multiplexers, answers when it likes.       *)
(*                                                                         *)
(* Both clocks are asked to run as fast as their source, so the divider    *)
(* stays the 1 it is after a reset.  The delay of configure_clock for      *)
(* clk_peri is a division by configured_freq[clk_peri], which is 0, so it  *)
(* may last any time; clk_peri is off all the while.                       *)
(***************************************************************************)
EXTENDS Naturals

PLLs == {"pll_sys", "pll_usb"}

\* What lib/rp2040_utils/resets.c is asked to reset.
Components == PLLs \cup {"uart0", "io_bank_0", "pads_bank0"}

XoscMHz == 12
RoscMHz == 6      \* about what the ring oscillator runs at
CpuMHz == 133     \* what the processor may run at

\* The values setup_clocks gives setup_pll, the two dividers as their product.
Feedback == [pll_sys |-> 125, pll_usb |-> 100]
Postdiv == [pll_sys |-> 6 * 2, pll_usb |-> 5 * 5]

VARIABLES
  step,      \* what root, and then the driver, waits for
  xosc,      \* the crystal oscillator
  ready,     \* reset_done
  pll,
  ref, sys,  \* the glitchless multiplexers: what is asked, what is selected
  peri

clock_vars == <<step, xosc, ready, pll, ref, sys, peri>>

PllReset == [fbdiv |-> 0, power |-> FALSE, lock |-> FALSE, postdiv |-> 7 * 7, out |-> FALSE]

ClocksCold ==
  /\ xosc = "off"
  /\ ready = [c \in Components |-> FALSE]
  /\ pll = [p \in PLLs |-> PllReset]
  /\ ref = [src |-> "rosc", selected |-> "rosc"]
  /\ sys = [src |-> "ref", selected |-> "ref", auxsrc |-> "pll_sys"]
  /\ peri = [enable |-> FALSE, auxsrc |-> "clk_sys"]

\* Only the processor was reset, after an earlier start had finished.
ClocksWarm ==
  /\ xosc = "stable"
  /\ ready = [c \in Components |-> TRUE]
  /\ pll = [p \in PLLs |-> [fbdiv |-> Feedback[p], power |-> TRUE, lock |-> TRUE,
                            postdiv |-> Postdiv[p], out |-> TRUE]]
  /\ ref = [src |-> "xosc", selected |-> "xosc"]
  /\ sys = [src |-> "aux", selected |-> "aux", auxsrc |-> "pll_sys"]
  /\ peri = [enable |-> TRUE, auxsrc |-> "pll_sys"]

ClocksInit == step = <<"setup_clocks", "start">> /\ (ClocksCold \/ ClocksWarm)
-----------------------------------------------------------------------------
(* The hardware.                                                           *)

XoscStarts ==
  /\ xosc = "starting" /\ xosc' = "stable"
  /\ UNCHANGED <<step, ready, pll, ref, sys, peri>>

ResetDone(c) ==
  /\ ~ ready[c] /\ ready' = [ready EXCEPT ![c] = TRUE]
  /\ UNCHANGED <<step, xosc, pll, ref, sys, peri>>

Locks(p) ==
  /\ ready[p] /\ pll[p].power /\ ~ pll[p].lock /\ xosc = "stable"
  /\ pll' = [pll EXCEPT ![p].lock = TRUE]
  /\ UNCHANGED <<step, xosc, ready, ref, sys, peri>>

MuxesSwitch ==
  /\ ref.selected # ref.src \/ sys.selected # sys.src
  /\ \/ ref' = [ref EXCEPT !.selected = ref.src] /\ UNCHANGED sys
     \/ sys' = [sys EXCEPT !.selected = sys.src] /\ UNCHANGED ref
  /\ UNCHANGED <<step, xosc, ready, pll, peri>>

ClockHardware ==
  \/ XoscStarts
  \/ \E c \in Components : ResetDone(c)
  \/ \E p \in PLLs : Locks(p)
  \/ MuxesSwitch
-----------------------------------------------------------------------------
(* The root task.                                                          *)

Waits(what, for) == step = <<what, for>>
Goes(what, for) == step' = <<what, for>>

SkipSetup ==
  /\ Waits("setup_clocks", "start") /\ sys.selected = "aux"
  /\ Goes("root", "done")
  /\ UNCHANGED <<xosc, ready, pll, ref, sys, peri>>

init_xosc ==
  /\ Waits("setup_clocks", "start") /\ sys.selected # "aux"
  /\ xosc' = "starting"
  /\ Goes("xosc", "stable")
  /\ UNCHANGED <<ready, pll, ref, sys, peri>>

SwitchRef ==
  /\ Waits("xosc", "stable") /\ xosc = "stable"
  /\ ref' = [ref EXCEPT !.src = "xosc"]
  /\ Goes("clk_ref", "selected")
  /\ UNCHANGED <<xosc, ready, pll, sys, peri>>

\* A PLL forgets its settings with the reset.
reset_pll(p, settings) ==
  /\ ready' = [ready EXCEPT ![p] = FALSE]
  /\ pll' = [settings EXCEPT ![p] = PllReset]
  /\ Goes(p, "ready")

RefSwitched ==
  /\ Waits("clk_ref", "selected") /\ ref.selected = "xosc"
  /\ reset_pll("pll_sys", pll)
  /\ UNCHANGED <<xosc, ref, sys, peri>>

PllPowers(p) ==
  /\ Waits(p, "ready") /\ ready[p]
  /\ pll' = [pll EXCEPT ![p].fbdiv = Feedback[p], ![p].power = TRUE]
  /\ Goes(p, "lock")
  /\ UNCHANGED <<xosc, ready, ref, sys, peri>>

\* The mutated forms each change one step the way a slip in the code would;
\* they are used only to show that the properties can fail.
\* Nobody waits for the lock.
PllOutputsAtOnce(p) ==
  LET done == [pll EXCEPT ![p].postdiv = Postdiv[p], ![p].out = TRUE]
  IN /\ Waits(p, "lock")
     /\ IF p = "pll_sys" THEN reset_pll("pll_usb", done) /\ UNCHANGED sys
        ELSE /\ pll' = done /\ sys' = [sys EXCEPT !.src = "ref"]
             /\ Goes("clk_sys", "ref") /\ UNCHANGED ready
     /\ UNCHANGED <<xosc, ref, peri>>

\* The end of setup_pll and the next call: the second PLL, or configure_clock
\* for clk_sys, which leaves the auxiliary source before it changes it.
PllOutputs(p) ==
  LET done == [pll EXCEPT ![p].postdiv = Postdiv[p], ![p].out = TRUE]
  IN /\ Waits(p, "lock") /\ pll[p].lock
     /\ IF p = "pll_sys" THEN reset_pll("pll_usb", done) /\ UNCHANGED sys
        ELSE /\ pll' = done /\ sys' = [sys EXCEPT !.src = "ref"]
             /\ Goes("clk_sys", "ref") /\ UNCHANGED ready
     /\ UNCHANGED <<xosc, ref, peri>>

SwitchSys ==
  /\ Waits("clk_sys", "ref") /\ sys.selected = "ref"
  /\ sys' = [sys EXCEPT !.auxsrc = "pll_sys", !.src = "aux"]
  /\ Goes("clk_sys", "aux")
  /\ UNCHANGED <<xosc, ready, pll, ref, peri>>

\* configure_clock for clk_peri, which has nothing to wait for.
SetupPeri ==
  /\ Waits("clk_sys", "aux") /\ sys.selected = "aux"
  /\ peri' = [enable |-> TRUE, auxsrc |-> "pll_sys"]
  /\ Goes("root", "done")
  /\ UNCHANGED <<xosc, ready, pll, ref, sys>>

setup_clocks ==
  \/ SkipSetup
  \/ init_xosc
  \/ SwitchRef
  \/ RefSwitched
  \/ \E p \in PLLs : PllPowers(p) \/ PllOutputs(p)
  \/ SwitchSys
  \/ SetupPeri
-----------------------------------------------------------------------------
(* What the clocks run at, 0 for a clock that does not run.                *)

PllMHz(p) ==
  IF pll[p].lock /\ pll[p].out THEN (XoscMHz * pll[p].fbdiv) \div pll[p].postdiv ELSE 0

RefMHz ==
  CASE ref.selected = "rosc" -> RoscMHz
    [] ref.selected = "xosc" -> IF xosc = "stable" THEN XoscMHz ELSE 0

SysMHz == IF sys.selected = "ref" THEN RefMHz ELSE PllMHz(sys.auxsrc)

PeriMHz ==
  CASE ~ peri.enable -> 0
    [] peri.enable /\ peri.auxsrc = "clk_sys" -> SysMHz
    [] peri.enable /\ peri.auxsrc # "clk_sys" -> PllMHz(peri.auxsrc)
=============================================================================
