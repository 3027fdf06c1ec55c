-------------------------------- MODULE Uart --------------------------------
(***************************************************************************)
(* How the PL011 driver prepares the UART (uart_init and uart_gpio_init in *)
(* usr/pl011/pl011.c) on the clocks the root task has set up.  The UART is *)
(* off while its format is written, so uart_disable_before_lcr_write has   *)
(* nothing to wait for.                                                    *)
(***************************************************************************)
EXTENDS Clocks

CONSTANTS UART_CLK_HZ, UART_BAUD

ASSUME UartAssumption == UART_CLK_HZ \in Nat /\ UART_BAUD \in Nat \ {0}

VARIABLES
  cr,          \* whether the UART is enabled, transmits and receives
  ibrd, fbrd,  \* the divisor: its integer part and its 64ths
  format,      \* LCR_H
  pins         \* what drives the two pins

uart_regs == <<cr, ibrd, fbrd, format, pins>>

FormatReset == [bits |-> 5, stop |-> 1, parity |-> "none", fifo |-> FALSE]

UartInit ==
  /\ cr = FALSE /\ ibrd = 0 /\ fbrd = 0 /\ format = FormatReset
  /\ pins = "none"
-----------------------------------------------------------------------------
reset_uart ==
  /\ Waits("root", "done")
  /\ ready' = [ready EXCEPT !["uart0"] = FALSE]
  /\ cr' = FALSE /\ ibrd' = 0 /\ fbrd' = 0 /\ format' = FormatReset
  /\ Goes("uart0", "ready")
  /\ UNCHANGED <<xosc, pll, ref, sys, peri, pins>>

\* The divisor in 128ths, its fraction rounded to 64ths.  UARTFBRD has six bits,
\* so a fraction that is rounded up to a whole is lost.
uart_set_baud(uart_clk_hz, baud) ==
  LET div == (8 * uart_clk_hz) \div baud
      int == div \div 128
  IN CASE int = 0 -> ibrd' = 1 /\ fbrd' = 0
       [] int >= 65535 -> ibrd' = 65535 /\ fbrd' = 0
       [] OTHER -> ibrd' = int /\ fbrd' = (((div % 128) + 1) \div 2) % 64

\* LCR_H but for the bits of the format keeps the FIFOs enabled.
uart_set_format(data_bits, stop_bits, parity) ==
  format' = [bits |-> data_bits, stop |-> stop_bits, parity |-> parity, fifo |-> TRUE]

\* The rest of uart_init, and the resets of uart_gpio_init.
uart_init ==
  /\ Waits("uart0", "ready") /\ ready["uart0"]
  /\ uart_set_baud(UART_CLK_HZ, UART_BAUD)
  /\ uart_set_format(8, 1, "none")
  /\ cr' = TRUE
  /\ ready' = [ready EXCEPT !["io_bank_0"] = FALSE, !["pads_bank0"] = FALSE]
  /\ Goes("gpio", "ready")
  /\ UNCHANGED <<xosc, pll, ref, sys, peri, pins>>

\* The wait ends as soon as one of the two is ready: a bank that is still in
\* its reset loses what is written to it.
uart_gpio_init ==
  /\ Waits("gpio", "ready")
  /\ ready["io_bank_0"] \/ ready["pads_bank0"]
  /\ pins' = IF ready["io_bank_0"] THEN "uart0" ELSE "none"
  /\ Goes("driver", "main")
  /\ UNCHANGED <<xosc, ready, pll, ref, sys, peri, cr, ibrd, fbrd, format>>

PrepareUart == reset_uart \/ uart_init \/ uart_gpio_init
-----------------------------------------------------------------------------
Baud == (4 * PeriMHz * 1000000) \div (64 * ibrd + fbrd)

\* From the first step of setup_clocks on clk_sys runs, and no faster than the
\* processor may: a multiplexer never shows a PLL that is not locked yet.  An
\* enabled UART has its clock and sends 8N1 within a hundredth of its rate,
\* after a cold start and after one that found the clocks set up.
Clocked ==
  /\ SysMHz \in 1 .. CpuMHz
  /\ cr => /\ ready["uart0"] /\ format = [bits |-> 8, stop |-> 1, parity |-> "none", fifo |-> TRUE]
           /\ PeriMHz * 1000000 = UART_CLK_HZ
           /\ 100 * Baud \in 99 * UART_BAUD .. 101 * UART_BAUD
=============================================================================
