-------------------------------- MODULE Bsp --------------------------------
(***************************************************************************)
(* The devices the software drives and the board-support routines that     *)
(* drive them (sw/bsp/rv32_soc.c, sw/include/rv32_soc.h), as operators on  *)
(* device records: the UART's receive slot and transmitter by whole bytes  *)
(* (rtl/soc/rv32_uart.sv), the GPIO port's first pin (rtl/soc/rv32_gpio.sv) *)
(* and the completion mailbox (rtl/soc/soc_tcm_top.sv).  A byte is named   *)
(* by when it arrived: 1 for the first, 2 for the second; 0 is no byte.    *)
(***************************************************************************)
EXTENDS Integers

PASS == 1                    \* RV32_SOC_PASS_STATUS, BM_PASS_STATUS

-----------------------------------------------------------------------------
(* UART.  A byte is stored at its stop bit; the receiver drops it and sets *)
(* the overrun flag when the slot is still full.  A read that empties the  *)
(* slot in that very clock makes room: it comes first.                     *)

UartReset == [valid |-> FALSE, data |-> 0, overrun |-> FALSE, busy |-> FALSE]

\* (An operator named Fault_X is X with a plausible mistake; the checks of
\* the properties replace X by it.)
Fault_UartReceive(u, b) == [u EXCEPT !.valid = TRUE, !.data = b]
UartReceive(u, b) ==
  IF u.valid THEN [u EXCEPT !.overrun = TRUE]
  ELSE [u EXCEPT !.valid = TRUE, !.data = b]

uart_status(u) == [rx_valid |-> u.valid, overrun |-> u.overrun]
uart_clear_errors(u) == [u EXCEPT !.overrun = FALSE]

\* The TXDATA store waits until the transmitter is free.
uart_can_put(u) == ~u.busy
uart_putc(u) == [u EXCEPT !.busy = TRUE]
UartSent(u) == [u EXCEPT !.busy = FALSE]

\* The RXDATA load: 0 stands for the EMPTY bit, and a byte read is popped.
uart_rxdata(u) == IF u.valid THEN u.data ELSE 0
uart_pop(u) == [u EXCEPT !.valid = FALSE, !.data = 0]

-----------------------------------------------------------------------------
(* GPIO: the output latch of pin 0 and its output enable.                  *)

GpioReset == [out |-> 0, oe |-> 0]

gpio_write(g, v) == [g EXCEPT !.out = v]
gpio_set_output_enable(g, v) == [g EXCEPT !.oe = v]
gpio_toggle(g) == [g EXCEPT !.out = 1 - g.out]

-----------------------------------------------------------------------------
(* Mailbox: the first status stored is kept; 0 while there is none.        *)

Mailed(mailbox, status) == IF mailbox = 0 THEN status ELSE mailbox
=============================================================================
