------------------------------------ MODULE Baud ----------------------------------
(***************************************************************************)
(* The bit time that both halves of uart.v count: modules Uart and UartRx.   *)
(***************************************************************************)
EXTENDS Naturals

CONSTANT UART_TIME_DELAY   \* clocks per bit and per sample, less 1: 108 in the code
================================================================================
