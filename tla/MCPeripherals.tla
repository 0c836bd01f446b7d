------------------------------ MODULE MCPeripherals ------------------------------
(***************************************************************************)
(* Bytes of two bits; programs that use the UART, the SPI, or send on both.    *)
(***************************************************************************)
EXTENDS Peripherals

MCPrograms == {{"UART", "UART_STATUS", "UART_IN"},
               {"PORT", "SPI_TX", "SPI_STATUS", "SPI_RX"},
               {"UART", "SPI_TX"}}

MCTwo == {Flags(FALSE, TRUE), Flags(TRUE, FALSE)}
================================================================================
