----------------------------------- MODULE Spi ------------------------------------
(***************************************************************************)
(* spi.v, and the device at the other end of the wires (external): mode 3,   *)
(* it drives its bit after a falling edge of the clock and takes the master's *)
(* after a rising one.  One step is a clock.                                  *)
(***************************************************************************)
EXTENDS Serial

CONSTANT SPI_TIME_DELAY     \* clocks per half of out_clk, less 1

ASSUME SpiAssumption == SPI_TIME_DELAY \in Nat \ {0}

VARIABLES
    clock_count, in_byte, out_byte, bit_pos, send_request_delayed,
    spi_out, out_clk, cs,                 \* the pins
    dev_byte, dev_left, dev_in,           \* the device: its byte, bits of it to drive,
    dev_clk, spi_sin                      \*   bits taken, the clock before, its pin

masterVars == <<clock_count, in_byte, out_byte, bit_pos, spi_out, out_clk, cs>>
devVars == <<dev_byte, dev_left, dev_in, spi_sin>>
spiVars == <<masterVars, send_request_delayed, devVars, dev_clk>>

spi_busy == ~cs

ShiftedIn(byte, bit) == [i \in 0 .. Bits - 1 |-> IF i = 0 THEN bit ELSE byte[i - 1]]

Edge(send_request) == send_request /\ ~send_request_delayed

\* Mutant: one bit too few.
SpiStart_few(send_request, in_data) ==
    /\ Edge(send_request) /\ ~spi_busy
    /\ clock_count' = 0 /\ out_clk' = 1 /\ bit_pos' = Bits - 1 /\ cs' = FALSE
    /\ in_byte' = in_data
    /\ out_byte' = Flags(FALSE, FALSE)
    /\ UNCHANGED spi_out

SpiStart(send_request, in_data) ==
    /\ Edge(send_request) /\ ~spi_busy
    /\ clock_count' = 0 /\ out_clk' = 1 /\ bit_pos' = Bits /\ cs' = FALSE
    /\ in_byte' = in_data
    /\ out_byte' = Flags(FALSE, FALSE)
    /\ UNCHANGED spi_out

ClockOut ==
    /\ clock_count' = IF clock_count = SPI_TIME_DELAY THEN 0 ELSE clock_count + 1
    /\ out_clk' = IF clock_count = SPI_TIME_DELAY THEN 1 - out_clk ELSE out_clk

SpiWait ==
    /\ clock_count # 0
    /\ UNCHANGED <<out_byte, spi_out, bit_pos, cs>>

\* The falling edge: drive a bit.
SpiDrive ==
    /\ clock_count = 0 /\ out_clk = 0 /\ bit_pos > 0
    /\ spi_out' = in_byte[bit_pos - 1]
    /\ bit_pos' = bit_pos - 1
    /\ UNCHANGED <<out_byte, cs>>

\* The rising edge (and the first clock): take a bit.
SpiSample ==
    /\ clock_count = 0 /\ out_clk = 1 /\ bit_pos > 0
    /\ out_byte' = ShiftedIn(out_byte, spi_sin)
    /\ UNCHANGED <<spi_out, bit_pos, cs>>

\* Mutant: the exchange ends with the last bit driven.
SpiEnd_early ==
    /\ clock_count = 0 /\ bit_pos = 1
    /\ out_byte' = IF out_clk = 1 THEN ShiftedIn(out_byte, spi_sin) ELSE out_byte
    /\ cs' = TRUE /\ spi_out' = 0 /\ bit_pos' = 31

SpiEnd ==
    /\ clock_count = 0 /\ bit_pos = 0
    /\ out_byte' = IF out_clk = 1 THEN ShiftedIn(out_byte, spi_sin) ELSE out_byte
    /\ cs' = TRUE /\ spi_out' = 0 /\ bit_pos' = 31

SpiBusy(send_request) ==
    /\ spi_busy /\ ~Edge(send_request)
    /\ ClockOut
    /\ SpiWait \/ SpiDrive \/ SpiSample \/ SpiEnd
    /\ UNCHANGED in_byte

SpiIdle(send_request) ==
    /\ ~spi_busy /\ ~Edge(send_request)
    /\ UNCHANGED masterVars

SpiMaster(send_request, in_data) ==
    /\ SpiStart(send_request, in_data) \/ SpiBusy(send_request) \/ SpiIdle(send_request)
    /\ send_request_delayed' = send_request

--------------------------------------------------------------------------------
(* The device (external) *)

DevSelected ==
    /\ cs /\ ~cs'
    /\ dev_byte' \in Data /\ dev_left' = Bits
    /\ UNCHANGED <<dev_in, spi_sin>>

DevDrives ==
    /\ ~cs /\ dev_clk = 1 /\ out_clk = 0 /\ dev_left > 0
    /\ spi_sin' = dev_byte[dev_left - 1] /\ dev_left' = dev_left - 1
    /\ UNCHANGED <<dev_byte, dev_in>>

DevTakes ==
    /\ ~cs /\ dev_clk = 0 /\ out_clk = 1
    /\ dev_in' = ShiftedIn(dev_in, spi_out)
    /\ UNCHANGED <<dev_byte, dev_left, spi_sin>>

DevRests ==
    /\ ~(cs /\ ~cs')
    /\ cs \/ dev_clk = out_clk \/ (out_clk = 0 /\ dev_left = 0)
    /\ UNCHANGED devVars

Device ==
    /\ DevSelected \/ DevDrives \/ DevTakes \/ DevRests
    /\ dev_clk' = out_clk

SpiClock(send_request, in_data) == SpiMaster(send_request, in_data) /\ Device

SpiInit ==
    /\ clock_count = 0 /\ out_clk = 1 /\ bit_pos = Bits /\ cs = TRUE
    /\ out_byte = Flags(FALSE, FALSE) /\ spi_out = 0 /\ send_request_delayed = FALSE
    /\ in_byte = Flags(FALSE, FALSE)
    /\ dev_byte = Flags(FALSE, FALSE) /\ dev_left = 0 /\ dev_in = Flags(FALSE, FALSE)
    /\ dev_clk = 1 /\ spi_sin = 1

================================================================================
