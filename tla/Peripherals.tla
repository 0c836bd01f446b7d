------------------------------- MODULE Peripherals --------------------------------
(***************************************************************************)
(* peripherals.v with its UART and SPI, between the data port of execute.v    *)
(* and the two serial lines.  One step is a clock.  The core makes any access *)
(* that the drivers make (stdfn.c, ymodem.c, sddisk.c), in any order and at    *)
(* any time; bytes arrive in the ring at any time (module UartRx); a listener  *)
(* (external) takes bytes from the line sout.                                  *)
(***************************************************************************)
EXTENDS Uart, Spi, Sequences

CONSTANTS
    Programs,     \* sets of registers; a program accesses those of one set
    Written,      \* the bytes it writes
    Arriving,     \* the bytes that arrive
    MaxUnread     \* the bytes that may wait in the ring

Registers == {"PORT", "UART", "UART_STATUS", "UART_IN", "SPI_TX", "SPI_STATUS", "SPI_RX"}

Stores == {"PORT", "UART", "SPI_TX"}

\* in_buffer has no full check: with RingSize bytes unread it looks empty.
ASSUME PeripheralsAssumption ==
    /\ Programs \subseteq SUBSET Registers /\ Written \subseteq Data /\ Arriving \subseteq Data
    /\ MaxUnread \in 0 .. RingSize - 1
    /\ UART_TIME_DELAY > 0

VARIABLES
    accessed,                                        \* the registers of the program
    m_valid_d, mem_address_d, mem_write_data,        \* execute.v
    pstate, i_prec, i_read_data, ss, spi_req, rr,    \* peripherals.v
    port, uart_data, spi_data,                       \*   (port keeps four bits)
    hear_pos, hear_count, hear_bits,                 \* the listener
    unread,         \* history: bytes arrived and not yet read by the core
    unheard,        \* history: bytes written to UART and not yet heard
    unexchanged     \* history: bytes written to SPI_TX and not yet exchanged

portVars == <<m_valid_d, mem_address_d, mem_write_data>>
busVars == <<pstate, i_prec, i_read_data, ss, spi_req, rr, port, uart_data, spi_data>>
hearVars == <<hear_pos, hear_count, hear_bits>>
vars == <<accessed, portVars, busVars, uartVars, spiVars, hearVars, unread, unheard, unexchanged>>

--------------------------------------------------------------------------------
(* execute.v: a request is held until the answer, and falls a clock after it. *)

Answered == m_valid_d /\ i_prec

Issue ==
    /\ ~m_valid_d
    /\ m_valid_d' = TRUE
    /\ mem_address_d' \in accessed
    /\ \/ mem_address_d' \in Stores /\ mem_write_data' \in Written
       \/ mem_address_d' \notin Stores /\ UNCHANGED mem_write_data

Core ==
    \/ Issue
    \/ ~m_valid_d /\ UNCHANGED portVars
    \/ m_valid_d /\ ~i_prec /\ UNCHANGED portVars
    \/ Answered /\ m_valid_d' = FALSE /\ UNCHANGED <<mem_address_d, mem_write_data>>

--------------------------------------------------------------------------------
(* peripherals.v *)

Request(register) == pstate = 0 /\ m_valid_d /\ mem_address_d = register

\* In state 0 a finished transfer gives its request back.
ss_after == ss /\ uart_busy(ss)

\* Mutant: the SPI request is a pulse.
spi_req_after_pulse == FALSE

spi_req_after == spi_req /\ spi_busy

Answer == i_prec' = TRUE /\ pstate' = 1

WritePort ==
    /\ Request("PORT")
    /\ port' = mem_write_data
    /\ Answer
    /\ ss' = ss_after /\ spi_req' = spi_req_after
    /\ UNCHANGED <<i_read_data, rr, uart_data, spi_data>>

\* Mutant: a byte is taken as soon as the one before is sent.
UartSend_early ==
    /\ Request("UART") /\ ~ss_after
    /\ uart_data' = mem_write_data
    /\ ss' = TRUE
    /\ Answer
    /\ spi_req' = spi_req_after
    /\ UNCHANGED <<i_read_data, rr, port, spi_data>>

UartSend ==
    /\ Request("UART") /\ ~ss
    /\ uart_data' = mem_write_data
    /\ ss' = TRUE
    /\ Answer
    /\ spi_req' = spi_req_after
    /\ UNCHANGED <<i_read_data, rr, port, spi_data>>

ReadRegister(register, value) ==
    /\ Request(register)
    /\ i_read_data' = value
    /\ Answer
    /\ ss' = ss_after /\ spi_req' = spi_req_after
    /\ UNCHANGED <<rr, port, uart_data, spi_data>>

ReadUartStatus == ReadRegister("UART_STATUS", Flags(rec_valid, uart_busy(ss)))

\* Without a byte there is no answer; the request is looked at again.
ReadUart ==
    /\ Request("UART_IN") /\ ~rr
    /\ i_read_data' = rec_data
    /\ i_prec' = (rec_valid \/ i_prec)
    /\ rr' = rec_valid
    /\ pstate' = 2
    /\ ss' = ss_after /\ spi_req' = spi_req_after
    /\ UNCHANGED <<port, uart_data, spi_data>>

SpiSend ==
    /\ Request("SPI_TX") /\ ~spi_req
    /\ spi_data' = mem_write_data
    /\ spi_req' = TRUE
    /\ Answer
    /\ ss' = ss_after
    /\ UNCHANGED <<i_read_data, rr, port, uart_data>>

ReadSpiStatus == ReadRegister("SPI_STATUS", Flags(FALSE, spi_busy))

ReadSpi == ReadRegister("SPI_RX", out_byte)

\* The flag that makes an access to a register wait.
in_use == [UART |-> ss, SPI_TX |-> spi_req, UART_IN |-> rr]

\* Mutant: a waiting request does not let the transfer end.
Blocked_keeps ==
    /\ mem_address_d \in DOMAIN in_use /\ Request(mem_address_d) /\ in_use[mem_address_d]
    /\ UNCHANGED busVars

\* A request that has to wait for the transfer before it, or for rr.
Blocked ==
    /\ mem_address_d \in DOMAIN in_use /\ Request(mem_address_d) /\ in_use[mem_address_d]
    /\ ss' = ss_after /\ spi_req' = spi_req_after
    /\ UNCHANGED <<pstate, i_prec, i_read_data, rr, port, uart_data, spi_data>>

NoRequest ==
    /\ pstate = 0 /\ ~m_valid_d
    /\ rr' = FALSE /\ i_prec' = FALSE
    /\ ss' = ss_after /\ spi_req' = spi_req_after
    /\ UNCHANGED <<pstate, i_read_data, port, uart_data, spi_data>>

AnswerEnds ==
    /\ pstate \in {1, 2}
    /\ i_prec' = FALSE /\ pstate' = 0
    /\ UNCHANGED <<i_read_data, ss, spi_req, rr, port, uart_data, spi_data>>

Bus ==
    \/ WritePort \/ UartSend \/ ReadUartStatus \/ ReadUart
    \/ SpiSend \/ ReadSpiStatus \/ ReadSpi
    \/ Blocked \/ NoRequest \/ AnswerEnds

--------------------------------------------------------------------------------
(* The other end of sout (external): from the edge of the start bit it samples
   every bit in its middle. *)

HearsStart ==
    /\ hear_pos = 0 /\ sout = 0
    /\ hear_pos' = 1 /\ hear_count' = (UART_TIME_DELAY - 1) \div 2
    /\ UNCHANGED hear_bits

HearsRest == hear_pos = 0 /\ sout = 1 /\ UNCHANGED hearVars

HearCounts ==
    /\ hear_pos > 0 /\ hear_count > 0
    /\ hear_count' = hear_count - 1 /\ UNCHANGED <<hear_pos, hear_bits>>

Hears == hear_pos > 0 /\ hear_count = 0

HearsBit ==
    /\ Hears /\ hear_pos < Last
    /\ hear_pos' = hear_pos + 1 /\ hear_count' = UART_TIME_DELAY
    /\ hear_bits' = [i \in 0 .. Bits - 1 |-> IF i = hear_pos - 2 THEN sout
                                                               ELSE hear_bits[i]]

HearsStop ==
    /\ Hears /\ hear_pos = Last
    /\ hear_pos' = 0 /\ hear_bits' = Flags(FALSE, FALSE) /\ UNCHANGED hear_count

Listen == HearsStart \/ HearsRest \/ HearCounts \/ HearsBit \/ HearsStop

HearsByte == Hears /\ hear_pos = Last

--------------------------------------------------------------------------------
SpiEnds == ~cs /\ cs'

Without(queue, taken) == IF taken /\ queue # <<>> THEN Tail(queue) ELSE queue

History ==
    /\ unheard' = Without(unheard, HearsByte)
                  \o (IF Answered /\ mem_address_d = "UART" THEN <<mem_write_data>> ELSE <<>>)
    /\ unexchanged' = Without(unexchanged, SpiEnds)
                  \o (IF Request("SPI_TX") /\ ~spi_req THEN <<mem_write_data>> ELSE <<>>)

ReadOne == Without(unread, Answered /\ mem_address_d = "UART_IN")

Arrival ==
    \/ NoPush /\ unread' = ReadOne
    \/ \E byte \in Arriving :
          /\ "UART_IN" \in accessed
          /\ Len(unread) < MaxUnread
          /\ Push(byte)
          /\ unread' = Append(ReadOne, byte)

Init ==
    /\ accessed \in Programs
    /\ m_valid_d = FALSE /\ mem_address_d = "PORT" /\ mem_write_data = Flags(FALSE, FALSE)
    /\ pstate = 0 /\ i_prec = FALSE /\ i_read_data = Flags(FALSE, FALSE)
    /\ ss = FALSE /\ spi_req = FALSE /\ rr \in BOOLEAN
    /\ port = Flags(FALSE, FALSE) /\ uart_data = Flags(FALSE, FALSE)
    /\ spi_data = Flags(FALSE, FALSE)
    /\ UartInit /\ SpiInit
    /\ hear_pos = 0 /\ hear_count = 0 /\ hear_bits = Flags(FALSE, FALSE)
    /\ unread = <<>> /\ unheard = <<>> /\ unexchanged = <<>>

Next ==
    /\ Core
    /\ Bus
    /\ Transmit(ss, uart_data)
    /\ Pop(rr)
    /\ Arrival
    /\ SpiClock(spi_req, spi_data)
    /\ Listen
    /\ History
    /\ UNCHANGED accessed

Spec == Init /\ [][Next]_vars
FairSpec == Spec /\ WF_vars(Next)

--------------------------------------------------------------------------------
(* Properties *)

\* Every read of UART_IN gives the oldest byte not yet read, and takes one only:
\* the answer, the pulse rr and the next request never meet in the wrong clock.
ReadInOrder ==
    [][Answered /\ mem_address_d = "UART_IN" =>
          unread # <<>> /\ i_read_data = Head(unread)]_vars

\* The line carries the bytes written to UART, each once, whole and in order.
HeardAsWritten ==
    [][HearsByte => sout = 1 /\ unheard # <<>> /\ hear_bits = Head(unheard)]_vars

\* An exchange moves the byte written to the device and the device's byte back.
Exchanged ==
    [][SpiEnds => /\ unexchanged # <<>> /\ dev_in' = Head(unexchanged)
                  /\ out_byte' = dev_byte]_vars

\* No exchange is started, nor a byte for the line taken, while one is under way.
OneAtATime ==
    /\ ~(Edge(spi_req) /\ spi_busy)
    /\ Len(unexchanged) <= 1

\* The drivers believe the status registers: a byte reported is there to be read,
\* and after "not busy" the exchange is over and SPI_RX holds the device's byte.
StatusTrue ==
    /\ Answered /\ mem_address_d = "UART_STATUS" /\ i_read_data[1] = 1 => unread # <<>>
    /\ Answered /\ mem_address_d = "SPI_STATUS" /\ i_read_data[0] = 0 => unexchanged = <<>>
    /\ unexchanged = <<>> => out_byte = dev_byte

\* Every access is answered; a read of UART_IN, once there is a byte.
AccessAnswered ==
    /\ \A r \in Registers \ {"UART_IN"} : (m_valid_d /\ mem_address_d = r) ~> ~m_valid_d
    /\ (m_valid_d /\ mem_address_d = "UART_IN" /\ rec_valid) ~> ~m_valid_d
================================================================================
