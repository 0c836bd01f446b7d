----------------------------------- MODULE Uart -----------------------------------
(***************************************************************************)
(* uart.v as peripherals.v sees it: the transmitter and the ring of received *)
(* bytes.  Module UartRx has the receiver that fills the ring.               *)
(***************************************************************************)
EXTENDS Serial, Baud

CONSTANT RingSize   \* bytes of in_buffer, 64; the pointers wrap with it

ASSUME UartAssumption ==
    /\ RingSize \in Nat \ {0} /\ UART_TIME_DELAY \in Nat

VARIABLES
    sendcount, tx_baud_count, shiftout,                         \* transmitter
    in_buffer, in_buffer_read_pos, in_buffer_write_pos, pre_rr  \* ring

txVars == <<sendcount, tx_baud_count, shiftout>>
ringVars == <<in_buffer, in_buffer_read_pos, in_buffer_write_pos, pre_rr>>
uartVars == <<txVars, ringVars>>

\* {1, data, 2'b01}, sent from bit 0: a bit of rest, start, data, stop.
Last == Bits + 2
Rest == [i \in 0 .. Last |-> 1]
Frame(data) == [i \in 0 .. Last |-> CASE i = 1 -> 0
                                      [] i \in 2 .. Last - 1 -> data[i - 2]
                                      [] OTHER -> 1]

sout == shiftout[sendcount]

uart_busy(send_request) == sendcount < Last /\ send_request

TxRest ==
    /\ sendcount' = 0 /\ tx_baud_count' = 0
    /\ shiftout' = Rest

TxSend(data) ==
    /\ shiftout' = Frame(data)
    /\ \/ /\ tx_baud_count = UART_TIME_DELAY
          /\ sendcount' = IF sendcount < Last THEN sendcount + 1 ELSE Last
          /\ tx_baud_count' = 0
       \/ /\ tx_baud_count < UART_TIME_DELAY
          /\ tx_baud_count' = tx_baud_count + 1
          /\ UNCHANGED sendcount

Transmit(send_request, data) ==
    IF send_request THEN TxSend(data) ELSE TxRest

rec_data == in_buffer[in_buffer_read_pos]
rec_valid == in_buffer_read_pos # in_buffer_write_pos

\* Mutant: a byte leaves the ring in every clock of rr.
Pop_level(rr) ==
    /\ pre_rr' = rr
    /\ in_buffer_read_pos' =
          IF rr /\ rec_valid THEN (in_buffer_read_pos + 1) % RingSize
                             ELSE in_buffer_read_pos

\* A byte leaves the ring when rr rises.
Pop(rr) ==
    /\ pre_rr' = rr
    /\ in_buffer_read_pos' =
          IF ~pre_rr /\ rr /\ rec_valid THEN (in_buffer_read_pos + 1) % RingSize
                                        ELSE in_buffer_read_pos

Push(byte) ==
    /\ in_buffer' = [in_buffer EXCEPT ![in_buffer_write_pos] = byte]
    /\ in_buffer_write_pos' = (in_buffer_write_pos + 1) % RingSize

NoPush == UNCHANGED <<in_buffer, in_buffer_write_pos>>

UartInit ==
    /\ sendcount = 0 /\ tx_baud_count = 0 /\ shiftout = Rest
    /\ in_buffer \in [0 .. RingSize - 1 -> {[i \in 0 .. Bits - 1 |-> 1]}]
    /\ in_buffer_read_pos = 0 /\ in_buffer_write_pos = 0 /\ pre_rr = FALSE

================================================================================
