---------------------------------- MODULE UartRx ---------------------------------
(***************************************************************************)
(* The receiver of uart.v: synchroniser, spike filter and framing, up to the *)
(* write of a byte into the ring (module Uart has the ring).  One step is a  *)
(* clock.  The other end of the line (external) sends bytes, 8N1, with any   *)
(* pause between them; spikes of one clock disturb the line.                 *)
(***************************************************************************)
EXTENDS Baud, Sequences

CONSTANTS
    BitTime,           \* clocks per bit at the other end
    Byte               \* the bytes it sends, each a function 0 .. 7 -> 0 .. 1

ASSUME UartRxAssumption ==
    /\ UART_TIME_DELAY \in Nat \ {0} /\ BitTime \in Nat \ {0}
    /\ Byte \subseteq [0 .. 7 -> 0 .. 1] /\ Byte # {}

VARIABLES
    frame, pos, left,     \* the other end: byte, bit of the frame, clocks left of it
    rx_sync0, rx_sync1, rx_clean, rx_clean_delayed,
    rx_baud_count, shiftin, reccount, idle, finish,
    due,                  \* history: bytes sent and not yet stored
    started               \* history: the receiver saw a start bit since reset

lineVars   == <<frame, pos, left>>
filterVars == <<rx_sync0, rx_sync1, rx_clean, rx_clean_delayed>>
frameVars  == <<rx_baud_count, shiftin, reccount, idle, finish>>
rxVars == <<lineVars, filterVars, frameVars, due, started>>

--------------------------------------------------------------------------------
(* The line: start bit (0), data (1 .. 8), stop bit (9).  A pause is a stop bit
   that goes on, by clocks or by bits. *)

Level == CASE pos = 0 -> 0
           [] pos \in 1 .. 8 -> frame[pos - 1]
           [] pos = 9 -> 1

\* A spike is one clock long (the line was right in the clock before, see rx_sync0) and
\* keeps two clocks away from the ends of a bit.
Spike == left \in 3 .. BitTime - 2 /\ rx_sync0 = Level

din == {Level} \cup (IF Spike THEN {1 - Level} ELSE {})

BitGoesOn == left > 1 /\ left' = left - 1 /\ UNCHANGED <<frame, pos>>

NextBit == left = 1 /\ pos < 9 /\ pos' = pos + 1 /\ left' = BitTime /\ UNCHANGED frame

Pause == left = 1 /\ pos = 9 /\ left' \in {1, BitTime} /\ UNCHANGED <<frame, pos>>

NextFrame == left = 1 /\ pos = 9 /\ frame' \in Byte /\ pos' = 0 /\ left' = BitTime

Line == BitGoesOn \/ NextBit \/ Pause \/ NextFrame

--------------------------------------------------------------------------------
(* uart.v *)

\* Mutant: the synchronised line is used as it is.
Filter_none ==
    /\ rx_sync0' \in din
    /\ rx_sync1' = rx_sync0
    /\ rx_clean' = rx_sync1
    /\ rx_clean_delayed' = rx_clean

Filter ==
    /\ rx_sync0' \in din
    /\ rx_sync1' = rx_sync0
    /\ rx_clean' = IF rx_sync0 = rx_sync1 THEN rx_sync0 ELSE rx_clean
    /\ rx_clean_delayed' = rx_clean

rx_edge == rx_clean # rx_clean_delayed

NoBits == [i \in 0 .. 9 |-> 0]

\* Half a bit to the first sample.
StartFrame ==
    /\ shiftin' = NoBits /\ reccount' = 0 /\ idle' = FALSE
    /\ rx_baud_count' = UART_TIME_DELAY \div 2

\* Mutant: after a byte the receiver is idle, whatever the line does.
Finish_idle ==
    /\ finish
    /\ finish' = FALSE
    /\ idle' = TRUE /\ UNCHANGED <<shiftin, reccount, rx_baud_count>>

\* The clock after a byte: on a low line the next frame has begun.
Finish ==
    /\ finish
    /\ finish' = FALSE
    /\ \/ rx_clean = 1 /\ idle' = TRUE /\ UNCHANGED <<shiftin, reccount, rx_baud_count>>
       \/ rx_clean = 0 /\ StartFrame

WaitStart ==
    /\ ~finish /\ idle /\ rx_clean = 0
    /\ StartFrame
    /\ UNCHANGED finish

\* Neither of the above: the frame is followed, also while idle on a high line.
Framing == ~finish /\ ~(idle /\ rx_clean = 0)

Resync ==
    /\ Framing /\ rx_edge
    /\ rx_baud_count' = UART_TIME_DELAY \div 2
    /\ UNCHANGED <<shiftin, reccount, idle, finish>>

Count ==
    /\ Framing /\ ~rx_edge /\ rx_baud_count > 0
    /\ rx_baud_count' = rx_baud_count - 1
    /\ UNCHANGED <<shiftin, reccount, idle, finish>>

Shift ==
    /\ Framing /\ ~rx_edge /\ rx_baud_count = 0
    /\ rx_baud_count' = UART_TIME_DELAY
    /\ shiftin' = [i \in 0 .. 9 |-> IF i = 9 THEN rx_clean ELSE shiftin[i + 1]]

Received == [i \in 0 .. 7 |-> shiftin[i + 1]]

Complete == reccount = 9 /\ shiftin[9] = 1 /\ shiftin[0] = 0

Sample ==
    /\ Shift /\ ~Complete
    /\ reccount' = IF reccount = 9 THEN 9 ELSE reccount + 1
    /\ UNCHANGED <<idle, finish>>

\* in_buffer takes Received.
Store ==
    /\ Shift /\ Complete
    /\ reccount' = 0
    /\ finish' = TRUE
    /\ UNCHANGED idle

Receive == Finish \/ WaitStart \/ Resync \/ Count \/ Sample \/ Store

RxStores == Framing /\ ~rx_edge /\ rx_baud_count = 0 /\ Complete

--------------------------------------------------------------------------------
DataSent == pos = 8 /\ left = 1

RxHistory ==
    /\ due' = (IF RxStores /\ due # <<>> THEN Tail(due) ELSE due)
              \o (IF DataSent THEN <<frame>> ELSE <<>>)
    /\ started' = (started \/ (rx_clean = 0 /\ (finish \/ idle)))

\* The line rests during the reset; the baud counter is not reset.
RxInit ==
    /\ frame \in Byte /\ pos = 9 /\ left = 1
    /\ rx_sync0 = 1 /\ rx_sync1 = 1 /\ rx_clean = 1 /\ rx_clean_delayed = 1
    /\ rx_baud_count \in 0 .. UART_TIME_DELAY
    /\ shiftin = NoBits /\ reccount = 0 /\ idle = TRUE /\ finish = FALSE
    /\ due = <<>> /\ started = FALSE

RxNext == Line /\ Filter /\ Receive /\ RxHistory

RxSpec == RxInit /\ [][RxNext]_rxVars

--------------------------------------------------------------------------------
(* Properties *)

\* What is stored is the oldest byte sent and not yet stored: no byte is changed,
\* doubled or made up, through pauses of any length, bytes back to back and spikes.
\* (The one byte made up before the first start bit is PowerUpByte.)
PowerUpByte == ~started /\ Received = [i \in 0 .. 7 |-> 1]

StoredAsSent ==
    [][RxStores => (due # <<>> /\ Received = Head(due)) \/ PowerUpByte]_rxVars

\* No byte is lost: each is stored before the data of the next is over.
InTime == Len(due) <= 1
================================================================================
