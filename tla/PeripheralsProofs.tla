---------------------------- MODULE PeripheralsProofs -----------------------------
(***************************************************************************)
(* The safety properties of Peripherals, for every length of a byte, size of   *)
(* the ring and bit time, and whatever the core accesses: one exchange at a     *)
(* time; reads of UART_IN take the bytes in order; an exchange moves both its   *)
(* bytes whole; what a status register said still holds when the core has it;   *)
(* the far end of sout hears each byte written, once and in order.              *)
(* Of UartRx, at any bit time of four clocks or more: what it stores is what      *)
(* was sent, and in time.                                                       *)
(***************************************************************************)
EXTENDS Peripherals, UartRx, TLAPS

\* An exchange keeps its request up until it is over; a request just made is seen by
\* the SPI in the clock in which the bus ends its answer, so it is not given back.
RequestHeld ==
    /\ spi_busy => spi_req /\ send_request_delayed
    /\ spi_req /\ ~send_request_delayed => pstate = 1

\* One byte is owed from the write to the end of its exchange.
OneOwed ==
    IF spi_req /\ (spi_busy \/ ~send_request_delayed)
    THEN \E byte : unexchanged = <<byte>>
    ELSE unexchanged = <<>>

SpiTypes ==
    /\ cs \in BOOLEAN /\ spi_req \in BOOLEAN /\ send_request_delayed \in BOOLEAN

IInv == SpiTypes /\ RequestHeld /\ OneOwed

LEMMA InitIInv == Init => IInv
BY DEF Init, SpiInit, IInv, SpiTypes, RequestHeld, OneOwed, spi_busy

\* The request flag: raised by a write that found it down, lowered in state 0 when the
\* SPI is not busy.
LEMMA RequestFlag ==
    ASSUME SpiTypes, Bus
    PROVE  /\ spi_req' \in BOOLEAN
           /\ Request("SPI_TX") /\ ~spi_req => spi_req' /\ pstate' = 1
           /\ ~(Request("SPI_TX") /\ ~spi_req) /\ ~spi_req => ~spi_req'
           /\ spi_req /\ (spi_busy \/ pstate = 1) => spi_req'
<1>1. CASE SpiSend
  BY <1>1 DEF SpiSend, Answer, Request, SpiTypes
<1>2. CASE WritePort \/ UartSend \/ ReadUart \/ ReadUartStatus \/ ReadSpiStatus \/ ReadSpi
  <2>1. /\ spi_req' = spi_req_after /\ pstate = 0
        /\ ~Request("SPI_TX")
    BY <1>2 DEF WritePort, UartSend, ReadUart, ReadUartStatus, ReadSpiStatus, ReadSpi,
                ReadRegister, Request
  <2> QED
    BY <2>1 DEF spi_req_after, spi_busy, SpiTypes
<1>3. CASE Blocked
  BY <1>3 DEF Blocked, in_use, Request, spi_req_after, spi_busy, SpiTypes
<1>4. CASE NoRequest
  BY <1>4 DEF NoRequest, Request, spi_req_after, spi_busy, SpiTypes
<1>5. CASE AnswerEnds
  BY <1>5 DEF AnswerEnds, Request, SpiTypes
<1> QED
  BY <1>1, <1>2, <1>3, <1>4, <1>5 DEF Bus

\* Chip select: goes down on the edge of the request only.
LEMMA ChipSelect ==
    ASSUME SpiTypes, SpiMaster(spi_req, spi_data)
    PROVE  /\ cs' \in BOOLEAN
           /\ send_request_delayed' = spi_req
           /\ spi_busy' /\ ~spi_busy => Edge(spi_req)
           /\ Edge(spi_req) => ~spi_busy /\ spi_busy'
<1>1. CASE SpiStart(spi_req, spi_data)
  BY <1>1 DEF SpiStart, SpiMaster, spi_busy, SpiTypes
<1>2. CASE SpiBusy(spi_req)
  BY <1>2 DEF SpiBusy, SpiWait, SpiDrive, SpiSample, SpiEnd, SpiMaster, spi_busy, SpiTypes
<1>3. CASE SpiIdle(spi_req)
  BY <1>3 DEF SpiIdle, masterVars, SpiMaster, spi_busy, SpiTypes
<1> QED
  BY <1>1, <1>2, <1>3 DEF SpiMaster

LEMMA NextIInv == IInv /\ [Next]_vars => IInv'
<1> SUFFICES ASSUME IInv, [Next]_vars PROVE IInv'
  OBVIOUS
<1>1. CASE UNCHANGED vars
  BY <1>1 DEF vars, busVars, spiVars, masterVars, IInv, SpiTypes, RequestHeld, OneOwed,
              spi_busy
<1>2. CASE Next
  <2>0. /\ Bus /\ SpiMaster(spi_req, spi_data) /\ History
        /\ SpiTypes /\ RequestHeld /\ OneOwed
    BY <1>2 DEF Next, SpiClock, IInv
  <2> DEFINE made == Request("SPI_TX") /\ ~spi_req
             held == spi_req /\ (spi_busy \/ ~send_request_delayed)
  <2>1. /\ spi_req' \in BOOLEAN
        /\ made => spi_req' /\ pstate' = 1
        /\ ~made /\ ~spi_req => ~spi_req'
        /\ spi_req /\ (spi_busy \/ pstate = 1) => spi_req'
    BY <2>0, RequestFlag
  <2>2. /\ cs' \in BOOLEAN
        /\ send_request_delayed' = spi_req
        /\ spi_busy' /\ ~spi_busy => Edge(spi_req)
        /\ Edge(spi_req) => ~spi_busy /\ spi_busy'
    BY <2>0, ChipSelect
  <2>3. SpiTypes'
    BY <2>0, <2>1, <2>2 DEF SpiTypes
  <2>4. RequestHeld'
    BY <2>0, <2>1, <2>2 DEF RequestHeld, Edge, SpiTypes
  <2>5. OneOwed'
    <3>0. unexchanged' = Without(unexchanged, SpiEnds)
                         \o (IF made THEN <<mem_write_data>> ELSE <<>>)
      BY <2>0 DEF History
    <3>1. CASE made
      <4>1. unexchanged = <<>> /\ spi_req' /\ ~send_request_delayed'
        BY <2>0, <2>1, <2>2, <3>1 DEF OneOwed
      <4>2. unexchanged' = <<mem_write_data>>
        BY <3>0, <3>1, <4>1 DEF Without
      <4> QED
        BY <4>1, <4>2 DEF OneOwed
    <3>2. CASE ~made /\ held
      <4>1. PICK byte : unexchanged = <<byte>>
        BY <2>0, <3>2 DEF OneOwed
      <4>2. CASE SpiEnds
        <5>1. unexchanged' = <<>>
          BY <3>0, <3>2, <4>1, <4>2 DEF Without
        <5>2. ~spi_busy' /\ send_request_delayed'
          BY <2>2, <3>2, <4>2 DEF SpiEnds, spi_busy
        <5> QED
          BY <5>1, <5>2 DEF OneOwed
      <4>3. CASE ~SpiEnds
        <5>1. unexchanged' = <<byte>>
          BY <3>0, <3>2, <4>1, <4>3 DEF Without
        <5>2. spi_busy' /\ spi_req'
          BY <2>0, <2>1, <2>2, <3>2, <4>3
             DEF SpiEnds, spi_busy, RequestHeld, Edge, SpiTypes
        <5> QED
          BY <5>1, <5>2 DEF OneOwed
      <4> QED
        BY <4>2, <4>3
    <3>3. CASE ~made /\ ~held
      <4>1. unexchanged = <<>>
        BY <2>0, <3>3 DEF OneOwed
      <4>2. unexchanged' = <<>>
        BY <3>0, <3>3, <4>1 DEF Without
      <4>3. ~spi_req' \/ (~spi_busy' /\ send_request_delayed')
        BY <2>0, <2>1, <2>2, <3>3 DEF RequestHeld, Edge, SpiTypes
      <4> QED
        BY <4>2, <4>3 DEF OneOwed
    <3> QED
      BY <3>1, <3>2, <3>3
  <2> QED
    BY <2>3, <2>4, <2>5 DEF IInv
<1> QED
  BY <1>1, <1>2

LEMMA IInvImplies == IInv => OneAtATime
<1> SUFFICES ASSUME IInv PROVE OneAtATime
  OBVIOUS
<1>1. ~(Edge(spi_req) /\ spi_busy)
  BY DEF IInv, RequestHeld, Edge
<1>2. CASE unexchanged = <<>>
  BY <1>1, <1>2 DEF OneAtATime
<1>3. CASE \E byte : unexchanged = <<byte>>
  <2>1. PICK byte : unexchanged = <<byte>>
    BY <1>3
  <2>2. Len(unexchanged) = 1
    BY <2>1
  <2> QED
    BY <1>1, <2>2 DEF OneAtATime
<1> QED
  BY <1>2, <1>3 DEF IInv, OneOwed

\* peripherals.v never raises spi_req under spi.v, so that the clock counter, the bit
\* counter and the latched byte of an exchange stay its own.
THEOREM ExchangeAlone == Spec => []OneAtATime
<1>1. Init => IInv
  BY InitIInv
<1>2. IInv /\ [Next]_vars => IInv'
  BY NextIInv
<1>3. IInv => OneAtATime
  BY IInvImplies
<1> QED
  BY <1>1, <1>2, <1>3, PTL DEF Spec

--------------------------------------------------------------------------------
(* The bus *)

Types ==
    /\ m_valid_d \in BOOLEAN /\ i_prec \in BOOLEAN /\ pstate \in {0, 1, 2}
    /\ ss \in BOOLEAN /\ rr \in BOOLEAN /\ pre_rr \in BOOLEAN
    /\ mem_write_data \in Data /\ uart_data \in Data /\ spi_data \in Data
    /\ in_buffer \in [0 .. RingSize - 1 -> Data]
    /\ in_buffer_read_pos \in 0 .. RingSize - 1 /\ in_buffer_write_pos \in 0 .. RingSize - 1

\* State 0 decides, states 1 and 2 end an answer; only a read of UART_IN goes through 2,
\* and the request is still there in both.
Answering ==
    /\ i_prec => pstate # 0
    /\ pstate = 1 => i_prec /\ m_valid_d /\ mem_address_d # "UART_IN"
    /\ pstate = 2 => m_valid_d /\ mem_address_d = "UART_IN"

LEMMA ByteTypes == \A b1, b0 : Flags(b1, b0) \in Data
<1>1. ASSUME NEW b1, NEW b0 PROVE Flags(b1, b0) \in Data
  <2>1. \A i \in 0 .. Bits - 1 : (IF (i = 1 /\ b1) \/ (i = 0 /\ b0) THEN 1 ELSE 0) \in 0 .. 1
    OBVIOUS
  <2> QED
    BY <2>1 DEF Flags, Data, Bit
<1> QED
  BY <1>1

LEMMA InitBus == Init => Types /\ Answering
<1> SUFFICES ASSUME Init PROVE Types /\ Answering
  OBVIOUS
<1>1. Flags(FALSE, FALSE) \in Data /\ RingSize \in Nat /\ RingSize # 0
  BY ByteTypes, UartAssumption
<1>2. in_buffer \in [0 .. RingSize - 1 -> Data]
  BY DEF Init, UartInit, Data, Bit
<1> QED
  BY <1>1, <1>2 DEF Init, UartInit, Types, Answering

\* What the bus does to the registers the rest of the proof is about.
LEMMA CoreMoves ==
    ASSUME Types, Answering, Core
    PROVE  /\ pstate = 0 => ~i_prec
           /\ pstate = 0 /\ m_valid_d => UNCHANGED portVars
<1>1. pstate = 0 => ~i_prec
  BY DEF Answering
<1> QED
  BY <1>1 DEF Core, Issue, Answered, portVars

LEMMA BusMoves ==
    ASSUME Types, Answering, Bus
    PROVE  /\ pstate # 0 => /\ pstate' = 0 /\ ~i_prec'
                            /\ ss' = ss /\ rr' = rr /\ i_read_data' = i_read_data
                            /\ uart_data' = uart_data /\ spi_data' = spi_data
           /\ pstate' = 2 => /\ pstate = 0 /\ m_valid_d /\ mem_address_d = "UART_IN" /\ ~rr
                             /\ i_read_data' = rec_data
                             /\ (i_prec' <=> rec_valid) /\ (rr' <=> rec_valid)
           /\ pstate' = 1 => pstate = 0 /\ i_prec' /\ m_valid_d /\ mem_address_d # "UART_IN"
           /\ pstate' = 0 => ~i_prec'
           /\ pstate' \in {0, 1, 2}
           /\ rr' => rr \/ pstate' = 2
           /\ pstate = 0 /\ ~m_valid_d => ~rr'
<1>1. /\ pstate \in {0, 1, 2} /\ i_prec \in BOOLEAN /\ rr \in BOOLEAN /\ m_valid_d \in BOOLEAN
      /\ pstate = 0 => ~i_prec
  BY DEF Types, Answering
<1>2. CASE WritePort \/ UartSend \/ SpiSend
  <2>1. /\ pstate = 0 /\ pstate' = 1 /\ i_prec' = TRUE /\ m_valid_d /\ rr' = rr
        /\ mem_address_d # "UART_IN"
    BY <1>2 DEF WritePort, UartSend, SpiSend, Request, Answer
  <2> QED
    BY <1>1, <2>1
<1>3. CASE ReadUartStatus \/ ReadSpiStatus \/ ReadSpi
  <2>1. /\ pstate = 0 /\ pstate' = 1 /\ i_prec' = TRUE /\ m_valid_d /\ rr' = rr
        /\ mem_address_d # "UART_IN"
    BY <1>3 DEF ReadUartStatus, ReadSpiStatus, ReadSpi, ReadRegister, Request, Answer
  <2> QED
    BY <1>1, <2>1
<1>4. CASE ReadUart
  <2>1. /\ pstate = 0 /\ m_valid_d /\ mem_address_d = "UART_IN" /\ ~rr /\ pstate' = 2
        /\ i_read_data' = rec_data
    BY <1>4 DEF ReadUart, Request
  <2>2. rr' <=> rec_valid
    BY <1>4 DEF ReadUart, rec_valid
  <2>3. i_prec' <=> rec_valid
    BY <1>1, <1>4, <2>1 DEF ReadUart, rec_valid
  <2> QED
    BY <2>1, <2>2, <2>3
<1>5. CASE Blocked
  <2>1. pstate = 0 /\ pstate' = 0 /\ m_valid_d /\ rr' = rr /\ i_prec' = i_prec
    BY <1>5 DEF Blocked, Request
  <2> QED
    BY <1>1, <2>1
<1>6. CASE NoRequest
  BY <1>1, <1>6 DEF NoRequest
<1>7. CASE AnswerEnds
  <2>1. pstate # 0 /\ pstate' = 0 /\ i_prec' = FALSE /\ rr' = rr
    BY <1>7 DEF AnswerEnds
  <2> QED
    BY <1>1, <1>7, <2>1 DEF AnswerEnds
<1> QED
  BY <1>2, <1>3, <1>4, <1>5, <1>6, <1>7 DEF Bus

LEMMA StepAnswering == ASSUME Types, Answering, Core, Bus PROVE Answering'
<1>1. /\ pstate \in {0, 1, 2} /\ i_prec \in BOOLEAN
      /\ pstate' # 0 => pstate = 0 /\ m_valid_d
      /\ pstate' = 0 => ~i_prec'
      /\ pstate' = 1 => i_prec' /\ mem_address_d # "UART_IN"
      /\ pstate' = 2 => mem_address_d = "UART_IN"
  BY BusMoves DEF Types
<1>2. pstate = 0 /\ m_valid_d => m_valid_d' /\ mem_address_d' = mem_address_d
  BY CoreMoves DEF portVars
<1> QED
  BY <1>1, <1>2 DEF Answering

LEMMA StepTypes == ASSUME Types, Answering, Next PROVE Types'
<1>1. Core /\ Bus /\ Pop(rr) /\ Arrival
  BY DEF Next
<1>2. pstate' \in {0, 1, 2} /\ pre_rr' \in BOOLEAN
  BY <1>1, BusMoves DEF Pop, Types
<1>3. m_valid_d' \in BOOLEAN /\ mem_write_data' \in Data
  BY <1>1, PeripheralsAssumption DEF Core, Issue, portVars, Types
<1>4. i_prec' \in BOOLEAN /\ rr' \in BOOLEAN
  BY <1>1 DEF Bus, WritePort, UartSend, SpiSend, ReadUartStatus, ReadSpiStatus, ReadSpi,
              ReadRegister, ReadUart, Blocked, NoRequest, AnswerEnds, Answer, rec_valid, Types
<1>5. ss' \in BOOLEAN /\ uart_data' \in Data /\ spi_data' \in Data
  BY <1>1 DEF Bus, WritePort, UartSend, SpiSend, ReadUartStatus, ReadSpiStatus, ReadSpi,
              ReadRegister, ReadUart, Blocked, NoRequest, AnswerEnds, ss_after, uart_busy, Types
<1>6. RingSize \in Nat /\ RingSize > 0 /\ \A x \in Nat : x % RingSize \in 0 .. RingSize - 1
  BY UartAssumption
<1>7. in_buffer_read_pos' \in 0 .. RingSize - 1
  BY <1>1, <1>6 DEF Pop, Types
<1>8. in_buffer_write_pos' \in 0 .. RingSize - 1 /\ in_buffer' \in [0 .. RingSize - 1 -> Data]
  <2>1. CASE NoPush
    BY <2>1 DEF NoPush, Types
  <2>2. ASSUME NEW byte \in Arriving, Push(byte)
        PROVE  in_buffer_write_pos' \in 0 .. RingSize - 1
               /\ in_buffer' \in [0 .. RingSize - 1 -> Data]
    BY <1>6, <2>2, PeripheralsAssumption DEF Push, Types
  <2> QED
    BY <1>1, <2>1, <2>2 DEF Arrival
<1> QED
  BY <1>2, <1>3, <1>4, <1>5, <1>7, <1>8 DEF Types

--------------------------------------------------------------------------------
(* The ring of received bytes *)

\* From place p to place w the ring buf holds the bytes q.
RingHolds(buf, p, w, q) ==
    /\ q \in Seq(Data) /\ Len(q) < RingSize
    /\ w = (p + Len(q)) % RingSize
    /\ \A i \in 1 .. Len(q) : q[i] = buf[(p + (i - 1)) % RingSize]

LEMMA Places ==
    ASSUME NEW p \in 0 .. RingSize - 1, NEW i \in 0 .. RingSize
    PROVE  /\ RingSize \in Nat /\ RingSize > 0
           /\ (p + i) % RingSize = IF p + i < RingSize THEN p + i ELSE (p + i) - RingSize
<1>1. RingSize \in Nat /\ RingSize > 0
  BY UartAssumption
<1>2. CASE p + i < RingSize
  BY <1>1, <1>2
<1>3. CASE p + i >= RingSize
  BY <1>1, <1>3
<1> QED
  BY <1>1, <1>2, <1>3

LEMMA RingPop ==
    ASSUME NEW buf, NEW p \in 0 .. RingSize - 1, NEW w, NEW q, RingHolds(buf, p, w, q),
           q # <<>>
    PROVE  /\ RingHolds(buf, (p + 1) % RingSize, w, Tail(q))
           /\ Head(q) = buf[p]
<1>1. /\ RingSize \in Nat /\ RingSize > 0 /\ q \in Seq(Data) /\ Len(q) \in Nat
      /\ Len(q) > 0 /\ Len(q) < RingSize
      /\ w = (p + Len(q)) % RingSize
      /\ \A i \in 1 .. Len(q) : q[i] = buf[(p + (i - 1)) % RingSize]
  BY UartAssumption DEF RingHolds
<1>2. Tail(q) \in Seq(Data) /\ Len(Tail(q)) = Len(q) - 1
      /\ \A i \in 1 .. Len(q) - 1 : Tail(q)[i] = q[i + 1]
  BY <1>1
<1> DEFINE p1 == (p + 1) % RingSize
<1>3. p1 = (IF p + 1 < RingSize THEN p + 1 ELSE (p + 1) - RingSize) /\ p1 \in 0 .. RingSize - 1
  <2>1. 1 \in 0 .. RingSize
    BY <1>1
  <2>2. p1 = IF p + 1 < RingSize THEN p + 1 ELSE (p + 1) - RingSize
    BY <2>1, Places
  <2> QED
    BY <1>1, <2>2
<1> HIDE DEF p1
<1>4. \A i \in 0 .. RingSize - 1 : (p1 + i) % RingSize = (p + (i + 1)) % RingSize
  <2> SUFFICES ASSUME NEW i \in 0 .. RingSize - 1
               PROVE  (p1 + i) % RingSize = (p + (i + 1)) % RingSize
    OBVIOUS
  <2>1. (p1 + i) % RingSize = IF p1 + i < RingSize THEN p1 + i ELSE (p1 + i) - RingSize
    <3>1. i \in 0 .. RingSize
      BY <1>1
    <3> QED
      BY <1>3, <3>1, Places
  <2>2. i + 1 \in 0 .. RingSize
    BY <1>1
  <2>3. (p + (i + 1)) % RingSize =
          IF p + (i + 1) < RingSize THEN p + (i + 1) ELSE (p + (i + 1)) - RingSize
    BY <1>1, <2>2, Places
  <2>4. CASE p + 1 < RingSize
    BY <1>1, <1>3, <2>1, <2>3, <2>4
  <2>5. CASE p + 1 >= RingSize
    BY <1>1, <1>3, <2>1, <2>3, <2>5
  <2> QED
    BY <1>1, <2>4, <2>5
<1>5. w = (p1 + Len(Tail(q))) % RingSize
  <2>1. Len(q) - 1 \in 0 .. RingSize - 1 /\ (Len(q) - 1) + 1 = Len(q)
    BY <1>1
  <2> QED
    BY <1>1, <1>2, <1>4, <2>1
<1>6. ASSUME NEW i \in 1 .. Len(Tail(q)) PROVE Tail(q)[i] = buf[(p1 + (i - 1)) % RingSize]
  <2>1. i \in 1 .. Len(q) - 1 /\ i + 1 \in 1 .. Len(q) /\ i - 1 \in 0 .. RingSize - 1
        /\ (i - 1) + 1 = (i + 1) - 1
    BY <1>1, <1>2
  <2>2. Tail(q)[i] = buf[(p + ((i + 1) - 1)) % RingSize]
    BY <1>1, <1>2, <2>1
  <2> QED
    BY <1>4, <2>1, <2>2
<1>7. Head(q) = buf[p]
  <2>1. Head(q) = q[1] /\ 1 \in 1 .. Len(q)
    BY <1>1
  <2>2. p + (1 - 1) = p /\ p + 0 = p /\ 0 \in 0 .. RingSize /\ p < RingSize
    BY <1>1
  <2>3. p % RingSize = p
    BY <2>2, Places
  <2> QED
    BY <1>1, <2>1, <2>2, <2>3
<1> QED
  BY <1>1, <1>2, <1>5, <1>6, <1>7 DEF RingHolds, p1

LEMMA RingPush ==
    ASSUME NEW buf \in [0 .. RingSize - 1 -> Data], NEW p \in 0 .. RingSize - 1, NEW w, NEW q,
           RingHolds(buf, p, w, q), Len(q) < RingSize - 1, NEW byte \in Data
    PROVE  RingHolds([buf EXCEPT ![w] = byte], p, (w + 1) % RingSize, Append(q, byte))
<1>1. /\ RingSize \in Nat /\ RingSize > 0 /\ q \in Seq(Data) /\ Len(q) \in Nat
      /\ w = (p + Len(q)) % RingSize
      /\ \A i \in 1 .. Len(q) : q[i] = buf[(p + (i - 1)) % RingSize]
  BY UartAssumption DEF RingHolds
<1>2. Append(q, byte) \in Seq(Data) /\ Len(Append(q, byte)) = Len(q) + 1
      /\ (\A i \in 1 .. Len(q) : Append(q, byte)[i] = q[i])
      /\ Append(q, byte)[Len(q) + 1] = byte
  BY <1>1
<1>3. w = (IF p + Len(q) < RingSize THEN p + Len(q) ELSE (p + Len(q)) - RingSize)
      /\ w \in 0 .. RingSize - 1
  <2>1. Len(q) \in 0 .. RingSize
    BY <1>1
  <2>2. w = IF p + Len(q) < RingSize THEN p + Len(q) ELSE (p + Len(q)) - RingSize
    BY <1>1, <2>1, Places
  <2>3. CASE p + Len(q) < RingSize
    BY <1>1, <2>2, <2>3
  <2>4. CASE p + Len(q) >= RingSize
    <3>1. p + Len(q) < RingSize + RingSize
      BY <1>1
    <3> QED
      BY <1>1, <2>2, <2>4, <3>1
  <2> QED
    BY <1>1, <2>3, <2>4
<1>4. (w + 1) % RingSize = (p + (Len(q) + 1)) % RingSize
  <2>1. (w + 1) % RingSize = IF w + 1 < RingSize THEN w + 1 ELSE (w + 1) - RingSize
    <3>1. 1 \in 0 .. RingSize
      BY <1>1
    <3> QED
      BY <1>3, <3>1, Places
  <2>2. Len(q) + 1 \in 0 .. RingSize
    BY <1>1
  <2>3. (p + (Len(q) + 1)) % RingSize =
          IF p + (Len(q) + 1) < RingSize THEN p + (Len(q) + 1)
                                         ELSE (p + (Len(q) + 1)) - RingSize
    BY <1>1, <2>2, Places
  <2> QED
    <3>1. CASE p + Len(q) < RingSize
      BY <1>1, <1>3, <2>1, <2>3, <3>1
    <3>2. CASE p + Len(q) >= RingSize
      <4>1. w = (p + Len(q)) - RingSize /\ w + 1 < RingSize
        BY <1>1, <1>3, <3>2
      <4> QED
        BY <1>1, <2>1, <2>3, <3>2, <4>1
    <3> QED
      BY <1>1, <3>1, <3>2
<1>5. ASSUME NEW i \in 1 .. Len(q)
      PROVE  (p + (i - 1)) % RingSize # w /\ (p + (i - 1)) % RingSize \in 0 .. RingSize - 1
  <2>1. i - 1 \in 0 .. RingSize /\ i - 1 < Len(q)
    BY <1>1
  <2>2. (p + (i - 1)) % RingSize =
          IF p + (i - 1) < RingSize THEN p + (i - 1) ELSE (p + (i - 1)) - RingSize
    BY <2>1, Places
  <2> DEFINE k == i - 1
             x == (p + k) % RingSize
  <2>3. k \in Nat /\ k < Len(q) /\ x = IF p + k < RingSize THEN p + k ELSE (p + k) - RingSize
    BY <1>1, <2>1, <2>2
  <2> HIDE DEF k, x
  <2>4. /\ RingSize \in Nat /\ Len(q) \in Nat /\ Len(q) < RingSize
        /\ p \in Nat /\ p < RingSize
    BY <1>1
  <2>5. CASE p + k < RingSize
    <3>1. x = p + k /\ x \in 0 .. RingSize - 1
      BY <1>1, <2>3, <2>4, <2>5
    <3>2. x # w
      BY <1>3, <2>3, <2>4, <2>5, <3>1
    <3> QED
      BY <3>1, <3>2 DEF x, k
  <2>6. CASE p + k >= RingSize
    <3>1. x = (p + k) - RingSize /\ x \in 0 .. RingSize - 1
      BY <1>1, <2>3, <2>4, <2>6
    <3>2. x # w
      BY <1>3, <2>3, <2>4, <2>6, <3>1
    <3> QED
      BY <3>1, <3>2 DEF x, k
  <2> QED
    BY <1>1, <2>3, <2>4, <2>5, <2>6
<1> DEFINE buf1 == [buf EXCEPT ![w] = byte]
<1>6. ASSUME NEW i \in 1 .. Len(q) + 1
      PROVE  Append(q, byte)[i] = buf1[(p + (i - 1)) % RingSize]
  <2>1. CASE i \in 1 .. Len(q)
    BY <1>1, <1>2, <1>5, <2>1
  <2>2. CASE i = Len(q) + 1
    <3>1. (p + (i - 1)) % RingSize = w
      BY <1>1, <2>2
    <3> QED
      BY <1>2, <1>3, <2>2, <3>1
  <2> QED
    BY <1>1, <2>1, <2>2
<1> QED
  BY <1>1, <1>2, <1>4, <1>6 DEF RingHolds

LEMMA RingEmpty ==
    ASSUME NEW buf, NEW p \in 0 .. RingSize - 1, NEW w, NEW q, RingHolds(buf, p, w, q)
    PROVE  p # w <=> q # <<>>
<1>1. RingSize \in Nat /\ q \in Seq(Data) /\ Len(q) \in 0 .. RingSize /\ Len(q) < RingSize
      /\ w = (p + Len(q)) % RingSize
  BY UartAssumption DEF RingHolds
<1>2. w = IF p + Len(q) < RingSize THEN p + Len(q) ELSE (p + Len(q)) - RingSize
  BY <1>1, Places
<1>3. p # w <=> Len(q) # 0
  BY <1>1, <1>2
<1> QED
  BY <1>1, <1>3

\* What the core does not know yet: the byte of an answer from state 2 is the oldest one,
\* and rr, which rose with the answer, takes it now; a byte reported is still there.
Reading ==
    /\ RingHolds(in_buffer, in_buffer_read_pos, in_buffer_write_pos, unread)
    /\ Len(unread) <= MaxUnread
    /\ pstate = 2 /\ i_prec =>
          rr /\ ~pre_rr /\ unread # <<>> /\ i_read_data = Head(unread)
    /\ rr /\ ~pre_rr /\ rec_valid => pstate = 2 /\ i_prec
    /\ pstate = 1 /\ mem_address_d = "UART_STATUS" /\ i_read_data[1] = 1 => unread # <<>>

LEMMA InitReading == Init => Reading
<1> SUFFICES ASSUME Init PROVE Reading
  OBVIOUS
<1>1. /\ unread = <<>> /\ in_buffer_read_pos = 0 /\ in_buffer_write_pos = 0 /\ pstate = 0
      /\ RingSize \in Nat /\ RingSize > 0 /\ MaxUnread \in Nat
  BY UartAssumption, PeripheralsAssumption DEF Init, UartInit
<1>2. Len(<<>>) = 0 /\ <<>> \in Seq(Data) /\ 0 + 0 = 0 /\ 0 % RingSize = 0
  BY <1>1
<1>3. RingHolds(in_buffer, in_buffer_read_pos, in_buffer_write_pos, unread)
  BY <1>1, <1>2 DEF RingHolds
<1> QED
  BY <1>1, <1>2, <1>3 DEF Reading, rec_valid

\* A byte leaves the ring in the clock in which the core takes the answer that holds it.
LEMMA TakenOnce ==
    ASSUME Types, Answering, Reading
    PROVE  /\ ~pre_rr /\ rr /\ rec_valid <=> pstate = 2 /\ i_prec
           /\ Answered /\ mem_address_d = "UART_IN" <=> pstate = 2 /\ i_prec
           /\ rec_valid <=> unread # <<>>
<1>1. rec_valid <=> unread # <<>>
  BY RingEmpty DEF Reading, rec_valid, Types
<1>2. Answered /\ mem_address_d = "UART_IN" <=> pstate = 2 /\ i_prec
  BY DEF Answering, Answered, Types
<1>3. ~pre_rr /\ rr /\ rec_valid <=> pstate = 2 /\ i_prec
  BY <1>1 DEF Reading
<1> QED
  BY <1>1, <1>2, <1>3

LEMMA StepRing ==
    ASSUME Types, Answering, Reading, Next
    PROVE  /\ RingHolds(in_buffer, in_buffer_read_pos, in_buffer_write_pos, unread)'
           /\ Len(unread') <= MaxUnread
           /\ pstate = 0 /\ unread # <<>> => unread' # <<>> /\ Head(unread') = Head(unread)
<1> DEFINE took == pstate = 2 /\ i_prec
           p1 == in_buffer_read_pos'
<1>1. /\ Pop(rr) /\ Arrival
      /\ RingHolds(in_buffer, in_buffer_read_pos, in_buffer_write_pos, unread)
      /\ Len(unread) <= MaxUnread /\ unread \in Seq(Data) /\ Len(unread) \in Nat
      /\ RingSize \in Nat /\ RingSize > 0 /\ MaxUnread \in Nat /\ MaxUnread < RingSize
      /\ in_buffer_read_pos \in 0 .. RingSize - 1 /\ in_buffer_write_pos \in 0 .. RingSize - 1
      /\ in_buffer \in [0 .. RingSize - 1 -> Data]
  BY UartAssumption, PeripheralsAssumption DEF Next, Reading, RingHolds, Types
<1>2. /\ p1 = IF took THEN (in_buffer_read_pos + 1) % RingSize ELSE in_buffer_read_pos
      /\ p1 \in 0 .. RingSize - 1
  <2>1. p1 = IF took THEN (in_buffer_read_pos + 1) % RingSize ELSE in_buffer_read_pos
    BY <1>1, TakenOnce DEF Pop
  <2>2. (in_buffer_read_pos + 1) % RingSize \in 0 .. RingSize - 1
    BY <1>1
  <2> QED
    BY <1>1, <2>1, <2>2
<1>3. took => unread # <<>>
  BY DEF Reading
<1>4. ReadOne = IF took THEN Tail(unread) ELSE unread
  BY <1>3, TakenOnce DEF ReadOne, Without
<1>5. /\ RingHolds(in_buffer, p1, in_buffer_write_pos, ReadOne)
      /\ ReadOne \in Seq(Data) /\ Len(ReadOne) \in Nat /\ Len(ReadOne) <= Len(unread)
  <2>1. CASE took
    <3>1. RingHolds(in_buffer, (in_buffer_read_pos + 1) % RingSize, in_buffer_write_pos, Tail(unread))
      BY <1>1, <1>3, <2>1, RingPop
    <3>2. ReadOne = Tail(unread) /\ p1 = (in_buffer_read_pos + 1) % RingSize
      BY <1>2, <1>4, <2>1
    <3>3. Tail(unread) \in Seq(Data) /\ Len(Tail(unread)) \in Nat /\ Len(Tail(unread)) <= Len(unread)
      BY <1>1, <1>3, <2>1
    <3> QED
      BY <3>1, <3>2, <3>3
  <2>2. CASE ~took
    BY <1>1, <1>2, <1>4, <2>2
  <2> QED
    BY <2>1, <2>2
<1> HIDE DEF p1, took
<1>6. CASE NoPush /\ unread' = ReadOne
  <2>1. RingHolds(in_buffer, in_buffer_read_pos, in_buffer_write_pos, unread)'
    BY <1>5, <1>6 DEF NoPush, p1, RingHolds
  <2> QED
    BY <1>1, <1>4, <1>5, <1>6, <2>1 DEF took
<1>7. ASSUME NEW byte \in Arriving, Len(unread) < MaxUnread, Push(byte),
             unread' = Append(ReadOne, byte)
      PROVE  /\ RingHolds(in_buffer, in_buffer_read_pos, in_buffer_write_pos, unread)'
             /\ Len(unread') <= MaxUnread
             /\ pstate = 0 /\ unread # <<>> => unread' # <<>> /\ Head(unread') = Head(unread)
  <2>1. byte \in Data /\ Len(ReadOne) < RingSize - 1
    BY <1>1, <1>5, <1>7, PeripheralsAssumption
  <2>2. RingHolds([in_buffer EXCEPT ![in_buffer_write_pos] = byte], p1,
                  (in_buffer_write_pos + 1) % RingSize, Append(ReadOne, byte))
    BY <1>1, <1>2, <1>5, <2>1, RingPush
  <2>3. RingHolds(in_buffer, in_buffer_read_pos, in_buffer_write_pos, unread)'
    BY <1>7, <2>2 DEF Push, p1, RingHolds
  <2>4. Len(unread') = Len(ReadOne) + 1
    BY <1>5, <1>7, <2>1
  <2>5. ASSUME pstate = 0, unread # <<>> PROVE unread' # <<>> /\ Head(unread') = Head(unread)
    <3>1. ReadOne = unread
      BY <1>4, <2>5 DEF took
    <3> QED
      BY <1>1, <1>7, <2>1, <2>5, <3>1
  <2> QED
    BY <1>1, <1>5, <1>7, <2>3, <2>4, <2>5
<1> QED
  BY <1>1, <1>6, <1>7 DEF Arrival

\* What a read of a status register answers.
LEMMA StatusRead ==
    ASSUME Types, Answering, Core, Bus, pstate' = 1
    PROVE  /\ mem_address_d' = "UART_STATUS" => i_read_data' = Flags(rec_valid, uart_busy(ss))
           /\ mem_address_d' = "SPI_STATUS" => i_read_data' = Flags(FALSE, spi_busy)
<1>1. pstate = 0 /\ mem_address_d' = mem_address_d
  BY BusMoves, CoreMoves DEF portVars
<1>2. CASE WritePort \/ UartSend \/ SpiSend \/ ReadSpi
  <2>1. mem_address_d \notin {"UART_STATUS", "SPI_STATUS"}
    BY <1>2 DEF WritePort, UartSend, SpiSend, ReadSpi, ReadRegister, Request
  <2> QED
    BY <1>1, <2>1
<1>3. CASE ReadUartStatus
  BY <1>1, <1>3 DEF ReadUartStatus, ReadRegister, Request
<1>4. CASE ReadSpiStatus
  BY <1>1, <1>4 DEF ReadSpiStatus, ReadRegister, Request
<1>5. CASE ReadUart
  BY <1>5 DEF ReadUart
<1>6. CASE Blocked \/ NoRequest
  BY <1>1, <1>6 DEF Blocked, NoRequest
<1>7. CASE AnswerEnds
  BY <1>7 DEF AnswerEnds
<1> QED
  BY <1>2, <1>3, <1>4, <1>5, <1>6, <1>7 DEF Bus

LEMMA StepReading == ASSUME Types, Answering, Reading, Next PROVE Reading'
<1>1. Core /\ Bus /\ Pop(rr)
  BY DEF Next
<1>2. /\ pstate' # 0 => pstate = 0
      /\ rec_valid <=> unread # <<>>
      /\ pre_rr' = rr
  BY <1>1, BusMoves, TakenOnce DEF Pop
<1>3. ASSUME pstate' = 2, i_prec'
      PROVE  rr' /\ ~pre_rr' /\ unread' # <<>> /\ i_read_data' = Head(unread')
  <2>1. pstate = 0 /\ rec_valid /\ rr' /\ ~rr /\ i_read_data' = rec_data
    BY <1>1, <1>3, BusMoves
  <2>2. Head(unread) = rec_data
    BY <1>2, <2>1, RingPop DEF Reading, Types, rec_data
  <2> QED
    BY <1>2, <2>1, <2>2, StepRing
<1>4. ASSUME rr', ~pre_rr' PROVE pstate' = 2 /\ i_prec'
  BY <1>1, <1>2, <1>4, BusMoves
<1>5. ASSUME pstate' = 1, mem_address_d' = "UART_STATUS", i_read_data'[1] = 1
      PROVE  unread' # <<>>
  <2>1. i_read_data' = Flags(rec_valid, uart_busy(ss))
    BY <1>1, <1>5, StatusRead
  <2>2. Flags(rec_valid, uart_busy(ss))[1] = 1 => rec_valid
    BY SerialAssumption DEF Flags, rec_valid
  <2>3. rec_valid
    BY <1>5, <2>1, <2>2
  <2> QED
    BY <1>2, <1>5, <2>3, StepRing
<1>6. RingHolds(in_buffer, in_buffer_read_pos, in_buffer_write_pos, unread)'
      /\ Len(unread') <= MaxUnread
  BY StepRing
<1> QED
  BY <1>3, <1>4, <1>5, <1>6 DEF Reading

BusInv == Types /\ Answering /\ Reading

LEMMA InvBus == Spec => []BusInv
<1>1. Init => BusInv
  BY InitBus, InitReading DEF BusInv
<1>2. BusInv /\ [Next]_vars => BusInv'
  <2> SUFFICES ASSUME BusInv, [Next]_vars PROVE BusInv'
    OBVIOUS
  <2>1. CASE UNCHANGED vars
    <3>1. UNCHANGED <<portVars, busVars, ringVars, unread>>
      BY <2>1 DEF vars, uartVars
    <3>2. Types' /\ Answering'
      BY <3>1 DEF portVars, busVars, ringVars, BusInv, Types, Answering
    <3>3. RingHolds(in_buffer, in_buffer_read_pos, in_buffer_write_pos, unread)'
      BY <3>1 DEF ringVars, BusInv, Reading, RingHolds
    <3>4. Reading'
      BY <3>1, <3>3 DEF portVars, busVars, ringVars, BusInv, Reading, rec_valid
    <3> QED
      BY <3>2, <3>4 DEF BusInv
  <2>2. CASE Next
    <3>1. Answering'
      BY <2>2, StepAnswering DEF BusInv, Next
    <3>2. Types'
      BY <2>2, StepTypes DEF BusInv
    <3>3. Reading'
      BY <2>2, StepReading DEF BusInv
    <3> QED
      BY <3>1, <3>2, <3>3 DEF BusInv
  <2> QED
    BY <2>1, <2>2
<1> QED
  BY <1>1, <1>2, PTL DEF Spec

\* The answer of state 2, the pulse rr that it raises, and the ring agree: a read of
\* UART_IN takes the byte that it gives to the core, and no other.
THEOREM ReadsTakeInOrder == Spec => ReadInOrder
<1>1. BusInv /\ [Next]_vars =>
        [Answered /\ mem_address_d = "UART_IN" => unread # <<>> /\ i_read_data = Head(unread)]_vars
  <2> SUFFICES ASSUME BusInv, Answered, mem_address_d = "UART_IN"
               PROVE  unread # <<>> /\ i_read_data = Head(unread)
    OBVIOUS
  <2> QED
    BY TakenOnce DEF BusInv, Reading
<1> QED
  BY <1>1, InvBus, PTL DEF Spec, ReadInOrder

--------------------------------------------------------------------------------
(* The wires of the SPI *)

\* to holds bits g .. Bits - 1 of from, in its lowest places.
Shifted(to, from, g) == \A j \in 0 .. Bits - 1 : g + j <= Bits - 1 => to[j] = from[g + j]

LEMMA ShiftOne ==
    ASSUME NEW to, NEW from, NEW g \in 0 .. Bits, NEW bit, g < Bits => bit = from[g],
           Shifted(to, from, g + 1)
    PROVE  Shifted(ShiftedIn(to, bit), from, g)
<1> SUFFICES ASSUME NEW j \in 0 .. Bits - 1, g + j <= Bits - 1
             PROVE  ShiftedIn(to, bit)[j] = from[g + j]
  BY DEF Shifted
<1>1. Bits \in Nat /\ g \in Nat /\ j \in Nat
  BY SerialAssumption
<1>2. ShiftedIn(to, bit)[j] = IF j = 0 THEN bit ELSE to[j - 1]
  BY DEF ShiftedIn
<1>3. CASE j = 0
  BY <1>1, <1>2, <1>3
<1>4. CASE j # 0
  <2>1. j - 1 \in 0 .. Bits - 1 /\ (g + 1) + (j - 1) = g + j
    BY <1>1, <1>4
  <2>2. to[j - 1] = from[(g + 1) + (j - 1)]
    BY <2>1 DEF Shifted
  <2> QED
    BY <1>2, <1>4, <2>1, <2>2
<1> QED
  BY <1>3, <1>4

LEMMA ShiftWhole ==
    ASSUME NEW to, NEW bit, NEW from \in Data, Shifted(ShiftedIn(to, bit), from, 0)
    PROVE  ShiftedIn(to, bit) = from
<1>1. \A j \in 0 .. Bits - 1 : ShiftedIn(to, bit)[j] = from[j]
  <2> TAKE j \in 0 .. Bits - 1
  <2>1. 0 + j = j /\ j <= Bits - 1
    BY SerialAssumption
  <2> QED
    BY <2>1 DEF Shifted
<1>2. ShiftedIn(to, bit) = [j \in 0 .. Bits - 1 |-> ShiftedIn(to, bit)[j]]
  BY DEF ShiftedIn
<1>3. from = [j \in 0 .. Bits - 1 |-> from[j]]
  BY DEF Data
<1> QED
  BY <1>1, <1>2, <1>3

\* The bits at or above this one have been taken: bit_pos after a rising edge, the bit
\* above it after a falling one.
Taken == IF out_clk = 1 <=> clock_count # 0 THEN bit_pos ELSE bit_pos + 1

Clocks ==
    /\ clock_count \in 0 .. SPI_TIME_DELAY
    /\ out_clk \in {0, 1} /\ dev_clk \in {0, 1}
    /\ in_byte \in Data /\ dev_byte \in Data
    /\ cs => out_clk = 1 /\ out_byte = dev_byte

\* During an exchange both ends are at the same bit, the device a clock behind the edges;
\* each has driven the bit the other takes next, and holds the bits above it.
Wires == ~cs =>
    /\ bit_pos \in 0 .. Bits /\ dev_left = bit_pos
    /\ clock_count # 0 => dev_clk = out_clk
    /\ clock_count = 0 => dev_clk = IF bit_pos = Bits THEN 1 ELSE 1 - out_clk
    /\ bit_pos = Bits => out_clk = 1 \/ clock_count = 0
    /\ bit_pos = 0 => (out_clk = 0 <=> clock_count # 0)
    /\ bit_pos < Bits => spi_out = in_byte[bit_pos] /\ spi_sin = dev_byte[bit_pos]
    /\ Shifted(out_byte, dev_byte, Taken) /\ Shifted(dev_in, in_byte, Taken)

LEMMA InitWires == Init => Clocks /\ Wires
<1> SUFFICES ASSUME Init PROVE Clocks /\ Wires
  OBVIOUS
<1>1. /\ cs = TRUE /\ clock_count = 0 /\ out_clk = 1 /\ dev_clk = 1
      /\ out_byte = dev_byte /\ in_byte \in Data /\ dev_byte \in Data
  BY ByteTypes DEF Init, SpiInit
<1> QED
  BY <1>1, SpiAssumption DEF Clocks, Wires

LEMMA WiresStart ==
    ASSUME Clocks, Wires, SpiStart(spi_req, spi_data), Device, spi_data \in Data
    PROVE  Clocks' /\ Wires'
<1>1. /\ cs /\ ~cs' /\ clock_count' = 0 /\ out_clk' = 1 /\ bit_pos' = Bits /\ in_byte' = spi_data
  BY DEF SpiStart, spi_busy
<1>2. dev_byte' \in Data /\ dev_left' = Bits /\ dev_clk' = 1
  BY <1>1 DEF Device, DevSelected, DevDrives, DevTakes, DevRests, Clocks
<1>3. Bits \in Nat /\ Bits > 1 /\ SPI_TIME_DELAY \in Nat
  BY SerialAssumption, SpiAssumption
<1>4. Taken' = Bits + 1
  BY <1>1 DEF Taken
<1>5. Shifted(out_byte, dev_byte, Taken)' /\ Shifted(dev_in, in_byte, Taken)'
  BY <1>3, <1>4 DEF Shifted
<1> QED
  BY <1>1, <1>2, <1>3, <1>5 DEF Clocks, Wires

LEMMA WiresWait ==
    ASSUME Clocks, Wires, ~cs, ClockOut, SpiWait, UNCHANGED in_byte, Device
    PROVE  Clocks' /\ Wires' /\ ~cs'
<1>1. /\ clock_count # 0 /\ dev_clk = out_clk /\ UNCHANGED <<out_byte, spi_out, bit_pos, cs>>
      /\ bit_pos \in 0 .. Bits /\ Bits \in Nat /\ SPI_TIME_DELAY \in Nat /\ SPI_TIME_DELAY # 0
      /\ clock_count \in 0 .. SPI_TIME_DELAY /\ out_clk \in {0, 1}
  BY SerialAssumption, SpiAssumption DEF SpiWait, Wires, Clocks
<1>2. UNCHANGED devVars /\ dev_clk' = out_clk
  BY <1>1 DEF Device, DevSelected, DevDrives, DevTakes, DevRests
<1>3. \/ clock_count' = 0 /\ out_clk' = 1 - out_clk
      \/ clock_count' = clock_count + 1 /\ clock_count < SPI_TIME_DELAY /\ out_clk' = out_clk
  BY <1>1 DEF ClockOut
<1>4. /\ clock_count' \in 0 .. SPI_TIME_DELAY /\ out_clk' \in {0, 1}
      /\ (out_clk' = 1 <=> clock_count' # 0) <=> (out_clk = 1 <=> clock_count # 0)
      /\ clock_count' = 0 => dev_clk' = 1 - out_clk'
      /\ clock_count' # 0 => dev_clk' = out_clk'
  BY <1>1, <1>2, <1>3
<1>5. Taken' = Taken
  BY <1>1, <1>4 DEF Taken
<1>6. Shifted(out_byte, dev_byte, Taken)' /\ Shifted(dev_in, in_byte, Taken)'
  BY <1>1, <1>2, <1>5 DEF devVars, Wires, Shifted
<1>7. bit_pos = Bits => out_clk = 1
  BY <1>1 DEF Wires
<1>8. bit_pos = 0 => out_clk = 0
  BY <1>1 DEF Wires
<1>9. bit_pos' = Bits => (out_clk' = 1 \/ clock_count' = 0) /\ (clock_count' = 0 => dev_clk' = 1)
  BY <1>1, <1>2, <1>3, <1>7
<1>10. bit_pos' = 0 => (out_clk' = 0 <=> clock_count' # 0)
  BY <1>1, <1>3, <1>8
<1>11. Clocks'
  BY <1>1, <1>2, <1>4 DEF Clocks, devVars
<1> QED
  BY <1>1, <1>2, <1>4, <1>6, <1>9, <1>10, <1>11 DEF Wires, devVars

LEMMA WiresDrive ==
    ASSUME Clocks, Wires, ~cs, ClockOut, SpiDrive, UNCHANGED in_byte, Device
    PROVE  Clocks' /\ Wires' /\ ~cs'
<1>1. /\ clock_count = 0 /\ out_clk = 0 /\ bit_pos > 0 /\ dev_clk = 1 /\ dev_left = bit_pos
      /\ bit_pos \in 0 .. Bits /\ Bits \in Nat /\ SPI_TIME_DELAY \in Nat /\ SPI_TIME_DELAY # 0
  BY SerialAssumption, SpiAssumption DEF SpiDrive, Wires, Clocks
<1>2. /\ spi_out' = in_byte[bit_pos - 1] /\ bit_pos' = bit_pos - 1
      /\ out_byte' = out_byte /\ cs' = cs /\ in_byte' = in_byte
      /\ clock_count' = 1 /\ out_clk' = 0
  BY <1>1 DEF SpiDrive, ClockOut
<1>3. /\ spi_sin' = dev_byte[bit_pos - 1] /\ dev_left' = bit_pos - 1
      /\ dev_byte' = dev_byte /\ dev_in' = dev_in /\ dev_clk' = 0
  BY <1>1 DEF Device, DevSelected, DevDrives, DevTakes, DevRests
<1>4. bit_pos' \in 0 .. Bits /\ bit_pos' + 1 = bit_pos /\ bit_pos' < Bits
  BY <1>1, <1>2
<1>5. Taken = bit_pos /\ Taken' = bit_pos
  BY <1>1, <1>2, <1>4 DEF Taken
<1>6. Shifted(out_byte, dev_byte, Taken)' /\ Shifted(dev_in, in_byte, Taken)'
  BY <1>2, <1>3, <1>5 DEF Wires, Shifted
<1> QED
  BY <1>1, <1>2, <1>3, <1>4, <1>6 DEF Wires, Clocks

LEMMA WiresSample ==
    ASSUME Clocks, Wires, ~cs, ClockOut, SpiSample, UNCHANGED in_byte, Device
    PROVE  Clocks' /\ Wires' /\ ~cs'
<1>1. /\ clock_count = 0 /\ out_clk = 1 /\ bit_pos > 0 /\ dev_left = bit_pos
      /\ dev_clk = IF bit_pos = Bits THEN 1 ELSE 0
      /\ bit_pos \in 0 .. Bits /\ Bits \in Nat /\ SPI_TIME_DELAY \in Nat /\ SPI_TIME_DELAY # 0
  BY SerialAssumption, SpiAssumption DEF SpiSample, Wires, Clocks
<1>2. /\ out_byte' = ShiftedIn(out_byte, spi_sin)
      /\ spi_out' = spi_out /\ bit_pos' = bit_pos /\ cs' = cs /\ in_byte' = in_byte
      /\ clock_count' = 1 /\ out_clk' = 1
  BY <1>1 DEF SpiSample, ClockOut
<1>3. /\ dev_byte' = dev_byte /\ dev_left' = dev_left /\ spi_sin' = spi_sin /\ dev_clk' = 1
      /\ bit_pos < Bits => dev_in' = ShiftedIn(dev_in, spi_out)
  BY <1>1 DEF Device, DevSelected, DevDrives, DevTakes, DevRests, devVars
<1>4. Taken = bit_pos + 1 /\ Taken' = bit_pos
  BY <1>1, <1>2 DEF Taken
<1>5. /\ Shifted(out_byte, dev_byte, bit_pos + 1) /\ Shifted(dev_in, in_byte, bit_pos + 1)
      /\ bit_pos < Bits => spi_out = in_byte[bit_pos] /\ spi_sin = dev_byte[bit_pos]
  BY <1>4 DEF Wires
<1>6. Shifted(ShiftedIn(out_byte, spi_sin), dev_byte, bit_pos)
  BY <1>1, <1>5, ShiftOne
<1>7. Shifted(out_byte, dev_byte, Taken)'
  BY <1>2, <1>3, <1>4, <1>6 DEF Shifted
<1>8. Shifted(dev_in, in_byte, Taken)'
  <2>1. CASE bit_pos < Bits
    <3>1. Shifted(ShiftedIn(dev_in, spi_out), in_byte, bit_pos)
      BY <1>1, <1>5, ShiftOne
    <3> QED
      BY <1>2, <1>3, <1>4, <2>1, <3>1 DEF Shifted
  <2>2. CASE bit_pos = Bits
    <3>1. Taken' = Bits
      BY <1>4, <2>2
    <3> QED
      BY <1>1, <3>1 DEF Shifted
  <2> QED
    BY <1>1, <2>1, <2>2
<1> QED
  BY <1>1, <1>2, <1>3, <1>5, <1>7, <1>8 DEF Wires, Clocks

LEMMA WiresEnd ==
    ASSUME Clocks, Wires, ~cs, ClockOut, SpiEnd, UNCHANGED in_byte, Device
    PROVE  Clocks' /\ Wires' /\ cs' /\ dev_in' = in_byte /\ out_byte' = dev_byte
<1>1. /\ clock_count = 0 /\ bit_pos = 0 /\ out_clk = 1 /\ dev_clk = 0
      /\ Bits \in Nat /\ Bits > 1 /\ SPI_TIME_DELAY \in Nat /\ SPI_TIME_DELAY # 0
  BY SerialAssumption, SpiAssumption DEF SpiEnd, Wires, Clocks
<1>2. /\ out_byte' = ShiftedIn(out_byte, spi_sin) /\ cs' /\ in_byte' = in_byte
      /\ clock_count' = 1 /\ out_clk' = 1
  BY <1>1 DEF SpiEnd, ClockOut
<1>3. dev_byte' = dev_byte /\ dev_in' = ShiftedIn(dev_in, spi_out) /\ dev_clk' = 1
  BY <1>1 DEF Device, DevSelected, DevDrives, DevTakes, DevRests
<1>4. Taken = 0 + 1 /\ 0 \in 0 .. Bits
  BY <1>1 DEF Taken
<1>5. /\ Shifted(out_byte, dev_byte, 0 + 1) /\ Shifted(dev_in, in_byte, 0 + 1)
      /\ spi_out = in_byte[0] /\ spi_sin = dev_byte[0]
  BY <1>1, <1>4 DEF Wires
<1>6. /\ Shifted(ShiftedIn(out_byte, spi_sin), dev_byte, 0)
      /\ Shifted(ShiftedIn(dev_in, spi_out), in_byte, 0)
  BY <1>4, <1>5, ShiftOne
<1>7. out_byte' = dev_byte /\ dev_in' = in_byte
  BY <1>2, <1>3, <1>6, ShiftWhole DEF Clocks
<1> QED
  BY <1>1, <1>2, <1>3, <1>7 DEF Wires, Clocks

LEMMA WiresIdle ==
    ASSUME Clocks, Wires, cs, SpiIdle(spi_req), Device
    PROVE  Clocks' /\ Wires' /\ cs'
<1>1. UNCHANGED masterVars
  BY DEF SpiIdle
<1>2. cs' /\ dev_byte' = dev_byte /\ dev_clk' = out_clk
  BY <1>1 DEF masterVars, Device, DevSelected, DevDrives, DevTakes, DevRests, devVars
<1> QED
  BY <1>1, <1>2 DEF masterVars, Wires, Clocks

\* When an exchange ends, the device has the byte sent and the master the device's.
LEMMA StepWires ==
    ASSUME Clocks, Wires, SpiClock(spi_req, spi_data), spi_data \in Data
    PROVE  /\ Clocks' /\ Wires'
           /\ SpiEnds => dev_in' = in_byte /\ out_byte' = dev_byte
           /\ ~cs /\ ~cs' => in_byte' = in_byte
           /\ cs /\ ~cs' => Edge(spi_req) /\ in_byte' = spi_data
<1>1. Device
  BY DEF SpiClock
<1>2. CASE SpiStart(spi_req, spi_data)
  <2>1. cs /\ Edge(spi_req) /\ in_byte' = spi_data
    BY <1>2 DEF SpiStart, spi_busy
  <2> QED
    BY <1>1, <1>2, <2>1, WiresStart DEF SpiEnds
<1>3. CASE SpiBusy(spi_req)
  <2>1. ~cs /\ ClockOut /\ UNCHANGED in_byte
    BY <1>3 DEF SpiBusy, spi_busy
  <2>2. CASE SpiWait
    BY <1>1, <2>1, <2>2, WiresWait DEF SpiEnds
  <2>3. CASE SpiDrive
    BY <1>1, <2>1, <2>3, WiresDrive DEF SpiEnds
  <2>4. CASE SpiSample
    BY <1>1, <2>1, <2>4, WiresSample DEF SpiEnds
  <2>5. CASE SpiEnd
    BY <1>1, <2>1, <2>5, WiresEnd DEF SpiEnds
  <2> QED
    BY <1>3, <2>2, <2>3, <2>4, <2>5 DEF SpiBusy
<1>4. CASE SpiIdle(spi_req)
  <2>1. cs
    BY <1>4 DEF SpiIdle, spi_busy
  <2> QED
    BY <1>1, <1>4, <2>1, WiresIdle DEF SpiEnds
<1> QED
  BY <1>2, <1>3, <1>4 DEF SpiClock, SpiMaster

\* Through an exchange the byte owed is the one being sent, before it the one in
\* spi_data; after "not busy" there is none.
Owed ==
    /\ ~cs => unexchanged = <<in_byte>>
    /\ spi_req /\ ~send_request_delayed => unexchanged = <<spi_data>>
    /\ pstate = 1 /\ mem_address_d = "SPI_STATUS" /\ i_read_data[0] = 0 => unexchanged = <<>>

WrittenToSpi ==
    IF Request("SPI_TX") /\ ~spi_req THEN <<mem_write_data>> ELSE <<>>

LEMMA StepOwed ==
    ASSUME BusInv, IInv, Clocks, Wires, Owed, Next
    PROVE  Owed'
<1>1. /\ Types /\ Answering /\ Core /\ Bus /\ SpiTypes /\ SpiClock(spi_req, spi_data)
      /\ SpiMaster(spi_req, spi_data) /\ send_request_delayed' = spi_req
      /\ spi_data \in Data
      /\ unexchanged' = Without(unexchanged, SpiEnds) \o WrittenToSpi
  BY DEF BusInv, IInv, Types, Next, SpiClock, SpiMaster, History, WrittenToSpi
<1>2. /\ Request("SPI_TX") /\ ~spi_req => spi_req' /\ pstate' = 1
      /\ ~(Request("SPI_TX") /\ ~spi_req) /\ ~spi_req => ~spi_req'
  BY <1>1, RequestFlag
<1>3. ASSUME ~cs' PROVE unexchanged' = <<in_byte'>>
  <2>1. spi_req /\ ~SpiEnds /\ WrittenToSpi = <<>>
    <3>1. spi_req
      BY <1>1, <1>3, StepWires DEF Edge, IInv, RequestHeld, spi_busy
    <3> QED
      BY <1>3, <3>1 DEF SpiEnds, WrittenToSpi
  <2>2. unexchanged = <<in_byte'>>
    <3>1. CASE cs
      <4>1. spi_req /\ ~send_request_delayed /\ in_byte' = spi_data
        BY <1>1, <1>3, <3>1, StepWires DEF Edge
      <4> QED
        BY <4>1 DEF Owed
    <3>2. CASE ~cs
      BY <1>1, <1>3, <3>2, StepWires DEF Owed
    <3> QED
      BY <3>1, <3>2
  <2> QED
    BY <1>1, <2>1, <2>2 DEF Without
<1>4. ASSUME spi_req', ~send_request_delayed' PROVE unexchanged' = <<spi_data'>>
  <2>1. ~spi_req /\ Request("SPI_TX")
    BY <1>1, <1>2, <1>4
  <2>2. unexchanged = <<>>
    BY <2>1 DEF IInv, OneOwed
  <2>3. spi_data' = mem_write_data
    <3>1. SpiSend
      BY <1>1, <2>1 DEF Bus, WritePort, UartSend, ReadUartStatus, ReadUart, ReadSpiStatus,
                        ReadSpi, ReadRegister, Blocked, in_use, NoRequest, AnswerEnds, Request
    <3> QED
      BY <3>1 DEF SpiSend
  <2> QED
    BY <1>1, <2>1, <2>2, <2>3 DEF WrittenToSpi, Without
<1>5. ASSUME pstate' = 1, mem_address_d' = "SPI_STATUS", i_read_data'[0] = 0
      PROVE  unexchanged' = <<>>
  <2>1. i_read_data' = Flags(FALSE, spi_busy) /\ pstate = 0 /\ mem_address_d = mem_address_d'
    BY <1>1, <1>5, StatusRead, BusMoves, CoreMoves DEF portVars
  <2>2. ~spi_busy
    BY <1>5, <2>1, SerialAssumption DEF Flags, spi_busy
  <2>3. unexchanged = <<>>
    BY <2>1, <2>2 DEF IInv, OneOwed, RequestHeld
  <2>4. WrittenToSpi = <<>>
    BY <1>5, <2>1 DEF WrittenToSpi, Request
  <2> QED
    BY <1>1, <2>3, <2>4 DEF Without
<1> QED
  BY <1>3, <1>4, <1>5 DEF Owed

SpiInv == IInv /\ Clocks /\ Wires /\ Owed

LEMMA InvSpi == Spec => [](BusInv /\ SpiInv)
<1>1. Init => SpiInv
  <2> SUFFICES ASSUME Init PROVE SpiInv
    OBVIOUS
  <2>1. Owed
    BY DEF Init, SpiInit, Owed
  <2> QED
    BY <2>1, InitIInv, InitWires DEF SpiInv
<1>2. BusInv /\ SpiInv /\ [Next]_vars => SpiInv'
  <2> SUFFICES ASSUME BusInv, SpiInv, [Next]_vars PROVE SpiInv'
    OBVIOUS
  <2>1. IInv'
    BY NextIInv DEF SpiInv
  <2>2. CASE UNCHANGED vars
    <3>1. UNCHANGED <<portVars, busVars, spiVars, unexchanged>>
      BY <2>2 DEF vars
    <3>2. Clocks' /\ Wires'
      BY <3>1 DEF spiVars, masterVars, devVars, SpiInv, Clocks, Wires, Taken, Shifted
    <3>3. Owed'
      BY <3>1 DEF spiVars, masterVars, portVars, busVars, SpiInv, Owed
    <3> QED
      BY <2>1, <3>2, <3>3 DEF SpiInv
  <2>3. CASE Next
    <3>1. Clocks' /\ Wires'
      BY <2>3, StepWires DEF Next, SpiInv, BusInv, Types
    <3>2. Owed'
      BY <2>3, StepOwed DEF SpiInv
    <3> QED
      BY <2>1, <3>1, <3>2 DEF SpiInv
  <2> QED
    BY <2>2, <2>3
<1> QED
  BY <1>1, <1>2, InvBus, PTL DEF Spec

\* At the end of an exchange the two bytes have changed places, whatever they are and
\* however the bus and the core move meanwhile.
THEOREM ExchangesWhole == Spec => Exchanged
<1>1. BusInv /\ SpiInv /\ [Next]_vars =>
        [SpiEnds => /\ unexchanged # <<>> /\ dev_in' = Head(unexchanged)
                    /\ out_byte' = dev_byte]_vars
  <2> SUFFICES ASSUME BusInv, SpiInv, Next, SpiEnds
               PROVE  /\ unexchanged # <<>> /\ dev_in' = Head(unexchanged)
                      /\ out_byte' = dev_byte
    BY DEF SpiEnds, vars, spiVars, masterVars
  <2>1. dev_in' = in_byte /\ out_byte' = dev_byte
    BY StepWires DEF Next, SpiInv, BusInv, Types
  <2>2. unexchanged = <<in_byte>>
    BY DEF SpiEnds, SpiInv, Owed
  <2> QED
    BY <2>1, <2>2
<1> QED
  BY <1>1, InvSpi, PTL DEF Spec, Exchanged

\* What a driver reads in a status register still holds when it reads it.
THEOREM StatusBelieved == Spec => []StatusTrue
<1>1. BusInv /\ SpiInv => StatusTrue
  <2> SUFFICES ASSUME BusInv, SpiInv PROVE StatusTrue
    OBVIOUS
  <2>1. Answered /\ mem_address_d # "UART_IN" => pstate = 1
    BY DEF Answered, BusInv, Answering, Types
  <2>2. unexchanged = <<>> => out_byte = dev_byte
    BY DEF SpiInv, Owed, Clocks
  <2> QED
    BY <2>1, <2>2 DEF StatusTrue, BusInv, Reading, SpiInv, Owed
<1> QED
  BY <1>1, InvSpi, PTL

--------------------------------------------------------------------------------
(* The line sout *)

\* The core has the answer to its write and does not see it yet.
Announced == pstate = 1 /\ mem_address_d = "UART"

\* A frame stands in the shift register from its second place on; the transmitter falls
\* back to rest a clock after its request, and its request a few clocks after the frame.
Sender ==
    /\ sendcount \in 0 .. Last /\ tx_baud_count \in 0 .. UART_TIME_DELAY
    /\ shiftout[0] = 1 /\ shiftout[Last] = 1
    /\ ss /\ sendcount # 0 => shiftout = Frame(uart_data)
    /\ ~ss => sendcount \in {0, Last}
    /\ ~ss /\ sendcount = 0 => tx_baud_count = 0
    /\ ss /\ sendcount = Last =>
          tx_baud_count = 0 \/ (tx_baud_count = 1 /\ pstate = 0)
    /\ Announced => ss /\ sendcount = 0 /\ mem_write_data = uart_data

LEMMA Delay ==
    /\ UART_TIME_DELAY \in Nat /\ UART_TIME_DELAY >= 1
    /\ Last = Bits + 2 /\ Last \in Nat /\ Last > 3 /\ Bits \in Nat
BY UartAssumption, SerialAssumption, PeripheralsAssumption DEF Last

\* The request of the transmitter: up from a write until the frame is out, and its byte
\* stays with it.
LEMMA BusSends ==
    ASSUME Types, Answering, Core, Bus
    PROVE  /\ ss /\ sendcount < Last => ss'
           /\ ss /\ ~(sendcount < Last) /\ pstate = 0 => ~ss'
           /\ ss => uart_data' = uart_data /\ ~Announced'
           /\ ~ss => ss' = Announced'
           /\ Announced' => uart_data' = mem_write_data'
<1>1. /\ ss \in BOOLEAN /\ ss' \in BOOLEAN /\ pstate \in {0, 1, 2}
      /\ pstate = 0 /\ m_valid_d => mem_address_d' = mem_address_d /\ mem_write_data' = mem_write_data
  <2>1. ss' \in BOOLEAN
    BY DEF Bus, WritePort, UartSend, SpiSend, ReadUartStatus, ReadSpiStatus, ReadSpi,
           ReadRegister, ReadUart, Blocked, NoRequest, AnswerEnds, ss_after, uart_busy, Types
  <2> QED
    BY <2>1, CoreMoves DEF Types, portVars
<1>2. CASE UartSend
  <2>1. /\ ~ss /\ ss' = TRUE /\ uart_data' = mem_write_data /\ pstate' = 1
        /\ pstate = 0 /\ m_valid_d /\ mem_address_d = "UART"
    BY <1>2 DEF UartSend, Answer, Request
  <2> QED
    BY <1>1, <2>1 DEF Announced
<1>3. CASE AnswerEnds
  <2>1. pstate # 0 /\ pstate' = 0 /\ ss' = ss /\ uart_data' = uart_data
    BY <1>3 DEF AnswerEnds
  <2> QED
    BY <1>1, <2>1 DEF Announced
<1>4. CASE ~UartSend /\ ~AnswerEnds
  <2>1. ss' = ss_after /\ uart_data' = uart_data /\ pstate = 0
    BY <1>4 DEF Bus, WritePort, SpiSend, ReadUartStatus, ReadSpiStatus, ReadSpi,
                ReadRegister, ReadUart, Blocked, NoRequest, Request
  <2>2. pstate' = 1 => m_valid_d /\ mem_address_d # "UART"
    <3>1. CASE WritePort \/ SpiSend
      BY <3>1 DEF WritePort, SpiSend, Request
    <3>2. CASE ReadUartStatus \/ ReadSpiStatus \/ ReadSpi
      BY <3>2 DEF ReadUartStatus, ReadSpiStatus, ReadSpi, ReadRegister, Request
    <3>3. CASE ReadUart
      BY <3>3 DEF ReadUart
    <3>4. CASE Blocked \/ NoRequest
      BY <2>1, <3>4 DEF Blocked, NoRequest
    <3> QED
      BY <1>4, <3>1, <3>2, <3>3, <3>4 DEF Bus
  <2>3. ~Announced'
    BY <1>1, <2>1, <2>2 DEF Announced
  <2>4. ss_after <=> ss /\ sendcount < Last
    BY DEF ss_after, uart_busy
  <2>5. ~ss => ss' = FALSE
    BY <1>1, <2>1, <2>4
  <2> QED
    BY <1>1, <2>1, <2>3, <2>4, <2>5 DEF Announced
<1> QED
  BY <1>2, <1>3, <1>4

LEMMA SenderMoves ==
    ASSUME Types, Sender, Transmit(ss, uart_data)
    PROVE  /\ ~ss => sendcount' = 0 /\ tx_baud_count' = 0 /\ shiftout' = Rest
           /\ ss => shiftout' = Frame(uart_data)
           /\ ss /\ tx_baud_count = UART_TIME_DELAY =>
                 /\ tx_baud_count' = 0
                 /\ sendcount' = IF sendcount < Last THEN sendcount + 1 ELSE Last
           /\ ss /\ tx_baud_count # UART_TIME_DELAY =>
                 tx_baud_count' = tx_baud_count + 1 /\ sendcount' = sendcount
BY Delay DEF Types, Sender, Transmit, TxSend, TxRest

\* What the line carries.
LEMMA OnTheLine ==
    ASSUME Sender
    PROVE  /\ sendcount \in {0, Last} => sout = 1
           /\ ss /\ sendcount = 1 => sout = 0
           /\ ss /\ sendcount \in 2 .. Last - 1 => sout = uart_data[sendcount - 2]
<1>1. sendcount \in {0, Last} => sout = 1
  BY DEF Sender, sout
<1>2. ASSUME ss, sendcount = 1 PROVE sout = 0
  <2>1. 1 \in 0 .. Last
    BY Delay
  <2> QED
    BY <1>2, <2>1 DEF Sender, sout, Frame
<1>3. ASSUME ss, sendcount \in 2 .. Last - 1 PROVE sout = uart_data[sendcount - 2]
  <2>1. sendcount \in 0 .. Last /\ sendcount # 0 /\ sendcount # 1
    BY <1>3, Delay
  <2>2. shiftout = Frame(uart_data)
    BY <1>3, <2>1 DEF Sender
  <2> QED
    BY <1>3, <2>1, <2>2 DEF sout, Frame
<1> QED
  BY <1>1, <1>2, <1>3

LEMMA FrameEnds ==
    /\ \A data : Frame(data)[0] = 1 /\ Frame(data)[Last] = 1
    /\ Rest[0] = 1 /\ Rest[Last] = 1
<1>1. 0 \in 0 .. Last /\ Last \in 0 .. Last /\ Last # 1 /\ 0 \notin 2 .. Last - 1 /\ Last \notin 2 .. Last - 1
  BY Delay
<1>2. ASSUME NEW data PROVE Frame(data)[0] = 1 /\ Frame(data)[Last] = 1
  BY <1>1 DEF Frame
<1>3. Rest[0] = 1 /\ Rest[Last] = 1
  BY <1>1 DEF Rest
<1> QED
  BY <1>2, <1>3

LEMMA StepSender == ASSUME Types, Answering, Sender, Next PROVE Sender'
<1>1. Core /\ Bus /\ Transmit(ss, uart_data)
  BY DEF Next
<1>2. /\ ss \in BOOLEAN /\ pstate \in {0, 1, 2}
      /\ sendcount \in 0 .. Last /\ tx_baud_count \in 0 .. UART_TIME_DELAY
      /\ UART_TIME_DELAY \in Nat /\ UART_TIME_DELAY >= 1 /\ Last \in Nat /\ Last > 3
  BY Delay DEF Types, Sender
<1>3. /\ ~ss => sendcount' = 0 /\ tx_baud_count' = 0 /\ shiftout' = Rest
      /\ ss => shiftout' = Frame(uart_data)
      /\ ss /\ tx_baud_count = UART_TIME_DELAY =>
            tx_baud_count' = 0 /\ sendcount' = IF sendcount < Last THEN sendcount + 1 ELSE Last
      /\ ss /\ tx_baud_count # UART_TIME_DELAY =>
            tx_baud_count' = tx_baud_count + 1 /\ sendcount' = sendcount
  BY <1>1, SenderMoves
<1>4. /\ ss /\ sendcount < Last => ss'
      /\ ss /\ ~(sendcount < Last) /\ pstate = 0 => ~ss'
      /\ ss => uart_data' = uart_data /\ ~Announced'
      /\ ~ss => ss' = Announced'
      /\ Announced' => uart_data' = mem_write_data'
      /\ pstate # 0 => pstate' = 0
  BY <1>1, BusSends, BusMoves
<1>5. sendcount' \in 0 .. Last /\ tx_baud_count' \in 0 .. UART_TIME_DELAY
  BY <1>2, <1>3
<1>6. shiftout'[0] = 1 /\ shiftout'[Last] = 1
  BY <1>2, <1>3, FrameEnds
<1>7. ss' /\ sendcount' # 0 => shiftout' = Frame(uart_data')
  BY <1>2, <1>3, <1>4
<1>8. ~ss' => sendcount' \in {0, Last}
  BY <1>2, <1>3, <1>4
<1>9. ~ss' /\ sendcount' = 0 => tx_baud_count' = 0
  BY <1>2, <1>3, <1>4
<1>10. ss' /\ sendcount' = Last => tx_baud_count' = 0 \/ (tx_baud_count' = 1 /\ pstate' = 0)
  BY <1>2, <1>3, <1>4 DEF Sender
<1>11. Announced' => ss' /\ sendcount' = 0 /\ mem_write_data' = uart_data'
  BY <1>2, <1>3, <1>4
<1> QED
  BY <1>5, <1>6, <1>7, <1>8, <1>9, <1>10, <1>11 DEF Sender

\* The clock of a bit in which the listener samples it.
Middle == 1 + ((UART_TIME_DELAY - 1) \div 2)

LEMMA MiddleOfBit == Middle \in Nat /\ 1 <= Middle /\ Middle <= UART_TIME_DELAY
<1>1. (UART_TIME_DELAY - 1) \div 2 \in Nat /\ (UART_TIME_DELAY - 1) \div 2 <= UART_TIME_DELAY - 1
  BY Delay
<1> QED
  BY <1>1, Delay DEF Middle

(* Where the listener is with respect to the transmitter. *)

\* Between two frames.
Quiet ==
    /\ hear_pos = 0
    /\ sendcount \in {0, Last} \/ (ss /\ sendcount = 1 /\ tx_baud_count = 0)

\* In the first half of a bit: at the same place, to sample in its middle.
InBit ==
    /\ hear_pos # 0 /\ ss /\ sendcount = hear_pos
    /\ tx_baud_count + hear_count = Middle

\* In the second half: a place ahead.
PastMiddle ==
    /\ hear_pos # 0 /\ ss /\ sendcount # 0 /\ sendcount + 1 = hear_pos
    /\ tx_baud_count + hear_count = Middle + UART_TIME_DELAY + 1

\* In a stop bit that the transmitter has left, or for longer.
StopLeft ==
    /\ hear_pos = Last /\ ~ss /\ sendcount = Last /\ hear_count < Middle

StopLast ==
    /\ hear_pos = Last /\ sendcount = 0 /\ tx_baud_count + hear_count + 1 < Middle

Listening ==
    /\ hear_pos \in 0 .. Last /\ hear_count \in Nat
    /\ Quiet \/ InBit \/ PastMiddle \/ StopLeft \/ StopLast
    /\ hear_bits = [i \in 0 .. Bits - 1 |-> hear_bits[i]]
    /\ hear_pos # 0 /\ sendcount # 0 /\ ss =>
          \A i \in 0 .. Bits - 1 : i + 2 < hear_pos => hear_bits[i] = uart_data[i]

\* The two ends of the line in one step, as the proofs below use it.
LineStep ==
    /\ ss \in BOOLEAN /\ ss' \in BOOLEAN /\ sendcount \in 0 .. Last
    /\ tx_baud_count \in 0 .. UART_TIME_DELAY
    /\ hear_pos \in 0 .. Last /\ hear_count \in Nat
    /\ ~ss => sendcount' = 0 /\ tx_baud_count' = 0
    /\ ss /\ tx_baud_count = UART_TIME_DELAY =>
          tx_baud_count' = 0 /\ sendcount' = IF sendcount < Last THEN sendcount + 1 ELSE Last
    /\ ss /\ tx_baud_count # UART_TIME_DELAY =>
          tx_baud_count' = tx_baud_count + 1 /\ sendcount' = sendcount
    /\ ss /\ sendcount < Last => ss'
    /\ ss /\ sendcount = Last => tx_baud_count = 0 \/ tx_baud_count = 1
    /\ ss /\ sendcount = Last /\ tx_baud_count = 1 => ~ss'
    /\ sendcount \in {0, Last} => sout = 1
    /\ ss /\ sendcount = 1 => sout = 0
    /\ Listen

LEMMA BothEnds ==
    ASSUME Types, Answering, Sender, Listening, Next
    PROVE  LineStep
<1>1. Core /\ Bus /\ Transmit(ss, uart_data) /\ Listen
  BY DEF Next
<1>2. ss' \in BOOLEAN
  BY StepTypes DEF Types
<1>3. ss /\ sendcount = Last => ~(sendcount < Last)
  BY Delay
<1> QED
  BY <1>1, <1>2, <1>3, SenderMoves, BusSends, OnTheLine DEF LineStep, Types, Sender, Listening

LEMMA FromQuiet ==
    ASSUME LineStep, Quiet
    PROVE  /\ Quiet' \/ InBit'
           /\ hear_bits' = hear_bits
           /\ sendcount \in {0, Last} => hear_pos' = 0
           /\ sendcount \notin {0, Last} => hear_pos' = 1
<1>1. /\ UART_TIME_DELAY \in Nat /\ UART_TIME_DELAY >= 1 /\ Last \in Nat /\ Last > 3
      /\ Middle \in Nat
  BY Delay, MiddleOfBit
<1>2. CASE sendcount \in {0, Last}
  <2>1. hear_pos' = 0 /\ hear_bits' = hear_bits
    BY <1>2 DEF LineStep, Quiet, Listen, HearsStart, HearsRest, HearCounts, HearsBit, HearsStop,
                Hears, hearVars
  <2>2. sendcount' \in {0, Last} \/ (ss' /\ sendcount' = 1 /\ tx_baud_count' = 0)
    BY <1>1, <1>2 DEF LineStep
  <2> QED
    BY <1>2, <2>1, <2>2 DEF Quiet
<1>3. CASE sendcount \notin {0, Last}
  <2>1. ss /\ sendcount = 1 /\ tx_baud_count = 0
    BY <1>3 DEF Quiet
  <2>2. HearsStart
    BY <2>1 DEF LineStep, Quiet, Listen, HearsStart, HearsRest, HearCounts, HearsBit, HearsStop,
                Hears
  <2>3. ss' /\ sendcount' = 1 /\ tx_baud_count' = 1
    BY <1>1, <2>1 DEF LineStep
  <2>4. hear_pos' = 1 /\ hear_bits' = hear_bits /\ tx_baud_count' + hear_count' = Middle
    BY <2>2, <2>3 DEF HearsStart, Middle
  <2> QED
    BY <1>3, <2>3, <2>4 DEF InBit
<1> QED
  BY <1>2, <1>3

\* A listener that is somewhere in a byte counts, samples, or ends the byte.
LEMMA ListenerMoves ==
    ASSUME LineStep, hear_pos # 0
    PROVE  /\ hear_count # 0 => /\ hear_count' = hear_count - 1
                                /\ UNCHANGED <<hear_pos, hear_bits>>
           /\ hear_count = 0 /\ hear_pos # Last => HearsBit
           /\ hear_count = 0 /\ hear_pos = Last => HearsStop /\ HearsByte
<1>1. hear_pos \in Nat /\ hear_pos <= Last /\ Last \in Nat /\ hear_count \in Nat
  BY Delay DEF LineStep
<1>2. HearCounts \/ HearsBit \/ HearsStop
  BY DEF LineStep, Listen, HearsStart, HearsRest
<1>3. CASE hear_count # 0
  BY <1>2, <1>3 DEF HearCounts, HearsBit, HearsStop, Hears
<1>4. CASE hear_count = 0 /\ hear_pos # Last
  <2>1. HearsBit
    <3>1. ~HearCounts
      BY <1>4 DEF HearCounts
    <3>2. ~HearsStop
      BY <1>4 DEF HearsStop
    <3> QED
      BY <1>2, <3>1, <3>2
  <2> QED
    BY <1>4, <2>1
<1>5. CASE hear_count = 0 /\ hear_pos = Last
  <2>1. HearsStop
    BY <1>1, <1>2, <1>5 DEF HearCounts, HearsBit, Hears
  <2> QED
    BY <1>5, <2>1 DEF HearsStop, HearsByte
<1> QED
  BY <1>3, <1>4, <1>5

LEMMA FromInBit ==
    ASSUME LineStep, InBit
    PROVE  IF hear_count = 0
           THEN IF hear_pos = Last THEN Quiet' ELSE InBit' \/ PastMiddle'
           ELSE InBit' \/ StopLeft'
<1>1. /\ UART_TIME_DELAY \in Nat /\ UART_TIME_DELAY >= 1 /\ Last \in Nat /\ Last > 3
      /\ Middle \in Nat /\ 1 <= Middle /\ Middle <= UART_TIME_DELAY
  BY Delay, MiddleOfBit
<1>2. /\ hear_pos # 0 /\ ss /\ sendcount = hear_pos /\ tx_baud_count + hear_count = Middle
      /\ tx_baud_count \in 0 .. UART_TIME_DELAY /\ hear_count \in Nat /\ sendcount \in 0 .. Last
  BY DEF InBit, LineStep
<1>3. CASE hear_count = 0 /\ hear_pos = Last
  <2>1. hear_pos' = 0
    BY <1>2, <1>3, ListenerMoves DEF HearsStop
  <2>2. sendcount' = Last
    BY <1>1, <1>2, <1>3 DEF LineStep
  <2> QED
    BY <1>3, <2>1, <2>2 DEF Quiet
<1>4. CASE hear_count = 0 /\ hear_pos # Last
  <2>1. hear_pos' = hear_pos + 1 /\ hear_count' = UART_TIME_DELAY
    BY <1>2, <1>4, ListenerMoves DEF HearsBit
  <2>2. ss' /\ sendcount < Last /\ tx_baud_count = Middle
    BY <1>1, <1>2, <1>4 DEF LineStep
  <2>3. CASE tx_baud_count = UART_TIME_DELAY
    <3>1. sendcount' = hear_pos' /\ tx_baud_count' = 0
      BY <1>1, <1>2, <2>1, <2>2, <2>3 DEF LineStep
    <3>2. hear_pos' # 0 /\ tx_baud_count' + hear_count' = Middle
      BY <1>1, <1>2, <2>1, <2>2, <2>3, <3>1
    <3> QED
      BY <1>4, <2>2, <3>1, <3>2 DEF InBit
  <2>4. CASE tx_baud_count # UART_TIME_DELAY
    <3>1. sendcount' = sendcount /\ tx_baud_count' = tx_baud_count + 1
      BY <1>2, <2>4 DEF LineStep
    <3>2. /\ hear_pos' # 0 /\ sendcount' # 0 /\ sendcount' + 1 = hear_pos'
          /\ tx_baud_count' + hear_count' = Middle + UART_TIME_DELAY + 1
      BY <1>1, <1>2, <2>1, <2>2, <3>1
    <3> QED
      BY <1>4, <2>2, <3>2 DEF PastMiddle
  <2> QED
    BY <2>3, <2>4
<1>5. CASE hear_count # 0
  <2>1. hear_pos' = hear_pos /\ hear_count' = hear_count - 1
    BY <1>2, <1>5, ListenerMoves
  <2>2. tx_baud_count' = tx_baud_count + 1 /\ sendcount' = sendcount
    BY <1>1, <1>2, <1>5 DEF LineStep
  <2>3. tx_baud_count' + hear_count' = Middle /\ hear_count' < Middle
    BY <1>1, <1>2, <1>5, <2>1, <2>2
  <2>4. ~ss' => sendcount = Last
    BY <1>2, Delay DEF LineStep
  <2> QED
    BY <1>2, <1>5, <2>1, <2>2, <2>3, <2>4 DEF InBit, StopLeft, LineStep
<1> QED
  BY <1>3, <1>4, <1>5

LEMMA FromPastMiddle ==
    ASSUME LineStep, PastMiddle
    PROVE  /\ InBit' \/ PastMiddle'
           /\ hear_count # 0
<1>1. /\ UART_TIME_DELAY \in Nat /\ UART_TIME_DELAY >= 1 /\ Last \in Nat /\ Last > 3
      /\ Middle \in Nat /\ 1 <= Middle /\ Middle <= UART_TIME_DELAY
  BY Delay, MiddleOfBit
<1>2. /\ hear_pos # 0 /\ ss /\ sendcount # 0 /\ sendcount + 1 = hear_pos
      /\ tx_baud_count + hear_count = Middle + UART_TIME_DELAY + 1
      /\ tx_baud_count \in 0 .. UART_TIME_DELAY /\ hear_count \in Nat /\ sendcount \in 0 .. Last
      /\ hear_pos \in 0 .. Last
  BY DEF PastMiddle, LineStep
<1>3. hear_count # 0 /\ sendcount < Last
  BY <1>1, <1>2
<1>4. hear_pos' = hear_pos /\ hear_count' = hear_count - 1 /\ ss'
  BY <1>2, <1>3, ListenerMoves DEF LineStep
<1>5. CASE tx_baud_count = UART_TIME_DELAY
  <2>1. sendcount' = sendcount + 1 /\ tx_baud_count' = 0
    BY <1>2, <1>3, <1>5 DEF LineStep
  <2>2. sendcount' = hear_pos' /\ hear_pos' # 0 /\ tx_baud_count' + hear_count' = Middle
    BY <1>1, <1>2, <1>4, <1>5, <2>1
  <2> QED
    BY <1>3, <1>4, <2>2 DEF InBit
<1>6. CASE tx_baud_count # UART_TIME_DELAY
  <2>1. sendcount' = sendcount /\ tx_baud_count' = tx_baud_count + 1
    BY <1>2, <1>6 DEF LineStep
  <2>2. /\ hear_pos' # 0 /\ sendcount' # 0 /\ sendcount' + 1 = hear_pos'
        /\ tx_baud_count' + hear_count' = Middle + UART_TIME_DELAY + 1
    BY <1>1, <1>2, <1>3, <1>4, <2>1
  <2> QED
    BY <1>3, <1>4, <2>2 DEF PastMiddle
<1> QED
  BY <1>5, <1>6

LEMMA FromStop ==
    ASSUME LineStep, StopLeft \/ StopLast
    PROVE  /\ sendcount' = 0
           /\ IF hear_count = 0 THEN Quiet' ELSE StopLast'
<1>1. /\ UART_TIME_DELAY \in Nat /\ UART_TIME_DELAY >= 1 /\ Last \in Nat /\ Last > 3
      /\ Middle \in Nat /\ 1 <= Middle /\ Middle <= UART_TIME_DELAY
  BY Delay, MiddleOfBit
<1>2. /\ hear_pos = Last /\ hear_pos # 0
      /\ tx_baud_count \in 0 .. UART_TIME_DELAY /\ hear_count \in Nat
  BY <1>1 DEF StopLeft, StopLast, LineStep
<1>3. /\ sendcount' = 0
      /\ hear_count # 0 => tx_baud_count' + (hear_count - 1) + 1 < Middle
  <2>1. CASE StopLeft
    BY <1>1, <1>2, <2>1 DEF StopLeft, LineStep
  <2>2. CASE StopLast /\ ss
    <3>1. tx_baud_count # UART_TIME_DELAY
      BY <1>1, <1>2, <2>2 DEF StopLast
    <3> QED
      BY <1>1, <1>2, <2>2, <3>1 DEF StopLast, LineStep
  <2>3. CASE StopLast /\ ~ss
    BY <1>1, <1>2, <2>3 DEF StopLast, LineStep
  <2> QED
    BY <2>1, <2>2, <2>3
<1>4. CASE hear_count = 0
  <2>1. hear_pos' = 0
    BY <1>2, <1>4, ListenerMoves DEF HearsStop
  <2> QED
    BY <1>3, <1>4, <2>1 DEF Quiet
<1>5. CASE hear_count # 0
  <2>1. hear_pos' = hear_pos /\ hear_count' = hear_count - 1
    BY <1>2, <1>5, ListenerMoves
  <2> QED
    BY <1>2, <1>3, <1>5, <2>1 DEF StopLast
<1> QED
  BY <1>3, <1>4, <1>5

LEMMA StepListening ==
    ASSUME Types, Answering, Sender, Listening, Next
    PROVE  Listening'
<1>1. LineStep
  BY BothEnds
<1>2. /\ Core /\ Bus
      /\ hear_pos \in 0 .. Last /\ hear_count \in Nat /\ UART_TIME_DELAY \in Nat
      /\ Last \in Nat /\ Last > 3 /\ Last = Bits + 2 /\ Bits \in Nat
      /\ (UART_TIME_DELAY - 1) \div 2 \in Nat
  BY Delay DEF Next, Listening
<1>3. ss => uart_data' = uart_data
  BY <1>2, BusSends
<1>4. Quiet' \/ InBit' \/ PastMiddle' \/ StopLeft' \/ StopLast'
  BY <1>1, FromQuiet, FromInBit, FromPastMiddle, FromStop DEF Listening
<1>5. hear_pos' \in 0 .. Last /\ hear_count' \in Nat
  <2>1. CASE HearsStart \/ HearsRest \/ HearCounts
    BY <1>2, <2>1 DEF HearsStart, HearsRest, HearCounts, hearVars
  <2>2. CASE HearsBit
    BY <1>2, <2>2 DEF HearsBit
  <2>3. CASE HearsStop
    BY <1>2, <2>3 DEF HearsStop
  <2> QED
    BY <1>1, <2>1, <2>2, <2>3 DEF LineStep, Listen
<1>6. hear_bits' = [i \in 0 .. Bits - 1 |-> hear_bits'[i]]
  <2>1. CASE hear_bits' = hear_bits
    BY <2>1 DEF Listening
  <2>2. CASE HearsBit
    BY <2>2 DEF HearsBit
  <2>3. CASE HearsStop
    BY <2>3 DEF HearsStop, Flags
  <2> QED
    BY <1>1, <2>1, <2>2, <2>3 DEF LineStep, Listen, HearsStart, HearsRest, HearCounts, hearVars
<1>7. ASSUME hear_pos' # 0, sendcount' # 0, ss', NEW i \in 0 .. Bits - 1, i + 2 < hear_pos'
      PROVE  hear_bits'[i] = uart_data'[i]
  <2>1. CASE Quiet
    <3>1. hear_pos' \in {0, 1}
      BY <1>1, <2>1, FromQuiet
    <3> QED
      BY <1>2, <1>7, <3>1
  <2>2. CASE StopLeft \/ StopLast
    BY <1>1, <1>7, <2>2, FromStop
  <2>3. CASE (InBit \/ PastMiddle) /\ hear_count # 0
    <3>1. hear_pos # 0 /\ sendcount # 0 /\ ss
      BY <2>3 DEF InBit, PastMiddle
    <3>2. hear_pos' = hear_pos /\ hear_bits' = hear_bits
      BY <1>1, <2>3, <3>1, ListenerMoves
    <3> QED
      BY <1>3, <1>7, <3>1, <3>2 DEF Listening
  <2>4. CASE InBit /\ hear_count = 0
    <3>1. hear_pos # 0 /\ sendcount = hear_pos /\ sendcount # 0 /\ ss
      BY <2>4 DEF InBit
    <3>2. hear_pos # Last
      <4>1. hear_pos = Last => hear_pos' = 0
        BY <1>1, <2>4, <3>1, ListenerMoves DEF HearsStop
      <4> QED
        BY <1>7, <4>1
    <3>3. /\ hear_pos' = hear_pos + 1
          /\ hear_bits' = [k \in 0 .. Bits - 1 |-> IF k = hear_pos - 2 THEN sout ELSE hear_bits[k]]
      BY <1>1, <2>4, <3>1, <3>2, ListenerMoves DEF HearsBit
    <3>4. CASE i = hear_pos - 2
      <4>1. sendcount \in 2 .. Last - 1 /\ sendcount - 2 = i
        BY <1>2, <3>1, <3>2, <3>4
      <4>2. sout = uart_data[i]
        BY <3>1, <4>1, OnTheLine
      <4> QED
        BY <1>3, <3>1, <3>3, <3>4, <4>2
    <3>5. CASE i # hear_pos - 2
      <4>1. i + 2 < hear_pos
        BY <1>2, <1>7, <3>3, <3>5
      <4>2. hear_bits'[i] = hear_bits[i]
        BY <3>3, <3>5
      <4> QED
        BY <1>3, <3>1, <4>1, <4>2 DEF Listening
    <3> QED
      BY <3>4, <3>5
  <2>5. PastMiddle => hear_count # 0
    BY <1>1, FromPastMiddle
  <2> QED
    BY <2>1, <2>2, <2>3, <2>4, <2>5 DEF Listening
<1> QED
  BY <1>4, <1>5, <1>6, <1>7 DEF Listening

\* At the stop bit the listener holds the byte.
LEMMA Heard ==
    ASSUME Listening, hear_pos = Last, ss, sendcount # 0, uart_data \in Data
    PROVE  hear_bits = uart_data
<1>1. Last # 0 /\ \A i \in 0 .. Bits - 1 : i + 2 < Last
  BY Delay
<1>2. \A i \in 0 .. Bits - 1 : hear_bits[i] = uart_data[i]
  BY <1>1 DEF Listening
<1>3. uart_data = [i \in 0 .. Bits - 1 |-> uart_data[i]]
  BY DEF Data
<1> QED
  BY <1>2, <1>3 DEF Listening

\* A byte is owed to the listener from the end of its write on: first as the one in
\* uart_data, from the end of its frame as the one in the listener's hands.
InHands == IF hear_pos = Last /\ (~ss \/ sendcount = 0) THEN <<hear_bits>> ELSE <<>>

OnItsWay ==
    IF ss /\ ~(sendcount = Last /\ hear_pos = 0) /\ ~Announced THEN <<uart_data>> ELSE <<>>

Unheard == unheard = InHands \o OnItsWay

LEMMA StepUnheard ==
    ASSUME Types, Answering, Sender, Listening, Unheard, Next
    PROVE  Unheard'
<1> DEFINE new == IF Announced THEN <<mem_write_data>> ELSE <<>>
<1>1. LineStep
  BY BothEnds
<1>2. /\ Core /\ Bus /\ Last \in Nat /\ Last > 3 /\ uart_data \in Data
      /\ ss \in BOOLEAN /\ ss' \in BOOLEAN
      /\ hear_pos \in 0 .. Last /\ sendcount \in 0 .. Last
      /\ UART_TIME_DELAY \in Nat /\ UART_TIME_DELAY >= 1 /\ Middle \in Nat /\ Middle <= UART_TIME_DELAY
  BY <1>1, Delay, MiddleOfBit DEF Next, LineStep, Types
<1>3. /\ ss => uart_data' = uart_data /\ ~Announced'
      /\ ~ss => ss' = Announced'
      /\ ss /\ sendcount < Last => ss'
  BY <1>2, BusSends
<1>4. unheard' = Without(unheard, HearsByte) \o new
  <2>1. Answered /\ mem_address_d = "UART" <=> Announced
    BY DEF Answered, Announced, Answering, Types
  <2> QED
    BY <2>1 DEF Next, History
<1>5. Announced => ss /\ sendcount = 0 /\ mem_write_data = uart_data
  BY DEF Sender
<1>6. HearsByte => hear_pos = Last /\ hear_count = 0
  BY DEF HearsByte, Hears
<1>7. hear_pos = Last => IF HearsByte THEN hear_pos' = 0
                         ELSE hear_pos' = Last /\ hear_bits' = hear_bits
  <2>1. hear_pos = Last /\ hear_count = 0 => HearsByte /\ hear_pos' = 0
    <3>1. Last # 0
      BY <1>2
    <3>2. hear_pos = Last /\ hear_count = 0 => HearsByte /\ HearsStop
      BY <1>1, <3>1, ListenerMoves
    <3> QED
      BY <3>2 DEF HearsStop
  <2>2. hear_pos = Last /\ hear_count # 0 => hear_pos' = Last /\ hear_bits' = hear_bits
    BY <1>1, <1>2, ListenerMoves
  <2> QED
    BY <1>6, <2>1, <2>2
<1>8. CASE ~ss
  <2>1. sendcount' = 0 /\ ~Announced /\ hear_pos \in {0, Last}
    BY <1>1, <1>2, <1>5, <1>8
       DEF LineStep, Sender, Listening, Quiet, InBit, PastMiddle, StopLeft, StopLast
  <2>2. OnItsWay = <<>> /\ new = <<>> /\ OnItsWay' = <<>>
    BY <1>3, <1>8, <2>1 DEF OnItsWay
  <2>3. CASE hear_pos = 0
    <3>1. hear_pos' = 0
      BY <1>1, <1>2, <1>8, <2>3, FromQuiet
         DEF Sender, Listening, Quiet, InBit, PastMiddle, StopLeft, StopLast
    <3>2. InHands = <<>> /\ InHands' = <<>> /\ ~HearsByte
      BY <1>2, <1>6, <2>3, <3>1 DEF InHands
    <3> QED
      BY <1>4, <2>2, <3>2 DEF Unheard, Without
  <2>4. CASE hear_pos = Last
    <3>1. InHands = <<hear_bits>>
      BY <1>8, <2>4 DEF InHands
    <3>2. InHands' = IF HearsByte THEN <<>> ELSE <<hear_bits>>
      BY <1>2, <1>7, <2>1, <2>4 DEF InHands
    <3> QED
      BY <1>4, <2>2, <3>1, <3>2 DEF Unheard, Without
  <2> QED
    BY <2>1, <2>3, <2>4
<1>9. CASE ss /\ sendcount = 0
  <2>1. hear_pos \in {0, Last} /\ ss' /\ uart_data' = uart_data /\ ~Announced'
    BY <1>2, <1>3, <1>9 DEF Listening, Quiet, InBit, PastMiddle, StopLeft, StopLast
  <2>2. sendcount' # Last
    BY <1>1, <1>2, <1>9 DEF LineStep
  <2>3. OnItsWay' = <<uart_data>> /\ OnItsWay = IF Announced THEN <<>> ELSE <<uart_data>>
    BY <1>2, <1>9, <2>1, <2>2 DEF OnItsWay
  <2>4. new = IF Announced THEN <<uart_data>> ELSE <<>>
    BY <1>5
  <2>5. CASE hear_pos = 0
    <3>1. hear_pos' = 0
      BY <1>1, <1>9, <2>5, FromQuiet, <1>2
         DEF Listening, Quiet, InBit, PastMiddle, StopLeft, StopLast
    <3>2. InHands = <<>> /\ InHands' = <<>> /\ ~HearsByte
      BY <1>2, <1>6, <2>5, <3>1 DEF InHands
    <3>3. unheard' = unheard \o new /\ unheard = <<>> \o OnItsWay
      BY <1>4, <3>2 DEF Unheard, Without
    <3>4. OnItsWay \o new = <<uart_data>>
      <4>1. CASE Announced
        BY <2>3, <2>4, <4>1
      <4>2. CASE ~Announced
        BY <2>3, <2>4, <4>2
      <4> QED
        BY <4>1, <4>2
    <3>5. unheard = OnItsWay
      BY <2>3, <3>3
    <3> QED
      BY <2>3, <3>2, <3>3, <3>4, <3>5 DEF Unheard
  <2>6. CASE hear_pos = Last
    <3>1. InHands = <<hear_bits>>
      BY <1>9, <2>6 DEF InHands
    <3>2. hear_pos' = Last => sendcount' = 0
      BY <1>1, <1>2, <1>9, <2>6, FromStop
         DEF Listening, Quiet, InBit, PastMiddle, StopLeft, StopLast
    <3>3. InHands' = IF HearsByte THEN <<>> ELSE <<hear_bits>>
      BY <1>2, <1>7, <2>6, <3>2 DEF InHands
    <3>4. CASE Announced
      BY <1>4, <2>3, <2>4, <3>1, <3>3, <3>4 DEF Unheard, Without
    <3>5. CASE ~Announced
      BY <1>4, <2>3, <2>4, <3>1, <3>3, <3>5 DEF Unheard, Without
    <3> QED
      BY <3>4, <3>5
  <2> QED
    BY <2>1, <2>5, <2>6
<1>10. CASE ss /\ sendcount # 0 /\ sendcount # Last
  <2>1. ss' /\ uart_data' = uart_data /\ ~Announced /\ ~Announced'
    BY <1>2, <1>3, <1>5, <1>10
  <2>2. sendcount' # 0
    BY <1>1, <1>2, <1>10 DEF LineStep
  <2>3. ~HearsByte /\ hear_pos' # 0
    <3>1. CASE hear_pos = 0
      BY <1>1, <1>2, <1>6, <1>10, <3>1, FromQuiet
         DEF Listening, Quiet, InBit, PastMiddle, StopLeft, StopLast
    <3>2. CASE hear_pos # 0
      <4>1. hear_pos = Last => hear_count # 0
        BY <1>1, <1>2, <1>10, FromPastMiddle
           DEF Listening, Quiet, InBit, PastMiddle, StopLeft, StopLast
      <4>2. HearCounts \/ HearsBit
        BY <1>1, <3>2, <4>1 DEF LineStep, Listen, HearsStart, HearsRest, HearsStop, Hears
      <4> QED
        BY <1>2, <1>6, <3>2, <4>1, <4>2 DEF HearCounts, HearsBit
    <3> QED
      BY <3>1, <3>2
  <2>4. InHands = <<>> /\ InHands' = <<>> /\ OnItsWay = <<uart_data>> /\ OnItsWay' = <<uart_data>>
    BY <1>10, <2>1, <2>2, <2>3 DEF InHands, OnItsWay
  <2> QED
    BY <1>4, <2>1, <2>3, <2>4 DEF Unheard, Without
<1>11. CASE ss /\ sendcount = Last
  <2>1. /\ hear_pos \in {0, Last} /\ uart_data' = uart_data /\ ~Announced /\ ~Announced'
        /\ sendcount' = Last
    BY <1>1, <1>2, <1>3, <1>5, <1>11
       DEF LineStep, Listening, Quiet, InBit, PastMiddle, StopLeft, StopLast
  <2>2. InHands = <<>> /\ new = <<>>
    BY <1>2, <1>11, <2>1 DEF InHands
  <2>3. CASE hear_pos = 0
    <3>1. hear_pos' = 0
      BY <1>1, <1>2, <1>11, <2>3, FromQuiet
         DEF Listening, Quiet, InBit, PastMiddle, StopLeft, StopLast
    <3>2. OnItsWay = <<>> /\ OnItsWay' = <<>> /\ InHands' = <<>> /\ ~HearsByte
      BY <1>2, <1>6, <1>11, <2>1, <2>3, <3>1 DEF InHands, OnItsWay
    <3> QED
      BY <1>4, <2>2, <3>2 DEF Unheard, Without
  <2>4. CASE hear_pos = Last
    <3>1. hear_bits = uart_data
      BY <1>2, <1>11, <2>4, Heard
    <3>2. OnItsWay = <<uart_data>>
      BY <1>2, <1>11, <2>1, <2>4 DEF OnItsWay
    <3>3. CASE HearsByte
      <4>1. hear_pos' = 0
        BY <1>7, <2>4, <3>3
      <4>2. InHands' = <<>> /\ OnItsWay' = <<>>
        BY <1>2, <2>1, <4>1 DEF InHands, OnItsWay
      <4> QED
        BY <1>4, <2>2, <3>2, <3>3, <4>2 DEF Unheard, Without
    <3>4. CASE ~HearsByte
      <4>1. hear_pos' = Last /\ hear_bits' = uart_data
        BY <1>7, <2>4, <3>1, <3>4
      <4>2. InHands' = IF ss' THEN <<>> ELSE <<uart_data>>
        BY <1>2, <2>1, <4>1 DEF InHands
      <4>3. OnItsWay' = IF ss' THEN <<uart_data>> ELSE <<>>
        BY <1>2, <2>1, <4>1 DEF OnItsWay
      <4> QED
        BY <1>2, <1>4, <2>2, <3>2, <3>4, <4>2, <4>3 DEF Unheard, Without
    <3> QED
      BY <3>3, <3>4
  <2> QED
    BY <2>1, <2>3, <2>4
<1> QED
  BY <1>2, <1>8, <1>9, <1>10, <1>11

LineInv == Sender /\ Listening /\ Unheard

LEMMA InvLine == Spec => [](BusInv /\ LineInv)
<1>1. Init => LineInv
  <2> SUFFICES ASSUME Init PROVE LineInv
    OBVIOUS
  <2>1. /\ sendcount = 0 /\ tx_baud_count = 0 /\ shiftout = Rest /\ ss = FALSE /\ pstate = 0
        /\ hear_pos = 0 /\ hear_count = 0 /\ hear_bits = Flags(FALSE, FALSE) /\ unheard = <<>>
    BY DEF Init, UartInit
  <2>2. Sender
    BY <2>1, Delay, FrameEnds DEF Sender, Announced
  <2>3. Listening
    BY <2>1, Delay DEF Listening, Quiet, Flags
  <2>4. Unheard
    BY <2>1, Delay DEF Unheard, InHands, OnItsWay
  <2> QED
    BY <2>2, <2>3, <2>4 DEF LineInv
<1>2. BusInv /\ LineInv /\ [Next]_vars => LineInv'
  <2> SUFFICES ASSUME BusInv, LineInv, [Next]_vars PROVE LineInv'
    OBVIOUS
  <2>1. CASE UNCHANGED vars
    <3>1. UNCHANGED <<portVars, busVars, txVars, hearVars, unheard>>
      BY <2>1 DEF vars, uartVars
    <3>2. Sender'
      BY <3>1 DEF portVars, busVars, txVars, LineInv, Sender, Announced
    <3>3. Listening'
      BY <3>1 DEF busVars, txVars, hearVars, LineInv, Listening, Quiet, InBit, PastMiddle,
                  StopLeft, StopLast
    <3>4. Unheard'
      BY <3>1 DEF portVars, busVars, txVars, hearVars, LineInv, Unheard, InHands, OnItsWay, Announced
    <3> QED
      BY <3>2, <3>3, <3>4 DEF LineInv
  <2>2. CASE Next
    BY <2>2, StepSender, StepListening, StepUnheard DEF BusInv, LineInv
  <2> QED
    BY <2>1, <2>2
<1> QED
  BY <1>1, <1>2, InvBus, PTL DEF Spec

\* Another clock at the far end, whatever the bit time: each byte written is heard once,
\* whole and in order, and with its stop bit.
THEOREM LineCarries == Spec => HeardAsWritten
<1>1. BusInv /\ LineInv /\ [Next]_vars =>
        [HearsByte => sout = 1 /\ unheard # <<>> /\ hear_bits = Head(unheard)]_vars
  <2> SUFFICES ASSUME BusInv, LineInv, Next, HearsByte
               PROVE  sout = 1 /\ unheard # <<>> /\ hear_bits = Head(unheard)
    BY DEF HearsByte, Hears, vars, hearVars
  <2>1. hear_pos = Last /\ hear_count = 0 /\ hear_pos # 0
    BY Delay DEF HearsByte, Hears
  <2>2. LineStep
    BY BothEnds DEF BusInv, LineInv
  <2>3. sendcount \in {0, Last} /\ (ss => sendcount = 0 \/ sendcount = Last)
    BY <2>1, <2>2, FromPastMiddle
       DEF LineInv, Listening, Quiet, InBit, PastMiddle, StopLeft, StopLast
  <2>4. sout = 1
    BY <2>3, OnTheLine DEF LineInv
  <2>5. CASE ~ss \/ sendcount = 0
    <3>1. InHands = <<hear_bits>>
      BY <2>1, <2>5 DEF InHands
    <3>2. unheard = <<hear_bits>> \/ unheard = <<hear_bits>> \o <<uart_data>>
      <4>1. OnItsWay = <<>> \/ OnItsWay = <<uart_data>>
        BY DEF OnItsWay
      <4>2. unheard = <<hear_bits>> \o OnItsWay
        BY <3>1 DEF LineInv, Unheard
      <4>3. <<hear_bits>> \o <<>> = <<hear_bits>>
        OBVIOUS
      <4> QED
        BY <4>1, <4>2, <4>3
    <3> QED
      BY <2>4, <3>2
  <2>6. CASE ss /\ sendcount # 0
    <3>1. hear_bits = uart_data
      BY <2>1, <2>6, Heard DEF BusInv, Types, LineInv
    <3>2. ~Announced
      BY <2>6 DEF LineInv, Sender
    <3>3. unheard = <<uart_data>>
      BY <2>1, <2>6, <3>2 DEF LineInv, Unheard, InHands, OnItsWay
    <3> QED
      BY <2>4, <3>1, <3>3
  <2> QED
    BY <2>5, <2>6 DEF BusInv, Types
<1> QED
  BY <1>1, InvLine, PTL DEF Spec, HeardAsWritten

--------------------------------------------------------------------------------
(* The receiver (module UartRx).  The filter shows the line three clocks late.   *)
(* A frame is followed at the centres of its bits; when it came right behind    *)
(* another, the receiver has begun it in the middle of its start bit, takes that *)
(* bit as read, and samples just behind the edges until it sees one.             *)

\* Both ends have the same rate, of at least four clocks a bit (109 in the code), and
\* the bytes have seven significant bits: with an eighth StoredAsSent is false.
SevenBitLine ==
    /\ UART_TIME_DELAY \in Nat /\ UART_TIME_DELAY >= 3 /\ BitTime = UART_TIME_DELAY + 1
    /\ Byte \subseteq [0 .. 7 -> 0 .. 1] /\ \A b \in Byte : b[7] = 0

\* When a bit is sampled, in clocks from its edge: after an edge, and before one is seen.
Centre == 1 + (UART_TIME_DELAY \div 2)
Drifted == (2 * Centre + 1) - BitTime

LEMMA Instants ==
    ASSUME SevenBitLine
    PROVE  /\ BitTime \in Nat /\ BitTime >= 4 /\ BitTime = UART_TIME_DELAY + 1
           /\ UART_TIME_DELAY \in Nat
           /\ UART_TIME_DELAY \div 2 = Centre - 1
           /\ Centre \in Nat /\ 2 <= Centre /\ Centre <= UART_TIME_DELAY - 1
           /\ Drifted \in 1 .. 2 /\ Drifted <= Centre /\ Drifted = (2 * Centre + 1) - BitTime
<1>1. UART_TIME_DELAY \div 2 \in Nat
      /\ 2 * (UART_TIME_DELAY \div 2) <= UART_TIME_DELAY
      /\ UART_TIME_DELAY <= 2 * (UART_TIME_DELAY \div 2) + 1
  BY DEF SevenBitLine
<1> QED
  BY <1>1 DEF SevenBitLine, Centre, Drifted

\* The filter, bit by bit.
Settling ==
    /\ frame \in Byte /\ pos \in 0 .. 9 /\ left \in 1 .. BitTime
    /\ rx_sync0 \in 0 .. 1 /\ rx_sync1 \in 0 .. 1 /\ rx_clean \in 0 .. 1
    /\ left = BitTime => rx_sync0 = rx_clean /\ rx_sync1 = rx_clean
    /\ left = BitTime - 1 => rx_sync0 = Level /\ rx_sync1 = rx_clean
    /\ left = BitTime - 2 => rx_sync0 = Level /\ rx_sync1 = Level
    /\ left <= BitTime - 3 =>
          rx_clean = Level /\ (rx_sync0 = Level \/ rx_sync1 = Level)
    /\ left = 1 => rx_sync0 = Level

\* A bit of the frame of b.
Of(b, q) == IF q = 0 THEN 0 ELSE IF q = 9 THEN 1 ELSE b[q - 1]

LEMMA Bits01 ==
    ASSUME SevenBitLine, NEW b \in Byte, NEW q \in 0 .. 9
    PROVE  Of(b, q) \in 0 .. 1 /\ Of(b, 0) = 0 /\ Of(b, 9) = 1 /\ Of(b, 8) = 0
<1>1. b \in [0 .. 7 -> 0 .. 1] /\ b[7] = 0
  BY DEF SevenBitLine
<1> QED
  BY <1>1 DEF Of

LEMMA Levels ==
    ASSUME SevenBitLine, frame \in Byte, pos \in 0 .. 9
    PROVE  Level = Of(frame, pos) /\ Level \in 0 .. 1
BY Bits01 DEF Level, Of

\* What is seen of the line changes three clocks into a bit, and then is the bit.
LEMMA Filtering ==
    ASSUME SevenBitLine, Settling, Line, Filter
    PROVE  /\ Settling'
           /\ rx_clean' = IF left = BitTime - 2 THEN Of(frame, pos) ELSE rx_clean
           /\ rx_clean_delayed' = rx_clean
<1>0. BitTime \in Nat /\ BitTime >= 4
  BY Instants
<1>1. Level = Of(frame, pos) /\ Level \in 0 .. 1
  BY Levels DEF Settling
<1>2. /\ frame' \in Byte /\ pos' \in 0 .. 9 /\ left' \in 1 .. BitTime
      /\ left > 1 => left' = left - 1 /\ frame' = frame /\ pos' = pos
      /\ left = 1 => left' \in {1, BitTime}
      /\ left' = 1 /\ left = 1 => pos = 9 /\ pos' = 9
  BY <1>0 DEF Settling, Line, BitGoesOn, NextBit, Pause, NextFrame
<1>3. Level' = Of(frame', pos') /\ Level' \in 0 .. 1
  <2>1. Level' = Of(frame', pos')
    BY <1>0, <1>2 DEF Level, Of
  <2> QED
    BY <2>1, <1>2, Bits01
<1>4. /\ left > 1 => Level' = Level
      /\ left = 1 /\ left' = 1 => Level' = 1 /\ Level = 1
  BY <1>0, <1>1, <1>2, <1>3 DEF Of
<1>5. rx_sync0' \in {Level} \cup (IF left \in 3 .. BitTime - 2 /\ rx_sync0 = Level
                                     THEN {1 - Level} ELSE {})
      /\ rx_sync1' = rx_sync0
      /\ rx_clean' = (IF rx_sync0 = rx_sync1 THEN rx_sync0 ELSE rx_clean)
      /\ rx_clean_delayed' = rx_clean
  BY DEF Filter, din, Spike
<1>6. /\ rx_sync0' \in 0 .. 1 /\ rx_sync1' \in 0 .. 1 /\ rx_clean' \in 0 .. 1
      /\ rx_sync0' # Level => rx_sync0 = Level /\ left \in 3 .. BitTime - 2
  BY <1>0, <1>1, <1>5 DEF Settling
<1>7. rx_clean' = IF left = BitTime - 2 THEN Level ELSE rx_clean
  <2>1. left = BitTime - 2 => rx_clean' = Level
    BY <1>0, <1>5 DEF Settling
  <2>2. left <= BitTime - 3 \/ left = BitTime - 2 \/ left = BitTime - 1 \/ left = BitTime
    BY <1>0 DEF Settling
  <2>3. left <= BitTime - 3 \/ left = BitTime - 1 \/ left = BitTime => rx_clean' = rx_clean
    BY <1>0, <1>5 DEF Settling
  <2> QED
    BY <2>1, <2>2, <2>3
<1>8. ASSUME left > 1 PROVE Settling'
  <2>1. Level' = Level /\ left' = left - 1
    BY <1>0, <1>4, <1>2, <1>8
  <2>2. left' = BitTime - 1 => rx_sync0' = Level' /\ rx_sync1' = rx_clean'
    BY <1>0, <1>5, <1>6, <1>7, <1>8, <2>1 DEF Settling
  <2>3. left' = BitTime - 2 => rx_sync0' = Level' /\ rx_sync1' = Level'
    BY <1>0, <1>5, <1>6, <1>7, <1>8, <2>1 DEF Settling
  <2>4. left' <= BitTime - 3 =>
            rx_clean' = Level' /\ (rx_sync0' = Level' \/ rx_sync1' = Level')
    BY <1>0, <1>5, <1>6, <1>7, <1>8, <2>1 DEF Settling
  <2>5. (left' = 1 => rx_sync0' = Level') /\ left' # BitTime
    BY <1>0, <1>6, <1>8, <2>1 DEF Settling
  <2> QED
    BY <1>0, <1>2, <1>6, <2>2, <2>3, <2>4, <2>5 DEF Settling
<1>9. ASSUME left = 1 PROVE Settling'
  <2>1. rx_sync0' = Level /\ rx_sync1' = Level /\ rx_clean' = Level
    BY <1>0, <1>1, <1>5, <1>6, <1>7, <1>9 DEF Settling
  <2> QED
    BY <1>0, <1>1, <1>2, <1>4, <1>5, <1>6, <1>7, <1>9, <2>1 DEF Settling
<1> QED
  BY <1>0, <1>1, <1>5, <1>7, <1>8, <1>9 DEF Settling

\* The bit that is seen, and for how many clocks: a bit of the frame has BitTime of
\* them, its stop bit goes on through the pause.
Age == IF left <= BitTime - 3 THEN (BitTime - 3) - left ELSE (2 * BitTime - 3) - left

Resting(c) == c >= Age /\ (pos = 9 \/ (pos = 0 /\ left > BitTime - 3))

Seen(q, c) ==
    \/ q \in 0 .. 8 /\ c = Age /\ pos = (IF left <= BitTime - 3 THEN q ELSE q + 1)
    \/ q = 9 /\ Resting(c)

\* The stop bit is over, and a start bit is seen.
Falls == pos = 0 /\ left = BitTime - 2

LEMMA Onwards ==
    ASSUME SevenBitLine, Settling, Line, NEW q \in 0 .. 9, NEW c \in Nat, Seen(q, c)
    PROVE  /\ q # 9 => /\ c \in 0 .. UART_TIME_DELAY
                       /\ left = BitTime - 2 <=> c = UART_TIME_DELAY
                       /\ c < UART_TIME_DELAY => Seen(q, c + 1)'
                       /\ c = UART_TIME_DELAY => Seen(q + 1, 0)'
           /\ q = 9 /\ ~Falls => Seen(9, c + 1)' /\ (left = BitTime - 2 => pos = 9)
           /\ q = 9 /\ Falls => Seen(0, 0)' /\ c >= UART_TIME_DELAY
<1>0. /\ BitTime \in Nat /\ BitTime >= 4 /\ BitTime = UART_TIME_DELAY + 1
      /\ UART_TIME_DELAY \in Nat
  BY Instants
<1>1. /\ pos \in 0 .. 9 /\ left \in 1 .. BitTime
      /\ left > 1 => left' = left - 1 /\ pos' = pos
      /\ left = 1 => left' \in {1, BitTime}
      /\ left = 1 /\ pos < 9 => left' = BitTime /\ pos' = pos + 1
      /\ left = 1 /\ pos = 9 => pos' = 9 \/ (pos' = 0 /\ left' = BitTime)
  BY <1>0 DEF Settling, Line, BitGoesOn, NextBit, Pause, NextFrame
<1>2. CASE q # 9
  <2>1. c = Age /\ pos = (IF left <= BitTime - 3 THEN q ELSE q + 1)
    BY <1>2 DEF Seen
  <2>2. c \in 0 .. UART_TIME_DELAY /\ (left = BitTime - 2 <=> c = UART_TIME_DELAY)
    BY <1>0, <1>1, <2>1 DEF Age
  <2>3. c < UART_TIME_DELAY => Seen(q, c + 1)'
    BY <1>0, <1>1, <1>2, <2>1 DEF Age, Seen
  <2>4. c = UART_TIME_DELAY => Seen(q + 1, 0)'
    <3>1. SUFFICES ASSUME c = UART_TIME_DELAY PROVE Seen(q + 1, 0)'
      OBVIOUS
    <3>2. left = BitTime - 2 /\ pos = q + 1 /\ left' = BitTime - 3 /\ pos' = q + 1
      BY <1>0, <1>1, <2>1, <2>2, <3>1
    <3>3. Age' = 0
      BY <1>0, <3>2 DEF Age
    <3> QED
      BY <1>0, <1>2, <3>2, <3>3 DEF Seen, Resting
  <2> QED
    BY <1>2, <2>2, <2>3, <2>4
<1>3. CASE q = 9
  <2>1. c >= Age /\ (pos = 9 \/ (pos = 0 /\ left > BitTime - 3))
    BY <1>3 DEF Seen, Resting
  <2>2. ~Falls => Seen(9, c + 1)' /\ (left = BitTime - 2 => pos = 9)
    BY <1>0, <1>1, <2>1 DEF Age, Seen, Resting, Falls
  <2>3. Falls => Seen(0, 0)' /\ c >= UART_TIME_DELAY
    BY <1>0, <1>1, <2>1 DEF Age, Seen, Falls
  <2> QED
    BY <1>3, <2>2, <2>3
<1> QED
  BY <1>2, <1>3

\* A byte is owed from the end of its data on.
Owes(q, b) ==
    IF pos = 9 \/ q = 9 THEN due = <<b>> /\ (pos = 9 => frame = b) ELSE due = <<>> /\ frame = b

\* A bit of b is heard; its successor's start bit is, and b is not stored; the line rests
\* or has just fallen, and nothing is owed.
Hearing(q, c, b) == Seen(q, c) /\ Owes(q, b) /\ rx_clean = Of(b, q)
Again(c, b) == Seen(0, c) /\ due = <<b>> /\ rx_clean = 0
Rests(c) ==
    /\ due = <<>>
    /\ \/ rx_clean = 1 /\ Resting(c)
       \/ rx_clean = 0 /\ Seen(0, 0)

LEMMA Owing ==
    ASSUME RxHistory
    PROVE  /\ due = <<>> => due' = IF DataSent THEN <<frame>> ELSE <<>>
           /\ \A b : due = <<b>> /\ ~DataSent => due' = IF RxStores THEN <<>> ELSE <<b>>
<1>1. due' = (IF RxStores /\ due # <<>> THEN Tail(due) ELSE due)
              \o (IF DataSent THEN <<frame>> ELSE <<>>)
  BY DEF RxHistory
<1>2. due = <<>> => due' = IF DataSent THEN <<frame>> ELSE <<>>
  BY <1>1
<1>3. ASSUME NEW b, due = <<b>>, ~DataSent
      PROVE  due' = IF RxStores THEN <<>> ELSE <<b>>
  <2>1. <<b>> # <<>> /\ Tail(<<b>>) = <<>> /\ <<b>> \o <<>> = <<b>> /\ <<>> \o <<>> = <<>>
    OBVIOUS
  <2> QED
    BY <1>1, <1>3, <2>1
<1> QED
  BY <1>2, <1>3

LEMMA HearingOn ==
    ASSUME SevenBitLine, Settling, Line, Filter, RxHistory, ~RxStores,
           NEW q \in 0 .. 9, NEW c \in Nat, NEW b \in Byte, Hearing(q, c, b)
    PROVE  /\ q # 9 => /\ c \in 0 .. UART_TIME_DELAY
                       /\ c < UART_TIME_DELAY => Hearing(q, c + 1, b)'
                       /\ c = UART_TIME_DELAY => Hearing(q + 1, 0, b)'
           /\ q = 9 => Hearing(9, c + 1, b)' \/ (c >= UART_TIME_DELAY /\ Again(0, b)')
<1>0. /\ BitTime \in Nat /\ BitTime >= 4 /\ BitTime = UART_TIME_DELAY + 1
      /\ UART_TIME_DELAY \in Nat
  BY Instants
<1>1. /\ pos \in 0 .. 9 /\ left \in 1 .. BitTime
      /\ left > 1 => frame' = frame /\ pos' = pos
      /\ left = 1 /\ pos < 9 => frame' = frame /\ pos' = pos + 1
      /\ left = 1 /\ pos = 9 => (pos' = 9 /\ frame' = frame) \/ pos' = 0
  BY <1>0 DEF Settling, Line, BitGoesOn, NextBit, Pause, NextFrame
<1>2. rx_clean' = IF left = BitTime - 2 THEN Of(frame, pos) ELSE rx_clean
  BY Filtering
<1>3. Seen(q, c) /\ Owes(q, b) /\ rx_clean = Of(b, q)
  BY DEF Hearing
<1>4. /\ due = <<>> => due' = IF pos = 8 /\ left = 1 THEN <<frame>> ELSE <<>>
      /\ due = <<b>> /\ ~(pos = 8 /\ left = 1) => due' = <<b>>
  BY Owing DEF DataSent
<1>5. CASE q # 9
  <2>1. /\ c \in 0 .. UART_TIME_DELAY
        /\ left = BitTime - 2 <=> c = UART_TIME_DELAY
        /\ c < UART_TIME_DELAY => Seen(q, c + 1)'
        /\ c = UART_TIME_DELAY => Seen(q + 1, 0)'
    BY <1>3, <1>5, Onwards
  <2>2. q \in 0 .. 8 /\ pos = (IF left <= BitTime - 3 THEN q ELSE q + 1)
    BY <1>3, <1>5 DEF Seen
  <2>3. /\ frame' = frame /\ pos' \in 0 .. 9 /\ frame = b
        /\ due' = IF pos' = 9 THEN <<b>> ELSE <<>>
        /\ q = 8 /\ left = BitTime - 2 => pos' = 9
    BY <1>0, <1>1, <1>3, <1>4, <2>2 DEF Owes
  <2>4. left # BitTime - 2 => rx_clean' = Of(b, q) /\ Owes(q, b)'
    BY <1>2, <1>3, <1>5, <2>3 DEF Owes
  <2>5. left = BitTime - 2 => rx_clean' = Of(b, q + 1) /\ Owes(q + 1, b)'
    BY <1>0, <1>2, <2>2, <2>3 DEF Owes
  <2> QED
    BY <1>5, <2>1, <2>4, <2>5 DEF Hearing
<1>6. CASE q = 9
  <2>1. rx_clean = 1 /\ due = <<b>> /\ (pos = 9 => frame = b) /\ pos \in {0, 9}
    BY <1>3, <1>6, Bits01 DEF Owes, Seen, Resting
  <2>2. due' = <<b>> /\ (pos' = 9 => frame' = b)
    BY <1>0, <1>1, <1>3, <1>4, <1>6, <2>1 DEF Seen, Resting
  <2>3. CASE Falls
    <3>1. Seen(0, 0)' /\ c >= UART_TIME_DELAY
      BY <1>3, <1>6, <2>3, Onwards
    <3>2. rx_clean' = 0
      BY <1>2, <2>3 DEF Falls, Of
    <3> QED
      BY <1>6, <2>2, <3>1, <3>2 DEF Again
  <2>4. CASE ~Falls
    <3>1. Seen(9, c + 1)' /\ (left = BitTime - 2 => pos = 9)
      BY <1>3, <1>6, <2>4, Onwards
    <3>2. rx_clean' = Of(b, 9)
      BY <1>2, <2>1, <3>1 DEF Of
    <3> QED
      BY <1>6, <2>2, <3>1, <3>2 DEF Hearing, Owes
  <2> QED
    BY <2>3, <2>4
<1> QED
  BY <1>5, <1>6

\* While nothing is owed, also from the clock in which a byte is stored.
LEMMA RestsOn ==
    ASSUME SevenBitLine, Settling, Line, Filter, RxHistory,
           NEW c \in Nat, Resting(c), rx_clean = 1,
           due = <<>> \/ (RxStores /\ \E b : due = <<b>>)
    PROVE  Rests(c + 1)'
<1>0. BitTime \in Nat /\ BitTime >= 4
  BY Instants
<1>1. Seen(9, c) /\ pos \in {0, 9} /\ left \in 1 .. BitTime /\ 9 \in 0 .. 9
  BY DEF Seen, Resting, Settling
<1>2. due' = <<>>
  BY <1>1, Owing DEF DataSent
<1>3. rx_clean' = IF left = BitTime - 2 THEN Of(frame, pos) ELSE 1
  BY Filtering
<1>4. /\ ~Falls => Seen(9, c + 1)' /\ (left = BitTime - 2 => pos = 9)
      /\ Falls => Seen(0, 0)'
  BY <1>1, Onwards
<1>5. CASE Falls
  BY <1>2, <1>3, <1>4, <1>5 DEF Rests, Falls, Of
<1>6. CASE ~Falls
  <2>1. rx_clean' = 1 /\ Seen(9, c + 1)'
    BY <1>3, <1>4, <1>6 DEF Of
  <2>2. Resting(c + 1)'
    BY <2>1 DEF Seen
  <2> QED
    BY <1>2, <2>1, <2>2 DEF Rests
<1> QED
  BY <1>5, <1>6

\* The start bit that comes before the last byte is stored.
LEMMA AgainOn ==
    ASSUME SevenBitLine, Settling, Line, Filter, RxHistory,
           NEW c \in 0 .. Centre, NEW b \in Byte, Again(c, b)
    PROVE  /\ ~RxStores => Again(c + 1, b)'
           /\ RxStores => due' = <<>> /\ rx_clean' = 0 /\ Seen(0, c + 1)'
<1>0. /\ BitTime \in Nat /\ BitTime >= 4 /\ Centre \in Nat
      /\ UART_TIME_DELAY \in Nat /\ Centre <= UART_TIME_DELAY - 1
  BY Instants
<1>1. Seen(0, c) /\ due = <<b>> /\ rx_clean = 0 /\ pos \in {0, 1} /\ c \in Nat /\ 0 \in 0 .. 9
  BY <1>0 DEF Again, Seen
<1>2. Seen(0, c + 1)' /\ left # BitTime - 2
  BY <1>0, <1>1, Onwards
<1>3. rx_clean' = 0
  BY <1>1, <1>2, Filtering
<1>4. due' = IF RxStores THEN <<>> ELSE <<b>>
  BY <1>1, Owing DEF DataSent
<1> QED
  BY <1>2, <1>3, <1>4 DEF Again

\* A start bit heard with nothing owed is that of the frame on the line.
LEMMA FrameHeard ==
    ASSUME NEW c, Seen(0, c), due = <<>>, rx_clean = 0
    PROVE  Hearing(0, c, frame)
BY DEF Seen, Hearing, Owes, Of

\* The first n bits of b have been sampled; the start bit may not have been counted.
Sampled(b, n) ==
    /\ \A j \in 0 .. n - 1 : shiftin[(10 - n) + j] = Of(b, j)
    /\ reccount \in 0 .. 9
    /\ IF n = 10 THEN reccount = 9 ELSE reccount \in {n, n - 1}

LEMMA NotYet ==
    ASSUME SevenBitLine, NEW b \in Byte, NEW n \in 0 .. 9, Sampled(b, n)
    PROVE  ~Complete
<1>1. CASE n = 9
  <2>1. shiftin[9] = Of(b, 8)
    <3>1. 8 \in 0 .. n - 1 /\ (10 - n) + 8 = 9
      BY <1>1
    <3> QED
      BY <3>1 DEF Sampled
  <2> QED
    BY <2>1, Bits01 DEF Complete
<1>2. CASE n # 9
  BY <1>2 DEF Sampled, Complete
<1> QED
  BY <1>1, <1>2

LEMMA SampleOn ==
    ASSUME SevenBitLine, NEW b \in Byte, NEW n \in 0 .. 9, Sampled(b, n),
           Shift, rx_clean = Of(b, n),
           reccount' = IF reccount = 9 THEN 9 ELSE reccount + 1
    PROVE  Sampled(b, n + 1)'
<1>1. shiftin' = [i \in 0 .. 9 |-> IF i = 9 THEN rx_clean ELSE shiftin[i + 1]]
  BY DEF Shift
<1>2. ASSUME NEW j \in 0 .. n
      PROVE  shiftin'[(10 - (n + 1)) + j] = Of(b, j)
  <2>1. CASE j = n
    BY <1>1, <2>1
  <2>2. CASE j # n
    <3>1. /\ (10 - (n + 1)) + j \in 0 .. 8 /\ j \in 0 .. n - 1
          /\ ((10 - (n + 1)) + j) + 1 = (10 - n) + j
      BY <2>2
    <3>2. shiftin'[(10 - (n + 1)) + j] = shiftin[(10 - n) + j]
      BY <1>1, <3>1
    <3> QED
      BY <3>1, <3>2 DEF Sampled
  <2> QED
    BY <2>1, <2>2
<1>3. reccount' \in 0 .. 9 /\ IF n + 1 = 10 THEN reccount' = 9 ELSE reccount' \in {n + 1, n}
  BY DEF Sampled
<1> QED
  BY <1>2, <1>3 DEF Sampled

\* All ten bits: the byte is complete, and it is b.
LEMMA AllSampled ==
    ASSUME SevenBitLine, NEW b \in Byte, Sampled(b, 10)
    PROVE  Complete /\ Received = b
<1>1. ASSUME NEW j \in 0 .. 9
      PROVE  shiftin[j] = Of(b, j)
  BY DEF Sampled
<1>2. reccount = 9 /\ shiftin[0] = 0 /\ shiftin[9] = 1
  BY <1>1, Bits01 DEF Sampled
<1>3. b \in [0 .. 7 -> 0 .. 1]
  BY DEF SevenBitLine
<1>4. ASSUME NEW i \in 0 .. 7
      PROVE  shiftin[i + 1] = b[i]
  BY <1>1 DEF Of
<1>5. Received = b
  BY <1>3, <1>4 DEF Received
<1> QED
  BY <1>2, <1>5 DEF Complete

\* The samples taken in the c-th clock of a bit, and the clocks to the next one: it is s
\* clocks behind the edge.
Timed(q, c, s, b) ==
    \/ c <= s /\ rx_baud_count = s - c /\ Sampled(b, q)
    \/ c > s /\ c <= BitTime + s /\ rx_baud_count = (BitTime + s) - c /\ Sampled(b, q + 1)

Runs == ~idle /\ ~finish

LEMMA TimedOn ==
    ASSUME SevenBitLine, Receive, Runs,
           NEW b \in Byte, NEW q \in 0 .. 9, NEW c \in Nat, NEW s \in {Centre, Drifted},
           rx_clean = Of(b, q), Timed(q, c, s, b), q # 9 => c <= UART_TIME_DELAY
    PROVE  /\ rx_edge /\ c = 0 => ~RxStores /\ Timed(q, 1, Centre, b)' /\ Runs'
           /\ ~rx_edge /\ ~RxStores => Timed(q, c + 1, s, b)' /\ Runs'
           /\ ~rx_edge /\ RxStores =>
                 /\ q = 9 /\ Received = b /\ finish'
                 /\ shiftin'[9] = rx_clean /\ reccount' = 0 /\ rx_baud_count' = UART_TIME_DELAY
<1>0. /\ BitTime \in Nat /\ BitTime = UART_TIME_DELAY + 1 /\ UART_TIME_DELAY \in Nat
      /\ UART_TIME_DELAY \div 2 = Centre - 1 /\ Centre \in Nat /\ 2 <= Centre
      /\ s \in Nat /\ s >= 1 /\ s <= UART_TIME_DELAY - 1
  BY Instants
<1>1. Framing /\ ~idle /\ ~finish
  BY DEF Runs, Framing
<1>2. \/ rx_edge /\ Resync
      \/ ~rx_edge /\ rx_baud_count > 0 /\ Count
      \/ ~rx_edge /\ rx_baud_count = 0 /\ Shift /\ (Sample \/ Store)
  BY <1>1 DEF Receive, Finish, WaitStart, Resync, Count, Sample, Store,
              Shift
<1>3. ASSUME rx_edge, c = 0
      PROVE  ~RxStores /\ Timed(q, 1, Centre, b)' /\ Runs'
  <2>1. Sampled(b, q) /\ Resync
    BY <1>0, <1>2, <1>3 DEF Timed
  <2>2. Sampled(b, q)' /\ rx_baud_count' = Centre - 1 /\ Runs'
    BY <1>0, <1>1, <2>1 DEF Resync, Sampled, Runs
  <2> QED
    BY <1>0, <1>3, <2>2 DEF Timed, RxStores
<1>4. ASSUME ~rx_edge, rx_baud_count > 0
      PROVE  ~RxStores /\ Timed(q, c + 1, s, b)' /\ Runs'
  <2>1. Count
    BY <1>2, <1>4
  <2>2. rx_baud_count' = rx_baud_count - 1 /\ Runs'
    BY <1>1, <2>1 DEF Count, Runs
  <2>3. (Sampled(b, q) => Sampled(b, q)') /\ (Sampled(b, q + 1) => Sampled(b, q + 1)')
    BY <2>1 DEF Count, Sampled
  <2>4. CASE c <= s
    <3>1. c + 1 <= s /\ rx_baud_count' = s - (c + 1) /\ Sampled(b, q)'
      BY <1>0, <1>4, <2>2, <2>3, <2>4 DEF Timed
    <3> QED
      BY <1>4, <2>2, <3>1 DEF Timed, RxStores
  <2>5. CASE c > s
    <3>1. /\ c + 1 > s /\ c + 1 <= BitTime + s /\ rx_baud_count' = (BitTime + s) - (c + 1)
          /\ Sampled(b, q + 1)'
      BY <1>0, <1>4, <2>2, <2>3, <2>5 DEF Timed
    <3> QED
      BY <1>4, <2>2, <3>1 DEF Timed, RxStores
  <2> QED
    BY <1>0, <2>4, <2>5
<1>5. ASSUME ~rx_edge, rx_baud_count = 0, c <= s
      PROVE  ~RxStores /\ Timed(q, c + 1, s, b)' /\ Runs'
  <2>1. c = s /\ Sampled(b, q)
    BY <1>0, <1>5 DEF Timed
  <2>2. ~Complete
    BY <2>1, NotYet
  <2>3. Shift /\ Sample
    BY <1>2, <1>5, <2>2 DEF Store
  <2>4. Sampled(b, q + 1)'
    BY <2>1, <2>3, SampleOn DEF Sample
  <2>5. rx_baud_count' = UART_TIME_DELAY /\ Runs'
    BY <1>1, <2>3 DEF Shift, Sample, Runs
  <2> QED
    BY <1>0, <2>1, <2>2, <2>4, <2>5 DEF Timed, RxStores
<1>6. ASSUME ~rx_edge, rx_baud_count = 0, ~(c <= s)
      PROVE  /\ RxStores /\ q = 9 /\ Received = b /\ finish'
             /\ shiftin'[9] = rx_clean /\ reccount' = 0 /\ rx_baud_count' = UART_TIME_DELAY
  <2>1. c = BitTime + s /\ Sampled(b, q + 1) /\ q = 9
    BY <1>0, <1>6 DEF Timed
  <2>2. Complete /\ Received = b
    BY <2>1, AllSampled
  <2>3. Shift /\ Store
    BY <1>2, <1>6, <2>2 DEF Sample
  <2> QED
    BY <1>1, <1>6, <2>1, <2>2, <2>3 DEF RxStores, Store, Shift
<1>7. rx_baud_count = 0 \/ rx_baud_count > 0
  BY <1>0 DEF Timed
<1> QED
  BY <1>3, <1>4, <1>5, <1>6, <1>7

\* Where the receiver is: it follows the frame of b; it has the frame of b and another start
\* bit is there already; it has just stored a byte, at rest or in a start bit; it waits.
Following(q, c, s, b) ==
    /\ Runs /\ Hearing(q, c, b) /\ Timed(q, c, s, b)
    /\ q = 0 => c > 0
    /\ rx_clean_delayed = Of(b, IF c = 0 THEN q - 1 ELSE q)

Behind(c, b) ==
    /\ Runs /\ Again(c, b) /\ Sampled(b, 10)
    /\ rx_clean_delayed = IF c = 0 THEN 1 ELSE 0
    /\ c > 0 => rx_baud_count = Centre - c

Done(c) ==
    /\ finish /\ due = <<>>
    /\ \/ /\ Rests(c) /\ rx_clean_delayed = 1
          /\ shiftin[9] = 1 /\ reccount = 0 /\ rx_baud_count = UART_TIME_DELAY
       \/ rx_clean = 0 /\ rx_clean_delayed = 0 /\ Seen(0, Centre + 1)

\* Since it waits it has sampled ones; a zero in front of ten samples is older than any start.
Waits(c) ==
    /\ ~finish /\ idle /\ Rests(c) /\ rx_clean_delayed = 1
    /\ reccount \in 0 .. 9 /\ rx_baud_count \in 0 .. UART_TIME_DELAY
    /\ \A i \in (IF started THEN 9 ELSE 10) - reccount .. 9 : shiftin[i] = 1

Receiving ==
    \/ \E q \in 0 .. 9, c \in Nat, s \in {Centre, Drifted}, b \in Byte : Following(q, c, s, b)
    \/ \E c \in 0 .. Centre, b \in Byte : Behind(c, b)
    \/ \E c \in Nat : Done(c) \/ Waits(c)

RxInv == Settling /\ Receiving

\* A frame is followed.
LEMMA FollowingOn ==
    ASSUME SevenBitLine, Settling, RxNext,
           NEW q \in 0 .. 9, NEW c \in Nat, NEW s \in {Centre, Drifted}, NEW b \in Byte,
           Following(q, c, s, b)
    PROVE  Receiving'
<1>0. /\ BitTime \in Nat /\ BitTime = UART_TIME_DELAY + 1 /\ UART_TIME_DELAY \in Nat
      /\ Centre \in Nat /\ 2 <= Centre /\ Centre <= UART_TIME_DELAY - 1
      /\ s \in Nat /\ s >= 1 /\ s <= UART_TIME_DELAY - 1
  BY Instants
<1>1. Line /\ Filter /\ Receive /\ RxHistory
  BY DEF RxNext
<1>2. /\ Runs /\ Hearing(q, c, b) /\ Timed(q, c, s, b) /\ (q = 0 => c > 0)
      /\ rx_clean_delayed = Of(b, IF c = 0 THEN q - 1 ELSE q)
      /\ rx_clean = Of(b, q) /\ Seen(q, c) /\ Owes(q, b)
  BY DEF Following, Hearing
<1>3. q # 9 => c <= UART_TIME_DELAY
  BY <1>0, <1>1, <1>2, Onwards
<1>4. rx_clean_delayed' = rx_clean
  BY <1>1, Filtering
<1>5. rx_edge => c = 0
  BY <1>2 DEF rx_edge
<1>6. ASSUME ~RxStores,
             NEW s1 \in {Centre, Drifted}, Timed(q, c + 1, s1, b)', Runs'
      PROVE  Receiving'
  <2>1. s1 \in Nat /\ s1 >= 1 /\ s1 <= UART_TIME_DELAY - 1
    BY Instants
  <2>2. \/ q # 9 /\ c < UART_TIME_DELAY /\ Hearing(q, c + 1, b)'
        \/ q # 9 /\ c = UART_TIME_DELAY /\ Hearing(q + 1, 0, b)'
        \/ q = 9 /\ Hearing(9, c + 1, b)'
        \/ q = 9 /\ c >= UART_TIME_DELAY /\ Again(0, b)'
    BY <1>0, <1>1, <1>2, <1>6, HearingOn
  <2>3. CASE Hearing(q, c + 1, b)'
    <3>1. Following(q, c + 1, s1, b)'
      BY <1>2, <1>4, <1>6, <2>3 DEF Following
    <3>2. c + 1 \in Nat
      OBVIOUS
    <3> QED
      BY <3>1, <3>2 DEF Receiving
  <2>4. CASE q # 9 /\ c = UART_TIME_DELAY /\ Hearing(q + 1, 0, b)'
    <3>1. rx_baud_count' = s1 - 0 /\ Sampled(b, q + 1)'
      BY <1>0, <1>6, <2>1, <2>4 DEF Timed
    <3>2. Timed(q + 1, 0, s1, b)'
      BY <2>1, <3>1 DEF Timed
    <3>3. Following(q + 1, 0, s1, b)' /\ q + 1 \in 0 .. 9
      BY <1>2, <1>4, <1>6, <2>4, <3>2 DEF Following
    <3> QED
      BY <3>3 DEF Receiving
  <2>5. CASE q = 9 /\ c >= UART_TIME_DELAY /\ Again(0, b)'
    <3>1. Sampled(b, 10)'
      BY <1>0, <1>6, <2>1, <2>5 DEF Timed
    <3>2. Behind(0, b)'
      BY <1>2, <1>4, <1>6, <2>5, <3>1, Bits01 DEF Behind
    <3> QED
      BY <1>0, <3>2 DEF Receiving
  <2> QED
    BY <2>2, <2>3, <2>4, <2>5
<1>7. CASE rx_edge
  BY <1>1, <1>2, <1>3, <1>5, <1>6, <1>7, TimedOn
<1>8. CASE ~rx_edge /\ ~RxStores
  BY <1>1, <1>2, <1>3, <1>6, <1>8, TimedOn
<1>9. CASE ~rx_edge /\ RxStores
  <2>1. /\ q = 9 /\ finish' /\ shiftin'[9] = 1 /\ reccount' = 0
        /\ rx_baud_count' = UART_TIME_DELAY /\ rx_clean = 1
    BY <1>1, <1>2, <1>3, <1>9, TimedOn, Bits01
  <2>2. Rests(c + 1)'
    <3>1. Resting(c) /\ \E x : due = <<x>>
      BY <1>2, <2>1 DEF Seen, Owes
    <3> QED
      BY <1>1, <1>9, <2>1, <3>1, RestsOn
  <2>3. due' = <<>> /\ c + 1 \in Nat
    BY <2>2 DEF Rests
  <2> QED
    BY <1>4, <2>1, <2>2, <2>3 DEF Receiving, Done
<1> QED
  BY <1>7, <1>8, <1>9

\* A frame that is over, in the next start bit.
LEMMA BehindOn ==
    ASSUME SevenBitLine, Settling, RxNext, NEW c \in 0 .. Centre, NEW b \in Byte, Behind(c, b)
    PROVE  Receiving'
<1>0. /\ UART_TIME_DELAY \div 2 = Centre - 1 /\ Centre \in Nat /\ 2 <= Centre
  BY Instants
<1>1. Line /\ Filter /\ Receive /\ RxHistory
  BY DEF RxNext
<1>2. /\ Runs /\ Again(c, b) /\ Sampled(b, 10) /\ rx_clean = 0
      /\ rx_clean_delayed = (IF c = 0 THEN 1 ELSE 0)
      /\ c > 0 => rx_baud_count = Centre - c
  BY DEF Behind, Again
<1>3. rx_clean_delayed' = 0
  BY <1>1, <1>2, Filtering
<1>4. Framing /\ Complete /\ (rx_edge <=> c = 0)
  BY <1>2, AllSampled DEF Runs, Framing, rx_edge
<1>5. ASSUME c < Centre
      PROVE  Behind(c + 1, b)' /\ c + 1 \in 0 .. Centre
  <2>1. ~RxStores
    BY <1>0, <1>2, <1>4, <1>5 DEF RxStores
  <2>2. Again(c + 1, b)'
    BY <1>1, <1>2, <2>1, AgainOn
  <2>3. \/ c = 0 /\ Resync
        \/ c > 0 /\ Count
    BY <1>0, <1>1, <1>2, <1>4, <1>5
       DEF Runs, Receive, Finish, WaitStart, Resync, Count, Sample, Store,
           Shift
  <2>4. rx_baud_count' = Centre - (c + 1) /\ Runs' /\ UNCHANGED <<shiftin, reccount>>
    BY <1>0, <1>2, <2>3 DEF Resync, Count, Runs
  <2>5. Sampled(b, 10)'
    BY <1>2, <2>4 DEF Sampled
  <2> QED
    BY <1>0, <1>3, <1>5, <2>2, <2>4, <2>5 DEF Behind
<1>6. ASSUME c = Centre
      PROVE  Done(0)'
  <2>1. rx_baud_count = 0 /\ ~rx_edge /\ RxStores
    BY <1>0, <1>2, <1>4, <1>6 DEF RxStores
  <2>2. due' = <<>> /\ rx_clean' = 0 /\ Seen(0, Centre + 1)'
    BY <1>1, <1>2, <1>6, <2>1, AgainOn
  <2>3. finish'
    BY <1>1, <1>2, <1>4, <2>1
       DEF Runs, Receive, Finish, WaitStart, Resync, Count, Sample, Store
  <2> QED
    BY <1>3, <2>2, <2>3 DEF Done
<1> QED
  BY <1>0, <1>5, <1>6 DEF Receiving

\* The receiver starts on a low line: at the edge, or in the middle of a start bit.
LEMMA StartOn ==
    ASSUME SevenBitLine, Settling, RxNext, StartFrame, Runs', ~RxStores,
           due = <<>>, rx_clean = 0, NEW c \in {0, Centre + 1}, Seen(0, c)
    PROVE  Receiving'
<1>0. /\ BitTime \in Nat /\ BitTime = UART_TIME_DELAY + 1 /\ UART_TIME_DELAY \in Nat
      /\ UART_TIME_DELAY \div 2 = Centre - 1
      /\ Centre \in Nat /\ 2 <= Centre /\ Centre <= UART_TIME_DELAY - 1
      /\ Drifted \in 1 .. 2 /\ Drifted = (2 * Centre + 1) - BitTime
  BY Instants
<1>1. Line /\ Filter /\ RxHistory /\ frame \in Byte /\ c \in Nat
  BY <1>0 DEF RxNext, Settling
<1>2. PICK b \in Byte : Hearing(0, c, b)
  BY <1>1, FrameHeard
<1>3. rx_clean_delayed' = Of(b, 0)
  BY <1>1, Filtering DEF Of
<1>4. /\ c < UART_TIME_DELAY => Hearing(0, c + 1, b)'
      /\ c = UART_TIME_DELAY => Hearing(1, 0, b)'
  <2>1. 0 \in 0 .. 9 /\ 0 # 9 /\ 0 + 1 = 1
    OBVIOUS
  <2> QED
    BY <1>1, <1>2, <2>1, HearingOn
<1>5. rx_baud_count' = Centre - 1 /\ shiftin' = [i \in 0 .. 9 |-> 0] /\ reccount' = 0
  BY <1>0 DEF StartFrame, NoBits
<1>6. Sampled(b, 0)' /\ Sampled(b, 1)'
  BY <1>5 DEF Sampled, Of
<1>7. CASE c = 0
  <2>1. Timed(0, 1, Centre, b)'
    BY <1>0, <1>5, <1>6 DEF Timed
  <2>2. Following(0, 1, Centre, b)'
    BY <1>0, <1>3, <1>4, <1>7, <2>1 DEF Following
  <2> QED
    BY <2>2 DEF Receiving
<1>8. CASE c = Centre + 1 /\ c < UART_TIME_DELAY
  <2>1. Timed(0, c + 1, Drifted, b)'
    BY <1>0, <1>5, <1>6, <1>8 DEF Timed
  <2>2. Following(0, c + 1, Drifted, b)' /\ c + 1 \in Nat
    BY <1>0, <1>1, <1>3, <1>4, <1>8, <2>1 DEF Following
  <2> QED
    BY <2>2 DEF Receiving
<1>9. CASE c = Centre + 1 /\ c = UART_TIME_DELAY
  <2>1. Timed(1, 0, Drifted, b)'
    BY <1>0, <1>5, <1>6, <1>9 DEF Timed
  <2>2. Following(1, 0, Drifted, b)'
    BY <1>0, <1>3, <1>4, <1>9, <2>1 DEF Following
  <2> QED
    BY <2>2 DEF Receiving
<1> QED
  BY <1>0, <1>7, <1>8, <1>9

LEMMA DoneOn ==
    ASSUME SevenBitLine, Settling, RxNext, NEW c \in Nat, Done(c)
    PROVE  Receiving'
<1>0. Centre \in Nat /\ UART_TIME_DELAY \in Nat
  BY Instants
<1>1. Line /\ Filter /\ Receive /\ RxHistory
  BY DEF RxNext
<1>2. finish /\ due = <<>> /\ ~RxStores /\ Finish
  BY <1>1 DEF Done, RxStores, Framing, Receive, WaitStart, Resync, Count,
              Sample, Store, Shift
<1>3. CASE rx_clean = 0
  <2>1. \E d \in {0, Centre + 1} : Seen(0, d)
    BY <1>3 DEF Done, Rests
  <2>2. StartFrame /\ Runs'
    BY <1>2, <1>3 DEF Finish, StartFrame, Runs
  <2> QED
    BY <1>2, <1>3, <2>1, <2>2, StartOn
<1>4. CASE rx_clean # 0
  <2>1. /\ rx_clean = 1 /\ Resting(c)
        /\ shiftin[9] = 1 /\ reccount = 0 /\ rx_baud_count = UART_TIME_DELAY
    BY <1>4 DEF Done, Rests
  <2>2. /\ ~finish' /\ idle' /\ rx_clean_delayed' = 1 /\ (started' <=> started)
        /\ UNCHANGED <<shiftin, reccount, rx_baud_count>>
    <3>1. idle' = TRUE /\ UNCHANGED <<shiftin, reccount, rx_baud_count>> /\ finish' = FALSE
      BY <1>2, <2>1 DEF Finish
    <3>2. rx_clean_delayed' = 1
      BY <1>1, <2>1, Filtering
    <3>3. started' <=> started
      <4>1. started' = (started \/ (rx_clean = 0 /\ (finish \/ idle)))
        BY <1>1 DEF RxHistory
      <4>2. rx_clean # 0
        BY <2>1
      <4> QED
        BY <4>1, <4>2, Zenon
    <3> QED
      BY <3>1, <3>2, <3>3
  <2>3. Rests(c + 1)' /\ c + 1 \in Nat
    BY <1>1, <1>2, <2>1, RestsOn
  <2>4. Waits(c + 1)'
    BY <1>0, <2>1, <2>2, <2>3 DEF Waits
  <2> QED
    BY <2>3, <2>4 DEF Receiving
<1> QED
  BY <1>3, <1>4


LEMMA WaitsOn ==
    ASSUME SevenBitLine, Settling, RxNext, NEW c \in Nat, Waits(c)
    PROVE  Receiving' /\ (RxStores => PowerUpByte)
<1>0. Centre \in Nat /\ UART_TIME_DELAY \in Nat
  BY Instants
<1>1. Line /\ Filter /\ Receive /\ RxHistory
  BY DEF RxNext
<1>2. /\ ~finish /\ idle /\ due = <<>> /\ rx_clean_delayed = 1
      /\ reccount \in 0 .. 9 /\ rx_baud_count \in 0 .. UART_TIME_DELAY
      /\ \A i \in (IF started THEN 9 ELSE 10) - reccount .. 9 : shiftin[i] = 1
  BY DEF Waits, Rests
<1>3. CASE rx_clean = 0
  <2>1. Seen(0, 0)
    BY <1>3 DEF Waits, Rests
  <2>2. ~RxStores /\ WaitStart
    BY <1>1, <1>2, <1>3
       DEF RxStores, Framing, Receive, Finish, Resync, Count,
           Sample, Store, Shift
  <2>3. StartFrame /\ Runs'
    BY <1>2, <2>2 DEF WaitStart, StartFrame, Runs
  <2> QED
    BY <1>2, <1>3, <2>1, <2>2, <2>3, StartOn
<1>4. CASE rx_clean # 0
  <2>1. rx_clean = 1 /\ Resting(c) /\ ~rx_edge /\ Framing
    BY <1>2, <1>4 DEF Waits, Rests, rx_edge, Framing
  <2>2. Rests(c + 1)' /\ c + 1 \in Nat /\ due' = <<>>
    BY <1>1, <1>2, <2>1, RestsOn DEF Rests
  <2>3. rx_clean_delayed' = 1 /\ (started' <=> started)
    <3>1. rx_clean_delayed' = 1
      BY <1>1, <2>1, Filtering
    <3>2. started' <=> started
      <4>1. started' = (started \/ (rx_clean = 0 /\ (finish \/ idle)))
        BY <1>1 DEF RxHistory
      <4>2. rx_clean # 0
        BY <2>1
      <4> QED
        BY <4>1, <4>2, Zenon
    <3> QED
      BY <3>1, <3>2
  <2>4. \/ rx_baud_count > 0 /\ Count
        \/ rx_baud_count = 0 /\ Shift /\ Sample /\ ~Complete
        \/ rx_baud_count = 0 /\ Shift /\ Store /\ Complete
    BY <1>1, <1>2, <2>1
       DEF Receive, Finish, WaitStart, Resync, Count, Sample, Store,
           Framing, Shift
  <2>5. CASE rx_baud_count > 0 /\ Count
    <3>1. /\ ~finish' /\ idle' /\ rx_baud_count' \in 0 .. UART_TIME_DELAY
          /\ UNCHANGED <<shiftin, reccount>>
      BY <1>0, <1>2, <2>5 DEF Count
    <3>2. Waits(c + 1)'
      BY <1>2, <2>2, <2>3, <3>1 DEF Waits
    <3> QED
      BY <2>2, <2>5, <3>2 DEF Receiving, RxStores
  <2>6. CASE rx_baud_count = 0 /\ Shift /\ Sample /\ ~Complete
    <3>1. /\ ~finish' /\ idle' /\ rx_baud_count' = UART_TIME_DELAY
          /\ shiftin' = [i \in 0 .. 9 |-> IF i = 9 THEN 1 ELSE shiftin[i + 1]]
          /\ reccount' = IF reccount = 9 THEN 9 ELSE reccount + 1
      BY <1>2, <2>1, <2>6 DEF Sample, Shift
    <3> DEFINE top == IF started THEN 9 ELSE 10
    <3>2. (top = 9 \/ top = 10) /\ reccount' \in 0 .. 9
      BY <1>2, <3>1
    <3>3. \A i \in top - reccount .. 9 : shiftin[i] = 1
      BY <1>2
    <3> HIDE DEF top
    <3>4. ASSUME NEW i \in top - reccount' .. 9
          PROVE  shiftin'[i] = 1
      <4>1. i \in 0 .. 9
        <5>1. ASSUME NEW t \in {9, 10}, NEW r \in 0 .. 9, i \in t - r .. 9
              PROVE  i \in 0 .. 9
          BY <5>1
        <5> QED
          BY <3>2, <3>4, <5>1
      <4>2. CASE i = 9
        BY <3>1, <4>2
      <4>3. CASE i # 9
        <5>1. i + 1 \in top - reccount .. 9
          BY <1>2, <3>1, <3>2, <4>3
        <5> QED
          BY <3>1, <3>3, <4>1, <4>3, <5>1
      <4> QED
        BY <4>2, <4>3
    <3>5. \A i \in (IF started' THEN 9 ELSE 10) - reccount' .. 9 : shiftin'[i] = 1
      BY <2>3, <3>4 DEF top
    <3>6. Waits(c + 1)'
      BY <1>0, <2>2, <2>3, <3>1, <3>2, <3>5 DEF Waits
    <3> QED
      BY <2>2, <2>6, <3>6 DEF Receiving, RxStores
  <2>7. CASE rx_baud_count = 0 /\ Shift /\ Store /\ Complete
    <3>1. reccount = 9 /\ shiftin[0] = 0
      BY <2>7 DEF Complete
    <3>2. ~started
      BY <1>2, <3>1
    <3>3. \A i \in 1 .. 9 : shiftin[i] = 1
      BY <1>2, <3>1, <3>2
    <3>4. PowerUpByte
      <4>1. \A i \in 0 .. 7 : shiftin[i + 1] = 1
        BY <3>3
      <4> QED
        BY <3>2, <4>1 DEF PowerUpByte, Received
    <3>5. finish' /\ reccount' = 0 /\ rx_baud_count' = UART_TIME_DELAY /\ shiftin'[9] = 1
      BY <2>1, <2>7 DEF Store, Shift
    <3>6. Done(c + 1)'
      BY <2>2, <2>3, <3>5 DEF Done
    <3> QED
      BY <2>2, <3>4, <3>6 DEF Receiving
  <2> QED
    BY <2>4, <2>5, <2>6, <2>7
<1> QED
  BY <1>3, <1>4

LEMMA InitRxInv == ASSUME SevenBitLine, RxInit PROVE RxInv
<1>0. BitTime \in Nat /\ BitTime >= 4 /\ UART_TIME_DELAY \in Nat
  BY Instants
<1>1. /\ frame \in Byte /\ pos = 9 /\ left = 1 /\ rx_clean = 1 /\ due = <<>>
      /\ rx_sync0 = 1 /\ rx_sync1 = 1 /\ rx_clean_delayed = 1
      /\ rx_baud_count \in 0 .. UART_TIME_DELAY /\ reccount = 0 /\ idle /\ ~finish /\ ~started
  BY DEF RxInit
<1>2. Level = 1
  BY <1>1, Levels DEF Of
<1>3. Settling
  BY <1>0, <1>1, <1>2 DEF Settling
<1>4. Waits(BitTime)
  BY <1>0, <1>1 DEF Waits, Rests, Resting, Age
<1> QED
  BY <1>0, <1>3, <1>4 DEF RxInv, Receiving

LEMMA NextRxInv == ASSUME SevenBitLine, RxInv, [RxNext]_rxVars PROVE RxInv'
<1>1. CASE RxNext
  <2>1. Settling'
    BY <1>1, Filtering DEF RxInv, RxNext
  <2>2. Receiving'
    BY <1>1, FollowingOn, BehindOn, DoneOn, WaitsOn DEF RxInv, Receiving
  <2> QED
    BY <2>1, <2>2 DEF RxInv
<1>2. CASE UNCHANGED rxVars
  <2>1. /\ UNCHANGED <<frame, pos, left, rx_sync0, rx_sync1, rx_clean, rx_clean_delayed>>
        /\ UNCHANGED <<rx_baud_count, shiftin, reccount, idle, finish, due, started>>
    BY <1>2 DEF rxVars, lineVars, filterVars, frameVars
  <2>2. Level' = Level
    BY <2>1 DEF Level
  <2>3. Settling'
    BY <2>1, <2>2 DEF RxInv, Settling
  <2>4. /\ Age' = Age
        /\ \A q, c : Seen(q, c)' = Seen(q, c)
        /\ \A c : Resting(c)' = Resting(c)
    BY <2>1 DEF Age, Seen, Resting
  <2>5. ASSUME NEW q \in 0 .. 9, NEW c \in Nat, NEW s \in {Centre, Drifted}, NEW b \in Byte,
               Following(q, c, s, b)
        PROVE  Following(q, c, s, b)'
    BY <2>1, <2>4, <2>5 DEF Following, Runs, Hearing, Owes, Timed, Sampled
  <2>6. ASSUME NEW c \in 0 .. Centre, NEW b \in Byte, Behind(c, b)
        PROVE  Behind(c, b)'
    BY <2>1, <2>4, <2>6 DEF Behind, Runs, Again, Sampled
  <2>7. ASSUME NEW c \in Nat, Done(c)
        PROVE  Done(c)'
    BY <2>1, <2>4, <2>7 DEF Done, Rests
  <2>8. ASSUME NEW c \in Nat, Waits(c)
        PROVE  Waits(c)'
    BY <2>1, <2>4, <2>8 DEF Waits, Rests
  <2>9. Receiving'
    BY <2>5, <2>6, <2>7, <2>8 DEF RxInv, Receiving
  <2> QED
    BY <2>3, <2>9 DEF RxInv
<1> QED
  BY <1>1, <1>2

\* What a step stores.
LEMMA StoresOwed ==
    ASSUME SevenBitLine, RxInv, RxNext, RxStores
    PROVE  (due # <<>> /\ Received = Head(due)) \/ PowerUpByte
<1>0. /\ Centre \in Nat /\ UART_TIME_DELAY \in Nat /\ BitTime = UART_TIME_DELAY + 1
      /\ ~rx_edge
  BY Instants DEF RxStores
<1>1. ASSUME NEW q \in 0 .. 9, NEW c \in Nat, NEW s \in {Centre, Drifted}, NEW b \in Byte,
             Following(q, c, s, b)
      PROVE  due = <<b>> /\ Received = b
  <2>1. /\ Runs /\ Timed(q, c, s, b) /\ rx_clean = Of(b, q) /\ Seen(q, c) /\ Owes(q, b)
    BY <1>1 DEF Following, Hearing
  <2>2. q # 9 => c <= UART_TIME_DELAY
    BY <1>0, <2>1, Onwards DEF RxInv, RxNext
  <2>3. q = 9 /\ Received = b
    BY <1>0, <2>1, <2>2, TimedOn DEF RxNext
  <2> QED
    BY <2>1, <2>3 DEF Owes
<1>2. ASSUME NEW c \in 0 .. Centre, NEW b \in Byte, Behind(c, b)
      PROVE  due = <<b>> /\ Received = b
  BY <1>2, AllSampled DEF Behind, Again
<1>3. ASSUME NEW c \in Nat, Done(c)
      PROVE  FALSE
  BY <1>3 DEF Done, RxStores, Framing
<1>4. ASSUME NEW c \in Nat, Waits(c)
      PROVE  PowerUpByte
  BY <1>4, WaitsOn DEF RxInv
<1>5. \A b : due = <<b>> => due # <<>> /\ Head(due) = b
  OBVIOUS
<1> QED
  BY <1>1, <1>2, <1>3, <1>4, <1>5 DEF RxInv, Receiving

LEMMA OneByteOwed == ASSUME RxInv PROVE InTime
<1>1. due = <<>> \/ \E b : due = <<b>>
  BY DEF RxInv, Receiving, Following, Behind, Done, Waits, Hearing, Again, Rests, Owes
<1>2. Len(<<>>) = 0 /\ \A b : Len(<<b>>) = 1
  OBVIOUS
<1>3. Len(due) = 0 \/ Len(due) = 1
  BY <1>1, <1>2
<1>4. 0 <= 1 /\ 1 <= 1
  OBVIOUS
<1> QED
  BY <1>3, <1>4, Zenon DEF InTime

\* InTime: a byte is stored before the data of the next is over, with any pause between
\* them or none, any spikes of a clock, and any bit time of four clocks or more.
THEOREM StoredInTime == ASSUME SevenBitLine PROVE RxSpec => []InTime
<1>1. RxInit => RxInv
  BY InitRxInv
<1>2. RxInv /\ [RxNext]_rxVars => RxInv'
  BY NextRxInv
<1>3. RxInv => InTime
  BY OneByteOwed
<1> QED
  BY <1>1, <1>2, <1>3, PTL DEF RxSpec

\* StoredAsSent: what the receiver stores is the oldest byte that was sent and is not yet
\* stored, but for a byte of ones that it may make up before the first start bit.
THEOREM StoresWhatWasSent == ASSUME SevenBitLine PROVE RxSpec => StoredAsSent
<1>1. RxInit => RxInv
  BY InitRxInv
<1>2. RxInv /\ [RxNext]_rxVars => RxInv'
  BY NextRxInv
<1>3. RxInv /\ [RxNext]_rxVars =>
         [RxStores => (due # <<>> /\ Received = Head(due)) \/ PowerUpByte]_rxVars
  BY StoresOwed
<1> QED
  BY <1>1, <1>2, <1>3, PTL DEF RxSpec, StoredAsSent
================================================================================
