------------------------------- MODULE SdramProofs -----------------------------
(***************************************************************************)
(* Proofs about module SdramArb, for every burst length: the commands the   *)
(* SDRAM chip gets whoever asks for bursts and whenever, which half-word is *)
(* on the bus on each beat, whose burst it is, and the scan line it fills.  *)
(***************************************************************************)
EXTENDS SdramArb, TLAPS

\* The states outside a burst, in which every row is closed.
Closed == {"START", "INITIAL", "PRECHARGE", "AUTO_REFRESHS1", "AUTO_REFRESHS2",
           "MODE_SET", "AUTO_REFRESH", "IDLE", "DONE_RC"}

RowOpen(op) == chip.row = mem_address /\ chip.op = op

\* What the chip is doing, state by state.
ChipFollows ==
    /\ sState \in Closed => chip.row = NoLine /\ chip.op = "none"
    /\ sState = "ROW_ACTIVE" =>
         IF nop THEN RowOpen("none") ELSE chip.row = NoLine /\ chip.op = "none"
    /\ sState \in {"READ_COL", "WRITE_COLB", "CLOSE_ROW"} => RowOpen("none")
    /\ sState \in {"READ_COLA", "READ_COLB"} => RowOpen("READ")
    /\ sState = "WRITE_COL" =>
         RowOpen(IF burst = BURST_LEN THEN "none" ELSE "WRITE")
    /\ sState = "BURST_TERM" => chip.row = mem_address /\ chip.op # "none"

\* The command of a state is given in its first clock.
CommandFirst == sState # "START" => (nop <=> delay # 0)

\* The count of a write starts full.
CountFull == sState = "WRITE_COLB" => burst = BURST_LEN

IInv == SdramTypeOK /\ ChipFollows /\ CommandFirst /\ CountFull

--------------------------------------------------------------------------------
(* The table *)

LEMMA States ==
    State = {"START", "INITIAL", "PRECHARGE", "AUTO_REFRESHS1", "AUTO_REFRESHS2",
             "MODE_SET", "AUTO_REFRESH", "IDLE", "ROW_ACTIVE", "READ_COL", "READ_COLA",
             "READ_COLB", "WRITE_COLB", "WRITE_COL", "BURST_TERM", "CLOSE_ROW", "DONE_RC"}
BY DEF State, Table

LEMMA TableType ==
    \A s \in State : Table[s].wait \in Nat /\ Table[s].next \in State
BY States, SdramBurstAssumption DEF Table, Row

\* The states in which a burst moves on in every clock.
LEMMA NoWait ==
    \A s \in {"READ_COL", "READ_COLB", "WRITE_COL", "BURST_TERM", "CLOSE_ROW", "IDLE",
              "START"} : Table[s].wait = 0
BY DEF Table, Row

LEMMA Commands ==
    /\ \A s \in {"START", "INITIAL", "IDLE", "DONE_RC", "READ_COLA", "READ_COLB",
                 "WRITE_COLB", "WRITE_COL"} : Table[s].cmd = "NOP"
    /\ \A s \in {"AUTO_REFRESHS1", "AUTO_REFRESHS2", "AUTO_REFRESH"} : Table[s].cmd = "REF"
    /\ Table["MODE_SET"].cmd = "MRS"
    /\ \A s \in {"PRECHARGE", "CLOSE_ROW"} : Table[s].cmd = "PRE"
    /\ Table["ROW_ACTIVE"].cmd = "ACT" /\ Table["READ_COL"].cmd = "READ"
    /\ Table["BURST_TERM"].cmd = "TERM"
BY DEF Table, Row

LEMMA Successors ==
    /\ \A s \in Closed : Table[s].next \in Closed
    /\ Table["ROW_ACTIVE"].next = "READ_COL" /\ Table["READ_COL"].next = "READ_COLA"
    /\ Table["READ_COLA"].next = "READ_COLB" /\ Table["READ_COLB"].next = "READ_COLB"
    /\ Table["WRITE_COLB"].next = "WRITE_COL" /\ Table["WRITE_COL"].next = "WRITE_COL"
    /\ Table["BURST_TERM"].next = "CLOSE_ROW" /\ Table["CLOSE_ROW"].next = "DONE_RC"
BY DEF Table, Row, Closed

--------------------------------------------------------------------------------
(* One clock of the controller *)

LEMMA CommandWhen ==
    ASSUME IInv
    PROVE  /\ nop => command = "NOP"
           /\ ~nop /\ ~(sState = "WRITE_COL" /\ burst = BURST_LEN)
                => command = Table[sState].cmd
           /\ ~nop /\ sState = "WRITE_COL" /\ burst = BURST_LEN => command = "WRITE"
BY DEF command

LEMMA StepType ==
    ASSUME IInv, NEW req, NEW rw \in BOOLEAN, NEW address \in Line,
           SdramClock(req, rw, address)
    PROVE  SdramTypeOK'
<1>1. nState \in State
  <2>1. Table[sState].next \in State
    BY TableType DEF IInv, SdramTypeOK
  <2> QED
    BY <2>1, States DEF nState
<1>2. sState' \in State /\ nop' \in BOOLEAN
  BY <1>1 DEF SdramClock, Advance, Delay, IInv, SdramTypeOK
<1>3. delay' \in Nat /\ delay' <= dtarget'
  <2>1. CASE Advance
    BY <1>2, <2>1, TableType DEF Advance, dtarget
  <2>2. CASE Delay
    BY <2>2, TableType DEF Delay, dtarget, IInv, SdramTypeOK
  <2> QED
    BY <2>1, <2>2 DEF SdramClock
<1>4. irwq' \in BOOLEAN /\ irw' \in BOOLEAN /\ mem_address' \in Line
  BY DEF SdramClock, LatchRequest, IInv, SdramTypeOK
<1>5. burst' \in 0..BURST_LEN
  <2>1. HW \in Nat /\ HW >= 2 /\ burst \in 0..HW - 1
    BY SdramBurstAssumption DEF IInv, SdramTypeOK, BURST_LEN
  <2>2. (burst + (HW - 1)) % HW \in 0..HW - 1
    BY <2>1
  <2> QED
    BY <2>1, <2>2 DEF SdramClock, CountDown, BURST_LEN
<1>6. chip' \in [row : Line \cup {NoLine}, op : {"none", "READ", "WRITE"}, n : Nat]
  <2>1. chip \in [row : Line \cup {NoLine}, op : {"none", "READ", "WRITE"}, n : Nat]
        /\ mem_address \in Line
    BY DEF IInv, SdramTypeOK
  <2>2. CASE command = "ACT"
    BY <2>1, <2>2 DEF SdramClock, Chip
  <2>3. CASE command \in {"READ", "WRITE"}
    BY <2>1, <2>3 DEF SdramClock, Chip
  <2>4. CASE command \in {"TERM", "PRE"}
    BY <2>1, <2>4 DEF SdramClock, Chip, NoOp
  <2>5. CASE command \notin {"ACT", "READ", "WRITE", "TERM", "PRE"}
    <3>1. chip' = chip \/ chip' = [chip EXCEPT !.n = @ + 1]
      BY <2>5 DEF SdramClock, Chip
    <3> QED
      BY <2>1, <3>1
  <2> QED
    BY <2>2, <2>3, <2>4, <2>5
<1> QED
  BY <1>2, <1>3, <1>4, <1>5, <1>6 DEF SdramTypeOK

\* The chip follows the states: one case per state.
LEMMA StepChip ==
    ASSUME IInv, NEW req, NEW rw \in BOOLEAN, NEW address \in Line,
           SdramClock(req, rw, address)
    PROVE  ChipFollows' /\ CountFull'
<1> DEFINE cmd == Table[sState].cmd
<1>1. /\ sState \in State /\ delay \in Nat /\ delay <= Table[sState].wait
      /\ Table[sState].wait \in Nat
      /\ chip \in [row : Line \cup {NoLine}, op : {"none", "READ", "WRITE"}, n : Nat]
  BY TableType DEF IInv, SdramTypeOK, dtarget
<1>2. \/ Advance /\ sState' = nState /\ ~nop'
      \/ Delay /\ sState' = sState /\ nop' /\ delay # Table[sState].wait
  BY DEF SdramClock, Advance, Delay, dtarget
<1>3. sState # "IDLE" => mem_address' = mem_address /\ irw' = irw
  BY DEF SdramClock, LatchRequest
<1>4. CASE sState \in Closed
  <2>1. chip' = chip \/ chip' = NoOp
    <3>1. command \in {"NOP", "REF", "MRS", "PRE"}
      BY <1>4, CommandWhen, Commands DEF Closed
    <3> QED
      BY <1>4, <3>1 DEF SdramClock, Chip, IInv, ChipFollows
  <2>2. chip'.row = NoLine /\ chip'.op = "none"
    BY <1>4, <2>1 DEF NoOp, IInv, ChipFollows
  <2>3. sState' \in Closed \/ (sState' = "ROW_ACTIVE" /\ ~nop')
    <3>1. CASE sState = "IDLE"
      <4>1. Table["IDLE"].wait = 0 /\ Table["IDLE"].next \in Closed
        BY NoWait, Successors DEF Closed
      <4> QED
        BY <1>1, <1>2, <3>1, <4>1 DEF nState, Closed
    <3>2. CASE sState # "IDLE"
      BY <1>2, <1>4, <3>2, Successors DEF nState, Closed
    <3> QED
      BY <3>1, <3>2
  <2> QED
    BY <2>2, <2>3 DEF ChipFollows, CountFull, Closed
<1>5. CASE sState = "ROW_ACTIVE"
  <2>1. chip'.row = mem_address /\ chip'.op = "none"
    <3>1. CASE nop
      BY <1>1, <1>5, <3>1, CommandWhen DEF SdramClock, Chip, IInv, ChipFollows, RowOpen
    <3>2. CASE ~nop
      <4>1. command = "ACT"
        BY <1>5, <3>2, CommandWhen, Commands
      <4> QED
        BY <1>1, <1>5, <3>2, <4>1 DEF SdramClock, Chip, IInv, ChipFollows
    <3> QED
      BY <3>1, <3>2
  <2>2. burst' = BURST_LEN
    BY <1>5 DEF SdramClock, CountDown
  <2>3. \/ sState' \in {"READ_COL", "WRITE_COLB"}
        \/ sState' = "ROW_ACTIVE" /\ nop'
    BY <1>2, <1>5, Successors DEF nState
  <2> QED
    BY <1>3, <1>5, <2>1, <2>2, <2>3 DEF ChipFollows, RowOpen, CountFull, Closed
<1>6. CASE sState = "READ_COL"
  <2>1. ~nop /\ sState' = "READ_COLA"
    BY <1>1, <1>2, <1>6, NoWait, Successors DEF nState, IInv, CommandFirst
  <2>2. command = "READ"
    BY <1>6, <2>1, CommandWhen, Commands
  <2>3. chip'.row = mem_address /\ chip'.op = "READ"
    BY <1>1, <1>6, <2>2 DEF SdramClock, Chip, IInv, ChipFollows, RowOpen
  <2> QED
    BY <1>3, <1>6, <2>1, <2>3 DEF ChipFollows, RowOpen, CountFull, Closed
<1>7. CASE sState \in {"READ_COLA", "READ_COLB"}
  <2>1. command = "NOP"
    BY <1>7, CommandWhen, Commands
  <2>2. chip'.row = mem_address /\ chip'.op = "READ"
    BY <1>1, <1>7, <2>1 DEF SdramClock, Chip, IInv, ChipFollows, RowOpen
  <2>3. sState' \in {"READ_COLA", "READ_COLB", "BURST_TERM"}
    BY <1>2, <1>7, Successors DEF nState
  <2> QED
    BY <1>3, <1>7, <2>2, <2>3 DEF ChipFollows, RowOpen, CountFull, Closed
<1>8. CASE sState = "WRITE_COLB"
  <2>1. command = "NOP"
    BY <1>8, CommandWhen, Commands
  <2>2. chip'.row = mem_address /\ chip'.op = "none"
    BY <1>1, <1>8, <2>1 DEF SdramClock, Chip, IInv, ChipFollows, RowOpen
  <2>3. burst' = BURST_LEN /\ sState' \in {"WRITE_COLB", "WRITE_COL"}
    BY <1>2, <1>8, Successors DEF nState, SdramClock, CountDown, IInv, CountFull
  <2> QED
    BY <1>3, <1>8, <2>2, <2>3 DEF ChipFollows, RowOpen, CountFull, Closed
<1>9. CASE sState = "WRITE_COL"
  <2>1. HW \in Nat /\ HW >= 2 /\ burst \in 0..HW - 1 /\ BURST_LEN = HW - 1
    BY SdramBurstAssumption DEF IInv, SdramTypeOK, BURST_LEN
  <2>2. ~nop
    BY <1>1, <1>9, NoWait DEF IInv, CommandFirst
  <2>3. chip'.row = mem_address /\ chip'.op = "WRITE"
    <3>1. CASE burst = BURST_LEN
      <4>1. command = "WRITE"
        BY <1>9, <2>2, <3>1, CommandWhen
      <4> QED
        BY <1>1, <1>9, <3>1, <4>1 DEF SdramClock, Chip, IInv, ChipFollows, RowOpen
    <3>2. CASE burst # BURST_LEN
      <4>1. command = "NOP"
        BY <1>9, <2>2, <3>2, CommandWhen, Commands
      <4> QED
        BY <1>1, <1>9, <3>2, <4>1 DEF SdramClock, Chip, IInv, ChipFollows, RowOpen
    <3> QED
      BY <3>1, <3>2
  <2>4. \/ burst = 0 /\ sState' = "BURST_TERM"
        \/ burst # 0 /\ sState' = "WRITE_COL"
    BY <1>1, <1>2, <1>9, NoWait, Successors DEF nState
  <2>5. burst # 0 => burst' # BURST_LEN
    <3>1. burst # 0 => (burst + (HW - 1)) % HW = burst - 1
      BY <2>1
    <3> QED
      BY <1>9, <2>1, <3>1 DEF SdramClock, CountDown
  <2> QED
    BY <1>3, <1>9, <2>3, <2>4, <2>5 DEF ChipFollows, RowOpen, CountFull, Closed
<1>10. CASE sState = "BURST_TERM"
  <2>1. ~nop /\ sState' = "CLOSE_ROW"
    BY <1>1, <1>2, <1>10, NoWait, Successors DEF nState, IInv, CommandFirst
  <2>2. command = "TERM"
    BY <1>10, <2>1, CommandWhen, Commands
  <2> QED
    BY <1>1, <1>3, <1>10, <2>1, <2>2
       DEF SdramClock, Chip, IInv, ChipFollows, RowOpen, CountFull, Closed
<1>11. CASE sState = "CLOSE_ROW"
  <2>1. ~nop /\ sState' = "DONE_RC"
    BY <1>1, <1>2, <1>11, NoWait, Successors DEF nState, IInv, CommandFirst
  <2>2. command = "PRE"
    BY <1>11, <2>1, CommandWhen, Commands
  <2>3. chip' = NoOp
    BY <2>2 DEF SdramClock, Chip
  <2> QED
    BY <2>1, <2>3 DEF NoOp, ChipFollows, CountFull, Closed
<1> QED
  BY <1>1, <1>4, <1>5, <1>6, <1>7, <1>8, <1>9, <1>10, <1>11, States DEF Closed

--------------------------------------------------------------------------------
(* The invariant *)

\* What the arbiter shows the controller is always a line.
AddressOK == frame_pos \in Line /\ old_line \in Line /\ new_line \in Line

FullInv == IInv /\ AddressOK

LEMMA AddressStep == ASSUME AddressOK, Next PROVE AddressOK'
<1>1. frame_pos' \in Line
  BY SdramArbAssumption DEF Next, VgaClock, VgaIdle, StartLine, VgaRequest, VgaRead,
                            VgaDone, AddressOK
<1>2. old_line' \in Line /\ new_line' \in Line
  BY DEF Next, CacheClock, CacheMiss, CacheHit, CacheStore, CachePrep, CacheLoad,
         CacheUpdate, CountBeats, cacheVars, AddressOK
<1> QED
  BY <1>1, <1>2 DEF AddressOK

LEMMA InitInv == Init => FullInv
<1> SUFFICES ASSUME Init PROVE FullInv
  OBVIOUS
<1>1. "START" \in State /\ Table["START"].wait = 0
  BY States, NoWait
<1>2. 0 \in 0..BURST_LEN
  BY SdramBurstAssumption DEF BURST_LEN
<1>3. SdramTypeOK
  <2>1. chip \in [row : Line \cup {NoLine}, op : {"none", "READ", "WRITE"}, n : Nat]
    BY DEF Init, SdramInit, NoOp
  <2>2. delay \in Nat /\ delay <= dtarget /\ burst \in 0..BURST_LEN
    BY <1>1, <1>2 DEF Init, SdramInit, dtarget
  <2> QED
    BY <1>1, <2>1, <2>2 DEF Init, SdramInit, SdramTypeOK
<1> QED
  BY <1>3 DEF Init, SdramInit, FullInv, IInv, AddressOK, ChipFollows, CommandFirst,
              CountFull, NoOp, Closed

LEMMA StepInv == ASSUME FullInv, [Next]_vars PROVE FullInv'
<1>1. CASE Next
  <2>1. SdramClock(sd_rw_req, sd_rw, sd_address)
    BY <1>1 DEF Next
  <2>2. sd_rw \in BOOLEAN /\ sd_address \in Line
    BY DEF sd_rw, sd_rw_mmu, sd_address, sd_address_mmu, FullInv, AddressOK
  <2>3. SdramTypeOK'
    BY <2>1, <2>2, StepType DEF FullInv
  <2>4. ChipFollows' /\ CountFull'
    BY <2>1, <2>2, StepChip DEF FullInv
  <2>5. CommandFirst'
    BY <2>1 DEF SdramClock, Advance, Delay, FullInv, IInv, SdramTypeOK, CommandFirst
  <2>6. AddressOK'
    BY <1>1, AddressStep DEF FullInv
  <2> QED
    BY <2>3, <2>4, <2>5, <2>6 DEF FullInv, IInv
<1>2. CASE UNCHANGED vars
  BY <1>2 DEF vars, sdVars, vgaVars, cacheVars, FullInv, IInv, AddressOK, SdramTypeOK,
              dtarget, ChipFollows, RowOpen, CommandFirst, CountFull
<1> QED
  BY <1>1, <1>2

LEMMA Invariant == Spec => []FullInv
<1>1. FullInv /\ [Next]_vars => FullInv'
  BY StepInv
<1> QED
  BY <1>1, InitInv, PTL DEF Spec

\* Whatever the arbiter, the video and the cache do, the chip gets only commands
\* its state allows (sdramburst.v 122-284).
THEOREM ChipNeverMisused == Spec => []CommandsLegal
<1>1. ASSUME FullInv PROVE CommandsLegal
  <2>1. IInv /\ sState \in State
    BY <1>1 DEF FullInv, IInv, SdramTypeOK
  <2>2. nop => CommandsLegal
    BY <2>1, CommandWhen DEF CommandsLegal
  <2>3. ASSUME ~nop, sState \in Closed PROVE CommandsLegal
    <3>1. command \in {"NOP", "REF", "MRS", "PRE"}
      BY <2>1, <2>3, CommandWhen, Commands DEF Closed
    <3> QED
      BY <2>1, <2>3, <3>1 DEF IInv, ChipFollows, CommandsLegal
  <2>4. ASSUME ~nop, sState \in {"READ_COLA", "READ_COLB", "WRITE_COLB"} PROVE CommandsLegal
    BY <2>1, <2>4, CommandWhen, Commands DEF CommandsLegal
  <2>5. ASSUME ~nop, sState = "ROW_ACTIVE" PROVE CommandsLegal
    BY <2>1, <2>5, CommandWhen, Commands DEF IInv, ChipFollows, CommandsLegal
  <2>6. ASSUME ~nop, sState = "READ_COL" PROVE CommandsLegal
    BY <2>1, <2>6, CommandWhen, Commands DEF IInv, ChipFollows, RowOpen, CommandsLegal
  <2>7. ASSUME ~nop, sState = "WRITE_COL" PROVE CommandsLegal
    <3>1. CASE burst = BURST_LEN
      BY <2>1, <2>7, <3>1, CommandWhen DEF IInv, ChipFollows, RowOpen, CommandsLegal
    <3>2. CASE burst # BURST_LEN
      BY <2>1, <2>7, <3>2, CommandWhen, Commands DEF CommandsLegal
    <3> QED
      BY <3>1, <3>2
  <2>8. ASSUME ~nop, sState = "BURST_TERM" PROVE CommandsLegal
    BY <2>1, <2>8, CommandWhen, Commands DEF IInv, ChipFollows, CommandsLegal
  <2>9. ASSUME ~nop, sState = "CLOSE_ROW" PROVE CommandsLegal
    BY <2>1, <2>9, CommandWhen, Commands DEF IInv, ChipFollows, RowOpen, CommandsLegal
  <2> QED
    BY <2>1, <2>2, <2>3, <2>4, <2>5, <2>6, <2>7, <2>8, <2>9, States DEF Closed
<1> QED
  BY <1>1, Invariant, PTL

--------------------------------------------------------------------------------
(* The scan line *)

\* Half-words of the bursts that are done.
Done == (LineBursts - no_burst) * HW

\* How far the scan line is, by the state of the fetcher: a burst is wanted only
\* when one is left, and every burst fetches one line of half-words.
Position ==
    /\ no_burst \in 0..LineBursts
    /\ req_burst \/ vState # "IDLE" => no_burst # 0
    /\ vState \in {"IDLE", "REQUEST_LINE", "READ_DATA", "DONE"}
    /\ vState = "DONE" => ~req_burst
    /\ vState \in {"IDLE", "REQUEST_LINE"} => scanline_pos = Done
    /\ vState = "READ_DATA" => scanline_pos \in Done..Done + HW - 1
    /\ vState = "DONE" => scanline_pos = Done + HW

\* The place of a half-word in its burst.
LEMMA InLine ==
    ASSUME NEW h \in Nat, h > 0, NEW k \in Nat, NEW i \in 0..h - 1
    PROVE  (k * h + i) % h = i
OBVIOUS

LEMMA NextInLine ==
    ASSUME NEW h \in Nat, h > 0, NEW x \in Nat, x % h # h - 1
    PROVE  (x + 1) % h = (x % h) + 1
<1> DEFINE q == x \div h
           r == x % h
<1>1. q \in Nat /\ r \in 0..h - 1 /\ x = q * h + r
  OBVIOUS
<1> HIDE DEF q, r
<1>2. r + 1 \in 0..h - 1 /\ x + 1 = q * h + (r + 1)
  BY <1>1 DEF r
<1>3. (q * h + (r + 1)) % h = r + 1
  BY <1>1, <1>2, InLine
<1> QED
  BY <1>2, <1>3 DEF r

\* One burst more or less of a scan line.
LEMMA BurstsDone ==
    ASSUME NEW n \in Nat, NEW m \in 1..n, NEW h \in Nat
    PROVE  /\ (n - m) * h \in Nat
           /\ (n - (m - 1)) * h = (n - m) * h + h
           /\ (n - m) * h + h <= n * h
OBVIOUS

LEMMA InitPosition == Init => Position
<1> SUFFICES ASSUME Init PROVE Position
  OBVIOUS
<1>1. LineBursts \in Nat /\ LineBursts # 0 /\ HW \in Nat
  BY SdramArbAssumption, SdramBurstAssumption
<1>2. (LineBursts - LineBursts) * HW = 0
  BY <1>1
<1> QED
  BY <1>1, <1>2 DEF Init, Position, Done

LEMMA StepPosition == Position /\ [Next]_vars => Position'
<1> SUFFICES ASSUME Position, [Next]_vars PROVE Position'
  OBVIOUS
<1>1. /\ LineBursts \in Nat /\ LineBursts # 0 /\ HW \in Nat /\ HW >= 2
      /\ BURST_LEN = HW - 1
  BY SdramArbAssumption, SdramBurstAssumption DEF BURST_LEN
<1>2. no_burst \in 0..LineBursts /\ Done \in Nat
  BY <1>1 DEF Position, Done
<1>3. CASE UNCHANGED vgaVars
  BY <1>3 DEF vgaVars, Position, Done
<1>4. CASE VgaIdle
  <2>1. CASE StartLine
    <3>1. (LineBursts - LineBursts) * HW = 0
      BY <1>1
    <3> QED
      BY <1>1, <1>4, <2>1, <3>1 DEF VgaIdle, StartLine, Position, Done
  <2>2. CASE UNCHANGED <<no_burst, scanline_pos>> /\ req_burst' = (req_burst \/ no_burst # 0)
    BY <1>1, <1>2, <1>4, <2>2 DEF VgaIdle, Position, Done
  <2> QED
    BY <1>4, <2>1, <2>2 DEF VgaIdle
<1>5. CASE VgaRequest
  BY <1>1, <1>2, <1>5 DEF VgaRequest, Position, Done
<1>6. CASE VgaRead
  <2>1. vState = "READ_DATA" /\ scanline_pos \in Done..Done + HW - 1 /\ Done' = Done
        /\ no_burst' = no_burst /\ ~req_burst' /\ scanline_pos' = scanline_pos + 1
    BY <1>6 DEF VgaRead, Position, Done
  <2>2. PICK k \in Nat : k = LineBursts - no_burst
    BY <1>1, <1>2
  <2>3. Done = k * HW
    BY <2>2 DEF Done
  <2>4. scanline_pos % HW = scanline_pos - Done
    <3>1. scanline_pos - Done \in 0..HW - 1 /\ scanline_pos = Done + (scanline_pos - Done)
      BY <1>1, <1>2, <2>1
    <3>2. (k * HW + (scanline_pos - Done)) % HW = scanline_pos - Done
      BY <1>1, <3>1, InLine
    <3> QED
      BY <2>3, <3>1, <3>2
  <2>5. CASE scanline_pos - Done = HW - 1
    <3>1. vState' = "DONE" /\ scanline_pos' = Done' + HW
      BY <1>1, <1>2, <1>6, <2>1, <2>4, <2>5 DEF VgaRead
    <3> QED
      BY <1>2, <2>1, <3>1 DEF Position
  <2>6. CASE scanline_pos - Done # HW - 1
    <3>1. vState' = "READ_DATA" /\ scanline_pos' \in Done'..Done' + HW - 1
      BY <1>1, <1>2, <1>6, <2>1, <2>4, <2>6 DEF VgaRead
    <3> QED
      BY <1>2, <2>1, <3>1 DEF Position
  <2> QED
    BY <2>5, <2>6
<1>7. CASE VgaDone
  <2>1. vState = "DONE" /\ no_burst \in 1..LineBursts /\ no_burst' = no_burst - 1
    BY <1>1, <1>2, <1>7 DEF VgaDone, Position
  <2>2. Done' = Done + HW
    BY <1>1, <2>1, BurstsDone DEF Done
  <2> QED
    BY <1>1, <1>7, <2>1, <2>2 DEF VgaDone, Position
<1> QED
  BY <1>3, <1>4, <1>5, <1>6, <1>7 DEF Next, VgaClock, vars

\* A scan line is fetched whole, however the pixel clock's wishes fall, for every
\* burst length and every number of bursts (vga.v 194-252).
THEOREM LineFetchedWhole == Spec => []LineWhole
<1>1. Position => LineWhole
  BY DEF Position, Done, LineWhole
<1> QED
  BY <1>1, InitPosition, StepPosition, PTL DEF Spec

--------------------------------------------------------------------------------
(* One burst, clock by clock *)

\* The count is full when the data phase of a read begins.
CountLoaded == sState \in {"READ_COL", "READ_COLA"} => burst = BURST_LEN

\* The chip's own count against the delay and the count of the controller.
ChipCount ==
    /\ sState = "READ_COLA" => chip.n = delay + 1
    /\ sState = "READ_COLB" => chip.n = (HW + CAS_DELAY) - burst
    /\ sState = "WRITE_COL" /\ burst # BURST_LEN => chip.n = BURST_LEN - burst

\* A request stays latched until its row is opened, and its direction chose the
\* data states.
Direction ==
    /\ irwq => sState \in {"IDLE", "AUTO_REFRESH", "ROW_ACTIVE"}
    /\ sState \in {"READ_COL", "READ_COLA", "READ_COLB"} => ~irw
    /\ sState \in {"WRITE_COLB", "WRITE_COL"} => irw

BurstInv == FullInv /\ CountLoaded /\ ChipCount /\ Direction

\* Where a clock leads from each state.
LEMMA Moves ==
    ASSUME FullInv, Next
    PROVE  /\ sState = "IDLE" => sState' = IF irwq THEN "ROW_ACTIVE" ELSE "AUTO_REFRESH"
           /\ sState \in Closed \ {"IDLE"} => sState' \in Closed
           /\ sState = "AUTO_REFRESH" => sState' \in {"AUTO_REFRESH", "IDLE"}
           /\ sState = "ROW_ACTIVE" =>
                \/ sState' = "ROW_ACTIVE"
                \/ sState' = (IF irw THEN "WRITE_COLB" ELSE "READ_COL") /\ delay' = 0
           /\ sState = "READ_COL" => sState' = "READ_COLA" /\ delay' = 0
           /\ sState = "READ_COLA" =>
                IF delay = CAS_DELAY - 1 THEN sState' = "READ_COLB"
                ELSE sState' = "READ_COLA" /\ delay' = delay + 1
           /\ sState = "WRITE_COLB" =>
                IF delay = WRITE_DELAY THEN sState' = "WRITE_COL"
                ELSE sState' = "WRITE_COLB" /\ delay' = delay + 1
           /\ sState \in {"READ_COLB", "WRITE_COL"} =>
                sState' = IF burst = 0 THEN "BURST_TERM" ELSE sState
           /\ sState = "BURST_TERM" => sState' = "CLOSE_ROW"
           /\ sState = "CLOSE_ROW" => sState' = "DONE_RC"
<1>1. \/ delay = Table[sState].wait /\ sState' = nState /\ delay' = 0
      \/ delay # Table[sState].wait /\ sState' = sState /\ delay' = delay + 1
  BY DEF Next, SdramClock, Advance, Delay, dtarget
<1>2. delay \in Nat /\ delay <= Table[sState].wait /\ sState \in State
  BY DEF FullInv, IInv, SdramTypeOK, dtarget
<1>3. /\ Table["READ_COLA"].wait = CAS_DELAY - 1 /\ Table["WRITE_COLB"].wait = WRITE_DELAY
      /\ Table["IDLE"].next = "AUTO_REFRESH" /\ Table["AUTO_REFRESH"].next = "IDLE"
  BY DEF Table, Row
<1>4. \A s \in {"READ_COL", "READ_COLB", "WRITE_COL", "BURST_TERM", "CLOSE_ROW", "IDLE"} :
        sState = s => sState' = nState /\ delay' = 0
  BY <1>1, <1>2, NoWait
<1>5. /\ sState = "IDLE" => sState' = IF irwq THEN "ROW_ACTIVE" ELSE "AUTO_REFRESH"
      /\ sState = "READ_COL" => sState' = "READ_COLA" /\ delay' = 0
      /\ sState \in {"READ_COLB", "WRITE_COL"} =>
           sState' = IF burst = 0 THEN "BURST_TERM" ELSE sState
      /\ sState = "BURST_TERM" => sState' = "CLOSE_ROW"
      /\ sState = "CLOSE_ROW" => sState' = "DONE_RC"
  BY <1>3, <1>4, Successors DEF nState
<1>6. /\ sState \in Closed \ {"IDLE"} => sState' \in Closed
      /\ sState = "AUTO_REFRESH" => sState' \in {"AUTO_REFRESH", "IDLE"}
  BY <1>1, <1>3, Successors DEF nState, Closed
<1>7. sState = "ROW_ACTIVE" =>
        \/ sState' = "ROW_ACTIVE"
        \/ sState' = (IF irw THEN "WRITE_COLB" ELSE "READ_COL") /\ delay' = 0
  BY <1>1, Successors DEF nState
<1>8. /\ sState = "READ_COLA" =>
           IF delay = CAS_DELAY - 1 THEN sState' = "READ_COLB"
           ELSE sState' = "READ_COLA" /\ delay' = delay + 1
      /\ sState = "WRITE_COLB" =>
           IF delay = WRITE_DELAY THEN sState' = "WRITE_COL"
           ELSE sState' = "WRITE_COLB" /\ delay' = delay + 1
  BY <1>1, <1>3, Successors DEF nState
<1> QED
  BY <1>5, <1>6, <1>7, <1>8

\* The count goes down by one in every clock of the data states and is loaded
\* while the row is opened.
LEMMA Counts ==
    ASSUME FullInv, Next
    PROVE  /\ HW \in Nat /\ HW >= 2 /\ BURST_LEN = HW - 1 /\ burst \in 0..HW - 1
           /\ sState = "ROW_ACTIVE" => burst' = BURST_LEN
           /\ sState \in {"READ_COLB", "WRITE_COL"} /\ burst # 0 => burst' = burst - 1
           /\ sState \notin {"ROW_ACTIVE", "READ_COLB", "WRITE_COL"} => burst' = burst
<1>1. HW \in Nat /\ HW >= 2 /\ BURST_LEN = HW - 1 /\ burst \in 0..HW - 1
  BY SdramBurstAssumption DEF FullInv, IInv, SdramTypeOK, BURST_LEN
<1>2. burst # 0 => (burst + (HW - 1)) % HW = burst - 1
  BY <1>1
<1> QED
  BY <1>1, <1>2 DEF Next, SdramClock, CountDown

LEMMA InitBurst == Init => BurstInv
BY InitInv DEF Init, SdramInit, BurstInv, CountLoaded, ChipCount, Direction

LEMMA StepCounts ==
    ASSUME BurstInv, Next
    PROVE  CountLoaded' /\ ChipCount'
<1>1. FullInv /\ IInv /\ sState \in State
  BY DEF BurstInv, FullInv, IInv, SdramTypeOK
<1>2. /\ HW \in Nat /\ HW >= 2 /\ BURST_LEN = HW - 1 /\ BURST_LEN' = BURST_LEN
      /\ CAS_DELAY \in Nat /\ CAS_DELAY > 0
      /\ burst \in 0..HW - 1 /\ delay \in Nat
      /\ chip \in [row : Line \cup {NoLine}, op : {"none", "READ", "WRITE"}, n : Nat]
  BY <1>1, Counts, SdramBurstAssumption DEF IInv, SdramTypeOK, BURST_LEN
<1>3. Chip
  BY DEF Next, SdramClock
<1>4. CASE sState \in Closed \cup {"BURST_TERM", "CLOSE_ROW"}
  <2>1. sState' \in Closed \cup {"ROW_ACTIVE", "CLOSE_ROW"}
    BY <1>1, <1>4, Moves DEF Closed
  <2> QED
    BY <2>1 DEF CountLoaded, ChipCount, Closed
<1>5. CASE sState = "ROW_ACTIVE"
  <2>1. sState' \in {"ROW_ACTIVE", "READ_COL", "WRITE_COLB"} /\ burst' = BURST_LEN
    BY <1>1, <1>5, Moves, Counts
  <2> QED
    BY <1>2, <2>1 DEF CountLoaded, ChipCount
<1>6. CASE sState = "READ_COL"
  <2>1. sState' = "READ_COLA" /\ delay' = 0 /\ burst' = burst /\ burst = BURST_LEN
    BY <1>1, <1>6, Moves, Counts DEF BurstInv, CountLoaded
  <2>2. command = "READ"
    BY <1>1, <1>6, CommandWhen, Commands, NoWait DEF IInv, SdramTypeOK, dtarget, CommandFirst
  <2>3. chip'.n = 1
    BY <1>2, <1>3, <2>2 DEF Chip
  <2> QED
    BY <1>2, <2>1, <2>3 DEF CountLoaded, ChipCount
<1>7. CASE sState \in {"READ_COLA", "READ_COLB"}
  <2>1. command = "NOP"
    BY <1>1, <1>7, CommandWhen, Commands
  <2>2. chip'.n = chip.n + 1
    BY <1>1, <1>2, <1>3, <1>7, <2>1 DEF Chip, IInv, ChipFollows, RowOpen
  <2>3. CASE sState = "READ_COLA"
    <3>1. burst' = burst /\ burst = BURST_LEN /\ chip.n = delay + 1
      BY <1>1, <2>3, Counts DEF BurstInv, CountLoaded, ChipCount
    <3>2. IF delay = CAS_DELAY - 1 THEN sState' = "READ_COLB"
          ELSE sState' = "READ_COLA" /\ delay' = delay + 1
      BY <1>1, <2>3, Moves
    <3> QED
      BY <1>2, <2>2, <3>1, <3>2 DEF CountLoaded, ChipCount
  <2>4. CASE sState = "READ_COLB"
    <3>1. chip.n = (HW + CAS_DELAY) - burst
      BY <2>4 DEF BurstInv, ChipCount
    <3>2. sState' = IF burst = 0 THEN "BURST_TERM" ELSE "READ_COLB"
      BY <1>1, <2>4, Moves
    <3>3. burst # 0 => burst' = burst - 1
      BY <1>1, <2>4, Counts
    <3> QED
      BY <1>2, <2>2, <3>1, <3>2, <3>3 DEF CountLoaded, ChipCount
  <2> QED
    BY <1>7, <2>3, <2>4
<1>8. CASE sState = "WRITE_COLB"
  <2>1. sState' \in {"WRITE_COLB", "WRITE_COL"} /\ burst' = BURST_LEN
    BY <1>1, <1>8, Moves, Counts DEF IInv, CountFull
  <2> QED
    BY <1>2, <2>1 DEF CountLoaded, ChipCount
<1>9. CASE sState = "WRITE_COL"
  <2>1. sState' = IF burst = 0 THEN "BURST_TERM" ELSE "WRITE_COL"
    BY <1>1, <1>9, Moves
  <2>2. burst # 0 => burst' = burst - 1
    BY <1>1, <1>9, Counts
  <2>3. ~nop
    BY <1>1, <1>9, NoWait DEF IInv, SdramTypeOK, dtarget, CommandFirst
  <2>4. CASE burst = BURST_LEN
    <3>1. command = "WRITE"
      BY <1>1, <1>9, <2>3, <2>4, CommandWhen
    <3>2. chip'.n = 1
      BY <1>2, <1>3, <3>1 DEF Chip
    <3> QED
      BY <1>2, <2>1, <2>2, <2>4, <3>2 DEF CountLoaded, ChipCount
  <2>5. CASE burst # BURST_LEN
    <3>1. command = "NOP"
      BY <1>1, <1>9, <2>3, <2>5, CommandWhen, Commands
    <3>2. chip'.n = chip.n + 1 /\ chip.n = BURST_LEN - burst
      BY <1>1, <1>2, <1>3, <1>9, <2>5, <3>1
         DEF Chip, BurstInv, IInv, ChipFollows, RowOpen, ChipCount
    <3> QED
      BY <1>2, <2>1, <2>2, <3>2 DEF CountLoaded, ChipCount
  <2> QED
    BY <2>4, <2>5
<1> QED
  BY <1>1, <1>4, <1>5, <1>6, <1>7, <1>8, <1>9, States DEF Closed

LEMMA StepDirection ==
    ASSUME BurstInv, Next
    PROVE  Direction'
<1>1. FullInv /\ sState \in State /\ Direction
  BY DEF BurstInv, FullInv, IInv, SdramTypeOK
<1>2. LatchRequest(sd_rw_req, sd_rw, sd_address)
  BY DEF Next, SdramClock
<1>3. CASE sState = "IDLE"
  BY <1>1, <1>3, Moves DEF Direction
<1>4. CASE sState # "IDLE"
  <2>1. irwq' = (irwq /\ sState # "ROW_ACTIVE") /\ irw' = irw
    BY <1>2, <1>4 DEF LatchRequest
  <2>2. CASE sState \in Closed
    <3>1. sState' \in Closed
      BY <1>1, <1>4, <2>2, Moves
    <3>2. irwq' => sState' \in {"AUTO_REFRESH", "IDLE"}
      BY <1>1, <1>4, <2>1, Moves DEF Direction
    <3> QED
      BY <3>1, <3>2 DEF Direction, Closed
  <2>3. CASE sState \notin Closed
    <3>1. ~irwq'
      BY <1>1, <2>1, <2>3 DEF Direction, Closed
    <3>2. /\ sState' \in {"READ_COL", "READ_COLA", "READ_COLB"} => ~irw
          /\ sState' \in {"WRITE_COLB", "WRITE_COL"} => irw
      BY <1>1, <2>3, Moves, States DEF Direction, Closed
    <3> QED
      BY <2>1, <3>1, <3>2 DEF Direction
  <2> QED
    BY <2>2, <2>3
<1> QED
  BY <1>3, <1>4

LEMMA StepBurst == BurstInv /\ [Next]_vars => BurstInv'
<1> SUFFICES ASSUME BurstInv, [Next]_vars PROVE BurstInv'
  OBVIOUS
<1>1. FullInv'
  BY StepInv DEF BurstInv
<1>2. CASE Next
  BY <1>1, <1>2, StepCounts, StepDirection DEF BurstInv
<1>3. CASE UNCHANGED vars
  BY <1>1, <1>3 DEF vars, sdVars, BurstInv, CountLoaded, ChipCount, Direction
<1> QED
  BY <1>2, <1>3

--------------------------------------------------------------------------------
(* The burst as its user sees it.  The beats are those MemCache counts only *)
(* when the delays are those of the code: both kinds of burst then have two *)
(* beats before the first half-word.                                        *)

CodeTiming == CAS_DELAY = 2 /\ WRITE_DELAY = 1 /\ HW >= 4

\* Neither a request nor a burst is under way.
Resting == ~Opening /\ ~data_bursting /\ sState # "BURST_TERM"

LEMMA Beats ==
    ASSUME BurstInv, CodeTiming, data_bursting
    PROVE  /\ ~Opening /\ sState # "BURST_TERM" /\ sState # "CLOSE_ROW" /\ sState # "IDLE"
           /\ beat \in 0..HW + 1
           /\ sState \in {"READ_COLA", "WRITE_COLB"} => beat = delay /\ delay \in 0..1
           /\ sState \in {"READ_COLB", "WRITE_COL"} => beat = (HW + 1) - burst
           /\ burst \in 0..HW - 1 /\ BURST_LEN = HW - 1
<1>1. HW \in Nat /\ HW >= 4 /\ BURST_LEN = HW - 1 /\ burst \in 0..HW - 1 /\ delay \in Nat
  BY SdramBurstAssumption DEF BurstInv, FullInv, IInv, SdramTypeOK, BURST_LEN, CodeTiming
<1>2. sState \in {"READ_COLA", "WRITE_COLB"} => beat = delay /\ delay \in 0..1
  <2>1. Table["READ_COLA"].wait = CAS_DELAY - 1 /\ Table["WRITE_COLB"].wait = WRITE_DELAY
    BY DEF Table, Row
  <2> QED
    BY <1>1, <2>1 DEF beat, BurstInv, FullInv, IInv, SdramTypeOK, dtarget, CodeTiming
<1>3. sState \in {"READ_COLB", "WRITE_COL"} => beat = (HW + 1) - burst
  BY <1>1 DEF beat
<1>4. sState \in {"READ_COLA", "WRITE_COLB", "READ_COLB", "WRITE_COL"}
  BY DEF data_bursting
<1>5. ~Opening
  BY <1>4 DEF BurstInv, Direction, Opening
<1> QED
  BY <1>1, <1>2, <1>3, <1>4, <1>5

\* What a clock does to the burst: a resting controller latches what it is shown, in
\* an IDLE clock, and holds it; the beats follow each other without a gap.
LEMMA Phases ==
    ASSUME BurstInv, CodeTiming, Next
    PROVE  /\ Resting =>
                \/ /\ sd_rw_req /\ sState = "IDLE" /\ Opening'
                   /\ mem_address' = sd_address /\ irw' = sd_rw
                \/ Resting' /\ sState' # "CLOSE_ROW"
           /\ Opening =>
                /\ \/ Opening'
                   \/ data_bursting' /\ beat' = 0
                /\ \/ mem_address' = mem_address /\ irw' = irw
                   \/ mem_address' = sd_address /\ irw' = sd_rw
           /\ data_bursting =>
                /\ mem_address' = mem_address /\ irw' = irw
                /\ IF beat = HW + 1 THEN sState' = "BURST_TERM"
                   ELSE data_bursting' /\ beat' = beat + 1
           /\ sState = "BURST_TERM" =>
                /\ mem_address' = mem_address /\ irw' = irw
                /\ Resting' /\ sState' = "CLOSE_ROW"
<1> USE DEF BurstInv
<1>1. FullInv /\ IInv /\ sState \in State /\ Direction /\ irwq \in BOOLEAN
  BY DEF FullInv, IInv, SdramTypeOK
<1>2. LatchRequest(sd_rw_req, sd_rw, sd_address)
  BY DEF Next, SdramClock
<1>3. HW \in Nat /\ HW >= 4 /\ BURST_LEN = HW - 1 /\ delay \in Nat
  BY SdramBurstAssumption DEF FullInv, IInv, SdramTypeOK, BURST_LEN, CodeTiming
<1>4. BurstInv'
  BY StepBurst
<1>5. CASE sState = "IDLE" /\ sd_rw_req
  <2>1. irwq' /\ mem_address' = sd_address /\ irw' = sd_rw
    BY <1>2, <1>5 DEF LatchRequest
  <2> QED
    BY <1>5, <2>1 DEF Opening, data_bursting
<1>6. ~(sState = "IDLE" /\ sd_rw_req) =>
        irwq' = (irwq /\ sState # "ROW_ACTIVE") /\ mem_address' = mem_address /\ irw' = irw
  BY <1>2 DEF LatchRequest
<1>7. CASE sState \in Closed /\ ~(sState = "IDLE" /\ sd_rw_req)
  <2>1. ~data_bursting /\ sState # "BURST_TERM" /\ (Opening <=> irwq)
    BY <1>7 DEF data_bursting, Opening, Closed
  <2>2. irwq' = irwq /\ mem_address' = mem_address /\ irw' = irw
    BY <1>1, <1>6, <1>7 DEF Closed
  <2>3. ~irwq => sState' \in Closed
    BY <1>1, <1>7, Moves DEF Closed
  <2>4. ~irwq => Resting' /\ sState' # "CLOSE_ROW"
    BY <2>2, <2>3 DEF Resting, Opening, data_bursting, Closed
  <2>5. irwq => Opening'
    BY <2>2 DEF Opening
  <2> QED
    BY <2>1, <2>2, <2>4, <2>5 DEF Resting
<1>8. CASE sState \in {"ROW_ACTIVE", "READ_COL"}
  <2>1. Opening /\ ~data_bursting /\ sState # "BURST_TERM" /\ mem_address' = mem_address
        /\ irw' = irw
    BY <1>6, <1>8 DEF Opening, data_bursting
  <2>2. \/ sState' \in {"ROW_ACTIVE", "READ_COL"}
        \/ sState' \in {"READ_COLA", "WRITE_COLB"} /\ delay' = 0
    BY <1>1, <1>8, Moves
  <2>3. Opening' \/ (data_bursting' /\ beat' = 0)
    BY <2>2 DEF Opening, data_bursting, beat
  <2> QED
    BY <2>1, <2>3 DEF Resting
<1>9. CASE data_bursting
  <2>1. /\ sState # "IDLE" /\ ~Opening /\ sState # "BURST_TERM" /\ beat \in 0..HW + 1
        /\ burst \in 0..HW - 1
    BY <1>9, Beats
  <2>2. mem_address' = mem_address /\ irw' = irw
    BY <1>6, <2>1
  <2>3. IF beat = HW + 1 THEN sState' = "BURST_TERM" ELSE data_bursting' /\ beat' = beat + 1
    <3>1. CASE sState \in {"READ_COLA", "WRITE_COLB"}
      <4>1. beat = delay /\ delay \in 0..1
        BY <1>9, <3>1, Beats
      <4>2. CASE delay = 0
        <5>1. sState' = sState /\ delay' = 1
          BY <1>1, <3>1, <4>2, Moves DEF CodeTiming
        <5> QED
          BY <1>3, <3>1, <4>1, <4>2, <5>1 DEF beat, data_bursting
      <4>3. CASE delay = 1
        <5>1. sState' \in {"READ_COLB", "WRITE_COL"}
          BY <1>1, <3>1, <4>3, Moves DEF CodeTiming
        <5>2. burst' = BURST_LEN
          BY <1>1, <3>1, Counts DEF IInv, CountFull, CountLoaded
        <5>3. beat' = 2
          BY <1>3, <5>1, <5>2 DEF beat, BURST_LEN
        <5> QED
          BY <1>3, <4>1, <4>3, <5>1, <5>3 DEF data_bursting
      <4> QED
        BY <4>1, <4>2, <4>3
    <3>2. CASE sState \in {"READ_COLB", "WRITE_COL"}
      <4>1. beat = (HW + 1) - burst
        BY <1>9, <3>2, Beats
      <4>2. CASE burst = 0
        BY <1>1, <1>3, <3>2, <4>1, <4>2, Moves
      <4>3. CASE burst # 0
        <5>1. sState' = sState /\ burst' = burst - 1
          BY <1>1, <3>2, <4>3, Moves, Counts
        <5>2. data_bursting'
          BY <3>2, <5>1 DEF data_bursting
        <5>3. beat' = (HW + 1) - (burst - 1)
          BY <1>3, <2>1, <3>2, <5>1 DEF beat, BURST_LEN
        <5> QED
          BY <1>3, <2>1, <4>1, <4>3, <5>2, <5>3
      <4> QED
        BY <4>2, <4>3
    <3> QED
      BY <1>9, <3>1, <3>2 DEF data_bursting
  <2> QED
    BY <1>9, <2>1, <2>2, <2>3 DEF Resting
<1>10. CASE sState \in {"BURST_TERM", "CLOSE_ROW"}
  <2>1. ~irwq /\ ~Opening /\ ~data_bursting /\ mem_address' = mem_address /\ irw' = irw
        /\ ~irwq'
    BY <1>1, <1>6, <1>10 DEF Direction, Opening, data_bursting
  <2>2. sState' = IF sState = "BURST_TERM" THEN "CLOSE_ROW" ELSE "DONE_RC"
    BY <1>1, <1>10, Moves
  <2>3. Resting'
    BY <2>1, <2>2 DEF Resting, Opening, data_bursting
  <2>4. sState = "BURST_TERM" => ~Resting
    BY DEF Resting
  <2> QED
    BY <1>10, <2>1, <2>2, <2>3, <2>4
<1> QED
  BY <1>1, <1>5, <1>7, <1>8, <1>9, <1>10, States DEF Closed, data_bursting

--------------------------------------------------------------------------------
(* Whose burst it is *)

\* The owner of the SDRAM waits for its burst.
Asked ==
    /\ sd_rw_req
    /\ IF ram_arb THEN sd_rw_req_mmu /\ a_count = 2 * HW - 1 ELSE vState = "REQUEST_LINE"

\* On each beat of its burst the cache, and the line fetcher, are at that beat.
CacheBeat ==
    IF beat = HW + 1 /\ ~irw THEN mState = "UPDATE_CL"
    ELSE /\ mState = IF irw THEN "STORE_PAGE" ELSE "LOAD_PAGE"
         /\ a_count = IF beat = 0 THEN 2 * HW - 1 ELSE beat - 1

VideoBeat ==
    /\ ~irw
    /\ beat = 0 => vState = "REQUEST_LINE"
    /\ beat \in 1..HW => vState = "READ_DATA" /\ scanline_pos % HW = beat - 1
    /\ beat = HW + 1 => vState = "DONE"

\* A write back takes its request away one clock after the burst was closed.
Stored == sState = "CLOSE_ROW" /\ irw

\* From the latch to the last beat the request is the owner's, and unchanged.
Owner ==
    /\ Opening => Asked /\ mem_address = sd_address /\ irw = sd_rw
    /\ data_bursting =>
         /\ sd_rw_req /\ mem_address = sd_address
         /\ IF ram_arb THEN CacheBeat ELSE VideoBeat
    /\ sState = "BURST_TERM" =>
         IF irw THEN ram_arb /\ sd_rw_req /\ mState = "STORE_PAGE" /\ a_count = HW + 1
         ELSE ~sd_rw_req
    /\ Stored => ram_arb /\ sd_rw_req /\ mState = "LOAD_PREP"
    /\ Resting /\ ~Stored /\ sd_rw_req => Asked

\* Who has no burst has not counted any beat of one.
Waiting ==
    /\ sd_rw_req_mmu /\ ~sd_bursting_mmu /\ ~(sState = "BURST_TERM" /\ irw)
         => a_count = 2 * HW - 1
    /\ vState = "READ_DATA" => sd_bursting_v

OwnerInv == BurstInv /\ Position /\ Owner /\ Waiting

LEMMA LengthType ==
    ASSUME CodeTiming
    PROVE  HW \in Nat /\ HW >= 4 /\ PAGE_SIZE = HW - 1 /\ READ_DELAY = 2 /\ BURST_LEN = HW - 1
BY SdramBurstAssumption DEF CodeTiming, PAGE_SIZE, READ_DELAY, BURST_LEN

\* Without a burst the owner goes on asking for the same one.
LEMMA AskedStays ==
    ASSUME CodeTiming, Asked, ~data_bursting, Next
    PROVE  Asked' /\ ram_arb' = ram_arb /\ sd_address' = sd_address /\ sd_rw' = sd_rw
<1>1. ram_arb' = ram_arb /\ sd_rw_req' = IF ram_arb THEN sd_rw_req_mmu ELSE sd_rw_req_v
  BY DEF Next, ArbClock, Grant, Follow, Asked
<1>2. CASE ram_arb
  <2>1. a_count = 2 * HW - 1 /\ mState \in {"STORE_PAGE", "LOAD_PAGE"} /\ ~sd_bursting_mmu
    BY <1>2 DEF Asked, sd_rw_req_mmu, sd_bursting_mmu
  <2>2. mState' = mState /\ a_count' = a_count /\ UNCHANGED <<old_line, new_line>>
    BY <2>1, LengthType DEF Next, CacheClock, CacheMiss, CacheHit, CacheStore, CachePrep,
                            CacheLoad, CacheUpdate, CountBeats
  <2> QED
    BY <1>1, <1>2, <2>1, <2>2 DEF Asked, sd_rw_req_mmu, sd_address, sd_address_mmu, sd_rw,
                                  sd_rw_mmu
<1>3. CASE ~ram_arb
  <2>1. vState = "REQUEST_LINE" /\ ~sd_bursting_v
    BY <1>3 DEF Asked, sd_bursting_v
  <2>2. vState' = vState /\ frame_pos' = frame_pos
    BY <2>1 DEF Next, VgaClock, VgaIdle, VgaRequest, VgaRead, VgaDone
  <2> QED
    BY <1>1, <1>3, <2>1, <2>2 DEF Asked, sd_rw_req_v, sd_address, sd_rw
<1> QED
  BY <1>2, <1>3

\* A grant goes to a user that has not counted a beat.
LEMMA Granted ==
    ASSUME CodeTiming, Waiting, ~sd_rw_req, ~data_bursting,
           ~(sState = "BURST_TERM" /\ irw), Next
    PROVE  sd_rw_req' => Asked'
<1>1. SUFFICES ASSUME sd_rw_req' PROVE Asked'
  OBVIOUS
<1>2. ~sd_bursting_mmu /\ ~sd_bursting_v
  BY DEF sd_bursting_mmu, sd_bursting_v
<1>3. \/ sd_rw_req_v /\ ~ram_arb'
      \/ sd_rw_req_mmu /\ ram_arb'
  BY <1>1 DEF Next, ArbClock, Grant, Follow, arbVars
<1>4. CASE sd_rw_req_v /\ ~ram_arb'
  <2>1. vState = "REQUEST_LINE"
    BY <1>2, <1>4 DEF sd_rw_req_v, Waiting
  <2>2. vState' = "REQUEST_LINE"
    BY <1>2, <2>1 DEF Next, VgaClock, VgaIdle, VgaRequest, VgaRead, VgaDone
  <2> QED
    BY <1>1, <1>4, <2>2 DEF Asked
<1>5. CASE sd_rw_req_mmu /\ ram_arb'
  <2>1. a_count = 2 * HW - 1 /\ mState \in {"STORE_PAGE", "LOAD_PAGE"}
    BY <1>2, <1>5 DEF Waiting, sd_rw_req_mmu
  <2>2. mState' = mState /\ a_count' = a_count
    BY <1>2, <2>1, LengthType DEF Next, CacheClock, CacheMiss, CacheHit, CacheStore, CachePrep,
                                  CacheLoad, CacheUpdate, CountBeats
  <2> QED
    BY <1>1, <1>5, <2>1, <2>2 DEF Asked, sd_rw_req_mmu
<1> QED
  BY <1>3, <1>4, <1>5

\* A beat moves the cache to the next one.
LEMMA CacheOnBeat ==
    ASSUME CodeTiming, ram_arb, data_bursting, beat \in 0..HW + 1, CacheBeat, Next
    PROVE  /\ IF irw THEN /\ mState = "STORE_PAGE" /\ mState' = "STORE_PAGE"
                          /\ a_count' = beat
              ELSE beat <= HW =>
                     /\ mState = "LOAD_PAGE"
                     /\ mState' = IF beat = HW THEN "UPDATE_CL" ELSE "LOAD_PAGE"
                     /\ a_count' = beat
           /\ mState # "IDLE" /\ old_line' = old_line /\ new_line' = new_line
<1>1. HW \in Nat /\ HW >= 4 /\ PAGE_SIZE = HW - 1 /\ READ_DELAY = 2 /\ sd_bursting_mmu
  BY LengthType DEF sd_bursting_mmu
<1>2. CASE beat = HW + 1 /\ ~irw
  <2>1. mState = "UPDATE_CL"
    BY <1>2 DEF CacheBeat
  <2>2. old_line' = old_line /\ new_line' = new_line
    BY <2>1 DEF Next, CacheClock, CacheMiss, CacheHit, CacheStore, CachePrep, CacheLoad,
                CacheUpdate, CountBeats
  <2> QED
    BY <1>1, <1>2, <2>1, <2>2
<1>3. CASE ~(beat = HW + 1 /\ ~irw)
  <2>1. /\ mState = IF irw THEN "STORE_PAGE" ELSE "LOAD_PAGE"
        /\ a_count = IF beat = 0 THEN 2 * HW - 1 ELSE beat - 1
    BY <1>3 DEF CacheBeat
  <2>2. (a_count + 1) % (2 * HW) = beat
    <3>1. CASE beat = 0
      <4>1. (0 + 1 * (2 * HW)) % (2 * HW) = 0
        BY <1>1
      <4> QED
        BY <1>1, <2>1, <3>1, <4>1
    <3>2. CASE beat # 0
      <4>1. beat \in Nat /\ beat < 2 * HW /\ a_count + 1 = beat
        BY <1>1, <2>1, <3>2
      <4> QED
        BY <1>1, <4>1
    <3> QED
      BY <3>1, <3>2
  <2>3. CASE irw
    <3>1. CacheStore
      BY <2>1, <2>3 DEF Next, CacheClock, CacheMiss, CacheHit, CacheStore, CachePrep,
                        CacheLoad, CacheUpdate
    <3>2. a_count # HW + 1
      BY <1>1, <2>1
    <3> QED
      BY <1>1, <2>1, <2>2, <2>3, <3>1, <3>2 DEF CacheStore, CountBeats
  <2>4. CASE ~irw
    <3>1. CacheLoad
      BY <2>1, <2>4 DEF Next, CacheClock, CacheMiss, CacheHit, CacheStore, CachePrep,
                        CacheLoad, CacheUpdate
    <3>2. a_count = HW - 1 <=> beat = HW
      BY <1>1, <2>1
    <3> QED
      BY <1>1, <2>1, <2>2, <2>4, <3>1, <3>2 DEF CacheLoad, CountBeats
  <2> QED
    BY <2>3, <2>4
<1> QED
  BY <1>2, <1>3

\* And the line fetcher.
LEMMA VideoOnBeat ==
    ASSUME CodeTiming, ~ram_arb, data_bursting, beat \in 0..HW + 1, VideoBeat, Position, Next
    PROVE  /\ beat < HW => vState' = "READ_DATA" /\ scanline_pos' % HW = beat
           /\ beat = HW => vState' = "DONE"
           /\ beat = HW + 1 => vState' = "IDLE"
           /\ beat <= HW => sd_rw_req_v /\ frame_pos' = frame_pos
           /\ beat = HW + 1 => ~sd_rw_req_v
<1>1. HW \in Nat /\ HW >= 4 /\ BURST_LEN = HW - 1 /\ sd_bursting_v
  BY LengthType DEF sd_bursting_v
<1>2. LineBursts \in Nat /\ no_burst \in 0..LineBursts
  BY SdramArbAssumption DEF Position
<1>3. PICK k \in Nat : k = LineBursts - no_burst
  BY <1>2
<1>4. Done = k * HW /\ Done \in Nat
  BY <1>1, <1>3 DEF Done
<1>5. CASE beat = 0
  <2>1. vState = "REQUEST_LINE" /\ scanline_pos = Done
    BY <1>5 DEF VideoBeat, Position
  <2>2. vState' = "READ_DATA" /\ scanline_pos' = scanline_pos /\ frame_pos' = frame_pos
    BY <1>1, <2>1 DEF Next, VgaClock, VgaIdle, VgaRequest, VgaRead, VgaDone
  <2>3. (k * HW + 0) % HW = 0
    BY <1>1, InLine
  <2>4. scanline_pos' % HW = 0
    BY <1>1, <1>3, <1>4, <2>1, <2>2, <2>3
  <2> QED
    BY <1>1, <1>5, <2>1, <2>2, <2>4 DEF sd_rw_req_v
<1>6. CASE beat \in 1..HW
  <2>1. vState = "READ_DATA" /\ scanline_pos % HW = beat - 1 /\ scanline_pos \in Nat
    BY <1>1, <1>4, <1>6 DEF VideoBeat, Position
  <2>2. /\ vState' = IF scanline_pos % HW = BURST_LEN THEN "DONE" ELSE "READ_DATA"
        /\ scanline_pos' = scanline_pos + 1 /\ frame_pos' = frame_pos
    BY <2>1 DEF Next, VgaClock, VgaIdle, VgaRequest, VgaRead, VgaDone
  <2>3. beat # HW => (scanline_pos + 1) % HW = (scanline_pos % HW) + 1
    <3>1. SUFFICES ASSUME beat # HW PROVE (scanline_pos + 1) % HW = (scanline_pos % HW) + 1
      OBVIOUS
    <3>2. HW > 0 /\ scanline_pos \in Nat /\ scanline_pos % HW # HW - 1
      BY <1>1, <1>6, <2>1, <3>1
    <3> QED
      BY <1>1, <3>2, NextInLine
  <2>4. beat \in Nat /\ beat # HW + 1 /\ beat # 0 /\ (beat # HW => beat - 1 # HW - 1)
    BY <1>1, <1>6
  <2> QED
    BY <1>1, <1>6, <2>1, <2>2, <2>3, <2>4 DEF sd_rw_req_v
<1>7. CASE beat = HW + 1
  <2>1. vState = "DONE"
    BY <1>7 DEF VideoBeat
  <2>2. vState' = "IDLE" /\ ~sd_rw_req_v
    BY <2>1 DEF Next, VgaClock, VgaIdle, VgaRequest, VgaRead, VgaDone, sd_rw_req_v
  <2>3. ~(beat <= HW) /\ ~(beat < HW) /\ beat # HW
    BY <1>1, <1>7
  <2> QED
    BY <1>7, <2>2, <2>3
<1> QED
  BY <1>1, <1>5, <1>6, <1>7

\* A state is in one phase only.
LEMMA OnePhase ==
    BurstInv =>
        /\ Opening => ~data_bursting /\ sState # "BURST_TERM" /\ ~Stored
        /\ data_bursting => ~Opening /\ sState # "BURST_TERM" /\ ~Stored
BY DEF BurstInv, Direction, Opening, data_bursting, Stored

LEMMA BeatType == BurstInv /\ CodeTiming /\ data_bursting => beat \in 0..HW + 1
BY Beats

LEMMA OwnerStep ==
    ASSUME CodeTiming, OwnerInv, Next
    PROVE  Owner'
<1>1. /\ BurstInv /\ Position /\ Owner /\ Waiting /\ BurstInv'
      /\ HW \in Nat /\ HW >= 4
  BY StepBurst, LengthType DEF OwnerInv
<1>2. /\ Opening' => ~data_bursting' /\ sState' # "BURST_TERM" /\ ~Stored'
      /\ data_bursting' => ~Opening' /\ sState' # "BURST_TERM" /\ ~Stored'
  <2>1. (BurstInv =>
           /\ Opening => ~data_bursting /\ sState # "BURST_TERM" /\ ~Stored
           /\ data_bursting => ~Opening /\ sState # "BURST_TERM" /\ ~Stored)'
    BY OnePhase, PTL
  <2> QED
    BY <1>1, <2>1
<1>3. data_bursting \/ sd_rw_req =>
        ram_arb' = ram_arb /\ sd_rw_req' = IF ram_arb THEN sd_rw_req_mmu ELSE sd_rw_req_v
  BY DEF Next, ArbClock, Grant, Follow
<1>4. CASE Resting
  <2>1. CASE Stored
    <3>1. Resting' /\ ~Stored'
      BY <1>1, <1>4, <2>1, Phases DEF Stored
    <3>2. ~sd_rw_req'
      BY <1>1, <1>3, <2>1 DEF Owner, sd_rw_req_mmu
    <3> QED
      BY <3>1, <3>2 DEF Owner, Resting
  <2>2. CASE ~Stored /\ sd_rw_req /\ Opening' /\ mem_address' = sd_address /\ irw' = sd_rw
    <3>1. Asked' /\ sd_address' = sd_address /\ sd_rw' = sd_rw
      BY <1>1, <1>4, <2>2, AskedStays DEF Owner, Resting
    <3> QED
      BY <1>2, <2>2, <3>1 DEF Owner, Resting
  <2>3. CASE ~Stored /\ Resting' /\ sState' # "CLOSE_ROW"
    <3>1. sd_rw_req' => Asked'
      <4>1. CASE sd_rw_req
        BY <1>1, <1>4, <2>3, <4>1, AskedStays DEF Owner, Resting
      <4>2. CASE ~sd_rw_req
        BY <1>1, <1>4, <4>2, Granted DEF Resting
      <4> QED
        BY <4>1, <4>2
    <3> QED
      BY <2>3, <3>1 DEF Owner, Resting, Stored
  <2> QED
    BY <1>1, <1>4, <2>1, <2>2, <2>3, Phases
<1>5. CASE Opening
  <2>1. Asked /\ mem_address = sd_address /\ irw = sd_rw /\ ~data_bursting
    BY <1>1, <1>5, OnePhase DEF Owner
  <2>2. Asked' /\ ram_arb' = ram_arb /\ sd_address' = sd_address /\ sd_rw' = sd_rw
    BY <2>1, AskedStays
  <2>3. mem_address' = sd_address' /\ irw' = sd_rw'
    BY <1>1, <1>5, <2>1, <2>2, Phases
  <2>4. CASE Opening'
    BY <1>2, <2>2, <2>3, <2>4 DEF Owner, Resting
  <2>5. CASE data_bursting' /\ beat' = 0
    <3>1. ASSUME ram_arb' PROVE CacheBeat'
      <4>1. sd_rw_req_mmu' /\ a_count' = 2 * HW - 1
        BY <2>2, <3>1 DEF Asked
      <4>2. /\ irw' => mState' = "STORE_PAGE"
            /\ ~irw' => mState' # "STORE_PAGE"
        BY <2>3, <3>1 DEF sd_rw, sd_rw_mmu
      <4>3. mState' = IF irw' THEN "STORE_PAGE" ELSE "LOAD_PAGE"
        BY <4>1, <4>2 DEF sd_rw_req_mmu
      <4>4. beat' = 0 /\ 0 # HW + 1
        BY <1>1, <2>5
      <4> QED
        BY <4>1, <4>3, <4>4 DEF CacheBeat
    <3>2. ASSUME ~ram_arb' PROVE VideoBeat'
      <4>1. vState' = "REQUEST_LINE" /\ ~irw'
        BY <2>2, <2>3, <3>2 DEF Asked, sd_rw
      <4> QED
        BY <1>1, <2>5, <4>1 DEF VideoBeat
    <3>3. IF ram_arb' THEN CacheBeat' ELSE VideoBeat'
      BY <3>1, <3>2
    <3>4. sd_rw_req'
      BY <2>2 DEF Asked
    <3> QED
      BY <1>2, <2>3, <2>5, <3>3, <3>4 DEF Owner, Resting
  <2> QED
    BY <1>1, <1>5, <2>4, <2>5, Phases
<1>6. CASE data_bursting
  <2>1. /\ sd_rw_req /\ mem_address = sd_address /\ beat \in 0..HW + 1
        /\ IF ram_arb THEN CacheBeat ELSE VideoBeat
        /\ ram_arb' = ram_arb /\ sd_rw_req' = IF ram_arb THEN sd_rw_req_mmu ELSE sd_rw_req_v
        /\ mem_address' = mem_address /\ irw' = irw
    BY <1>1, <1>3, <1>6, BeatType, Phases DEF Owner
  <2>2. CASE beat = HW + 1
    <3>1. sState' = "BURST_TERM" /\ ~(beat <= HW) /\ beat # 0
      BY <1>1, <1>6, <2>2, Phases
    <3>2. CASE ram_arb /\ irw
      <4>1. mState = "STORE_PAGE" /\ mState' = "STORE_PAGE" /\ a_count' = HW + 1
        BY <1>6, <2>1, <2>2, <3>2, CacheOnBeat
      <4> QED
        BY <1>1, <2>1, <3>1, <3>2, <4>1
           DEF Owner, Resting, Stored, Opening, data_bursting, sd_rw_req_mmu, BurstInv,
               Direction
    <3>3. CASE ~(ram_arb /\ irw)
      <4>1. ~irw /\ ~sd_rw_req'
        <5>1. ram_arb => mState = "UPDATE_CL"
          BY <2>1, <2>2, <3>3 DEF CacheBeat
        <5>2. ~ram_arb => ~irw /\ ~sd_rw_req_v
          BY <1>1, <1>6, <2>1, <2>2, VideoOnBeat DEF VideoBeat
        <5> QED
          BY <2>1, <3>3, <5>1, <5>2 DEF sd_rw_req_mmu
      <4> QED
        BY <1>1, <2>1, <3>1, <4>1 DEF Owner, Resting, Stored, Opening, data_bursting,
                                      BurstInv, Direction
    <3> QED
      BY <3>2, <3>3
  <2>3. CASE beat # HW + 1
    <3>1. data_bursting' /\ beat' = beat + 1 /\ beat \in 0..HW /\ beat <= HW
      BY <1>1, <1>6, <2>1, <2>3, Phases
    <3>2. CASE ram_arb
      <4>1. CASE irw
        <5>1. mState = "STORE_PAGE" /\ mState' = "STORE_PAGE" /\ a_count' = beat
              /\ old_line' = old_line
          BY <1>6, <2>1, <3>2, <4>1, CacheOnBeat
        <5>2. sd_rw_req' /\ mem_address' = sd_address' /\ ram_arb' /\ irw'
          BY <2>1, <3>2, <4>1, <5>1 DEF sd_rw_req_mmu, sd_address, sd_address_mmu
        <5>3. beat' # 0 /\ beat' - 1 = beat
          BY <1>1, <3>1
        <5>4. CacheBeat'
          BY <5>1, <5>2, <5>3 DEF CacheBeat
        <5> QED
          BY <1>2, <3>1, <5>2, <5>4 DEF Owner, Resting
      <4>2. CASE ~irw
        <5>1. mState = "LOAD_PAGE" /\ a_count' = beat /\ new_line' = new_line
              /\ mState' = IF beat = HW THEN "UPDATE_CL" ELSE "LOAD_PAGE"
          BY <1>6, <2>1, <3>1, <3>2, <4>2, CacheOnBeat
        <5>2. sd_rw_req' /\ mem_address' = sd_address' /\ ram_arb' /\ ~irw'
          BY <2>1, <3>2, <4>2, <5>1 DEF sd_rw_req_mmu, sd_address, sd_address_mmu
        <5>3. beat' # 0 /\ beat' - 1 = beat /\ (beat' = HW + 1 <=> beat = HW)
          BY <1>1, <3>1
        <5>4. CacheBeat'
          BY <5>1, <5>2, <5>3 DEF CacheBeat
        <5> QED
          BY <1>2, <3>1, <5>2, <5>4 DEF Owner, Resting
      <4> QED
        BY <4>1, <4>2
    <3>3. CASE ~ram_arb
      <4>1. /\ beat < HW => vState' = "READ_DATA" /\ scanline_pos' % HW = beat
            /\ beat = HW => vState' = "DONE"
            /\ sd_rw_req_v /\ frame_pos' = frame_pos
        BY <1>1, <1>6, <2>1, <3>1, <3>3, VideoOnBeat
      <4>2. VideoBeat'
        BY <1>1, <2>1, <3>1, <3>3, <4>1 DEF VideoBeat
      <4>3. sd_rw_req' /\ mem_address' = sd_address'
        BY <2>1, <3>3, <4>1 DEF sd_address
      <4> QED
        BY <1>2, <2>1, <3>1, <3>3, <4>2, <4>3 DEF Owner, Resting
    <3> QED
      BY <3>2, <3>3
  <2> QED
    BY <2>2, <2>3
<1>7. CASE sState = "BURST_TERM"
  <2>1. irw' = irw /\ Resting' /\ sState' = "CLOSE_ROW" /\ ~data_bursting
    BY <1>1, <1>7, Phases DEF data_bursting
  <2>2. CASE irw
    <3>1. ram_arb /\ sd_rw_req /\ mState = "STORE_PAGE" /\ a_count = HW + 1
      BY <1>1, <1>7, <2>2 DEF Owner
    <3>2. mState' = "LOAD_PREP"
      BY <1>1, <3>1, LengthType DEF Next, CacheClock, CacheMiss, CacheHit, CacheStore,
                                    CachePrep, CacheLoad, CacheUpdate
    <3>3. ram_arb' /\ sd_rw_req'
      <4>1. ram_arb' = ram_arb /\ sd_rw_req' = sd_rw_req_mmu
        BY <1>3, <3>1
      <4>2. sd_rw_req_mmu
        BY <3>1 DEF sd_rw_req_mmu
      <4> QED
        BY <3>1, <4>1, <4>2
    <3>4. Stored' /\ ~Opening' /\ ~data_bursting' /\ sState' # "BURST_TERM"
      <4>1. irw'
        BY <2>1, <2>2
      <4> QED
        BY <2>1, <4>1 DEF Stored, Resting
    <3> QED
      BY <3>2, <3>3, <3>4 DEF Owner
  <2>3. CASE ~irw
    <3>1. sd_rw_req' => Asked'
      BY <1>1, <1>7, <2>1, <2>3, Granted DEF Owner
    <3> QED
      BY <2>1, <2>3, <3>1 DEF Owner, Resting, Stored
  <2> QED
    BY <2>2, <2>3
<1> QED
  BY <1>4, <1>5, <1>6, <1>7 DEF Resting

LEMMA WaitingStep ==
    ASSUME CodeTiming, OwnerInv, Next
    PROVE  Waiting'
<1>1. /\ BurstInv /\ Position /\ Owner /\ Waiting /\ HW \in Nat /\ HW >= 4
      /\ PAGE_SIZE = HW - 1 /\ READ_DELAY = 2
  BY LengthType DEF OwnerInv
<1>2. data_bursting =>
        /\ beat \in 0..HW + 1 /\ ram_arb' = ram_arb /\ irw' = irw
        /\ IF ram_arb THEN CacheBeat ELSE VideoBeat
        /\ IF beat = HW + 1 THEN sState' = "BURST_TERM" ELSE data_bursting'
  BY <1>1, BeatType, Phases DEF Owner, Next, ArbClock, Grant, Follow
<1>3. ASSUME sd_rw_req_mmu', ~sd_bursting_mmu', ~(sState' = "BURST_TERM" /\ irw')
      PROVE  a_count' = 2 * HW - 1
  <2>1. CASE ~sd_rw_req_mmu
    <3>1. CacheMiss \/ CachePrep
      BY <1>3, <2>1 DEF Next, CacheClock, CacheHit, CacheStore, CacheLoad, CacheUpdate,
                        cacheVars, sd_rw_req_mmu
    <3> QED
      BY <3>1 DEF CacheMiss, CachePrep
  <2>2. CASE sd_rw_req_mmu /\ sd_bursting_mmu
    <3>1. data_bursting /\ ram_arb /\ CacheBeat /\ ram_arb'
      BY <1>2, <2>2 DEF sd_bursting_mmu
    <3>2. beat = HW + 1
      BY <1>2, <1>3, <3>1 DEF sd_bursting_mmu
    <3>3. ~irw
      BY <1>2, <1>3, <3>1, <3>2
    <3> QED
      BY <2>2, <3>1, <3>2, <3>3 DEF CacheBeat, sd_rw_req_mmu
  <2>3. CASE sd_rw_req_mmu /\ sState = "BURST_TERM" /\ irw
    <3>1. mState = "STORE_PAGE" /\ a_count = HW + 1
      BY <1>1, <2>3 DEF Owner
    <3>2. mState' = "LOAD_PREP"
      BY <1>1, <3>1 DEF Next, CacheClock, CacheMiss, CacheHit, CacheStore, CachePrep,
                        CacheLoad, CacheUpdate
    <3> QED
      BY <1>3, <3>2 DEF sd_rw_req_mmu
  <2>4. CASE sd_rw_req_mmu /\ ~sd_bursting_mmu /\ ~(sState = "BURST_TERM" /\ irw)
    <3>1. a_count = 2 * HW - 1 /\ mState \in {"STORE_PAGE", "LOAD_PAGE"}
      BY <1>1, <2>4 DEF Waiting, sd_rw_req_mmu
    <3> QED
      BY <2>4, <3>1 DEF Next, CacheClock, CacheMiss, CacheHit, CacheStore, CachePrep,
                        CacheLoad, CacheUpdate, CountBeats
  <2> QED
    BY <2>1, <2>2, <2>3, <2>4
<1>4. ASSUME vState' = "READ_DATA" PROVE sd_bursting_v'
  <2>1. sd_bursting_v /\ vState \in {"REQUEST_LINE", "READ_DATA"}
    BY <1>1, <1>4 DEF Next, VgaClock, VgaIdle, VgaRequest, VgaRead, VgaDone, Waiting
  <2>2. data_bursting /\ ~ram_arb /\ VideoBeat /\ ~ram_arb' /\ beat \in 0..HW + 1
    BY <1>2, <2>1 DEF sd_bursting_v
  <2>3. beat # HW + 1
    BY <2>1, <2>2 DEF VideoBeat
  <2> QED
    BY <1>2, <2>2, <2>3 DEF sd_bursting_v
<1> QED
  BY <1>3, <1>4 DEF Waiting

LEMMA InitOwner == CodeTiming /\ Init => OwnerInv
<1> SUFFICES ASSUME Init PROVE OwnerInv
  OBVIOUS
<1>1. BurstInv /\ Position
  BY InitBurst, InitPosition
<1> QED
  BY <1>1 DEF Init, SdramInit, OwnerInv, Owner, Waiting, Opening, data_bursting, Stored,
              sd_rw_req_mmu

LEMMA StepOwner == CodeTiming /\ OwnerInv /\ [Next]_vars => OwnerInv'
<1> SUFFICES ASSUME CodeTiming, OwnerInv, [Next]_vars PROVE OwnerInv'
  OBVIOUS
<1>1. BurstInv' /\ Position'
  BY StepBurst, StepPosition DEF OwnerInv
<1>2. CASE Next
  BY <1>1, <1>2, OwnerStep, WaitingStep DEF OwnerInv
<1>3. CASE UNCHANGED vars
  <2>1. Owner' /\ Waiting'
    BY <1>3 DEF vars, sdVars, arbVars, vgaVars, cacheVars, OwnerInv, Owner, Waiting, Asked,
                CacheBeat, VideoBeat, Stored, Resting, Opening, data_bursting, beat,
                sd_rw_req_mmu, sd_bursting_mmu, sd_bursting_v, sd_address, sd_address_mmu,
                sd_rw, sd_rw_mmu
  <2> QED
    BY <1>1, <2>1 DEF OwnerInv
<1> QED
  BY <1>2, <1>3

LEMMA OwnerInvariant == ASSUME CodeTiming PROVE Spec => []OwnerInv
BY InitOwner, StepOwner, PTL DEF Spec

\* On every beat of a cache burst the chip is at the half-word the cache is at, for every
\* length of a burst and whatever the video fetches in between (memcahce.v 146-154,
\* sdramburst.v 98-118).
THEOREM BeatsAreTheCaches == ASSUME CodeTiming PROVE Spec => []BeatsAreHalves
<1>1. OwnerInv => BeatsAreHalves
  <2> SUFFICES ASSUME OwnerInv PROVE BeatsAreHalves
    OBVIOUS
  <2>1. /\ BurstInv /\ FullInv /\ IInv /\ Owner /\ ChipCount /\ Direction
        /\ HW \in Nat /\ HW >= 4 /\ BURST_LEN = HW - 1
        /\ chip.n \in Nat /\ sState \in State
    BY LengthType DEF OwnerInv, BurstInv, FullInv, IInv, SdramTypeOK
  <2>2. ASSUME sd_bursting_mmu, ~irw, beat \in 1..HW
        PROVE  Driven = <<mem_address, beat - 1>>
    <3>1. sState \in {"READ_COLA", "READ_COLB"} /\ data_bursting
      BY <2>1, <2>2 DEF sd_bursting_mmu, data_bursting, Direction
    <3>2. chip.op = "READ" /\ chip.row = mem_address
      BY <2>1, <3>1 DEF IInv, ChipFollows, RowOpen
    <3>3. chip.n = beat + 1
      <4>1. CASE sState = "READ_COLA"
        BY <2>1, <3>1, <4>1, Beats DEF ChipCount
      <4>2. CASE sState = "READ_COLB"
        BY <2>1, <3>1, <4>2, Beats DEF ChipCount, CodeTiming
      <4> QED
        BY <3>1, <4>1, <4>2
    <3> QED
      BY <2>1, <2>2, <3>2, <3>3 DEF Driven, CodeTiming
  <2>3. CASE sd_bursting_mmu /\ irw /\ beat >= 2
    <3>1. data_bursting /\ ram_arb /\ CacheBeat /\ mem_address = sd_address
      BY <2>1, <2>3 DEF sd_bursting_mmu, Owner
    <3>2. mState = "STORE_PAGE" /\ mem_address = old_line
      BY <2>3, <3>1 DEF CacheBeat, sd_address, sd_address_mmu
    <3>3. sState = "WRITE_COL" /\ beat = (HW + 1) - burst /\ burst \in 0..HW - 1
      <4>1. sState \in {"WRITE_COLB", "WRITE_COL"}
        BY <2>1, <2>3, <3>1 DEF data_bursting, Direction
      <4>2. sState = "WRITE_COLB" => beat \in 0..1
        BY <2>1, <3>1, Beats
      <4> QED
        BY <2>1, <2>3, <3>1, <4>1, <4>2, Beats
    <3>4. ~nop
      BY <2>1, <3>3, NoWait DEF IInv, SdramTypeOK, dtarget, CommandFirst
    <3>5. CASE burst = BURST_LEN
      <4>1. command = "WRITE" /\ chip.row = mem_address /\ beat - 2 = 0
        BY <2>1, <3>3, <3>4, <3>5, CommandWhen DEF IInv, ChipFollows, RowOpen
      <4> QED
        BY <2>1, <2>2, <2>3, <3>2, <4>1 DEF Taken, BeatsAreHalves
    <3>6. CASE burst # BURST_LEN
      <4>1. command = "NOP" /\ chip.row = mem_address /\ chip.op = "WRITE"
        BY <2>1, <3>3, <3>4, <3>6, CommandWhen, Commands DEF IInv, ChipFollows, RowOpen
      <4>2. chip.n = beat - 2
        BY <2>1, <3>3, <3>6 DEF ChipCount
      <4> QED
        BY <2>1, <2>2, <2>3, <3>2, <4>1, <4>2 DEF Taken, BeatsAreHalves
    <3> QED
      BY <3>5, <3>6
  <2>4. CASE ~(sd_bursting_mmu /\ irw /\ beat >= 2)
    <3>1. sState # "WRITE_COL"
      <4>1. SUFFICES ASSUME sState = "WRITE_COL" PROVE FALSE
        OBVIOUS
      <4>2. irw /\ data_bursting
        BY <2>1, <4>1 DEF Direction, data_bursting
      <4>3. beat >= 2
        BY <2>1, <4>1, <4>2, Beats
      <4>4. ram_arb
        BY <2>1, <4>2 DEF Owner, VideoBeat
      <4> QED
        BY <2>4, <4>2, <4>3, <4>4 DEF sd_bursting_mmu
    <3>2. command # "WRITE"
      <4>1. command \in {"NOP", "REF", "MRS", "PRE", "ACT", "READ", "TERM"}
        BY <2>1, <3>1, CommandWhen, Commands, States
      <4> QED
        BY <4>1
    <3>3. ~(command = "NOP" /\ chip.op = "WRITE")
      <4>1. SUFFICES ASSUME chip.op = "WRITE" PROVE command # "NOP"
        OBVIOUS
      <4>2. sState = "BURST_TERM"
        BY <2>1, <3>1, <4>1, States DEF IInv, ChipFollows, Closed, RowOpen
      <4>3. command = "TERM"
        BY <2>1, <4>2, NoWait, CommandWhen, Commands
           DEF IInv, SdramTypeOK, dtarget, CommandFirst
      <4> QED
        BY <4>3
    <3>4. Taken = NoLine
      BY <3>2, <3>3 DEF Taken
    <3> QED
      BY <2>2, <2>4, <3>4 DEF BeatsAreHalves
  <2> QED
    BY <2>3, <2>4
<1> QED
  BY <1>1, OwnerInvariant, PTL

\* What the video stores is its own burst, half-word by half-word, inside the scan line
\* buffer, although the cache takes bursts between its own (vga.v 206-215, 219-252).
THEOREM ScanlineIsTheFrames == ASSUME CodeTiming PROVE Spec => []ScanlineSample
<1>1. OwnerInv => ScanlineSample
  <2> SUFFICES ASSUME OwnerInv, vState = "READ_DATA" PROVE ScanlineSample
    BY DEF ScanlineSample
  <2>1. /\ BurstInv /\ FullInv /\ IInv /\ Owner /\ ChipCount /\ Direction
        /\ HW \in Nat /\ HW >= 4 /\ BURST_LEN = HW - 1
        /\ chip.n \in Nat
    BY LengthType DEF OwnerInv, BurstInv, FullInv, IInv, SdramTypeOK
  <2>2. sd_bursting_v /\ data_bursting /\ ~ram_arb /\ VideoBeat /\ mem_address = sd_address
    BY DEF OwnerInv, Waiting, sd_bursting_v, Owner
  <2>3. beat \in 1..HW /\ scanline_pos % HW = beat - 1 /\ ~irw /\ mem_address = frame_pos
    BY <2>1, <2>2, BeatType DEF VideoBeat, sd_address
  <2>4. sState \in {"READ_COLA", "READ_COLB"}
    BY <2>1, <2>2, <2>3 DEF data_bursting, Direction
  <2>5. chip.op = "READ" /\ chip.row = mem_address
    BY <2>1, <2>4 DEF IInv, ChipFollows, RowOpen
  <2>6. chip.n = beat + 1
    <3>1. CASE sState = "READ_COLA"
      BY <2>1, <2>2, <3>1, Beats DEF ChipCount
    <3>2. CASE sState = "READ_COLB"
      BY <2>1, <2>2, <3>2, Beats DEF ChipCount, CodeTiming
    <3> QED
      BY <2>4, <3>1, <3>2
  <2>7. Driven = <<frame_pos, scanline_pos % HW>>
    BY <2>1, <2>3, <2>5, <2>6 DEF Driven, CodeTiming
  <2>8. scanline_pos < LineBursts * HW
    <3>1. /\ LineBursts \in Nat /\ no_burst \in 1..LineBursts
          /\ scanline_pos \in Done..Done + HW - 1
      BY SdramArbAssumption DEF OwnerInv, Position
    <3>2. Done \in Nat /\ Done + HW <= LineBursts * HW
      BY <2>1, <3>1, BurstsDone DEF Done
    <3> QED
      BY <2>1, <3>1, <3>2
  <2> QED
    BY <2>2, <2>7, <2>8 DEF ScanlineSample
<1> QED
  BY <1>1, OwnerInvariant, PTL

--------------------------------------------------------------------------------
(* The burst contract *)

LEMMA PortStages ==
    /\ Port!NoBurst = MmuPort!NoBurst
    /\ MmuPort!NoBurst.st = "idle"
    /\ \A st, b : Stage(st, b).st = st /\ Stage(st, b).beat = b
BY DEF Port!NoBurst, MmuPort!NoBurst, Stage

\* The burst of the cache, phase by phase.
LEMMA PortPhases ==
    BurstInv =>
        /\ ram_arb /\ Opening => mmuBurst = Stage("open", 0)
        /\ ram_arb /\ data_bursting => mmuBurst = Stage("beats", beat)
        /\ ram_arb /\ sState = "BURST_TERM" => mmuBurst = Stage("close", HW + 1)
        /\ ~ram_arb \/ Resting => mmuBurst = Port!NoBurst
<1> SUFFICES ASSUME BurstInv
             PROVE  /\ ram_arb /\ Opening => mmuBurst = Stage("open", 0)
                    /\ ram_arb /\ data_bursting => mmuBurst = Stage("beats", beat)
                    /\ ram_arb /\ sState = "BURST_TERM" => mmuBurst = Stage("close", HW + 1)
                    /\ ~ram_arb \/ Resting => mmuBurst = Port!NoBurst
  OBVIOUS
<1>1. /\ Opening => ~data_bursting /\ sState # "BURST_TERM"
      /\ data_bursting => ~Opening /\ sState # "BURST_TERM"
  BY OnePhase
<1> QED
  BY <1>1 DEF mmuBurst, sd_bursting_mmu, Resting

LEMMA PortClockStep ==
    ASSUME CodeTiming, OwnerInv, Next
    PROVE  \/ MmuPort!BurstClock(sd_rw_req_mmu, sd_rw_mmu, sd_address_mmu)
           \/ mmuBurst' = mmuBurst
<1>1. /\ BurstInv /\ Owner /\ HW \in Nat /\ BurstInv'
  BY StepBurst, LengthType DEF OwnerInv
<1>2. /\ ram_arb' /\ Opening' => mmuBurst' = Stage("open", 0)'
      /\ ram_arb' /\ data_bursting' => mmuBurst' = Stage("beats", beat)'
      /\ ram_arb' /\ sState' = "BURST_TERM" => mmuBurst' = Stage("close", HW + 1)'
      /\ ~ram_arb' \/ Resting' => mmuBurst' = Port!NoBurst
  <2>1. (BurstInv =>
           /\ ram_arb /\ Opening => mmuBurst = Stage("open", 0)
           /\ ram_arb /\ data_bursting => mmuBurst = Stage("beats", beat)
           /\ ram_arb /\ sState = "BURST_TERM" => mmuBurst = Stage("close", HW + 1)
           /\ ~ram_arb \/ Resting => mmuBurst = Port!NoBurst)'
    BY PortPhases, PTL
  <2>2. (Port!NoBurst)' = Port!NoBurst
    BY DEF Port!NoBurst
  <2> QED
    BY <1>1, <2>1, <2>2
<1>3. data_bursting \/ sd_rw_req => ram_arb' = ram_arb
  BY DEF Next, ArbClock, Grant, Follow
<1>4. CASE Resting
  <2>1. mmuBurst = Port!NoBurst /\ mmuBurst.st = "idle"
    BY <1>1, <1>4, PortPhases, PortStages
  <2>2. CASE Resting' \/ ~ram_arb'
    BY <1>2, <2>1, <2>2
  <2>3. CASE ~Resting' /\ ram_arb'
    <3>1. sd_rw_req /\ Opening' /\ mem_address' = sd_address /\ irw' = sd_rw /\ sState = "IDLE"
      BY <1>1, <1>4, <2>3, Phases
    <3>2. ram_arb /\ sd_rw_req_mmu
      BY <1>1, <1>3, <1>4, <2>3, <3>1 DEF Owner, Stored, Asked
    <3>3. mem_address' = sd_address_mmu /\ irw' = sd_rw_mmu
      BY <3>1, <3>2 DEF sd_address, sd_rw, sd_rw_mmu
    <3>4. mmuBurst' = [st |-> "open", beat |-> 0, line |-> sd_address_mmu, rw |-> sd_rw_mmu]
      BY <1>2, <2>3, <3>1, <3>3 DEF Stage
    <3> QED
      BY <2>1, <3>2, <3>4 DEF MmuPort!BurstClock, MmuPort!BurstLatch
  <2> QED
    BY <2>2, <2>3
<1>5. CASE ~ram_arb /\ ~Resting
  <2>1. mmuBurst = Port!NoBurst
    BY <1>1, <1>5, PortPhases
  <2>2. CASE ~ram_arb'
    BY <1>2, <2>1, <2>2
  <2>3. CASE ram_arb'
    <3>1. sState = "BURST_TERM"
      BY <1>1, <1>3, <1>5, <2>3 DEF Resting, Owner, Asked
    <3> QED
      BY <1>1, <1>2, <2>1, <3>1, Phases
  <2> QED
    BY <2>2, <2>3
<1>6. CASE ram_arb /\ Opening
  <2>1. ram_arb' /\ Asked /\ mem_address = sd_address /\ irw = sd_rw
    BY <1>1, <1>3, <1>6 DEF Owner, Asked
  <2>2. mem_address' = mem_address /\ irw' = irw
    BY <1>1, <1>6, <2>1, Phases
  <2>3. mmuBurst = Stage("open", 0)
    BY <1>1, <1>6, PortPhases
  <2>4. CASE Opening'
    BY <1>2, <2>1, <2>2, <2>3, <2>4 DEF Stage
  <2>5. CASE data_bursting' /\ beat' = 0
    <3>1. mmuBurst' = [mmuBurst EXCEPT !.st = "beats"] /\ mmuBurst.st = "open"
      BY <1>2, <2>1, <2>2, <2>3, <2>5 DEF Stage
    <3> QED
      BY <3>1 DEF MmuPort!BurstClock, MmuPort!BurstStart
  <2> QED
    BY <1>1, <1>6, <2>4, <2>5, Phases
<1>7. CASE ram_arb /\ data_bursting
  <2>1. ram_arb' /\ mem_address' = mem_address /\ irw' = irw /\ beat \in 0..HW + 1
    BY <1>1, <1>3, <1>7, BeatType, Phases
  <2>2. mmuBurst = Stage("beats", beat)
    BY <1>1, <1>7, PortPhases
  <2>3. CASE beat = HW + 1
    <3>1. sState' = "BURST_TERM"
      BY <1>1, <1>7, <2>3, Phases
    <3>2. mmuBurst' = [mmuBurst EXCEPT !.st = "close"]
          /\ mmuBurst.st = "beats" /\ mmuBurst.beat = HW + 1
      BY <1>2, <2>1, <2>2, <2>3, <3>1 DEF Stage
    <3> QED
      BY <3>2 DEF MmuPort!BurstClock, MmuPort!BurstTerm
  <2>4. CASE beat # HW + 1
    <3>1. data_bursting' /\ beat' = beat + 1
      BY <1>1, <1>7, <2>4, Phases
    <3>2. mmuBurst' = [mmuBurst EXCEPT !.beat = @ + 1]
          /\ mmuBurst.st = "beats" /\ mmuBurst.beat = beat
      BY <1>2, <2>1, <2>2, <3>1 DEF Stage
    <3>3. mmuBurst.beat < HW + 1
      BY <1>1, <2>1, <2>4, <3>2
    <3> QED
      BY <3>2, <3>3 DEF MmuPort!BurstClock, MmuPort!BurstBeat
  <2> QED
    BY <2>3, <2>4
<1>8. CASE ram_arb /\ sState = "BURST_TERM"
  <2>1. mmuBurst = Stage("close", HW + 1) /\ Resting'
    BY <1>1, <1>8, PortPhases, Phases
  <2>2. mmuBurst' = MmuPort!NoBurst /\ mmuBurst.st = "close"
    BY <1>2, <2>1, PortStages
  <2> QED
    BY <2>2 DEF MmuPort!BurstClock, MmuPort!BurstEnd
<1> QED
  BY <1>4, <1>5, <1>6, <1>7, <1>8 DEF Resting

\* The cache is served as MemCache assumes, beat by beat, whatever the video asks for:
\* every step is a step of the port or leaves it alone (top.v 102-145).
THEOREM ServesBurstPort == ASSUME CodeTiming PROVE Spec => BurstContract
<1>1. Init => mmuBurst = Port!NoBurst
  BY DEF Init, SdramInit, mmuBurst, sd_bursting_mmu
<1>2. OwnerInv /\ [Next]_vars =>
        [MmuPort!BurstClock(sd_rw_req_mmu, sd_rw_mmu, sd_address_mmu)]_mmuBurst
  <2> SUFFICES ASSUME OwnerInv, [Next]_vars
               PROVE  [MmuPort!BurstClock(sd_rw_req_mmu, sd_rw_mmu, sd_address_mmu)]_mmuBurst
    OBVIOUS
  <2>1. CASE Next
    BY <2>1, PortClockStep
  <2>2. CASE UNCHANGED vars
    <3>1. mmuBurst' = mmuBurst
      BY <2>2 DEF vars, sdVars, arbVars, mmuBurst, Opening, Stage, sd_bursting_mmu,
                  data_bursting, beat, Port!NoBurst
    <3> QED
      BY <3>1
  <2> QED
    BY <2>1, <2>2
<1> QED
  BY <1>1, <1>2, OwnerInvariant, PTL DEF Spec, BurstContract
================================================================================
