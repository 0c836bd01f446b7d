------------------------------- MODULE SdramBurst ------------------------------
(***************************************************************************)
(* The SDRAM controller of rtl/memory/sdramburst.v, clock by clock, and the *)
(* SDRAM chip it commands (external: modelled from the commands the         *)
(* controller sends and from the beats on which it uses the data bus).      *)
(***************************************************************************)
EXTENDS Naturals

CONSTANTS
    HW,                      \* half-words in a burst, BURST_LEN + 1 (32 in the code)
    Line,                    \* the line addresses in use
    NoLine,                  \* no row is open
    START_DELAY, CAS_DELAY, BANK_DELAY, TRC_DELAY, TMRD_DELAY, WRITE_DELAY

BURST_LEN == HW - 1

ASSUME SdramBurstAssumption ==
    /\ HW \in Nat /\ HW >= 2
    /\ Line # {} /\ NoLine \notin Line
    /\ START_DELAY \in Nat /\ BANK_DELAY \in Nat /\ TRC_DELAY \in Nat
    /\ TMRD_DELAY \in Nat /\ WRITE_DELAY \in Nat
    /\ CAS_DELAY \in Nat \ {0}

VARIABLES
    sState,          \* cState of sdramburst.v
    delay,           \* clocks spent in it
    nop,             \* the command of the state has been given
    burst,           \* half-words still to come
    irw, irwq,       \* direction of the latched request; a request is latched
    mem_address,     \* its line
    chip             \* the SDRAM chip: open row, running burst, its next half-word

sdVars == <<sState, delay, nop, burst, irw, irwq, mem_address, chip>>

--------------------------------------------------------------------------------
(* The state machine *)

\* The command of a state, the clocks it waits and, where there is but one, its
\* successor.
Row(cmd, wait, next) == [cmd |-> cmd, wait |-> wait, next |-> next]

Table ==
    [ START          |-> Row("NOP",  0,             "INITIAL"),
      INITIAL        |-> Row("NOP",  START_DELAY,   "PRECHARGE"),
      PRECHARGE      |-> Row("PRE",  CAS_DELAY,     "AUTO_REFRESHS1"),
      AUTO_REFRESHS1 |-> Row("REF",  TRC_DELAY,     "AUTO_REFRESHS2"),
      AUTO_REFRESHS2 |-> Row("REF",  TRC_DELAY,     "MODE_SET"),
      MODE_SET       |-> Row("MRS",  TMRD_DELAY,    "IDLE"),
      AUTO_REFRESH   |-> Row("REF",  TRC_DELAY,     "IDLE"),
      IDLE           |-> Row("NOP",  0,             "AUTO_REFRESH"),
      ROW_ACTIVE     |-> Row("ACT",  BANK_DELAY,    "READ_COL"),
      READ_COL       |-> Row("READ", 0,             "READ_COLA"),
      READ_COLA      |-> Row("NOP",  CAS_DELAY - 1, "READ_COLB"),
      READ_COLB      |-> Row("NOP",  0,             "READ_COLB"),
      WRITE_COLB     |-> Row("NOP",  WRITE_DELAY,   "WRITE_COL"),
      WRITE_COL      |-> Row("NOP",  0,             "WRITE_COL"),
      BURST_TERM     |-> Row("TERM", 0,             "CLOSE_ROW"),
      CLOSE_ROW      |-> Row("PRE",  0,             "DONE_RC"),
      DONE_RC        |-> Row("NOP",  TRC_DELAY,     "AUTO_REFRESH") ]

State == DOMAIN Table

dtarget == Table[sState].wait

\* Mutant: the row is closed without terminating the burst.
nState_noterm ==
    CASE sState = "IDLE" /\ irwq -> "ROW_ACTIVE"
      [] sState = "ROW_ACTIVE" /\ irw -> "WRITE_COLB"
      [] sState \in {"READ_COLB", "WRITE_COL"} /\ burst = 0 -> "CLOSE_ROW"
      [] OTHER -> Table[sState].next

\* IDLE and ROW_ACTIVE look at the latched request, the data states at the count.
nState ==
    CASE sState = "IDLE" /\ irwq -> "ROW_ACTIVE"
      [] sState = "ROW_ACTIVE" /\ irw -> "WRITE_COLB"
      [] sState \in {"READ_COLB", "WRITE_COL"} /\ burst = 0 -> "BURST_TERM"
      [] OTHER -> Table[sState].next

\* Mutant: the write command is given when the data is announced.
command_early ==
    IF nop THEN "NOP"
    ELSE IF sState = "WRITE_COLB" THEN "WRITE"
    ELSE Table[sState].cmd

\* The command on the pins: given in the first clock of a state only.
command ==
    IF nop THEN "NOP"
    ELSE IF sState = "WRITE_COL" /\ burst = BURST_LEN THEN "WRITE"
    ELSE Table[sState].cmd

data_bursting == sState \in {"WRITE_COL", "WRITE_COLB", "READ_COLA", "READ_COLB"}

Advance ==
    /\ delay = dtarget
    /\ sState' = nState
    /\ delay' = 0
    /\ nop' = FALSE

Delay ==
    /\ delay # dtarget
    /\ delay' = delay + 1
    /\ nop' = TRUE
    /\ UNCHANGED sState

\* A request is latched in every IDLE clock that shows one: the first such clock
\* still leads to a refresh, the second to the burst.
LatchRequest(rw_req, rw, address) ==
    IF sState = "IDLE" /\ rw_req
    THEN irwq' = TRUE /\ irw' = rw /\ mem_address' = address
    ELSE irwq' = (irwq /\ sState # "ROW_ACTIVE") /\ UNCHANGED <<irw, mem_address>>

CountDown ==
    burst' = CASE sState = "ROW_ACTIVE" -> BURST_LEN
               [] sState \in {"WRITE_COL", "READ_COLB"} -> (burst + BURST_LEN) % HW
               [] OTHER -> burst

--------------------------------------------------------------------------------
(* The chip: full-page bursts that run until they are terminated; a read    *)
(* shows its first half-word CAS_DELAY clocks after the command, a write    *)
(* takes its first with the command.                                        *)

NoOp == [row |-> NoLine, op |-> "none", n |-> 0]

Chip ==
    chip' = CASE command = "ACT"  -> [chip EXCEPT !.row = mem_address]
              [] command \in {"READ", "WRITE"} -> [chip EXCEPT !.op = command, !.n = 1]
              [] command = "TERM" -> [chip EXCEPT !.op = "none", !.n = 0]
              [] command = "PRE"  -> NoOp
              [] command = "NOP" /\ chip.op # "none" -> [chip EXCEPT !.n = @ + 1]
              [] OTHER -> chip

\* The half-word on the data bus in this clock, as <<line, index>>: the one the
\* chip drives, or the one it takes.
Driven == IF chip.op = "READ" /\ chip.n >= CAS_DELAY
          THEN <<chip.row, chip.n - CAS_DELAY>> ELSE NoLine

Taken == CASE command = "WRITE" -> <<chip.row, 0>>
           [] command = "NOP" /\ chip.op = "WRITE" -> <<chip.row, chip.n>>
           [] OTHER -> NoLine

SdramClock(rw_req, rw, address) ==
    /\ Advance \/ Delay
    /\ LatchRequest(rw_req, rw, address)
    /\ CountDown
    /\ Chip

SdramInit ==
    /\ sState = "START" /\ delay = 0 /\ nop = TRUE
    /\ burst = 0 /\ irw = FALSE /\ irwq = FALSE
    /\ mem_address \in Line
    /\ chip = NoOp

--------------------------------------------------------------------------------
(* Properties *)

SdramTypeOK ==
    /\ sState \in State /\ nop \in BOOLEAN
    /\ delay \in Nat /\ delay <= dtarget
    /\ burst \in 0..BURST_LEN
    /\ irw \in BOOLEAN /\ irwq \in BOOLEAN
    /\ mem_address \in Line
    /\ chip \in [row : Line \cup {NoLine}, op : {"none", "READ", "WRITE"}, n : Nat]

\* The chip never gets a command its state forbids: a row is opened only when
\* none is open, data commands go to the row that was opened for this request,
\* refresh and mode set find all rows closed, and a row is closed only after its
\* burst was terminated (sdramburst.v 172-284).
CommandsLegal ==
    /\ command \in {"ACT", "REF", "MRS"} => chip.row = NoLine
    /\ command \in {"READ", "WRITE"} => chip.row = mem_address /\ chip.op = "none"
    /\ command = "TERM" => chip.op # "none"
    /\ command = "PRE" => chip.op = "none"
================================================================================
