-------------------------------- MODULE Pipeline --------------------------------
(***************************************************************************)
(* The three stages of the core: fetch.v, decode.v, execute.v with the       *)
(* division of alu.v, wired as in criscv.v.  One step is one clock.  The     *)
(* operators are the wires, the variables the registers; the answers of the  *)
(* memory (module Mmu: Flat) are inputs: accept is m_valid & m_ready of the  *)
(* fetch port, sv and dv are the s_valid of the fetch and the data port.     *)
(* The two stage registers always hold an instruction (IFID_valid and        *)
(* IDEX_valid are 1 after reset): a bubble is a NOP that no program holds.   *)
(***************************************************************************)
EXTENDS Rv32, Naturals

CONSTANTS
    DIV_DELAY,               \* what div_counter is loaded with
    CounterMax,              \* the largest value of div_counter, a 6-bit register
    Latency,                 \* of the divider, generated hardware: clocks to its answer
    PowerUpF3, PowerUpCount  \* what op_f3 and div_counter, never reset, power up with

\* DIV_DELAY is chosen for the divider: DIV_WAIT takes one clock more than its count.
ASSUME DividerAssumption ==
    /\ DIV_DELAY \in Nat /\ CounterMax \in Nat /\ DIV_DELAY <= CounterMax
    /\ Latency \in 0 .. DIV_DELAY + 1
    /\ PowerUpF3 \subseteq Fn /\ PowerUpCount \subseteq 0 .. CounterMax

VARIABLES
    pc, req_pc, inflight, discard,   \* fetch: next address, the request in flight
    IFID,                            \* IFID_inst, IFID_pc
    IDEX,                            \* instruction, pc and operands
    regs,                            \* decode's register file
    m_valid_d, mem_address_d, mem_rw_d, mem_size_d, mem_write_data,
    alu_req, IDEX_rd_as,             \* a division is in progress, for this register
    cState, op_f3, div_counter, numer, denom, d_rd,   \* alu: division
    settling,                        \* clocks until the divider's answer is that of numer, denom
    loaded,                          \* history: the division in progress loaded div_counter
    csr,                             \* the CSRs of execute
    dmem, text                       \* what the memory holds

fetchVars == <<pc, req_pc, inflight, discard, IFID>>
portVars  == <<m_valid_d, mem_address_d, mem_rw_d, mem_size_d, mem_write_data>>
aluVars   == <<cState, op_f3, div_counter, numer, denom, d_rd, settling, loaded>>
vars == <<fetchVars, IDEX, regs, portVars, alu_req, IDEX_rd_as, aluVars, csr, dmem, text>>

NOP == [op |-> "NOP", rd |-> x0, rs1 |-> x0, rs2 |-> x0, csr |-> "misa",
        fn |-> CHOOSE f \in Fn : TRUE]

--------------------------------------------------------------------------------
(* Wires of execute.v *)

inst == IDEX.inst
is_load == inst.op = "LOAD"
is_store == inst.op = "STORE"
ls_addr == LsAddr(inst.fn, IDEX.rs1)
misaligned_mem == (is_load \/ is_store) /\ Misaligned(inst.fn, ls_addr)

alu_issue == inst.op = "DIV" /\ ~alu_req
alu_done == alu_req /\ cState = "DONE"

\* A division stays in EX until it is done, an access until it is answered.
s_ready(dv) ==
    /\ alu_req \/ inst.op = "DIV" => alu_done
    /\ (is_load \/ is_store) /\ ~misaligned_mem => dv /\ m_valid_d

branch_taken ==
    \/ ~alu_req /\ inst.op = "BRANCH" /\ Taken(inst.fn, IDEX.rs1, IDEX.rs2)
    \/ ~alu_req /\ inst.op \in {"JUMP", "ECALL", "MRET"}
    \/ misaligned_mem

branch_target ==
    CASE inst.op \in {"ECALL", "LOAD", "STORE"} -> csr["mtvec"]
      [] inst.op = "MRET" -> csr["mepc"]
      [] OTHER -> Target(inst.fn, IDEX.pc, IDEX.rs1)

rf_we(dv) ==
    \/ alu_done
    \/ ~alu_req /\ inst.op \in {"ALU", "JUMP", "CSRRW", "CSR"}
    \/ is_load /\ ~misaligned_mem /\ dv /\ m_valid_d

rf_waddr == IF alu_done THEN IDEX_rd_as ELSE inst.rd

rf_wdata ==
    CASE alu_done -> d_rd
      [] inst.op = "ALU" -> AluResult(inst.fn, IDEX.pc, IDEX.rs1, IDEX.rs2)
      [] inst.op = "JUMP" -> NextPc(IDEX.pc)
      [] is_load -> LoadValue(inst.fn, dmem[mem_address_d])
      [] OTHER -> csr[inst.csr]

--------------------------------------------------------------------------------
(* fetch.v *)

addr_i == IF branch_taken THEN branch_target ELSE pc

\* An answer counts when no branch was taken since its request.
rsp_ok(sv) == sv /\ ~discard /\ ~branch_taken

\* Mutants: the address of an answer lost to a stall is not asked for again; once
\* set, discard stays.
FetchRequest_lost(accept, sv, dv) ==
    /\ accept => s_ready(dv)
    /\ pc' = CASE accept                  -> NextPc(addr_i)
               [] ~accept /\ branch_taken -> branch_target
               [] OTHER                   -> pc
    /\ req_pc' = IF accept THEN addr_i ELSE req_pc
    /\ inflight' = (accept \/ (inflight /\ ~sv))
    /\ discard' = (~sv /\ (discard \/ (branch_taken /\ inflight)))

FetchRequest_discard(accept, sv, dv) ==
    /\ accept => s_ready(dv)
    /\ pc' = CASE accept                             -> NextPc(addr_i)
               [] ~accept /\ branch_taken            -> branch_target
               [] ~accept /\ rsp_ok(sv) /\ ~s_ready(dv) -> req_pc
               [] OTHER                              -> pc
    /\ req_pc' = IF accept THEN addr_i ELSE req_pc
    /\ inflight' = (accept \/ (inflight /\ ~sv))
    /\ discard' = (discard \/ (~sv /\ branch_taken /\ inflight))

FetchRequest(accept, sv, dv) ==
    /\ accept => s_ready(dv)
    /\ pc' = CASE accept                             -> NextPc(addr_i)
               [] ~accept /\ branch_taken            -> branch_target
               [] ~accept /\ rsp_ok(sv) /\ ~s_ready(dv) -> req_pc
               [] OTHER                              -> pc
    /\ req_pc' = IF accept THEN addr_i ELSE req_pc
    /\ inflight' = (accept \/ (inflight /\ ~sv))
    /\ discard' = (~sv /\ (discard \/ (branch_taken /\ inflight)))

FetchLatch(sv, dv) ==
    \/ /\ branch_taken
       /\ IFID' = [inst |-> NOP, pc |-> branch_target]
    \/ /\ rsp_ok(sv) /\ s_ready(dv)
       /\ IFID' = [inst |-> text[req_pc], pc |-> req_pc]
    \/ /\ ~branch_taken /\ ~rsp_ok(sv) /\ s_ready(dv)
       /\ IFID' = [IFID EXCEPT !.inst = NOP]
    \/ /\ ~branch_taken /\ ~s_ready(dv)
       /\ UNCHANGED IFID

--------------------------------------------------------------------------------
(* decode.v *)

\* Mutant: a result meant for x0 is forwarded.
Forwarded_x0(r, dv) ==
    IF rf_we(dv) /\ rf_waddr = r THEN rf_wdata ELSE Read(regs, r)

\* The value of register r as EX leaves it in this clock.
Forwarded(r, dv) ==
    IF r = x0 THEN Zero
    ELSE IF rf_we(dv) /\ rf_waddr = r THEN rf_wdata ELSE regs[r]

Decode(dv) ==
    /\ regs' = IF rf_we(dv) THEN Write(regs, rf_waddr, rf_wdata) ELSE regs
    /\ \/ /\ s_ready(dv) /\ ~branch_taken
          /\ IDEX' = [inst |-> IFID.inst, pc |-> IFID.pc,
                      rs1 |-> Forwarded(IFID.inst.rs1, dv),
                      rs2 |-> Forwarded(IFID.inst.rs2, dv)]
       \/ /\ branch_taken
          /\ IDEX' = [inst |-> NOP, pc |-> IFID.pc, rs1 |-> Zero, rs2 |-> Zero]
       \/ /\ ~s_ready(dv) /\ ~branch_taken
          /\ UNCHANGED IDEX

--------------------------------------------------------------------------------
(* execute.v: the registers, by what is in EX *)

Access == IF mem_rw_d
          THEN dmem' = [dmem EXCEPT ![mem_address_d] =
                            StoreValue(mem_size_d, @, mem_write_data)]
          ELSE UNCHANGED dmem

DataAnswered(dv) ==
    /\ m_valid_d /\ dv
    /\ m_valid_d' = FALSE
    /\ Access
    /\ UNCHANGED <<mem_address_d, mem_rw_d, mem_size_d, mem_write_data,
                   alu_req, IDEX_rd_as, csr>>

\* Mutant: the request is a pulse, not a level.
DataWaiting_pulse(dv) ==
    /\ m_valid_d /\ ~dv
    /\ m_valid_d' = FALSE
    /\ UNCHANGED <<mem_address_d, mem_rw_d, mem_size_d, mem_write_data,
                   alu_req, IDEX_rd_as, csr, dmem>>

DataWaiting(dv) ==
    /\ m_valid_d /\ ~dv
    /\ UNCHANGED <<portVars, alu_req, IDEX_rd_as, csr, dmem>>

DataIssue ==
    /\ ~m_valid_d /\ (is_load \/ is_store) /\ ~misaligned_mem
    /\ m_valid_d' = TRUE
    /\ mem_address_d' = ls_addr
    /\ mem_size_d' = inst.fn
    /\ mem_rw_d' = is_store
    /\ mem_write_data' = IF is_store THEN IDEX.rs2 ELSE mem_write_data
    /\ UNCHANGED <<alu_req, IDEX_rd_as, csr, dmem>>

TrapEntry ==
    /\ ~m_valid_d /\ (misaligned_mem \/ inst.op = "ECALL")
    /\ csr' = Trapped(csr, inst.op, IDEX.pc)
    /\ UNCHANGED <<portVars, alu_req, IDEX_rd_as, dmem>>

DivIssue ==
    /\ inst.op = "DIV" /\ ~alu_done
    /\ alu_req' = TRUE
    /\ IDEX_rd_as' = inst.rd
    /\ UNCHANGED <<portVars, csr, dmem>>

DivRetire ==
    /\ alu_done
    /\ alu_req' = FALSE
    /\ UNCHANGED <<portVars, IDEX_rd_as, csr, dmem>>

CsrAccess ==
    /\ inst.op \in {"CSRRW", "CSR"}
    /\ csr' = CsrWrite(csr, inst, IDEX.rs1)
    /\ UNCHANGED <<portVars, alu_req, IDEX_rd_as, dmem>>

NoUpdate ==
    /\ inst.op \in {"NOP", "ALU", "BRANCH", "JUMP", "FENCE", "MRET"}
    /\ UNCHANGED <<portVars, alu_req, IDEX_rd_as, csr, dmem>>

Execute(dv) ==
    \/ DataAnswered(dv) \/ DataWaiting(dv) \/ DataIssue \/ TrapEntry
    \/ DivIssue \/ DivRetire \/ CsrAccess \/ NoUpdate

--------------------------------------------------------------------------------
(***************************************************************************)
(* alu.v: the division.  The divider (external) has its answer Latency       *)
(* clocks after its operands are latched; before that, its outputs are any.  *)
(***************************************************************************)
AluIdle ==
    /\ cState = "IDLE" /\ ~(alu_issue \/ alu_req)
    /\ UNCHANGED aluVars

\* op_f3 is tested before the clock that sets it: the division before this one
\* decides whether the count is loaded.
AluStart ==
    /\ cState = "IDLE" /\ (alu_issue \/ alu_req)
    /\ cState' = "DIV_WAIT"
    /\ op_f3' = inst.fn /\ numer' = IDEX.rs1 /\ denom' = IDEX.rs2
    /\ div_counter' = IF op_f3 \in DivFn THEN DIV_DELAY ELSE div_counter
    /\ loaded' = (op_f3 \in DivFn)
    /\ settling' = Latency
    /\ UNCHANGED d_rd

\* Mutant: the wait is over a clock early.
AluWait_early ==
    /\ cState = "DIV_WAIT"
    /\ cState' = IF div_counter <= 1 THEN "DIV_COMP" ELSE "DIV_WAIT"
    /\ div_counter' = IF div_counter = 0 THEN CounterMax ELSE div_counter - 1
    /\ settling' = IF settling = 0 THEN 0 ELSE settling - 1
    /\ UNCHANGED <<op_f3, numer, denom, d_rd, loaded>>

\* The counter is decremented in the clock that finds it 0, too.
AluWait ==
    /\ cState = "DIV_WAIT"
    /\ cState' = IF div_counter = 0 THEN "DIV_COMP" ELSE "DIV_WAIT"
    /\ div_counter' = IF div_counter = 0 THEN CounterMax ELSE div_counter - 1
    /\ settling' = IF settling = 0 THEN 0 ELSE settling - 1
    /\ UNCHANGED <<op_f3, numer, denom, d_rd, loaded>>

\* op_f3 is that of a division here: the arms of the multiplications are dead.
AluComp ==
    /\ cState = "DIV_COMP"
    /\ cState' = "DONE"
    /\ d_rd' \in IF settling = 0 THEN {DivResult(op_f3, numer, denom)} ELSE Word
    /\ UNCHANGED <<op_f3, div_counter, numer, denom, settling, loaded>>

AluEnd ==
    /\ cState = "DONE"
    /\ cState' = "IDLE"
    /\ UNCHANGED <<op_f3, div_counter, numer, denom, d_rd, settling, loaded>>

Alu == AluIdle \/ AluStart \/ AluWait \/ AluComp \/ AluEnd

--------------------------------------------------------------------------------
(* What Mmu promises of its ports: one fetch in flight at a time, answers only
   to requests. *)
Ports(accept, sv, dv) ==
    /\ accept => ~inflight \/ sv
    /\ sv => inflight
    /\ dv => m_valid_d

Clock(accept, sv, dv) ==
    /\ Ports(accept, sv, dv)
    /\ FetchRequest(accept, sv, dv)
    /\ FetchLatch(sv, dv)
    /\ Decode(dv)
    /\ Execute(dv)
    /\ Alu
    /\ UNCHANGED text

\* Neither op_f3 nor div_counter is reset, and both are read.  The registers of the
\* last two lines are not reset either, but are written before they are read
\* (RequestOwned, DivisionOwned): one value stands for any.
Init ==
    /\ text \in Programs
    /\ pc = Zero /\ req_pc = Zero /\ inflight = FALSE /\ discard = FALSE
    /\ IFID = [inst |-> NOP, pc |-> Zero]
    /\ IDEX = [inst |-> NOP, pc |-> Zero, rs1 |-> Zero, rs2 |-> Zero]
    /\ regs \in [Reg -> Unknown]
    /\ csr \in CsrPowerUp
    /\ dmem \in [Word -> Unknown]
    /\ m_valid_d = FALSE /\ mem_rw_d = FALSE /\ alu_req = FALSE /\ cState = "IDLE"
    /\ op_f3 \in PowerUpF3 /\ div_counter \in PowerUpCount
    /\ settling = 0 /\ loaded = FALSE
    /\ mem_address_d = Zero /\ mem_write_data = Zero /\ mem_size_d = NOP.fn
    /\ IDEX_rd_as = x0 /\ numer = Zero /\ denom = Zero /\ d_rd = Zero

Next == \E accept, sv, dv \in BOOLEAN : Clock(accept, sv, dv)

Spec == Init /\ [][Next]_vars

--------------------------------------------------------------------------------
(* Properties *)

\* Every register holds a value of its type.
TypeOK ==
    /\ text \in [Word -> Instr] /\ dmem \in [Word -> Word]
    /\ pc \in Word /\ req_pc \in Word /\ inflight \in BOOLEAN /\ discard \in BOOLEAN
    /\ IFID \in [inst : Instr \cup {NOP}, pc : Word]
    /\ IDEX \in [inst : Instr \cup {NOP}, pc : Word, rs1 : Word, rs2 : Word]
    /\ regs \in [Reg -> Word] /\ csr \in [Csr -> Word]
    /\ m_valid_d \in BOOLEAN /\ mem_rw_d \in BOOLEAN
    /\ mem_address_d \in Word /\ mem_write_data \in Word /\ mem_size_d \in Fn
    /\ alu_req \in BOOLEAN /\ IDEX_rd_as \in Reg
    /\ cState \in {"IDLE", "DIV_WAIT", "DIV_COMP", "DONE"}
    /\ op_f3 \in Fn /\ numer \in Word /\ denom \in Word /\ d_rd \in Word
    /\ div_counter \in 0 .. CounterMax /\ settling \in 0 .. Latency /\ loaded \in BOOLEAN

\* The next instruction to reach IF/ID, and the next to reach ID/EX.
FetchPc == IF inflight /\ ~discard THEN req_pc ELSE pc
DecodePc == IF IFID.inst # NOP THEN IFID.pc ELSE FetchPc
ArchPc == IF inst # NOP THEN IDEX.pc ELSE DecodePc

(***************************************************************************)
(* The stages hold consecutive instructions of the program, bubbles aside:   *)
(* no answer thrown away during a stall is skipped or taken twice, and none  *)
(* from before a taken branch gets in.                                       *)
(***************************************************************************)
Consecutive ==
    /\ discard => inflight
    /\ inflight /\ ~discard => pc = NextPc(req_pc)
    /\ IFID.inst # NOP => IFID.inst = text[IFID.pc] /\ FetchPc = NextPc(IFID.pc)
    /\ inst # NOP => inst = text[IDEX.pc] /\ DecodePc = NextPc(IDEX.pc)

\* The operands of the instruction in EX are the registers as its predecessor
\* left them, although they were read in the clock the predecessor wrote.
OperandsFresh ==
    inst # NOP => /\ IDEX.rs1 = Read(regs, inst.rs1)
                  /\ IDEX.rs2 = Read(regs, inst.rs2)

\* The divider and EX agree on who is dividing what for which register, and a
\* division that loaded the count waits for its answer.
DivisionOwned ==
    /\ alu_req = (cState # "IDLE")
    /\ alu_req => inst.op = "DIV" /\ IDEX_rd_as = inst.rd
    /\ cState \in {"DIV_WAIT", "DIV_COMP"} =>
          op_f3 = inst.fn /\ numer = IDEX.rs1 /\ denom = IDEX.rs2
    /\ cState # "IDLE" => op_f3 \in DivFn
    /\ loaded => /\ cState = "DIV_WAIT" => settling <= div_counter + 1
                 /\ cState = "DIV_COMP" => settling = 0
                 /\ cState = "DONE" => d_rd = DivResult(inst.fn, IDEX.rs1, IDEX.rs2)

\* The request on the data port is that of the load or store in EX.
RequestOwned ==
    m_valid_d =>
      /\ is_load \/ is_store
      /\ ~misaligned_mem
      /\ mem_address_d = ls_addr /\ mem_size_d = inst.fn /\ mem_rw_d = is_store
      /\ is_store => mem_write_data = IDEX.rs2

Inv == TypeOK /\ Consecutive /\ OperandsFresh /\ DivisionOwned /\ RequestOwned

\* What Mmu assumes of execute.v: a request stays as it is until its answer; and
\* the access that is answered is made once, its instruction leaves EX with it.
DataPortHeld ==
    [][m_valid_d => UNCHANGED portVars
                    \/ (~m_valid_d' /\ <<inst, IDEX.pc>>' # <<inst, IDEX.pc>>)]_vars

\* Whether the division to retire next finds, or found, its count loaded.
Warm == IF cState = "IDLE" THEN op_f3 \in DivFn ELSE loaded

\* The pipeline runs programs as the instruction set says, one retirement or
\* none per clock; but the first division after power-up may deliver any word.
I == INSTANCE Isa WITH pc <- ArchPc, warm <- Warm

IsaSpec == I!ColdSpec

--------------------------------------------------------------------------------
(***************************************************************************)
(* The clock runs, and the ports take and answer requests (module Mmu shows  *)
(* it of the memory).                                                        *)
(***************************************************************************)
FetchTaken    == \E sv, dv \in BOOLEAN : Clock(TRUE, sv, dv)
FetchReturns  == \E accept, dv \in BOOLEAN : Clock(accept, TRUE, dv)
DataReturns   == \E accept, sv \in BOOLEAN : Clock(accept, sv, TRUE)

FairSpec ==
    /\ Spec
    /\ WF_vars(Next)
    /\ WF_vars(FetchTaken) /\ WF_vars(FetchReturns)
    /\ WF_vars(DataReturns)

\* Instructions keep leaving EX: no stall, discarded fetch or redirect stops the
\* program for good.
Retires == inst # NOP /\ IDEX' # IDEX

Progress == []<><<Retires>>_vars
================================================================================
