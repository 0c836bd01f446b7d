----------------------------- MODULE PipelineProofs -----------------------------
(***************************************************************************)
(* The pipeline executes every program as the instruction set says, for      *)
(* every word size, register file and program (Rv32Assumption).              *)
(***************************************************************************)
EXTENDS Pipeline, TLAPS

\* The bubble is no instruction of a program.
LEMMA Bubble ==
    /\ NOP \notin Instr /\ NOP.op = "NOP"
    /\ NOP.rs1 = x0 /\ NOP.rs2 = x0 /\ NOP.rd = x0 /\ NOP.csr \in Csr /\ NOP.fn \in Fn
  BY Rv32Assumption DEF NOP, Instr, Op, Csr

\* Reading and writing the register file keeps it a file of words.
LEMMA RegisterFile ==
    ASSUME NEW f \in [Reg -> Word], NEW r \in Reg, NEW v \in Word
    PROVE  /\ Read(f, r) \in Word
           /\ Write(f, r, v) \in [Reg -> Word]
  BY Rv32Assumption DEF Read, Write

LEMMA CsrFile ==
    ASSUME NEW c \in [Csr -> Word], NEW i \in Instr, NEW a \in Word, NEW p \in Word
    PROVE  /\ CsrWrite(c, i, a) \in [Csr -> Word]
           /\ i.op \in {"LOAD", "STORE", "ECALL"} => Trapped(c, i.op, p) \in [Csr -> Word]
<1>1. i.op = "CSR" => CsrValue(i.fn, c[i.csr], a) \in Word
  BY Rv32Assumption DEF Instr
<1>2. CsrWrite(c, i, a) \in [Csr -> Word]
  <2>1. CASE i.op = "CSRRW" /\ i.csr = "mtvec"
    BY <2>1 DEF CsrWrite
  <2>2. CASE i.op = "CSR" /\ i.csr # "misa"
    BY <1>1, <2>2 DEF CsrWrite
  <2>3. CASE ~(i.op = "CSRRW" /\ i.csr = "mtvec") /\ ~(i.op = "CSR" /\ i.csr # "misa")
    BY <2>3 DEF CsrWrite
  <2> QED
    BY <2>1, <2>2, <2>3
<1>3. ASSUME i.op \in {"LOAD", "STORE", "ECALL"} PROVE Trapped(c, i.op, p) \in [Csr -> Word]
  <2>1. NextPc(p) \in Word /\ Cause(i.op) \in Word
    BY <1>3, Rv32Assumption
  <2> QED
    BY <2>1 DEF Trapped
<1> QED
  BY <1>2, <1>3

THEOREM InitInv == Init => Inv
<1> SUFFICES ASSUME Init PROVE Inv
  OBVIOUS
<1>1. TypeOK
  <2>1. csr \in [Csr -> Word]
    BY Rv32Assumption DEF Init, CsrPowerUp, Csr
  <2>2. text \in [Word -> Instr]
    BY Rv32Assumption DEF Init
  <2>3. op_f3 \in Fn /\ div_counter \in 0 .. CounterMax
    BY DividerAssumption DEF Init
  <2>4. settling \in 0 .. Latency /\ loaded \in BOOLEAN
    <3>1. settling = 0 /\ loaded \in BOOLEAN
      BY DEF Init
    <3>2. Latency \in Nat
      BY DividerAssumption
    <3>3. 0 \in 0 .. Latency
      BY <3>2
    <3> QED
      BY <3>1, <3>3
  <2> QED
    BY <2>1, <2>2, <2>3, <2>4, Bubble, Rv32Assumption DEF Init, TypeOK
<1>2. Consecutive /\ OperandsFresh /\ DivisionOwned /\ RequestOwned
  BY Bubble DEF Init, Consecutive, OperandsFresh, DivisionOwned, RequestOwned, inst
<1> QED
  BY <1>1, <1>2 DEF Inv

--------------------------------------------------------------------------------
(* The wires *)

\* What is in EX has fields of the right types, bubble or not.
LEMMA InEx ==
    ASSUME Inv
    PROVE  /\ inst.op \in Op \cup {"NOP"} /\ inst.fn \in Fn /\ inst.rd \in Reg
           /\ inst.rs1 \in Reg /\ inst.rs2 \in Reg /\ inst.csr \in Csr
           /\ IDEX.pc \in Word /\ IDEX.rs1 \in Word /\ IDEX.rs2 \in Word
           /\ IFID.pc \in Word /\ IFID.inst.rs1 \in Reg /\ IFID.inst.rs2 \in Reg
           /\ (inst = NOP) <=> (inst.op = "NOP")
           /\ inst # NOP => inst \in Instr
           /\ inst.op = "DIV" => inst.fn \in DivFn
<1>1. inst \in Instr \cup {NOP} /\ IFID.inst \in Instr \cup {NOP}
  BY DEF Inv, TypeOK, inst
<1>2. IDEX.pc \in Word /\ IDEX.rs1 \in Word /\ IDEX.rs2 \in Word /\ IFID.pc \in Word
  BY DEF Inv, TypeOK
<1>3. \A i \in Instr : /\ i.op \in Op /\ i.fn \in Fn /\ i.rd \in Reg
                       /\ i.rs1 \in Reg /\ i.rs2 \in Reg /\ i.csr \in Csr
                       /\ i.op # "NOP" /\ (i.op = "DIV" => i.fn \in DivFn)
  BY DEF Instr, Op
<1> QED
  BY <1>1, <1>2, <1>3, Bubble, Rv32Assumption

\* A redirect and a register write happen only in the last clock of an
\* instruction in EX; a bubble does neither.
LEMMA LastClock ==
    ASSUME Inv, NEW dv, dv => m_valid_d
    PROVE  /\ branch_taken => s_ready(dv)
           /\ rf_we(dv) => s_ready(dv)
           /\ inst = NOP => s_ready(dv) /\ ~branch_taken /\ ~rf_we(dv) /\ ~alu_req
           /\ alu_req => inst.op = "DIV"
           /\ m_valid_d => (is_load \/ is_store) /\ ~misaligned_mem
<1>1. alu_req => inst.op = "DIV"
  BY DEF Inv, DivisionOwned
<1>2. m_valid_d => (is_load \/ is_store) /\ ~misaligned_mem
  BY DEF Inv, RequestOwned
<1>3. branch_taken => s_ready(dv)
  BY <1>1 DEF branch_taken, s_ready, misaligned_mem, is_load, is_store
<1>4. rf_we(dv) => s_ready(dv)
  BY <1>1 DEF rf_we, s_ready, misaligned_mem, is_load, is_store, alu_done
<1>5. inst = NOP => s_ready(dv) /\ ~branch_taken /\ ~rf_we(dv) /\ ~alu_req
  BY <1>1, Bubble
     DEF branch_taken, rf_we, s_ready, misaligned_mem, is_load, is_store, alu_done
<1> QED
  BY <1>1, <1>2, <1>3, <1>4, <1>5

\* The redirect goes to a word address, and what is written is a word.
LEMMA WireTypes ==
    ASSUME Inv, NEW dv
    PROVE  /\ branch_target \in Word /\ addr_i \in Word
           /\ rf_waddr \in Reg /\ rf_wdata \in Word
<1>1. branch_target \in Word
  <2>1. csr["mtvec"] \in Word /\ csr["mepc"] \in Word
    BY DEF Inv, TypeOK, Csr
  <2>2. Target(inst.fn, IDEX.pc, IDEX.rs1) \in Word
    BY InEx, Rv32Assumption
  <2> QED
    BY <2>1, <2>2 DEF branch_target
<1>2. addr_i \in Word
  BY <1>1 DEF addr_i, Inv, TypeOK
<1>3. rf_waddr \in Reg
  BY InEx DEF rf_waddr, Inv, TypeOK
<1>4. rf_wdata \in Word
  <2>1. d_rd \in Word /\ dmem[mem_address_d] \in Word /\ csr[inst.csr] \in Word
    BY InEx DEF Inv, TypeOK
  <2>2. /\ AluResult(inst.fn, IDEX.pc, IDEX.rs1, IDEX.rs2) \in Word
        /\ NextPc(IDEX.pc) \in Word
        /\ LoadValue(inst.fn, dmem[mem_address_d]) \in Word
    BY <2>1, InEx, Rv32Assumption
  <2> QED
    BY <2>1, <2>2 DEF rf_wdata
<1> QED
  BY <1>1, <1>2, <1>3, <1>4

\* The value of a register after this clock is the forwarded one.
LEMMA Forwarding ==
    ASSUME Inv, NEW dv, NEW r \in Reg, Decode(dv)
    PROVE  /\ regs' \in [Reg -> Word]
           /\ Forwarded(r, dv) \in Word
           /\ Read(regs', r) = Forwarded(r, dv)
           /\ ~rf_we(dv) => regs' = regs
<1>1. regs \in [Reg -> Word] /\ rf_waddr \in Reg /\ rf_wdata \in Word
  BY WireTypes DEF Inv, TypeOK
<1>2. regs' = IF rf_we(dv) THEN Write(regs, rf_waddr, rf_wdata) ELSE regs
  BY DEF Decode
<1>3. regs' \in [Reg -> Word]
  BY <1>1, <1>2, RegisterFile
<1>4. Read(regs', r) = Forwarded(r, dv)
  <2>1. CASE rf_we(dv)
    <3>1. regs' = Write(regs, rf_waddr, rf_wdata)
      BY <1>2, <2>1
    <3>2. regs'[r] = Write(regs, rf_waddr, rf_wdata)[r]
      BY <3>1
    <3>3. r # x0 /\ r = rf_waddr => regs'[r] = rf_wdata
      BY <1>1, <3>2 DEF Write
    <3>4. r # x0 /\ r # rf_waddr => regs'[r] = regs[r]
      BY <1>1, <3>2 DEF Write
    <3> QED
      BY <2>1, <3>3, <3>4 DEF Forwarded, Read
  <2>2. CASE ~rf_we(dv)
    BY <1>2, <2>2 DEF Forwarded, Read
  <2> QED
    BY <2>1, <2>2
<1> QED
  BY <1>2, <1>3, <1>4, RegisterFile

--------------------------------------------------------------------------------
(***************************************************************************)
(* The path of the program through the stages, one clock at a time.          *)
(***************************************************************************)

\* In a clock in which EX is held, nothing moves towards it.
LEMMA FetchHeld ==
    ASSUME Inv, NEW accept, NEW sv \in BOOLEAN, NEW dv, Clock(accept, sv, dv),
           accept \in BOOLEAN, ~s_ready(dv), ~branch_taken
    PROVE  /\ FetchPc' = FetchPc /\ IFID' = IFID /\ IDEX' = IDEX
           /\ discard' => inflight'
           /\ inflight' /\ ~discard' => pc' = NextPc(req_pc')
<1>1. /\ ~accept /\ req_pc' = req_pc
      /\ pc' = IF rsp_ok(sv) THEN req_pc ELSE pc
      /\ inflight' = (inflight /\ ~sv)
      /\ discard' = (~sv /\ discard)
      /\ sv => inflight
  BY DEF Clock, Ports, FetchRequest
<1>2. IFID' = IFID /\ IDEX' = IDEX
  BY DEF Clock, FetchLatch, Decode
<1>3. (discard => inflight) /\ (inflight /\ ~discard => pc = NextPc(req_pc))
  BY DEF Inv, Consecutive
<1> QED
  BY <1>1, <1>2, <1>3 DEF FetchPc, rsp_ok

\* When EX takes the next instruction, fetch moves on by at most the one it returns.
LEMMA FetchMoves ==
    ASSUME Inv, NEW accept \in BOOLEAN, NEW sv \in BOOLEAN, NEW dv, Clock(accept, sv, dv),
           s_ready(dv), ~branch_taken
    PROVE  /\ IDEX'.inst = IFID.inst /\ IDEX'.pc = IFID.pc
           /\ \/ IFID' = [IFID EXCEPT !.inst = NOP] /\ FetchPc' = FetchPc
              \/ IFID' = [inst |-> text[FetchPc], pc |-> FetchPc]
                 /\ FetchPc' = NextPc(FetchPc)
           /\ discard' => inflight'
           /\ inflight' /\ ~discard' => pc' = NextPc(req_pc')
<1>1. /\ pc' = IF accept THEN NextPc(pc) ELSE pc
      /\ req_pc' = IF accept THEN pc ELSE req_pc
      /\ inflight' = (accept \/ (inflight /\ ~sv))
      /\ discard' = (~sv /\ discard)
      /\ sv => inflight
      /\ accept => ~inflight \/ sv
  BY DEF Clock, Ports, FetchRequest, addr_i
<1>2. IDEX'.inst = IFID.inst /\ IDEX'.pc = IFID.pc
  BY DEF Clock, Decode
<1>3. (discard => inflight) /\ (inflight /\ ~discard => pc = NextPc(req_pc))
  BY DEF Inv, Consecutive
<1>4. CASE rsp_ok(sv)
  <2>1. IFID' = [inst |-> text[req_pc], pc |-> req_pc]
    BY <1>4 DEF Clock, FetchLatch
  <2>2. FetchPc = req_pc /\ FetchPc' = pc
    BY <1>1, <1>3, <1>4 DEF FetchPc, rsp_ok
  <2> QED
    BY <1>1, <1>2, <1>3, <1>4, <2>1, <2>2 DEF rsp_ok
<1>5. CASE ~rsp_ok(sv)
  <2>1. IFID' = [IFID EXCEPT !.inst = NOP]
    BY <1>5 DEF Clock, FetchLatch
  <2>2. FetchPc' = FetchPc
    BY <1>1, <1>3, <1>5 DEF FetchPc, rsp_ok
  <2> QED
    BY <1>1, <1>2, <1>3, <1>5, <2>1, <2>2 DEF rsp_ok
<1> QED
  BY <1>4, <1>5

\* A taken branch empties the stages, and the next fetch that counts is at its target.
LEMMA FetchRedirected ==
    ASSUME Inv, NEW accept \in BOOLEAN, NEW sv \in BOOLEAN, NEW dv, Clock(accept, sv, dv),
           branch_taken
    PROVE  /\ IDEX'.inst = NOP /\ IFID'.inst = NOP
           /\ FetchPc' = branch_target
           /\ discard' => inflight'
           /\ inflight' /\ ~discard' => pc' = NextPc(req_pc')
<1>1. /\ pc' = IF accept THEN NextPc(branch_target) ELSE branch_target
      /\ req_pc' = IF accept THEN branch_target ELSE req_pc
      /\ inflight' = (accept \/ (inflight /\ ~sv))
      /\ discard' = (~sv /\ (discard \/ inflight))
      /\ sv => inflight
      /\ accept => ~inflight \/ sv
  BY DEF Clock, Ports, FetchRequest, addr_i, rsp_ok
<1>2. IDEX'.inst = NOP /\ IFID'.inst = NOP
  <2>1. IDEX' = [inst |-> NOP, pc |-> IFID.pc, rs1 |-> Zero, rs2 |-> Zero]
    BY DEF Clock, Decode
  <2>2. IFID' = [inst |-> NOP, pc |-> branch_target]
    BY DEF Clock, FetchLatch, rsp_ok
  <2> QED
    BY <2>1, <2>2
<1>3. discard => inflight
  BY DEF Inv, Consecutive
<1> QED
  BY <1>1, <1>2, <1>3 DEF FetchPc

\* Where the program is after a clock: where it was while EX is held, and at
\* the target of the branch or at the next instruction to enter EX otherwise.
LEMMA PathStep ==
    ASSUME Inv, NEW accept \in BOOLEAN, NEW sv \in BOOLEAN, NEW dv, Clock(accept, sv, dv)
    PROVE  /\ Consecutive'
           /\ ~s_ready(dv) => ArchPc' = ArchPc
           /\ branch_taken => ArchPc' = branch_target
           /\ s_ready(dv) /\ ~branch_taken => ArchPc' = DecodePc
<1>1. dv => m_valid_d
  BY DEF Clock, Ports
<1>2. text' = text /\ text \in [Word -> Instr] /\ FetchPc \in Word
  BY DEF Clock, Inv, TypeOK, FetchPc
<1>3. text[FetchPc] # NOP
  BY <1>2, Bubble
<1>4. /\ IFID.inst # NOP => IFID.inst = text[IFID.pc] /\ FetchPc = NextPc(IFID.pc)
      /\ inst # NOP => inst = text[IDEX.pc] /\ DecodePc = NextPc(IDEX.pc)
  BY DEF Inv, Consecutive
<1>5. CASE ~s_ready(dv)
  <2>1. ~branch_taken
    BY <1>1, <1>5, LastClock
  <2> QED
    BY <1>2, <1>4, <1>5, <2>1, FetchHeld DEF Consecutive, ArchPc, DecodePc, inst
<1>6. CASE branch_taken
  <2>1. s_ready(dv)
    BY <1>1, <1>6, LastClock
  <2> QED
    BY <1>6, <2>1, FetchRedirected DEF Consecutive, ArchPc, DecodePc, inst
<1>7. CASE s_ready(dv) /\ ~branch_taken
  <2>1. /\ inst' = IFID.inst /\ IDEX'.pc = IFID.pc
        /\ discard' => inflight'
        /\ inflight' /\ ~discard' => pc' = NextPc(req_pc')
    BY <1>7, FetchMoves DEF inst
  <2>2. CASE IFID' = [IFID EXCEPT !.inst = NOP] /\ FetchPc' = FetchPc
    <3>1. IFID'.inst = NOP
      BY <2>2 DEF Inv, TypeOK
    <3> QED
      BY <1>2, <1>4, <1>7, <2>1, <2>2, <3>1 DEF Consecutive, ArchPc, DecodePc
  <2>3. CASE IFID' = [inst |-> text[FetchPc], pc |-> FetchPc] /\ FetchPc' = NextPc(FetchPc)
    <3>1. IFID'.inst = text[FetchPc] /\ IFID'.inst # NOP /\ IFID'.pc = FetchPc
      BY <2>3, <1>3
    <3> QED
      BY <1>2, <1>4, <1>7, <2>1, <2>3, <3>1 DEF Consecutive, ArchPc, DecodePc
  <2> QED
    BY <1>7, <2>2, <2>3, FetchMoves
<1> QED
  BY <1>5, <1>6, <1>7

--------------------------------------------------------------------------------
(***************************************************************************)
(* The other parts of the invariant.                                         *)
(***************************************************************************)

LEMMA OperandsStep ==
    ASSUME Inv, NEW accept, NEW sv, NEW dv, Clock(accept, sv, dv)
    PROVE  OperandsFresh'
<1>1. (dv => m_valid_d) /\ Decode(dv)
  BY DEF Clock, Ports
<1>2. CASE branch_taken
  <2>1. IDEX'.inst = NOP
    BY <1>1, <1>2 DEF Decode
  <2> QED
    BY <2>1 DEF OperandsFresh, inst
<1>3. CASE s_ready(dv) /\ ~branch_taken
  <2>1. IDEX' = [inst |-> IFID.inst, pc |-> IFID.pc,
                 rs1 |-> Forwarded(IFID.inst.rs1, dv),
                 rs2 |-> Forwarded(IFID.inst.rs2, dv)]
    BY <1>1, <1>3 DEF Decode
  <2>2. /\ Read(regs', IFID.inst.rs1) = Forwarded(IFID.inst.rs1, dv)
        /\ Read(regs', IFID.inst.rs2) = Forwarded(IFID.inst.rs2, dv)
    BY <1>1, InEx, Forwarding
  <2> QED
    BY <2>1, <2>2 DEF OperandsFresh, inst
<1>4. CASE ~s_ready(dv)
  <2>1. ~branch_taken /\ ~rf_we(dv)
    BY <1>1, <1>4, LastClock
  <2>2. IDEX' = IDEX /\ regs' = regs
    BY <1>1, <1>4, <2>1 DEF Decode
  <2> QED
    BY <2>2 DEF Inv, OperandsFresh, inst
<1> QED
  BY <1>2, <1>3, <1>4

LEMMA DivisionStep ==
    ASSUME Inv, NEW accept, NEW sv, NEW dv, Clock(accept, sv, dv)
    PROVE  DivisionOwned'
<1>1. (dv => m_valid_d) /\ Decode(dv) /\ Execute(dv) /\ Alu
  BY DEF Clock, Ports
<1>2. DivisionOwned /\ (m_valid_d => inst.op # "DIV")
  BY DEF Inv, RequestOwned, is_load, is_store
<1>3. CASE inst.op = "DIV" /\ ~alu_done
  <2>1. ~s_ready(dv) /\ ~branch_taken
    BY <1>1, <1>3, LastClock DEF s_ready
  <2>2. IDEX' = IDEX
    BY <1>1, <2>1 DEF Decode
  <2>3. alu_req' /\ IDEX_rd_as' = inst.rd
    BY <1>1, <1>2, <1>3
       DEF Execute, DataAnswered, DataWaiting, DataIssue, TrapEntry, DivIssue, DivRetire,
           CsrAccess, NoUpdate, is_load, is_store, misaligned_mem
  <2>4. inst' = inst /\ IDEX'.rs1 = IDEX.rs1 /\ IDEX'.rs2 = IDEX.rs2
    BY <2>2 DEF inst
  <2>5. CASE AluStart
    <3>1. /\ cState' = "DIV_WAIT" /\ op_f3' = inst.fn /\ numer' = IDEX.rs1
          /\ denom' = IDEX.rs2 /\ settling' = Latency /\ loaded' = (op_f3 \in DivFn)
          /\ loaded' => div_counter' = DIV_DELAY
      BY <2>5 DEF AluStart
    <3>2. Latency <= DIV_DELAY + 1
      BY DividerAssumption
    <3>3. op_f3' \in DivFn /\ (loaded' => settling' <= div_counter' + 1)
      BY <1>3, <3>1, <3>2, InEx
    <3> QED
      BY <1>3, <2>3, <2>4, <3>1, <3>3 DEF DivisionOwned
  <2>6. CASE AluWait
    <3>1. /\ cState' \in {"DIV_WAIT", "DIV_COMP"} /\ UNCHANGED <<op_f3, numer, denom, loaded>>
          /\ cState = "DIV_WAIT"
      BY <2>6 DEF AluWait
    <3>2. /\ settling \in Nat /\ div_counter \in Nat
          /\ loaded => settling <= div_counter + 1
      BY <1>2, <3>1, DividerAssumption DEF Inv, TypeOK, DivisionOwned
    <3>3. loaded' => /\ cState' = "DIV_WAIT" => settling' <= div_counter' + 1
                     /\ cState' = "DIV_COMP" => settling' = 0
      BY <2>6, <3>1, <3>2 DEF AluWait
    <3> QED
      BY <1>2, <1>3, <2>3, <2>4, <3>1, <3>3 DEF DivisionOwned
  <2>7. CASE AluComp
    <3>1. /\ cState' = "DONE" /\ UNCHANGED <<op_f3, loaded>> /\ cState = "DIV_COMP"
          /\ settling = 0 => d_rd' = DivResult(op_f3, numer, denom)
      BY <2>7 DEF AluComp
    <3> QED
      BY <1>2, <1>3, <2>3, <2>4, <3>1 DEF DivisionOwned
  <2>8. ~AluIdle /\ ~AluEnd
    BY <1>2, <1>3 DEF AluIdle, AluEnd, alu_issue, alu_done, DivisionOwned
  <2> QED
    BY <1>1, <2>5, <2>6, <2>7, <2>8 DEF Alu
<1>4. CASE inst.op = "DIV" /\ alu_done
  <2>1. alu_req' = FALSE
    BY <1>1, <1>2, <1>4
       DEF Execute, DataAnswered, DataWaiting, DataIssue, TrapEntry, DivIssue, DivRetire,
           CsrAccess, NoUpdate, is_load, is_store, misaligned_mem
  <2>2. cState' = "IDLE"
    BY <1>1, <1>4 DEF Alu, AluIdle, AluStart, AluWait, AluComp, AluEnd, alu_done
  <2> QED
    BY <2>1, <2>2 DEF DivisionOwned
<1>5. CASE inst.op # "DIV"
  <2>1. ~alu_req /\ cState = "IDLE"
    BY <1>2, <1>5 DEF DivisionOwned
  <2>2. alu_req' = FALSE
    BY <1>1, <1>5, <2>1
       DEF Execute, DataAnswered, DataWaiting, DataIssue, TrapEntry, DivIssue, DivRetire,
           CsrAccess, NoUpdate
  <2>3. cState' = "IDLE"
    BY <1>1, <1>5, <2>1
       DEF Alu, AluIdle, AluStart, AluWait, AluComp, AluEnd, alu_issue, aluVars
  <2> QED
    BY <2>2, <2>3 DEF DivisionOwned
<1> QED
  BY <1>3, <1>4, <1>5

LEMMA RequestStep ==
    ASSUME Inv, NEW accept, NEW sv, NEW dv, Clock(accept, sv, dv)
    PROVE  RequestOwned'
<1>1. (dv => m_valid_d) /\ Decode(dv) /\ Execute(dv)
  BY DEF Clock, Ports
<1>2. CASE m_valid_d /\ dv
  <2>1. ~alu_done /\ inst.op \in {"LOAD", "STORE"} /\ ~misaligned_mem
    BY <1>2 DEF Inv, RequestOwned, DivisionOwned, is_load, is_store, alu_done
  <2>2. ~m_valid_d'
    BY <1>1, <1>2, <2>1
       DEF Execute, DataAnswered, DataWaiting, DataIssue, TrapEntry, DivIssue, DivRetire,
           CsrAccess, NoUpdate
  <2> QED
    BY <2>2 DEF RequestOwned
<1>3. CASE ~m_valid_d /\ (is_load \/ is_store) /\ ~misaligned_mem
  <2>1. ~s_ready(dv) /\ ~branch_taken
    BY <1>1, <1>3, LastClock DEF s_ready
  <2>2. IDEX' = IDEX
    BY <1>1, <2>1 DEF Decode
  <2>3. DataIssue
    BY <1>1, <1>3
       DEF Execute, DataAnswered, DataWaiting, TrapEntry, DivIssue, DivRetire,
           CsrAccess, NoUpdate, is_load, is_store, alu_done, Inv, DivisionOwned
  <2> QED
    BY <1>3, <2>2, <2>3
       DEF DataIssue, RequestOwned, inst, is_load, is_store, misaligned_mem, ls_addr
<1>4. CASE m_valid_d /\ ~dv
  <2>1. inst.op \in {"LOAD", "STORE"} /\ ~misaligned_mem /\ ~alu_done
    BY <1>4 DEF Inv, RequestOwned, DivisionOwned, is_load, is_store, alu_done
  <2>2. ~s_ready(dv) /\ ~branch_taken
    BY <1>1, <1>4, <2>1, LastClock DEF s_ready, is_load, is_store
  <2>3. IDEX' = IDEX
    BY <1>1, <2>2 DEF Decode
  <2>4. UNCHANGED portVars
    BY <1>1, <1>4, <2>1
       DEF Execute, DataAnswered, DataWaiting, DataIssue, TrapEntry, DivIssue, DivRetire,
           CsrAccess, NoUpdate
  <2> QED
    BY <2>3, <2>4
       DEF Inv, portVars, RequestOwned, inst, is_load, is_store, misaligned_mem, ls_addr
<1>5. CASE ~m_valid_d /\ ~((is_load \/ is_store) /\ ~misaligned_mem)
  <2>1. ~m_valid_d'
    BY <1>1, <1>5
       DEF Execute, DataAnswered, DataWaiting, DataIssue, TrapEntry, DivIssue, DivRetire,
           CsrAccess, NoUpdate, portVars
  <2> QED
    BY <2>1 DEF RequestOwned
<1> QED
  BY <1>2, <1>3, <1>4, <1>5

\* What execute.v's registers become: words, function codes and registers.
LEMMA ExecuteTypes ==
    ASSUME Inv, NEW dv, dv => m_valid_d, Execute(dv)
    PROVE  /\ dmem' \in [Word -> Word] /\ csr' \in [Csr -> Word]
           /\ m_valid_d' \in BOOLEAN /\ mem_rw_d' \in BOOLEAN
           /\ mem_address_d' \in Word /\ mem_write_data' \in Word /\ mem_size_d' \in Fn
           /\ alu_req' \in BOOLEAN /\ IDEX_rd_as' \in Reg
<1>1. /\ dmem \in [Word -> Word] /\ csr \in [Csr -> Word]
      /\ m_valid_d \in BOOLEAN /\ mem_rw_d \in BOOLEAN
      /\ mem_address_d \in Word /\ mem_write_data \in Word /\ mem_size_d \in Fn
      /\ alu_req \in BOOLEAN /\ IDEX_rd_as \in Reg
  BY DEF Inv, TypeOK
<1>2. CASE DataAnswered(dv)
  <2>1. StoreValue(mem_size_d, dmem[mem_address_d], mem_write_data) \in Word
    BY <1>1, Rv32Assumption
  <2> QED
    BY <1>1, <1>2, <2>1 DEF DataAnswered, Access
<1>3. CASE DataWaiting(dv)
  BY <1>1, <1>3 DEF DataWaiting, portVars
<1>4. CASE DataIssue
  <2>1. ls_addr \in Word
    BY InEx, Rv32Assumption DEF ls_addr
  <2> QED
    BY <1>1, <1>4, <2>1, InEx DEF DataIssue, is_store
<1>5. CASE TrapEntry
  <2>1. inst \in Instr /\ inst.op \in {"LOAD", "STORE", "ECALL"}
    BY <1>5, InEx DEF TrapEntry, misaligned_mem, is_load, is_store
  <2>2. csr' \in [Csr -> Word]
    BY <1>1, <1>5, <2>1, InEx, CsrFile DEF TrapEntry
  <2> QED
    BY <1>1, <1>5, <2>2 DEF TrapEntry, portVars
<1>6. CASE DivIssue
  BY <1>1, <1>6, InEx DEF DivIssue, portVars
<1>7. CASE DivRetire
  BY <1>1, <1>7 DEF DivRetire, portVars
<1>8. CASE CsrAccess
  <2>1. inst \in Instr
    BY <1>8, InEx DEF CsrAccess
  <2>2. csr' \in [Csr -> Word]
    BY <1>1, <1>8, <2>1, InEx, CsrFile DEF CsrAccess
  <2> QED
    BY <1>1, <1>8, <2>2 DEF CsrAccess, portVars
<1>9. CASE NoUpdate
  BY <1>1, <1>9 DEF NoUpdate, portVars
<1> QED
  BY <1>2, <1>3, <1>4, <1>5, <1>6, <1>7, <1>8, <1>9 DEF Execute

LEMMA TypeStep ==
    ASSUME Inv, NEW accept \in BOOLEAN, NEW sv \in BOOLEAN, NEW dv, Clock(accept, sv, dv)
    PROVE  TypeOK'
<1>1. (dv => m_valid_d) /\ Decode(dv) /\ Execute(dv) /\ Alu
  BY DEF Clock, Ports
<1>2. text' \in [Word -> Instr]
  BY DEF Clock, Inv, TypeOK
<1>3. pc' \in Word /\ req_pc' \in Word /\ inflight' \in BOOLEAN /\ discard' \in BOOLEAN
  <2>1. pc \in Word /\ req_pc \in Word /\ addr_i \in Word /\ branch_target \in Word
    BY WireTypes DEF Inv, TypeOK
  <2>2. NextPc(addr_i) \in Word
    BY <2>1, Rv32Assumption
  <2>3. pc' \in {NextPc(addr_i), branch_target, req_pc, pc}
    BY DEF Clock, FetchRequest
  <2>4. req_pc' \in {addr_i, req_pc}
    BY DEF Clock, FetchRequest
  <2>5. inflight' \in BOOLEAN /\ discard' \in BOOLEAN
    BY DEF Clock, FetchRequest
  <2> QED
    BY <2>1, <2>2, <2>3, <2>4, <2>5
<1>4. IFID' \in [inst : Instr \cup {NOP}, pc : Word]
  <2>1. text[req_pc] \in Instr /\ req_pc \in Word
    BY DEF Inv, TypeOK
  <2>2. branch_target \in Word
    BY WireTypes
  <2> QED
    BY <2>1, <2>2 DEF Clock, FetchLatch, Inv, TypeOK
<1>5. regs' \in [Reg -> Word]
  BY <1>1, Forwarding, Rv32Assumption
<1>6. IDEX' \in [inst : Instr \cup {NOP}, pc : Word, rs1 : Word, rs2 : Word]
  <2>1. Forwarded(IFID.inst.rs1, dv) \in Word /\ Forwarded(IFID.inst.rs2, dv) \in Word
    BY <1>1, InEx, Forwarding
  <2> QED
    BY <1>1, <2>1, InEx, Rv32Assumption DEF Decode, Inv, TypeOK
<1>7. /\ cState' \in {"IDLE", "DIV_WAIT", "DIV_COMP", "DONE"}
      /\ op_f3' \in Fn /\ numer' \in Word /\ denom' \in Word /\ d_rd' \in Word
      /\ div_counter' \in 0 .. CounterMax /\ settling' \in 0 .. Latency /\ loaded' \in BOOLEAN
  <2>1. /\ cState \in {"IDLE", "DIV_WAIT", "DIV_COMP", "DONE"}
        /\ op_f3 \in Fn /\ numer \in Word /\ denom \in Word /\ d_rd \in Word
        /\ div_counter \in 0 .. CounterMax /\ settling \in 0 .. Latency /\ loaded \in BOOLEAN
        /\ DIV_DELAY \in 0 .. CounterMax /\ Latency \in Nat /\ CounterMax \in Nat
    BY DividerAssumption DEF Inv, TypeOK
  <2>2. DivResult(op_f3, numer, denom) \in Word
    BY <2>1, Rv32Assumption
  <2>3. CASE AluWait
    BY <2>1, <2>3 DEF AluWait
  <2>4. CASE AluIdle \/ AluStart \/ AluComp \/ AluEnd
    <3>1. CASE AluComp
      <4>1. d_rd' \in Word
        BY <2>2, <3>1 DEF AluComp
      <4> QED
        BY <2>1, <3>1, <4>1 DEF AluComp
    <3>2. CASE AluStart
      <4>1. inst.fn \in Fn /\ IDEX.rs1 \in Word /\ IDEX.rs2 \in Word
        BY InEx
      <4> QED
        BY <2>1, <3>2, <4>1 DEF AluStart
    <3>3. CASE AluIdle \/ AluEnd
      BY <2>1, <3>3 DEF AluIdle, AluEnd, aluVars
    <3> QED
      BY <2>4, <3>1, <3>2, <3>3
  <2> QED
    BY <1>1, <2>3, <2>4 DEF Alu
<1> QED
  BY <1>1, <1>2, <1>3, <1>4, <1>5, <1>6, <1>7, ExecuteTypes DEF TypeOK

THEOREM NextInv == Inv /\ [Next]_vars => Inv'
<1> SUFFICES ASSUME Inv, [Next]_vars PROVE Inv'
  OBVIOUS
<1>1. CASE Next
  <2>1. PICK accept, sv, dv \in BOOLEAN : Clock(accept, sv, dv)
    BY <1>1 DEF Next
  <2> QED
    BY <2>1, TypeStep, PathStep, OperandsStep, DivisionStep, RequestStep DEF Inv
<1>2. CASE UNCHANGED vars
  <2>1. /\ UNCHANGED <<pc, req_pc, inflight, discard, IFID, IDEX, regs>>
        /\ UNCHANGED <<m_valid_d, mem_address_d, mem_rw_d, mem_size_d, mem_write_data>>
        /\ UNCHANGED <<alu_req, IDEX_rd_as, cState, op_f3, numer, denom, d_rd>>
        /\ UNCHANGED <<div_counter, settling, loaded>>
        /\ UNCHANGED <<csr, dmem, text>>
    BY <1>2 DEF vars, fetchVars, portVars, aluVars
  <2>2. TypeOK' /\ Consecutive'
    BY <2>1 DEF Inv, TypeOK, Consecutive, FetchPc, DecodePc, inst
  <2>3. OperandsFresh' /\ DivisionOwned'
    BY <2>1 DEF Inv, OperandsFresh, DivisionOwned, inst
  <2>4. RequestOwned'
    BY <2>1 DEF Inv, RequestOwned, inst, is_load, is_store, misaligned_mem, ls_addr
  <2> QED
    BY <2>2, <2>3, <2>4 DEF Inv
<1> QED
  BY <1>1, <1>2

THEOREM Invariance == Spec => []Inv
  BY InitInv, NextInv, PTL DEF Spec

--------------------------------------------------------------------------------
(***************************************************************************)
(* Every clock is one step of the instruction set, or none.                  *)
(***************************************************************************)

\* The divider is warm, in the sense of Isa, from the end of the first division on.
LEMMA WarmStep ==
    ASSUME Inv, NEW accept, NEW sv, NEW dv, Clock(accept, sv, dv)
    PROVE  /\ Warm \in BOOLEAN
           /\ Warm' = (Warm \/ alu_done)
           /\ ~(inst.op = "DIV" /\ alu_done) => Warm' = Warm
<1>1. Alu /\ DivisionOwned /\ loaded \in BOOLEAN
  BY DEF Clock, Inv, TypeOK
<1>2. CASE AluIdle
  BY <1>1, <1>2 DEF AluIdle, Warm, aluVars, alu_done, DivisionOwned
<1>3. CASE AluStart
  BY <1>1, <1>3 DEF AluStart, Warm, alu_done
<1>4. CASE AluWait \/ AluComp
  BY <1>1, <1>4 DEF AluWait, AluComp, Warm, alu_done
<1>5. CASE AluEnd
  <2>1. cState' = "IDLE" /\ op_f3' = op_f3 /\ op_f3 \in DivFn /\ alu_done /\ inst.op = "DIV"
    BY <1>1, <1>5 DEF AluEnd, DivisionOwned, alu_done
  <2> QED
    BY <1>1, <1>5, <2>1 DEF Warm, AluEnd
<1> QED
  BY <1>1, <1>2, <1>3, <1>4, <1>5 DEF Alu

\* While EX holds an instruction, nothing a program can see changes.
LEMMA HeldStutters ==
    ASSUME Inv, NEW accept \in BOOLEAN, NEW sv \in BOOLEAN, NEW dv, Clock(accept, sv, dv),
           ~s_ready(dv)
    PROVE  UNCHANGED <<ArchPc, regs, csr, dmem, text, Warm>>
<1>1. (dv => m_valid_d) /\ Decode(dv) /\ Execute(dv) /\ text' = text
  BY DEF Clock, Ports
<1>2. ~branch_taken /\ ~rf_we(dv) /\ inst # NOP
  BY <1>1, LastClock
<1>3. regs' = regs
  BY <1>1, <1>2 DEF Decode
<1>4. ArchPc' = ArchPc
  BY PathStep
<1>5. \/ inst.op = "DIV" /\ ~alu_done /\ ~m_valid_d
      \/ inst.op \in {"LOAD", "STORE"} /\ ~misaligned_mem /\ ~alu_done /\ ~(dv /\ m_valid_d)
  BY <1>1, LastClock DEF s_ready, alu_done, is_load, is_store
<1>6. csr' = csr /\ dmem' = dmem
  BY <1>1, <1>5
     DEF Execute, DataAnswered, DataWaiting, DataIssue, TrapEntry, DivIssue, DivRetire,
         CsrAccess, NoUpdate, is_load, is_store, misaligned_mem
<1>7. Warm' = Warm
  BY <1>5, WarmStep
<1> QED
  BY <1>1, <1>3, <1>4, <1>6, <1>7

\* A bubble leaves no trace.
LEMMA BubbleStutters ==
    ASSUME Inv, NEW accept \in BOOLEAN, NEW sv \in BOOLEAN, NEW dv, Clock(accept, sv, dv),
           inst = NOP
    PROVE  UNCHANGED <<ArchPc, regs, csr, dmem, text, Warm>>
<1>1. (dv => m_valid_d) /\ Decode(dv) /\ Execute(dv) /\ text' = text
  BY DEF Clock, Ports
<1>2. s_ready(dv) /\ ~branch_taken /\ ~rf_we(dv) /\ inst.op = "NOP" /\ ~alu_req /\ ~m_valid_d
  BY <1>1, LastClock, Bubble DEF is_load, is_store
<1>3. regs' = regs
  BY <1>1, <1>2 DEF Decode
<1>4. ArchPc' = ArchPc
  BY <1>2, PathStep DEF ArchPc
<1>5. csr' = csr /\ dmem' = dmem
  BY <1>1, <1>2
     DEF Execute, DataAnswered, DataWaiting, DataIssue, TrapEntry, DivIssue, DivRetire,
         CsrAccess, NoUpdate, is_load, is_store, misaligned_mem, alu_done
<1>6. Warm' = Warm
  BY <1>2, WarmStep DEF alu_done
<1> QED
  BY <1>1, <1>3, <1>4, <1>5, <1>6

\* The functions of Rv32 mean the same in both modules.
LEMMA SameFunctions ==
    /\ \A f, r : I!Read(f, r) = Read(f, r)
    /\ \A f, r, v : I!Write(f, r, v) = Write(f, r, v)
    /\ \A c, i, a : I!CsrWrite(c, i, a) = CsrWrite(c, i, a)
    /\ \A c, o, p : I!Trapped(c, o, p) = Trapped(c, o, p)
    /\ I!CsrPowerUp = CsrPowerUp
<1>1. I!Csr = Csr
  BY DEF I!Csr, Csr
<1> QED
  BY <1>1
     DEF I!Read, Read, I!Write, Write, I!CsrWrite, CsrWrite, I!Trapped, Trapped,
         I!CsrPowerUp, CsrPowerUp

\* In its last clock in EX an instruction has its whole effect, and only its own.
LEMMA RetireStep ==
    ASSUME Inv, NEW accept \in BOOLEAN, NEW sv \in BOOLEAN, NEW dv, Clock(accept, sv, dv),
           inst # NOP, s_ready(dv)
    PROVE  I!Next \/ I!ColdDivide
<1>1. (dv => m_valid_d) /\ Decode(dv) /\ Execute(dv) /\ text' = text
  BY DEF Clock, Ports
<1>2. ArchPc = IDEX.pc /\ text[ArchPc] = inst /\ DecodePc = NextPc(ArchPc)
  BY DEF ArchPc, Inv, Consecutive
<1>3. /\ I!Inst = inst
      /\ I!Rs1 = IDEX.rs1 /\ I!Rs2 = IDEX.rs2 /\ I!Address = ls_addr
  BY <1>2, SameFunctions DEF I!Inst, I!Rs1, I!Rs2, I!Address, ls_addr, Inv, OperandsFresh
<1>4. regs' = IF rf_we(dv) THEN Write(regs, rf_waddr, rf_wdata) ELSE regs
  BY <1>1 DEF Decode
<1>5. ArchPc' = IF branch_taken THEN branch_target ELSE NextPc(ArchPc)
  BY <1>2, PathStep
<1>6. /\ inst.op \in Op
      /\ alu_req => inst.op = "DIV"
      /\ m_valid_d => inst.op \in {"LOAD", "STORE"} /\ ~misaligned_mem
  BY <1>1, InEx, LastClock DEF is_load, is_store
<1>w. Warm' = (Warm \/ I!Inst.op = "DIV")
  <2>1. CASE inst.op = "DIV"
    <3>1. alu_done
      BY <2>1 DEF s_ready
    <3> QED
      BY <1>3, <2>1, <3>1, WarmStep
  <2>2. CASE inst.op # "DIV"
    BY <1>3, <2>2, WarmStep
  <2> QED
    BY <2>1, <2>2
<1>7. CASE inst.op = "ALU"
  <2>1. regs' = Write(regs, inst.rd, AluResult(inst.fn, IDEX.pc, IDEX.rs1, IDEX.rs2))
    BY <1>4, <1>6, <1>7 DEF rf_we, rf_waddr, rf_wdata, alu_done, is_load
  <2>2. csr' = csr /\ dmem' = dmem /\ ArchPc' = NextPc(ArchPc)
    BY <1>1, <1>5, <1>6, <1>7
       DEF Execute, DataAnswered, DataWaiting, DataIssue, TrapEntry, DivIssue, DivRetire,
           CsrAccess, NoUpdate, is_load, is_store, misaligned_mem, alu_done, branch_taken
  <2>3. I!Compute
    BY <1>1, <1>w, <1>2, <1>3, <1>7, <2>1, <2>2, SameFunctions
       DEF I!Compute, I!Retire
  <2> QED
    BY <2>3 DEF I!Next
<1>8. CASE inst.op = "DIV"
  <2>1. /\ alu_done /\ IDEX_rd_as = inst.rd
        /\ loaded => d_rd = DivResult(inst.fn, IDEX.rs1, IDEX.rs2)
        /\ Warm = loaded /\ d_rd \in Word
    BY <1>8 DEF s_ready, alu_done, Inv, DivisionOwned, TypeOK, Warm
  <2>2. regs' = Write(regs, inst.rd, d_rd)
    BY <1>4, <1>8, <2>1 DEF rf_we, rf_waddr, rf_wdata, is_load
  <2>3. csr' = csr /\ dmem' = dmem /\ ArchPc' = NextPc(ArchPc)
    BY <1>1, <1>5, <1>6, <1>8
       DEF Execute, DataAnswered, DataWaiting, DataIssue, TrapEntry, DivIssue, DivRetire,
           CsrAccess, NoUpdate, is_load, is_store, misaligned_mem, branch_taken
  <2>4. CASE loaded
    <3>1. I!Compute
      BY <1>1, <1>w, <1>2, <1>3, <1>8, <2>1, <2>2, <2>3, <2>4, SameFunctions
         DEF I!Compute, I!Retire
    <3> QED
      BY <3>1 DEF I!Next
  <2>5. CASE ~loaded
    <3>1. I!Retire(NextPc(ArchPc), Write(regs, inst.rd, d_rd), csr, dmem)
      BY <1>1, <1>w, <2>2, <2>3 DEF I!Retire
    <3>2. I!Retire(NextPc(ArchPc), I!Write(regs, I!Inst.rd, d_rd), csr, dmem)
      BY <1>3, <3>1, SameFunctions
    <3> QED
      BY <1>3, <1>8, <2>1, <2>5, <3>2 DEF I!ColdDivide
  <2> QED
    BY <2>4, <2>5
<1>9. CASE inst.op = "BRANCH"
  <2>1. csr' = csr /\ dmem' = dmem /\ regs' = regs
    BY <1>1, <1>4, <1>6, <1>9
       DEF Execute, DataAnswered, DataWaiting, DataIssue, TrapEntry, DivIssue, DivRetire,
           CsrAccess, NoUpdate, is_load, is_store, misaligned_mem, alu_done, rf_we
  <2>2. ArchPc' = IF Taken(inst.fn, IDEX.rs1, IDEX.rs2)
                  THEN Target(inst.fn, ArchPc, IDEX.rs1) ELSE NextPc(ArchPc)
    BY <1>2, <1>5, <1>6, <1>9
       DEF branch_taken, branch_target, misaligned_mem, is_load, is_store
  <2>3. I!Branch
    BY <1>1, <1>w, <1>3, <1>9, <2>1, <2>2
       DEF I!Branch, I!Retire
  <2> QED
    BY <2>3 DEF I!Next
<1>10. CASE inst.op = "JUMP"
  <2>1. regs' = Write(regs, inst.rd, NextPc(ArchPc))
    BY <1>2, <1>4, <1>6, <1>10 DEF rf_we, rf_waddr, rf_wdata, alu_done, is_load
  <2>2. /\ csr' = csr /\ dmem' = dmem
        /\ ArchPc' = Target(inst.fn, ArchPc, IDEX.rs1)
    BY <1>1, <1>2, <1>5, <1>6, <1>10
       DEF Execute, DataAnswered, DataWaiting, DataIssue, TrapEntry, DivIssue, DivRetire,
           CsrAccess, NoUpdate, is_load, is_store, misaligned_mem, alu_done,
           branch_taken, branch_target
  <2>3. I!Jump
    BY <1>1, <1>w, <1>3, <1>10, <2>1, <2>2, SameFunctions
       DEF I!Jump, I!Retire
  <2> QED
    BY <2>3 DEF I!Next
<1>11. CASE inst.op = "LOAD" /\ ~misaligned_mem
  <2>1. dv /\ m_valid_d /\ mem_address_d = ls_addr /\ ~mem_rw_d
    BY <1>11 DEF s_ready, is_load, is_store, Inv, RequestOwned
  <2>2. regs' = Write(regs, inst.rd, LoadValue(inst.fn, dmem[ls_addr]))
    BY <1>4, <1>6, <1>11, <2>1 DEF rf_we, rf_waddr, rf_wdata, is_load, alu_done
  <2>3. csr' = csr /\ dmem' = dmem
    BY <1>1, <1>6, <1>11, <2>1
       DEF Execute, DataAnswered, DataWaiting, DataIssue, TrapEntry, DivIssue, DivRetire,
           CsrAccess, NoUpdate, Access, alu_done
  <2>4. ArchPc' = NextPc(ArchPc)
    BY <1>5, <1>11 DEF branch_taken
  <2>5. I!Load
    BY <1>1, <1>w, <1>3, <1>11, <2>2, <2>3, <2>4, SameFunctions
       DEF I!Load, I!Retire, misaligned_mem, is_load
  <2> QED
    BY <2>5 DEF I!Next
<1>12. CASE inst.op = "STORE" /\ ~misaligned_mem
  <2>1. /\ dv /\ m_valid_d /\ mem_address_d = ls_addr /\ mem_rw_d
        /\ mem_size_d = inst.fn /\ mem_write_data = IDEX.rs2
    BY <1>12 DEF s_ready, is_load, is_store, Inv, RequestOwned
  <2>2. regs' = regs
    BY <1>4, <1>6, <1>12 DEF rf_we, is_load, alu_done
  <2>3. /\ csr' = csr
        /\ dmem' = [dmem EXCEPT ![ls_addr] = StoreValue(inst.fn, @, IDEX.rs2)]
    BY <1>1, <1>6, <1>12, <2>1
       DEF Execute, DataAnswered, DataWaiting, DataIssue, TrapEntry, DivIssue, DivRetire,
           CsrAccess, NoUpdate, Access, alu_done
  <2>4. ArchPc' = NextPc(ArchPc)
    BY <1>5, <1>12 DEF branch_taken
  <2>5. I!Store
    BY <1>1, <1>w, <1>3, <1>12, <2>2, <2>3, <2>4, SameFunctions
       DEF I!Store, I!Retire, misaligned_mem, is_store
  <2> QED
    BY <2>5 DEF I!Next
<1>13. CASE inst.op = "ECALL" \/ misaligned_mem
  <2>1. inst.op \in {"ECALL", "LOAD", "STORE"} /\ ~m_valid_d /\ ~alu_req
    BY <1>6, <1>13 DEF misaligned_mem, is_load, is_store
  <2>2. regs' = regs
    BY <1>4, <1>13, <2>1 DEF rf_we, alu_done, is_load, misaligned_mem, is_store
  <2>3. csr' = Trapped(csr, inst.op, ArchPc) /\ dmem' = dmem
    BY <1>1, <1>2, <1>13, <2>1
       DEF Execute, DataAnswered, DataWaiting, DataIssue, TrapEntry, DivIssue, DivRetire,
           CsrAccess, NoUpdate, alu_done, misaligned_mem, is_load, is_store
  <2>4. ArchPc' = csr["mtvec"]
    BY <1>5, <1>13, <2>1 DEF branch_taken, branch_target
  <2>5. I!Trap
    BY <1>1, <1>w, <1>3, <1>13, <2>1, <2>2, <2>3, <2>4, SameFunctions
       DEF I!Trap, I!Retire, misaligned_mem, is_load, is_store
  <2> QED
    BY <2>5 DEF I!Next
<1>14. CASE inst.op = "MRET"
  <2>1. csr' = csr /\ dmem' = dmem /\ regs' = regs
    BY <1>1, <1>4, <1>6, <1>14
       DEF Execute, DataAnswered, DataWaiting, DataIssue, TrapEntry, DivIssue, DivRetire,
           CsrAccess, NoUpdate, is_load, is_store, misaligned_mem, alu_done, rf_we
  <2>2. ArchPc' = csr["mepc"]
    BY <1>5, <1>6, <1>14 DEF branch_taken, branch_target
  <2>3. I!Return
    BY <1>1, <1>w, <1>3, <1>14, <2>1, <2>2
       DEF I!Return, I!Retire
  <2> QED
    BY <2>3 DEF I!Next
<1>15. CASE inst.op \in {"CSRRW", "CSR"}
  <2>1. regs' = Write(regs, inst.rd, csr[inst.csr])
    BY <1>4, <1>6, <1>15 DEF rf_we, rf_waddr, rf_wdata, alu_done, is_load
  <2>2. /\ csr' = CsrWrite(csr, inst, IDEX.rs1) /\ dmem' = dmem
        /\ ArchPc' = NextPc(ArchPc)
    BY <1>1, <1>5, <1>6, <1>15
       DEF Execute, DataAnswered, DataWaiting, DataIssue, TrapEntry, DivIssue, DivRetire,
           CsrAccess, NoUpdate, is_load, is_store, misaligned_mem, alu_done, branch_taken
  <2>3. I!CsrAccess
    BY <1>1, <1>w, <1>3, <1>15, <2>1, <2>2, SameFunctions
       DEF I!CsrAccess, I!Retire
  <2> QED
    BY <2>3 DEF I!Next
<1>16. CASE inst.op = "FENCE"
  <2>1. csr' = csr /\ dmem' = dmem /\ regs' = regs /\ ArchPc' = NextPc(ArchPc)
    BY <1>1, <1>4, <1>5, <1>6, <1>16
       DEF Execute, DataAnswered, DataWaiting, DataIssue, TrapEntry, DivIssue, DivRetire,
           CsrAccess, NoUpdate, is_load, is_store, misaligned_mem, alu_done, rf_we,
           branch_taken
  <2>2. I!Fence
    BY <1>1, <1>w, <1>3, <1>16, <2>1
       DEF I!Fence, I!Retire
  <2> QED
    BY <2>2 DEF I!Next
<1> QED
  BY <1>6, <1>7, <1>8, <1>9, <1>10, <1>11, <1>12, <1>13, <1>14, <1>15, <1>16 DEF Op

--------------------------------------------------------------------------------

\* TypeOK: every register keeps its type.
THEOREM TypeCorrect == Spec => []TypeOK
  BY Invariance, PTL DEF Inv

\* Consecutive: the stages hold consecutive instructions of the program, through
\* every stall, discarded answer and redirect.
THEOREM PathKept == Spec => []Consecutive
  BY Invariance, PTL DEF Inv

\* OperandsFresh: no instruction executes with an operand its predecessor has changed.
THEOREM NoStaleOperand == Spec => []OperandsFresh
  BY Invariance, PTL DEF Inv

\* IsaSpec: the pipeline of fetch.v, decode.v, execute.v and the divider of alu.v executes
\* the program one instruction after the other; only the first division after power-up
\* may deliver another word than its result.
THEOREM Refinement == Spec => IsaSpec
<1>1. Init => I!Init
  BY SameFunctions DEF Init, I!Init, ArchPc, DecodePc, FetchPc, inst, Warm
<1>2. Inv /\ [Next]_vars => [I!Next \/ I!ColdDivide]_(I!isaVars)
  <2> SUFFICES ASSUME Inv, [Next]_vars PROVE [I!Next \/ I!ColdDivide]_(I!isaVars)
    OBVIOUS
  <2>1. CASE Next
    <3>1. PICK accept, sv, dv \in BOOLEAN : Clock(accept, sv, dv)
      BY <2>1 DEF Next
    <3>2. CASE inst = NOP
      BY <3>1, <3>2, BubbleStutters DEF I!isaVars
    <3>3. CASE inst # NOP /\ ~s_ready(dv)
      BY <3>1, <3>3, HeldStutters DEF I!isaVars
    <3>4. CASE inst # NOP /\ s_ready(dv)
      BY <3>1, <3>4, RetireStep
    <3> QED
      BY <3>2, <3>3, <3>4
  <2>2. CASE UNCHANGED vars
    BY <2>2
       DEF vars, fetchVars, portVars, aluVars, I!isaVars, ArchPc, DecodePc, FetchPc, inst,
           Warm
  <2> QED
    BY <2>1, <2>2
<1> QED
  BY <1>1, <1>2, Invariance, PTL DEF Spec, IsaSpec, I!ColdSpec

--------------------------------------------------------------------------------
(* The data port *)

\* A request that is answered is withdrawn and its instruction leaves EX; one that is
\* not answered stays as it is.
LEMMA PortClock ==
    ASSUME Inv, m_valid_d, NEW accept, NEW sv, NEW dv, Clock(accept, sv, dv)
    PROVE  \/ UNCHANGED portVars
           \/ ~m_valid_d' /\ <<inst, IDEX.pc>>' # <<inst, IDEX.pc>>
<1>1. Decode(dv) /\ Execute(dv)
  BY DEF Clock
<1>2. /\ inst.op \in {"LOAD", "STORE"} /\ (is_load \/ is_store) /\ ~misaligned_mem
      /\ ~alu_done /\ ~alu_req
  BY DEF Inv, RequestOwned, DivisionOwned, is_load, is_store, alu_done
<1>3. inst # NOP
  BY <1>2, Bubble
<1>4. CASE ~dv
  <2>1. DataWaiting(dv)
    BY <1>1, <1>2, <1>4 DEF Execute, DataAnswered, DataIssue, TrapEntry, DivIssue, DivRetire,
                            CsrAccess, NoUpdate
  <2> QED
    BY <2>1 DEF DataWaiting
<1>5. CASE dv
  <2>1. ~m_valid_d'
    BY <1>1, <1>2, <1>5 DEF Execute, DataAnswered, DataWaiting, DataIssue, TrapEntry,
                            DivIssue, DivRetire, CsrAccess, NoUpdate
  <2>2. s_ready(dv) /\ ~branch_taken
    BY <1>2, <1>5 DEF s_ready, branch_taken, is_load, is_store
  <2>3. inst' = IFID.inst /\ IDEX'.pc = IFID.pc
    BY <1>1, <2>2 DEF Decode, inst
  <2>4. CASE IFID.inst = NOP
    BY <1>3, <2>1, <2>3, <2>4
  <2>5. CASE IFID.inst # NOP
    <3>1. IFID.pc = NextPc(IDEX.pc)
      BY <1>3, <2>5 DEF Inv, Consecutive, DecodePc
    <3>2. IDEX.pc \in Word
      BY InEx
    <3>3. IFID.pc # IDEX.pc
      BY <3>1, <3>2, Rv32Assumption
    <3> QED
      BY <2>1, <2>3, <3>3
  <2> QED
    BY <2>4, <2>5
<1> QED
  BY <1>4, <1>5

\* DataPortHeld: what Mmu assumes of execute.v (400-466) holds of every program; a load
\* or store is answered once, however the fetch side stalls and redirects meanwhile.
THEOREM RequestHeldUntilAnswered == Spec => DataPortHeld
<1>1. Inv /\ [Next]_vars =>
        [m_valid_d => UNCHANGED portVars
                      \/ (~m_valid_d' /\ <<inst, IDEX.pc>>' # <<inst, IDEX.pc>>)]_vars
  <2> SUFFICES ASSUME Inv, Next, m_valid_d
               PROVE  UNCHANGED portVars
                      \/ (~m_valid_d' /\ <<inst, IDEX.pc>>' # <<inst, IDEX.pc>>)
    OBVIOUS
  <2>1. PICK accept, sv, dv \in BOOLEAN : Clock(accept, sv, dv)
    BY DEF Next
  <2> QED
    BY <2>1, PortClock
<1> QED
  BY <1>1, Invariance, PTL DEF Spec, DataPortHeld
================================================================================
