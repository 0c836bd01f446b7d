---------------------------------- MODULE Rv32 ----------------------------------
(***************************************************************************)
(* The instructions of the core as execute.v and alu.v tell them apart, and  *)
(* what each computes.  An instruction word is reduced to its kind, its      *)
(* register fields, the CSR it names and the rest (function code and         *)
(* immediate, fn); arithmetic, comparison, address and lane functions of     *)
(* those are parameters.  Shared by Isa and Pipeline.                        *)
(***************************************************************************)
CONSTANTS
    Word, Zero,              \* the 32-bit words, also used as addresses
    Reg, x0,                 \* the integer registers
    Fn,                      \* function codes and immediates
    DivFn,                   \* those of a division: funct3 of 4 to 7
    NextPc(_),               \* pc + 4
    AluResult(_, _, _, _),   \* of fn, pc, rs1, rs2: OP, OP-IMM, LUI, AUIPC
    DivResult(_, _, _),      \* of fn, rs1, rs2: DIV, DIVU, REM, REMU
    Taken(_, _, _),          \* of fn, rs1, rs2: the branch condition
    Target(_, _, _),         \* of fn, pc, rs1: branch, JAL and JALR targets
    LsAddr(_, _),            \* of fn, rs1: the address of a load or store
    Misaligned(_, _),        \* of fn, address
    LoadValue(_, _),         \* of fn, word read: the lane, extended
    StoreValue(_, _, _),     \* of size, word, data: the word with its lane replaced
    CsrValue(_, _, _),       \* of fn, old value, rs1: csr_wdata of the five
                             \*   forms other than CSRRW
    Cause(_),                \* mcause of LOAD, STORE, ECALL: 4, 6, 11
    Programs,                \* the instruction memories considered
    Unknown                  \* what a word no reset clears may hold at power-up

\* "FENCE" stands for every opcode without an effect, "MRET" for SYSTEM with
\* funct3 0 and an immediate other than 0: execute.v returns for all of them.
Op == {"ALU", "DIV", "BRANCH", "JUMP", "LOAD", "STORE",
       "FENCE", "ECALL", "MRET", "CSRRW", "CSR"}

\* "misa" stands for the CSRs that read as a constant.
Csr == {"mstatus", "mtvec", "mscratch", "mepc", "mcause", "mtval", "misa"}

\* decode.v (is_async) takes a division by its function code.
Instr == {i \in [op : Op, rd : Reg, rs1 : Reg, rs2 : Reg, csr : Csr, fn : Fn] :
             i.op = "DIV" => i.fn \in DivFn}

ASSUME Rv32Assumption ==
    /\ Programs \subseteq [Word -> Instr] /\ Unknown \subseteq Word
    /\ Zero \in Word /\ x0 \in Reg /\ Fn # {} /\ DivFn \subseteq Fn
    /\ \A a \in Word : NextPc(a) \in Word /\ NextPc(a) # a
    /\ \A f \in Fn, p, a, b \in Word :
          /\ AluResult(f, p, a, b) \in Word /\ DivResult(f, a, b) \in Word
          /\ Taken(f, a, b) \in BOOLEAN /\ Misaligned(f, a) \in BOOLEAN
          /\ Target(f, p, a) \in Word /\ LsAddr(f, a) \in Word
          /\ LoadValue(f, a) \in Word /\ StoreValue(f, a, b) \in Word
          /\ CsrValue(f, a, b) \in Word
    /\ \A o \in {"LOAD", "STORE", "ECALL"} : Cause(o) \in Word

Read(regs, r) == IF r = x0 THEN Zero ELSE regs[r]

Write(regs, r, v) == IF r = x0 THEN regs ELSE [regs EXCEPT ![r] = v]

\* Reset clears mtvec and mepc only.
CsrPowerUp == {[u EXCEPT !["mtvec"] = Zero, !["mepc"] = Zero] : u \in [Csr -> Unknown]}

\* CSRRW has an arm of its own in execute.v, which knows mtvec only (its mepc
\* test, csr[7:6] = 3, holds for no machine CSR).
CsrWrite(csr, i, a) ==
    CASE i.op = "CSRRW" /\ i.csr = "mtvec" -> [csr EXCEPT !["mtvec"] = a]
      [] i.op = "CSR" /\ i.csr # "misa"    ->
            [csr EXCEPT ![i.csr] = CsrValue(i.fn, csr[i.csr], a)]
      [] OTHER -> csr

\* A trap saves the address after the instruction, whatever the cause.
Trapped(csr, o, p) ==
    [csr EXCEPT !["mepc"] = NextPc(p), !["mcause"] = Cause(o)]
================================================================================
