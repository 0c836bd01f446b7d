----------------------------------- MODULE Isa ----------------------------------
(***************************************************************************)
(* The core as its programmer sees it: one instruction after the other, each *)
(* on the registers, CSRs and memory its predecessors left.  One step is one *)
(* instruction; nothing of fetch, stalls, forwarding or redirects is left.   *)
(***************************************************************************)
EXTENDS Rv32

VARIABLES
    pc,          \* the address of the next instruction
    regs, csr,   \* the registers
    dmem,        \* the data memory
    text,        \* the instruction memory; no program here changes its own code
    warm         \* the divider has its wait: a division has been made since power-up

isaVars == <<pc, regs, csr, dmem, text, warm>>

Inst == text[pc]
Rs1 == Read(regs, Inst.rs1)
Rs2 == Read(regs, Inst.rs2)
Address == LsAddr(Inst.fn, Rs1)

Retire(next, r, c, m) ==
    /\ pc' = next /\ regs' = r /\ csr' = c /\ dmem' = m /\ UNCHANGED text
    /\ warm' = (warm \/ Inst.op = "DIV")

Compute ==
    /\ Inst.op \in {"ALU", "DIV"}
    /\ LET v == IF Inst.op = "ALU" THEN AluResult(Inst.fn, pc, Rs1, Rs2)
                                   ELSE DivResult(Inst.fn, Rs1, Rs2)
       IN Retire(NextPc(pc), Write(regs, Inst.rd, v), csr, dmem)

\* Not of the instruction set: the first division after power-up delivers any word.
ColdDivide ==
    /\ Inst.op = "DIV" /\ ~warm
    /\ \E v \in Word : Retire(NextPc(pc), Write(regs, Inst.rd, v), csr, dmem)

Branch ==
    /\ Inst.op = "BRANCH"
    /\ LET next == IF Taken(Inst.fn, Rs1, Rs2) THEN Target(Inst.fn, pc, Rs1)
                                               ELSE NextPc(pc)
       IN Retire(next, regs, csr, dmem)

Jump ==
    /\ Inst.op = "JUMP"
    /\ Retire(Target(Inst.fn, pc, Rs1), Write(regs, Inst.rd, NextPc(pc)), csr, dmem)

Load ==
    /\ Inst.op = "LOAD" /\ ~Misaligned(Inst.fn, Address)
    /\ Retire(NextPc(pc), Write(regs, Inst.rd, LoadValue(Inst.fn, dmem[Address])),
              csr, dmem)

Store ==
    /\ Inst.op = "STORE" /\ ~Misaligned(Inst.fn, Address)
    /\ Retire(NextPc(pc), regs, csr,
              [dmem EXCEPT ![Address] = StoreValue(Inst.fn, @, Rs2)])

Trap ==
    /\ \/ Inst.op = "ECALL"
       \/ Inst.op \in {"LOAD", "STORE"} /\ Misaligned(Inst.fn, Address)
    /\ Retire(csr["mtvec"], regs, Trapped(csr, Inst.op, pc), dmem)

Return ==
    /\ Inst.op = "MRET"
    /\ Retire(csr["mepc"], regs, csr, dmem)

CsrAccess ==
    /\ Inst.op \in {"CSRRW", "CSR"}
    /\ Retire(NextPc(pc), Write(regs, Inst.rd, csr[Inst.csr]),
              CsrWrite(csr, Inst, Rs1), dmem)

Fence ==
    /\ Inst.op = "FENCE"
    /\ Retire(NextPc(pc), regs, csr, dmem)

Init ==
    /\ text \in Programs
    /\ pc = Zero
    /\ regs \in [Reg -> Unknown]
    /\ csr \in CsrPowerUp
    /\ dmem \in [Word -> Unknown]
    /\ warm \in BOOLEAN

Next ==
    Compute \/ Branch \/ Jump \/ Load \/ Store \/ Trap \/ Return \/ CsrAccess \/ Fence

\* The instruction set; and the instruction set but for the first division.
Spec == Init /\ [][Next]_isaVars

ColdSpec == Init /\ [][Next \/ ColdDivide]_isaVars
================================================================================
