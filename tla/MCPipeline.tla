------------------------------- MODULE MCPipeline -------------------------------
(***************************************************************************)
(* A machine of four words and two registers beside x0; its programs are all  *)
(* sequences of three instructions of a list, closed by an increment.         *)
(***************************************************************************)
EXTENDS Pipeline

CONSTANTS r1, r2

MCWord == 0 .. 3
MCReg == {x0, r1, r2}
MCFn == {"", "imm", "odd"}
MCDivFn == {""}
MCPowerUpF3 == {"imm"}

MCNextPc(p) == (p + 1) % 4
MCAluResult(f, p, a, b) == IF f = "imm" THEN (a + 1) % 4 ELSE (a + b) % 4
MCDivResult(f, a, b) == IF b = 0 THEN 3 ELSE a \div b
MCTaken(f, a, b) == IF f = "imm" THEN a # b ELSE a = b
MCTarget(f, p, a) == IF f = "imm" THEN (p + 2) % 4 ELSE a
MCLsAddr(f, a) == a
MCMisaligned(f, a) == f = "odd" /\ a % 2 = 1
MCLoadValue(f, w) == w
MCStoreValue(f, w, v) == v
MCCsrValue(f, old, a) == (old + a) % 4
MCCause(o) == CASE o = "LOAD" -> 1 [] o = "STORE" -> 2 [] o = "ECALL" -> 3

In(op, rd, rs1, rs2, c, f) ==
    [op |-> op, rd |-> rd, rs1 |-> rs1, rs2 |-> rs2, csr |-> c, fn |-> f]

Increment == In("ALU", r1, r1, x0, "misa", "imm")
Add       == In("ALU", r2, r1, r2, "misa", "")
ToX0      == In("ALU", x0, r1, r1, "misa", "imm")
Divide    == In("DIV", r1, r2, r1, "misa", "")
BranchNe  == In("BRANCH", x0, r1, r2, "misa", "imm")
JumpReg   == In("JUMP", r2, r1, x0, "misa", "")
LoadR     == In("LOAD", r1, r2, x0, "misa", "odd")
StoreR    == In("STORE", x0, r1, r2, "misa", "odd")
Ecall     == In("ECALL", x0, x0, x0, "misa", "")
Mret      == In("MRET", x0, x0, x0, "misa", "")
SetMtvec  == In("CSRRW", x0, r1, x0, "mtvec", "")
SetMepc   == In("CSRRW", r2, r1, x0, "mepc", "")
AddMepc   == In("CSR", r2, r1, x0, "mepc", "")
ReadX0    == In("ALU", r1, x0, r2, "misa", "")
Fence     == In("FENCE", x0, x0, x0, "misa", "")

Instructions == {Increment, Add, ToX0, Divide, BranchNe, JumpReg, LoadR, StoreR,
                 Ecall, Mret, SetMtvec, SetMepc, AddMepc, ReadX0, Fence}

Program(a, b, c) == [w \in MCWord |-> <<a, b, c, Increment>>[w + 1]]

MCPrograms == {Program(a, b, c) : a, b, c \in Instructions}
================================================================================
