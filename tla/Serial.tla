---------------------------------- MODULE Serial ----------------------------------
(***************************************************************************)
(* What the two serial devices share: bytes as functions from bit numbers.    *)
(***************************************************************************)
EXTENDS Naturals

CONSTANT Bits   \* data bits of a byte, 8 in the code

ASSUME SerialAssumption == Bits \in Nat \ {0, 1}

Bit == 0 .. 1
Data == [0 .. Bits - 1 -> Bit]

\* The byte that holds bits b1 and b0 and is 0 beyond.
Flags(b1, b0) == [i \in 0 .. Bits - 1 |->
                     IF (i = 1 /\ b1) \/ (i = 0 /\ b0) THEN 1 ELSE 0]
================================================================================
