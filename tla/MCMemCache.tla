------------------------------ MODULE MCMemCache -------------------------------
(***************************************************************************)
(* Three lines that compete for the two ways of one set, and a line of      *)
(* another set with a tag they use; four half-words to a line, every         *)
(* half-word of the SDRAM with contents of its own, and stores to different  *)
(* lanes of different lines.                                                 *)
(***************************************************************************)
EXTENDS MemCache

At(t, s, i) == [tag |-> t, set |-> s, word |-> i]

MCReads == {At(1, 0, 0), At(2, 0, 1), At(3, 0, 1), At(2, 1, 0)}

MCWrites == {[addr |-> At(1, 0, 0), be |-> {2}, data |-> <<191, 192>>],
             [addr |-> At(2, 0, 1), be |-> {1, 2}, data |-> <<193, 194>>],
             [addr |-> At(3, 0, 0), be |-> {1}, data |-> <<195, 196>>],
             [addr |-> At(2, 1, 1), be |-> {1, 2}, data |-> <<197, 198>>]}

MCInitMem == {[l \in Tag \X Set |-> [k \in Half |-> 20 * l[1] + 10 * l[2] + k]]}

MCHalfVal == 0..199
================================================================================
