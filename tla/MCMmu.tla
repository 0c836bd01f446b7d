--------------------------------- MODULE MCMmu ---------------------------------
(* A small instance of Mmu: a word of low RAM, a cached word in each of two lines. *)
EXTENDS Mmu, TLC

CONSTANTS c1, c2, lineA, lineB

MCCacheAddr == {c1, c2}
MCLineOf == (c1 :> lineA) @@ (c2 :> lineB)

\* Stores of whole words.
MCMerge(w, d) == d
================================================================================
