-------------------------------- MODULE Transfer -------------------------------
(***************************************************************************)
(* What a file transfer into memory promises, apart from the protocol: the   *)
(* file grows in memory by whole pieces, in order and without a gap; nothing *)
(* that has arrived changes again, and the verdict is given once.            *)
(***************************************************************************)
EXTENDS Naturals, Sequences

CONSTANT Failures       \* the verdicts that give the file up

VARIABLES
    stored,             \* the units of the file in memory, at its load address
    result              \* "run", "ok", or one of the failures

\* The first k units of the file; a unit is named by its number.
Prefix(k) == [u \in 1 .. k |-> u]

Init == stored = Prefix(0) /\ result = "run"

Arrive ==
    /\ result = "run"
    /\ Len(stored') > Len(stored) /\ stored' = Prefix(Len(stored'))
    /\ UNCHANGED result

Finish ==
    /\ result = "run"
    /\ result' \in {"ok"} \cup Failures
    /\ UNCHANGED stored

Spec == Init /\ [][Arrive \/ Finish]_<<stored, result>>
================================================================================
