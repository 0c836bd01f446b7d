-------------------------------- MODULE BurstPort ------------------------------
(***************************************************************************)
(* What the SDRAM side (the arbiter of top.v and sdramburst.v) promises to  *)
(* the cache of memcahce.v: a request that is held is served by one burst,  *)
(* after any delay, on a fixed number of beats, and at least one clock      *)
(* passes before the next.  Module MemCache relies on it, module SdramArb   *)
(* is shown to keep it.                                                     *)
(***************************************************************************)
EXTENDS Naturals

CONSTANTS
    HW,          \* half-words in a line (32 in the code)
    Line         \* line addresses

VARIABLE
    burst        \* [st, beat, line, rw]; st is "idle", "open", "beats" or "close"

Beat == 0..HW + 1

Burst == [st : {"idle", "open", "beats", "close"}, beat : Beat,
          line : Line, rw : BOOLEAN]

NoBurst == [st |-> "idle", beat |-> 0, line |-> CHOOSE l \in Line : TRUE, rw |-> FALSE]

BurstInit == burst = NoBurst

\* The address and the direction are those of the clock that latches them.
BurstLatch(req, rw, line) ==
    /\ burst.st = "idle" /\ req
    /\ burst' = [st |-> "open", beat |-> 0, line |-> line, rw |-> rw]

BurstStart ==
    /\ burst.st = "open"
    /\ burst' = [burst EXCEPT !.st = "beats"]

BurstBeat ==
    /\ burst.st = "beats" /\ burst.beat < HW + 1
    /\ burst' = [burst EXCEPT !.beat = @ + 1]

BurstTerm ==
    /\ burst.st = "beats" /\ burst.beat = HW + 1
    /\ burst' = [burst EXCEPT !.st = "close"]

BurstEnd ==
    /\ burst.st = "close"
    /\ burst' = NoBurst

BurstWait ==
    /\ burst.st # "beats"
    /\ UNCHANGED burst

BurstClock(req, rw, line) ==
    \/ BurstLatch(req, rw, line) \/ BurstStart \/ BurstBeat
    \/ BurstTerm \/ BurstEnd \/ BurstWait
================================================================================
