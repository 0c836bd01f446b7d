------------------------------ MODULE MCSdramArb -------------------------------
(***************************************************************************)
(* Two lines, so that a burst can be of the wrong one; the burst length,    *)
(* the bursts of a scan line and the delays of the code, except START_DELAY *)
(* (5000), which only keeps the chip idle after a reset.                    *)
(***************************************************************************)
EXTENDS SdramArb

CONSTANTS l1, l2

MCLine == {l1, l2}
MCNextLine == [l \in MCLine |-> IF l = l1 THEN l2 ELSE l1]
================================================================================
