-------------------------------- MODULE SdramArb -------------------------------
(***************************************************************************)
(* The two users of the SDRAM and the arbiter between them: the cache of    *)
(* memcahce.v (its bursts only), the line fetcher of video/vga.v and the    *)
(* ram_arb block of top.v, in front of the controller of SdramBurst.        *)
(***************************************************************************)
EXTENDS SdramBurst

CONSTANTS
    LineBursts,      \* bursts in a scan line (5 in the code)
    NextLine         \* NextLine[l] is the line 64 bytes after l

PAGE_SIZE == HW - 1
READ_DELAY == 2

ASSUME SdramArbAssumption == LineBursts \in Nat \ {0} /\ NextLine \in [Line -> Line]

VARIABLES
    ram_arb, sd_rw_req,      \* top.v: whose turn it is (TRUE: the cache), the request
    vState,                  \* vga.v's cState
    req_burst, no_burst,     \* vga.v: burst wanted, bursts left in the scan line
    scanline_pos, frame_pos, \* where the next half-word goes, the line it comes from
    mState, a_count,         \* memcahce.v's state and counter
    old_line, new_line       \* the line it writes back and the line it fills

arbVars == <<ram_arb, sd_rw_req>>
vgaVars == <<vState, req_burst, no_burst, scanline_pos, frame_pos>>
cacheVars == <<mState, a_count, old_line, new_line>>
vars == <<sdVars, arbVars, vgaVars, cacheVars>>

--------------------------------------------------------------------------------
(* Wires *)

sd_rw_req_v == vState \in {"REQUEST_LINE", "READ_DATA"}

sd_rw_req_mmu == mState \in {"STORE_PAGE", "LOAD_PAGE"}

sd_rw_mmu == mState = "STORE_PAGE"

sd_address_mmu == IF mState = "STORE_PAGE" THEN old_line ELSE new_line

sd_address == IF ram_arb THEN sd_address_mmu ELSE frame_pos

sd_rw == ram_arb /\ sd_rw_mmu

sd_bursting_mmu == data_bursting /\ ram_arb

sd_bursting_v == data_bursting /\ ~ram_arb

--------------------------------------------------------------------------------
(* The arbiter of top.v: video first, and no change before the request of   *)
(* the last owner has gone.                                                 *)

\* Mutant: the cache waits until the scan line is complete.
Grant_line ==
    /\ ~data_bursting /\ ~sd_rw_req
    /\ IF sd_rw_req_v THEN ram_arb' = FALSE /\ sd_rw_req' = TRUE
       ELSE IF sd_rw_req_mmu /\ no_burst = 0 THEN ram_arb' = TRUE /\ sd_rw_req' = TRUE
       ELSE UNCHANGED arbVars

Grant ==
    /\ ~data_bursting /\ ~sd_rw_req
    /\ IF sd_rw_req_v THEN ram_arb' = FALSE /\ sd_rw_req' = TRUE
       ELSE IF sd_rw_req_mmu THEN ram_arb' = TRUE /\ sd_rw_req' = TRUE
       ELSE UNCHANGED arbVars

\* Mutant: a request that was granted stays up.
Follow_sticky ==
    /\ data_bursting \/ sd_rw_req
    /\ UNCHANGED arbVars

Follow ==
    /\ data_bursting \/ sd_rw_req
    /\ sd_rw_req' = IF ram_arb THEN sd_rw_req_mmu ELSE sd_rw_req_v
    /\ UNCHANGED ram_arb

ArbClock == Grant \/ Follow

--------------------------------------------------------------------------------
(* The line fetcher of vga.v.  hpos and vpos run on the pixel clock: when   *)
(* they ask for a line, and how often, is left open.                        *)

StartLine ==
    /\ scanline_pos' = 0
    /\ req_burst' = TRUE
    /\ no_burst' = LineBursts

VgaIdle ==
    /\ vState = "IDLE"
    /\ vState' = IF req_burst THEN "REQUEST_LINE" ELSE "IDLE"
    /\ \/ StartLine /\ frame_pos' \in Line        \* top of the frame: frame_start
       \/ StartLine /\ UNCHANGED frame_pos        \* the next pair of scan lines
       \/ /\ req_burst' = (req_burst \/ no_burst # 0)
          /\ UNCHANGED <<no_burst, scanline_pos, frame_pos>>

\* Mutant: any burst is taken for the one that was asked for.
VgaRequest_any ==
    /\ vState = "REQUEST_LINE"
    /\ vState' = IF data_bursting THEN "READ_DATA" ELSE "REQUEST_LINE"
    /\ UNCHANGED <<req_burst, no_burst, scanline_pos, frame_pos>>

VgaRequest ==
    /\ vState = "REQUEST_LINE"
    /\ vState' = IF sd_bursting_v THEN "READ_DATA" ELSE "REQUEST_LINE"
    /\ UNCHANGED <<req_burst, no_burst, scanline_pos, frame_pos>>

\* Mutant: the wish for a burst is not taken back when the burst comes.
VgaRead_wish ==
    /\ vState = "READ_DATA"
    /\ vState' = IF scanline_pos % HW = BURST_LEN THEN "DONE" ELSE "READ_DATA"
    /\ scanline_pos' = scanline_pos + 1
    /\ UNCHANGED <<req_burst, no_burst, frame_pos>>

VgaRead ==
    /\ vState = "READ_DATA"
    /\ vState' = IF scanline_pos % HW = BURST_LEN THEN "DONE" ELSE "READ_DATA"
    /\ req_burst' = FALSE
    /\ scanline_pos' = scanline_pos + 1
    /\ UNCHANGED <<no_burst, frame_pos>>

VgaDone ==
    /\ vState = "DONE"
    /\ vState' = "IDLE"
    /\ frame_pos' = NextLine[frame_pos]
    /\ no_burst' = IF no_burst # 0 THEN no_burst - 1 ELSE 0
    /\ UNCHANGED <<req_burst, scanline_pos>>

VgaClock == VgaIdle \/ VgaRequest \/ VgaRead \/ VgaDone

--------------------------------------------------------------------------------
(* The bursts of memcahce.v: a dirty line is written back, then the new one *)
(* is filled.  IDLE stands for the states without a burst in which the next *)
(* miss may be found.                                                       *)

CacheMiss ==
    /\ mState = "IDLE"
    /\ \/ mState' = "STORE_PAGE" /\ old_line' \in Line
       \/ mState' = "LOAD_PREP" /\ UNCHANGED old_line
    /\ new_line' \in Line
    /\ a_count' = 2 * HW - 1

CacheHit ==
    /\ mState = "IDLE"
    /\ UNCHANGED cacheVars

CountBeats ==
    /\ a_count' = IF sd_bursting_mmu THEN (a_count + 1) % (2 * HW) ELSE a_count
    /\ UNCHANGED <<old_line, new_line>>

CacheStore ==
    /\ mState = "STORE_PAGE"
    /\ mState' = IF a_count = PAGE_SIZE + READ_DELAY THEN "LOAD_PREP" ELSE "STORE_PAGE"
    /\ CountBeats

CachePrep ==
    /\ mState = "LOAD_PREP"
    /\ mState' = "LOAD_PAGE"
    /\ a_count' = 2 * HW - 1
    /\ UNCHANGED <<old_line, new_line>>

CacheLoad ==
    /\ mState = "LOAD_PAGE"
    /\ mState' = IF a_count = PAGE_SIZE THEN "UPDATE_CL" ELSE "LOAD_PAGE"
    /\ CountBeats

CacheUpdate ==
    /\ mState \in {"UPDATE_CL", "REQUEST"}
    /\ mState' = IF mState = "UPDATE_CL" THEN "REQUEST" ELSE "IDLE"
    /\ UNCHANGED <<a_count, old_line, new_line>>

CacheClock ==
    \/ CacheMiss \/ CacheHit \/ CacheStore
    \/ CachePrep \/ CacheLoad \/ CacheUpdate

--------------------------------------------------------------------------------

Init ==
    /\ SdramInit
    /\ ram_arb = FALSE /\ sd_rw_req = FALSE
    /\ vState = "IDLE" /\ req_burst \in BOOLEAN /\ no_burst = LineBursts
    /\ scanline_pos = 0 /\ frame_pos \in Line
    /\ mState = "IDLE" /\ a_count = 0
    /\ old_line \in Line /\ new_line \in Line

Next ==
    /\ SdramClock(sd_rw_req, sd_rw, sd_address)
    /\ ArbClock
    /\ VgaClock
    /\ CacheClock

Spec == Init /\ [][Next]_vars

(***************************************************************************)
(* The clock runs.  Nothing else is assumed: a burst takes a fixed number   *)
(* of clocks, and the arbiter must not let the video starve the cache.      *)
(***************************************************************************)
FairSpec == Spec /\ WF_vars(Next)

--------------------------------------------------------------------------------
(* The burst the cache is served with, as module BurstPort describes it.     *)

\* The beat of a burst: two without data, then one per half-word.
beat == CASE sState \in {"READ_COLA", "WRITE_COLB"} -> delay
          [] sState \in {"READ_COLB", "WRITE_COL"} -> 2 + BURST_LEN - burst
          [] OTHER -> HW + 1

Opening == irwq \/ sState \in {"ROW_ACTIVE", "READ_COL"}

Stage(st, b) == [st |-> st, beat |-> b, line |-> mem_address, rw |-> irw]

Port == INSTANCE BurstPort

mmuBurst ==
    CASE ram_arb /\ Opening -> Stage("open", 0)
      [] sd_bursting_mmu -> Stage("beats", beat)
      [] ram_arb /\ sState = "BURST_TERM" -> Stage("close", HW + 1)
      [] OTHER -> Port!NoBurst

MmuPort == INSTANCE BurstPort WITH burst <- mmuBurst

--------------------------------------------------------------------------------
(* Properties *)

\* The cache is served as module BurstPort, and with it module MemCache, assumes.
BurstContract ==
    /\ mmuBurst = Port!NoBurst
    /\ [][MmuPort!BurstClock(sd_rw_req_mmu, sd_rw_mmu, sd_address_mmu)]_mmuBurst

\* On every beat of a burst of the cache the chip drives or takes the half-word
\* that MemCache puts there, of the line that was asked for, and the chip takes
\* no half-word on any other clock (memcahce.v 146-154, sdramburst.v 98-118).
BeatsAreHalves ==
    /\ (sd_bursting_mmu /\ ~irw /\ beat \in 1..HW) => Driven = <<mem_address, beat - 1>>
    /\ Taken = IF sd_bursting_mmu /\ irw /\ beat >= 2
               THEN <<old_line, beat - 2>> ELSE NoLine

\* Every half-word the video stores is the next one of the line it asked for,
\* never one of a burst of the cache, and lands inside the scan line buffer
\* (vga.v 206-215, 219-252).
ScanlineSample ==
    vState = "READ_DATA" =>
        /\ sd_bursting_v
        /\ Driven = <<frame_pos, scanline_pos % HW>>
        /\ scanline_pos < LineBursts * HW

\* When no burst is left to do the scan line is complete, however the requests
\* for lines fell between the bursts (vga.v 194-215).
LineWhole ==
    vState = "IDLE" => scanline_pos = (LineBursts - no_burst) * HW

\* A miss is served in the end, although the video has priority and may ask for
\* one line after the other.
MissServed == mState = "STORE_PAGE" \/ mState = "LOAD_PAGE" ~> mState = "UPDATE_CL"

\* The video gets every burst it asks for.
VideoServed == vState = "REQUEST_LINE" ~> vState = "DONE"

\* Neither user of the SDRAM keeps the other waiting for ever.
BothServed == MissServed /\ VideoServed
================================================================================
