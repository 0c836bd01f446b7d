---------------------------------- MODULE Mmu ----------------------------------
(***************************************************************************)
(* The arbiter of rtl/memory/mmu.v with the low RAM it owns, the cache it   *)
(* drives (module CachePort), and its two users: the fetch stage (fetch.v)  *)
(* and the load/store handshake of the execute stage (execute.v), with the  *)
(* peripheral decode of top.v between them.  One step is one clock; the     *)
(* operators are the wires, the variables are the registers.                *)
(***************************************************************************)
EXTENDS CachePort

CONSTANTS
    LowAddr,     \* word addresses below 0x10000, in the on-chip low RAM
    PerAddr,     \* addresses with bit 31 set, outside the mmu
    VgaAddr      \* those with bit 15 clear: the VGA registers

Addr == LowAddr \cup CacheAddr

\* Accesses are of whole words here (the byte lanes are in module MemCache).
ASSUME MmuAssumption ==
    /\ LowAddr \cap CacheAddr = {} /\ PerAddr \cap Addr = {}
    /\ VgaAddr \subseteq PerAddr
    /\ None \notin Value /\ None \notin Addr /\ Undef # None
    /\ Data = Value /\ \A w, d \in Value : Merge(w, d) = d
    /\ None \notin [addr : Addr, rw : BOOLEAN, data : Value]

VARIABLES
    busy, owner_d, h_addr, h_wdata, h_rw, h_ce,  \* the request in flight
    lm_v,                \* low RAM answers in this clock
    lowram, lbr_q,       \* low RAM contents and registered output
    m_valid_d, mem_address_d, mem_rw_d, mem_write_data,  \* execute.v's request
    inflight, req_pc,    \* fetch.v's request
    dout, iout           \* the last answers the two stages took

arbVars  == <<busy, owner_d, h_addr, h_wdata, h_rw, h_ce, lm_v>>
lowVars  == <<lowram, lbr_q>>
execVars == <<m_valid_d, mem_address_d, mem_rw_d, mem_write_data, dout>>
fetchVars == <<inflight, req_pc, iout>>
vars == <<arbVars, lowVars, execVars, fetchVars, portVars>>

--------------------------------------------------------------------------------
(* Wires *)

\* top.v: only addresses with bit 31 clear reach the mmu.
data_m_valid == m_valid_d /\ mem_address_d \notin PerAddr

s_valid == IF h_ce THEN DataValid ELSE lm_v

done == busy /\ s_valid

new_cache_wr == data_m_valid /\ mem_rw_d /\ mem_address_d \in CacheAddr

\* Mutant: every access may be followed at once.
can_issue_at_once == ~busy \/ done

\* A low RAM access and a cache read end in the clock that issues the next
\* request; a cache write ends first, and none is issued behind a cache read.
can_issue == \/ ~busy
             \/ done /\ ~(h_ce /\ h_rw) /\ ~(h_ce /\ new_cache_wr)

\* Mutant: a cache write is not held through the clock that performs it.
hold_until_valid == busy /\ ~s_valid

\* Mutant: a read is not held while it waits for the cache.
hold_writes == busy /\ h_ce /\ h_rw

hold == busy /\ (~s_valid \/ (h_ce /\ h_rw))

inst_m_ready == can_issue /\ ~data_m_valid

inst_s_valid == done /\ ~owner_d

\* top.v: the answer execute.v sees is chosen by the live data address.  A VGA
\* register answers a write at once and a read never (vga.v: cmd_done).
data_s_valid(prec) ==
    CASE mem_address_d \in VgaAddr -> mem_rw_d
      [] mem_address_d \in PerAddr \ VgaAddr -> prec
      [] mem_address_d \notin PerAddr -> done /\ owner_d

read_data == IF h_ce THEN out ELSE lbr_q

--------------------------------------------------------------------------------
(* What one clock does to the RAMs behind the bus, to fetch and to execute. *)

LowRam(valid, rw, a, v) ==
    LET cel == valid /\ a \in LowAddr
    IN  /\ lowram' = IF cel /\ rw THEN [lowram EXCEPT ![a] = v] ELSE lowram
        /\ lbr_q'  = IF cel /\ ~rw THEN lowram[a] ELSE Undef

Bus(valid, rw, a, v) ==
    /\ LowRam(valid, rw, a, v)
    /\ CacheClock(valid /\ a \in CacheAddr, valid /\ rw /\ a \in CacheAddr, a, v)

\* Mutant: execute.v leaves its request up after the answer.
Answered_kept(prec) ==
    /\ m_valid_d /\ data_s_valid(prec)
    /\ dout' = IF mem_rw_d \/ mem_address_d \in PerAddr THEN dout ELSE read_data
    /\ UNCHANGED <<m_valid_d, mem_rw_d, mem_address_d, mem_write_data>>

Answered(prec) ==
    /\ m_valid_d /\ data_s_valid(prec)
    /\ m_valid_d' = FALSE
    /\ dout' = IF mem_rw_d \/ mem_address_d \in PerAddr THEN dout ELSE read_data
    /\ UNCHANGED <<mem_rw_d, mem_address_d, mem_write_data>>

Waiting(prec) ==
    /\ m_valid_d /\ ~data_s_valid(prec)
    /\ UNCHANGED execVars

\* The instruction in EX is a load or a store that has not asked yet.
NewRequest ==
    /\ ~m_valid_d
    /\ m_valid_d' = TRUE
    /\ mem_address_d' \in Addr \cup PerAddr
    /\ \/ mem_rw_d' = FALSE /\ UNCHANGED mem_write_data
       \/ mem_rw_d' = TRUE  /\ mem_write_data' \in Value
    /\ UNCHANGED dout

NoRequest ==
    /\ ~m_valid_d
    /\ UNCHANGED execVars

Execute ==
    \/ \E prec \in BOOLEAN : Answered(prec) \/ Waiting(prec)
    \/ NewRequest
    \/ NoRequest

FetchClock(accept, a) ==
    /\ inflight' = (accept \/ (inflight /\ ~inst_s_valid))
    /\ req_pc' = IF accept THEN a ELSE req_pc
    /\ iout' = IF inst_s_valid THEN read_data ELSE iout

--------------------------------------------------------------------------------
(* The arbiter: the data side has priority. *)

Latch(d, a, v, rw) ==
    /\ busy' = TRUE
    /\ owner_d' = d
    /\ h_addr' = a /\ h_wdata' = v /\ h_rw' = rw
    /\ h_ce' = (a \in CacheAddr)
    /\ lm_v' = (a \notin CacheAddr)

IssueData ==
    /\ can_issue /\ data_m_valid
    /\ Latch(TRUE, mem_address_d, mem_write_data, mem_rw_d)
    /\ Bus(TRUE, mem_rw_d, mem_address_d, mem_write_data)
    /\ FetchClock(FALSE, req_pc)
    /\ Execute

IssueInst(a) ==
    /\ inst_m_ready
    /\ Latch(FALSE, a, mem_write_data, FALSE)
    /\ Bus(TRUE, FALSE, a, mem_write_data)
    /\ FetchClock(TRUE, a)
    /\ Execute

\* Mutant: busy is not cleared when a request ends without a successor.
NoIssue_busy ==
    /\ ~(can_issue /\ data_m_valid)
    /\ lm_v' = FALSE
    /\ UNCHANGED <<busy, owner_d, h_addr, h_wdata, h_rw, h_ce>>
    /\ Bus(hold, hold /\ h_rw, h_addr, h_wdata)
    /\ FetchClock(FALSE, req_pc)
    /\ Execute

\* Nothing is issued: the arbiter is waiting, or nobody asks.
NoIssue ==
    /\ ~(can_issue /\ data_m_valid)
    /\ busy' = (busy /\ ~done)
    /\ lm_v' = FALSE
    /\ UNCHANGED <<owner_d, h_addr, h_wdata, h_rw, h_ce>>
    /\ Bus(hold, hold /\ h_rw, h_addr, h_wdata)
    /\ FetchClock(FALSE, req_pc)
    /\ Execute

Init ==
    /\ CacheInit
    /\ busy = FALSE /\ owner_d = FALSE /\ h_rw = FALSE /\ h_ce = FALSE
    /\ h_addr \in Addr /\ h_wdata \in Value /\ lm_v = FALSE
    /\ lowram \in [LowAddr -> Value] /\ lbr_q = Undef
    /\ m_valid_d = FALSE /\ mem_address_d \in Addr /\ mem_rw_d = FALSE
    /\ mem_write_data \in Value /\ dout = None
    /\ inflight = FALSE /\ req_pc \in Addr /\ iout = None

Next == IssueData \/ (\E a \in Addr : IssueInst(a)) \/ NoIssue

Spec == Init /\ [][Next]_vars

--------------------------------------------------------------------------------
(* Properties *)

\* Every register holds a value of its type; in particular neither stage ever
\* took the output of a RAM that was not read for it (Undef).
TypeOK ==
    /\ PortTypeOK
    /\ busy \in BOOLEAN /\ owner_d \in BOOLEAN /\ lm_v \in BOOLEAN
    /\ h_addr \in Addr /\ h_wdata \in Value /\ h_rw \in BOOLEAN /\ h_ce \in BOOLEAN
    /\ lowram \in [LowAddr -> Value] /\ lbr_q \in Value \cup {Undef}
    /\ m_valid_d \in BOOLEAN /\ mem_rw_d \in BOOLEAN
    /\ mem_address_d \in Addr \cup PerAddr /\ mem_write_data \in Value
    /\ inflight \in BOOLEAN /\ req_pc \in Addr
    /\ dout \in Value \cup {None} /\ iout \in Value \cup {None}

\* The arbiter, the RAM it is waiting for and the fetch stage agree on whether
\* a request is in flight, for whom and at which address.
InFlight ==
    /\ h_ce = (h_addr \in CacheAddr) \/ ~busy
    /\ lm_v = (busy /\ ~h_ce)
    /\ (pState # "idle") = (busy /\ h_ce)
    /\ pState # "idle" => q = Presented(h_rw, h_addr, h_wdata)
    /\ inflight = (busy /\ ~owner_d)
    /\ inflight => h_addr = req_pc /\ ~h_rw

\* The data side's own request, as it stands in execute.v's registers.
OwnRequest ==
    /\ data_m_valid
    /\ h_addr = mem_address_d /\ h_rw = mem_rw_d
    /\ h_rw => h_wdata = mem_write_data

(***************************************************************************)
(* A load that is answered is issued a second time, because execute.v drops *)
(* m_valid_d one clock after the answer.  An access in flight for the data  *)
(* side is either the request execute.v is making, or such a leftover, and  *)
(* a leftover always ends in this very clock, in which execute.v is not     *)
(* asking: its answer can never be taken for that of the next request.      *)
(***************************************************************************)
Leftover ==
    ~m_valid_d /\ done /\ ~(h_ce /\ h_rw)

DataOwner == busy /\ owner_d => OwnRequest \/ Leftover

\* A low RAM access in flight has read, or written, the word it is about.
LowRamServed ==
    /\ lm_v /\ ~h_rw => lbr_q = lowram[h_addr]
    /\ lm_v /\ h_rw => lowram[h_addr] = h_wdata

Inv == TypeOK /\ InFlight /\ DataOwner /\ LowRamServed

\* mmu.v gives its two users one memory: every load and every fetch returns
\* what the memory holds when it is answered, every store is in it by then.
flatMem == [a \in Addr |-> IF a \in LowAddr THEN lowram[a] ELSE ram[a]]

dreq == IF data_m_valid
        THEN [addr |-> mem_address_d, rw |-> mem_rw_d, data |-> mem_write_data]
        ELSE None

ireq == IF inflight THEN req_pc ELSE None

Flat == INSTANCE FlatMemory WITH mem <- flatMem

FlatSpec == Flat!Spec

(***************************************************************************)
(* The bus to the cache in a clock.  A request issued is latched (h_addr,   *)
(* h_wdata, h_rw) by the end of the clock, and one that is held is already; *)
(* busy' after can_issue tells an issue from an idle clock.                 *)
(***************************************************************************)
issue == can_issue /\ busy'

m_valid == issue \/ hold

mem_req == m_valid /\ h_addr' \in CacheAddr

br_hwren == mem_req /\ h_rw'

\* mmu.v is a legal user of the cache: the request on the bus stays up, with the
\* address, strobe and data it was presented with, until the cache answers it,
\* and no write strobe is raised over the answer to a read; the cache sees the
\* bus and nothing else.
LegalUser ==
    [][ /\ Legal(mem_req, br_hwren, h_addr', h_wdata')
        /\ CacheClock(mem_req, br_hwren, h_addr', h_wdata') ]_vars

--------------------------------------------------------------------------------
(***************************************************************************)
(* The clock keeps running, a fill ends (SdramArb shows why), and a mapped  *)
(* peripheral answers; nothing is assumed of the VGA registers.  There is   *)
(* no state in which every step leaves every register as it is (an arbiter  *)
(* that waits for nothing can be given a fetch), so the first conjunct asks *)
(* what WF_vars(Next) asks, at less cost to the model checker.              *)
(***************************************************************************)
ClockRuns == []<><<TRUE>>_vars

FillEnds == pState = "fill" /\ pState' = "check" /\ Next

PeripheralAnswers ==
    /\ m_valid_d /\ mem_address_d \in PerAddr \ VgaAddr
    /\ m_valid_d' = FALSE
    /\ Next

FairSpec ==
    /\ Spec
    /\ ClockRuns
    /\ WF_pState(FillEnds)
    /\ WF_m_valid_d(PeripheralAnswers)

\* Every data request is answered: neither fetches nor leftovers hold it up.
\* (A load from a VGA register is the exception: it stalls the core for good.)
VgaLoad == m_valid_d /\ ~mem_rw_d /\ mem_address_d \in VgaAddr

DataAnswered == m_valid_d /\ ~VgaLoad ~> ~m_valid_d

\* However fast execute.v asks, the arbiter is always ready again for a fetch,
\* so fetch.v neither waits for ever nor is left without its answer.
FetchNotStarved == []<>inst_m_ready
================================================================================
