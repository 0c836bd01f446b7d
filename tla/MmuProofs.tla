------------------------------- MODULE MmuProofs -------------------------------
(***************************************************************************)
(* Proofs about module Mmu, for every set of addresses, lines and values.   *)
(***************************************************************************)
EXTENDS Mmu, TLAPS

(***************************************************************************)
(* The wires: what the invariant says of an answer that is taken.           *)
(***************************************************************************)

\* The cache answers the request in flight, a read with the word at its address.
LEMMA CacheAnswer ==
    ASSUME Inv, busy, h_ce, s_valid
    PROVE  /\ DataValid /\ h_addr \in CacheAddr /\ q = Presented(h_rw, h_addr, h_wdata)
           /\ ~h_rw => out = ram[h_addr]
<1>1. DataValid /\ pState = "check"
  BY DEF s_valid, DataValid
<1>2. h_addr \in CacheAddr /\ q = Presented(h_rw, h_addr, h_wdata)
  BY <1>1 DEF Inv, InFlight
<1>3. q.addr = h_addr /\ q.rw = h_rw
  BY <1>2 DEF Presented
<1>4. out = Output
  BY DEF Inv, TypeOK, PortTypeOK
<1> QED
  BY <1>1, <1>2, <1>3, <1>4 DEF Output

\* A fetch is answered with the word at the address fetch.v asked for.
LEMMA FetchTakes ==
    ASSUME Inv, inst_s_valid
    PROVE  /\ inflight /\ req_pc \in Addr
           /\ read_data = flatMem[req_pc] /\ read_data \in Value
<1>1. busy /\ ~owner_d /\ s_valid
  BY DEF inst_s_valid, done
<1>2. inflight /\ h_addr = req_pc /\ ~h_rw /\ req_pc \in Addr
  BY <1>1 DEF Inv, InFlight, TypeOK
<1>3. flatMem[req_pc] = IF req_pc \in LowAddr THEN lowram[req_pc] ELSE ram[req_pc]
  BY <1>2 DEF flatMem
<1>4. CASE h_ce
  <2>1. req_pc \in CacheAddr /\ out = ram[req_pc]
    BY <1>1, <1>2, <1>4, CacheAnswer
  <2>2. req_pc \notin LowAddr
    BY <2>1, MmuAssumption
  <2> QED
    BY <1>2, <1>3, <1>4, <2>1, <2>2 DEF read_data, Inv, TypeOK, PortTypeOK
<1>5. CASE ~h_ce
  <2>1. lm_v /\ req_pc \notin CacheAddr
    BY <1>1, <1>2, <1>5 DEF Inv, InFlight, s_valid
  <2>2. req_pc \in LowAddr
    BY <1>2, <2>1 DEF Addr
  <2>3. read_data = lowram[req_pc]
    BY <1>2, <1>5, <2>1 DEF read_data, Inv, LowRamServed
  <2> QED
    BY <1>2, <1>3, <2>2, <2>3 DEF Inv, TypeOK
<1> QED
  BY <1>4, <1>5

\* A data request that reaches the mmu is answered only as itself: the access
\* that ends is the request in execute.v's registers, never a leftover.
LEMMA AnswerIsOwn ==
    ASSUME Inv, NEW prec, m_valid_d, data_s_valid(prec), mem_address_d \notin PerAddr
    PROVE  /\ mem_address_d \in Addr
           /\ busy /\ s_valid /\ OwnRequest
           /\ ~mem_rw_d => read_data = flatMem[mem_address_d] /\ read_data \in Value
           /\ mem_rw_d /\ ~h_ce => lowram[mem_address_d] = mem_write_data
<1>1. busy /\ owner_d /\ s_valid
  BY DEF data_s_valid, done
<1>2. OwnRequest
  BY <1>1 DEF Inv, DataOwner, Leftover
<1>3. mem_address_d \in Addr /\ h_addr = mem_address_d /\ h_rw = mem_rw_d
  BY <1>2 DEF Inv, TypeOK, OwnRequest
<1>4. flatMem[mem_address_d] = IF mem_address_d \in LowAddr
                               THEN lowram[mem_address_d] ELSE ram[mem_address_d]
  BY <1>3 DEF flatMem
<1>5. CASE h_ce
  <2>1. mem_address_d \in CacheAddr /\ (~mem_rw_d => out = ram[mem_address_d])
    BY <1>1, <1>3, <1>5, CacheAnswer
  <2>2. mem_address_d \notin LowAddr
    BY <2>1, MmuAssumption
  <2> QED
    BY <1>1, <1>2, <1>3, <1>4, <1>5, <2>1, <2>2 DEF read_data, Inv, TypeOK, PortTypeOK
<1>6. CASE ~h_ce
  <2>1. lm_v /\ mem_address_d \in LowAddr
    BY <1>1, <1>3, <1>6 DEF Inv, InFlight, s_valid, Addr
  <2>2. ~mem_rw_d => read_data = lowram[mem_address_d]
    BY <1>3, <1>6, <2>1 DEF read_data, Inv, LowRamServed
  <2>3. mem_rw_d => lowram[mem_address_d] = mem_write_data
    BY <1>2, <1>3, <2>1 DEF Inv, LowRamServed, OwnRequest
  <2> QED
    BY <1>1, <1>2, <1>3, <1>4, <2>1, <2>2, <2>3 DEF Inv, TypeOK
<1> QED
  BY <1>5, <1>6

(***************************************************************************)
(* What one clock does to each part, whatever the arbiter decides.          *)
(***************************************************************************)

LEMMA BusType ==
    ASSUME Inv, NEW valid \in BOOLEAN, NEW rw \in BOOLEAN,
           NEW a \in Addr, NEW v \in Value, Bus(valid, rw, a, v)
    PROVE  /\ PortTypeOK'
           /\ lowram' \in [LowAddr -> Value] /\ lbr_q' \in Value \cup {Undef}
<1>1. lowram' \in [LowAddr -> Value] /\ lbr_q' \in Value \cup {Undef}
  BY DEF Bus, LowRam, Inv, TypeOK
<1> DEFINE req == valid /\ a \in CacheAddr
           wr == valid /\ rw /\ a \in CacheAddr
<1>2. CacheClock(req, wr, a, v)
  BY DEF Bus
<1>3. PortTypeOK
  BY DEF Inv, TypeOK
<1>4. IF pState' = "idle" THEN q' = None ELSE q' \in Request
  <2>1. CASE req
    <3>1. Presented(wr, a, v) \in Request
      BY <2>1, MmuAssumption DEF Presented, Request
    <3> QED
      BY <1>2, <2>1, <3>1 DEF CacheClock
  <2>2. CASE ~req
    <3>1. pState' # "idle" => pState # "idle"
      BY <1>2, <2>2 DEF CacheClock, Accept, CheckHit, CheckMiss, Fill, DataValid
    <3> QED
      BY <1>2, <1>3, <2>2, <3>1 DEF CacheClock, PortTypeOK
  <2> QED
    BY <2>1, <2>2
<1>5. ram' \in [CacheAddr -> Value]
  <2>1. CASE wr /\ DataValid
    <3>1. ram' = [ram EXCEPT ![a] = v]
      <4>1. ram[a] \in Value /\ Merge(ram[a], v) = v
        BY <1>3, <2>1, MmuAssumption DEF PortTypeOK
      <4>2. ram' = [ram EXCEPT ![a] = Merge(ram[a], v)]
        BY <1>2, <2>1 DEF CacheClock, Accept, CheckHit, CheckMiss, Fill, DataValid
      <4> QED
        BY <4>1, <4>2
    <3> QED
      BY <1>3, <3>1 DEF PortTypeOK
  <2>2. CASE ~(wr /\ DataValid)
    BY <1>2, <1>3, <2>2 DEF CacheClock, PortTypeOK, Accept, CheckHit, CheckMiss, Fill
  <2> QED
    BY <2>1, <2>2
<1>6. resident' \in SUBSET Line
  <2>1. pState = "fill" => LineOf[q.addr] \in Line
    BY <1>3 DEF PortTypeOK, Line, Request
  <2> QED
    BY <1>2, <1>3, <2>1 DEF CacheClock, PortTypeOK, Accept, CheckHit, CheckMiss, Fill
<1>7. pState' \in {"idle", "check", "fill"}
  BY <1>2, <1>3 DEF CacheClock, PortTypeOK, Accept, CheckHit, CheckMiss, Fill
<1> QED
  BY <1>1, <1>2, <1>4, <1>5, <1>6, <1>7 DEF PortTypeOK, CacheClock

LEMMA ExecuteType ==
    ASSUME Inv, Execute
    PROVE  /\ m_valid_d' \in BOOLEAN /\ mem_rw_d' \in BOOLEAN
           /\ mem_address_d' \in Addr \cup PerAddr /\ mem_write_data' \in Value
           /\ dout' \in Value \cup {None}
<1>1. ASSUME NEW prec \in BOOLEAN, Answered(prec)
      PROVE  dout' \in Value \cup {None}
  <2>1. CASE mem_rw_d \/ mem_address_d \in PerAddr
    BY <1>1, <2>1 DEF Answered, Inv, TypeOK
  <2>2. CASE ~mem_rw_d /\ mem_address_d \notin PerAddr
    BY <1>1, <2>2, AnswerIsOwn DEF Answered
  <2> QED
    BY <2>1, <2>2
<1>2. CASE \E prec \in BOOLEAN : Answered(prec)
  BY <1>1, <1>2 DEF Answered, Inv, TypeOK
<1>3. CASE UNCHANGED execVars
  BY <1>3 DEF execVars, Inv, TypeOK
<1>4. CASE NewRequest
  BY <1>4 DEF NewRequest, Inv, TypeOK
<1> QED
  BY <1>2, <1>3, <1>4 DEF Execute, Waiting, NoRequest

LEMMA FetchType ==
    ASSUME Inv, NEW accept \in BOOLEAN, NEW a \in Addr, FetchClock(accept, a)
    PROVE  inflight' \in BOOLEAN /\ req_pc' \in Addr /\ iout' \in Value \cup {None}
BY FetchTakes DEF FetchClock, Inv, TypeOK

(***************************************************************************)
(* The type invariant.                                                      *)
(***************************************************************************)

LEMMA LatchType ==
    ASSUME NEW d \in BOOLEAN, NEW a \in Addr, NEW v \in Value, NEW rw \in BOOLEAN,
           Latch(d, a, v, rw)
    PROVE  /\ busy' \in BOOLEAN /\ owner_d' \in BOOLEAN /\ lm_v' \in BOOLEAN
           /\ h_addr' \in Addr /\ h_wdata' \in Value /\ h_rw' \in BOOLEAN
           /\ h_ce' \in BOOLEAN
BY DEF Latch

LEMMA TypeStep ==
    ASSUME Inv, Next
    PROVE  TypeOK'
<1>1. CASE IssueData
  <2>1. mem_address_d \in Addr /\ mem_write_data \in Value /\ mem_rw_d \in BOOLEAN
    BY <1>1 DEF IssueData, data_m_valid, Inv, TypeOK
  <2>2. /\ PortTypeOK' /\ lowram' \in [LowAddr -> Value]
        /\ lbr_q' \in Value \cup {Undef}
    BY <1>1, <2>1, BusType DEF IssueData
  <2>3. inflight' \in BOOLEAN /\ req_pc' \in Addr /\ iout' \in Value \cup {None}
    BY <1>1, FetchType DEF IssueData, Inv, TypeOK
  <2>4. /\ busy' \in BOOLEAN /\ owner_d' \in BOOLEAN /\ lm_v' \in BOOLEAN
        /\ h_addr' \in Addr /\ h_wdata' \in Value /\ h_rw' \in BOOLEAN
        /\ h_ce' \in BOOLEAN
    BY <1>1, <2>1, LatchType DEF IssueData
  <2> QED
    BY <1>1, <2>2, <2>3, <2>4, ExecuteType DEF IssueData, TypeOK
<1>2. ASSUME NEW a \in Addr, IssueInst(a)
      PROVE  TypeOK'
  <2>1. mem_write_data \in Value
    BY DEF Inv, TypeOK
  <2>2. /\ PortTypeOK' /\ lowram' \in [LowAddr -> Value]
        /\ lbr_q' \in Value \cup {Undef}
    BY <1>2, <2>1, BusType DEF IssueInst
  <2>3. inflight' \in BOOLEAN /\ req_pc' \in Addr /\ iout' \in Value \cup {None}
    BY <1>2, FetchType DEF IssueInst
  <2>4. /\ busy' \in BOOLEAN /\ owner_d' \in BOOLEAN /\ lm_v' \in BOOLEAN
        /\ h_addr' \in Addr /\ h_wdata' \in Value /\ h_rw' \in BOOLEAN
        /\ h_ce' \in BOOLEAN
    BY <1>2, <2>1, LatchType DEF IssueInst
  <2> QED
    BY <1>2, <2>2, <2>3, <2>4, ExecuteType DEF IssueInst, TypeOK
<1>3. CASE NoIssue
  <2>1. h_addr \in Addr /\ h_wdata \in Value /\ hold \in BOOLEAN
        /\ (hold /\ h_rw) \in BOOLEAN
    BY DEF Inv, TypeOK, hold
  <2>2. /\ PortTypeOK' /\ lowram' \in [LowAddr -> Value]
        /\ lbr_q' \in Value \cup {Undef}
    BY <1>3, <2>1, BusType DEF NoIssue
  <2>3. inflight' \in BOOLEAN /\ req_pc' \in Addr /\ iout' \in Value \cup {None}
    BY <1>3, FetchType DEF NoIssue, Inv, TypeOK
  <2>4. /\ busy' \in BOOLEAN /\ owner_d' \in BOOLEAN /\ lm_v' \in BOOLEAN
        /\ h_addr' \in Addr /\ h_wdata' \in Value /\ h_rw' \in BOOLEAN
        /\ h_ce' \in BOOLEAN
    BY <1>3 DEF NoIssue, Inv, TypeOK
  <2> QED
    BY <1>3, <2>2, <2>3, <2>4, ExecuteType DEF NoIssue, TypeOK
<1> QED
  BY <1>1, <1>2, <1>3 DEF Next

(***************************************************************************)
(* The arbiter, the RAMs and fetch.v agree on the request in flight.        *)
(***************************************************************************)

\* When a request is issued the cache is idle or ends a read in this clock,
\* and no fetch is left behind.
LEMMA IssueSlot ==
    ASSUME Inv, can_issue
    PROVE  /\ pState = "idle" \/ (DataValid /\ busy /\ h_ce /\ ~h_rw /\ ~new_cache_wr)
           /\ ~(inflight /\ ~inst_s_valid)
BY DEF Inv, InFlight, TypeOK, PortTypeOK, can_issue, done, s_valid, DataValid, inst_s_valid

LEMMA BusIssue ==
    ASSUME Inv, can_issue, NEW rw \in BOOLEAN, NEW a \in Addr, NEW v \in Value,
           Bus(TRUE, rw, a, v), rw /\ a \in CacheAddr => new_cache_wr
    PROVE  /\ (pState' # "idle") = (a \in CacheAddr)
           /\ a \in CacheAddr => q' = Presented(rw, a, v) /\ pState' = "check"
           /\ resident' = resident
<1>1. CacheClock(a \in CacheAddr, rw /\ a \in CacheAddr, a, v)
  BY DEF Bus
<1>2. CASE pState = "idle"
  BY <1>1, <1>2 DEF CacheClock, Accept, CheckHit, CheckMiss, Fill, DataValid
<1>3. CASE DataValid /\ ~new_cache_wr
  BY <1>1, <1>3 DEF CacheClock, Accept, CheckHit, CheckMiss, Fill, DataValid
<1> QED
  BY <1>2, <1>3, IssueSlot

LEMMA InFlightStep ==
    ASSUME Inv, Next
    PROVE  InFlight'
<1>1. CASE IssueData
  <2>1. /\ can_issue /\ mem_address_d \in Addr /\ mem_write_data \in Value
        /\ mem_rw_d \in BOOLEAN
    BY <1>1 DEF IssueData, data_m_valid, Inv, TypeOK
  <2>2. mem_rw_d /\ mem_address_d \in CacheAddr => new_cache_wr
    BY <1>1 DEF IssueData, new_cache_wr
  <2>3. /\ (pState' # "idle") = (mem_address_d \in CacheAddr)
        /\ mem_address_d \in CacheAddr =>
             q' = Presented(mem_rw_d, mem_address_d, mem_write_data)
    BY <1>1, <2>1, <2>2, BusIssue DEF IssueData
  <2>4. inflight' = FALSE
    BY <1>1, <2>1, IssueSlot DEF IssueData, FetchClock
  <2> QED
    BY <1>1, <2>3, <2>4 DEF IssueData, Latch, InFlight
<1>2. ASSUME NEW a \in Addr, IssueInst(a)
      PROVE  InFlight'
  <2>1. can_issue /\ mem_write_data \in Value
    BY <1>2 DEF IssueInst, inst_m_ready, Inv, TypeOK
  <2>2. /\ (pState' # "idle") = (a \in CacheAddr)
        /\ a \in CacheAddr => q' = Presented(FALSE, a, mem_write_data)
    BY <1>2, <2>1, BusIssue DEF IssueInst
  <2>3. inflight' = TRUE /\ req_pc' = a
    BY <1>2 DEF IssueInst, FetchClock
  <2> QED
    BY <1>2, <2>2, <2>3 DEF IssueInst, Latch, InFlight
<1>3. CASE NoIssue
  <2>1. CacheClock(hold /\ h_addr \in CacheAddr, hold /\ h_rw /\ h_addr \in CacheAddr,
                   h_addr, h_wdata)
    BY <1>3 DEF NoIssue, Bus
  <2>2. /\ busy' = (busy /\ ~done) /\ lm_v' = FALSE /\ h_ce' = h_ce
        /\ h_addr' = h_addr /\ owner_d' = owner_d /\ h_rw' = h_rw
        /\ h_wdata' = h_wdata
        /\ inflight' = (inflight /\ ~inst_s_valid) /\ req_pc' = req_pc
    BY <1>3 DEF NoIssue, FetchClock
  <2>3. inflight' = (busy' /\ ~owner_d')
    BY <2>2 DEF Inv, InFlight, TypeOK, inst_s_valid
  <2>4. lm_v' = (busy' /\ ~h_ce')
    BY <2>2 DEF Inv, InFlight, TypeOK, done, s_valid
  <2>5. (pState' # "idle") = (busy' /\ h_ce')
    <3>1. CASE pState = "idle"
      BY <2>1, <2>2, <3>1 DEF CacheClock, Accept, CheckHit, CheckMiss, Fill, DataValid,
         hold, s_valid, done, Inv, InFlight, TypeOK
    <3>2. CASE DataValid
      BY <2>1, <2>2, <3>2 DEF CacheClock, Accept, CheckHit, CheckMiss, Fill, DataValid,
         hold, s_valid, done, Inv, InFlight, TypeOK
    <3>3. CASE pState # "idle" /\ ~DataValid
      <4>1. busy /\ h_ce /\ ~s_valid /\ hold /\ h_addr \in CacheAddr /\ ~done
        BY <3>3 DEF Inv, InFlight, TypeOK, s_valid, hold, done
      <4> QED
        BY <2>1, <2>2, <3>3, <4>1 DEF CacheClock, Accept, CheckHit, CheckMiss, Fill, DataValid
    <3> QED
      BY <3>1, <3>2, <3>3
  <2>6. pState' # "idle" => q' = Presented(h_rw', h_addr', h_wdata')
    <3> SUFFICES ASSUME pState' # "idle" PROVE q' = Presented(h_rw, h_addr, h_wdata)
      BY <2>2
    <3>1. busy /\ h_ce /\ hold /\ h_addr \in CacheAddr
      BY <2>2, <2>5 DEF done, hold, Inv, InFlight, TypeOK
    <3>2. (hold /\ h_rw /\ h_addr \in CacheAddr) = h_rw
      BY <3>1 DEF Inv, TypeOK
    <3> QED
      BY <2>1, <3>1, <3>2 DEF CacheClock
  <2> QED
    BY <2>2, <2>3, <2>4, <2>5, <2>6 DEF Inv, InFlight, TypeOK
<1> QED
  BY <1>1, <1>2, <1>3 DEF Next

(***************************************************************************)
(* An access in flight for the data side is execute.v's own, or a leftover  *)
(* that ends in this clock.                                                 *)
(***************************************************************************)

LEMMA DataOwnerStep ==
    ASSUME Inv, Next, TypeOK'
    PROVE  DataOwner'
<1>1. CASE IssueData
  <2>1. /\ can_issue /\ data_m_valid /\ mem_address_d \in Addr /\ mem_rw_d \in BOOLEAN
        /\ mem_write_data \in Value /\ mem_address_d \notin PerAddr /\ m_valid_d
    BY <1>1 DEF IssueData, data_m_valid, Inv, TypeOK
  <2>2. /\ busy' /\ owner_d' /\ h_addr' = mem_address_d /\ h_rw' = mem_rw_d
        /\ h_wdata' = mem_write_data /\ h_ce' = (mem_address_d \in CacheAddr)
        /\ lm_v' = (mem_address_d \notin CacheAddr)
    BY <1>1 DEF IssueData, Latch
  <2>3. CASE UNCHANGED execVars
    BY <2>1, <2>2, <2>3 DEF DataOwner, OwnRequest, data_m_valid, execVars
  <2>4. ASSUME NEW prec \in BOOLEAN, Answered(prec)
        PROVE  DataOwner'
    <3>1. /\ m_valid_d' = FALSE /\ busy /\ s_valid /\ OwnRequest /\ done
      BY <2>1, <2>4, AnswerIsOwn DEF Answered, done
    <3>2. h_addr = mem_address_d /\ h_rw = mem_rw_d
      BY <3>1 DEF OwnRequest
    <3>3. CASE mem_address_d \in CacheAddr
      <4>1. h_ce /\ ~h_rw
        BY <2>1, <3>1, <3>2, <3>3 DEF can_issue, done, s_valid, Inv, InFlight, TypeOK
      <4>2. DataValid /\ q = Presented(h_rw, h_addr, h_wdata)
        BY <3>1, <4>1, CacheAnswer
      <4>3. /\ q' = Presented(mem_rw_d, mem_address_d, mem_write_data)
            /\ pState' = "check" /\ resident' = resident
        BY <1>1, <2>1, <3>2, <3>3, <4>1, BusIssue DEF IssueData
      <4>4. q.addr = mem_address_d /\ q'.addr = mem_address_d
        BY <3>2, <4>2, <4>3 DEF Presented
      <4>5. DataValid'
        BY <4>2, <4>3, <4>4 DEF DataValid, Hit
      <4> QED
        BY <2>2, <3>1, <3>2, <3>3, <4>1, <4>5 DEF DataOwner, Leftover, done, s_valid
    <3>4. CASE mem_address_d \notin CacheAddr
      BY <2>2, <3>1, <3>4 DEF DataOwner, Leftover, done, s_valid
    <3> QED
      BY <3>3, <3>4
  <2> QED
    BY <1>1, <2>1, <2>3, <2>4 DEF IssueData, Execute, Waiting, NewRequest, NoRequest
<1>2. ASSUME NEW a \in Addr, IssueInst(a)
      PROVE  DataOwner'
  BY <1>2 DEF IssueInst, Latch, DataOwner
<1>3. CASE NoIssue
  <2>1. SUFFICES ASSUME busy', owner_d'
                 PROVE  OwnRequest'
    BY DEF DataOwner
  <2>2. busy /\ ~done /\ owner_d
    BY <1>3, <2>1 DEF NoIssue, Inv, TypeOK
  <2>3. OwnRequest
    BY <2>2 DEF Inv, DataOwner, Leftover
  <2>4. m_valid_d /\ mem_address_d \notin PerAddr
    BY <2>3 DEF OwnRequest, data_m_valid
  <2>5. UNCHANGED execVars
    BY <1>3, <2>2, <2>4 DEF NoIssue, Execute, Answered, Waiting, NewRequest, NoRequest,
       data_s_valid
  <2> QED
    BY <1>3, <2>3, <2>5 DEF NoIssue, execVars, OwnRequest, data_m_valid
<1> QED
  BY <1>1, <1>2, <1>3 DEF Next

LEMMA LowRamServedStep ==
    ASSUME Inv, Next
    PROVE  LowRamServed'
<1>1. ASSUME NEW d, NEW a \in Addr, NEW v, NEW rw \in BOOLEAN,
             Latch(d, a, v, rw), Bus(TRUE, rw, a, v)
      PROVE  LowRamServed'
  <2>1. lm_v' => a \in LowAddr
    BY <1>1 DEF Latch, Addr
  <2> QED
    BY <1>1, <2>1 DEF Latch, Bus, LowRam, LowRamServed, Inv, TypeOK
<1>2. CASE IssueData
  BY <1>1, <1>2 DEF IssueData, data_m_valid, Inv, TypeOK
<1>3. ASSUME NEW a \in Addr, IssueInst(a)
      PROVE  LowRamServed'
  BY <1>1, <1>3 DEF IssueInst
<1>4. CASE NoIssue
  BY <1>4 DEF NoIssue, LowRamServed
<1> QED
  BY <1>2, <1>3, <1>4 DEF Next

--------------------------------------------------------------------------------

LEMMA InvInit == Init => Inv
<1> SUFFICES ASSUME Init PROVE Inv
  OBVIOUS
<1>1. TypeOK
  BY DEF Init, CacheInit, TypeOK, PortTypeOK, Line, Output, DataValid
<1>2. InFlight /\ DataOwner /\ LowRamServed
  BY DEF Init, CacheInit, InFlight, DataOwner, LowRamServed
<1> QED
  BY <1>1, <1>2 DEF Inv

LEMMA InvNext == Inv /\ [Next]_vars => Inv'
<1> SUFFICES ASSUME Inv, [Next]_vars PROVE Inv'
  OBVIOUS
<1>1. CASE Next
  BY <1>1, TypeStep, InFlightStep, DataOwnerStep, LowRamServedStep DEF Inv
<1>2. CASE UNCHANGED vars
  BY <1>2 DEF vars, arbVars, lowVars, execVars, fetchVars, portVars, Inv, TypeOK,
     PortTypeOK, InFlight, DataOwner, LowRamServed, OwnRequest, Leftover, data_m_valid,
     done, s_valid, DataValid, Hit, Output
<1> QED
  BY <1>1, <1>2

\* The four parts of the invariant hold together in every reachable state.
THEOREM Invariant == Spec => []Inv
BY InvInit, InvNext, PTL DEF Spec

\* Neither stage ever takes a RAM output that was not read for it.
THEOREM TypeCorrect == Spec => []TypeOK
<1>1. Inv => TypeOK
  BY DEF Inv
<1> QED
  BY <1>1, Invariant, PTL

\* The second issue of an answered load is never taken for a later request.
THEOREM NoStaleAnswer == Spec => []DataOwner
<1>1. Inv => DataOwner
  BY DEF Inv
<1> QED
  BY <1>1, Invariant, PTL

(***************************************************************************)
(* Refinement: mmu.v implements one flat memory with two ports.             *)
(***************************************************************************)

\* A store to the cache is of a whole word.
LEMMA WholeWord ==
    ASSUME Inv, h_addr \in CacheAddr
    PROVE  [ram EXCEPT ![h_addr] = Merge(@, h_wdata)] = [ram EXCEPT ![h_addr] = h_wdata]
<1>1. ram[h_addr] \in Value /\ h_wdata \in Value
  BY DEF Inv, TypeOK, PortTypeOK
<1>2. Merge(ram[h_addr], h_wdata) = h_wdata
  BY <1>1, MmuAssumption
<1> QED
  BY <1>2

\* The contents of the memory change only by the store being made.
LEMMA MemoryStep ==
    ASSUME Inv, Next
    PROVE  \/ flatMem' = flatMem /\ lowram' = lowram /\ ram' = ram
           \/ /\ data_m_valid /\ mem_rw_d
              /\ flatMem' = [flatMem EXCEPT ![mem_address_d] = mem_write_data]
<1>1. CASE lowram' = lowram /\ ram' = ram
  BY <1>1 DEF flatMem
<1>2. ASSUME mem_address_d \in LowAddr, ram' = ram,
             lowram' = [lowram EXCEPT ![mem_address_d] = mem_write_data]
      PROVE  flatMem' = [flatMem EXCEPT ![mem_address_d] = mem_write_data]
  BY <1>2 DEF flatMem, Inv, TypeOK, Addr
<1>3. ASSUME mem_address_d \in CacheAddr, lowram' = lowram,
             ram' = [ram EXCEPT ![mem_address_d] = mem_write_data]
      PROVE  flatMem' = [flatMem EXCEPT ![mem_address_d] = mem_write_data]
  BY <1>3, MmuAssumption DEF flatMem, Inv, TypeOK, PortTypeOK, Addr
<1>4. CASE IssueData
  <2>1. can_issue /\ data_m_valid
    BY <1>4 DEF IssueData
  <2>2. ram' = ram
    BY <1>4, <2>1, IssueSlot DEF IssueData, Bus, CacheClock, Accept, CheckHit, CheckMiss,
       Fill, DataValid, new_cache_wr
  <2>3. \/ lowram' = lowram
        \/ /\ mem_address_d \in LowAddr /\ mem_rw_d
           /\ lowram' = [lowram EXCEPT ![mem_address_d] = mem_write_data]
    BY <1>4 DEF IssueData, Bus, LowRam
  <2> QED
    BY <1>1, <1>2, <2>1, <2>2, <2>3
<1>5. ASSUME NEW a \in Addr, IssueInst(a)
      PROVE  lowram' = lowram /\ ram' = ram
  BY <1>5 DEF IssueInst, Bus, LowRam, CacheClock, Accept, CheckHit, CheckMiss, Fill
<1>6. CASE NoIssue
  <2>1. lowram' = lowram
    BY <1>6, MmuAssumption DEF NoIssue, Bus, LowRam, hold, s_valid, Inv, InFlight, TypeOK
  <2>2. CASE ram' = ram
    BY <1>1, <2>1, <2>2
  <2>3. CASE ram' # ram
    <3>1. /\ DataValid /\ hold /\ h_rw /\ h_addr \in CacheAddr
          /\ ram' = [ram EXCEPT ![h_addr] = h_wdata]
      BY <1>6, <2>3, WholeWord DEF NoIssue, Bus, CacheClock, Accept, CheckHit, CheckMiss, Fill
    <3>2. busy /\ owner_d /\ h_ce
      BY <3>1 DEF hold, Inv, InFlight, TypeOK
    <3>3. OwnRequest
      BY <3>1, <3>2 DEF Inv, DataOwner, Leftover
    <3>4. /\ data_m_valid /\ mem_rw_d /\ h_addr = mem_address_d
          /\ h_wdata = mem_write_data
      BY <3>1, <3>3 DEF OwnRequest
    <3> QED
      BY <1>3, <2>1, <3>1, <3>4
  <2> QED
    BY <2>2, <2>3
<1> QED
  BY <1>1, <1>4, <1>5, <1>6 DEF Next

\* A store that is answered is in the memory when the clock ends.
LEMMA StoreDone ==
    ASSUME Inv, Next, NEW prec, Answered(prec), data_m_valid, mem_rw_d
    PROVE  flatMem' = [flatMem EXCEPT ![mem_address_d] = mem_write_data]
<1>1. /\ mem_address_d \in Addr /\ busy /\ s_valid /\ OwnRequest
      /\ ~h_ce => lowram[mem_address_d] = mem_write_data
  BY AnswerIsOwn DEF Answered, data_m_valid
<1>2. /\ h_addr = mem_address_d /\ h_rw = mem_rw_d /\ h_wdata = mem_write_data
  BY <1>1 DEF OwnRequest
<1>3. CASE ~h_ce
  <2>1. mem_address_d \in LowAddr
    BY <1>1, <1>2, <1>3 DEF Inv, InFlight, Addr
  <2>2. flatMem[mem_address_d] = mem_write_data
    BY <1>1, <1>3, <2>1 DEF flatMem
  <2>3. flatMem = [flatMem EXCEPT ![mem_address_d] = mem_write_data]
    BY <1>1, <2>2 DEF flatMem
  <2> QED
    BY <2>3, MemoryStep
<1>4. CASE h_ce
  <2>1. ~can_issue /\ hold
    BY <1>1, <1>2, <1>4 DEF can_issue, hold
  <2>2. NoIssue
    BY <2>1 DEF Next, IssueData, IssueInst, inst_m_ready
  <2>3. DataValid /\ h_addr \in CacheAddr
    BY <1>1, <1>4 DEF s_valid, Inv, InFlight
  <2>4. ram' = [ram EXCEPT ![mem_address_d] = mem_write_data]
    BY <1>2, <2>1, <2>2, <2>3, WholeWord
       DEF NoIssue, Bus, CacheClock, Accept, CheckHit, CheckMiss, Fill, DataValid
  <2>5. CASE ram' = ram /\ lowram' = lowram
    BY <1>1, <1>2, <2>3, <2>4, <2>5, MmuAssumption
       DEF flatMem, Inv, TypeOK, PortTypeOK, Addr
  <2> QED
    BY <2>5, MemoryStep
<1> QED
  BY <1>3, <1>4

LEMMA DataPort ==
    ASSUME Inv, Next
    PROVE  Flat!DataStep
<1> USE DEF Flat!DataStep, Flat!Stored
<1>1. Execute
  BY DEF Next, IssueData, IssueInst, NoIssue
<1>2. data_m_valid => /\ dreq # None /\ dreq.rw = mem_rw_d
                      /\ dreq.addr = mem_address_d /\ dreq.data = mem_write_data
  BY MmuAssumption DEF dreq, data_m_valid, Inv, TypeOK
<1>3. ~data_m_valid => dreq = None
  BY DEF dreq
<1>4. CASE data_m_valid /\ \E prec \in BOOLEAN : Answered(prec)
  <2>1. PICK prec \in BOOLEAN : Answered(prec)
    BY <1>4
  <2>2. dreq' = None
    BY <2>1 DEF Answered, data_m_valid, dreq
  <2>3. CASE mem_rw_d
    BY <1>2, <1>4, <2>1, <2>2, <2>3, StoreDone DEF Flat!DataComplete, Answered
  <2>4. CASE ~mem_rw_d
    <3>1. read_data = flatMem[mem_address_d] /\ mem_address_d \notin PerAddr
      BY <1>4, <2>1, <2>4, AnswerIsOwn DEF Answered, data_m_valid
    <3>2. dout' = flatMem[mem_address_d]
      BY <2>1, <2>4, <3>1 DEF Answered
    <3> QED
      BY <1>2, <1>4, <2>2, <2>4, <3>2, MemoryStep DEF Flat!DataComplete
  <2> QED
    BY <2>3, <2>4
<1>5. CASE data_m_valid /\ UNCHANGED execVars
  <2>1. dreq' = dreq /\ dout' = dout
    BY <1>5 DEF dreq, execVars, data_m_valid
  <2> QED
    BY <1>2, <1>5, <2>1, MemoryStep DEF Flat!DataPerform
<1>6. CASE ~data_m_valid
  <2>1. flatMem' = flatMem
    BY <1>6, MemoryStep
  <2>2. dout' = dout
    BY <1>1, <1>6 DEF Execute, Answered, Waiting, NewRequest, NoRequest, execVars,
       data_m_valid
  <2>3. CASE ~data_m_valid'
    BY <1>3, <1>6, <2>1, <2>2, <2>3 DEF dreq
  <2>4. CASE data_m_valid'
    <3>1. dreq' \in Flat!Request
      BY <2>4, TypeStep DEF TypeOK, data_m_valid, dreq, Flat!Request
    <3> QED
      BY <1>3, <1>6, <2>1, <2>2, <3>1 DEF Flat!DataRequest
  <2> QED
    BY <2>3, <2>4
<1> QED
  BY <1>1, <1>4, <1>5, <1>6 DEF Execute, Waiting, NewRequest, NoRequest, data_m_valid

LEMMA InstPort ==
    ASSUME Inv, Next
    PROVE  Flat!InstStep
<1> USE DEF Flat!InstStep
<1>1. PICK accept \in BOOLEAN, a \in Addr : FetchClock(accept, a) /\ (accept => can_issue)
  BY DEF Next, IssueData, IssueInst, NoIssue, inst_m_ready, Inv, TypeOK
<1>2. inflight => ireq # None /\ ireq = req_pc
  BY MmuAssumption DEF ireq, Inv, TypeOK
<1>3. ireq' = IF accept THEN a ELSE IF inflight /\ ~inst_s_valid THEN req_pc ELSE None
  BY <1>1 DEF FetchClock, ireq
<1>4. CASE inst_s_valid
  BY <1>1, <1>2, <1>3, <1>4, FetchTakes DEF Flat!InstComplete, FetchClock
<1>5. CASE ~inst_s_valid
  <2>1. iout' = iout
    BY <1>1, <1>5 DEF FetchClock
  <2>2. accept => ~inflight
    BY <1>1, <1>5, IssueSlot
  <2>3. ~inflight => ireq = None
    BY DEF ireq
  <2>4. CASE accept
    BY <1>3, <2>1, <2>2, <2>3, <2>4 DEF Flat!InstRequest
  <2>5. CASE ~accept
    BY <1>2, <1>3, <1>5, <2>1, <2>3, <2>5
  <2> QED
    BY <2>4, <2>5
<1> QED
  BY <1>4, <1>5

\* Every behaviour of the arbiter is a behaviour of the flat memory.
THEOREM Refinement == Spec => FlatSpec
<1>1. Init => Flat!Init
  BY DEF Init, CacheInit, Flat!Init, flatMem, dreq, ireq, data_m_valid, Addr
<1>2. Inv /\ [Next]_vars => [Flat!Next]_Flat!flatVars
  <2>1. ASSUME Inv, Next PROVE Flat!Next
    BY <2>1, DataPort, InstPort DEF Flat!Next
  <2>2. ASSUME UNCHANGED vars PROVE UNCHANGED Flat!flatVars
    BY <2>2 DEF vars, arbVars, lowVars, execVars, fetchVars, portVars, Flat!flatVars,
       flatMem, dreq, ireq, data_m_valid
  <2> QED
    BY <2>1, <2>2
<1> QED
  BY <1>1, <1>2, Invariant, PTL DEF Spec, FlatSpec, Flat!Spec

(***************************************************************************)
(* The other half of the contract with the cache.                           *)
(***************************************************************************)

\* In every clock of the arbiter the bus it drives keeps the requester's side of
\* CachePort: a request once presented stays, unchanged, until it is answered.
THEOREM UsesCacheLegally == Spec => LegalUser
<1> DEFINE Driven == /\ Legal(mem_req, br_hwren, h_addr', h_wdata')
                     /\ CacheClock(mem_req, br_hwren, h_addr', h_wdata')
<1>1. ASSUME Inv, Next PROVE Driven
  <2>1. ASSUME Unanswered
        PROVE  /\ busy /\ h_ce /\ h_addr \in CacheAddr /\ hold /\ ~can_issue
               /\ q = Presented(h_rw, h_addr, h_wdata)
    <3>1. /\ pState # "idle" /\ busy /\ h_ce /\ h_addr \in CacheAddr
          /\ q = Presented(h_rw, h_addr, h_wdata)
      BY <1>1, <2>1 DEF Inv, InFlight, Unanswered, TypeOK
    <3>2. q.rw = h_rw
      BY <3>1 DEF Presented
    <3> QED
      BY <2>1, <3>1, <3>2 DEF Unanswered, hold, can_issue, done, s_valid, DataValid
  <2>2. CASE IssueData
    <3>1. /\ can_issue /\ data_m_valid /\ mem_rw_d \in BOOLEAN
          /\ busy' /\ h_addr' = mem_address_d /\ h_rw' = mem_rw_d
          /\ h_wdata' = mem_write_data
      BY <1>1, <2>2 DEF IssueData, Latch, Inv, TypeOK
    <3>2. m_valid = TRUE
      BY <3>1 DEF m_valid, issue
    <3>3. /\ mem_req = (TRUE /\ mem_address_d \in CacheAddr)
          /\ br_hwren = (TRUE /\ mem_rw_d /\ mem_address_d \in CacheAddr)
      BY <3>1, <3>2 DEF mem_req, br_hwren
    <3>4. CacheClock(mem_req, br_hwren, h_addr', h_wdata')
      BY <2>2, <3>1, <3>3 DEF IssueData, Bus
    <3>5. Legal(mem_req, br_hwren, h_addr', h_wdata')
      <4>1. ~Unanswered
        BY <2>1, <3>1
      <4>2. br_hwren => mem_req
        BY DEF br_hwren
      <4>3. br_hwren => new_cache_wr
        BY <3>1, <3>3 DEF new_cache_wr
      <4>4. DataValid => ~new_cache_wr
        BY <1>1, <3>1, IssueSlot DEF DataValid
      <4> QED
        BY <4>1, <4>2, <4>3, <4>4 DEF Legal
    <3> QED
      BY <3>4, <3>5
  <2>3. ASSUME NEW a \in Addr, IssueInst(a)
        PROVE  Driven
    <3>1. /\ can_issue /\ busy' /\ h_addr' = a /\ h_rw' = FALSE
          /\ h_wdata' = mem_write_data
      BY <2>3 DEF IssueInst, Latch, inst_m_ready
    <3>2. m_valid = TRUE
      BY <3>1 DEF m_valid, issue
    <3>3. /\ mem_req = (TRUE /\ a \in CacheAddr)
          /\ br_hwren = (TRUE /\ FALSE /\ a \in CacheAddr)
      BY <3>1, <3>2 DEF mem_req, br_hwren
    <3>4. CacheClock(mem_req, br_hwren, h_addr', h_wdata')
      BY <2>3, <3>1, <3>3 DEF IssueInst, Bus
    <3>5. Legal(mem_req, br_hwren, h_addr', h_wdata')
      BY <2>1, <3>1, <3>3 DEF Legal
    <3> QED
      BY <3>4, <3>5
  <2>4. CASE NoIssue
    <3>1. /\ h_addr' = h_addr /\ h_rw' = h_rw /\ h_wdata' = h_wdata
          /\ busy' = (busy /\ ~done)
      BY <2>4 DEF NoIssue
    <3>2. ~(can_issue /\ busy')
      BY <3>1 DEF can_issue
    <3>3. m_valid = hold
      BY <3>2 DEF m_valid, issue, hold
    <3>4. /\ mem_req = (hold /\ h_addr \in CacheAddr)
          /\ br_hwren = (hold /\ (hold /\ h_rw) /\ h_addr \in CacheAddr)
      BY <3>1, <3>3 DEF mem_req, br_hwren
    <3>5. CacheClock(mem_req, br_hwren, h_addr', h_wdata')
      BY <2>4, <3>1, <3>4 DEF NoIssue, Bus
    <3>6. Legal(mem_req, br_hwren, h_addr', h_wdata')
      <4>1. br_hwren => mem_req
        BY DEF br_hwren
      <4>2. CASE Unanswered
        <5>1. mem_req /\ br_hwren = h_rw /\ q = Presented(h_rw, h_addr, h_wdata)
          BY <1>1, <2>1, <3>4, <4>2 DEF Inv, TypeOK
        <5>2. DataValid => q.rw
          BY <4>2 DEF Unanswered, DataValid
        <5> QED
          BY <3>1, <4>1, <5>1, <5>2 DEF Legal
      <4>3. CASE ~Unanswered
        <5>1. ASSUME DataValid, ~q.rw PROVE ~br_hwren
          <6>1. q = Presented(h_rw, h_addr, h_wdata)
            BY <1>1, <5>1 DEF Inv, InFlight, DataValid
          <6>2. q.rw = h_rw
            BY <6>1 DEF Presented
          <6> QED
            BY <3>1, <5>1, <6>2 DEF br_hwren
        <5> QED
          BY <4>1, <4>3, <5>1 DEF Legal
      <4> QED
        BY <4>2, <4>3
    <3> QED
      BY <3>5, <3>6
  <2> QED
    BY <1>1, <2>2, <2>3, <2>4 DEF Next
<1>2. Inv /\ [Next]_vars => [Driven]_vars
  BY <1>1
<1> QED
  BY <1>2, Invariant, PTL DEF Spec, LegalUser
================================================================================
