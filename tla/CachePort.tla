------------------------------- MODULE CachePort -------------------------------
(***************************************************************************)
(* What the data cache of memcahce.v promises to the arbiter of mmu.v, one  *)
(* clock per step: a memory of words that answers a held request after an   *)
(* unspecified number of clocks, and puts the word a read asked for on its  *)
(* data output in the clock of the answer.  How lines are found, evicted,   *)
(* written back and filled is the business of module MemCache, which is     *)
(* shown to implement this one; module Mmu drives this one.                 *)
(***************************************************************************)
CONSTANTS
    CacheAddr,   \* the word addresses served by the cache (0x10000 and above)
    LineOf,      \* LineOf[a] is the cache line that holds word a
    Value,       \* the contents of a word
    Data,        \* what a store puts on the bus: write data and byte enables
    Merge(_, _), \* the word a store leaves: Merge(old word, data)
    None,        \* no request
    Undef        \* a RAM output that was not read for

Request == [addr : CacheAddr, rw : BOOLEAN, data : Data]

ASSUME CachePortAssumption ==
    /\ LineOf = [a \in CacheAddr |-> LineOf[a]]
    /\ \A w \in Value, d \in Data : Merge(w, d) \in Value
    /\ None \notin Request /\ Undef \notin Value

Line == {LineOf[a] : a \in CacheAddr}

VARIABLES
    pState,      \* "idle", "check" (CACHE_CHECK) or "fill" (every other state)
    q,           \* the request being checked, as it was presented
    resident,    \* the lines the next lookup will find
    ram,         \* the contents of the cacheable memory, as a reader sees it
    out          \* read_data, the data output

portVars == <<pState, q, resident, ram, out>>

Hit == LineOf[q.addr] \in resident

DataValid == pState = "check" /\ Hit

\* An answered read finds its word on the data output; nothing is promised of
\* the output in any other clock.
Output == IF DataValid /\ ~q.rw THEN ram[q.addr] ELSE Undef

(***************************************************************************)
(* One clock.  req is rw_req & ce, rw is the write strobe, a and v are the  *)
(* live address and write data.                                             *)
(***************************************************************************)
Accept(req) ==
    /\ pState = "idle"
    /\ pState' = IF req THEN "check" ELSE "idle"
    /\ UNCHANGED <<resident, ram>>

\* A hit completes the request.  Only a read presented in the same clock is
\* checked at once; a write must wait until the port is idle again.
CheckHit(req, rw, a, v) ==
    /\ DataValid
    /\ pState' = IF req /\ ~rw THEN "check" ELSE "idle"
    /\ ram' = IF rw THEN [ram EXCEPT ![a] = Merge(@, v)] ELSE ram
    /\ UNCHANGED resident

CheckMiss ==
    /\ pState = "check" /\ ~Hit
    /\ pState' = "fill"
    /\ UNCHANGED <<resident, ram>>

\* The requested line is brought in, at the price of any other lines.
Fill ==
    /\ pState = "fill"
    /\ resident' \in SUBSET (resident \cup {LineOf[q.addr]})
    /\ pState' \in {"fill", "check"}
    /\ pState' = "check" => LineOf[q.addr] \in resident'
    /\ UNCHANGED ram

Presented(rw, a, v) == [addr |-> a, rw |-> rw, data |-> v]

CacheClock(req, rw, a, v) ==
    /\ Accept(req) \/ CheckHit(req, rw, a, v) \/ CheckMiss \/ Fill
    /\ q' = IF pState' = "idle" THEN None
            ELSE IF req THEN Presented(rw, a, v) ELSE q
    /\ out' = Output'

(***************************************************************************)
(* What the requester owes the cache: until its request is answered it      *)
(* presents the very request that is being checked (a store through the     *)
(* clock of the answer, which performs it with the live wires), and it      *)
(* raises no write strobe over the answer to a read.                        *)
(***************************************************************************)
Unanswered == pState = "fill" \/ (pState = "check" /\ (q.rw \/ ~Hit))

Legal(req, rw, a, v) ==
    /\ rw => req
    /\ Unanswered => req /\ q = Presented(rw, a, v)
    /\ DataValid /\ ~q.rw => ~rw

CacheInit ==
    /\ pState = "idle" /\ q = None
    /\ resident = {}
    /\ ram \in [CacheAddr -> Value]
    /\ out = Undef

CacheNext ==
    \E req, rw \in BOOLEAN, a \in CacheAddr, v \in Data :
        Legal(req, rw, a, v) /\ CacheClock(req, rw, a, v)

CacheSpec == CacheInit /\ [][CacheNext]_portVars

PortTypeOK ==
    /\ pState \in {"idle", "check", "fill"}
    /\ IF pState = "idle" THEN q = None ELSE q \in Request
    /\ resident \in SUBSET Line
    /\ ram \in [CacheAddr -> Value]
    /\ out = Output
================================================================================
