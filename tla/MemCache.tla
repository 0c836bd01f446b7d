-------------------------------- MODULE MemCache -------------------------------
(***************************************************************************)
(* The two-way write-back cache of rtl/memory/memcahce.v, clock by clock:   *)
(* its state machine, the lookup rows, the data RAMs with their registered  *)
(* outputs, and the half-word bursts that write a dirty victim back and     *)
(* fill a line.  The requester behaves as module CachePort demands (mmu.v   *)
(* does, see Mmu); the SDRAM side answers a request with one burst, as      *)
(* module BurstPort promises (SdramArb keeps the promise).                  *)
(***************************************************************************)
EXTENDS Naturals, FiniteSets

CONSTANTS
    Tags,        \* values of cache_tag (2^15 in the code)
    RowTags,     \* values of the tag field of a lookup row (2^14: see Stored)
    NSets,       \* rows of the lookup RAM (128 in the code)
    HW,          \* half-words in a line, PAGE_SIZE + 1 (32 in the code)
    Reads,       \* the word addresses a program reads
    Writes,      \* the stores it makes: [addr, be, data]
    InitMem,     \* initial contents of the SDRAM
    HalfVal,     \* the contents of a half-word
    Undef        \* a RAM output that is not read, or an undriven data bus

PAGE_SIZE == HW - 1
READ_DELAY == 2
Way == {0, 1}
Set == 0..NSets - 1
Tag == 0..Tags - 1
Half == 0..HW - 1
Word == 0..(HW \div 2) - 1
Address == [tag : Tag, set : Set, word : Word]
Count == 0..2 * HW - 1                 \* a_count is one bit wider than an index
MinusOne == 2 * HW - 1

\* Mutant: a lookup row one bit narrower still.
Stored_narrow(t) == t % (RowTags \div 2)

\* A lookup row packs {tag, dirty, mru} into COL_W = 16 bits: the top bit of the
\* 15-bit tag has no room.
Stored(t) == t % RowTags
Row == [tag : Tag, dirty : BOOLEAN, mru : BOOLEAN]

\* be and data are kept per half-word: lane 1 is the low half, lane 2 the high.
ReadReq(a) == [addr |-> a, rw |-> FALSE, be |-> {}, data |-> <<Undef, Undef>>]
WriteReq(w) == [addr |-> w.addr, rw |-> TRUE, be |-> w.be, data |-> w.data]
Requests == {ReadReq(a) : a \in Reads} \cup {WriteReq(w) : w \in Writes}

(***************************************************************************)
(* Tag 0 is the low RAM and never reaches the cache (mmu.v's ce), and a row *)
(* that was never written reads as zero: that is how an empty way is told.  *)
(***************************************************************************)
ASSUME MemCacheAssumption ==
    /\ Tags \in Nat \ {0} /\ RowTags \in Nat \ {0} /\ RowTags <= Tags
    /\ NSets \in Nat \ {0}
    /\ HW \in Nat /\ HW % 2 = 0 /\ HW >= 4
    /\ Reads \subseteq {a \in Address : a.tag # 0}
    /\ Writes \subseteq [addr : {a \in Address : a.tag # 0}, be : SUBSET {1, 2},
                         data : HalfVal \X HalfVal]
    /\ Requests # {}
    /\ InitMem \subseteq [Tag \X Set -> [Half -> HalfVal]]
    /\ Undef \notin HalfVal

VARIABLES
    cState, a_count, replace_index,
    tag_q,       \* the tag of the address clocked in last
    cl, cl_q,    \* lookup rows and their registered outputs
    ac, ac_q,    \* data RAMs (as half-words) and their registered 32-bit outputs
    h_sel,       \* which half of ac_q the SDRAM sees
    h,           \* the request on the bus in the last clock
    burst,       \* the burst on the SDRAM side (module BurstPort)
    sdram        \* the contents of the SDRAM, line by line

ramVars == <<tag_q, cl, cl_q, ac, ac_q, h_sel>>
fsmVars == <<cState, a_count, replace_index>>
vars == <<fsmVars, ramVars, h, burst, sdram>>

UndefRow == [tag |-> Undef, dirty |-> Undef, mru |-> Undef]
UndefWord == <<Undef, Undef>>

--------------------------------------------------------------------------------
(* Wires *)

cache_set == h.addr.set

cache_hit(w) == tag_q = cl_q[w].tag

\* Mutant: the miss decision looks at one way only.
Hit_way0 == cache_hit(0)

Hit == cache_hit(0) \/ cache_hit(1)

cache_hit_set == IF cache_hit(0) THEN 0 ELSE 1

data_valid == cState = "CACHE_CHECK" /\ Hit

\* Mutant: the output of way 0, whichever way was hit.
read_data_way0 == ac_q[0]

read_data == ac_q[cache_hit_set]

\* Replace way 1 only when way 0 alone was filled last.
victim == IF cl_q[0].mru /\ ~cl_q[1].mru THEN 1 ELSE 0

victim_dirty == cl_q[victim].dirty

sd_rw_req == cState \in {"LOAD_PAGE", "STORE_PAGE"}

sd_rw == cState = "STORE_PAGE"

\* Mutant: the write-back goes to the line that is about to be filled.
sd_address_requested == <<h.addr.tag, cache_set>>

sd_address ==
    IF cState = "STORE_PAGE" THEN <<cl_q[replace_index].tag, cache_set>>
                             ELSE <<h.addr.tag, cache_set>>

sd_write_data == ac_q[replace_index][IF h_sel = 1 THEN 2 ELSE 1]

sd_data_bursting == burst.st = "beats"

\* The data bus of a read: the line appears one beat late and ends one early.
sd_read_data ==
    IF burst.beat \in 1..HW THEN sdram[burst.line][burst.beat - 1] ELSE Undef

h_index == a_count % HW

--------------------------------------------------------------------------------
(* The RAM ports.  r is the request on the bus in this clock. *)

\* The address registers of the lookup and data RAMs; an output is not defined
\* after a clock that wrote its RAM (iram.sv: read during write).
Lookup(r) ==
    /\ tag_q' = r.addr.tag
    /\ cl_q' = [w \in Way |-> cl[w][r.addr.set]]
    /\ UNCHANGED cl

UpdateRows(r, rows) ==
    /\ tag_q' = r.addr.tag
    /\ cl' = [w \in Way |-> [cl[w] EXCEPT ![r.addr.set] = rows[w]]]
    /\ cl_q' = [w \in Way |-> UndefRow]

WordAt(w, s, i) == <<ac[w][s][2 * i], ac[w][s][2 * i + 1]>>

\* cache_hw with burst = 0: the processor reads and writes words.
WordPort(r) ==
    /\ ac_q' = [w \in Way |-> WordAt(w, r.addr.set, r.addr.word)]
    /\ h_sel' = h_index % 2
    /\ UNCHANGED ac

WordWrite(r, way) ==
    LET at(j) == 2 * r.addr.word + j - 1
    IN  /\ ac' = [ac EXCEPT ![way][r.addr.set] =
                    [k \in Half |-> IF \E j \in r.be : k = at(j)
                                    THEN r.data[k - 2 * r.addr.word + 1] ELSE @[k]]]
        /\ ac_q' = [ [w \in Way |-> WordAt(w, r.addr.set, r.addr.word)]
                       EXCEPT ![way] = UndefWord ]
        /\ h_sel' = h_index % 2

\* cache_hw with burst = 1: the SDRAM reads and writes half-words at a_count.
HalfRead ==
    /\ ac_q' = [w \in Way |-> WordAt(w, cache_set, h_index \div 2)]
    /\ h_sel' = h_index % 2
    /\ UNCHANGED ac

HalfWrite(d) ==
    /\ ac' = [ac EXCEPT ![replace_index][cache_set][h_index] = d]
    /\ ac_q' = [ [w \in Way |-> WordAt(w, cache_set, h_index \div 2)]
                   EXCEPT ![replace_index] = UndefWord ]
    /\ h_sel' = h_index % 2

--------------------------------------------------------------------------------
(* The SDRAM side of a clock: the burst moves on, and a write-back puts one  *)
(* half-word into the SDRAM on each of its beats but the first two.          *)

INSTANCE BurstPort WITH Line <- Tag \X Set

SdramClock ==
    /\ BurstClock(sd_rw_req, sd_rw, sd_address)
    /\ sdram' = IF sd_data_bursting /\ burst.rw /\ burst.beat >= 2
                THEN [sdram EXCEPT ![burst.line][burst.beat - 2] = sd_write_data]
                ELSE sdram

--------------------------------------------------------------------------------
(* The state machine: one action per state.  h' is the request on the bus.   *)

\* The requester owes the cache a stable request until it is answered.
Held == h' = h

Idle ==
    /\ cState = "IDLE"
    /\ \/ h' \in Requests /\ cState' = "CACHE_CHECK"
       \/ Held /\ UNCHANGED cState
    /\ Lookup(h') /\ WordPort(h')
    /\ UNCHANGED <<a_count, replace_index>>

\* Every clock spent in CACHE_CHECK prepares for a miss.
PrepareMiss ==
    /\ a_count' = MinusOne
    /\ replace_index' = victim

\* A read that follows at once is looked up in the clock of the hit.
ReadHit ==
    /\ data_valid /\ ~h.rw
    /\ \/ h' \in {r \in Requests : ~r.rw} /\ cState' = "CACHE_CHECK"
       \/ Held /\ cState' = "IDLE"
    /\ Lookup(h') /\ WordPort(h')
    /\ PrepareMiss

WriteHit ==
    /\ data_valid /\ h.rw
    /\ Held
    /\ cState' = "IDLE"
    /\ UpdateRows(h, [cl_q EXCEPT ![cache_hit_set].dirty = TRUE])
    /\ WordWrite(h, cache_hit_set)
    /\ PrepareMiss

Miss ==
    /\ cState = "CACHE_CHECK" /\ ~Hit
    /\ Held
    /\ cState' = IF victim_dirty THEN "STORE_PAGE" ELSE "LOAD_PREP"
    /\ Lookup(h) /\ WordPort(h)
    /\ PrepareMiss

CountBeats ==
    /\ a_count' = IF sd_data_bursting THEN (a_count + 1) % (2 * HW) ELSE a_count
    /\ UNCHANGED replace_index

StorePage ==
    /\ cState = "STORE_PAGE"
    /\ Held
    /\ cState' = IF a_count = PAGE_SIZE + READ_DELAY THEN "LOAD_PREP" ELSE "STORE_PAGE"
    /\ Lookup(h) /\ HalfRead
    /\ CountBeats

LoadPrep ==
    /\ cState = "LOAD_PREP"
    /\ Held
    /\ cState' = "LOAD_PAGE"
    /\ Lookup(h) /\ WordPort(h)
    /\ a_count' = MinusOne
    /\ UNCHANGED replace_index

LoadPage ==
    /\ cState = "LOAD_PAGE"
    /\ Held
    /\ cState' = IF a_count = PAGE_SIZE THEN "UPDATE_CL" ELSE "LOAD_PAGE"
    /\ Lookup(h)
    /\ IF sd_data_bursting THEN HalfWrite(sd_read_data) ELSE HalfRead
    /\ CountBeats

UpdateCl ==
    /\ cState = "UPDATE_CL"
    /\ Held
    /\ cState' = "REQUEST"
    /\ UpdateRows(h, [w \in Way |->
            IF w = replace_index
            THEN [tag |-> Stored(h.addr.tag), dirty |-> FALSE, mru |-> TRUE]
            ELSE [cl_q[w] EXCEPT !.mru = FALSE]])
    /\ WordPort(h)
    /\ UNCHANGED <<a_count, replace_index>>

Request ==
    /\ cState = "REQUEST"
    /\ Held
    /\ cState' = "CACHE_CHECK"
    /\ Lookup(h) /\ WordPort(h)
    /\ UNCHANGED <<a_count, replace_index>>

Control ==
    \/ Idle \/ ReadHit \/ WriteHit \/ Miss \/ StorePage
    \/ LoadPrep \/ LoadPage \/ UpdateCl \/ Request

Clock == Control /\ SdramClock

Init ==
    /\ cState = "IDLE" /\ a_count = 0 /\ replace_index = 0
    /\ h \in Requests
    /\ tag_q = h.addr.tag
    /\ cl = [w \in Way |-> [s \in Set |-> [tag |-> 0, dirty |-> FALSE, mru |-> FALSE]]]
    /\ cl_q = [w \in Way |-> UndefRow]
    /\ ac = [w \in Way |-> [s \in Set |-> [k \in Half |-> Undef]]]
    /\ ac_q = [w \in Way |-> UndefWord]
    /\ h_sel = 0
    /\ burst = NoBurst
    /\ sdram \in InitMem

Spec == Init /\ [][Clock]_vars

(***************************************************************************)
(* The clock runs, and the SDRAM controller gets on with every request in a *)
(* bounded number of clocks (module SdramArb).                              *)
(***************************************************************************)
FairSpec ==
    Spec /\ WF_vars(Clock) /\ WF_vars(Clock /\ burst' # burst)

--------------------------------------------------------------------------------
(* The memory a reader sees: the cached copy of a word where a way holds its *)
(* line, the SDRAM elsewhere.                                                *)

\* The way being filled has lost its old line and does not have the new one yet.
Filling(w) == cState \in {"LOAD_PAGE", "UPDATE_CL"} /\ w = replace_index

Holds(w, s, t) == cl[w][s].tag = t /\ ~(Filling(w) /\ s = cache_set)

residentLines ==
    {l \in Tag \X Set : l[1] # 0 /\ \E w \in Way : Holds(w, l[2], l[1])}

ramWord(a) ==
    IF <<a.tag, a.set>> \in residentLines
    THEN WordAt(CHOOSE w \in Way : Holds(w, a.set, a.tag), a.set, a.word)
    ELSE <<sdram[<<a.tag, a.set>>][2 * a.word], sdram[<<a.tag, a.set>>][2 * a.word + 1]>>

CacheAddr == {r.addr : r \in Requests}

cacheRam == [a \in CacheAddr |-> ramWord(a)]

\* What a request puts on the bus besides its address and its strobe, and the
\* bytes a store leaves in a word.
Payload(r) == [be |-> r.be, data |-> r.data]

Merge(word, r) == [j \in {1, 2} |-> IF j \in r.be THEN r.data[j] ELSE word[j]]

Port == INSTANCE CachePort WITH
    LineOf <- [a \in CacheAddr |-> <<a.tag, a.set>>],
    Value <- HalfVal \X HalfVal,
    Data <- {Payload(r) : r \in Requests},
    None <- Undef,
    Undef <- UndefWord,
    pState <- CASE cState = "IDLE" -> "idle"
                [] cState = "CACHE_CHECK" -> "check"
                [] OTHER -> "fill",
    q <- IF cState = "IDLE" THEN Undef
         ELSE [addr |-> h.addr, rw |-> h.rw, data |-> Payload(h)],
    resident <- residentLines,
    ram <- cacheRam,
    out <- IF data_valid /\ ~h.rw THEN read_data ELSE UndefWord

--------------------------------------------------------------------------------
(* Properties *)

\* Every register stays in its range.
TypeOK ==
    /\ cState \in {"IDLE", "REQUEST", "CACHE_CHECK", "STORE_PAGE", "LOAD_PAGE",
                   "LOAD_PREP", "UPDATE_CL"}
    /\ a_count \in Count /\ replace_index \in Way
    /\ tag_q \in Tag /\ h \in Requests
    /\ cl \in [Way -> [Set -> Row]]
    /\ cl_q \in [Way -> Row \cup {UndefRow}]
    /\ ac \in [Way -> [Set -> [Half -> HalfVal \cup {Undef}]]]
    /\ ac_q \in [Way -> (HalfVal \cup {Undef}) \X (HalfVal \cup {Undef})]
    /\ h_sel \in {0, 1}
    /\ burst \in Burst
    /\ sdram \in [Tag \X Set -> [Half -> HalfVal \cup {Undef}]]

\* The tags of the addresses in use fit in a lookup row: a program that stays
\* below 128 MB, as any must with the 32 MB that sdramburst.v decodes.
InstalledMemory == \A r \in Requests : Stored(r.addr.tag) = r.addr.tag

\* No line is ever held by both ways, so cache_hit_set, which looks at way 0
\* only, never picks one of two copies (memcahce.v 129, 183-191).
TagsUnique ==
    \A s \in Set : cl[0][s].tag = cl[1][s].tag => cl[0][s].tag = 0

\* The memory changes only by an answered store, at its address and in its bytes:
\* no fill, write-back, eviction or hit moves, loses or corrupts a word.
StoresAreKept ==
    [][cacheRam' = IF data_valid /\ h.rw
                   THEN [cacheRam EXCEPT ![h.addr] = Merge(@, h)]
                   ELSE cacheRam]_vars

\* The cache is the port module Mmu was checked against; in particular a read is
\* answered with the word the memory holds, whichever way it is found in.
PortSpec == Port!CacheSpec

\* A refill ends in a hit: when the lookup is repeated after UPDATE_CL, one of
\* the ways holds the requested tag.
RefillHits == cState = "REQUEST" => \E w \in Way : cl[w][cache_set].tag = h.addr.tag

\* Every request is answered, even when a dirty line must be written back first.
RequestAnswered == cState = "CACHE_CHECK" ~> data_valid
================================================================================
