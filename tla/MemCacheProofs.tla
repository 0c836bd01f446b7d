----------------------------- MODULE MemCacheProofs ----------------------------
(***************************************************************************)
(* Proofs about module MemCache, for every number of sets and tags, every   *)
(* line length and every program whose tags fit in a lookup row.            *)
(***************************************************************************)
EXTENDS MemCache, TLAPS

\* The states in which the looked-up rows are used.
RowsUsed == {"CACHE_CHECK", "STORE_PAGE", "LOAD_PREP", "LOAD_PAGE", "UPDATE_CL"}

\* The states between a miss and the new row.
Refilling == {"STORE_PAGE", "LOAD_PREP", "LOAD_PAGE", "UPDATE_CL"}

\* tag_q belongs to the request, and in the states that use them the registered
\* rows are the rows of its set.
LookupFresh ==
    /\ tag_q = h.addr.tag
    /\ cState \in RowsUsed => \A w \in Way : cl_q[w] = cl[w][cache_set]

\* While a line is being brought in neither way holds its tag; afterwards one does.
Missing ==
    cState \in Refilling => \A w \in Way : cl[w][cache_set].tag # h.addr.tag

IInv == TypeOK /\ LookupFresh /\ Missing /\ TagsUnique /\ RefillHits

--------------------------------------------------------------------------------
(* Arithmetic of indices *)

LEMMA RequestType ==
    /\ \A r \in Requests : r.addr \in Address
    /\ \A r \in Requests : r.addr.tag \in Tag /\ r.addr.set \in Set /\ r.addr.word \in Word
    /\ \A r \in Requests : r.rw => /\ r.be \in SUBSET {1, 2}
                                  /\ r.data \in HalfVal \X HalfVal
<1>1. \A a \in Reads : a \in Address
  BY MemCacheAssumption
<1>2. \A w \in Writes : /\ w.addr \in Address
                        /\ w.be \in SUBSET {1, 2} /\ w.data \in HalfVal \X HalfVal
  BY MemCacheAssumption
<1>3. \A r \in Requests : r.addr \in Address
  BY <1>1, <1>2 DEF Requests, ReadReq, WriteReq
<1> QED
  BY <1>2, <1>3 DEF Requests, ReadReq, WriteReq, Address

LEMMA HalfIndex ==
    /\ \A i \in Word : 2 * i \in Half /\ 2 * i + 1 \in Half
    /\ \A n \in Count : n % HW \in Half /\ (n % HW) \div 2 \in Word /\ (n % HW) % 2 \in {0, 1}
    /\ \A n \in Count : (n + 1) % (2 * HW) \in Count
    /\ MinusOne \in Count
<1>1. HW \in Nat /\ HW >= 4 /\ HW % 2 = 0
  BY MemCacheAssumption
<1>2. 2 * (HW \div 2) = HW
  BY <1>1
<1>3. \A i \in Word : 2 * i \in Half /\ 2 * i + 1 \in Half
  BY <1>1, <1>2 DEF Word, Half
<1>4. \A n \in Count : n % HW \in Half
  BY <1>1 DEF Count, Half
<1>5. \A k \in Half : k \div 2 \in Word /\ k % 2 \in {0, 1}
  BY <1>1, <1>2 DEF Word, Half
<1>6. \A n \in Count : (n + 1) % (2 * HW) \in Count
  BY <1>1 DEF Count
<1>7. MinusOne \in Count
  BY <1>1 DEF MinusOne, Count
<1> QED
  BY <1>3, <1>4, <1>5, <1>6, <1>7

--------------------------------------------------------------------------------
(* The RAM ports *)

HalfRam == HalfVal \cup {Undef}

RamType ==
    /\ tag_q \in Tag
    /\ cl \in [Way -> [Set -> Row]]
    /\ cl_q \in [Way -> Row \cup {UndefRow}]

DataType ==
    /\ ac \in [Way -> [Set -> [Half -> HalfRam]]]
    /\ ac_q \in [Way -> HalfRam \X HalfRam]
    /\ h_sel \in {0, 1}

\* A lookup leaves the rows alone and brings the registers up to date.
LEMMA LookupStep ==
    ASSUME TypeOK, h' \in Requests, Lookup(h')
    PROVE  /\ RamType'
           /\ cl' = cl /\ tag_q' = h'.addr.tag
           /\ \A w \in Way : cl_q'[w] = cl[w][h'.addr.set]
<1>1. h'.addr.tag \in Tag /\ h'.addr.set \in Set
  BY RequestType
<1>2. cl_q' = [w \in Way |-> cl[w][h'.addr.set]]
  BY DEF Lookup
<1>3. \A w \in Way : cl[w][h'.addr.set] \in Row
  BY <1>1 DEF TypeOK
<1> QED
  BY <1>1, <1>2, <1>3 DEF Lookup, RamType, TypeOK

\* New rows go to one set and to no other.
LEMMA UpdateStep ==
    ASSUME TypeOK, NEW rows \in [Way -> Row], UpdateRows(h, rows)
    PROVE  /\ RamType' /\ tag_q' = h.addr.tag
           /\ \A w \in Way, s \in Set :
                cl'[w][s] = IF s = cache_set THEN rows[w] ELSE cl[w][s]
<1>1. h.addr.tag \in Tag /\ h.addr.set \in Set
  BY RequestType DEF TypeOK
<1>2. cl' = [w \in Way |-> [cl[w] EXCEPT ![cache_set] = rows[w]]]
  BY DEF UpdateRows, cache_set
<1>3. \A w \in Way : cl[w] \in [Set -> Row]
  BY DEF TypeOK
<1>4. cl' \in [Way -> [Set -> Row]]
  BY <1>1, <1>2, <1>3 DEF cache_set
<1>5. \A w \in Way, s \in Set :
        cl'[w][s] = IF s = cache_set THEN rows[w] ELSE cl[w][s]
  BY <1>1, <1>2, <1>3 DEF cache_set
<1> QED
  BY <1>1, <1>4, <1>5 DEF UpdateRows, RamType

LEMMA WordAtType ==
    ASSUME TypeOK, NEW w \in Way, NEW s \in Set, NEW i \in Word
    PROVE  WordAt(w, s, i) \in HalfRam \X HalfRam
BY HalfIndex DEF WordAt, TypeOK, HalfRam

LEMMA WordPortType ==
    ASSUME TypeOK, h' \in Requests, WordPort(h')
    PROVE  DataType'
<1>1. h'.addr.set \in Set /\ h'.addr.word \in Word
  BY RequestType
<1>2. \A w \in Way : WordAt(w, h'.addr.set, h'.addr.word) \in HalfRam \X HalfRam
  BY <1>1, WordAtType
<1>3. h_sel' \in {0, 1}
  BY HalfIndex DEF WordPort, h_index, TypeOK
<1> QED
  BY <1>2, <1>3 DEF WordPort, DataType, TypeOK, HalfRam

LEMMA WordWriteType ==
    ASSUME TypeOK, NEW way \in Way, h.rw, WordWrite(h, way)
    PROVE  DataType'
<1>1. /\ h.addr.set \in Set /\ h.addr.word \in Word
      /\ h.be \in SUBSET {1, 2} /\ h.data \in HalfVal \X HalfVal
  BY RequestType DEF TypeOK
<1>2. \A w \in Way : WordAt(w, h.addr.set, h.addr.word) \in HalfRam \X HalfRam
  BY <1>1, WordAtType
<1>3. h_sel' \in {0, 1}
  BY HalfIndex DEF WordWrite, h_index, TypeOK
<1>4. ac_q' \in [Way -> HalfRam \X HalfRam]
  BY <1>2 DEF WordWrite, UndefWord, HalfRam
<1> DEFINE old == ac[way][h.addr.set]
           at(j) == 2 * h.addr.word + j - 1
           line == [k \in Half |-> IF \E j \in h.be : k = at(j)
                                   THEN h.data[k - 2 * h.addr.word + 1] ELSE old[k]]
<1>5. line \in [Half -> HalfRam]
  <2> SUFFICES ASSUME NEW k \in Half
               PROVE  (IF \E j \in h.be : k = at(j)
                       THEN h.data[k - 2 * h.addr.word + 1] ELSE old[k]) \in HalfRam
    OBVIOUS
  <2>1. old[k] \in HalfRam
    BY <1>1 DEF TypeOK, HalfRam
  <2>2. ASSUME NEW j \in h.be, k = at(j)
        PROVE  h.data[k - 2 * h.addr.word + 1] \in HalfRam
    <3>1. j \in {1, 2} /\ h.addr.word \in Nat
      BY <1>1 DEF Word
    <3>2. k - 2 * h.addr.word + 1 = j
      BY <2>2, <3>1
    <3> QED
      BY <1>1, <3>1, <3>2 DEF HalfRam
  <2> QED
    BY <2>1, <2>2
<1>6. ac' = [ac EXCEPT ![way] = [ac[way] EXCEPT ![h.addr.set] = line]]
  BY DEF WordWrite
<1>7. ac' \in [Way -> [Set -> [Half -> HalfRam]]]
  <2>1. ac[way] \in [Set -> [Half -> HalfRam]]
    BY DEF TypeOK, HalfRam
  <2>2. [ac[way] EXCEPT ![h.addr.set] = line] \in [Set -> [Half -> HalfRam]]
    BY <1>1, <1>5, <2>1
  <2> HIDE DEF line
  <2> QED
    BY <1>6, <2>2 DEF TypeOK, HalfRam
<1> QED
  BY <1>3, <1>4, <1>7 DEF DataType

LEMMA HalfReadType ==
    ASSUME TypeOK, HalfRead
    PROVE  DataType'
<1>1. cache_set \in Set
  BY RequestType DEF TypeOK, cache_set
<1>2. h_index \div 2 \in Word /\ h_index % 2 \in {0, 1}
  BY HalfIndex DEF h_index, TypeOK
<1>3. \A w \in Way : WordAt(w, cache_set, h_index \div 2) \in HalfRam \X HalfRam
  BY <1>1, <1>2, WordAtType
<1> QED
  BY <1>2, <1>3 DEF HalfRead, DataType, TypeOK, HalfRam

LEMMA HalfWriteType ==
    ASSUME TypeOK, NEW d \in HalfRam, HalfWrite(d)
    PROVE  DataType'
<1>1. cache_set \in Set /\ replace_index \in Way
  BY RequestType DEF TypeOK, cache_set
<1>2. h_index \in Half /\ h_index \div 2 \in Word /\ h_index % 2 \in {0, 1}
  BY HalfIndex DEF h_index, TypeOK
<1>3. \A w \in Way : WordAt(w, cache_set, h_index \div 2) \in HalfRam \X HalfRam
  BY <1>1, <1>2, WordAtType
<1>4. ac_q' \in [Way -> HalfRam \X HalfRam]
  BY <1>3 DEF HalfWrite, UndefWord, HalfRam
<1>5. ac' \in [Way -> [Set -> [Half -> HalfRam]]]
  <2> DEFINE way == replace_index
             line == [ac[way][cache_set] EXCEPT ![h_index] = d]
  <2>1. ac[way] \in [Set -> [Half -> HalfRam]]
    BY <1>1 DEF TypeOK, HalfRam
  <2>2. line \in [Half -> HalfRam]
    BY <1>1, <1>2, <2>1
  <2>3. ac' = [ac EXCEPT ![way] = [ac[way] EXCEPT ![cache_set] = line]]
    BY DEF HalfWrite
  <2>4. [ac[way] EXCEPT ![cache_set] = line] \in [Set -> [Half -> HalfRam]]
    BY <1>1, <2>1, <2>2
  <2> HIDE DEF line
  <2> QED
    BY <1>1, <2>3, <2>4 DEF TypeOK, HalfRam
<1> QED
  BY <1>2, <1>4, <1>5 DEF HalfWrite, DataType

--------------------------------------------------------------------------------
(* The SDRAM side *)

BurstType ==
    /\ burst \in Burst
    /\ sdram \in [Tag \X Set -> [Half -> HalfRam]]

LEMMA SdramBusType ==
    ASSUME TypeOK
    PROVE  sd_write_data \in HalfRam /\ sd_read_data \in HalfRam
<1>1. sd_write_data \in HalfRam
  BY DEF sd_write_data, TypeOK, HalfRam
<1>2. CASE burst.beat \in 1..HW
  <2>1. burst.beat - 1 \in Half /\ burst.line \in Tag \X Set
    BY <1>2, MemCacheAssumption DEF TypeOK, Half, Burst
  <2> QED
    BY <1>1, <1>2, <2>1 DEF sd_read_data, TypeOK, HalfRam
<1>3. CASE burst.beat \notin 1..HW
  BY <1>1, <1>3 DEF sd_read_data, HalfRam
<1> QED
  BY <1>2, <1>3

LEMMA NoBurstType == NoBurst \in Burst
<1>1. <<0, 0>> \in Tag \X Set /\ 0 \in 0..HW + 1
  BY MemCacheAssumption DEF Tag, Set
<1>2. (CHOOSE l \in Tag \X Set : TRUE) \in Tag \X Set
  BY <1>1
<1> QED
  BY <1>1, <1>2 DEF NoBurst, Burst, Beat

LEMMA BurstStep ==
    ASSUME TypeOK, LookupFresh, SdramClock
    PROVE  BurstType'
<1>1. burst \in Burst /\ sdram \in [Tag \X Set -> [Half -> HalfRam]]
  BY DEF TypeOK, HalfRam
<1>2. sd_address \in Tag \X Set /\ sd_rw \in BOOLEAN
  <2>1. cache_set \in Set /\ h.addr.tag \in Tag /\ replace_index \in Way
    BY RequestType DEF TypeOK, cache_set
  <2>2. cState = "STORE_PAGE" => cl_q[replace_index].tag \in Tag
    BY <2>1 DEF LookupFresh, RowsUsed, TypeOK, Row
  <2> QED
    BY <2>1, <2>2 DEF sd_address, sd_rw
<1>3. burst' \in Burst
  <2>1. CASE BurstLatch(sd_rw_req, sd_rw, sd_address)
    BY <1>2, <2>1, MemCacheAssumption DEF BurstLatch, Burst, Beat
  <2>2. CASE BurstStart \/ BurstBeat \/ BurstTerm \/ BurstWait
    BY <1>1, <2>2, MemCacheAssumption
       DEF BurstStart, BurstBeat, BurstTerm, BurstWait, Burst, Beat
  <2>3. CASE BurstEnd
    BY <2>3, NoBurstType DEF BurstEnd
  <2> QED
    BY <2>1, <2>2, <2>3 DEF SdramClock, BurstClock
<1>4. CASE sd_data_bursting /\ burst.rw /\ burst.beat >= 2
  <2>1. burst.beat - 2 \in Half /\ burst.line \in Tag \X Set
    BY <1>1, <1>4, MemCacheAssumption DEF Half, Burst, Beat
  <2> DEFINE line == [sdram[burst.line] EXCEPT ![burst.beat - 2] = sd_write_data]
  <2>2. line \in [Half -> HalfRam]
    BY <1>1, <2>1, SdramBusType
  <2>3. sdram' = [sdram EXCEPT ![burst.line] = line]
    BY <1>4 DEF SdramClock
  <2> HIDE DEF line
  <2> QED
    BY <1>1, <1>3, <2>1, <2>2, <2>3 DEF BurstType
<1>5. CASE ~(sd_data_bursting /\ burst.rw /\ burst.beat >= 2)
  BY <1>1, <1>3, <1>5 DEF SdramClock, BurstType
<1> QED
  BY <1>4, <1>5

--------------------------------------------------------------------------------
(* The state machine *)

FsmType ==
    /\ cState \in {"IDLE", "REQUEST", "CACHE_CHECK", "STORE_PAGE", "LOAD_PAGE",
                   "LOAD_PREP", "UPDATE_CL"}
    /\ a_count \in Count /\ replace_index \in Way
    /\ h \in Requests

\* The type invariant, part by part.
LEMMA TypeParts == TypeOK' <=> FsmType' /\ RamType' /\ DataType' /\ BurstType'
BY DEF TypeOK, FsmType, RamType, DataType, BurstType, HalfRam

\* Every state that only looks up rows: the registers follow the request, and no
\* row changes.
LEMMA LookupKeeps ==
    ASSUME IInv, h' \in Requests, Lookup(h'),
           cState' \in Refilling => ~Hit /\ h' = h /\ cState \in RowsUsed,
           cState' = "REQUEST" => FALSE
    PROVE  LookupFresh' /\ Missing' /\ TagsUnique' /\ RefillHits'
<1>1. cl' = cl /\ tag_q' = h'.addr.tag /\ \A w \in Way : cl_q'[w] = cl[w][h'.addr.set]
  BY LookupStep DEF IInv
<1>2. LookupFresh'
  BY <1>1 DEF LookupFresh, cache_set
<1>3. Missing'
  <2> SUFFICES ASSUME cState' \in Refilling, NEW w \in Way
               PROVE  cl'[w][h'.addr.set].tag # h'.addr.tag
    BY DEF Missing, cache_set
  <2>1. ~Hit /\ cl_q[w] = cl[w][h.addr.set] /\ tag_q = h.addr.tag
    BY DEF IInv, LookupFresh, cache_set
  <2>2. ~cache_hit(w)
    BY <2>1 DEF Hit, Way
  <2> QED
    BY <1>1, <2>1, <2>2 DEF cache_hit
<1>4. TagsUnique' /\ RefillHits'
  BY <1>1 DEF IInv, TagsUnique, RefillHits
<1> QED
  BY <1>2, <1>3, <1>4

LEMMA CountStep ==
    ASSUME TypeOK, CountBeats
    PROVE  a_count' \in Count /\ replace_index' \in Way
BY HalfIndex DEF CountBeats, TypeOK

LEMMA PrepareStep ==
    ASSUME PrepareMiss
    PROVE  a_count' \in Count /\ replace_index' \in Way
BY HalfIndex DEF PrepareMiss, victim, Way

\* In the states of a refill a lookup does not hit.
LEMMA RefillMisses ==
    ASSUME IInv, cState \in Refilling
    PROVE  ~Hit
<1>1. \A w \in Way : cl_q[w] = cl[w][cache_set] /\ cl[w][cache_set].tag # h.addr.tag
  BY DEF IInv, LookupFresh, Missing, Refilling, RowsUsed
<1> QED
  BY <1>1 DEF Hit, cache_hit, IInv, LookupFresh, Way

(***************************************************************************)
(* The two actions that write rows.                                         *)
(***************************************************************************)

LEMMA WriteHitStep ==
    ASSUME IInv, WriteHit
    PROVE  FsmType' /\ RamType' /\ DataType'
           /\ LookupFresh' /\ Missing' /\ TagsUnique' /\ RefillHits'
<1> DEFINE rows == [cl_q EXCEPT ![cache_hit_set].dirty = TRUE]
<1>1. cache_hit_set \in Way /\ cState = "CACHE_CHECK" /\ h' = h /\ h \in Requests
  BY DEF WriteHit, data_valid, cache_hit_set, Way, Held, IInv, TypeOK
<1>2. \A w \in Way : cl_q[w] = cl[w][cache_set] /\ cl_q[w] \in Row
  <2>1. cache_set \in Set
    BY <1>1, RequestType DEF cache_set
  <2> QED
    BY <1>1, <2>1 DEF IInv, LookupFresh, RowsUsed, TypeOK
<1>3. rows \in [Way -> Row] /\ \A w \in Way : rows[w].tag = cl[w][cache_set].tag
  <2> DEFINE new(w) == IF w = cache_hit_set THEN [cl_q[w] EXCEPT !.dirty = TRUE] ELSE cl_q[w]
  <2>1. cl_q \in [Way -> Row \cup {UndefRow}]
    BY DEF IInv, TypeOK
  <2>2. rows = [w \in Way |-> new(w)]
    BY <1>1, <2>1
  <2>3. \A w \in Way : new(w) \in Row /\ new(w).tag = cl[w][cache_set].tag
    BY <1>2 DEF Row
  <2> HIDE DEF new
  <2> QED
    BY <2>2, <2>3
<1>4. UpdateRows(h, rows)
  BY DEF WriteHit
<1> HIDE DEF rows
<1>5. RamType' /\ tag_q' = h.addr.tag
      /\ \A w \in Way, s \in Set : cl'[w][s] = IF s = cache_set THEN rows[w] ELSE cl[w][s]
  BY <1>3, <1>4, UpdateStep DEF IInv
<1>6. \A w \in Way, s \in Set : cl'[w][s].tag = cl[w][s].tag
  BY <1>3, <1>5
<1>7. TagsUnique'
  BY <1>6 DEF IInv, TagsUnique, Way
<1>8. cState' = "IDLE"
  BY DEF WriteHit
<1>9. FsmType'
  BY <1>1, <1>8, PrepareStep DEF WriteHit, FsmType
<1>10. DataType'
  BY <1>1, WordWriteType DEF WriteHit, IInv
<1> QED
  BY <1>1, <1>5, <1>7, <1>8, <1>9, <1>10
     DEF LookupFresh, Missing, RefillHits, RowsUsed, Refilling

LEMMA UpdateClStep ==
    ASSUME IInv, InstalledMemory, UpdateCl
    PROVE  FsmType' /\ RamType' /\ DataType'
           /\ LookupFresh' /\ Missing' /\ TagsUnique' /\ RefillHits'
<1> DEFINE new(w) == IF w = replace_index
                     THEN [tag |-> Stored(h.addr.tag), dirty |-> FALSE, mru |-> TRUE]
                     ELSE [cl_q[w] EXCEPT !.mru = FALSE]
           rows == [w \in Way |-> new(w)]
<1>1. h' = h /\ h \in Requests /\ replace_index \in Way /\ cState' = "REQUEST"
  BY DEF UpdateCl, Held, IInv, TypeOK
<1>2. cache_set \in Set /\ h.addr.tag \in Tag /\ Stored(h.addr.tag) = h.addr.tag
  BY <1>1, RequestType DEF cache_set, InstalledMemory
<1>3. \A w \in Way : /\ cl_q[w] = cl[w][cache_set] /\ cl_q[w] \in Row
                     /\ cl[w][cache_set].tag # h.addr.tag
  BY <1>2 DEF UpdateCl, IInv, LookupFresh, Missing, RowsUsed, Refilling, TypeOK
<1>4. \A w \in Way : /\ new(w) \in Row
                     /\ new(w).tag = IF w = replace_index THEN h.addr.tag
                                                          ELSE cl[w][cache_set].tag
  BY <1>2, <1>3 DEF Row
<1>5. UpdateRows(h, rows)
  BY DEF UpdateCl
<1> HIDE DEF new
<1>6. rows \in [Way -> Row] /\ \A w \in Way : rows[w] = new(w)
  BY <1>4
<1> HIDE DEF rows
<1>7. RamType' /\ tag_q' = h.addr.tag
      /\ \A w \in Way, s \in Set : cl'[w][s] = IF s = cache_set THEN rows[w] ELSE cl[w][s]
  BY <1>5, <1>6, UpdateStep DEF IInv
<1>8. RefillHits'
  BY <1>1, <1>2, <1>4, <1>6, <1>7 DEF RefillHits, cache_set
<1>9. TagsUnique'
  <2> SUFFICES ASSUME NEW s \in Set, cl'[0][s].tag = cl'[1][s].tag
               PROVE  cl'[0][s].tag = 0
    BY DEF TagsUnique
  <2>1. CASE s = cache_set
    BY <1>1, <1>3, <1>4, <1>6, <1>7, <2>1 DEF Way
  <2>2. CASE s # cache_set
    BY <1>7, <2>2 DEF Way, IInv, TagsUnique
  <2> QED
    BY <2>1, <2>2
<1>10. FsmType'
  BY <1>1 DEF UpdateCl, FsmType, IInv, TypeOK
<1>11. DataType'
  BY <1>1, WordPortType DEF UpdateCl, IInv
<1> QED
  BY <1>1, <1>7, <1>8, <1>9, <1>10, <1>11 DEF LookupFresh, Missing, RowsUsed, Refilling

\* The other actions look rows up and write none.
LEMMA LookupActions ==
    ASSUME IInv, Idle \/ ReadHit \/ Miss \/ StorePage \/ LoadPrep \/ LoadPage \/ Request
    PROVE  FsmType' /\ RamType' /\ DataType'
           /\ LookupFresh' /\ Missing' /\ TagsUnique' /\ RefillHits'
<1> USE DEF Refilling, RowsUsed
<1>1. CASE Idle
  <2>1. h' \in Requests /\ Lookup(h') /\ WordPort(h') /\ cState' \in {"IDLE", "CACHE_CHECK"}
    BY <1>1 DEF Idle, Held, IInv, TypeOK
  <2>2. FsmType'
    BY <1>1, <2>1 DEF Idle, FsmType, IInv, TypeOK
  <2> QED
    BY <2>1, <2>2, LookupKeeps, LookupStep, WordPortType DEF IInv
<1>2. CASE ReadHit
  <2>1. h' \in Requests /\ Lookup(h') /\ WordPort(h') /\ cState' \in {"IDLE", "CACHE_CHECK"}
    BY <1>2 DEF ReadHit, Held, IInv, TypeOK
  <2>2. FsmType'
    BY <1>2, <2>1, PrepareStep DEF ReadHit, FsmType
  <2> QED
    BY <2>1, <2>2, LookupKeeps, LookupStep, WordPortType DEF IInv
<1>3. CASE Miss
  <2>1. h' = h /\ h' \in Requests /\ Lookup(h') /\ WordPort(h')
        /\ cState' \in {"STORE_PAGE", "LOAD_PREP"} /\ ~Hit /\ cState = "CACHE_CHECK"
    BY <1>3 DEF Miss, Held, IInv, TypeOK
  <2>2. FsmType'
    BY <1>3, <2>1, PrepareStep DEF Miss, FsmType
  <2> QED
    BY <2>1, <2>2, LookupKeeps, LookupStep, WordPortType DEF IInv
<1>4. CASE StorePage
  <2>1. h' = h /\ h' \in Requests /\ Lookup(h')
        /\ cState' \in {"STORE_PAGE", "LOAD_PREP"} /\ cState = "STORE_PAGE"
    BY <1>4 DEF StorePage, Held, IInv, TypeOK
  <2>2. ~Hit
    BY <2>1, RefillMisses
  <2>3. FsmType'
    BY <1>4, <2>1, CountStep DEF StorePage, FsmType, IInv
  <2>4. DataType'
    BY <1>4, HalfReadType DEF StorePage, IInv
  <2> QED
    BY <2>1, <2>2, <2>3, <2>4, LookupKeeps, LookupStep DEF IInv
<1>5. CASE LoadPrep
  <2>1. h' = h /\ h' \in Requests /\ Lookup(h') /\ WordPort(h')
        /\ cState' = "LOAD_PAGE" /\ cState = "LOAD_PREP"
    BY <1>5 DEF LoadPrep, Held, IInv, TypeOK
  <2>2. ~Hit
    BY <2>1, RefillMisses
  <2>3. FsmType'
    BY <1>5, <2>1, HalfIndex DEF LoadPrep, FsmType, IInv, TypeOK
  <2> QED
    BY <2>1, <2>2, <2>3, LookupKeeps, LookupStep, WordPortType DEF IInv
<1>6. CASE LoadPage
  <2>1. h' = h /\ h' \in Requests /\ Lookup(h')
        /\ cState' \in {"UPDATE_CL", "LOAD_PAGE"} /\ cState = "LOAD_PAGE"
    BY <1>6 DEF LoadPage, Held, IInv, TypeOK
  <2>2. ~Hit
    BY <2>1, RefillMisses
  <2>3. FsmType'
    BY <1>6, <2>1, CountStep DEF LoadPage, FsmType, IInv
  <2>4. DataType'
    BY <1>6, SdramBusType, HalfReadType, HalfWriteType DEF LoadPage, IInv
  <2> QED
    BY <2>1, <2>2, <2>3, <2>4, LookupKeeps, LookupStep DEF IInv
<1>7. CASE Request
  <2>1. h' = h /\ h' \in Requests /\ Lookup(h') /\ WordPort(h')
        /\ cState' = "CACHE_CHECK"
    BY <1>7 DEF Request, Held, IInv, TypeOK
  <2>2. FsmType'
    BY <1>7, <2>1 DEF Request, FsmType, IInv, TypeOK
  <2> QED
    BY <2>1, <2>2, LookupKeeps, LookupStep, WordPortType DEF IInv
<1> QED
  BY <1>1, <1>2, <1>3, <1>4, <1>5, <1>6, <1>7

--------------------------------------------------------------------------------
(* The invariant *)

LEMMA InitIInv == Init => IInv
<1> SUFFICES ASSUME Init PROVE IInv
  OBVIOUS
<1>1. h.addr.tag \in Tag /\ h.addr.set \in Set
  BY RequestType DEF Init
<1>2. 0 \in Tag /\ 0 \in Count /\ 0 \in 0..HW + 1 /\ <<0, 0>> \in Tag \X Set
  BY MemCacheAssumption DEF Tag, Count, Set
<1>3. sdram \in [Tag \X Set -> [Half -> HalfVal \cup {Undef}]]
  <2>1. sdram \in [Tag \X Set -> [Half -> HalfVal]]
    BY MemCacheAssumption DEF Init
  <2> QED
    BY <2>1
<1>4. TypeOK
  BY <1>1, <1>2, <1>3, NoBurstType DEF Init, TypeOK, Way, Row, UndefWord
<1>5. TagsUnique
  BY DEF Init, TagsUnique, Way
<1> QED
  BY <1>4, <1>5 DEF Init, IInv, LookupFresh, Missing, RefillHits, RowsUsed, Refilling

LEMMA StepIInv == ASSUME InstalledMemory, IInv, [Clock]_vars PROVE IInv'
<1>1. CASE Clock
  <2>1. FsmType' /\ RamType' /\ DataType'
        /\ LookupFresh' /\ Missing' /\ TagsUnique' /\ RefillHits'
    BY <1>1, LookupActions, WriteHitStep, UpdateClStep DEF Clock, Control
  <2>2. BurstType'
    BY <1>1, BurstStep DEF Clock, IInv
  <2> QED
    BY <2>1, <2>2, TypeParts DEF IInv
<1>2. CASE UNCHANGED vars
  BY <1>2 DEF vars, fsmVars, ramVars, IInv, TypeOK, LookupFresh, cache_set, Missing,
              TagsUnique, RefillHits
<1> QED
  BY <1>1, <1>2

LEMMA Invariant == ASSUME InstalledMemory PROVE Spec => []IInv
<1>1. IInv /\ [Clock]_vars => IInv'
  BY StepIInv
<1> QED
  BY <1>1, InitIInv, PTL DEF Spec

\* Every register of the cache stays in its range, for any line length and any
\* number of sets (memcahce.v 56-75, 264-299).
THEOREM TypeCorrect == ASSUME InstalledMemory PROVE Spec => []TypeOK
<1>1. IInv => TypeOK
  BY DEF IInv
<1> QED
  BY <1>1, Invariant, PTL

\* No line is ever in both ways, whatever the sequence of hits, write-backs and
\* fills (memcahce.v 129, 171-191).
THEOREM OneCopy == ASSUME InstalledMemory PROVE Spec => []TagsUnique
<1>1. IInv => TagsUnique
  BY DEF IInv
<1> QED
  BY <1>1, Invariant, PTL

\* A refill never leads to another miss of the same line (memcahce.v 184-191).
THEOREM RefillEndsInHit == ASSUME InstalledMemory PROVE Spec => []RefillHits
<1>1. IInv => RefillHits
  BY DEF IInv
<1> QED
  BY <1>1, Invariant, PTL

--------------------------------------------------------------------------------
(* The contents: what a clock of the refill has moved, and that what is cached *)
(* and clean, or no longer cached, is in the SDRAM.                            *)

requestLine == <<h.addr.tag, cache_set>>
victimLine == <<cl[replace_index][cache_set].tag, cache_set>>

\* Where the state machine is in the burst, by its count of the beats.
Timing ==
    /\ cState \in {"IDLE", "REQUEST", "CACHE_CHECK", "LOAD_PREP"} => burst.st \in {"idle", "close"}
    /\ cState = "UPDATE_CL" => burst.st = "beats" /\ burst.beat = HW + 1 /\ ~burst.rw
    /\ cState \in {"STORE_PAGE", "LOAD_PAGE"} =>
         /\ burst.st \in {"open", "beats"} =>
              /\ burst.line = IF cState = "STORE_PAGE" THEN victimLine ELSE requestLine
              /\ burst.rw = (cState = "STORE_PAGE")
         /\ burst.st = "open" => burst.beat = 0
         /\ burst.st = "beats" => a_count = IF burst.beat = 0 THEN MinusOne ELSE burst.beat - 1
         /\ burst.st # "beats" =>
              \/ a_count = MinusOne
              \/ cState = "STORE_PAGE" /\ burst.st = "close" /\ a_count = HW + 1
    /\ cState = "LOAD_PAGE" /\ burst.st = "beats" => burst.beat <= HW

\* A way that holds a line holds half-words of it, and if it is clean, those of the SDRAM.
Copies ==
    \A w \in Way, s \in Set : cl[w][s].tag # 0 /\ ~(Filling(w) /\ s = cache_set) =>
        /\ ac[w][s] \in [Half -> HalfVal]
        /\ ~cl[w][s].dirty => \A k \in Half : ac[w][s][k] = sdram[<<cl[w][s].tag, s>>][k]

SdramDefined == \A l \in Tag \X Set : l[1] # 0 => sdram[l] \in [Half -> HalfVal]

Written(k) == sdram[victimLine][k] = ac[replace_index][cache_set][k]
Loaded(k) == ac[replace_index][cache_set][k] = sdram[requestLine][k]

\* A write-back is two beats behind the burst, a fill one.
WriteBack ==
    /\ cState = "STORE_PAGE" /\ burst.st = "beats" =>
         /\ burst.beat >= 2 => sd_write_data = ac[replace_index][cache_set][burst.beat - 2]
         /\ \A k \in Half : k + 2 < burst.beat => Written(k)
    /\ cState = "STORE_PAGE" /\ a_count = HW + 1 => \A k \in Half : Written(k)
    /\ cState = "LOAD_PREP" /\ victimLine[1] # 0 => \A k \in Half : Written(k)

Loading ==
    /\ cState = "LOAD_PAGE" /\ burst.st = "beats" =>
         \A k \in Half : k + 1 < burst.beat => Loaded(k)
    /\ cState = "UPDATE_CL" => \A k \in Half : Loaded(k)

DInv == IInv /\ Timing /\ Copies /\ SdramDefined /\ WriteBack /\ Loading

LEMMA Lines ==
    ASSUME TypeOK
    PROVE  /\ requestLine \in Tag \X Set /\ victimLine \in Tag \X Set
           /\ cache_set \in Set /\ replace_index \in Way /\ h.addr.tag # 0
           /\ burst \in Burst /\ a_count \in Count
<1>1. h \in Requests /\ h.addr.tag # 0
  BY MemCacheAssumption DEF TypeOK, Requests, ReadReq, WriteReq
<1>2. cache_set \in Set /\ h.addr.tag \in Tag /\ replace_index \in Way
  BY <1>1, RequestType DEF cache_set, TypeOK
<1>3. cl[replace_index][cache_set] \in Row
  BY <1>2 DEF TypeOK
<1> QED
  BY <1>1, <1>2, <1>3 DEF requestLine, victimLine, Row, TypeOK

LEMMA SdAddress ==
    ASSUME IInv
    PROVE  /\ sd_address = IF cState = "STORE_PAGE" THEN victimLine ELSE requestLine
           /\ sd_rw = (cState = "STORE_PAGE")
<1>1. cState = "STORE_PAGE" => cl_q[replace_index] = cl[replace_index][cache_set]
  BY DEF IInv, TypeOK, LookupFresh, RowsUsed
<1> QED
  BY <1>1 DEF sd_address, sd_rw, victimLine, requestLine

\* While a burst runs the request, the rows and the way to be replaced stay as they are.
LEMMA PageStep ==
    ASSUME IInv, StorePage \/ LoadPage
    PROVE  /\ h' = h /\ cl' = cl /\ replace_index' = replace_index
           /\ requestLine' = requestLine /\ victimLine' = victimLine /\ cache_set' = cache_set
           /\ a_count' = IF burst.st = "beats" THEN (a_count + 1) % (2 * HW) ELSE a_count
           /\ \A w \in Way : cl_q'[w] = cl[w][cache_set]
<1>1. h' = h /\ cl' = cl /\ replace_index' = replace_index
  BY DEF StorePage, LoadPage, Held, Lookup, CountBeats
<1>2. cl_q' = [w \in Way |-> cl[w][cache_set]]
  BY DEF StorePage, LoadPage, Lookup, cache_set
<1>3. a_count' = IF burst.st = "beats" THEN (a_count + 1) % (2 * HW) ELSE a_count
  BY DEF StorePage, LoadPage, CountBeats, sd_data_bursting
<1> QED
  BY <1>1, <1>2, <1>3 DEF requestLine, victimLine, cache_set

\* The count follows the beats.
LEMMA CountsOn ==
    ASSUME NEW b \in Beat
    PROVE  ((IF b = 0 THEN MinusOne ELSE b - 1) + 1) % (2 * HW) = b
<1>1. HW \in Nat /\ HW >= 4
  BY MemCacheAssumption
<1>2. (2 * HW) % (2 * HW) = 0
  BY <1>1
<1>3. MinusOne + 1 = 2 * HW
  BY <1>1 DEF MinusOne
<1>4. b \in Nat /\ b < 2 * HW
  BY <1>1 DEF Beat
<1>5. b % (2 * HW) = b
  BY <1>1, <1>4
<1> QED
  BY <1>2, <1>3, <1>4, <1>5

LEMMA TimingStep == ASSUME DInv, Clock PROVE Timing'
<1>0. /\ IInv /\ TypeOK /\ Timing /\ burst \in Burst
      /\ HW \in Nat /\ HW >= 4 /\ MinusOne = 2 * HW - 1 /\ PAGE_SIZE = HW - 1
  BY MemCacheAssumption DEF DInv, IInv, TypeOK, MinusOne, PAGE_SIZE
<1>1. ASSUME burst.st \in {"idle", "close"}, ~sd_rw_req
      PROVE  burst'.st \in {"idle", "close"}
  BY <1>1 DEF Clock, SdramClock, BurstClock, BurstLatch, BurstStart, BurstBeat, BurstTerm,
              BurstEnd, BurstWait, NoBurst
<1>2. CASE Idle \/ ReadHit \/ WriteHit \/ Miss \/ LoadPrep \/ Request
  <2>1. burst'.st \in {"idle", "close"}
    BY <1>0, <1>1, <1>2 DEF Timing, sd_rw_req, Idle, ReadHit, WriteHit, Miss, LoadPrep, Request,
                            data_valid
  <2>2. cState' \in {"STORE_PAGE", "LOAD_PAGE"} => a_count' = MinusOne
    BY <1>2 DEF Idle, ReadHit, WriteHit, Miss, LoadPrep, Request, PrepareMiss
  <2>3. cState' # "UPDATE_CL"
    BY <1>0, <1>2 DEF Idle, ReadHit, WriteHit, Miss, LoadPrep, Request, TypeOK
  <2> QED
    BY <2>1, <2>2, <2>3 DEF Timing
<1>3. CASE UpdateCl
  <2>1. cState' = "REQUEST" /\ burst.st = "beats" /\ burst.beat = HW + 1
    BY <1>0, <1>3 DEF UpdateCl, Timing
  <2>2. burst'.st = "close"
    BY <1>0, <2>1 DEF Clock, SdramClock, BurstClock, BurstLatch, BurstStart, BurstBeat, BurstTerm,
                      BurstEnd, BurstWait, Burst
  <2> QED
    BY <2>1, <2>2 DEF Timing
<1>4. CASE StorePage
  <2>1. /\ cState = "STORE_PAGE" /\ victimLine' = victimLine
        /\ cState' = IF a_count = HW + 1 THEN "LOAD_PREP" ELSE "STORE_PAGE"
        /\ a_count' = IF burst.st = "beats" THEN (a_count + 1) % (2 * HW) ELSE a_count
        /\ sd_address = victimLine /\ sd_rw = TRUE
    <3>1. PAGE_SIZE + READ_DELAY = HW + 1
      BY <1>0 DEF READ_DELAY
    <3> QED
      BY <1>0, <1>4, <3>1, PageStep, SdAddress DEF StorePage
  <2>2. CASE burst.st = "beats"
    <3>1. burst.beat \in Beat /\ a_count' = burst.beat /\ cState' = "STORE_PAGE"
      BY <1>0, <2>1, <2>2, CountsOn DEF Timing, Burst, Beat
    <3>2. CASE BurstBeat
      BY <1>0, <2>1, <2>2, <3>1, <3>2 DEF Timing, BurstBeat, Burst, Beat
    <3>3. CASE BurstTerm
      BY <1>0, <2>1, <2>2, <3>1, <3>3 DEF Timing, BurstTerm, Burst, Beat
    <3> QED
      BY <2>2, <3>2, <3>3 DEF Clock, SdramClock, BurstClock, BurstLatch, BurstStart, BurstEnd,
                              BurstWait
  <2>3. CASE burst.st # "beats"
    <3>1. CASE a_count = HW + 1
      <4>1. burst.st = "close" /\ cState' = "LOAD_PREP"
        BY <1>0, <2>1, <2>3, <3>1 DEF Timing
      <4>2. burst'.st \in {"idle", "close"}
        BY <4>1 DEF Clock, SdramClock, BurstClock, BurstLatch, BurstStart, BurstBeat, BurstTerm,
                    BurstEnd, BurstWait, NoBurst
      <4> QED
        BY <4>1, <4>2 DEF Timing
    <3>2. CASE a_count # HW + 1
      <4>1. a_count' = MinusOne /\ cState' = "STORE_PAGE"
        BY <1>0, <2>1, <2>3, <3>2 DEF Timing
      <4>2. CASE BurstLatch(sd_rw_req, sd_rw, sd_address)
        BY <2>1, <4>1, <4>2 DEF Timing, BurstLatch
      <4>3. CASE BurstStart
        BY <1>0, <2>1, <4>1, <4>3 DEF Timing, BurstStart, Burst
      <4>4. CASE BurstEnd \/ BurstWait
        BY <1>0, <2>1, <2>3, <4>1, <4>4 DEF Timing, BurstEnd, BurstWait, NoBurst
      <4> QED
        BY <2>3, <4>2, <4>3, <4>4 DEF Clock, SdramClock, BurstClock, BurstBeat, BurstTerm
    <3> QED
      BY <3>1, <3>2
  <2> QED
    BY <2>2, <2>3
<1>5. CASE LoadPage
  <2>1. /\ cState = "LOAD_PAGE" /\ requestLine' = requestLine
        /\ cState' = IF a_count = HW - 1 THEN "UPDATE_CL" ELSE "LOAD_PAGE"
        /\ a_count' = IF burst.st = "beats" THEN (a_count + 1) % (2 * HW) ELSE a_count
        /\ sd_address = requestLine /\ sd_rw = FALSE
    BY <1>0, <1>5, PageStep, SdAddress DEF LoadPage
  <2>2. CASE burst.st = "beats"
    <3>1. burst.beat \in Beat /\ a_count' = burst.beat /\ burst.beat <= HW /\ ~burst.rw
          /\ cState' = IF burst.beat = HW THEN "UPDATE_CL" ELSE "LOAD_PAGE"
      BY <1>0, <2>1, <2>2, CountsOn DEF Timing, Burst, Beat
    <3>2. BurstBeat
      BY <1>0, <2>2, <3>1 DEF Clock, SdramClock, BurstClock, BurstLatch, BurstStart, BurstEnd,
                              BurstWait, BurstTerm
    <3>3. burst'.st = "beats" /\ burst'.beat = burst.beat + 1 /\ burst'.line = requestLine /\ ~burst'.rw
      BY <1>0, <2>1, <2>2, <3>1, <3>2 DEF Timing, BurstBeat, Burst
    <3>4. CASE burst.beat = HW
      BY <1>0, <3>1, <3>3, <3>4 DEF Timing
    <3>5. CASE burst.beat # HW
      <4>1. cState' = "LOAD_PAGE" /\ burst'.beat <= HW /\ burst'.beat # 0 /\ burst'.beat - 1 = burst.beat
        BY <1>0, <3>1, <3>3, <3>5 DEF Beat
      <4>2. burst'.rw = FALSE
        BY <1>0, <3>1, <3>2 DEF BurstBeat, Burst
      <4> QED
        BY <2>1, <3>1, <3>3, <4>1, <4>2 DEF Timing
    <3> QED
      BY <3>4, <3>5
  <2>3. CASE burst.st # "beats"
    <3>1. a_count' = MinusOne /\ cState' = "LOAD_PAGE"
      BY <1>0, <2>1, <2>3 DEF Timing
    <3>2. CASE BurstLatch(sd_rw_req, sd_rw, sd_address)
      BY <2>1, <3>1, <3>2 DEF Timing, BurstLatch
    <3>3. CASE BurstStart
      BY <1>0, <2>1, <3>1, <3>3 DEF Timing, BurstStart, Burst
    <3>4. CASE BurstEnd \/ BurstWait
      BY <1>0, <2>1, <2>3, <3>1, <3>4 DEF Timing, BurstEnd, BurstWait, NoBurst
    <3> QED
      BY <2>3, <3>2, <3>3, <3>4 DEF Clock, SdramClock, BurstClock, BurstBeat, BurstTerm
  <2> QED
    BY <2>2, <2>3
<1> QED
  BY <1>2, <1>3, <1>4, <1>5 DEF Clock, Control

--------------------------------------------------------------------------------
(* What a clock does to the data RAMs and to the SDRAM. *)

\* A half-word leaves a RAM through the word it is in.
LEMMA HalfOfWord ==
    ASSUME NEW w \in Way, NEW s \in Set, NEW k \in Half
    PROVE  WordAt(w, s, k \div 2)[IF k % 2 = 1 THEN 2 ELSE 1] = ac[w][s][k]
<1>0. k \in Nat
  BY MemCacheAssumption DEF Half
<1>1. 2 * (k \div 2) + (k % 2) = k /\ k % 2 \in {0, 1}
  BY <1>0
<1>2. CASE k % 2 = 0
  BY <1>0, <1>1, <1>2 DEF WordAt
<1>3. CASE k % 2 = 1
  BY <1>0, <1>1, <1>3 DEF WordAt
<1> QED
  BY <1>1, <1>2, <1>3

\* Only a write-back changes the SDRAM, half-word by half-word, to what its way holds.
LEMMA SdramStep ==
    ASSUME DInv, SdramClock
    PROVE  \A l \in Tag \X Set, k \in Half :
             sdram'[l][k] = IF /\ cState = "STORE_PAGE" /\ burst.st = "beats" /\ burst.beat = k + 2
                               /\ l = victimLine
                            THEN ac[replace_index][cache_set][k] ELSE sdram[l][k]
<1>1. /\ HW \in Nat /\ burst.beat \in 0 .. HW + 1 /\ victimLine \in Tag \X Set
      /\ sdram \in [Tag \X Set -> [Half -> HalfRam]]
  BY MemCacheAssumption, Lines DEF DInv, IInv, TypeOK, HalfRam, Burst, Beat
<1>2. CASE sd_data_bursting /\ burst.rw /\ burst.beat >= 2
  <2>1. cState = "STORE_PAGE" /\ burst.st = "beats"
    BY <1>2 DEF sd_data_bursting, DInv, IInv, TypeOK, Timing
  <2>2. burst.line = victimLine /\ sd_write_data = ac[replace_index][cache_set][burst.beat - 2]
    BY <1>2, <2>1 DEF DInv, Timing, WriteBack
  <2>3. burst.beat - 2 \in Half
    BY <1>1, <1>2 DEF Half
  <2> DEFINE written == [sdram[victimLine] EXCEPT ![burst.beat - 2] = sd_write_data]
  <2>4. sdram' = [sdram EXCEPT ![victimLine] = written]
    BY <1>2, <2>2 DEF SdramClock
  <2>5. \A k \in Half : written[k] = IF burst.beat = k + 2 THEN ac[replace_index][cache_set][k]
                                                          ELSE sdram[victimLine][k]
    BY <1>1, <2>2, <2>3 DEF Half
  <2> HIDE DEF written
  <2> QED
    BY <1>1, <2>1, <2>4, <2>5
<1>3. CASE ~(sd_data_bursting /\ burst.rw /\ burst.beat >= 2)
  <2>1. sdram' = sdram
    BY <1>3 DEF SdramClock
  <2>2. cState = "STORE_PAGE" /\ burst.st = "beats" => burst.beat < 2
    <3> SUFFICES ASSUME cState = "STORE_PAGE", burst.st = "beats" PROVE burst.beat < 2
      OBVIOUS
    <3>1. burst.rw = TRUE
      BY DEF DInv, Timing
    <3> QED
      BY <1>1, <1>3, <3>1 DEF sd_data_bursting
  <2> QED
    BY <1>1, <2>1, <2>2 DEF Half
<1> QED
  BY <1>2, <1>3

LEMMA SdramStill ==
    ASSUME DInv, SdramClock, cState # "STORE_PAGE" \/ burst.st # "beats"
    PROVE  sdram' = sdram
BY DEF SdramClock, sd_data_bursting, DInv, IInv, TypeOK, Timing

\* A fill changes one half-word of the way being filled.
LEMMA FillStep ==
    ASSUME TypeOK, LoadPage
    PROVE  \A w \in Way, s \in Set, k \in Half :
             ac'[w][s][k] = IF /\ burst.st = "beats" /\ w = replace_index /\ s = cache_set
                               /\ k = h_index
                            THEN sd_read_data ELSE ac[w][s][k]
<1>1. /\ cache_set \in Set /\ replace_index \in Way /\ h_index \in Half
      /\ ac \in [Way -> [Set -> [Half -> HalfRam]]]
  BY Lines, HalfIndex DEF TypeOK, HalfRam, h_index
<1>2. CASE burst.st = "beats"
  <2> DEFINE new == [ac[replace_index][cache_set] EXCEPT ![h_index] = sd_read_data]
             way == [ac[replace_index] EXCEPT ![cache_set] = new]
  <2>1. ac' = [ac EXCEPT ![replace_index] = way]
    BY <1>2 DEF LoadPage, HalfWrite, sd_data_bursting
  <2>2. \A k \in Half : new[k] = IF k = h_index THEN sd_read_data
                                                ELSE ac[replace_index][cache_set][k]
    BY <1>1
  <2> HIDE DEF new
  <2>3. \A s \in Set : way[s] = IF s = cache_set THEN new ELSE ac[replace_index][s]
    BY <1>1
  <2> HIDE DEF way
  <2>4. \A w \in Way : ac'[w] = IF w = replace_index THEN way ELSE ac[w]
    BY <1>1, <2>1
  <2> QED
    BY <1>2, <2>2, <2>3, <2>4
<1>3. CASE burst.st # "beats"
  BY <1>3 DEF LoadPage, HalfRead, sd_data_bursting
<1> QED
  BY <1>2, <1>3

\* A store changes its bytes of its word in the way that was hit.
LEMMA StoreStep ==
    ASSUME TypeOK, NEW way \in Way, h.rw, WordWrite(h, way)
    PROVE  \A w \in Way, s \in Set, k \in Half :
             ac'[w][s][k] = IF w = way /\ s = cache_set /\ \E j \in h.be : k = 2 * h.addr.word + j - 1
                            THEN h.data[k - 2 * h.addr.word + 1] ELSE ac[w][s][k]
<1>1. /\ cache_set \in Set /\ ac \in [Way -> [Set -> [Half -> HalfRam]]]
  BY Lines DEF TypeOK, HalfRam
<1> DEFINE old == ac[way][cache_set]
           new == [k \in Half |-> IF \E j \in h.be : k = 2 * h.addr.word + j - 1
                                  THEN h.data[k - 2 * h.addr.word + 1] ELSE old[k]]
           set == [ac[way] EXCEPT ![cache_set] = new]
<1>2. ac' = [ac EXCEPT ![way] = set]
  BY DEF WordWrite, cache_set
<1>3. \A k \in Half : new[k] = IF \E j \in h.be : k = 2 * h.addr.word + j - 1
                                THEN h.data[k - 2 * h.addr.word + 1] ELSE old[k]
  OBVIOUS
<1> HIDE DEF new
<1>4. \A s \in Set : set[s] = IF s = cache_set THEN new ELSE ac[way][s]
  BY <1>1
<1> HIDE DEF set
<1>5. \A w \in Way : ac'[w] = IF w = way THEN set ELSE ac[w]
  BY <1>1, <1>2
<1> QED
  BY <1>3, <1>4, <1>5

\* The data of a store are half-words.
LEMMA StoredHalf ==
    ASSUME TypeOK, h.rw, NEW k \in Half, NEW j \in h.be, k = 2 * h.addr.word + j - 1
    PROVE  /\ j \in {1, 2} /\ k - 2 * h.addr.word + 1 = j
           /\ h.data[j] \in HalfVal
<1>1. h.addr.word \in Nat /\ j \in {1, 2} /\ h.data \in HalfVal \X HalfVal
  BY RequestType DEF TypeOK, Word
<1> QED
  BY <1>1

--------------------------------------------------------------------------------
(* The contents, action by action. *)

Data == Copies /\ SdramDefined /\ WriteBack /\ Loading

\* What a way holds and is not being filled stays what it is, and so does its line.
LEMMA QuietStep ==
    ASSUME DInv, Clock, IInv', Timing', Idle \/ ReadHit \/ Miss \/ LoadPrep \/ Request
    PROVE  Data'
<1>1. /\ sdram' = sdram /\ ac' = ac /\ cl' = cl
  BY SdramStill DEF Clock, DInv, Idle, ReadHit, Miss, LoadPrep, Request, Lookup, WordPort, data_valid
<1>2. \A w \in Way : ~Filling(w)
  BY DEF Filling, Idle, ReadHit, Miss, LoadPrep, Request, data_valid
<1>3. Copies' /\ SdramDefined'
  BY <1>1, <1>2 DEF Copies, SdramDefined, DInv
<1>4. WriteBack'
  <2>1. cState' = "STORE_PAGE" => burst'.st # "beats" /\ a_count' = MinusOne /\ MinusOne # HW + 1
    <3>1. cState' = "STORE_PAGE" => Miss
      BY DEF Idle, ReadHit, Miss, LoadPrep, Request, DInv, IInv, TypeOK
    <3>2. Miss => burst.st \in {"idle", "close"} /\ ~sd_rw_req /\ a_count' = MinusOne
      BY DEF Miss, DInv, Timing, sd_rw_req, PrepareMiss
    <3>3. MinusOne # HW + 1
      BY MemCacheAssumption DEF MinusOne
    <3> QED
      BY <3>1, <3>2, <3>3 DEF Clock, SdramClock, BurstClock, BurstLatch, BurstStart, BurstBeat,
                              BurstTerm, BurstEnd, BurstWait, NoBurst
  <2>2. ASSUME cState' = "LOAD_PREP", victimLine'[1] # 0
        PROVE  \A k \in Half : Written(k)'
    <3>1. Miss /\ replace_index' = victim /\ ~victim_dirty /\ h' = h
      BY <2>2 DEF Idle, ReadHit, Miss, LoadPrep, Request, DInv, IInv, TypeOK, PrepareMiss, Held
    <3>2. victim \in Way /\ cl_q[victim] = cl[victim][cache_set] /\ cache_set \in Set
      BY <3>1, Lines DEF Miss, victim, Way, DInv, IInv, LookupFresh, RowsUsed
    <3>3. victimLine' = <<cl[victim][cache_set].tag, cache_set>> /\ cache_set' = cache_set
      BY <1>1, <3>1 DEF victimLine, cache_set
    <3>4. \A k \in Half : ac[victim][cache_set][k] = sdram[<<cl[victim][cache_set].tag, cache_set>>][k]
      BY <1>2, <2>2, <3>1, <3>2, <3>3 DEF DInv, Copies, victim_dirty
    <3> QED
      BY <1>1, <3>1, <3>3, <3>4 DEF Written
  <2> QED
    BY <2>1, <2>2 DEF WriteBack
<1>5. Loading'
  <2>1. cState' # "UPDATE_CL"
    BY DEF Idle, ReadHit, Miss, LoadPrep, Request, DInv, IInv, TypeOK
  <2>2. cState' = "LOAD_PAGE" => burst'.st # "beats"
    <3>1. cState' = "LOAD_PAGE" => LoadPrep
      BY DEF Idle, ReadHit, Miss, LoadPrep, Request, DInv, IInv, TypeOK
    <3>2. LoadPrep => burst.st \in {"idle", "close"} /\ ~sd_rw_req
      BY DEF LoadPrep, DInv, Timing, sd_rw_req
    <3> QED
      BY <3>1, <3>2 DEF Clock, SdramClock, BurstClock, BurstLatch, BurstStart, BurstBeat,
                        BurstTerm, BurstEnd, BurstWait, NoBurst
  <2> QED
    BY <2>1, <2>2 DEF Loading
<1> QED
  BY <1>3, <1>4, <1>5 DEF Data

LEMMA WriteHitRows ==
    ASSUME IInv, WriteHit
    PROVE  \A w \in Way, s \in Set :
             cl'[w][s] = IF w = cache_hit_set /\ s = cache_set
                         THEN [cl[w][s] EXCEPT !.dirty = TRUE] ELSE cl[w][s]
<1> DEFINE rows == [cl_q EXCEPT ![cache_hit_set].dirty = TRUE]
           way == cache_hit_set
<1>1. TypeOK /\ cache_set \in Set /\ way \in Way /\ cl_q \in [Way -> Row \cup {UndefRow}]
  BY Lines DEF IInv, TypeOK, cache_hit_set, Way
<1>2. \A w \in Way : cl_q[w] = cl[w][cache_set] /\ cl[w][cache_set] \in Row
  BY <1>1 DEF WriteHit, data_valid, IInv, LookupFresh, RowsUsed, TypeOK
<1>3. /\ rows = [w \in Way |-> rows[w]]
      /\ \A w \in Way : rows[w] = IF w = way THEN [cl_q[w] EXCEPT !.dirty = TRUE] ELSE cl_q[w]
  BY <1>1
<1>4. UpdateRows(h, rows)
  BY DEF WriteHit
<1> HIDE DEF rows, way
<1>5. ASSUME NEW w \in Way
      PROVE  /\ rows[w] \in Row
             /\ rows[w] = IF w = way THEN [cl[w][cache_set] EXCEPT !.dirty = TRUE]
                                    ELSE cl[w][cache_set]
  <2>1. rows[w] = IF w = way THEN [cl_q[w] EXCEPT !.dirty = TRUE] ELSE cl_q[w]
    BY <1>3
  <2>2. cl_q[w] = cl[w][cache_set] /\ cl_q[w] \in Row
    BY <1>2
  <2>3. [cl_q[w] EXCEPT !.dirty = TRUE] \in Row
    BY <2>2 DEF Row
  <2> QED
    BY <2>1, <2>2, <2>3
<1>6. rows \in [Way -> Row]
  BY <1>3, <1>5
<1>7. \A w \in Way, s \in Set : cl'[w][s] = IF s = cache_set THEN rows[w] ELSE cl[w][s]
  BY <1>1, <1>4, <1>6, UpdateStep
<1> QED
  BY <1>5, <1>7 DEF way

LEMMA WriteHitData == ASSUME DInv, Clock, WriteHit PROVE Data'
<1> DEFINE way == cache_hit_set
<1>1. sdram' = sdram /\ cState = "CACHE_CHECK" /\ cState' = "IDLE" /\ way \in Way /\ h.rw /\ h' = h
  BY SdramStill DEF Clock, WriteHit, data_valid, cache_hit_set, Way, Held
<1>2. IInv /\ TypeOK /\ cache_set \in Set /\ sdram \in [Tag \X Set -> [Half -> HalfRam]]
      /\ ac \in [Way -> [Set -> [Half -> HalfRam]]]
  BY Lines DEF DInv, IInv, TypeOK, HalfRam
<1>4. \A w \in Way, s \in Set :
        cl'[w][s] = IF w = way /\ s = cache_set THEN [cl[w][s] EXCEPT !.dirty = TRUE] ELSE cl[w][s]
  BY <1>1, <1>2, WriteHitRows DEF WriteHit
<1>5. \A w \in Way, s \in Set, k \in Half :
        ac'[w][s][k] = IF w = way /\ s = cache_set /\ \E j \in h.be : k = 2 * h.addr.word + j - 1
                       THEN h.data[k - 2 * h.addr.word + 1] ELSE ac[w][s][k]
  BY <1>1, <1>2, StoreStep DEF WriteHit
<1>6. DataType'
  BY <1>1, <1>2, WordWriteType DEF WriteHit
<1> HIDE DEF way
<1>7. Copies'
  <2> SUFFICES ASSUME NEW w \in Way, NEW s \in Set, cl'[w][s].tag # 0
               PROVE  /\ ac'[w][s] \in [Half -> HalfVal]
                      /\ ~cl'[w][s].dirty =>
                           \A k \in Half : ac'[w][s][k] = sdram'[<<cl'[w][s].tag, s>>][k]
    BY DEF Copies
  <2>1. ac'[w][s] \in [Half -> HalfRam]
    BY <1>6 DEF DataType
  <2>2. cl[w][s] \in Row /\ ~Filling(w)
    BY <1>1, <1>2 DEF Filling, TypeOK
  <2>3. CASE w = way /\ s = cache_set
    <3>1. cl'[w][s].tag = cl[w][s].tag /\ cl'[w][s].dirty = TRUE
      BY <1>4, <2>2, <2>3 DEF Row
    <3>2. ac[w][s] \in [Half -> HalfVal]
      BY <2>2, <3>1 DEF DInv, Copies
    <3>3. \A k \in Half : ac'[w][s][k] \in HalfVal
      <4> SUFFICES ASSUME NEW k \in Half PROVE ac'[w][s][k] \in HalfVal
        OBVIOUS
      <4>1. CASE \E j \in h.be : k = 2 * h.addr.word + j - 1
        <5>1. ac'[w][s][k] = h.data[k - 2 * h.addr.word + 1]
          BY <1>5, <2>3, <4>1
        <5> QED
          BY <1>1, <1>2, <4>1, <5>1, StoredHalf
      <4>2. CASE ~\E j \in h.be : k = 2 * h.addr.word + j - 1
        <5>1. ac'[w][s][k] = ac[w][s][k]
          BY <1>5, <2>3, <4>2
        <5> QED
          BY <3>2, <5>1
      <4> QED
        BY <4>1, <4>2
    <3> QED
      BY <2>1, <3>1, <3>3
  <2>4. CASE ~(w = way /\ s = cache_set)
    <3>1. cl'[w][s] = cl[w][s] /\ \A k \in Half : ac'[w][s][k] = ac[w][s][k]
      BY <1>4, <1>5, <2>4
    <3>2. ac[w][s] \in [Half -> HalfVal]
      BY <2>2, <3>1 DEF DInv, Copies
    <3> QED
      BY <1>1, <2>1, <2>2, <3>1, <3>2 DEF DInv, Copies
  <2> QED
    BY <2>3, <2>4
<1> QED
  BY <1>1, <1>7 DEF Data, SdramDefined, DInv, WriteBack, Loading

\* The new row of a fill.
LEMMA UpdateClTags ==
    ASSUME IInv, InstalledMemory, UpdateCl
    PROVE  \A w \in Way, s \in Set :
             /\ cl'[w][s].tag = IF s = cache_set /\ w = replace_index THEN h.addr.tag ELSE cl[w][s].tag
             /\ ~(s = cache_set /\ w = replace_index) => cl'[w][s].dirty = cl[w][s].dirty
<1> DEFINE new(w) == IF w = replace_index
                     THEN [tag |-> Stored(h.addr.tag), dirty |-> FALSE, mru |-> TRUE]
                     ELSE [cl_q[w] EXCEPT !.mru = FALSE]
           rows == [w \in Way |-> new(w)]
<1>1. /\ TypeOK /\ cache_set \in Set /\ replace_index \in Way
      /\ Stored(h.addr.tag) = h.addr.tag /\ h.addr.tag \in Tag
  BY Lines, RequestType DEF IInv, TypeOK, InstalledMemory
<1>2. \A w \in Way : cl_q[w] = cl[w][cache_set] /\ cl[w][cache_set] \in Row
  BY <1>1 DEF UpdateCl, IInv, LookupFresh, RowsUsed, TypeOK
<1>3. \A w \in Way : /\ new(w) \in Row
                     /\ new(w).tag = IF w = replace_index THEN h.addr.tag ELSE cl[w][cache_set].tag
                     /\ w # replace_index => new(w).dirty = cl[w][cache_set].dirty
  BY <1>1, <1>2 DEF Row
<1>4. UpdateRows(h, rows)
  BY DEF UpdateCl
<1> HIDE DEF new
<1>5. rows \in [Way -> Row] /\ \A w \in Way : rows[w] = new(w)
  BY <1>3
<1> HIDE DEF rows
<1>6. \A w \in Way, s \in Set : cl'[w][s] = IF s = cache_set THEN new(w) ELSE cl[w][s]
  BY <1>1, <1>4, <1>5, UpdateStep
<1> QED
  BY <1>3, <1>6

LEMMA UpdateClData == ASSUME DInv, InstalledMemory, Clock, UpdateCl PROVE Data'
<1>1. /\ sdram' = sdram /\ ac' = ac /\ cState = "UPDATE_CL" /\ cState' = "REQUEST"
      /\ IInv /\ TypeOK
  BY SdramStill DEF Clock, UpdateCl, WordPort, DInv, IInv
<1>2. /\ cache_set \in Set /\ replace_index \in Way /\ h.addr.tag # 0 /\ requestLine \in Tag \X Set
      /\ Stored(h.addr.tag) = h.addr.tag /\ h.addr.tag \in Tag
      /\ ac \in [Way -> [Set -> [Half -> HalfRam]]]
  BY <1>1, Lines, RequestType DEF TypeOK, HalfRam, InstalledMemory
<1>3. \A w \in Way, s \in Set :
        /\ cl'[w][s].tag = IF s = cache_set /\ w = replace_index THEN h.addr.tag ELSE cl[w][s].tag
        /\ ~(s = cache_set /\ w = replace_index) => cl'[w][s].dirty = cl[w][s].dirty
  BY <1>1, UpdateClTags
<1>4. Copies'
  <2> SUFFICES ASSUME NEW w \in Way, NEW s \in Set, cl'[w][s].tag # 0
               PROVE  /\ ac[w][s] \in [Half -> HalfVal]
                      /\ ~cl'[w][s].dirty =>
                           \A k \in Half : ac[w][s][k] = sdram[<<cl'[w][s].tag, s>>][k]
    BY <1>1 DEF Copies
  <2>1. CASE s = cache_set /\ w = replace_index
    <3>1. cl'[w][s].tag = h.addr.tag
      BY <1>3, <2>1
    <3>2. \A k \in Half : ac[w][s][k] = sdram[requestLine][k]
      BY <1>1, <2>1 DEF DInv, Loading, Loaded
    <3>3. sdram[requestLine] \in [Half -> HalfVal]
      BY <1>2 DEF DInv, SdramDefined, requestLine
    <3> QED
      <4>1. <<cl'[w][s].tag, s>> = requestLine
        BY <2>1, <3>1 DEF requestLine
      <4>2. ac[w][s] \in [Half -> HalfRam]
        BY <1>2
      <4> QED
        BY <3>2, <3>3, <4>1, <4>2
  <2>2. CASE ~(s = cache_set /\ w = replace_index)
    <3>1. cl'[w][s].tag = cl[w][s].tag /\ cl'[w][s].dirty = cl[w][s].dirty
      BY <1>3, <2>2
    <3> QED
      BY <2>2, <3>1 DEF DInv, Copies, Filling
  <2> QED
    BY <2>1, <2>2
<1> QED
  BY <1>1, <1>4 DEF Data, SdramDefined, DInv, WriteBack, Loading

\* Beats begin with beat 0.
LEMMA FirstBeat ==
    ASSUME DInv, Clock, cState \in {"STORE_PAGE", "LOAD_PAGE"}, burst.st # "beats", burst'.st = "beats"
    PROVE  burst'.beat = 0
<1>1. BurstClock(sd_rw_req, sd_rw, sd_address)
  BY DEF Clock, SdramClock
<1>2. BurstStart
  BY <1>1 DEF BurstClock, BurstLatch, BurstBeat, BurstTerm, BurstEnd, BurstWait, NoBurst
<1>3. burst \in Burst /\ burst.beat = 0
  BY <1>2 DEF DInv, IInv, TypeOK, Timing, BurstStart
<1> QED
  BY <1>2, <1>3 DEF BurstStart, Burst

LEMMA StorePageData == ASSUME DInv, Clock, StorePage, IInv', Timing' PROVE Data'
<1>1. /\ cState = "STORE_PAGE" /\ cl' = cl /\ ac' = ac /\ replace_index' = replace_index
      /\ victimLine' = victimLine /\ cache_set' = cache_set /\ cState' \in {"STORE_PAGE", "LOAD_PREP"}
  BY PageStep DEF StorePage, HalfRead, DInv
<1>2. /\ IInv /\ TypeOK /\ HW \in Nat /\ HW >= 4 /\ MinusOne = 2 * HW - 1
      /\ burst \in Burst /\ burst.beat \in 0 .. HW + 1 /\ a_count \in 0 .. 2 * HW - 1
      /\ cache_set \in Set /\ replace_index \in Way /\ victimLine \in Tag \X Set
  BY MemCacheAssumption, Lines DEF DInv, IInv, TypeOK, MinusOne, Burst, Beat, Count
<1>3. \A l \in Tag \X Set, k \in Half :
        sdram'[l][k] = IF burst.st = "beats" /\ burst.beat = k + 2 /\ l = victimLine
                       THEN ac[replace_index][cache_set][k] ELSE sdram[l][k]
  BY <1>1, SdramStep DEF Clock
<1>4. sdram' \in [Tag \X Set -> [Half -> HalfRam]]
  BY DEF IInv, TypeOK, HalfRam
<1>5. victimLine = <<cl[replace_index][cache_set].tag, cache_set>> /\ \A w \in Way : ~Filling(w)
  BY <1>1 DEF victimLine, Filling
<1>6. Copies'
  <2> SUFFICES ASSUME NEW w \in Way, NEW s \in Set, cl[w][s].tag # 0
               PROVE  /\ ac[w][s] \in [Half -> HalfVal]
                      /\ ~cl[w][s].dirty =>
                           \A k \in Half : ac[w][s][k] = sdram'[<<cl[w][s].tag, s>>][k]
    BY <1>1 DEF Copies
  <2>1. /\ ac[w][s] \in [Half -> HalfVal]
        /\ ~cl[w][s].dirty => \A k \in Half : ac[w][s][k] = sdram[<<cl[w][s].tag, s>>][k]
    BY <1>5 DEF DInv, Copies
  <2>2. <<cl[w][s].tag, s>> \in Tag \X Set
    BY <1>2 DEF TypeOK, Row
  <2>3. <<cl[w][s].tag, s>> = victimLine => w = replace_index /\ s = cache_set
    BY <1>2, <1>5 DEF IInv, TagsUnique, Way
  <2> QED
    BY <1>3, <2>1, <2>2, <2>3
<1>7. SdramDefined'
  <2> SUFFICES ASSUME NEW l \in Tag \X Set, l[1] # 0 PROVE sdram'[l] \in [Half -> HalfVal]
    BY DEF SdramDefined
  <2>1. sdram[l] \in [Half -> HalfVal]
    BY DEF DInv, SdramDefined
  <2>2. l = victimLine => ac[replace_index][cache_set] \in [Half -> HalfVal]
    BY <1>2, <1>5 DEF DInv, Copies
  <2>3. \A k \in Half : sdram'[l][k] \in HalfVal
    BY <1>3, <2>1, <2>2
  <2> QED
    BY <1>4, <2>3
<1>8. WriteBack'
  <2>1. CASE burst.st = "beats"
    <3>1. a_count = (IF burst.beat = 0 THEN MinusOne ELSE burst.beat - 1) /\ cState' = "STORE_PAGE"
      <4>1. a_count = IF burst.beat = 0 THEN MinusOne ELSE burst.beat - 1
        BY <1>1, <2>1 DEF DInv, Timing
      <4>2. PAGE_SIZE + READ_DELAY = HW + 1 /\ a_count # HW + 1
        BY <1>2, <4>1 DEF PAGE_SIZE, READ_DELAY
      <4> QED
        BY <4>1, <4>2 DEF StorePage
    <3>2. a_count' = burst.beat
      BY <1>2, <2>1, <3>1, PageStep, CountsOn DEF Beat
    <3>3. \A k \in Half : k + 2 <= burst.beat => Written(k)'
      <4> SUFFICES ASSUME NEW k \in Half, k + 2 <= burst.beat PROVE Written(k)'
        OBVIOUS
      <4>1. k + 2 < burst.beat => Written(k)
        BY <1>1, <2>1 DEF DInv, WriteBack
      <4> QED
        BY <1>1, <1>2, <1>3, <2>1, <4>1 DEF Written, Half
    <3>4. CASE BurstBeat
      <4>1. burst'.st = "beats" /\ burst'.beat = burst.beat + 1 /\ burst.beat <= HW
        BY <1>2, <3>4 DEF BurstBeat, Burst
      <4>2. burst'.beat >= 2 => sd_write_data' = ac[replace_index][cache_set][burst'.beat - 2]
        <5> SUFFICES ASSUME burst'.beat >= 2
                     PROVE  sd_write_data' = ac[replace_index][cache_set][burst'.beat - 2]
          OBVIOUS
        <5>1. h_index = burst.beat - 1 /\ h_index \in Half /\ burst'.beat - 2 = h_index
          BY <1>2, <3>1, <4>1 DEF h_index, Half
        <5>2. /\ ac_q'[replace_index] = WordAt(replace_index, cache_set, h_index \div 2)
              /\ h_sel' = h_index % 2
          BY <1>2 DEF StorePage, HalfRead
        <5>3. sd_write_data' = WordAt(replace_index, cache_set, h_index \div 2)[IF h_index % 2 = 1 THEN 2 ELSE 1]
          BY <1>1, <5>2 DEF sd_write_data
        <5> QED
          BY <1>2, <5>1, <5>3, HalfOfWord
      <4>3. \A k \in Half : k + 2 < burst'.beat => Written(k)'
        <5>1. \A k \in Half : k + 2 < burst'.beat => k + 2 <= burst.beat
          BY <1>2, <4>1 DEF Half
        <5> QED
          BY <3>3, <5>1
      <4>4. a_count' # HW + 1
        BY <1>2, <3>2, <4>1
      <4> QED
        BY <1>1, <3>1, <4>2, <4>3, <4>4 DEF WriteBack
    <3>5. CASE BurstTerm
      <4>1. burst'.st = "close" /\ burst.beat = HW + 1
        BY <1>2, <3>5 DEF BurstTerm, Burst
      <4>2. \A k \in Half : Written(k)'
        <5>1. \A k \in Half : k + 2 <= burst.beat
          BY <1>2, <4>1 DEF Half
        <5> QED
          BY <3>3, <5>1
      <4> QED
        BY <3>1, <4>1, <4>2 DEF WriteBack
    <3> QED
      BY <2>1, <3>4, <3>5 DEF Clock, SdramClock, BurstClock, BurstLatch, BurstStart, BurstEnd,
                              BurstWait
  <2>2. CASE burst.st # "beats"
    <3>1. sdram' = sdram
      BY <2>2, SdramStill DEF Clock
    <3>2. a_count' = a_count /\ cState' = IF a_count = HW + 1 THEN "LOAD_PREP" ELSE "STORE_PAGE"
      <4>1. PAGE_SIZE + READ_DELAY = HW + 1
        BY <1>2 DEF PAGE_SIZE, READ_DELAY
      <4> QED
        BY <2>2, <4>1 DEF StorePage, CountBeats, sd_data_bursting
    <3>3. burst'.st = "beats" => burst'.beat = 0
      BY <1>1, <2>2, FirstBeat
    <3>4. \A k \in Half : Written(k)' <=> Written(k)
      BY <1>1, <3>1 DEF Written
    <3>5. a_count = HW + 1 => \A k \in Half : Written(k)
      BY <1>1 DEF DInv, WriteBack
    <3>6. \A k \in Half : ~(k + 2 < 0)
      BY <1>2 DEF Half
    <3> QED
      BY <3>2, <3>3, <3>4, <3>5, <3>6 DEF WriteBack
  <2> QED
    BY <2>1, <2>2
<1>9. Loading'
  BY <1>1 DEF Loading
<1> QED
  BY <1>6, <1>7, <1>8, <1>9 DEF Data

LEMMA LoadPageData == ASSUME DInv, Clock, LoadPage, IInv', Timing' PROVE Data'
<1>1. /\ cState = "LOAD_PAGE" /\ cl' = cl /\ sdram' = sdram /\ replace_index' = replace_index
      /\ requestLine' = requestLine /\ cache_set' = cache_set /\ cState' \in {"LOAD_PAGE", "UPDATE_CL"}
  BY PageStep, SdramStill DEF LoadPage, DInv, Clock
<1>2. /\ IInv /\ TypeOK /\ HW \in Nat /\ HW >= 4 /\ MinusOne = 2 * HW - 1
      /\ burst \in Burst /\ burst.beat \in 0 .. HW + 1 /\ a_count \in 0 .. 2 * HW - 1
      /\ cache_set \in Set /\ replace_index \in Way
  BY MemCacheAssumption, Lines DEF DInv, IInv, TypeOK, MinusOne, Burst, Beat, Count
<1>3. \A w \in Way, s \in Set, k \in Half :
        ac'[w][s][k] = IF burst.st = "beats" /\ w = replace_index /\ s = cache_set /\ k = h_index
                       THEN sd_read_data ELSE ac[w][s][k]
  BY <1>2, FillStep
<1>4. ac' \in [Way -> [Set -> [Half -> HalfRam]]]
  BY DEF IInv, TypeOK, HalfRam
<1>5. \A w \in Way : (Filling(w) <=> w = replace_index) /\ (Filling(w)' <=> w = replace_index)
  BY <1>1 DEF Filling
<1>6. Copies'
  <2> SUFFICES ASSUME NEW w \in Way, NEW s \in Set, cl[w][s].tag # 0,
                      ~(w = replace_index /\ s = cache_set)
               PROVE  /\ ac'[w][s] \in [Half -> HalfVal]
                      /\ ~cl[w][s].dirty =>
                           \A k \in Half : ac'[w][s][k] = sdram[<<cl[w][s].tag, s>>][k]
    BY <1>1, <1>5 DEF Copies
  <2>1. \A k \in Half : ac'[w][s][k] = ac[w][s][k]
    BY <1>3
  <2>2. /\ ac[w][s] \in [Half -> HalfVal]
        /\ ~cl[w][s].dirty => \A k \in Half : ac[w][s][k] = sdram[<<cl[w][s].tag, s>>][k]
    BY <1>5 DEF DInv, Copies
  <2>3. ac'[w][s] \in [Half -> HalfRam]
    BY <1>4
  <2>4. ac'[w][s] = ac[w][s]
    BY <2>1, <2>2, <2>3
  <2> QED
    BY <2>2, <2>4
<1>7. SdramDefined' /\ WriteBack'
  BY <1>1 DEF SdramDefined, WriteBack, DInv
<1>8. Loading'
  <2>1. CASE burst.st = "beats"
    <3>1. /\ a_count = (IF burst.beat = 0 THEN MinusOne ELSE burst.beat - 1)
          /\ burst.beat <= HW /\ burst.line = requestLine
      BY <1>1, <2>1 DEF DInv, Timing
    <3>2. BurstBeat
      BY <1>2, <2>1, <3>1 DEF Clock, SdramClock, BurstClock, BurstLatch, BurstStart, BurstEnd,
                              BurstWait, BurstTerm
    <3>3. burst'.st = "beats" /\ burst'.beat = burst.beat + 1
      BY <1>2, <3>2 DEF BurstBeat, Burst
    <3>4. \A k \in Half : k + 1 <= burst.beat => Loaded(k)'
      <4> SUFFICES ASSUME NEW k \in Half, k + 1 <= burst.beat PROVE Loaded(k)'
        OBVIOUS
      <4>1. k \in Nat /\ burst.beat \in 1 .. HW /\ h_index = burst.beat - 1
        <5>1. k \in Nat /\ burst.beat \in 1 .. HW
          BY <1>2, <3>1 DEF Half
        <5>2. a_count = burst.beat - 1 /\ a_count \in 0 .. HW - 1
          BY <1>2, <3>1, <5>1
        <5> QED
          BY <1>2, <5>1, <5>2 DEF h_index
      <4>2. CASE k + 1 = burst.beat
        <5>1. k = h_index /\ burst.beat - 1 = k
          BY <4>1, <4>2
        <5>2. sd_read_data = sdram[requestLine][k]
          BY <3>1, <4>1, <5>1 DEF sd_read_data
        <5> QED
          BY <1>1, <1>2, <1>3, <2>1, <5>1, <5>2 DEF Loaded
      <4>3. CASE k + 1 # burst.beat
        <5>1. k + 1 < burst.beat /\ k # h_index
          BY <4>1, <4>3
        <5>2. Loaded(k)
          BY <1>1, <2>1, <5>1 DEF DInv, Loading
        <5> QED
          BY <1>1, <1>2, <1>3, <5>1, <5>2 DEF Loaded
      <4> QED
        BY <4>2, <4>3
    <3>5. \A k \in Half : k + 1 < burst'.beat => k + 1 <= burst.beat
      BY <1>2, <3>3 DEF Half
    <3>6. cState' = "UPDATE_CL" => \A k \in Half : k + 1 <= burst.beat
      <4>1. cState' = "UPDATE_CL" => burst'.beat = HW + 1
        BY DEF Timing
      <4> QED
        BY <1>2, <3>3, <4>1 DEF Half
    <3> QED
      BY <3>4, <3>5, <3>6 DEF Loading
  <2>2. CASE burst.st # "beats"
    <3>1. burst'.st = "beats" => burst'.beat = 0
      BY <1>1, <2>2, FirstBeat
    <3>2. cState' # "UPDATE_CL"
      BY <1>1, <1>2, <2>2 DEF LoadPage, PAGE_SIZE, DInv, Timing
    <3>3. \A k \in Half : ~(k + 1 < 0)
      BY <1>2 DEF Half
    <3> QED
      BY <3>1, <3>2, <3>3 DEF Loading
  <2> QED
    BY <2>1, <2>2
<1> QED
  BY <1>6, <1>7, <1>8 DEF Data

LEMMA InitDInv == Init => DInv
<1> SUFFICES ASSUME Init PROVE DInv
  OBVIOUS
<1>1. IInv
  BY InitIInv
<1>2. Timing
  BY DEF Init, Timing, NoBurst
<1>3. Copies
  BY DEF Init, Copies
<1>4. SdramDefined
  BY MemCacheAssumption DEF Init, SdramDefined
<1>5. WriteBack /\ Loading
  BY DEF Init, WriteBack, Loading
<1> QED
  BY <1>1, <1>2, <1>3, <1>4, <1>5 DEF DInv

LEMMA StepDInv == ASSUME InstalledMemory, DInv, [Clock]_vars PROVE DInv'
<1>1. IInv'
  BY StepIInv DEF DInv
<1>2. CASE Clock
  <2>1. Timing'
    BY <1>2, TimingStep
  <2>2. Data'
    BY <1>1, <1>2, <2>1, QuietStep, WriteHitData, UpdateClData, StorePageData, LoadPageData
       DEF Clock, Control
  <2> QED
    BY <1>1, <2>1, <2>2 DEF DInv, Data
<1>3. CASE UNCHANGED vars
  <2>1. Timing'
    BY <1>3 DEF vars, fsmVars, ramVars, DInv, Timing, victimLine, requestLine, cache_set
  <2>2. Copies' /\ SdramDefined'
    BY <1>3 DEF vars, fsmVars, ramVars, DInv, Copies, SdramDefined, Filling, cache_set
  <2>3. WriteBack' /\ Loading'
    BY <1>3 DEF vars, fsmVars, ramVars, DInv, WriteBack, Loading, Written, Loaded, victimLine,
                requestLine, cache_set, sd_write_data
  <2> QED
    BY <1>1, <2>1, <2>2, <2>3 DEF DInv
<1> QED
  BY <1>2, <1>3

LEMMA Contents == ASSUME InstalledMemory PROVE Spec => []DInv
<1>1. DInv /\ [Clock]_vars => DInv'
  BY StepDInv
<1> QED
  BY <1>1, InitDInv, PTL DEF Spec

--------------------------------------------------------------------------------
(* The memory that a reader sees. *)

LEMMA CacheAddrType ==
    ASSUME NEW a \in CacheAddr
    PROVE  /\ a.tag \in Tag /\ a.set \in Set /\ a.word \in Word /\ a.tag # 0
           /\ <<a.tag, a.set>> \in Tag \X Set
           /\ 2 * a.word \in Half /\ 2 * a.word + 1 \in Half
<1>1. PICK r \in Requests : a = r.addr
  BY DEF CacheAddr
<1>2. a.tag # 0
  BY <1>1, MemCacheAssumption DEF Requests, ReadReq, WriteReq
<1> QED
  BY <1>1, <1>2, RequestType, HalfIndex

LEMMA Resident ==
    \A a \in CacheAddr :
        <<a.tag, a.set>> \in residentLines <=> \E w \in Way : Holds(w, a.set, a.tag)
<1> SUFFICES ASSUME NEW a \in CacheAddr
             PROVE  <<a.tag, a.set>> \in residentLines <=> \E w \in Way : Holds(w, a.set, a.tag)
  OBVIOUS
<1>1. <<a.tag, a.set>> \in Tag \X Set /\ a.tag # 0
  BY CacheAddrType
<1> QED
  BY <1>1 DEF residentLines

LEMMA SeenInWay ==
    TagsUnique => \A a \in CacheAddr, w \in Way : Holds(w, a.set, a.tag) =>
        ramWord(a) = <<ac[w][a.set][2 * a.word], ac[w][a.set][2 * a.word + 1]>>
<1> SUFFICES ASSUME TagsUnique, NEW a \in CacheAddr, NEW w \in Way, Holds(w, a.set, a.tag)
             PROVE  ramWord(a) = <<ac[w][a.set][2 * a.word], ac[w][a.set][2 * a.word + 1]>>
  OBVIOUS
<1>0. a.set \in Set /\ a.tag # 0
  BY CacheAddrType
<1>1. \A v \in Way : Holds(v, a.set, a.tag) => v = w
  BY <1>0 DEF TagsUnique, Holds, Way
<1>2. w = CHOOSE v \in Way : Holds(v, a.set, a.tag)
  BY <1>1
<1> QED
  BY <1>2, Resident DEF ramWord, WordAt

LEMMA SeenInSdram ==
    \A a \in CacheAddr : (\A w \in Way : ~Holds(w, a.set, a.tag)) =>
        ramWord(a) = <<sdram[<<a.tag, a.set>>][2 * a.word], sdram[<<a.tag, a.set>>][2 * a.word + 1]>>
BY Resident DEF ramWord

\* The same after a clock.
LEMMA SeenNext ==
    /\ TagsUnique' => \A a \in CacheAddr, w \in Way : Holds(w, a.set, a.tag)' =>
         ramWord(a)' = <<ac'[w][a.set][2 * a.word], ac'[w][a.set][2 * a.word + 1]>>
    /\ \A a \in CacheAddr : (\A w \in Way : ~Holds(w, a.set, a.tag)') =>
         ramWord(a)' = <<sdram'[<<a.tag, a.set>>][2 * a.word], sdram'[<<a.tag, a.set>>][2 * a.word + 1]>>
<1>1. (TagsUnique => \A a \in CacheAddr, w \in Way : Holds(w, a.set, a.tag) =>
         ramWord(a) = <<ac[w][a.set][2 * a.word], ac[w][a.set][2 * a.word + 1]>>)'
  BY SeenInWay, PTL
<1>2. (\A a \in CacheAddr : (\A w \in Way : ~Holds(w, a.set, a.tag)) =>
         ramWord(a) = <<sdram[<<a.tag, a.set>>][2 * a.word], sdram[<<a.tag, a.set>>][2 * a.word + 1]>>)'
  BY SeenInSdram, PTL
<1> QED
  BY <1>1, <1>2

\* What is seen is a word, never an undefined output.
LEMMA SeenType ==
    ASSUME DInv, NEW a \in CacheAddr
    PROVE  ramWord(a) \in HalfVal \X HalfVal
<1>1. CASE \E w \in Way : Holds(w, a.set, a.tag)
  <2>1. PICK w \in Way : Holds(w, a.set, a.tag)
    BY <1>1
  <2>2. ac[w][a.set] \in [Half -> HalfVal]
    BY <2>1, CacheAddrType DEF DInv, Copies, Holds
  <2>3. ramWord(a) = <<ac[w][a.set][2 * a.word], ac[w][a.set][2 * a.word + 1]>>
    BY <2>1, SeenInWay DEF DInv, IInv
  <2>4. 2 * a.word \in Half /\ 2 * a.word + 1 \in Half
    BY CacheAddrType
  <2> QED
    BY <2>2, <2>3, <2>4
<1>2. CASE \A w \in Way : ~Holds(w, a.set, a.tag)
  <2>1. sdram[<<a.tag, a.set>>] \in [Half -> HalfVal]
    BY CacheAddrType DEF DInv, SdramDefined
  <2>2. 2 * a.word \in Half /\ 2 * a.word + 1 \in Half
    BY CacheAddrType
  <2> QED
    BY <1>2, <2>1, <2>2, SeenInSdram
<1> QED
  BY <1>1, <1>2

LEMMA SeenTypes == DInv => \A a \in CacheAddr : ramWord(a) \in HalfVal \X HalfVal
BY SeenType

LEMMA SeenTypeNext == DInv' => \A a \in CacheAddr : ramWord(a)' \in HalfVal \X HalfVal
<1>1. (DInv => \A a \in CacheAddr : ramWord(a) \in HalfVal \X HalfVal)'
  BY SeenTypes, PTL
<1> QED
  BY <1>1

\* A word is seen as before if it is seen in the same place and is the same there.
LEMMA SeenAsBefore ==
    ASSUME TagsUnique, TagsUnique', NEW a \in CacheAddr,
           \A w \in Way : Holds(w, a.set, a.tag)' <=> Holds(w, a.set, a.tag),
           \A w \in Way : Holds(w, a.set, a.tag) =>
               /\ ac'[w][a.set][2 * a.word] = ac[w][a.set][2 * a.word]
               /\ ac'[w][a.set][2 * a.word + 1] = ac[w][a.set][2 * a.word + 1],
           (\A w \in Way : ~Holds(w, a.set, a.tag)) =>
               \A k \in Half : sdram'[<<a.tag, a.set>>][k] = sdram[<<a.tag, a.set>>][k]
    PROVE  ramWord(a)' = ramWord(a)
<1>1. CASE \E w \in Way : Holds(w, a.set, a.tag)
  <2>1. PICK w \in Way : Holds(w, a.set, a.tag)
    BY <1>1
  <2>2. ramWord(a) = <<ac[w][a.set][2 * a.word], ac[w][a.set][2 * a.word + 1]>>
    BY <2>1, SeenInWay
  <2>3. Holds(w, a.set, a.tag)'
    BY <2>1
  <2>4. ramWord(a)' = <<ac'[w][a.set][2 * a.word], ac'[w][a.set][2 * a.word + 1]>>
    BY <2>3, SeenNext
  <2> QED
    BY <2>1, <2>2, <2>4
<1>2. CASE \A w \in Way : ~Holds(w, a.set, a.tag)
  <2>1. ramWord(a)' = <<sdram'[<<a.tag, a.set>>][2 * a.word], sdram'[<<a.tag, a.set>>][2 * a.word + 1]>>
    BY <1>2, SeenNext
  <2> QED
    BY <1>2, <2>1, SeenInSdram, CacheAddrType
<1> QED
  BY <1>1, <1>2

\* Most clocks take no line away and bring none.
LEMMA HoldsQuiet ==
    ASSUME IInv, Idle \/ ReadHit \/ Miss \/ Request \/ StorePage \/ LoadPage
    PROVE  \A w \in Way : \A s, t : Holds(w, s, t)' <=> Holds(w, s, t)
<1>1. cl' = cl /\ TypeOK
  BY DEF Idle, ReadHit, Miss, Request, StorePage, LoadPage, Lookup, IInv
<1>2. CASE LoadPage
  BY <1>1, <1>2, PageStep DEF LoadPage, Filling, Holds
<1>3. CASE ~LoadPage
  <2>1. \A w \in Way : ~Filling(w)
    BY <1>3 DEF Filling, Idle, ReadHit, Miss, Request, StorePage, data_valid
  <2>2. cState' \notin {"LOAD_PAGE", "UPDATE_CL"}
    BY <1>1, <1>3 DEF Idle, ReadHit, Miss, Request, StorePage, TypeOK
  <2>3. \A w \in Way : ~Filling(w)'
    BY <2>2 DEF Filling
  <2> QED
    BY <1>1, <2>1, <2>3 DEF Holds
<1> QED
  BY <1>2, <1>3

LEMMA SeenQuiet ==
    ASSUME DInv, IInv', Clock, Idle \/ ReadHit \/ Miss \/ Request \/ StorePage \/ LoadPage,
           NEW a \in CacheAddr
    PROVE  ramWord(a)' = ramWord(a)
<1>1. cl' = cl /\ TagsUnique /\ TagsUnique' /\ IInv /\ TypeOK
  BY DEF Idle, ReadHit, Miss, Request, StorePage, LoadPage, Lookup, DInv, IInv
<1>2. /\ a.set \in Set /\ <<a.tag, a.set>> \in Tag \X Set
      /\ 2 * a.word \in Half /\ 2 * a.word + 1 \in Half
  BY CacheAddrType
<1>4. \A w \in Way : Holds(w, a.set, a.tag)' <=> Holds(w, a.set, a.tag)
  BY <1>1, HoldsQuiet
<1>5. \A w \in Way, k \in Half : Holds(w, a.set, a.tag) => ac'[w][a.set][k] = ac[w][a.set][k]
  <2>1. CASE LoadPage
    <3>1. \A w \in Way, k \in Half : ~(w = replace_index /\ a.set = cache_set)
                                     => ac'[w][a.set][k] = ac[w][a.set][k]
      BY <1>1, <1>2, <2>1, FillStep
    <3> QED
      BY <2>1, <3>1 DEF Holds, Filling, LoadPage
  <2>2. CASE ~LoadPage
    BY <2>2 DEF Idle, ReadHit, Miss, Request, StorePage, WordPort, HalfRead
  <2> QED
    BY <2>1, <2>2
<1>6. (\A w \in Way : ~Holds(w, a.set, a.tag)) =>
        \A k \in Half : sdram'[<<a.tag, a.set>>][k] = sdram[<<a.tag, a.set>>][k]
  <2>1. cState = "STORE_PAGE" /\ <<a.tag, a.set>> = victimLine
          => replace_index \in Way /\ Holds(replace_index, a.set, a.tag)
    BY <1>1, Lines DEF victimLine, Holds, Filling
  <2> QED
    BY <1>2, <2>1, SdramStep DEF Clock
<1> QED
  BY <1>1, <1>2, <1>4, <1>5, <1>6, SeenAsBefore

\* When the fill begins, the line that gives way has been written back.
LEMMA SeenLoadPrep ==
    ASSUME DInv, IInv', Clock, LoadPrep, NEW a \in CacheAddr
    PROVE  ramWord(a)' = ramWord(a)
<1>1. /\ cl' = cl /\ ac' = ac /\ sdram' = sdram /\ TagsUnique /\ TagsUnique' /\ TypeOK
      /\ cState = "LOAD_PREP" /\ cState' = "LOAD_PAGE"
      /\ replace_index' = replace_index /\ cache_set' = cache_set
  BY SdramStill DEF LoadPrep, Lookup, WordPort, Clock, DInv, IInv, Held, cache_set
<1>2. /\ a.set \in Set /\ a.tag # 0 /\ 2 * a.word \in Half /\ 2 * a.word + 1 \in Half
  BY CacheAddrType
<1>3. \A w \in Way : /\ Holds(w, a.set, a.tag) <=> cl[w][a.set].tag = a.tag
                     /\ Holds(w, a.set, a.tag)' <=>
                          cl[w][a.set].tag = a.tag /\ ~(w = replace_index /\ a.set = cache_set)
  BY <1>1 DEF Holds, Filling
<1>4. CASE <<a.tag, a.set>> = victimLine
  <2>1. replace_index \in Way /\ cl[replace_index][a.set].tag = a.tag /\ a.set = cache_set
    BY <1>1, <1>4, Lines DEF victimLine
  <2>2. \A w \in Way : ~Holds(w, a.set, a.tag)'
    BY <1>1, <1>2, <1>3, <2>1 DEF TagsUnique, Way
  <2>3. \A k \in Half : sdram[victimLine][k] = ac[replace_index][a.set][k]
    BY <1>1, <1>2, <1>4, <2>1 DEF DInv, WriteBack, Written, victimLine
  <2>4. ramWord(a)' = <<sdram[victimLine][2 * a.word], sdram[victimLine][2 * a.word + 1]>>
    BY <1>1, <1>4, <2>2, SeenNext
  <2>5. ramWord(a) = <<ac[replace_index][a.set][2 * a.word], ac[replace_index][a.set][2 * a.word + 1]>>
    BY <1>1, <1>3, <2>1, SeenInWay
  <2> QED
    BY <1>2, <2>3, <2>4, <2>5
<1>5. CASE <<a.tag, a.set>> # victimLine
  <2>1. \A w \in Way : Holds(w, a.set, a.tag)' <=> Holds(w, a.set, a.tag)
    BY <1>3, <1>5 DEF victimLine
  <2> QED
    BY <1>1, <2>1, SeenAsBefore
<1> QED
  BY <1>4, <1>5

\* When it ends, the way holds the line as the SDRAM does.
LEMMA SeenUpdateCl ==
    ASSUME DInv, IInv', InstalledMemory, Clock, UpdateCl, NEW a \in CacheAddr
    PROVE  ramWord(a)' = ramWord(a)
<1>1. /\ ac' = ac /\ sdram' = sdram /\ TagsUnique /\ TagsUnique' /\ IInv /\ TypeOK
      /\ cState = "UPDATE_CL" /\ cState' = "REQUEST"
  BY SdramStill DEF UpdateCl, WordPort, Clock, DInv, IInv
<1>2. /\ a.set \in Set /\ a.tag # 0 /\ 2 * a.word \in Half /\ 2 * a.word + 1 \in Half
  BY CacheAddrType
<1>3. /\ cache_set \in Set /\ replace_index \in Way
      /\ \A w \in Way : cl[w][cache_set].tag # h.addr.tag
  BY <1>1, Lines DEF IInv, Missing, Refilling
<1>4. \A w \in Way, s \in Set :
        cl'[w][s].tag = IF s = cache_set /\ w = replace_index THEN h.addr.tag ELSE cl[w][s].tag
  BY <1>1, UpdateClTags
<1>5. \A w \in Way : /\ Holds(w, a.set, a.tag) <=>
                          cl[w][a.set].tag = a.tag /\ ~(w = replace_index /\ a.set = cache_set)
                     /\ Holds(w, a.set, a.tag)' <=> cl'[w][a.set].tag = a.tag
  BY <1>1 DEF Holds, Filling
<1>6. CASE <<a.tag, a.set>> = requestLine
  <2>1. a.tag = h.addr.tag /\ a.set = cache_set
    BY <1>6 DEF requestLine
  <2>2. \A w \in Way : ~Holds(w, a.set, a.tag)
    BY <1>3, <1>5, <2>1
  <2>3. PICK w \in Way : w = replace_index
    BY <1>3
  <2>4. Holds(w, a.set, a.tag)'
    BY <1>2, <1>4, <1>5, <2>1, <2>3
  <2>5. \A k \in Half : ac[w][a.set][k] = sdram[requestLine][k]
    BY <1>1, <2>1, <2>3 DEF DInv, Loading, Loaded
  <2>7. ramWord(a)' = <<ac[w][a.set][2 * a.word], ac[w][a.set][2 * a.word + 1]>>
    BY <1>1, <2>4, SeenNext
  <2>6. ramWord(a) = <<sdram[requestLine][2 * a.word], sdram[requestLine][2 * a.word + 1]>>
    BY <1>6, <2>2, SeenInSdram
  <2> QED
    BY <1>2, <2>5, <2>6, <2>7
<1>7. CASE <<a.tag, a.set>> # requestLine
  <2>1. \A w \in Way : Holds(w, a.set, a.tag)' <=> Holds(w, a.set, a.tag)
    BY <1>2, <1>4, <1>5, <1>7 DEF requestLine
  <2> QED
    BY <1>1, <2>1, SeenAsBefore
<1> QED
  BY <1>6, <1>7

\* Addresses are told apart by their fields.
LEMMA AddressFields ==
    ASSUME NEW a \in CacheAddr, NEW b \in Address, a.tag = b.tag, a.set = b.set, a.word = b.word
    PROVE  a = b
BY RequestType DEF CacheAddr, Address

\* A store changes the word at its address and no other.
LEMMA SeenWriteHit ==
    ASSUME DInv, IInv', Clock, WriteHit, NEW a \in CacheAddr
    PROVE  ramWord(a)' = IF a = h.addr THEN Merge(ramWord(a), h) ELSE ramWord(a)
<1>1. /\ sdram' = sdram /\ IInv /\ TypeOK /\ TagsUnique /\ TagsUnique' /\ h.rw
      /\ cState = "CACHE_CHECK" /\ cState' = "IDLE"
  BY SdramStill DEF WriteHit, data_valid, Clock, DInv, IInv
<1>2. PICK way \in Way : way = cache_hit_set
  BY DEF cache_hit_set, Way
<1>3. cl[way][cache_set].tag = h.addr.tag /\ cache_set \in Set
  <2>1. cache_hit(way)
    BY <1>2 DEF WriteHit, data_valid, Hit, cache_hit_set
  <2> QED
    BY <1>1, <2>1, Lines DEF cache_hit, IInv, LookupFresh, RowsUsed
<1>4. \A w \in Way, s \in Set : cl'[w][s].tag = cl[w][s].tag
  <2>1. \A w \in Way, s \in Set : cl[w][s] \in Row
    BY <1>1 DEF TypeOK
  <2>2. \A row \in Row : [row EXCEPT !.dirty = TRUE].tag = row.tag
    BY DEF Row
  <2> QED
    BY <1>1, <2>1, <2>2, WriteHitRows
<1>5. \A w \in Way, s \in Set, k \in Half :
        ac'[w][s][k] = IF w = way /\ s = cache_set /\ \E j \in h.be : k = 2 * h.addr.word + j - 1
                       THEN h.data[k - 2 * h.addr.word + 1] ELSE ac[w][s][k]
  BY <1>1, <1>2, StoreStep DEF WriteHit
<1>6. /\ a.set \in Set /\ a.tag # 0 /\ 2 * a.word \in Half /\ 2 * a.word + 1 \in Half
      /\ a.word \in Nat /\ h.addr.word \in Nat /\ h.be \subseteq {1, 2}
  <2>1. Word \subseteq Nat
    BY MemCacheAssumption DEF Word
  <2>2. h.addr.word \in Word /\ h.be \subseteq {1, 2}
    BY <1>1, RequestType DEF TypeOK
  <2> QED
    BY <2>1, <2>2, CacheAddrType
<1>7. \A w \in Way : /\ Holds(w, a.set, a.tag) <=> cl[w][a.set].tag = a.tag
                     /\ Holds(w, a.set, a.tag)' <=> cl[w][a.set].tag = a.tag
  BY <1>1, <1>4, <1>6 DEF Holds, Filling
<1>8. CASE a = h.addr
  <2>1. cl[way][a.set].tag = a.tag /\ a.set = cache_set
    BY <1>3, <1>8 DEF cache_set
  <2>2. ramWord(a) = <<ac[way][a.set][2 * a.word], ac[way][a.set][2 * a.word + 1]>>
    BY <1>1, <1>7, <2>1, SeenInWay
  <2>3. ramWord(a)' = <<ac'[way][a.set][2 * a.word], ac'[way][a.set][2 * a.word + 1]>>
    BY <1>1, <1>7, <2>1, SeenNext
  <2>4. ac'[way][a.set][2 * a.word] = IF 1 \in h.be THEN h.data[1] ELSE ac[way][a.set][2 * a.word]
    <3>1. (\E j \in h.be : 2 * a.word = 2 * h.addr.word + j - 1) <=> 1 \in h.be
      BY <1>6, <1>8
    <3>2. 2 * a.word - 2 * h.addr.word + 1 = 1
      BY <1>6, <1>8
    <3> QED
      BY <1>5, <1>6, <2>1, <3>1, <3>2
  <2>5. ac'[way][a.set][2 * a.word + 1] = IF 2 \in h.be THEN h.data[2]
                                                        ELSE ac[way][a.set][2 * a.word + 1]
    <3>1. (\E j \in h.be : 2 * a.word + 1 = 2 * h.addr.word + j - 1) <=> 2 \in h.be
      BY <1>6, <1>8
    <3>2. PICK k \in Half : k = 2 * a.word + 1
      BY <1>6
    <3>3. k - 2 * h.addr.word + 1 = 2
      BY <1>6, <1>8, <3>2
    <3>4. ac'[way][a.set][k] = IF \E j \in h.be : k = 2 * h.addr.word + j - 1
                               THEN h.data[k - 2 * h.addr.word + 1] ELSE ac[way][a.set][k]
      BY <1>5, <1>6, <2>1
    <3>5. h.data[k - 2 * h.addr.word + 1] = h.data[2]
      BY <3>3
    <3> QED
      BY <3>1, <3>2, <3>4, <3>5
  <2>6. Merge(ramWord(a), h) = <<IF 1 \in h.be THEN h.data[1] ELSE ac[way][a.set][2 * a.word],
                                 IF 2 \in h.be THEN h.data[2] ELSE ac[way][a.set][2 * a.word + 1]>>
    BY <2>2 DEF Merge
  <2> QED
    BY <1>8, <2>3, <2>4, <2>5, <2>6
<1>9. CASE a # h.addr
  <2>1. a.tag = h.addr.tag /\ a.set = cache_set => a.word # h.addr.word
    BY <1>1, <1>9, RequestType, AddressFields DEF cache_set, TypeOK
  <2>2. \A w \in Way : Holds(w, a.set, a.tag) =>
          /\ ac'[w][a.set][2 * a.word] = ac[w][a.set][2 * a.word]
          /\ ac'[w][a.set][2 * a.word + 1] = ac[w][a.set][2 * a.word + 1]
    <3> SUFFICES ASSUME NEW w \in Way, Holds(w, a.set, a.tag)
                 PROVE  /\ ac'[w][a.set][2 * a.word] = ac[w][a.set][2 * a.word]
                        /\ ac'[w][a.set][2 * a.word + 1] = ac[w][a.set][2 * a.word + 1]
      OBVIOUS
    <3>1. CASE w = way /\ a.set = cache_set
      <4>1. a.word # h.addr.word
        BY <1>3, <1>7, <2>1, <3>1
      <4>2. \A j \in {1, 2} : /\ 2 * a.word # 2 * h.addr.word + j - 1
                              /\ 2 * a.word + 1 # 2 * h.addr.word + j - 1
        BY <1>6, <4>1
      <4> QED
        BY <1>5, <1>6, <4>2
    <3>2. CASE ~(w = way /\ a.set = cache_set)
      BY <1>5, <1>6, <3>2
    <3> QED
      BY <3>1, <3>2
  <2>3. ramWord(a)' = ramWord(a)
    BY <1>1, <1>7, <2>2, SeenAsBefore
  <2> QED
    BY <1>9, <2>3
<1> QED
  BY <1>8, <1>9

LEMMA SeenStep ==
    ASSUME InstalledMemory, DInv, IInv', Clock
    PROVE  /\ cacheRam' = IF data_valid /\ h.rw
                          THEN [cacheRam EXCEPT ![h.addr] = Merge(@, h)] ELSE cacheRam
           /\ data_valid /\ h.rw <=> WriteHit
<1>1. WriteHit => data_valid /\ h.rw
  BY DEF WriteHit
<1>2. ~WriteHit => ~(data_valid /\ h.rw)
  <2>1. Hit \in BOOLEAN /\ (data_valid <=> cState = "CACHE_CHECK" /\ Hit)
    BY DEF data_valid, Hit
  <2> QED
    BY <2>1 DEF Clock, Control, Idle, ReadHit, Miss, StorePage, LoadPrep, LoadPage, UpdateCl, Request
<1>3. cacheRam' = [a \in CacheAddr |-> ramWord(a)']
  BY DEF cacheRam
<1>4. CASE WriteHit
  <2>1. \A a \in CacheAddr : ramWord(a)' = IF a = h.addr THEN Merge(ramWord(a), h) ELSE ramWord(a)
    BY <1>4, SeenWriteHit
  <2> QED
    BY <1>1, <1>3, <1>4, <2>1 DEF cacheRam
<1>5. CASE ~WriteHit
  <2>1. \A a \in CacheAddr : ramWord(a)' = ramWord(a)
    BY <1>5, SeenQuiet, SeenLoadPrep, SeenUpdateCl DEF Clock, Control
  <2> QED
    BY <1>2, <1>3, <1>5, <2>1 DEF cacheRam
<1> QED
  BY <1>1, <1>2, <1>4, <1>5

\* No fill, write-back, eviction or hit moves, loses or corrupts a word: the memory
\* changes only by an answered store, at its address and in its bytes (memcahce.v 171-299).
THEOREM StoresKept == ASSUME InstalledMemory PROVE Spec => StoresAreKept
<1> DEFINE Step == cacheRam' = IF data_valid /\ h.rw
                               THEN [cacheRam EXCEPT ![h.addr] = Merge(@, h)] ELSE cacheRam
<1>1. DInv /\ DInv' /\ [Clock]_vars => [Step]_vars
  BY SeenStep DEF DInv
<1> QED
  BY <1>1, Contents, PTL DEF Spec, StoresAreKept

--------------------------------------------------------------------------------
(* The cache is the port that the arbiter was verified against. *)

LEMMA ResidentStep ==
    ASSUME InstalledMemory, IInv, Clock
    PROVE  /\ cState \in {"IDLE", "CACHE_CHECK"} => residentLines' = residentLines
           /\ residentLines' \in SUBSET (residentLines \cup {requestLine})
<1>1. TypeOK
  BY DEF IInv
<1>2. CASE Idle \/ ReadHit \/ Miss \/ Request \/ StorePage \/ LoadPage
  BY <1>2, HoldsQuiet DEF residentLines
<1>3. CASE WriteHit
  <2>1. \A w \in Way, s \in Set : cl'[w][s].tag = cl[w][s].tag
    <3>1. \A w \in Way, s \in Set : cl[w][s] \in Row
      BY <1>1 DEF TypeOK
    <3>2. \A row \in Row : [row EXCEPT !.dirty = TRUE].tag = row.tag
      BY DEF Row
    <3> QED
      BY <1>3, <3>1, <3>2, WriteHitRows
  <2>2. \A w \in Way : ~Filling(w) /\ ~Filling(w)'
    BY <1>3 DEF WriteHit, data_valid, Filling
  <2>3. \A l \in Tag \X Set, w \in Way : Holds(w, l[2], l[1])' <=> Holds(w, l[2], l[1])
    BY <2>1, <2>2 DEF Holds
  <2> QED
    BY <2>3 DEF residentLines
<1>4. CASE LoadPrep
  <2>1. cState = "LOAD_PREP" /\ cl' = cl
    BY <1>4 DEF LoadPrep, Lookup
  <2>2. \A l \in Tag \X Set, w \in Way : Holds(w, l[2], l[1])' => Holds(w, l[2], l[1])
    BY <2>1 DEF Holds, Filling
  <2> QED
    BY <2>1, <2>2 DEF residentLines
<1>5. CASE UpdateCl
  <2>1. cState = "UPDATE_CL"
    BY <1>5 DEF UpdateCl
  <2>2. \A l \in Tag \X Set, w \in Way :
          Holds(w, l[2], l[1])' => Holds(w, l[2], l[1]) \/ l = requestLine
    <3> SUFFICES ASSUME NEW l \in Tag \X Set, NEW w \in Way, Holds(w, l[2], l[1])', l # requestLine
                 PROVE  Holds(w, l[2], l[1])
      OBVIOUS
    <3>1. l[2] \in Set /\ l = <<l[1], l[2]>> /\ cl'[w][l[2]].tag = l[1]
      BY DEF Holds
    <3>2. ~(l[2] = cache_set /\ w = replace_index)
      BY <1>5, <3>1, UpdateClTags DEF requestLine
    <3> QED
      BY <1>5, <3>1, <3>2, UpdateClTags DEF Holds, Filling
  <2> QED
    BY <2>1, <2>2 DEF residentLines
<1> QED
  BY <1>2, <1>3, <1>4, <1>5 DEF Clock, Control

\* Where the cache looks a request up, a hit is what the port calls one.
LEMMA PortHit ==
    ASSUME IInv, cState = "CACHE_CHECK"
    PROVE  Hit <=> requestLine \in residentLines
<1>1. TypeOK /\ requestLine \in Tag \X Set /\ requestLine[1] # 0
  BY Lines DEF IInv, requestLine
<1>2. \A w \in Way : cache_hit(w) <=> cl[w][cache_set].tag = h.addr.tag
  BY DEF cache_hit, IInv, LookupFresh, RowsUsed
<1>3. \A w \in Way : Holds(w, cache_set, h.addr.tag) <=> cl[w][cache_set].tag = h.addr.tag
  BY DEF Holds, Filling
<1>4. requestLine \in residentLines <=> \E w \in Way : Holds(w, cache_set, h.addr.tag)
  BY <1>1 DEF residentLines, requestLine
<1> QED
  BY <1>2, <1>3, <1>4 DEF Hit, Way

\* In CACHE_CHECK the data RAMs put out the words at the request's address.
OutFresh ==
    cState = "CACHE_CHECK" => \A w \in Way : ac_q[w] = WordAt(w, h.addr.set, h.addr.word)

LEMMA OutFreshStep == ASSUME IInv, OutFresh, [Clock]_vars PROVE OutFresh'
<1>1. CASE Idle \/ ReadHit \/ Request
  <2>1. ac' = ac /\ ac_q' = [w \in Way |-> WordAt(w, h'.addr.set, h'.addr.word)]
    BY <1>1 DEF Idle, ReadHit, Request, WordPort, Held
  <2> QED
    BY <2>1 DEF OutFresh, WordAt
<1>2. CASE WriteHit \/ Miss \/ StorePage \/ LoadPrep \/ LoadPage \/ UpdateCl
  <2>1. cState' # "CACHE_CHECK"
    BY <1>2 DEF WriteHit, Miss, StorePage, LoadPrep, LoadPage, UpdateCl
  <2> QED
    BY <2>1 DEF OutFresh
<1>3. CASE UNCHANGED vars
  BY <1>3 DEF vars, fsmVars, ramVars, OutFresh, WordAt
<1> QED
  BY <1>1, <1>2, <1>3 DEF Clock, Control

\* The two facts a clock of the port rests on.
PInv == DInv /\ OutFresh

LEMMA Outputs == ASSUME InstalledMemory PROVE Spec => []PInv
<1>1. Init => OutFresh
  BY DEF Init, OutFresh
<1>2. DInv /\ OutFresh /\ [Clock]_vars => OutFresh'
  BY OutFreshStep DEF DInv
<1> QED
  BY <1>1, <1>2, Contents, PTL DEF Spec, PInv

\* A read is answered with the word the memory holds at its address.
LEMMA RightWord ==
    ASSUME PInv, data_valid
    PROVE  read_data = cacheRam[h.addr]
<1>1. /\ IInv /\ TypeOK /\ TagsUnique /\ h.addr \in CacheAddr
      /\ cState = "CACHE_CHECK" /\ Hit
  BY DEF PInv, DInv, IInv, TypeOK, CacheAddr, data_valid
<1>2. \A w \in Way : cache_hit(w) <=> cl[w][cache_set].tag = h.addr.tag
  BY <1>1 DEF cache_hit, IInv, LookupFresh, RowsUsed
<1>3. cache_hit_set \in Way /\ cache_hit(cache_hit_set)
  BY <1>1 DEF cache_hit_set, Hit, Way
<1> DEFINE way == cache_hit_set
<1>4. Holds(way, h.addr.set, h.addr.tag)
  BY <1>1, <1>2, <1>3 DEF Holds, Filling, cache_set
<1>5. ramWord(h.addr) = WordAt(way, h.addr.set, h.addr.word)
  BY <1>1, <1>3, <1>4, SeenInWay DEF WordAt
<1>6. ac_q[way] = WordAt(way, h.addr.set, h.addr.word)
  BY <1>1, <1>3 DEF PInv, OutFresh
<1> QED
  BY <1>1, <1>5, <1>6 DEF read_data, cacheRam

\* The request under check, as the port holds it, and the data output.
portQ == IF cState = "IDLE" THEN Undef
         ELSE [addr |-> h.addr, rw |-> h.rw, data |-> Payload(h)]
portOut == IF data_valid /\ ~h.rw THEN read_data ELSE UndefWord

LEMMA PortOut ==
    PInv => portOut = IF (cState = "CACHE_CHECK" /\ requestLine \in residentLines) /\ ~h.rw
                      THEN cacheRam[h.addr] ELSE UndefWord
<1> SUFFICES ASSUME PInv
             PROVE  portOut = IF (cState = "CACHE_CHECK" /\ requestLine \in residentLines) /\ ~h.rw
                              THEN cacheRam[h.addr] ELSE UndefWord
  OBVIOUS
<1>1. data_valid <=> cState = "CACHE_CHECK" /\ requestLine \in residentLines
  BY PortHit DEF PInv, DInv, data_valid
<1> QED
  BY <1>1, RightWord DEF portOut

\* What the port's output and request are, in the port's own terms.
LEMMA PortOutput ==
    PInv => /\ Port!Output = portOut
            /\ cState # "IDLE" => portQ.addr = h.addr /\ portQ.rw = h.rw
<1> SUFFICES ASSUME PInv
             PROVE  /\ Port!Output = portOut
                    /\ cState # "IDLE" => portQ.addr = h.addr /\ portQ.rw = h.rw
  OBVIOUS
<1>1. h.addr \in CacheAddr
  BY DEF PInv, DInv, IInv, TypeOK, CacheAddr
<1>2. cState # "IDLE" => portQ.addr = h.addr /\ portQ.rw = h.rw
  BY DEF portQ
<1>3. Port!DataValid <=> cState = "CACHE_CHECK" /\ requestLine \in residentLines
  BY <1>1 DEF Port!DataValid, Port!Hit, requestLine, cache_set
<1>4. Port!Output = IF (cState = "CACHE_CHECK" /\ requestLine \in residentLines) /\ ~h.rw
                    THEN cacheRam[h.addr] ELSE UndefWord
  BY <1>3 DEF Port!Output
<1> QED
  BY <1>2, <1>4, PortOut

LEMMA PortOutputNext == PInv' => (Port!Output)' = portOut'
<1>1. (PInv => /\ Port!Output = portOut
               /\ cState # "IDLE" => portQ.addr = h.addr /\ portQ.rw = h.rw)'
  BY PortOutput, PTL
<1> QED
  BY <1>1

\* A clock of the port, by the inputs that explain it.
LEMMA PortClock ==
    ASSUME NEW req \in BOOLEAN, NEW rw \in BOOLEAN, NEW r \in Requests,
           Port!Legal(req, rw, r.addr, Payload(r)), Port!CacheClock(req, rw, r.addr, Payload(r))
    PROVE  Port!CacheNext
<1>1. r.addr \in CacheAddr /\ Payload(r) \in {Payload(x) : x \in Requests}
  BY DEF CacheAddr
<1> QED
  BY <1>1 DEF Port!CacheNext

LEMMA PortStep == ASSUME InstalledMemory, PInv, PInv', Clock PROVE Port!CacheNext
<1> DEFINE at == [a \in CacheAddr |-> <<a.tag, a.set>>]
<1>1. /\ IInv /\ TypeOK /\ h \in Requests /\ h' \in Requests
      /\ h.addr \in CacheAddr /\ h'.addr \in CacheAddr
      /\ h.rw \in BOOLEAN /\ h'.rw \in BOOLEAN
      /\ at[h.addr] = requestLine /\ DInv /\ DInv'
  <2>1. h \in Requests /\ h' \in Requests
    BY DEF PInv, DInv, IInv, TypeOK
  <2>2. ASSUME NEW r \in Requests PROVE r.rw \in BOOLEAN
    <3>1. (\E a \in Reads : r = ReadReq(a)) \/ (\E w \in Writes : r = WriteReq(w))
      BY DEF Requests
    <3>2. r.rw = FALSE \/ r.rw = TRUE
      BY <3>1 DEF ReadReq, WriteReq
    <3> QED
      BY <3>2
  <2> QED
    BY <2>1, <2>2 DEF PInv, DInv, IInv, TypeOK, CacheAddr, requestLine, cache_set
<1>2. cState = "CACHE_CHECK" => (Port!Hit <=> Hit)
  BY <1>1, PortHit DEF Port!Hit
<1>8. portOut' = (Port!Output)'
  BY PortOutputNext
<1>3. CASE Idle
  <2>1. cState = "IDLE" /\ residentLines' = residentLines /\ cacheRam' = cacheRam
    BY <1>1, <1>3, SeenStep, ResidentStep DEF Idle, data_valid, DInv
  <2>2. CASE h' \in Requests /\ cState' = "CACHE_CHECK"
    <3>1. Port!Legal(TRUE, h'.rw, h'.addr, Payload(h'))
      BY <2>1 DEF Port!Legal, Port!Unanswered, Port!DataValid
    <3>2. Port!CacheClock(TRUE, h'.rw, h'.addr, Payload(h'))
      BY <2>1, <2>2, <1>8 DEF Port!CacheClock, Port!Accept, Port!Presented, Payload, portOut
    <3> QED
      BY <1>1, <3>1, <3>2, PortClock
  <2>3. CASE Held /\ cState' = cState
    <3>1. Port!Legal(FALSE, FALSE, h.addr, Payload(h))
      BY <2>1 DEF Port!Legal, Port!Unanswered, Port!DataValid
    <3>2. Port!CacheClock(FALSE, FALSE, h.addr, Payload(h))
      BY <2>1, <2>3, <1>8 DEF Port!CacheClock, Port!Accept, portOut
    <3> QED
      BY <1>1, <3>1, <3>2, PortClock
  <2> QED
    BY <1>3, <2>2, <2>3 DEF Idle
<1>4. CASE ReadHit
  <2>1. /\ cState = "CACHE_CHECK" /\ Hit /\ ~h.rw
        /\ residentLines' = residentLines /\ cacheRam' = cacheRam
    BY <1>1, <1>4, SeenStep, ResidentStep DEF ReadHit, data_valid, DInv
  <2>2. CASE h' \in Requests /\ ~h'.rw /\ cState' = "CACHE_CHECK"
    <3>1. Port!Legal(TRUE, FALSE, h'.addr, Payload(h'))
      BY <1>2, <2>1 DEF Port!Legal, Port!Unanswered, Port!DataValid
    <3>2. h'.rw = FALSE
      BY <1>1, <2>2
    <3>3. Port!CacheClock(TRUE, FALSE, h'.addr, Payload(h'))
      BY <1>2, <2>1, <2>2, <3>2, <1>8
         DEF Port!CacheClock, Port!CheckHit, Port!DataValid, Port!Presented, Payload, portOut
    <3> QED
      BY <1>1, <3>1, <3>3, PortClock
  <2>3. CASE Held /\ cState' = "IDLE"
    <3>1. Port!Legal(FALSE, FALSE, h.addr, Payload(h))
      BY <1>2, <2>1 DEF Port!Legal, Port!Unanswered, Port!DataValid
    <3>2. Port!CacheClock(FALSE, FALSE, h.addr, Payload(h))
      BY <1>2, <2>1, <2>3, <1>8 DEF Port!CacheClock, Port!CheckHit, Port!DataValid, portOut
    <3> QED
      BY <1>1, <3>1, <3>2, PortClock
  <2> QED
    BY <1>4, <2>2, <2>3 DEF ReadHit
<1>5. CASE WriteHit
  <2>1. /\ cState = "CACHE_CHECK" /\ Hit /\ cState' = "IDLE" /\ h' = h /\ h.rw
        /\ residentLines' = residentLines
        /\ cacheRam' = [cacheRam EXCEPT ![h.addr] = Merge(@, h)]
    BY <1>1, <1>5, SeenStep, ResidentStep DEF WriteHit, data_valid, DInv, Held
  <2>2. cacheRam' = [cacheRam EXCEPT ![h.addr] = Merge(@, Payload(h))]
    BY <2>1 DEF Merge, Payload
  <2>3. Port!Legal(TRUE, TRUE, h.addr, Payload(h))
    BY <1>1, <2>1 DEF Port!Legal, Port!Unanswered, Port!DataValid, Port!Presented, Payload
  <2>4. Port!CacheClock(TRUE, TRUE, h.addr, Payload(h))
    BY <1>2, <2>1, <2>2, <1>8 DEF Port!CacheClock, Port!CheckHit, Port!DataValid, portOut
  <2> QED
    BY <1>1, <2>3, <2>4, PortClock
<1>6. CASE Miss
  <2>1. /\ cState = "CACHE_CHECK" /\ ~Hit /\ cState' \in {"STORE_PAGE", "LOAD_PREP"} /\ h' = h
        /\ residentLines' = residentLines /\ cacheRam' = cacheRam
    BY <1>1, <1>6, SeenStep, ResidentStep DEF Miss, data_valid, DInv, Held
  <2>2. Port!Legal(TRUE, h.rw, h.addr, Payload(h))
    BY <1>2, <2>1 DEF Port!Legal, Port!Unanswered, Port!DataValid, Port!Presented, Payload
  <2>3. Port!CacheClock(TRUE, h.rw, h.addr, Payload(h))
    BY <1>2, <2>1, <1>8 DEF Port!CacheClock, Port!CheckMiss, Port!Presented, Payload, portOut
  <2> QED
    BY <1>1, <2>2, <2>3, PortClock
<1>7. CASE StorePage \/ LoadPrep \/ LoadPage \/ UpdateCl \/ Request
  <2>1. /\ cState \notin {"IDLE", "CACHE_CHECK"} /\ h' = h
        /\ cState' # "IDLE" /\ (cState' = "CACHE_CHECK" => Request)
    BY <1>1, <1>7 DEF StorePage, LoadPrep, LoadPage, UpdateCl, Request, Held
  <2>2. cacheRam' = cacheRam
    BY <1>1, <2>1, SeenStep DEF DInv, data_valid
  <2>3. residentLines' \in SUBSET (residentLines \cup {at[h.addr]})
    BY <1>1, ResidentStep
  <2>4. cState' = "CACHE_CHECK" => at[h.addr] \in residentLines'
    <3> SUFFICES ASSUME Request PROVE requestLine \in residentLines'
      BY <1>1, <2>1
    <3>1. PICK w \in Way : cl[w][cache_set].tag = h.addr.tag
      BY <1>1 DEF Request, IInv, RefillHits
    <3>2. cl' = cl /\ cState' = "CACHE_CHECK"
      BY DEF Request, Lookup
    <3>3. requestLine \in Tag \X Set /\ h.addr.tag # 0
      BY <1>1, Lines
    <3>4. Holds(w, cache_set, h.addr.tag)'
      BY <2>1, <3>1, <3>2 DEF Holds, Filling, cache_set
    <3> QED
      BY <2>1, <3>3, <3>4 DEF residentLines, requestLine, cache_set
  <2>5. Port!Legal(TRUE, h.rw, h.addr, Payload(h))
    BY <2>1 DEF Port!Legal, Port!Unanswered, Port!DataValid, Port!Presented, Payload
  <2>6. Port!CacheClock(TRUE, h.rw, h.addr, Payload(h))
    <3>1. Port!Fill
      BY <2>1, <2>2, <2>3, <2>4 DEF Port!Fill
    <3> QED
      BY <2>1, <3>1, <1>8 DEF Port!CacheClock, Port!Presented, Payload, portOut
  <2> QED
    BY <1>1, <2>5, <2>6, PortClock
<1> QED
  BY <1>3, <1>4, <1>5, <1>6, <1>7 DEF Clock, Control

LEMMA PortInit == ASSUME Init, DInv PROVE Port!CacheInit
<1>1. h.addr \in CacheAddr /\ cState = "IDLE"
  BY DEF Init, CacheAddr
<1>2. residentLines = {}
  <2>1. \A l \in Tag \X Set, w \in Way : l[1] # 0 => ~Holds(w, l[2], l[1])
    BY DEF Init, Holds
  <2> QED
    BY <2>1 DEF residentLines
<1>3. cacheRam \in [CacheAddr -> HalfVal \X HalfVal]
  BY SeenType DEF cacheRam
<1>4. ~data_valid
  BY <1>1 DEF data_valid
<1> QED
  BY <1>1, <1>2, <1>3, <1>4 DEF Port!CacheInit

\* The cache, with its ways, its write-backs and its fills, is the memory with a
\* port that module Mmu was verified against (mmu.v 139-219 over memcahce.v): it
\* answers a read with the word the last stores to its address left there.
THEOREM ImplementsPort == ASSUME InstalledMemory PROVE Spec => PortSpec
<1>1. Init /\ DInv => Port!CacheInit
  BY PortInit
<1>2. PInv /\ PInv' /\ [Clock]_vars => [Port!CacheNext]_(Port!portVars)
  <2> SUFFICES ASSUME PInv, PInv', [Clock]_vars PROVE [Port!CacheNext]_(Port!portVars)
    OBVIOUS
  <2>1. CASE Clock
    BY <2>1, PortStep
  <2>2. CASE UNCHANGED vars
    <3>1. residentLines' = residentLines /\ cacheRam' = cacheRam
      BY <2>2 DEF vars, fsmVars, ramVars, residentLines, cacheRam, ramWord, Holds, Filling, WordAt,
                  cache_set
    <3>2. portOut' = portOut /\ portQ' = portQ
      BY <2>2 DEF vars, fsmVars, ramVars, portOut, portQ, data_valid, read_data, cache_hit_set,
                  cache_hit, Hit, Payload
    <3> QED
      BY <2>2, <3>1, <3>2 DEF Port!portVars, vars, fsmVars, portOut, portQ
  <2> QED
    BY <2>1, <2>2
<1> QED
  BY <1>1, <1>2, Contents, Outputs, PTL DEF Spec, PortSpec, Port!CacheSpec
================================================================================
