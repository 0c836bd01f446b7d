------------------------------ MODULE YmodemProofs -----------------------------
(***************************************************************************)
(* The receiver of Ymodem, for regions, files and lines of any size: nothing *)
(* is written behind a load region, and a file of fewer blocks than there    *)
(* are block numbers arrives in order, so that Ymodem implements Transfer.   *)
(* As long as no answer is lost or overtaken by a timer the two ends agree,  *)
(* however many blocks the file has.                                         *)
(***************************************************************************)
EXTENDS Ymodem, SequenceTheorems, TLAPS

Limit(r) == IF r = PROG THEN ProgMax ELSE DataMax

\* Every block of every file has a number of its own, other than the header's.
Short == \A any \in Files : Blocks(any) + 1 < W

--------------------------------------------------------------------------------
(* The line. *)

Fine == {f \in Frame : IF f.kind = "data" THEN f.n \in 1 .. Blocks(file) ELSE f.n = 0}

Line ==
    /\ file \in Files
    /\ up \in Seq(Fine)
    /\ st = "data" => n \in 1 .. Blocks(file)

\* What the steps make of the line: each leaves it a line of fine frames.
LEMMA Lines ==
    ASSUME up \in Seq(Fine)
    PROVE  /\ \A f \in Fine : Append(up, f) \in Seq(Fine)
           /\ \A quiet \in 1 .. Len(up) : SubSeq(up, quiet + 1, Len(up)) \in Seq(Fine)
           /\ up # <<>> =>
                /\ Head(up) \in Fine
                /\ Tail(up) \in Seq(Fine)
                /\ \A hurt \in Hurt :
                      /\ [Head(up) EXCEPT !.hurt = hurt] \in Fine
                      /\ <<[Head(up) EXCEPT !.hurt = hurt]>> \o Tail(up) \in Seq(Fine)
                      /\ [up EXCEPT ![1].hurt = hurt] \in Seq(Fine)
<1>1. \A f \in Fine : Append(up, f) \in Seq(Fine)
  BY AppendProperties
<1>2. ASSUME NEW quiet \in 1 .. Len(up)
      PROVE  SubSeq(up, quiet + 1, Len(up)) \in Seq(Fine)
  <2>1. Len(up) \in Nat
    OBVIOUS
  <2> QED
    BY <2>1, SubSeqProperties
<1>3. ASSUME up # <<>>
      PROVE  Head(up) \in Fine /\ Tail(up) \in Seq(Fine)
  BY <1>3, HeadTailProperties
<1>4. ASSUME up # <<>>, NEW hurt \in Hurt
      PROVE  /\ [Head(up) EXCEPT !.hurt = hurt] \in Fine
             /\ <<[Head(up) EXCEPT !.hurt = hurt]>> \o Tail(up) \in Seq(Fine)
             /\ [up EXCEPT ![1].hurt = hurt] \in Seq(Fine)
  <2>1. [Head(up) EXCEPT !.hurt = hurt] \in Fine
    BY <1>3, <1>4 DEF Fine, Frame
  <2>2. <<[Head(up) EXCEPT !.hurt = hurt]>> \in Seq(Fine)
    BY <2>1
  <2>3. <<[Head(up) EXCEPT !.hurt = hurt]>> \o Tail(up) \in Seq(Fine)
    BY <2>2, <1>3, <1>4, ConcatProperties
  <2>4. 1 \in 1 .. Len(up) /\ up[1] = Head(up)
    BY <1>4
  <2>5. [up EXCEPT ![1] = [Head(up) EXCEPT !.hurt = hurt]] \in Seq(Fine)
    BY <2>1, <2>4, ExceptSeq
  <2>6. [up EXCEPT ![1].hurt = hurt] = [up EXCEPT ![1] = [Head(up) EXCEPT !.hurt = hurt]]
    BY <2>4
  <2> QED
    BY <2>1, <2>3, <2>5, <2>6
<1> QED
  BY <1>1, <1>2, <1>3, <1>4

--------------------------------------------------------------------------------
(* Memory. *)

\* A memory in which nothing lies behind the load regions.
Kept(m) ==
    /\ m \in [Region -> [Unit -> Nat]]
    /\ \A u \in Unit : u >= ProgMax => m[PROG][u] = 0
    /\ \A u \in Unit : u >= DataMax => m[DATA][u] = 0

Place ==
    /\ dest \in Region /\ max = Limit(dest)
    /\ pos \in Nat /\ pos <= max
    /\ Kept(mem)

\* The first k units of a region are those of the file.
InOrder(m, r, k) == \A u \in 0 .. k - 1 : m[r][u] = u + 1

LEMMA Blocklength ==
    ASSUME file \in Files, NEW f \in Fine
    PROVE  /\ len(f) \in 1 .. Big
           /\ \A i \in Nat : Content(f, i) \in Nat
           /\ f.kind = "data" => /\ file.cut[f.n] \in Nat
                                 /\ file.cut[f.n + 1] = file.cut[f.n] + len(f)
<1>1. IsFile(file) /\ Big \in Nat \ {0}
  BY YmodemAssumption
<1>2. CASE f.kind = "data"
  <2>1. f.n \in 1 .. Blocks(file) /\ Len(file.cut) \in Nat
    BY <1>1, <1>2 DEF Fine, IsFile
  <2>2. f.n \in 1 .. Len(file.cut) /\ f.n + 1 \in 1 .. Len(file.cut)
    BY <2>1 DEF Blocks
  <2>3. file.cut[f.n] \in Nat /\ file.cut[f.n + 1] \in Nat
    BY <1>1, <2>2 DEF IsFile
  <2>4. file.cut[f.n + 1] - file.cut[f.n] \in {1, Big}
    BY <1>1, <2>1 DEF IsFile
  <2> QED
    BY <1>1, <1>2, <2>3, <2>4 DEF len, Content
<1>3. CASE f.kind # "data"
  BY <1>1, <1>3 DEF len, Content
<1> QED
  BY <1>2, <1>3

\* A change below the limit of one region keeps the rest.
LEMMA Outside ==
    ASSUME NEW m, NEW m2, NEW r \in Region, Kept(m), m2 \in [Region -> [Unit -> Nat]],
           \A u \in Unit : u >= Limit(r) => m2[r][u] = m[r][u],
           \A s \in Region : s # r => m2[s] = m[s]
    PROVE  Kept(m2)
<1>1. CASE r = PROG
  <2>1. m2[DATA] = m[DATA] /\ \A u \in Unit : u >= ProgMax => m2[PROG][u] = m[PROG][u]
    BY <1>1 DEF Region, PROG, DATA, Limit
  <2> QED
    BY <2>1 DEF Kept
<1>2. CASE r = DATA
  <2>1. m2[PROG] = m[PROG] /\ \A u \in Unit : u >= DataMax => m2[DATA][u] = m[DATA][u]
    BY <1>2 DEF Region, PROG, DATA, Limit
  <2> QED
    BY <2>1 DEF Kept
<1> QED
  BY <1>1, <1>2 DEF Region

\* What is stored while a block is received stays inside the region and leaves what
\* has been received alone.
LEMMA Landing ==
    ASSUME file \in Files, Place, NEW f \in Fine
    PROVE  /\ Kept(Landed(f))
           /\ \A m \in Garbled(f) : Kept(m) /\ (InOrder(mem, dest, pos) => InOrder(m, dest, pos))
           /\ InOrder(mem, dest, pos) => InOrder(Landed(f), dest, pos)
           /\ fits(f) => \A u \in At(f) : Landed(f)[dest][u] = Content(f, u - pos)
<1>1. /\ len(f) \in 1 .. Big /\ len(f) \in Nat
      /\ \A i \in Nat : Content(f, i) \in Nat
  BY Blocklength, YmodemAssumption
<1>2. /\ dest \in Region /\ max = Limit(dest) /\ pos \in Nat /\ pos <= max
      /\ mem \in [Region -> [Unit -> Nat]]
      /\ max \in Nat /\ Top \in Nat /\ max < Top
  BY YmodemAssumption DEF Place, Kept, Limit
<1>3. CASE ~fits(f)
  <2>1. Landed(f) = mem /\ Garbled(f) = {mem}
    BY <1>3 DEF Landed, Garbled
  <2> QED
    BY <1>3, <2>1 DEF Place
<1>4. CASE fits(f)
  <2>1. ASSUME NEW u \in At(f)
        PROVE  u \in Unit /\ u - pos \in Nat /\ u < max /\ u >= pos
    <3>1. u \in pos .. pos + len(f) - 1 /\ pos + len(f) <= max /\ len(f) \in Nat
      BY <1>1, <1>4, <2>1 DEF At, fits
    <3>2. pos \in Nat /\ max \in Nat /\ Top \in Nat /\ max < Top
      BY <1>2
    <3> QED
      BY <3>1, <3>2 DEF Unit
  <2>2. \A u \in 0 .. pos - 1 : u \in Unit /\ u \notin At(f)
    BY <1>1, <1>2 DEF At, Unit
  <2>3. Landed(f) = [mem EXCEPT ![dest] =
                      [u \in Unit |-> IF u \in At(f) THEN Content(f, u - pos) ELSE mem[dest][u]]]
    BY <1>2, <1>4 DEF Landed
  <2>4. /\ Landed(f) \in [Region -> [Unit -> Nat]]
        /\ \A u \in Unit : Landed(f)[dest][u] =
                             IF u \in At(f) THEN Content(f, u - pos) ELSE mem[dest][u]
        /\ \A r \in Region : r # dest => Landed(f)[r] = mem[r]
    BY <1>1, <1>2, <2>1, <2>3
  <2>5. Kept(Landed(f))
    <3>1. \A u \in Unit : u >= Limit(dest) => Landed(f)[dest][u] = mem[dest][u]
      BY <1>2, <2>1, <2>4 DEF Unit
    <3> QED
      BY <1>2, <2>4, <3>1, Outside DEF Place
  <2>6. InOrder(mem, dest, pos) => InOrder(Landed(f), dest, pos)
    BY <1>2, <2>2, <2>4 DEF InOrder
  <2>7. \A u \in At(f) : Landed(f)[dest][u] = Content(f, u - pos)
    BY <2>1, <2>4
  <2> DEFINE spoilt == [mem EXCEPT ![dest] = [u \in Unit |-> IF u \in At(f) THEN 0 ELSE @[u]]]
  <2>8. Garbled(f) = {mem, spoilt}
    BY <1>4 DEF Garbled
  <2>9. /\ spoilt \in [Region -> [Unit -> Nat]]
        /\ \A u \in Unit : spoilt[dest][u] = IF u \in At(f) THEN 0 ELSE mem[dest][u]
        /\ \A r \in Region : r # dest => spoilt[r] = mem[r]
    BY <1>2
  <2>10. Kept(spoilt)
    <3>1. \A u \in Unit : u >= Limit(dest) => spoilt[dest][u] = mem[dest][u]
      BY <1>2, <2>1, <2>9 DEF Unit
    <3> HIDE DEF spoilt
    <3> QED
      BY <1>2, <2>9, <3>1, Outside DEF Place
  <2>11. InOrder(mem, dest, pos) => InOrder(spoilt, dest, pos)
    BY <1>2, <2>2, <2>9 DEF InOrder
  <2> QED
    BY <1>4, <2>5, <2>6, <2>7, <2>8, <2>10, <2>11 DEF Place
<1> QED
  BY <1>3, <1>4

--------------------------------------------------------------------------------
(* The receiver. *)

\* How far the receiver is, and what it will answer for.
Course ==
    /\ size \in Nat /\ out \in [type : Region, length : Nat] /\ force_type \in Forces
    /\ done \in BOOLEAN /\ have_hdr \in BOOLEAN
    /\ result = "run" /\ pos = 0 => dest = PROG
    /\ result = YM_OK => done
    /\ at = "eot" \/ done \/ pos > 0 => have_hdr
    /\ have_hdr => size = IF file.announced THEN file.length ELSE 0
    /\ pos > 0 => out.type = dest
    /\ done => out.length = IF size # 0 /\ size < pos THEN size ELSE pos

\* The next number stands for the next block of the file.
Count ==
    /\ expect \in 1 .. Blocks(file) + 1
    /\ pos = file.cut[expect]
    /\ InOrder(mem, dest, pos)

IInv == Line /\ Place /\ Course /\ (Short => Count)

LEMMA InitIInv == Init => IInv
<1> SUFFICES ASSUME Init PROVE IInv
  OBVIOUS
<1> USE YmodemAssumption
<1>1. Line
  BY DEF Init, Line
<1>2. Place
  BY DEF Init, Place, Limit, Kept, Region
<1>3. Course
  <2>1. out \in [type : Region, length : Nat]
    BY DEF Init, Region
  <2>2. ~have_hdr /\ ~done /\ pos = 0 /\ at = "top" /\ result = "run" /\ dest = PROG
    BY DEF Init
  <2>3. size \in Nat /\ force_type \in Forces /\ done \in BOOLEAN /\ have_hdr \in BOOLEAN
    BY DEF Init
  <2> QED
    BY <2>1, <2>2, <2>3 DEF Course, YM_OK
<1>4. ASSUME Short PROVE Count
  <2>1. IsFile(file) /\ file \in Files
    BY DEF Init
  <2>2. Blocks(file) \in Nat /\ Blocks(file) + 1 < W
    BY <1>4, <2>1 DEF Short, IsFile, Blocks
  <2>3. 1 % W = 1
    BY <2>2
  <2>4. expect = 1 /\ pos = 0 /\ file.cut[1] = 0
    BY <2>1, <2>3 DEF Init, IsFile
  <2> QED
    BY <2>2, <2>4 DEF Count, InOrder
<1> QED
  BY <1>1, <1>2, <1>3, <1>4 DEF IInv

\* A block that carries the expected number is the block that comes next.
LEMMA Numbered ==
    ASSUME Short, Line, Count, NEW f \in Fine, blk(f) = expect
    PROVE  /\ f.kind = "data" /\ f.n = expect
           /\ (expect + 1) % W \in 1 .. Blocks(file) + 1
           /\ pos + len(f) = file.cut[(expect + 1) % W]
           /\ \A i \in Nat : Content(f, i) = pos + i + 1
<1>1. Blocks(file) \in Nat /\ Blocks(file) + 1 < W /\ W \in Nat
  <2>1. IsFile(file) /\ file \in Files
    BY YmodemAssumption DEF Line
  <2> QED
    BY <2>1, YmodemAssumption DEF Short, IsFile, Blocks
<1>2. \A k \in Nat : k < W => k % W = k
  BY <1>1
<1>3. expect \in 1 .. Blocks(file) + 1 /\ pos = file.cut[expect]
  BY DEF Count
<1>4. f.kind = "data" /\ f.n \in 1 .. Blocks(file)
  BY <1>1, <1>2, <1>3 DEF Fine, blk
<1>5. f.n = expect /\ (expect + 1) % W = expect + 1
  BY <1>1, <1>2, <1>3, <1>4 DEF blk
<1>6. file.cut[f.n] \in Nat /\ file.cut[f.n + 1] = file.cut[f.n] + len(f)
  BY <1>4, Blocklength DEF Line
<1> QED
  BY <1>1, <1>3, <1>4, <1>5, <1>6 DEF Content

--------------------------------------------------------------------------------
(* The steps. *)

\* The steps that leave the receiver alone.
recvKept == <<dest, max, pos, size, expect, have_hdr, done, out, mem, force_type>>

LEMMA Unchanged ==
    ASSUME IInv, Line', UNCHANGED <<recvKept, file>>, at' = at \/ at' = "top" \/ have_hdr,
           result' # "run" \/ result' = result, result' # YM_OK \/ result' = result
    PROVE  IInv'
BY DEF IInv, Place, Course, Count, Kept, InOrder, recvKept, YM_OK

LEMMA LineSteps ==
    ASSUME IInv, UNCHANGED file, UNCHANGED <<st, n>>,
           \/ up' = up
           \/ \E quiet \in 1 .. Len(up) : up' = SubSeq(up, quiet + 1, Len(up))
           \/ up # <<>> /\ up' = Tail(up)
           \/ up # <<>> /\ \E hurt \in Hurt : \/ up' = [up EXCEPT ![1].hurt = hurt]
                                           \/ up' = <<[Head(up) EXCEPT !.hurt = hurt]>> \o Tail(up)
    PROVE  Line'
<1>1. Fine' = Fine /\ up \in Seq(Fine)
  BY DEF Fine, IInv, Line
<1>2. up' \in Seq(Fine)
  BY <1>1, Lines
<1> QED
  BY <1>1, <1>2 DEF IInv, Line

\* What the sender sends is a frame of its file.
LEMMA Sending ==
    ASSUME Line, UNCHANGED file, NEW c,
           Hears(c) \/ (st \in SendingStates /\ Repeats) \/ Waits("start")
    PROVE  Line'
<1> DEFINE due(state, k) == up' = Append(up, Outgoing(state, k))
           can == [kind |-> "can", n |-> 0, hurt |-> "no"]
<1>1. Fine' = Fine /\ up \in Seq(Fine) /\ file \in Files
  BY DEF Fine, Line
<1>2. Blocks(file) \in Nat
  <2>1. IsFile(file)
    BY <1>1, YmodemAssumption
  <2> QED
    BY <2>1 DEF IsFile, Blocks
<1>3. ASSUME NEW state \in SendingStates, NEW k, state = "data" => k \in 1 .. Blocks(file)
      PROVE  Outgoing(state, k) \in Fine
  BY <1>2, <1>3 DEF Outgoing, Fine, Frame, Kind, Hurt, SendingStates
<1>4. can \in Fine
  BY DEF Fine, Frame, Kind, Hurt
<1>5. ASSUME NEW state \in SendingStates, NEW k, state = "data" => k \in 1 .. Blocks(file),
             Sends(state, k)
      PROVE  Line'
  <2>1. up' \in Seq(Fine)
    BY <1>1, <1>3, <1>5, Lines DEF Sends
  <2> QED
    BY <1>1, <1>5, <2>1 DEF Sends, Line, Blocks
<1>6. ASSUME NEW state, state # "data" \/ state = st, Waits(state)
      PROVE  Line'
  BY <1>1, <1>6 DEF Waits, Line, Blocks
<1>7. ASSUME NEW k \in Nat \ {0}, SendsFrom(k)
      PROVE  Line'
  BY <1>2, <1>5, <1>7 DEF SendsFrom, SendingStates
<1>8. ASSUME Repeats, st \in SendingStates
      PROVE  Line'
  <2>1. CASE up' = Append(up, Outgoing(st, n)) /\ UNCHANGED <<st, n>>
    <3>1. up' \in Seq(Fine)
      BY <1>1, <1>3, <1>8, <2>1, Lines DEF Line
    <3> QED
      BY <1>1, <2>1, <3>1 DEF Line, Blocks
  <2>2. CASE st' = "failed" /\ up' = Append(up, can)
    <3>1. up' \in Seq(Fine)
      BY <1>1, <1>4, <2>2, Lines
    <3> QED
      BY <1>1, <2>2, <3>1 DEF Line
  <2> QED
    BY <1>8, <2>1, <2>2 DEF Repeats
<1>9. CASE Hears(c)
  <2>1. st = "data" => n + 1 \in Nat \ {0}
    BY <1>2 DEF Line
  <2>2. \/ \E state : (state # "data" \/ state = st) /\ Waits(state)
        \/ Sends("hdr", 0) \/ Sends("null", 0) \/ SendsFrom(1)
        \/ st = "data" /\ SendsFrom(n + 1)
        \/ st \in SendingStates /\ Repeats
    BY <1>9 DEF Hears
  <2> QED
    BY <2>1, <2>2, <1>5, <1>6, <1>7, <1>8 DEF SendingStates
<1> QED
  BY <1>6, <1>8, <1>9

\* What the frame at the head of the line is.
LEMMA AtHead ==
    ASSUME IInv, NEW f \in Arrived
    PROVE  up # <<>> /\ f = Head(up) /\ f \in Fine
<1>1. up # <<>> /\ f = Head(up)
  BY DEF Arrived
<1> QED
  BY <1>1, Lines DEF IInv, Line

\* Errors and cancellation never accept a file.
LEMMA Refusal ==
    ASSUME NEW answers, CountError(answers)
    PROVE  result' = result \/ result' = "proto"
BY DEF CountError, Cancel, Put

LEMMA TimerSteps ==
    ASSUME IInv, Timeout \/ NoSecondEot
    PROVE  IInv'
<1>1. /\ UNCHANGED <<recvKept, file, st, n>>
      /\ result' # "run" \/ result' = result
      /\ result' # YM_OK \/ result' = result
      /\ at' = at \/ at' = "top"
  BY Refusal DEF Timeout, NoSecondEot, loopVars, senderVars, recvKept, Cancel, Put, YM_OK
<1>2. Line'
  <2>1. CASE up' = up
    BY <1>1, <2>1, LineSteps
  <2>2. CASE up # <<>> /\ (\/ up' = <<[Head(up) EXCEPT !.hurt = "start"]>> \o Tail(up)
                           \/ up' = Tail(up))
    BY <1>1, <2>2, LineSteps DEF Hurt
  <2> QED
    BY <2>1, <2>2 DEF Timeout, NoSecondEot
<1> QED
  BY <1>1, <1>2, Unchanged

LEMMA QuietSteps ==
    ASSUME IInv, FirstEot \/ SenderCancels \/ Noise \/ EarlyNoise
    PROVE  IInv'
<1>1. /\ UNCHANGED <<recvKept, file, st, n>>
      /\ result' # "run" \/ result' = result
      /\ result' # YM_OK \/ result' = result
      /\ at' = at \/ at' = "top" \/ have_hdr
  BY Refusal DEF FirstEot, SenderCancels, Noise, EarlyNoise, Reads, ReadsAndPurges,
                 loopVars, recvVars, senderVars, recvKept, YM_OK
<1>2. up # <<>>
  BY AtHead DEF FirstEot, SenderCancels, Noise, EarlyNoise
<1>3. \/ up' = Tail(up)
      \/ \E quiet \in 1 .. Len(up) : up' = SubSeq(up, quiet + 1, Len(up))
  BY DEF FirstEot, SenderCancels, Noise, EarlyNoise, Reads, ReadsAndPurges
<1>4. Line'
  BY <1>1, <1>2, <1>3, LineSteps
<1> QED
  BY <1>1, <1>4, Unchanged

\* The end of a file fixes its length.
LEMMA Ending ==
    ASSUME IInv, Line', have_hdr, NEW answers, FileEnds(answers)
    PROVE  IInv'
<1>1. UNCHANGED <<dest, max, pos, size, expect, have_hdr, mem, force_type, result, file>>
  BY DEF FileEnds, senderVars
<1>2. Place' /\ (Short => Count')
  BY <1>1 DEF IInv, Place, Count, Kept, InOrder
<1>3. /\ done' = TRUE /\ at' = "top"
      /\ out' = [out EXCEPT !.length = IF size # 0 /\ size < pos THEN size ELSE pos]
      /\ pos \in Nat /\ Course
  BY DEF FileEnds, IInv, Place
<1>4. /\ out' \in [type : Region, length : Nat] /\ out'.type = out.type
      /\ out'.length = IF size # 0 /\ size < pos THEN size ELSE pos
  BY <1>3 DEF Course
<1>5. Course'
  BY <1>1, <1>3, <1>4 DEF Course
<1> QED
  BY <1>2, <1>5 DEF IInv

LEMMA EndSteps ==
    ASSUME IInv, SecondEot \/ DamagedToEot
    PROVE  IInv'
<1>1. CASE SecondEot
  <2>1. up # <<>> /\ up' = Tail(up) /\ FileEnds(<<>>) /\ at = "eot"
    BY <1>1, AtHead DEF SecondEot, Reads
  <2>2. UNCHANGED <<file, st, n>> /\ have_hdr
    BY <2>1 DEF FileEnds, senderVars, IInv, Course
  <2> QED
    BY <2>1, <2>2, LineSteps, Ending
<1>2. CASE DamagedToEot
  <2>1. /\ up # <<>> /\ up' = <<[Head(up) EXCEPT !.hurt = "start"]>> \o Tail(up)
        /\ UNCHANGED <<file, st, n>>
    BY <1>2 DEF DamagedToEot, FileEnds, senderVars
  <2>2. Line'
    BY <2>1, LineSteps DEF Hurt
  <2>3. CASE FileEnds(<<>>) /\ at = "eot"
    BY <2>2, <2>3, Ending DEF IInv, Course
  <2>4. CASE FileEnds(<<"NAK">>) /\ have_hdr
    BY <2>2, <2>4, Ending
  <2>5. CASE UNCHANGED <<recvVars, senderVars>>
    <3>1. UNCHANGED <<recvKept, file, at, result>>
      BY <2>5 DEF recvVars, loopVars, recvKept, senderVars
    <3> QED
      BY <2>2, <3>1, Unchanged
  <2> QED
    BY <1>2, <2>3, <2>4, <2>5 DEF DamagedToEot
<1> QED
  BY <1>1, <1>2

\* A block that is stored and taken no further.
LEMMA Storing ==
    ASSUME IInv, Line', NEW f \in Fine, mem' \in {Landed(f)} \cup Garbled(f),
           UNCHANGED <<dest, max, pos, expect, file>>
    PROVE  Place' /\ (Short => Count')
<1>1. Kept(mem') /\ (InOrder(mem, dest, pos) => InOrder(mem', dest, pos))
  BY Landing DEF IInv, Line
<1> QED
  BY <1>1 DEF IInv, Place, Count, Kept, InOrder

LEMMA BlockSteps ==
    ASSUME IInv,
           BadBlock \/ Header \/ Close \/ HeaderAgain \/ Unwanted \/ Duplicate \/ OutOfSequence
    PROVE  IInv'
<1>1. PICK f \in Fine :
        /\ up # <<>> /\ f = Head(up)
        /\ mem' \in {Landed(f)} \cup Garbled(f)
        /\ UNCHANGED <<dest, max, pos, expect, file, st, n, done, out, force_type, at>>
        /\ \/ up' = Tail(up)
           \/ \E quiet \in 1 .. Len(up) : up' = SubSeq(up, quiet + 1, Len(up))
  BY AtHead DEF BadBlock, Header, Close, HeaderAgain, Unwanted, Duplicate, OutOfSequence,
                GoodBlock, Wanted, Reads, ReadsAndPurges, senderVars
<1>2. Line'
  BY <1>1, LineSteps
<1>3. Place' /\ (Short => Count')
  BY <1>1, <1>2, Storing
<1>4. Course'
  <2>1. CASE Header
    <3>1. /\ result' = result /\ have_hdr' = TRUE
          /\ size' = IF file.announced THEN file.length ELSE 0
          /\ ~done
      BY <2>1 DEF Header
    <3>2. size' \in Nat
      BY <3>1, YmodemAssumption DEF IInv, Line, IsFile
    <3> QED
      BY <1>1, <3>1, <3>2 DEF IInv, Course
  <2>2. CASE ~Header
    <3>1. /\ UNCHANGED <<size, have_hdr>>
          /\ result' = result \/ (result' # "run" /\ (result' = YM_OK => done))
      BY <2>2, Refusal DEF BadBlock, Close, HeaderAgain, Unwanted, Duplicate, OutOfSequence,
                  Cancel, YM_OK
    <3> QED
      BY <1>1, <3>1 DEF IInv, Course
  <2> QED
    BY <2>1, <2>2
<1> QED
  BY <1>2, <1>3, <1>4 DEF IInv

\* A block that is taken: the file grows by it, in the region of its type.
LEMMA FirstBlockStep ==
    ASSUME IInv, FirstBlock
    PROVE  IInv'
<1>1. PICK f \in Fine :
        /\ up # <<>> /\ up' = Tail(up) /\ Expected(f) /\ fits(f) /\ pos = 0
        /\ out' = [out EXCEPT !.type = Type(f)]
        /\ dest' = IF Type(f) = DATA THEN DATA ELSE dest
        /\ max'  = IF Type(f) = DATA THEN DataMax ELSE max
        /\ mem'  = IF Type(f) = DATA
                   THEN [Landed(f) EXCEPT ![DATA] = [u \in Unit |-> IF u < len(f) THEN Content(f, u) ELSE @[u]]]
                   ELSE Landed(f)
        /\ \/ result' = "toobig" /\ UNCHANGED <<pos, expect>>
           \/ pos' = pos + len(f) /\ expect' = (expect + 1) % W /\ UNCHANGED result
        /\ UNCHANGED <<size, have_hdr, done, file, st, n, force_type, at>>
        /\ result = "run" /\ have_hdr /\ ~done /\ blk(f) = expect
  BY AtHead DEF FirstBlock, Expected, Wanted, GoodBlock, Reads, Running, Cancel, senderVars
<1>2. Line'
  BY <1>1, LineSteps
<1>3. /\ len(f) \in 1 .. Big /\ len(f) \in Nat /\ \A i \in Nat : Content(f, i) \in Nat
      /\ Kept(Landed(f)) /\ dest = PROG /\ max = ProgMax
      /\ \A u \in At(f) : Landed(f)[dest][u] = Content(f, u - pos)
      /\ ProgMax \in Nat /\ DataMax \in Nat /\ len(f) <= DataMax /\ len(f) <= ProgMax
      /\ len(f) <= Top /\ Top \in Nat
  <2>1. /\ Big \in Nat \ {0} /\ ProgMax \in Nat /\ DataMax \in Nat /\ Top \in Nat
        /\ Big <= ProgMax /\ Big <= DataMax /\ ProgMax + Big <= Top
    BY YmodemAssumption
  <2>2. len(f) \in 1 .. Big /\ \A i \in Nat : Content(f, i) \in Nat
    BY Blocklength DEF IInv, Line
  <2>3. dest = PROG /\ max = ProgMax
    BY <1>1 DEF IInv, Course, Place, Limit
  <2>4. Kept(Landed(f)) /\ \A u \in At(f) : Landed(f)[dest][u] = Content(f, u - pos)
    BY <1>1, Landing DEF IInv, Line
  <2>5. len(f) \in Nat /\ len(f) <= DataMax /\ len(f) <= ProgMax /\ len(f) <= Top
    BY <2>1, <2>2
  <2> QED
    BY <2>1, <2>2, <2>3, <2>4, <2>5
<1>4. Type(f) \in Region /\ (Type(f) # DATA => Type(f) = PROG)
  BY YmodemAssumption DEF Type, IInv, Course, Region
<1>5. Place' /\ \A u \in 0 .. len(f) - 1 : mem'[dest'][u] = Content(f, u)
  <2>1. CASE Type(f) = DATA
    <3>1. /\ Landed(f) \in [Region -> [Unit -> Nat]]
          /\ \A u \in 0 .. len(f) - 1 : u \in Unit
          /\ \A u \in Unit : u \in Nat
          /\ DATA \in Region
      <4>1. len(f) \in Nat /\ Top \in Nat /\ len(f) <= Top
        BY <1>3
      <4>2. Landed(f) \in [Region -> [Unit -> Nat]]
        BY <1>3 DEF Kept
      <4>3. \A u \in 0 .. len(f) - 1 : u \in Unit
        BY <4>1 DEF Unit
      <4>4. \A u \in Unit : u \in Nat
        BY <4>1 DEF Unit
      <4>5. DATA \in Region
        BY DEF Region
      <4> QED
        BY <4>2, <4>3, <4>4, <4>5
    <3>2. mem' = [Landed(f) EXCEPT ![DATA] =
                    [u \in Unit |-> IF u < len(f) THEN Content(f, u) ELSE Landed(f)[DATA][u]]]
      BY <1>1, <2>1, <3>1
    <3>3. /\ mem' \in [Region -> [Unit -> Nat]]
          /\ \A u \in Unit : mem'[DATA][u] = IF u < len(f) THEN Content(f, u) ELSE Landed(f)[DATA][u]
          /\ \A s \in Region : s # DATA => mem'[s] = Landed(f)[s]
      BY <1>3, <3>1, <3>2
    <3>4. \A u \in Unit : u >= Limit(DATA) => mem'[DATA][u] = Landed(f)[DATA][u]
      BY <1>3, <3>1, <3>3 DEF Limit, PROG, DATA
    <3>5. Kept(mem')
      BY <1>3, <3>1, <3>3, <3>4, Outside
    <3>6. dest' = DATA /\ max' = DataMax /\ pos' \in Nat /\ pos' <= DataMax
      BY <1>1, <1>3, <2>1
    <3>7. \A u \in 0 .. len(f) - 1 : mem'[dest'][u] = Content(f, u)
      BY <1>3, <3>1, <3>3, <3>6
    <3> QED
      BY <3>1, <3>5, <3>6, <3>7 DEF Place, Limit, PROG, DATA
  <2>2. CASE Type(f) # DATA
    <3>1. mem' = Landed(f) /\ dest' = dest /\ max' = max /\ pos' \in Nat /\ pos' <= max
      BY <1>1, <1>3, <2>2 DEF fits
    <3>2. \A u \in 0 .. len(f) - 1 : u \in At(f) /\ u - pos = u
      BY <1>1, <1>3 DEF At
    <3> QED
      BY <1>3, <3>1, <3>2 DEF Place, IInv
  <2> QED
    BY <2>1, <2>2
<1>6. Course'
  <2>1. out' \in [type : Region, length : Nat] /\ out'.type = Type(f)
    BY <1>1, <1>4 DEF IInv, Course
  <2>2. out'.type = dest' /\ (result' = "run" /\ pos' = 0 => dest' = PROG)
    BY <1>1, <1>3, <1>4, <2>1
  <2> QED
    BY <1>1, <2>1, <2>2 DEF IInv, Course, YM_OK
<1>7. ASSUME Short PROVE Count'
  <2>1. Count /\ Line
    BY <1>7 DEF IInv
  <2>2. CASE UNCHANGED <<pos, expect>>
    BY <1>1, <2>1, <2>2 DEF Count, InOrder, Blocks
  <2>3. CASE pos' = pos + len(f) /\ expect' = (expect + 1) % W
    <3>1. /\ expect' \in 1 .. Blocks(file) + 1 /\ pos' = file.cut[expect']
          /\ \A i \in Nat : Content(f, i) = pos + i + 1
      BY <1>1, <1>7, <2>1, <2>3, Numbered
    <3>2. \A u \in 0 .. pos' - 1 : mem'[dest'][u] = u + 1
      <4>1. pos = 0 /\ pos' = len(f) /\ len(f) \in Nat
        BY <1>1, <1>3, <2>3
      <4>2. \A u \in 0 .. len(f) - 1 : mem'[dest'][u] = Content(f, u) /\ u \in Nat
        BY <1>5, <4>1
      <4> QED
        BY <3>1, <4>1, <4>2
    <3> QED
      BY <1>1, <3>1, <3>2 DEF Count, InOrder, Blocks
  <2> QED
    BY <1>1, <2>2, <2>3
<1> QED
  BY <1>2, <1>5, <1>6, <1>7 DEF IInv

LEMMA NextBlockStep ==
    ASSUME IInv, NextBlock
    PROVE  IInv'
<1>1. PICK f \in Fine :
        /\ up # <<>> /\ up' = Tail(up) /\ Expected(f) /\ fits(f) /\ pos # 0
        /\ mem' = Landed(f)
        /\ pos' = pos + len(f) /\ expect' = (expect + 1) % W
        /\ UNCHANGED <<dest, max, size, have_hdr, done, out, result, file, st, n, force_type, at>>
        /\ have_hdr /\ ~done /\ blk(f) = expect
  BY AtHead DEF NextBlock, Expected, Wanted, GoodBlock, Reads, senderVars
<1>2. Line'
  BY <1>1, LineSteps
<1>3. /\ len(f) \in Nat \ {0} /\ pos \in Nat
      /\ Kept(Landed(f)) /\ (InOrder(mem, dest, pos) => InOrder(Landed(f), dest, pos))
      /\ \A u \in At(f) : Landed(f)[dest][u] = Content(f, u - pos)
  <2>1. Big \in Nat
    BY YmodemAssumption
  <2>2. len(f) \in 1 .. Big /\ Line /\ Place
    BY Blocklength DEF IInv, Line
  <2>3. len(f) \in Nat \ {0} /\ pos \in Nat
    BY <2>1, <2>2 DEF Place
  <2> QED
    BY <1>1, <2>2, <2>3, Landing DEF Line
<1>4. Place'
  BY <1>1, <1>3 DEF IInv, Place, fits
<1>5. Course'
  BY <1>1, <1>3 DEF IInv, Course
<1>6. ASSUME Short PROVE Count'
  <2>1. Count /\ Line
    BY <1>6 DEF IInv
  <2>2. /\ expect' \in 1 .. Blocks(file) + 1 /\ pos' = file.cut[expect']
        /\ \A i \in Nat : Content(f, i) = pos + i + 1
    BY <1>1, <1>6, <2>1, Numbered
  <2>3. ASSUME NEW u \in 0 .. pos' - 1
        PROVE  mem'[dest'][u] = u + 1
    <3>1. CASE u < pos
      BY <1>1, <1>3, <2>1, <3>1 DEF Count, InOrder
    <3>2. CASE u >= pos
      <4>1. u \in At(f) /\ u - pos \in Nat
        BY <1>1, <1>3, <2>3, <3>2 DEF At
      <4> QED
        BY <1>1, <1>3, <2>2, <2>3, <4>1
    <3> QED
      BY <1>3, <2>3, <3>1, <3>2
  <2> QED
    BY <1>1, <2>2, <2>3 DEF Count, InOrder, Blocks
<1> QED
  BY <1>2, <1>4, <1>5, <1>6 DEF IInv

LEMMA NoRoomStep ==
    ASSUME IInv, NoRoom
    PROVE  IInv'
<1>1. /\ up # <<>> /\ up' = Tail(up)
      /\ UNCHANGED <<recvKept, file, st, n, at>> /\ result' = "toobig"
  BY AtHead DEF NoRoom, Expected, Wanted, GoodBlock, Reads, Cancel, recvKept, senderVars
<1>2. Line'
  BY <1>1, LineSteps
<1> QED
  BY <1>1, <1>2, Unchanged DEF YM_OK

LEMMA OtherEnd ==
    ASSUME IInv,
           SenderReads \/ Arrives \/ SenderTimeout \/ LoseFrame \/ LoseAnswer \/ DamageFrame
    PROVE  IInv'
<1>1. UNCHANGED <<recvKept, file, at, result>>
  BY DEF SenderReads, Arrives, SenderTimeout, LoseFrame, LoseAnswer, DamageFrame,
         recvVars, loopVars, recvKept, senderVars
<1>2. Line'
  <2>1. CASE SenderReads \/ Arrives \/ SenderTimeout
    <3>1. Line /\ \E c : Hears(c) \/ (st \in SendingStates /\ Repeats) \/ Waits("start")
      BY <2>1 DEF SenderReads, Arrives, SenderTimeout, IInv
    <3> QED
      BY <1>1, <3>1, Sending
  <2>2. CASE LoseFrame \/ LoseAnswer \/ DamageFrame
    <3>1. /\ UNCHANGED <<file, st, n>>
          /\ \/ up' = up
             \/ up # <<>> /\ up' = Tail(up)
             \/ up # <<>> /\ \E hurt \in Hurt : up' = [up EXCEPT ![1].hurt = hurt]
      BY <2>2 DEF LoseFrame, LoseAnswer, DamageFrame, Hurt, senderVars
    <3> QED
      BY <3>1, LineSteps
  <2> QED
    BY <2>1, <2>2
<1> QED
  BY <1>1, <1>2, Unchanged

LEMMA NextIInv == IInv /\ [Next]_vars => IInv'
<1> SUFFICES ASSUME IInv, [Next]_vars PROVE IInv'
  OBVIOUS
<1>1. CASE UNCHANGED vars
  <2>1. Line' /\ UNCHANGED <<recvKept, file, at, result>>
    BY <1>1, LineSteps DEF vars, recvVars, loopVars, lineVars, senderVars, recvKept
  <2> QED
    BY <2>1, Unchanged
<1>2. CASE Next
  BY <1>2, TimerSteps, QuietSteps, EndSteps, BlockSteps, FirstBlockStep, NextBlockStep,
     NoRoomStep, OtherEnd DEF Next, Receive
<1> QED
  BY <1>1, <1>2

LEMMA Invariance == Spec => []IInv
<1> QED
  BY InitIInv, NextIInv, PTL DEF Spec

--------------------------------------------------------------------------------

\* Confined: whatever arrives, and however often, memory behind the two load regions
\* is never written.
THEOREM StaysConfined == Spec => []Confined
<1>1. IInv => Confined
  BY DEF IInv, Place, Kept, Confined
<1> QED
  BY <1>1, Invariance, PTL

\* Intact: a file accepted by ym_receive is in memory up to its length, for files whose
\* blocks all have numbers of their own.
THEOREM ArrivesIntact == Spec => [](Short => Intact)
<1>1. ASSUME IInv, Short PROVE Intact
  <2> SUFFICES ASSUME result = YM_OK
               PROVE  /\ out.length <= file.length \/ ~file.announced
                      /\ pos > 0 => out.type = dest
                      /\ \A u \in 1 .. out.length : mem[out.type][u - 1] = u
    BY DEF Intact
  <2>1. /\ done /\ have_hdr /\ size \in Nat /\ pos \in Nat
        /\ out.length = IF size # 0 /\ size < pos THEN size ELSE pos
        /\ size = IF file.announced THEN file.length ELSE 0
        /\ pos > 0 => out.type = dest
    BY <1>1 DEF IInv, Course, Place
  <2>2. InOrder(mem, dest, pos) /\ expect \in 1 .. Blocks(file) + 1 /\ pos = file.cut[expect]
    BY <1>1 DEF IInv, Count
  <2>3. /\ IsFile(file) /\ file.length \in Nat /\ file.cut[1] = 0 /\ Blocks(file) \in Nat
        /\ Blocks(file) > 0 => file.length > file.cut[Blocks(file)] /\ file.cut[Blocks(file)] \in Nat
    <3>1. IsFile(file)
      BY <1>1, YmodemAssumption DEF IInv, Line
    <3>2. Blocks(file) \in Nat /\ (Blocks(file) > 0 => Blocks(file) \in 1 .. Len(file.cut))
      BY <3>1 DEF IsFile, Blocks
    <3> QED
      BY <3>1, <3>2 DEF IsFile
  <2>4. out.length <= file.length \/ ~file.announced
    <3>1. CASE Blocks(file) = 0
      BY <2>1, <2>2, <2>3, <3>1
    <3>2. CASE Blocks(file) > 0
      BY <2>1, <2>3, <3>2
    <3> QED
      BY <2>3, <3>1, <3>2
  <2>5. ASSUME NEW u \in 1 .. out.length PROVE mem[out.type][u - 1] = u
    <3>1. out.length <= pos /\ pos > 0 /\ u - 1 \in 0 .. pos - 1
      BY <2>1, <2>5
    <3> QED
      BY <2>1, <2>2, <2>5, <3>1 DEF InOrder
  <2> QED
    BY <2>1, <2>4, <2>5
<1>2. IInv => (Short => Intact)
  BY <1>1
<1> QED
  BY <1>2, Invariance, PTL

--------------------------------------------------------------------------------
(* The transfer as such. *)

\* Besides the blocks that are taken, a step leaves what is received as it is, and
\* gives a verdict at most once.
LEMMA Progresses ==
    ASSUME IInv, [Next]_vars
    PROVE  \/ /\ pos' = pos
              /\ result' = result \/ (result = "run" /\ result' \in {"ok"} \cup Failures)
           \/ /\ pos' \in Nat /\ pos' > pos /\ result = "run" /\ result' = result
<1>1. CASE UNCHANGED vars
  BY <1>1 DEF vars, recvVars, loopVars
<1>2. CASE SenderReads \/ Arrives \/ SenderTimeout \/ LoseFrame \/ LoseAnswer \/ DamageFrame
  BY <1>2 DEF SenderReads, Arrives, SenderTimeout, LoseFrame, LoseAnswer, DamageFrame,
              recvVars, loopVars
<1>3. CASE Timeout \/ NoSecondEot \/ Noise \/ BadBlock
  <2>1. pos' = pos /\ result = "run"
    BY <1>3 DEF Timeout, NoSecondEot, Noise, BadBlock, loopVars, Running, ReadsAndPurges
  <2>2. result' = result \/ result' \in Failures
    BY <1>3, Refusal DEF Timeout, NoSecondEot, Noise, BadBlock, Cancel, Put, Failures
  <2> QED
    BY <2>1, <2>2
<1>4. CASE FirstEot \/ SecondEot \/ DamagedToEot \/ SenderCancels \/ EarlyNoise
  BY <1>4 DEF FirstEot, SecondEot, DamagedToEot, SenderCancels, EarlyNoise, FileEnds,
              recvVars, loopVars, Reads, Running, Failures
<1>5. CASE Header \/ HeaderAgain \/ Unwanted \/ Duplicate
  BY <1>5 DEF Header, HeaderAgain, Unwanted, Duplicate
<1>6. CASE Close \/ OutOfSequence \/ NoRoom
  <2>1. pos' = pos /\ result = "run"
    BY <1>6 DEF Close, OutOfSequence, NoRoom, Expected, Wanted, GoodBlock, Reads, Running
  <2>2. result' \in {"ok"} \cup Failures
    BY <1>6 DEF Close, OutOfSequence, NoRoom, Cancel, Failures, YM_OK
  <2> QED
    BY <2>1, <2>2
<1>7. CASE FirstBlock \/ NextBlock
  <2>1. PICK f \in Fine :
          /\ result = "run"
          /\ \/ pos' = pos /\ result' = "toobig"
             \/ pos' = pos + len(f) /\ result' = result
    BY <1>7, AtHead DEF FirstBlock, NextBlock, Expected, Wanted, GoodBlock, Reads, Running, Cancel
  <2>2. Big \in Nat
    BY YmodemAssumption
  <2>3. len(f) \in 1 .. Big /\ pos \in Nat
    BY <2>1, Blocklength DEF IInv, Line, Place
  <2>4. len(f) \in Nat \ {0}
    BY <2>2, <2>3
  <2> QED
    BY <2>1, <2>3, <2>4 DEF Failures
<1> QED
  BY <1>1, <1>2, <1>3, <1>4, <1>5, <1>6, <1>7 DEF Next, Receive

LEMMA StoredIsPrefix ==
    ASSUME IInv, Short
    PROVE  Stored = Abstract!Prefix(pos) /\ pos \in Nat
<1>1. pos \in Nat /\ InOrder(mem, dest, pos)
  BY DEF IInv, Place, Count
<1>2. \A u \in 1 .. pos : mem[dest][u - 1] = u
  BY <1>1 DEF InOrder
<1> QED
  BY <1>1, <1>2 DEF Stored, Abstract!Prefix

LEMMA Refines ==
    ASSUME IInv, IInv', Short, [Next]_vars
    PROVE  [Abstract!Arrive \/ Abstract!Finish]_<<Stored, result>>
<1>1. /\ Stored = Abstract!Prefix(pos) /\ pos \in Nat
      /\ Stored' = Abstract!Prefix(pos') /\ pos' \in Nat
  <2>1. Stored = Abstract!Prefix(pos) /\ pos \in Nat
    BY StoredIsPrefix
  <2>2. Stored' = [u \in 1 .. pos' |-> mem'[dest'][u - 1]]
    BY DEF Stored
  <2>3. pos' \in Nat /\ InOrder(mem', dest', pos')
    BY DEF IInv, Place, Count
  <2>4. \A u \in 1 .. pos' : mem'[dest'][u - 1] = u
    BY <2>3 DEF InOrder
  <2> QED
    BY <2>1, <2>2, <2>3, <2>4 DEF Abstract!Prefix
<1>2. Len(Stored) = pos /\ Len(Stored') = pos'
  BY <1>1 DEF Abstract!Prefix
<1>3. CASE pos' = pos
  <2>1. Stored' = Stored
    BY <1>1, <1>3
  <2> QED
    BY <2>1, <1>3, Progresses DEF Abstract!Finish
<1>4. CASE pos' # pos
  BY <1>1, <1>2, <1>4, Progresses DEF Abstract!Arrive
<1> QED
  BY <1>3, <1>4

\* TransferSpec: Ymodem implements Transfer, for files whose blocks all have numbers of
\* their own; the file grows in order and without a gap whatever is repeated or lost.
THEOREM ImplementsTransfer ==
    ASSUME Short
    PROVE  Spec => TransferSpec
<1>1. Init => Abstract!Init
  BY DEF Init, Abstract!Init, Stored, Abstract!Prefix
<1>2. IInv /\ IInv' /\ [Next]_vars => [Abstract!Arrive \/ Abstract!Finish]_<<Stored, result>>
  BY Refines
<1> QED
  BY <1>1, <1>2, Invariance, PTL DEF Spec, TransferSpec, Abstract!Spec

--------------------------------------------------------------------------------
(* The two ends.  While no answer is lost or overtaken by a timer, only one of *)
(* them has something on the line, and each knows how far the other one is.    *)

\* The receiver before the header, when block k is next, and after the last block.
Fresh == want_hdr /\ ~have_hdr /\ ~done /\ at = "top" /\ expect = 1 % W /\ pos = 0

Loading(k) ==
    /\ ~want_hdr /\ have_hdr /\ ~done
    /\ expect = k % W /\ pos = file.cut[k] /\ (k > 1 => pos > 0)

Ended == want_hdr /\ have_hdr /\ done /\ at = "top" /\ pos = file.cut[Len(file.cut)]

\* The receiver waits for the frame that the sender has sent.
Due ==
    \/ st = "hdr" /\ Fresh
    \/ st = "data" /\ Loading(n) /\ at = "top"
    \/ st = "eot" /\ Loading(Blocks(file) + 1)
    \/ st = "null" /\ Ended

Sent == \E hurt \in {"no", "body", "start"} : up = <<[Outgoing(st, n) EXCEPT !.hurt = hurt]>>

Awaits ==
    \/ up = <<>> /\ down \in {<<>>, <<Again>>}
    \/ down = <<>> /\ Sent

\* The receiver has the frame, and its answers are on their way.
Taken ==
    /\ up = <<>>
    /\ \/ st = "hdr" /\ Loading(1) /\ at = "top" /\ down = <<"ACK", "C">>
       \/ st = "go" /\ Loading(1) /\ at = "top" /\ down = <<"C">>
       \/ st = "data" /\ Loading(n + 1) /\ at = "top" /\ down = <<"ACK">>
       \/ st = "eot" /\ Ended /\ down = <<"ACK", "C">>
       \/ st = "close" /\ Ended /\ down = <<"C">>

\* The sender has lost patience.
GivenUp ==
    /\ st = "failed" /\ (done => Ended)
    /\ \/ up = <<>>
       \/ \E hurt \in {"no", "start"} : up = <<[kind |-> "can", n |-> 0, hurt |-> hurt]>>

Unasked ==
    /\ Fresh /\ up = <<>>
    /\ st = "absent" \/ (st = "start" /\ down \in {<<>>, <<"C">>})

Turn == Unasked \/ (Due /\ Awaits) \/ Taken \/ GivenUp

\* After a failure no acknowledgement reaches a sender that has sent the last frame.
Over ==
    \/ st \in {"absent", "failed"}
    \/ st \in {"start", "go"} /\ down = <<>>
    \/ st = "hdr" /\ down = <<"ACK">>
    \/ st # "done" /\ down = <<"CAN", "CAN", "CAN">>

Agreeing ==
    \/ result = "run" /\ Turn
    \/ result = YM_OK /\ pos = file.cut[Len(file.cut)]
    \/ result \in Failures /\ Over

AInv == IInv /\ (calm => Agreeing)

LEMMA Remainder ==
    ASSUME NEW x \in Nat, NEW q \in Int, NEW r \in 0 .. W - 1, x = W * q + r
    PROVE  x % W = r
<1> DEFINE times == x \div W
           rest == x % W
<1>1. W \in Nat \ {0}
  BY YmodemAssumption
<1>2. times \in Int /\ rest \in 0 .. W - 1 /\ x = W * times + rest
  BY <1>1
<1>3. ASSUME NEW a \in Int, NEW b \in Int, NEW c \in 0 .. W - 1, NEW d \in 0 .. W - 1,
             W * a + c = W * b + d, a < b
      PROVE  FALSE
  <2>1. b >= a + 1
    BY <1>3
  <2>2. W * b >= W * (a + 1)
    BY <1>1, <2>1
  <2>3. W * (a + 1) = W * a + W
    BY <1>1
  <2> QED
    BY <1>1, <1>3, <2>2, <2>3
<1> HIDE DEF times, rest
<1>4. W * times + rest = W * q + r /\ W * q + r = W * times + rest
  BY <1>2
<1>5. ~(times < q)
  BY <1>2, <1>3, <1>4
<1>6. ~(q < times)
  BY <1>2, <1>3, <1>4
<1>7. times = q
  BY <1>2, <1>5, <1>6
<1>8. rest = r
  BY <1>1, <1>2, <1>4, <1>7
<1> QED
  BY <1>8 DEF rest

\* The numbers of two blocks in a row differ, and the second is counted from the first.
LEMMA Counting ==
    ASSUME W > 1, NEW k \in Nat
    PROVE  /\ k % W \in 0 .. W - 1
           /\ ((k % W) + 1) % W = (k + 1) % W
           /\ k % W # ((k % W) - 1) % W
           /\ 1 % W = 1 /\ 0 % W = 0
<1>1. W \in Nat \ {0} /\ W > 1
  BY YmodemAssumption
<1>2. k % W \in 0 .. W - 1 /\ 1 % W = 1 /\ 0 % W = 0
  BY <1>1
<1>3. ((k % W) + 1) % W = (k + 1) % W
  <2> DEFINE q == k \div W
             next == IF (k % W) + 1 = W THEN 0 ELSE (k % W) + 1
             times == IF (k % W) + 1 = W THEN q + 1 ELSE q
  <2>1. q \in Int /\ k = W * q + (k % W)
    BY <1>1
  <2>2. times \in Int /\ next \in 0 .. W - 1 /\ k + 1 = W * times + next
    BY <1>1, <1>2, <2>1
  <2>3. next % W = next /\ ((k % W) + 1) % W = next
    BY <1>1, <1>2, <2>2
  <2> HIDE DEF next, times
  <2>4. k + 1 \in Nat
    OBVIOUS
  <2>5. (k + 1) % W = next
    BY <2>2, <2>4, Remainder
  <2> QED
    BY <2>3, <2>5
<1>4. k % W # ((k % W) - 1) % W
  <2>1. CASE k % W = 0
    <3>1. (0 - 1) % W = W - 1
      BY <1>1
    <3> QED
      BY <1>1, <2>1, <3>1
  <2>2. CASE k % W # 0
    <3>1. \A j \in 0 .. W - 1 : j % W = j
      BY <1>1
    <3> QED
      BY <1>1, <1>2, <2>2, <3>1
  <2> QED
    BY <2>1, <2>2
<1> QED
  BY <1>2, <1>3, <1>4

LEMMA WholeFile ==
    ASSUME IInv
    PROVE  /\ Blocks(file) \in Nat /\ Len(file.cut) = Blocks(file) + 1
           /\ file.cut[1] = 0
<1>1. IsFile(file)
  BY YmodemAssumption DEF IInv, Line
<1> QED
  BY <1>1 DEF IsFile, Blocks

\* What the head of the line is while the two ends agree: the frame that is due, alone.
LEMMA OnLine ==
    ASSUME AInv, calm, result = "run", NEW f \in Arrived
    PROVE  /\ up = <<f>> /\ Tail(up) = <<>> /\ f.hurt \in {"no", "body", "start"}
           /\ \A quiet \in 1 .. Len(up) : SubSeq(up, quiet + 1, Len(up)) = <<>>
           /\ \/ GivenUp /\ f = [kind |-> "can", n |-> 0, hurt |-> f.hurt]
              \/ /\ Due /\ down = <<>> /\ f = [Outgoing(st, n) EXCEPT !.hurt = f.hurt]
                 /\ st \in {"hdr", "null"} => f.kind \in {"hdr", "null"} /\ f.n = 0
                 /\ st \in {"data", "eot"} => f.kind = st
                 /\ st = "data" => f.n = n
<1>1. up # <<>> /\ f = Head(up) /\ Turn
  BY DEF Arrived, AInv, Agreeing, Failures, YM_OK
<1>2. CASE Due /\ Awaits
  <2>1. PICK hurt \in {"no", "body", "start"} :
          down = <<>> /\ up = <<[Outgoing(st, n) EXCEPT !.hurt = hurt]>>
    BY <1>1, <1>2 DEF Awaits, Sent
  <2>2. f = [Outgoing(st, n) EXCEPT !.hurt = hurt]
    BY <1>1, <2>1
  <2>3. f.hurt = hurt /\ up = <<f>>
    BY <2>1, <2>2 DEF Outgoing
  <2>4. /\ st \in {"hdr", "null"} => f.kind \in {"hdr", "null"} /\ f.n = 0
        /\ st \in {"data", "eot"} => f.kind = st
        /\ st = "data" => f.n = n
    BY <2>2 DEF Outgoing
  <2>5. Tail(up) = <<>> /\ \A quiet \in 1 .. Len(up) : SubSeq(up, quiet + 1, Len(up)) = <<>>
    BY <2>3
  <2> QED
    BY <1>2, <2>1, <2>2, <2>3, <2>4, <2>5
<1>3. CASE GivenUp
  <2>1. PICK hurt \in {"no", "start"} : up = <<[kind |-> "can", n |-> 0, hurt |-> hurt]>>
    BY <1>1, <1>3 DEF GivenUp
  <2>2. f = [kind |-> "can", n |-> 0, hurt |-> hurt] /\ f.hurt = hurt /\ up = <<f>>
    BY <1>1, <2>1
  <2>3. Tail(up) = <<>> /\ \A quiet \in 1 .. Len(up) : SubSeq(up, quiet + 1, Len(up)) = <<>>
    BY <2>2
  <2> QED
    BY <1>3, <2>2, <2>3
<1> QED
  BY <1>1, <1>2, <1>3 DEF Turn, Unasked, Taken

\* What is put on a line that is empty is all there is on it.
LEMMA Said ==
    ASSUME down = <<>>
    PROVE  /\ \A answers \in Seq(Answer) : Put(answers) => down' = answers
           /\ \A err : Cancel(err, <<>>) => result' = err /\ down' = <<"CAN", "CAN", "CAN">>
           /\ CountError(<<Again>>) =>
                \/ down' = <<Again>> /\ UNCHANGED result
                \/ result' = "proto" /\ down' = <<"CAN", "CAN", "CAN">>
<1>1. \A answers \in Seq(Answer) : Put(answers) => down' = answers
  BY ConcatEmptySeq DEF Put
<1>2. <<"CAN", "CAN", "CAN">> \in Seq(Answer) /\ <<Again>> \in Seq(Answer)
  BY DEF Answer, Again
<1>3. <<>> \o <<"CAN", "CAN", "CAN">> = <<"CAN", "CAN", "CAN">>
  BY <1>2, ConcatEmptySeq
<1>4. ASSUME NEW err, Cancel(err, <<>>)
      PROVE  result' = err /\ down' = <<"CAN", "CAN", "CAN">>
  BY <1>3, <1>4 DEF Cancel, Put
<1>5. ASSUME CountError(<<Again>>)
      PROVE  \/ down' = <<Again>> /\ UNCHANGED result
             \/ result' = "proto" /\ down' = <<"CAN", "CAN", "CAN">>
  BY <1>1, <1>2, <1>4, <1>5 DEF CountError
<1> QED
  BY <1>1, <1>4, <1>5

\* The receiver has asked again, or has given up, and knows what it knew.
LEMMA AsksAgain ==
    ASSUME IInv, result = "run", Due, up' = <<>>,
           UNCHANGED <<want_hdr, have_hdr, done, expect, pos, file, st, n>>,
           at' = at \/ at' = "top" \/ st = "eot",
           \/ down' \in {<<>>, <<Again>>} /\ UNCHANGED result
           \/ result' = "proto" /\ down' = <<"CAN", "CAN", "CAN">>
           \/ result' = "timeout" /\ down' = <<"CAN", "CAN", "CAN">>
    PROVE  Agreeing'
<1>1. Due'
  BY DEF Due, Fresh, Loading, Ended, Blocks
<1>2. Again' = Again
  BY DEF Again
<1>3. CASE down' \in {<<>>, <<Again>>} /\ UNCHANGED result
  BY <1>1, <1>2, <1>3 DEF Agreeing, Turn, Awaits
<1>4. CASE result' \in {"proto", "timeout"} /\ down' = <<"CAN", "CAN", "CAN">>
  BY <1>4 DEF Agreeing, Over, Failures, Due
<1> QED
  BY <1>3, <1>4

\* A sender that has given up does not care.
LEMMA NotHeard ==
    ASSUME result = "run", GivenUp, up' = <<>>, UNCHANGED <<done, want_hdr, have_hdr, pos, file, st>>,
           at' = at \/ at' = "top", result' = result \/ result' \in Failures
    PROVE  Agreeing'
<1>1. GivenUp'
  BY DEF GivenUp, Ended
<1> QED
  BY <1>1 DEF Agreeing, Turn, Over, GivenUp

LEMMA TimersAgree ==
    ASSUME AInv, calm, calm', Timeout \/ NoSecondEot
    PROVE  Agreeing'
<1>1. /\ result = "run" /\ Turn /\ IInv
      /\ UNCHANGED <<want_hdr, have_hdr, done, expect, pos, file, st, n>>
  BY DEF AInv, Agreeing, YM_OK, Failures, Timeout, NoSecondEot, Running, loopVars, senderVars
<1>2. CASE Timeout
  <2>1. up = <<>> /\ up' = <<>> /\ Heard = <<>> /\ at = "top" /\ at' = at
    BY <1>2 DEF Timeout, Patience
  <2>2. result' = result \/ result' \in Failures
    BY <1>2, Refusal DEF Timeout, Cancel, Failures
  <2>3. ASSUME down = <<>>, want_hdr \/ have_hdr
        PROVE  \/ down' = <<Again>> /\ UNCHANGED result
               \/ result' \in {"proto", "timeout"} /\ down' = <<"CAN", "CAN", "CAN">>
    <3>1. CASE have_hdr
      BY <1>2, <2>3, <3>1, Said DEF Timeout
    <3>2. CASE ~have_hdr
      <4>1. \/ Put(<<"C">>) /\ UNCHANGED result
            \/ Cancel("timeout", <<>>)
        BY <1>2, <3>2 DEF Timeout
      <4>2. <<"C">> \in Seq(Answer)
        BY DEF Answer
      <4> QED
        BY <2>3, <3>2, <4>1, <4>2, Said DEF Again
    <3> QED
      BY <3>1, <3>2
  <2>4. CASE Unasked
    <3>1. CASE st = "absent"
      BY <1>1, <2>1, <2>2, <2>4, <3>1 DEF Agreeing, Turn, Unasked, Fresh, Over
    <3>2. CASE st = "start"
      <4>1. down = <<>> /\ want_hdr
        BY <2>1, <2>4, <3>2 DEF Heard, Unasked, Fresh
      <4>2. Fresh' /\ Again = "C" /\ up' = <<>>
        BY <1>1, <2>1, <2>4, <4>1 DEF Unasked, Fresh, Again
      <4>3. CASE down' = <<Again>> /\ UNCHANGED result
        BY <1>1, <3>2, <4>2, <4>3 DEF Agreeing, Turn, Unasked
      <4>4. CASE result' \in {"proto", "timeout"} /\ down' = <<"CAN", "CAN", "CAN">>
        BY <1>1, <3>2, <4>4 DEF Agreeing, Over, Failures
      <4> QED
        BY <2>3, <4>1, <4>3, <4>4
    <3> QED
      BY <2>4, <3>1, <3>2 DEF Unasked
  <2>5. CASE Due /\ Awaits
    <3>1. down = <<>> /\ (want_hdr \/ have_hdr)
      BY <2>1, <2>5 DEF Heard, Due, Fresh, Loading, Ended
    <3> QED
      BY <1>1, <2>1, <2>3, <2>5, <3>1, AsksAgain
  <2>6. CASE Taken
    BY <2>1, <2>6 DEF Taken, Heard
  <2>7. CASE GivenUp
    BY <1>1, <2>1, <2>2, <2>7, NotHeard
  <2> QED
    BY <1>1, <2>4, <2>5, <2>6, <2>7 DEF Turn
<1>3. CASE NoSecondEot
  <2>1. at = "eot" /\ at' = "top" /\ UNCHANGED <<result, down>>
    BY <1>3 DEF NoSecondEot
  <2>2. CASE up = <<>>
    <3>1. up' = <<>> /\ Heard = <<>>
      BY <1>3, <2>2 DEF NoSecondEot, Patience
    <3>2. (Due /\ Awaits) \/ GivenUp
      BY <1>1, <2>1 DEF Turn, Unasked, Taken, Fresh, Ended, Heard
    <3>3. CASE Due /\ Awaits
      <4>1. down = <<>>
        BY <3>1, <3>3 DEF Heard, Due
      <4> QED
        BY <1>1, <2>1, <3>1, <3>3, <4>1, AsksAgain
    <3> QED
      BY <1>1, <2>1, <3>1, <3>2, <3>3, NotHeard
  <2>3. CASE up # <<>>
    <3> DEFINE f == Head(up)
    <3>1. /\ f \in Arrived
          /\ up' = IF IsBlock(f) THEN <<[f EXCEPT !.hurt = "start"]>> \o Tail(up) ELSE Tail(up)
      BY <1>3, <2>3 DEF NoSecondEot, Arrived
    <3> HIDE DEF f
    <3>2. CASE GivenUp /\ f.kind = "can"
      BY <1>1, <2>1, <3>1, <3>2, OnLine, NotHeard DEF IsBlock
    <3>3. CASE Due /\ down = <<>> /\ (st \in {"data", "eot"} => f.kind = st)
      <4>1. st = "eot"
        BY <2>1, <3>3 DEF Due, Fresh, Ended
      <4>2. up' = <<>> /\ down' = <<>>
        BY <1>1, <2>1, <3>1, <3>3, <4>1, OnLine DEF IsBlock
      <4> QED
        BY <1>1, <2>1, <3>3, <4>2, AsksAgain
    <3> QED
      BY <1>1, <3>1, <3>2, <3>3, OnLine
  <2> QED
    BY <2>2, <2>3
<1> QED
  BY <1>2, <1>3

\* A frame that came to nothing.
LEMMA SpoiltAgree ==
    ASSUME AInv, calm, calm', Noise \/ EarlyNoise \/ BadBlock \/ SenderCancels
    PROVE  Agreeing'
<1>1. PICK f \in Arrived :
        /\ result = "run" /\ IInv
        /\ UNCHANGED <<want_hdr, have_hdr, done, expect, pos, file, st, n, at>>
        /\ \/ up' = Tail(up)
           \/ \E quiet \in 1 .. Len(up) : up' = SubSeq(up, quiet + 1, Len(up))
        /\ \/ CountError(<<Again>>)
           \/ UNCHANGED <<down, result>>
           \/ f.kind = "can" /\ result' = "cancel" /\ UNCHANGED down
  BY DEF AInv, Noise, EarlyNoise, BadBlock, SenderCancels, Reads, ReadsAndPurges, Running,
         loopVars, recvVars, senderVars
<1>2. up' = <<>>
  BY <1>1, OnLine
<1>3. CASE GivenUp
  <2>1. result' = result \/ result' \in Failures
    BY <1>1, Refusal DEF Failures
  <2> QED
    BY <1>1, <1>2, <1>3, <2>1, NotHeard
<1>4. CASE Due /\ down = <<>> /\ f.kind # "can"
  <2>1. \/ down' \in {<<>>, <<Again>>} /\ UNCHANGED result
        \/ result' = "proto" /\ down' = <<"CAN", "CAN", "CAN">>
    BY <1>1, <1>4, Said
  <2> QED
    BY <1>1, <1>2, <1>4, <2>1, AsksAgain
<1>5. Due => f.kind # "can"
  BY <1>1, OnLine DEF Due, GivenUp
<1> QED
  BY <1>1, <1>3, <1>4, <1>5, OnLine DEF Due

LEMMA EndsAgree ==
    ASSUME AInv, calm, calm', FirstEot \/ SecondEot \/ DamagedToEot
    PROVE  Agreeing'
<1>1. PICK f \in Arrived :
        /\ result = "run" /\ IInv /\ (DamagedToEot => f.hurt = "eot")
        /\ ~DamagedToEot => f.kind = "eot" /\ up' = Tail(up)
        /\ UNCHANGED <<file, st, n, result>>
  BY DEF AInv, Arrived, FirstEot, SecondEot, DamagedToEot, FileEnds, ReadsEot, Reads, Running,
         loopVars, recvVars, senderVars
<1>2. ~DamagedToEot
  BY <1>1, OnLine
<1>3. up' = <<>> /\ st = "eot" /\ Due /\ down = <<>>
  BY <1>1, <1>2, OnLine DEF Due
<1>4. Loading(Blocks(file) + 1)
  BY <1>3 DEF Due
<1>5. CASE FirstEot
  <2>1. Put(<<"NAK">>) /\ UNCHANGED <<want_hdr, have_hdr, done, expect, pos>>
    BY <1>5 DEF FirstEot, loopVars
  <2>2. <<"NAK">> \in Seq(Answer) /\ Again = "NAK"
    BY <1>4 DEF Answer, Again, Loading
  <2>3. down' = <<Again>>
    BY <1>3, <2>1, <2>2, Said
  <2> QED
    BY <1>1, <1>3, <2>1, <2>3, AsksAgain
<1>6. CASE SecondEot
  <2>1. /\ done' = TRUE /\ want_hdr' = TRUE /\ at' = "top" /\ UNCHANGED <<have_hdr, pos>>
        /\ Put(<<>> \o <<"ACK", "C">>)
    BY <1>6 DEF SecondEot, FileEnds
  <2>2. <<"ACK", "C">> \in Seq(Answer)
    BY DEF Answer
  <2>3. down' = <<"ACK", "C">>
    BY <1>3, <2>1, <2>2, Said, ConcatEmptySeq
  <2>4. Ended'
    BY <1>1, <1>4, <2>1, WholeFile DEF Ended, Loading
  <2> QED
    BY <1>1, <1>3, <2>3, <2>4 DEF Agreeing, Turn, Taken
<1> QED
  BY <1>2, <1>5, <1>6

\* The only whole blocks that come are the one header asked for and the one block asked for.
LEMMA BlocksInTurn ==
    ASSUME AInv, calm, result = "run", W > 1, NEW f \in Arrived, IsBlock(f)
    PROVE  /\ down = <<>> /\ Tail(up) = <<>>
           /\ \/ st \in {"hdr", "null"} /\ Due /\ IsHeader(f)
              \/ /\ st = "data" /\ Due /\ n \in 1 .. Blocks(file) /\ f.kind = "data" /\ f.n = n
                 /\ blk(f) = expect /\ ~IsHeader(f) /\ ~IsHeaderAgain(f) /\ ~IsDuplicate(f)
<1>1. /\ down = <<>> /\ Tail(up) = <<>> /\ Due /\ st \in {"hdr", "data", "null"}
      /\ st \in {"hdr", "null"} => f.n = 0
      /\ st = "data" => f.kind = "data" /\ f.n = n
  BY OnLine DEF IsBlock, Due
<1>2. CASE st \in {"hdr", "null"}
  <2>1. blk(f) = 0 /\ want_hdr
    BY <1>1, <1>2, Counting DEF blk, Due, Fresh, Ended
  <2> QED
    BY <1>1, <1>2, <2>1 DEF IsHeader
<1>3. CASE st = "data"
  <2>1. Loading(n) /\ n \in 1 .. Blocks(file) /\ Blocks(file) \in Nat
    BY <1>1, <1>3, WholeFile DEF Due, AInv, IInv, Line
  <2>2. blk(f) = expect /\ ~IsHeader(f) /\ n \in Nat /\ n >= 1
    BY <1>1, <1>3, <2>1 DEF blk, Loading, IsHeader
  <2>3. ~IsDuplicate(f)
    BY <2>1, <2>2, Counting DEF IsDuplicate, Loading
  <2>4. ~IsHeaderAgain(f)
    <3>1. CASE n = 1
      <4>1. blk(f) = 1 % W /\ 1 % W = 1
        BY <1>1, <1>3, <3>1, Counting DEF blk
      <4> QED
        BY <4>1 DEF IsHeaderAgain
    <3>2. CASE n > 1
      BY <2>1, <3>2 DEF IsHeaderAgain, Loading
    <3> QED
      BY <2>2, <3>1, <3>2
  <2> QED
    BY <1>1, <1>3, <2>1, <2>2, <2>3, <2>4
<1> QED
  BY <1>1, <1>2, <1>3

LEMMA HeadersAgree ==
    ASSUME AInv, calm, calm', W > 1, Header \/ Close
    PROVE  Agreeing'
<1>1. PICK f \in Arrived :
        /\ result = "run" /\ IInv /\ IsBlock(f) /\ IsHeader(f) /\ at = "top"
        /\ up' = Tail(up) /\ UNCHANGED <<expect, pos, file, st, n, at>>
  BY DEF AInv, Header, Close, GoodBlock, Reads, Running, senderVars
<1>2. up' = <<>> /\ down = <<>> /\ Due /\ st \in {"hdr", "null"}
  BY <1>1, BlocksInTurn
<1>3. (st = "hdr" /\ Fresh) \/ (st = "null" /\ Ended)
  BY <1>2 DEF Due
<1>4. CASE Header
  <2>1. ~done /\ have_hdr' = TRUE /\ want_hdr' = FALSE /\ Put(<<"ACK", "C">>)
        /\ UNCHANGED <<done, result>>
    BY <1>4 DEF Header
  <2>2. st = "hdr" /\ Fresh
    BY <1>3, <2>1 DEF Ended
  <2>3. Loading(1)'
    BY <1>1, <2>1, <2>2, WholeFile DEF Loading, Fresh
  <2>4. <<"ACK", "C">> \in Seq(Answer)
    BY DEF Answer
  <2>5. down' = <<"ACK", "C">>
    BY <1>2, <2>1, <2>4, Said
  <2> QED
    BY <1>1, <1>2, <2>1, <2>2, <2>3, <2>5 DEF Agreeing, Turn, Taken
<1>5. CASE Close
  <2>1. \/ Cancel("proto", <<>>)
        \/ ~done /\ result' = "proto" /\ Put(<<"ACK">>)
        \/ done /\ result' = YM_OK
    BY <1>5 DEF Close, Cancel
  <2>2. CASE Cancel("proto", <<>>)
    BY <1>1, <1>2, <2>2, Said DEF Agreeing, Over, Failures
  <2>3. CASE ~done /\ result' = "proto" /\ Put(<<"ACK">>)
    <3>1. st = "hdr"
      BY <1>3, <2>3 DEF Ended
    <3>2. <<"ACK">> \in Seq(Answer)
      BY DEF Answer
    <3>3. down' = <<"ACK">>
      BY <1>2, <2>3, <3>2, Said
    <3> QED
      BY <1>1, <2>3, <3>1, <3>3 DEF Agreeing, Over, Failures
  <2>4. CASE done /\ result' = YM_OK
    <3>1. Ended
      BY <1>3, <2>4 DEF Fresh
    <3> QED
      BY <1>1, <2>4, <3>1 DEF Agreeing, Ended
  <2> QED
    BY <2>1, <2>2, <2>3, <2>4
<1> QED
  BY <1>4, <1>5

\* While the two ends agree nothing comes twice and nothing comes out of turn.
LEMMA NothingTwice ==
    ASSUME AInv, calm, W > 1
    PROVE  ~HeaderAgain /\ ~Unwanted /\ ~Duplicate /\ ~OutOfSequence
<1> SUFFICES ASSUME HeaderAgain \/ Unwanted \/ Duplicate \/ OutOfSequence
             PROVE  FALSE
  OBVIOUS
<1>1. PICK f \in Arrived :
        /\ result = "run" /\ IsBlock(f)
        /\ \/ IsHeaderAgain(f)
           \/ IsData(f) /\ (~have_hdr \/ done)
           \/ IsData(f) /\ IsDuplicate(f)
           \/ IsData(f) /\ blk(f) # expect
  BY DEF HeaderAgain, Unwanted, Duplicate, OutOfSequence, Wanted, GoodBlock, Reads, Running
<1>2. CASE st \in {"hdr", "null"} /\ IsHeader(f)
  BY <1>1, <1>2 DEF IsData, IsHeaderAgain, IsHeader
<1>3. CASE /\ st = "data" /\ Due
           /\ blk(f) = expect /\ ~IsHeaderAgain(f) /\ ~IsDuplicate(f)
  BY <1>1, <1>3 DEF Due, Loading
<1> QED
  BY <1>1, <1>2, <1>3, BlocksInTurn

LEMMA TakingAgrees ==
    ASSUME AInv, calm, calm', W > 1, NoRoom \/ FirstBlock \/ NextBlock
    PROVE  Agreeing'
<1>1. PICK f \in Arrived :
        /\ result = "run" /\ IInv /\ IsBlock(f) /\ IsData(f)
        /\ up' = Tail(up)
        /\ UNCHANGED <<want_hdr, have_hdr, done, file, st, n, at>>
        /\ \/ Cancel("toobig", <<>>)
           \/ /\ pos' = pos + len(f) /\ expect' = (expect + 1) % W
              /\ Put(<<"ACK">>) /\ UNCHANGED result
  BY DEF AInv, NoRoom, FirstBlock, NextBlock, Expected, Wanted, GoodBlock, Reads, Running, senderVars
<1>2. /\ up' = <<>> /\ down = <<>> /\ st = "data" /\ Due
      /\ n \in 1 .. Blocks(file) /\ f.kind = "data" /\ f.n = n
  BY <1>1, BlocksInTurn DEF IsData
<1>3. Loading(n) /\ at = "top"
  BY <1>2 DEF Due
<1>4. CASE Cancel("toobig", <<>>)
  BY <1>1, <1>2, <1>4, Said DEF Agreeing, Over, Failures
<1>5. CASE /\ pos' = pos + len(f) /\ expect' = (expect + 1) % W
           /\ Put(<<"ACK">>) /\ UNCHANGED result
  <2>1. <<"ACK">> \in Seq(Answer)
    BY DEF Answer
  <2>2. down' = <<"ACK">>
    BY <1>2, <1>5, <2>1, Said
  <2>3. f \in Fine /\ Big \in Nat /\ pos \in Nat /\ n \in Nat
    BY <1>1, <1>2, AtHead, WholeFile, YmodemAssumption DEF IInv, Place
  <2>4. len(f) \in 1 .. Big /\ file.cut[n + 1] = file.cut[n] + len(f)
    BY <1>1, <1>2, <2>3, Blocklength DEF IInv, Line
  <2>5. pos' = file.cut[n + 1] /\ pos' > 0
    BY <1>3, <1>5, <2>3, <2>4 DEF Loading
  <2>6. expect' = (n + 1) % W
    BY <1>3, <1>5, <2>3, Counting DEF Loading
  <2>7. Loading(n + 1)'
    BY <1>1, <1>3, <2>5, <2>6 DEF Loading
  <2> QED
    BY <1>1, <1>2, <1>3, <1>5, <2>2, <2>7 DEF Agreeing, Turn, Taken
<1> QED
  BY <1>1, <1>4, <1>5

\* The sender repeats its frame, or gives up.
LEMMA RepeatsAgree ==
    ASSUME Due, Repeats, up = <<>>, down' = <<>>, result = "run",
           UNCHANGED <<want_hdr, have_hdr, done, expect, pos, file, at, result>>
    PROVE  Agreeing'
<1>1. CASE up' = Append(up, Outgoing(st, n)) /\ UNCHANGED <<st, n>>
  <2>1. Due'
    BY <1>1 DEF Due, Fresh, Loading, Ended, Blocks
  <2>2. up' = <<[Outgoing(st, n) EXCEPT !.hurt = "no"]>> /\ Outgoing(st, n)' = Outgoing(st, n)
    BY <1>1 DEF Outgoing
  <2>3. Sent'
    BY <1>1, <2>2 DEF Sent, Outgoing
  <2> QED
    BY <2>1, <2>3 DEF Agreeing, Turn, Awaits
<1>2. CASE st' = "failed" /\ up' = Append(up, [kind |-> "can", n |-> 0, hurt |-> "no"])
  <2>1. up' = <<[kind |-> "can", n |-> 0, hurt |-> "no"]>>
    BY <1>2
  <2>2. done' => Ended'
    BY DEF Due, Fresh, Loading, Ended
  <2> QED
    BY <1>2, <2>1, <2>2 DEF Agreeing, Turn, GivenUp
<1> QED
  BY <1>1, <1>2 DEF Repeats

\* The sender sends the frame that the receiver waits for.
LEMMA SendsAgree ==
    ASSUME NEW state, NEW k, Sends(state, k), up = <<>>, down' = <<>>, result = "run",
           \/ state = "hdr" /\ Fresh
           \/ state = "data" /\ Loading(k) /\ at = "top"
           \/ state = "eot" /\ Loading(Blocks(file) + 1)
           \/ state = "null" /\ Ended,
           UNCHANGED <<want_hdr, have_hdr, done, expect, pos, file, at, result>>
    PROVE  Agreeing'
<1>1. st' = state /\ n' = k /\ up' = <<Outgoing(state, k)>>
  BY DEF Sends
<1>2. Due'
  BY <1>1 DEF Due, Fresh, Loading, Ended, Blocks
<1>3. [Outgoing(st, n)' EXCEPT !.hurt = "no"] = Outgoing(state, k)
  BY <1>1 DEF Outgoing
<1>4. Sent'
  BY <1>1, <1>3 DEF Sent, Outgoing
<1> QED
  BY <1>2, <1>4 DEF Agreeing, Turn, Awaits

LEMMA SenderAgrees ==
    ASSUME AInv, calm, calm', SenderReads \/ Arrives \/ SenderTimeout
    PROVE  Agreeing'
<1>1. UNCHANGED <<want_hdr, have_hdr, done, expect, pos, file, at, result>> /\ IInv /\ Agreeing
  BY DEF AInv, SenderReads, Arrives, SenderTimeout, recvVars, loopVars
<1>2. CASE result = YM_OK /\ pos = file.cut[Len(file.cut)]
  BY <1>1, <1>2 DEF Agreeing
<1>3. CASE result \in Failures /\ Over
  <2>1. CASE Arrives
    BY <1>1, <1>3, <2>1 DEF Arrives, Waits, Agreeing, Over
  <2>2. CASE SenderReads
    <3>1. \/ st = "hdr" /\ down = <<"ACK">>
          \/ down = <<"CAN", "CAN", "CAN">>
      BY <1>3, <2>2 DEF SenderReads, Over
    <3>2. CASE st = "hdr" /\ down = <<"ACK">>
      <4>1. Waits("go") /\ down' = <<>>
        BY <2>2, <3>2 DEF SenderReads, Hears
      <4> QED
        BY <1>1, <1>3, <4>1 DEF Waits, Agreeing, Over
    <3>3. CASE down = <<"CAN", "CAN", "CAN">>
      <4>1. Waits("failed")
        BY <2>2, <3>3 DEF SenderReads, Hears
      <4> QED
        BY <1>1, <1>3, <4>1 DEF Waits, Agreeing, Over
    <3> QED
      BY <3>1, <3>2, <3>3
  <2>3. CASE SenderTimeout
    BY <1>3, <2>3 DEF SenderTimeout, SendingStates, Over
  <2> QED
    BY <2>1, <2>2, <2>3
<1>4. CASE result = "run" /\ Turn
  <2>1. CASE Unasked
    <3>1. CASE Arrives
      BY <1>1, <1>4, <2>1, <3>1 DEF Arrives, Waits, Agreeing, Turn, Unasked, Fresh
    <3>2. CASE SenderReads
      <4>1. st = "start" /\ down = <<"C">>
        BY <2>1, <3>2 DEF SenderReads, Unasked
      <4>2. Sends("hdr", 0) /\ down' = <<>>
        BY <3>2, <4>1 DEF SenderReads, Hears, SendingStates
      <4> QED
        BY <1>1, <1>4, <2>1, <4>2, SendsAgree DEF Unasked
    <3>3. ~SenderTimeout
      BY <2>1 DEF SenderTimeout, SendingStates, Unasked
    <3> QED
      BY <3>1, <3>2, <3>3
  <2>2. CASE Due /\ Awaits
    <3>1. ~Arrives
      BY <2>2 DEF Arrives, Due
    <3>2. CASE SenderReads
      <4>1. up = <<>> /\ down = <<Again>>
        BY <2>2, <3>2 DEF SenderReads, Awaits
      <4>2. Hears(Again) /\ down' = <<>>
        BY <3>2, <4>1 DEF SenderReads
      <4>3. st \in SendingStates /\ Again \in {"NAK", "C"}
        BY <2>2 DEF Due, SendingStates, Again
      <4>4. Repeats
        BY <4>2, <4>3 DEF Hears, SendingStates
      <4> QED
        BY <1>1, <1>4, <2>2, <4>1, <4>2, <4>4, RepeatsAgree
    <3>3. CASE SenderTimeout
      <4>1. up = <<>> /\ down' = <<>> /\ Repeats
        BY <3>3 DEF SenderTimeout, Patience
      <4> QED
        BY <1>1, <1>4, <2>2, <4>1, RepeatsAgree
    <3> QED
      BY <3>1, <3>2, <3>3
  <2>3. CASE Taken
    <3>1. SenderReads
      BY <2>3 DEF Taken, Arrives, SenderTimeout
    <3>2. Hears(Head(down)) /\ down' = Tail(down) /\ up = <<>>
      BY <2>3, <3>1 DEF SenderReads, Taken
    <3>3. CASE st = "hdr" /\ Loading(1) /\ at = "top" /\ down = <<"ACK", "C">>
      <4>1. Waits("go") /\ down' = <<"C">>
        BY <3>2, <3>3 DEF Hears
      <4>2. Loading(1)'
        BY <1>1, <3>3 DEF Loading
      <4> QED
        BY <1>1, <1>4, <3>2, <3>3, <4>1, <4>2 DEF Waits, Agreeing, Turn, Taken
    <3>4. ASSUME NEW k \in 1 .. Blocks(file) + 1, Loading(k), at = "top", SendsFrom(k), down' = <<>>
          PROVE  Agreeing'
      <4>1. CASE k <= Blocks(file)
        BY <1>1, <1>4, <3>2, <3>4, <4>1, SendsAgree DEF SendsFrom
      <4>2. CASE k > Blocks(file)
        <5>1. k = Blocks(file) + 1 /\ Sends("eot", k)
          BY <1>1, <3>4, <4>2, WholeFile DEF SendsFrom
        <5> QED
          BY <1>1, <1>4, <3>2, <3>4, <5>1, SendsAgree
      <4> QED
        BY <1>1, <3>4, <4>1, <4>2, WholeFile
    <3>5. CASE st = "go" /\ Loading(1) /\ at = "top" /\ down = <<"C">>
      <4>1. SendsFrom(1) /\ down' = <<>> /\ 1 \in 1 .. Blocks(file) + 1
        BY <1>1, <3>2, <3>5, WholeFile DEF Hears, SendingStates
      <4> QED
        BY <3>4, <3>5, <4>1
    <3>6. CASE st = "data" /\ Loading(n + 1) /\ at = "top" /\ down = <<"ACK">>
      <4>1. SendsFrom(n + 1) /\ down' = <<>>
        BY <3>2, <3>6 DEF Hears
      <4>2. n + 1 \in 1 .. Blocks(file) + 1
        BY <1>1, <3>6, WholeFile DEF IInv, Line
      <4> QED
        BY <3>4, <3>6, <4>1, <4>2
    <3>7. CASE st = "eot" /\ Ended /\ down = <<"ACK", "C">>
      <4>1. Waits("close") /\ down' = <<"C">>
        BY <3>2, <3>7 DEF Hears
      <4>2. Ended'
        BY <1>1, <3>7 DEF Ended
      <4> QED
        BY <1>1, <1>4, <3>2, <4>1, <4>2 DEF Waits, Agreeing, Turn, Taken
    <3>8. CASE st = "close" /\ Ended /\ down = <<"C">>
      <4>1. Sends("null", 0) /\ down' = <<>>
        BY <3>2, <3>8 DEF Hears, SendingStates
      <4> QED
        BY <1>1, <1>4, <3>2, <3>8, <4>1, SendsAgree
    <3> QED
      BY <2>3, <3>3, <3>5, <3>6, <3>7, <3>8 DEF Taken
  <2>4. CASE GivenUp
    BY <2>4 DEF GivenUp, SenderReads, Arrives, SenderTimeout, SendingStates
  <2> QED
    BY <1>4, <2>1, <2>2, <2>3, <2>4 DEF Turn
<1> QED
  BY <1>1, <1>2, <1>3, <1>4 DEF Agreeing

\* A frame that is lost or spoilt leaves the receiver waiting for it.
LEMMA FaultsAgree ==
    ASSUME AInv, calm, calm', LoseFrame \/ LoseAnswer \/ DamageFrame
    PROVE  Agreeing'
<1>1. /\ result = "run" /\ IInv /\ up # <<>>
      /\ UNCHANGED <<want_hdr, have_hdr, done, expect, pos, file, st, n, at, result, down>>
  BY DEF AInv, LoseFrame, LoseAnswer, DamageFrame, Fault, Running, recvVars, loopVars, senderVars
<1>2. PICK f \in Arrived : f = Head(up)
  BY <1>1 DEF Arrived
<1>3. CASE GivenUp /\ f.kind = "can"
  <2>1. up' = <<>> \/ up' = <<[kind |-> "can", n |-> 0, hurt |-> "start"]>>
    <3>1. CASE LoseFrame
      BY <1>1, <1>2, <3>1, OnLine DEF LoseFrame
    <3>2. CASE DamageFrame
      <4>1. up = <<f>> /\ f = [kind |-> "can", n |-> 0, hurt |-> f.hurt]
        BY <1>1, <1>2, <1>3, OnLine DEF GivenUp, Due
      <4>2. up' = [up EXCEPT ![1].hurt = "start"]
        BY <1>2, <1>3, <3>2 DEF DamageFrame, IsBlock
      <4> QED
        BY <4>1, <4>2
    <3> QED
      BY <3>1, <3>2 DEF LoseAnswer
  <2>2. GivenUp'
    BY <1>1, <1>3, <2>1 DEF GivenUp, Ended
  <2> QED
    BY <1>1, <2>2 DEF Agreeing, Turn
<1>4. CASE Due /\ down = <<>>
  <2>1. Due' /\ Outgoing(st, n)' = Outgoing(st, n)
    BY <1>1, <1>4 DEF Due, Fresh, Loading, Ended, Blocks, Outgoing
  <2>2. CASE LoseFrame
    BY <1>1, <1>2, <1>4, <2>1, <2>2, OnLine DEF LoseFrame, Agreeing, Turn, Awaits
  <2>3. CASE DamageFrame
    <3>1. PICK hurt \in {"body", "start"} : up' = [up EXCEPT ![1].hurt = hurt]
      BY <2>3 DEF DamageFrame
    <3>2. up = <<f>> /\ f = [Outgoing(st, n) EXCEPT !.hurt = f.hurt]
      BY <1>1, <1>2, <1>4, OnLine DEF GivenUp, Due
    <3>3. up' = <<[Outgoing(st, n) EXCEPT !.hurt = hurt]>>
      BY <3>1, <3>2 DEF Outgoing
    <3>4. Sent'
      BY <1>1, <2>1, <3>3 DEF Sent, Outgoing
    <3> QED
      BY <1>1, <1>4, <2>1, <3>4 DEF Agreeing, Turn, Awaits
  <2> QED
    BY <2>2, <2>3 DEF LoseAnswer
<1> QED
  BY <1>1, <1>2, <1>3, <1>4, OnLine

LEMMA InitAInv ==
    ASSUME Init, W > 1
    PROVE  AInv
<1>1. Unasked
  BY DEF Init, Unasked, Fresh
<1> QED
  BY <1>1, InitIInv DEF Init, AInv, Agreeing, Turn

LEMMA NextAInv ==
    ASSUME AInv, W > 1, [Next]_vars
    PROVE  AInv'
<1>1. IInv'
  BY NextIInv DEF AInv
<1>2. calm' => calm
  BY DEF Next, Receive, vars, Timeout, Patience, FirstEot, SecondEot, NoSecondEot, DamagedToEot,
         FileEnds, SenderCancels, Noise, EarlyNoise, BadBlock, Header, Close, HeaderAgain,
         Unwanted, Duplicate, OutOfSequence, NoRoom, FirstBlock, NextBlock, Expected, Wanted,
         GoodBlock, SenderReads, Arrives, SenderTimeout, LoseFrame, LoseAnswer, DamageFrame
<1>3. ASSUME calm, calm' PROVE Agreeing'
  <2>1. CASE UNCHANGED vars
    <3>1. Agreeing
      BY <1>3 DEF AInv
    <3>2. /\ UNCHANGED <<want_hdr, have_hdr, done, expect, pos, at, result>>
          /\ UNCHANGED <<up, down, file, st, n>>
      BY <2>1 DEF vars, recvVars, loopVars, lineVars, senderVars
    <3> QED
      BY <3>1, <3>2 DEF Agreeing, Turn, Unasked, Due, Awaits, Sent, Again, Outgoing, Taken,
                        GivenUp, Over, Fresh, Loading, Ended, Blocks
  <2>2. CASE Next
    BY <1>3, <2>2, TimersAgree, SpoiltAgree, EndsAgree, HeadersAgree, NothingTwice, TakingAgrees,
       SenderAgrees, FaultsAgree DEF Next, Receive
  <2> QED
    BY <2>1, <2>2
<1> QED
  BY <1>1, <1>2, <1>3 DEF AInv

\* Agreed: while no answer is lost or overtaken by a timer, what ym_receive accepts is the
\* whole file and a sender that is through was believed, for files of any number of blocks.
THEOREM BothEndsAgree ==
    ASSUME W > 1
    PROVE  Spec => []Agreed
<1>1. AInv => Agreed
  <2>1. ASSUME AInv, calm, result = YM_OK
        PROVE  pos = file.cut[Len(file.cut)]
    BY <2>1 DEF AInv, Agreeing, YM_OK, Failures
  <2>2. ASSUME AInv, calm, st = "done"
        PROVE  result = YM_OK
    BY <2>2 DEF AInv, Agreeing, Turn, Unasked, Due, Taken, GivenUp, Over
  <2> QED
    BY <2>1, <2>2 DEF Agreed
<1>2. Init => AInv
  BY InitAInv
<1>3. AInv /\ [Next]_vars => AInv'
  BY NextAInv
<1> QED
  BY <1>1, <1>2, <1>3, PTL DEF Spec

================================================================================
