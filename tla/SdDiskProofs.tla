------------------------------ MODULE SdDiskProofs -----------------------------
(***************************************************************************)
(* The driver and its card, for cards of any size, any number of faults and   *)
(* changes, and any patience of the driver: a drive that is ready counts      *)
(* sectors as its card does; what it reads and writes with success is true;   *)
(* and an initialisation of which no command was lost succeeds.               *)
(*                                                                            *)
(* The driver learns how a card counts in one place, from the answer to       *)
(* CMD58; it does not ask a card that did not know CMD8.  So the invariant    *)
(* follows an initialisation from command to command: CMD0 has made the card  *)
(* forget that it was ready, a high capacity card gets ready only if it was   *)
(* told that it may, and the answer to CMD58 is the one that is read.  The    *)
(* other two say what the line holds for each command: which sector, and      *)
(* whether the card has it, or how far an initialisation has come.            *)
(***************************************************************************)
EXTENDS SdDisk, SequenceTheorems, WellFoundedInduction, TLAPS

InitCmd == {0, 8, 55, 41, 58, 16}
Cmd == InitCmd \cup {17, 24, 13}

IsCard(c) ==
    c = [kind |-> c.kind, state |-> c.state, idles |-> c.idles, taking |-> c.taking, failed |-> c.failed]

\* Nothing in the line reads as the answer "idle".
Silent == \A k \in 1 .. R1_TRIES : Byte(out, k) # 1

\* The answer to CMD58, after a wait that the driver has patience for.
Capacity == IF IsHc THEN 192 ELSE 128
Told == \E lag \in 0 .. R1_TRIES - 1 : out = Fill(lag, 255) \o <<R1OfCard, Capacity, 255, 128, 0>>

Known == card.state = "ready" => sd_hc = IsHc

Shape ==
    /\ IsCard(card) /\ v2 \in BOOLEAN
    /\ at \in Cmd \cup {REST, WROTE}
    /\ at \in InitCmd <=> req.op = "init"

Course ==
    ~Doubt =>
        /\ at = 0 => card.state = "idle" \/ Silent
        /\ at = 8 => card.state # "ready"
        /\ at \in {55, 41} => (IsHc /\ card.state = "ready" => v2)
        /\ at = 58 => Told
        /\ at = 16 => Known
        /\ at \notin InitCmd /\ drive_status = "ready" => Known

IInv == Shape /\ Course

--------------------------------------------------------------------------------
(* Bytes. *)

\* A loop reads at least one byte, and at most as many as it may.
LEMMA LoopRange ==
    ASSUME NEW s, NEW most \in Nat \ {0}, NEW B
    PROVE  /\ Loop(s, most, B) \in 1 .. most
           /\ (\A k \in 1 .. most : Byte(s, k) \notin B) => Loop(s, most, B) = most
<1> DEFINE hits == {k \in 1 .. most : Byte(s, k) \in B}
<1>1. CASE hits = {}
  BY <1>1 DEF Loop
<1>2. CASE hits # {}
  <2> DEFINE less == OpToRel(<, Nat)
  <2> HIDE DEF hits
  <2>1. hits \subseteq Nat
    BY DEF hits
  <2>2. PICK k \in hits : \A j \in hits : <<j, k>> \notin less
    BY <1>2, <2>1, WFMin, NatLessThanWellFounded
  <2>3. \A j \in hits : j < k => <<j, k>> \in less
    BY <2>1 DEF OpToRel
  <2> HIDE DEF less
  <2>4. \A j \in hits : k <= j
    <3> SUFFICES ASSUME NEW j \in hits PROVE k <= j
      OBVIOUS
    <3>1. j \in Nat /\ k \in Nat /\ ~(j < k)
      BY <2>1, <2>2, <2>3
    <3> QED
      BY <3>1
  <2> QED
    BY <1>2, <2>4 DEF Loop, hits
<1> QED
  BY <1>1, <1>2

\* The response that is read is one of the first R1_TRIES bytes.
LEMMA ResponseByte == R1Bytes \in 1 .. R1_TRIES
<1>1. R1_TRIES \in Nat \ {0}
  BY SdDiskAssumption
<1> QED
  BY <1>1, LoopRange DEF R1Bytes

\* A loop ends with the first byte that it waits for.
LEMMA FirstByte ==
    ASSUME NEW s, NEW most \in Nat, NEW B, NEW m \in 1 .. most,
           Byte(s, m) \in B, \A k \in 1 .. m - 1 : Byte(s, k) \notin B
    PROVE  Loop(s, most, B) = m
<1> DEFINE hits == {k \in 1 .. most : Byte(s, k) \in B}
<1>1. m \in hits /\ \A k \in hits : k \in Nat /\ m <= k
  OBVIOUS
<1>2. Loop(s, most, B) = CHOOSE k \in hits : \A j \in hits : k <= j
  BY <1>1 DEF Loop
<1> HIDE DEF hits
<1>3. \A k \in hits : (\A j \in hits : k <= j) => k = m
  BY <1>1
<1> QED
  BY <1>1, <1>2, <1>3

\* The bytes of an answer with its wait.
LEMMA Spelled ==
    ASSUME NEW lag \in Nat, NEW b, NEW h, out = Fill(lag, 255) \o <<b, h, 255, 128, 0>>
    PROVE  /\ Byte(out, lag + 1) = b /\ Byte(out, lag + 2) = h
           /\ \A k \in 1 .. lag : Byte(out, k) = 255
<1>1. /\ Fill(lag, 255) \in Seq(0 .. 255) /\ Len(Fill(lag, 255)) = lag
      /\ \A k \in 1 .. lag : Fill(lag, 255)[k] = 255
  BY DEF Fill
<1>2. /\ Len(out) = lag + 5 /\ out[lag + 1] = b /\ out[lag + 2] = h
      /\ \A k \in 1 .. lag : out[k] = 255
  BY <1>1
<1> QED
  BY <1>2 DEF Byte

\* An answer that comes in time is the one that is read, and what follows it is known.
LEMMA Answered ==
    ASSUME NEW lag \in 0 .. R1_TRIES - 1, NEW b \in 0 .. 127, NEW h,
           Byte(out, lag + 1) = b, Byte(out, lag + 2) = h,
           \A k \in 1 .. lag : Byte(out, k) = 255
    PROVE  R1Bytes = lag + 1 /\ r = b /\ Byte(out, (R1Bytes + 4) - 3) = h
<1> DEFINE m == lag + 1
<1>1. R1_TRIES \in Nat /\ m \in 1 .. R1_TRIES /\ m - 1 = lag /\ (m + 4) - 3 = lag + 2
  BY SdDiskAssumption
<1>2. Byte(out, m) \in 0 .. 127 /\ Byte(out, m) = b
  OBVIOUS
<1> HIDE DEF m
<1>3. \A k \in 1 .. m - 1 : Byte(out, k) \notin 0 .. 127
  BY <1>1
<1>4. Loop(out, R1_TRIES, 0 .. 127) = m
  BY <1>1, <1>2, <1>3, FirstByte
<1>5. R1Bytes = m
  BY <1>4 DEF R1Bytes
<1> QED
  BY <1>1, <1>2, <1>5 DEF r, m

--------------------------------------------------------------------------------
(* What a command does to the card, and what the line holds after it. *)

\* What a card becomes when it obeys.
LEMMA Obedience ==
    ASSUME IsCard(card), NEW c \in Cmd, NEW arg, NEW ans \in Obeys(c, arg)
    PROVE  /\ IsCard(ans.card) /\ ans.card.kind = card.kind
           /\ c = 0 => ans.card.state = "idle"
           /\ c \notin {0, 41} \/ (c = 41 /\ IsHc /\ arg = 0) => ans.card.state = card.state
           /\ c = 58 => ans.card = card /\ ans.says = <<R1OfCard, Capacity, 255, 128, 0>>
<1>1. \A says : \A any \in Says(says) : any.card = card /\ any.says = says
  BY DEF Says
<1>2. CASE c \in {16, 17, 24, 13} /\ card.state # "ready"
  <2>1. Obeys(c, arg) = Says(<<5>>)
    BY <1>2 DEF Obeys
  <2> QED
    BY <1>1, <1>2, <2>1
<1>3. CASE c = 0
  <2>1. Obeys(c, arg) = {[card |-> [card EXCEPT !.state = "idle", !.idles = 0, !.taking = -1], says |-> <<1>>]}
    BY <1>3 DEF Obeys
  <2>2. ans.card = [card EXCEPT !.state = "idle", !.idles = 0, !.taking = -1]
    BY <2>1
  <2>3. ans.card = [kind |-> card.kind, state |-> "idle", idles |-> 0, taking |-> -1, failed |-> card.failed]
    BY <2>2 DEF IsCard
  <2> QED
    BY <1>3, <2>3 DEF IsCard
<1>4. CASE c \in {8, 55} \/ (c \in {16, 13} /\ card.state = "ready")
  <2>1. \E says : Obeys(c, arg) = Says(says)
    BY <1>4 DEF Obeys
  <2> QED
    BY <1>1, <1>4, <2>1
<1>5. CASE c = 41
  <2>1. ans \in Acmd41(arg)
    BY <1>5 DEF Obeys
  <2>2. \/ ans.card = [card EXCEPT !.idles = IF @ < MaxIdle THEN @ + 1 ELSE @]
        \/ ~(IsHc /\ arg = 0) /\ ans.card = [card EXCEPT !.state = "ready"]
    BY <2>1 DEF Acmd41
  <2> QED
    BY <1>5, <2>2 DEF IsCard
<1>6. CASE c = 58
  <2>1. Obeys(c, arg) = Says(<<R1OfCard, Capacity, 255, 128, 0>>)
    BY <1>6 DEF Obeys, Capacity
  <2> QED
    BY <1>1, <1>6, <2>1
<1>7. CASE c = 17 /\ card.state = "ready"
  <2>1. \/ Obeys(c, arg) = Says(<<32>>)
        \/ Obeys(c, arg) = UNION {Says(<<0>> \o Fill(wait, 255) \o <<254>> \o disk[Block(arg)] \o <<85, 85>>) :
                                  wait \in 0 .. MaxLag}
    BY <1>7 DEF Obeys
  <2>2. \E says : ans \in Says(says)
    BY <2>1
  <2> QED
    BY <1>1, <1>7, <2>2
<1>8. CASE c = 24 /\ card.state = "ready"
  <2>1. \/ Obeys(c, arg) = Says(<<32>>)
        \/ Obeys(c, arg) = {[card |-> [card EXCEPT !.taking = Block(arg), !.failed = FALSE], says |-> <<0>>]}
    BY <1>8 DEF Obeys
  <2>2. ans.card = card \/ ans.card = [card EXCEPT !.taking = Block(arg), !.failed = FALSE]
    BY <1>1, <2>1
  <2>3. CASE ans.card = [card EXCEPT !.taking = Block(arg), !.failed = FALSE]
    <3>1. ans.card = [kind |-> card.kind, state |-> card.state, idles |-> card.idles,
                      taking |-> Block(arg), failed |-> FALSE]
      BY <2>3 DEF IsCard
    <3> QED
      BY <1>8, <3>1 DEF IsCard
  <2> QED
    BY <1>8, <2>2, <2>3
<1> QED
  BY <1>2, <1>3, <1>4, <1>5, <1>6, <1>7, <1>8 DEF Cmd, InitCmd

\* What a command that is sent leaves behind.
Sent(c, arg) ==
    /\ at' = c /\ IsCard(card') /\ card'.kind = card.kind
    /\ c # 0 => (late => late')
    /\ c \notin {0, 58} => (blind => blind')
    /\ c \notin {0, 41} \/ (c = 41 /\ IsHc /\ arg = 0) => card'.state = card.state
    /\ c = 0 => card'.state = "idle" \/ late' \/ Silent'
    /\ c = 58 => blind' \/ Told'

LEMMA Hearing ==
    ASSUME IsCard(card), NEW c \in Cmd, NEW arg, at' = c, c # 0 => (late => late'), Hears(c, arg)
    PROVE  Sent(c, arg)
<1>1. \A k \in 1 .. R1_TRIES : Byte(<<>>, k) # 1 /\ Byte(<<8>>, k) # 1
  BY SdDiskAssumption DEF Byte
<1>2. Ill(c) => (c \notin {0, 58} => (blind => blind')) /\ (c = 58 => blind')
  BY DEF Ill
<1>3. Well(c) => (c \notin {0, 58} => (blind => blind'))
  BY DEF Well
<1>4. CASE card' = card /\ Ill(c) /\ (c = 0 => out' \in {<<>>, <<8>>})
  BY <1>1, <1>2, <1>4 DEF Sent, Silent
<1>5. CASE \E ans \in Obeys(c, arg) : card' = ans.card /\ Ill(c)
  BY <1>2, <1>5, Obedience DEF Sent
<1>6. CASE \E ans \in Obeys(c, arg) : \E lag \in 0 .. R1_TRIES - 1 :
              card' = ans.card /\ Well(c) /\ out' = Fill(lag, 255) \o ans.says
  <2>1. PICK ans \in Obeys(c, arg) : \E lag \in 0 .. R1_TRIES - 1 :
              card' = ans.card /\ Well(c) /\ out' = Fill(lag, 255) \o ans.says
    BY <1>6
  <2>2. ASSUME c = 58 PROVE Told'
    <3>1. card' = card /\ ans.says = <<R1OfCard, Capacity, 255, 128, 0>>
      BY <2>1, <2>2, Obedience
    <3>2. R1OfCard' = R1OfCard /\ Capacity' = Capacity
      BY <3>1 DEF R1OfCard, Capacity, IsHc
    <3> QED
      BY <2>1, <3>1, <3>2 DEF Told
  <2> QED
    BY <1>3, <2>1, <2>2, Obedience DEF Sent
<1>7. ASSUME NEW ans \in Obeys(c, arg), NEW lag \in 0 .. MaxLag, card' = ans.card,
             out' = Fill(lag, 255) \o ans.says,
             IF lag < R1_TRIES /\ (c = 17 => InTime(ans.says))
             THEN Well(c) /\ UNCHANGED faults ELSE Ill(c) /\ Fault
      PROVE  Sent(c, arg)
  <2>1. CASE Ill(c)
    BY <1>5, <1>7, <2>1
  <2>2. CASE Well(c) /\ lag < R1_TRIES
    <3>1. lag \in 0 .. R1_TRIES - 1
      BY <2>2, SdDiskAssumption
    <3> QED
      BY <1>6, <1>7, <2>2, <3>1
  <2> QED
    BY <1>7, <2>1, <2>2
<1> QED
  BY <1>4, <1>5, <1>7 DEF Hears

\* SendsOn and Sends: what was still in the line makes the command late.
LEMMA Sending ==
    ASSUME IsCard(card), NEW c \in Cmd, NEW arg, NEW s, SendsOn(c, arg, s)
    PROVE  Sent(c, arg)
<1>1. at' = c /\ (c # 0 => (late => late')) /\ (s # <<>> => late')
  BY DEF SendsOn
<1>2. CASE Hears(c, arg)
  BY <1>1, <1>2, Hearing
<1>3. CASE s # <<>> /\ Ill(c) /\ card' = card
  BY <1>1, <1>3 DEF Sent, Ill
<1> QED
  BY <1>2, <1>3 DEF SendsOn

LEMMA Selecting ==
    ASSUME IsCard(card), NEW c \in Cmd, NEW arg, NEW s, Sends(c, arg, s)
    PROVE  Sent(c, arg)
  BY Sending DEF Sends

--------------------------------------------------------------------------------
(* The driver. *)

\* The end of a call: what is known of the card must be known then.
LEMMA Ending ==
    ASSUME Shape, NEW n, Quiet(n), v2' \in BOOLEAN,
           ~Doubt /\ drive_status' = "ready" => (card.state = "ready" => sd_hc' = IsHc)
    PROVE  IInv'
<1>1. /\ at' = REST /\ req'.op = "none" /\ card' = card /\ late' = late /\ blind' = blind
  BY DEF Quiet, None
<1>2. Shape'
  BY <1>1 DEF Shape, InitCmd, REST, WROTE
<1>3. Course'
  BY <1>1 DEF Course, Doubt, Known, IsHc, InitCmd, REST
<1> QED
  BY <1>2, <1>3 DEF IInv

LEMMA InitInv == Init => IInv
<1> SUFFICES ASSUME Init PROVE IInv
  OBVIOUS
<1>1. IsCard(card)
  BY DEF Init, IsCard, PoweredUp
<1>2. at = REST /\ at \notin InitCmd /\ v2 = FALSE
  BY DEF Init, InitCmd, REST
<1>3. req.op # "init"
  BY DEF Init, None
<1>4. Shape
  BY <1>1, <1>2, <1>3 DEF Shape
<1>5. Course
  BY DEF Init, Course, InitCmd, REST
<1> QED
  BY <1>4, <1>5 DEF IInv

LEMMA InitializeStep == ASSUME IInv, Initialize PROVE IInv'
<1>1. Sent(0, 0)
  BY Selecting DEF IInv, Shape, Initialize, Cmd, InitCmd
<1>2. Shape'
  BY <1>1 DEF Sent, IInv, Shape, Initialize, Cmd, InitCmd
<1>3. Course'
  BY <1>1 DEF Sent, Course, Doubt, InitCmd
<1> QED
  BY <1>2, <1>3 DEF IInv

\* A command that is not CMD0 or CMD58 settles no doubt.
LEMMA Doubts ==
    ASSUME NEW c \in Cmd \ {0, 58}, NEW arg, Sent(c, arg), ~Doubt' PROVE ~Doubt
  BY DEF Sent, Doubt

LEMMA Onward ==
    ASSUME Shape, NEW c \in Cmd, NEW arg, Sent(c, arg), c \in InitCmd <=> req'.op = "init", v2' \in BOOLEAN
    PROVE  Shape'
  BY DEF Shape, Sent

\* An initialisation that fails leaves a drive that is not ready.
LEMMA GivingUp ==
    ASSUME IInv, NEW n, Initialized(n, "STA_NOINIT")
    PROVE  IInv'
  BY Ending DEF Initialized, Quiet, IInv

\* Reading and writing teach nothing and forget nothing.
LEMMA Returning ==
    ASSUME IInv, at \notin InitCmd, NEW n, Quiet(n), UNCHANGED <<sd_hc, drive_status>>
    PROVE  IInv'
<1>1. ~Doubt /\ drive_status = "ready" => (card.state = "ready" => sd_hc = IsHc)
  BY DEF IInv, Course, Known
<1> QED
  BY <1>1, Ending DEF Quiet, IInv

LEMMA Working ==
    ASSUME IInv, at \notin InitCmd, NEW c \in {17, 24, 13}, NEW arg, Sent(c, arg), req'.op # "init",
           UNCHANGED <<v2, sd_hc, drive_status>>
    PROVE  IInv'
<1>1. c \in Cmd /\ c \notin InitCmd /\ c \notin {0, 41, 58}
  BY DEF Cmd, InitCmd
<1>2. Shape'
  BY <1>1, Onward DEF IInv, Shape
<1>3. ~Doubt' => ~Doubt
  BY <1>1, Doubts
<1>4. at' = c /\ card'.state = card.state /\ IsHc' = IsHc
  BY <1>1 DEF Sent, IsHc
<1>5. Course'
  BY <1>1, <1>3, <1>4 DEF IInv, Course, Known, InitCmd
<1> QED
  BY <1>2, <1>5 DEF IInv

--------------------------------------------------------------------------------
(* The commands of an initialisation. *)

LEMMA Cmd0Step == ASSUME IInv, Cmd0 PROVE IInv'
<1>1. CASE r = 1
  <2>1. Sent(8, 426) /\ UNCHANGED <<req, v2>>
    BY <1>1, Selecting DEF Cmd0, IInv, Shape, Cmd, InitCmd
  <2>2. Shape'
    BY <2>1, Onward DEF Cmd0, IInv, Shape, Cmd, InitCmd
  <2>3. ~Silent
    BY <1>1, ResponseByte DEF Silent, r
  <2>4. ~Doubt' => card'.state # "ready"
    BY <2>1, <2>3, Doubts DEF Cmd0, IInv, Course, Sent, Cmd, InitCmd
  <2>5. Course'
    BY <2>1, <2>4 DEF Course, Sent, InitCmd
  <2> QED
    BY <2>2, <2>5 DEF IInv
<1>2. CASE r # 1
  BY <1>2, GivingUp DEF Cmd0
<1> QED
  BY <1>1, <1>2

LEMMA Cmd8Step == ASSUME IInv, Cmd8 PROVE IInv'
<1>1. ASSUME NEW n, Sends(55, 0, Then(n)), v2' = (r = 1), UNCHANGED req PROVE IInv'
  <2>1. Sent(55, 0)
    BY <1>1, Selecting DEF IInv, Shape, Cmd, InitCmd
  <2>2. Shape'
    BY <1>1, <2>1, Onward DEF Cmd8, IInv, Shape, Cmd, InitCmd
  <2>3. ~Doubt' => card'.state # "ready"
    BY <2>1, Doubts DEF Cmd8, IInv, Course, Sent, Cmd, InitCmd
  <2>4. Course'
    BY <2>1, <2>3 DEF Course, Sent, InitCmd
  <2> QED
    BY <2>2, <2>4 DEF IInv
<1>2. \E n : \/ Sends(55, 0, Then(n)) /\ v2' = (r = 1) /\ UNCHANGED req
             \/ Initialized(n, "STA_NOINIT")
  BY DEF Cmd8
<1> QED
  BY <1>1, <1>2, GivingUp

LEMMA Cmd55Step == ASSUME IInv, Cmd55 PROVE IInv'
<1>1. Sent(41, Hcs) /\ UNCHANGED <<req, v2>>
  BY Sending DEF Cmd55, callVars, IInv, Shape, Cmd, InitCmd
<1>2. Shape'
  BY <1>1, Onward DEF Cmd55, IInv, Shape, Cmd, InitCmd
<1>3. ASSUME ~Doubt', IsHc', card'.state = "ready", ~v2 PROVE FALSE
  <2>1. Hcs = 0 /\ IsHc
    BY <1>1, <1>3 DEF Hcs, IsHc, Sent
  <2>2. card.state = "ready"
    BY <1>1, <1>3, <2>1 DEF Sent
  <2>3. ~Doubt
    BY <1>1, <1>3, Doubts DEF Cmd, InitCmd
  <2> QED
    BY <1>3, <2>1, <2>2, <2>3 DEF Cmd55, IInv, Course
<1>4. Course'
  BY <1>1, <1>3 DEF Course, Sent, InitCmd, IInv, Shape
<1> QED
  BY <1>2, <1>4 DEF IInv

LEMMA Cmd41Step == ASSUME IInv, Cmd41 PROVE IInv'
<1> USE DEF Cmd, InitCmd
<1>1. ASSUME r = 0, sd_hc' = FALSE, v2, Sends(58, 0, Then(R1Bytes)), UNCHANGED <<v2, req>> PROVE IInv'
  <2>1. Sent(58, 0)
    BY <1>1, Selecting DEF IInv, Shape
  <2>2. Shape'
    BY <1>1, <2>1, Onward DEF Cmd41, IInv, Shape
  <2> QED
    BY <2>1, <2>2 DEF IInv, Course, Sent, Doubt
<1>2. ASSUME r = 0, sd_hc' = FALSE, ~v2, Sends(16, L, Then(R1Bytes)), UNCHANGED <<v2, req>> PROVE IInv'
  <2>1. Sent(16, L)
    BY <1>2, Selecting DEF IInv, Shape
  <2>2. Shape'
    BY <1>2, <2>1, Onward DEF Cmd41, IInv, Shape
  <2>3. ~Doubt' /\ card'.state = "ready" => ~IsHc
    BY <1>2, <2>1, Doubts DEF Cmd41, IInv, Course, Sent
  <2>4. ~Doubt' => Known'
    BY <1>2, <2>1, <2>3 DEF Known, IsHc, Sent
  <2> QED
    BY <2>1, <2>2, <2>4 DEF IInv, Course, Sent
<1>3. ASSUME Sends(55, 0, Then(R1Bytes)), UNCHANGED <<v2, req>> PROVE IInv'
  <2>1. Sent(55, 0)
    BY <1>3, Selecting DEF IInv, Shape
  <2>2. Shape'
    BY <1>3, <2>1, Onward DEF Cmd41, IInv, Shape
  <2>3. ~Doubt' => (IsHc' /\ card'.state = "ready" => v2')
    BY <1>3, <2>1, Doubts DEF Cmd41, IInv, Course, Sent, IsHc
  <2> QED
    BY <2>1, <2>2, <2>3 DEF IInv, Course, Sent
<1> QED
  BY <1>1, <1>2, <1>3, GivingUp DEF Cmd41, IInv, Shape

\* The high capacity bit is taken from the answer to CMD58.
LEMMA CapacityRead ==
    ASSUME Cmd58
    PROVE  sd_hc' = (r = 0 /\ Bit(Byte(out, (R1Bytes + 4) - 3), 64) = 1)
BY DEF Cmd58

\* Here the driver learns how the card counts.
LEMMA Cmd58Step == ASSUME IInv, Cmd58 PROVE IInv'
<1> USE DEF Cmd, InitCmd
<1>1. ASSUME ~Doubt, card.state = "ready" PROVE sd_hc' = IsHc
  <2>1. PICK lag \in 0 .. R1_TRIES - 1 : out = Fill(lag, 255) \o <<R1OfCard, Capacity, 255, 128, 0>>
    BY <1>1 DEF Cmd58, IInv, Course, Told
  <2>2. R1OfCard = 0
    BY <1>1 DEF R1OfCard
  <2>3. /\ Byte(out, lag + 1) = 0 /\ Byte(out, lag + 2) = Capacity
        /\ \A k \in 1 .. lag : Byte(out, k) = 255
    <3>1. lag \in Nat /\ out = Fill(lag, 255) \o <<0, Capacity, 255, 128, 0>>
      BY <2>1, <2>2, SdDiskAssumption
    <3> QED
      BY <3>1, Spelled
  <2>4. r = 0 /\ Byte(out, (R1Bytes + 4) - 3) = Capacity
    BY <2>3, Answered
  <2>5. Bit(Capacity, 64) = 1 <=> IsHc
    BY DEF Bit, Capacity
  <2> QED
    BY CapacityRead, <2>4, <2>5 DEF IsHc
<1>2. CASE Initialized(R1Bytes + 4, "ready")
  BY <1>1, <1>2, Ending DEF Initialized, Quiet, IInv
<1>3. CASE Sends(16, L, Then(R1Bytes + 4)) /\ UNCHANGED <<v2, req>>
  <2>1. Sent(16, L)
    BY <1>3, Selecting DEF IInv, Shape
  <2>2. Shape'
    BY <1>3, <2>1, Onward DEF Cmd58, IInv, Shape
  <2>3. ~Doubt' => Known'
    BY <1>1, <2>1, Doubts DEF Known, IsHc, Sent
  <2> QED
    BY <2>1, <2>2, <2>3 DEF IInv, Course, Sent
<1> QED
  BY <1>2, <1>3 DEF Cmd58

LEMMA Cmd16Step == ASSUME IInv, Cmd16 PROVE IInv'
<1>1. ~Doubt => (card.state = "ready" => sd_hc' = IsHc)
  BY DEF Cmd16, IInv, Course, Known
<1> QED
  BY <1>1, Ending DEF Cmd16, Initialized, Quiet, IInv

--------------------------------------------------------------------------------
(* The commands of reads and writes. *)

LEMMA AskSteps == ASSUME IInv, Read \/ Write PROVE IInv'
<1>1. at \notin InitCmd
  BY DEF Read, Write, InitCmd, REST
<1>2. CASE Read
  <2>1. \E arg : Sent(17, arg)
    BY <1>2, Selecting DEF Read, IInv, Shape, Cmd
  <2>2. req'.op # "init"
    BY <1>2 DEF Read
  <2> QED
    BY <1>1, <1>2, <2>1, <2>2, Working DEF Read
<1>3. CASE Write
  <2>1. \E arg : Sent(24, arg)
    BY <1>3, Selecting DEF Write, IInv, Shape, Cmd
  <2>2. req'.op # "init"
    BY <1>3 DEF Write
  <2> QED
    BY <1>1, <1>3, <2>1, <2>2, Working DEF Write
<1> QED
  BY <1>2, <1>3

LEMMA ReadStep == ASSUME IInv, Cmd17 PROVE IInv'
<1>1. at \notin InitCmd /\ req.op # "init" /\ UNCHANGED <<sd_hc, drive_status>>
  BY DEF Cmd17, InitCmd, IInv, Shape
<1>2. CASE \E n : Quiet(n)
  BY <1>1, <1>2, Returning
<1>3. CASE (\E arg, n : Sends(17, arg, Then(n))) /\ UNCHANGED <<v2, req>>
  <2>1. \E arg : Sent(17, arg)
    BY <1>3, Selecting DEF IInv, Shape, Cmd
  <2> QED
    BY <1>1, <1>3, <2>1, Working
<1> QED
  BY <1>2, <1>3 DEF Cmd17, Returned

\* The card takes a block and stays what it is.
LEMMA Taking ==
    ASSUME IsCard(card), NEW s, Takes(s)
    PROVE  IsCard(card') /\ card'.kind = card.kind /\ card'.state = card.state
<1>1. \/ card' = card \/ card' = [card EXCEPT !.taking = -1]
      \/ \E good \in BOOLEAN : card' = [card EXCEPT !.taking = -1, !.failed = ~good]
  BY DEF Takes
<1>2. CASE card' = [card EXCEPT !.taking = -1]
  BY <1>2 DEF IsCard
<1>3. ASSUME NEW good \in BOOLEAN, card' = [card EXCEPT !.taking = -1, !.failed = ~good]
      PROVE  IsCard(card') /\ card'.kind = card.kind /\ card'.state = card.state
  <2>1. card' = [kind |-> card.kind, state |-> card.state, idles |-> card.idles, taking |-> -1, failed |-> ~good]
    BY <1>3 DEF IsCard
  <2> QED
    BY <2>1 DEF IsCard
<1> QED
  BY <1>1, <1>2, <1>3

LEMMA WriteSteps == ASSUME IInv, Cmd24 \/ Wrote \/ Cmd13 PROVE IInv'
<1>1. at \notin InitCmd /\ req.op # "init" /\ UNCHANGED <<sd_hc, drive_status>>
  BY DEF Cmd24, Wrote, Cmd13, InitCmd, WROTE, IInv, Shape
<1>2. CASE \E n : Quiet(n)
  BY <1>1, <1>2, Returning
<1>3. ASSUME NEW s, at' = WROTE, Takes(s), UNCHANGED <<v2, req, late, blind>> PROVE IInv'
  <2>1. IsCard(card') /\ card'.kind = card.kind /\ card'.state = card.state
    BY <1>3, Taking DEF IInv, Shape
  <2>2. Shape'
    BY <1>1, <1>3, <2>1 DEF IInv, Shape, InitCmd, WROTE
  <2>3. Course'
    BY <1>1, <1>3, <2>1 DEF IInv, Course, Doubt, Known, IsHc, InitCmd, WROTE
  <2> QED
    BY <2>2, <2>3 DEF IInv
<1>4. CASE (\E n : Sends(13, 0, Then(n))) /\ UNCHANGED <<v2, req>>
  <2>1. Sent(13, 0)
    BY <1>4, Selecting DEF IInv, Shape, Cmd
  <2> QED
    BY <1>1, <1>4, <2>1, Working
<1>5. CASE Cmd24
  BY <1>2, <1>3, <1>5 DEF Cmd24, Returned
<1>6. CASE Wrote
  BY <1>2, <1>4, <1>6 DEF Wrote, Returned
<1>7. CASE Cmd13
  BY <1>2, <1>7 DEF Cmd13, Returned
<1> QED
  BY <1>5, <1>6, <1>7

\* A card that has just been put in is not ready.
LEMMA SwapStep == ASSUME IInv, Swap PROVE IInv'
<1>1. IsCard(card') /\ card'.state = "power"
  BY DEF Swap, PoweredUp, IsCard
<1>2. Shape'
  BY <1>1 DEF Swap, IInv, Shape, callVars
<1>3. Course'
  BY <1>1 DEF Swap, Course, Known, InitCmd, REST
<1> QED
  BY <1>2, <1>3 DEF IInv

--------------------------------------------------------------------------------

LEMMA NextInv == ASSUME IInv, [Next]_vars PROVE IInv'
<1>1. CASE UNCHANGED vars \/ NotReady
  <2>1. UNCHANGED <<at, v2, sd_hc, drive_status, req, card, out, late, blind>>
    BY <1>1 DEF vars, callVars, faultVars, NotReady
  <2>2. /\ Silent' = Silent /\ Told' = Told /\ Known' = Known
        /\ Doubt' = Doubt /\ IsHc' = IsHc
    BY <2>1 DEF Silent, Told, Known, Doubt, IsHc, R1OfCard, Capacity
  <2>3. Shape'
    BY <2>1 DEF IInv, Shape
  <2>4. Course'
    BY <2>1, <2>2 DEF IInv, Course
  <2> QED
    BY <2>3, <2>4 DEF IInv
<1>2. CASE Initialize \/ Read \/ Write \/ Swap
  BY <1>2, InitializeStep, AskSteps, SwapStep
<1>3. CASE Driver
  BY <1>3, Cmd0Step, Cmd8Step, Cmd55Step, Cmd41Step, Cmd58Step, Cmd16Step, ReadStep, WriteSteps DEF Driver
<1> QED
  BY <1>1, <1>2, <1>3 DEF Next

\* AddressRight: a drive that sddisk_init has found ready counts sectors or bytes as its card
\* does, unless the answer to CMD58 was lost or a command ran into the answer of another.
THEOREM CountsAlike == Spec => []AddressRight
<1>1. IInv => AddressRight
  <2> SUFFICES ASSUME IInv, drive_status = "ready", req.op # "init", card.state = "ready", ~Doubt
               PROVE  sd_hc = IsHc
    BY DEF AddressRight
  <2>1. at \notin InitCmd
    BY DEF IInv, Shape
  <2> QED
    BY <2>1 DEF IInv, Course, Known
<1> QED
  BY <1>1, InitInv, NextInv, PTL DEF Spec

--------------------------------------------------------------------------------
(* What is read and written.  The answer in the line belongs to the sector that *)
(* the call is at, and a write is on the card or the card says that it is not.   *)

Bytes == 0 .. 255
Content == [1 .. L -> Bytes]

Types ==
    /\ disk \in [Sector -> Content] /\ DOMAIN buf = 0 .. MaxCount - 1
    /\ at = REST <=> req.op = "none"
    /\ at # 17 => index = 0
    /\ at = 17 =>
          /\ req.op = "read" /\ req.lba \in Nat /\ req.count \in 1 .. MaxCount
          /\ index \in 0 .. req.count - 1 /\ (req.lba + req.count) - 1 \in Sector
          /\ drive_status = "ready"
    /\ at \in {24, WROTE, 13} => req.op = "write" /\ req.lba \in Sector /\ req.data \in Data

\* No response in the line reads as zero.
Mute(line) == \A k \in 1 .. R1_TRIES : Byte(line, k) # 0

\* An answer after a wait.
After(lag, says) == Fill(lag, 255) \o says

\* The answer to CMD17, with the sector and its CRC.
Delivery(wait, sector) == <<0>> \o Fill(wait, 255) \o <<254>> \o sector \o <<85, 85>>

Delivers(line, sectors, lba) ==
    \/ Mute(line)
    \/ line = <<0, 8>>
    \/ /\ lba \in Sector
       /\ \E lag \in 0 .. R1_TRIES - 1, wait \in 0 .. MaxLag :
             line = After(lag, Delivery(wait, sectors[lba]))

\* The answer to CMD13.
Report(failed) == <<0, IF failed THEN 4 ELSE 0>>
Reports(line, failed) ==
    Mute(line) \/ \E lag \in 0 .. R1_TRIES - 1 : line = After(lag, Report(failed))

\* The answer to a block: no byte of it says that the block is accepted.
Rejects(line) == \A k \in 1 .. R1_TRIES : Byte(line, k) % 32 # 5

Stored == card.failed \/ disk[req.lba] = req.data

Dealt ==
    ~Doubt =>
        /\ at = 17 =>
             /\ Delivers(out, disk, req.lba + index)
             /\ \A k \in 0 .. index - 1 : buf[k] = disk[req.lba + k]
        /\ at = 24 => Mute(out) \/ card.taking = req.lba
        /\ at = WROTE => Stored \/ Rejects(out)
        /\ at = 13 => Stored /\ Reports(out, card.failed)

DInv == IInv /\ Types /\ Dealt

\* A block that is sent for is the one that is meant, on both kinds of cards.
LEMMA Aiming ==
    ASSUME Known, card.state = "ready", NEW lba \in Nat, NEW top \in Sector, lba <= top
    PROVE  Block(Address(lba)) = lba
<1>1. /\ L \in Nat \ {0} /\ Wide \in Nat \ {0} /\ top \in Nat /\ top * L < Wide
  BY SdDiskAssumption
<1>2. lba * L \in Nat /\ lba * L <= top * L /\ top * L \in Nat
  BY <1>1
<1>3. (lba * L) % Wide = lba * L
  BY <1>1, <1>2
<1>4. (lba * L) \div L = lba
  BY <1>1
<1> QED
  BY <1>3, <1>4 DEF Known, Address, Block

\* A line of bytes has two parts.
Parts(line, s, t) ==
    /\ line \in Seq(Bytes) /\ Len(line) = Len(s) + Len(t)
    /\ \A k \in 1 .. Len(s) : line[k] = s[k]
    /\ \A k \in 1 .. Len(t) : line[Len(s) + k] = t[k]

LEMMA Joined ==
    ASSUME NEW s \in Seq(Bytes), NEW t \in Seq(Bytes), NEW line, line = s \o t
    PROVE  Parts(line, s, t)
<1>1. line \in Seq(Bytes)
  OBVIOUS
<1>2. Len(line) = Len(s) + Len(t)
  BY ConcatProperties
<1>3. \A k \in 1 .. Len(s) : line[k] = s[k]
  OBVIOUS
<1>4. \A k \in 1 .. Len(t) : line[Len(s) + k] = t[k]
  OBVIOUS
<1> QED
  BY <1>1, <1>2, <1>3, <1>4 DEF Parts

LEMMA Filling ==
    ASSUME NEW k \in Nat
    PROVE  /\ Fill(k, 255) \in Seq(Bytes) /\ Len(Fill(k, 255)) = k
           /\ \A j \in 1 .. k : Fill(k, 255)[j] = 255
BY DEF Fill, Bytes

\* The bytes of an answer after its wait.
Waits(line, lag, says) ==
    /\ line \in Seq(Bytes) /\ Len(line) = lag + Len(says)
    /\ \A k \in 1 .. lag : Byte(line, k) = 255
    /\ \A k \in 1 .. Len(says) : Byte(line, lag + k) = says[k]
    /\ \A k \in Nat : k > lag + Len(says) => Byte(line, k) = 255

LEMMA Lagging ==
    ASSUME NEW lag \in Nat, NEW says \in Seq(Bytes)
    PROVE  Waits(After(lag, says), lag, says)
<1> DEFINE line == After(lag, says)
<1>1. /\ Len(Fill(lag, 255)) = lag
      /\ \A j \in 1 .. lag : Fill(lag, 255)[j] = 255
  BY Filling
<1>0. Parts(line, Fill(lag, 255), says)
  BY Filling, Joined DEF After
<1> HIDE DEF line
<1>2. /\ line \in Seq(Bytes) /\ Len(line) = lag + Len(says)
      /\ \A k \in 1 .. lag : line[k] = 255
      /\ \A k \in 1 .. Len(says) : line[lag + k] = says[k]
  <2>1. line \in Seq(Bytes) /\ Len(line) = lag + Len(says)
    BY <1>0, <1>1 DEF Parts
  <2>2. \A k \in 1 .. lag : line[k] = Fill(lag, 255)[k]
    BY <1>0, <1>1 DEF Parts
  <2>3. \A k \in 1 .. lag : line[k] = 255
    BY <1>1, <2>2
  <2>4. \A k \in 1 .. Len(says) : line[lag + k] = says[k]
    BY <1>0, <1>1 DEF Parts
  <2> QED
    BY <2>1, <2>3, <2>4
<1>3. Len(says) \in Nat
  OBVIOUS
<1>4. \A k \in 1 .. lag : k <= Len(line) /\ line[k] = 255
  BY <1>2, <1>3
<1>5. \A k \in 1 .. Len(says) : lag + k <= Len(line) /\ line[lag + k] = says[k]
  BY <1>2, <1>3
<1>6. \A k \in Nat : k > lag + Len(says) => ~(k <= Len(line))
  BY <1>2, <1>3
<1>7. Waits(line, lag, says)
  BY <1>2, <1>4, <1>5, <1>6 DEF Waits, Byte
<1> QED
  BY <1>7 DEF line

LEMMA Dropping ==
    ASSUME NEW s \in Seq(Bytes), NEW m \in 0 .. Len(s), NEW k \in Nat \ {0}
    PROVE  Byte(Drop(s, m), k) = Byte(s, m + k)
<1>1. /\ Len(Drop(s, m)) = Len(s) - m
      /\ \A j \in 1 .. Len(s) - m : Drop(s, m)[j] = s[m + j]
  BY DEF Drop
<1> QED
  BY <1>1 DEF Byte

\* The bytes of a delivery.
Packs(says, wait, sector) ==
    /\ says \in Seq(Bytes) /\ Len(says) = wait + L + 4
    /\ says[1] = 0 /\ says[wait + 2] = 254
    /\ \A k \in 1 .. wait : says[1 + k] = 255
    /\ \A k \in 1 .. L : says[wait + 2 + k] = sector[k]

LEMMA Unpacked ==
    ASSUME NEW wait \in Nat, NEW sector \in Content
    PROVE  Packs(Delivery(wait, sector), wait, sector)
<1> DEFINE says == Delivery(wait, sector)
           a == <<0>> \o Fill(wait, 255)
           b == a \o <<254>>
           c == b \o sector
<1>1. /\ Fill(wait, 255) \in Seq(Bytes) /\ Len(Fill(wait, 255)) = wait
      /\ \A j \in 1 .. wait : Fill(wait, 255)[j] = 255
  BY Filling
<1>2. /\ sector \in Seq(Bytes) /\ Len(sector) = L /\ L \in Nat
      /\ <<0>> \in Seq(Bytes) /\ <<254>> \in Seq(Bytes) /\ <<85, 85>> \in Seq(Bytes)
  <2>1. L \in Nat
    BY SdDiskAssumption
  <2>2. sector \in Seq(Bytes) /\ Len(sector) = L
    BY <2>1 DEF Content
  <2>3. <<0>> \in Seq(Bytes) /\ <<254>> \in Seq(Bytes) /\ <<85, 85>> \in Seq(Bytes)
    BY DEF Bytes
  <2> QED
    BY <2>1, <2>2, <2>3
<1>3. says = c \o <<85, 85>>
  BY DEF Delivery
<1>4. /\ a \in Seq(Bytes) /\ Len(a) = 1 + wait
      /\ a[1] = 0 /\ \A k \in 1 .. wait : a[1 + k] = 255
  <2>1. Parts(a, <<0>>, Fill(wait, 255))
    BY <1>1, <1>2, Joined
  <2> QED
    BY <1>1, <2>1 DEF Parts
<1> HIDE DEF a
<1>5. /\ b \in Seq(Bytes) /\ Len(b) = wait + 2
      /\ \A k \in 1 .. wait + 1 : b[k] = a[k]
      /\ b[wait + 2] = 254
  <2>1. Parts(b, a, <<254>>)
    BY <1>2, <1>4, Joined
  <2> QED
    BY <1>4, <2>1 DEF Parts
<1> HIDE DEF b
<1>6. /\ c \in Seq(Bytes) /\ Len(c) = wait + 2 + L
      /\ \A k \in 1 .. wait + 2 : c[k] = b[k]
      /\ \A k \in 1 .. L : c[wait + 2 + k] = sector[k]
  <2>1. Parts(c, b, sector)
    BY <1>2, <1>5, Joined
  <2> QED
    BY <1>2, <1>5, <2>1 DEF Parts
<1> HIDE DEF c, says
<1>7. /\ says \in Seq(Bytes) /\ Len(says) = wait + L + 4
      /\ \A k \in 1 .. wait + 2 + L : says[k] = c[k]
  <2>1. Parts(says, c, <<85, 85>>)
    BY <1>2, <1>3, <1>6, Joined
  <2> QED
    BY <1>2, <1>6, <2>1 DEF Parts
<1>8. /\ says[1] = 0 /\ says[wait + 2] = 254
      /\ \A k \in 1 .. wait : says[1 + k] = 255
      /\ \A k \in 1 .. L : says[wait + 2 + k] = sector[k]
  BY <1>2, <1>4, <1>5, <1>6, <1>7
<1>9. Packs(says, wait, sector)
  BY <1>7, <1>8 DEF Packs
<1> QED
  BY <1>9 DEF says

\* The bytes of a delivery after its wait.
Carries(line, lag, wait, sector) ==
    /\ line \in Seq(Bytes) /\ Len(line) = lag + (wait + L + 4)
    /\ \A k \in 1 .. lag : Byte(line, k) = 255
    /\ Byte(line, lag + 1) = 0
    /\ \A k \in 1 .. wait : Byte(line, lag + 1 + k) = 255
    /\ Byte(line, lag + wait + 2) = 254
    /\ \A k \in 1 .. L : Byte(line, lag + wait + 2 + k) = sector[k]

LEMMA Delivered ==
    ASSUME NEW lag \in Nat, NEW wait \in Nat, NEW sector \in Content
    PROVE  Carries(After(lag, Delivery(wait, sector)), lag, wait, sector)
<1> DEFINE says == Delivery(wait, sector)
           line == After(lag, says)
<1>0. Packs(says, wait, sector)
  BY Unpacked
<1> HIDE DEF says
<1>1. /\ says \in Seq(Bytes) /\ Len(says) = wait + L + 4
      /\ says[1] = 0 /\ says[wait + 2] = 254
      /\ \A k \in 1 .. wait : says[1 + k] = 255
      /\ \A k \in 1 .. L : says[wait + 2 + k] = sector[k]
  BY <1>0 DEF Packs
<1>2. Waits(line, lag, says)
  BY <1>1, Lagging
<1> HIDE DEF line
<1>3. /\ line \in Seq(Bytes) /\ Len(line) = lag + Len(says)
      /\ \A k \in 1 .. lag : Byte(line, k) = 255
      /\ \A k \in 1 .. Len(says) : Byte(line, lag + k) = says[k]
  BY <1>2 DEF Waits
<1>4. L \in Nat \ {0}
  BY SdDiskAssumption
<1>5. Byte(line, lag + 1) = 0
  BY <1>1, <1>3, <1>4
<1>6. \A k \in 1 .. wait : Byte(line, lag + 1 + k) = 255
  <2> SUFFICES ASSUME NEW k \in 1 .. wait PROVE Byte(line, lag + 1 + k) = 255
    OBVIOUS
  <2>1. 1 + k \in 1 .. Len(says) /\ lag + (1 + k) = lag + 1 + k
    BY <1>1, <1>4
  <2> QED
    BY <1>1, <1>3, <2>1
<1>7. Byte(line, lag + wait + 2) = 254
  <2>1. wait + 2 \in 1 .. Len(says) /\ lag + (wait + 2) = lag + wait + 2
    BY <1>1, <1>4
  <2> QED
    BY <1>1, <1>3, <2>1
<1>8. \A k \in 1 .. L : Byte(line, lag + wait + 2 + k) = sector[k]
  <2> SUFFICES ASSUME NEW k \in 1 .. L PROVE Byte(line, lag + wait + 2 + k) = sector[k]
    OBVIOUS
  <2>1. wait + 2 + k \in 1 .. Len(says) /\ lag + (wait + 2 + k) = lag + wait + 2 + k
    BY <1>1, <1>4
  <2> QED
    BY <1>1, <1>3, <2>1
<1>9. Carries(line, lag, wait, sector)
  BY <1>1, <1>3, <1>5, <1>6, <1>7, <1>8 DEF Carries
<1> QED
  BY <1>9 DEF line, says

\* What is read after the response to CMD17 is the sector, if it begins with the token.
Fetched == [k \in 1 .. L |-> Byte(out, TokenBytes + k)]

LEMMA SectorRead ==
    ASSUME Types, NEW lba, Delivers(out, disk, lba), r = 0, Byte(out, TokenBytes) = 254
    PROVE  lba \in Sector /\ Fetched = disk[lba]
<1>1. ~Mute(out)
  BY ResponseByte DEF Mute, r
<1>2. R1_TRIES \in Nat \ {0} /\ TOKEN_TRIES \in Nat \ {0} /\ MaxLag \in Nat /\ L \in Nat \ {0}
  BY SdDiskAssumption
<1>3. CASE out = <<0, 8>>
  <2>1. \A k \in Nat : Byte(out, k) = 254 => k < 1
    BY <1>3 DEF Byte
  <2>2. R1Bytes \in Nat /\ R1Bytes >= 1 /\ Loop(Drop(out, R1Bytes), TOKEN_TRIES, 0 .. 254) \in 1 .. TOKEN_TRIES
    BY <1>2, ResponseByte, LoopRange
  <2>3. TokenBytes \in Nat /\ TokenBytes > 1
    BY <1>2, <2>2 DEF TokenBytes
  <2> QED
    BY <2>1, <2>3
<1>4. ASSUME lba \in Sector, NEW lag \in 0 .. R1_TRIES - 1, NEW wait \in 0 .. MaxLag,
             out = After(lag, Delivery(wait, disk[lba]))
      PROVE  Fetched = disk[lba]
  <2>1. disk[lba] \in Content /\ wait \in Nat /\ lag \in Nat
    BY <1>2, <1>4 DEF Types
  <2>0. Carries(out, lag, wait, disk[lba])
    BY <1>4, <2>1, Delivered
  <2>2. out \in Seq(Bytes) /\ Len(out) = lag + (wait + L + 4)
    BY <2>0 DEF Carries
  <2>3. /\ \A k \in 1 .. lag : Byte(out, k) = 255
        /\ Byte(out, lag + 1) = 0
        /\ \A k \in 1 .. wait : Byte(out, lag + 1 + k) = 255
        /\ Byte(out, lag + wait + 2) = 254
    BY <2>0 DEF Carries
  <2>4. \A k \in 1 .. L : Byte(out, lag + wait + 2 + k) = disk[lba][k]
    BY <2>0 DEF Carries
  <2>5. R1Bytes = lag + 1
    BY <2>3, Answered
  <2> DEFINE rest == Drop(out, R1Bytes)
  <2>6. \A k \in Nat \ {0} : Byte(rest, k) = Byte(out, lag + 1 + k)
    <3>1. R1Bytes \in 0 .. Len(out)
      BY <1>2, <2>1, <2>2, <2>5
    <3> QED
      BY <2>2, <2>5, <3>1, Dropping
  <2> HIDE DEF rest
  <2>7. \A k \in 1 .. wait : Byte(rest, k) = 255
    BY <2>1, <2>3, <2>6
  <2>8. CASE wait < TOKEN_TRIES
    <3>1. Byte(rest, wait + 1) = 254
      <4>1. lag + 1 + (wait + 1) = lag + wait + 2 /\ wait + 1 \in Nat \ {0}
        BY <2>1
      <4> QED
        BY <2>3, <2>6, <4>1
    <3> DEFINE m == wait + 1
    <3>2. m \in 1 .. TOKEN_TRIES /\ \A k \in 1 .. m - 1 : Byte(rest, k) \notin 0 .. 254
      BY <1>2, <2>1, <2>7, <2>8
    <3> HIDE DEF m
    <3>3. Byte(rest, m) \in 0 .. 254
      BY <3>1 DEF m
    <3>4. Loop(rest, TOKEN_TRIES, 0 .. 254) = m
      <4> DEFINE tokens == 0 .. 254
      <4>1. Byte(rest, m) \in tokens /\ \A k \in 1 .. m - 1 : Byte(rest, k) \notin tokens
        BY <3>2, <3>3
      <4> HIDE DEF tokens
      <4>2. Loop(rest, TOKEN_TRIES, tokens) = m
        BY <1>2, <3>2, <4>1, FirstByte
      <4> QED
        BY <4>2 DEF tokens
    <3>5. TokenBytes = lag + wait + 2
      <4>1. TokenBytes = R1Bytes + m
        BY <3>4 DEF TokenBytes, rest
      <4> QED
        BY <2>1, <2>5, <4>1 DEF m
    <3>6. \A k \in 1 .. L : Byte(out, TokenBytes + k) = disk[lba][k]
      BY <2>4, <3>5
    <3> DEFINE sector == disk[lba]
               n == TokenBytes
    <3>7. sector \in Content /\ \A k \in 1 .. L : Byte(out, n + k) = sector[k]
      BY <2>1, <3>6
    <3> HIDE DEF sector, n
    <3>8. [k \in 1 .. L |-> Byte(out, n + k)] = sector
      BY <3>7 DEF Content
    <3> QED
      BY <3>8 DEF Fetched, sector, n
  <2>9. CASE wait >= TOKEN_TRIES
    <3>1. \A k \in 1 .. TOKEN_TRIES : Byte(rest, k) = 255
      BY <1>2, <2>1, <2>7, <2>9
    <3>2. Loop(rest, TOKEN_TRIES, 0 .. 254) = TOKEN_TRIES
      BY <1>2, <3>1, LoopRange
    <3>3. TokenBytes = lag + 1 + TOKEN_TRIES
      BY <2>5, <3>2 DEF TokenBytes, rest
    <3>4. Byte(out, TokenBytes) = 255
      BY <1>2, <2>6, <3>1, <3>3
    <3> QED
      BY <3>4
  <2> QED
    BY <1>2, <2>1, <2>8, <2>9
<1> QED
  BY <1>1, <1>3, <1>4 DEF Delivers

\* What is read as the status of a write is what the card reports.
LEMMA StatusRead ==
    ASSUME Reports(out, card.failed), r = 0, Byte(out, R1Bytes + 1) = 0
    PROVE  ~card.failed
<1>1. ~Mute(out)
  BY ResponseByte DEF Mute, r
<1>2. PICK lag \in 0 .. R1_TRIES - 1 : out = After(lag, Report(card.failed))
  BY <1>1 DEF Reports
<1>3. lag \in Nat /\ Report(card.failed) \in Seq(Bytes) /\ Len(Report(card.failed)) = 2
  <2>1. lag \in Nat
    BY SdDiskAssumption
  <2>2. \A b \in Bytes : <<0, b>> \in Seq(Bytes) /\ Len(<<0, b>>) = 2
    BY DEF Bytes
  <2> QED
    BY <2>1, <2>2 DEF Report, Bytes
<1>4. /\ \A k \in 1 .. lag : Byte(out, k) = 255
      /\ \A k \in 1 .. 2 : Byte(out, lag + k) = Report(card.failed)[k]
  <2>1. Waits(out, lag, Report(card.failed))
    BY <1>2, <1>3, Lagging
  <2> QED
    BY <1>3, <2>1 DEF Waits
<1>5. Byte(out, lag + 1) = 0 /\ Byte(out, lag + 2) = IF card.failed THEN 4 ELSE 0
  BY <1>4 DEF Report
<1>6. R1Bytes = lag + 1
  BY <1>4, <1>5, Answered
<1>7. R1Bytes + 1 = lag + 2
  BY <1>3, <1>6
<1> QED
  BY <1>5, <1>7

--------------------------------------------------------------------------------
(* What a command of a read or a write leaves in the line. *)

LEMMA MuteLines ==
    /\ Mute(<<>>) /\ Mute(<<8>>)
    /\ \A lag \in Nat : Mute(After(lag, <<5>>)) /\ Mute(After(lag, <<32>>))
    /\ \A lag \in Nat, says \in Seq(Bytes) : lag >= R1_TRIES => Mute(After(lag, says))
<1>1. R1_TRIES \in Nat
  BY SdDiskAssumption
<1>2. Mute(<<>>) /\ Mute(<<8>>)
  BY <1>1 DEF Mute, Byte
<1>3. ASSUME NEW lag \in Nat, NEW b \in {5, 32} PROVE Mute(After(lag, <<b>>))
  <2> DEFINE line == After(lag, <<b>>)
  <2>1. <<b>> \in Seq(Bytes) /\ Len(<<b>>) = 1
    BY DEF Bytes
  <2>2. Waits(line, lag, <<b>>)
    BY <2>1, Lagging
  <2> HIDE DEF line
  <2>3. /\ \A k \in 1 .. lag : Byte(line, k) = 255
        /\ Byte(line, lag + 1) = b
        /\ \A k \in Nat : k > lag + 1 => Byte(line, k) = 255
    BY <2>1, <2>2 DEF Waits
  <2>4. \A k \in Nat \ {0} : Byte(line, k) # 0
    BY <2>3
  <2>5. Mute(line)
    BY <1>1, <2>4 DEF Mute
  <2> QED
    BY <2>5 DEF line
<1>4. ASSUME NEW lag \in Nat, NEW says \in Seq(Bytes), lag >= R1_TRIES PROVE Mute(After(lag, says))
  <2> DEFINE line == After(lag, says)
  <2>1. Waits(line, lag, says)
    BY Lagging
  <2> HIDE DEF line
  <2>2. \A k \in 1 .. R1_TRIES : Byte(line, k) = 255
    BY <1>1, <1>4, <2>1 DEF Waits
  <2>3. Mute(line)
    BY <2>2 DEF Mute
  <2> QED
    BY <2>3 DEF line
<1> QED
  BY <1>2, <1>3, <1>4

\* A command that is not late is heard.
LEMMA Heard ==
    ASSUME NEW c, NEW arg, NEW s, Sends(c, arg, s), ~late'
    PROVE  Hears(c, arg) /\ at' = c
BY DEF Sends, SendsOn

\* What comes of a command that the card hears: nothing, a refusal, half an answer, or
\* what the card says, after a wait.
LEMMA Comes ==
    ASSUME NEW c \in Cmd, NEW arg, Hears(c, arg)
    PROVE  \/ out' \in {<<>>, <<8>>} /\ (card' = card \/ \E ans \in Obeys(c, arg) : card' = ans.card)
           \/ c = 17 /\ out' = <<0, 8>> /\ card' = card
           \/ \E ans \in Obeys(c, arg) : \E lag \in Nat : card' = ans.card /\ out' = After(lag, ans.says)
<1>1. \A lag \in 0 .. MaxLag : lag \in Nat
  BY SdDiskAssumption
<1> QED
  BY <1>1 DEF Hears, After

LEMMA AnswersToRead ==
    ASSUME NEW arg, NEW ans \in Obeys(17, arg)
    PROVE  /\ ans.card = card
           /\ \/ ans.says \in {<<5>>, <<32>>}
              \/ /\ card.state = "ready" /\ Block(arg) \in Sector
                 /\ \E wait \in 0 .. MaxLag : ans.says = Delivery(wait, disk[Block(arg)])
<1>1. CASE card.state # "ready"
  BY <1>1 DEF Obeys, Says
<1>2. CASE card.state = "ready" /\ Block(arg) \notin Sector
  BY <1>2 DEF Obeys, Says
<1>3. CASE card.state = "ready" /\ Block(arg) \in Sector
  <2>1. ans \in UNION {Says(Delivery(wait, disk[Block(arg)])) : wait \in 0 .. MaxLag}
    BY <1>3 DEF Obeys, Delivery
  <2>2. PICK wait \in 0 .. MaxLag : ans \in Says(Delivery(wait, disk[Block(arg)]))
    BY <2>1
  <2> QED
    BY <1>3, <2>2 DEF Says
<1> QED
  BY <1>1, <1>2, <1>3

LEMMA AnswersToWrite ==
    ASSUME NEW arg, NEW ans \in Obeys(24, arg), IsCard(card)
    PROVE  \/ ans.says \in {<<5>>, <<32>>}
           \/ card.state = "ready" /\ ans.card.taking = Block(arg)
<1>1. CASE card.state # "ready"
  BY <1>1 DEF Obeys, Says
<1>2. CASE card.state = "ready" /\ Block(arg) \notin Sector
  BY <1>2 DEF Obeys, Says
<1>3. CASE card.state = "ready" /\ Block(arg) \in Sector
  <2>1. ans.card = [card EXCEPT !.taking = Block(arg), !.failed = FALSE]
    BY <1>3 DEF Obeys
  <2>2. ans.card = [kind |-> card.kind, state |-> card.state, idles |-> card.idles,
                    taking |-> Block(arg), failed |-> FALSE]
    BY <2>1 DEF IsCard
  <2> QED
    BY <1>3, <2>2
<1> QED
  BY <1>1, <1>2, <1>3

LEMMA AnswersToStatus ==
    ASSUME NEW ans \in Obeys(13, 0)
    PROVE  ans.card = card /\ (ans.says = <<5>> \/ ans.says = Report(card.failed))
<1>1. CASE card.state # "ready"
  BY <1>1 DEF Obeys, Says
<1>2. CASE card.state = "ready"
  BY <1>2 DEF Obeys, Says, Report
<1> QED
  BY <1>1, <1>2

LEMMA ReadAsked ==
    ASSUME Types, Known, NEW lba \in Nat, NEW top \in Sector, lba <= top,
           NEW s, Sends(17, Address(lba), s), ~late'
    PROVE  at' = 17 /\ Delivers(out', disk, lba)
<1>1. at' = 17 /\ Hears(17, Address(lba))
  BY Heard
<1>2. 17 \in Cmd
  BY DEF Cmd
<1>3. CASE out' \in {<<>>, <<8>>} \/ out' = <<0, 8>>
  BY <1>1, <1>3, MuteLines DEF Delivers
<1>4. ASSUME NEW ans \in Obeys(17, Address(lba)), NEW lag \in Nat, out' = After(lag, ans.says)
      PROVE  Delivers(out', disk, lba)
  <2>1. CASE ans.says \in {<<5>>, <<32>>}
    BY <1>4, <2>1, MuteLines DEF Delivers
  <2>2. CASE /\ card.state = "ready" /\ Block(Address(lba)) \in Sector
             /\ \E wait \in 0 .. MaxLag : ans.says = Delivery(wait, disk[Block(Address(lba))])
    <3>1. Block(Address(lba)) = lba
      BY <2>2, Aiming
    <3>2. PICK wait \in 0 .. MaxLag : ans.says = Delivery(wait, disk[lba])
      BY <2>2, <3>1
    <3>3. lba \in Sector /\ disk[lba] \in Content /\ wait \in Nat /\ R1_TRIES \in Nat
      BY <2>2, <3>1, SdDiskAssumption DEF Types
    <3>4. ans.says \in Seq(Bytes)
      <4>1. Packs(Delivery(wait, disk[lba]), wait, disk[lba])
        BY <3>3, Unpacked
      <4> QED
        BY <3>2, <4>1 DEF Packs
    <3>5. CASE lag >= R1_TRIES
      BY <1>4, <3>4, <3>5, MuteLines DEF Delivers
    <3>6. CASE lag \in 0 .. R1_TRIES - 1
      BY <1>4, <3>2, <3>3, <3>6 DEF Delivers
    <3> QED
      BY <3>3, <3>5, <3>6
  <2> QED
    BY <2>1, <2>2, AnswersToRead
<1> QED
  BY <1>1, <1>2, <1>3, <1>4, Comes

LEMMA WriteAsked ==
    ASSUME IsCard(card), Known, NEW lba \in Sector, NEW s, Sends(24, Address(lba), s), ~late'
    PROVE  at' = 24 /\ (Mute(out') \/ card'.taking = lba)
<1>1. at' = 24 /\ Hears(24, Address(lba))
  BY Heard
<1>2. 24 \in Cmd
  BY DEF Cmd
<1>3. CASE out' \in {<<>>, <<8>>}
  BY <1>1, <1>3, MuteLines
<1>4. ASSUME NEW ans \in Obeys(24, Address(lba)), NEW lag \in Nat,
             card' = ans.card, out' = After(lag, ans.says)
      PROVE  Mute(out') \/ card'.taking = lba
  <2>1. CASE ans.says \in {<<5>>, <<32>>}
    BY <1>4, <2>1, MuteLines
  <2>2. CASE card.state = "ready" /\ ans.card.taking = Block(Address(lba))
    <3>1. lba \in Nat /\ lba <= lba
      BY SdDiskAssumption
    <3>2. Block(Address(lba)) = lba
      BY <2>2, <3>1, Aiming
    <3> QED
      BY <1>4, <2>2, <3>2
  <2> QED
    BY <2>1, <2>2, AnswersToWrite
<1> QED
  BY <1>1, <1>2, <1>3, <1>4, Comes

LEMMA StatusAsked ==
    ASSUME NEW s, Sends(13, 0, s), ~late'
    PROVE  at' = 13 /\ card' = card /\ Reports(out', card.failed)
<1>1. at' = 13 /\ Hears(13, 0)
  BY Heard
<1>2. 13 \in Cmd
  BY DEF Cmd
<1>3. CASE /\ out' \in {<<>>, <<8>>}
           /\ card' = card \/ \E ans \in Obeys(13, 0) : card' = ans.card
  BY <1>1, <1>3, MuteLines, AnswersToStatus DEF Reports
<1>4. ASSUME NEW ans \in Obeys(13, 0), NEW lag \in Nat,
             card' = ans.card, out' = After(lag, ans.says)
      PROVE  card' = card /\ Reports(out', card.failed)
  <2>1. card' = card
    BY <1>4, AnswersToStatus
  <2>2. CASE ans.says = <<5>>
    BY <1>4, <2>1, <2>2, MuteLines DEF Reports
  <2>3. CASE ans.says = Report(card.failed)
    <3>1. R1_TRIES \in Nat /\ ans.says \in Seq(Bytes)
      <4>1. \A b \in Bytes : <<0, b>> \in Seq(Bytes)
        BY DEF Bytes
      <4> QED
        BY <2>3, <4>1, SdDiskAssumption DEF Report, Bytes
    <3>2. CASE lag >= R1_TRIES
      BY <1>4, <2>1, <3>1, <3>2, MuteLines DEF Reports
    <3>3. CASE lag \in 0 .. R1_TRIES - 1
      BY <1>4, <2>1, <2>3, <3>3 DEF Reports
    <3> QED
      BY <3>1, <3>2, <3>3
  <2> QED
    BY <2>2, <2>3, AnswersToStatus
<1> QED
  BY <1>1, <1>2, <1>3, <1>4, Comes

--------------------------------------------------------------------------------
(* The steps of the driver, and what has been read and written. *)

LEMMA SendsAt == ASSUME NEW c, NEW arg, NEW s, Sends(c, arg, s) PROVE at' = c
  BY DEF Sends, SendsOn

\* A command of an initialisation goes on to another, or is the last.
LEMMA InitCommands ==
    ASSUME at \in InitCmd, Driver
    PROVE  /\ UNCHANGED <<disk, buf>>
           /\ \/ at' \in InitCmd /\ UNCHANGED <<req, index, ret>>
              \/ /\ at' = REST /\ req' = None /\ index' = 0
                 /\ drive_status' = "ready" <=> ret' = "RES_OK"
<1> DEFINE Over == /\ at' = REST /\ req' = None /\ index' = 0
                   /\ drive_status' = "ready" <=> ret' = "RES_OK"
<1>1. \A n, status : Initialized(n, status) => Over
  BY DEF Initialized, Quiet
<1>2. \A c \in InitCmd : \A arg, s : Sends(c, arg, s) => at' \in InitCmd
  BY SendsAt
<1> HIDE DEF Over
<1>3. CASE Cmd0
  BY <1>1, <1>2, <1>3 DEF Cmd0, InitCmd, Over
<1>4. CASE Cmd8
  BY <1>1, <1>2, <1>4 DEF Cmd8, InitCmd, Over
<1>5. CASE Cmd55
  BY <1>5 DEF Cmd55, SendsOn, callVars, InitCmd
<1>6. CASE Cmd41
  BY <1>1, <1>2, <1>6 DEF Cmd41, InitCmd, Over
<1>7. CASE Cmd58
  BY <1>1, <1>2, <1>7 DEF Cmd58, InitCmd, Over
<1>8. CASE Cmd16
  BY <1>1, <1>2, <1>8 DEF Cmd16, InitCmd, Over
<1>9. ~Cmd17 /\ ~Cmd24 /\ ~Wrote /\ ~Cmd13
  BY DEF Cmd17, Cmd24, Wrote, Cmd13, InitCmd, WROTE
<1> QED
  BY <1>3, <1>4, <1>5, <1>6, <1>7, <1>8, <1>9 DEF Driver

\* Where nothing is read or written there is nothing to say of it.
LEMMA NothingDealt ==
    ASSUME Types, disk' \in [Sector -> Content], DOMAIN buf' = 0 .. MaxCount - 1, index' = 0,
           at' \in InitCmd \cup {REST}, at' = REST <=> req'.op = "none"
    PROVE  Types' /\ Dealt'
<1>1. at' \notin {17, 24, WROTE, 13}
  BY DEF InitCmd, REST, WROTE
<1> QED
  BY <1>1 DEF Types, Dealt

\* The buffer is filled with what the card holds.
LEMMA Loaded ==
    ASSUME DInv, ~Doubt, at = 17, r = 0, Byte(out, TokenBytes) = 254,
           buf' = [buf EXCEPT ![index] = Fetched]
    PROVE  \A k \in 0 .. index : buf'[k] = disk[req.lba + k]
<1>1. /\ Delivers(out, disk, req.lba + index)
      /\ \A k \in 0 .. index - 1 : buf[k] = disk[req.lba + k]
  BY DEF DInv, Dealt
<1>2. Fetched = disk[req.lba + index]
  BY <1>1, SectorRead DEF DInv
<1>3. /\ DOMAIN buf = 0 .. MaxCount - 1 /\ req.count \in 1 .. MaxCount
      /\ index \in 0 .. req.count - 1 /\ MaxCount \in Nat
  BY SdDiskAssumption DEF DInv, Types
<1>4. index \in DOMAIN buf /\ index \in Nat
  BY <1>3
<1>5. buf'[index] = disk[req.lba + index]
  BY <1>2, <1>4
<1>6. \A k \in 0 .. index - 1 : buf'[k] = buf[k]
  BY <1>3
<1>7. \A k \in 0 .. index : k = index \/ k \in 0 .. index - 1
  BY <1>4
<1> QED
  BY <1>1, <1>5, <1>6, <1>7

LEMMA NoDoubt ==
    ASSUME Shape, NEW c \in {17, 24, 13}, NEW arg, NEW s, Sends(c, arg, s), ~Doubt'
    PROVE  ~Doubt /\ ~late'
<1>1. c \in Cmd /\ c \in Cmd \ {0, 58}
  BY DEF Cmd
<1>2. Sent(c, arg)
  BY <1>1, Selecting DEF Shape
<1> QED
  BY <1>1, <1>2, Doubts DEF Doubt

LEMMA ReadBegins ==
    ASSUME DInv, Read
    PROVE  Types' /\ Dealt'
<1>1. PICK lba \in Sector, count \in 1 .. MaxCount :
          /\ (lba + count) - 1 \in Sector
          /\ req' = [op |-> "read", lba |-> lba, count |-> count]
          /\ Sends(17, Address(lba), out)
  <2>1. \A a, b \in Int : a + b - 1 = (a + b) - 1
    OBVIOUS
  <2>2. Sector \subseteq Int /\ MaxCount \in Nat
    BY SdDiskAssumption
  <2> QED
    BY <2>1, <2>2 DEF Read
<1>2. at = REST /\ drive_status = "ready" /\ buf' = Blank /\ UNCHANGED <<index, drive_status, disk>>
  BY DEF Read
<1>3. /\ at' = 17 /\ index = 0 /\ lba \in Nat /\ count \in Nat /\ MaxCount \in Nat
      /\ req'.op = "read" /\ req'.lba = lba /\ req'.count = count
      /\ disk \in [Sector -> Content]
  BY <1>1, <1>2, SendsAt, SdDiskAssumption DEF DInv, Types, REST
<1>4. Types'
  <2>1. DOMAIN buf' = 0 .. MaxCount - 1
    BY <1>2 DEF Blank
  <2> QED
    BY <1>1, <1>2, <1>3, <2>1 DEF Types, REST, WROTE
<1>5. ASSUME ~Doubt' PROVE Delivers(out', disk', req'.lba + index')
  <2>1. ~Doubt /\ ~late'
    BY <1>1, <1>5, NoDoubt DEF DInv, IInv
  <2>2. Known
    BY <1>2, <2>1 DEF DInv, IInv, Course, InitCmd, REST
  <2>3. Delivers(out', disk, lba)
    BY <1>1, <1>3, <2>1, <2>2, ReadAsked DEF DInv
  <2> QED
    BY <1>2, <1>3, <2>3
<1>6. Dealt'
  BY <1>2, <1>3, <1>5 DEF Dealt, WROTE
<1> QED
  BY <1>4, <1>6

LEMMA ReadGoesOn ==
    ASSUME DInv, Cmd17
    PROVE  Types' /\ Dealt'
<1>1. /\ at = 17 /\ UNCHANGED <<sd_hc, drive_status, disk>>
      /\ disk \in [Sector -> Content] /\ DOMAIN buf = 0 .. MaxCount - 1
      /\ req.op = "read" /\ req.lba \in Nat /\ req.count \in 1 .. MaxCount
      /\ index \in 0 .. req.count - 1 /\ (req.lba + req.count) - 1 \in Sector
      /\ drive_status = "ready" /\ MaxCount \in Nat
  BY SdDiskAssumption DEF Cmd17, DInv, Types
<1>2. ASSUME NEW n, NEW result, Returned(n, result), DOMAIN buf' = DOMAIN buf
      PROVE  Types' /\ Dealt'
  <2>1. at' = REST /\ req'.op = "none" /\ index' = 0
    BY <1>2 DEF Returned, Quiet, None
  <2> QED
    BY <1>1, <1>2, <2>1, NothingDealt DEF DInv
<1>3. ASSUME r = 0, Byte(out, TokenBytes) = 254, buf' = [buf EXCEPT ![index] = Fetched],
             index + 1 < req.count, index' = index + 1, req' = req,
             NEW s, Sends(17, Address(req.lba + index + 1), s)
      PROVE  Types' /\ Dealt'
  <2>1. at' = 17 /\ DOMAIN buf' = DOMAIN buf
    BY <1>3, SendsAt
  <2>2. index' \in 0 .. req.count - 1 /\ index \in Nat
    BY <1>1, <1>3
  <2>3. Types'
    BY <1>1, <1>3, <2>1, <2>2 DEF Types, REST, WROTE
  <2>4. ASSUME ~Doubt' PROVE Dealt'
    <3>1. ~Doubt /\ ~late'
      BY <1>3, <2>4, NoDoubt DEF DInv, IInv
    <3>2. Known
      BY <1>1, <3>1 DEF DInv, IInv, Course, InitCmd
    <3> DEFINE lba == req.lba + index + 1
               top == (req.lba + req.count) - 1
    <3>3. lba \in Nat /\ top \in Sector /\ lba <= top /\ lba = req.lba + index'
      BY <1>1, <1>3, <2>2
    <3>4. Sends(17, Address(lba), s)
      BY <1>3
    <3> HIDE DEF lba, top
    <3>5. Delivers(out', disk, lba)
      BY <3>1, <3>2, <3>3, <3>4, ReadAsked DEF DInv
    <3>6. \A k \in 0 .. index : buf'[k] = disk[req.lba + k]
      BY <1>1, <1>3, <3>1, Loaded
    <3>7. index' - 1 = index
      BY <1>3, <2>2
    <3> QED
      BY <1>1, <1>3, <2>1, <3>3, <3>5, <3>6, <3>7 DEF Dealt, WROTE
  <2> QED
    BY <2>3, <2>4 DEF Dealt
<1>4. CASE Returned(R1Bytes, "RES_ERROR") /\ UNCHANGED buf
  BY <1>2, <1>4
<1>5. CASE Returned(TokenBytes, "RES_ERROR") /\ UNCHANGED buf
  BY <1>2, <1>5
<1>6. CASE /\ r = 0 /\ Byte(out, TokenBytes) = 254 /\ buf' = [buf EXCEPT ![index] = Fetched]
           /\ Returned(TokenBytes + L + 2, "RES_OK")
  BY <1>2, <1>6
<1> QED
  BY <1>3, <1>4, <1>5, <1>6 DEF Cmd17, Fetched

LEMMA WriteBegins ==
    ASSUME DInv, Write
    PROVE  Types' /\ Dealt'
<1>1. PICK lba \in Sector, data \in Data :
          /\ req' = [op |-> "write", lba |-> lba, data |-> data]
          /\ Sends(24, Address(lba), out)
  BY DEF Write
<1>2. at = REST /\ drive_status = "ready" /\ buf' = Blank /\ UNCHANGED <<index, drive_status, disk>>
  BY DEF Write
<1>3. /\ at' = 24 /\ index = 0
      /\ req'.op = "write" /\ req'.lba = lba /\ req'.data = data
      /\ disk \in [Sector -> Content]
  BY <1>1, <1>2, SendsAt DEF DInv, Types, REST
<1>4. Types'
  <2>1. DOMAIN buf' = 0 .. MaxCount - 1
    BY <1>2 DEF Blank
  <2> QED
    BY <1>1, <1>2, <1>3, <2>1 DEF Types, REST, WROTE
<1>5. ASSUME ~Doubt' PROVE Mute(out') \/ card'.taking = req'.lba
  <2>1. ~Doubt /\ ~late'
    BY <1>1, <1>5, NoDoubt DEF DInv, IInv
  <2>2. Known /\ IsCard(card)
    BY <1>2, <2>1 DEF DInv, IInv, Shape, Course, InitCmd, REST
  <2> QED
    BY <1>1, <1>3, <2>1, <2>2, WriteAsked
<1>6. Dealt'
  BY <1>3, <1>5 DEF Dealt, WROTE
<1> QED
  BY <1>4, <1>6

\* A block that is sent goes to the sector it is for, and the card knows whether it is there.
LEMMA BlockSent ==
    ASSUME DInv, at = 24, r = 0, NEW s, Takes(s), req' = req
    PROVE  /\ disk' \in [Sector -> Content]
           /\ ~Doubt => /\ Stored' \/ Rejects(out')
                        /\ \A t \in DOMAIN disk \ {req.lba} : disk'[t] = disk[t]
<1>1. /\ disk \in [Sector -> Content] /\ req.lba \in Sector /\ req.data \in Content
      /\ IsCard(card) /\ R1_TRIES \in Nat
  BY SdDiskAssumption DEF DInv, IInv, Shape, Types, Content, Bytes
<1>2. Fill(L, 0) \in Content
  BY DEF Fill, Content, Bytes
<1>3. ASSUME ~Doubt PROVE card.taking = req.lba /\ card.taking # -1
  <2>1. ~Mute(out)
    BY ResponseByte DEF Mute, r
  <2>2. card.taking = req.lba
    BY <1>3, <2>1 DEF DInv, Dealt
  <2>3. \A lba \in Sector : lba # -1
    BY SdDiskAssumption
  <2> QED
    BY <1>1, <2>2, <2>3
<1>4. CASE card.taking = -1 /\ UNCHANGED disk
  BY <1>1, <1>3, <1>4
<1>5. ASSUME NEW block \in {req.data, Fill(L, 0)}, disk' = [disk EXCEPT ![card.taking] = block]
      PROVE  /\ disk' \in [Sector -> Content]
             /\ ~Doubt => /\ disk'[req.lba] = block
                          /\ \A t \in DOMAIN disk \ {req.lba} : disk'[t] = disk[t]
  BY <1>1, <1>2, <1>3, <1>5
<1>6. CASE disk' = [disk EXCEPT ![card.taking] = req.data]
  BY <1>5, <1>6 DEF Stored
<1>7. CASE UNCHANGED disk /\ out' = <<11>>
  <2>1. Rejects(out')
    BY <1>1, <1>7 DEF Rejects, Byte
  <2> QED
    BY <1>1, <1>7, <2>1
<1>8. ASSUME NEW good \in BOOLEAN,
             disk' = [disk EXCEPT ![card.taking] = IF good THEN req.data ELSE Fill(L, 0)],
             card' = [card EXCEPT !.taking = -1, !.failed = ~good]
      PROVE  /\ disk' \in [Sector -> Content]
             /\ ~Doubt => /\ Stored' \/ Rejects(out')
                          /\ \A t \in DOMAIN disk \ {req.lba} : disk'[t] = disk[t]
  <2>1. CASE good
    BY <1>6, <1>8, <2>1
  <2>2. CASE ~good
    <3>1. card' = [kind |-> card.kind, state |-> card.state, idles |-> card.idles,
                   taking |-> -1, failed |-> TRUE]
      BY <1>1, <1>8, <2>2 DEF IsCard
    <3>2. Stored'
      BY <3>1 DEF Stored
    <3> QED
      BY <1>5, <1>8, <2>2, <3>2
  <2> QED
    BY <2>1, <2>2
<1> QED
  BY <1>4, <1>6, <1>7, <1>8 DEF Takes

LEMMA BlockGoes ==
    ASSUME DInv, Cmd24
    PROVE  Types' /\ Dealt'
<1>1. /\ at = 24 /\ UNCHANGED <<sd_hc, drive_status, buf, swaps>>
      /\ disk \in [Sector -> Content] /\ DOMAIN buf = 0 .. MaxCount - 1
      /\ req.op = "write" /\ req.lba \in Sector /\ req.data \in Data /\ index = 0
  BY DEF Cmd24, DInv, Types
<1>2. CASE Returned(R1Bytes, "RES_ERROR") /\ UNCHANGED disk
  <2>1. at' = REST /\ req'.op = "none" /\ index' = 0
    BY <1>2 DEF Returned, Quiet, None
  <2> QED
    BY <1>1, <1>2, <2>1, NothingDealt DEF DInv
<1>3. CASE /\ r = 0 /\ at' = WROTE
           /\ Takes(Drop(out, R1Bytes))
           /\ UNCHANGED <<v2, tries, index, req, ret, late, blind, hurt>>
  <2>1. /\ disk' \in [Sector -> Content]
        /\ ~Doubt => Stored' \/ Rejects(out')
    BY <1>1, <1>3, BlockSent
  <2>2. Types'
    BY <1>1, <1>3, <2>1 DEF Types, REST, WROTE
  <2>3. Dealt'
    BY <1>3, <2>1 DEF Dealt, Doubt, WROTE
  <2> QED
    BY <2>2, <2>3
<1> QED
  BY <1>2, <1>3 DEF Cmd24

LEMMA StatusGoes ==
    ASSUME DInv, Wrote
    PROVE  Types' /\ Dealt'
<1>1. /\ at = WROTE /\ UNCHANGED <<sd_hc, drive_status, buf, disk, swaps>>
      /\ disk \in [Sector -> Content] /\ DOMAIN buf = 0 .. MaxCount - 1
      /\ req.op = "write" /\ req.lba \in Sector /\ req.data \in Data /\ index = 0
  BY DEF Wrote, DInv, Types, WROTE
<1>2. ASSUME NEW n, Returned(n, "RES_ERROR") PROVE Types' /\ Dealt'
  <2>1. at' = REST /\ req'.op = "none" /\ index' = 0
    BY <1>2 DEF Returned, Quiet, None
  <2> QED
    BY <1>1, <2>1, NothingDealt DEF DInv
<1>3. ASSUME NEW n, n = Loop(out, R1_TRIES, DataResponse), Byte(out, n) % 32 = 5,
             NEW s, Sends(13, 0, s), UNCHANGED <<index, req>>
      PROVE  Types' /\ Dealt'
  <2>1. at' = 13
    BY <1>3, SendsAt
  <2>2. Types'
    BY <1>1, <1>3, <2>1 DEF Types, REST, WROTE
  <2>3. ASSUME ~Doubt' PROVE Stored' /\ Reports(out', card'.failed)
    <3>1. ~Doubt /\ ~late'
      BY <1>3, <2>3, NoDoubt DEF DInv, IInv
    <3>2. R1_TRIES \in Nat \ {0}
      BY SdDiskAssumption
    <3>3. n \in 1 .. R1_TRIES
      BY <1>3, <3>2, LoopRange
    <3>4. Stored
      BY <1>1, <1>3, <3>1, <3>3 DEF DInv, Dealt, Rejects
    <3>5. card' = card /\ Reports(out', card.failed)
      BY <1>3, <3>1, StatusAsked
    <3> QED
      BY <1>1, <1>3, <3>4, <3>5 DEF Stored
  <2>4. Dealt'
    BY <2>1, <2>3 DEF Dealt, WROTE
  <2> QED
    BY <2>2, <2>4
<1> QED
  BY <1>2, <1>3 DEF Wrote

LEMMA InitDInv == Init => DInv
<1> SUFFICES ASSUME Init PROVE DInv
  OBVIOUS
<1>1. /\ at = REST /\ req.op = "none" /\ index = 0 /\ DOMAIN buf = 0 .. MaxCount - 1
      /\ disk \in [Sector -> Content]
  BY SdDiskAssumption DEF Init, None, Blank, Content, Bytes
<1>2. Types /\ Dealt
  BY <1>1 DEF Types, Dealt, REST, WROTE
<1> QED
  BY <1>2, InitInv DEF DInv

LEMMA NextDInv == ASSUME DInv, [Next]_vars PROVE DInv'
<1>1. IInv'
  BY NextInv DEF DInv
<1>2. Types' /\ Dealt'
  <2>1. CASE UNCHANGED vars \/ NotReady
    <3>1. UNCHANGED <<at, req, index, buf, card, disk, out, drive_status, late, blind>>
      BY <2>1 DEF vars, NotReady, callVars, faultVars
    <3>2. Types'
      BY <3>1 DEF DInv, Types
    <3>3. Dealt'
      BY <3>1 DEF DInv, Dealt, Doubt, Stored
    <3> QED
      BY <3>2, <3>3
  <2>2. CASE Initialize
    <3>1. at' = 0 /\ index' = 0 /\ UNCHANGED disk /\ buf' = Blank /\ req'.op = "init"
      BY <2>2, SendsAt DEF Initialize, DInv, Types, REST
    <3> QED
      BY <3>1, NothingDealt DEF DInv, Types, Blank, InitCmd, REST
  <2>3. CASE Swap
    <3>1. /\ UNCHANGED <<at, index, buf, req>> /\ at = REST /\ disk' \in [Sector -> Content]
      BY <2>3, SdDiskAssumption DEF Swap, callVars, Content, Bytes
    <3> QED
      BY <3>1, NothingDealt DEF DInv, Types, REST
  <2>4. CASE Driver /\ at \in InitCmd
    <3>1. UNCHANGED <<disk, buf>>
      BY <2>4, InitCommands
    <3>2. CASE at' \in InitCmd /\ UNCHANGED <<req, index, ret>>
      BY <2>4, <3>1, <3>2, NothingDealt DEF DInv, Types, InitCmd, REST
    <3>3. CASE at' = REST /\ req' = None /\ index' = 0
      BY <3>1, <3>3, NothingDealt DEF DInv, Types, None
    <3> QED
      BY <2>4, <3>2, <3>3, InitCommands
  <2>5. CASE Driver /\ at \notin InitCmd
    <3>1. CASE Cmd13
      <4>1. at' = REST /\ req'.op = "none" /\ index' = 0 /\ UNCHANGED <<buf, disk>>
        BY <3>1 DEF Cmd13, Returned, Quiet, None
      <4> QED
        BY <4>1, NothingDealt DEF DInv, Types
    <3> QED
      BY <2>5, <3>1, ReadGoesOn, BlockGoes, StatusGoes
         DEF Driver, Cmd0, Cmd8, Cmd55, Cmd41, Cmd58, Cmd16, InitCmd
  <2> QED
    BY <2>1, <2>2, <2>3, <2>4, <2>5, ReadBegins, WriteBegins DEF Next
<1> QED
  BY <1>1, <1>2 DEF DInv

--------------------------------------------------------------------------------
(* The refinement. *)

\* A read that ends well has filled the buffer with what the sectors hold.
LEMMA ReadMaps == ASSUME DInv, Cmd17 PROVE Device!Load \/ Device!Answer
<1>1. /\ at = 17 /\ UNCHANGED disk
      /\ req.op = "read" /\ index \in 0 .. req.count - 1 /\ req.count \in Nat
  BY SdDiskAssumption DEF Cmd17, DInv, Types
<1>2. ASSUME NEW n, NEW result, Returned(n, result)
      PROVE  req'.op = "none" /\ ret' = result /\ UNCHANGED <<late, blind>>
  BY <1>2 DEF Returned, Quiet, None
<1>3. ASSUME NEW n, Returned(n, "RES_ERROR") PROVE Device!Answer
  BY <1>1, <1>2, <1>3 DEF Device!Answer
<1>4. CASE UNCHANGED <<req, ret>>
  BY <1>1, <1>4 DEF Device!Load
<1>5. CASE /\ r = 0 /\ Byte(out, TokenBytes) = 254 /\ buf' = [buf EXCEPT ![index] = Fetched]
           /\ ~(index + 1 < req.count) /\ Returned(TokenBytes + L + 2, "RES_OK")
  <2>1. index = req.count - 1
    BY <1>1, <1>5
  <2>2. ~Doubt => \A k \in 0 .. req.count - 1 : buf'[k] = disk[req.lba + k]
    BY <1>1, <1>5, <2>1, Loaded
  <2>3. Doubt' <=> Doubt
    BY <1>2, <1>5 DEF Doubt
  <2> QED
    BY <1>1, <1>2, <1>5, <2>2, <2>3 DEF Device!Answer
<1> QED
  BY <1>3, <1>4, <1>5 DEF Cmd17, Fetched

LEMMA WriteMaps == ASSUME DInv, Cmd24 PROVE Device!Store \/ Device!Answer
<1>1. at = 24 /\ req.op = "write" /\ UNCHANGED buf
  BY DEF Cmd24, DInv, Types
<1>2. CASE Returned(R1Bytes, "RES_ERROR") /\ UNCHANGED disk
  BY <1>1, <1>2 DEF Returned, Quiet, None, Device!Answer
<1>3. CASE r = 0 /\ Takes(Drop(out, R1Bytes)) /\ UNCHANGED <<req, ret>>
  BY <1>1, <1>3, BlockSent DEF Device!Store
<1> QED
  BY <1>2, <1>3 DEF Cmd24

\* A write that ends well is on the card.
LEMMA StatusMaps == ASSUME DInv, Cmd13 PROVE Device!Answer
<1>1. /\ at = 13 /\ req.op = "write" /\ UNCHANGED disk /\ req'.op = "none"
      /\ UNCHANGED <<late, blind>>
      /\ ret' = IF r = 0 /\ Byte(out, R1Bytes + 1) = 0 THEN "RES_OK" ELSE "RES_ERROR"
  BY DEF Cmd13, Returned, Quiet, None, DInv, Types
<1>2. ASSUME ret' = "RES_OK", ~Doubt PROVE disk[req.lba] = req.data
  <2>1. r = 0 /\ Byte(out, R1Bytes + 1) = 0
    BY <1>1, <1>2
  <2>2. Stored /\ Reports(out, card.failed)
    BY <1>1, <1>2 DEF DInv, Dealt
  <2> QED
    BY <2>1, <2>2, StatusRead DEF Stored
<1>3. Doubt' <=> Doubt
  BY <1>1 DEF Doubt
<1> QED
  BY <1>1, <1>2, <1>3 DEF Device!Answer

LEMMA StepMaps == ASSUME DInv, [Next]_vars PROVE [Device!Next]_<<disk, req, buf, ret>>
<1>1. CASE UNCHANGED vars
  BY <1>1 DEF vars, callVars
<1>2. CASE NotReady
  BY <1>2 DEF NotReady, None, Device!Refuse, Device!Next
<1>3. CASE Initialize \/ Read \/ Write
  <2>1. req.op = "none" /\ req'.op # "none" /\ ret' = "none" /\ UNCHANGED disk
    BY <1>3 DEF Initialize, Read, Write, None
  <2> QED
    BY <2>1 DEF Device!Ask, Device!Next
<1>4. CASE Swap
  BY <1>4 DEF Swap, callVars, None, Device!Change, Device!Next
<1>5. CASE Driver /\ at \in InitCmd
  <2>1. req.op = "init"
    BY <1>5 DEF DInv, IInv, Shape
  <2>2. UNCHANGED <<disk, buf>>
    BY <1>5, InitCommands
  <2>3. CASE UNCHANGED <<req, ret>>
    BY <2>2, <2>3
  <2>4. CASE req' = None
    BY <2>1, <2>2, <2>4 DEF None, Device!Answer, Device!Next
  <2> QED
    BY <1>5, <2>3, <2>4, InitCommands
<1>6. CASE Wrote
  <2>1. req.op = "write" /\ UNCHANGED <<disk, buf>>
    BY <1>6 DEF Wrote, DInv, Types, WROTE
  <2>2. UNCHANGED <<req, ret>> \/ (req'.op = "none" /\ ret' = "RES_ERROR")
    BY <1>6 DEF Wrote, Returned, Quiet, None
  <2> QED
    BY <2>1, <2>2 DEF Device!Answer, Device!Next
<1>7. CASE Cmd17 \/ Cmd24 \/ Cmd13
  BY <1>7, ReadMaps, WriteMaps, StatusMaps DEF Device!Next
<1>8. Driver => at \in InitCmd \/ Cmd17 \/ Cmd24 \/ Wrote \/ Cmd13
  BY DEF Driver, Cmd0, Cmd8, Cmd55, Cmd41, Cmd58, Cmd16, InitCmd
<1> QED
  BY <1>1, <1>2, <1>3, <1>4, <1>5, <1>6, <1>7, <1>8 DEF Next

\* DeviceSpec: the driver with its card is a drive.  As long as the answer to CMD58 arrived
\* and no command ran into the answer to another, disk_read delivers with RES_OK what
\* the sectors hold, and what sddisk_write_block confirms is on the card, alone.
THEOREM KeepsPromises == Spec => DeviceSpec
<1>1. DInv /\ [Next]_vars => [Device!Next]_<<disk, req, buf, ret>>
  BY StepMaps
<1> QED
  BY <1>1, InitDInv, NextDInv, PTL DEF Spec, DeviceSpec, Device!Spec

--------------------------------------------------------------------------------
(* An initialisation of which no command was lost.  The card has been reset,   *)
(* has answered every command, and has said "idle" once for every ACMD41.      *)

\* The card is not busy for longer than the driver repeats ACMD41.
Patient == MaxIdle < ACMD41_TRIES

\* The answer that is read next.
Answers(line, says) == \E lag \in 0 .. R1_TRIES - 1 : line = After(lag, says)

AnswerTo8 == IF card.kind = "v1" THEN <<5>> ELSE <<1, 0, 0, 1, 170>>

Healthy ==
    /\ at \notin InitCmd => tries = 0
    /\ ~hurt =>
         /\ at \in {0, 8} => card.state = "idle" /\ card.idles = 0 /\ tries = 0
         /\ at = 0 => Answers(out, <<1>>)
         /\ at = 8 => Answers(out, AnswerTo8)
         /\ at \in {55, 41} => (IsHc => v2) /\ tries \in Nat
         /\ at = 55 => card.state = "idle" /\ card.idles = tries
         /\ at = 41 => \/ /\ card.state = "idle" /\ card.idles = tries + 1 /\ tries < MaxIdle
                          /\ Answers(out, <<1>>)
                       \/ card.state = "ready" /\ Answers(out, <<0>>)
         /\ at \in {58, 16} => card.state = "ready"
         /\ at = 16 => Answers(out, <<0>>)

HInv == IInv /\ Healthy

\* A command that did not go wrong is answered.
LEMMA Responds ==
    ASSUME NEW c, NEW arg, NEW s, SendsOn(c, arg, s), ~hurt'
    PROVE  /\ at' = c /\ (c # 0 => ~hurt)
           /\ \E ans \in Obeys(c, arg) : card' = ans.card /\ Answers(out', ans.says)
<1>1. at' = c /\ ~Ill(c)
  BY DEF SendsOn, Ill
<1>2. PICK ans \in Obeys(c, arg), lag \in 0 .. MaxLag :
          card' = ans.card /\ out' = Fill(lag, 255) \o ans.says /\ lag < R1_TRIES /\ Well(c)
  BY <1>1 DEF SendsOn, Hears
<1>3. lag \in 0 .. R1_TRIES - 1
  BY <1>2, SdDiskAssumption
<1> QED
  BY <1>1, <1>2, <1>3 DEF Answers, After, Well

LEMMA RespondsAll ==
    ASSUME NEW c, NEW arg, NEW s, Sends(c, arg, s), ~hurt'
    PROVE  /\ at' = c /\ (c # 0 => ~hurt)
           /\ \E ans \in Obeys(c, arg) : card' = ans.card /\ Answers(out', ans.says)
BY Responds DEF Sends

\* The first byte of an answer is its response.
LEMMA Response ==
    ASSUME NEW b \in 0 .. 127, Answers(out, <<b>>)
    PROVE  r = b
<1>1. PICK lag \in 0 .. R1_TRIES - 1 : out = After(lag, <<b>>)
  BY DEF Answers
<1>2. lag \in Nat /\ <<b>> \in Seq(Bytes) /\ Len(<<b>>) = 1
  BY SdDiskAssumption DEF Bytes
<1>3. Waits(out, lag, <<b>>)
  BY <1>1, <1>2, Lagging
<1>4. /\ \A k \in 1 .. lag : Byte(out, k) = 255
      /\ Byte(out, lag + 1) = b
  BY <1>2, <1>3 DEF Waits
<1>5. \E h : Byte(out, lag + 2) = h
  OBVIOUS
<1> QED
  BY <1>4, <1>5, Answered

\* The echo that CMD8 brings back.
LEMMA Echo ==
    ASSUME Answers(out, <<1, 0, 0, 1, 170>>)
    PROVE  r = 1 /\ Byte(out, (R1Bytes + 4) - 1) = 1 /\ Byte(out, R1Bytes + 4) = 170
<1> DEFINE says == <<1, 0, 0, 1, 170>>
<1>1. PICK lag \in 0 .. R1_TRIES - 1 : out = After(lag, says)
  BY DEF Answers
<1>2. /\ lag \in Nat /\ says \in Seq(Bytes) /\ Len(says) = 5
      /\ says[1] = 1 /\ says[2] = 0 /\ says[4] = 1 /\ says[5] = 170
  BY SdDiskAssumption DEF Bytes
<1> HIDE DEF says
<1>3. Waits(out, lag, says)
  BY <1>1, <1>2, Lagging
<1>4. /\ \A k \in 1 .. lag : Byte(out, k) = 255
      /\ Byte(out, lag + 1) = 1 /\ Byte(out, lag + 2) = 0
      /\ Byte(out, lag + 4) = 1 /\ Byte(out, lag + 5) = 170
  BY <1>2, <1>3 DEF Waits
<1>5. R1Bytes = lag + 1 /\ r = 1
  BY <1>4, Answered
<1>6. (R1Bytes + 4) - 1 = lag + 4 /\ R1Bytes + 4 = lag + 5
  BY <1>2, <1>5
<1> QED
  BY <1>4, <1>5, <1>6

\* What a card does with the commands of an initialisation.
LEMMA Resets ==
    ASSUME IsCard(card), NEW arg, NEW ans \in Obeys(0, arg)
    PROVE  ans.card.state = "idle" /\ ans.card.idles = 0 /\ ans.says = <<1>>
<1>1. ans = [card |-> [card EXCEPT !.state = "idle", !.idles = 0, !.taking = -1], says |-> <<1>>]
  BY DEF Obeys
<1>2. ans.card = [kind |-> card.kind, state |-> "idle", idles |-> 0, taking |-> -1, failed |-> card.failed]
  BY <1>1 DEF IsCard
<1> QED
  BY <1>1, <1>2

LEMMA Tells ==
    ASSUME NEW arg
    PROVE  /\ \A ans \in Obeys(8, arg) : ans.card = card /\ ans.says = AnswerTo8
           /\ \A ans \in Obeys(55, arg) : ans.card = card
           /\ \A ans \in Obeys(58, arg) : ans.card = card
           /\ card.state = "ready" => \A ans \in Obeys(16, arg) : ans.card = card /\ ans.says = <<0>>
<1>1. \A ans \in Obeys(8, arg) : ans.card = card /\ ans.says = AnswerTo8
  BY DEF Obeys, Says, AnswerTo8
<1>2. \A ans \in Obeys(55, arg) : ans.card = card
  BY DEF Obeys, Says
<1>3. \A ans \in Obeys(58, arg) : ans.card = card
  BY DEF Obeys, Says
<1>4. card.state = "ready" => \A ans \in Obeys(16, arg) : ans.card = card /\ ans.says = <<0>>
  BY DEF Obeys, Says
<1> QED
  BY <1>1, <1>2, <1>3, <1>4

LEMMA Readies ==
    ASSUME IsCard(card), card.state = "idle", card.idles \in Nat,
           NEW arg, IsHc => arg # 0, NEW ans \in Obeys(41, arg)
    PROVE  /\ ans.card.kind = card.kind
           /\ \/ /\ ans.card.state = "idle" /\ ans.card.idles = card.idles + 1
                 /\ card.idles < MaxIdle /\ ans.says = <<1>>
              \/ ans.card.state = "ready" /\ ans.says = <<0>>
<1>1. ans \in Acmd41(arg)
  BY DEF Obeys
<1>2. \/ /\ card.idles < MaxIdle /\ ans.says = <<1>>
         /\ ans.card = [card EXCEPT !.idles = card.idles + 1]
      \/ ans.card = [card EXCEPT !.state = "ready"] /\ ans.says = <<0>>
  BY <1>1 DEF Acmd41
<1> QED
  BY <1>2 DEF IsCard

\* The end of an initialisation.
LEMMA Finishes ==
    ASSUME NEW n, NEW status, Initialized(n, status)
    PROVE  Healthy' /\ (status = "ready" => ret' = "RES_OK")
BY DEF Initialized, Quiet, Healthy, InitCmd, REST

LEMMA ResetHealthy == ASSUME HInv, Initialize PROVE Healthy'
<1>1. /\ at = REST /\ tries' = tries /\ Sends(0, 0, Drop(out, CLOCKS)) /\ IsCard(card)
  BY DEF Initialize, HInv, IInv, Shape
<1>2. tries = 0 /\ at' = 0
  BY <1>1, SendsAt DEF HInv, Healthy, InitCmd, REST
<1>3. ASSUME ~hurt' PROVE card'.state = "idle" /\ card'.idles = 0 /\ Answers(out', <<1>>)
  BY <1>1, <1>3, RespondsAll, Resets
<1> QED
  BY <1>1, <1>2, <1>3 DEF Healthy, InitCmd

LEMMA Cmd0Healthy ==
    ASSUME HInv, Cmd0
    PROVE  Healthy' /\ (~hurt /\ at' = REST => ret' = "RES_OK")
<1>1. ~hurt => card.state = "idle" /\ card.idles = 0 /\ tries = 0 /\ r = 1
  BY Response DEF HInv, Healthy, Cmd0
<1>2. CASE r = 1
  <2>1. Sends(8, 426, Then(R1Bytes)) /\ tries' = tries
    BY <1>2 DEF Cmd0
  <2>2. at' = 8
    BY <2>1, SendsAt
  <2>3. ASSUME ~hurt' PROVE ~hurt /\ card' = card /\ Answers(out', AnswerTo8)
    BY <2>1, <2>3, RespondsAll, Tells
  <2> QED
    BY <1>1, <2>1, <2>2, <2>3 DEF Healthy, AnswerTo8, InitCmd, REST
<1>3. CASE r # 1
  BY <1>1, <1>3, Finishes DEF Cmd0
<1> QED
  BY <1>2, <1>3

\* The answer to CMD8 is the one that is expected.
LEMMA Cmd8Read ==
    ASSUME HInv, at = 8, ~hurt
    PROVE  \/ r = 1 /\ Byte(out, (R1Bytes + 4) - 1) = 1 /\ Byte(out, R1Bytes + 4) = 170
           \/ r = 5 /\ ~IsHc
<1>1. Answers(out, AnswerTo8)
  BY DEF HInv, Healthy
<1>2. CASE card.kind = "v1"
  BY <1>1, <1>2, Response DEF AnswerTo8, IsHc
<1>3. CASE card.kind # "v1"
  BY <1>1, <1>3, Echo DEF AnswerTo8
<1> QED
  BY <1>2, <1>3

LEMMA Cmd8Healthy ==
    ASSUME HInv, Cmd8
    PROVE  Healthy' /\ (~hurt /\ at' = REST => ret' = "RES_OK")
<1> DEFINE n == IF r = 1 THEN R1Bytes + 4 ELSE R1Bytes
           echo == Byte(out, n - 1) % 16 = 1 /\ Byte(out, n) = 170
<1>1. /\ at = 8
      /\ IF r = 1 => echo
         THEN v2' = (r = 1) /\ Sends(55, 0, Then(n)) /\ tries' = tries
         ELSE Initialized(n, "STA_NOINIT")
  BY DEF Cmd8
<1>2. ~hurt => card.state = "idle" /\ card.idles = 0 /\ tries = 0
  BY <1>1 DEF HInv, Healthy
<1>3. ASSUME ~hurt PROVE (r = 1 => echo) /\ (IsHc => r = 1)
  <2>1. CASE r = 1 /\ Byte(out, (R1Bytes + 4) - 1) = 1 /\ Byte(out, R1Bytes + 4) = 170
    BY <2>1
  <2>2. CASE r = 5 /\ ~IsHc
    BY <2>2
  <2> QED
    BY <1>1, <1>3, <2>1, <2>2, Cmd8Read
<1> HIDE DEF n, echo
<1>4. CASE r = 1 => echo
  <2>1. v2' = (r = 1) /\ Sends(55, 0, Then(n)) /\ tries' = tries
    BY <1>1, <1>4
  <2>2. at' = 55
    BY <2>1, SendsAt
  <2>3. ASSUME ~hurt' PROVE ~hurt /\ card' = card
    BY <2>1, <2>3, RespondsAll, Tells
  <2>4. ASSUME ~hurt' PROVE /\ card'.state = "idle" /\ card'.idles = tries' /\ tries' = 0
                            /\ IsHc' => v2'
    BY <1>2, <1>3, <2>1, <2>3, <2>4 DEF IsHc
  <2> QED
    BY <2>2, <2>4 DEF Healthy, InitCmd, REST
<1>5. CASE ~(r = 1 => echo)
  BY <1>1, <1>3, <1>5, Finishes
<1> QED
  BY <1>4, <1>5

LEMMA Cmd55Healthy ==
    ASSUME HInv, Cmd55
    PROVE  Healthy' /\ (~hurt /\ at' = REST => ret' = "RES_OK")
<1>1. /\ at = 55 /\ SendsOn(41, Hcs, Drop(out, R1Bytes)) /\ UNCHANGED <<v2, tries>> /\ IsCard(card)
  BY DEF Cmd55, HInv, IInv, Shape
<1>2. at' = 41
  BY <1>1 DEF SendsOn
<1>3. ASSUME ~hurt'
      PROVE  /\ IsHc' => v2'
             /\ tries' \in Nat
             /\ \/ /\ card'.state = "idle" /\ card'.idles = tries' + 1 /\ tries' < MaxIdle
                   /\ Answers(out', <<1>>)
                \/ card'.state = "ready" /\ Answers(out', <<0>>)
  <2>1. /\ ~hurt
        /\ \E ans \in Obeys(41, Hcs) : card' = ans.card /\ Answers(out', ans.says)
    BY <1>1, <1>3, Responds
  <2>2. card.state = "idle" /\ card.idles = tries /\ (IsHc => v2) /\ tries \in Nat
    BY <1>1, <2>1 DEF HInv, Healthy
  <2>3. IsHc => Hcs # 0
    BY <2>2 DEF Hcs
  <2> QED
    BY <1>1, <2>1, <2>2, <2>3, Readies DEF IsHc
<1> QED
  BY <1>2, <1>3 DEF Healthy, InitCmd, REST

LEMMA Cmd41Healthy ==
    ASSUME Patient, HInv, Cmd41
    PROVE  Healthy' /\ (~hurt /\ at' = REST => ret' = "RES_OK")
<1>1. at = 41
  BY DEF Cmd41
<1>2. ASSUME ~hurt
      PROVE  /\ IsHc => v2
             /\ tries \in Nat
             /\ \/ /\ r = 1 /\ card.state = "idle" /\ card.idles = tries + 1
                   /\ tries + 1 < ACMD41_TRIES
                \/ r = 0 /\ card.state = "ready"
  <2>1. MaxIdle \in Nat /\ ACMD41_TRIES \in Nat
    BY SdDiskAssumption
  <2> QED
    BY <1>1, <1>2, <2>1, Response DEF HInv, Healthy, Patient
<1>3. ASSUME r = 0, NEW c \in {58, 16}, NEW arg, Sends(c, arg, Then(R1Bytes))
      PROVE  Healthy' /\ at' # REST
  <2>1. at' = c
    BY <1>3, SendsAt
  <2>2. ASSUME ~hurt' PROVE card' = card /\ card.state = "ready" /\ (c = 16 => Answers(out', <<0>>))
    <3>1. /\ ~hurt
          /\ \E ans \in Obeys(c, arg) : card' = ans.card /\ Answers(out', ans.says)
      BY <1>3, <2>2, RespondsAll
    <3>2. card.state = "ready"
      BY <1>2, <1>3, <3>1
    <3> QED
      BY <3>1, <3>2, Tells
  <2> QED
    BY <2>1, <2>2 DEF Healthy, InitCmd, REST
<1>4. CASE r # 0 /\ tries' = tries + 1 /\ Sends(55, 0, Then(R1Bytes)) /\ v2' = v2
  <2>1. at' = 55
    BY <1>4, SendsAt
  <2>2. ASSUME ~hurt' PROVE ~hurt /\ card' = card
    BY <1>4, <2>2, RespondsAll, Tells
  <2> QED
    BY <1>2, <1>4, <2>1, <2>2 DEF Healthy, InitCmd, REST, IsHc
<1>5. CASE r # 0 /\ tries + 1 >= ACMD41_TRIES /\ Initialized(R1Bytes, "STA_NOINIT")
  <2>1. ACMD41_TRIES \in Nat
    BY SdDiskAssumption
  <2> QED
    BY <1>2, <1>5, <2>1, Finishes
<1>6. CASE r = 0 /\ Sends(IF v2 THEN 58 ELSE 16, IF v2 THEN 0 ELSE L, Then(R1Bytes))
  BY <1>3, <1>6
<1> QED
  BY <1>4, <1>5, <1>6 DEF Cmd41

LEMMA Cmd58Healthy ==
    ASSUME HInv, Cmd58
    PROVE  Healthy' /\ (~hurt /\ at' = REST => ret' = "RES_OK")
<1>1. at = 58 /\ \E n : Initialized(n, "ready") \/ Sends(16, L, Then(n))
  BY DEF Cmd58
<1>2. CASE \E n : Initialized(n, "ready")
  BY <1>2, Finishes
<1>3. ASSUME NEW n, Sends(16, L, Then(n)) PROVE Healthy' /\ at' # REST
  <2>1. at' = 16
    BY <1>3, SendsAt
  <2>2. ASSUME ~hurt' PROVE card' = card /\ card.state = "ready" /\ Answers(out', <<0>>)
    BY <1>1, <1>3, <2>2, RespondsAll, Tells DEF HInv, Healthy
  <2> QED
    BY <2>1, <2>2 DEF Healthy, InitCmd, REST
<1> QED
  BY <1>1, <1>2, <1>3

LEMMA Cmd16Healthy ==
    ASSUME HInv, Cmd16
    PROVE  Healthy' /\ (~hurt /\ at' = REST => ret' = "RES_OK")
<1>1. at = 16 /\ Initialized(R1Bytes, IF r = 0 THEN "ready" ELSE "STA_NOINIT")
  BY DEF Cmd16
<1>2. ~hurt => r = 0
  BY <1>1, Response DEF HInv, Healthy
<1> QED
  BY <1>1, <1>2, Finishes

\* Reads and writes do not count.
LEMMA OthersHealthy ==
    ASSUME HInv, \/ UNCHANGED vars \/ NotReady \/ Read \/ Write \/ Swap
                 \/ Cmd17 \/ Cmd24 \/ Wrote \/ Cmd13
    PROVE  Healthy'
<1>1. CASE UNCHANGED vars
  BY <1>1 DEF vars, faultVars, HInv, Healthy, Answers, AnswerTo8, IsHc
<1>2. CASE ~UNCHANGED vars
  <2>1. at \notin InitCmd /\ at' \notin InitCmd
    BY <1>2, SendsAt DEF NotReady, Read, Write, Swap, Cmd17, Cmd24, Wrote, Cmd13, Returned, Quiet,
                         InitCmd, REST, WROTE
  <2>2. tries' = tries \/ tries' = 0
    BY <1>2 DEF NotReady, Read, Write, Swap, Cmd17, Cmd24, Wrote, Cmd13, Returned, Quiet
  <2> QED
    BY <2>1, <2>2 DEF HInv, Healthy, InitCmd
<1> QED
  BY <1>1, <1>2

\* Recovers: disk_initialize fails only if there is no card or one of its commands went
\* wrong, whatever was before, for a driver that outwaits its card.
THEOREM InitialisesWhatIsThere == ASSUME Patient PROVE Spec => Recovers
<1>1. Init => HInv
  <2>1. Init => Healthy
    BY DEF Init, Healthy, InitCmd, REST
  <2> QED
    BY <2>1, InitInv DEF HInv
<1>2. ASSUME HInv, Driver, at \in InitCmd
      PROVE  Healthy' /\ (~hurt /\ at' = REST => ret' = "RES_OK")
  <2>1. ~Cmd17 /\ ~Cmd24 /\ ~Wrote /\ ~Cmd13
    BY <1>2 DEF Cmd17, Cmd24, Wrote, Cmd13, InitCmd, WROTE
  <2> QED
    BY <1>2, <2>1, Cmd0Healthy, Cmd8Healthy, Cmd55Healthy, Cmd41Healthy, Cmd58Healthy, Cmd16Healthy
       DEF Driver
<1>3. Driver /\ at \notin InitCmd => Cmd17 \/ Cmd24 \/ Wrote \/ Cmd13
  BY DEF Driver, Cmd0, Cmd8, Cmd55, Cmd41, Cmd58, Cmd16, InitCmd
<1>4. HInv /\ [Next]_vars => HInv'
  <2> SUFFICES ASSUME HInv, [Next]_vars PROVE HInv'
    OBVIOUS
  <2>1. Healthy'
    BY <1>2, <1>3, ResetHealthy, OthersHealthy DEF Next
  <2> QED
    BY <2>1, NextInv DEF HInv
<1>5. HInv /\ [Next]_vars => [req.op = "init" /\ req' = None /\ ret' # "RES_OK" => hurt]_vars
  <2> SUFFICES ASSUME HInv, Next, req.op = "init", req' = None, ~hurt
               PROVE  ret' = "RES_OK"
    OBVIOUS
  <2>1. at \in InitCmd /\ at # REST /\ req # None
    BY DEF HInv, IInv, Shape, InitCmd, REST, None
  <2>2. Driver
    BY <2>1 DEF Next, Initialize, NotReady, Read, Write, Swap
  <2>3. at' = REST
    BY <2>1, <2>2, InitCommands
  <2> QED
    BY <1>2, <2>1, <2>2, <2>3
<1> QED
  BY <1>1, <1>4, <1>5, PTL DEF Spec, Recovers

================================================================================
