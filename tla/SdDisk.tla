--------------------------------- MODULE SdDisk --------------------------------
(***************************************************************************)
(* The SD card driver: bootbin/sddisk.c (bootloader/sddisk.c is its twin)    *)
(* under the disk functions of diskio_sddisk.c.  A step of the driver reads  *)
(* the response to one command and sends the next.                           *)
(*                                                                           *)
(* Every byte sent over SPI brings one from the card.  The card (external)   *)
(* says what it has to say in the bytes "out", and 0xFF when there are no    *)
(* more; it is never really deselected, since spi_cs is empty.  It may be    *)
(* slow, refuse a command, not hear one, or lose an answer, and it may be    *)
(* changed between calls.  Bytes inside a block are not damaged.             *)
(***************************************************************************)
EXTENDS Integers, Sequences

CONSTANTS
    Sector,             \* the sectors of a card
    L,                  \* bytes of a sector: 512
    Wide,               \* the arguments of commands: 2^32
    Images,             \* what a card may hold
    Data,               \* what may be written
    Kinds,              \* the cards there are
    MaxCount,           \* bound: sectors in one disk_read
    CLOCKS,             \* bytes clocked before CMD0: 10
    FRAME,              \* bytes of a command: 6
    READY_TRIES, R1_TRIES, TOKEN_TRIES, ACMD41_TRIES, WRITE_BUSY_TRIES,
    MaxLag,             \* bound: bytes before an answer
    MaxIdle,            \* bound: answers "idle" to ACMD41
    MaxFaults,          \* bound: things that go wrong
    MaxSwaps            \* bound: changes of the card

ASSUME SdDiskAssumption ==
    /\ L \in Nat \ {0} /\ Wide \in Nat \ {0}
    /\ Sector \subseteq Nat /\ \A s \in Sector : s * L < Wide
    /\ Images \subseteq [Sector -> [1 .. L -> 0 .. 255]]
    /\ Data \subseteq [1 .. L -> 0 .. 255]
    /\ Kinds \subseteq {"none", "v1", "v2", "hc"}
    /\ {CLOCKS, FRAME, MaxLag, MaxIdle, MaxFaults, MaxSwaps} \subseteq Nat
    /\ {READY_TRIES, R1_TRIES, TOKEN_TRIES, ACMD41_TRIES, WRITE_BUSY_TRIES, MaxCount}
          \subseteq Nat \ {0}

VARIABLES
    \* the driver
    at,                 \* the command whose response is read next, or one of:
    v2, sd_hc, tries,   \* tries: the i of the ACMD41 loop
    drive_status,       \* "ready" or "STA_NOINIT"
    \* the call
    req, index, buf, ret,
    \* the card, the sectors it holds, and what it is saying
    card, disk, out,
    \* what has gone wrong
    faults, swaps,
    late,               \* since CMD0 a command was sent to a card that was still talking
    blind,              \* since CMD0 the card's answer to CMD58 did not arrive
    hurt                \* since CMD0 a command or its answer went wrong

callVars  == <<req, index, buf, ret>>
faultVars == <<faults, swaps, late, blind, hurt>>
vars == <<at, v2, sd_hc, tries, drive_status, callVars, card, disk, out, faultVars>>

REST  == -1         \* no call is under way
WROTE == -2         \* the block of a write has been sent

None == [op |-> "none"]

\* The buffer of the next caller.
Blank == [k \in 0 .. MaxCount - 1 |-> [j \in 1 .. L |-> 0]]

--------------------------------------------------------------------------------
(* Bytes. *)

Byte(s, k) == IF k <= Len(s) THEN s[k] ELSE 255
Drop(s, k) == SubSeq(s, k + 1, Len(s))
Fill(k, b) == [j \in 1 .. k |-> b]
Bit(b, w)  == (b \div w) % 2

\* How many bytes a loop reads that ends with the first byte in B, or after "most".
Loop(s, most, B) ==
    LET hits == {k \in 1 .. most : Byte(s, k) \in B}
    IN  IF hits = {} THEN most ELSE CHOOSE k \in hits : \A j \in hits : k <= j

\* R1 has bit 7 clear.
R1Bytes == Loop(out, R1_TRIES, 0 .. 127)
r       == Byte(out, R1Bytes)

--------------------------------------------------------------------------------
(* The card (external). *)

PoweredUp(k) == [kind |-> k, state |-> "power", idles |-> 0, taking |-> -1, failed |-> FALSE]

IsHc == card.kind = "hc"
R1OfCard == IF card.state = "idle" THEN 1 ELSE 0

Block(arg) == IF IsHc THEN arg ELSE arg \div L

Says(says) == {[card |-> card, says |-> says]}

\* A card waits to be told that it may be a high capacity one.
Acmd41(arg) ==
    (IF card.idles < MaxIdle \/ (IsHc /\ arg = 0)
     THEN {[card |-> [card EXCEPT !.idles = IF @ < MaxIdle THEN @ + 1 ELSE @], says |-> <<1>>]}
     ELSE {}) \cup
    (IF IsHc /\ arg = 0 THEN {}
     ELSE {[card |-> [card EXCEPT !.state = "ready"], says |-> <<0>>]})

\* What a card may do with a command that it hears, and say.
Obeys(c, arg) ==
    CASE c \in {16, 17, 24, 13} /\ card.state # "ready" -> Says(<<5>>)
      [] c = 0  -> {[card |-> [card EXCEPT !.state = "idle", !.idles = 0, !.taking = -1], says |-> <<1>>]}
      [] c = 8  -> Says(IF card.kind = "v1" THEN <<5>> ELSE <<1, 0, 0, 1, 170>>)
      [] c = 55 -> Says(<<R1OfCard>>)
      [] c = 41 -> Acmd41(arg)
      [] c = 58 -> Says(<<R1OfCard, IF IsHc THEN 192 ELSE 128, 255, 128, 0>>)
      [] c = 16 /\ card.state = "ready" -> Says(<<0>>)
      [] c = 17 /\ card.state = "ready" -> IF Block(arg) \notin Sector THEN Says(<<32>>)
                   ELSE UNION {Says(<<0>> \o Fill(wait, 255) \o <<254>> \o disk[Block(arg)] \o <<85, 85>>) :
                               wait \in 0 .. MaxLag}
      [] c = 24 /\ card.state = "ready" -> IF Block(arg) \notin Sector THEN Says(<<32>>)
                   ELSE {[card |-> [card EXCEPT !.taking = Block(arg), !.failed = FALSE], says |-> <<0>>]}
      [] c = 13 /\ card.state = "ready" -> Says(<<0, IF card.failed THEN 4 ELSE 0>>)

CanObey(c) == card.kind # "none" /\ (c = 0 \/ card.state # "power")

\* A block that is later than the driver waits is a fault as well.
InTime(says) == Len(says) = 1 \/ Len(says) - (L + 4) < TOKEN_TRIES

Fault == faults < MaxFaults /\ faults' = faults + 1

\* What is remembered of it.
Well(c) == blind' = (blind /\ c \notin {0, 58}) /\ hurt' = (hurt /\ c # 0)
Ill(c)  == blind' = (c = 58 \/ (blind /\ c # 0)) /\ hurt' = TRUE

\* The card and the command: it obeys and answers in time; or it is too slow,
\* loses its answer, refuses, has no data, or hears nothing.
Hears(c, arg) ==
    \/ ~CanObey(c) /\ out' = <<>> /\ Ill(c) /\ UNCHANGED <<card, faults>>
    \/ /\ CanObey(c)
       /\ \E ans \in Obeys(c, arg), lag \in 0 .. MaxLag :
             /\ card' = ans.card /\ out' = Fill(lag, 255) \o ans.says
             /\ IF lag < R1_TRIES /\ (c = 17 => InTime(ans.says))
                THEN Well(c) /\ UNCHANGED faults
                ELSE Ill(c) /\ Fault
    \/ /\ CanObey(c) /\ Ill(c) /\ Fault
       /\ \/ out' = <<>> /\ card' \in {card} \cup {ans.card : ans \in Obeys(c, arg)}
          \/ out' = <<8>> /\ UNCHANGED card
          \/ c = 17 /\ out' = <<0, 8>> /\ UNCHANGED card

--------------------------------------------------------------------------------
(* Sending. *)

\* sd_select reads until the line is quiet; then the frame is sent.  A card that
\* still talks may go on, or stop and listen.
SendsOn(c, arg, s) ==
    /\ at' = c /\ late' = ((late /\ c # 0) \/ s # <<>>)
    /\ \/ Hears(c, arg)
       \/ s # <<>> /\ out' = Drop(s, FRAME) /\ Ill(c) /\ UNCHANGED <<card, faults>>

Sends(c, arg, s) ==
    \E line \in {s} : \E rest \in {Drop(line, Loop(line, READY_TRIES, {255}))} : SendsOn(c, arg, rest)

\* sd_deselect reads one byte more.
Then(n) == Drop(out, n + 1)

\* A call is over, and its locals with it.
Quiet(n) ==
    /\ out' = Then(n) /\ at' = REST /\ req' = None
    /\ v2' = FALSE /\ tries' = 0 /\ index' = 0
    /\ UNCHANGED <<card, faults, late, blind, hurt>>

--------------------------------------------------------------------------------
(* disk_initialize and sddisk_init. *)

Initialize ==
    /\ at = REST /\ req = None
    /\ req' = [op |-> "init"] /\ ret' = "none" /\ buf' = Blank
    /\ Sends(0, 0, Drop(out, CLOCKS))
    /\ UNCHANGED <<v2, sd_hc, tries, drive_status, index, disk, swaps>>

\* Mutant: a drive that was ready stays so when it cannot be initialised again.
Initialized_keeps(n, status) ==
    /\ Quiet(n)
    /\ drive_status' = IF status = "ready" THEN status ELSE drive_status
    /\ ret' = IF status = "ready" THEN "RES_OK" ELSE "STA_NOINIT"

Initialized(n, status) ==
    /\ Quiet(n)
    /\ drive_status' = status /\ ret' = IF status = "ready" THEN "RES_OK" ELSE "STA_NOINIT"

Cmd0 ==
    /\ at = 0
    /\ IF r = 1 THEN Sends(8, 426, Then(R1Bytes)) /\ UNCHANGED <<drive_status, req, ret, v2, tries, index>>
                ELSE Initialized(R1Bytes, "STA_NOINIT")
    /\ UNCHANGED <<sd_hc, buf, disk, swaps>>

\* Mutant: a card that does not know CMD8 is refused.
Cmd8_v2only ==
    LET n == R1Bytes + 4
        echo == Byte(out, n - 1) % 16 = 1 /\ Byte(out, n) = 170
    IN  /\ at = 8
        /\ IF r = 1 /\ echo
           THEN v2' = TRUE /\ Sends(55, 0, Then(n)) /\ UNCHANGED <<drive_status, req, ret, tries, index>>
           ELSE Initialized(n, "STA_NOINIT")
        /\ UNCHANGED <<sd_hc, buf, disk, swaps>>

\* Only a card that knows CMD8 sends four bytes more.
Cmd8 ==
    LET n == IF r = 1 THEN R1Bytes + 4 ELSE R1Bytes
        echo == Byte(out, n - 1) % 16 = 1 /\ Byte(out, n) = 170
    IN  /\ at = 8
        /\ IF r = 1 => echo
           THEN v2' = (r = 1) /\ Sends(55, 0, Then(n)) /\ UNCHANGED <<drive_status, req, ret, tries, index>>
           ELSE Initialized(n, "STA_NOINIT")
        /\ UNCHANGED <<sd_hc, buf, disk, swaps>>

Hcs == IF v2 THEN 1073741824 ELSE 0

\* The response to CMD55 is not looked at, and the card stays selected.
Cmd55 ==
    /\ at = 55
    /\ SendsOn(41, Hcs, Drop(out, R1Bytes))
    /\ UNCHANGED <<v2, sd_hc, tries, drive_status, callVars, disk, swaps>>

Cmd41 ==
    /\ at = 41
    /\ \/ /\ r = 0 /\ sd_hc' = FALSE
          /\ Sends(IF v2 THEN 58 ELSE 16, IF v2 THEN 0 ELSE L, Then(R1Bytes))
          /\ UNCHANGED <<v2, tries, index, drive_status, req, ret>>
       \/ /\ r # 0 /\ tries + 1 < ACMD41_TRIES /\ tries' = tries + 1
          /\ Sends(55, 0, Then(R1Bytes))
          /\ UNCHANGED <<sd_hc, v2, index, drive_status, req, ret>>
       \/ /\ r # 0 /\ tries + 1 >= ACMD41_TRIES
          /\ Initialized(R1Bytes, "STA_NOINIT")
          /\ UNCHANGED sd_hc
    /\ UNCHANGED <<buf, disk, swaps>>

Cmd58 ==
    LET n == R1Bytes + 4
    IN  /\ at = 58
        /\ sd_hc' = (r = 0 /\ Bit(Byte(out, n - 3), 64) = 1)
        /\ IF sd_hc' THEN Initialized(n, "ready")
                     ELSE Sends(16, L, Then(n)) /\ UNCHANGED <<v2, tries, index, drive_status, req, ret>>
        /\ UNCHANGED <<buf, disk, swaps>>

Cmd16 ==
    /\ at = 16
    /\ Initialized(R1Bytes, IF r = 0 THEN "ready" ELSE "STA_NOINIT")
    /\ UNCHANGED <<sd_hc, buf, disk, swaps>>

--------------------------------------------------------------------------------
(* disk_read and sddisk_read_block. *)

Address(lba) == IF sd_hc THEN lba ELSE (lba * L) % Wide

\* A drive that is not ready is not read.
NotReady ==
    /\ at = REST /\ req = None /\ drive_status # "ready"
    /\ ret' = "RES_NOTRDY"
    /\ UNCHANGED <<at, v2, sd_hc, tries, drive_status, req, index, buf, card, disk, out, faultVars>>

Read ==
    /\ at = REST /\ req = None /\ drive_status = "ready"
    /\ \E lba \in Sector, count \in 1 .. MaxCount :
          /\ lba + count - 1 \in Sector
          /\ req' = [op |-> "read", lba |-> lba, count |-> count]
          /\ Sends(17, Address(lba), out)
    /\ ret' = "none" /\ buf' = Blank
    /\ UNCHANGED <<v2, sd_hc, tries, index, drive_status, disk, swaps>>

Returned(n, result) == Quiet(n) /\ ret' = result

\* What has been read up to and with the data token, or what came instead.
TokenBytes == R1Bytes + Loop(Drop(out, R1Bytes), TOKEN_TRIES, 0 .. 254)

Cmd17 ==
    /\ at = 17
    /\ \/ r # 0 /\ Returned(R1Bytes, "RES_ERROR") /\ UNCHANGED buf
       \/ /\ r = 0
          /\ \E n \in {TokenBytes} :
                \/ Byte(out, n) # 254 /\ Returned(n, "RES_ERROR") /\ UNCHANGED buf
                \/ /\ Byte(out, n) = 254
                   /\ buf' = [buf EXCEPT ![index] = [k \in 1 .. L |-> Byte(out, n + k)]]
                   /\ IF index + 1 < req.count
                      THEN /\ index' = index + 1
                           /\ Sends(17, Address(req.lba + index + 1), Then(n + L + 2))
                           /\ UNCHANGED <<v2, tries, req, ret>>
                      ELSE Returned(n + L + 2, "RES_OK")
    /\ UNCHANGED <<sd_hc, drive_status, disk, swaps>>

--------------------------------------------------------------------------------
(* sddisk_write_block, for a drive that is ready: the read-only disk layer has *)
(* no call of it. *)

Write ==
    /\ at = REST /\ req = None /\ drive_status = "ready"
    /\ \E lba \in Sector, data \in Data :
          /\ req' = [op |-> "write", lba |-> lba, data |-> data]
          /\ Sends(24, Address(lba), out)
    /\ ret' = "none" /\ buf' = Blank
    /\ UNCHANGED <<v2, sd_hc, tries, drive_status, index, disk, swaps>>

\* The card and a block that is sent to it (external): it writes the block, does not
\* accept it, or fails later; a block it has not asked for it does not take.
Takes(s) ==
    \/ card.taking = -1 /\ out' = Drop(s, L + 4) /\ UNCHANGED <<card, disk, faults>>
    \/ /\ card.taking # -1 /\ UNCHANGED faults
       /\ \E lag \in 0 .. MaxLag, busy \in 0 .. MaxLag :
             /\ lag < R1_TRIES /\ busy < WRITE_BUSY_TRIES
             /\ out' = Fill(lag, 255) \o <<5>> \o Fill(busy, 0)
       /\ disk' = [disk EXCEPT ![card.taking] = req.data] /\ card' = [card EXCEPT !.taking = -1]
    \/ /\ card.taking # -1 /\ Fault
       /\ \/ out' = <<11>> /\ UNCHANGED disk /\ card' = [card EXCEPT !.taking = -1]
          \/ /\ out' \in {<<5>>, <<5>> \o Fill(WRITE_BUSY_TRIES + 1, 0)}
             /\ \E good \in BOOLEAN :
                   /\ disk' = [disk EXCEPT ![card.taking] = IF good THEN req.data ELSE Fill(L, 0)]
                   /\ card' = [card EXCEPT !.taking = -1, !.failed = ~good]

Cmd24 ==
    /\ at = 24
    /\ \/ r # 0 /\ Returned(R1Bytes, "RES_ERROR") /\ UNCHANGED disk
       \/ /\ r = 0 /\ at' = WROTE
          /\ Takes(Drop(out, R1Bytes))
          /\ UNCHANGED <<v2, tries, index, req, ret, late, blind, hurt>>
    /\ UNCHANGED <<sd_hc, drive_status, buf, swaps>>

DataResponse == {b \in 0 .. 255 : Bit(b, 16) = 0 /\ Bit(b, 1) = 1}

\* The data response, and the wait while the card is busy.
Wrote ==
    /\ at = WROTE
    /\ \E n \in {Loop(out, R1_TRIES, DataResponse)} :
          \/ Byte(out, n) % 32 # 5 /\ Returned(n, "RES_ERROR")
          \/ /\ Byte(out, n) % 32 = 5
             /\ \E busy \in {Loop(Drop(out, n), WRITE_BUSY_TRIES, 1 .. 255)} :
                   \/ Byte(out, n + busy) = 0 /\ Returned(n + busy, "RES_ERROR")
                   \/ /\ Byte(out, n + busy) # 0
                      /\ Sends(13, 0, Then(n + busy)) /\ UNCHANGED <<v2, tries, index, req, ret>>
    /\ UNCHANGED <<sd_hc, drive_status, buf, disk, swaps>>

\* Mutant: a write that the card has accepted is taken for done.
Cmd13_unread ==
    /\ at = 13
    /\ Returned(R1Bytes + 1, "RES_OK")
    /\ UNCHANGED <<sd_hc, drive_status, buf, disk, swaps>>

Cmd13 ==
    /\ at = 13
    /\ Returned(R1Bytes + 1, IF r = 0 /\ Byte(out, R1Bytes + 1) = 0 THEN "RES_OK" ELSE "RES_ERROR")
    /\ UNCHANGED <<sd_hc, drive_status, buf, disk, swaps>>

--------------------------------------------------------------------------------

\* The card is taken out, or another put in; nobody tells the driver.
Swap ==
    /\ at = REST /\ req = None /\ swaps < MaxSwaps /\ swaps' = swaps + 1
    /\ \E k \in Kinds : card' = PoweredUp(k)
    /\ disk' \in Images \ {disk} /\ out' = <<>>
    /\ UNCHANGED <<at, v2, sd_hc, tries, drive_status, callVars, faults, late, blind, hurt>>

Init ==
    /\ at = REST /\ v2 = FALSE /\ sd_hc = FALSE /\ tries = 0 /\ drive_status = "STA_NOINIT"
    /\ req = None /\ index = 0 /\ buf = Blank /\ ret = "none"
    /\ \E k \in Kinds : card = PoweredUp(k)
    /\ disk \in Images /\ out = <<>>
    /\ faults = 0 /\ swaps = 0 /\ late = FALSE /\ blind = FALSE /\ hurt = FALSE

Driver == Cmd0 \/ Cmd8 \/ Cmd55 \/ Cmd41 \/ Cmd58 \/ Cmd16 \/ Cmd17 \/ Cmd24 \/ Wrote \/ Cmd13

Next == Initialize \/ NotReady \/ Read \/ Write \/ Driver \/ Swap

Spec == Init /\ [][Next]_vars


--------------------------------------------------------------------------------
(* Properties. *)

Doubt == late \/ blind

Device == INSTANCE BlockDevice WITH doubt <- Doubt

\* As long as the answer to CMD58 arrived and no command ran into an answer to
\* another, what disk_read delivers with RES_OK is what the sectors hold, and
\* what sddisk_write_block confirms is on the card, alone.
DeviceSpec == Device!Spec

\* A ready drive addresses its card as the card counts, if the card told it.
AddressRight ==
    drive_status = "ready" /\ req.op # "init" /\ card.state = "ready" /\ ~Doubt =>
        sd_hc = IsHc

\* An initialisation fails only if the card is not there or something went wrong with
\* one of its own commands: whatever was before, disk_initialize recovers the drive.
Recovers ==
    [][req.op = "init" /\ req' = None /\ ret' # "RES_OK" => hurt]_vars
================================================================================
