--------------------------------- MODULE Ymodem --------------------------------
(***************************************************************************)
(* ym_receive of bootbin/ymodem.c (bootloader/ymodem.c is the same file):    *)
(* the receiver that loads a file over the UART.  A step of the receiver is  *)
(* one turn of its loop.  The other end (external) is a YMODEM sender that   *)
(* repeats what is not acknowledged; the line loses and damages frames and   *)
(* answers, and either end may lose patience while an answer is on its way.  *)
(*                                                                           *)
(* Memory and files are counted in units of 128 bytes, the data of a block   *)
(* that starts with SOH.  Unit u of the file has the content u; 0 stands for *)
(* whatever is not of the file.  A block is a frame, and its number as sent  *)
(* is taken modulo W.                                                        *)
(***************************************************************************)
EXTENDS Integers, Sequences

CONSTANTS
    W,                  \* block numbers on the line: 256
    EotByte,            \* the block number that reads as EOT: 4
    Big,                \* units in a block that starts with STX: 8
    ProgMax, DataMax,   \* units in the two load regions
    Top,                \* units of memory in the model of a region
    YM_START_TRIES, YM_MAX_ERRORS,
    Files,              \* what the other end may send, see below
    Forces,             \* force_type: -1 decides by the ELF magic
    MaxRetries,         \* bound: repeats by the sender of one frame
    MaxFaults           \* bound: things that go wrong on the line

PROG == 0
DATA == 1
Region == {PROG, DATA}
Unit == 0 .. Top - 1

(* A file: cut[n] is the unit at which block n begins, and its last entry the
   end of the last block; length is the exact length, elf says whether it
   begins with the ELF magic, announced whether the header gives the length,
   and batch what the sender has to send: one file, more, or nothing. *)
Blocks(file) == Len(file.cut) - 1

IsFile(file) ==
    /\ file.cut \in Seq(Nat) /\ file.cut # <<>> /\ file.cut[1] = 0
    /\ \A n \in 1 .. Blocks(file) : file.cut[n + 1] - file.cut[n] \in {1, Big}
    /\ file.length \in Nat /\ file.length <= file.cut[Len(file.cut)]
    /\ Blocks(file) > 0 => file.length > file.cut[Blocks(file)]
    /\ file.elf \in BOOLEAN /\ file.announced \in BOOLEAN
    /\ file.batch \in {"one", "more", "none"}

ASSUME YmodemAssumption ==
    /\ W \in Nat \ {0} /\ EotByte \in 0 .. W - 1 /\ Big \in Nat \ {0}
    /\ ProgMax \in Nat /\ DataMax \in Nat /\ Top \in Nat
    /\ Big <= ProgMax /\ Big <= DataMax
    /\ ProgMax + Big <= Top /\ DataMax + Big <= Top
    /\ YM_START_TRIES \in Nat /\ YM_MAX_ERRORS \in Nat
    /\ MaxRetries \in Nat /\ MaxFaults \in Nat
    /\ Forces \subseteq {-1, PROG, DATA}
    /\ \A file \in Files : IsFile(file)

VARIABLES
    \* the receiver: the locals of ym_receive, the memory, and where it waits
    dest, max, pos, size, expect, want_hdr, have_hdr, done, tries, errors,
    out, mem, at, result, force_type,
    \* the line
    up, down,
    \* the other end
    file, st, n, retries,
    \* what has gone wrong so far
    faults,
    calm                \* no timer has run out with an answer on its way, no
                        \* answer was lost, no start byte turned into EOT

loopVars   == <<dest, max, pos, size, expect, want_hdr, have_hdr, done, out, mem, force_type>>
recvVars   == <<loopVars, tries, errors, at, result>>
lineVars   == <<up, down>>
senderVars == <<file, st, n, retries>>
vars == <<recvVars, lineVars, senderVars, faults, calm>>

Kind == {"hdr", "null", "data", "eot", "can"}
Hurt == {"no", "body", "start", "eot"}
Frame == [kind : Kind, n : Nat, hurt : Hurt]
Answer == {"C", "ACK", "NAK", "CAN"}

YM_OK == "ok"
Failures == {"cancel", "timeout", "toobig", "proto"}

--------------------------------------------------------------------------------
(* Frames. *)

IsBlock(f) == f.kind \in {"hdr", "null", "data"}

blk(f) == f.n % W

len(f) == IF f.kind = "data" THEN file.cut[f.n + 1] - file.cut[f.n] ELSE 1

\* What unit i of a block holds: a header is not of the file.
Content(f, i) == IF f.kind = "data" THEN file.cut[f.n] + i + 1 ELSE 0

\* Mutant: a block that begins inside the region fits.
fits_begin(f) == pos < max

\* p of the code: the block is stored while it is received, if it fits.
fits(f) == pos + len(f) <= max

At(f) == pos .. pos + len(f) - 1

Landed(f) ==
    IF fits(f)
    THEN [mem EXCEPT ![dest] = [u \in Unit |-> IF u \in At(f) THEN Content(f, u - pos) ELSE @[u]]]
    ELSE mem

\* A damaged block is stored too, as far as it came.
Garbled(f) ==
    {mem} \cup
    IF fits(f)
    THEN {[mem EXCEPT ![dest] = [u \in Unit |-> IF u \in At(f) THEN 0 ELSE @[u]]]}
    ELSE {}

--------------------------------------------------------------------------------
(* The receiver.  Each action takes the frame at the head of the line, except *)
(* those of the timers. *)

Put(answers) == down' = down \o answers

\* ym_cancel
Cancel(err, answers) == result' = err /\ Put(answers \o <<"CAN", "CAN", "CAN">>)

Running == result = "run"

\* The frame at the head of the line, if there is one.
Arrived == IF up = <<>> THEN {} ELSE {Head(up)}

Reads == Running /\ up' = Tail(up)

\* ym_purge: everything that comes before the line is quiet is lost.
ReadsAndPurges ==
    /\ Running
    /\ \E quiet \in 1 .. Len(up) : up' = SubSeq(up, quiet + 1, Len(up))

Again == IF want_hdr THEN "C" ELSE "NAK"

\* One error more; answers is what the receiver says when it goes on.
CountError(answers) ==
    /\ errors' = errors + 1
    /\ IF errors + 1 > YM_MAX_ERRORS
       THEN Cancel("proto", <<>>)
       ELSE Put(answers) /\ UNCHANGED result

\* The timer may run out whenever nothing is there to read.  It is timely when
\* nothing is on its way back to the sender either.
Patience(other) ==
    \/ other = <<>> /\ UNCHANGED <<faults, calm>>
    \/ other # <<>> /\ faults < MaxFaults /\ faults' = faults + 1 /\ calm' = FALSE

Heard == IF st \in {"absent", "done", "failed"} THEN <<>> ELSE down

\* Mutant: one try less than the limit.
Timeout_short ==
    /\ Running /\ at = "top" /\ up = <<>>
    /\ Patience(Heard)
    /\ IF have_hdr
       THEN CountError(<<Again>>) /\ UNCHANGED tries
       ELSE /\ tries' = tries + 1
            /\ IF tries + 1 >= YM_START_TRIES
               THEN Cancel("timeout", <<>>)
               ELSE Put(<<"C">>) /\ UNCHANGED result
            /\ UNCHANGED errors
    /\ UNCHANGED <<loopVars, at, up, senderVars>>

Timeout ==
    /\ Running /\ at = "top" /\ up = <<>>
    /\ Patience(Heard)
    /\ IF have_hdr
       THEN CountError(<<Again>>) /\ UNCHANGED tries
       ELSE /\ tries' = tries + 1
            /\ IF tries + 1 > YM_START_TRIES
               THEN Cancel("timeout", <<>>)
               ELSE Put(<<"C">>) /\ UNCHANGED result
            /\ UNCHANGED errors
    /\ UNCHANGED <<loopVars, at, up, senderVars>>

\* Mutant: what was received counts, padding and all.
FileEnds_padded(answers) ==
    /\ done' = TRUE /\ want_hdr' = TRUE /\ at' = "top"
    /\ out' = [out EXCEPT !.length = pos]
    /\ Put(answers \o <<"ACK", "C">>)
    /\ UNCHANGED <<dest, max, pos, size, expect, have_hdr, mem, force_type,
                   tries, errors, result, senderVars, faults, calm>>

\* The end of the file is in: the closing header is asked for.
FileEnds(answers) ==
    /\ done' = TRUE /\ want_hdr' = TRUE /\ at' = "top"
    /\ out' = [out EXCEPT !.length = IF size # 0 /\ size < pos THEN size ELSE pos]
    /\ Put(answers \o <<"ACK", "C">>)
    /\ UNCHANGED <<dest, max, pos, size, expect, have_hdr, mem, force_type,
                   tries, errors, result, senderVars, faults, calm>>

ReadsEot(f) == f.kind = "eot" /\ f.hurt = "no"

FirstEot ==
    /\ at = "top" /\ have_hdr /\ ~done
    /\ \E f \in Arrived : Reads /\ ReadsEot(f)
    /\ at' = "eot" /\ Put(<<"NAK">>)
    /\ UNCHANGED <<loopVars, tries, errors, result, senderVars, faults, calm>>

SecondEot ==
    /\ at = "eot"
    /\ \E f \in Arrived : Reads /\ ReadsEot(f)
    /\ FileEnds(<<>>)

\* Mutant: the second EOT is waited for without end.
NoSecondEot_waits ==
    /\ Running /\ at = "eot"
    /\ up = <<>> /\ Patience(Heard)
    /\ UNCHANGED <<recvVars, lineVars, senderVars>>

\* Something else than the second EOT, or nothing at all: the byte is gone.
NoSecondEot ==
    /\ Running /\ at = "eot" /\ at' = "top"
    /\ \/ up = <<>> /\ Patience(Heard) /\ UNCHANGED up
       \/ /\ up # <<>> /\ ~ReadsEot(Head(up)) /\ Head(up).hurt # "eot"
          /\ up' = IF IsBlock(Head(up)) THEN <<[Head(up) EXCEPT !.hurt = "start"]>> \o Tail(up)
                   ELSE Tail(up)
          /\ UNCHANGED <<faults, calm>>
    /\ UNCHANGED <<loopVars, tries, errors, result, down, senderVars>>

\* A block whose start byte reads as EOT.  Its number is the next byte: it may
\* be an EOT as well.  What is left of the block is noise.
DamagedToEot ==
    /\ Running /\ up # <<>> /\ Head(up).hurt = "eot"
    /\ up' = <<[Head(up) EXCEPT !.hurt = "start"]>> \o Tail(up)
    /\ IF at = "eot" THEN FileEnds(<<>>)
       ELSE IF ~have_hdr \/ done
       THEN UNCHANGED <<recvVars, down, senderVars, faults, calm>>
       ELSE IF blk(Head(up)) = EotByte THEN FileEnds(<<"NAK">>)
       ELSE Put(<<"NAK">>) /\ UNCHANGED <<recvVars, senderVars, faults, calm>>

SenderCancels ==
    /\ at = "top"
    /\ \E f \in Arrived : Reads /\ f.kind = "can" /\ f.hurt = "no"
    /\ result' = "cancel"
    /\ UNCHANGED <<loopVars, tries, errors, at, down, senderVars, faults, calm>>

\* A byte that starts nothing.  Before the header it is passed over in silence.
IsNoise(f) == f.hurt = "start" \/ (ReadsEot(f) /\ (~have_hdr \/ done))

Noise ==
    /\ at = "top" /\ have_hdr
    /\ \E f \in Arrived : ReadsAndPurges /\ IsNoise(f)
    /\ CountError(<<Again>>)
    /\ UNCHANGED <<loopVars, tries, at, senderVars, faults, calm>>

EarlyNoise ==
    /\ at = "top" /\ ~have_hdr
    /\ \E f \in Arrived : Reads /\ IsNoise(f)
    /\ UNCHANGED <<recvVars, down, senderVars, faults, calm>>

BadBlock ==
    /\ at = "top"
    /\ \E f \in Arrived :
          /\ ReadsAndPurges /\ IsBlock(f) /\ f.hurt = "body"
          /\ mem' \in Garbled(f)
    /\ CountError(<<Again>>)
    /\ UNCHANGED <<dest, max, pos, size, expect, want_hdr, have_hdr, done, out, force_type,
                   tries, at, senderVars, faults, calm>>

\* A block that came through whole: it is in memory, and the errors are forgotten.
GoodBlock(f) ==
    /\ at = "top"
    /\ Reads /\ IsBlock(f) /\ f.hurt = "no"
    /\ errors' = 0
    /\ UNCHANGED <<tries, at, force_type, senderVars, faults, calm>>

IsHeader(f) == blk(f) = 0 /\ want_hdr

Header ==
    \E f \in Arrived :
    /\ GoodBlock(f) /\ IsHeader(f) /\ fits(f) /\ ~done /\ f.kind # "null"
    /\ mem' = Landed(f)
    /\ size' = IF file.announced THEN file.length ELSE 0
    /\ have_hdr' = TRUE /\ want_hdr' = FALSE
    /\ Put(<<"ACK", "C">>)
    /\ UNCHANGED <<dest, max, pos, expect, done, out, result>>

\* Mutant: the closing header is acknowledged before it is known to fit.
Close_early ==
    \E f \in Arrived :
    /\ GoodBlock(f) /\ IsHeader(f)
    /\ mem' = Landed(f)
    /\ \/ ~fits(f) /\ Cancel("proto", <<"ACK">>)
       \/ fits(f) /\ f.kind = "null" /\ result' = (IF done THEN YM_OK ELSE "proto") /\ Put(<<"ACK">>)
    /\ UNCHANGED <<dest, max, pos, size, expect, want_hdr, have_hdr, done, out>>

\* The header that closes the batch; a further file is refused.
Close ==
    \E f \in Arrived :
    /\ GoodBlock(f) /\ IsHeader(f)
    /\ mem' = Landed(f)
    /\ \/ ~fits(f) /\ Cancel("proto", <<>>)
       \/ fits(f) /\ ~done /\ f.kind = "null" /\ result' = "proto" /\ Put(<<"ACK">>)
       \/ fits(f) /\ done /\ f.kind = "null" /\ result' = YM_OK /\ Put(<<"ACK">>)
       \/ fits(f) /\ done /\ f.kind # "null" /\ Cancel(YM_OK, <<"ACK">>)
    /\ UNCHANGED <<dest, max, pos, size, expect, want_hdr, have_hdr, done, out>>

IsHeaderAgain(f) == blk(f) = 0 /\ ~want_hdr /\ pos = 0

HeaderAgain ==
    \E f \in Arrived :
    /\ GoodBlock(f) /\ IsHeaderAgain(f)
    /\ mem' = Landed(f)
    /\ Put(<<"ACK", "C">>)
    /\ UNCHANGED <<dest, max, pos, size, expect, want_hdr, have_hdr, done, out, result>>

IsData(f) == ~IsHeader(f) /\ ~IsHeaderAgain(f)

Unwanted ==
    \E f \in Arrived :
    /\ GoodBlock(f) /\ IsData(f) /\ (~have_hdr \/ done)
    /\ mem' = Landed(f)
    /\ UNCHANGED <<dest, max, pos, size, expect, want_hdr, have_hdr, done, out, result, down>>

Wanted(f) == GoodBlock(f) /\ IsData(f) /\ have_hdr /\ ~done

IsDuplicate(f) == blk(f) = (expect - 1) % W

Duplicate ==
    \E f \in Arrived :
    /\ Wanted(f) /\ IsDuplicate(f)
    /\ mem' = Landed(f)
    /\ Put(<<"ACK">>)
    /\ UNCHANGED <<dest, max, pos, size, expect, want_hdr, have_hdr, done, out, result>>

OutOfSequence ==
    \E f \in Arrived :
    /\ Wanted(f) /\ ~IsDuplicate(f) /\ blk(f) # expect
    /\ mem' = Landed(f)
    /\ Cancel("proto", <<>>)
    /\ UNCHANGED <<dest, max, pos, size, expect, want_hdr, have_hdr, done, out>>

\* Mutant: the number of a new block is not looked at.
Expected_any(f) == Wanted(f) /\ ~IsDuplicate(f)

Expected(f) == Wanted(f) /\ ~IsDuplicate(f) /\ blk(f) = expect

NoRoom ==
    \E f \in Arrived :
    /\ Expected(f) /\ ~fits(f)
    /\ Cancel("toobig", <<>>)
    /\ UNCHANGED <<dest, max, pos, size, expect, want_hdr, have_hdr, done, out, mem>>

\* The first block decides where the file goes; it was stored as a program.
Type(f) == IF force_type # -1 THEN force_type
           ELSE IF f.kind = "data" /\ f.n = 1 /\ file.elf THEN PROG ELSE DATA

FirstBlock ==
    \E f \in Arrived :
    /\ Expected(f) /\ fits(f) /\ pos = 0
    /\ out' = [out EXCEPT !.type = Type(f)]
    /\ dest' = IF Type(f) = DATA THEN DATA ELSE dest
    /\ max'  = IF Type(f) = DATA THEN DataMax ELSE max
    /\ mem'  = IF Type(f) = DATA
               THEN [Landed(f) EXCEPT ![DATA] = [u \in Unit |-> IF u < len(f) THEN Content(f, u) ELSE @[u]]]
               ELSE Landed(f)
    /\ IF size > max'
       THEN Cancel("toobig", <<>>) /\ UNCHANGED <<pos, expect>>
       ELSE /\ pos' = pos + len(f) /\ expect' = (expect + 1) % W
            /\ Put(<<"ACK">>) /\ UNCHANGED result
    /\ UNCHANGED <<size, want_hdr, have_hdr, done>>

NextBlock ==
    \E f \in Arrived :
    /\ Expected(f) /\ fits(f) /\ pos # 0
    /\ mem' = Landed(f)
    /\ pos' = pos + len(f) /\ expect' = (expect + 1) % W
    /\ Put(<<"ACK">>)
    /\ UNCHANGED <<dest, max, size, want_hdr, have_hdr, done, out, result>>

Receive ==
    \/ FirstEot \/ SecondEot \/ NoSecondEot \/ DamagedToEot
    \/ SenderCancels \/ Noise \/ EarlyNoise \/ BadBlock
    \/ Header \/ Close \/ HeaderAgain \/ Unwanted \/ Duplicate
    \/ OutOfSequence \/ NoRoom \/ FirstBlock \/ NextBlock

--------------------------------------------------------------------------------
(* The other end (external): what the receiver's answers are meant for. *)

SendingStates == {"hdr", "data", "eot", "null"}

\* The frame that is due in a state.
Outgoing(state, k) ==
    [kind |-> IF state = "hdr" /\ file.batch = "none" THEN "null"
              ELSE IF state = "null" /\ file.batch = "more" THEN "hdr" ELSE state,
     n |-> IF state = "data" THEN k ELSE 0,
     hurt |-> "no"]

\* A new frame; what follows block k - 1 is block k or the end of the file.
Sends(state, k) ==
    /\ st' = state /\ n' = k /\ retries' = 0
    /\ up' = Append(up, Outgoing(state, k))

SendsFrom(k) == Sends(IF k <= Blocks(file) THEN "data" ELSE "eot", k)

\* The frame once more, or two CANs when it was repeated too often.
Repeats ==
    IF retries < MaxRetries
    THEN retries' = retries + 1 /\ up' = Append(up, Outgoing(st, n)) /\ UNCHANGED <<st, n>>
    ELSE /\ st' = "failed" /\ up' = Append(up, [kind |-> "can", n |-> 0, hurt |-> "no"])
         /\ UNCHANGED <<retries, n>>

Waits(state) == st' = state /\ UNCHANGED <<up, n, retries>>

Hears(c) ==
    CASE c = "CAN"                                        -> Waits("failed")
      [] st = "start" /\ c = "C"                          -> Sends("hdr", 0)
      [] st = "hdr"   /\ c = "ACK"                        -> Waits("go")
      [] st = "go"    /\ c \in {"C", "NAK"}               -> SendsFrom(1)
      [] st = "data"  /\ c = "ACK"                        -> SendsFrom(n + 1)
      [] st = "eot"   /\ c = "ACK"                        -> Waits("close")
      [] st = "close" /\ c = "C"                          -> Sends("null", 0)
      [] st = "null"  /\ c = "ACK"                        -> Waits("done")
      [] st \in SendingStates /\ c \in {"NAK", "C"}       -> Repeats
      [] OTHER                                            -> Waits(st)

SenderReads ==
    /\ st \notin {"absent", "done", "failed"} /\ down # <<>>
    /\ Hears(Head(down)) /\ down' = Tail(down)
    /\ UNCHANGED <<recvVars, file, faults, calm>>

\* The sender is started; what was on the line before is not for it.
Arrives ==
    /\ st = "absent" /\ Waits("start") /\ down' = <<>>
    /\ UNCHANGED <<recvVars, file, faults, calm>>

SenderTimeout ==
    /\ st \in SendingStates /\ down = <<>>
    /\ Patience(up)
    /\ Repeats
    /\ UNCHANGED <<recvVars, down, file>>

--------------------------------------------------------------------------------
(* The line.  Frames and answers come in order; the first of them may be lost, *)
(* or a byte of the frame may be changed. *)

Fault == Running /\ faults < MaxFaults /\ faults' = faults + 1

LoseFrame ==
    /\ Fault /\ up # <<>> /\ up' = Tail(up)
    /\ UNCHANGED <<recvVars, down, senderVars, calm>>

LoseAnswer ==
    /\ Fault /\ down # <<>> /\ down' = Tail(down) /\ calm' = FALSE
    /\ UNCHANGED <<recvVars, up, senderVars>>

DamageFrame ==
    /\ Fault /\ up # <<>> /\ Head(up).hurt = "no"
    /\ \E hurt \in IF IsBlock(Head(up)) THEN {"body", "start", "eot"} ELSE {"start"} :
          /\ up' = [up EXCEPT ![1].hurt = hurt]
          /\ calm' = (calm /\ hurt # "eot")
    /\ UNCHANGED <<recvVars, down, senderVars>>

--------------------------------------------------------------------------------

Init ==
    /\ dest = PROG /\ max = ProgMax /\ pos = 0 /\ size = 0 /\ expect = 1 % W
    /\ want_hdr = TRUE /\ have_hdr = FALSE /\ done = FALSE /\ tries = 0 /\ errors = 0
    /\ out = [type |-> PROG, length |-> 0]
    /\ mem = [r \in Region |-> [u \in Unit |-> 0]]
    /\ at = "top" /\ result = "run" /\ force_type \in Forces
    /\ up = <<>> /\ down = <<"C">>
    /\ file \in Files /\ st = "absent" /\ n = 0 /\ retries = 0
    /\ faults = 0 /\ calm = TRUE

Next ==
    \/ Receive \/ Timeout
    \/ SenderReads \/ Arrives \/ SenderTimeout
    \/ LoseFrame \/ LoseAnswer \/ DamageFrame

Spec == Init /\ [][Next]_vars

(* Both ends run, and their timers run out; nothing makes the sender arrive. *)
Fairness ==
    /\ WF_vars(Receive) /\ WF_vars(Timeout)
    /\ WF_vars(SenderReads) /\ WF_vars(SenderTimeout)

FairSpec == Spec /\ Fairness

--------------------------------------------------------------------------------
(* Properties. *)

\* What is at the load address.
Stored == [u \in 1 .. pos |-> mem[dest][u - 1]]

\* The file that is announced as received is in memory from its first unit to
\* its last, at the address of its type, whatever the line did.
Intact ==
    result = YM_OK =>
        /\ out.length <= file.length \/ ~file.announced
        /\ pos > 0 => out.type = dest
        /\ \A u \in 1 .. out.length : mem[out.type][u - 1] = u

\* Nothing is written behind the end of a load region, however long the file
\* is, whatever its header says and whatever arrives twice.
Confined ==
    /\ \A u \in Unit : u >= ProgMax => mem[PROG][u] = 0
    /\ \A u \in Unit : u >= DataMax => mem[DATA][u] = 0

\* When no timer ran out early and no answer was lost, the two ends agree: what
\* was received is all of the file, and a sender that is through was believed.
Agreed ==
    calm =>
        /\ result = YM_OK => pos = file.cut[Len(file.cut)]
        /\ st = "done" => result = YM_OK

\* ymodem.h: the length is the "exact file length from the YMODEM header".
LengthIsAnnounced ==
    result = YM_OK /\ file.announced => out.length = file.length

\* The transfer as such.
Abstract == INSTANCE Transfer WITH stored <- Stored

TransferSpec == Abstract!Spec

\* A sender that arrives with one file, for which there is room up to and with
\* the closing header, gets it through when only frames are lost or damaged.
Room ==
    LET most == IF force_type = PROG \/ (force_type = -1 /\ file.elf) THEN ProgMax ELSE DataMax
    IN  file.cut[Len(file.cut)] + 1 <= most

Completes ==
    (/\ st = "start" /\ result = "run" /\ tries + MaxFaults < YM_START_TRIES
     /\ file.batch # "none" /\ Blocks(file) > 0 /\ Room)
    ~> (result = YM_OK \/ ~calm)

\* Whatever happens, ym_receive comes back.
Returns == <>(result # "run")

================================================================================
