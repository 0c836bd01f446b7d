------------------------------ MODULE BlockDevice -----------------------------
(***************************************************************************)
(* What a drive promises, apart from the card behind it: what is read with   *)
(* success is what the sectors hold, what is written with success is what    *)
(* the sector holds from then on, and nothing else changes.  While the link  *)
(* is in doubt it promises nothing; whether it is, is not up to the drive.   *)
(***************************************************************************)
EXTENDS Naturals

VARIABLES
    disk,               \* what the sectors of the card hold
    req,                \* the call under way: op is "none", "init", "read" or "write"
    buf,                \* what has been read: buf[k] is of sector req.lba + k
    ret,                \* the answer to the last call
    doubt

\* A call begins or is refused at once; a card may be changed between calls.
Refuse == req.op = "none" /\ ret' = "RES_NOTRDY" /\ UNCHANGED <<disk, req, buf>>
Ask    == req.op = "none" /\ req'.op # "none" /\ ret' = "none" /\ UNCHANGED disk
Change == req.op = "none" /\ UNCHANGED <<req, buf, ret>>

\* A sector more is read, rightly or not: a call that fails leaves part of it.
Load == req.op = "read" /\ UNCHANGED <<disk, req, ret>>

\* The sector of a write, or of one that is going to fail, is written.
Store ==
    /\ req.op = "write" /\ UNCHANGED <<req, buf, ret>>
    /\ ~doubt => \A s \in DOMAIN disk \ {req.lba} : disk'[s] = disk[s]

\* The call returns.
Answer ==
    /\ req.op # "none" /\ req'.op = "none" /\ UNCHANGED disk
    /\ ret' = "RES_OK" /\ ~doubt' =>
          /\ req.op = "read"  => \A k \in 0 .. req.count - 1 : buf'[k] = disk[req.lba + k]
          /\ req.op = "write" => disk[req.lba] = req.data

Next == Refuse \/ Ask \/ Change \/ Load \/ Store \/ Answer

Spec == [][Next]_<<disk, req, buf, ret>>
================================================================================
