-------------------------------- MODULE FileStore ------------------------------
(***************************************************************************)
(* What the file system promises a program, apart from sectors, clusters and *)
(* buffers: a path that is opened gives the file it names on the volume that *)
(* is mounted; a read delivers the next bytes of that file; a handle of a    *)
(* volume mounted before delivers nothing; and a call fails only when there  *)
(* is a reason.                                                              *)
(***************************************************************************)
EXTENDS Integers, Sequences

CONSTANTS
    Handle, None,
    Volumes(_),         \* those of a card
    First(_),           \* the one that is to be found, or None
    File(_, _, _),      \* [data, size] of what a path names on a volume from a directory, or None
    Dir(_, _, _),       \* its [clust], when it is a directory, or None
    Torn(_, _, _),      \* whether a directory on the way of a path is damaged
    Listing(_, _),      \* the names in a directory of a volume
    Wide                \* what a position wraps at

VARIABLES
    vol, cwd,           \* the volume that is mounted, or None, and the current directory
    open,               \* handle |-> None, [dir, path, pos]: what was opened, from where, or Dead
    told,               \* the last "mount" has told the user that there is a volume
    drive,              \* the card in the drive, or None
    call,               \* the call under way, or None
    ret,                \* its answer, or None: [res, out]
    trouble             \* the card failed it

vars == <<vol, cwd, open, told, drive, call, ret, trouble>>

\* A damaged file is one whose chain ends before its size.
Damaged(f) == Len(f.data) < f.size

Least(m, n) == IF m < n THEN m ELSE n

\* A handle that delivers nothing any more.
Dead == [dir |-> None, path |-> <<>>, pos |-> 0]
Live(h) == open[h] # None /\ open[h] # Dead

\* The file of a handle.
Of(h) == File(vol, open[h].dir, open[h].path)

Init == /\ vol = None /\ cwd = 0 /\ open = [h \in Handle |-> None]
        /\ told = FALSE /\ call = None /\ ret = None /\ trouble = FALSE

\* The card is changed between two calls.
Change == call = None /\ UNCHANGED <<vol, cwd, open, told, call, ret, trouble>>

\* A mount gives up the volume that was mounted, and every open file with it.
Ask ==
    /\ call = None /\ call' # None /\ ret' = None /\ trouble' = FALSE /\ UNCHANGED <<told, drive>>
    /\ IF call'.op = "mount" THEN /\ vol' = None /\ UNCHANGED cwd
                                  /\ open' = [h \in Handle |-> IF open[h] = None THEN None ELSE Dead]
                             ELSE UNCHANGED <<vol, cwd, open>>

\* Mounted by "mount", or by the first call that needs the volume.  When the card fails
\* where its first volume is, another one of it is taken.
Mounted ==
    /\ call # None /\ ret = None /\ vol = None /\ drive # None
    /\ vol' \in Volumes(drive) /\ (vol' = First(drive) \/ trouble)
    /\ cwd' = 0 /\ UNCHANGED <<open, told, drive, call, ret, trouble>>

\* The card fails in the middle of a call.
Trouble ==
    /\ call # None /\ ret = None /\ trouble'
    /\ UNCHANGED <<vol, cwd, open, told, drive, call, ret>>

--------------------------------------------------------------------------------
(* The answers. *)

Answer(out) ==
    ret' = [res |-> "OK", out |-> out] /\ UNCHANGED <<vol, told, drive, call, trouble>>

AnswerMount ==
    call.op = "mount" /\ vol # None /\ Answer(0) /\ UNCHANGED <<cwd, open>>

\* The first handle that is free.
AnswerOpen ==
    /\ call.op = "open" /\ vol # None /\ File(vol, cwd, call.path) # None
    /\ \E h \in Handle :
          /\ open[h] = None /\ \A k \in Handle : k < h => open[k] # None
          /\ open' = [open EXCEPT ![h] = [dir |-> cwd, path |-> call.path, pos |-> 0]]
          /\ Answer(h)
    /\ UNCHANGED cwd

AnswerRead ==
    /\ call.op = "read" /\ Live(call.h)
    /\ LET f == Of(call.h)
           end == Least(open[call.h].pos + call.n, f.size)
       IN  /\ end <= Len(f.data) \/ end = open[call.h].pos
           /\ Answer(SubSeq(f.data, open[call.h].pos + 1, end))
           /\ open' = [open EXCEPT ![call.h].pos = end]
    /\ UNCHANGED cwd

\* Where a seek is to go.
Target(f) ==
    CASE call.whence = "SET" -> call.off
      [] call.whence = "CUR" -> open[call.h].pos + call.off
      [] call.whence = "END" -> f.size + call.off

\* A seek behind the end stops there.
SeekTo(f, t) ==
    \E p \in {Least(t, f.size)} \cup (IF Damaged(f) THEN {0} ELSE {}) :
       Answer(p) /\ open' = [open EXCEPT ![call.h].pos = p]

AnswerSeek ==
    /\ call.op = "seek" /\ Live(call.h)
    /\ Target(Of(call.h)) >= 0 /\ SeekTo(Of(call.h), Target(Of(call.h)))
    /\ UNCHANGED cwd

\* A handle is given back even when its file is of a volume that is gone.
AnswerClose ==
    /\ call.op = "close" /\ open[call.h] # None
    /\ open' = [open EXCEPT ![call.h] = None]
    /\ Answer(0) /\ UNCHANGED cwd

AnswerCd ==
    /\ call.op = "cd" /\ told /\ vol # None /\ Dir(vol, cwd, call.path) # None
    /\ cwd' = Dir(vol, cwd, call.path).clust
    /\ Answer(0) /\ UNCHANGED open

AnswerLs ==
    /\ call.op = "ls" /\ told /\ vol # None /\ Dir(vol, cwd, call.path) # None
    /\ Answer(Listing(vol, Dir(vol, cwd, call.path).clust)) /\ UNCHANGED <<cwd, open>>

--------------------------------------------------------------------------------
(* The refusals. *)

OnHandle == {"read", "seek", "close"}

Reason ==
    \/ trouble
    \/ call.op \notin OnHandle /\ vol = None /\ drive # None /\ First(drive) = None
    \/ call.op \in {"cd", "ls"} /\ ~told
    \/ call.op = "open" /\ \A h \in Handle : open[h] # None
    \/ call.op = "open" /\ vol # None /\ File(vol, cwd, call.path) = None
    \/ call.op \in {"cd", "ls"} /\ vol # None /\ Dir(vol, cwd, call.path) = None
    \/ call.op \in {"open", "cd", "ls"} /\ vol # None /\ Torn(vol, cwd, call.path)
    \/ /\ call.op \in OnHandle
       /\ Live(call.h) => Damaged(Of(call.h))
    \/ call.op = "seek" /\ Live(call.h) /\ Target(Of(call.h)) < 0

\* A call is refused, for a reason.  A read or seek that failed leaves a handle that
\* no longer delivers; a close gives the handle back all the same.
Refuse ==
    /\ call # None /\ ret = None /\ ret' # None /\ ret'.res # "OK"
    /\ Reason \/ trouble'
    /\ \/ UNCHANGED open
       \/ call.op \in {"read", "seek"} /\ Live(call.h) /\ open' = [open EXCEPT ![call.h] = Dead]
       \/ call.op = "close" /\ open[call.h] # None /\ open' = [open EXCEPT ![call.h] = None]
    /\ trouble => trouble'
    /\ UNCHANGED <<vol, cwd, told, drive, call>>

Return ==
    /\ ret # None /\ call' = None /\ ret' = None
    /\ told' = IF call.op = "mount" THEN ret.res = "OK" ELSE told
    /\ UNCHANGED <<vol, cwd, open, drive>>

Next ==
    \/ Change \/ Ask \/ Mounted \/ Trouble \/ Refuse \/ Return
    \/ /\ call # None /\ ret = None /\ ret' # None
       /\ \/ AnswerMount \/ AnswerOpen \/ AnswerRead \/ AnswerSeek \/ AnswerClose
          \/ AnswerCd \/ AnswerLs

Spec == Init /\ [][Next]_vars

--------------------------------------------------------------------------------
(* Less than is promised: with positions that have no sign, a seek from the position or *)
(* the end that goes back beyond the start is not refused, it comes from the other side. *)

SeekAstray ==
    /\ call # None /\ ret = None /\ ret' # None
    /\ call.op = "seek" /\ call.whence # "SET" /\ Live(call.h)
    /\ Target(Of(call.h)) \notin 0 .. Wide - 1 /\ SeekTo(Of(call.h), Target(Of(call.h)) % Wide)
    /\ UNCHANGED cwd

LooseSpec == Init /\ [][Next \/ SeekAstray]_vars
================================================================================
