--------------------------------- MODULE FatProofs -------------------------------
(***************************************************************************)
(* No sector outlives its volume, and what programs are told is what the card *)
(* holds: whatever the cards, the calls and the failing reads.                *)
(*                                                                            *)
(* The first part is about the window and the buffers (NoStaleSector).  Its   *)
(* invariant adds three things.  While a volume is mounted, a card that       *)
(* answers at all is the one it was mounted from: a changed card does not     *)
(* answer before disk_initialize, and that comes after fs_type is cleared.    *)
(* The ids of file objects never exceed the count of mounts, so that a mount  *)
(* leaves no old object alive.  And what is said of the files in use has to   *)
(* be said of every object, in use or not.                                    *)
(*                                                                            *)
(* The second part is the refinement (ProgramsSeeFiles).  First what a card   *)
(* means is brought into the form of single steps: chains and paths, which    *)
(* are recursive functions, entry by entry and name by name; directories and  *)
(* long names; bytes and the sectors they are in.  Then the invariant Inv     *)
(* says how far a call has come at each of its steps: a mount with the        *)
(* partitions, a search with the entries it has seen, a read with the bytes   *)
(* it has given, a seek with the clusters it has passed.  Each action keeps   *)
(* it, and is an action of FileStore, or is not seen by a program.            *)
(***************************************************************************)
EXTENDS Fat, FiniteSetTheorems, WellFoundedInduction, SequenceTheorems, TLAPS

IsFs(f) ==
    f = [type |-> f.type, id |-> f.id, g |-> f.g, cdir |-> f.cdir, winsect |-> f.winsect, win |-> f.win]

IsFil(f) ==
    f = [fs |-> f.fs, id |-> f.id, sclust |-> f.sclust, objsize |-> f.objsize, err |-> f.err,
         fptr |-> f.fptr, clust |-> f.clust, sect |-> f.sect, buf |-> f.buf]

Shapes ==
    /\ IsFs(fs)
    /\ fd_fil = [h \in Handle |-> fd_fil[h]] /\ \A h \in Handle : IsFil(fd_fil[h])

Ids ==
    /\ Fsid \in Nat /\ fs.id \in Nat /\ fs.id <= Fsid
    /\ \A h \in Handle : fd_fil[h].id \in Nat /\ fd_fil[h].id <= Fsid

\* While a volume is mounted, the card that answers is its own.
Own(f) == f.type /\ up => vol = card

\* The window of a file system f, and the buffer of a file object.
Shows(f) == f.type /\ f.winsect # NoSector => f.win = Image[vol][f.winsect]
Keeps(f) == fs.type /\ f.fs /\ ~f.err /\ f.id = fs.id /\ f.sect # 0 => f.buf = Image[vol][f.sect]

IInv == Shapes /\ Ids /\ Own(fs) /\ Shows(fs) /\ \A h \in Handle : Keeps(fd_fil[h])

--------------------------------------------------------------------------------
(* What the helpers keep. *)

\* A read delivers what the card holds, or spoils.
LEMMA Read ==
    ASSUME NEW s, NEW x \in disk_read(s)
    PROVE  x = Junk \/ (up /\ x = Image[card][s])
  BY DEF disk_read, Delivers

\* Whatever the window comes to, it shows what is there; and when it was empty
\* before, what it shows is of the card that is in the drive.
LEMMA Window ==
    ASSUME NEW F, IsFs(F), Own(F), Shows(F), NEW s, NEW f \in move_window(F, s)
    PROVE  /\ IsFs(f) /\ f.type = F.type /\ f.id = F.id /\ Shows(f)
           /\ F.winsect = NoSector /\ f.winsect # NoSector => f.win = Image[card][f.winsect]
<1>1. CASE s = F.winsect
  BY <1>1 DEF move_window
<1>2. CASE s # F.winsect
  <2>1. PICK x \in disk_read(s) :
            f = IF x = Junk THEN [F EXCEPT !.winsect = NoSector, !.win = Junk]
                ELSE [F EXCEPT !.winsect = s, !.win = x]
    BY <1>2 DEF move_window
  <2>2. CASE x = Junk
    BY <2>1, <2>2 DEF IsFs, Shows
  <2>3. CASE x # Junk
    <3>1. up /\ x = Image[card][s]
      BY <2>3, Read
    <3>2. f = [F EXCEPT !.winsect = s, !.win = x]
      BY <2>1, <2>3
    <3>3. IsFs(f) /\ f.type = F.type /\ f.id = F.id /\ f.winsect = s /\ f.win = x
      BY <3>2 DEF IsFs
    <3> QED
      BY <3>1, <3>3 DEF Shows, Own
  <2> QED
    BY <2>2, <2>3
<1> QED
  BY <1>1, <1>2

\* A file object that differs from the one of the call in its position alone, or that
\* delivers no more, or that has taken a sector in.
Fits(f) == IsFil(f) /\ f.id = fil.id
Good(f) == Fits(f) /\ Keeps(f)

LEMMA OfCall == ASSUME IInv, call.h \in Handle PROVE Good(fil)
<1>1. fil = fd_fil[call.h]
  BY DEF fil
<1>2. IsFil(fd_fil[call.h]) /\ Keeps(fd_fil[call.h])
  BY DEF IInv, Shapes
<1> QED
  BY <1>1, <1>2 DEF Good, Fits

\* The fields of an object that a step leaves alone.
LEMMA Alike ==
    ASSUME NEW f, NEW n, Good(f), IsFil(n), n.id = f.id, n.fs = f.fs, n.err = f.err,
           n.sect = f.sect, n.buf = f.buf
    PROVE  Good(n)
  BY DEF Good, Fits, Keeps

LEMMA MovesPtr ==
    ASSUME NEW f, Good(f), NEW p
    PROVE  Good([f EXCEPT !.fptr = p])
<1> DEFINE n == [f EXCEPT !.fptr = p]
<1>1. IsFil(f)
  BY DEF Good, Fits
<1>2. /\ IsFil(n) /\ n.id = f.id /\ n.fs = f.fs /\ n.err = f.err
      /\ n.sect = f.sect /\ n.buf = f.buf
  BY <1>1 DEF IsFil
<1> QED
  BY <1>2, Alike

LEMMA MovesClust ==
    ASSUME NEW f, Good(f), NEW c
    PROVE  Good([f EXCEPT !.clust = c])
<1> DEFINE n == [f EXCEPT !.clust = c]
<1>1. IsFil(f)
  BY DEF Good, Fits
<1>2. /\ IsFil(n) /\ n.id = f.id /\ n.fs = f.fs /\ n.err = f.err
      /\ n.sect = f.sect /\ n.buf = f.buf
  BY <1>1 DEF IsFil
<1> QED
  BY <1>2, Alike

LEMMA MovesBoth ==
    ASSUME NEW f, Good(f), NEW p, NEW c
    PROVE  Good([f EXCEPT !.fptr = p, !.clust = c])
<1>1. Good([[f EXCEPT !.fptr = p] EXCEPT !.clust = c])
  BY MovesPtr, MovesClust
<1>2. [[f EXCEPT !.fptr = p] EXCEPT !.clust = c] = [f EXCEPT !.fptr = p, !.clust = c]
  OBVIOUS
<1> QED
  BY <1>1, <1>2

\* An object with an error, or without its file system, delivers nothing.
LEMMA Silent ==
    ASSUME NEW n, Fits(n), n.err = TRUE \/ n.fs = FALSE
    PROVE  Good(n)
  BY DEF Good, Keeps

LEMMA Stops ==
    ASSUME NEW f, Fits(f), NEW p
    PROVE  /\ Good([f EXCEPT !.err = TRUE]) /\ Good([f EXCEPT !.fs = FALSE])
           /\ Fits(Spoilt(f)) /\ Fits([f EXCEPT !.fptr = p])
<1>1. IsFil(f) /\ f.id = fil.id
  BY DEF Fits
<1> DEFINE With(x) == [f EXCEPT !.err = x]
           Of(x) == [f EXCEPT !.fs = x]
<1>2. With(TRUE).err = TRUE /\ Fits(With(TRUE))
  <2>1. \A x : With(x).err = x /\ Fits(With(x))
    BY <1>1 DEF IsFil, Fits
  <2> HIDE DEF With
  <2> QED
    BY <2>1
<1>3. Of(FALSE).fs = FALSE /\ Fits(Of(FALSE))
  <2>1. \A x : Of(x).fs = x /\ Fits(Of(x))
    BY <1>1 DEF IsFil, Fits
  <2> HIDE DEF Of
  <2> QED
    BY <2>1
<1>4. Fits(Spoilt(f))
  BY <1>1 DEF IsFil, Fits, Spoilt
<1>5. Fits([f EXCEPT !.fptr = p])
  BY <1>1 DEF IsFil, Fits
<1> QED
  BY <1>2, <1>3, <1>4, <1>5, Silent

LEMMA TakesIn ==
    ASSUME NEW f, Fits(f), Own(fs), NEW s, NEW x \in disk_read(s), x # Junk
    PROVE  Good(Holding(f, s, x))
<1>1. up /\ x = Image[card][s]
  BY Read
<1> DEFINE a == [f EXCEPT !.buf = x]
           n == [a EXCEPT !.sect = s]
<1>2. Holding(f, s, x) = n
  BY DEF Holding
<1>3. IsFil(a) /\ a.id = f.id /\ a.buf = x
  BY DEF Fits, IsFil
<1> HIDE DEF a
<1>4. IsFil(n) /\ n.id = a.id /\ n.sect = s /\ n.buf = a.buf
  BY <1>3 DEF IsFil
<1>5. Fits(n)
  BY <1>3, <1>4 DEF Fits
<1> QED
  BY <1>1, <1>2, <1>3, <1>4, <1>5 DEF Good, Keeps, Own

--------------------------------------------------------------------------------
(* What keeps the invariant. *)

Still == UNCHANGED <<card, up, vol, Fsid>>

\* The file system a step leaves: of the same mount, with a window that shows what is
\* there; or none.
Mount(f) == IsFs(f) /\ f.id = fs.id /\ Shows(f) /\ (f.type => fs.type)

LEMMA KeepFs ==
    ASSUME IInv, Still, Mount(fs'), UNCHANGED fd_fil
    PROVE  IInv'
  BY DEF IInv, Shapes, Ids, Own, Shows, Keeps, Still, Mount

LEMMA KeepFil ==
    ASSUME IInv, Still, Mount(fs'), NEW F, call.h \in Handle => Good(F),
           fd_fil' = [fd_fil EXCEPT ![call.h] = F]
    PROVE  IInv'
<1>1. fd_fil' = [h \in Handle |-> fd_fil'[h]]
  BY DEF IInv, Shapes
<1>2. ASSUME NEW h \in Handle
      PROVE  /\ IsFil(fd_fil'[h]) /\ fd_fil'[h].id = fd_fil[h].id
             /\ Keeps(fd_fil'[h])
  <2>1. CASE h = call.h
    BY <2>1 DEF IInv, Shapes, Good, Fits, fil
  <2>2. CASE h # call.h
    BY <2>2 DEF IInv, Shapes
  <2> QED
    BY <2>1, <2>2
<1>3. Shapes' /\ Ids'
  BY <1>1, <1>2 DEF IInv, Shapes, Ids, Still, Mount, IsFs, IsFil
<1>4. Own(fs)' /\ Shows(fs)'
  BY DEF IInv, Own, Shows, Still, Mount
<1>5. \A h \in Handle : Keeps(fd_fil[h])'
  BY <1>2 DEF Keeps, Still, Mount
<1> QED
  BY <1>3, <1>4, <1>5 DEF IInv

LEMMA SameMount == ASSUME IInv PROVE Mount(fs)
  BY DEF IInv, Shapes, Mount

LEMMA WindowMount ==
    ASSUME IInv, NEW s, NEW f \in move_window(fs, s)
    PROVE  Mount(f) /\ \A c : Mount([f EXCEPT !.cdir = c])
<1>1. IsFs(f) /\ f.type = fs.type /\ f.id = fs.id /\ Shows(f)
  BY Window DEF IInv, Shapes
<1> QED
  BY <1>1 DEF Mount, IsFs, Shows

LEMMA Unmounted == ASSUME IInv PROVE Mount([fs EXCEPT !.type = FALSE])
<1> DEFINE With(x) == [fs EXCEPT !.type = x]
<1>1. \A x : IsFs(With(x)) /\ With(x).id = fs.id /\ With(x).type = x
  BY DEF IInv, Shapes, IsFs
<1> HIDE DEF With
<1>2. With(FALSE).type = FALSE
  BY <1>1
<1>3. Mount(With(FALSE))
  BY <1>1, <1>2 DEF Mount, Shows
<1> QED
  BY <1>3 DEF With

\* The file system alone has changed.
LEMMA OnlyFs ==
    ASSUME IInv, Still, UNCHANGED fileVars, NEW f, Mount(f), fs' = f
    PROVE  IInv'
  BY KeepFs DEF fileVars

\* The object of the call alone has changed.
LEMMA OnlyFil ==
    ASSUME IInv, Still, UNCHANGED fs, NEW F, call.h \in Handle => Good(F), FilIs(F)
    PROVE  IInv'
  BY KeepFil, SameMount DEF FilIs

LEMMA NoneChanged == ASSUME IInv, Still, UNCHANGED <<fs, fd_fil>> PROVE IInv'
  BY KeepFs, SameMount

--------------------------------------------------------------------------------
(* The steps. *)

LEMMA SwapStep == ASSUME IInv, Swap PROVE IInv'
<1>1. up' = FALSE /\ UNCHANGED <<vol, Fsid, fs, fd_fil>>
  BY DEF Swap, fileVars
<1> QED
  BY <1>1 DEF IInv, Shapes, Ids, Own, Shows, Keeps

LEMMA AskStep == ASSUME IInv, Ask PROVE IInv'
<1>1. Still /\ UNCHANGED fileVars
  BY DEF Ask, Still, driveVars
<1>2. fs' = fs \/ fs' = [fs EXCEPT !.type = FALSE]
  BY DEF Ask
<1> QED
  BY <1>1, <1>2, OnlyFs, SameMount, Unmounted

LEMMA QuietStep == ASSUME IInv, Begin \/ Return \/ FRead PROVE IInv'
<1>1. Still /\ UNCHANGED <<fs, fd_fil>>
  BY DEF Begin, Return, FRead, Still, driveVars, fileVars
<1> QED
  BY <1>1, NoneChanged

LEMMA MountVolumeStep == ASSUME IInv, MountVolume PROVE IInv'
<1>1. CASE UNCHANGED <<driveVars, fs>>
  <2>1. Still /\ UNCHANGED <<fs, fd_fil>>
    BY <1>1 DEF MountVolume, Still, driveVars, fileVars
  <2> QED
    BY <2>1, NoneChanged
<1>2. CASE fs' = [fs EXCEPT !.type = FALSE]
  <2>1. Mount(fs') /\ (fs'.type => fs.type)
    BY <1>2, Unmounted DEF Mount
  <2>2. fs'.type = FALSE
    BY <1>2 DEF IInv, Shapes, IsFs
  <2>3. UNCHANGED <<vol, Fsid, fd_fil>>
    BY DEF MountVolume, fileVars
  <2> QED
    BY <2>1, <2>2, <2>3 DEF IInv, Shapes, Ids, Own, Shows, Keeps, Mount
<1> QED
  BY <1>1, <1>2 DEF MountVolume

LEMMA CheckFsStep == ASSUME IInv, CheckFs PROVE IInv'
<1> DEFINE F == [fs EXCEPT !.winsect = NoSector]
<1>1. IsFs(F) /\ F.type = fs.type /\ F.id = fs.id /\ F.winsect = NoSector
  BY DEF IInv, Shapes, IsFs
<1>2. Own(F) /\ Shows(F)
  BY <1>1 DEF IInv, Own, Shows
<1>3. PICK f \in move_window(F, Head(parts)) :
         /\ Noted(f.win)
         /\ \/ fs' = f /\ UNCHANGED <<Fsid, vol>>
            \/ /\ Fsid' = Fsid + 1 /\ vol' = card
               /\ fs' = [f EXCEPT !.type = TRUE, !.id = Fsid + 1, !.cdir = 0,
                                  !.g = Bare(Image[card], Head(parts))]
  BY DEF CheckFs
<1> HIDE DEF F
<1>4. /\ IsFs(f) /\ f.type = fs.type /\ f.id = fs.id /\ Shows(f)
      /\ f.winsect # NoSector => f.win = Image[card][f.winsect]
  BY <1>1, <1>2, <1>3, Window
<1>5. UNCHANGED <<card, up, fd_fil>>
  BY <1>3 DEF CheckFs, Noted, fileVars
<1>6. CASE fs' = f /\ UNCHANGED <<Fsid, vol>>
  <2>1. Still /\ Mount(f)
    BY <1>4, <1>5, <1>6 DEF Still, Mount
  <2> QED
    BY <2>1, <1>5, <1>6, KeepFs
<1>7. CASE /\ Fsid' = Fsid + 1 /\ vol' = card
           /\ fs' = [f EXCEPT !.type = TRUE, !.id = Fsid + 1, !.cdir = 0,
                              !.g = Bare(Image[card], Head(parts))]
  <2>1. /\ fs' = [type |-> TRUE, id |-> Fsid + 1, g |-> Bare(Image[card], Head(parts)),
                  cdir |-> 0, winsect |-> f.winsect, win |-> f.win]
    BY <1>4, <1>7 DEF IsFs
  <2>2. IsFs(fs)' /\ fs'.id = Fsid + 1 /\ fs'.winsect = f.winsect /\ fs'.win = f.win
    BY <2>1 DEF IsFs
  <2>3. Shapes' /\ Ids'
    BY <1>5, <1>7, <2>2 DEF IInv, Shapes, Ids, IsFil
  <2>4. Own(fs)' /\ Shows(fs)'
    BY <1>4, <1>5, <1>7, <2>2 DEF Own, Shows
  <2>5. \A h \in Handle : fd_fil'[h].id # fs'.id
    BY <1>5, <2>2 DEF IInv, Ids
  <2> QED
    BY <2>3, <2>4, <2>5 DEF IInv, Keeps
<1> QED
  BY <1>3, <1>6, <1>7

--------------------------------------------------------------------------------
(* The steps of a directory. *)

\* What such a step leaves, when the window has come to f.
Outcome(f) ==
    /\ fs' = f \/ \E c : fs' = [f EXCEPT !.cdir = c]
    /\ UNCHANGED fd_fil \/ \E e : Opened(e)

LEMMA OpenedStep ==
    ASSUME IInv, Still, Mount(fs'), NEW e, Opened(e)
    PROVE  IInv'
<1>1. PICK h : fd_fil' = [fd_fil EXCEPT ![h] =
              [fs |-> TRUE, id |-> fs.id, sclust |-> e.clust, objsize |-> e.size, err |-> FALSE,
               fptr |-> 0, clust |-> @.clust, sect |-> 0, buf |-> @.buf]]
  BY DEF Opened
<1>2. CASE h \notin Handle
  <2>1. UNCHANGED fd_fil
    BY <1>1, <1>2 DEF IInv, Shapes
  <2> QED
    BY <2>1, KeepFs
<1>3. CASE h \in Handle
  <2> DEFINE o == fd_fil[h]
             n == [fs |-> TRUE, id |-> fs.id, sclust |-> e.clust, objsize |-> e.size,
                   err |-> FALSE, fptr |-> 0, clust |-> o.clust, sect |-> 0, buf |-> o.buf]
  <2>3. fd_fil' = [fd_fil EXCEPT ![h] = n]
    BY <1>1
  <2>4. IsFil(n) /\ n.id = fs.id /\ n.sect = 0
    BY DEF IsFil
  <2> HIDE DEF n
  <2>5. ASSUME NEW k \in Handle
        PROVE  /\ IsFil(fd_fil'[k]) /\ fd_fil'[k].id \in Nat /\ fd_fil'[k].id <= Fsid
               /\ Keeps(fd_fil'[k])
    <3>1. CASE k = h
      BY <1>3, <2>3, <2>4, <3>1 DEF IInv, Shapes, Ids, Keeps
    <3>2. CASE k # h
      BY <2>3, <3>2 DEF IInv, Shapes, Ids
    <3> QED
      BY <3>1, <3>2
  <2>6. fd_fil' = [k \in Handle |-> fd_fil'[k]]
    BY <2>3 DEF IInv, Shapes
  <2>7. Shapes' /\ Ids'
    BY <2>5, <2>6 DEF IInv, Shapes, Ids, Still, Mount, IsFs, IsFil
  <2>8. Own(fs)' /\ Shows(fs)'
    BY DEF IInv, Own, Shows, Still, Mount
  <2>9. \A k \in Handle : Keeps(fd_fil[k])'
    BY <2>5 DEF Keeps, Still, Mount
  <2> QED
    BY <2>7, <2>8, <2>9 DEF IInv
<1> QED
  BY <1>2, <1>3

LEMMA Walks ==
    ASSUME IInv, Still, NEW s, NEW f \in move_window(fs, s), Outcome(f)
    PROVE  IInv'
<1>1. Mount(fs')
  BY WindowMount DEF Outcome
<1> QED
  BY <1>1, KeepFs, OpenedStep DEF Outcome

LEMMA OutcomeNotFound == ASSUME NEW f, NotFound(f) PROVE Outcome(f)
  BY DEF NotFound, Outcome, Cd, fileVars

LEMMA OutcomeFound == ASSUME NEW f, NEW e, Found(f, e) PROVE Outcome(f)
  BY DEF Found, Deeper, Outcome, Cd, fileVars

LEMMA OutcomeNext == ASSUME NEW f, NEW d, NEW o, DirNext(f, d, o) PROVE Outcome(f)
  BY OutcomeNotFound DEF DirNext, Outcome, fileVars

LEMMA LooksStill ==
    ASSUME NEW x, Noted(x), UNCHANGED <<Fsid, vol, swaps>>
    PROVE  Still
  BY DEF Noted, Still

LEMMA DirFindStep == ASSUME IInv, DirFind PROVE IInv'
<1>1. PICK f \in move_window(fs, dj.sect) :
         /\ Noted(f.win)
         /\ IF f.win = Junk THEN fs' = f /\ UNCHANGED fileVars
            ELSE Compares(f, entry(f))
  BY DEF DirFind, Unread
<1>2. Still
  BY <1>1, LooksStill DEF DirFind
<1>3. CASE f.win = Junk
  BY <1>1, <1>2, <1>3, Walks DEF Outcome, fileVars
<1>4. CASE f.win # Junk
  <2>1. Outcome(f)
    BY <1>1, <1>4, OutcomeNotFound, OutcomeFound, OutcomeNext DEF Compares
  <2> QED
    BY <1>2, <2>1, Walks
<1> QED
  BY <1>3, <1>4

LEMMA DirReadStep == ASSUME IInv, DirRead PROVE IInv'
<1>1. PICK f \in move_window(fs, dj.sect) :
         /\ Noted(f.win)
         /\ IF f.win = Junk THEN fs' = f /\ UNCHANGED fileVars
            ELSE Lists(f, entry(f))
  BY DEF DirRead, Unread
<1>2. Still
  BY <1>1, LooksStill DEF DirRead
<1>3. CASE f.win = Junk
  BY <1>1, <1>2, <1>3, Walks DEF Outcome, fileVars
<1>4. CASE f.win # Junk
  <2>1. Outcome(f)
    BY <1>1, <1>4, OutcomeNext DEF Lists, Outcome, fileVars
  <2> QED
    BY <1>2, <2>1, Walks
<1> QED
  BY <1>3, <1>4

LEMMA DirChainStep == ASSUME IInv, DirChain PROVE IInv'
<1>1. PICK f \in move_window(fs, FatSector(g, dj.clust)) :
         Noted(f.win) /\ (TableEnds(f) \/ (fs' = f /\ UNCHANGED fileVars))
  BY DEF DirChain, Unread
<1>2. Still
  BY <1>1, LooksStill DEF DirChain
<1>3. Outcome(f)
  BY <1>1, OutcomeNotFound DEF TableEnds, Outcome, fileVars
<1> QED
  BY <1>1, <1>2, <1>3, Walks

LEMMA MountedStep == ASSUME IInv, Mounted PROVE IInv'
<1>1. Still /\ UNCHANGED fileVars
  BY DEF Mounted, Still, driveVars
<1>2. fs' = fs \/ fs' = [fs EXCEPT !.cdir = Start]
  BY DEF Mounted, Cd
<1>3. Mount(fs')
  <2>1. Mount(fs) /\ IsFs(fs)
    BY SameMount DEF IInv, Shapes
  <2>2. \A c : Mount([fs EXCEPT !.cdir = c])
    BY <2>1 DEF Mount, IsFs, Shows
  <2> QED
    BY <1>2, <2>1, <2>2
<1> QED
  BY <1>1, <1>3, KeepFs DEF fileVars

--------------------------------------------------------------------------------
(* The steps of a file. *)

LEMMA ReadingStep == ASSUME IInv, Reading PROVE IInv'
<1>1. Still /\ UNCHANGED fs
  BY DEF Reading, Still, driveVars
<1>2. CASE UNCHANGED fd_fil
  BY <1>1, <1>2, NoneChanged
<1>3. CASE \E p : FilIs([fil EXCEPT !.fptr = p])
  BY <1>1, <1>3, OnlyFil, OfCall, MovesPtr
<1>4. CASE FilIs([fil EXCEPT !.err = TRUE])
  BY <1>1, <1>4, OnlyFil, OfCall, Stops DEF Good
<1>5. CASE FilIs([fil EXCEPT !.clust = fil.sclust])
  BY <1>1, <1>5, OnlyFil, OfCall, MovesClust
<1> QED
  BY <1>2, <1>3, <1>4, <1>5 DEF Reading, Given, Aborts, FilIs

LEMMA ReadChainStep == ASSUME IInv, ReadChain PROVE IInv'
<1>1. PICK f \in move_window(fs, FatSector(g, fil.clust)) :
         /\ Moved(f)
         /\ Aborts(fil, "FR_DISK_ERR") \/ Aborts(fil, "FR_INT_ERR")
            \/ FilIs([fil EXCEPT !.clust = get_fat(f, fil.clust)])
  BY DEF ReadChain
<1>2. Still /\ Mount(fs')
  BY <1>1, LooksStill, WindowMount DEF Moved, ReadChain
<1>3. CASE FilIs([fil EXCEPT !.err = TRUE])
  BY <1>2, <1>3, KeepFil, OfCall, Stops DEF Good, FilIs
<1>4. CASE FilIs([fil EXCEPT !.clust = get_fat(f, fil.clust)])
  BY <1>2, <1>4, KeepFil, OfCall, MovesClust DEF FilIs
<1> QED
  BY <1>1, <1>3, <1>4 DEF Aborts, FilIs

LEMMA ReadSectorStep == ASSUME IInv, ReadSector PROVE IInv'
<1> DEFINE sect == clst2sect(g, fil.clust) + InCluster(fil)
<1>1. Still /\ UNCHANGED fs
  BY DEF ReadSector, Noted, Still, driveVars
<1>2. CASE FilIs([fil EXCEPT !.err = TRUE])
  BY <1>1, <1>2, OnlyFil, OfCall, Stops DEF Good
<1>3. CASE FilIs([Spoilt(fil) EXCEPT !.err = TRUE])
  <2>1. call.h \in Handle => Good([Spoilt(fil) EXCEPT !.err = TRUE])
    BY OfCall, Stops DEF Good
  <2> QED
    BY <1>1, <1>3, <2>1, OnlyFil
<1>4. CASE \E p : FilIs([fil EXCEPT !.fptr = p])
  BY <1>1, <1>4, OnlyFil, OfCall, MovesPtr
<1>5. CASE \E x \in disk_read(sect) : x # Junk /\ \E p : FilIs([Holding(fil, sect, x) EXCEPT !.fptr = p])
  <2>1. PICK x \in disk_read(sect) : x # Junk /\ \E p : FilIs([Holding(fil, sect, x) EXCEPT !.fptr = p])
    BY <1>5
  <2>2. PICK p : FilIs([Holding(fil, sect, x) EXCEPT !.fptr = p])
    BY <2>1
  <2>3. call.h \in Handle => Good([Holding(fil, sect, x) EXCEPT !.fptr = p])
    BY <2>1, OfCall, TakesIn, MovesPtr DEF Good, IInv
  <2> QED
    BY <1>1, <2>2, <2>3, OnlyFil
<1> HIDE DEF sect
<1>6. \/ FilIs([fil EXCEPT !.err = TRUE]) \/ FilIs([Spoilt(fil) EXCEPT !.err = TRUE])
      \/ \E p : FilIs([fil EXCEPT !.fptr = p])
      \/ \E x \in disk_read(sect) : x # Junk /\ \E p : FilIs([Holding(fil, sect, x) EXCEPT !.fptr = p])
  BY DEF ReadSector, sect, Given, Aborts, FilIs
<1> QED
  BY <1>2, <1>3, <1>4, <1>5, <1>6

LEMMA FLseekStep == ASSUME IInv, FLseek PROVE IInv'
<1>1. Still /\ UNCHANGED fs
  BY DEF FLseek, Still, driveVars
<1>2. CASE UNCHANGED fd_fil
  BY <1>1, <1>2, NoneChanged
<1>3. CASE \E p : FilIs([fil EXCEPT !.fptr = p])
  BY <1>1, <1>3, OnlyFil, OfCall, MovesPtr
<1>4. CASE \E p, c : FilIs([fil EXCEPT !.fptr = p, !.clust = c])
  BY <1>1, <1>4, OnlyFil, OfCall, MovesBoth
<1> QED
  BY <1>2, <1>3, <1>4 DEF FLseek

LEMMA SeekChainStep == ASSUME IInv, SeekChain PROVE IInv'
<1> DEFINE s == [fil EXCEPT !.fptr = @ + bcs]
<1>1. PICK f \in move_window(fs, FatSector(g, fil.clust)) :
         /\ Moved(f)
         /\ FilIs([s EXCEPT !.err = TRUE]) \/ FilIs([s EXCEPT !.clust = get_fat(f, fil.clust)])
  BY DEF SeekChain, Aborts, FilIs
<1>2. Still /\ Mount(fs')
  BY <1>1, LooksStill, WindowMount DEF Moved, SeekChain
<1>3. call.h \in Handle => Good(s)
  BY OfCall, MovesPtr
<1> HIDE DEF s
<1>4. CASE FilIs([s EXCEPT !.err = TRUE])
  BY <1>2, <1>3, <1>4, KeepFil, Stops DEF Good, FilIs
<1>5. CASE FilIs([s EXCEPT !.clust = get_fat(f, fil.clust)])
  BY <1>2, <1>3, <1>5, KeepFil, MovesClust DEF FilIs
<1> QED
  BY <1>1, <1>4, <1>5

LEMMA SeekEndStep == ASSUME IInv, SeekEnd PROVE IInv'
<1> DEFINE f == [fil EXCEPT !.fptr = @ + btr]
           nsect == clst2sect(g, fil.clust) + (btr \div SS)
<1>1. Still /\ UNCHANGED fs
  BY DEF SeekEnd, Noted, Still, driveVars
<1>2. call.h \in Handle => Good(f)
  BY OfCall, MovesPtr
<1>3. \/ FilIs([f EXCEPT !.err = TRUE]) \/ FilIs(f) \/ FilIs([Spoilt(f) EXCEPT !.err = TRUE])
      \/ \E x \in disk_read(nsect) : x # Junk /\ FilIs(Holding(f, nsect, x))
  BY DEF SeekEnd, Aborts, FilIs
<1> HIDE DEF f, nsect
<1>4. CASE FilIs([f EXCEPT !.err = TRUE])
  BY <1>1, <1>2, <1>4, OnlyFil, Stops DEF Good
<1>5. CASE FilIs(f)
  BY <1>1, <1>2, <1>5, OnlyFil
<1>6. CASE FilIs([Spoilt(f) EXCEPT !.err = TRUE])
  <2>1. call.h \in Handle => Good([Spoilt(f) EXCEPT !.err = TRUE])
    BY <1>2, Stops DEF Good
  <2> QED
    BY <1>1, <1>6, <2>1, OnlyFil
<1>7. CASE \E x \in disk_read(nsect) : x # Junk /\ FilIs(Holding(f, nsect, x))
  <2>1. PICK x \in disk_read(nsect) : x # Junk /\ FilIs(Holding(f, nsect, x))
    BY <1>7
  <2>2. call.h \in Handle => Good(Holding(f, nsect, x))
    BY <1>2, <2>1, TakesIn DEF Good, IInv
  <2> QED
    BY <1>1, <2>1, <2>2, OnlyFil
<1> QED
  BY <1>3, <1>4, <1>5, <1>6, <1>7

LEMMA FCloseStep == ASSUME IInv, FClose PROVE IInv'
<1>1. Still /\ UNCHANGED fs
  BY DEF FClose, Still, driveVars
<1>2. CASE UNCHANGED fd_fil
  BY <1>1, <1>2, NoneChanged
<1>3. CASE FilIs([fil EXCEPT !.fs = FALSE])
  BY <1>1, <1>3, OnlyFil, OfCall, Stops DEF Good
<1> QED
  BY <1>2, <1>3 DEF FClose

--------------------------------------------------------------------------------
LEMMA InitInv == ASSUME Init PROVE IInv
<1>1. /\ fs = NoVolume /\ Fsid = 0 /\ fd_fil = [h \in Handle |-> NoFile]
  BY DEF Init
<1>2. IsFs(NoVolume) /\ NoVolume.id = 0 /\ NoVolume.type = FALSE
  BY Zenon DEF NoVolume, IsFs
<1>3. IsFil(NoFile) /\ NoFile.id = 0 /\ NoFile.sect = 0
  BY Zenon DEF NoFile, IsFil
<1>4. Shapes
  BY <1>1, <1>2, <1>3 DEF Shapes
<1>5. Ids
  BY <1>1, <1>2, <1>3 DEF Ids
<1> QED
  BY <1>1, <1>2, <1>3, <1>4, <1>5 DEF IInv, Own, Shows, Keeps

LEMMA NextInv == ASSUME IInv, [Next]_vars PROVE IInv'
<1>1. CASE UNCHANGED vars
  <2>1. Still /\ UNCHANGED <<fs, fd_fil>>
    BY <1>1 DEF vars, driveVars, fileVars, Still
  <2> QED
    BY <2>1, NoneChanged
<1>2. CASE Next
  BY <1>2, SwapStep, AskStep, QuietStep, MountVolumeStep, CheckFsStep, MountedStep, DirFindStep,
     DirReadStep, DirChainStep, ReadingStep, ReadChainStep, ReadSectorStep, FLseekStep,
     SeekChainStep, SeekEndStep, FCloseStep DEF Next, Step
<1> QED
  BY <1>1, <1>2

\* What the window and the buffers of the files that deliver hold is on the volume that
\* is mounted (move_window, f_read and f_lseek, validate, and the count of f_mount).
THEOREM NoStaleSector == Spec => []BuffersTrue
<1>1. IInv => BuffersTrue
  BY DEF IInv, Shows, Keeps, BuffersTrue, Live
<1> QED
  BY <1>1, InitInv, NextInv, PTL DEF Spec

--------------------------------------------------------------------------------
(* Numbers and recursion. *)

\* A set of numbers has a least one.
LEMMA LeastNumber ==
    ASSUME NEW T, T \subseteq Nat, T # {}
    PROVE  \E m \in T : \A n \in T : ~ (n < m)
<1>1. PICK x \in T : \A y \in T : ~ (<<y, x>> \in OpToRel(<, Nat))
  BY NatLessThanWellFounded, WFMin
<1>2. \A y \in T : (y < x) => <<y, x>> \in OpToRel(<, Nat)
  BY DEF OpToRel
<1> QED
  BY <1>1, <1>2

\* Induction over the numbers, for membership in a set.
LEMMA Climb ==
    ASSUME NEW S, 0 \in S, \A n \in Nat : n \in S => n + 1 \in S
    PROVE  \A n \in Nat : n \in S
<1>1. SUFFICES ASSUME NEW n \in Nat, n \notin S PROVE FALSE
  OBVIOUS
<1> DEFINE T == {k \in Nat : k \notin S}
<1>2. PICK m \in T : \A k \in T : ~ (k < m)
  BY <1>1, LeastNumber
<1>3. m # 0 /\ m - 1 \in Nat /\ m - 1 < m
  OBVIOUS
<1>4. m - 1 \in S
  BY <1>2, <1>3
<1>5. (m - 1) + 1 = m
  OBVIOUS
<1> QED
  BY <1>3, <1>4, <1>5

\* A function can be defined by recursion over the naturals; F gives the step.
Stepper(F, D) == F \in [Nat -> [D -> D]]
Follows(f, D, r, F) == f \in [Nat -> D] /\ f[0] = r /\ \A i \in Nat : f[i + 1] = F[i + 1][f[i]]

\* A recursive definition over the numbers has a value: the function that it follows.
LEMMA Recursion ==
    ASSUME NEW D, NEW r \in D, NEW F, Stepper(F, D)
    PROVE  \E f : Follows(f, D, r, F)
<1>0. F \in [Nat -> [D -> D]]
  BY DEF Stepper
<1> DEFINE Upto(n, f) == f \in [0 .. n -> D] /\ f[0] = r /\ \A i \in 1 .. n : f[i] = F[i][f[i - 1]]
           S == {n \in Nat : \E f : Upto(n, f)}
<1>1. 0 \in S
  <2> DEFINE f == [i \in 0 .. 0 |-> r]
  <2>1. Upto(0, f)
    OBVIOUS
  <2> QED
    BY <2>1
<1>2. ASSUME NEW n \in Nat, n \in S PROVE n + 1 \in S
  <2>1. PICK f : Upto(n, f)
    BY <1>2
  <2> DEFINE h == [i \in 0 .. n + 1 |-> IF i = n + 1 THEN F[n + 1][f[n]] ELSE f[i]]
  <2>2. f[n] \in D /\ F[n + 1] \in [D -> D]
    BY <1>0, <2>1
  <2>3. h \in [0 .. n + 1 -> D]
    BY <2>1, <2>2
  <2>4. h[0] = r
    BY <2>1
  <2>5. ASSUME NEW i \in 1 .. n + 1 PROVE h[i] = F[i][h[i - 1]]
    <3>1. i - 1 \in 0 .. n /\ h[i - 1] = f[i - 1]
      OBVIOUS
    <3> QED
      BY <2>1, <3>1
  <2>6. Upto(n + 1, h)
    BY <2>3, <2>4, <2>5
  <2> HIDE DEF Upto, h
  <2>7. \E x : Upto(n + 1, x)
    BY <2>6
  <2> QED
    BY <2>7
<1>3. \A n \in Nat : \E f : Upto(n, f)
  <2> HIDE DEF S
  <2>1. \A n \in Nat : n \in S
    BY <1>1, <1>2, Climb
  <2> QED
    BY <2>1 DEF S
<1>4. ASSUME NEW n \in Nat, NEW m \in Nat, NEW f, NEW h, Upto(n, f), Upto(m, h)
      PROVE  \A i \in Nat : i <= n /\ i <= m => f[i] = h[i]
  <2> DEFINE T == {i \in Nat : i <= n /\ i <= m => f[i] = h[i]}
  <2>1. 0 \in T
    BY <1>4
  <2>2. ASSUME NEW i \in Nat, i \in T PROVE i + 1 \in T
    <3>1. SUFFICES ASSUME i + 1 <= n, i + 1 <= m PROVE f[i + 1] = h[i + 1]
      OBVIOUS
    <3>2. f[i + 1] = F[i + 1][f[(i + 1) - 1]] /\ h[i + 1] = F[i + 1][h[(i + 1) - 1]]
      BY <1>4, <3>1
    <3>3. (i + 1) - 1 = i /\ f[i] = h[i]
      BY <2>2, <3>1
    <3> QED
      BY <3>2, <3>3
  <2> HIDE DEF T
  <2>3. \A i \in Nat : i \in T
    BY <2>1, <2>2, Climb
  <2> QED
    BY <2>3 DEF T
<1> DEFINE A(n) == CHOOSE f : Upto(n, f)
           seq == [n \in Nat |-> A(n)[n]]
<1>5. \A n \in Nat : Upto(n, A(n))
  <2> HIDE DEF Upto
  <2> QED
    BY <1>3
<1>6. \A n \in Nat : A(n)[n] \in D
  BY <1>5
<1>7. A(0)[0] = r
  BY <1>5
<1>8. ASSUME NEW n \in Nat, n # 0 PROVE A(n)[n] = F[n][A(n - 1)[n - 1]]
  <2>1. n - 1 \in Nat /\ n - 1 <= n /\ n - 1 <= n - 1
    BY <1>8
  <2>2. A(n)[n] = F[n][A(n)[n - 1]]
    <3> DEFINE f == A(n)
    <3>1. Upto(n, f)
      BY <1>5
    <3> HIDE DEF f
    <3>2. n \in 1 .. n
      BY <1>8
    <3>3. f[n] = F[n][f[n - 1]]
      BY <3>1, <3>2
    <3> QED
      BY <3>3 DEF f
  <2>3. Upto(n, A(n)) /\ Upto(n - 1, A(n - 1))
    BY <1>5, <2>1
  <2> HIDE DEF Upto, A
  <2>4. A(n)[n - 1] = A(n - 1)[n - 1]
    BY <1>4, <2>1, <2>3
  <2> QED
    BY <2>2, <2>4
<1> HIDE DEF A, Upto
<1>9. seq \in [Nat -> D] /\ seq[0] = r
  BY <1>6, <1>7
<1>10. ASSUME NEW i \in Nat PROVE seq[i + 1] = F[i + 1][seq[i]]
  <2>1. i + 1 \in Nat /\ i + 1 # 0 /\ (i + 1) - 1 = i
    OBVIOUS
  <2>2. A(i + 1)[i + 1] = F[i + 1][A(i)[i]]
    BY <1>8, <2>1
  <2> QED
    BY <2>1, <2>2
<1> HIDE DEF seq
<1>11. Follows(seq, D, r, F)
  BY <1>9, <1>10 DEF Follows
<1> QED
  BY <1>11

--------------------------------------------------------------------------------
(* Numbers. *)

\* What division by d gives; the same facts follow below in the forms that steps need.
LEMMA DivMod ==
    ASSUME NEW a \in Nat, NEW d \in Nat \ {0}
    PROVE  /\ a = d * (a \div d) + (a % d) /\ a % d \in Nat /\ a % d < d /\ a \div d \in Nat
           /\ a % d = 0 => a = d * (a \div d)
  OBVIOUS

\* Quotient and remainder are the only ones.
LEMMA DivUnique ==
    ASSUME NEW q \in Nat, NEW r \in Nat, NEW d \in Nat \ {0}, r < d
    PROVE  (d * q + r) \div d = q /\ (d * q + r) % d = r
  OBVIOUS

\* Division keeps the order.
LEMMA DivMono ==
    ASSUME NEW a \in Nat, NEW b \in Nat, NEW d \in Nat \ {0}, a <= b
    PROVE  a \div d <= b \div d
<1>1. a = d * (a \div d) + (a % d) /\ b = d * (b \div d) + (b % d) /\ a % d \in Nat
      /\ b % d < d /\ a \div d \in Nat /\ b \div d \in Nat /\ b % d \in Nat
  BY DivMod
<1> DEFINE p == a \div d
           q == b \div d
<1>2. p \in Nat /\ q \in Nat
  BY <1>1
<1>3. d * p < d * q + d
  BY <1>1
<1> HIDE DEF p, q
<1>4. ASSUME q < p PROVE FALSE
  <2>1. q + 1 <= p
    BY <1>2, <1>4
  <2>2. d * (q + 1) <= d * p
    BY <1>2, <2>1
  <2> QED
    BY <1>2, <1>3, <2>2
<1> QED
  BY <1>2, <1>4 DEF p, q

\* Adding within a block of d, and from the beginning of one.
LEMMA DivAdd ==
    ASSUME NEW a \in Nat, NEW i \in Nat, NEW d \in Nat \ {0}
    PROVE  /\ (a % d) + i < d => (a + i) \div d = a \div d /\ (a + i) % d = (a % d) + i
           /\ a % d = 0 => (a + i) \div d = (a \div d) + (i \div d) /\ (a + i) % d = i % d
<1>1. a = d * (a \div d) + (a % d) /\ i = d * (i \div d) + (i % d)
      /\ a \div d \in Nat /\ i \div d \in Nat /\ a % d \in Nat /\ i % d \in Nat /\ i % d < d
  BY DivMod
<1> DEFINE q == a \div d
           r == a % d
           s == i \div d
           t == i % d
<1>2. q \in Nat /\ r \in Nat /\ s \in Nat /\ t \in Nat /\ a = d * q + r /\ i = d * s + t /\ t < d
  BY <1>1
<1> HIDE DEF q, r, s, t
<1>3. ASSUME r + i < d PROVE (a + i) \div d = q /\ (a + i) % d = r + i
  <2>1. a + i = d * q + (r + i) /\ r + i \in Nat
    BY <1>2
  <2> QED
    BY <1>2, <1>3, <2>1, DivUnique
<1>4. ASSUME r = 0 PROVE (a + i) \div d = q + s /\ (a + i) % d = t
  <2>1. a + i = d * (q + s) + t /\ q + s \in Nat
    BY <1>2, <1>4
  <2> QED
    BY <1>2, <2>1, DivUnique
<1> QED
  BY <1>3, <1>4 DEF q, r, s, t

\* Adding within a block of d.
LEMMA DivWithin ==
    ASSUME NEW a \in Nat, NEW i \in Nat, NEW d \in Nat \ {0}, (a % d) + i < d
    PROVE  (a + i) \div d = a \div d /\ (a + i) % d = (a % d) + i
  BY DivAdd

\* A division in two steps.
LEMMA DivDiv ==
    ASSUME NEW a \in Nat, NEW d \in Nat \ {0}, NEW e \in Nat \ {0}
    PROVE  /\ (a \div d) \div e = a \div (e * d) /\ a \div (e * d) \in Nat /\ e * d \in Nat \ {0}
           /\ a % (e * d) = d * ((a \div d) % e) + (a % d)
<1> DEFINE s == a \div d
           r == a % d
           q == s \div e
           t == s % e
<1>1. a = d * s + r /\ s \in Nat /\ r \in Nat /\ r < d
  BY DivMod
<1>2. s = e * q + t /\ q \in Nat /\ t \in Nat /\ t < e
  <2> HIDE DEF s
  <2> QED
    BY <1>1, DivMod
<1> HIDE DEF s, r, q, t
<1>3. d * s = d * (e * q) + d * t
  BY <1>1, <1>2
<1>4. d * (e * q) = (e * d) * q
  BY <1>2
<1>5. d * t + r \in Nat /\ d * t + r < e * d
  <2>1. t + 1 <= e
    BY <1>2
  <2>2. d * (t + 1) <= d * e
    BY <1>2, <2>1
  <2> QED
    BY <1>1, <1>2, <2>2
<1>6. e * d \in Nat \ {0}
  OBVIOUS
<1> DEFINE m == e * d
           k == d * t + r
<1>7. a = m * q + k
  BY <1>1, <1>2, <1>3, <1>4
<1>8. m \in Nat \ {0} /\ k \in Nat /\ k < m
  BY <1>5, <1>6
<1> HIDE DEF m, k
<1>9. a \div m = q /\ a % m = k
  BY <1>2, <1>7, <1>8, DivUnique
<1> QED
  BY <1>2, <1>6, <1>9 DEF m, k, q, t, s, r

\* One less.
LEMMA DivPred ==
    ASSUME NEW a \in Nat, a > 0, NEW d \in Nat \ {0}
    PROVE  (a - 1) \div d = IF a % d = 0 THEN (a \div d) - 1 ELSE a \div d
<1> DEFINE q == a \div d
           r == a % d
<1>1. a = d * q + r /\ q \in Nat /\ r \in Nat /\ r < d
  BY DivMod
<1> HIDE DEF q, r
<1>2. CASE r = 0
  <2>1. q # 0 /\ q - 1 \in Nat
    BY <1>1, <1>2
  <2>2. a - 1 = d * (q - 1) + (d - 1) /\ d - 1 \in Nat /\ d - 1 < d
    <3>1. d * (q - 1) = d * q - d
      BY <1>1
    <3> QED
      BY <1>1, <1>2, <3>1
  <2>3. (a - 1) \div d = q - 1
    <3> DEFINE p == q - 1
               k == d - 1
    <3>1. a - 1 = d * p + k /\ p \in Nat /\ k \in Nat /\ k < d
      BY <2>1, <2>2
    <3> HIDE DEF p, k
    <3>2. (a - 1) \div d = p
      BY <3>1, DivUnique
    <3> QED
      BY <3>2 DEF p
  <2> QED
    BY <1>2, <2>3 DEF q, r
<1>3. CASE r # 0
  <2>1. a - 1 = d * q + (r - 1) /\ r - 1 \in Nat /\ r - 1 < d
    BY <1>1, <1>3
  <2>2. (a - 1) \div d = q
    BY <1>1, <2>1, DivUnique
  <2> QED
    BY <1>3, <2>2 DEF q, r
<1> QED
  BY <1>2, <1>3

--------------------------------------------------------------------------------
(* Chains of clusters. *)

\* A volume as mount_volume accepts it.
Sound(cd, v) ==
    /\ v.csize \in Nat \ {0} /\ v.database \in Nat \ {0}
    /\ v.n_fatent \in Nat /\ v.n_rootdir \in Nat /\ v.fatbase \in Nat /\ v.dirbase \in Nat
    /\ v.n_rootdir % SZ = 0 /\ (v.fat32 <=> v.n_rootdir = 0)
    /\ \A k \in 2 .. v.n_fatent - 1 : FatEntry(cd[FatSector(v, k)], k) \in Nat

\* What follows a cluster is a number, and which numbers are clusters.
LEMMA Cluster ==
    ASSUME NEW cd, NEW v, Sound(cd, v), NEW o \in Nat
    PROVE  /\ clst2sect(v, o) \in Nat /\ (clst2sect(v, o) # 0 <=> o >= 2 /\ o < v.n_fatent)
           /\ After(cd, v, o) \in Nat
<1>1. v.csize \in Nat \ {0} /\ v.database \in Nat \ {0} /\ v.n_fatent \in Nat
  BY DEF Sound
<1>2. CASE o - 2 \in 0 .. v.n_fatent - 3
  <2>1. v.csize * (o - 2) \in Nat
    BY <1>1, <1>2
  <2>2. clst2sect(v, o) = v.database + v.csize * (o - 2)
    BY <1>2 DEF clst2sect
  <2>3. o \in 2 .. v.n_fatent - 1
    BY <1>1, <1>2
  <2>4. FatEntry(cd[FatSector(v, o)], o) \in Nat
    BY <2>3 DEF Sound
  <2>5. clst2sect(v, o) \in Nat /\ clst2sect(v, o) # 0
    BY <1>1, <2>1, <2>2
  <2> QED
    BY <1>1, <2>3, <2>4, <2>5 DEF After
<1>3. CASE o - 2 \notin 0 .. v.n_fatent - 3
  <2>1. clst2sect(v, o) = 0
    BY <1>3 DEF clst2sect
  <2> QED
    BY <1>1, <1>3, <2>1 DEF After
<1> QED
  BY <1>2, <1>3

\* The chain of a first cluster, step by step.
LEMMA ChainIs ==
    ASSUME NEW cd, NEW v, Sound(cd, v), NEW c \in Nat
    PROVE  /\ Chain(cd, v, c)[0] = c
           /\ \A i \in Nat : /\ Chain(cd, v, c)[i] \in Nat
                             /\ Chain(cd, v, c)[i + 1] = After(cd, v, Chain(cd, v, c)[i])
<1> DEFINE F == [i \in Nat |-> [o \in Nat |-> After(cd, v, o)]]
<1>1. Stepper(F, Nat)
  BY Cluster DEF Stepper
<1> HIDE DEF F
<1>2. PICK w : Follows(w, Nat, c, F)
  BY <1>1, Recursion
<1>21. w \in [Nat -> Nat] /\ w[0] = c /\ \A i \in Nat : w[i + 1] = F[i + 1][w[i]]
  BY <1>2 DEF Follows
<1>3. w = [i \in Nat |-> IF i = 0 THEN c ELSE After(cd, v, w[i - 1])]
  <2>1. ASSUME NEW i \in Nat, i # 0 PROVE w[i] = After(cd, v, w[i - 1])
    <3>1. i - 1 \in Nat /\ (i - 1) + 1 = i
      BY <2>1
    <3>2. w[i] = F[i][w[i - 1]] /\ w[i - 1] \in Nat
      BY <1>21, <3>1
    <3> QED
      BY <3>2 DEF F
  <2> QED
    BY <1>21, <2>1
<1> DEFINE Is(x) == x = [i \in Nat |-> IF i = 0 THEN c ELSE After(cd, v, x[i - 1])]
<1>4. Chain(cd, v, c) = CHOOSE x : Is(x)
  BY DEF Chain
<1>5. Is(w)
  BY <1>3
<1> HIDE DEF Is
<1>6. Is(Chain(cd, v, c))
  BY <1>4, <1>5
<1> DEFINE x == Chain(cd, v, c)
<1> HIDE DEF x
<1>7. x = [i \in Nat |-> IF i = 0 THEN c ELSE After(cd, v, x[i - 1])]
  BY <1>6 DEF Is, x
<1>8. x[0] = c /\ \A i \in Nat : x[i + 1] = After(cd, v, x[i])
  <2>1. \A i \in Nat : x[i + 1] = After(cd, v, x[(i + 1) - 1]) /\ (i + 1) - 1 = i
    BY <1>7
  <2> QED
    BY <1>7, <2>1
<1>9. \A i \in Nat : x[i] \in Nat
  <2> DEFINE T == {i \in Nat : x[i] \in Nat}
  <2>1. 0 \in T
    BY <1>8
  <2>2. ASSUME NEW i \in Nat, i \in T PROVE i + 1 \in T
    <3>1. x[i] \in Nat /\ x[i + 1] = After(cd, v, x[i])
      BY <1>8, <2>2
    <3>2. x[i + 1] \in Nat
      BY <3>1, Cluster
    <3> QED
      BY <3>2
  <2> HIDE DEF T
  <2>3. \A i \in Nat : i \in T
    BY <2>1, <2>2, Climb
  <2> QED
    BY <2>3 DEF T
<1> QED
  BY <1>8, <1>9 DEF x

\* Behind a number that is no cluster there is none.
LEMMA ChainEnds ==
    ASSUME NEW cd, NEW v, Sound(cd, v), NEW c \in Nat, NEW i \in Nat, NEW j \in Nat, i <= j,
           clst2sect(v, Chain(cd, v, c)[j]) # 0
    PROVE  clst2sect(v, Chain(cd, v, c)[i]) # 0
<1> DEFINE x == Chain(cd, v, c)
<1>1. \A k \in Nat : x[k] \in Nat /\ x[k + 1] = After(cd, v, x[k])
  BY ChainIs
<1> HIDE DEF x
<1> DEFINE T == {k \in Nat : clst2sect(v, x[i]) = 0 => clst2sect(v, x[i + k]) = 0}
<1>2. 0 \in T
  OBVIOUS
<1>3. ASSUME NEW k \in Nat, k \in T PROVE k + 1 \in T
  <2>1. SUFFICES ASSUME clst2sect(v, x[i]) = 0 PROVE clst2sect(v, x[i + (k + 1)]) = 0
    OBVIOUS
  <2>2. clst2sect(v, x[i + k]) = 0 /\ i + k \in Nat
    BY <1>3, <2>1
  <2>3. x[(i + k) + 1] = 0
    BY <1>1, <2>2 DEF After
  <2>4. clst2sect(v, 0) = 0
    BY Cluster
  <2> QED
    BY <2>3, <2>4
<1> HIDE DEF T
<1>4. j - i \in T
  <2>1. \A k \in Nat : k \in T
    BY <1>2, <1>3, Climb
  <2> QED
    BY <2>1
<1>5. i + (j - i) = j
  OBVIOUS
<1> QED
  BY <1>4, <1>5 DEF T, x

\* Which sector holds unit p of a chain.
LEMMA SectorIs ==
    ASSUME NEW cd, NEW v, Sound(cd, v), NEW c \in Nat, NEW per \in Nat \ {0}, NEW p \in Nat
    PROVE  LET k == Chain(cd, v, c)[p \div (v.csize * per)]
           IN  /\ k \in Nat
               /\ SectorAt(cd, v, c, p, per) = IF clst2sect(v, k) = 0 THEN 0
                                               ELSE clst2sect(v, k) + ((p \div per) % v.csize)
               /\ SectorAt(cd, v, c, p, per) \in Nat
               /\ SectorAt(cd, v, c, p, per) # 0 <=> clst2sect(v, k) # 0
<1>1. v.csize \in Nat \ {0}
  BY DEF Sound
<1>2. (p \div per) \div v.csize = p \div (v.csize * per) /\ p \div (v.csize * per) \in Nat
  BY <1>1, DivDiv
<1> DEFINE k == Chain(cd, v, c)[p \div (v.csize * per)]
           r == (p \div per) % v.csize
<1>3. k \in Nat /\ r \in Nat
  <2>1. p \div per \in Nat
    BY DivMod
  <2>2. r \in Nat
    BY <1>1, <2>1, DivMod
  <2> QED
    BY <1>2, <2>2, ChainIs
<1>4. SectorAt(cd, v, c, p, per) = IF clst2sect(v, k) = 0 THEN 0 ELSE clst2sect(v, k) + r
  BY <1>2 DEF SectorAt
<1> HIDE DEF k, r
<1>5. clst2sect(v, k) \in Nat
  BY <1>3, Cluster
<1>6. SectorAt(cd, v, c, p, per) \in Nat /\ (SectorAt(cd, v, c, p, per) # 0 <=> clst2sect(v, k) # 0)
  BY <1>3, <1>4, <1>5
<1> QED
  BY <1>3, <1>4, <1>6 DEF k, r

\* A chain that reaches a unit has reached all before it.
LEMMA HeldBefore ==
    ASSUME NEW cd, NEW v, Sound(cd, v), NEW c \in Nat, NEW per \in Nat \ {0}, NEW p \in Nat,
           NEW q \in Nat, q <= p, SectorAt(cd, v, c, p, per) # 0
    PROVE  SectorAt(cd, v, c, q, per) # 0
<1>1. v.csize * per \in Nat \ {0}
  BY DEF Sound
<1> DEFINE m == v.csize * per
           i == q \div m
           j == p \div m
<1>2. i \in Nat /\ j \in Nat /\ i <= j
  <2> HIDE DEF m
  <2> QED
    BY <1>1, DivMod, DivMono DEF m
<1>3. clst2sect(v, Chain(cd, v, c)[j]) # 0
  BY SectorIs
<1> HIDE DEF i, j
<1>4. clst2sect(v, Chain(cd, v, c)[i]) # 0
  BY <1>2, <1>3, ChainEnds
<1> QED
  BY <1>4, SectorIs DEF i

--------------------------------------------------------------------------------
(* Files. *)

\* The byte at position p.
ByteAt(cd, v, c, p) == cd[SectorAt(cd, v, c, p, SS)][(p % SS) + 1]

\* A file is the bytes that its chain reaches, in order.
LEMMA FileIs ==
    ASSUME NEW cd, NEW v, Sound(cd, v), NEW c \in Nat, NEW size \in Nat
    PROVE  LET f == FileAt(cd, v, c, size)
           IN  /\ f.size = size /\ Len(f.data) \in 0 .. size
               /\ \A p \in 0 .. size - 1 : SectorAt(cd, v, c, p, SS) # 0 <=> p < Len(f.data)
               /\ f.data = [p \in 1 .. Len(f.data) |-> ByteAt(cd, v, c, p - 1)]
<1> DEFINE Held == {p \in 0 .. size - 1 : SectorAt(cd, v, c, p, SS) # 0}
           T == {p \in Nat : p \notin Held}
<1>1. SS \in Nat \ {0}
  BY FatVolumeAssumption
<1>2. size \in T
  OBVIOUS
<1>3. PICK m \in T : \A n \in T : ~ (n < m)
  <2> HIDE DEF T
  <2>1. T \subseteq Nat
    BY DEF T
  <2> QED
    BY <1>2, <2>1, LeastNumber
<1>4. m \in Nat /\ m <= size
  BY <1>2, <1>3
<1>5. \A p \in 0 .. size - 1 : SectorAt(cd, v, c, p, SS) # 0 <=> p < m
  <2>1. ASSUME NEW p \in 0 .. size - 1, p < m PROVE SectorAt(cd, v, c, p, SS) # 0
    BY <1>3, <2>1
  <2>2. ASSUME NEW p \in 0 .. size - 1, ~ (p < m) PROVE SectorAt(cd, v, c, p, SS) = 0
    <3>1. m <= p /\ m \in 0 .. size - 1
      BY <1>4, <2>2
    <3>2. SectorAt(cd, v, c, m, SS) = 0
      BY <1>3, <3>1
    <3> QED
      BY <1>1, <1>4, <3>1, <3>2, HeldBefore
  <2> QED
    BY <2>1, <2>2
<1>6. Held = 0 .. m - 1
  BY <1>4, <1>5
<1>7. Cardinality(Held) = m
  <2>1. Cardinality(0 .. m - 1) = IF 0 > m - 1 THEN 0 ELSE (m - 1) - 0 + 1
    BY <1>4, FS_Interval
  <2> HIDE DEF Held, T
  <2>2. Cardinality(Held) = IF 0 > m - 1 THEN 0 ELSE (m - 1) - 0 + 1
    BY <1>6, <2>1
  <2> QED
    BY <1>4, <2>2
<1> DEFINE d == [p \in 1 .. m |-> ByteAt(cd, v, c, p - 1)]
<1>8. FileAt(cd, v, c, size) = [size |-> size, data |-> d]
  BY <1>7 DEF FileAt, ByteAt
<1>9. Len(d) = m
  BY <1>4
<1> HIDE DEF d, Held, T
<1>10. FileAt(cd, v, c, size).data = d /\ FileAt(cd, v, c, size).size = size
  BY <1>8
<1> QED
  BY <1>4, <1>5, <1>9, <1>10 DEF d

Bytes(cd, v, c, p, q) == [i \in 1 .. (q - p) |-> ByteAt(cd, v, c, p + i - 1)]

\* No bytes.
LEMMA BytesNone == ASSUME NEW cd, NEW v, NEW c, NEW p \in Nat PROVE Bytes(cd, v, c, p, p) = <<>>
  BY DEF Bytes

\* Two runs of bytes next to each other are one.
LEMMA BytesJoin ==
    ASSUME NEW cd, NEW v, NEW c, NEW p \in Nat, NEW q \in Nat, NEW r \in Nat, p <= q, q <= r
    PROVE  /\ Bytes(cd, v, c, p, q) \o Bytes(cd, v, c, q, r) = Bytes(cd, v, c, p, r)
           /\ Len(Bytes(cd, v, c, q, r)) = r - q
<1> DEFINE B(k) == ByteAt(cd, v, c, k)
           s == [i \in 1 .. (q - p) |-> B(p + i - 1)]
           t == [i \in 1 .. (r - q) |-> B(q + i - 1)]
           u == [i \in 1 .. (r - p) |-> B(p + i - 1)]
           D == {B(k) : k \in Nat}
<1>1. s \in Seq(D) /\ t \in Seq(D) /\ u \in Seq(D) /\ Len(s) = q - p /\ Len(t) = r - q /\ Len(u) = r - p
  <2> HIDE DEF B
  <2>1. \A x \in Nat, n \in Nat : [i \in 1 .. n |-> B(x + i - 1)] \in Seq(D)
                                  /\ Len([i \in 1 .. n |-> B(x + i - 1)]) = n
    OBVIOUS
  <2> QED
    BY <2>1
<1> HIDE DEF B
<1>2. \A i \in 1 .. (r - p) : u[i] = IF i <= q - p THEN s[i] ELSE t[i - (q - p)]
  <2> TAKE i \in 1 .. (r - p)
  <2>1. CASE i <= q - p
    BY <2>1
  <2>2. CASE ~ (i <= q - p)
    <3>1. i - (q - p) \in 1 .. (r - q) /\ q + (i - (q - p)) - 1 = p + i - 1
      BY <2>2
    <3> QED
      BY <2>2, <3>1
  <2> QED
    BY <2>1, <2>2
<1>3. (q - p) + (r - q) = r - p
  OBVIOUS
<1> HIDE DEF s, t, u, D
<1>4. s \o t = u
  <2>1. /\ s \o t \in Seq(D) /\ Len(s \o t) = Len(s) + Len(t)
        /\ \A i \in 1 .. Len(s) + Len(t) : (s \o t)[i] = IF i <= Len(s) THEN s[i] ELSE t[i - Len(s)]
    BY <1>1, ConcatProperties
  <2> DEFINE w == s \o t
  <2>2. w \in Seq(D) /\ Len(w) = Len(u) /\ \A i \in 1 .. Len(w) : w[i] = u[i]
    BY <1>1, <1>2, <1>3, <2>1
  <2> HIDE DEF w
  <2>3. w = u
    BY <1>1, <2>2, SeqEqual
  <2> QED
    BY <2>3 DEF w
<1>5. Bytes(cd, v, c, p, q) = s /\ Bytes(cd, v, c, q, r) = t /\ Bytes(cd, v, c, p, r) = u
  BY DEF Bytes, B, s, t, u
<1> QED
  BY <1>1, <1>4, <1>5

\* What a read may answer.
FilePart(cd, v, c, size, p, q) ==
    /\ q <= Len(FileAt(cd, v, c, size).data) \/ q = p
    /\ SubSeq(FileAt(cd, v, c, size).data, p + 1, q) = Bytes(cd, v, c, p, q)

\* A run of bytes that the chain reaches is that part of the file.
LEMMA BytesOfFile ==
    ASSUME NEW cd, NEW v, Sound(cd, v), NEW c \in Nat, NEW size \in Nat, NEW p \in Nat, NEW q \in Nat,
           p <= q, q <= size, p = q \/ SectorAt(cd, v, c, q - 1, SS) # 0
    PROVE  FilePart(cd, v, c, size, p, q)
<1> DEFINE f == FileAt(cd, v, c, size)
           d == f.data
<1>1. /\ Len(d) \in 0 .. size
      /\ \A k \in 0 .. size - 1 : SectorAt(cd, v, c, k, SS) # 0 <=> k < Len(d)
      /\ d = [k \in 1 .. Len(d) |-> ByteAt(cd, v, c, k - 1)]
  BY FileIs
<1> HIDE DEF d
<1>2. CASE p = q
  <2>1. SubSeq(d, p + 1, q) = <<>>
    BY <1>2
  <2> QED
    BY <1>2, <2>1, BytesNone DEF d, FilePart
<1>3. CASE p # q
  <2>1. q - 1 \in 0 .. size - 1 /\ q - 1 < Len(d)
    BY <1>1, <1>3
  <2>2. q <= Len(d)
    BY <1>1, <2>1
  <2>3. SubSeq(d, p + 1, q) = [i \in 1 .. (q - p) |-> d[p + i]]
    BY <1>1, <2>2
  <2>4. \A i \in 1 .. (q - p) : d[p + i] = ByteAt(cd, v, c, p + i - 1)
    BY <1>1, <2>2
  <2> QED
    BY <2>2, <2>3, <2>4 DEF Bytes, d, FilePart
<1> QED
  BY <1>2, <1>3

\* Where the chain has ended, the file is damaged.
LEMMA FileDamaged ==
    ASSUME NEW cd, NEW v, Sound(cd, v), NEW c \in Nat, NEW size \in Nat, NEW p \in Nat, p < size,
           SectorAt(cd, v, c, p, SS) = 0
    PROVE  Len(FileAt(cd, v, c, size).data) < FileAt(cd, v, c, size).size
<1> DEFINE n == Len(FileAt(cd, v, c, size).data)
<1>1. FileAt(cd, v, c, size).size = size /\ n \in 0 .. size
      /\ \A k \in 0 .. size - 1 : SectorAt(cd, v, c, k, SS) # 0 <=> k < n
  BY FileIs
<1> HIDE DEF n
<1> QED
  BY <1>1 DEF n

--------------------------------------------------------------------------------
(* Positions: in a sector, in a cluster. *)

\* In which cluster of its chain a byte is.
LEMMA ClusterOf ==
    ASSUME NEW cd, NEW v, Sound(cd, v)
    PROVE  \A p \in Nat : (p \div SS) \div v.csize = p \div (v.csize * SS) /\ p \div (v.csize * SS) \in Nat
<1> DEFINE n == v.csize
<1>1. SS \in Nat \ {0} /\ n \in Nat \ {0}
  BY FatVolumeAssumption DEF Sound
<1> HIDE DEF n
<1>2. \A p \in Nat : (p \div SS) \div n = p \div (n * SS) /\ p \div (n * SS) \in Nat
  BY <1>1, DivDiv
<1> QED
  BY <1>2 DEF n

\* In the middle of a sector.
LEMMA InSector ==
    ASSUME NEW cd, NEW v, Sound(cd, v), NEW c \in Nat, NEW p \in Nat, NEW j \in Nat, (p % SS) + j < SS
    PROVE  /\ SectorAt(cd, v, c, p + j, SS) = SectorAt(cd, v, c, p, SS)
           /\ (p + j) % SS = (p % SS) + j
           /\ (p + j) \div (v.csize * SS) = p \div (v.csize * SS)
<1>1. SS \in Nat \ {0} /\ v.csize \in Nat \ {0}
  BY FatVolumeAssumption DEF Sound
<1>2. (p + j) \div SS = p \div SS /\ (p + j) % SS = (p % SS) + j
  BY <1>1, DivWithin
<1>3. p + j \in Nat
  OBVIOUS
<1>4. /\ (p \div SS) \div v.csize = p \div (v.csize * SS)
      /\ ((p + j) \div SS) \div v.csize = (p + j) \div (v.csize * SS)
  BY <1>3, ClusterOf
<1> QED
  BY <1>2, <1>4 DEF SectorAt

\* From the beginning of a sector.
LEMMA InCluster1 ==
    ASSUME NEW cd, NEW v, Sound(cd, v), NEW c \in Nat, NEW p \in Nat, p % SS = 0, NEW j \in Nat,
           ((p \div SS) % v.csize) + (j \div SS) < v.csize
    PROVE  LET first == clst2sect(v, Chain(cd, v, c)[p \div (v.csize * SS)])
           IN  /\ first # 0 => SectorAt(cd, v, c, p + j, SS) = first + ((p \div SS) % v.csize) + (j \div SS)
               /\ first = 0 => SectorAt(cd, v, c, p + j, SS) = 0
               /\ (p + j) % SS = j % SS
               /\ (p + j) \div (v.csize * SS) = p \div (v.csize * SS)
<1> DEFINE n == v.csize
           s == p \div SS
           k == j \div SS
<1>1. SS \in Nat \ {0} /\ n \in Nat \ {0}
  BY FatVolumeAssumption DEF Sound
<1>2. (p + j) \div SS = s + k /\ (p + j) % SS = j % SS
  <2>1. /\ (p % SS) + j < SS => (p + j) \div SS = p \div SS /\ (p + j) % SS = (p % SS) + j
        /\ p % SS = 0 => (p + j) \div SS = (p \div SS) + (j \div SS) /\ (p + j) % SS = j % SS
    BY ONLY <1>1, p \in Nat, j \in Nat, DivAdd
  <2> QED
    BY <2>1
<1>3. s \in Nat /\ k \in Nat
  BY <1>1, DivMod
<1>4. (s % n) + k < n
  OBVIOUS
<1>5. p + j \in Nat
  OBVIOUS
<1>6. s \div n = p \div (n * SS) /\ ((p + j) \div SS) \div n = (p + j) \div (n * SS)
  BY <1>5, ClusterOf
<1> HIDE DEF n, s, k
<1>7. (s + k) \div n = s \div n /\ (s + k) % n = (s % n) + k
  BY ONLY <1>1, <1>3, <1>4, DivWithin
<1>8. (p + j) \div (n * SS) = p \div (n * SS)
  BY <1>2, <1>6, <1>7
<1> DEFINE o == Chain(cd, v, c)[p \div (n * SS)]
<1>9. SectorAt(cd, v, c, p + j, SS) = IF clst2sect(v, o) = 0 THEN 0 ELSE clst2sect(v, o) + ((s % n) + k)
  BY <1>2, <1>6, <1>7 DEF SectorAt, n
<1>10. o \in Nat
  <2>1. p \div (n * SS) \in Nat
    BY <1>1, DivDiv
  <2> QED
    BY <2>1, ChainIs
<1>11. clst2sect(v, o) \in Nat /\ s % n \in Nat
  BY <1>1, <1>3, <1>10, Cluster, DivMod
<1> HIDE DEF o
<1>12. clst2sect(v, o) + ((s % n) + k) = clst2sect(v, o) + (s % n) + k
  BY <1>3, <1>11
<1> QED
  BY <1>2, <1>8, <1>9, <1>12 DEF o, n, s, k

\* The cluster before a position: the same one, but at the beginning of a cluster.
LEMMA ClusterBefore ==
    ASSUME NEW cd, NEW v, Sound(cd, v), NEW p \in Nat, p > 0
    PROVE  LET b == v.csize * SS IN
           /\ (p - 1) \div b \in Nat /\ p \div b \in Nat
           /\ IF p % SS = 0 /\ (p \div SS) % v.csize = 0
              THEN p % b = 0 /\ (p - 1) \div b = (p \div b) - 1 ELSE p % b # 0 /\ (p - 1) \div b = p \div b
<1> DEFINE n == v.csize
           b == n * SS
<1>1. SS \in Nat \ {0} /\ n \in Nat \ {0}
  BY FatVolumeAssumption DEF Sound
<1>2. b \in Nat \ {0} /\ p % b = SS * ((p \div SS) % n) + (p % SS)
  BY <1>1, DivDiv
<1> DEFINE t == (p \div SS) % n
           r == p % SS
<1>3. t \in Nat /\ r \in Nat
  BY <1>1, DivMod
<1> HIDE DEF b, t, r, n
<1>4. p % b = 0 <=> r = 0 /\ t = 0
  <2>1. p % b = SS * t + r
    BY <1>2 DEF t, r
  <2>2. SS * t \in Nat /\ (t # 0 => SS * t # 0)
    BY <1>1, <1>3
  <2>3. t = 0 => SS * t = 0
    BY <1>1
  <2> HIDE DEF r
  <2> QED
    BY <1>3, <2>1, <2>2, <2>3
<1>5. (p - 1) \div b = IF p % b = 0 THEN (p \div b) - 1 ELSE p \div b
  BY <1>2, DivPred
<1>6. p - 1 \in Nat
  OBVIOUS
<1>7. (p - 1) \div b \in Nat /\ p \div b \in Nat
  BY <1>2, <1>6, DivMod
<1> QED
  BY <1>4, <1>5, <1>7 DEF b, n, t, r

\* The volumes of the cards are sound: VolumeAssumption.
LEMMA SoundVolume ==
    ASSUME NEW c \in Cards \ {None}, NEW v \in Volumes(Image[c])
    PROVE  Sound(Image[c], v)
  BY VolumeAssumption DEF Sound

--------------------------------------------------------------------------------
(* Directories. *)

\* A directory is its entries up to the first place where it ends.
LEMMA DirIs ==
    ASSUME NEW cd, NEW v, NEW c
    PROVE  LET n == DirLen(cd, v, c)
           IN  /\ n \in Nat /\ n <= MAX_DIR /\ Ends(cd, v, c, n)
               /\ \A q \in 0 .. n - 1 : ~Ends(cd, v, c, q)
               /\ DOMAIN DirAt(cd, v, c) = 1 .. n /\ Len(DirAt(cd, v, c)) = n
               /\ \A i \in 1 .. n : DirAt(cd, v, c)[i] = DirEntry(cd, v, c, i - 1)
<1> DEFINE T == {p \in Nat : Ends(cd, v, c, p)}
           First(p) == Ends(cd, v, c, p) /\ \A q \in 0 .. p - 1 : ~Ends(cd, v, c, q)
<1>1. MAX_DIR \in Nat
  BY FatVolumeAssumption
<1>2. MAX_DIR \in T
  BY <1>1 DEF Ends
<1>3. PICK m \in T : \A n \in T : ~ (n < m)
  <2> HIDE DEF T
  <2>1. T \subseteq Nat
    BY DEF T
  <2> QED
    BY <1>2, <2>1, LeastNumber
<1>4. m \in 0 .. MAX_DIR /\ First(m)
  <2>1. m \in Nat /\ Ends(cd, v, c, m) /\ ~ (MAX_DIR < m)
    BY <1>2, <1>3
  <2>2. ASSUME NEW q \in 0 .. m - 1 PROVE ~Ends(cd, v, c, q)
    BY <1>3, <2>1, <2>2
  <2> QED
    BY <1>1, <2>1, <2>2
<1>5. DirLen(cd, v, c) = CHOOSE p \in 0 .. MAX_DIR : First(p)
  BY DEF DirLen
<1> HIDE DEF First, T
<1>6. DirLen(cd, v, c) \in 0 .. MAX_DIR /\ First(DirLen(cd, v, c))
  BY <1>4, <1>5
<1> DEFINE n == DirLen(cd, v, c)
           E(p) == DirEntry(cd, v, c, p)
<1>7. n \in Nat /\ n <= MAX_DIR
  BY <1>1, <1>6
<1>8. DirAt(cd, v, c) = [p \in 1 .. n |-> E(p - 1)]
  BY DEF DirAt
<1> HIDE DEF n, E
<1>9. /\ DOMAIN DirAt(cd, v, c) = 1 .. n /\ Len(DirAt(cd, v, c)) = n
      /\ \A i \in 1 .. n : DirAt(cd, v, c)[i] = E(i - 1)
  BY <1>7, <1>8
<1> QED
  BY <1>6, <1>7, <1>9 DEF First, n, E

\* The directory goes on behind an entry that does not end it, and has ended at one that does.
LEMMA DirGoesOn ==
    ASSUME NEW cd, NEW v, NEW c, NEW p \in Nat, p <= DirLen(cd, v, c)
    PROVE  /\ p < MAX_DIR /\ DirSector(cd, v, c, p) # 0 /\ DirEntry(cd, v, c, p).t # "end" =>
                 /\ p + 1 <= DirLen(cd, v, c) /\ p + 1 \in DOMAIN DirAt(cd, v, c)
                 /\ DirAt(cd, v, c)[p + 1] = DirEntry(cd, v, c, p)
           /\ p >= MAX_DIR \/ DirSector(cd, v, c, p) = 0 \/ DirEntry(cd, v, c, p).t = "end" =>
                 p = DirLen(cd, v, c)
<1> DEFINE n == DirLen(cd, v, c)
<1>1. /\ n \in Nat /\ n <= MAX_DIR /\ Ends(cd, v, c, n)
      /\ \A q \in 0 .. n - 1 : ~Ends(cd, v, c, q)
      /\ DOMAIN DirAt(cd, v, c) = 1 .. n
      /\ \A i \in 1 .. n : DirAt(cd, v, c)[i] = DirEntry(cd, v, c, i - 1)
  BY DirIs
<1>0. MAX_DIR \in Nat
  BY FatVolumeAssumption
<1> HIDE DEF n
<1>3. p <= n
  BY DEF n
<1>2. Ends(cd, v, c, p) <=> p = n
  <2>1. p # n => p \in 0 .. n - 1
    BY <1>1, <1>3
  <2> QED
    BY <1>1, <2>1
<1>4. p # n => p + 1 \in 1 .. n /\ (p + 1) - 1 = p /\ p + 1 <= n
  BY <1>1, <1>3
<1>5. p >= MAX_DIR => p = MAX_DIR
  BY <1>0, <1>1, <1>3
<1> QED
  BY <1>0, <1>1, <1>2, <1>4, <1>5 DEF Ends, n

--------------------------------------------------------------------------------
(* Names. *)

\* The parts n down to o + 1 of a long name lie right ahead of entry p + 1.
Run(dir, p, o, s, any, name) ==
    \E n \in o + 1 .. o + p : \A k \in 1 .. n - o :
        LET e == dir[p + 1 - k]
        IN  /\ e.t = "lfn" /\ e.ord = o + k /\ e.sum = s /\ (e.last <=> o + k = n)
            /\ any \/ e.name = name

\* A long name has no parts behind an entry that is not one.
LEMMA RunNone ==
    ASSUME NEW dir, NEW p \in Nat, NEW o \in Nat, NEW s, NEW any, NEW name,
           p = 0 \/ dir[p].t # "lfn"
    PROVE  ~Run(dir, p, o, s, any, name)
<1>1. SUFFICES ASSUME Run(dir, p, o, s, any, name) PROVE FALSE
  OBVIOUS
<1>2. PICK n \in o + 1 .. o + p : \A k \in 1 .. n - o : dir[p + 1 - k].t = "lfn"
  BY <1>1 DEF Run
<1>3. p # 0 /\ 1 \in 1 .. n - o /\ p + 1 - 1 = p
  BY <1>2
<1> QED
  BY <1>2, <1>3

\* A part extends a run of parts, or begins one.
LEMMA RunPart ==
    ASSUME NEW dir, NEW p \in Nat, NEW o \in Nat, NEW s, NEW any, NEW name,
           dir[p + 1].t = "lfn"
    PROVE  Run(dir, p + 1, o, s, any, name) <=>
             /\ dir[p + 1].ord = o + 1 /\ dir[p + 1].sum = s /\ (any \/ dir[p + 1].name = name)
             /\ dir[p + 1].last \/ Run(dir, p, o + 1, s, any, name)
<1> DEFINE Part(e, i, n) == /\ e.t = "lfn" /\ e.ord = i /\ e.sum = s /\ (e.last <=> i = n)
                            /\ any \/ e.name = name
           e1 == dir[p + 1]
<1>1. /\ Run(dir, p + 1, o, s, any, name) <=>
             \E n \in o + 1 .. o + (p + 1) : \A k \in 1 .. n - o : Part(dir[(p + 1) + 1 - k], o + k, n)
      /\ Run(dir, p, o + 1, s, any, name) <=>
             \E n \in (o + 1) + 1 .. (o + 1) + p : \A k \in 1 .. n - (o + 1) : Part(dir[p + 1 - k], (o + 1) + k, n)
  BY DEF Run
<1>2. \A n : Part(e1, o + 1, n) <=> /\ e1.ord = o + 1 /\ e1.sum = s /\ (any \/ e1.name = name)
                                     /\ (e1.last <=> o + 1 = n)
  OBVIOUS
<1> HIDE DEF Part, e1
<1>3. (p + 1) + 1 - 1 = p + 1
  OBVIOUS
<1>4. ASSUME NEW n \in o + 1 .. o + (p + 1), \A k \in 1 .. n - o : Part(dir[(p + 1) + 1 - k], o + k, n)
      PROVE  Part(e1, o + 1, n) /\ (n # o + 1 => Run(dir, p, o + 1, s, any, name))
  <2>1. 1 \in 1 .. n - o
    OBVIOUS
  <2>2. Part(e1, o + 1, n)
    BY <1>3, <1>4, <2>1 DEF e1
  <2>3. ASSUME n # o + 1 PROVE Run(dir, p, o + 1, s, any, name)
    <3>1. n \in (o + 1) + 1 .. (o + 1) + p
      BY <2>3
    <3>2. ASSUME NEW k \in 1 .. n - (o + 1) PROVE Part(dir[p + 1 - k], (o + 1) + k, n)
      <4>1. k + 1 \in 1 .. n - o /\ (p + 1) + 1 - (k + 1) = p + 1 - k /\ o + (k + 1) = (o + 1) + k
        OBVIOUS
      <4>2. Part(dir[(p + 1) + 1 - (k + 1)], o + (k + 1), n)
        BY <1>4, <4>1
      <4> QED
        BY <4>1, <4>2
    <3> QED
      BY <1>1, <3>1, <3>2
  <2> QED
    BY <2>2, <2>3
<1>5. ASSUME Part(e1, o + 1, o + 1) PROVE Run(dir, p + 1, o, s, any, name)
  <2>1. o + 1 \in o + 1 .. o + (p + 1) /\ \A k \in 1 .. (o + 1) - o : k = 1
    OBVIOUS
  <2>2. \A k \in 1 .. (o + 1) - o : Part(dir[(p + 1) + 1 - k], o + k, o + 1)
    BY <1>3, <1>5, <2>1 DEF e1
  <2> QED
    BY <1>1, <2>1, <2>2
<1>6. ASSUME ~e1.last, Part(e1, o + 1, o + 1) \/ \A n : n # o + 1 => Part(e1, o + 1, n),
             Run(dir, p, o + 1, s, any, name)
      PROVE  Run(dir, p + 1, o, s, any, name)
  <2>1. PICK n \in (o + 1) + 1 .. (o + 1) + p : \A k \in 1 .. n - (o + 1) : Part(dir[p + 1 - k], (o + 1) + k, n)
    BY <1>1, <1>6
  <2>2. n \in o + 1 .. o + (p + 1) /\ n # o + 1
    OBVIOUS
  <2>3. Part(e1, o + 1, n)
    BY <1>2, <1>6, <2>2
  <2>4. ASSUME NEW k \in 1 .. n - o PROVE Part(dir[(p + 1) + 1 - k], o + k, n)
    <3>1. CASE k = 1
      BY <1>3, <2>3, <3>1 DEF e1
    <3>2. CASE k # 1
      <4>1. k - 1 \in 1 .. n - (o + 1) /\ p + 1 - (k - 1) = (p + 1) + 1 - k /\ (o + 1) + (k - 1) = o + k
        BY <3>2
      <4>2. Part(dir[p + 1 - (k - 1)], (o + 1) + (k - 1), n)
        BY <2>1, <4>1
      <4> QED
        BY <4>1, <4>2
    <3> QED
      BY <3>1, <3>2
  <2> QED
    BY <1>1, <2>2, <2>4
<1>7. ASSUME Run(dir, p + 1, o, s, any, name)
      PROVE  /\ e1.ord = o + 1 /\ e1.sum = s /\ (any \/ e1.name = name)
             /\ e1.last \/ Run(dir, p, o + 1, s, any, name)
  <2>1. PICK n \in o + 1 .. o + (p + 1) : \A k \in 1 .. n - o : Part(dir[(p + 1) + 1 - k], o + k, n)
    BY <1>1, <1>7
  <2>2. Part(e1, o + 1, n) /\ (n # o + 1 => Run(dir, p, o + 1, s, any, name))
    BY <1>4, <2>1
  <2> QED
    BY <1>2, <2>2
<1>8. ASSUME e1.ord = o + 1, e1.sum = s, any \/ e1.name = name, e1.last \/ Run(dir, p, o + 1, s, any, name)
      PROVE  Run(dir, p + 1, o, s, any, name)
  <2>1. CASE e1.last
    BY <1>2, <1>5, <1>8, <2>1
  <2>2. CASE ~e1.last
    <3>1. \A n : n # o + 1 => Part(e1, o + 1, n)
      BY <1>2, <1>8, <2>2
    <3> QED
      BY <1>6, <1>8, <2>2, <3>1
  <2> QED
    BY <2>1, <2>2
<1> QED
  BY <1>7, <1>8 DEF e1

\* An entry has a long name when all of its parts have just been seen.
LEMMA LongIs ==
    ASSUME NEW cd, NEW v, NEW c, NEW i \in DOMAIN DirAt(cd, v, c), NEW name
    PROVE  LET dir == DirAt(cd, v, c)
           IN  /\ i \in Nat /\ i >= 1
               /\ HasThisName(dir, i, name) <=> Run(dir, i - 1, 0, dir[i].short, FALSE, name)
               /\ HasLongName(dir, i) <=> Run(dir, i - 1, 0, dir[i].short, TRUE, name)
<1> DEFINE dir == DirAt(cd, v, c)
           L == DirLen(cd, v, c)
<1>1. L \in Nat /\ DOMAIN dir = 1 .. L
  BY DirIs
<1>2. i \in Nat /\ i >= 1 /\ i <= L
  BY <1>1
<1> HIDE DEF dir, L
<1>3. ASSUME NEW n \in 1 .. i - 1
      PROVE  /\ n - 0 = n
             /\ \A o \in 1 .. n : i - o \in DOMAIN dir /\ (i - 1) + 1 - o = i - o /\ 0 + o = o
  BY <1>1, <1>2
<1>4. 0 + 1 .. 0 + (i - 1) = 1 .. i - 1
  BY <1>2
<1> DEFINE Part(e, o, n) == e.t = "lfn" /\ e.ord = o /\ e.sum = dir[i].short /\ (e.last <=> o = n)
<1>5. \A n \in 1 .. i - 1 : Parts(dir, i, n) <=> \A o \in 1 .. n : Part(dir[i - o], o, n)
  BY <1>3 DEF Parts
<1>6. \A any : Run(dir, i - 1, 0, dir[i].short, any, name) <=>
         \E n \in 1 .. i - 1 : \A o \in 1 .. n : Part(dir[i - o], o, n) /\ (any \/ dir[i - o].name = name)
  <2> TAKE any
  <2> DEFINE Q(e, o, n) == Part(e, o, n) /\ (any \/ e.name = name)
  <2>1. Run(dir, i - 1, 0, dir[i].short, any, name) <=>
         \E n \in 0 + 1 .. 0 + (i - 1) : \A o \in 1 .. n - 0 : Q(dir[(i - 1) + 1 - o], 0 + o, n)
    BY DEF Run
  <2> HIDE DEF Q, Part
  <2>2. (\E n \in 0 + 1 .. 0 + (i - 1) : \A o \in 1 .. n - 0 : Q(dir[(i - 1) + 1 - o], 0 + o, n))
        <=> \E n \in 1 .. i - 1 : \A o \in 1 .. n : Q(dir[i - o], o, n)
    BY <1>3, <1>4
  <2> QED
    BY <2>1, <2>2 DEF Q
<1> HIDE DEF Part
<1>7. HasThisName(dir, i, name) <=>
         \E n \in 1 .. i - 1 : (\A o \in 1 .. n : Part(dir[i - o], o, n)) /\ \A o \in 1 .. n : dir[i - o].name = name
  BY <1>5 DEF HasThisName
<1>8. HasLongName(dir, i) <=> \E n \in 1 .. i - 1 : \A o \in 1 .. n : Part(dir[i - o], o, n)
  BY <1>5 DEF HasLongName
<1> QED
  BY <1>2, <1>6, <1>7, <1>8 DEF dir

\* Which item a name stands for.
LEMMA ItemIs ==
    ASSUME NEW cd, NEW v, NEW c, NEW name
    PROVE  LET dir == DirAt(cd, v, c)
           IN  /\ \A i \in Items(dir) :
                     Names(dir, i, name) /\ (\A j \in Items(dir) : j < i => ~Names(dir, j, name)) =>
                        Item(dir, name) = dir[i]
               /\ (\A i \in Items(dir) : ~Names(dir, i, name)) => Item(dir, name) = None
               /\ Item(dir, name) # None => \E i \in Items(dir) : Item(dir, name) = dir[i]
<1> DEFINE dir == DirAt(cd, v, c)
           S == Items(dir)
           Is(i) == Names(dir, i, name)
           Pick(i) == Is(i) /\ \A j \in S : Is(j) => i <= j
<1>1. S \subseteq Nat
  BY DirIs DEF Items
<1>2. Item(dir, name) = IF \E i \in S : Is(i) THEN dir[CHOOSE i \in S : Pick(i)] ELSE None
  BY DEF Item
<1> HIDE DEF dir, S, Is
<1>3. ASSUME NEW i \in S, Is(i), \A j \in S : j < i => ~Is(j)
      PROVE  (CHOOSE k \in S : Pick(k)) = i
  <2>1. Pick(i)
    BY <1>1, <1>3
  <2>2. ASSUME NEW k \in S, Pick(k) PROVE k = i
    <3>1. k <= i /\ i <= k
      BY <1>3, <2>1, <2>2
    <3> QED
      BY <1>1, <3>1
  <2> HIDE DEF Pick
  <2> QED
    BY <2>1, <2>2
<1>4. ASSUME \E i \in S : Is(i) PROVE (CHOOSE k \in S : Pick(k)) \in S
  <2> DEFINE T == {i \in S : Is(i)}
  <2>1. T \subseteq Nat /\ T # {}
    BY <1>1, <1>4
  <2>2. \E m \in T : \A n \in T : ~ (n < m)
    <3> HIDE DEF T
    <3> QED
      BY <2>1, LeastNumber
  <2>3. PICK m \in T : \A n \in T : ~ (n < m)
    BY <2>2
  <2>4. m \in S /\ Pick(m)
    BY <1>1, <2>1, <2>3
  <2> HIDE DEF Pick
  <2> QED
    BY <2>4
<1> QED
  BY <1>2, <1>3, <1>4 DEF dir, S, Is

--------------------------------------------------------------------------------
(* Listings. *)

Skips(e) == e.t # "sfn" \/ e.short \in Dots
Shown(dir, i) == IF HasLongName(dir, i) THEN dir[i - 1].name ELSE dir[i].short

\* The names that are listed, entry by entry.
LEMMA ListedIs ==
    ASSUME NEW dir
    PROVE  /\ Listed(dir)[0] = <<>>
           /\ \A i \in Nat : Listed(dir)[i + 1] = IF Skips(dir[i + 1]) THEN Listed(dir)[i]
                                                  ELSE Append(Listed(dir)[i], Shown(dir, i + 1))
<1> DEFINE N == {Shown(dir, i) : i \in Nat}
           D == Seq(N)
           One(i, w) == IF Skips(dir[i]) THEN w ELSE Append(w, Shown(dir, i))
           F == [i \in Nat |-> [w \in D |-> One(i, w)]]
<1>1. \A i \in Nat : \A w \in D : One(i, w) \in D
  <2> TAKE i \in Nat
  <2> TAKE w \in D
  <2>1. Shown(dir, i) \in N
    OBVIOUS
  <2> HIDE DEF N
  <2>2. Append(w, Shown(dir, i)) \in D
    BY <2>1
  <2> QED
    BY <2>2
<1>11. <<>> \in D
  OBVIOUS
<1> HIDE DEF One, D
<1>2. Stepper(F, D)
  BY <1>1 DEF Stepper
<1> HIDE DEF F
<1>3. PICK w : Follows(w, D, <<>>, F)
  BY <1>11, <1>2, Recursion
<1>4. w \in [Nat -> D] /\ w[0] = <<>> /\ \A i \in Nat : w[i + 1] = F[i + 1][w[i]]
  BY <1>3 DEF Follows
<1> DEFINE Is(x) == x = [i \in Nat |-> IF i = 0 THEN <<>> ELSE One(i, x[i - 1])]
<1>5. Is(w)
  <2>1. ASSUME NEW i \in Nat, i # 0 PROVE w[i] = One(i, w[i - 1])
    <3>1. i - 1 \in Nat /\ (i - 1) + 1 = i
      BY <2>1
    <3>2. w[i] = F[i][w[i - 1]] /\ w[i - 1] \in D
      BY <1>4, <3>1
    <3> QED
      BY <3>2 DEF F
  <2> QED
    BY <1>4, <2>1
<1>6. Listed(dir) = CHOOSE x : Is(x)
  <2> DEFINE Was(x) == x = [i \in Nat |-> IF i = 0 THEN <<>>
                    ELSE IF dir[i].t # "sfn" \/ dir[i].short \in Dots THEN x[i - 1]
                    ELSE Append(x[i - 1], IF HasLongName(dir, i) THEN dir[i - 1].name ELSE dir[i].short)]
  <2>1. \A x : Was(x) <=> Is(x)
    BY Zenon DEF One, Skips, Shown
  <2>2. Listed(dir) = CHOOSE x : Was(x)
    BY DEF Listed
  <2> HIDE DEF Was, Is
  <2>3. (CHOOSE x : Was(x)) = (CHOOSE x : Is(x))
    BY <2>1
  <2> QED
    BY <2>2, <2>3
<1> HIDE DEF Is
<1>7. Is(Listed(dir))
  BY <1>5, <1>6
<1> DEFINE x == Listed(dir)
<1> HIDE DEF x
<1>8. x = [i \in Nat |-> IF i = 0 THEN <<>> ELSE One(i, x[i - 1])]
  BY <1>7 DEF Is, x
<1>9. x[0] = <<>> /\ \A i \in Nat : x[i + 1] = One(i + 1, x[i])
  <2>1. \A i \in Nat : x[i + 1] = One(i + 1, x[(i + 1) - 1]) /\ (i + 1) - 1 = i
    BY <1>8
  <2> QED
    BY <1>8, <2>1
<1> QED
  BY <1>9 DEF x, One

--------------------------------------------------------------------------------
(* Paths. *)

\* None is none of the records that stand for something.
Apart ==
    /\ \A r, o : [res |-> r, out |-> o] # None
    /\ \A d, p, n : [dir |-> d, path |-> p, pos |-> n] # None
    /\ \A c, v : [card |-> c, g |-> v] # None
    /\ \A c : [clust |-> c] # None
    /\ \A n, d : [size |-> n, data |-> d] # None
    /\ \A d, c, n : [dir |-> d, clust |-> c, size |-> n] # None
    /\ \A c, n, r, t, f, d, p : [csize |-> c, n_fatent |-> n, n_rootdir |-> r, fat32 |-> t,
                                fatbase |-> f, database |-> d, dirbase |-> p] # None

\* The entries of the directories of volume v have the fields of an entry.
Tagged(cd, v) ==
    \A c \in Nat : \A i \in DOMAIN DirAt(cd, v, c) :
        LET e == DirAt(cd, v, c)[i]
        IN  /\ e.t = "sfn" => e # None /\ e.dir \in BOOLEAN /\ e.clust \in Nat /\ e.size \in Nat
            /\ e.t = "lfn" => e.ord \in Nat /\ e.last \in BOOLEAN

\* An item has the fields of an entry.
LEMMA ItemTyped ==
    ASSUME NEW cd, NEW v, Tagged(cd, v), NEW c \in Nat, NEW name, NEW e, e = Item(DirAt(cd, v, c), name), e # None
    PROVE  e.dir \in BOOLEAN /\ e.clust \in Nat /\ e.size \in Nat
<1>1. PICK i \in Items(DirAt(cd, v, c)) : e = DirAt(cd, v, c)[i]
  BY ItemIs
<1>2. i \in DOMAIN DirAt(cd, v, c) /\ e.t = "sfn"
  BY <1>1 DEF Items
<1> QED
  BY <1>1, <1>2 DEF Tagged

\* What a path comes to after some of its names.
Place(e) == e = None \/ (e.dir \in BOOLEAN /\ e.clust \in Nat /\ e.size \in Nat)

\* The entry of a directory as such.
LEMMA DirectoryIs ==
    ASSUME Apart, NEW c, NEW d, d = Directory(c)
    PROVE  d # None /\ d.dir /\ d.dir \in BOOLEAN /\ d.clust = c /\ d.size = 0
<1>1. d = [dir |-> TRUE, clust |-> c, size |-> 0]
  BY DEF Directory
<1>2. d # None
  BY <1>1, Zenon DEF Apart
<1> QED
  BY <1>1, <1>2

\* A path, name by name.
LEMMA WalkIs ==
    ASSUME Apart, NEW cd, NEW v, Tagged(cd, v), NEW cwd \in Nat, NEW path
    PROVE  LET w == Walk(cd, v, cwd, path)
           IN  /\ w[0] # None /\ w[0].dir /\ w[0].clust = cwd
               /\ \A i \in Nat : /\ Place(w[i])
                                 /\ (i > 0 \/ ~Absolute(path)) => w[i + 1] = Enter(cd, v, w[i], path[i + 1])
               /\ Absolute(path) => w[1] # None /\ w[1].dir /\ w[1].clust = 0
<1> DEFINE R == Directory(cwd)
           Top == Directory(0)
           D == {None, R, Top} \cup {Item(DirAt(cd, v, k), path[i]) : k \in Nat, i \in Nat}
           One(i, d) == IF i = 1 /\ Absolute(path) THEN Top ELSE Enter(cd, v, d, path[i])
           F == [i \in Nat |-> [d \in D |-> One(i, d)]]
<1>1. PICK first : first = R
  OBVIOUS
<1>2. R # None /\ R.dir /\ R.dir \in BOOLEAN /\ R.clust = cwd /\ R.size = 0
  <2>1. first # None /\ first.dir /\ first.dir \in BOOLEAN /\ first.clust = cwd /\ first.size = 0
    BY <1>1, DirectoryIs
  <2> HIDE DEF R
  <2> QED
    BY <1>1, <2>1
<1>20. Place(R)
  <2>1. R.clust \in Nat /\ R.size \in Nat
    BY <1>2
  <2> HIDE DEF R
  <2> QED
    BY <1>2, <2>1, Zenon DEF Place
<1>24. PICK z \in Nat : z = 0
  OBVIOUS
<1>21. PICK top : top = Directory(z)
  OBVIOUS
<1>22. Top # None /\ Top.dir /\ Top.dir \in BOOLEAN /\ Top.clust = 0 /\ Top.size = 0
  <2>1. top # None /\ top.dir /\ top.dir \in BOOLEAN /\ top.clust = z /\ top.size = 0
    BY <1>21, DirectoryIs
  <2>2. top = Top
    BY <1>21, <1>24
  <2> HIDE DEF Top
  <2> QED
    BY <1>24, <2>1, <2>2
<1>23. Place(Top)
  <2>1. Top.clust \in Nat /\ Top.size \in Nat
    BY <1>22
  <2> HIDE DEF Top
  <2> QED
    BY <1>22, <2>1, Zenon DEF Place
<1> HIDE DEF R, Top
<1>3. \A d \in D : Place(d)
  <2> TAKE d \in D
  <2>0. CASE d = None
    BY <2>0 DEF Place
  <2>1. CASE d = R
    BY ONLY <1>20, <2>1
  <2>3. CASE d = Top
    BY ONLY <1>23, <2>3
  <2>2. CASE d # None /\ d # R /\ d # Top
    <3>1. PICK k \in Nat, i \in Nat : d = Item(DirAt(cd, v, k), path[i])
      BY <2>2
    <3> QED
      BY <2>2, <3>1, ItemTyped DEF Place
  <2> QED
    BY <2>0, <2>1, <2>2, <2>3
<1>4. \A i \in Nat : \A d \in D : One(i, d) \in D
  <2> TAKE i \in Nat
  <2> TAKE d \in D
  <2>3. CASE i = 1 /\ Absolute(path)
    BY <2>3
  <2>1. CASE ~(i = 1 /\ Absolute(path)) /\ (d = None \/ ~d.dir)
    BY <2>1 DEF Enter
  <2>2. CASE ~(i = 1 /\ Absolute(path)) /\ ~(d = None \/ ~d.dir)
    <3>1. d.clust \in Nat
      BY <1>3, <2>2 DEF Place
    <3>2. Item(DirAt(cd, v, d.clust), path[i]) \in D
      BY <3>1
    <3> QED
      BY <2>2, <3>2 DEF Enter
  <2> QED
    BY <2>1, <2>2, <2>3
<1>5. R \in D
  OBVIOUS
<1> HIDE DEF One, D
<1>6. Stepper(F, D)
  BY <1>4 DEF Stepper
<1> HIDE DEF F
<1>7. PICK w : Follows(w, D, R, F)
  BY <1>5, <1>6, Recursion
<1>8. w \in [Nat -> D] /\ w[0] = R /\ \A i \in Nat : w[i + 1] = F[i + 1][w[i]]
  BY <1>7 DEF Follows
<1> DEFINE Is(x) == x = [i \in Nat |-> IF i = 0 THEN R ELSE One(i, x[i - 1])]
<1>9. \A i \in Nat : i # 0 => w[i] = One(i, w[i - 1]) /\ i - 1 \in Nat
  <2>1. ASSUME NEW i \in Nat, i # 0 PROVE w[i] = One(i, w[i - 1]) /\ i - 1 \in Nat
    <3>1. i - 1 \in Nat /\ (i - 1) + 1 = i
      BY <2>1
    <3>2. w[i] = F[i][w[i - 1]] /\ w[i - 1] \in D
      BY <1>8, <3>1
    <3> QED
      BY <3>1, <3>2 DEF F
  <2> QED
    BY <2>1
<1>10. Is(w)
  BY <1>8, <1>9
<1>11. Walk(cd, v, cwd, path) = CHOOSE x : Is(x)
  BY DEF Walk, One, R, Top
<1> HIDE DEF Is
<1>12. Is(Walk(cd, v, cwd, path))
  BY <1>10, <1>11
<1> DEFINE x == Walk(cd, v, cwd, path)
<1> HIDE DEF x
<1>13. x = [i \in Nat |-> IF i = 0 THEN R ELSE One(i, x[i - 1])]
  BY <1>12 DEF Is, x
<1>14. x[0] = R /\ \A i \in Nat : x[i + 1] = One(i + 1, x[i])
  <2>1. \A i \in Nat : x[i + 1] = One(i + 1, x[(i + 1) - 1]) /\ (i + 1) - 1 = i
    BY <1>13
  <2> QED
    BY <1>13, <2>1
<1>15. \A i \in Nat : x[i] \in D
  <2> DEFINE T == {i \in Nat : x[i] \in D}
  <2>1. 0 \in T
    BY <1>5, <1>14
  <2>2. ASSUME NEW i \in Nat, i \in T PROVE i + 1 \in T
    BY <1>4, <1>14, <2>2
  <2> HIDE DEF T
  <2>3. \A i \in Nat : i \in T
    BY <2>1, <2>2, Climb
  <2> QED
    BY <2>3 DEF T
<1>16. \A i \in Nat : (i > 0 \/ ~Absolute(path)) => x[i + 1] = Enter(cd, v, x[i], path[i + 1])
  <2>1. \A i \in Nat : i > 0 => i + 1 # 1
    OBVIOUS
  <2> QED
    BY <1>14, <2>1 DEF One
<1>17. Absolute(path) => x[1] = Top
  <2>1. x[0 + 1] = One(0 + 1, x[0]) /\ 0 + 1 = 1
    BY <1>14
  <2> QED
    BY <2>1 DEF One
<1> QED
  BY <1>2, <1>3, <1>14, <1>15, <1>16, <1>17, <1>22 DEF x

\* Behind what is no directory there is nothing.
LEMMA WalkEnds ==
    ASSUME Apart, NEW cd, NEW v, Tagged(cd, v), NEW cwd \in Nat, NEW path, NEW i \in Nat, NEW j \in Nat,
           i < j, i > 0, Walk(cd, v, cwd, path)[i] = None \/ ~Walk(cd, v, cwd, path)[i].dir
    PROVE  Walk(cd, v, cwd, path)[j] = None
<1> DEFINE w == Walk(cd, v, cwd, path)
<1>1. \A k \in Nat : k > 0 => w[k + 1] = Enter(cd, v, w[k], path[k + 1])
  BY WalkIs
<1>2. w[i] = None \/ ~w[i].dir
  OBVIOUS
<1> HIDE DEF w
<1> DEFINE T == {k \in Nat : w[(i + 1) + k] = None}
<1>3. 0 \in T
  BY <1>1, <1>2 DEF Enter
<1>4. ASSUME NEW k \in Nat, k \in T PROVE k + 1 \in T
  <2>1. w[((i + 1) + k) + 1] = Enter(cd, v, w[(i + 1) + k], path[((i + 1) + k) + 1])
    <3>1. (i + 1) + k \in Nat /\ (i + 1) + k > 0
      OBVIOUS
    <3> QED
      BY <1>1, <3>1
  <2>2. w[((i + 1) + k) + 1] = None
    BY <1>4, <2>1 DEF Enter
  <2> QED
    BY <2>2
<1> HIDE DEF T
<1>5. j - (i + 1) \in T
  <2>1. \A k \in Nat : k \in T
    BY <1>3, <1>4, Climb
  <2> QED
    BY <2>1
<1>6. (i + 1) + (j - (i + 1)) = j
  OBVIOUS
<1> QED
  BY <1>5, <1>6 DEF T, w

--------------------------------------------------------------------------------
(* Where a directory object stands. *)

\* The sectors of a directory that is a table, and of one that is a chain.
LEMMA RootIs ==
    ASSUME NEW cd, NEW v, Sound(cd, v), NEW c \in Nat, TopCluster(v, c) = 0, TopSector(v, c) # 0
    PROVE  /\ v.dirbase \in Nat \ {0} /\ v.n_rootdir \in Nat \ {0} /\ v.n_rootdir % SZ = 0
           /\ TopSector(v, c) = v.dirbase
           /\ \A p : DirSector(cd, v, c, p) = IF p < v.n_rootdir THEN v.dirbase + (p \div SZ) ELSE 0
<1>1. TopSector(v, c) = v.dirbase /\ v.dirbase \in Nat /\ v.n_rootdir \in Nat /\ v.n_rootdir % SZ = 0
      /\ (v.fat32 <=> v.n_rootdir = 0)
  BY DEF TopSector, Sound
<1>2. ~v.fat32
  BY <1>1 DEF TopCluster
<1> QED
  BY <1>1, <1>2 DEF DirSector

\* A directory that is a chain of clusters.
LEMMA ChainDirIs ==
    ASSUME NEW cd, NEW v, Sound(cd, v), NEW c \in Nat, TopCluster(v, c) # 0, NEW p \in Nat
    PROVE  LET top == TopCluster(v, c)
               k == Chain(cd, v, top)[p \div (v.csize * SZ)]
           IN  /\ top \in Nat /\ TopSector(v, c) = clst2sect(v, top)
               /\ k \in Nat /\ clst2sect(v, k) \in Nat
               /\ DirSector(cd, v, c, p) = IF clst2sect(v, k) = 0 THEN 0
                                           ELSE clst2sect(v, k) + ((p \div SZ) % v.csize)
<1>1. TopCluster(v, c) \in Nat
  BY DEF TopCluster, Sound
<1>2. SZ \in Nat \ {0}
  BY FatVolumeAssumption
<1>3. TopSector(v, c) = clst2sect(v, TopCluster(v, c)) /\
      DirSector(cd, v, c, p) = SectorAt(cd, v, TopCluster(v, c), p, SZ)
  BY DEF TopSector, DirSector
<1> DEFINE t == TopCluster(v, c)
<1>7. t \in Nat
  BY <1>1
<1> HIDE DEF t
<1> DEFINE k == Chain(cd, v, t)[p \div (v.csize * SZ)]
<1>4. /\ k \in Nat
      /\ SectorAt(cd, v, t, p, SZ) = IF clst2sect(v, k) = 0 THEN 0
                                     ELSE clst2sect(v, k) + ((p \div SZ) % v.csize)
  <2>1. v.csize \in Nat \ {0}
    BY DEF Sound
  <2>2. (p \div SZ) \div v.csize = p \div (v.csize * SZ) /\ p \div (v.csize * SZ) \in Nat
    BY <1>2, <2>1, DivDiv
  <2> QED
    BY <1>7, <2>2, ChainIs DEF SectorAt
<1>5. k \in Nat
  BY <1>4
<1> HIDE DEF k
<1>6. clst2sect(v, k) \in Nat
  BY <1>5, Cluster
<1> QED
  BY <1>1, <1>3, <1>4, <1>5, <1>6 DEF k, t

\* A directory object at an entry that has not been looked at.
Stands(cd, v, d) ==
    LET top == TopCluster(v, d.sclust)
    IN  /\ d.sclust \in Nat /\ TopSector(v, d.sclust) # 0
        /\ d.dptr \in Nat /\ d.dptr < MAX_DIR /\ d.dptr <= DirLen(cd, v, d.sclust)
        /\ d.clust = IF top = 0 THEN 0 ELSE Chain(cd, v, top)[d.dptr \div (v.csize * SZ)]
        /\ d.sect = DirSector(cd, v, d.sclust, d.dptr) /\ d.sect # 0

\* One at the last entry of a cluster, which has been looked at.
Turns(cd, v, d) ==
    /\ Stands(cd, v, d) /\ TopCluster(v, d.sclust) # 0
    /\ d.dptr + 1 < MAX_DIR /\ d.dptr + 1 <= DirLen(cd, v, d.sclust)
    /\ (d.dptr + 1) % SZ = 0 /\ ((d.dptr + 1) \div SZ) % v.csize = 0

\* dir_sdi: at its beginning, a directory object stands.
LEMMA AtTop ==
    ASSUME NEW cd, NEW v, Sound(cd, v), NEW c \in Nat, TopSector(v, c) # 0,
           NEW d, d.sclust = c, d.dptr = 0, d.clust = TopCluster(v, c), d.sect = TopSector(v, c)
    PROVE  Stands(cd, v, d)
<1>1. MAX_DIR \in Nat \ {0} /\ SZ \in Nat \ {0} /\ v.csize \in Nat \ {0}
  BY FatVolumeAssumption DEF Sound
<1>2. 0 <= DirLen(cd, v, c)
  BY DirIs
<1>3. 0 \div SZ = 0 /\ 0 % v.csize = 0 /\ 0 \div (v.csize * SZ) = 0
  <2>1. v.csize * SZ \in Nat \ {0}
    BY <1>1
  <2>2. \A n \in Nat \ {0} : 0 \div n = 0 /\ 0 % n = 0
    OBVIOUS
  <2> QED
    BY <1>1, <2>1, <2>2
<1>4. CASE TopCluster(v, c) = 0
  <2>1. /\ v.dirbase \in Nat \ {0} /\ v.n_rootdir \in Nat \ {0} /\ TopSector(v, c) = v.dirbase
        /\ DirSector(cd, v, c, 0) = IF 0 < v.n_rootdir THEN v.dirbase + (0 \div SZ) ELSE 0
    BY <1>4, RootIs
  <2>2. DirSector(cd, v, c, 0) = TopSector(v, c)
    BY <1>3, <2>1
  <2> QED
    BY <1>1, <1>2, <1>4, <2>2 DEF Stands
<1>5. CASE TopCluster(v, c) # 0
  <2> DEFINE t == TopCluster(v, c)
  <2>1. /\ t \in Nat /\ TopSector(v, c) = clst2sect(v, t)
        /\ LET k == Chain(cd, v, t)[0 \div (v.csize * SZ)]
           IN  /\ clst2sect(v, k) \in Nat
               /\ DirSector(cd, v, c, 0) = IF clst2sect(v, k) = 0 THEN 0
                                           ELSE clst2sect(v, k) + ((0 \div SZ) % v.csize)
    BY <1>5, ChainDirIs
  <2>2. Chain(cd, v, t)[0] = t
    BY <2>1, ChainIs
  <2> HIDE DEF t
  <2>3. DirSector(cd, v, c, 0) = TopSector(v, c) /\ Chain(cd, v, t)[0 \div (v.csize * SZ)] = t
    BY <1>3, <2>1, <2>2
  <2> QED
    BY <1>1, <1>2, <1>5, <2>3 DEF Stands, t
<1> QED
  BY <1>4, <1>5

\* What holds where a directory object stands.
LEMMA StandsIs ==
    ASSUME NEW cd, NEW v, Sound(cd, v), NEW d, Stands(cd, v, d)
    PROVE  /\ d.clust = 0 <=> TopCluster(v, d.sclust) = 0
           /\ d.clust \in Nat /\ d.sect \in Nat
           /\ d.clust # 0 => clst2sect(v, d.clust) # 0
<1> DEFINE c == d.sclust
           t == TopCluster(v, c)
           p == d.dptr
<1>1. c \in Nat /\ p \in Nat /\ TopSector(v, c) # 0 /\ d.sect = DirSector(cd, v, c, p) /\ d.sect # 0
      /\ d.clust = IF t = 0 THEN 0 ELSE Chain(cd, v, t)[p \div (v.csize * SZ)]
  BY DEF Stands
<1>0. SZ \in Nat \ {0} /\ v.csize \in Nat \ {0}
  BY FatVolumeAssumption DEF Sound
<1>6. p \div SZ \in Nat /\ (p \div SZ) % v.csize \in Nat
  <2> HIDE DEF p
  <2>1. p \div SZ \in Nat
    BY <1>0, <1>1, DivMod
  <2> QED
    BY <1>0, <2>1, DivMod
<1> HIDE DEF c, p
<1>2. CASE t = 0
  <2>1. /\ v.dirbase \in Nat
        /\ DirSector(cd, v, c, p) = IF p < v.n_rootdir THEN v.dirbase + (p \div SZ) ELSE 0
    BY <1>1, <1>2, RootIs
  <2> QED
    BY <1>1, <1>2, <1>6, <2>1 DEF c
<1>3. CASE t # 0
  <2> DEFINE k == Chain(cd, v, t)[p \div (v.csize * SZ)]
  <2>1. /\ k \in Nat /\ clst2sect(v, k) \in Nat
        /\ DirSector(cd, v, c, p) = IF clst2sect(v, k) = 0 THEN 0
                                    ELSE clst2sect(v, k) + ((p \div SZ) % v.csize)
    BY <1>1, <1>3, ChainDirIs
  <2> HIDE DEF k
  <2>2. clst2sect(v, k) # 0
    BY <1>1, <2>1
  <2>3. k # 0
    BY <2>2, Cluster
  <2> QED
    BY <1>1, <1>3, <1>6, <2>1, <2>2, <2>3 DEF k, c
<1> QED
  BY <1>2, <1>3

\* One more.
LEMMA Succ ==
    ASSUME NEW p \in Nat, NEW d \in Nat \ {0}
    PROVE  /\ (p + 1) % d # 0 => (p + 1) \div d = p \div d /\ (p + 1) % d = (p % d) + 1
           /\ (p + 1) % d = 0 => (p + 1) \div d = (p \div d) + 1
<1> DEFINE a == p + 1
           q == a \div d
           r == a % d
           s == p \div d
           t == p % d
<1>1. a \in Nat /\ a > 0 /\ a - 1 = p
  OBVIOUS
<1> HIDE DEF a
<1>2. p \div d = IF a % d = 0 THEN (a \div d) - 1 ELSE a \div d
  BY <1>1, DivPred
<1>3. q \in Nat /\ r \in Nat /\ s \in Nat /\ t \in Nat /\ a = d * q + r /\ p = d * s + t
  BY <1>1, DivMod
<1> HIDE DEF q, r, s, t
<1>4. s = IF r = 0 THEN q - 1 ELSE q
  BY <1>2 DEF q, r, s
<1>5. r = 0 => q = s + 1
  BY ONLY <1>3, <1>4
<1>6. r # 0 => q = s /\ r = t + 1
  <2>1. SUFFICES ASSUME r # 0 PROVE q = s /\ r = t + 1
    OBVIOUS
  <2>2. q = s
    BY <1>4, <2>1
  <2>3. d * s \in Nat
    BY <1>3
  <2> DEFINE m == d * s
  <2>4. a = m + r /\ p = m + t /\ m \in Nat
    BY <1>3, <2>2, <2>3
  <2> HIDE DEF m
  <2>5. r = t + 1
    BY ONLY <1>1, <1>3, <2>4, p \in Nat
  <2> QED
    BY <2>2, <2>5
<1> QED
  BY <1>5, <1>6 DEF a, q, r, s, t

\* Where the entry behind p is.
LEMMA NextSector ==
    ASSUME NEW cd, NEW v, Sound(cd, v), NEW c \in Nat, TopSector(v, c) # 0, NEW p \in Nat,
           DirSector(cd, v, c, p) # 0
    PROVE  LET t == TopCluster(v, c)
               m == v.csize * SZ
               turn == (p + 1) % SZ = 0
           IN  /\ ~turn => DirSector(cd, v, c, p + 1) = DirSector(cd, v, c, p)
               /\ turn /\ t = 0 => DirSector(cd, v, c, p + 1) =
                                      IF p + 1 < v.n_rootdir THEN DirSector(cd, v, c, p) + 1 ELSE 0
               /\ turn /\ t # 0 /\ ((p + 1) \div SZ) % v.csize # 0 =>
                     DirSector(cd, v, c, p + 1) = DirSector(cd, v, c, p) + 1
               /\ turn /\ t # 0 /\ ((p + 1) \div SZ) % v.csize = 0 =>
                     /\ Chain(cd, v, t)[(p + 1) \div m] = After(cd, v, Chain(cd, v, t)[p \div m])
                     /\ Chain(cd, v, t)[(p + 1) \div m] \in Nat
                     /\ DirSector(cd, v, c, p + 1) = clst2sect(v, Chain(cd, v, t)[(p + 1) \div m])
               /\ ~turn \/ ((p + 1) \div SZ) % v.csize # 0 => (p + 1) \div m = p \div m
<1> DEFINE t == TopCluster(v, c)
           n == v.csize
           m == v.csize * SZ
           o == p + 1
           s == p \div SZ
           u == o \div SZ
           turn == o % SZ = 0
<1>1. SZ \in Nat \ {0} /\ n \in Nat \ {0} /\ o \in Nat
  BY FatVolumeAssumption DEF Sound
<1>2. s \in Nat /\ u \in Nat /\ s \div n = p \div m /\ u \div n = o \div m /\ p \div m \in Nat /\ o \div m \in Nat
      /\ s % n \in Nat /\ u % n \in Nat
  <2>0. ASSUME NEW a \in Nat PROVE (a \div SZ) \div n = a \div (n * SZ) /\ a \div (n * SZ) \in Nat
    <3> HIDE DEF n
    <3>1. /\ (a \div SZ) \div n = a \div (n * SZ) /\ a \div (n * SZ) \in Nat /\ n * SZ \in Nat \ {0}
          /\ a % (n * SZ) = SZ * ((a \div SZ) % n) + (a % SZ)
      BY ONLY <1>1, a \in Nat, DivDiv
    <3> QED
      BY <3>1
  <2>1. (p \div SZ) \div n = p \div (n * SZ) /\ p \div (n * SZ) \in Nat
    BY <2>0
  <2>2. (o \div SZ) \div n = o \div (n * SZ) /\ o \div (n * SZ) \in Nat
    <3> HIDE DEF o
    <3> QED
      BY <1>1, <2>0
  <2>3. s \in Nat /\ u \in Nat
    <3> HIDE DEF o
    <3> QED
      BY <1>1, DivMod
  <2> HIDE DEF s, u
  <2>4. s % n \in Nat /\ u % n \in Nat
    BY <1>1, <2>3, DivMod
  <2> QED
    BY <2>1, <2>2, <2>3, <2>4 DEF s, u
<1>3. (~turn => u = s) /\ (turn => u = s + 1)
  BY <1>1, Succ
<1> HIDE DEF s, u, n
<1>4. turn => /\ u % n # 0 => u \div n = s \div n /\ u % n = (s % n) + 1
              /\ u % n = 0 => u \div n = (s \div n) + 1
  <2>1. /\ (s + 1) % n # 0 => (s + 1) \div n = s \div n /\ (s + 1) % n = (s % n) + 1
        /\ (s + 1) % n = 0 => (s + 1) \div n = (s \div n) + 1
    BY <1>1, <1>2, Succ
  <2> QED
    BY <1>3, <2>1
<1> DEFINE G(q) == DirSector(cd, v, c, q)
           K(q) == Chain(cd, v, t)[q \div m]
<1>5. CASE t = 0
  <2>1. /\ v.dirbase \in Nat \ {0} /\ v.n_rootdir \in Nat \ {0} /\ v.n_rootdir % SZ = 0
        /\ \A q : G(q) = IF q < v.n_rootdir THEN v.dirbase + (q \div SZ) ELSE 0
    BY <1>5, RootIs
  <2>2. p < v.n_rootdir /\ G(p) = v.dirbase + s
    BY <2>1 DEF s
  <2>3. G(o) = IF o < v.n_rootdir THEN v.dirbase + u ELSE 0
    BY <2>1 DEF u
  <2>4. ~turn => o < v.n_rootdir
    <3>1. o <= v.n_rootdir
      BY <2>1, <2>2
    <3>2. ~turn => o # v.n_rootdir
      BY <2>1
    <3> QED
      BY <1>1, <2>1, <3>1, <3>2
  <2> HIDE DEF G, turn
  <2>5. ~turn => G(o) = G(p)
    BY <1>3, <2>2, <2>3, <2>4
  <2>6. turn => G(o) = IF o < v.n_rootdir THEN G(p) + 1 ELSE 0
    BY <1>2, <1>3, <2>1, <2>2, <2>3
  <2>7. ~turn \/ u % n # 0 => o \div m = p \div m
    BY <1>2, <1>3, <1>4 DEF turn
  <2> QED
    BY <1>5, <2>5, <2>6, <2>7 DEF G, turn, u, n
<1>6. CASE t # 0
  <2>1. t \in Nat
    BY <1>6, ChainDirIs
  <2>2. \A q \in Nat : K(q) \in Nat /\ clst2sect(v, K(q)) \in Nat
                       /\ G(q) = IF clst2sect(v, K(q)) = 0 THEN 0 ELSE clst2sect(v, K(q)) + ((q \div SZ) % v.csize)
    BY <1>6, ChainDirIs
  <2> DEFINE w == Chain(cd, v, t)
  <2>3. \A i \in Nat : w[i] \in Nat /\ w[i + 1] = After(cd, v, w[i])
    <3> HIDE DEF t
    <3> QED
      BY <2>1, ChainIs
  <2>4. K(p) = w[s \div n] /\ K(o) = w[u \div n]
    BY <1>2
  <2> DEFINE f(k) == clst2sect(v, k)
  <2>5. /\ K(p) \in Nat /\ f(K(p)) \in Nat /\ G(p) = IF f(K(p)) = 0 THEN 0 ELSE f(K(p)) + (s % n)
        /\ K(o) \in Nat /\ f(K(o)) \in Nat /\ G(o) = IF f(K(o)) = 0 THEN 0 ELSE f(K(o)) + (u % n)
    BY <1>1, <2>2 DEF s, u, n
  <2> HIDE DEF G, K, f, turn, w
  <2>6. f(K(p)) # 0 /\ G(p) = f(K(p)) + (s % n)
    BY <2>5 DEF G
  <2>7. ~turn \/ u % n # 0 => o \div m = p \div m /\ K(o) = K(p)
    BY <1>2, <1>3, <1>4, <2>4
  <2>8. ~turn => G(o) = G(p)
    BY <1>3, <2>5, <2>6, <2>7
  <2>9. turn /\ u % n # 0 => G(o) = G(p) + 1
    BY <1>2, <1>4, <2>5, <2>6, <2>7
  <2>10. turn /\ u % n = 0 => K(o) = After(cd, v, K(p)) /\ G(o) = f(K(o))
    <3>1. SUFFICES ASSUME turn, u % n = 0 PROVE K(o) = After(cd, v, K(p)) /\ G(o) = f(K(o))
      OBVIOUS
    <3>2. K(o) = w[(s \div n) + 1] /\ K(p) = w[s \div n]
      BY <1>4, <2>4, <3>1
    <3>3. s \div n \in Nat
      BY <1>2
    <3>4. K(o) = After(cd, v, K(p))
      BY <2>3, <3>2, <3>3
    <3>5. G(o) = f(K(o))
      BY <2>5, <3>1
    <3> QED
      BY <3>4, <3>5
  <2> QED
    BY <1>6, <2>5, <2>7, <2>8, <2>9, <2>10 DEF G, K, f, turn, u, n
<1> QED
  BY <1>5, <1>6

\* dir_next: where the object stands behind one more entry, or that the directory has ended.
LEMMA StandsNext ==
    ASSUME NEW cd, NEW v, Sound(cd, v), NEW d, Stands(cd, v, d),
           d.dptr + 1 <= DirLen(cd, v, d.sclust)
    PROVE  LET p == d.dptr + 1
               turn == p % SZ = 0
               last == p >= MAX_DIR \/ (turn /\ d.clust = 0 /\ p >= v.n_rootdir)
               edge == turn /\ d.clust # 0 /\ (p \div SZ) % v.csize = 0
           IN  /\ last => p = DirLen(cd, v, d.sclust)
               /\ ~last /\ edge => Turns(cd, v, d)
               /\ ~last /\ ~edge => \A e : /\ e.sclust = d.sclust /\ e.dptr = p /\ e.clust = d.clust
                                           /\ e.sect = IF turn THEN d.sect + 1 ELSE d.sect
                                           => Stands(cd, v, e)
<1> DEFINE c == d.sclust
           t == TopCluster(v, c)
           m == v.csize * SZ
           p == d.dptr
           turn == (p + 1) % SZ = 0
           flat == turn /\ d.clust = 0 /\ p + 1 >= v.n_rootdir
           edge == turn /\ d.clust # 0 /\ ((p + 1) \div SZ) % v.csize = 0
<1>1. /\ c \in Nat /\ TopSector(v, c) # 0 /\ p \in Nat /\ p < MAX_DIR /\ p + 1 <= DirLen(cd, v, c)
      /\ d.sect = DirSector(cd, v, c, p) /\ d.sect # 0
      /\ d.clust = IF t = 0 THEN 0 ELSE Chain(cd, v, t)[p \div m]
  BY DEF Stands
<1>2. (d.clust = 0 <=> t = 0) /\ d.sect \in Nat
  BY StandsIs
<1>3. t = 0 => v.n_rootdir \in Nat
  BY DEF Sound
<1> HIDE DEF c, p
<1>4. /\ ~turn => DirSector(cd, v, c, p + 1) = DirSector(cd, v, c, p)
      /\ turn /\ t = 0 => DirSector(cd, v, c, p + 1) =
                             IF p + 1 < v.n_rootdir THEN DirSector(cd, v, c, p) + 1 ELSE 0
      /\ turn /\ t # 0 /\ ((p + 1) \div SZ) % v.csize # 0 =>
            DirSector(cd, v, c, p + 1) = DirSector(cd, v, c, p) + 1
      /\ ~turn \/ ((p + 1) \div SZ) % v.csize # 0 => (p + 1) \div m = p \div m
  BY <1>1, NextSector
<1>5. p + 1 \in Nat
  BY <1>1
<1>6. p + 1 >= MAX_DIR \/ flat => p + 1 = DirLen(cd, v, c)
  <2>1. flat => DirSector(cd, v, c, p + 1) = 0
    BY <1>1, <1>2, <1>3, <1>4
  <2>2. p + 1 >= MAX_DIR \/ DirSector(cd, v, c, p + 1) = 0 => p + 1 = DirLen(cd, v, c)
    <3> DEFINE q == p + 1
    <3>1. q \in Nat /\ q <= DirLen(cd, v, c)
      BY <1>1, <1>5
    <3> HIDE DEF q
    <3>2. q >= MAX_DIR \/ DirSector(cd, v, c, q) = 0 => q = DirLen(cd, v, c)
      BY <3>1, DirGoesOn
    <3> QED
      BY <3>2 DEF q
  <2> QED
    BY <2>1, <2>2
<1>7. MAX_DIR \in Nat
  BY FatVolumeAssumption
<1>8. ~(p + 1 >= MAX_DIR) => p + 1 < MAX_DIR
  BY <1>5, <1>7
<1>9. ASSUME ~(p + 1 >= MAX_DIR), ~flat, edge PROVE Turns(cd, v, d)
  BY <1>1, <1>2, <1>8, <1>9 DEF Turns, c, p
<1>10. ASSUME ~(p + 1 >= MAX_DIR), ~flat, ~edge, NEW e, e.sclust = c, e.dptr = p + 1, e.clust = d.clust,
              e.sect = IF turn THEN d.sect + 1 ELSE d.sect
       PROVE  Stands(cd, v, e)
  <2> HIDE DEF turn
  <2>1. e.sect = DirSector(cd, v, c, p + 1) /\ e.sect # 0
    <3>1. CASE ~turn
      BY <1>1, <1>4, <1>10, <3>1
    <3>2. CASE turn /\ t = 0
      <4>1. p + 1 < v.n_rootdir
        BY <1>2, <1>3, <1>5, <1>10, <3>2
      <4> QED
        BY <1>1, <1>2, <1>4, <1>10, <3>2, <4>1
    <3>3. CASE turn /\ t # 0
      <4>1. ((p + 1) \div SZ) % v.csize # 0
        BY <1>2, <1>10, <3>3
      <4> QED
        BY <1>1, <1>2, <1>4, <1>10, <3>3, <4>1
    <3> QED
      BY <3>1, <3>2, <3>3
  <2>2. e.clust = IF t = 0 THEN 0 ELSE Chain(cd, v, t)[(p + 1) \div m]
    <3>1. CASE t = 0
      BY <1>2, <1>10, <3>1
    <3>2. CASE t # 0
      <4>1. ~turn \/ ((p + 1) \div SZ) % v.csize # 0
        BY <1>2, <1>10, <3>2
      <4>2. (p + 1) \div m = p \div m
        BY <1>4, <4>1
      <4> QED
        BY <1>1, <1>10, <3>2, <4>2
    <3> QED
      BY <3>1, <3>2
  <2>3. e.sclust \in Nat /\ TopSector(v, e.sclust) # 0 /\ e.dptr \in Nat /\ e.dptr < MAX_DIR
        /\ e.dptr <= DirLen(cd, v, e.sclust)
    BY <1>1, <1>5, <1>8, <1>10
  <2> QED
    BY <1>10, <2>1, <2>2, <2>3 DEF Stands
<1> QED
  BY <1>6, <1>9, <1>10 DEF c, p

\* dir_next at the end of a cluster: what the FAT says of the next one.
LEMMA TurnsNext ==
    ASSUME NEW cd, NEW v, Sound(cd, v), NEW d, Turns(cd, v, d)
    PROVE  LET p == d.dptr + 1
               n == After(cd, v, d.clust)
           IN  /\ d.clust \in Nat /\ clst2sect(v, d.clust) # 0 /\ n \in Nat
               /\ n = FatEntry(cd[FatSector(v, d.clust)], d.clust)
               /\ n <= 1 => Broken(cd, v, d.sclust)
               /\ n <= 1 \/ n >= v.n_fatent => p = DirLen(cd, v, d.sclust)
               /\ n > 1 /\ n < v.n_fatent =>
                     \A e : /\ e.sclust = d.sclust /\ e.dptr = p /\ e.clust = n /\ e.sect = clst2sect(v, n)
                            => Stands(cd, v, e)
<1> DEFINE c == d.sclust
           t == TopCluster(v, c)
           m == v.csize * SZ
           p == d.dptr
           n == After(cd, v, d.clust)
<1>1. /\ c \in Nat /\ TopSector(v, c) # 0 /\ p \in Nat /\ p < MAX_DIR /\ p + 1 <= DirLen(cd, v, c)
      /\ p + 1 < MAX_DIR /\ t # 0
      /\ (p + 1) % SZ = 0 /\ ((p + 1) \div SZ) % v.csize = 0
      /\ DirSector(cd, v, c, p) # 0
      /\ d.clust = Chain(cd, v, t)[p \div m]
  BY DEF Stands, Turns
<1>2. d.clust \in Nat /\ clst2sect(v, d.clust) # 0
  BY StandsIs DEF Turns
<1>3. n \in Nat /\ n = FatEntry(cd[FatSector(v, d.clust)], d.clust) /\ clst2sect(v, n) \in Nat
      /\ (clst2sect(v, n) # 0 <=> n >= 2 /\ n < v.n_fatent) /\ v.n_fatent \in Nat
  <2>1. n \in Nat
    BY <1>2, Cluster
  <2> QED
    BY <1>2, <2>1, Cluster DEF After, Sound
<1> HIDE DEF c, p, n
<1>4. /\ Chain(cd, v, t)[(p + 1) \div m] = n
      /\ DirSector(cd, v, c, p + 1) = clst2sect(v, n)
  <2>1. /\ Chain(cd, v, t)[(p + 1) \div m] = After(cd, v, Chain(cd, v, t)[p \div m])
        /\ DirSector(cd, v, c, p + 1) = clst2sect(v, Chain(cd, v, t)[(p + 1) \div m])
    BY <1>1, NextSector
  <2> QED
    BY <1>1, <2>1 DEF n
<1>5. n <= 1 \/ n >= v.n_fatent => p + 1 = DirLen(cd, v, c)
  <2> DEFINE q == p + 1
  <2>1. q \in Nat /\ q <= DirLen(cd, v, c)
    BY <1>1
  <2>2. n <= 1 \/ n >= v.n_fatent => DirSector(cd, v, c, q) = 0
    BY <1>3, <1>4
  <2> HIDE DEF q
  <2>3. DirSector(cd, v, c, q) = 0 => q = DirLen(cd, v, c)
    BY <2>1, DirGoesOn
  <2> QED
    BY <2>2, <2>3 DEF q
<1>6. ASSUME n <= 1 PROVE Broken(cd, v, c)
  <2> DEFINE L == DirLen(cd, v, c)
  <2>1. L = p + 1 /\ L < MAX_DIR
    BY <1>1, <1>5, <1>6
  <2>2. DirSector(cd, v, c, L) = 0
    BY <1>3, <1>4, <1>6, <2>1
  <2>3. Chain(cd, v, t)[L \div (SZ * v.csize)] = n
    <3>1. v.csize * SZ = SZ * v.csize
      <4>1. SZ \in Nat /\ v.csize \in Nat
        BY FatVolumeAssumption DEF Sound
      <4> QED
        BY <4>1
    <3> QED
      BY <1>4, <2>1, <3>1
  <2> HIDE DEF L
  <2> QED
    BY <1>1, <1>6, <2>1, <2>2, <2>3 DEF Broken, L
<1>7. ASSUME n > 1, n < v.n_fatent, NEW e, e.sclust = c, e.dptr = p + 1, e.clust = n, e.sect = clst2sect(v, n)
      PROVE  Stands(cd, v, e)
  <2>1. e.sect # 0
    BY <1>3, <1>7
  <2>2. p + 1 \in Nat
    BY <1>1
  <2> QED
    BY <1>1, <1>4, <1>7, <2>1, <2>2 DEF Stands
<1> QED
  BY <1>2, <1>3, <1>5, <1>6, <1>7 DEF c, p, n

--------------------------------------------------------------------------------
(* Long names. *)

IsDj(d) ==
    d = [sclust |-> d.sclust, clust |-> d.clust, sect |-> d.sect, dptr |-> d.dptr, ord |-> d.ord,
         sum |-> d.sum, name |-> d.name, path |-> d.path]

\* What a directory object knows of the long name right ahead of entry p + 1.
Runs(dir, d, p, any) ==
    /\ d.ord \in Nat \cup {-1}
    /\ \A o \in Nat : \A s : Run(dir, p, o, s, any, Head(d.path)) <=> d.ord = o /\ d.sum = s
    /\ any /\ d.ord # -1 => p # 0 /\ d.name = dir[p].name

\* No part of a long name has been seen behind an entry that is none.
LEMMA RunsReset ==
    ASSUME NEW dir, NEW d, NEW p \in Nat, p = 0 \/ dir[p].t # "lfn", d.ord = -1, NEW any
    PROVE  Runs(dir, d, p, any)
<1> DEFINE N == Head(d.path)
<1> HIDE DEF N
<1>1. \A o \in Nat : \A s : ~Run(dir, p, o, s, any, N)
  BY RunNone
<1>2. \A o \in Nat : d.ord # o
  OBVIOUS
<1> QED
  BY <1>1, <1>2 DEF Runs, N

\* The fields that pick_lfn, or the comparison with a name, leaves.
LEMMA LfnIs ==
    ASSUME NEW d, IsDj(d), NEW e, NEW fits
    PROVE  LET n == Lfn(d, e, fits)
               ord == IF e.last THEN e.ord ELSE d.ord
               sum == IF e.last THEN e.sum ELSE d.sum
           IN  /\ IsDj(n) /\ n.sclust = d.sclust /\ n.clust = d.clust /\ n.sect = d.sect /\ n.dptr = d.dptr
               /\ n.path = d.path /\ n.name = e.name /\ n.sum = sum
               /\ n.ord = IF e.ord = ord /\ e.sum = sum /\ fits THEN ord - 1 ELSE -1
<1> DEFINE b == [d EXCEPT !.ord = e.ord]
           a == [b EXCEPT !.sum = e.sum]
           s == IF e.last THEN a ELSE d
           x == IF e.ord = s.ord /\ e.sum = s.sum /\ fits THEN s.ord - 1 ELSE -1
           m == [s EXCEPT !.ord = x]
           n == [m EXCEPT !.name = e.name]
<1>0. /\ IsDj(b) /\ b.sclust = d.sclust /\ b.clust = d.clust /\ b.sect = d.sect /\ b.dptr = d.dptr
      /\ b.path = d.path /\ b.ord = e.ord
  BY DEF IsDj
<1> HIDE DEF b
<1>1. /\ IsDj(a) /\ a.sclust = d.sclust /\ a.clust = d.clust /\ a.sect = d.sect /\ a.dptr = d.dptr
      /\ a.path = d.path /\ a.sum = e.sum /\ a.ord = e.ord
  BY <1>0 DEF IsDj
<1> HIDE DEF a
<1>2. /\ IsDj(s) /\ s.sclust = d.sclust /\ s.clust = d.clust /\ s.sect = d.sect /\ s.dptr = d.dptr
      /\ s.path = d.path /\ s.sum = (IF e.last THEN e.sum ELSE d.sum) /\ s.ord = (IF e.last THEN e.ord ELSE d.ord)
  BY <1>1
<1> HIDE DEF s
<1>5. x = IF e.ord = s.ord /\ e.sum = s.sum /\ fits THEN s.ord - 1 ELSE -1
  OBVIOUS
<1> HIDE DEF x
<1>3. /\ IsDj(m) /\ m.sclust = s.sclust /\ m.clust = s.clust /\ m.sect = s.sect /\ m.dptr = s.dptr
      /\ m.path = s.path /\ m.sum = s.sum /\ m.ord = x
  BY <1>2 DEF IsDj
<1> HIDE DEF m
<1>4. /\ IsDj(n) /\ n.sclust = m.sclust /\ n.clust = m.clust /\ n.sect = m.sect /\ n.dptr = m.dptr
      /\ n.path = m.path /\ n.sum = m.sum /\ n.ord = m.ord /\ n.name = e.name
  BY <1>3 DEF IsDj
<1>6. Lfn(d, e, fits) = n
  BY Zenon DEF Lfn, x, m, s, a, b
<1> HIDE DEF n
<1> QED
  BY <1>2, <1>3, <1>4, <1>5, <1>6

\* What the object knows of the long name, after one more part of it.
LEMMA RunsLfn ==
    ASSUME NEW dir, NEW d, IsDj(d), NEW p \in Nat, NEW any \in BOOLEAN, Runs(dir, d, p, any),
           NEW e, e = dir[p + 1], e.t = "lfn", e.ord \in Nat, e.last \in BOOLEAN,
           NEW fits, fits <=> any \/ e.name = Head(d.path)
    PROVE  Runs(dir, Lfn(d, e, fits), p + 1, any)
<1> DEFINE n == Lfn(d, e, fits)
           ord == IF e.last THEN e.ord ELSE d.ord
           sum == IF e.last THEN e.sum ELSE d.sum
           N == Head(d.path)
<1>1. /\ n.path = d.path /\ n.name = e.name /\ n.sum = sum
      /\ n.ord = IF e.ord = ord /\ e.sum = sum /\ fits THEN ord - 1 ELSE -1
  BY LfnIs
<1> HIDE DEF n
<1>2. d.ord \in Nat \cup {-1} /\ \A o \in Nat : \A s : Run(dir, p, o, s, any, N) <=> d.ord = o /\ d.sum = s
  BY DEF Runs
<1>3. n.ord \in Nat \cup {-1}
  BY <1>1, <1>2
<1>4. ASSUME NEW o \in Nat, NEW s PROVE Run(dir, p + 1, o, s, any, N) <=> n.ord = o /\ n.sum = s
  <2>1. Run(dir, p + 1, o, s, any, N) <=> /\ e.ord = o + 1 /\ e.sum = s /\ (any \/ e.name = N)
                                           /\ (e.last \/ Run(dir, p, o + 1, s, any, N))
    BY RunPart
  <2>2. Run(dir, p, o + 1, s, any, N) <=> d.ord = o + 1 /\ d.sum = s
    BY <1>2
  <2> HIDE DEF N
  <2>3. CASE e.last
    <3>1. n.sum = e.sum /\ n.ord = IF fits THEN e.ord - 1 ELSE -1
      BY <1>1, <2>3
    <3> QED
      BY <2>1, <2>3, <3>1 DEF N
  <2>4. CASE ~e.last
    <3>1. n.sum = d.sum /\ n.ord = IF e.ord = d.ord /\ e.sum = d.sum /\ fits THEN d.ord - 1 ELSE -1
      BY <1>1, <2>4
    <3> QED
      BY <1>2, <2>1, <2>2, <2>4, <3>1 DEF N
  <2> QED
    BY <2>3, <2>4
<1>5. p + 1 # 0 /\ n.name = dir[p + 1].name
  BY <1>1
<1> QED
  BY <1>1, <1>3, <1>4, <1>5 DEF Runs, n

\* When the short entry e at p + 1 has been reached.
LEMMA RunsShort ==
    ASSUME NEW cd, NEW v, NEW c, NEW p \in Nat, p + 1 \in DOMAIN DirAt(cd, v, c), NEW d, NEW any \in BOOLEAN,
           Runs(DirAt(cd, v, c), d, p, any)
    PROVE  LET dir == DirAt(cd, v, c)
               e == dir[p + 1]
               n == Head(d.path)
           IN  /\ ~any => (HasLong(d, e) \/ (n \in Short /\ e.short = n) <=> Names(dir, p + 1, n))
               /\ any => IF HasLong(d, e) THEN HasLongName(dir, p + 1) /\ d.name = dir[p].name
                                          ELSE ~HasLongName(dir, p + 1)
<1> DEFINE dir == DirAt(cd, v, c)
           i == p + 1
           n == Head(d.path)
<1>1. i \in DOMAIN dir
  OBVIOUS
<1> HIDE DEF dir, i
<1>2. /\ HasThisName(dir, i, n) <=> Run(dir, i - 1, 0, dir[i].short, FALSE, n)
      /\ HasLongName(dir, i) <=> Run(dir, i - 1, 0, dir[i].short, TRUE, n)
  BY <1>1, LongIs DEF dir
<1>3. i - 1 = p
  BY DEF i
<1>4. \A s : Run(dir, p, 0, s, any, n) <=> d.ord = 0 /\ d.sum = s
  BY DEF Runs, dir
<1>5. any => (d.ord # -1 => d.name = dir[p].name)
  BY DEF Runs, dir
<1> HIDE DEF n
<1>6. CASE any = FALSE
  BY <1>2, <1>3, <1>4, <1>6 DEF HasLong, Names, dir, i, n
<1>7. CASE any = TRUE
  <2>1. HasLong(d, dir[i]) <=> HasLongName(dir, i)
    BY <1>2, <1>3, <1>4, <1>7 DEF HasLong
  <2>2. HasLong(d, dir[i]) => d.name = dir[p].name
    BY <1>5, <1>7 DEF HasLong
  <2> QED
    BY <1>7, <2>1, <2>2 DEF dir, i, n
<1> QED
  BY <1>6, <1>7

--------------------------------------------------------------------------------
(* Paths. *)

\* The first k names of a path lead to the directory c.
LeadsTo(cd, v, cwd, path, k, c) ==
    LET e == Walk(cd, v, cwd, path)[k] IN e # None /\ e.dir /\ e.clust = c

IsPath(path) == path \in Seq({path[i] : i \in DOMAIN path})

\* The rest of a path.
LEMMA PathIs ==
    ASSUME NEW path, IsPath(path), NEW k \in Nat, k < Len(path), NEW rest,
           rest = SubSeq(path, k + 1, Len(path))
    PROVE  /\ Len(path) \in Nat /\ Head(rest) = path[k + 1] /\ Len(rest) = Len(path) - k
           /\ Tail(rest) = SubSeq(path, k + 2, Len(path))
<1> DEFINE S == {path[i] : i \in DOMAIN path}
<1>1. path \in Seq(S)
  BY DEF IsPath
<1> HIDE DEF S
<1>2. Len(path) \in Nat
  BY <1>1
<1>3. rest = [i \in 1 .. Len(path) - k |-> path[k + i]] /\ rest \in Seq(S) /\ Len(rest) = Len(path) - k
  BY <1>1, <1>2
<1>4. Head(rest) = path[k + 1]
  BY <1>2, <1>3
<1>5. Tail(rest) = SubSeq(path, k + 2, Len(path))
  <2>1. rest # <<>>
    <3>1. Len(rest) # 0
      BY <1>2, <1>3
    <3>2. Len(<<>>) = 0
      OBVIOUS
    <3> QED
      BY <3>1, <3>2
  <2>2. Tail(rest) = [i \in 1 .. Len(rest) - 1 |-> rest[i + 1]]
    BY <1>3, <2>1
  <2>3. SubSeq(path, k + 2, Len(path)) = [i \in 1 .. Len(path) - (k + 2) + 1 |-> path[(k + 2) + i - 1]]
    BY <1>1, <1>2
  <2>4. Len(path) - (k + 2) + 1 = Len(rest) - 1
    BY <1>2, <1>3
  <2>5. \A i \in 1 .. Len(rest) - 1 : rest[i + 1] = path[(k + 2) + i - 1]
    BY <1>2, <1>3
  <2> QED
    BY <2>2, <2>3, <2>4, <2>5
<1> QED
  BY <1>2, <1>3, <1>4, <1>5

--------------------------------------------------------------------------------
(* The way along a path. *)

\* Some names of a path lead to the directory that d is in, the separator ahead of it is
\* one of them; the others are left.
Way(cd, v, cwd, path, d) ==
    \E k \in Nat : /\ k < Len(path) /\ LeadsTo(cd, v, cwd, path, k, d.sclust)
                   /\ k > 0 \/ ~Absolute(path)
                   /\ d.path = SubSeq(path, k + 1, Len(path))

\* None of the entries that have been seen has the next name.
Missed(cd, v, d, seen) ==
    LET dir == DirAt(cd, v, d.sclust)
    IN  \A i \in Items(dir) : i <= seen => ~Names(dir, i, Head(d.path))

\* What k names of the path have to do with the next one.
Entered(cd, v, cwd, path, d, k) ==
    LET w == Walk(cd, v, cwd, path)
        e == Item(DirAt(cd, v, d.sclust), Head(d.path))
    IN  /\ k < Len(path) /\ Len(path) \in Nat /\ Len(d.path) = Len(path) - k
        /\ Tail(d.path) = SubSeq(path, k + 2, Len(path))
        /\ LeadsTo(cd, v, cwd, path, k, d.sclust)
        /\ e = None /\ Head(d.path) \in Dots => w[k + 1] = w[k]
        /\ ~(e = None /\ Head(d.path) \in Dots) => w[k + 1] = e

\* One name further on the way.
LEMMA Enters ==
    ASSUME Apart, NEW cd, NEW v, Tagged(cd, v), NEW cwd \in Nat, NEW path, IsPath(path), NEW d,
           Way(cd, v, cwd, path, d)
    PROVE  \E k \in Nat : Entered(cd, v, cwd, path, d, k)
<1> DEFINE w == Walk(cd, v, cwd, path)
<1>1. PICK k \in Nat : /\ k < Len(path) /\ LeadsTo(cd, v, cwd, path, k, d.sclust)
                       /\ k > 0 \/ ~Absolute(path)
                       /\ d.path = SubSeq(path, k + 1, Len(path))
  BY DEF Way
<1>2. /\ Len(path) \in Nat /\ Head(d.path) = path[k + 1] /\ Len(d.path) = Len(path) - k
      /\ Tail(d.path) = SubSeq(path, k + 2, Len(path))
  BY <1>1, PathIs
<1>3. w[k + 1] = Enter(cd, v, w[k], path[k + 1])
  BY <1>1, WalkIs
<1>4. w[k] # None /\ w[k].dir /\ w[k].clust = d.sclust
  BY <1>1 DEF LeadsTo
<1> HIDE DEF w
<1>5. w[k + 1] = LET e == Item(DirAt(cd, v, d.sclust), Head(d.path))
                 IN  IF e = None /\ Head(d.path) \in Dots THEN w[k] ELSE e
  BY <1>2, <1>3, <1>4 DEF Enter
<1>6. Entered(cd, v, cwd, path, d, k)
  BY <1>1, <1>2, <1>5 DEF w, Entered
<1> QED
  BY <1>6

\* follow_path, when the name has been found.
LEMMA Finds ==
    ASSUME Apart, NEW cd, NEW v, Tagged(cd, v), NEW cwd \in Nat, NEW path, IsPath(path), NEW d,
           Way(cd, v, cwd, path, d), NEW p \in Nat, Missed(cd, v, d, p),
           NEW e, e = DirAt(cd, v, d.sclust)[p + 1], p + 1 \in Items(DirAt(cd, v, d.sclust)),
           Names(DirAt(cd, v, d.sclust), p + 1, Head(d.path))
    PROVE  /\ e # None /\ e.dir \in BOOLEAN /\ e.clust \in Nat /\ e.size \in Nat
           /\ Len(d.path) \in Nat \ {0}
           /\ Len(d.path) > 1 /\ e.dir =>
                 \A n : n.sclust = e.clust /\ n.path = Tail(d.path) => Way(cd, v, cwd, path, n)
           /\ Len(d.path) > 1 /\ ~e.dir => Resolve(cd, v, cwd, path) = None
           /\ Len(d.path) = 1 => Resolve(cd, v, cwd, path) = e
<1> DEFINE w == Walk(cd, v, cwd, path)
           dir == DirAt(cd, v, d.sclust)
           i == p + 1
<1>1. Item(dir, Head(d.path)) = e
  <2>1. \A j \in Items(dir) : j < i => ~Names(dir, j, Head(d.path))
    <3>1. Items(dir) \subseteq Nat
      BY DirIs DEF Items
    <3> QED
      BY <3>1 DEF Missed
  <2>2. i \in Items(dir) /\ Names(dir, i, Head(d.path)) /\ e = dir[i]
    OBVIOUS
  <2> HIDE DEF i
  <2> QED
    BY <2>1, <2>2, ItemIs
<1>2. e # None /\ e.dir \in BOOLEAN /\ e.clust \in Nat /\ e.size \in Nat
  <2>1. i \in DOMAIN dir /\ e = dir[i] /\ e.t = "sfn"
    BY DEF Items
  <2>2. d.sclust \in Nat
    <3>1. PICK k \in Nat : LeadsTo(cd, v, cwd, path, k, d.sclust)
      BY DEF Way
    <3>2. Place(w[k])
      BY WalkIs
    <3> QED
      BY <3>1, <3>2 DEF LeadsTo, Place
  <2> HIDE DEF i
  <2> QED
    BY <2>1, <2>2 DEF Tagged
<1> HIDE DEF dir, i
<1>9. PICK k \in Nat : Entered(cd, v, cwd, path, d, k)
  BY Enters
<1>3. /\ k < Len(path) /\ Len(path) \in Nat /\ Len(d.path) = Len(path) - k
      /\ Tail(d.path) = SubSeq(path, k + 2, Len(path))
      /\ ~(Item(dir, Head(d.path)) = None /\ Head(d.path) \in Dots) => w[k + 1] = Item(dir, Head(d.path))
  BY <1>9 DEF Entered, dir
<1>4. w[k + 1] = e
  BY <1>1, <1>2, <1>3
<1>5. ASSUME Len(d.path) > 1, e.dir, NEW n, n.sclust = e.clust, n.path = Tail(d.path)
      PROVE  Way(cd, v, cwd, path, n)
  <2>1. k + 1 \in Nat /\ k + 1 < Len(path) /\ (k + 1) + 1 = k + 2 /\ k + 1 > 0
    <3>1. k \in Nat /\ Len(path) \in Nat /\ Len(d.path) = Len(path) - k /\ Len(d.path) > 1
      BY <1>3, <1>5
    <3> QED
      BY ONLY <3>1
  <2>2. LeadsTo(cd, v, cwd, path, k + 1, n.sclust)
    BY <1>2, <1>4, <1>5 DEF LeadsTo
  <2> QED
    BY <1>3, <1>5, <2>1, <2>2 DEF Way
<1>6. ASSUME Len(d.path) > 1, ~e.dir PROVE Resolve(cd, v, cwd, path) = None
  <2>1. k + 1 \in Nat /\ k + 1 < Len(path) /\ k + 1 > 0
    <3>1. k \in Nat /\ Len(path) \in Nat /\ Len(d.path) = Len(path) - k /\ Len(d.path) > 1
      BY <1>3, <1>6
    <3> QED
      BY ONLY <3>1
  <2>2. w[Len(path)] = None
    <3>1. Walk(cd, v, cwd, path)[k + 1] = None \/ ~Walk(cd, v, cwd, path)[k + 1].dir
      BY <1>4, <1>6 DEF w
    <3> QED
      BY <1>3, <2>1, <3>1, WalkEnds DEF w
  <2> QED
    BY <2>2 DEF Resolve
<1>7. ASSUME Len(d.path) = 1 PROVE Resolve(cd, v, cwd, path) = e
  <2>1. Len(path) = k + 1
    <3>1. \A a \in Nat, b \in Nat : a - b = 1 => a = b + 1
      OBVIOUS
    <3>2. k \in Nat /\ Len(path) \in Nat /\ Len(path) - k = 1
      BY <1>3, <1>7
    <3> QED
      BY ONLY <3>1, <3>2
  <2> QED
    BY <1>4, <2>1 DEF Resolve
<1>8. Len(d.path) \in Nat \ {0}
  BY <1>3
<1> QED
  BY <1>2, <1>5, <1>6, <1>7, <1>8

\* follow_path, when no entry has the name.
LEMMA Misses ==
    ASSUME Apart, NEW cd, NEW v, Tagged(cd, v), NEW cwd \in Nat, NEW path, IsPath(path), NEW d,
           Way(cd, v, cwd, path, d), Missed(cd, v, d, DirLen(cd, v, d.sclust))
    PROVE  /\ Len(d.path) \in Nat \ {0}
           /\ Head(d.path) \notin Dots => Resolve(cd, v, cwd, path) = None
           /\ Head(d.path) \in Dots /\ Len(d.path) > 1 =>
                 \A n : n.sclust = d.sclust /\ n.path = Tail(d.path) => Way(cd, v, cwd, path, n)
           /\ Head(d.path) \in Dots /\ Len(d.path) = 1 => LeadsTo(cd, v, cwd, path, Len(path), d.sclust)
<1> DEFINE w == Walk(cd, v, cwd, path)
           dir == DirAt(cd, v, d.sclust)
<1>1. Item(dir, Head(d.path)) = None
  <2>1. \A j \in Items(dir) : ~Names(dir, j, Head(d.path))
    <3>1. \A j \in Items(dir) : j <= DirLen(cd, v, d.sclust)
      BY DirIs DEF Items
    <3> QED
      BY <3>1 DEF Missed
  <2> QED
    BY <2>1, ItemIs
<1> HIDE DEF dir
<1>8. PICK k \in Nat : Entered(cd, v, cwd, path, d, k)
  BY Enters
<1>2. /\ k < Len(path) /\ Len(path) \in Nat /\ Len(d.path) = Len(path) - k
      /\ Tail(d.path) = SubSeq(path, k + 2, Len(path))
      /\ LeadsTo(cd, v, cwd, path, k, d.sclust)
      /\ Item(dir, Head(d.path)) = None /\ Head(d.path) \in Dots => w[k + 1] = w[k]
      /\ ~(Item(dir, Head(d.path)) = None /\ Head(d.path) \in Dots) => w[k + 1] = Item(dir, Head(d.path))
  BY <1>8 DEF Entered, dir
<1>3. Len(d.path) \in Nat \ {0}
  BY <1>2
<1>4. ASSUME Head(d.path) \notin Dots PROVE Resolve(cd, v, cwd, path) = None
  <2>1. w[k + 1] = None
    BY <1>1, <1>2, <1>4
  <2>2. CASE Len(path) = k + 1
    BY <2>1, <2>2 DEF Resolve
  <2>3. CASE Len(path) # k + 1
    <3>1. k + 1 \in Nat /\ k + 1 < Len(path) /\ k + 1 > 0
      BY <1>2, <2>3
    <3>2. w[Len(path)] = None
      BY <1>2, <2>1, <3>1, WalkEnds DEF w
    <3> QED
      BY <3>2 DEF Resolve
  <2> QED
    BY <2>2, <2>3
<1>5. ASSUME Head(d.path) \in Dots PROVE LeadsTo(cd, v, cwd, path, k + 1, d.sclust)
  <2>1. w[k + 1] = w[k]
    BY <1>1, <1>2, <1>5
  <2> QED
    BY <1>2, <2>1 DEF LeadsTo
<1>6. ASSUME Head(d.path) \in Dots, Len(d.path) > 1, NEW n, n.sclust = d.sclust, n.path = Tail(d.path)
      PROVE  Way(cd, v, cwd, path, n)
  <2>1. k + 1 \in Nat /\ k + 1 < Len(path) /\ (k + 1) + 1 = k + 2 /\ k + 1 > 0
    <3>1. k \in Nat /\ Len(path) \in Nat /\ Len(d.path) = Len(path) - k /\ Len(d.path) > 1
      BY <1>2, <1>6
    <3> QED
      BY ONLY <3>1
  <2> QED
    BY <1>2, <1>5, <1>6, <2>1 DEF Way
<1>7. ASSUME Head(d.path) \in Dots, Len(d.path) = 1 PROVE LeadsTo(cd, v, cwd, path, Len(path), d.sclust)
  <2>1. Len(path) = k + 1
    BY <1>2, <1>7
  <2> QED
    BY <1>5, <1>7, <2>1
<1> QED
  BY <1>3, <1>4, <1>6, <1>7

\* A damaged directory on the way, and the directory that a path leads to.
LEMMA WayIs ==
    ASSUME NEW cd, NEW v, NEW cwd, NEW path, IsPath(path), NEW d
    PROVE  /\ Way(cd, v, cwd, path, d) /\ Broken(cd, v, d.sclust) => Torn(cd, v, cwd, path)
           /\ \A c : LeadsTo(cd, v, cwd, path, Len(path), c) =>
                 /\ Resolve(cd, v, cwd, path) # None /\ Resolve(cd, v, cwd, path).dir
                 /\ Resolve(cd, v, cwd, path).clust = c
                 /\ Dir(cd, v, cwd, path) = [clust |-> c] /\ File(cd, v, cwd, path) = None
                 /\ Broken(cd, v, c) => Torn(cd, v, cwd, path)
<1>1. Len(path) \in Nat
  BY DEF IsPath
<1>2. ASSUME NEW k \in 0 .. Len(path), k > 0 \/ ~Absolute(path), NEW c, LeadsTo(cd, v, cwd, path, k, c),
             Broken(cd, v, c)
      PROVE  Torn(cd, v, cwd, path)
  <2>1. k \in (IF Absolute(path) THEN 1 ELSE 0) .. Len(path)
    BY <1>1, <1>2
  <2> QED
    BY <1>2, <2>1 DEF LeadsTo, Torn
<1>3. Way(cd, v, cwd, path, d) /\ Broken(cd, v, d.sclust) => Torn(cd, v, cwd, path)
  <2>1. \A k \in Nat : k < Len(path) => k \in 0 .. Len(path)
    BY <1>1
  <2> QED
    BY <1>2, <2>1 DEF Way
<1>4. Len(path) \in 0 .. Len(path) /\ (Len(path) > 0 \/ ~Absolute(path))
  <2>1. path = <<>> \/ Len(path) > 0
    BY <1>1 DEF IsPath
  <2> QED
    BY <1>1, <2>1 DEF Absolute
<1>5. ASSUME NEW c, LeadsTo(cd, v, cwd, path, Len(path), c)
      PROVE  /\ Resolve(cd, v, cwd, path) # None /\ Resolve(cd, v, cwd, path).dir
             /\ Resolve(cd, v, cwd, path).clust = c
             /\ Dir(cd, v, cwd, path) = [clust |-> c] /\ File(cd, v, cwd, path) = None
             /\ Broken(cd, v, c) => Torn(cd, v, cwd, path)
  <2>1. /\ Resolve(cd, v, cwd, path) # None /\ Resolve(cd, v, cwd, path).dir
        /\ Resolve(cd, v, cwd, path).clust = c
    BY <1>5 DEF LeadsTo, Resolve
  <2> QED
    BY <1>2, <1>4, <1>5, <2>1 DEF Dir, File
<1> QED
  BY <1>3, <1>5

--------------------------------------------------------------------------------
(* What holds when a call has come to a step. *)

Disk == Image[vol]

OfDir  == {"find", "find next", "list", "list next"}
OfRead == {"read", "reading", "read next", "read sector"}
OfSeek == {"seek", "seeking"}
Early  == {"volume", "check", "mounted"}

Control ==
    /\ at \in {"idle", "begin", "close", "said"} \cup Early \cup OfDir \cup OfRead \cup OfSeek
    /\ trouble \in BOOLEAN
    /\ at = "idle" => call = None /\ trouble = FALSE
    /\ at # "idle" => call \in Calls
    /\ at = "said" <=> ret # None
    /\ at \in OfRead => call.op = "read"
    /\ at \in OfSeek => call.op = "seek"
    /\ at = "close" => call.op = "close"
    /\ at \in Early => call.op \notin OnHandle
    /\ at \in OfDir => call.op \in {"open", "cd", "ls"}
    /\ at \in {"list", "list next"} => call.op = "ls"
    /\ at \in OfDir \cup Early /\ call.op \in {"cd", "ls"} => sd_mounted
    /\ at \in OfRead \cup OfSeek \cup {"close"} => fd_used[call.h]
    /\ at \in OfDir \cup Early /\ call.op = "open" => \E h \in Handle : ~fd_used[h]
    /\ at \in {"begin", "read", "seek", "close"} /\ call.op \in OnHandle => from = fil.fptr
    /\ at \in OfDir \cup {"mounted"} => fs.type
    /\ at \notin {"list", "list next", "reading", "read next", "read sector"} => out = <<>>

\* The descriptors, the drive, and the volume that is mounted.
Ready ==
    /\ fd_used \in [Handle -> BOOLEAN] /\ of = [h \in Handle |-> of[h]]
    /\ card \in Cards /\ fs.cdir \in Nat
    /\ fs.type => /\ drive_status = "ready" /\ vol \in Cards \ {None}
                  /\ fs.g \in Volumes(Image[vol])

\* The sectors where a mount has found no boot record.
NoRecord(cd, b) == b = 0 \/ cd[b].boot \notin {"fat", "odd"}

\* What is left to try is the rest of the table, whose entries before are none, unless
\* the card failed on one.
RestOf(cd, rest, tr) ==
    /\ cd[0].boot = "mbr"
    /\ \E k \in 1 .. Len(cd[0].part) :
          /\ rest = SubSeq(cd[0].part, k, Len(cd[0].part)) /\ cd[0].part[k] # 0
          /\ tr \/ \A j \in 1 .. k - 1 : NoRecord(cd, cd[0].part[j])

Tried ==
    at = "check" => /\ ~fs.type /\ drive_status = "ready" /\ card \in Cards \ {None}
                    /\ parts = << 0 >> \/ RestOf(Image[card], parts, trouble)

\* A file object is of the file that the path names.
Named(cd, v, o, f) ==
    LET e == Resolve(cd, v, o.dir, o.path)
    IN  e # None /\ ~e.dir /\ o.path # <<>> /\ e.clust = f.sclust /\ e.size = f.objsize

Sized(f) ==
    /\ f.sclust \in Nat /\ f.objsize \in Nat /\ f.fptr \in Nat
    /\ f.fptr <= f.objsize

\* Between two calls, and between two parts of a read: the cluster is that of the byte
\* before; in the middle of a sector the buffer is that sector's.
Settled(cd, v, f) ==
    /\ f.fptr > 0 => f.clust # 0 /\ f.clust = Chain(cd, v, f.sclust)[(f.fptr - 1) \div (v.csize * SS)]
    /\ f.fptr % SS # 0 => f.sect # 0 /\ f.sect = SectorAt(cd, v, f.sclust, f.fptr, SS)

Moving(h) == at \in {"read sector", "seeking"} /\ h = call.h

Files ==
    \A h \in Handle : Live(h) =>
        /\ Named(Disk, fs.g, of[h], fd_fil[h]) /\ Sized(fd_fil[h])
        /\ ~Moving(h) => Settled(Disk, fs.g, fd_fil[h])

\* At the beginning of a cluster, or in it.
OnCluster(cd, v, f) == f.clust = Chain(cd, v, f.sclust)[f.fptr \div (v.csize * SS)]

\* A read that began at p of n bytes has given the bytes o and has b to go.
Gives(cd, v, f, p, n, o, b) ==
    /\ p \in Nat /\ b \in Nat /\ p <= f.fptr
    /\ f.fptr + b = Least(p + n, f.objsize)
    /\ o = Bytes(cd, v, f.sclust, p, f.fptr)
    /\ p = f.fptr \/ SectorAt(cd, v, f.sclust, f.fptr - 1, SS) # 0

Reads ==
    /\ at \in {"reading", "read next", "read sector"} =>
          Live(call.h) /\ Gives(Disk, fs.g, fil, from, call.n, out, btr)
    /\ at \in {"read next", "read sector"} => btr > 0 /\ OnSector(fil)
    /\ at = "read next" => fil.fptr # 0 /\ InCluster(fil) = 0
    /\ at = "read sector" => OnCluster(Disk, fs.g, fil)

\* A seek of the file f that began at p goes to t.
Aim(c, f, p) == CASE c.whence = "SET" -> c.off
                  [] c.whence = "CUR" -> (p + c.off) % Wide
                  [] c.whence = "END" -> (f.objsize + c.off) % Wide

Seeks ==
    at = "seeking" =>
        /\ Live(call.h) /\ btr \in Nat \ {0} /\ from \in Nat
        /\ Aim(call, fil, from) >= 0 /\ fil.fptr + btr = Least(Aim(call, fil, from), fil.objsize)
        /\ fil.fptr % bcs = 0 /\ OnCluster(Disk, fs.g, fil) /\ fil.clust # 0

\* The search for the next name of a path, and the list of a directory, before entry p.
Looks(cd, v, cwd, path, d, p) ==
    /\ Runs(DirAt(cd, v, d.sclust), d, p, FALSE)
    /\ Way(cd, v, cwd, path, d) /\ Missed(cd, v, d, p)

Prints(cd, v, cwd, path, d, p, o) ==
    /\ Runs(DirAt(cd, v, d.sclust), d, p, TRUE)
    /\ LeadsTo(cd, v, cwd, path, Len(path), d.sclust) /\ o = Listed(DirAt(cd, v, d.sclust))[p]

Dirs ==
    /\ at \in OfDir => IsDj(dj)
    /\ at \in {"find", "list"} => Stands(Disk, fs.g, dj)
    /\ at \in {"find next", "list next"} => Turns(Disk, fs.g, dj)
    /\ at = "find" => Looks(Disk, fs.g, fs.cdir, call.path, dj, dj.dptr)
    /\ at = "find next" => Looks(Disk, fs.g, fs.cdir, call.path, dj, dj.dptr + 1)
    /\ at = "list" => Prints(Disk, fs.g, fs.cdir, call.path, dj, dj.dptr, out)
    /\ at = "list next" => Prints(Disk, fs.g, fs.cdir, call.path, dj, dj.dptr + 1, out)

Inv == IInv /\ Control /\ Ready /\ Tried /\ Files /\ Reads /\ Seeks /\ Dirs

World == Apart /\ \A c \in Cards \ {None} : \A v \in Volumes(Image[c]) : Tagged(Image[c], v)

\* What a step has to do: keep the invariant, and be one of FileStore.
StoreStep == [Store!Next \/ Store!SeekAstray]_(Store!vars)
Does == Inv' /\ StoreStep

--------------------------------------------------------------------------------
(* What a program sees. *)

SVol == IF fs.type THEN [card |-> vol, g |-> fs.g] ELSE None

\* What a call is that has begun.
LEMMA CallIs ==
    ASSUME Inv, at # "idle"
    PROVE  /\ call # None /\ call \in Calls
           /\ call.op \in {"mount", "open", "cd", "ls", "read", "seek", "close"}
           /\ call.op \in {"open", "cd", "ls"} => IsPath(call.path)
           /\ call.op \in OnHandle => call.h \in Handle
           /\ call.op = "read" => call.n \in Nat
           /\ call.op = "seek" => call.off \in Int /\ call.whence \in {"SET", "CUR", "END"}
           /\ at # "said" => ret = None
  BY CallAssumption DEF Inv, Control, OnHandle, IsPath

\* The drive of a step that reads: it only ever adds trouble.
LEMMA NotedIs ==
    ASSUME Inv, NEW x, Noted(x)
    PROVE  /\ trouble' \in BOOLEAN /\ (trouble => trouble') /\ (x = Junk => trouble')
           /\ (x # Junk => trouble' = trouble)
           /\ UNCHANGED <<card, sd_mounted, up, drive_status>>
  BY DEF Noted, Inv, Control

--------------------------------------------------------------------------------
(* Steps of FileStore. *)

\* What a program sees of its handles depends on few things.
LEMMA SameMap ==
    ASSUME UNCHANGED <<vol, fd_used, of>>, fs'.type = fs.type, fs'.g = fs.g, fs'.id = fs.id,
           \A h \in Handle : /\ fd_fil'[h].fs = fd_fil[h].fs /\ fd_fil'[h].id = fd_fil[h].id
                             /\ fd_fil'[h].err = fd_fil[h].err /\ PosOf(h)' = PosOf(h)
    PROVE  UNCHANGED Mapped /\ UNCHANGED SVol
<1>1. \A h \in Handle : Live(h)' = Live(h)
  BY DEF Live
<1>2. UNCHANGED Mapped
  BY <1>1 DEF Mapped
<1> QED
  BY <1>2 DEF SVol

\* A step that no program can see.
LEMMA Stutters ==
    ASSUME UNCHANGED <<Mapped, SVol, card, sd_mounted, call, ret, trouble>>, fs'.cdir = fs.cdir
    PROVE  StoreStep
  BY DEF StoreStep, Store!vars, SVol

\* A step in a call that is seen by no one, but for a failing card.
LEMMA Inner ==
    ASSUME Inv, at \notin {"idle", "said"}, UNCHANGED <<Mapped, SVol, card, sd_mounted, call, ret>>, fs'.cdir = fs.cdir,
           trouble' \in BOOLEAN, trouble => trouble'
    PROVE  StoreStep
<1>1. CASE trouble' = trouble
  BY <1>1, Stutters
<1>2. CASE trouble' # trouble
  <2>1. trouble'
    BY <1>2 DEF Inv, Control
  <2>2. call # None /\ ret = None
    BY CallIs
  <2>3. Store!Trouble
    BY <2>1, <2>2 DEF Store!Trouble, SVol
  <2> QED
    BY <2>3 DEF StoreStep, Store!Next
<1> QED
  BY <1>1, <1>2

\* The answer of a call is no answer yet when it begins.
LEMMA Answers ==
    ASSUME World, NEW res, NEW o, Says(res, o)
    PROVE  ret' # None /\ ret'.res = res /\ ret' = [res |-> res, out |-> o] /\ at' = "said" /\ call' = call
  BY DEF World, Apart, Says

\* A call that fails is refused, for a reason; it spoils its handle at most.
LEMMA Refused ==
    ASSUME World, Inv, at \notin {"idle", "said"}, NEW res, res # "OK", Fails(res),
           Store!Reason \/ trouble', UNCHANGED <<SVol, card, sd_mounted>>, fs'.cdir = fs.cdir, trouble => trouble',
           \/ UNCHANGED Mapped
           \/ /\ call.op \in {"read", "seek"} /\ Mapped[call.h] # None
              /\ Mapped[call.h] # [dir |-> None, path |-> <<>>, pos |-> 0]
              /\ Mapped' = [Mapped EXCEPT ![call.h] = [dir |-> None, path |-> <<>>, pos |-> 0]]
           \/ /\ call.op = "close" /\ Mapped[call.h] # None
              /\ Mapped' = [Mapped EXCEPT ![call.h] = None]
    PROVE  StoreStep
<1>1. call # None /\ ret = None
  BY CallIs
<1>2. ret' # None /\ ret'.res = res /\ call' = call
  BY Answers DEF Fails
<1>3. Store!Refuse
  BY <1>1, <1>2 DEF Store!Refuse, Store!Live, Store!Dead, SVol
<1> QED
  BY <1>3 DEF StoreStep, Store!Next

--------------------------------------------------------------------------------
(* The handles. *)

\* What a program sees of a handle.
LEMMA MappedIs ==
    ASSUME World, Inv, NEW h \in Handle
    PROVE  /\ ~fd_used[h] <=> Mapped[h] = None
           /\ Live(h) => /\ Mapped[h] = [dir |-> of[h].dir, path |-> of[h].path, pos |-> PosOf(h)]
                         /\ Mapped[h] # [dir |-> None, path |-> <<>>, pos |-> 0]
                         /\ Store!Live(h)
           /\ ~Live(h) => ~Store!Live(h)
<1> DEFINE dead == [dir |-> None, path |-> <<>>, pos |-> 0]
<1>1. ~fd_used[h] => Mapped[h] = None
  BY DEF Mapped
<1>2. Live(h) => Mapped[h] = [dir |-> of[h].dir, path |-> of[h].path, pos |-> PosOf(h)]
  BY DEF Mapped, Live
<1>3. fd_used[h] /\ ~Live(h) => Mapped[h] = dead
  BY DEF Mapped
<1>4. dead # None /\ \A d, p, n : [dir |-> d, path |-> p, pos |-> n] # None
  BY DEF World, Apart
<1>5. ASSUME Live(h) PROVE Mapped[h] # dead /\ Mapped[h] # None
  <2>1. of[h].path # <<>>
    BY <1>5 DEF Inv, Files, Named
  <2>2. Mapped[h].path = of[h].path
    BY <1>2, <1>5
  <2>3. dead.path = <<>>
    OBVIOUS
  <2> HIDE DEF dead
  <2>4. Mapped[h] # dead
    BY <2>1, <2>2, <2>3
  <2> QED
    BY <1>2, <1>4, <1>5, <2>4
<1>6. Live(h) => fd_used[h]
  BY DEF Live
<1> HIDE DEF dead
<1>7. Live(h) => Store!Live(h)
  BY <1>5 DEF Store!Live, Store!Dead, dead
<1>8. ~Live(h) => ~Store!Live(h)
  BY <1>1, <1>3 DEF Store!Live, Store!Dead, dead
<1> QED
  BY <1>1, <1>2, <1>3, <1>4, <1>5, <1>6, <1>7, <1>8 DEF dead

\* The file of a handle that delivers.
LEMMA FileOf ==
    ASSUME World, Inv, NEW h \in Handle, Live(h)
    PROVE  /\ fs.type /\ Store!Of(h) = FileAt(Disk, fs.g, fd_fil[h].sclust, fd_fil[h].objsize)
           /\ Sound(Disk, fs.g) /\ Sized(fd_fil[h])
<1>1. Mapped[h] = [dir |-> of[h].dir, path |-> of[h].path, pos |-> PosOf(h)]
  BY MappedIs
<1>2. fs.type
  BY DEF Live
<1>3. Store!Of(h) = File(Disk, fs.g, of[h].dir, of[h].path)
  BY <1>1, <1>2 DEF Store!Of, Disk
<1>4. Named(Disk, fs.g, of[h], fd_fil[h]) /\ Sized(fd_fil[h])
  BY DEF Inv, Files
<1>5. File(Disk, fs.g, of[h].dir, of[h].path) = FileAt(Disk, fs.g, fd_fil[h].sclust, fd_fil[h].objsize)
  BY <1>4 DEF Named, File
<1>6. Sound(Disk, fs.g)
  BY <1>2, SoundVolume DEF Inv, Ready, Disk
<1> QED
  BY <1>2, <1>3, <1>4, <1>5, <1>6

--------------------------------------------------------------------------------
(* What keeps the parts of the invariant. *)

\* The drive and the volume, when nothing but the window has changed.
LEMMA ReadyKept ==
    ASSUME Inv, UNCHANGED <<card, vol, fd_used, of>>, fs'.cdir \in Nat,
           fs'.type => fs.type /\ fs'.g = fs.g /\ drive_status' = drive_status
    PROVE  Ready'
  BY DEF Inv, Ready

\* The files stay as they are while none of them is read or sought.
LEMMA FilesKept ==
    ASSUME Inv, at \notin {"read sector", "seeking"}, UNCHANGED <<vol, fd_used, fd_fil, of>>,
           fs'.type => fs.type /\ fs'.g = fs.g /\ fs'.id = fs.id
    PROVE  Files'
<1>1. ASSUME NEW h \in Handle, Live(h)'
      PROVE  /\ fs'.g = fs.g
             /\ Named(Disk, fs.g, of[h], fd_fil[h]) /\ Sized(fd_fil[h])
             /\ Settled(Disk, fs.g, fd_fil[h])
  BY <1>1 DEF Inv, Files, Live, Moving
<1>2. Disk' = Disk
  BY DEF Disk
<1> QED
  BY <1>1, <1>2 DEF Files

\* When the answer is there, nothing is under way.
LEMMA Ended ==
    ASSUME World, Inv, at \notin {"idle", "said"}, NEW res, NEW o, Says(res, o), trouble' \in BOOLEAN
    PROVE  Control' /\ Tried' /\ Reads' /\ Seeks' /\ Dirs'
<1>1. at' = "said" /\ ret' # None /\ call' = call /\ call \in Calls /\ out' = <<>>
  BY Answers, CallIs DEF Says
<1> QED
  BY <1>1 DEF Control, Tried, Reads, Seeks, Dirs, Early, OfDir, OfRead, OfSeek

\* A call that ends without touching files.
LEMMA EndsHere ==
    ASSUME World, Inv, IInv', at \notin {"idle", "said", "read sector", "seeking"},
           NEW res, NEW o, Says(res, o), trouble' \in BOOLEAN,
           UNCHANGED <<card, vol, fd_used, fd_fil, of>>, fs'.cdir \in Nat,
           fs'.type => fs.type /\ fs'.g = fs.g /\ fs'.id = fs.id /\ drive_status' = drive_status
    PROVE  Inv'
  BY Ended, ReadyKept, FilesKept DEF Inv

--------------------------------------------------------------------------------
(* A call begins and returns. *)

\* At the beginning and the end of a call, the position is that of the object.
LEMMA PosIs ==
    ASSUME Inv, NEW h \in Handle
    PROVE  at \in {"idle", "begin", "read", "seek", "close", "said"} => PosOf(h) = fd_fil[h].fptr
  BY DEF PosOf, Inv, Control, fil

\* Nothing happens.
LEMMA StillDoes == ASSUME World, Inv, UNCHANGED vars PROVE Does
<1>1. UNCHANGED <<card, sd_mounted, up, drive_status, faults, trouble, fs, Fsid, fd_used, fd_fil, of, call, at, dj,
                  parts, btr, out, ret, vol, from, swaps>>
  BY DEF vars, driveVars, fileVars, workVars
<1>2. IInv'
  BY NextInv DEF Inv
<1>6. Control' /\ Ready' /\ Tried'
  <2>1. Control'
    BY <1>1 DEF Inv, Control, fil
  <2>2. Ready'
    BY <1>1 DEF Inv, Ready
  <2>3. Tried'
    BY <1>1 DEF Inv, Tried
  <2> QED
    BY <2>1, <2>2, <2>3
<1>7. Disk' = Disk /\ fil' = fil /\ bcs' = bcs /\ \A h : Live(h)' = Live(h) /\ Moving(h)' = Moving(h)
  BY <1>1 DEF Disk, fil, bcs, g, Live, Moving
<1>8. Files'
  BY <1>1, <1>7 DEF Inv, Files
<1>9. Seeks' /\ Dirs'
  BY <1>1, <1>7 DEF Inv, Seeks, Dirs
<1>10. Reads'
  BY <1>1, <1>7 DEF Inv, Reads, OnSector, InCluster, g
<1>3. Control' /\ Ready' /\ Tried' /\ Files' /\ Reads' /\ Seeks' /\ Dirs'
  BY <1>6, <1>8, <1>9, <1>10
<1>4. UNCHANGED <<Mapped, SVol>>
  BY <1>1 DEF Mapped, SVol, Live, PosOf
<1>5. StoreStep
  BY <1>1, <1>4, Stutters
<1> QED
  BY <1>2, <1>3, <1>5 DEF Does, Inv

\* The card is changed.
LEMMA SwapDoes == ASSUME World, Inv, Swap PROVE Does
<1>1. /\ at = "idle" /\ at' = "idle" /\ card' \in Cards
      /\ UNCHANGED <<sd_mounted, drive_status, trouble, fs, fd_used, fd_fil, of, call, ret, vol, from, out>>
  BY DEF Swap, fileVars, workVars
<1>2. IInv'
  BY SwapStep DEF Inv
<1>3. Control' /\ Tried' /\ Reads' /\ Seeks' /\ Dirs'
  BY <1>1 DEF Inv, Control, Tried, Reads, Seeks, Dirs, Early, OfDir, OfRead, OfSeek
<1>4. Ready'
  BY <1>1 DEF Inv, Ready
<1>5. Files'
  BY <1>1, FilesKept
<1>6. UNCHANGED <<Mapped, SVol>>
  BY <1>1 DEF Mapped, SVol, Live, PosOf
<1>7. call = None
  BY <1>1 DEF Inv, Control
<1>8. Store!Change
  BY <1>1, <1>6, <1>7 DEF Store!Change, SVol
<1>9. StoreStep
  BY <1>8 DEF StoreStep, Store!Next
<1> QED
  BY <1>2, <1>3, <1>4, <1>5, <1>9 DEF Does, Inv

\* The answer is taken.
LEMMA ReturnDoes == ASSUME World, Inv, Return PROVE Does
<1>1. /\ at = "said" /\ at' = "idle" /\ ret' = None /\ call' = None /\ trouble' = FALSE
      /\ sd_mounted' = IF call.op = "mount" THEN ret.res = "OK" ELSE sd_mounted
      /\ UNCHANGED <<card, drive_status, fs, fd_used, fd_fil, of, vol, out>>
  BY DEF Return, fileVars, workVars
<1>2. IInv'
  BY QuietStep DEF Inv
<1>3. Control' /\ Tried' /\ Reads' /\ Seeks' /\ Dirs'
  BY <1>1 DEF Inv, Control, Tried, Reads, Seeks, Dirs, Early, OfDir, OfRead, OfSeek
<1>4. Ready' /\ Files'
  BY <1>1, FilesKept, ReadyKept DEF Inv, Ready
<1>5. \A h \in Handle : PosOf(h)' = PosOf(h)
  BY <1>1, PosIs DEF PosOf
<1>6. UNCHANGED <<Mapped, SVol>>
  BY <1>1, <1>5, SameMap
<1>7. ret # None
  BY <1>1 DEF Inv, Control
<1>8. Store!Return
  BY <1>1, <1>6, <1>7 DEF Store!Return, SVol
<1>9. StoreStep
  BY <1>8 DEF StoreStep, Store!Next
<1> QED
  BY <1>2, <1>3, <1>4, <1>9 DEF Does, Inv

\* A call begins.
LEMMA AskDoes == ASSUME World, Inv, Ask PROVE Does
<1>1. /\ at = "idle" /\ at' = "begin" /\ call' \in Calls
      /\ UNCHANGED <<card, sd_mounted, drive_status, trouble, fd_used, fd_fil, of, ret, vol, out>>
      /\ from' = IF call'.op \in OnHandle THEN fd_fil[call'.h].fptr ELSE 0
  BY DEF Ask, fileVars, driveVars, workVars
<1>2. IInv'
  BY AskStep DEF Inv
<1>3. IsFs(fs)
  BY DEF Inv, IInv, Shapes
<1>4. /\ call'.op = "mount" => fs'.type = FALSE
      /\ call'.op # "mount" => fs' = fs
      /\ fs'.cdir = fs.cdir /\ fs'.g = fs.g /\ fs'.id = fs.id
  <2>1. CASE call'.op = "mount"
    <3>1. fs' = [fs EXCEPT !.type = FALSE]
      BY <2>1 DEF Ask
    <3> QED
      BY <1>3, <2>1, <3>1 DEF IsFs
  <2>2. CASE call'.op # "mount"
    <3>1. fs' = fs
      BY <2>2 DEF Ask
    <3> QED
      BY <2>2, <3>1
  <2> QED
    BY <2>1, <2>2
<1>5. call = None /\ ret = None /\ trouble = FALSE /\ out = <<>> /\ None \notin Calls
  BY <1>1, CallAssumption DEF Inv, Control
<1>6. Control'
  BY <1>1, <1>5 DEF Control, Early, OfDir, OfRead, OfSeek, fil
<1>7. Tried' /\ Reads' /\ Seeks' /\ Dirs'
  BY <1>1 DEF Tried, Reads, Seeks, Dirs, Early, OfDir, OfRead, OfSeek
<1>8. fs'.type => fs.type
  BY <1>4
<1>9. Ready' /\ Files'
  BY <1>1, <1>4, <1>8, FilesKept, ReadyKept DEF Inv, Ready
<1>10. \A h \in Handle : PosOf(h)' = PosOf(h)
  BY <1>1, <1>5, PosIs DEF PosOf
<1>11. ASSUME call'.op = "mount" PROVE StoreStep
  <2>1. SVol' = None
    BY <1>4, <1>11 DEF SVol
  <2>2. \A h \in Handle : ~Live(h)'
    BY <1>4, <1>11 DEF Live
  <2>3. Mapped' = [h \in Handle |-> IF Mapped[h] = None THEN None
                                    ELSE [dir |-> None, path |-> <<>>, pos |-> 0]]
    <3>1. \A h \in Handle : ~fd_used[h] <=> Mapped[h] = None
      BY MappedIs
    <3> QED
      BY <1>1, <2>2, <3>1 DEF Mapped
  <2>4. Store!Ask
    BY <1>1, <1>4, <1>5, <1>11, <2>1, <2>3 DEF Store!Ask, Store!Dead, SVol
  <2> QED
    BY <2>4 DEF StoreStep, Store!Next
<1>12. ASSUME call'.op # "mount" PROVE StoreStep
  <2>1. UNCHANGED <<Mapped, SVol>>
    BY <1>1, <1>4, <1>10, <1>12, SameMap
  <2>2. Store!Ask
    BY <1>1, <1>4, <1>5, <1>12, <2>1 DEF Store!Ask, SVol
  <2> QED
    BY <2>2 DEF StoreStep, Store!Next
<1> QED
  BY <1>2, <1>6, <1>7, <1>9, <1>11, <1>12 DEF Does, Inv

\* The first step of a call: validate, or the drive and its volume.
LEMMA BeginDoes == ASSUME World, Inv, Begin PROVE Does
<1>1. /\ at = "begin" /\ call' = call
      /\ UNCHANGED <<card, sd_mounted, drive_status, trouble, fs, fd_used, fd_fil, of, vol, from>>
  BY DEF Begin, driveVars, fileVars, Goes, Says, Fails
<1>2. IInv'
  BY QuietStep DEF Inv
<1>3. Ready' /\ Files'
  BY <1>1, ReadyKept, FilesKept DEF Inv, Ready
<1>4. trouble \in BOOLEAN /\ \A h \in Handle : fd_used[h] \in BOOLEAN
  BY DEF Inv, Control, Ready
<1>5. ASSUME NEW step \in {"read", "seek", "close", "volume"}, Goes(step), UNCHANGED workVars,
             step # "volume" => call.op = step /\ fd_used[call.h],
             step = "volume" => /\ call.op \notin OnHandle /\ (call.op = "open" => \E h \in Handle : ~fd_used[h])
                                /\ call.op \in {"ls", "cd"} => sd_mounted
      PROVE  Inv' /\ StoreStep
  <2>1. at' = step /\ UNCHANGED <<call, ret, from, out>>
    BY <1>5 DEF Goes, workVars
  <2>2. Control'
    <3>1. call \in Calls /\ ret = None /\ out = <<>> /\ (call.op \in OnHandle => from = fil.fptr)
      BY <1>1, CallIs DEF Inv, Control
    <3>2. fil' = fil
      BY <1>1 DEF fil
    <3> QED
      BY <1>1, <1>4, <1>5, <2>1, <3>1, <3>2 DEF Control, Early, OfDir, OfRead, OfSeek
  <2>3. Tried' /\ Reads' /\ Seeks' /\ Dirs'
    BY <1>5, <2>1 DEF Tried, Reads, Seeks, Dirs, OfDir
  <2>4. UNCHANGED Mapped /\ UNCHANGED SVol
    BY <1>1, <2>1 DEF Mapped, SVol, Live, PosOf
  <2>5. StoreStep
    BY <1>1, <1>4, <2>1, <2>4, Inner
  <2> QED
    BY <1>2, <1>3, <2>2, <2>3, <2>5 DEF Inv
<1>6. ASSUME NEW res, res # "OK", Fails(res), Store!Reason
      PROVE  Inv' /\ StoreStep
  <2>1. Inv'
    BY <1>1, <1>2, <1>4, <1>6, EndsHere DEF Fails, Inv, Ready
  <2>2. \A h \in Handle : PosOf(h)' = PosOf(h)
    <3>1. ret' # None
      BY <1>6, Answers DEF Fails
    <3> QED
      BY <1>1, <3>1, PosIs DEF PosOf
  <2>3. UNCHANGED Mapped /\ UNCHANGED SVol
    BY <1>1, <2>2, SameMap
  <2>4. StoreStep
    BY <1>1, <1>6, <2>3, Refused
  <2> QED
    BY <2>1, <2>4
<1>7. CASE call.op \in OnHandle /\ ~fd_used[call.h] /\ Fails("EBADF")
  <2>1. call.h \in Handle /\ ~Live(call.h)
    BY <1>1, <1>7, CallIs DEF Live
  <2>2. Store!Reason
    BY <1>7, <2>1, MappedIs DEF Store!Reason, Store!OnHandle, OnHandle
  <2> QED
    BY <1>6, <1>7, <2>2 DEF Does
<1>8. CASE call.op \in OnHandle /\ fd_used[call.h] /\ Goes(call.op) /\ UNCHANGED workVars
  BY <1>5, <1>8 DEF OnHandle, Does
<1>9. CASE call.op = "open" /\ (\A h \in Handle : fd_used[h]) /\ Fails("EMFILE")
  <2>1. \A h \in Handle : Mapped[h] # None
    BY <1>9, MappedIs
  <2>2. Store!Reason
    BY <1>9, <2>1 DEF Store!Reason
  <2> QED
    BY <1>6, <1>9, <2>2 DEF Does
<1>10. CASE /\ call.op \notin OnHandle /\ (call.op = "open" => \E h \in Handle : ~fd_used[h])
            /\ call.op \in {"ls", "cd"} => sd_mounted
            /\ Goes("volume") /\ UNCHANGED workVars
  BY <1>5, <1>10 DEF Does
<1>11. CASE call.op \in {"ls", "cd"} /\ ~sd_mounted /\ Fails("No SD card mounted")
  <2>1. Store!Reason
    BY <1>11 DEF Store!Reason
  <2> QED
    BY <1>6, <1>11, <2>1 DEF Does
<1> QED
  BY <1>7, <1>8, <1>9, <1>10, <1>11 DEF Begin

\* mount_volume: the first boot record.
LEMMA MountVolumeDoes == ASSUME World, Inv, MountVolume PROVE Does
<1>1. /\ at = "volume" /\ call' = call /\ from' = from
      /\ UNCHANGED <<card, sd_mounted, Fsid, fd_used, fd_fil, of, vol>>
  BY DEF MountVolume, driveVars, fileVars, Goes, Says, Fails
<1>2. IInv'
  BY MountVolumeStep DEF Inv
<1>3. /\ call \in Calls /\ call.op \notin OnHandle /\ ret = None /\ trouble \in BOOLEAN /\ fs.cdir \in Nat
      /\ out = <<>>
      /\ call.op = "open" => \E h \in Handle : ~fd_used[h]
      /\ call.op \in {"cd", "ls"} => sd_mounted
      /\ fs.type => drive_status = "ready"
  BY <1>1, CallIs DEF Inv, Control, Ready, Early
<1>4. CASE /\ fs.type /\ drive_status = "ready"
           /\ Goes("mounted") /\ UNCHANGED <<driveVars, fs, workVars>>
  <2>1. at' = "mounted" /\ UNCHANGED <<ret, trouble, drive_status, fs, out>>
    BY <1>4 DEF Goes, driveVars, workVars
  <2>2. Control'
    BY <1>1, <1>3, <1>4, <2>1 DEF Control, Early, OfDir, OfRead, OfSeek, OnHandle
  <2>3. Tried' /\ Reads' /\ Seeks' /\ Dirs'
    BY <2>1 DEF Tried, Reads, Seeks, Dirs, OfDir
  <2>4. Ready' /\ Files'
    BY <1>1, <1>3, <2>1, ReadyKept, FilesKept
  <2>5. UNCHANGED Mapped /\ UNCHANGED SVol
    BY <1>1, <2>1 DEF Mapped, SVol, Live, PosOf
  <2>6. StoreStep
    BY <1>1, <2>1, <2>5, Stutters
  <2> QED
    BY <1>2, <2>2, <2>3, <2>4, <2>6 DEF Does, Inv
<1>5. CASE ~(fs.type /\ drive_status = "ready")
  <2>1. fs' = [fs EXCEPT !.type = FALSE] /\ IsFs(fs)
    BY <1>5 DEF MountVolume, Inv, IInv, Shapes
  <2>2. fs'.type = FALSE /\ fs'.cdir = fs.cdir
    BY <2>1 DEF IsFs
  <2>3. ~fs.type
    BY <1>3, <1>5
  <2>4. Ready' /\ Files'
    BY <1>1, <1>3, <2>2, ReadyKept, FilesKept
  <2>5. UNCHANGED Mapped /\ UNCHANGED SVol
    BY <1>1, <2>2, <2>3 DEF Mapped, SVol, Live
  <2>6. CASE card # None /\ drive_status' = "ready" /\ Goes("check") /\ parts' = << 0 >>
            /\ UNCHANGED <<trouble, out>>
    <3>1. at' = "check" /\ ret' = ret
      BY <2>6 DEF Goes
    <3>2. Control'
      BY <1>1, <1>3, <2>6, <3>1 DEF Control, Early, OfDir, OfRead, OfSeek, OnHandle
    <3>3. Tried'
      BY <1>1, <2>2, <2>6 DEF Tried, Inv, Ready
    <3>4. Reads' /\ Seeks' /\ Dirs'
      BY <3>1 DEF Reads, Seeks, Dirs, OfDir
    <3>5. StoreStep
      BY <1>1, <2>2, <2>5, <2>6, <3>1, Stutters
    <3> QED
      BY <1>2, <2>4, <3>2, <3>3, <3>4, <3>5 DEF Does, Inv
  <2>7. CASE trouble' = TRUE /\ Fails("FR_NOT_READY")
    <3>1. Inv'
      BY <1>1, <1>2, <1>3, <2>2, <2>7, EndsHere DEF Fails
    <3>2. StoreStep
      BY <1>1, <2>2, <2>5, <2>7, Refused
    <3> QED
      BY <3>1, <3>2 DEF Does
  <2> QED
    BY <1>5, <2>6, <2>7 DEF MountVolume
<1> QED
  BY <1>4, <1>5 DEF MountVolume

--------------------------------------------------------------------------------
(* Partitions. *)

\* Skip leaves out the entries of the table that are empty.
LEMMA SkipIs ==
    ASSUME NEW u \in Seq(Nat)
    PROVE  \E i \in 1 .. Len(u) + 1 :
              /\ i \in 1 .. Len(u) => u[i] # 0
              /\ \A j \in 1 .. i - 1 : u[j] = 0
              /\ Skip(u) = SubSeq(u, i, Len(u))
<1> DEFINE n == Len(u)
           T == {i \in 1 .. n + 1 : i \in 1 .. n => u[i] # 0}
           P(i) == (i \in DOMAIN u => u[i] # 0) /\ \A j \in 1 .. i - 1 : u[j] = 0
<1>1. n \in Nat /\ DOMAIN u = 1 .. n
  OBVIOUS
<1> HIDE DEF n
<1>2. n + 1 \in T /\ T \subseteq Nat
  BY <1>1
<1>3. PICK m \in T : \A i \in T : ~(i < m)
  <2> HIDE DEF T
  <2> QED
    BY <1>2, LeastNumber
<1>4. m \in 1 .. n + 1 /\ P(m)
  <2>1. m \in 1 .. n + 1 /\ (m \in 1 .. n => u[m] # 0)
    BY <1>3
  <2>2. ASSUME NEW j \in 1 .. m - 1 PROVE u[j] = 0
    <3>1. j \in 1 .. n /\ j < m
      BY <1>1, <2>1, <2>2
    <3>2. j \notin T
      BY <1>3, <3>1
    <3> QED
      BY <1>1, <3>1, <3>2
  <2> QED
    BY <1>1, <2>1, <2>2
<1> DEFINE c == CHOOSE i \in 1 .. n + 1 : P(i)
<1>5. c \in 1 .. n + 1 /\ P(c)
  <2> HIDE DEF P
  <2> QED
    BY <1>4
<1>6. Skip(u) = SubSeq(u, c, n)
  BY DEF Skip, n
<1> HIDE DEF c
<1> QED
  BY <1>1, <1>5, <1>6 DEF n

\* It does so from anywhere in the table.
LEMMA SkipRest ==
    ASSUME NEW t \in Seq(Nat), NEW k \in 1 .. Len(t) + 1, NEW u, u = SubSeq(t, k, Len(t))
    PROVE  /\ Skip(u) = <<>> => \A j \in k .. Len(t) : t[j] = 0
           /\ Skip(u) # <<>> => \E m \in k .. Len(t) : /\ Skip(u) = SubSeq(t, m, Len(t)) /\ t[m] # 0
                                                      /\ \A j \in k .. m - 1 : t[j] = 0
<1>1. /\ Len(t) \in Nat /\ k \in Nat /\ u \in Seq(Nat) /\ Len(u) = Len(t) - k + 1
      /\ \A i \in 1 .. Len(u) : u[i] = t[k + i - 1]
  OBVIOUS
<1>2. PICK i \in 1 .. Len(u) + 1 : /\ i \in 1 .. Len(u) => u[i] # 0
                                   /\ \A j \in 1 .. i - 1 : u[j] = 0
                                   /\ Skip(u) = SubSeq(u, i, Len(u))
  BY <1>1, SkipIs
<1> DEFINE m == k + i - 1
<1>3. m \in Nat /\ m >= k /\ m <= Len(t) + 1 /\ (i = Len(u) + 1 <=> m = Len(t) + 1)
  BY <1>1
<1>4. \A j \in k .. m - 1 : t[j] = 0
  <2>1. SUFFICES ASSUME NEW j \in k .. m - 1 PROVE t[j] = 0
    OBVIOUS
  <2>2. j - k + 1 \in 1 .. i - 1 /\ j - k + 1 \in 1 .. Len(u) /\ k + (j - k + 1) - 1 = j
    BY <1>1
  <2> QED
    BY <1>1, <1>2, <2>2
<1>5. CASE i = Len(u) + 1
  <2>1. Skip(u) = <<>>
    BY <1>1, <1>2, <1>5
  <2>2. m = Len(t) + 1
    BY <1>3, <1>5
  <2> QED
    BY <1>1, <1>4, <2>1, <2>2
<1>6. CASE i # Len(u) + 1
  <2>1. i \in 1 .. Len(u) /\ u[i] # 0 /\ u[i] = t[m] /\ m \in k .. Len(t)
    <3>1. i \in 1 .. Len(u)
      <4>1. Len(u) \in Nat
        BY <1>1
      <4>2. i \in 1 .. Len(u) + 1 /\ i # Len(u) + 1
        BY <1>6
      <4> QED
        BY ONLY <4>1, <4>2
    <3>2. u[i] # 0
      BY <1>2, <3>1
    <3>3. u[i] = t[m]
      BY <1>1, <3>1
    <3>4. m \in k .. Len(t)
      BY <1>1, <3>1
    <3> QED
      BY <3>1, <3>2, <3>3, <3>4
  <2>2. Skip(u) = SubSeq(t, m, Len(t))
    <3>1. SubSeq(u, i, Len(u)) = [j \in 1 .. Len(u) - i + 1 |-> u[i + j - 1]]
      BY <1>1, <2>1
    <3>2. SubSeq(t, m, Len(t)) = [j \in 1 .. Len(t) - m + 1 |-> t[m + j - 1]]
      BY <1>1, <1>3, <2>1
    <3>3. Len(u) - i + 1 = Len(t) - m + 1
      BY <1>1
    <3>4. \A j \in 1 .. Len(u) - i + 1 : u[i + j - 1] = t[m + j - 1]
      <4>1. SUFFICES ASSUME NEW j \in 1 .. Len(u) - i + 1 PROVE u[i + j - 1] = t[m + j - 1]
        OBVIOUS
      <4>2. i + j - 1 \in 1 .. Len(u) /\ k + (i + j - 1) - 1 = m + j - 1
        BY <1>1, <2>1
      <4> HIDE DEF m
      <4> QED
        BY <1>1, <4>2
    <3> HIDE DEF m
    <3> QED
      BY <1>2, <3>1, <3>2, <3>3, <3>4
  <2>3. Skip(u) # <<>>
    <3>1. Len(Skip(u)) = Len(t) - m + 1
      BY <1>1, <2>1, <2>2
    <3>2. Len(t) - m + 1 # 0 /\ Len(<<>>) = 0
      BY <1>1, <2>1
    <3> QED
      BY <3>1, <3>2
  <2> HIDE DEF m
  <2> QED
    BY <1>4, <2>1, <2>2, <2>3
<1> QED
  BY <1>5, <1>6

\* Which volume is the one of a card.
LEMMA VolumeIs ==
    ASSUME NEW cd
    PROVE  /\ cd[0].boot = "fat" => VolumeOf(cd) = Bare(cd, 0) /\ VolumeOf(cd) \in Volumes(cd)
           /\ cd[0].boot \notin {"fat", "mbr"} => VolumeOf(cd) = None
           /\ cd[0].boot = "mbr" /\ cd[0].part \in Seq(Nat) =>
                /\ (\A j \in 1 .. Len(cd[0].part) : NoRecord(cd, cd[0].part[j])) => VolumeOf(cd) = None
                /\ \A k \in 1 .. Len(cd[0].part) : cd[0].part[k] # 0 =>
                     /\ cd[cd[0].part[k]].boot = "fat" => Bare(cd, cd[0].part[k]) \in Volumes(cd)
                     /\ (\A j \in 1 .. k - 1 : NoRecord(cd, cd[0].part[j])) =>
                           /\ cd[cd[0].part[k]].boot = "fat" => VolumeOf(cd) = Bare(cd, cd[0].part[k])
                           /\ cd[cd[0].part[k]].boot = "odd" => VolumeOf(cd) = None
<1>1. cd[0].boot \in {"fat", "odd"} => 0 \in Records(cd)
  BY DEF Records
<1>2. cd[0].boot = "fat" => VolumeOf(cd) = Bare(cd, 0) /\ VolumeOf(cd) \in Volumes(cd)
  BY <1>1 DEF VolumeOf, Volumes
<1>3. cd[0].boot \notin {"fat", "mbr"} => VolumeOf(cd) = None
  <2>1. cd[0].boot = "odd" => VolumeOf(cd) = None
    BY <1>1 DEF VolumeOf
  <2>2. cd[0].boot \notin {"fat", "mbr", "odd"} => Records(cd) = {}
    BY DEF Records
  <2> QED
    BY <2>1, <2>2 DEF VolumeOf
<1>4. ASSUME cd[0].boot = "mbr", cd[0].part \in Seq(Nat)
      PROVE  /\ (\A j \in 1 .. Len(cd[0].part) : NoRecord(cd, cd[0].part[j])) => VolumeOf(cd) = None
             /\ \A k \in 1 .. Len(cd[0].part) : cd[0].part[k] # 0 =>
                     /\ cd[cd[0].part[k]].boot = "fat" => Bare(cd, cd[0].part[k]) \in Volumes(cd)
                     /\ (\A j \in 1 .. k - 1 : NoRecord(cd, cd[0].part[j])) =>
                           /\ cd[cd[0].part[k]].boot = "fat" => VolumeOf(cd) = Bare(cd, cd[0].part[k])
                           /\ cd[cd[0].part[k]].boot = "odd" => VolumeOf(cd) = None
  <2> DEFINE t == cd[0].part
             R == Records(cd)
  <2>1. t \in Seq(Nat) /\ Len(t) \in Nat /\ DOMAIN t = 1 .. Len(t)
    BY <1>4
  <2>2. \A b : b \in R <=> b \in {t[i] : i \in 1 .. Len(t)} /\ cd[b].boot \in {"fat", "odd"}
    BY <1>4, <2>1 DEF Records
  <2>3. 0 \notin R
    BY <1>4 DEF Records
  <2> HIDE DEF R
  <2>4. ASSUME \A j \in 1 .. Len(t) : NoRecord(cd, t[j])
        PROVE  VolumeOf(cd) = None
    <3>1. R = {}
      BY <2>2, <2>3, <2>4 DEF NoRecord
    <3> QED
      BY <3>1 DEF VolumeOf, R
  <2>5. ASSUME NEW k \in 1 .. Len(t), t[k] # 0
        PROVE  /\ cd[t[k]].boot = "fat" => Bare(cd, t[k]) \in Volumes(cd)
               /\ (\A j \in 1 .. k - 1 : NoRecord(cd, t[j])) =>
                     /\ cd[t[k]].boot = "fat" => VolumeOf(cd) = Bare(cd, t[k])
                     /\ cd[t[k]].boot = "odd" => VolumeOf(cd) = None
    <3>1. cd[t[k]].boot \in {"fat", "odd"} => t[k] \in R
      BY <2>2
    <3>2. cd[t[k]].boot = "fat" => Bare(cd, t[k]) \in Volumes(cd)
      BY <3>1 DEF Volumes, R
    <3>3. ASSUME \A j \in 1 .. k - 1 : NoRecord(cd, t[j]), cd[t[k]].boot \in {"fat", "odd"}
          PROVE  VolumeOf(cd) = IF cd[t[k]].boot = "odd" THEN None ELSE Bare(cd, t[k])
      <4> DEFINE P(i) == t[i] \in R /\ \A j \in 1 .. i - 1 : t[j] \notin R
                 c == CHOOSE i \in DOMAIN t : P(i)
      <4>1. \A j \in 1 .. k - 1 : t[j] \notin R
        BY <2>2, <2>3, <3>3 DEF NoRecord
      <4>2. P(k)
        BY <3>1, <3>3, <4>1
      <4>3. c \in DOMAIN t /\ P(c)
        <5> HIDE DEF P
        <5>1. k \in DOMAIN t
          BY <2>1
        <5> QED
          BY <4>2, <5>1
      <4>4. c = k
        <5>1. c \in Nat /\ k \in Nat /\ c >= 1 /\ k >= 1
          BY <2>1, <4>3
        <5>2. P(c) /\ P(k)
          BY <4>2, <4>3
        <5> HIDE DEF c
        <5>3. ~(c < k)
          BY <4>1, <5>1, <5>2
        <5>4. ~(k < c)
          BY <5>1, <5>2
        <5> QED
          BY <5>1, <5>3, <5>4
      <4>5. VolumeOf(cd) = IF R = {} \/ cd[t[c]].boot = "odd" THEN None ELSE Bare(cd, t[c])
        <5>1. VolumeOf(cd) = LET first == IF 0 \in R THEN 0 ELSE t[c]
                             IN  IF R = {} \/ cd[first].boot = "odd" THEN None ELSE Bare(cd, first)
          BY DEF VolumeOf, R
        <5> HIDE DEF c, t
        <5> QED
          BY <2>3, <5>1
      <4>6. R # {}
        BY <3>1, <3>3
      <4> HIDE DEF c, t
      <4> QED
        BY <4>4, <4>5, <4>6
    <3> HIDE DEF t
    <3>4. ASSUME \A j \in 1 .. k - 1 : NoRecord(cd, t[j])
          PROVE  /\ cd[t[k]].boot = "fat" => VolumeOf(cd) = Bare(cd, t[k])
                 /\ cd[t[k]].boot = "odd" => VolumeOf(cd) = None
      <4>1. CASE cd[t[k]].boot = "fat"
        BY <3>3, <3>4, <4>1
      <4>2. CASE cd[t[k]].boot = "odd"
        BY <3>3, <3>4, <4>2
      <4> QED
        BY <4>1, <4>2
    <3> QED
      BY <3>2, <3>4
  <2> QED
    BY <2>4, <2>5
<1> QED
  BY <1>2, <1>3, <1>4

\* What comes of the partition that is tried next.
LEMMA RestIs ==
    ASSUME NEW cd, cd[0].part \in Seq(Nat), NEW rest, NEW tr \in BOOLEAN, RestOf(cd, rest, tr)
    PROVE  /\ Head(rest) \in Nat \ {0}
           /\ cd[Head(rest)].boot = "fat" =>
                 Bare(cd, Head(rest)) \in Volumes(cd) /\ (tr \/ VolumeOf(cd) = Bare(cd, Head(rest)))
           /\ cd[Head(rest)].boot = "odd" => tr \/ VolumeOf(cd) = None
           /\ \A t2 \in BOOLEAN : (tr => t2) /\ (t2 \/ NoRecord(cd, Head(rest))) =>
                 /\ Skip(Tail(rest)) = <<>> => t2 \/ VolumeOf(cd) = None
                 /\ Skip(Tail(rest)) # <<>> => RestOf(cd, Skip(Tail(rest)), t2)
<1> DEFINE t == cd[0].part
<1>1. t \in Seq(Nat) /\ Len(t) \in Nat /\ cd[0].boot = "mbr"
  BY DEF RestOf
<1>2. PICK k \in 1 .. Len(t) : /\ rest = SubSeq(t, k, Len(t)) /\ t[k] # 0
                               /\ tr \/ \A j \in 1 .. k - 1 : NoRecord(cd, t[j])
  BY DEF RestOf
<1> HIDE DEF t
<1>3. Head(rest) = t[k] /\ Tail(rest) = SubSeq(t, k + 1, Len(t)) /\ t[k] \in Nat
  <2>1. rest \in Seq(Nat) /\ Len(rest) = Len(t) - k + 1 /\ rest = [i \in 1 .. Len(t) - k + 1 |-> t[k + i - 1]]
    BY <1>1, <1>2
  <2>2. rest # <<>>
    <3>1. Len(rest) # 0 /\ Len(<<>>) = 0
      BY <1>1, <1>2, <2>1
    <3> QED
      BY <3>1
  <2>3. Head(rest) = t[k]
    BY <1>1, <1>2, <2>1
  <2>4. Tail(rest) = [i \in 1 .. Len(rest) - 1 |-> rest[i + 1]]
    BY <2>1, <2>2
  <2>5. SubSeq(t, k + 1, Len(t)) = [i \in 1 .. Len(t) - (k + 1) + 1 |-> t[(k + 1) + i - 1]]
    BY <1>1, <1>2
  <2>6. Len(t) - (k + 1) + 1 = Len(rest) - 1
    BY <1>1, <1>2, <2>1
  <2>7. \A i \in 1 .. Len(rest) - 1 : rest[i + 1] = t[(k + 1) + i - 1]
    BY <1>1, <1>2, <2>1
  <2> QED
    BY <1>1, <1>2, <2>3, <2>4, <2>5, <2>6, <2>7
<1>4. /\ cd[t[k]].boot = "fat" => Bare(cd, t[k]) \in Volumes(cd)
      /\ (\A j \in 1 .. k - 1 : NoRecord(cd, t[j])) =>
             /\ cd[t[k]].boot = "fat" => VolumeOf(cd) = Bare(cd, t[k])
             /\ cd[t[k]].boot = "odd" => VolumeOf(cd) = None
  BY <1>1, <1>2, VolumeIs DEF t
<1>5. ASSUME NEW t2 \in BOOLEAN, tr => t2, t2 \/ NoRecord(cd, t[k])
      PROVE  /\ Skip(Tail(rest)) = <<>> => t2 \/ VolumeOf(cd) = None
             /\ Skip(Tail(rest)) # <<>> => RestOf(cd, Skip(Tail(rest)), t2)
  <2>1. t2 \/ \A j \in 1 .. k : NoRecord(cd, t[j])
    <3>1. \A j \in 1 .. k : j \in 1 .. k - 1 \/ j = k
      BY <1>2
    <3> QED
      BY <1>2, <1>5, <3>1
  <2>2. k + 1 \in 1 .. Len(t) + 1
    BY <1>1, <1>2
  <2>3. ASSUME Skip(Tail(rest)) = <<>> PROVE t2 \/ VolumeOf(cd) = None
    <3>1. \A j \in k + 1 .. Len(t) : t[j] = 0
      BY <1>1, <1>3, <2>2, <2>3, SkipRest
    <3>2. t2 \/ \A j \in 1 .. Len(t) : NoRecord(cd, t[j])
      <4>1. \A j \in 1 .. Len(t) : j \in 1 .. k \/ j \in k + 1 .. Len(t)
        BY <1>1, <1>2
      <4> QED
        BY <2>1, <3>1, <4>1 DEF NoRecord
    <3> QED
      BY <1>1, <3>2, VolumeIs DEF t
  <2>4. ASSUME Skip(Tail(rest)) # <<>> PROVE RestOf(cd, Skip(Tail(rest)), t2)
    <3>1. PICK m \in k + 1 .. Len(t) : /\ Skip(Tail(rest)) = SubSeq(t, m, Len(t)) /\ t[m] # 0
                                       /\ \A j \in k + 1 .. m - 1 : t[j] = 0
      BY <1>1, <1>3, <2>2, <2>4, SkipRest
    <3>2. m \in 1 .. Len(t)
      BY <1>1, <1>2, <3>1
    <3>3. t2 \/ \A j \in 1 .. m - 1 : NoRecord(cd, t[j])
      <4>1. \A j \in 1 .. m - 1 : j \in 1 .. k \/ j \in k + 1 .. m - 1
        BY <1>1, <1>2
      <4> QED
        BY <2>1, <3>1, <4>1 DEF NoRecord
    <3> QED
      BY <1>1, <3>1, <3>2, <3>3 DEF RestOf, t
  <2> QED
    BY <2>3, <2>4
<1> QED
  BY <1>2, <1>3, <1>4, <1>5

\* The first partition that is tried.
LEMMA TableIs ==
    ASSUME NEW cd, cd[0].part \in Seq(Nat), cd[0].boot = "mbr", NEW tr
    PROVE  /\ Skip(cd[0].part) = <<>> => VolumeOf(cd) = None
           /\ Skip(cd[0].part) # <<>> => RestOf(cd, Skip(cd[0].part), tr)
<1> DEFINE t == cd[0].part
<1>1. t \in Seq(Nat) /\ Len(t) \in Nat /\ 1 \in 1 .. Len(t) + 1 /\ t = SubSeq(t, 1, Len(t))
  OBVIOUS
<1> HIDE DEF t
<1>2. ASSUME Skip(t) = <<>> PROVE VolumeOf(cd) = None
  <2>1. \A j \in 1 .. Len(t) : t[j] = 0
    BY <1>1, <1>2, SkipRest
  <2> QED
    BY <1>1, <2>1, VolumeIs DEF t, NoRecord
<1>3. ASSUME Skip(t) # <<>> PROVE RestOf(cd, Skip(t), tr)
  <2>1. PICK m \in 1 .. Len(t) : /\ Skip(t) = SubSeq(t, m, Len(t)) /\ t[m] # 0
                                 /\ \A j \in 1 .. m - 1 : t[j] = 0
    BY <1>1, <1>3, SkipRest
  <2> QED
    BY <2>1 DEF RestOf, NoRecord, t
<1> QED
  BY <1>2, <1>3 DEF t

\* Sector 0 alone is no table.
LEMMA NoRest == Head(<< 0 >>) = 0 /\ Skip(Tail(<< 0 >>)) = <<>>
<1>1. Tail(<< 0 >>) = <<>> /\ Head(<< 0 >>) = 0
  OBVIOUS
<1>2. <<>> \in Seq(Nat) /\ Len(<<>>) = 0
  OBVIOUS
<1>3. PICK i \in 1 .. 0 + 1 : Skip(<<>>) = SubSeq(<<>>, i, 0)
  BY <1>2, SkipIs
<1>4. i = 1
  BY <1>3
<1>5. SubSeq(<<>>, 1, 0) = <<>>
  OBVIOUS
<1> QED
  BY <1>1, <1>3, <1>4, <1>5

\* What move_window leaves alone, and what it has read.
LEMMA Moves ==
    ASSUME NEW F, IsFs(F), NEW s, NEW f \in move_window(F, s)
    PROVE  /\ IsFs(f) /\ f.type = F.type /\ f.id = F.id /\ f.g = F.g /\ f.cdir = F.cdir
           /\ s = F.winsect => f = F
           /\ s # F.winsect => f.win = Junk \/ (up /\ f.win = Image[card][s])
<1>1. CASE s = F.winsect
  BY <1>1 DEF move_window
<1>2. CASE s # F.winsect
  <2>1. PICK x \in disk_read(s) :
            f = IF x = Junk THEN [F EXCEPT !.winsect = NoSector, !.win = Junk]
                ELSE [F EXCEPT !.winsect = s, !.win = x]
    BY <1>2 DEF move_window
  <2>2. CASE x = Junk
    BY <1>2, <2>1, <2>2 DEF IsFs
  <2>3. CASE x # Junk
    <3>1. up /\ x = Image[card][s]
      BY <2>3, Read
    <3>2. f = [F EXCEPT !.winsect = s, !.win = x]
      BY <2>1, <2>3
    <3> QED
      BY <1>2, <3>1, <3>2 DEF IsFs
  <2> QED
    BY <2>2, <2>3
<1> QED
  BY <1>1, <1>2

\* check_fs: the boot record of a partition, or the next partition.
LEMMA CheckFsDoes == ASSUME World, Inv, CheckFs PROVE Does
<1> DEFINE F == [fs EXCEPT !.winsect = NoSector]
           cd == Image[card]
           b == Head(parts)
<1>1. /\ at = "check" /\ UNCHANGED <<fd_used, fd_fil, of>>
  BY DEF CheckFs, fileVars
<1>2. IInv'
  BY CheckFsStep DEF Inv
<1>3. /\ call \in Calls /\ call.op \notin OnHandle /\ ret = None /\ trouble \in BOOLEAN /\ fs.cdir \in Nat
      /\ out = <<>>
      /\ call.op = "open" => \E h \in Handle : ~fd_used[h]
      /\ call.op \in {"cd", "ls"} => sd_mounted
      /\ ~fs.type /\ card \in Cards \ {None} /\ call # None
      /\ parts = << 0 >> \/ RestOf(cd, parts, trouble)
  BY <1>1, CallIs DEF Inv, Control, Ready, Tried, Early
<1>4. cd[0].boot = "mbr" => cd[0].part \in Seq(Nat)
  BY <1>3, VolumeAssumption
<1>5. RestOf(cd, parts, trouble) => cd[0].boot = "mbr" /\ b \in Nat \ {0}
  BY <1>3, <1>4, RestIs DEF RestOf
<1>6. b \in Nat /\ (b = 0 <=> parts = << 0 >>)
  BY <1>3, <1>5, NoRest
<1>7. PICK f \in move_window(F, b) :
         /\ Noted(f.win)
         /\ \/ (NotRead(f) \/ Partitioned(f) \/ NoFat(f)) /\ fs' = f /\ UNCHANGED <<Fsid, vol>>
            \/ /\ f.win # Junk /\ f.win.boot = "fat"
               /\ Fsid' = Fsid + 1 /\ vol' = card
               /\ fs' = [f EXCEPT !.type = TRUE, !.id = Fsid + 1, !.cdir = 0, !.g = Bare(Image[card], Head(parts))]
               /\ Goes("mounted") /\ parts' = <<>> /\ UNCHANGED <<dj, btr, out>>
  BY DEF CheckFs
<1>8. IsFs(f) /\ f.type = fs.type /\ f.cdir = fs.cdir /\ f.g = fs.g /\ f.id = fs.id
      /\ (f.win = Junk \/ f.win = cd[b])
  <2>1. IsFs(fs)
    BY DEF Inv, IInv, Shapes
  <2>2. IsFs(F) /\ F.type = fs.type /\ F.cdir = fs.cdir /\ F.winsect = NoSector /\ F.g = fs.g /\ F.id = fs.id
    BY <2>1 DEF IsFs
  <2> HIDE DEF F
  <2>3. b # F.winsect
    BY <1>6, <2>2 DEF NoSector
  <2> QED
    BY <1>7, <2>2, <2>3, Moves
<1>9. /\ trouble' \in BOOLEAN /\ (trouble => trouble') /\ (f.win = Junk => trouble')
      /\ (f.win # Junk => trouble' = trouble) /\ UNCHANGED <<card, sd_mounted, drive_status>>
  BY <1>7, NotedIs
<1> HIDE DEF F, cd, b
<1>10. ASSUME fs' = f, UNCHANGED vol
       PROVE  /\ Ready' /\ Files' /\ UNCHANGED Mapped /\ UNCHANGED SVol /\ ~fs'.type
              /\ fs'.cdir = fs.cdir
  <2>1. ~fs'.type /\ fs'.cdir = fs.cdir
    BY <1>3, <1>8, <1>10
  <2>2. Ready' /\ Files'
    BY <1>1, <1>3, <1>9, <1>10, <2>1, ReadyKept, FilesKept
  <2>3. UNCHANGED Mapped /\ UNCHANGED SVol
    BY <1>1, <1>3, <2>1 DEF Mapped, SVol, Live
  <2> QED
    BY <2>1, <2>2, <2>3
<1>11. ASSUME fs' = f, UNCHANGED vol, NEW res, res # "OK", Fails(res), trouble' \/ VolumeOf(cd) = None
       PROVE  Does
  <2>1. ~fs'.type /\ fs'.cdir = fs.cdir /\ UNCHANGED Mapped /\ UNCHANGED SVol
    BY <1>10, <1>11
  <2>2. Inv'
    BY <1>1, <1>2, <1>3, <1>9, <1>11, <2>1, EndsHere DEF Fails
  <2>3. Store!Reason \/ trouble'
    <3>1. ASSUME VolumeOf(cd) = None PROVE Store!Reason
      BY <1>3, <3>1 DEF Store!Reason, Store!OnHandle, OnHandle, cd
    <3> QED
      BY <1>11, <3>1
  <2>4. StoreStep
    BY <1>1, <1>9, <1>11, <2>1, <2>3, Refused
  <2> QED
    BY <2>2, <2>4 DEF Does
<1>12. ASSUME fs' = f, UNCHANGED vol, Goes("check"), UNCHANGED out, RestOf(cd, parts', trouble')
       PROVE  Does
  <2>1. ~fs'.type /\ fs'.cdir = fs.cdir /\ UNCHANGED Mapped /\ UNCHANGED SVol /\ Ready' /\ Files'
    BY <1>10, <1>12
  <2>2. at' = "check" /\ UNCHANGED <<call, ret, from>>
    BY <1>12 DEF Goes
  <2>3. Control'
    BY <1>1, <1>3, <1>9, <1>12, <2>2 DEF Control, Early, OfDir, OfRead, OfSeek, OnHandle
  <2>4. Tried'
    <3>1. drive_status' = "ready"
      BY <1>1, <1>9 DEF Inv, Tried
    <3> QED
      BY <1>3, <1>9, <1>12, <2>1, <3>1 DEF Tried, cd
  <2>5. Reads' /\ Seeks' /\ Dirs'
    BY <2>2 DEF Reads, Seeks, Dirs, OfDir
  <2>6. StoreStep
    BY <1>1, <1>9, <2>1, <2>2, Inner
  <2> QED
    BY <1>2, <2>1, <2>3, <2>4, <2>5, <2>6 DEF Does, Inv
\* The search goes on behind a record that is none, or could not be read.
<1>13. ASSUME fs' = f, UNCHANGED vol, NEW res, res # "OK", NextPart(res),
              parts = << 0 >> => VolumeOf(cd) = None, trouble' \/ NoRecord(cd, b)
       PROVE  Does
  <2> DEFINE rest == Skip(Tail(parts))
  <2>1. CASE parts = << 0 >>
    <3>1. rest = <<>>
      BY <2>1, NoRest
    <3>2. \E r : r # "OK" /\ Fails(r)
      BY <1>13, <3>1 DEF NextPart
    <3> QED
      BY <1>11, <1>13, <2>1, <3>2
  <2>2. CASE RestOf(cd, parts, trouble)
    <3>1. cd[0].part \in Seq(Nat)
      BY <1>4, <2>2 DEF RestOf
    <3>2. /\ rest = <<>> => trouble' \/ VolumeOf(cd) = None
          /\ rest # <<>> => RestOf(cd, rest, trouble')
      BY <1>3, <1>9, <1>13, <2>2, <3>1, RestIs DEF b
    <3> HIDE DEF rest
    <3>3. CASE rest = <<>>
      <4>1. \E r : r # "OK" /\ Fails(r)
        BY <1>13, <3>3 DEF NextPart, rest
      <4> QED
        BY <1>11, <1>13, <3>2, <3>3, <4>1
    <3>4. CASE rest # <<>>
      <4>1. Goes("check") /\ parts' = rest /\ UNCHANGED out
        BY <1>13, <3>4 DEF NextPart, rest
      <4> QED
        BY <1>12, <1>13, <3>2, <3>4, <4>1
    <3> QED
      BY <3>3, <3>4
  <2> QED
    BY <1>3, <2>1, <2>2
<1>14. CASE NotRead(f) /\ fs' = f /\ UNCHANGED <<Fsid, vol>>
  <2>1. trouble'
    BY <1>9, <1>14 DEF NotRead
  <2>2. CASE b = 0
    <3>1. Fails("FR_DISK_ERR")
      BY <1>14, <2>2 DEF NotRead, b
    <3> QED
      BY <1>11, <1>14, <2>1, <3>1
  <2>3. CASE b # 0
    <3>1. NextPart("FR_DISK_ERR") /\ parts # << 0 >>
      BY <1>6, <1>14, <2>3 DEF NotRead, b
    <3> QED
      BY <1>13, <1>14, <2>1, <3>1
  <2> QED
    BY <2>2, <2>3
<1>15. CASE Partitioned(f) /\ fs' = f /\ UNCHANGED <<Fsid, vol>>
  <2>1. f.win = cd[0] /\ cd[0].boot = "mbr"
    BY <1>8, <1>15 DEF Partitioned, b
  <2>2. /\ Skip(cd[0].part) = <<>> => VolumeOf(cd) = None
        /\ Skip(cd[0].part) # <<>> => RestOf(cd, Skip(cd[0].part), trouble')
    BY <1>4, <2>1, TableIs
  <2>3. CASE Skip(cd[0].part) = <<>>
    <3>1. Fails("FR_NO_FILESYSTEM")
      BY <1>15, <2>1, <2>3 DEF Partitioned
    <3> QED
      BY <1>11, <1>15, <2>2, <2>3, <3>1
  <2>4. CASE Skip(cd[0].part) # <<>>
    <3>1. Goes("check") /\ parts' = Skip(cd[0].part) /\ UNCHANGED out
      BY <1>15, <2>1, <2>4 DEF Partitioned
    <3> QED
      BY <1>12, <1>15, <2>2, <2>4, <3>1
  <2> QED
    BY <2>3, <2>4
<1>16. CASE NoFat(f) /\ fs' = f /\ UNCHANGED <<Fsid, vol>>
  <2>1. f.win = cd[b] /\ cd[b].boot # "fat" /\ (cd[b].boot = "mbr" => b # 0) /\ trouble' = trouble
    BY <1>8, <1>9, <1>16 DEF NoFat, b
  <2>2. b = 0 => VolumeOf(cd) = None
    BY <2>1, VolumeIs
  <2>3. CASE cd[b].boot = "odd"
    <3>1. Fails("FR_NO_FILESYSTEM")
      BY <1>16, <2>1, <2>3 DEF NoFat
    <3>2. trouble' \/ VolumeOf(cd) = None
      <4>1. CASE b = 0
        BY <2>2, <4>1
      <4>2. CASE b # 0
        <5>1. RestOf(cd, parts, trouble) /\ cd[0].part \in Seq(Nat)
          BY <1>3, <1>4, <1>6, <4>2 DEF RestOf
        <5> QED
          BY <1>3, <2>1, <2>3, <5>1, RestIs DEF b
      <4> QED
        BY <4>1, <4>2
    <3> QED
      BY <1>11, <1>16, <3>1, <3>2
  <2>4. CASE cd[b].boot # "odd"
    <3>1. NextPart("FR_NO_FILESYSTEM")
      BY <1>16, <2>1, <2>4 DEF NoFat
    <3>2. NoRecord(cd, b)
      BY <2>1, <2>4 DEF NoRecord
    <3>3. parts = << 0 >> => VolumeOf(cd) = None
      BY <1>6, <2>2
    <3> QED
      BY <1>13, <1>16, <3>1, <3>2, <3>3
  <2> QED
    BY <2>3, <2>4
<1>17. CASE /\ f.win # Junk /\ f.win.boot = "fat"
            /\ Fsid' = Fsid + 1 /\ vol' = card
            /\ fs' = [f EXCEPT !.type = TRUE, !.id = Fsid + 1, !.cdir = 0, !.g = Bare(Image[card], Head(parts))]
            /\ Goes("mounted") /\ parts' = <<>> /\ UNCHANGED <<dj, btr, out>>
  <2>1. f.win = cd[b] /\ cd[b].boot = "fat" /\ trouble' = trouble
    BY <1>8, <1>9, <1>17
  <2>2. Bare(cd, b) \in Volumes(cd) /\ (trouble \/ VolumeOf(cd) = Bare(cd, b))
    <3>1. CASE b = 0
      BY <2>1, <3>1, VolumeIs
    <3>2. CASE b # 0
      <4>1. RestOf(cd, parts, trouble) /\ cd[0].part \in Seq(Nat)
        BY <1>3, <1>4, <1>6, <3>2 DEF RestOf
      <4> QED
        BY <1>3, <2>1, <4>1, RestIs DEF b
    <3> QED
      BY <3>1, <3>2
  <2>3. fs'.type = TRUE /\ fs'.cdir = 0 /\ fs'.g = Bare(cd, b) /\ fs'.id = Fsid + 1
    <3>1. fs' = [type |-> TRUE, id |-> Fsid + 1, g |-> Bare(cd, b), cdir |-> 0, winsect |-> f.winsect, win |-> f.win]
      BY <1>8, <1>17 DEF IsFs, cd, b
    <3> HIDE DEF IsFs
    <3> QED
      BY <3>1, Zenon
  <2>4. at' = "mounted" /\ UNCHANGED <<call, ret, from, out>> /\ vol' = card
    BY <1>17 DEF Goes
  <2>5. drive_status = "ready"
    BY <1>1 DEF Inv, Tried
  <2>6. Ready'
    BY <1>1, <1>3, <1>9, <2>2, <2>3, <2>4, <2>5 DEF Ready, Inv, cd
  <2>7. \A h \in Handle : ~Live(h)'
    <3>1. \A h \in Handle : fd_fil[h].id \in Nat /\ fd_fil[h].id <= Fsid /\ Fsid \in Nat
      BY DEF Inv, IInv, Ids
    <3>2. \A h \in Handle : fd_fil'[h].id # fs'.id
      BY <1>1, <2>3, <3>1
    <3> QED
      BY <3>2 DEF Live
  <2>8. Control'
    BY <1>1, <1>3, <1>9, <2>1, <2>3, <2>4 DEF Control, Early, OfDir, OfRead, OfSeek, OnHandle
  <2>9. Tried' /\ Files' /\ Reads' /\ Seeks' /\ Dirs'
    BY <2>4, <2>7 DEF Tried, Files, Reads, Seeks, Dirs, OfDir
  <2>10. UNCHANGED Mapped
    BY <1>1, <1>3, <2>7 DEF Mapped, Live
  <2>11. SVol = None /\ SVol' = [card |-> card, g |-> Bare(cd, b)]
    BY <1>3, <2>3, <2>4 DEF SVol
  <2>12. trouble \/ SVol' = IF VolumeOf(cd) = None THEN None ELSE [card |-> card, g |-> VolumeOf(cd)]
    <3>1. Bare(cd, b) # None
      BY DEF World, Apart, Bare
    <3> QED
      BY <2>2, <2>11, <3>1
  <2>13. Store!Mounted
    BY <1>3, <1>9, <2>1, <2>2, <2>3, <2>4, <2>10, <2>11, <2>12 DEF Store!Mounted, SVol, cd
  <2> QED
    BY <1>2, <2>6, <2>8, <2>9, <2>13 DEF Does, Inv, StoreStep, Store!Next
<1> QED
  BY <1>7, <1>14, <1>15, <1>16, <1>17

--------------------------------------------------------------------------------
(* How a call on a directory ends, and goes on. *)

InPath == at \in OfDir \cup {"mounted"} /\ call.op \in {"open", "cd", "ls"}

\* What such a step leaves alone.
Frame ==
    /\ IInv' /\ UNCHANGED <<card, sd_mounted, drive_status, vol>> /\ trouble' \in BOOLEAN /\ (trouble => trouble')
    /\ fs'.type = fs.type /\ fs'.g = fs.g /\ fs'.id = fs.id

Resolved == Resolve(Disk, fs.g, fs.cdir, call.path)
Leads(c) == LeadsTo(Disk, fs.g, fs.cdir, call.path, Len(call.path), c)

\* What holds at every step of a call with a path.
LEMMA PathStep ==
    ASSUME World, Inv, InPath
    PROVE  /\ at \notin {"idle", "said", "read sector", "seeking"}
           /\ fs.type /\ vol \in Cards \ {None} /\ fs.cdir \in Nat /\ Sound(Disk, fs.g) /\ Tagged(Disk, fs.g)
           /\ drive_status = "ready" /\ trouble \in BOOLEAN
           /\ SVol = [card |-> vol, g |-> fs.g] /\ SVol # None
           /\ call \in Calls /\ call # None /\ ret = None /\ call.op \notin OnHandle /\ IsPath(call.path)
           /\ Len(call.path) \in Nat
<1>1. at \notin {"idle", "said", "read sector", "seeking"}
  BY DEF InPath, OfDir
<1>2. fs.type
  BY DEF InPath, Inv, Control
<1>3. /\ vol \in Cards \ {None} /\ fs.cdir \in Nat /\ drive_status = "ready" /\ trouble \in BOOLEAN
      /\ fs.g \in Volumes(Image[vol])
  BY <1>2 DEF Inv, Control, Ready
<1>4. Sound(Disk, fs.g) /\ Tagged(Disk, fs.g)
  BY <1>3, SoundVolume DEF Disk, World
<1>5. SVol = [card |-> vol, g |-> fs.g] /\ SVol # None
  BY <1>2 DEF SVol, World, Apart
<1>6. call \in Calls /\ call # None /\ ret = None /\ call.op \notin OnHandle /\ IsPath(call.path)
  BY <1>1, CallIs DEF InPath, OnHandle
<1>7. Len(call.path) \in Nat
  BY <1>6 DEF IsPath
<1> QED
  BY <1>1, <1>2, <1>3, <1>4, <1>5, <1>6, <1>7

\* The shell goes on only when a mount has succeeded.
LEMMA PathTold == ASSUME Inv, InPath, call.op \in {"cd", "ls"} PROVE sd_mounted
  BY DEF Inv, Control, InPath, Early

\* The reasons a path can give.
LEMMA PathReasons ==
    ASSUME World, Inv, InPath
    PROVE  /\ call.op = "open" /\ File(Disk, fs.g, fs.cdir, call.path) = None => Store!Reason
           /\ call.op # "open" /\ Dir(Disk, fs.g, fs.cdir, call.path) = None => Store!Reason
           /\ Torn(Disk, fs.g, fs.cdir, call.path) => Store!Reason
<1>1. fs.type /\ SVol # None /\ SVol = [card |-> vol, g |-> fs.g]
  BY PathStep
<1>2. call.op \in {"open", "cd", "ls"}
  BY DEF InPath
<1>3. call.op = "open" /\ File(Disk, fs.g, fs.cdir, call.path) = None => Store!Reason
  BY <1>1, <1>2 DEF Store!Reason, SVol, Disk
<1>4. call.op # "open" /\ Dir(Disk, fs.g, fs.cdir, call.path) = None => Store!Reason
  BY <1>1, <1>2 DEF Store!Reason, SVol, Disk
<1>5. Torn(Disk, fs.g, fs.cdir, call.path) => Store!Reason
  BY <1>1, <1>2 DEF Store!Reason, SVol, Disk
<1> QED
  BY <1>3, <1>4, <1>5

\* Such a step leaves the files as programs see them.
LEMMA PathMap ==
    ASSUME World, Inv, InPath, Frame, UNCHANGED fileVars, call' = call
    PROVE  UNCHANGED Mapped /\ UNCHANGED SVol
<1>1. \A h \in Handle : PosOf(h)' = PosOf(h)
  BY PathStep DEF PosOf, fileVars
<1> QED
  BY <1>1, SameMap DEF Frame, fileVars

\* It may end with any answer.
LEMMA PathEnds ==
    ASSUME World, Inv, InPath, Frame, UNCHANGED fileVars, fs'.cdir \in Nat, NEW res, NEW o, Says(res, o)
    PROVE  Inv'
  BY PathStep, EndsHere DEF Frame, fileVars

\* It fails for a reason.
LEMMA PathFails ==
    ASSUME World, Inv, InPath, Frame, UNCHANGED fileVars, fs'.cdir = fs.cdir,
           NEW res, res # "OK", Fails(res), Store!Reason \/ trouble'
    PROVE  Does
<1>1. call' = call
  BY DEF Fails, Says
<1>2. UNCHANGED Mapped /\ UNCHANGED SVol
  BY <1>1, PathMap
<1>3. Inv'
  BY PathStep, PathEnds DEF Fails
<1>4. StoreStep
  BY <1>2, PathStep, Refused DEF Frame
<1> QED
  BY <1>3, <1>4 DEF Does

\* What the path has led to is a directory.
LEMMA LeadsIs ==
    ASSUME World, Inv, InPath, NEW c, Leads(c)
    PROVE  /\ c \in Nat /\ Dir(Disk, fs.g, fs.cdir, call.path) = [clust |-> c]
           /\ Dir(Disk, fs.g, fs.cdir, call.path) # None
           /\ File(Disk, fs.g, fs.cdir, call.path) = None
           /\ Broken(Disk, fs.g, c) => Torn(Disk, fs.g, fs.cdir, call.path)
<1>1. IsPath(call.path) /\ Len(call.path) \in Nat /\ Tagged(Disk, fs.g) /\ fs.cdir \in Nat
  BY PathStep
<1>2. Apart
  BY DEF World
<1>3. /\ Dir(Disk, fs.g, fs.cdir, call.path) = [clust |-> c] /\ File(Disk, fs.g, fs.cdir, call.path) = None
      /\ Broken(Disk, fs.g, c) => Torn(Disk, fs.g, fs.cdir, call.path)
  BY <1>1, WayIs DEF Leads
<1>4. c \in Nat
  <2>1. Len(call.path) = 0 \/ Len(call.path) - 1 \in Nat
    BY <1>1
  <2>2. CASE Len(call.path) = 0
    BY <1>1, <1>2, <2>2, WalkIs DEF Leads, LeadsTo
  <2>3. CASE Len(call.path) # 0
    <3>1. Place(Walk(Disk, fs.g, fs.cdir, call.path)[Len(call.path)])
      BY <1>1, <1>2, WalkIs
    <3> QED
      BY <3>1 DEF Leads, LeadsTo, Place
  <2> QED
    BY <2>2, <2>3
<1> QED
  BY <1>2, <1>3, <1>4 DEF Apart

\* It ends a cd.
LEMMA PathCd ==
    ASSUME World, Inv, InPath, Frame, UNCHANGED fileVars, UNCHANGED trouble, call.op = "cd",
           NEW c, Leads(c), fs'.cdir = c, Says("OK", 0)
    PROVE  Does
<1>1. ret' = [res |-> "OK", out |-> 0] /\ ret' # None /\ call' = call
  BY Answers
<1>2. UNCHANGED Mapped /\ UNCHANGED SVol
  BY <1>1, PathMap
<1>3. Inv'
  BY LeadsIs, PathEnds
<1>4. Store!AnswerCd
  <2>1. Dir(Disk, fs.g, fs.cdir, call.path) = [clust |-> c] /\ Dir(Disk, fs.g, fs.cdir, call.path) # None
    BY LeadsIs
  <2>2. SVol # None /\ SVol = [card |-> vol, g |-> fs.g] /\ fs.type
    BY PathStep
  <2> QED
    BY <1>1, <1>2, <2>1, <2>2, PathTold DEF Store!AnswerCd, Store!Answer, SVol, Disk, Frame
<1>5. StoreStep
  BY <1>1, <1>4, PathStep DEF StoreStep, Store!Next
<1> QED
  BY <1>3, <1>5 DEF Does

\* It ends an ls.
LEMMA PathLs ==
    ASSUME World, Inv, InPath, Frame, UNCHANGED fileVars, UNCHANGED trouble, call.op = "ls",
           NEW c, Leads(c), fs'.cdir = fs.cdir, NEW o, o = Listing(Disk, fs.g, c), Says("OK", o)
    PROVE  Does
<1>1. ret' = [res |-> "OK", out |-> o] /\ ret' # None /\ call' = call
  BY Answers
<1>2. UNCHANGED Mapped /\ UNCHANGED SVol
  BY <1>1, PathMap
<1>3. Inv'
  BY PathStep, PathEnds
<1>4. Store!AnswerLs
  <2>1. Dir(Disk, fs.g, fs.cdir, call.path) = [clust |-> c] /\ Dir(Disk, fs.g, fs.cdir, call.path) # None
    BY LeadsIs
  <2>2. SVol # None /\ SVol = [card |-> vol, g |-> fs.g] /\ fs.type
    BY PathStep
  <2>3. o = Listing(Disk, fs.g, Dir(Disk, fs.g, fs.cdir, call.path).clust)
    BY <2>1
  <2> QED
    BY <1>1, <1>2, <2>1, <2>2, <2>3, PathTold DEF Store!AnswerLs, Store!Answer, SVol, Disk, Frame
<1>5. StoreStep
  BY <1>1, <1>4, PathStep DEF StoreStep, Store!Next
<1> QED
  BY <1>3, <1>5 DEF Does

--------------------------------------------------------------------------------
(* A file is opened. *)

\* The handle that open takes is the least that is free.
LEMMA FreeHandle ==
    ASSUME Inv, \E h \in Handle : ~fd_used[h], NEW h,
           h = CHOOSE i \in Handle : ~fd_used[i] /\ \A k \in Handle : k < i => fd_used[k]
    PROVE  h \in Handle /\ ~fd_used[h] /\ \A k \in Handle : k < h => fd_used[k]
<1> DEFINE T == {i \in Handle : ~fd_used[i]}
<1>1. T \subseteq Nat /\ T # {}
  BY FatAssumption
<1>2. PICK m \in T : \A n \in T : ~(n < m)
  <2> HIDE DEF T
  <2> QED
    BY <1>1, LeastNumber
<1>3. m \in Handle /\ ~fd_used[m] /\ \A k \in Handle : k < m => fd_used[k]
  BY <1>2
<1> QED
  BY <1>3

\* It ends an open.
LEMMA PathOpens ==
    ASSUME World, Inv, InPath, Frame, UNCHANGED trouble, call.op = "open", NEW e, e = Resolved,
           e # None, ~e.dir, e.clust \in Nat, e.size \in Nat, Len(call.path) # 0,
           fs'.cdir = fs.cdir, Opened(e)
    PROVE  Does
<1>1. PICK h \in Handle :
         /\ h = CHOOSE i \in Handle : ~fd_used[i] /\ \A k \in Handle : k < i => fd_used[k]
         /\ ~fd_used[h] /\ \A k \in Handle : k < h => fd_used[k]
  <2>1. \E k \in Handle : ~fd_used[k]
    BY DEF Inv, Control, InPath, Early
  <2> QED
    BY <2>1, FreeHandle
<1> DEFINE n == [fs |-> TRUE, id |-> fs.id, sclust |-> e.clust, objsize |-> e.size, err |-> FALSE,
                 fptr |-> 0, clust |-> fd_fil[h].clust, sect |-> 0, buf |-> fd_fil[h].buf]
           o == [dir |-> fs.cdir, path |-> call.path]
<1>2. /\ fd_fil' = [fd_fil EXCEPT ![h] = n]
      /\ fd_used' = [fd_used EXCEPT ![h] = TRUE]
      /\ of' = [of EXCEPT ![h] = o]
      /\ Says("OK", h)
  BY <1>1 DEF Opened
<1>3. n.fs = TRUE /\ n.id = fs.id /\ n.sclust = e.clust /\ n.objsize = e.size /\ n.err = FALSE /\ n.fptr = 0
  OBVIOUS
<1>4. o.dir = fs.cdir /\ o.path = call.path
  OBVIOUS
<1> HIDE DEF n
<1>5. /\ fd_fil = [k \in Handle |-> fd_fil[k]] /\ fd_used \in [Handle -> BOOLEAN]
      /\ of = [k \in Handle |-> of[k]]
  BY DEF Inv, IInv, Shapes, Ready
<1>6. /\ fd_fil'[h] = n /\ fd_used'[h] = TRUE /\ of'[h] = o
      /\ \A k \in Handle : k # h => fd_fil'[k] = fd_fil[k] /\ fd_used'[k] = fd_used[k] /\ of'[k] = of[k]
  BY <1>1, <1>2, <1>5
<1>7. /\ fs.type /\ SVol = [card |-> vol, g |-> fs.g] /\ SVol # None /\ call.op \notin OnHandle
      /\ call # None /\ ret = None /\ fs.cdir \in Nat /\ drive_status = "ready"
  BY PathStep
<1>8. ret' = [res |-> "OK", out |-> h] /\ ret' # None /\ call' = call
  BY <1>2, Answers
<1>9. /\ Live(h)' /\ \A k \in Handle : k # h => Live(k)' = Live(k)
  <2>1. fs'.type = fs.type /\ fs'.id = fs.id
    BY DEF Frame
  <2>2. Live(h)'
    BY <1>1, <1>3, <1>6, <1>7, <2>1 DEF Live
  <2>3. \A k \in Handle : k # h => Live(k)' = Live(k)
    BY <1>6, <2>1 DEF Live
  <2> QED
    BY <2>2, <2>3
<1>10. Ready'
  <2>1. fd_used' \in [Handle -> BOOLEAN] /\ of' = [k \in Handle |-> of'[k]]
    BY <1>1, <1>2, <1>5
  <2> QED
    BY <1>7, <2>1 DEF Inv, Ready, Frame
<1>11. Files'
  <2>1. Disk' = Disk /\ fs'.g = fs.g
    BY DEF Disk, Frame
  <2>2. ASSUME NEW k \in Handle, Live(k)'
        PROVE  /\ Named(Disk, fs.g, of'[k], fd_fil'[k]) /\ Sized(fd_fil'[k])
               /\ Settled(Disk, fs.g, fd_fil'[k])
    <3>1. CASE k = h
      <4>1. o.path # <<>>
        <5>1. Len(<<>>) = 0
          OBVIOUS
        <5> QED
          BY <1>4, <5>1
      <4>2. Named(Disk, fs.g, o, n)
        BY <1>3, <1>4, <4>1 DEF Named, Resolved
      <4>3. Sized(n)
        BY <1>3 DEF Sized
      <4>4. Settled(Disk, fs.g, n)
        <5>1. 0 % SS = 0 /\ ~(0 > 0)
          BY FatVolumeAssumption
        <5> QED
          BY <1>3, <5>1 DEF Settled
      <4> QED
        BY <1>6, <3>1, <4>2, <4>3, <4>4
    <3>2. CASE k # h
      <4>1. at \notin {"read sector", "seeking"}
        BY PathStep
      <4> QED
        BY <1>6, <1>9, <2>2, <3>2, <4>1 DEF Inv, Files, Moving
    <3> QED
      BY <3>1, <3>2
  <2> QED
    BY <2>1, <2>2 DEF Files
<1>12. Inv'
  <2>1. Control' /\ Tried' /\ Reads' /\ Seeks' /\ Dirs'
    BY <1>2, PathStep, Ended
  <2> QED
    BY <1>10, <1>11, <2>1 DEF Inv, Frame
<1>13. Mapped' = [Mapped EXCEPT ![h] = [dir |-> fs.cdir, path |-> call.path, pos |-> 0]]
  <2>1. \A k \in Handle : k # h => PosOf(k)' = PosOf(k)
    BY <1>6, <1>7, <1>8 DEF PosOf
  <2>2. PosOf(h)' = 0
    BY <1>1, <1>3, <1>6, <1>8 DEF PosOf
  <2>3. ASSUME NEW k \in Handle
        PROVE  Mapped'[k] = IF k = h THEN [dir |-> fs.cdir, path |-> call.path, pos |-> 0] ELSE Mapped[k]
    <3>1. CASE k = h
      BY <1>1, <1>4, <1>6, <1>9, <2>2, <3>1 DEF Mapped
    <3>2. CASE k # h
      BY <1>6, <1>9, <2>1, <3>2 DEF Mapped
    <3> QED
      BY <3>1, <3>2
  <2> QED
    BY <2>3 DEF Mapped
<1>14. Store!AnswerOpen
  <2>1. File(Disk, fs.g, fs.cdir, call.path) # None
    <3>1. File(Disk, fs.g, fs.cdir, call.path) = FileAt(Disk, fs.g, e.clust, e.size)
      BY DEF File, Resolved
    <3> QED
      BY <3>1 DEF FileAt, World, Apart
  <2>2. Mapped[h] = None /\ \A k \in Handle : k < h => Mapped[k] # None
    BY <1>1, MappedIs
  <2>3. SVol' = SVol
    BY DEF SVol, Frame
  <2> QED
    BY <1>1, <1>7, <1>8, <1>13, <2>1, <2>2, <2>3 DEF Store!AnswerOpen, Store!Answer, SVol, Disk, Frame
<1>15. StoreStep
  BY <1>7, <1>8, <1>14 DEF StoreStep, Store!Next
<1> QED
  BY <1>12, <1>15 DEF Does

--------------------------------------------------------------------------------
(* Directory objects. *)

\* The fields of a directory object at the top of its directory.
LEMMA SdiIs ==
    ASSUME NEW d, IsDj(d), NEW c, NEW n, n = Sdi(d, c)
    PROVE  /\ IsDj(n) /\ n.sclust = c /\ n.clust = TopCluster(g, c) /\ n.sect = TopSector(g, c)
           /\ n.dptr = 0 /\ n.ord = -1 /\ n.path = d.path
<1> DEFINE a == [d EXCEPT !.sclust = c]
           b == [a EXCEPT !.clust = TopCluster(g, c)]
           e == [b EXCEPT !.sect = TopSector(g, c)]
           i == [e EXCEPT !.dptr = 0]
           j == [i EXCEPT !.ord = -1]
           k == [j EXCEPT !.sum = None]
           l == [k EXCEPT !.name = None]
<1>1. n = l
  BY DEF Sdi
<1>2. IsDj(a) /\ a.sclust = c /\ a.path = d.path
  BY DEF IsDj
<1> HIDE DEF a
<1>3. IsDj(b) /\ b.clust = TopCluster(g, c) /\ b.sclust = a.sclust /\ b.path = a.path
  BY <1>2 DEF IsDj
<1> HIDE DEF b
<1>4. IsDj(e) /\ e.sect = TopSector(g, c) /\ e.clust = b.clust /\ e.sclust = b.sclust /\ e.path = b.path
  BY <1>3 DEF IsDj
<1> HIDE DEF e
<1>5. IsDj(i) /\ i.dptr = 0 /\ i.sect = e.sect /\ i.clust = e.clust /\ i.sclust = e.sclust /\ i.path = e.path
  BY <1>4 DEF IsDj
<1> HIDE DEF i
<1>6. /\ IsDj(j) /\ j.ord = -1 /\ j.dptr = i.dptr /\ j.sect = i.sect /\ j.clust = i.clust
      /\ j.sclust = i.sclust /\ j.path = i.path
  BY <1>5 DEF IsDj
<1> HIDE DEF j
<1>7. /\ IsDj(k) /\ k.ord = j.ord /\ k.dptr = j.dptr /\ k.sect = j.sect /\ k.clust = j.clust
      /\ k.sclust = j.sclust /\ k.path = j.path
  BY <1>6 DEF IsDj
<1> HIDE DEF k
<1>8. /\ IsDj(l) /\ l.ord = k.ord /\ l.dptr = k.dptr /\ l.sect = k.sect /\ l.clust = k.clust
      /\ l.sclust = k.sclust /\ l.path = k.path
  BY <1>7 DEF IsDj
<1> HIDE DEF l
<1> QED
  BY <1>1, <1>2, <1>3, <1>4, <1>5, <1>6, <1>7, <1>8

\* The fields of one that begins another entry.
LEMMA ResetIs ==
    ASSUME NEW d, IsDj(d), NEW n, n = Reset(d)
    PROVE  /\ IsDj(n) /\ n.sclust = d.sclust /\ n.clust = d.clust /\ n.sect = d.sect
           /\ n.dptr = d.dptr /\ n.ord = -1 /\ n.path = d.path
<1> DEFINE a == [d EXCEPT !.ord = -1]
           b == [a EXCEPT !.name = None]
<1>1. n = b
  BY DEF Reset
<1>2. /\ IsDj(a) /\ a.ord = -1 /\ a.dptr = d.dptr /\ a.sect = d.sect /\ a.clust = d.clust
      /\ a.sclust = d.sclust /\ a.path = d.path
  BY DEF IsDj
<1> HIDE DEF a
<1>3. /\ IsDj(b) /\ b.ord = a.ord /\ b.dptr = a.dptr /\ b.sect = a.sect /\ b.clust = a.clust
      /\ b.sclust = a.sclust /\ b.path = a.path
  BY <1>2 DEF IsDj
<1> HIDE DEF b
<1> QED
  BY <1>1, <1>2, <1>3

\* The fields of one that is new.
LEMMA NoDirIs == IsDj(NoDir) /\ \A p : IsDj([NoDir EXCEPT !.path = p]) /\ [NoDir EXCEPT !.path = p].path = p
  BY DEF NoDir, IsDj

\* The fields of one that goes to the next name.
LEMMA DeeperIs ==
    ASSUME NEW d, IsDj(d)
    PROVE  IsDj([d EXCEPT !.path = Tail(@)]) /\ [d EXCEPT !.path = Tail(@)].path = Tail(d.path)
<1>1. \A t : IsDj([d EXCEPT !.path = t]) /\ [d EXCEPT !.path = t].path = t
  BY DEF IsDj
<1>2. [d EXCEPT !.path = Tail(@)] = [d EXCEPT !.path = Tail(d.path)]
  BY DEF IsDj
<1> QED
  BY <1>1, <1>2

\* At the top no long name has begun.
LEMMA RunsAtTop ==
    ASSUME NEW dir, NEW d, d.ord = -1, NEW any
    PROVE  Runs(dir, d, 0, any)
<1>1. PICK p \in Nat : p = 0
  OBVIOUS
<1>2. Runs(dir, d, p, any)
  BY ONLY <1>1, RunsReset, d.ord = -1
<1> QED
  BY <1>1, <1>2

--------------------------------------------------------------------------------
\* A step of the path goes on in some other place.
LEMMA PathGoes ==
    ASSUME World, Inv, InPath, Frame, UNCHANGED fileVars, fs'.cdir = fs.cdir,
           NEW step \in OfDir, Goes(step), step \in {"list", "list next"} => call.op = "ls",
           step \notin {"list", "list next"} => out' = <<>>, Dirs'
    PROVE  Does
<1>1. at' = step /\ UNCHANGED <<call, ret, from>>
  BY DEF Goes
<1>2. /\ at \notin {"idle", "said", "read sector", "seeking"} /\ fs.type /\ call \in Calls /\ ret = None
      /\ call.op \in {"open", "cd", "ls"} /\ fs.cdir \in Nat /\ drive_status = "ready"
  BY PathStep DEF InPath
<1>3. /\ call.op = "open" => \E h \in Handle : ~fd_used[h]
      /\ call.op \in {"cd", "ls"} => sd_mounted
  BY DEF Inv, Control, InPath, Early
<1>4. UNCHANGED <<sd_mounted, fd_used, fd_fil, of, vol, card, drive_status>> /\ fs'.type = fs.type /\ trouble' \in BOOLEAN
  BY DEF Frame, fileVars
<1>5. Control'
  BY <1>1, <1>2, <1>3, <1>4 DEF Control, Early, OfDir, OfRead, OfSeek
<1>6. Tried' /\ Reads' /\ Seeks'
  BY <1>1 DEF Tried, Reads, Seeks, OfDir
<1>7. Ready' /\ Files'
  BY <1>2, <1>4, ReadyKept, FilesKept DEF Frame
<1>8. UNCHANGED Mapped /\ UNCHANGED SVol
  BY <1>1, PathMap
<1>9. StoreStep
  BY <1>1, <1>2, <1>4, <1>8, Inner DEF Frame
<1> QED
  BY <1>5, <1>6, <1>7, <1>9 DEF Does, Inv, Frame

\* The search for a name begins in its directory.
LEMMA IntoPath ==
    ASSUME World, Inv, InPath, Frame, UNCHANGED fileVars, fs'.cdir = fs.cdir, out = <<>>,
           NEW d, IsDj(d), NEW c \in Nat, Into(d, c, "find"),
           \A n : n.sclust = c /\ n.path = d.path => Way(Disk, fs.g, fs.cdir, call.path, n)
    PROVE  Does
<1>1. PICK n : n = Sdi(d, c)
  OBVIOUS
<1>2. /\ IsDj(n) /\ n.sclust = c /\ n.clust = TopCluster(fs.g, c) /\ n.sect = TopSector(fs.g, c)
      /\ n.dptr = 0 /\ n.ord = -1 /\ n.path = d.path
  BY <1>1, SdiIs DEF g
<1>3. Way(Disk, fs.g, fs.cdir, call.path, n)
  BY <1>2
<1>4. CASE TopSector(fs.g, c) = 0
  <2>1. Torn(Disk, fs.g, fs.cdir, call.path)
    BY <1>2, <1>3, <1>4, PathStep, WayIs DEF Broken
  <2>2. Fails("FR_INT_ERR")
    BY <1>4 DEF Into, g
  <2> QED
    BY <2>1, <2>2, PathFails, PathReasons
<1>5. CASE TopSector(fs.g, c) # 0
  <2>1. Goes("find") /\ dj' = n /\ out' = out
    BY <1>1, <1>5 DEF Into, g
  <2>2. Sound(Disk, fs.g)
    BY PathStep
  <2>3. Stands(Disk, fs.g, n)
    BY <1>2, <1>5, <2>2, AtTop
  <2>4. Runs(DirAt(Disk, fs.g, n.sclust), n, 0, FALSE)
    BY <1>2, RunsAtTop
  <2>5. Missed(Disk, fs.g, n, 0)
    <3>1. \A i \in Items(DirAt(Disk, fs.g, n.sclust)) : i \in Nat /\ i >= 1
      BY DirIs DEF Items
    <3> QED
      BY <3>1 DEF Missed
  <2>6. Looks(Disk, fs.g, fs.cdir, call.path, n, n.dptr)
    BY <1>2, <1>3, <2>4, <2>5 DEF Looks
  <2>7. Disk' = Disk /\ fs'.g = fs.g /\ at' = "find" /\ call' = call
    BY <2>1 DEF Disk, Frame, Goes
  <2>8. Dirs'
    BY <1>2, <2>1, <2>3, <2>6, <2>7 DEF Dirs, OfDir
  <2> QED
    BY <2>1, <2>8, PathGoes DEF OfDir
<1> QED
  BY <1>4, <1>5

\* A list begins.
LEMMA IntoList ==
    ASSUME World, Inv, InPath, Frame, UNCHANGED fileVars, fs'.cdir = fs.cdir, out = <<>>,
           NEW c, Leads(c), Into(NoDir, c, "list"), call.op = "ls"
    PROVE  Does
<1>1. PICK n : n = Sdi(NoDir, c)
  OBVIOUS
<1>2. /\ IsDj(n) /\ n.sclust = c /\ n.clust = TopCluster(fs.g, c) /\ n.sect = TopSector(fs.g, c)
      /\ n.dptr = 0 /\ n.ord = -1
  BY <1>1, SdiIs, NoDirIs DEF g
<1>3. c \in Nat
  BY LeadsIs
<1>4. CASE TopSector(fs.g, c) = 0
  <2>1. Torn(Disk, fs.g, fs.cdir, call.path)
    BY <1>4, LeadsIs DEF Broken
  <2>2. Fails("FR_INT_ERR")
    BY <1>4 DEF Into, g
  <2> QED
    BY <2>1, <2>2, PathFails, PathReasons
<1>5. CASE TopSector(fs.g, c) # 0
  <2>1. Goes("list") /\ dj' = n /\ out' = out
    BY <1>1, <1>5 DEF Into, g
  <2>2. Sound(Disk, fs.g)
    BY PathStep
  <2>3. Stands(Disk, fs.g, n)
    BY <1>2, <1>3, <1>5, <2>2, AtTop
  <2>4. Runs(DirAt(Disk, fs.g, n.sclust), n, 0, TRUE)
    BY <1>2, RunsAtTop
  <2>5. Prints(Disk, fs.g, fs.cdir, call.path, n, n.dptr, <<>>)
    BY <1>2, <2>4, ListedIs DEF Prints, Leads
  <2>7. Disk' = Disk /\ fs'.g = fs.g /\ at' = "list" /\ call' = call
    BY <2>1 DEF Disk, Frame, Goes
  <2>8. Dirs'
    BY <1>2, <2>1, <2>3, <2>5, <2>7 DEF Dirs, OfDir
  <2> QED
    BY <2>1, <2>8, PathGoes DEF OfDir
<1> QED
  BY <1>4, <1>5

--------------------------------------------------------------------------------
(* The steps of a search and of a list. *)

\* What a step of a directory has in its window.
LEMMA DirFrame ==
    ASSUME World, Inv, at \in OfDir, IInv', UNCHANGED vol, NEW s \in Nat, NEW f \in move_window(fs, s),
           Noted(f.win), fs' = f \/ \E c : fs' = [f EXCEPT !.cdir = c]
    PROVE  /\ InPath /\ Frame /\ IsFs(f) /\ f.cdir = fs.cdir
           /\ f.win = Junk => trouble'
           /\ f.win # Junk => trouble' = trouble /\ f.win = Disk[s]
<1>1. InPath
  BY DEF InPath, Inv, Control
<1>2. IsFs(fs) /\ Own(fs) /\ Shows(fs) /\ fs.type
  BY <1>1, PathStep DEF Inv, IInv, Shapes
<1>3. /\ IsFs(f) /\ f.type = fs.type /\ f.id = fs.id /\ f.g = fs.g /\ f.cdir = fs.cdir
      /\ s = fs.winsect => f = fs
      /\ s # fs.winsect => f.win = Junk \/ (up /\ f.win = Image[card][s])
  <2>1. /\ IsFs(f) /\ f.type = fs.type /\ f.id = fs.id /\ f.g = fs.g /\ f.cdir = fs.cdir
        /\ s = fs.winsect => f = fs
    BY <1>2, Moves
  <2>2. s # fs.winsect => f.win = Junk \/ (up /\ f.win = Image[card][s])
    BY <1>2, Moves
  <2> QED
    BY <2>1, <2>2
<1>4. /\ trouble' \in BOOLEAN /\ (trouble => trouble') /\ (f.win = Junk => trouble')
      /\ (f.win # Junk => trouble' = trouble)
      /\ UNCHANGED <<card, sd_mounted, up, drive_status>>
  BY NotedIs
<1>5. f.win # Junk => f.win = Disk[s]
  <2>1. CASE s = fs.winsect
    <3>1. fs.winsect # NoSector
      BY <2>1 DEF NoSector
    <3> QED
      BY <1>2, <1>3, <2>1, <3>1 DEF Shows, Disk
  <2>2. CASE s # fs.winsect
    BY <1>2, <1>3, <2>2 DEF Own, Disk
  <2> QED
    BY <2>1, <2>2
<1>6. fs'.type = fs.type /\ fs'.g = fs.g /\ fs'.id = fs.id
  <2>1. ASSUME NEW c, fs' = [f EXCEPT !.cdir = c] PROVE fs'.type = f.type /\ fs'.g = f.g /\ fs'.id = f.id
    BY <1>3, <2>1 DEF IsFs
  <2> QED
    BY <1>3, <2>1
<1> QED
  BY <1>1, <1>3, <1>4, <1>5, <1>6 DEF Frame

\* A search depends on where the object stands no more than the rest of it says.
LEMMA SameLooks ==
    ASSUME NEW cd, NEW v, NEW cwd, NEW path, NEW d, NEW e, NEW p, NEW o, e.sclust = d.sclust,
           e.ord = d.ord, e.sum = d.sum, e.name = d.name, e.path = d.path
    PROVE  /\ Looks(cd, v, cwd, path, d, p) => Looks(cd, v, cwd, path, e, p)
           /\ Prints(cd, v, cwd, path, d, p, o) => Prints(cd, v, cwd, path, e, p, o)
<1>1. \A dir, any : Runs(dir, d, p, any) => Runs(dir, e, p, any)
  BY DEF Runs
<1>2. Way(cd, v, cwd, path, d) => Way(cd, v, cwd, path, e)
  BY DEF Way
<1>3. Missed(cd, v, d, p) => Missed(cd, v, e, p)
  BY DEF Missed
<1> QED
  BY <1>1, <1>2, <1>3 DEF Looks, Prints

\* A search ends without an entry.
LEMMA NotFoundDoes ==
    ASSUME World, Inv, at \in {"find", "find next"}, Frame, UNCHANGED trouble, NEW f, IsFs(f), f.cdir = fs.cdir,
           NotFound(f), IsDj(dj), dj.sclust \in Nat, Way(Disk, fs.g, fs.cdir, call.path, dj),
           Missed(Disk, fs.g, dj, DirLen(Disk, fs.g, dj.sclust))
    PROVE  Does
<1>1. InPath /\ out = <<>>
  BY DEF InPath, OfDir, Inv, Control
<1>2. /\ IsPath(call.path) /\ Len(call.path) \in Nat /\ Tagged(Disk, fs.g) /\ fs.cdir \in Nat /\ Apart
  BY <1>1, PathStep DEF World
<1>3. /\ Len(dj.path) \in Nat \ {0}
      /\ Head(dj.path) \notin Dots => Resolved = None
      /\ Head(dj.path) \in Dots /\ Len(dj.path) > 1 =>
            \A n : n.sclust = dj.sclust /\ n.path = Tail(dj.path) => Way(Disk, fs.g, fs.cdir, call.path, n)
      /\ Head(dj.path) \in Dots /\ Len(dj.path) = 1 => Leads(dj.sclust)
  BY <1>2, Misses DEF Resolved, Leads
<1>8. \/ Len(dj.path) > 1 /\ Len(dj.path) # 1
      \/ Len(dj.path) = 1 /\ ~(Len(dj.path) > 1)
  <2>1. PICK n \in Nat \ {0} : n = Len(dj.path)
    BY <1>3
  <2>2. (n > 1 /\ n # 1) \/ (n = 1 /\ ~(n > 1))
    BY ONLY n \in Nat \ {0}
  <2> QED
    BY <2>1, <2>2
<1>4. UNCHANGED fileVars /\ call.op \in {"open", "cd", "ls"}
  BY <1>1 DEF NotFound, InPath
<1>5. CASE Head(dj.path) \notin Dots
  <2>1. fs' = f /\ \E r : r # "OK" /\ Fails(r)
    BY <1>5 DEF NotFound
  <2>2. File(Disk, fs.g, fs.cdir, call.path) = None /\ Dir(Disk, fs.g, fs.cdir, call.path) = None
    BY <1>3, <1>5 DEF File, Dir, Resolved
  <2>3. Store!Reason
    BY <1>1, <2>2, PathReasons
  <2> QED
    BY <1>1, <1>4, <2>1, <2>3, PathFails
<1>6. CASE Head(dj.path) \in Dots /\ Len(dj.path) > 1
  <2>1. PICK d : d = [dj EXCEPT !.path = Tail(@)]
    OBVIOUS
  <2>2. Into(d, dj.sclust, "find") /\ fs' = f
    BY <1>6, <1>8, <2>1 DEF NotFound
  <2>3. IsDj(d) /\ d.path = Tail(dj.path)
    BY <2>1, DeeperIs
  <2>4. \A n : n.sclust = dj.sclust /\ n.path = d.path => Way(Disk, fs.g, fs.cdir, call.path, n)
    BY <1>3, <1>6, <2>3
  <2> QED
    BY <1>1, <1>4, <2>2, <2>3, <2>4, IntoPath
<1>7. CASE Head(dj.path) \in Dots /\ Len(dj.path) = 1
  <2>1. Leads(dj.sclust)
    BY <1>3, <1>7
  <2>2. \/ call.op = "open" /\ Fails("FR_INVALID_NAME") /\ fs' = f
        \/ call.op = "cd" /\ Cd(f, dj.sclust)
        \/ call.op = "ls" /\ Into(NoDir, dj.sclust, "list") /\ fs' = f
    BY <1>7, <1>8 DEF NotFound
  <2>3. CASE call.op = "open" /\ Fails("FR_INVALID_NAME") /\ fs' = f
    <3>1. Store!Reason
      BY <1>1, <2>1, <2>3, LeadsIs, PathReasons
    <3> QED
      BY <1>1, <1>4, <2>3, <3>1, PathFails
  <2>4. CASE call.op = "cd" /\ Cd(f, dj.sclust)
    <3>1. fs'.cdir = dj.sclust /\ Says("OK", 0)
      BY <2>4 DEF Cd, IsFs
    <3> QED
      BY <1>1, <1>4, <2>1, <2>4, <3>1, PathCd
  <2>5. CASE call.op = "ls" /\ Into(NoDir, dj.sclust, "list") /\ fs' = f
    BY <1>1, <1>4, <2>1, <2>5, IntoList
  <2> QED
    BY <2>2, <2>3, <2>4, <2>5
<1> QED
  BY <1>8, <1>5, <1>6, <1>7

\* A search ends at an entry.
LEMMA FoundDoes ==
    ASSUME World, Inv, at = "find", Frame, UNCHANGED trouble, NEW f, IsFs(f), f.cdir = fs.cdir, NEW e, Found(f, e),
           IsDj(dj), Way(Disk, fs.g, fs.cdir, call.path, dj), NEW p \in Nat, Missed(Disk, fs.g, dj, p),
           e = DirAt(Disk, fs.g, dj.sclust)[p + 1], p + 1 \in Items(DirAt(Disk, fs.g, dj.sclust)),
           Names(DirAt(Disk, fs.g, dj.sclust), p + 1, Head(dj.path))
    PROVE  Does
<1>1. InPath /\ out = <<>>
  BY DEF InPath, OfDir, Inv, Control
<1>2. /\ IsPath(call.path) /\ Len(call.path) \in Nat /\ Tagged(Disk, fs.g) /\ fs.cdir \in Nat /\ Apart
  BY <1>1, PathStep DEF World
<1>3. /\ e # None /\ e.dir \in BOOLEAN /\ e.clust \in Nat /\ e.size \in Nat
      /\ Len(dj.path) \in Nat \ {0}
      /\ Len(dj.path) > 1 /\ e.dir =>
            \A n : n.sclust = e.clust /\ n.path = Tail(dj.path) => Way(Disk, fs.g, fs.cdir, call.path, n)
      /\ Len(dj.path) > 1 /\ ~e.dir => Resolved = None
      /\ Len(dj.path) = 1 => Resolved = e
  BY <1>2, Finds DEF Resolved
<1>8. \/ Len(dj.path) > 1 /\ Len(dj.path) # 1
      \/ Len(dj.path) = 1 /\ ~(Len(dj.path) > 1)
  <2>1. PICK n \in Nat \ {0} : n = Len(dj.path)
    BY <1>3
  <2>2. (n > 1 /\ n # 1) \/ (n = 1 /\ ~(n > 1))
    BY ONLY n \in Nat \ {0}
  <2> QED
    BY <2>1, <2>2
<1>4. call.op \in {"open", "cd", "ls"}
  BY <1>1 DEF InPath
<1>5. CASE Len(dj.path) > 1
  <2>1. /\ fs' = f /\ UNCHANGED fileVars
        /\ IF e.dir THEN Into([dj EXCEPT !.path = Tail(@)], e.clust, "find") ELSE Fails("FR_NO_PATH")
    BY <1>5, <1>8 DEF Found, Deeper
  <2>2. CASE e.dir
    <3>1. PICK d : d = [dj EXCEPT !.path = Tail(@)]
      OBVIOUS
    <3>2. Into(d, e.clust, "find")
      BY <2>1, <2>2, <3>1
    <3>3. IsDj(d) /\ d.path = Tail(dj.path)
      BY <3>1, DeeperIs
    <3>4. \A n : n.sclust = e.clust /\ n.path = d.path => Way(Disk, fs.g, fs.cdir, call.path, n)
      BY <1>3, <1>5, <2>2, <3>3
    <3> QED
      BY <1>1, <1>3, <2>1, <3>2, <3>3, <3>4, IntoPath
  <2>3. CASE ~e.dir
    <3>1. Store!Reason
      BY <1>1, <1>3, <1>4, <1>5, <2>3, PathReasons DEF File, Dir, Resolved
    <3> QED
      BY <1>1, <2>1, <2>3, <3>1, PathFails
  <2> QED
    BY <2>2, <2>3
<1>6. CASE Len(dj.path) = 1
  <2>1. e = Resolved
    BY <1>3, <1>6
  <2>2. \/ call.op = "open" /\ e.dir /\ Fails("FR_NO_FILE") /\ fs' = f /\ UNCHANGED fileVars
        \/ call.op = "open" /\ ~e.dir /\ Opened(e) /\ fs' = f
        \/ call.op = "cd" /\ e.dir /\ Cd(f, e.clust) /\ UNCHANGED fileVars
        \/ call.op = "ls" /\ e.dir /\ Into(NoDir, e.clust, "list") /\ fs' = f /\ UNCHANGED fileVars
        \/ call.op # "open" /\ ~e.dir /\ Fails("FR_NO_PATH") /\ fs' = f /\ UNCHANGED fileVars
    BY <1>6, <1>8 DEF Found, Deeper
  <2>3. e.dir => Leads(e.clust)
    BY <1>3, <2>1 DEF Leads, LeadsTo, Resolved, Resolve
  <2>4. CASE call.op = "open" /\ e.dir /\ Fails("FR_NO_FILE") /\ fs' = f /\ UNCHANGED fileVars
    <3>1. Store!Reason
      BY <1>1, <2>3, <2>4, LeadsIs, PathReasons
    <3> QED
      BY <1>1, <2>4, <3>1, PathFails
  <2>5. CASE call.op = "open" /\ ~e.dir /\ Opened(e) /\ fs' = f
    <3>1. Len(call.path) # 0
      <4>1. PICK k \in Nat : k < Len(call.path)
        BY DEF Way
      <4> QED
        BY <1>2, <4>1
    <3> QED
      BY <1>1, <1>3, <2>1, <2>5, <3>1, PathOpens
  <2>6. CASE call.op = "cd" /\ e.dir /\ Cd(f, e.clust) /\ UNCHANGED fileVars
    <3>1. fs'.cdir = e.clust /\ Says("OK", 0)
      BY <2>6 DEF Cd, IsFs
    <3> QED
      BY <1>1, <2>3, <2>6, <3>1, PathCd
  <2>7. CASE call.op = "ls" /\ e.dir /\ Into(NoDir, e.clust, "list") /\ fs' = f /\ UNCHANGED fileVars
    BY <1>1, <2>3, <2>7, IntoList
  <2>8. CASE call.op # "open" /\ ~e.dir /\ Fails("FR_NO_PATH") /\ fs' = f /\ UNCHANGED fileVars
    <3>1. Dir(Disk, fs.g, fs.cdir, call.path) = None
      BY <1>3, <2>1, <2>8 DEF Dir, Resolved
    <3>2. Store!Reason
      BY <1>1, <2>8, <3>1, PathReasons
    <3> QED
      BY <1>1, <2>8, <3>2, PathFails
  <2> QED
    BY <2>2, <2>4, <2>5, <2>6, <2>7, <2>8
<1> QED
  BY <1>8, <1>5, <1>6

\* A search or a list goes to the next entry.
LEMMA NextDoes ==
    ASSUME World, Inv, at \in {"find", "list"}, Frame, UNCHANGED trouble, NEW f, IsFs(f), f.cdir = fs.cdir,
           NEW d, NEW o, DirNext(f, d, o), IsDj(d), IsDj(dj),
           d.sclust = dj.sclust, d.clust = dj.clust, d.sect = dj.sect, d.dptr = dj.dptr, d.path = dj.path,
           Stands(Disk, fs.g, dj), dj.dptr + 1 <= DirLen(Disk, fs.g, dj.sclust),
           at = "find" => o = <<>> /\ Looks(Disk, fs.g, fs.cdir, call.path, d, dj.dptr + 1),
           at = "list" => Prints(Disk, fs.g, fs.cdir, call.path, d, dj.dptr + 1, o)
    PROVE  Does
<1> DEFINE v == fs.g
           p == d.dptr + 1
           turn == p % SZ = 0
           last == p >= MAX_DIR \/ (turn /\ d.clust = 0 /\ p >= v.n_rootdir)
           edge == turn /\ d.clust # 0 /\ (p \div SZ) % v.csize = 0
<1>1. InPath
  BY DEF InPath, OfDir, Inv, Control
<1>2. Sound(Disk, fs.g) /\ fs.g = g /\ fs'.g = fs.g /\ Disk' = Disk
  BY <1>1, PathStep DEF g, Frame, Disk
<1>3. Stands(Disk, v, d) /\ d.sclust \in Nat /\ d.dptr \in Nat
  BY DEF Stands
<1>4. /\ last => p = DirLen(Disk, v, d.sclust)
      /\ ~last /\ edge => Turns(Disk, v, d)
      /\ ~last /\ ~edge => \A e : /\ e.sclust = d.sclust /\ e.dptr = p /\ e.clust = d.clust
                                  /\ e.sect = IF turn THEN d.sect + 1 ELSE d.sect
                                  => Stands(Disk, v, e)
  BY <1>2, <1>3, StandsNext
<1>5. /\ last => IF at = "find" THEN NotFound(f) ELSE Says("OK", o) /\ fs' = f /\ UNCHANGED fileVars
      /\ ~last => fs' = f /\ out' = o /\ UNCHANGED fileVars
      /\ ~last /\ edge => Goes(IF at = "find" THEN "find next" ELSE "list next") /\ dj' = d
      /\ ~last /\ ~edge => /\ dj' = [d EXCEPT !.dptr = p, !.sect = IF turn THEN @ + 1 ELSE @]
                           /\ UNCHANGED <<at, call, ret, from>>
  BY <1>2 DEF DirNext
<1>6. at = "list" => call.op = "ls"
  BY DEF Inv, Control
<1>7. p = dj.dptr + 1
  OBVIOUS
<1> HIDE DEF p, turn, last, edge, v
<1>8. CASE last
  <2>1. p = DirLen(Disk, fs.g, dj.sclust)
    BY <1>4, <1>8 DEF v
  <2>2. CASE at = "find"
    <3>1. NotFound(f)
      BY <1>5, <1>8, <2>2
    <3>2. Way(Disk, fs.g, fs.cdir, call.path, d) /\ Missed(Disk, fs.g, d, p)
      BY <1>7, <2>2 DEF Looks
    <3>3. Way(Disk, fs.g, fs.cdir, call.path, dj)
      BY <3>2 DEF Way
    <3>4. Missed(Disk, fs.g, dj, DirLen(Disk, fs.g, dj.sclust))
      BY <2>1, <3>2 DEF Missed
    <3>5. dj.sclust \in Nat
      BY <1>3
    <3> QED
      BY <2>2, <3>1, <3>3, <3>4, <3>5, NotFoundDoes
  <2>3. CASE at = "list"
    <3>1. Says("OK", o) /\ fs' = f /\ UNCHANGED fileVars
      BY <1>5, <1>8, <2>3
    <3>2. Leads(dj.sclust) /\ o = Listed(DirAt(Disk, fs.g, dj.sclust))[p]
      BY <1>7, <2>3 DEF Prints, Leads
    <3>3. o = Listing(Disk, fs.g, dj.sclust)
      <4>1. Len(DirAt(Disk, fs.g, dj.sclust)) = p
        BY <2>1, DirIs
      <4> QED
        BY <3>2, <4>1 DEF Listing
    <3> QED
      BY <1>1, <1>6, <2>3, <3>1, <3>2, <3>3, PathLs
  <2> QED
    BY <2>2, <2>3
<1>9. CASE ~last /\ edge
  <2>1. fs' = f /\ out' = o /\ UNCHANGED fileVars /\ dj' = d /\ Turns(Disk, fs.g, d)
    BY <1>4, <1>5, <1>9 DEF v
  <2>2. CASE at = "find"
    <3>1. Goes("find next") /\ call' = call /\ at' = "find next"
      BY <1>5, <1>9, <2>2 DEF Goes
    <3>2. Dirs'
      BY <1>2, <2>1, <2>2, <3>1 DEF Dirs, OfDir
    <3> QED
      BY <1>1, <2>1, <2>2, <3>1, <3>2, PathGoes DEF OfDir
  <2>3. CASE at = "list"
    <3>1. Goes("list next") /\ call' = call /\ at' = "list next"
      BY <1>5, <1>9, <2>3 DEF Goes
    <3>2. Dirs'
      BY <1>2, <2>1, <2>3, <3>1 DEF Dirs, OfDir
    <3> QED
      BY <1>1, <1>6, <2>1, <2>3, <3>1, <3>2, PathGoes DEF OfDir
  <2> QED
    BY <2>2, <2>3
<1>10. CASE ~last /\ ~edge
  <2>1. /\ fs' = f /\ out' = o /\ UNCHANGED fileVars /\ UNCHANGED <<at, call, ret, from>>
        /\ dj' = [d EXCEPT !.dptr = p, !.sect = IF turn THEN @ + 1 ELSE @]
    BY <1>5, <1>10
  <2> DEFINE a == [d EXCEPT !.dptr = p]
             e == [a EXCEPT !.sect = IF turn THEN d.sect + 1 ELSE d.sect]
  <2>2. dj' = e
    BY <2>1
  <2>3. /\ IsDj(a) /\ a.dptr = p /\ a.sclust = d.sclust /\ a.clust = d.clust /\ a.ord = d.ord /\ a.sum = d.sum
        /\ a.name = d.name /\ a.path = d.path
    BY DEF IsDj
  <2> HIDE DEF a
  <2>4. /\ IsDj(e) /\ e.dptr = p /\ e.sclust = d.sclust /\ e.clust = d.clust /\ e.ord = d.ord /\ e.sum = d.sum
        /\ e.name = d.name /\ e.path = d.path /\ e.sect = IF turn THEN d.sect + 1 ELSE d.sect
    BY <2>3 DEF IsDj
  <2> HIDE DEF e
  <2>5. PICK n : n = e
    OBVIOUS
  <2>6. dj' = n /\ IsDj(n) /\ n.dptr = p /\ Stands(Disk, fs.g, n)
    BY <1>4, <1>10, <2>2, <2>4, <2>5 DEF v
  <2>7. /\ at = "find" => Looks(Disk, fs.g, fs.cdir, call.path, n, p)
        /\ at = "list" => Prints(Disk, fs.g, fs.cdir, call.path, n, p, o)
    BY <1>7, <2>4, <2>5, SameLooks
  <2>8. Dirs'
    BY <1>2, <1>7, <2>1, <2>6, <2>7 DEF Dirs, Frame
  <2>9. Goes(at)
    BY <2>1 DEF Goes
  <2> QED
    BY <1>1, <1>6, <2>1, <2>8, <2>9, PathGoes DEF OfDir
<1> QED
  BY <1>8, <1>9, <1>10

\* What follow_path has behind it where it begins: the separator ahead, or nothing.
Begun(k) ==
    /\ k \in Nat /\ k <= Len(call.path) /\ LeadsTo(Disk, fs.g, fs.cdir, call.path, k, Start)
    /\ k > 0 \/ ~Absolute(call.path)
    /\ Segments = SubSeq(call.path, k + 1, Len(call.path)) /\ (Segments = <<>> <=> k = Len(call.path))

LEMMA StartIs == ASSUME World, Inv, InPath PROVE \E k : Begun(k)
<1>1. /\ Tagged(Disk, fs.g) /\ Apart /\ fs.cdir \in Nat /\ IsPath(call.path) /\ Len(call.path) \in Nat
  BY PathStep DEF World
<1>2. CASE ~Absolute(call.path)
  <2>1. LeadsTo(Disk, fs.g, fs.cdir, call.path, 0, Start)
    BY <1>1, <1>2, WalkIs DEF LeadsTo, Start
  <2>2. Segments = SubSeq(call.path, 0 + 1, Len(call.path)) /\ (Segments = <<>> <=> 0 = Len(call.path))
    BY <1>1, <1>2 DEF IsPath, Segments
  <2>3. Begun(0)
    BY <1>1, <1>2, <2>1, <2>2 DEF Begun
  <2> QED
    BY <2>3
<1>3. CASE Absolute(call.path)
  <2>1. LeadsTo(Disk, fs.g, fs.cdir, call.path, 1, Start)
    BY <1>1, <1>3, WalkIs DEF LeadsTo, Start
  <2>2. 1 <= Len(call.path) /\ Segments = Tail(call.path)
    BY <1>1, <1>3 DEF IsPath, Segments, Absolute
  <2>3. PICK q : q = call.path
    OBVIOUS
  <2>4. q = SubSeq(q, 0 + 1, Len(q)) /\ 0 < Len(q) /\ IsPath(q)
    BY <1>1, <2>2, <2>3 DEF IsPath
  <2>5. Tail(q) = SubSeq(q, 0 + 2, Len(q))
    BY <2>4, PathIs
  <2>6. Segments = <<>> <=> 1 = Len(call.path)
    <3>1. Tail(q) \in Seq({q[i] : i \in DOMAIN q}) /\ Len(Tail(q)) = Len(q) - 1
      BY <2>4 DEF IsPath
    <3>3. PICK rest, S : rest = Tail(q) /\ S = {q[i] : i \in DOMAIN q}
      OBVIOUS
    <3>4. rest = <<>> <=> Len(rest) = 0
      <4>1. rest \in Seq(S)
        BY <3>1, <3>3
      <4>2. Len(<<>>) = 0 /\ \A seq \in Seq(S) : (seq # <<>>) => (Len(seq) \in Nat \ {0})
        BY ONLY EmptySeq
      <4> QED
        BY ONLY <4>1, <4>2
    <3>2. Tail(q) = <<>> <=> Len(Tail(q)) = 0
      BY <3>3, <3>4
    <3> QED
      BY <1>1, <2>2, <2>3, <3>1, <3>2
  <2>7. Begun(1)
    BY <1>1, <2>1, <2>2, <2>3, <2>5, <2>6 DEF Begun
  <2> QED
    BY <2>7
<1> QED
  BY <1>2, <1>3

\* Without a name, the path leads to where it begins.
LEMMA StartLeads == ASSUME World, Inv, InPath, Segments = <<>> PROVE Leads(Start)
  BY StartIs DEF Begun, Leads

\* With one, it is on the way.
LEMMA StartWay ==
    ASSUME World, Inv, InPath, Segments # <<>>, NEW n, n.sclust = Start, n.path = Segments
    PROVE  Way(Disk, fs.g, fs.cdir, call.path, n)
<1>1. PICK k : Begun(k)
  BY StartIs
<1>2. k \in Nat /\ k <= Len(call.path) /\ k # Len(call.path) /\ Len(call.path) \in Nat
  BY <1>1, PathStep DEF Begun
<1>3. k < Len(call.path)
  BY <1>2
<1> QED
  BY <1>1, <1>2, <1>3 DEF Begun, Way

\* The volume is there: the path is followed.
LEMMA MountedDoes == ASSUME World, Inv, Mounted PROVE Does
<1>1. /\ at = "mounted" /\ UNCHANGED <<card, sd_mounted, up, drive_status, trouble, faults, Fsid, vol, fd_used, fd_fil, of>>
      /\ UNCHANGED fileVars /\ out = <<>>
  BY DEF Mounted, driveVars, fileVars, Inv, Control
<1>2. IInv' /\ IsFs(fs) /\ fs.type /\ trouble \in BOOLEAN /\ fs.cdir \in Nat
  BY <1>1, MountedStep DEF Inv, IInv, Shapes, Control, Ready
<1>3. /\ call \in Calls /\ call # None /\ ret = None /\ call.op \notin OnHandle
      /\ call.op \in {"mount", "open", "cd", "ls"}
      /\ call.op \in {"open", "cd", "ls"} => IsPath(call.path)
  <2>1. call.op \notin OnHandle
    BY <1>1 DEF Inv, Control, Early
  <2> QED
    BY <1>1, <2>1, CallIs DEF OnHandle
<1>4. \/ call.op = "mount" /\ Says("OK", 0) /\ UNCHANGED fs
      \/ /\ call.op # "mount" /\ Segments # <<>>
         /\ Into([NoDir EXCEPT !.path = Segments], Start, "find") /\ UNCHANGED fs
      \/ /\ call.op \in {"open", "cd"} /\ Segments = <<>> /\ TopSector(g, Start) = 0
         /\ Fails("FR_INT_ERR") /\ UNCHANGED fs
      \/ call.op = "open" /\ Segments = <<>> /\ Fails("FR_INVALID_NAME") /\ UNCHANGED fs
      \/ call.op = "cd" /\ Segments = <<>> /\ Cd(fs, Start)
      \/ call.op = "ls" /\ Segments = <<>> /\ Into(NoDir, Start, "list") /\ UNCHANGED fs
  BY DEF Mounted
<1>5. CASE call.op = "mount" /\ Says("OK", 0) /\ UNCHANGED fs
  <2>1. ret' = [res |-> "OK", out |-> 0] /\ ret' # None /\ call' = call
    BY <1>5, Answers
  <2>2. \A h \in Handle : PosOf(h)' = PosOf(h)
    BY <1>1, <1>3, <2>1 DEF PosOf
  <2>3. UNCHANGED Mapped /\ UNCHANGED SVol
    BY <1>1, <1>5, <2>2, SameMap
  <2>4. Inv'
    BY <1>1, <1>2, <1>5, EndsHere
  <2>5. SVol # None
    BY <1>2 DEF SVol, World, Apart
  <2>6. Store!AnswerMount
    BY <1>1, <1>5, <2>1, <2>3, <2>5 DEF Store!AnswerMount, Store!Answer, SVol
  <2>7. StoreStep
    BY <1>3, <2>1, <2>6 DEF StoreStep, Store!Next
  <2> QED
    BY <2>4, <2>7 DEF Does
<1>6. ASSUME call.op # "mount"
      PROVE  InPath /\ (UNCHANGED fs \/ (\E c : fs' = [fs EXCEPT !.cdir = c]) => Frame)
  <2>1. InPath
    BY <1>1, <1>3, <1>6 DEF InPath
  <2>2. ASSUME UNCHANGED fs \/ \E c : fs' = [fs EXCEPT !.cdir = c] PROVE Frame
    <3>1. fs'.type = fs.type /\ fs'.g = fs.g /\ fs'.id = fs.id
      <4>1. ASSUME NEW c, fs' = [fs EXCEPT !.cdir = c] PROVE fs'.type = fs.type /\ fs'.g = fs.g /\ fs'.id = fs.id
        BY <1>2, <4>1 DEF IsFs
      <4> QED
        BY <2>2, <4>1
    <3> QED
      BY <1>1, <1>2, <3>1 DEF Frame
  <2> QED
    BY <2>1, <2>2
<1>7. ASSUME call.op # "mount", Segments = <<>> PROVE Leads(Start)
  <2>1. InPath
    BY <1>6, <1>7
  <2> QED
    BY <1>7, <2>1, StartLeads
<1>8. CASE /\ call.op # "mount" /\ Segments # <<>>
           /\ Into([NoDir EXCEPT !.path = Segments], Start, "find") /\ UNCHANGED fs
  <2>1. PICK d : d = [NoDir EXCEPT !.path = Segments]
    OBVIOUS
  <2>2. IsDj(d) /\ d.path = Segments
    BY <2>1, NoDirIs
  <2>3. InPath /\ Frame
    BY <1>6, <1>8
  <2>4. ASSUME NEW n, n.sclust = Start, n.path = d.path
        PROVE  Way(Disk, fs.g, fs.cdir, call.path, n)
    <3>1. Segments # <<>> /\ InPath /\ n.sclust = Start /\ n.path = Segments
      BY <1>8, <2>2, <2>3, <2>4
    <3> QED
      BY <3>1, StartWay
  <2>5. Into(d, Start, "find")
    BY <1>8, <2>1
  <2>6. PICK c \in Nat : c = Start
    BY <1>2 DEF Start
  <2>7. \A n : n.sclust = c /\ n.path = d.path => Way(Disk, fs.g, fs.cdir, call.path, n)
    BY <2>4, <2>6
  <2>8. Into(d, c, "find")
    BY <2>5, <2>6
  <2>9. fs'.cdir = fs.cdir /\ UNCHANGED fileVars /\ out = <<>>
    BY <1>1, <1>8
  <2> QED
    BY <2>2, <2>3, <2>7, <2>8, <2>9, IntoPath
<1>9. CASE call.op = "open" /\ Segments = <<>> /\ Fails("FR_INVALID_NAME") /\ UNCHANGED fs
  <2>1. InPath /\ Frame /\ Leads(Start)
    BY <1>6, <1>7, <1>9
  <2>2. Store!Reason
    BY <1>9, <2>1, LeadsIs, PathReasons
  <2> QED
    BY <1>1, <1>9, <2>1, <2>2, PathFails
<1>12. CASE /\ call.op \in {"open", "cd"} /\ Segments = <<>> /\ TopSector(g, Start) = 0
            /\ Fails("FR_INT_ERR") /\ UNCHANGED fs
  <2>1. InPath /\ Frame /\ Leads(Start)
    BY <1>6, <1>7, <1>12
  <2>2. Broken(Disk, fs.g, Start)
    BY <1>12 DEF Broken, g
  <2>3. Store!Reason
    BY <2>1, <2>2, LeadsIs, PathReasons
  <2> QED
    BY <1>1, <1>12, <2>1, <2>3, PathFails
<1>10. CASE call.op = "cd" /\ Segments = <<>> /\ Cd(fs, Start)
  <2>1. fs' = [fs EXCEPT !.cdir = Start] /\ Says("OK", 0)
    BY <1>10 DEF Cd
  <2>2. InPath /\ Frame /\ Leads(Start)
    BY <1>6, <1>7, <1>10, <2>1
  <2>3. fs'.cdir = Start
    BY <1>2, <2>1 DEF IsFs
  <2> QED
    BY <1>1, <1>10, <2>1, <2>2, <2>3, PathCd
<1>11. CASE call.op = "ls" /\ Segments = <<>> /\ Into(NoDir, Start, "list") /\ UNCHANGED fs
  <2>1. InPath /\ Frame /\ Leads(Start)
    BY <1>6, <1>7, <1>11
  <2> QED
    BY <1>1, <1>11, <2>1, IntoList
<1> QED
  BY <1>4, <1>5, <1>8, <1>9, <1>10, <1>11, <1>12

\* One more entry without the name.
LEMMA MissedNext ==
    ASSUME NEW cd, NEW v, NEW d, NEW p \in Nat, Missed(cd, v, d, p),
           ~(p + 1 \in Items(DirAt(cd, v, d.sclust)) /\ Names(DirAt(cd, v, d.sclust), p + 1, Head(d.path)))
    PROVE  Missed(cd, v, d, p + 1)
<1>1. ASSUME NEW i \in Items(DirAt(cd, v, d.sclust)), i <= p + 1, Names(DirAt(cd, v, d.sclust), i, Head(d.path))
      PROVE  FALSE
  <2>1. i \in Nat
    BY DirIs DEF Items
  <2>2. i <= p \/ i = p + 1
    BY <1>1, <2>1
  <2> QED
    BY <1>1, <2>2 DEF Missed
<1> QED
  BY <1>1 DEF Missed

\* The entry that a step of a directory looks at, in the window f.
LEMMA EntryIs ==
    ASSUME World, Inv, InPath, Stands(Disk, fs.g, dj), NEW f, f.win = Disk[dj.sect]
    PROVE  LET p == dj.dptr
               dir == DirAt(Disk, fs.g, dj.sclust)
               e == entry(f)
           IN  /\ p \in Nat /\ dj.sclust \in Nat
               /\ e.t = "end" => p = DirLen(Disk, fs.g, dj.sclust)
               /\ e.t # "end" => p + 1 <= DirLen(Disk, fs.g, dj.sclust) /\ p + 1 \in DOMAIN dir /\ dir[p + 1] = e
               /\ e.t = "lfn" => e.ord \in Nat /\ e.last \in BOOLEAN
<1>1. /\ dj.dptr \in Nat /\ dj.dptr < MAX_DIR /\ dj.dptr <= DirLen(Disk, fs.g, dj.sclust) /\ dj.sclust \in Nat
      /\ dj.sect = DirSector(Disk, fs.g, dj.sclust, dj.dptr) /\ dj.sect # 0
  BY DEF Stands
<1>2. entry(f) = DirEntry(Disk, fs.g, dj.sclust, dj.dptr)
  BY <1>1 DEF entry, DirEntry
<1>5. entry(f).t = "end" => dj.dptr = DirLen(Disk, fs.g, dj.sclust)
  BY <1>1, <1>2, DirGoesOn
<1>6. entry(f).t # "end" => /\ dj.dptr + 1 <= DirLen(Disk, fs.g, dj.sclust)
                            /\ dj.dptr + 1 \in DOMAIN DirAt(Disk, fs.g, dj.sclust)
                            /\ DirAt(Disk, fs.g, dj.sclust)[dj.dptr + 1] = entry(f)
  BY <1>1, <1>2, DirGoesOn
<1>3. Tagged(Disk, fs.g)
  BY PathStep
<1>4. entry(f).t = "lfn" => entry(f).ord \in Nat /\ entry(f).last \in BOOLEAN
  BY <1>1, <1>3, <1>6 DEF Tagged
<1> QED
  BY <1>1, <1>4, <1>5, <1>6

\* dir_find: one entry.
LEMMA DirFindDoes == ASSUME World, Inv, DirFind PROVE Does
<1> DEFINE dir == DirAt(Disk, fs.g, dj.sclust)
           p == dj.dptr
<1>1. at = "find" /\ UNCHANGED vol /\ IInv' /\ out = <<>>
  BY DirFindStep DEF DirFind, Inv, Control
<1>2. /\ IsDj(dj) /\ Stands(Disk, fs.g, dj) /\ Looks(Disk, fs.g, fs.cdir, call.path, dj, p)
  BY <1>1 DEF Inv, Dirs, OfDir
<1>3. InPath
  BY <1>1 DEF InPath, OfDir, Inv, Control
<1>4. dj.sect \in Nat
  BY <1>2, <1>3, PathStep, StandsIs
<1>5. PICK f \in move_window(fs, dj.sect) : Noted(f.win) /\ (Unread(f) \/ (f.win # Junk /\ Compares(f, entry(f))))
  BY DEF DirFind
<1>6. Outcome(f)
  BY <1>5, OutcomeNotFound, OutcomeFound, OutcomeNext DEF Unread, Compares, Outcome, fileVars
<1>7. /\ Frame /\ IsFs(f) /\ f.cdir = fs.cdir
      /\ f.win = Junk => trouble'
      /\ f.win # Junk => trouble' = trouble /\ f.win = Disk[dj.sect]
  <2>1. fs' = f \/ \E c : fs' = [f EXCEPT !.cdir = c]
    BY <1>6 DEF Outcome
  <2>2. at \in OfDir
    BY <1>1 DEF OfDir
  <2> QED
    BY <1>1, <1>4, <1>5, <2>1, <2>2, DirFrame
<1>8. CASE Unread(f)
  <2>1. trouble' /\ Fails("FR_DISK_ERR") /\ fs' = f /\ UNCHANGED fileVars
    BY <1>7, <1>8 DEF Unread
  <2> QED
    BY <1>3, <1>7, <2>1, PathFails
<1>9. CASE f.win # Junk /\ Compares(f, entry(f))
  <2>1. PICK e : e = entry(f)
    OBVIOUS
  <2>2. UNCHANGED trouble /\ f.win = Disk[dj.sect]
    BY <1>7, <1>9
  <2>3. /\ p \in Nat /\ dj.sclust \in Nat
        /\ e.t = "end" => p = DirLen(Disk, fs.g, dj.sclust)
        /\ e.t # "end" => p + 1 <= DirLen(Disk, fs.g, dj.sclust) /\ p + 1 \in DOMAIN dir /\ dir[p + 1] = e
        /\ e.t = "lfn" => e.ord \in Nat /\ e.last \in BOOLEAN
    BY <1>2, <1>3, <2>1, <2>2, EntryIs
  <2>4. /\ Runs(dir, dj, p, FALSE) /\ Way(Disk, fs.g, fs.cdir, call.path, dj) /\ Missed(Disk, fs.g, dj, p)
    BY <1>2 DEF Looks
  <2>5. \/ e.t = "end" /\ NotFound(f)
        \/ e.t \in {"free", "label"} /\ DirNext(f, Reset(dj), out)
        \/ e.t = "lfn" /\ DirNext(f, Lfn(dj, e, cmp_lfn(e)), out)
        \/ e.t = "sfn" /\ Matches(e) /\ Found(f, e)
        \/ e.t = "sfn" /\ ~Matches(e) /\ DirNext(f, Reset(dj), out)
    BY <1>9, <2>1 DEF Compares
  <2>6. e.t = "sfn" => (Matches(e) <=> Names(dir, p + 1, Head(dj.path)))
    <3>1. ASSUME e.t = "sfn"
          PROVE  HasLong(dj, e) \/ (Head(dj.path) \in Short /\ e.short = Head(dj.path))
                   <=> Names(dir, p + 1, Head(dj.path))
      <4>1. dir[p + 1] = e /\ p + 1 \in DOMAIN dir
        BY <2>3, <3>1
      <4>2. PICK any \in BOOLEAN : any = FALSE
        OBVIOUS
      <4>3. Runs(dir, dj, p, any)
        BY <2>4, <4>2
      <4>4. HasLong(dj, dir[p + 1]) \/ (Head(dj.path) \in Short /\ dir[p + 1].short = Head(dj.path))
              <=> Names(dir, p + 1, Head(dj.path))
        BY <2>3, <4>1, <4>2, <4>3, RunsShort
      <4> QED
        BY <4>1, <4>4
    <3> QED
      BY <3>1 DEF Matches
  <2>7. p + 1 \in Items(dir) <=> p + 1 \in DOMAIN dir /\ dir[p + 1].t = "sfn"
    BY DEF Items
  <2> HIDE DEF dir, p
  \* Behind an entry that is not the one, and does not belong to a long name.
  <2>8. ASSUME DirNext(f, Reset(dj), out), e.t # "end", e.t # "lfn", ~(e.t = "sfn" /\ Matches(e)) PROVE Does
    <3>1. PICK n : n = Reset(dj)
      OBVIOUS
    <3>2. /\ IsDj(n) /\ n.sclust = dj.sclust /\ n.clust = dj.clust /\ n.sect = dj.sect
          /\ n.dptr = dj.dptr /\ n.ord = -1 /\ n.path = dj.path
      BY <1>2, <3>1, ResetIs
    <3>3. Runs(dir, n, p + 1, FALSE)
      <4>1. PICK q \in Nat : q = p + 1
        BY <2>3
      <4>2. dir[q].t # "lfn"
        BY <2>3, <2>8, <4>1
      <4>3. Runs(dir, n, q, FALSE)
        BY <3>2, <4>2, RunsReset
      <4> QED
        BY <4>1, <4>3
    <3>4. Missed(Disk, fs.g, dj, p + 1)
      <4>1. ~(p + 1 \in Items(dir) /\ Names(dir, p + 1, Head(dj.path)))
        BY <2>3, <2>6, <2>7, <2>8
      <4> QED
        BY <2>3, <2>4, <4>1, MissedNext DEF dir
    <3>5. Looks(Disk, fs.g, fs.cdir, call.path, n, dj.dptr + 1)
      BY <2>4, <3>2, <3>3, <3>4 DEF Looks, Way, Missed, dir, p
    <3>6. dj.dptr + 1 <= DirLen(Disk, fs.g, dj.sclust)
      BY <2>3, <2>8 DEF p
    <3>7. DirNext(f, n, out)
      BY <2>8, <3>1
    <3> QED
      BY <1>1, <1>2, <1>7, <2>2, <3>2, <3>5, <3>6, <3>7, NextDoes
  <2>9. CASE e.t = "end" /\ NotFound(f)
    <3>1. Missed(Disk, fs.g, dj, DirLen(Disk, fs.g, dj.sclust))
      BY <2>3, <2>4, <2>9
    <3> QED
      BY <1>1, <1>2, <1>7, <2>2, <2>3, <2>4, <2>9, <3>1, NotFoundDoes
  <2>10. CASE e.t \in {"free", "label"} /\ DirNext(f, Reset(dj), out)
    BY <2>8, <2>10
  <2>11. CASE e.t = "lfn" /\ DirNext(f, Lfn(dj, e, cmp_lfn(e)), out)
    <3>1. PICK n : n = Lfn(dj, e, cmp_lfn(e))
      OBVIOUS
    <3>2. /\ IsDj(n) /\ n.sclust = dj.sclust /\ n.clust = dj.clust /\ n.sect = dj.sect
          /\ n.dptr = dj.dptr /\ n.path = dj.path
      BY <1>2, <3>1, LfnIs
    <3>3. Runs(dir, n, p + 1, FALSE)
      BY <1>2, <2>3, <2>4, <2>11, <3>1, RunsLfn DEF cmp_lfn
    <3>4. Missed(Disk, fs.g, dj, p + 1)
      <4>1. ~(p + 1 \in Items(dir))
        BY <2>3, <2>7, <2>11
      <4> QED
        BY <2>3, <2>4, <4>1, MissedNext DEF dir
    <3>5. Looks(Disk, fs.g, fs.cdir, call.path, n, dj.dptr + 1)
      BY <2>4, <3>2, <3>3, <3>4 DEF Looks, Way, Missed, dir, p
    <3>6. dj.dptr + 1 <= DirLen(Disk, fs.g, dj.sclust)
      BY <2>3, <2>11 DEF p
    <3>7. DirNext(f, n, out)
      BY <2>11, <3>1
    <3> QED
      BY <1>1, <1>2, <1>7, <2>2, <3>2, <3>5, <3>6, <3>7, NextDoes
  <2>12. CASE e.t = "sfn" /\ Matches(e) /\ Found(f, e)
    <3>1. p + 1 \in Items(dir) /\ e = dir[p + 1] /\ Names(dir, p + 1, Head(dj.path))
      BY <2>3, <2>6, <2>7, <2>12
    <3> QED
      BY <1>1, <1>2, <1>7, <2>2, <2>3, <2>4, <2>12, <3>1, FoundDoes DEF dir
  <2>13. CASE e.t = "sfn" /\ ~Matches(e) /\ DirNext(f, Reset(dj), out)
    BY <2>8, <2>13
  <2> QED
    BY <2>5, <2>9, <2>10, <2>11, <2>12, <2>13
<1> QED
  BY <1>5, <1>8, <1>9

\* dir_read: one entry.
LEMMA DirReadDoes == ASSUME World, Inv, DirRead PROVE Does
<1> DEFINE dir == DirAt(Disk, fs.g, dj.sclust)
           p == dj.dptr
<1>1. at = "list" /\ UNCHANGED vol /\ IInv' /\ call.op = "ls"
  BY DirReadStep DEF DirRead, Inv, Control
<1>2. /\ IsDj(dj) /\ Stands(Disk, fs.g, dj) /\ Prints(Disk, fs.g, fs.cdir, call.path, dj, p, out)
  BY <1>1 DEF Inv, Dirs, OfDir
<1>3. InPath
  BY <1>1 DEF InPath, OfDir, Inv, Control
<1>4. dj.sect \in Nat
  BY <1>2, <1>3, PathStep, StandsIs
<1>5. PICK f \in move_window(fs, dj.sect) : Noted(f.win) /\ (Unread(f) \/ (f.win # Junk /\ Lists(f, entry(f))))
  BY DEF DirRead
<1>6. Outcome(f)
  BY <1>5, OutcomeNext DEF Unread, Lists, Outcome, fileVars
<1>7. /\ Frame /\ IsFs(f) /\ f.cdir = fs.cdir
      /\ f.win = Junk => trouble'
      /\ f.win # Junk => trouble' = trouble /\ f.win = Disk[dj.sect]
  <2>1. fs' = f \/ \E c : fs' = [f EXCEPT !.cdir = c]
    BY <1>6 DEF Outcome
  <2>2. at \in OfDir
    BY <1>1 DEF OfDir
  <2> QED
    BY <1>1, <1>4, <1>5, <2>1, <2>2, DirFrame
<1>8. CASE Unread(f)
  <2>1. trouble' /\ Fails("FR_DISK_ERR") /\ fs' = f /\ UNCHANGED fileVars
    BY <1>7, <1>8 DEF Unread
  <2> QED
    BY <1>3, <1>7, <2>1, PathFails
<1>9. CASE f.win # Junk /\ Lists(f, entry(f))
  <2>1. PICK e : e = entry(f)
    OBVIOUS
  <2>2. UNCHANGED trouble /\ f.win = Disk[dj.sect]
    BY <1>7, <1>9
  <2>3. /\ p \in Nat /\ dj.sclust \in Nat
        /\ e.t = "end" => p = DirLen(Disk, fs.g, dj.sclust)
        /\ e.t # "end" => p + 1 <= DirLen(Disk, fs.g, dj.sclust) /\ p + 1 \in DOMAIN dir /\ dir[p + 1] = e
        /\ e.t = "lfn" => e.ord \in Nat /\ e.last \in BOOLEAN
    BY <1>2, <1>3, <2>1, <2>2, EntryIs
  <2>4. /\ Runs(dir, dj, p, TRUE) /\ Leads(dj.sclust) /\ out = Listed(dir)[p]
    BY <1>2 DEF Prints, Leads
  <2>5. \/ e.t = "end" /\ Says("OK", out) /\ fs' = f /\ UNCHANGED fileVars
        \/ e.t \in {"free", "label"} /\ DirNext(f, Reset(dj), out)
        \/ e.t = "lfn" /\ DirNext(f, Lfn(dj, e, TRUE), out)
        \/ e.t = "sfn" /\ e.short \in Dots /\ DirNext(f, Reset(dj), out)
        \/ /\ e.t = "sfn" /\ e.short \notin Dots
           /\ DirNext(f, Reset(dj), Append(out, fname(e)))
    BY <1>9, <2>1 DEF Lists
  <2>6. Listed(dir)[p + 1] = IF Skips(dir[p + 1]) THEN Listed(dir)[p] ELSE Append(Listed(dir)[p], Shown(dir, p + 1))
    BY <2>3, ListedIs
  <2>7. e.t = "sfn" => Shown(dir, p + 1) = fname(e)
    <3>1. ASSUME e.t = "sfn"
          PROVE  IF HasLong(dj, e) THEN HasLongName(dir, p + 1) /\ dj.name = dir[p].name
                                   ELSE ~HasLongName(dir, p + 1)
      <4>1. dir[p + 1] = e /\ p + 1 \in DOMAIN dir
        BY <2>3, <3>1
      <4>2. PICK any \in BOOLEAN : any = TRUE
        OBVIOUS
      <4>3. Runs(dir, dj, p, any)
        BY <2>4, <4>2
      <4>4. IF HasLong(dj, dir[p + 1]) THEN HasLongName(dir, p + 1) /\ dj.name = dir[p].name
                                       ELSE ~HasLongName(dir, p + 1)
        BY <2>3, <4>1, <4>2, <4>3, RunsShort
      <4> QED
        BY <4>1, <4>4
    <3>2. (p + 1) - 1 = p
      BY <2>3
    <3> QED
      BY <2>3, <3>1, <3>2 DEF fname, Shown
  <2> HIDE DEF dir, p
  \* Behind an entry that does not belong to a long name.
  <2>8. ASSUME NEW o, DirNext(f, Reset(dj), o), e.t # "end", e.t # "lfn", o = Listed(dir)[p + 1] PROVE Does
    <3>1. PICK n : n = Reset(dj)
      OBVIOUS
    <3>2. /\ IsDj(n) /\ n.sclust = dj.sclust /\ n.clust = dj.clust /\ n.sect = dj.sect
          /\ n.dptr = dj.dptr /\ n.ord = -1 /\ n.path = dj.path
      BY <1>2, <3>1, ResetIs
    <3>3. Runs(dir, n, p + 1, TRUE)
      <4>1. PICK q \in Nat : q = p + 1
        BY <2>3
      <4>2. dir[q].t # "lfn"
        BY <2>3, <2>8, <4>1
      <4>3. Runs(dir, n, q, TRUE)
        BY <3>2, <4>2, RunsReset
      <4> QED
        BY <4>1, <4>3
    <3>5. Prints(Disk, fs.g, fs.cdir, call.path, n, dj.dptr + 1, o)
      BY <2>4, <2>8, <3>2, <3>3 DEF Prints, Leads, dir, p
    <3>6. dj.dptr + 1 <= DirLen(Disk, fs.g, dj.sclust)
      BY <2>3, <2>8 DEF p
    <3>7. DirNext(f, n, o)
      BY <2>8, <3>1
    <3> QED
      BY <1>1, <1>2, <1>7, <2>2, <3>2, <3>5, <3>6, <3>7, NextDoes
  <2>9. CASE e.t = "end" /\ Says("OK", out) /\ fs' = f /\ UNCHANGED fileVars
    <3>1. out = Listing(Disk, fs.g, dj.sclust)
      <4>1. Len(DirAt(Disk, fs.g, dj.sclust)) = p
        BY <2>3, <2>9, DirIs
      <4> QED
        BY <2>4, <4>1 DEF Listing, dir
    <3> QED
      BY <1>1, <1>3, <1>7, <2>2, <2>4, <2>9, <3>1, PathLs
  <2>10. CASE e.t \in {"free", "label"} /\ DirNext(f, Reset(dj), out)
    <3>1. Skips(dir[p + 1])
      BY <2>3, <2>10 DEF Skips
    <3>2. out = Listed(dir)[p + 1]
      BY <2>4, <2>6, <3>1
    <3> QED
      BY <2>8, <2>10, <3>2
  <2>11. CASE e.t = "lfn" /\ DirNext(f, Lfn(dj, e, TRUE), out)
    <3>1. PICK n : n = Lfn(dj, e, TRUE)
      OBVIOUS
    <3>0. PICK fits : fits = TRUE
      OBVIOUS
    <3>9. n = Lfn(dj, e, fits)
      BY <3>0, <3>1
    <3>2. /\ IsDj(n) /\ n.sclust = dj.sclust /\ n.clust = dj.clust /\ n.sect = dj.sect
          /\ n.dptr = dj.dptr /\ n.path = dj.path
      BY <1>2, <3>9, LfnIs
    <3>3. Runs(dir, n, p + 1, TRUE)
      BY <1>2, <2>3, <2>4, <2>11, <3>1, RunsLfn
    <3>4. out = Listed(dir)[p + 1]
      <4>1. Skips(dir[p + 1])
        BY <2>3, <2>11 DEF Skips
      <4> QED
        BY <2>4, <2>6, <4>1
    <3>5. Prints(Disk, fs.g, fs.cdir, call.path, n, dj.dptr + 1, out)
      BY <2>4, <3>2, <3>3, <3>4 DEF Prints, Leads, dir, p
    <3>6. dj.dptr + 1 <= DirLen(Disk, fs.g, dj.sclust)
      BY <2>3, <2>11 DEF p
    <3>7. DirNext(f, n, out)
      BY <2>11, <3>1
    <3> QED
      BY <1>1, <1>2, <1>7, <2>2, <3>2, <3>5, <3>6, <3>7, NextDoes
  <2>12. CASE e.t = "sfn" /\ e.short \in Dots /\ DirNext(f, Reset(dj), out)
    <3>1. Skips(dir[p + 1])
      BY <2>3, <2>12 DEF Skips
    <3>2. out = Listed(dir)[p + 1]
      BY <2>4, <2>6, <3>1
    <3> QED
      BY <2>8, <2>12, <3>2
  <2>13. CASE e.t = "sfn" /\ e.short \notin Dots /\ DirNext(f, Reset(dj), Append(out, fname(e)))
    <3>1. ~Skips(dir[p + 1])
      BY <2>3, <2>13 DEF Skips
    <3>2. Append(out, fname(e)) = Listed(dir)[p + 1]
      BY <2>4, <2>6, <2>7, <2>13, <3>1
    <3> QED
      BY <2>8, <2>13, <3>2
  <2> QED
    BY <2>5, <2>9, <2>10, <2>11, <2>12, <2>13
<1> QED
  BY <1>5, <1>8, <1>9

\* The fields of a directory object in its next cluster.
LEMMA StretchIs ==
    ASSUME NEW d, IsDj(d), NEW c, NEW n, n = Stretch(d, c)
    PROVE  /\ IsDj(n) /\ n.sclust = d.sclust /\ n.clust = c /\ n.sect = clst2sect(fs.g, c) /\ n.dptr = d.dptr + 1
           /\ n.ord = d.ord /\ n.sum = d.sum /\ n.name = d.name /\ n.path = d.path
<1> DEFINE a == [d EXCEPT !.clust = c]
           b == [a EXCEPT !.sect = clst2sect(g, c)]
           e == [b EXCEPT !.dptr = d.dptr + 1]
<1>1. n = e
  BY DEF Stretch
<1>2. /\ IsDj(a) /\ a.clust = c /\ a.sclust = d.sclust /\ a.dptr = d.dptr
      /\ a.ord = d.ord /\ a.sum = d.sum /\ a.name = d.name /\ a.path = d.path
  BY DEF IsDj
<1> HIDE DEF a
<1>3. /\ IsDj(b) /\ b.sect = clst2sect(g, c) /\ b.clust = a.clust /\ b.sclust = a.sclust /\ b.dptr = a.dptr
      /\ b.ord = a.ord /\ b.sum = a.sum /\ b.name = a.name /\ b.path = a.path
  BY <1>2 DEF IsDj
<1> HIDE DEF b
<1>4. /\ IsDj(e) /\ e.dptr = d.dptr + 1 /\ e.sect = b.sect /\ e.clust = b.clust /\ e.sclust = b.sclust
      /\ e.ord = b.ord /\ e.sum = b.sum /\ e.name = b.name /\ e.path = b.path
  BY <1>3 DEF IsDj
<1> HIDE DEF e
<1> QED
  BY <1>1, <1>2, <1>3, <1>4 DEF g

\* dir_next: to the next cluster.
LEMMA DirChainDoes == ASSUME World, Inv, DirChain PROVE Does
<1> DEFINE p == dj.dptr + 1
           s == FatSector(g, dj.clust)
           next == After(Disk, fs.g, dj.clust)
<1>1. at \in {"find next", "list next"} /\ at \in OfDir /\ UNCHANGED vol /\ IInv'
  BY DirChainStep DEF DirChain, OfDir, Inv
<1>2. /\ at = "list next" => call.op = "ls"
      /\ at = "find next" => out = <<>>
  BY DEF Inv, Control
<1>3. InPath
  BY <1>1 DEF InPath, Inv, Control
<1>4. /\ IsDj(dj) /\ Turns(Disk, fs.g, dj)
      /\ at = "find next" => Looks(Disk, fs.g, fs.cdir, call.path, dj, p)
      /\ at = "list next" => Prints(Disk, fs.g, fs.cdir, call.path, dj, p, out)
  BY <1>1 DEF Inv, Dirs
<1>5. Sound(Disk, fs.g)
  BY <1>3, PathStep
<1>6. dj.sclust \in Nat /\ dj.dptr \in Nat
  BY <1>4 DEF Turns, Stands
<1>7. /\ dj.clust \in Nat /\ clst2sect(fs.g, dj.clust) # 0 /\ next \in Nat
      /\ next = FatEntry(Disk[FatSector(fs.g, dj.clust)], dj.clust)
      /\ next <= 1 => Broken(Disk, fs.g, dj.sclust)
      /\ next <= 1 \/ next >= fs.g.n_fatent => p = DirLen(Disk, fs.g, dj.sclust)
      /\ next > 1 /\ next < fs.g.n_fatent =>
            \A e : /\ e.sclust = dj.sclust /\ e.dptr = p /\ e.clust = next /\ e.sect = clst2sect(fs.g, next)
                   => Stands(Disk, fs.g, e)
  BY <1>4, <1>5, TurnsNext
<1>8. s \in Nat
  <2>1. fs.g.fatbase \in Nat /\ FE \in Nat \ {0}
    BY <1>5, FatVolumeAssumption DEF Sound
  <2>2. dj.clust \div FE \in Nat
    BY <1>7, <2>1, DivMod
  <2> QED
    BY <2>1, <2>2 DEF FatSector, g
<1>9. PICK f \in move_window(fs, s) :
         LET c == get_fat(f, dj.clust)
         IN  /\ Noted(f.win)
             /\ \/ Unread(f)
                \/ f.win # Junk /\ c <= 1 /\ Fails("FR_INT_ERR") /\ fs' = f /\ UNCHANGED fileVars
                \/ f.win # Junk /\ c > 1 /\ c >= g.n_fatent /\ TableEnds(f)
                \/ /\ f.win # Junk /\ c > 1 /\ c < g.n_fatent
                   /\ dj' = Stretch(dj, c)
                   /\ Goes(IF at = "find next" THEN "find" ELSE "list")
                   /\ fs' = f /\ UNCHANGED <<fileVars, parts, btr, out>>
  BY DEF DirChain
<1>10. Outcome(f)
  BY <1>9, OutcomeNotFound DEF Unread, TableEnds, Outcome, fileVars
<1>11. /\ Frame /\ IsFs(f) /\ f.cdir = fs.cdir
       /\ f.win = Junk => trouble'
       /\ f.win # Junk => trouble' = trouble /\ f.win = Disk[s]
  <2>1. fs' = f \/ \E c : fs' = [f EXCEPT !.cdir = c]
    BY <1>10 DEF Outcome
  <2> HIDE DEF s
  <2> QED
    BY <1>1, <1>8, <1>9, <2>1, DirFrame
<1>12. f.win # Junk => get_fat(f, dj.clust) = next
  <2>1. fs' = f \/ \E c : fs' = [f EXCEPT !.cdir = c]
    BY <1>10 DEF Outcome
  <2>2. f.g = fs.g
    BY <1>9, Moves DEF Inv, IInv, Shapes
  <2> QED
    BY <1>7, <1>11, <2>2 DEF get_fat, g
<1>13. CASE Unread(f)
  <2>1. trouble' /\ Fails("FR_DISK_ERR") /\ fs' = f /\ UNCHANGED fileVars
    BY <1>11, <1>13 DEF Unread
  <2> QED
    BY <1>3, <1>11, <2>1, PathFails
<1>14. CASE f.win # Junk /\ next <= 1 /\ Fails("FR_INT_ERR") /\ fs' = f /\ UNCHANGED fileVars
  <2>1. Broken(Disk, fs.g, dj.sclust)
    BY <1>7, <1>14
  <2>2. Torn(Disk, fs.g, fs.cdir, call.path)
    <3>1. CASE at = "find next"
      <4>1. Way(Disk, fs.g, fs.cdir, call.path, dj) /\ IsPath(call.path)
        BY <1>3, <1>4, <3>1, PathStep DEF Looks
      <4> QED
        BY <2>1, <4>1, WayIs
    <3>2. CASE at = "list next"
      <4>1. Leads(dj.sclust)
        BY <1>4, <3>2 DEF Prints, Leads
      <4> QED
        BY <1>3, <2>1, <4>1, LeadsIs
    <3> QED
      BY <1>1, <3>1, <3>2
  <2> QED
    BY <1>3, <1>11, <1>14, <2>2, PathFails, PathReasons
<1>15. CASE f.win # Junk /\ next > 1 /\ next >= fs.g.n_fatent /\ TableEnds(f)
  <2>1. p = DirLen(Disk, fs.g, dj.sclust) /\ UNCHANGED trouble
    BY <1>7, <1>11, <1>15
  <2>2. CASE at = "find next"
    <3>1. NotFound(f)
      BY <1>15, <2>2 DEF TableEnds
    <3>2. Way(Disk, fs.g, fs.cdir, call.path, dj) /\ Missed(Disk, fs.g, dj, DirLen(Disk, fs.g, dj.sclust))
      BY <1>4, <2>1, <2>2 DEF Looks
    <3> QED
      BY <1>4, <1>6, <1>11, <2>1, <2>2, <3>1, <3>2, NotFoundDoes
  <2>3. CASE at = "list next"
    <3>1. Says("OK", out) /\ fs' = f /\ UNCHANGED fileVars
      BY <1>15, <2>3 DEF TableEnds
    <3>2. Leads(dj.sclust) /\ out = Listed(DirAt(Disk, fs.g, dj.sclust))[p]
      BY <1>4, <2>3 DEF Prints, Leads
    <3>3. out = Listing(Disk, fs.g, dj.sclust)
      <4>1. Len(DirAt(Disk, fs.g, dj.sclust)) = p
        BY <2>1, DirIs
      <4> QED
        BY <3>2, <4>1 DEF Listing
    <3> QED
      BY <1>2, <1>3, <1>11, <2>1, <2>3, <3>1, <3>2, <3>3, PathLs
  <2> QED
    BY <1>1, <2>2, <2>3
<1>16. CASE /\ f.win # Junk /\ next > 1 /\ next < fs.g.n_fatent
            /\ dj' = Stretch(dj, next)
            /\ Goes(IF at = "find next" THEN "find" ELSE "list")
            /\ fs' = f /\ UNCHANGED <<fileVars, parts, btr, out>>
  <2>1. PICK n : n = Stretch(dj, next)
    OBVIOUS
  <2> HIDE DEF next, p
  <2>2. /\ IsDj(n) /\ n.sclust = dj.sclust /\ n.clust = next /\ n.sect = clst2sect(fs.g, next) /\ n.dptr = p
        /\ n.ord = dj.ord /\ n.sum = dj.sum /\ n.name = dj.name /\ n.path = dj.path
    <3>1. PICK c : c = next
      OBVIOUS
    <3>2. n = Stretch(dj, c)
      BY <2>1, <3>1
    <3>3. /\ IsDj(n) /\ n.sclust = dj.sclust /\ n.clust = c /\ n.sect = clst2sect(fs.g, c) /\ n.dptr = dj.dptr + 1
          /\ n.ord = dj.ord /\ n.sum = dj.sum /\ n.name = dj.name /\ n.path = dj.path
      <4>1. IsDj(dj)
        BY <1>4
      <4> QED
        BY ONLY <3>2, <4>1, StretchIs
    <3> QED
      BY <3>1, <3>3 DEF p
  <2>3. Stands(Disk, fs.g, n)
    BY <1>7, <1>16, <2>2
  <2>4. Disk' = Disk /\ fs'.g = fs.g /\ fs'.cdir = fs.cdir /\ call' = call /\ dj' = n /\ out' = out
    BY <1>11, <1>16, <2>1 DEF Disk, Frame, Goes
  <2>5. CASE at = "find next"
    <3>1. Goes("find") /\ at' = "find"
      BY <1>16, <2>5 DEF Goes
    <3>2. Looks(Disk, fs.g, fs.cdir, call.path, n, n.dptr)
      BY <1>4, <2>2, <2>5, SameLooks
    <3>3. Dirs'
      BY <2>2, <2>3, <2>4, <3>1, <3>2 DEF Dirs, OfDir
    <3> QED
      BY <1>2, <1>3, <1>11, <1>16, <2>4, <2>5, <3>1, <3>3, PathGoes DEF OfDir
  <2>6. CASE at = "list next"
    <3>1. Goes("list") /\ at' = "list"
      BY <1>16, <2>6 DEF Goes
    <3>2. Prints(Disk, fs.g, fs.cdir, call.path, n, n.dptr, out)
      BY <1>4, <2>2, <2>6, SameLooks
    <3>3. Dirs'
      BY <2>2, <2>3, <2>4, <3>1, <3>2 DEF Dirs, OfDir
    <3> QED
      BY <1>2, <1>3, <1>11, <1>16, <2>4, <2>6, <3>1, <3>3, PathGoes DEF OfDir
  <2> QED
    BY <1>1, <2>5, <2>6
<1> QED
  BY <1>9, <1>12, <1>13, <1>14, <1>15, <1>16 DEF g

--------------------------------------------------------------------------------
(* Steps of a call on a file. *)

OnFile == at \in OfRead \cup OfSeek

\* What such a step leaves alone.
FilFrame ==
    /\ IInv' /\ UNCHANGED <<card, sd_mounted, drive_status, vol, fd_used, of, call>>
    /\ trouble' \in BOOLEAN /\ (trouble => trouble')
    /\ fs'.type = fs.type /\ fs'.g = fs.g /\ fs'.id = fs.id /\ fs'.cdir = fs.cdir

\* It may move the file object on.
SameFile(f) ==
    IsFil(f) /\ f.fs = fil.fs /\ f.id = fil.id /\ f.sclust = fil.sclust /\ f.objsize = fil.objsize

\* What holds at every step of a read or a seek.
LEMMA FileStep ==
    ASSUME World, Inv, OnFile
    PROVE  /\ at \notin {"idle", "said"}
           /\ call \in Calls /\ call # None /\ ret = None /\ call.op \in OnHandle /\ call.h \in Handle
           /\ call.op \in {"read", "seek"} /\ (call.op = "read" <=> at \in OfRead)
           /\ fd_used[call.h] /\ IsFil(fil) /\ SameFile(fil) /\ trouble \in BOOLEAN /\ fs.cdir \in Nat
           /\ PosOf(call.h) = from /\ Mapped[call.h] # None
<1>1. at \notin {"idle", "said"}
  BY DEF OnFile, OfRead, OfSeek
<1>2. /\ call \in Calls /\ call # None /\ ret = None
  BY <1>1, CallIs
<1>3. call.op \in {"read", "seek"} /\ (call.op = "read" <=> at \in OfRead)
  BY DEF OnFile, OfRead, OfSeek, Inv, Control
<1>4. call.op \in OnHandle /\ call.h \in Handle
  BY <1>1, <1>3, CallIs DEF OnHandle
<1>5. fd_used[call.h]
  BY DEF OnFile, Inv, Control
<1>6. IsFil(fil)
  BY <1>4 DEF Inv, IInv, Shapes, fil
<1>7. trouble \in BOOLEAN
  BY DEF Inv, Control
<1>8. fs.cdir \in Nat
  BY DEF Inv, Ready
<1>9. PosOf(call.h) = from
  BY <1>2, <1>4 DEF PosOf
<1>10. Mapped[call.h] # None
  BY <1>4, <1>5, MappedIs
<1> QED
  BY <1>1, <1>2, <1>3, <1>4, <1>5, <1>6, <1>7, <1>8, <1>9, <1>10 DEF SameFile

\* The object of the call is the only one that changes.
LEMMA SetIs ==
    ASSUME Inv, call.h \in Handle, NEW f, FilIs(f)
    PROVE  fd_fil'[call.h] = f /\ \A k \in Handle : k # call.h => fd_fil'[k] = fd_fil[k]
  BY DEF Inv, IInv, Shapes, FilIs

\* No object changes.
LEMMA NotSet ==
    ASSUME Inv, call.h \in Handle, UNCHANGED fd_fil
    PROVE  FilIs(fil)
<1>1. fd_fil = [k \in Handle |-> fd_fil[k]]
  BY DEF Inv, IInv, Shapes
<1> QED
  BY <1>1 DEF FilIs, fil

\* What holds of the files after a step that leaves its own in order, or spoils it.
LEMMA FilesAfter ==
    ASSUME World, Inv, OnFile, FilFrame, NEW f, FilIs(f), SameFile(f), f.err = TRUE \/ f.err = fil.err,
           \/ f.err = TRUE \/ ~Live(call.h)
           \/ Sized(f) /\ (at' \in {"read sector", "seeking"} \/ Settled(Disk, fs.g, f))
    PROVE  /\ Live(call.h)' <=> Live(call.h) /\ ~f.err
           /\ \A k \in Handle : k # call.h => Live(k)' = Live(k) /\ fd_fil'[k] = fd_fil[k]
           /\ Files' /\ Ready'
<1>1. call.h \in Handle /\ fd_used[call.h] /\ fs.cdir \in Nat
  BY FileStep
<1>2. fd_fil'[call.h] = f /\ \A k \in Handle : k # call.h => fd_fil'[k] = fd_fil[k]
  BY <1>1, SetIs
<1>3. fs'.type = fs.type /\ fs'.id = fs.id /\ fd_used' = fd_used /\ call' = call
  BY DEF FilFrame
<1>4. f.fs = fil.fs /\ f.id = fil.id
  BY DEF SameFile
<1>5. Live(call.h)' <=> Live(call.h) /\ ~f.err
  <2>1. Live(call.h)' <=> fd_used[call.h] /\ f.fs /\ ~f.err /\ fs.type /\ f.id = fs.id
    BY <1>2, <1>3 DEF Live
  <2>2. Live(call.h) <=> fd_used[call.h] /\ f.fs /\ ~fil.err /\ fs.type /\ f.id = fs.id
    BY <1>4 DEF Live, fil
  <2>3. CASE f.err = TRUE
    BY <2>1, <2>3
  <2>4. CASE f.err = fil.err
    BY <2>1, <2>2, <2>4
  <2> QED
    BY <2>3, <2>4
<1>6. \A k \in Handle : k # call.h => Live(k)' = Live(k)
  BY <1>2, <1>3 DEF Live
<1>7. Ready'
  BY <1>1, ReadyKept DEF FilFrame
<1>8. Disk' = Disk /\ fs'.g = fs.g /\ of' = of /\ \A k : Moving(k)' <=> at' \in {"read sector", "seeking"} /\ k = call.h
  BY <1>3 DEF Disk, FilFrame, Moving
<1>9. ASSUME NEW k \in Handle, Live(k)'
      PROVE  /\ Named(Disk, fs.g, of[k], fd_fil'[k]) /\ Sized(fd_fil'[k])
             /\ ~(at' \in {"read sector", "seeking"} /\ k = call.h) => Settled(Disk, fs.g, fd_fil'[k])
  <2>1. CASE k = call.h
    <3>1. Live(call.h) /\ ~f.err
      BY <1>3, <1>5, <1>9, <2>1 DEF Live
    <3>2. Named(Disk, fs.g, of[k], fil)
      BY <2>1, <3>1 DEF Inv, Files, fil
    <3>3. Named(Disk, fs.g, of[k], f)
      BY <3>2 DEF Named, SameFile
    <3>4. Sized(f) /\ (at' \in {"read sector", "seeking"} \/ Settled(Disk, fs.g, f))
      BY <3>1
    <3> QED
      BY <1>2, <2>1, <3>3, <3>4
  <2>2. CASE k # call.h
    BY <1>2, <1>6, <1>9, <2>2 DEF Inv, Files, Moving
  <2> QED
    BY <2>1, <2>2
<1>10. Files'
  BY <1>8, <1>9 DEF Files
<1> QED
  BY <1>2, <1>5, <1>6, <1>7, <1>10

\* What a program sees then of the other handles, and of this one.
LEMMA MapAfter ==
    ASSUME World, Inv, OnFile, FilFrame, NEW f, FilIs(f), SameFile(f), Live(call.h)' <=> Live(call.h) /\ ~f.err,
           \A k \in Handle : k # call.h => Live(k)' = Live(k) /\ fd_fil'[k] = fd_fil[k]
    PROVE  /\ UNCHANGED SVol
           /\ \A k \in Handle : k # call.h => Mapped'[k] = Mapped[k]
           /\ Mapped'[call.h] = IF Live(call.h) /\ ~f.err
                 THEN [dir |-> of[call.h].dir, path |-> of[call.h].path, pos |-> IF ret' = None THEN from' ELSE f.fptr]
                 ELSE [dir |-> None, path |-> <<>>, pos |-> 0]
<1>1. call.h \in Handle /\ fd_used[call.h] /\ call # None /\ call.op \in OnHandle
  BY FileStep
<1>2. fd_fil'[call.h] = f
  BY <1>1, SetIs
<1>3. fd_used' = fd_used /\ of' = of /\ call' = call
  BY DEF FilFrame
<1>4. PosOf(call.h)' = IF ret' = None THEN from' ELSE f.fptr
  BY <1>1, <1>2, <1>3 DEF PosOf
<1>5. \A k \in Handle : k # call.h => PosOf(k)' = PosOf(k)
  BY <1>3 DEF PosOf
<1>6. UNCHANGED SVol
  BY DEF SVol, FilFrame
<1>7. ASSUME NEW k \in Handle, k # call.h PROVE Mapped'[k] = Mapped[k]
  BY <1>3, <1>5, <1>7 DEF Mapped
<1>8. Mapped'[call.h] = IF Live(call.h)'
                 THEN [dir |-> of[call.h].dir, path |-> of[call.h].path, pos |-> PosOf(call.h)']
                 ELSE [dir |-> None, path |-> <<>>, pos |-> 0]
  BY <1>1, <1>3 DEF Mapped
<1> QED
  BY <1>4, <1>6, <1>7, <1>8

\* A read or a seek goes on.
LEMMA FilInner ==
    ASSUME World, Inv, OnFile, FilFrame, NEW f, FilIs(f), SameFile(f), f.err = fil.err, Live(call.h), Sized(f),
           NEW step, at' = step, UNCHANGED <<ret, from>>,
           \/ step \in {"reading", "read next", "read sector"} /\ call.op = "read"
           \/ step = "seeking" /\ call.op = "seek" /\ out' = <<>>,
           step \in {"read sector", "seeking"} \/ Settled(Disk, fs.g, f), Reads', Seeks'
    PROVE  Does
<1>1. /\ at \notin {"idle", "said"} /\ call \in Calls /\ call # None /\ ret = None /\ call.h \in Handle
      /\ fd_used[call.h] /\ trouble \in BOOLEAN /\ PosOf(call.h) = from
  BY FileStep
<1>2. ~f.err
  BY DEF Live, fil
<1>3. /\ Live(call.h)' <=> Live(call.h) /\ ~f.err
      /\ \A k \in Handle : k # call.h => Live(k)' = Live(k) /\ fd_fil'[k] = fd_fil[k]
      /\ Files' /\ Ready'
  BY FilesAfter
<1>4. /\ UNCHANGED SVol
      /\ \A k \in Handle : k # call.h => Mapped'[k] = Mapped[k]
      /\ Mapped'[call.h] = IF Live(call.h) /\ ~f.err
            THEN [dir |-> of[call.h].dir, path |-> of[call.h].path, pos |-> IF ret' = None THEN from' ELSE f.fptr]
            ELSE [dir |-> None, path |-> <<>>, pos |-> 0]
  BY <1>3, MapAfter
<1>5. UNCHANGED Mapped
  <2>1. Mapped[call.h] = [dir |-> of[call.h].dir, path |-> of[call.h].path, pos |-> from]
    BY <1>1, MappedIs
  <2>2. Mapped'[call.h] = Mapped[call.h]
    BY <1>1, <1>2, <1>4, <2>1
  <2>3. \A k \in Handle : Mapped'[k] = Mapped[k]
    BY <1>4, <2>2
  <2>4. Mapped = [k \in Handle |-> Mapped[k]] /\ Mapped' = [k \in Handle |-> Mapped'[k]]
    BY DEF Mapped
  <2> QED
    BY <2>3, <2>4
<1>6. Control'
  BY <1>1 DEF Control, FilFrame, Early, OfDir, OfRead, OfSeek, OnHandle
<1>7. Tried' /\ Dirs'
  BY DEF Tried, Dirs, OfDir
<1>8. StoreStep
  BY <1>1, <1>4, <1>5, Inner DEF FilFrame
<1> QED
  BY <1>3, <1>6, <1>7, <1>8 DEF Does, Inv, FilFrame

\* A file whose chain ends before its size is a reason.
LEMMA DamagedIs ==
    ASSUME World, Inv, OnFile, NEW p \in Nat,
           Live(call.h) => p < fil.objsize /\ SectorAt(Disk, fs.g, fil.sclust, p, SS) = 0
    PROVE  /\ Live(call.h) => Store!Damaged(Store!Of(call.h))
           /\ Store!Reason
<1>1. call.h \in Handle /\ call.op \in OnHandle
  BY FileStep
<1>2. ASSUME Live(call.h) PROVE Store!Damaged(Store!Of(call.h))
  <2>1. /\ Store!Of(call.h) = FileAt(Disk, fs.g, fil.sclust, fil.objsize)
        /\ Sound(Disk, fs.g) /\ fil.sclust \in Nat /\ fil.objsize \in Nat
    BY <1>1, <1>2, FileOf DEF fil, Sized
  <2>2. p < fil.objsize /\ SectorAt(Disk, fs.g, fil.sclust, p, SS) = 0
    BY <1>2
  <2>3. Len(FileAt(Disk, fs.g, fil.sclust, fil.objsize).data) < FileAt(Disk, fs.g, fil.sclust, fil.objsize).size
    BY <2>1, <2>2, FileDamaged
  <2> QED
    BY <2>1, <2>3 DEF Store!Damaged
<1>3. ~Live(call.h) => ~Store!Live(call.h)
  BY <1>1, MappedIs
<1>4. Store!Reason
  BY <1>1, <1>2, <1>3 DEF Store!Reason, Store!OnHandle, OnHandle
<1> QED
  BY <1>2, <1>4

\* An object that delivers nothing is a reason.
LEMMA DeadIs ==
    ASSUME World, Inv, OnFile, ~Live(call.h)
    PROVE  Store!Reason
<1>1. PICK p \in Nat : p = 0
  OBVIOUS
<1> QED
  BY <1>1, DamagedIs

\* ABORT: the step fails and the object keeps the error.
LEMMA FilAborts ==
    ASSUME World, Inv, OnFile, FilFrame, Live(call.h), NEW f, SameFile(f), NEW res, res # "OK", Aborts(f, res),
           Store!Reason \/ trouble'
    PROVE  Does
<1>1. PICK n : n = [f EXCEPT !.err = TRUE]
  OBVIOUS
<1>2. FilIs(n) /\ Fails(res)
  BY <1>1 DEF Aborts, FilIs
<1>3. SameFile(n) /\ n.err = TRUE
  BY <1>1 DEF SameFile, IsFil
<1>4. /\ at \notin {"idle", "said"} /\ call.h \in Handle /\ call.op \in {"read", "seek"}
      /\ Mapped[call.h] # None /\ Mapped[call.h] # [dir |-> None, path |-> <<>>, pos |-> 0]
  <2>1. /\ at \notin {"idle", "said"} /\ call.h \in Handle /\ call.op \in {"read", "seek"}
        /\ Mapped[call.h] # None
    BY FileStep
  <2>2. Mapped[call.h] # [dir |-> None, path |-> <<>>, pos |-> 0]
    BY <2>1, MappedIs
  <2> QED
    BY <2>1, <2>2
<1>5. /\ Live(call.h)' <=> Live(call.h) /\ ~n.err
      /\ \A k \in Handle : k # call.h => Live(k)' = Live(k) /\ fd_fil'[k] = fd_fil[k]
      /\ Files' /\ Ready'
  BY <1>2, <1>3, FilesAfter
<1>6. /\ UNCHANGED SVol
      /\ \A k \in Handle : k # call.h => Mapped'[k] = Mapped[k]
      /\ Mapped'[call.h] = IF Live(call.h) /\ ~n.err
            THEN [dir |-> of[call.h].dir, path |-> of[call.h].path, pos |-> IF ret' = None THEN from' ELSE n.fptr]
            ELSE [dir |-> None, path |-> <<>>, pos |-> 0]
  BY <1>2, <1>3, <1>5, MapAfter
<1>7. Mapped' = [Mapped EXCEPT ![call.h] = [dir |-> None, path |-> <<>>, pos |-> 0]]
  <2>1. Mapped'[call.h] = [dir |-> None, path |-> <<>>, pos |-> 0]
    BY <1>3, <1>6
  <2>2. Mapped = [k \in Handle |-> Mapped[k]] /\ Mapped' = [k \in Handle |-> Mapped'[k]]
    BY DEF Mapped
  <2> QED
    BY <1>4, <1>6, <2>1, <2>2
<1>8. StoreStep
  BY <1>2, <1>4, <1>6, <1>7, Refused DEF FilFrame
<1>9. Control' /\ Tried' /\ Reads' /\ Seeks' /\ Dirs'
  BY <1>2, <1>4, Ended DEF Fails, FilFrame
<1> QED
  BY <1>5, <1>8, <1>9 DEF Does, Inv, FilFrame

\* The step fails and leaves the object.
LEMMA FilFails ==
    ASSUME World, Inv, at \in {"read", "seek"}, FilFrame, UNCHANGED fd_fil, NEW res, res # "OK", Fails(res),
           Store!Reason \/ trouble'
    PROVE  Does
<1>1. OnFile
  BY DEF OnFile, OfRead, OfSeek
<1>2. /\ call.h \in Handle /\ call.op \in OnHandle /\ call # None /\ fs.cdir \in Nat /\ ret' # None
  BY <1>1, FileStep, Answers DEF Fails
<1>3. \A h \in Handle : PosOf(h)' = PosOf(h)
  <2>1. \A h \in Handle : PosOf(h) = fd_fil[h].fptr
    BY PosIs
  <2>2. \A h \in Handle : PosOf(h)' = fd_fil[h].fptr
    BY <1>2 DEF PosOf
  <2> QED
    BY <2>1, <2>2
<1>4. UNCHANGED Mapped /\ UNCHANGED SVol
  BY <1>3, SameMap DEF FilFrame
<1>5. StoreStep
  BY <1>4, Refused DEF FilFrame
<1>6. Inv'
  BY <1>2, EndsHere DEF Fails, FilFrame
<1> QED
  BY <1>5, <1>6 DEF Does

\* A read or a seek answers.
LEMMA FilAnswers ==
    ASSUME World, Inv, OnFile, FilFrame, NEW f, FilIs(f), SameFile(f), f.err = fil.err, Live(call.h), Sized(f),
           Settled(Disk, fs.g, f), NEW o, Says("OK", o)
    PROVE  /\ Inv' /\ UNCHANGED SVol
           /\ Mapped' = [Mapped EXCEPT ![call.h].pos = f.fptr]
           /\ Mapped[call.h].pos = from
           /\ ret' = [res |-> "OK", out |-> o] /\ ret' # None
<1>1. /\ at \notin {"idle", "said"} /\ call.h \in Handle /\ PosOf(call.h) = from
  BY FileStep
<1>2. ret' = [res |-> "OK", out |-> o] /\ ret' # None
  BY Answers
<1>3. ~f.err
  BY DEF Live, fil
<1>4. /\ Live(call.h)' <=> Live(call.h) /\ ~f.err
      /\ \A k \in Handle : k # call.h => Live(k)' = Live(k) /\ fd_fil'[k] = fd_fil[k]
      /\ Files' /\ Ready'
  BY FilesAfter
<1>5. /\ UNCHANGED SVol
      /\ \A k \in Handle : k # call.h => Mapped'[k] = Mapped[k]
      /\ Mapped'[call.h] = IF Live(call.h) /\ ~f.err
            THEN [dir |-> of[call.h].dir, path |-> of[call.h].path, pos |-> IF ret' = None THEN from' ELSE f.fptr]
            ELSE [dir |-> None, path |-> <<>>, pos |-> 0]
  BY <1>4, MapAfter
<1>6. Mapped[call.h] = [dir |-> of[call.h].dir, path |-> of[call.h].path, pos |-> from]
  BY <1>1, MappedIs
<1>7. Mapped'[call.h] = [dir |-> of[call.h].dir, path |-> of[call.h].path, pos |-> f.fptr]
  BY <1>2, <1>3, <1>5
<1>8. Mapped' = [Mapped EXCEPT ![call.h].pos = f.fptr]
  <2>1. Mapped = [k \in Handle |-> Mapped[k]] /\ Mapped' = [k \in Handle |-> Mapped'[k]]
    BY DEF Mapped
  <2>2. [Mapped[call.h] EXCEPT !.pos = f.fptr] = Mapped'[call.h]
    BY <1>6, <1>7
  <2> QED
    BY <1>1, <1>5, <2>1, <2>2
<1>9. Control' /\ Tried' /\ Reads' /\ Seeks' /\ Dirs'
  BY <1>1, Ended DEF FilFrame
<1> QED
  BY <1>2, <1>4, <1>5, <1>6, <1>8, <1>9 DEF Inv, FilFrame

\* Where a seek goes is where it is to go, but for a place beyond the start or beyond what
\* a position can hold.
LEMMA Astray ==
    ASSUME World, Inv, OnFile, call.op = "seek", Live(call.h), from \in Nat, Aim(call, fil, from) >= 0, NEW t,
           t = CASE call.whence = "SET" -> call.off
                 [] call.whence = "CUR" -> from + call.off
                 [] call.whence = "END" -> fil.objsize + call.off
    PROVE  \/ Aim(call, fil, from) = t /\ t >= 0
           \/ call.whence # "SET" /\ t \notin 0 .. Wide - 1 /\ Aim(call, fil, from) = t % Wide
<1>1. /\ call.off \in Int /\ call.whence \in {"SET", "CUR", "END"}
  BY CallIs DEF OnFile, OfRead, OfSeek
<1>2. fil.objsize \in Nat
  <2>1. call.h \in Handle
    BY FileStep
  <2> QED
    BY <2>1 DEF Inv, Files, Sized, fil
<1>3. PICK w \in Nat \ {0} : w = Wide
  BY FatAssumption
<1>4. ASSUME NEW n \in Int, n \in 0 .. w - 1 PROVE n % w = n /\ n >= 0
  BY ONLY <1>3, <1>4
<1>5. CASE call.whence = "SET"
  BY <1>5 DEF Aim
<1>6. CASE call.whence = "CUR"
  <2>1. t = from + call.off /\ t \in Int /\ Aim(call, fil, from) = t % Wide
    BY <1>1, <1>6 DEF Aim
  <2> QED
    BY <1>3, <1>4, <1>6, <2>1
<1>7. CASE call.whence = "END"
  <2>1. t = fil.objsize + call.off /\ t \in Int /\ Aim(call, fil, from) = t % Wide
    BY <1>1, <1>2, <1>7 DEF Aim
  <2> QED
    BY <1>3, <1>4, <1>7, <2>1
<1> QED
  BY <1>1, <1>5, <1>6, <1>7

\* A seek answers with its position.
LEMMA SeekAnswers ==
    ASSUME World, Inv, at \in OfSeek, FilFrame, UNCHANGED trouble, NEW f, FilIs(f), SameFile(f), f.err = fil.err,
           Live(call.h), Sized(f), Settled(Disk, fs.g, f), Says("OK", f.fptr), from \in Nat,
           Aim(call, fil, from) >= 0,
           \/ f.fptr = Least(Aim(call, fil, from), fil.objsize)
           \/ f.fptr = 0 /\ \E p \in Nat : p < fil.objsize /\ SectorAt(Disk, fs.g, fil.sclust, p, SS) = 0
    PROVE  Does
<1>1. OnFile /\ call.op = "seek"
  BY DEF OnFile, OfSeek, Inv, Control
<1>2. /\ Inv' /\ UNCHANGED SVol
      /\ Mapped' = [Mapped EXCEPT ![call.h].pos = f.fptr]
      /\ Mapped[call.h].pos = from
      /\ ret' = [res |-> "OK", out |-> f.fptr] /\ ret' # None
  BY <1>1, FilAnswers
<1>3. call.h \in Handle /\ call # None /\ ret = None
  BY <1>1, FileStep
<1>4. Store!Live(call.h)
  BY <1>3, MappedIs
<1>5. Store!Of(call.h) = FileAt(Disk, fs.g, fil.sclust, fil.objsize)
  BY <1>3, FileOf DEF fil
<1>6. Store!Of(call.h).size = fil.objsize
  BY <1>5 DEF FileAt
<1>7. PICK t : t = Store!Target(Store!Of(call.h))
  OBVIOUS
<1>12. /\ call.whence \in {"SET", "CUR", "END"}
       /\ t = CASE call.whence = "SET" -> call.off
                [] call.whence = "CUR" -> from + call.off
                [] call.whence = "END" -> fil.objsize + call.off
  BY <1>1, <1>2, <1>6, <1>7, CallIs DEF Store!Target, OfSeek
<1>13. \/ Aim(call, fil, from) = t /\ t >= 0
       \/ call.whence # "SET" /\ t \notin 0 .. Wide - 1 /\ Aim(call, fil, from) = t % Wide
  BY <1>1, <1>12, Astray
<1>8. f.fptr = 0 /\ (\E p \in Nat : p < fil.objsize /\ SectorAt(Disk, fs.g, fil.sclust, p, SS) = 0)
        => Store!Damaged(Store!Of(call.h))
  BY <1>1, DamagedIs
<1>9. Store!SeekTo(Store!Of(call.h), Aim(call, fil, from))
  <2>1. Store!Least(Aim(call, fil, from), Store!Of(call.h).size) = Least(Aim(call, fil, from), fil.objsize)
    BY <1>6 DEF Store!Least, Least
  <2>2. f.fptr \in {Store!Least(Aim(call, fil, from), Store!Of(call.h).size)}
                   \cup (IF Store!Damaged(Store!Of(call.h)) THEN {0} ELSE {})
    BY <1>8, <2>1
  <2>3. Store!Answer(f.fptr)
    BY <1>2 DEF Store!Answer, FilFrame, SVol
  <2> QED
    BY <1>2, <2>2, <2>3 DEF Store!SeekTo
<1>10. UNCHANGED fs.cdir
  BY DEF FilFrame
<1>11. StoreStep
  <2>1. CASE Aim(call, fil, from) = t /\ t >= 0
    <3>1. Store!AnswerSeek
      BY <1>1, <1>4, <1>7, <1>9, <1>10, <2>1 DEF Store!AnswerSeek
    <3> QED
      BY <1>2, <1>3, <3>1 DEF StoreStep, Store!Next
  <2>2. CASE call.whence # "SET" /\ t \notin 0 .. Wide - 1 /\ Aim(call, fil, from) = t % Wide
    <3>1. Store!SeekAstray
      BY <1>1, <1>2, <1>3, <1>4, <1>7, <1>9, <1>10, <2>2 DEF Store!SeekAstray
    <3> QED
      BY <3>1 DEF StoreStep
  <2> QED
    BY <1>13, <2>1, <2>2
<1> QED
  BY <1>2, <1>11 DEF Does

--------------------------------------------------------------------------------
(* File objects. *)

\* The fields of an object at another position.
LEMMA PtrIs ==
    ASSUME NEW f, SameFile(f), NEW p, NEW n, n = [f EXCEPT !.fptr = p]
    PROVE  SameFile(n) /\ n.fptr = p /\ n.err = f.err /\ n.clust = f.clust /\ n.sect = f.sect /\ n.buf = f.buf
  BY DEF SameFile, IsFil

\* The fields of an object in another cluster.
LEMMA ClustIs ==
    ASSUME NEW f, SameFile(f), NEW c, NEW n, n = [f EXCEPT !.clust = c]
    PROVE  SameFile(n) /\ n.clust = c /\ n.err = f.err /\ n.fptr = f.fptr /\ n.sect = f.sect /\ n.buf = f.buf
  BY DEF SameFile, IsFil

\* The fields of an object with another sector in its buffer.
LEMMA HoldingIs ==
    ASSUME NEW f, SameFile(f), NEW s, NEW data, NEW n, n = Holding(f, s, data)
    PROVE  /\ SameFile(n) /\ n.clust = f.clust /\ n.err = f.err /\ n.fptr = f.fptr
           /\ n.sect = s /\ n.buf = data
<1> DEFINE a == [f EXCEPT !.buf = data]
           b == [a EXCEPT !.sect = s]
<1>1. n = b
  BY DEF Holding
<1>2. SameFile(a) /\ a.clust = f.clust /\ a.err = f.err /\ a.fptr = f.fptr /\ a.buf = data
  BY DEF SameFile, IsFil
<1> HIDE DEF a
<1>3. SameFile(b) /\ b.clust = a.clust /\ b.err = a.err /\ b.fptr = a.fptr /\ b.buf = a.buf /\ b.sect = s
  BY <1>2 DEF SameFile, IsFil
<1> QED
  BY <1>1, <1>2, <1>3

\* The fields of an object whose buffer is spoilt.
LEMMA SpoiltIs == ASSUME NEW f, SameFile(f) PROVE SameFile(Spoilt(f))
  BY DEF SameFile, IsFil, Spoilt

\* The file of a call that delivers.
LEMMA LiveIs ==
    ASSUME World, Inv, OnFile, Live(call.h)
    PROVE  /\ fs.type /\ g = fs.g /\ Sound(Disk, fs.g) /\ bcs = fs.g.csize * SS
           /\ fs.g.csize \in Nat \ {0} /\ SS \in Nat \ {0} /\ bcs \in Nat \ {0}
           /\ fil.sclust \in Nat /\ fil.objsize \in Nat /\ fil.fptr \in Nat /\ fil.fptr <= fil.objsize
           /\ at \notin {"read sector", "seeking"} => Settled(Disk, fs.g, fil)
           /\ fil.sect # 0 => fil.buf = Disk[fil.sect]
           /\ vol \in Cards \ {None}
<1>1. call.h \in Handle
  BY FileStep
<1>2. fs.type /\ Sound(Disk, fs.g) /\ Sized(fil)
  BY <1>1, FileOf DEF fil
<1>3. fs.g.csize \in Nat \ {0} /\ SS \in Nat \ {0}
  BY <1>2, FatVolumeAssumption DEF Sound
<1>4. g = fs.g /\ bcs = fs.g.csize * SS
  BY DEF g, bcs
<1>5. bcs \in Nat \ {0}
  <2>1. PICK a \in Nat \ {0} : a = fs.g.csize
    BY <1>3
  <2>2. a * SS \in Nat \ {0}
    BY <1>3, <2>1, DivDiv
  <2> QED
    BY <1>4, <2>1, <2>2
<1>6. at \notin {"read sector", "seeking"} => Settled(Disk, fs.g, fil)
  BY <1>1 DEF Inv, Files, Moving, fil
<1>7. fil.sect # 0 => fil.buf = Disk[fil.sect]
  <2>1. Keeps(fil) /\ fil.fs /\ ~fil.err /\ fil.id = fs.id
    BY <1>1 DEF Inv, IInv, Live, fil
  <2> QED
    BY <1>2, <2>1 DEF Keeps, Disk
<1>8. vol \in Cards \ {None}
  BY <1>2 DEF Inv, Ready
<1> QED
  BY <1>2, <1>3, <1>4, <1>5, <1>6, <1>7, <1>8 DEF Sized

\* A step that does not read.
LEMMA FilQuiet ==
    ASSUME World, Inv, OnFile, IInv', UNCHANGED <<card, sd_mounted, drive_status, trouble, fs, vol, fd_used, of, call>>
    PROVE  FilFrame
  BY FileStep DEF FilFrame

\* A step that reads into a buffer.
LEMMA FilNoted ==
    ASSUME World, Inv, OnFile, IInv', NEW x, Noted(x), UNCHANGED <<fs, vol, fd_used, of, call>>
    PROVE  FilFrame /\ (x = Junk => trouble') /\ (x # Junk => trouble' = trouble)
<1>1. /\ trouble' \in BOOLEAN /\ (trouble => trouble') /\ (x = Junk => trouble')
      /\ (x # Junk => trouble' = trouble)
      /\ UNCHANGED <<card, sd_mounted, up, drive_status>>
  BY NotedIs
<1> QED
  BY <1>1 DEF FilFrame

\* A step that reads the FAT.
LEMMA FileWindow ==
    ASSUME World, Inv, OnFile, IInv', fs.type, NEW s \in Nat, NEW f \in move_window(fs, s), Moved(f),
           UNCHANGED <<vol, fd_used, of, call>>
    PROVE  /\ FilFrame /\ f.g = fs.g
           /\ f.win = Junk => trouble'
           /\ f.win # Junk => trouble' = trouble /\ f.win = Disk[s]
<1>1. IsFs(fs) /\ Own(fs) /\ Shows(fs)
  BY DEF Inv, IInv, Shapes
<1>2. /\ IsFs(f) /\ f.type = fs.type /\ f.id = fs.id /\ f.g = fs.g /\ f.cdir = fs.cdir
      /\ s = fs.winsect => f = fs
      /\ s # fs.winsect => f.win = Junk \/ (up /\ f.win = Image[card][s])
  <2>1. /\ IsFs(f) /\ f.type = fs.type /\ f.id = fs.id /\ f.g = fs.g /\ f.cdir = fs.cdir
        /\ s = fs.winsect => f = fs
    BY <1>1, Moves
  <2>2. s # fs.winsect => f.win = Junk \/ (up /\ f.win = Image[card][s])
    BY <1>1, Moves
  <2> QED
    BY <2>1, <2>2
<1>3. /\ trouble' \in BOOLEAN /\ (trouble => trouble') /\ (f.win = Junk => trouble')
      /\ (f.win # Junk => trouble' = trouble)
      /\ UNCHANGED <<card, sd_mounted, up, drive_status>>
  BY NotedIs DEF Moved
<1>4. f.win # Junk => f.win = Disk[s]
  <2>1. CASE s = fs.winsect
    <3>1. fs.winsect # NoSector
      BY <2>1 DEF NoSector
    <3> QED
      BY <1>1, <1>2, <2>1, <3>1 DEF Shows, Disk
  <2>2. CASE s # fs.winsect
    BY <1>1, <1>2, <2>2 DEF Own, Disk
  <2> QED
    BY <2>1, <2>2
<1>5. fs' = f
  BY DEF Moved
<1> QED
  BY <1>2, <1>3, <1>4, <1>5 DEF FilFrame

\* f_read begins.
LEMMA FReadDoes == ASSUME World, Inv, FRead PROVE Does
<1>1. /\ at = "read" /\ OnFile /\ IInv' /\ call.op = "read" /\ out = <<>> /\ from = fil.fptr
      /\ UNCHANGED <<card, sd_mounted, up, drive_status, trouble, faults, fs, Fsid, vol, fd_used, fd_fil, of>>
  <2>1. at = "read" /\ UNCHANGED <<card, sd_mounted, up, drive_status, trouble, faults, fs, Fsid, vol, fd_used, fd_fil, of>>
    BY DEF FRead, driveVars, fileVars
  <2>2. IInv'
    BY QuietStep DEF Inv
  <2>3. call.op = "read"
    BY <2>1 DEF Inv, Control, OfRead
  <2>4. out = <<>> /\ from = fil.fptr
    BY <2>1, <2>3 DEF Inv, Control, OnHandle
  <2> QED
    BY <2>1, <2>2, <2>3, <2>4 DEF OnFile, OfRead
<1>2. call' = call
  BY DEF FRead, Fails, Says, Goes
<1>3. FilFrame /\ FilIs(fil) /\ SameFile(fil) /\ fd_used[call.h] /\ call.h \in Handle
  BY <1>1, <1>2, FilQuiet, FileStep, NotSet
<1>4. Valid(fil) /\ ~fil.err <=> Live(call.h)
  BY <1>1, <1>3 DEF Valid, Live, fil, Inv, Ready
<1>5. CASE ~Valid(fil) \/ fil.err
  <2>1. \E r : r # "OK" /\ Fails(r)
    BY <1>5 DEF FRead
  <2>2. Store!Reason
    BY <1>1, <1>4, <1>5, DeadIs
  <2> QED
    BY <1>1, <1>3, <2>1, <2>2, FilFails
<1>6. CASE ~(~Valid(fil) \/ fil.err)
  <2>1. /\ btr' = Least(call.n, fil.objsize - fil.fptr) /\ at' = "reading" /\ UNCHANGED <<ret, from, dj, parts, out>>
    BY <1>6 DEF FRead, Goes
  <2>2. /\ Live(call.h) /\ Sized(fil) /\ Settled(Disk, fs.g, fil) /\ call.n \in Nat
        /\ fil.objsize \in Nat /\ fil.fptr \in Nat /\ fil.fptr <= fil.objsize
    <3>1. Live(call.h)
      BY <1>4, <1>6
    <3>2. call.n \in Nat
      BY <1>1, CallIs
    <3> QED
      BY <1>1, <3>1, <3>2, LiveIs DEF Sized
  <2>3. Reads'
    <3>1. Live(call.h)'
      BY <1>1, <1>2, <2>2 DEF Live
    <3>2. btr' \in Nat /\ fil.fptr + btr' = Least(fil.fptr + call.n, fil.objsize)
      BY <2>1, <2>2 DEF Least
    <3>3. out' = Bytes(Disk, fs.g, fil.sclust, from, fil.fptr)
      BY <1>1, <2>1, <2>2, BytesNone
    <3>4. Gives(Disk, fs.g, fil, from, call.n, out', btr')
      BY <1>1, <2>2, <3>2, <3>3 DEF Gives
    <3>5. Gives(Disk, fs.g, fil, from, call.n, out, btr)'
      BY <1>1, <1>2, <2>1, <3>4 DEF Disk, fil
    <3> QED
      BY <2>1, <3>1, <3>5 DEF Reads
  <2>4. Seeks'
    BY <2>1 DEF Seeks
  <2> QED
    BY <1>1, <1>3, <2>1, <2>2, <2>3, <2>4, FilInner
<1> QED
  BY <1>5, <1>6

--------------------------------------------------------------------------------
(* A read. *)

\* A part of the sector at p, in a buffer.
LEMMA PartIs ==
    ASSUME NEW cd, NEW v, Sound(cd, v), NEW c \in Nat, NEW p \in Nat, NEW n \in Nat \ {0}, (p % SS) + n <= SS,
           NEW b, b = cd[SectorAt(cd, v, c, p, SS)]
    PROVE  /\ SubSeq(b, (p % SS) + 1, (p % SS) + n) = Bytes(cd, v, c, p, p + n)
           /\ SectorAt(cd, v, c, p + (n - 1), SS) = SectorAt(cd, v, c, p, SS)
           /\ (p + (n - 1)) \div (v.csize * SS) = p \div (v.csize * SS)
           /\ (p + n) % SS # 0 => SectorAt(cd, v, c, p + n, SS) = SectorAt(cd, v, c, p, SS)
<1>1. SS \in Nat \ {0}
  BY FatVolumeAssumption
<1>2. PICK a \in Nat : a = p % SS
  BY <1>1, DivMod
<1>3. SubSeq(b, a + 1, a + n) = [i \in 1 .. n |-> b[a + i]]
  OBVIOUS
<1>4. ASSUME NEW i \in 1 .. n PROVE ByteAt(cd, v, c, p + i - 1) = b[a + i]
  <2>1. PICK j \in Nat : j = i - 1
    OBVIOUS
  <2>2. a + j < SS
    BY <1>1, <1>2, <2>1
  <2>3. SectorAt(cd, v, c, p + j, SS) = SectorAt(cd, v, c, p, SS) /\ (p + j) % SS = a + j
    BY <1>2, <2>2, InSector
  <2>4. p + i - 1 = p + j /\ (a + j) + 1 = a + i
    BY <2>1
  <2> QED
    BY <2>3, <2>4 DEF ByteAt
<1>5. SubSeq(b, a + 1, a + n) = Bytes(cd, v, c, p, p + n)
  <2>1. (p + n) - p = n
    OBVIOUS
  <2> QED
    BY <1>3, <1>4, <2>1 DEF Bytes
<1>6. /\ SectorAt(cd, v, c, p + (n - 1), SS) = SectorAt(cd, v, c, p, SS)
      /\ (p + (n - 1)) \div (v.csize * SS) = p \div (v.csize * SS)
  <2>1. PICK j \in Nat : j = n - 1
    OBVIOUS
  <2>2. (p % SS) + j < SS
    BY <1>1, <1>2, <2>1
  <2> QED
    BY <2>1, <2>2, InSector
<1>7. ASSUME (p + n) % SS # 0 PROVE SectorAt(cd, v, c, p + n, SS) = SectorAt(cd, v, c, p, SS)
  <2>1. CASE a + n < SS
    BY <1>2, <2>1, InSector
  <2>2. CASE a + n = SS
    <3>1. PICK q \in Nat : q = p \div SS
      BY <1>1, DivMod
    <3>2. p = SS * q + a
      BY <1>1, <1>2, <3>1, DivMod
    <3>3. p + n = SS * (q + 1) + 0
      BY <1>1, <2>2, <3>2
    <3>4. (SS * (q + 1) + 0) % SS = 0
      BY <1>1, DivUnique
    <3> QED
      BY <1>7, <3>3, <3>4
  <2>3. a + n < SS \/ a + n = SS
    BY <1>1, <1>2
  <2> QED
    BY <2>1, <2>2, <2>3
<1> QED
  BY <1>2, <1>5, <1>6, <1>7

Joins(cd, v, c, p, q, r) == Bytes(cd, v, c, p, q) \o Bytes(cd, v, c, q, r) = Bytes(cd, v, c, p, r)

\* BytesJoin, for the steps of a read.
LEMMA BytesCat ==
    ASSUME NEW cd, NEW v, NEW c, NEW p \in Nat, NEW q \in Nat, NEW r \in Nat, p <= q, q <= r
    PROVE  Joins(cd, v, c, p, q, r)
  BY BytesJoin DEF Joins

\* The read has given bytes of the file, and goes on.
LEMMA GivenDoes ==
    ASSUME World, Inv, at \in {"reading", "read sector"}, FilFrame, NEW f, SameFile(f), f.err = fil.err,
           f.fptr = fil.fptr, NEW n \in Nat \ {0}, n <= btr, NEW bytes,
           bytes = Bytes(Disk, fs.g, fil.sclust, fil.fptr, fil.fptr + n), Given(f, bytes),
           SectorAt(Disk, fs.g, fil.sclust, fil.fptr + (n - 1), SS) # 0,
           f.clust # 0, f.clust = Chain(Disk, fs.g, fil.sclust)[(fil.fptr + (n - 1)) \div (fs.g.csize * SS)],
           (fil.fptr + n) % SS # 0 => f.sect # 0 /\ f.sect = SectorAt(Disk, fs.g, fil.sclust, fil.fptr + n, SS)
    PROVE  Does
<1>1. OnFile /\ call.op = "read" /\ Live(call.h) /\ Gives(Disk, fs.g, fil, from, call.n, out, btr)
  BY DEF OnFile, OfRead, Inv, Control, Reads
<1>2. /\ fs.type /\ fil.sclust \in Nat /\ fil.objsize \in Nat /\ fil.fptr \in Nat
      /\ Sound(Disk, fs.g) /\ call.n \in Nat /\ call.h \in Handle
  BY <1>1, LiveIs, FileStep, CallIs DEF OnFile
<1>3. /\ from \in Nat /\ btr \in Nat /\ from <= fil.fptr
      /\ fil.fptr + btr = Least(from + call.n, fil.objsize)
      /\ out = Bytes(Disk, fs.g, fil.sclust, from, fil.fptr)
  BY <1>1 DEF Gives
<1>20. PICK q \in Nat : q = fil.fptr
  BY <1>2
<1>21. PICK size \in Nat : size = fil.objsize
  BY <1>2
<1>22. PICK t \in Nat : t = btr
  BY <1>3
<1>23. PICK end : end = from + call.n
  OBVIOUS
<1>24. n \in Nat \ {0} /\ n <= t
  BY <1>22
<1>25. q + t = Least(end, size)
  BY <1>3, <1>20, <1>21, <1>22, <1>23
<1>26. q + t <= size
  <2>1. end \in Nat
    BY ONLY <1>2, <1>3, <1>23
  <2> QED
    BY ONLY <1>25, <2>1, size \in Nat DEF Least
<1>4. PICK p \in Nat : p = q + n
  BY ONLY <1>24, q \in Nat
<1>12. p - q = n /\ p - 1 = q + (n - 1) /\ p > 0 /\ q <= p
  BY ONLY <1>4, <1>24, q \in Nat
<1>27. PICK b \in Nat : b = t - n
  BY ONLY <1>24, t \in Nat
<1>28. p + b = q + t /\ p <= size
  BY ONLY <1>4, <1>24, <1>26, <1>27, q \in Nat, t \in Nat, size \in Nat
<1>29. bytes = Bytes(Disk, fs.g, fil.sclust, q, p)
  BY <1>4, <1>20
<1>5. Len(bytes) = n
  <2>1. p - q \in Nat
    BY <1>12
  <2>2. Len(Bytes(Disk, fs.g, fil.sclust, q, p)) = p - q
    BY ONLY <2>1 DEF Bytes
  <2> QED
    BY <1>12, <1>29, <2>2
<1>6. PICK m : m = [f EXCEPT !.fptr = p]
  OBVIOUS
<1>7. /\ FilIs(m) /\ btr' = b /\ out' = out \o bytes
      /\ at' = "reading" /\ UNCHANGED <<call, ret, from>>
  <2>1. [f EXCEPT !.fptr = @ + Len(bytes)] = m
    BY <1>4, <1>5, <1>6, <1>20
  <2>2. btr' = btr - n /\ out' = out \o bytes /\ Goes("reading") /\ FilIs(m)
    BY <1>5, <2>1 DEF Given
  <2> QED
    BY <1>22, <1>27, <2>2 DEF Goes
<1>8. SameFile(m) /\ m.fptr = p /\ m.err = f.err /\ m.clust = f.clust /\ m.sect = f.sect
  <2>1. SameFile(f)
    OBVIOUS
  <2> QED
    BY ONLY <1>6, <2>1, PtrIs
<1>9. m.sclust = fil.sclust /\ m.objsize = fil.objsize
  BY <1>8 DEF SameFile
<1>10. btr' \in Nat /\ p + btr' = Least(from + call.n, fil.objsize) /\ p <= fil.objsize /\ from <= p
  <2>1. from <= q /\ from \in Nat
    BY <1>3, <1>20
  <2>2. from <= p
    BY ONLY <1>12, <2>1, p \in Nat, q \in Nat
  <2> QED
    BY <1>7, <1>21, <1>23, <1>25, <1>28, <2>2
<1>11. Sized(m)
  BY <1>2, <1>8, <1>9, <1>10 DEF Sized
<1>13. Settled(Disk, fs.g, m)
  <2>1. f.clust = Chain(Disk, fs.g, fil.sclust)[(p - 1) \div (fs.g.csize * SS)]
    BY <1>12, <1>20
  <2>2. p % SS # 0 => f.sect # 0 /\ f.sect = SectorAt(Disk, fs.g, fil.sclust, p, SS)
    BY <1>4, <1>20
  <2> QED
    BY <1>8, <1>9, <2>1, <2>2 DEF Settled
<1>14. out' = Bytes(Disk, fs.g, fil.sclust, from, p)
  <2>1. Bytes(Disk, fs.g, fil.sclust, from, fil.fptr) \o Bytes(Disk, fs.g, fil.sclust, fil.fptr, p)
          = Bytes(Disk, fs.g, fil.sclust, from, p)
    <3>1. from <= q /\ from \in Nat
      BY <1>3, <1>20
    <3>2. Bytes(Disk, fs.g, fil.sclust, from, q) \o Bytes(Disk, fs.g, fil.sclust, q, p)
            = Bytes(Disk, fs.g, fil.sclust, from, p)
      <4>1. PICK a \in Nat : a = from
        BY <3>1
      <4>2. a <= q /\ q <= p
        BY <1>12, <3>1, <4>1
      <4>3. Joins(Disk, fs.g, fil.sclust, a, q, p)
        BY <4>2, BytesCat
      <4> QED
        BY <4>1, <4>3 DEF Joins
    <3> QED
      BY <1>20, <3>2
  <2> QED
    BY <1>3, <1>20, <1>29, <1>7, <2>1
<1>15. Gives(Disk, fs.g, m, from, call.n, out', btr')
  <2>1. SectorAt(Disk, fs.g, fil.sclust, p - 1, SS) # 0
    BY <1>12, <1>20
  <2> QED
    BY <1>3, <1>8, <1>9, <1>10, <1>14, <2>1 DEF Gives
<1>16. Reads'
  <2>1. Live(call.h)'
    <3>1. fd_fil'[call.h] = m
      BY <1>2, <1>7, SetIs
    <3>2. m.fs = fil.fs /\ m.id = fil.id /\ m.err = fil.err
      BY <1>8 DEF SameFile
    <3>3. fd_used' = fd_used /\ fs'.type = fs.type /\ fs'.id = fs.id /\ call' = call
      BY DEF FilFrame
    <3> QED
      BY <1>1, <3>1, <3>2, <3>3 DEF Live, fil
  <2>2. fil' = m /\ Disk' = Disk /\ fs'.g = fs.g
    BY <1>2, <1>7, SetIs DEF fil, Disk, FilFrame
  <2> QED
    BY <1>7, <1>15, <2>1, <2>2 DEF Reads
<1>17. Seeks'
  BY <1>7 DEF Seeks
<1> QED
  BY <1>1, <1>7, <1>8, <1>11, <1>13, <1>16, <1>17, FilInner

\* Out of the buffer.
LEMMA BufferGives ==
    ASSUME World, Inv, at \in {"reading", "read sector"}, FilFrame, NEW f, SameFile(f), f.err = fil.err,
           f.fptr = fil.fptr, NEW n \in Nat \ {0}, n <= btr, (fil.fptr % SS) + n <= SS,
           f.sect = SectorAt(Disk, fs.g, fil.sclust, fil.fptr, SS), f.sect # 0, f.buf = Disk[f.sect],
           f.clust # 0, f.clust = Chain(Disk, fs.g, fil.sclust)[fil.fptr \div (fs.g.csize * SS)],
           Given(f, Copied(f, n))
    PROVE  Does
<1>1. Live(call.h) /\ OnFile
  BY DEF Inv, Reads, OnFile, OfRead
<1>2. fil.sclust \in Nat /\ fil.fptr \in Nat /\ Sound(Disk, fs.g)
  BY <1>1, LiveIs
<1>9. n \in Nat \ {0} /\ (fil.fptr % SS) + n <= SS
  OBVIOUS
<1>3. PICK b : b = f.buf
  OBVIOUS
<1>4. b = Disk[SectorAt(Disk, fs.g, fil.sclust, fil.fptr, SS)]
  BY <1>3
<1>5. /\ SubSeq(b, (fil.fptr % SS) + 1, (fil.fptr % SS) + n) = Bytes(Disk, fs.g, fil.sclust, fil.fptr, fil.fptr + n)
      /\ SectorAt(Disk, fs.g, fil.sclust, fil.fptr + (n - 1), SS) = SectorAt(Disk, fs.g, fil.sclust, fil.fptr, SS)
      /\ (fil.fptr + (n - 1)) \div (fs.g.csize * SS) = fil.fptr \div (fs.g.csize * SS)
      /\ (fil.fptr + n) % SS # 0 => SectorAt(Disk, fs.g, fil.sclust, fil.fptr + n, SS)
                                      = SectorAt(Disk, fs.g, fil.sclust, fil.fptr, SS)
  BY ONLY <1>2, <1>4, <1>9, PartIs
<1>6. PICK bytes : bytes = Copied(f, n)
  OBVIOUS
<1>7. bytes = Bytes(Disk, fs.g, fil.sclust, fil.fptr, fil.fptr + n)
  BY <1>3, <1>5, <1>6 DEF Copied
<1>8. Given(f, bytes)
  BY <1>6
<1> QED
  BY <1>5, <1>7, <1>8, GivenDoes

\* f_read has read all that it can.
LEMMA ReadAnswers ==
    ASSUME World, Inv, at = "reading", FilFrame, UNCHANGED trouble, UNCHANGED fd_fil, btr = 0, Says("OK", out)
    PROVE  Does
<1>1. OnFile /\ call.op = "read" /\ Live(call.h) /\ Gives(Disk, fs.g, fil, from, call.n, out, btr)
  BY DEF OnFile, OfRead, Inv, Control, Reads
<1>2. call.h \in Handle /\ call # None /\ ret = None /\ SameFile(fil)
  BY <1>1, FileStep
<1>3. /\ fil.sclust \in Nat /\ fil.objsize \in Nat /\ fil.fptr \in Nat /\ fil.fptr <= fil.objsize
      /\ Sound(Disk, fs.g) /\ Settled(Disk, fs.g, fil) /\ Sized(fil)
  BY <1>1, LiveIs DEF Sized
<1>4. FilIs(fil)
  BY <1>2, NotSet
<1>5. /\ Inv' /\ UNCHANGED SVol
      /\ Mapped' = [Mapped EXCEPT ![call.h].pos = fil.fptr]
      /\ Mapped[call.h].pos = from
      /\ ret' = [res |-> "OK", out |-> out] /\ ret' # None
  BY <1>1, <1>2, <1>3, <1>4, FilAnswers
<1>6. /\ from \in Nat /\ from <= fil.fptr /\ fil.fptr = Least(from + call.n, fil.objsize)
      /\ out = Bytes(Disk, fs.g, fil.sclust, from, fil.fptr)
      /\ from = fil.fptr \/ SectorAt(Disk, fs.g, fil.sclust, fil.fptr - 1, SS) # 0
  BY <1>1, <1>3 DEF Gives
<1> DEFINE F == FileAt(Disk, fs.g, fil.sclust, fil.objsize)
<1>7. Store!Of(call.h) = F /\ Store!Live(call.h)
  BY <1>1, <1>2, FileOf, MappedIs DEF fil
<1>8. /\ fil.fptr <= Len(F.data) \/ fil.fptr = from
      /\ SubSeq(F.data, from + 1, fil.fptr) = out
  <2>1. PICK p \in Nat : p = from
    BY <1>6
  <2>2. PICK q \in Nat : q = fil.fptr
    BY <1>3
  <2>3. /\ q <= Len(F.data) \/ q = p
        /\ SubSeq(F.data, p + 1, q) = Bytes(Disk, fs.g, fil.sclust, p, q)
    <3>1. p <= q /\ q <= fil.objsize /\ (p = q \/ SectorAt(Disk, fs.g, fil.sclust, q - 1, SS) # 0)
      BY <1>3, <1>6, <2>1, <2>2
    <3>2. PICK c \in Nat : c = fil.sclust
      BY <1>3
    <3>3. PICK size \in Nat : size = fil.objsize
      BY <1>3
    <3>4. Sound(Disk, fs.g) /\ q <= size /\ p <= q /\ (p = q \/ SectorAt(Disk, fs.g, c, q - 1, SS) # 0)
      BY <1>3, <3>1, <3>2, <3>3
    <3>5. FilePart(Disk, fs.g, c, size, p, q)
      BY <3>4, BytesOfFile
    <3> QED
      BY <3>2, <3>3, <3>5 DEF FilePart
  <2> QED
    BY <1>6, <2>1, <2>2, <2>3
<1>9. F.size = fil.objsize
  BY DEF FileAt
<1> HIDE DEF F
<1>10. Store!Least(Mapped[call.h].pos + call.n, F.size) = fil.fptr
  BY <1>5, <1>6, <1>9 DEF Store!Least, Least
<1>11. Store!Answer(out)
  BY <1>5 DEF Store!Answer, FilFrame, SVol
<1>12. Store!AnswerRead
  BY <1>1, <1>5, <1>7, <1>8, <1>10, <1>11 DEF Store!AnswerRead, FilFrame
<1>13. StoreStep
  BY <1>2, <1>5, <1>12 DEF StoreStep, Store!Next
<1> QED
  BY <1>5, <1>13 DEF Does

\* The first byte of a cluster that is none is of no sector.
LEMMA NoCluster ==
    ASSUME World, Inv, OnFile, Live(call.h), NEW p \in Nat, NEW c,
           c = Chain(Disk, fs.g, fil.sclust)[p \div (fs.g.csize * SS)]
    PROVE  /\ c \in Nat
           /\ clst2sect(fs.g, c) = 0 => SectorAt(Disk, fs.g, fil.sclust, p, SS) = 0
           /\ clst2sect(fs.g, c) = 0 /\ p < fil.objsize => Store!Reason
<1>1. Sound(Disk, fs.g) /\ fil.sclust \in Nat /\ SS \in Nat \ {0}
  BY LiveIs
<1>2. /\ c \in Nat
      /\ clst2sect(fs.g, c) = 0 => SectorAt(Disk, fs.g, fil.sclust, p, SS) = 0
  <2>1. (p \div SS) \div fs.g.csize = p \div (fs.g.csize * SS) /\ p \div (fs.g.csize * SS) \in Nat
    BY <1>1, ClusterOf
  <2>2. c \in Nat
    BY <1>1, <2>1, ChainIs
  <2> QED
    BY <2>1, <2>2 DEF SectorAt
<1>3. clst2sect(fs.g, c) = 0 /\ p < fil.objsize => Store!Reason
  BY <1>2, DamagedIs
<1> QED
  BY <1>2, <1>3

\* f_read: the bytes of the buffer, or the next sector.
LEMMA ReadingDoes == ASSUME World, Inv, Reading PROVE Does
<1>1. /\ at = "reading" /\ OnFile /\ IInv' /\ call.op = "read" /\ Live(call.h)
      /\ Gives(Disk, fs.g, fil, from, call.n, out, btr)
      /\ UNCHANGED <<card, sd_mounted, up, drive_status, trouble, faults, fs, Fsid, vol, fd_used, of>>
  <2>1. at = "reading" /\ UNCHANGED <<card, sd_mounted, up, drive_status, trouble, faults, fs, Fsid, vol, fd_used, of>>
    BY DEF Reading, driveVars
  <2>2. IInv'
    BY ReadingStep DEF Inv
  <2> QED
    BY <2>1, <2>2 DEF Inv, Control, Reads, OnFile, OfRead
<1>2. call' = call
  BY DEF Reading, Given, Aborts, Fails, Says, Goes
<1>3. FilFrame /\ SameFile(fil) /\ fd_used[call.h] /\ call.h \in Handle
  BY <1>1, <1>2, FilQuiet, FileStep
<1>4. /\ fs.type /\ g = fs.g /\ Sound(Disk, fs.g)
      /\ fs.g.csize \in Nat \ {0} /\ SS \in Nat \ {0}
      /\ fil.sclust \in Nat /\ fil.objsize \in Nat /\ fil.fptr \in Nat /\ fil.fptr <= fil.objsize
      /\ Settled(Disk, fs.g, fil) /\ Sized(fil)
      /\ fil.sect # 0 => fil.buf = Disk[fil.sect]
  BY <1>1, LiveIs DEF Sized
<1>5. btr \in Nat /\ fil.fptr + btr <= fil.objsize
  <2>1. /\ btr \in Nat /\ from \in Nat /\ fil.fptr + btr = Least(from + call.n, fil.objsize)
    BY <1>1 DEF Gives
  <2>2. call.n \in Nat
    BY <1>1, CallIs
  <2> QED
    BY <1>4, <2>1, <2>2 DEF Least
<1>6. fil.fptr > 0 => fil.clust # 0 /\ fil.clust = Chain(Disk, fs.g, fil.sclust)[(fil.fptr - 1) \div (fs.g.csize * SS)]
  BY <1>4 DEF Settled
<1>7. fil.fptr > 0 =>
         IF fil.fptr % SS = 0 /\ (fil.fptr \div SS) % fs.g.csize = 0
         THEN (fil.fptr - 1) \div (fs.g.csize * SS) = (fil.fptr \div (fs.g.csize * SS)) - 1
         ELSE (fil.fptr - 1) \div (fs.g.csize * SS) = fil.fptr \div (fs.g.csize * SS)
  BY <1>4, ClusterBefore
<1>8. CASE btr = 0 /\ Says("OK", out) /\ UNCHANGED fd_fil
  BY <1>1, <1>3, <1>8, ReadAnswers
<1>9. CASE btr > 0 /\ ~OnSector(fil) /\ Given(fil, Copied(fil, Least(SS - (fil.fptr % SS), btr)))
  <2>1. PICK a \in Nat : a = fil.fptr % SS /\ a < SS /\ a # 0
    BY <1>4, <1>9, DivMod DEF OnSector
  <2>2. PICK t \in Nat : t = btr /\ t > 0
    BY <1>5, <1>9
  <2>3. PICK n \in Nat \ {0} : n = Least(SS - a, t) /\ a + n <= SS /\ n <= t
    <3>1. SS \in Nat \ {0} /\ a < SS /\ t > 0
      BY <1>4, <2>1, <2>2
    <3>2. /\ Least(SS - a, t) \in Nat \ {0} /\ a + Least(SS - a, t) <= SS /\ Least(SS - a, t) <= t
      BY ONLY <3>1, a \in Nat, t \in Nat DEF Least
    <3> QED
      BY <3>2
  <2>4. fil.fptr > 0
    <3>1. CASE fil.fptr = 0
      <4>1. 0 % SS = 0
        BY <1>4
      <4> QED
        BY <2>1, <3>1, <4>1
    <3> QED
      BY <1>4, <3>1
  <2>5. fil.sect # 0 /\ fil.sect = SectorAt(Disk, fs.g, fil.sclust, fil.fptr, SS)
    BY <1>4, <2>1 DEF Settled
  <2>6. fil.clust # 0 /\ fil.clust = Chain(Disk, fs.g, fil.sclust)[fil.fptr \div (fs.g.csize * SS)]
    BY <1>6, <1>7, <2>1, <2>4
  <2>7. Given(fil, Copied(fil, n))
    BY <1>9, <2>1, <2>2, <2>3
  <2> QED
    BY <1>1, <1>3, <1>4, <2>1, <2>2, <2>3, <2>5, <2>6, <2>7, BufferGives
\* The step to the chain, or to a sector, which leaves all as it is.
<1>10. ASSUME NEW step \in {"read next", "read sector"}, NEW f, FilIs(f), SameFile(f), f.err = fil.err,
              f.fptr = fil.fptr, Goes(step), UNCHANGED workVars, btr > 0, OnSector(fil),
              step = "read next" => f = fil /\ fil.fptr # 0 /\ InCluster(fil) = 0,
              step = "read sector" => f.clust = Chain(Disk, fs.g, fil.sclust)[fil.fptr \div (fs.g.csize * SS)]
       PROVE  Does
  <2>1. at' = step /\ UNCHANGED <<call, ret, from, btr, out>>
    BY <1>10 DEF Goes, workVars
  <2>2. fil' = f /\ Disk' = Disk /\ fs' = fs
    BY <1>1, <1>3, <1>10, <2>1, SetIs DEF fil, Disk
  <2>3. f.sclust = fil.sclust /\ f.objsize = fil.objsize /\ f.fs = fil.fs /\ f.id = fil.id
    BY <1>10 DEF SameFile
  <2>4. Live(call.h)'
    <3>1. fd_fil'[call.h] = f
      BY <1>3, <1>10, SetIs
    <3> QED
      BY <1>1, <1>10, <2>1, <2>3, <3>1 DEF Live, fil
  <2>5. Gives(Disk, fs.g, f, from, call.n, out, btr)
    BY <1>1, <1>10, <2>3 DEF Gives
  <2>6. step = "read sector" => OnCluster(Disk, fs.g, f)
    BY <1>10, <2>3 DEF OnCluster
  <2>7. Reads'
    <3>1. OnSector(f) /\ (step = "read next" => f.fptr # 0 /\ InCluster(f) = 0)
      BY <1>10 DEF OnSector
    <3>2. OnSector(fil)' /\ (step = "read next" => (fil.fptr # 0 /\ InCluster(fil) = 0)')
      BY <2>2, <3>1 DEF OnSector, InCluster, g
    <3> QED
      BY <1>10, <2>1, <2>2, <2>4, <2>5, <2>6, <3>2 DEF Reads
  <2>8. Seeks'
    BY <1>10, <2>1 DEF Seeks
  <2>9. Sized(f)
    BY <1>4, <1>10, <2>3 DEF Sized
  <2>10. step = "read sector" \/ Settled(Disk, fs.g, f)
    BY <1>4, <1>10
  <2> QED
    BY <1>1, <1>3, <1>10, <2>1, <2>7, <2>8, <2>9, <2>10, FilInner
<1>11. CASE /\ btr > 0 /\ OnSector(fil) /\ InCluster(fil) = 0 /\ fil.fptr # 0
            /\ Goes("read next") /\ UNCHANGED <<fd_fil, workVars>>
  <2>1. FilIs(fil)
    BY <1>3, <1>11, NotSet
  <2> QED
    BY <1>3, <1>10, <1>11, <2>1
<1>12. CASE /\ btr > 0 /\ OnSector(fil) /\ InCluster(fil) # 0
            /\ Goes("read sector") /\ UNCHANGED <<fd_fil, workVars>>
  <2>1. FilIs(fil)
    BY <1>3, <1>12, NotSet
  <2>2. (fil.fptr \div SS) % fs.g.csize # 0 /\ fil.fptr > 0
    <3>1. (fil.fptr \div SS) % fs.g.csize # 0
      BY <1>4, <1>12 DEF InCluster
    <3>2. CASE fil.fptr = 0
      <4>1. 0 \div SS = 0 /\ 0 % fs.g.csize = 0
        BY <1>4
      <4> QED
        BY <3>1, <3>2, <4>1
    <3> QED
      BY <1>4, <3>1, <3>2
  <2>3. fil.clust = Chain(Disk, fs.g, fil.sclust)[fil.fptr \div (fs.g.csize * SS)]
    BY <1>6, <1>7, <2>2
  <2> QED
    BY <1>3, <1>10, <1>12, <2>1, <2>3
<1>20. 0 \div (fs.g.csize * SS) = 0 /\ 0 % SS = 0 /\ Chain(Disk, fs.g, fil.sclust)[0] = fil.sclust
  <2>1. PICK b \in Nat \ {0} : b = fs.g.csize * SS
    BY <1>4, DivDiv
  <2>2. 0 \div b = 0 /\ 0 % SS = 0
    BY <1>4
  <2> QED
    BY <1>4, <2>1, <2>2, ChainIs
<1>13. CASE btr > 0 /\ fil.fptr = 0 /\ fil.sclust < 2 /\ Aborts(fil, "FR_INT_ERR")
  <2>1. PICK p \in Nat : p = 0
    OBVIOUS
  <2>2. fil.sclust = Chain(Disk, fs.g, fil.sclust)[p \div (fs.g.csize * SS)]
    BY <1>20, <2>1
  <2>3. clst2sect(fs.g, fil.sclust) = 0
    BY <1>4, <1>13, Cluster
  <2>4. p < fil.objsize
    BY <1>4, <1>5, <1>13, <2>1
  <2>5. Store!Reason
    BY <1>1, <2>2, <2>3, <2>4, NoCluster
  <2> QED
    BY <1>1, <1>3, <1>13, <2>5, FilAborts
<1>14. CASE /\ btr > 0 /\ fil.fptr = 0 /\ fil.sclust >= 2
            /\ FilIs([fil EXCEPT !.clust = fil.sclust]) /\ Goes("read sector") /\ UNCHANGED workVars
  <2>1. PICK f : f = [fil EXCEPT !.clust = fil.sclust]
    OBVIOUS
  <2>2. SameFile(f) /\ f.clust = fil.sclust /\ f.err = fil.err /\ f.fptr = fil.fptr
    BY <1>3, <2>1, ClustIs
  <2>3. f.clust = Chain(Disk, fs.g, fil.sclust)[fil.fptr \div (fs.g.csize * SS)] /\ OnSector(fil)
    BY <1>14, <1>20, <2>2 DEF OnSector
  <2> QED
    BY <1>10, <1>14, <2>1, <2>2, <2>3
<1> QED
  BY <1>8, <1>9, <1>11, <1>12, <1>13, <1>14 DEF Reading

\* A read has found the cluster of the next byte.
LEMMA OnSectorDoes ==
    ASSUME World, Inv, at \in {"reading", "read next"}, FilFrame, btr > 0, OnSector(fil), NEW f, FilIs(f),
           SameFile(f), f.err = fil.err, f.fptr = fil.fptr,
           f.clust = Chain(Disk, fs.g, fil.sclust)[fil.fptr \div (fs.g.csize * SS)],
           Goes("read sector"), UNCHANGED workVars
    PROVE  Does
<1>1. OnFile /\ call.op = "read" /\ Live(call.h) /\ Gives(Disk, fs.g, fil, from, call.n, out, btr)
  BY DEF OnFile, OfRead, Inv, Control, Reads
<1>2. call.h \in Handle /\ Sized(fil)
  BY <1>1, FileStep, LiveIs DEF Sized
<1>3. at' = "read sector" /\ UNCHANGED <<call, ret, from, btr, out>>
  BY DEF Goes, workVars
<1>4. fd_fil'[call.h] = f /\ fil' = f /\ Disk' = Disk /\ fs'.g = fs.g
  BY <1>2, <1>3, SetIs DEF fil, Disk, FilFrame
<1>5. f.sclust = fil.sclust /\ f.objsize = fil.objsize /\ f.fs = fil.fs /\ f.id = fil.id
  BY DEF SameFile
<1>6. Live(call.h)'
  BY <1>1, <1>3, <1>4, <1>5 DEF Live, fil, FilFrame
<1>7. Gives(Disk, fs.g, f, from, call.n, out, btr)
  BY <1>1, <1>5 DEF Gives
<1>8. OnCluster(Disk, fs.g, f) /\ OnSector(f)
  BY <1>5 DEF OnCluster, OnSector
<1>9. OnSector(fil)'
  BY <1>4, <1>8 DEF OnSector
<1>10. Reads'
  BY <1>3, <1>4, <1>6, <1>7, <1>8, <1>9 DEF Reads
<1>11. Seeks'
  BY <1>3 DEF Seeks
<1>12. Sized(f)
  BY <1>2, <1>5 DEF Sized
<1> QED
  BY <1>1, <1>3, <1>10, <1>11, <1>12, FilInner

\* The next cluster of a chain.
LEMMA NextCluster ==
    ASSUME NEW cd, NEW v, Sound(cd, v), NEW c \in Nat, NEW p \in Nat, p > 0,
           p % SS = 0, (p \div SS) % v.csize = 0, NEW k, k = Chain(cd, v, c)[(p - 1) \div (v.csize * SS)]
    PROVE  k \in Nat /\ After(cd, v, k) = Chain(cd, v, c)[p \div (v.csize * SS)]
<1>1. PICK i \in Nat : i = (p - 1) \div (v.csize * SS)
  BY ClusterBefore
<1>2. p \div (v.csize * SS) = i + 1
  <2>1. PICK j \in Nat : j = p \div (v.csize * SS)
    BY ClusterBefore
  <2>2. i = j - 1
    BY <1>1, <2>1, ClusterBefore
  <2> QED
    BY <2>1, <2>2
<1> QED
  BY <1>1, <1>2, ChainIs

\* What is left to read is there, by the size of the file.
LEMMA Room ==
    ASSUME World, Inv, at \in {"reading", "read next", "read sector"}, btr > 0
    PROVE  btr \in Nat \ {0} /\ fil.fptr + btr <= fil.objsize
<1>1. OnFile /\ call.op = "read" /\ Live(call.h) /\ Gives(Disk, fs.g, fil, from, call.n, out, btr)
  BY DEF OnFile, OfRead, Inv, Control, Reads
<1>2. btr \in Nat /\ fil.fptr + btr = Least(from + call.n, fil.objsize) /\ from \in Nat
  BY <1>1 DEF Gives
<1>3. call.n \in Nat /\ fil.objsize \in Nat
  BY <1>1, CallIs, LiveIs DEF OnFile
<1>4. PICK end \in Nat : end = from + call.n
  <2>1. PICK a \in Nat : a = from
    BY <1>2
  <2>2. PICK n \in Nat : n = call.n
    BY <1>3
  <2>3. a + n \in Nat
    BY ONLY a \in Nat, n \in Nat
  <2> QED
    BY <2>1, <2>2, <2>3
<1>5. PICK size \in Nat : size = fil.objsize
  BY <1>3
<1>6. Least(end, size) <= size
  BY ONLY end \in Nat, size \in Nat DEF Least
<1>7. fil.fptr + btr <= fil.objsize
  BY ONLY <1>2, <1>4, <1>5, <1>6
<1>8. btr # 0
  <2>1. btr > 0
    OBVIOUS
  <2> QED
    BY ONLY <2>1, <1>2
<1> QED
  BY <1>2, <1>7, <1>8

\* f_read: to the next cluster.
LEMMA ReadChainDoes == ASSUME World, Inv, ReadChain PROVE Does
<1>1. /\ at = "read next" /\ OnFile /\ IInv' /\ call.op = "read" /\ Live(call.h)
      /\ Gives(Disk, fs.g, fil, from, call.n, out, btr)
      /\ btr > 0 /\ OnSector(fil) /\ fil.fptr # 0 /\ InCluster(fil) = 0
      /\ UNCHANGED <<vol, fd_used, of, call>>
  <2>1. at = "read next" /\ UNCHANGED <<vol, fd_used, of, call>>
    BY DEF ReadChain, Aborts, Fails, Says, Goes
  <2>2. IInv'
    BY ReadChainStep DEF Inv
  <2> QED
    BY <2>1, <2>2 DEF Inv, Control, Reads, OnFile, OfRead
<1>2. /\ fs.type /\ g = fs.g /\ Sound(Disk, fs.g)
      /\ fil.sclust \in Nat /\ fil.objsize \in Nat /\ fil.fptr \in Nat
      /\ Settled(Disk, fs.g, fil) /\ SameFile(fil)
  BY <1>1, LiveIs, FileStep
<1>20. PICK p \in Nat : p = fil.fptr
  BY <1>2
<1>21. p # 0 /\ p % SS = 0 /\ (p \div SS) % fs.g.csize = 0
  BY <1>1, <1>2, <1>20 DEF OnSector, InCluster
<1>3. p = fil.fptr /\ p > 0 /\ p % SS = 0 /\ (p \div SS) % fs.g.csize = 0
  BY <1>20, <1>21
<1>4. fil.clust = Chain(Disk, fs.g, fil.sclust)[(p - 1) \div (fs.g.csize * SS)]
  BY <1>2, <1>3 DEF Settled
<1>5. PICK k \in Nat : k = fil.clust /\ After(Disk, fs.g, k) = Chain(Disk, fs.g, fil.sclust)[p \div (fs.g.csize * SS)]
  <2>1. PICK k : k = fil.clust
    OBVIOUS
  <2> QED
    BY <1>2, <1>3, <1>4, <2>1, NextCluster
<1>6. PICK s \in Nat : s = FatSector(fs.g, k)
  <2>1. FE \in Nat \ {0} /\ fs.g.fatbase \in Nat
    BY <1>2, FatVolumeAssumption DEF Sound
  <2>2. k \div FE \in Nat
    BY <2>1, DivMod
  <2> QED
    BY <2>1, <2>2 DEF FatSector
<1>7. PICK f \in move_window(fs, s) :
          /\ Moved(f)
          /\ \/ f.win = Junk /\ Aborts(fil, "FR_DISK_ERR")
             \/ f.win # Junk /\ get_fat(f, k) < 2 /\ Aborts(fil, "FR_INT_ERR")
             \/ /\ f.win # Junk /\ get_fat(f, k) >= 2
                /\ FilIs([fil EXCEPT !.clust = get_fat(f, k)])
                /\ Goes("read sector") /\ UNCHANGED workVars
  BY <1>2, <1>5, <1>6 DEF ReadChain
<1>8. /\ FilFrame /\ f.g = fs.g
      /\ f.win = Junk => trouble'
      /\ f.win # Junk => trouble' = trouble /\ f.win = Disk[s]
  BY <1>1, <1>2, <1>7, FileWindow
<1>9. CASE f.win = Junk /\ Aborts(fil, "FR_DISK_ERR")
  BY <1>1, <1>2, <1>8, <1>9, FilAborts
<1>10. ASSUME f.win # Junk
       PROVE  get_fat(f, k) = IF clst2sect(fs.g, k) = 0 THEN 1 ELSE After(Disk, fs.g, k)
  BY <1>6, <1>8, <1>10 DEF get_fat, After
<1>11. CASE f.win # Junk /\ get_fat(f, k) < 2 /\ Aborts(fil, "FR_INT_ERR")
  <2>1. PICK c : c = After(Disk, fs.g, k)
    OBVIOUS
  <2>2. c \in Nat /\ c < 2
    <3>1. c \in Nat /\ (clst2sect(fs.g, k) = 0 => c = 0)
      BY <1>2, <2>1, Cluster DEF After
    <3> QED
      BY <1>10, <1>11, <2>1, <3>1
  <2>3. clst2sect(fs.g, c) = 0
    BY <1>2, <2>2, Cluster
  <2>4. p < fil.objsize
    <3>1. btr \in Nat \ {0} /\ p + btr <= fil.objsize
      BY <1>1, <1>3, Room
    <3> QED
      BY <1>2, <3>1
  <2>5. c = Chain(Disk, fs.g, fil.sclust)[p \div (fs.g.csize * SS)]
    BY <1>5, <2>1
  <2>6. Store!Reason
    BY <1>1, <2>3, <2>4, <2>5, NoCluster
  <2> QED
    BY <1>1, <1>2, <1>8, <1>11, <2>6, FilAborts
<1>12. CASE /\ f.win # Junk /\ get_fat(f, k) >= 2
            /\ FilIs([fil EXCEPT !.clust = get_fat(f, k)])
            /\ Goes("read sector") /\ UNCHANGED workVars
  <2>1. get_fat(f, k) = After(Disk, fs.g, k)
    <3>1. CASE clst2sect(fs.g, k) = 0
      <4>1. get_fat(f, k) = 1
        BY <1>8, <3>1 DEF get_fat
      <4>2. ~(1 >= 2)
        OBVIOUS
      <4> QED
        BY <1>12, <4>1, <4>2
    <3>2. CASE clst2sect(fs.g, k) # 0
      BY <1>10, <1>12, <3>2
    <3> QED
      BY <3>1, <3>2
  <2>2. PICK n : n = [fil EXCEPT !.clust = After(Disk, fs.g, k)]
    OBVIOUS
  <2>3. FilIs(n)
    BY <1>12, <2>1, <2>2
  <2>4. SameFile(n) /\ n.clust = After(Disk, fs.g, k) /\ n.err = fil.err /\ n.fptr = fil.fptr
    BY <1>2, <2>2, ClustIs
  <2>5. n.clust = Chain(Disk, fs.g, fil.sclust)[fil.fptr \div (fs.g.csize * SS)]
    BY <1>3, <1>5, <2>4
  <2> QED
    BY <1>1, <1>8, <1>12, <2>3, <2>4, <2>5, OnSectorDoes
<1> QED
  BY <1>7, <1>9, <1>11, <1>12

Loaded(cd, s, m, x)  == x = [k \in 1 .. m |-> cd[s + k - 1]]
Unpacked(x, n, bytes) == bytes = [i \in 1 .. n |-> x[((i - 1) \div SS) + 1][((i - 1) % SS) + 1]]

Whole(cd, v, c, p, n, bytes) ==
    /\ bytes = Bytes(cd, v, c, p, p + n)
    /\ SectorAt(cd, v, c, p + (n - 1), SS) # 0
    /\ (p + (n - 1)) \div (v.csize * SS) = p \div (v.csize * SS)
    /\ (p + n) % SS = 0

\* From the beginning of a block.
LEMMA DivOn ==
    ASSUME NEW a \in Nat, NEW i \in Nat, NEW d \in Nat \ {0}, a % d = 0
    PROVE  (a + i) % d = i % d
  BY DivAdd

\* Whole sectors of a cluster, as they were read, are the next bytes of the file.
LEMMA WholeSectors ==
    ASSUME NEW cd, NEW v, Sound(cd, v), NEW c \in Nat, NEW p \in Nat, p % SS = 0, NEW m \in Nat \ {0},
           ((p \div SS) % v.csize) + m <= v.csize,
           NEW first, first = clst2sect(v, Chain(cd, v, c)[p \div (v.csize * SS)]), first # 0,
           NEW x, Loaded(cd, first + ((p \div SS) % v.csize), m, x),
           NEW n, n = m * SS,
           NEW bytes, Unpacked(x, n, bytes)
    PROVE  n \in Nat \ {0} /\ Whole(cd, v, c, p, n, bytes)
<1>1. SS \in Nat \ {0} /\ v.csize \in Nat \ {0}
  BY FatVolumeAssumption DEF Sound
<1>2. n \in Nat \ {0} /\ n = SS * m + 0
  <2>1. m * SS \in Nat \ {0}
    BY <1>1, DivDiv
  <2>2. m * SS = SS * m + 0
    BY <1>1
  <2> QED
    BY <2>1, <2>2
<1>3. n \div SS = m /\ n % SS = 0
  BY <1>1, <1>2, DivUnique
<1>4. PICK r \in Nat : r = (p \div SS) % v.csize /\ r + m <= v.csize
  <2>1. p \div SS \in Nat
    BY <1>1, DivMod
  <2>2. (p \div SS) % v.csize \in Nat
    BY <1>1, <2>1, DivMod
  <2> QED
    BY <2>2
<1>5. first \in Nat
  <2>1. p \div (v.csize * SS) \in Nat
    BY ClusterOf
  <2>2. Chain(cd, v, c)[p \div (v.csize * SS)] \in Nat
    BY <2>1, ChainIs
  <2> QED
    BY <2>2, Cluster
<1>6. ASSUME NEW j \in Nat, j < n
      PROVE  /\ j \div SS \in Nat /\ j \div SS < m
             /\ SectorAt(cd, v, c, p + j, SS) = first + r + (j \div SS)
             /\ (p + j) % SS = j % SS
             /\ (p + j) \div (v.csize * SS) = p \div (v.csize * SS)
  <2>1. PICK q \in Nat : q = j \div SS
    BY <1>1, DivMod
  <2>2. q < m
    <3>1. j = SS * q + (j % SS) /\ j % SS \in Nat
      BY <1>1, <2>1, DivMod
    <3>2. CASE q >= m
      <4>1. PICK d \in Nat : q = m + d
        BY <3>2
      <4>2. SS * q = SS * m + SS * d /\ SS * d \in Nat
        BY <1>1, <4>1
      <4>3. SS * m \in Nat
        BY <1>1
      <4> QED
        BY <1>2, <1>6, <3>1, <4>2, <4>3
    <3> QED
      BY <3>2
  <2>3. r + q < v.csize
    BY ONLY <1>1, <1>4, <2>2, q \in Nat, r \in Nat, m \in Nat
  <2>4. ((p \div SS) % v.csize) + (j \div SS) < v.csize
    BY <1>4, <2>1, <2>3
  <2>5. /\ SectorAt(cd, v, c, p + j, SS) = first + ((p \div SS) % v.csize) + (j \div SS)
        /\ (p + j) % SS = j % SS
        /\ (p + j) \div (v.csize * SS) = p \div (v.csize * SS)
    BY <2>4, InCluster1
  <2> QED
    BY <1>4, <2>1, <2>2, <2>5
<1>7. PICK l \in Nat : l = n - 1 /\ l < n
  BY <1>2
<1>8. /\ SectorAt(cd, v, c, p + l, SS) # 0
      /\ (p + l) \div (v.csize * SS) = p \div (v.csize * SS)
  <2>1. l \div SS \in Nat /\ SectorAt(cd, v, c, p + l, SS) = first + r + (l \div SS)
    BY <1>6, <1>7
  <2> QED
    BY <1>5, <1>6, <1>7, <2>1
<1>9. (p + n) % SS = 0
  <2>1. p % SS = 0
    OBVIOUS
  <2>2. n \in Nat
    BY <1>2
  <2>3. PICK d \in Nat \ {0} : d = SS
    BY <1>1
  <2>4. (p + n) % d = n % d
    <3>1. p % d = 0
      BY <2>1, <2>3
    <3> QED
      BY ONLY <2>2, <3>1, p \in Nat, d \in Nat \ {0}, DivOn
  <2> QED
    BY <1>3, <2>3, <2>4
<1>10. bytes = Bytes(cd, v, c, p, p + n)
  <2>1. ASSUME NEW i \in 1 .. n PROVE bytes[i] = ByteAt(cd, v, c, p + i - 1)
    <3>1. PICK j \in Nat : j = i - 1 /\ j < n
      BY <1>2
    <3>2. PICK q \in Nat : q = j \div SS /\ q < m
      BY <1>6, <3>1
    <3>3. bytes[i] = x[q + 1][(j % SS) + 1]
      BY <3>1, <3>2 DEF Unpacked
    <3>4. q + 1 \in 1 .. m /\ (first + r) + (q + 1) - 1 = first + r + q
      BY <1>5, <3>2
    <3>5. x[q + 1] = cd[first + r + q]
      BY <1>4, <3>4 DEF Loaded
    <3>6. SectorAt(cd, v, c, p + j, SS) = first + r + q /\ (p + j) % SS = j % SS
      BY <1>6, <3>1, <3>2
    <3>7. p + i - 1 = p + j
      BY <3>1
    <3> QED
      BY <3>3, <3>5, <3>6, <3>7 DEF ByteAt
  <2>2. (p + n) - p = n
    BY <1>2
  <2>3. Bytes(cd, v, c, p, p + n) = [i \in 1 .. n |-> ByteAt(cd, v, c, p + i - 1)]
    BY <2>2 DEF Bytes
  <2> QED
    BY <2>1, <2>3 DEF Unpacked
<1> QED
  BY <1>2, <1>7, <1>8, <1>9, <1>10 DEF Whole

\* f_read: whole sectors, or one into the buffer.
LEMMA ReadSectorDoes == ASSUME World, Inv, ReadSector PROVE Does
<1>1. /\ at = "read sector" /\ OnFile /\ IInv' /\ call.op = "read" /\ Live(call.h)
      /\ btr > 0 /\ OnSector(fil) /\ OnCluster(Disk, fs.g, fil)
      /\ UNCHANGED <<fs, Fsid, fd_used, of, vol, call>>
  <2>1. at = "read sector" /\ UNCHANGED <<fs, Fsid, fd_used, of, vol>>
    BY DEF ReadSector
  <2>2. UNCHANGED call
    BY DEF ReadSector, Aborts, Fails, Says, Goes, Given
  <2>3. IInv'
    BY ReadSectorStep DEF Inv
  <2> QED
    BY <2>1, <2>2, <2>3 DEF Inv, Control, Reads, OnFile, OfRead
<1>2. /\ fs.type /\ g = fs.g /\ Sound(Disk, fs.g) /\ SS \in Nat \ {0} /\ fs.g.csize \in Nat \ {0}
      /\ fil.sclust \in Nat /\ fil.objsize \in Nat /\ fil.fptr \in Nat
      /\ fil.sect # 0 => fil.buf = Disk[fil.sect]
  BY <1>1, LiveIs
<1>3. SameFile(fil)
  BY <1>1, FileStep
<1>4. PICK p \in Nat : p = fil.fptr
  BY <1>2
<1>5. p % SS = 0 /\ fil.clust = Chain(Disk, fs.g, fil.sclust)[p \div (fs.g.csize * SS)]
  BY <1>1, <1>4 DEF OnSector, OnCluster
<1>6. PICK r \in Nat : r = InCluster(fil) /\ r = (p \div SS) % fs.g.csize /\ r < fs.g.csize
  <2>1. p \div SS \in Nat
    BY <1>2, DivMod
  <2>2. (p \div SS) % fs.g.csize \in Nat /\ (p \div SS) % fs.g.csize < fs.g.csize
    BY <1>2, <2>1, DivMod
  <2> QED
    BY <1>2, <1>4, <2>2 DEF InCluster
<1>7. PICK t \in Nat \ {0} : t = btr /\ p + t <= fil.objsize
  BY <1>1, <1>4, Room
<1>8. fil.clust \in Nat /\ (clst2sect(fs.g, fil.clust) = 0 => Store!Reason)
  <2>1. p < fil.objsize
    BY <1>2, <1>7
  <2> QED
    BY <1>1, <1>5, <2>1, NoCluster
<1>9. PICK first \in Nat : first = clst2sect(fs.g, fil.clust)
  BY <1>2, <1>8, Cluster
<1>10. first # 0 => fil.clust # 0
  BY <1>2, <1>8, <1>9, Cluster
<1>11. PICK sect : sect = first + r
  OBVIOUS
<1>12. PICK cc : cc = Least(t \div SS, fs.g.csize - r)
  OBVIOUS
<1>13. \/ first = 0 /\ Aborts(fil, "FR_INT_ERR") /\ UNCHANGED driveVars
       \/ /\ first # 0 /\ cc > 0
          /\ \E x \in disk_reads(sect, cc) :
                /\ Noted(x)
                /\ \/ x = Junk /\ Aborts(fil, "FR_DISK_ERR")
                   \/ /\ x # Junk
                      /\ Given(fil, [i \in 1 .. cc * SS |-> x[((i - 1) \div SS) + 1][((i - 1) % SS) + 1]])
       \/ first # 0 /\ cc = 0 /\ fil.sect = sect /\ Given(fil, Copied(fil, btr)) /\ UNCHANGED driveVars
       \/ /\ first # 0 /\ cc = 0 /\ fil.sect # sect
          /\ \E x \in disk_read(sect) :
                /\ Noted(x)
                /\ \/ x = Junk /\ Aborts(Spoilt(fil), "FR_DISK_ERR")
                   \/ x # Junk /\ Given(Holding(fil, sect, x), Copied(Holding(fil, sect, x), btr))
  BY <1>2, <1>6, <1>7, <1>9, <1>11, <1>12 DEF ReadSector
<1>14. UNCHANGED driveVars => FilFrame
  BY <1>1, FilQuiet DEF driveVars
<1>15. \A x : Noted(x) => FilFrame /\ (x = Junk => trouble')
  BY <1>1, FilNoted
<1>16. up => vol = card
  BY <1>2 DEF Inv, IInv, Own
<1>17. CASE first = 0 /\ Aborts(fil, "FR_INT_ERR") /\ UNCHANGED driveVars
  BY <1>1, <1>3, <1>8, <1>9, <1>14, <1>17, FilAborts
<1>18. ASSUME first # 0, cc > 0, NEW x \in disk_reads(sect, cc), Noted(x), x = Junk, Aborts(fil, "FR_DISK_ERR")
       PROVE  Does
  BY <1>1, <1>3, <1>15, <1>18, FilAborts
<1>19. t \div SS \in Nat /\ SS * (t \div SS) <= t
  BY <1>2, DivMod
<1>20. ASSUME first # 0, cc > 0, NEW x \in disk_reads(sect, cc), Noted(x), x # Junk,
              Given(fil, [i \in 1 .. cc * SS |-> x[((i - 1) \div SS) + 1][((i - 1) % SS) + 1]])
       PROVE  Does
  <2>1. PICK m \in Nat \ {0} : m = cc /\ r + m <= fs.g.csize /\ m <= t \div SS
    <3>1. PICK q \in Nat : q = t \div SS
      BY <1>19
    <3>2. PICK b \in Nat : b = fs.g.csize /\ r < b
      BY <1>2, <1>6
    <3>3. Least(q, b - r) > 0
      BY <1>12, <1>20, <3>1, <3>2
    <3>4. Least(q, b - r) \in Nat \ {0} /\ r + Least(q, b - r) <= b /\ Least(q, b - r) <= q
      BY ONLY <3>2, <3>3, q \in Nat, b \in Nat, r \in Nat DEF Least
    <3> QED
      BY <1>12, <3>1, <3>2, <3>4
  <2>2. Loaded(Disk, first + ((p \div SS) % fs.g.csize), m, x)
    <3>1. up /\ x = [k \in 1 .. m |-> Image[card][sect + k - 1]]
      BY <1>20, <2>1 DEF disk_reads, Delivers
    <3> QED
      BY <1>6, <1>11, <1>16, <3>1 DEF Disk, Loaded
  <2>3. PICK n : n = m * SS
    OBVIOUS
  <2>4. PICK bytes : bytes = [i \in 1 .. n |-> x[((i - 1) \div SS) + 1][((i - 1) % SS) + 1]]
    OBVIOUS
  <2>5. Given(fil, bytes) /\ Unpacked(x, n, bytes)
    BY <1>20, <2>1, <2>3, <2>4 DEF Unpacked
  <2>6. ((p \div SS) % fs.g.csize) + m <= fs.g.csize
    BY <1>6, <2>1
  <2>7. first = clst2sect(fs.g, Chain(Disk, fs.g, fil.sclust)[p \div (fs.g.csize * SS)])
    BY <1>5, <1>9
  <2>20. n \in Nat \ {0} /\ Whole(Disk, fs.g, fil.sclust, p, n, bytes)
    BY ONLY <1>2, <1>5, <1>20, <2>1, <2>2, <2>3, <2>5, <2>6, <2>7, p \in Nat, m \in Nat \ {0}, WholeSectors
  <2>8. /\ n \in Nat \ {0}
        /\ bytes = Bytes(Disk, fs.g, fil.sclust, p, p + n)
        /\ SectorAt(Disk, fs.g, fil.sclust, p + (n - 1), SS) # 0
        /\ (p + (n - 1)) \div (fs.g.csize * SS) = p \div (fs.g.csize * SS)
        /\ (p + n) % SS = 0
    BY <2>20 DEF Whole
  <2>9. n <= btr
    <3>1. PICK q \in Nat : q = t \div SS /\ m <= q
      BY <1>19, <2>1
    <3>2. SS * q <= t
      BY <1>19, <3>1
    <3>3. PICK d \in Nat : q = m + d
      BY ONLY <3>1, q \in Nat, m \in Nat \ {0}
    <3>4. SS * q = (m * SS) + (SS * d) /\ SS * d \in Nat /\ m * SS \in Nat
      BY ONLY <1>2, <3>3, d \in Nat, m \in Nat \ {0}
    <3>5. m * SS <= t
      BY ONLY <3>2, <3>4, t \in Nat \ {0}
    <3> QED
      BY <1>7, <2>3, <3>5
  <2>10. FilFrame
    BY <1>15, <1>20
  <2>11. fil.clust # 0 /\ fil.clust = Chain(Disk, fs.g, fil.sclust)[(fil.fptr + (n - 1)) \div (fs.g.csize * SS)]
    BY <1>4, <1>5, <1>10, <1>20, <2>8
  <2>12. /\ bytes = Bytes(Disk, fs.g, fil.sclust, fil.fptr, fil.fptr + n)
         /\ SectorAt(Disk, fs.g, fil.sclust, fil.fptr + (n - 1), SS) # 0
         /\ (fil.fptr + n) % SS = 0
    BY <1>4, <2>8
  <2> QED
    BY <1>1, <1>3, <2>5, <2>8, <2>9, <2>10, <2>11, <2>12, GivenDoes
\* Less than a sector.
<1>21. first # 0 /\ cc = 0 => t < SS
  <2>1. ASSUME cc = 0 PROVE t < SS
    <3>1. PICK q \in Nat : q = t \div SS
      BY <1>19
    <3>2. q = 0
      <4>1. PICK b \in Nat : b = fs.g.csize /\ r < b
        BY <1>2, <1>6
      <4>2. Least(q, b - r) = 0
        BY <1>12, <2>1, <3>1, <4>1
      <4> QED
        BY ONLY <4>1, <4>2, q \in Nat, b \in Nat, r \in Nat DEF Least
    <3>3. t = SS * q + (t % SS) /\ t % SS < SS /\ t % SS \in Nat
      BY <1>2, <3>1, DivMod
    <3>4. SS * 0 = 0
      BY <1>2
    <3> QED
      BY <3>2, <3>3, <3>4
  <2> QED
    BY <2>1
<1>22. first # 0 => sect = SectorAt(Disk, fs.g, fil.sclust, p, SS) /\ sect # 0
  <2>1. (p \div SS) \div fs.g.csize = p \div (fs.g.csize * SS)
    BY <1>2, ClusterOf
  <2>2. first # 0 => SectorAt(Disk, fs.g, fil.sclust, p, SS) = first + r
    BY <1>5, <1>6, <1>9, <2>1 DEF SectorAt
  <2>3. first # 0 => first + r # 0
    OBVIOUS
  <2> QED
    BY <1>11, <2>2, <2>3
<1>23. ASSUME FilFrame, first # 0, cc = 0, NEW f, SameFile(f), f.err = fil.err, f.fptr = fil.fptr,
              f.sect = sect, f.buf = Disk[sect], f.clust = fil.clust, Given(f, Copied(f, btr))
       PROVE  Does
  <2>1. t <= btr /\ (fil.fptr % SS) + t <= SS /\ Given(f, Copied(f, t))
    BY <1>2, <1>4, <1>5, <1>7, <1>21, <1>23
  <2>2. f.sect = SectorAt(Disk, fs.g, fil.sclust, fil.fptr, SS) /\ f.sect # 0
    BY <1>4, <1>22, <1>23
  <2>3. f.clust # 0 /\ f.clust = Chain(Disk, fs.g, fil.sclust)[fil.fptr \div (fs.g.csize * SS)]
    BY <1>4, <1>5, <1>10, <1>23
  <2> QED
    BY <1>1, <1>23, <2>1, <2>2, <2>3, BufferGives
<1>24. CASE first # 0 /\ cc = 0 /\ fil.sect = sect /\ Given(fil, Copied(fil, btr)) /\ UNCHANGED driveVars
  <2>1. fil.buf = Disk[sect]
    BY <1>2, <1>22, <1>24
  <2> QED
    BY <1>3, <1>14, <1>23, <1>24, <2>1
<1>25. ASSUME NEW x \in disk_read(sect), Noted(x), x = Junk, Aborts(Spoilt(fil), "FR_DISK_ERR") PROVE Does
  BY <1>1, <1>3, <1>15, <1>25, SpoiltIs, FilAborts
<1>26. ASSUME first # 0, cc = 0, NEW x \in disk_read(sect), Noted(x), x # Junk,
              Given(Holding(fil, sect, x), Copied(Holding(fil, sect, x), btr))
       PROVE  Does
  <2>1. x = Disk[sect]
    <3>1. up /\ x = Image[card][sect]
      BY <1>26, Read
    <3> QED
      BY <1>16, <3>1 DEF Disk
  <2>2. PICK f : f = Holding(fil, sect, x)
    OBVIOUS
  <2>3. /\ SameFile(f) /\ f.clust = fil.clust /\ f.err = fil.err /\ f.fptr = fil.fptr
        /\ f.sect = sect /\ f.buf = x
    BY <1>3, <2>2, HoldingIs
  <2>4. Given(f, Copied(f, btr))
    BY <1>26, <2>2
  <2>5. FilFrame
    BY <1>15, <1>26
  <2> QED
    BY <1>23, <1>26, <2>1, <2>3, <2>4, <2>5
<1> QED
  BY <1>13, <1>17, <1>18, <1>20, <1>24, <1>25, <1>26

--------------------------------------------------------------------------------
(* A seek. *)

\* It goes on from the beginning of a cluster.
LEMMA SeekGoesOn ==
    ASSUME World, Inv, at \in OfSeek, FilFrame, NEW f, FilIs(f), SameFile(f), f.err = fil.err, Live(call.h),
           f.fptr \in Nat, f.fptr <= fil.objsize, NEW b \in Nat \ {0}, btr' = b, at' = "seeking",
           UNCHANGED <<ret, from, out>>, from \in Nat, Aim(call, fil, from) >= 0,
           f.fptr + b = Least(Aim(call, fil, from), fil.objsize), f.fptr % bcs = 0,
           f.clust = Chain(Disk, fs.g, fil.sclust)[f.fptr \div (fs.g.csize * SS)], f.clust # 0
    PROVE  Does
<1>1. OnFile /\ call.op = "seek" /\ out = <<>>
  BY DEF OnFile, OfSeek, Inv, Control
<1>2. call.h \in Handle /\ Sized(fil)
  BY <1>1, FileStep, LiveIs DEF Sized
<1>3. call' = call
  BY DEF FilFrame
<1>4. fd_fil'[call.h] = f /\ fil' = f /\ Disk' = Disk /\ fs'.g = fs.g /\ bcs' = bcs
  BY <1>2, <1>3, SetIs DEF fil, Disk, FilFrame, bcs, g
<1>5. f.sclust = fil.sclust /\ f.objsize = fil.objsize /\ f.fs = fil.fs /\ f.id = fil.id
  BY DEF SameFile
<1>6. Live(call.h)'
  BY <1>3, <1>4, <1>5 DEF Live, fil, FilFrame
<1>7. Sized(f)
  BY <1>2, <1>5 DEF Sized
<1>8. Aim(call, f, from) = Aim(call, fil, from)
  BY <1>5 DEF Aim
<1>9. OnCluster(Disk, fs.g, f)
  BY <1>5 DEF OnCluster
<1>10. Aim(call, f, from) >= 0 /\ f.fptr + b = Least(Aim(call, f, from), f.objsize)
  BY <1>5, <1>8
<1>11. Seeks'
  BY <1>3, <1>4, <1>6, <1>9, <1>10 DEF Seeks
<1>12. Reads'
  BY DEF Reads
<1> QED
  BY <1>1, <1>7, <1>11, <1>12, FilInner

\* Where it goes is a number, but when it is asked for a negative one.
LEMMA AimIs ==
    ASSUME World, Inv, OnFile, call.op = "seek", Live(call.h), from \in Nat
    PROVE  /\ Aim(call, fil, from) \in Int
           /\ Aim(call, fil, from) < 0 => call.whence = "SET" /\ call.off < 0
<1>1. /\ call.off \in Int /\ call.whence \in {"SET", "CUR", "END"}
  BY CallIs DEF OnFile, OfRead, OfSeek
<1>2. fil.objsize \in Nat
  BY LiveIs
<1>3. Wide \in Nat \ {0}
  BY FatAssumption
<1>4. ASSUME NEW a \in Nat, NEW b \in Int, NEW w \in Nat \ {0} PROVE (a + b) % w \in Int /\ (a + b) % w >= 0
  BY ONLY <1>4
<1>5. CASE call.whence = "SET"
  BY <1>1, <1>5 DEF Aim
<1>6. CASE call.whence = "CUR"
  <2>1. Aim(call, fil, from) = (from + call.off) % Wide
    BY <1>6 DEF Aim
  <2>2. (from + call.off) % Wide \in Int /\ (from + call.off) % Wide >= 0
    BY <1>1, <1>3, <1>4
  <2>3. PICK a \in Int : a = Aim(call, fil, from) /\ a >= 0
    BY <2>1, <2>2
  <2>4. ~(a < 0)
    BY <2>3
  <2> QED
    BY <2>3, <2>4
<1>7. CASE call.whence = "END"
  <2>1. Aim(call, fil, from) = (fil.objsize + call.off) % Wide
    BY <1>7 DEF Aim
  <2>2. (fil.objsize + call.off) % Wide \in Int /\ (fil.objsize + call.off) % Wide >= 0
    BY <1>1, <1>2, <1>3, <1>4
  <2>3. PICK a \in Int : a = Aim(call, fil, from) /\ a >= 0
    BY <2>1, <2>2
  <2>4. ~(a < 0)
    BY <2>3
  <2> QED
    BY <2>3, <2>4
<1> QED
  BY <1>1, <1>5, <1>6, <1>7

\* From the cluster that the file is in, when it is on the way.
LEMMA OnTheWay ==
    ASSUME NEW b \in Nat \ {0}, NEW p \in Nat, p > 0, NEW o \in Nat, o > 0,
           (o - 1) \div b >= (p - 1) \div b, NEW base, base = ((p - 1) \div b) * b
    PROVE  base \in Nat /\ base < o /\ base % b = 0 /\ base \div b = (p - 1) \div b
<1>1. PICK m \in Nat : m = p - 1
  OBVIOUS
<1>2. PICK n \in Nat : n = o - 1
  OBVIOUS
<1>3. PICK q \in Nat : q = m \div b
  BY DivMod
<1>4. PICK t \in Nat : t = n \div b
  BY DivMod
<1>5. q <= t
  BY <1>1, <1>2, <1>3, <1>4
<1>6. n = b * t + (n % b) /\ n % b \in Nat
  BY <1>4, DivMod
<1>7. PICK d \in Nat : t = q + d
  BY ONLY <1>5, q \in Nat, t \in Nat
<1>8. b * t = b * q + b * d /\ b * d \in Nat /\ b * q \in Nat /\ q * b = b * q + 0
  BY ONLY <1>7, b \in Nat \ {0}, q \in Nat, d \in Nat
<1>9. base = b * q + 0
  BY <1>1, <1>3, <1>8
<1>10. (b * q + 0) \div b = q /\ (b * q + 0) % b = 0
  BY DivUnique
<1>11. base < o
  BY ONLY <1>2, <1>6, <1>8, <1>9, n \in Nat, o \in Nat
<1> QED
  BY <1>1, <1>3, <1>8, <1>9, <1>10, <1>11

PutAt(f, p, c) == [f EXCEPT !.fptr = p, !.clust = c]

\* The fields of an object at another position, in another cluster.
LEMMA BothAre ==
    ASSUME NEW f, SameFile(f), NEW p, NEW c, NEW n, n = PutAt(f, p, c)
    PROVE  SameFile(n) /\ n.fptr = p /\ n.err = f.err /\ n.clust = c /\ n.sect = f.sect /\ n.buf = f.buf
<1>1. PICK m : m = [f EXCEPT !.fptr = p]
  OBVIOUS
<1>2. SameFile(m) /\ m.fptr = p /\ m.err = f.err /\ m.sect = f.sect /\ m.buf = f.buf
  BY <1>1, PtrIs
<1>3. n = [m EXCEPT !.clust = c]
  BY <1>1 DEF PutAt
<1>4. SameFile(n) /\ n.clust = c /\ n.err = m.err /\ n.fptr = m.fptr /\ n.sect = m.sect /\ n.buf = m.buf
  BY <1>2, <1>3, ClustIs
<1> QED
  BY <1>2, <1>4

\* f_lseek begins.
LEMMA FLseekDoes == ASSUME World, Inv, FLseek PROVE Does
<1>1. /\ at = "seek" /\ OnFile /\ IInv' /\ call.op = "seek" /\ out = <<>> /\ from = fil.fptr
      /\ UNCHANGED <<card, sd_mounted, up, drive_status, trouble, faults, fs, Fsid, vol, fd_used, of>>
  <2>1. at = "seek" /\ UNCHANGED <<card, sd_mounted, up, drive_status, trouble, faults, fs, Fsid, vol, fd_used, of>>
    BY DEF FLseek, driveVars
  <2>2. IInv'
    BY FLseekStep DEF Inv
  <2>3. call.op = "seek"
    BY <2>1 DEF Inv, Control, OfSeek
  <2>4. out = <<>> /\ from = fil.fptr
    BY <2>1, <2>3 DEF Inv, Control, OnHandle
  <2> QED
    BY <2>1, <2>2, <2>3, <2>4 DEF OnFile, OfSeek
<1>2. call' = call
  BY DEF FLseek, Fails, Says, Goes
<1>3. FilFrame /\ SameFile(fil) /\ fd_used[call.h] /\ call.h \in Handle
  BY <1>1, <1>2, FilQuiet, FileStep
<1>4. Valid(fil) /\ ~fil.err <=> Live(call.h)
  BY <1>1, <1>3 DEF Valid, Live, fil, Inv, Ready
<1>5. Pos = Aim(call, fil, from)
  BY <1>1 DEF Pos, Aim
<1>6. ASSUME Live(call.h)
      PROVE  /\ fs.type /\ Sound(Disk, fs.g) /\ bcs = fs.g.csize * SS /\ bcs \in Nat \ {0} /\ SS \in Nat \ {0}
             /\ fil.sclust \in Nat /\ fil.objsize \in Nat /\ fil.fptr \in Nat /\ from \in Nat
             /\ Settled(Disk, fs.g, fil) /\ Sized(fil)
  BY <1>1, <1>6, LiveIs DEF Sized
<1>7. ASSUME Pos < 0 PROVE Store!Reason
  <2>1. CASE ~Live(call.h)
    BY <1>1, <2>1, DeadIs
  <2>2. CASE Live(call.h)
    <3>1. call.whence = "SET" /\ call.off < 0
      BY <1>1, <1>5, <1>6, <1>7, <2>2, AimIs
    <3>2. Store!Live(call.h)
      BY <1>3, <2>2, MappedIs
    <3>3. Store!Target(Store!Of(call.h)) = call.off
      BY <3>1 DEF Store!Target
    <3> QED
      BY <1>1, <3>1, <3>2, <3>3 DEF Store!Reason
  <2> QED
    BY <2>1, <2>2
<1>8. CASE Pos < 0 /\ Fails("EINVAL") /\ UNCHANGED fd_fil
  BY <1>1, <1>3, <1>7, <1>8, FilFails
<1>9. CASE ~(Valid(fil) /\ ~fil.err) /\ UNCHANGED fd_fil /\ \E r : r # "OK" /\ Fails(r)
  BY <1>1, <1>3, <1>4, <1>9, DeadIs, FilFails
<1>10. PICK ofs : ofs = Least(Pos, fil.objsize)
  OBVIOUS
<1>11. PICK base : base = IF Ahead(fil, ofs) THEN ((fil.fptr - 1) \div bcs) * bcs ELSE 0
  OBVIOUS
<1>12. PICK clst : clst = IF Ahead(fil, ofs) THEN fil.clust ELSE fil.sclust
  OBVIOUS
<1>13. ASSUME Pos >= 0, Live(call.h)
       PROVE  ofs \in Nat /\ ofs <= fil.objsize /\ Aim(call, fil, from) >= 0
  <2>1. PICK a \in Int : a = Pos
    BY <1>1, <1>5, <1>6, <1>13, AimIs
  <2>2. PICK size \in Nat : size = fil.objsize
    BY <1>6, <1>13
  <2>3. a >= 0
    BY <1>13, <2>1
  <2>4. Least(a, size) \in Nat /\ Least(a, size) <= size
    BY ONLY <2>3, a \in Int, size \in Nat DEF Least
  <2> QED
    BY <1>5, <1>10, <1>13, <2>1, <2>2, <2>4
<1>14. ASSUME Pos >= 0, Live(call.h), ofs = 0, FilIs([fil EXCEPT !.fptr = 0]), Says("OK", 0) PROVE Does
  <2>1. PICK f : f = [fil EXCEPT !.fptr = 0]
    OBVIOUS
  <2>2. SameFile(f) /\ f.fptr = 0 /\ f.err = fil.err
    BY <1>3, <2>1, PtrIs
  <2>3. Sized(f)
    BY <1>6, <1>14, <2>2 DEF Sized, SameFile
  <2>4. 0 % SS = 0
    BY <1>6, <1>14
  <2>5. Settled(Disk, fs.g, f)
    BY <2>2, <2>4 DEF Settled
  <2>6. f.fptr = Least(Aim(call, fil, from), fil.objsize)
    BY <1>5, <1>10, <1>14, <2>2
  <2>7. FilIs(f) /\ Says("OK", f.fptr)
    BY <1>14, <2>1, <2>2
  <2>8. at \in OfSeek /\ Aim(call, fil, from) >= 0 /\ UNCHANGED trouble /\ from \in Nat
    BY <1>1, <1>6, <1>13, <1>14 DEF OfSeek
  <2> QED
    BY <1>3, <1>14, <2>2, <2>3, <2>5, <2>6, <2>7, <2>8, SeekAnswers
<1>15. ASSUME Pos >= 0, Live(call.h), ofs > 0, clst = 0, FilIs([fil EXCEPT !.fptr = base, !.clust = clst]),
              Says("OK", base)
       PROVE  Does
  <2>1. ~Ahead(fil, ofs)
    BY <1>6, <1>12, <1>15 DEF Ahead, Settled
  <2>2. base = 0 /\ fil.sclust = 0
    BY <1>11, <1>12, <1>15, <2>1
  <2>3. PICK f : f = PutAt(fil, base, clst)
    OBVIOUS
  <2>4. SameFile(f) /\ f.fptr = 0 /\ f.err = fil.err
    BY <1>3, <2>2, <2>3, BothAre
  <2>5. Sized(f)
    BY <1>6, <1>15, <2>4 DEF Sized, SameFile
  <2>6. 0 % SS = 0
    BY <1>6, <1>15
  <2>7. Settled(Disk, fs.g, f)
    BY <2>4, <2>6 DEF Settled
  <2>8. \E p \in Nat : p < fil.objsize /\ SectorAt(Disk, fs.g, fil.sclust, p, SS) = 0
    <3>1. PICK p \in Nat : p = 0
      OBVIOUS
    <3>2. p < fil.objsize
      BY <1>6, <1>13, <1>15, <3>1
    <3>3. p \div (fs.g.csize * SS) = 0
      BY <1>6, <1>15, <3>1
    <3>4. fil.sclust = Chain(Disk, fs.g, fil.sclust)[p \div (fs.g.csize * SS)]
      BY <1>6, <1>15, <3>3, ChainIs
    <3>5. clst2sect(fs.g, fil.sclust) = 0
      BY <1>6, <1>15, <2>2, Cluster
    <3>6. SectorAt(Disk, fs.g, fil.sclust, p, SS) = 0
      BY <1>1, <1>15, <3>4, <3>5, NoCluster
    <3> QED
      BY <3>2, <3>6
  <2>9. FilIs(f) /\ Says("OK", f.fptr)
    BY <1>15, <2>2, <2>3, <2>4 DEF PutAt
  <2>10. at \in OfSeek /\ Aim(call, fil, from) >= 0 /\ UNCHANGED trouble /\ from \in Nat
    BY <1>1, <1>6, <1>13, <1>15 DEF OfSeek
  <2> QED
    BY <1>3, <1>15, <2>4, <2>5, <2>7, <2>8, <2>9, <2>10, SeekAnswers
<1>16. ASSUME Pos >= 0, Live(call.h), ofs > 0, clst # 0, FilIs([fil EXCEPT !.fptr = base, !.clust = clst]),
              btr' = ofs - base, Goes("seeking"), UNCHANGED <<dj, parts, out>>
       PROVE  Does
  <2>1. /\ base \in Nat /\ base < ofs /\ base % bcs = 0
        /\ clst = Chain(Disk, fs.g, fil.sclust)[base \div bcs]
    <3>1. ofs \in Nat /\ fil.fptr \in Nat /\ bcs \in Nat \ {0}
      BY <1>6, <1>13, <1>16
    <3>2. CASE Ahead(fil, ofs)
      <4>1. fil.fptr > 0 /\ (ofs - 1) \div bcs >= (fil.fptr - 1) \div bcs
        BY <3>2 DEF Ahead
      <4>2. base = ((fil.fptr - 1) \div bcs) * bcs /\ clst = fil.clust
        BY <1>11, <1>12, <3>2
      <4>3. base \in Nat /\ base < ofs /\ base % bcs = 0 /\ base \div bcs = (fil.fptr - 1) \div bcs
        BY <1>16, <3>1, <4>1, <4>2, OnTheWay
      <4> QED
        BY <1>6, <1>16, <4>1, <4>2, <4>3 DEF Settled
    <3>3. CASE ~Ahead(fil, ofs)
      <4>1. base = 0 /\ clst = fil.sclust
        BY <1>11, <1>12, <3>3
      <4>2. 0 % bcs = 0 /\ 0 \div bcs = 0
        BY <3>1
      <4> QED
        BY <1>6, <1>16, <3>1, <4>1, <4>2, ChainIs
    <3> QED
      BY <3>2, <3>3
  <2>2. PICK f : f = PutAt(fil, base, clst)
    OBVIOUS
  <2>3. SameFile(f) /\ f.fptr = base /\ f.err = fil.err /\ f.clust = clst
    BY <1>3, <2>2, BothAre
  <2>4. PICK b \in Nat \ {0} : b = ofs - base /\ base + b = ofs
    <3>1. ofs \in Nat
      BY <1>13, <1>16
    <3> QED
      BY <2>1, <3>1
  <2>5. f.fptr + b = Least(Aim(call, fil, from), fil.objsize)
    BY <1>5, <1>10, <2>3, <2>4
  <2>6. f.fptr \in Nat /\ f.fptr <= fil.objsize /\ f.fptr % bcs = 0
    <3>1. ofs \in Nat /\ ofs <= fil.objsize /\ fil.objsize \in Nat
      BY <1>6, <1>13, <1>16
    <3>2. base <= fil.objsize
      BY ONLY <2>1, <3>1
    <3> QED
      BY <2>1, <2>3, <3>2
  <2>7. f.clust = Chain(Disk, fs.g, fil.sclust)[f.fptr \div (fs.g.csize * SS)] /\ f.clust # 0
    BY <1>6, <1>16, <2>1, <2>3
  <2>8. FilIs(f) /\ btr' = b /\ at' = "seeking" /\ UNCHANGED <<ret, from, out>>
    BY <1>16, <2>2, <2>4 DEF Goes, PutAt
  <2>9. at \in OfSeek /\ Aim(call, fil, from) >= 0 /\ from \in Nat
    BY <1>1, <1>6, <1>13, <1>16 DEF OfSeek
  <2> QED
    BY <1>3, <1>16, <2>3, <2>5, <2>6, <2>7, <2>8, <2>9, SeekGoesOn
<1>17. \/ Pos < 0 /\ Fails("EINVAL") /\ UNCHANGED fd_fil
       \/ Pos >= 0 /\ ~Valid(fil) /\ Fails("FR_INVALID_OBJECT") /\ UNCHANGED fd_fil
       \/ Pos >= 0 /\ Valid(fil) /\ fil.err /\ Fails("err") /\ UNCHANGED fd_fil
       \/ /\ Pos >= 0 /\ Valid(fil) /\ ~fil.err
          /\ \/ ofs = 0 /\ FilIs([fil EXCEPT !.fptr = 0]) /\ Says("OK", 0)
             \/ ofs > 0 /\ clst = 0 /\ FilIs([fil EXCEPT !.fptr = base, !.clust = clst]) /\ Says("OK", base)
             \/ /\ ofs > 0 /\ clst # 0
                /\ FilIs([fil EXCEPT !.fptr = base, !.clust = clst])
                /\ btr' = ofs - base /\ Goes("seeking") /\ UNCHANGED <<dj, parts, out>>
  BY <1>10, <1>11, <1>12 DEF FLseek
<1> QED
  BY <1>4, <1>8, <1>9, <1>14, <1>15, <1>16, <1>17

\* What holds on the way.
LEMMA SeekingIs ==
    ASSUME World, Inv, at = "seeking"
    PROVE  /\ OnFile /\ at \in OfSeek /\ call.op = "seek" /\ Live(call.h) /\ btr \in Nat \ {0} /\ out = <<>>
           /\ from \in Nat /\ Aim(call, fil, from) >= 0 /\ fil.fptr + btr = Least(Aim(call, fil, from), fil.objsize)
           /\ fil.fptr + btr <= fil.objsize
           /\ fil.fptr % bcs = 0 /\ OnCluster(Disk, fs.g, fil) /\ fil.clust # 0
<1>1. OnFile /\ at \in OfSeek /\ call.op = "seek" /\ Live(call.h) /\ btr \in Nat \ {0} /\ out = <<>>
  BY DEF OnFile, OfSeek, Inv, Control, Seeks
<1>2. /\ from \in Nat /\ Aim(call, fil, from) >= 0 /\ fil.fptr + btr = Least(Aim(call, fil, from), fil.objsize)
      /\ fil.fptr % bcs = 0 /\ OnCluster(Disk, fs.g, fil) /\ fil.clust # 0
  BY DEF Inv, Seeks
<1>3. fil.objsize \in Nat /\ fil.fptr \in Nat
  BY <1>1, LiveIs
<1>4. PICK m : m = fil.fptr + btr
  OBVIOUS
<1>5. m \in Nat
  BY ONLY <1>1, <1>3, <1>4
<1>6. PICK a : a = Aim(call, fil, from)
  OBVIOUS
<1>7. PICK size \in Nat : size = fil.objsize
  BY <1>3
<1>8. m = Least(a, size)
  BY <1>2, <1>4, <1>6, <1>7
<1>9. m <= size
  <2>1. CASE a < size
    <3>1. m = a
      BY <1>8, <2>1 DEF Least
    <3> QED
      BY ONLY <1>5, <2>1, <3>1, size \in Nat
  <2>2. CASE ~(a < size)
    <3>1. m = size
      BY <1>8, <2>2 DEF Least
    <3> QED
      BY ONLY <3>1, size \in Nat
  <2> QED
    BY <2>1, <2>2
<1>10. fil.fptr + btr <= fil.objsize
  BY <1>4, <1>7, <1>9
<1> QED
  BY <1>1, <1>2, <1>10

\* One cluster further in a chain.
LEMMA ClusterOn ==
    ASSUME NEW cd, NEW v, Sound(cd, v), NEW c \in Nat, NEW p \in Nat, NEW b, b = v.csize * SS, p % b = 0,
           NEW k, k = Chain(cd, v, c)[p \div b]
    PROVE  /\ k \in Nat /\ p + b \in Nat /\ (p + b) % b = 0
           /\ After(cd, v, k) = Chain(cd, v, c)[(p + b) \div b]
<1>1. b \in Nat \ {0}
  <2>1. SS \in Nat \ {0} /\ v.csize \in Nat \ {0}
    BY FatVolumeAssumption DEF Sound
  <2> QED
    BY <2>1, DivDiv
<1>2. PICK q \in Nat : q = p \div b
  BY <1>1, DivMod
<1>3. p = b * q
  BY <1>1, <1>2, DivMod
<1>4. p + b = b * (q + 1) + 0
  BY ONLY <1>1, <1>3, q \in Nat
<1>5. (b * (q + 1) + 0) \div b = q + 1 /\ (b * (q + 1) + 0) % b = 0
  <2>1. PICK r \in Nat : r = q + 1
    BY ONLY q \in Nat
  <2> QED
    BY <1>1, <2>1, DivUnique
<1>6. p + b \in Nat
  BY ONLY <1>1, p \in Nat
<1>7. k \in Nat /\ After(cd, v, k) = Chain(cd, v, c)[q + 1]
  BY <1>2, ChainIs
<1> QED
  BY <1>4, <1>5, <1>6, <1>7

\* f_lseek: one cluster further.
LEMMA SeekChainDoes == ASSUME World, Inv, SeekChain PROVE Does
<1>1. at = "seeking" /\ IInv' /\ btr > bcs /\ UNCHANGED <<vol, fd_used, of, call>>
  <2>1. at = "seeking" /\ btr > bcs /\ UNCHANGED <<vol, fd_used, of, call>>
    BY DEF SeekChain, Aborts, Fails, Says, Goes
  <2> QED
    BY <2>1, SeekChainStep DEF Inv
<1>2. /\ OnFile /\ at \in OfSeek /\ call.op = "seek" /\ Live(call.h) /\ btr \in Nat \ {0} /\ out = <<>>
      /\ from \in Nat /\ Aim(call, fil, from) >= 0 /\ fil.fptr + btr = Least(Aim(call, fil, from), fil.objsize)
      /\ fil.fptr + btr <= fil.objsize
      /\ fil.fptr % bcs = 0 /\ OnCluster(Disk, fs.g, fil) /\ fil.clust # 0
  BY <1>1, SeekingIs
<1>3. /\ fs.type /\ g = fs.g /\ Sound(Disk, fs.g) /\ bcs = fs.g.csize * SS /\ bcs \in Nat \ {0}
      /\ fil.sclust \in Nat /\ fil.objsize \in Nat /\ fil.fptr \in Nat /\ SameFile(fil)
  BY <1>2, LiveIs, FileStep
<1>4. PICK p \in Nat : p = fil.fptr
  BY <1>3
<1>5. PICK b \in Nat \ {0} : b = bcs
  BY <1>3
<1>6. PICK t \in Nat \ {0} : t = btr
  BY <1>2
<1>7. t > b /\ p + t <= fil.objsize /\ p % b = 0 /\ b = fs.g.csize * SS
  BY <1>1, <1>2, <1>3, <1>4, <1>5, <1>6
<1>8. PICK k : k = fil.clust
  OBVIOUS
<1>9. k = Chain(Disk, fs.g, fil.sclust)[p \div b]
  BY <1>2, <1>4, <1>7, <1>8 DEF OnCluster
<1>10. /\ k \in Nat /\ p + b \in Nat /\ (p + b) % b = 0
       /\ After(Disk, fs.g, k) = Chain(Disk, fs.g, fil.sclust)[(p + b) \div b]
  BY <1>3, <1>7, <1>9, ClusterOn
<1>11. PICK q \in Nat : q = p + b
  BY <1>10
<1>12. q % b = 0 /\ After(Disk, fs.g, k) = Chain(Disk, fs.g, fil.sclust)[q \div b]
  BY <1>10, <1>11
<1>13. PICK u \in Nat \ {0} : u = t - b /\ q + u = p + t
  BY ONLY <1>7, <1>11, t \in Nat \ {0}, b \in Nat \ {0}, p \in Nat
<1>14. q < fil.objsize
  BY <1>3, <1>7, <1>13
<1>15. PICK s \in Nat : s = FatSector(fs.g, k)
  <2>1. FE \in Nat \ {0} /\ fs.g.fatbase \in Nat
    BY <1>3, FatVolumeAssumption DEF Sound
  <2>2. k \div FE \in Nat
    BY <1>10, <2>1, DivMod
  <2> QED
    BY <2>1, <2>2 DEF FatSector
<1>16. PICK n : n = [fil EXCEPT !.fptr = q]
  OBVIOUS
<1>17. SameFile(n) /\ n.fptr = q /\ n.err = fil.err
  BY <1>3, <1>16, PtrIs
<1>18. PICK f \in move_window(fs, s) :
          /\ Moved(f)
          /\ \/ f.win = Junk /\ Aborts(n, "FR_DISK_ERR")
             \/ f.win # Junk /\ (get_fat(f, k) <= 1 \/ get_fat(f, k) >= fs.g.n_fatent) /\ Aborts(n, "FR_INT_ERR")
             \/ /\ f.win # Junk /\ get_fat(f, k) > 1 /\ get_fat(f, k) < fs.g.n_fatent
                /\ FilIs([n EXCEPT !.clust = get_fat(f, k)]) /\ btr' = btr - bcs
                /\ UNCHANGED <<at, call, ret, from, dj, parts, out>>
  <2>1. [fil EXCEPT !.fptr = @ + bcs] = n
    BY <1>4, <1>5, <1>11, <1>16
  <2> QED
    BY <1>3, <1>8, <1>15, <2>1 DEF SeekChain
<1>19. /\ FilFrame /\ f.g = fs.g
       /\ f.win = Junk => trouble'
       /\ f.win # Junk => trouble' = trouble /\ f.win = Disk[s]
  BY <1>1, <1>2, <1>3, <1>18, FileWindow
<1>20. CASE f.win = Junk /\ Aborts(n, "FR_DISK_ERR")
  BY <1>2, <1>17, <1>19, <1>20, FilAborts
<1>21. PICK c \in Nat : c = After(Disk, fs.g, k)
  BY <1>3, <1>10, Cluster
<1>22. ASSUME f.win # Junk
       PROVE  /\ clst2sect(fs.g, k) = 0 => get_fat(f, k) = 1 /\ c = 0
              /\ clst2sect(fs.g, k) # 0 => get_fat(f, k) = c
  BY <1>15, <1>19, <1>21, <1>22 DEF get_fat, After
<1>23. CASE f.win # Junk /\ (get_fat(f, k) <= 1 \/ get_fat(f, k) >= fs.g.n_fatent) /\ Aborts(n, "FR_INT_ERR")
  <2>1. clst2sect(fs.g, c) = 0
    <3>1. ~(c >= 2 /\ c < fs.g.n_fatent)
      <4>1. fs.g.n_fatent \in Nat
        BY <1>3 DEF Sound
      <4> QED
        BY <1>22, <1>23, <4>1
    <3> QED
      BY <1>3, <3>1, Cluster
  <2>2. c = Chain(Disk, fs.g, fil.sclust)[q \div (fs.g.csize * SS)]
    BY <1>7, <1>12, <1>21
  <2>3. Store!Reason
    BY <1>2, <1>14, <2>1, <2>2, NoCluster
  <2> QED
    BY <1>2, <1>17, <1>19, <1>23, <2>3, FilAborts
<1>24. CASE /\ f.win # Junk /\ get_fat(f, k) > 1 /\ get_fat(f, k) < fs.g.n_fatent
            /\ FilIs([n EXCEPT !.clust = get_fat(f, k)]) /\ btr' = btr - bcs
            /\ UNCHANGED <<at, call, ret, from, dj, parts, out>>
  <2>1. get_fat(f, k) = c
    <3>1. ~(1 > 1)
      OBVIOUS
    <3> QED
      BY <1>22, <1>24, <3>1
  <2>2. PICK m : m = [n EXCEPT !.clust = c]
    OBVIOUS
  <2>3. SameFile(m) /\ m.clust = c /\ m.err = n.err /\ m.fptr = n.fptr
    BY <1>17, <2>2, ClustIs
  <2>4. FilIs(m) /\ at' = "seeking" /\ UNCHANGED <<ret, from, out>>
    BY <1>1, <1>24, <2>1, <2>2
  <2>5. btr' = u
    BY <1>5, <1>6, <1>13, <1>24
  <2>6. c # 0
    BY <1>24, <2>1
  <2>7. m.fptr = q /\ q <= fil.objsize /\ m.fptr % bcs = 0 /\ m.err = fil.err
    BY <1>3, <1>5, <1>12, <1>14, <1>17, <2>3
  <2>8. m.fptr + u = Least(Aim(call, fil, from), fil.objsize)
    BY <1>2, <1>4, <1>6, <1>13, <2>7
  <2>9. m.clust = Chain(Disk, fs.g, fil.sclust)[m.fptr \div (fs.g.csize * SS)] /\ m.clust # 0
    BY <1>7, <1>12, <1>21, <2>3, <2>6, <2>7
  <2> QED
    BY <1>2, <1>19, <2>3, <2>4, <2>5, <2>7, <2>8, <2>9, SeekGoesOn
<1> QED
  BY <1>18, <1>20, <1>23, <1>24

Arrival(cd, v, c, p, b, t, first, m) ==
    /\ m \in Nat \ {0} /\ (m - 1) \div b = p \div b /\ m % SS = t % SS
    /\ t % SS # 0 /\ first # 0 => SectorAt(cd, v, c, m, SS) = first + (t \div SS) /\ first + (t \div SS) # 0

\* The end of the way, in a cluster or behind it.
LEMMA Arrives ==
    ASSUME NEW cd, NEW v, Sound(cd, v), NEW c \in Nat, NEW p \in Nat, NEW b, b = v.csize * SS, p % b = 0,
           NEW t \in Nat \ {0}, t <= b, NEW k, k = Chain(cd, v, c)[p \div b], NEW first, first = clst2sect(v, k),
           NEW m, m = p + t
    PROVE  Arrival(cd, v, c, p, b, t, first, m)
<1>1. SS \in Nat \ {0} /\ v.csize \in Nat \ {0}
  BY FatVolumeAssumption DEF Sound
<1>2. PICK n \in Nat \ {0} : n = v.csize
  BY <1>1
<1>3. PICK ss \in Nat \ {0} : ss = SS
  BY <1>1
<1>4. b = n * ss /\ b \in Nat \ {0}
  BY <1>2, <1>3, DivDiv
<1>5. PICK s \in Nat : s = p \div ss
  BY DivMod
<1>6. PICK r \in Nat : r = s % n
  BY DivMod
<1>7. PICK a \in Nat : a = p % ss
  BY DivMod
<1>8. a = 0 /\ r = 0
  <2>1. p % b = ss * r + a
    <3>1. p % (n * ss) = ss * ((p \div ss) % n) + (p % ss)
      BY ONLY p \in Nat, ss \in Nat \ {0}, n \in Nat \ {0}, DivDiv
    <3> QED
      BY <1>4, <1>5, <1>6, <1>7, <3>1
  <2>2. ss * r \in Nat /\ (r # 0 => ss * r # 0)
    BY ONLY ss \in Nat \ {0}, r \in Nat
  <2>3. 0 = ss * r + a
    BY <2>1
  <2>4. a = 0 /\ ss * r = 0
    BY ONLY <2>2, <2>3, a \in Nat
  <2> QED
    BY <2>2, <2>4
<1>9. PICK l \in Nat : l = t - 1 /\ l < b
  BY ONLY <1>4, t \in Nat \ {0}, t <= b
<1>10. m \in Nat \ {0} /\ m - 1 = p + l
  BY ONLY <1>9, p \in Nat, t \in Nat \ {0}, m = p + t
<1>11. (p + l) \div b = p \div b
  <2>1. (p % b) + l < b
    BY <1>9
  <2> QED
    BY <1>4, <2>1, DivWithin
<1>12. p % SS = 0 /\ (p \div SS) % v.csize = 0
  BY <1>2, <1>3, <1>5, <1>6, <1>7, <1>8
<1>13. m % SS = t % SS
  <2>1. PICK u \in Nat : u = t
    OBVIOUS
  <2>2. p % ss = 0
    BY <1>7, <1>8
  <2>3. PICK q \in Nat : q = p \div ss
    BY DivMod
  <2>4. PICK w \in Nat : w = u \div ss
    BY DivMod
  <2>5. PICK x \in Nat : x = u % ss /\ x < ss
    BY DivMod
  <2>6. p = ss * q /\ u = ss * w + x
    BY <2>2, <2>3, <2>4, <2>5, DivMod
  <2>7. PICK y \in Nat : y = q + w
    OBVIOUS
  <2>8. ss * y = ss * q + ss * w
    BY ONLY <2>7, q \in Nat, w \in Nat, ss \in Nat \ {0}
  <2>9. m = ss * y + x
    BY <1>10, <2>1, <2>6, <2>8
  <2>11. x < ss
    BY <2>5
  <2>10. (ss * y + x) \div ss = y /\ (ss * y + x) % ss = x
    BY ONLY <2>11, y \in Nat, x \in Nat, ss \in Nat \ {0}, DivUnique
  <2> QED
    BY <1>3, <2>1, <2>5, <2>9, <2>10
<1>14. ASSUME t % SS # 0, first # 0
       PROVE  SectorAt(cd, v, c, m, SS) = first + (t \div SS) /\ first + (t \div SS) # 0
  <2>1. PICK q \in Nat : q = t \div ss
    BY DivMod
  <2>2. q < n
    <3>1. CASE q >= n
      <4>1. PICK d \in Nat : q = n + d
        BY <3>1
      <4>2. t = ss * q + (t % ss) /\ t % ss \in Nat /\ t % ss # 0
        BY <1>3, <1>14, <2>1, DivMod
      <4>3. ss * q = (n * ss) + (ss * d) /\ ss * d \in Nat /\ n * ss \in Nat
        BY ONLY <4>1, ss \in Nat \ {0}, n \in Nat \ {0}, d \in Nat
      <4>4. t <= n * ss
        BY <1>4
      <4> QED
        BY ONLY <4>2, <4>3, <4>4, t \in Nat \ {0}
    <3> QED
      BY <3>1
  <2>3. ((p \div SS) % v.csize) + (t \div SS) < v.csize
    BY <1>2, <1>3, <1>12, <2>1, <2>2
  <2>4. first = clst2sect(v, Chain(cd, v, c)[p \div (v.csize * SS)])
    OBVIOUS
  <2>5. SectorAt(cd, v, c, p + t, SS) = first + ((p \div SS) % v.csize) + (t \div SS)
    BY <1>12, <1>14, <2>3, <2>4, InCluster1
  <2>6. first \in Nat
    <3>1. p \div (v.csize * SS) \in Nat
      BY ClusterOf
    <3>2. k \in Nat
      BY <3>1, ChainIs
    <3> QED
      BY <3>2, Cluster
  <2>7. first + 0 + q = first + q /\ first + q # 0
    BY ONLY <1>14, <2>6, q \in Nat
  <2> QED
    BY <1>3, <1>12, <2>1, <2>5, <2>7
<1> QED
  BY <1>10, <1>11, <1>13, <1>14 DEF Arrival

\* f_lseek: the sector of the position.
LEMMA SeekEndDoes == ASSUME World, Inv, SeekEnd PROVE Does
<1>1. at = "seeking" /\ IInv' /\ btr <= bcs /\ UNCHANGED <<fs, Fsid, fd_used, of, vol, call>>
  <2>1. at = "seeking" /\ btr <= bcs /\ UNCHANGED <<fs, Fsid, fd_used, of, vol, call>>
    BY DEF SeekEnd, Aborts, Fails, Says
  <2> QED
    BY <2>1, SeekEndStep DEF Inv
<1>2. /\ OnFile /\ at \in OfSeek /\ call.op = "seek" /\ Live(call.h) /\ btr \in Nat \ {0}
      /\ from \in Nat /\ Aim(call, fil, from) >= 0 /\ fil.fptr + btr = Least(Aim(call, fil, from), fil.objsize)
      /\ fil.fptr + btr <= fil.objsize
      /\ fil.fptr % bcs = 0 /\ OnCluster(Disk, fs.g, fil) /\ fil.clust # 0
  BY <1>1, SeekingIs
<1>3. /\ fs.type /\ g = fs.g /\ Sound(Disk, fs.g) /\ bcs = fs.g.csize * SS /\ bcs \in Nat \ {0} /\ SS \in Nat \ {0}
      /\ fil.sclust \in Nat /\ fil.objsize \in Nat /\ fil.fptr \in Nat /\ SameFile(fil)
  BY <1>2, LiveIs, FileStep
<1>4. PICK p \in Nat : p = fil.fptr
  BY <1>3
<1>5. PICK b \in Nat \ {0} : b = bcs
  BY <1>3
<1>6. PICK t \in Nat \ {0} : t = btr
  BY <1>2
<1>7. t <= b /\ p + t <= fil.objsize /\ p % b = 0 /\ b = fs.g.csize * SS
  BY <1>1, <1>2, <1>3, <1>4, <1>5, <1>6
<1>8. PICK k : k = fil.clust
  OBVIOUS
<1>9. k = Chain(Disk, fs.g, fil.sclust)[p \div b] /\ k # 0
  BY <1>2, <1>4, <1>7, <1>8 DEF OnCluster
<1>10. PICK first : first = clst2sect(fs.g, k)
  OBVIOUS
<1>11. PICK m : m = p + t
  OBVIOUS
<1>12. /\ m \in Nat \ {0} /\ (m - 1) \div b = p \div b /\ m % SS = t % SS
       /\ t % SS # 0 /\ first # 0 =>
             SectorAt(Disk, fs.g, fil.sclust, m, SS) = first + (t \div SS) /\ first + (t \div SS) # 0
  <2>1. Arrival(Disk, fs.g, fil.sclust, p, b, t, first, m)
    BY <1>3, <1>7, <1>9, <1>10, <1>11, Arrives
  <2> QED
    BY <2>1 DEF Arrival
<1>13. PICK nsect : nsect = first + (t \div SS)
  OBVIOUS
<1>14. PICK f : f = [fil EXCEPT !.fptr = m]
  OBVIOUS
<1>15. /\ SameFile(f) /\ f.fptr = m /\ f.err = fil.err
       /\ f.clust = fil.clust /\ f.sect = fil.sect /\ f.buf = fil.buf
  BY <1>3, <1>14, PtrIs
<1>16. [fil EXCEPT !.fptr = @ + btr] = f
  BY <1>4, <1>6, <1>11, <1>14
<1>17. \/ t % SS # 0 /\ first = 0 /\ Aborts(f, "FR_INT_ERR") /\ UNCHANGED driveVars
       \/ /\ t % SS # 0 => first # 0 /\ nsect = fil.sect
          /\ FilIs(f) /\ Says("OK", f.fptr) /\ UNCHANGED driveVars
       \/ /\ t % SS # 0 /\ first # 0 /\ nsect # fil.sect
          /\ \E x \in disk_read(nsect) :
                /\ Noted(x)
                /\ \/ x = Junk /\ Aborts(Spoilt(f), "FR_DISK_ERR")
                   \/ x # Junk /\ FilIs(Holding(f, nsect, x)) /\ Says("OK", f.fptr)
  BY <1>3, <1>6, <1>8, <1>10, <1>13, <1>16 DEF SeekEnd
<1>18. UNCHANGED driveVars => FilFrame /\ UNCHANGED trouble
  BY <1>1, <1>2, FilQuiet DEF driveVars
<1>19. \A x : Noted(x) => FilFrame /\ (x = Junk => trouble') /\ (x # Junk => trouble' = trouble)
  BY <1>1, <1>2, FilNoted
<1>20. m <= fil.objsize
  BY <1>7, <1>11
<1>21. CASE t % SS # 0 /\ first = 0 /\ Aborts(f, "FR_INT_ERR") /\ UNCHANGED driveVars
  <2>1. p < fil.objsize
    BY ONLY <1>3, <1>7, p \in Nat, t \in Nat \ {0}
  <2>2. k = Chain(Disk, fs.g, fil.sclust)[p \div (fs.g.csize * SS)]
    BY <1>7, <1>9
  <2>3. Store!Reason
    BY <1>2, <1>10, <1>21, <2>1, <2>2, NoCluster
  <2> QED
    BY <1>2, <1>15, <1>18, <1>21, <2>3, FilAborts
\* It has arrived.
<1>22. ASSUME FilFrame, UNCHANGED trouble, NEW n, SameFile(n), n.fptr = m, n.err = fil.err, n.clust = k,
              FilIs(n), Says("OK", m), t % SS # 0 => first # 0 /\ n.sect = nsect
       PROVE  Does
  <2>1. n.sclust = fil.sclust /\ n.objsize = fil.objsize
    BY <1>22 DEF SameFile
  <2>2. Sized(n)
    BY <1>3, <1>12, <1>20, <1>22, <2>1 DEF Sized
  <2>3. n.clust = Chain(Disk, fs.g, n.sclust)[(n.fptr - 1) \div (fs.g.csize * SS)] /\ n.clust # 0
    BY <1>7, <1>9, <1>12, <1>22, <2>1
  <2>4. n.fptr % SS # 0 => n.sect # 0 /\ n.sect = SectorAt(Disk, fs.g, n.sclust, n.fptr, SS)
    BY <1>12, <1>13, <1>22, <2>1
  <2>5. Settled(Disk, fs.g, n)
    BY <2>3, <2>4 DEF Settled
  <2>6. n.fptr = Least(Aim(call, fil, from), fil.objsize)
    BY <1>2, <1>4, <1>6, <1>11, <1>22
  <2>7. Says("OK", n.fptr)
    BY <1>22
  <2> QED
    BY <1>2, <1>22, <2>2, <2>5, <2>6, <2>7, SeekAnswers
<1>23. CASE /\ t % SS # 0 => first # 0 /\ nsect = fil.sect
            /\ FilIs(f) /\ Says("OK", f.fptr) /\ UNCHANGED driveVars
  BY <1>8, <1>15, <1>18, <1>22, <1>23
<1>24. ASSUME NEW x \in disk_read(nsect), Noted(x), x = Junk, Aborts(Spoilt(f), "FR_DISK_ERR") PROVE Does
  BY <1>2, <1>15, <1>19, <1>24, SpoiltIs, FilAborts
<1>25. ASSUME t % SS # 0, first # 0, NEW x \in disk_read(nsect), Noted(x), x # Junk,
              FilIs(Holding(f, nsect, x)), Says("OK", f.fptr)
       PROVE  Does
  <2>1. PICK n : n = Holding(f, nsect, x)
    OBVIOUS
  <2>2. SameFile(n) /\ n.clust = f.clust /\ n.err = f.err /\ n.fptr = f.fptr /\ n.sect = nsect
    BY <1>15, <2>1, HoldingIs
  <2>3. FilFrame /\ UNCHANGED trouble
    BY <1>19, <1>25
  <2> QED
    BY <1>8, <1>15, <1>22, <1>25, <2>1, <2>2, <2>3
<1> QED
  BY <1>17, <1>21, <1>23, <1>24, <1>25

--------------------------------------------------------------------------------
(* A close, and all steps. *)

\* f_close.
LEMMA FCloseDoes == ASSUME World, Inv, FClose PROVE Does
<1>1. /\ at = "close" /\ IInv' /\ call.op = "close" /\ fd_used[call.h] /\ call.h \in Handle /\ call # None
      /\ UNCHANGED <<card, sd_mounted, up, drive_status, trouble, faults, fs, Fsid, vol, call>>
      /\ trouble \in BOOLEAN /\ fs.cdir \in Nat /\ ret = None
  <2>1. at = "close" /\ UNCHANGED <<card, sd_mounted, up, drive_status, trouble, faults, fs, Fsid, vol, call>>
    BY DEF FClose, driveVars, Fails, Says
  <2>2. IInv'
    BY FCloseStep DEF Inv
  <2>3. call.op = "close" /\ fd_used[call.h] /\ trouble \in BOOLEAN
    BY <2>1 DEF Inv, Control
  <2>4. call.h \in Handle /\ call # None /\ ret = None
    BY <2>1, <2>3, CallIs DEF OnHandle
  <2>5. fs.cdir \in Nat
    BY DEF Inv, Ready
  <2> QED
    BY <2>1, <2>2, <2>3, <2>4, <2>5
<1>2. /\ fd_used' = [fd_used EXCEPT ![call.h] = FALSE] /\ of' = [of EXCEPT ![call.h] = None]
      /\ fd_used \in [Handle -> BOOLEAN] /\ of = [h \in Handle |-> of[h]]
      /\ fd_fil = [h \in Handle |-> fd_fil[h]]
  BY DEF FClose, Inv, Ready, IInv, Shapes
<1>3. ~fd_used'[call.h] /\ \A k \in Handle : k # call.h => fd_used'[k] = fd_used[k] /\ of'[k] = of[k]
  BY <1>1, <1>2
<1>4. \A k \in Handle : k # call.h => fd_fil'[k] = fd_fil[k]
  BY <1>1, <1>2 DEF FClose, FilIs
<1>5. ~Live(call.h)' /\ \A k \in Handle : k # call.h => Live(k)' = Live(k) /\ PosOf(k)' = PosOf(k)
  BY <1>1, <1>3, <1>4 DEF Live, PosOf
<1>6. UNCHANGED SVol
  BY <1>1 DEF SVol
<1>7. Mapped' = [Mapped EXCEPT ![call.h] = None] /\ Mapped[call.h] # None
  <2>1. \A k \in Handle : k # call.h => Mapped'[k] = Mapped[k]
    BY <1>3, <1>5 DEF Mapped
  <2>2. Mapped'[call.h] = None
    BY <1>1, <1>3 DEF Mapped
  <2>3. Mapped = [k \in Handle |-> Mapped[k]] /\ Mapped' = [k \in Handle |-> Mapped'[k]]
    BY DEF Mapped
  <2>4. Mapped[call.h] # None
    BY <1>1, MappedIs
  <2> QED
    BY <1>1, <2>1, <2>2, <2>3, <2>4
<1>8. PICK r, o : Says(r, o) /\ ((r = "OK" /\ o = 0) \/ (r = "FR_INVALID_OBJECT" /\ o = None /\ ~Valid(fil)))
  BY DEF FClose, Fails
<1>9. Control' /\ Tried' /\ Reads' /\ Seeks' /\ Dirs' /\ at' = "said"
  BY <1>1, <1>8, Ended, Answers
<1>10. Ready'
  <2>1. fd_used' \in [Handle -> BOOLEAN] /\ of' = [h \in Handle |-> of'[h]]
    BY <1>2
  <2> QED
    BY <1>1, <2>1 DEF Inv, Ready
<1>11. Files'
  <2>1. Disk' = Disk /\ fs' = fs
    BY <1>1 DEF Disk
  <2>2. ASSUME NEW k \in Handle, Live(k)'
        PROVE  /\ Named(Disk, fs.g, of'[k], fd_fil'[k]) /\ Sized(fd_fil'[k])
               /\ Settled(Disk, fs.g, fd_fil'[k])
    <3>1. k # call.h
      BY <1>5, <2>2, <1>1 DEF Live
    <3>2. Live(k) /\ ~Moving(k)
      BY <1>1, <1>5, <2>2, <3>1 DEF Moving
    <3> QED
      BY <1>3, <1>4, <3>1, <3>2 DEF Inv, Files
  <2> QED
    BY <2>1, <2>2 DEF Files
<1>12. StoreStep
  <2>1. CASE Says("OK", 0)
    <3>1. ret' = [res |-> "OK", out |-> 0] /\ ret' # None
      BY <2>1, Answers
    <3>2. Store!AnswerClose
      BY <1>1, <1>6, <1>7, <3>1 DEF Store!AnswerClose, Store!Answer, SVol
    <3> QED
      BY <1>1, <3>1, <3>2 DEF StoreStep, Store!Next
  <2>2. CASE Fails("FR_INVALID_OBJECT") /\ ~Valid(fil)
    <3>1. ~Live(call.h)
      BY <1>1, <2>2 DEF Live, Valid, fil, Inv, Ready
    <3>2. ~Store!Live(call.h)
      BY <1>1, <3>1, MappedIs
    <3>3. Store!Reason
      BY <1>1, <3>2 DEF Store!Reason, Store!OnHandle
    <3> QED
      BY <1>1, <1>6, <1>7, <2>2, <3>3, Refused
  <2> QED
    BY <1>8, <2>1, <2>2 DEF Fails
<1> QED
  BY <1>1, <1>9, <1>10, <1>11, <1>12 DEF Does, Inv

\* Nothing is mounted at the start.
LEMMA InitDoes == ASSUME World, Init PROVE Inv /\ Store!Init
<1>1. /\ card \in Cards /\ sd_mounted = FALSE /\ at = "idle" /\ call = None /\ ret = None /\ trouble = FALSE /\ out = <<>>
      /\ fs = NoVolume /\ fd_used = [h \in Handle |-> FALSE] /\ of = [h \in Handle |-> None]
  BY DEF Init
<1>2. fs.type = FALSE /\ fs.cdir = 0
  BY <1>1 DEF NoVolume
<1>3. IInv
  BY InitInv
<1>4. Control
  BY <1>1 DEF Control, Early, OfDir, OfRead, OfSeek
<1>5. Ready
  BY <1>1, <1>2 DEF Ready
<1>6. \A h \in Handle : ~Live(h)
  BY <1>2 DEF Live
<1>7. Files /\ Tried /\ Reads /\ Seeks /\ Dirs
  BY <1>1, <1>6 DEF Files, Tried, Reads, Seeks, Dirs, OfDir
<1>8. Mapped = [h \in Handle |-> None]
  BY <1>1 DEF Mapped
<1>9. SVol = None
  BY <1>2 DEF SVol
<1>10. Store!Init
  BY <1>1, <1>2, <1>8, <1>9 DEF Store!Init, SVol
<1> QED
  BY <1>3, <1>4, <1>5, <1>7, <1>10 DEF Inv

\* Every step keeps the invariant, and is one of FileStore or seen by no program.
LEMMA NextDoesAll == ASSUME World, Inv, [Next]_vars PROVE Does
<1>1. CASE UNCHANGED vars
  BY <1>1, StillDoes
<1>2. CASE Swap \/ Ask \/ Return
  BY <1>2, SwapDoes, AskDoes, ReturnDoes
<1>3. CASE Begin \/ MountVolume \/ CheckFs \/ Mounted
  BY <1>3, BeginDoes, MountVolumeDoes, CheckFsDoes, MountedDoes
<1>4. CASE DirFind \/ DirRead \/ DirChain
  BY <1>4, DirFindDoes, DirReadDoes, DirChainDoes
<1>5. CASE FRead \/ Reading \/ ReadChain \/ ReadSector
  BY <1>5, FReadDoes, ReadingDoes, ReadChainDoes, ReadSectorDoes
<1>6. CASE FLseek \/ SeekChain \/ SeekEnd \/ FClose
  BY <1>6, FLseekDoes, SeekChainDoes, SeekEndDoes, FCloseDoes
<1> QED
  BY <1>1, <1>2, <1>3, <1>4, <1>5, <1>6 DEF Next, Step

\* What the calls of f_mount, f_open, f_read, f_lseek, f_close, cd and ls answer is what the
\* card holds: Fat implements FileStore, whatever the cards, the calls and the failing reads.
\* World says no more than that None is not a record, and that entries have their fields.
THEOREM ProgramsSeeFiles == World => (Spec => StoreSpec)
<1> SUFFICES ASSUME World PROVE Spec => StoreSpec
  OBVIOUS
<1>1. Init => Inv /\ Store!Init
  BY InitDoes
<1>2. Inv /\ [Next]_vars => Inv' /\ [Store!Next \/ Store!SeekAstray]_(Store!vars)
  BY NextDoesAll DEF Does, StoreStep
<1> QED
  BY <1>1, <1>2, PTL DEF Spec, StoreSpec, Store!LooseSpec

================================================================================
