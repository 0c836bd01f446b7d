----------------------------------- MODULE Fat ---------------------------------
(***************************************************************************)
(* The files of the boot ROM program: the read-only build of FatFs (ff.c)    *)
(* and the file descriptors that stdfn.c and the shell's cd and ls put over  *)
(* it.  A call goes through its steps; a step reads at most one run of       *)
(* sectors.  The FAT and the directories are read through one window, which  *)
(* they share, the bytes of a file through a buffer of its own or straight   *)
(* into the caller's memory.                                                 *)
(*                                                                           *)
(* The drive (external here: SdDisk is its driver) may fail any read.  The   *)
(* card may be changed between two calls; the new one answers no read before *)
(* it has been initialised.  FAT12, f_getcwd, character sets and the bounds  *)
(* of names are not modelled, and files are opened for reading.              *)
(***************************************************************************)
EXTENDS FatVolume

CONSTANTS
    Cards, Image,       \* the cards there are, and the sectors of each
    Handle,             \* the file descriptors: 3 .. 3 + FD_MAX - 1
    Calls,              \* what programs and the user ask for
    Wide,               \* an unsigned integer: 2^32
    MaxMounts,          \* bound: mounts, so that the 16 bit Fsid does not wrap
    MaxSwaps,           \* bound: changes of the card
    MaxFaults           \* bound: reads that fail on a card that is there

ASSUME FatAssumption ==
    /\ Handle \subseteq Nat /\ IsFiniteSet(Handle)
    /\ Wide \in Nat \ {0} /\ {MaxMounts, MaxSwaps, MaxFaults} \subseteq Nat

\* What mount_volume accepts, and that the entries of a FAT and of a partition table are
\* numbers.
ASSUME VolumeAssumption ==
    \A c \in Cards \ {None} :
        /\ Image[c][0].boot = "mbr" => Image[c][0].part \in Seq(Nat)
        /\ \A v \in Volumes(Image[c]) :
              /\ {v.csize, v.database} \subseteq Nat \ {0}
              /\ {v.n_fatent, v.n_rootdir, v.fatbase, v.dirbase} \subseteq Nat
              /\ v.n_rootdir % SZ = 0 /\ (v.fat32 <=> v.n_rootdir = 0)
              /\ \A k \in 2 .. v.n_fatent - 1 : FatEntry(Image[c][FatSector(v, k)], k) \in Nat

ASSUME CallAssumption ==
    /\ None \notin Calls
    /\ \A c \in Calls :
          /\ c.op \in {"mount", "open", "cd", "ls", "read", "seek", "close"}
          /\ c.op \in {"open", "cd", "ls"} => c.path \in Seq({c.path[i] : i \in DOMAIN c.path})
          /\ c.op \in {"read", "seek", "close"} => c.h \in Handle
          /\ c.op = "read" => c.n \in Nat
          /\ c.op = "seek" => c.off \in Int /\ c.whence \in {"SET", "CUR", "END"}

VARIABLES
    card, up,           \* the card in the drive, and whether it has been initialised
    drive_status,       \* "ready" or "STA_NOINIT"
    fs, Fsid,           \* sd_fs, and the count of mounts
    sd_mounted,         \* what the shell goes by: its last mount was answered FR_OK
    fd_used, fd_fil,
    call, at,           \* the call under way, and its next step
    dj,                 \* the directory object of the call
    parts,              \* of the partition table, what a mount has still to try
    btr, out,           \* what is left to read or to seek, what has been read
    ret,
    \* history
    vol,                \* the card whose volume was mounted last
    of, from,           \* what was opened, from where; the position when the call began
    trouble, swaps, faults

driveVars == <<card, sd_mounted, up, drive_status, faults, trouble>>
fileVars  == <<fd_used, fd_fil, of>>
workVars  == <<dj, parts, btr, out>>
vars == <<driveVars, fs, Fsid, fileVars, call, at, workVars, ret, vol, from, swaps>>

Least(m, n) == IF m < n THEN m ELSE n

NoSector == -1
Junk == None            \* a buffer that a failed read has spoilt

NoVolume == [type |-> FALSE, id |-> 0, g |-> None, cdir |-> 0, winsect |-> NoSector, win |-> Junk]
NoFile   == [fs |-> FALSE, id |-> 0, sclust |-> 0, objsize |-> 0, err |-> FALSE,
             fptr |-> 0, clust |-> 0, sect |-> 0, buf |-> Junk]
NoDir    == [sclust |-> 0, clust |-> 0, sect |-> 0, dptr |-> 0, ord |-> -1,
             sum |-> None, name |-> None, path |-> <<>>]

g   == fs.g
fil == fd_fil[call.h]

--------------------------------------------------------------------------------
(* The drive. *)

\* What a read may deliver: the data, or Junk.
Delivers(data) == (IF up THEN {data} ELSE {}) \cup (IF ~up \/ faults < MaxFaults THEN {Junk} ELSE {})

\* disk_read of one sector, and of n.
disk_read(s)      == Delivers(Image[card][s])
disk_reads(s, n)  == Delivers([k \in 1 .. n |-> Image[card][s + k - 1]])

\* What comes of it: x is what was read.
Noted(x) ==
    /\ trouble' = (trouble \/ x = Junk)
    /\ faults' = IF x = Junk /\ up THEN faults + 1 ELSE faults
    /\ UNCHANGED <<card, sd_mounted, up, drive_status>>

\* Mutant: a failed read leaves the number of the sector that was in the window.
move_window_keeps(f, s) ==
    IF s = f.winsect THEN {f}
    ELSE {IF x = Junk THEN [f EXCEPT !.win = Junk]
          ELSE [f EXCEPT !.winsect = s, !.win = x] : x \in disk_read(s)}

\* move_window: the file system with sector s in its window, or with none.
move_window(f, s) ==
    IF s = f.winsect THEN {f}
    ELSE {IF x = Junk THEN [f EXCEPT !.winsect = NoSector, !.win = Junk]
          ELSE [f EXCEPT !.winsect = s, !.win = x] : x \in disk_read(s)}

Moved(f) == fs' = f /\ Noted(f.win) /\ UNCHANGED Fsid

\* get_fat: what follows cluster c, as the window f shows it; 1 is an internal error.
get_fat(f, c) == IF clst2sect(f.g, c) = 0 THEN 1 ELSE FatEntry(f.win, c)

--------------------------------------------------------------------------------
(* How a call ends, and how it goes on. *)

Goes(step) == at' = step /\ UNCHANGED <<call, ret, from>>

Says(res, o) ==
    /\ ret' = [res |-> res, out |-> o] /\ at' = "said"
    /\ dj' = NoDir /\ parts' = <<>> /\ btr' = 0 /\ out' = <<>>
    /\ UNCHANGED <<call, from>>

Fails(res) == Says(res, None)

\* ABORT: the file remembers its error for good.
Aborts(f, res) == fd_fil' = [fd_fil EXCEPT ![call.h] = [f EXCEPT !.err = TRUE]] /\ Fails(res)

FilIs(f) == fd_fil' = [fd_fil EXCEPT ![call.h] = f]

\* Mutant: the count of mounts is not compared.
Valid_any(f) == f.fs /\ fs.type /\ drive_status = "ready"

\* validate
Valid(f) == f.fs /\ fs.type /\ f.id = fs.id /\ drive_status = "ready"

--------------------------------------------------------------------------------
(* A call begins, and returns; between two calls the card may be changed. *)

Swap ==
    /\ at = "idle" /\ swaps < MaxSwaps /\ swaps' = swaps + 1
    /\ card' \in Cards \ {card} /\ up' = FALSE
    /\ UNCHANGED <<sd_mounted, drive_status, faults, trouble, fs, Fsid, fileVars, call, at, workVars, ret, vol, from>>

OnHandle == {"read", "seek", "close"}

\* f_mount unregisters and registers the one volume; every other call leaves it alone.
Ask ==
    /\ at = "idle" /\ at' = "begin"
    /\ call' \in Calls
    /\ IF call'.op = "mount" THEN Fsid < MaxMounts /\ fs' = [fs EXCEPT !.type = FALSE]
                             ELSE UNCHANGED fs
    /\ from' = IF call'.op \in OnHandle THEN fd_fil[call'.h].fptr ELSE 0
    /\ UNCHANGED <<driveVars, Fsid, fileVars, workVars, ret, vol, swaps>>

\* sd_mount remembers how its mount ended.
Return ==
    /\ at = "said" /\ at' = "idle" /\ ret' = None /\ call' = None /\ from' = 0 /\ trouble' = FALSE
    /\ sd_mounted' = IF call.op = "mount" THEN ret.res = "OK" ELSE sd_mounted
    /\ UNCHANGED <<card, up, drive_status, faults, fs, Fsid, fileVars, workVars, vol, swaps>>

\* _read, _lseek and _close know a descriptor that is in use (fd_to_fil); _open wants
\* one that is free; the shell's ls and cd want a mount that has succeeded (sd_ready).
Begin ==
    /\ at = "begin"
    /\ \/ call.op \in OnHandle /\ ~fd_used[call.h] /\ Fails("EBADF")
       \/ call.op \in OnHandle /\ fd_used[call.h] /\ Goes(call.op) /\ UNCHANGED workVars
       \/ call.op = "open" /\ (\A h \in Handle : fd_used[h]) /\ Fails("EMFILE")
       \/ call.op \in {"ls", "cd"} /\ ~sd_mounted /\ Fails("No SD card mounted")
       \/ /\ call.op \notin OnHandle /\ (call.op = "open" => \E h \in Handle : ~fd_used[h])
          /\ call.op \in {"ls", "cd"} => sd_mounted
          /\ Goes("volume") /\ UNCHANGED workVars
    /\ UNCHANGED <<driveVars, fs, Fsid, fileVars, vol, swaps>>

--------------------------------------------------------------------------------
(* mount_volume *)

\* A volume that is mounted stays so while the drive is ready; otherwise the drive is
\* initialised, and the search for a volume begins at sector 0.
MountVolume ==
    /\ at = "volume"
    /\ \/ /\ fs.type /\ drive_status = "ready"
          /\ Goes("mounted") /\ UNCHANGED <<driveVars, fs, workVars>>
       \/ /\ ~(fs.type /\ drive_status = "ready")
          /\ fs' = [fs EXCEPT !.type = FALSE]
          /\ \/ /\ card # None /\ up' = TRUE /\ drive_status' = "ready"
                /\ Goes("check") /\ parts' = <<0>>
                /\ UNCHANGED <<faults, trouble, dj, btr, out>>
             \/ /\ card = None \/ faults < MaxFaults
                /\ up' = FALSE /\ drive_status' = "STA_NOINIT"
                /\ trouble' = TRUE /\ faults' = IF card = None THEN faults ELSE faults + 1
                /\ Fails("FR_NOT_READY")
          /\ UNCHANGED <<card, sd_mounted>>
    /\ UNCHANGED <<Fsid, fileVars, vol, swaps>>

\* The rest of a partition table, from the first entry that is not empty.
Skip(table) ==
    LET i == CHOOSE i \in 1 .. Len(table) + 1 :
                /\ i \in DOMAIN table => table[i] # 0
                /\ \A j \in 1 .. i - 1 : table[j] = 0
    IN  SubSeq(table, i, Len(table))

\* find_volume tries the next partition.  The entry seen last decides, an empty one too.
NextPart(res) ==
    LET rest == Skip(Tail(parts))
    IN  IF rest = <<>> THEN Fails(IF Len(parts) > 1 THEN "FR_NO_FILESYSTEM" ELSE res)
        ELSE Goes("check") /\ parts' = rest /\ UNCHANGED <<dj, btr, out>>

\* What check_fs makes of sector 0, or of the first of a partition; f has it in its window.
NotRead(f) ==
    /\ f.win = Junk
    /\ IF Head(parts) = 0 THEN Fails("FR_DISK_ERR") ELSE NextPart("FR_DISK_ERR")

Partitioned(f) ==
    /\ f.win # Junk /\ f.win.boot = "mbr" /\ Head(parts) = 0
    /\ IF Skip(f.win.part) = <<>> THEN Fails("FR_NO_FILESYSTEM")
       ELSE Goes("check") /\ parts' = Skip(f.win.part) /\ UNCHANGED <<dj, btr, out>>

NoFat(f) ==
    /\ f.win # Junk /\ f.win.boot # "fat" /\ (f.win.boot = "mbr" => Head(parts) # 0)
    /\ IF f.win.boot = "odd" THEN Fails("FR_NO_FILESYSTEM") ELSE NextPart("FR_NO_FILESYSTEM")

\* check_fs, and the rest of mount_volume when it finds a FAT volume.
CheckFs ==
    /\ at = "check"
    /\ \E f \in move_window([fs EXCEPT !.winsect = NoSector], Head(parts)) :
          /\ Noted(f.win)
          /\ \/ (NotRead(f) \/ Partitioned(f) \/ NoFat(f)) /\ fs' = f /\ UNCHANGED <<Fsid, vol>>
             \/ /\ f.win # Junk /\ f.win.boot = "fat"
                /\ Fsid' = Fsid + 1 /\ vol' = card
                /\ fs' = [f EXCEPT !.type = TRUE, !.id = Fsid + 1, !.cdir = 0,
                                   !.g = Bare(Image[card], Head(parts))]
                /\ Goes("mounted") /\ parts' = <<>> /\ UNCHANGED <<dj, btr, out>>
    /\ UNCHANGED <<fileVars, swaps>>

--------------------------------------------------------------------------------
(* Directories. *)

\* dir_sdi(0): the directory object d at the top of directory c.
Sdi(d, c) == [d EXCEPT !.sclust = c, !.clust = TopCluster(g, c), !.sect = TopSector(g, c),
                       !.dptr = 0, !.ord = -1, !.sum = None, !.name = None]

\* The call goes on in directory c: to find the next name of its path, or to list it.
Into(d, c, step) ==
    IF TopSector(g, c) = 0 THEN Fails("FR_INT_ERR")
    ELSE Goes(step) /\ dj' = Sdi(d, c) /\ UNCHANGED <<parts, btr, out>>

\* The end of f_chdir and of f_opendir for a directory.
Cd(f, c) == fs' = [f EXCEPT !.cdir = c] /\ Says("OK", 0)

\* Where follow_path begins, and the names it has to follow.
Start    == IF Absolute(call.path) THEN 0 ELSE fs.cdir
Segments == IF Absolute(call.path) THEN Tail(call.path) ELSE call.path

\* follow_path begins; without a name it ends in the directory where it begins.
Mounted ==
    /\ at = "mounted"
    /\ \/ call.op = "mount" /\ Says("OK", 0) /\ UNCHANGED fs
       \/ /\ call.op # "mount" /\ Segments # <<>>
          /\ Into([NoDir EXCEPT !.path = Segments], Start, "find") /\ UNCHANGED fs
       \/ /\ call.op \in {"open", "cd"} /\ Segments = <<>>
          /\ \/ TopSector(g, Start) = 0 /\ Fails("FR_INT_ERR") /\ UNCHANGED fs
             \/ TopSector(g, Start) # 0 /\ call.op = "open" /\ Fails("FR_INVALID_NAME") /\ UNCHANGED fs
             \/ TopSector(g, Start) # 0 /\ call.op = "cd" /\ Cd(fs, Start)
       \/ call.op = "ls" /\ Segments = <<>> /\ Into(NoDir, Start, "list") /\ UNCHANGED fs
    /\ UNCHANGED <<driveVars, Fsid, fileVars, vol, swaps>>

\* The end of f_open: the file object is filled in from the entry e, but for the
\* cluster and the buffer that the file before has left.
Opened(e) ==
    LET h == CHOOSE i \in Handle : ~fd_used[i] /\ \A k \in Handle : k < i => fd_used[k]
    IN  /\ fd_fil' = [fd_fil EXCEPT ![h] =
              [fs |-> TRUE, id |-> fs.id, sclust |-> e.clust, objsize |-> e.size, err |-> FALSE,
               fptr |-> 0, clust |-> @.clust, sect |-> 0, buf |-> @.buf]]
        /\ fd_used' = [fd_used EXCEPT ![h] = TRUE]
        /\ of' = [of EXCEPT ![h] = [dir |-> fs.cdir, path |-> call.path]]
        /\ Says("OK", h)

\* The name is found: the call goes on in that directory, or ends.
Deeper(f, e) ==
    /\ Len(dj.path) > 1 /\ fs' = f /\ UNCHANGED fileVars
    /\ IF e.dir THEN Into([dj EXCEPT !.path = Tail(@)], e.clust, "find") ELSE Fails("FR_NO_PATH")

Found(f, e) ==
    \/ Deeper(f, e)
    \/ /\ Len(dj.path) = 1
       /\ \/ call.op = "open" /\ e.dir /\ Fails("FR_NO_FILE") /\ fs' = f /\ UNCHANGED fileVars
          \/ call.op = "open" /\ ~e.dir /\ Opened(e) /\ fs' = f
          \/ call.op = "cd" /\ e.dir /\ Cd(f, e.clust) /\ UNCHANGED fileVars
          \/ call.op = "ls" /\ e.dir /\ Into(NoDir, e.clust, "list") /\ fs' = f /\ UNCHANGED fileVars
          \/ call.op # "open" /\ ~e.dir /\ Fails("FR_NO_PATH") /\ fs' = f /\ UNCHANGED fileVars

\* The name is not there.  A dot name that is not there leaves the path where it is.
NotFound(f) ==
    /\ UNCHANGED fileVars
    /\ \/ Head(dj.path) \notin Dots /\ Fails(IF Len(dj.path) > 1 THEN "FR_NO_PATH" ELSE "FR_NO_FILE") /\ fs' = f
       \/ /\ Head(dj.path) \in Dots /\ Len(dj.path) > 1
          /\ Into([dj EXCEPT !.path = Tail(@)], dj.sclust, "find") /\ fs' = f
       \/ /\ Head(dj.path) \in Dots /\ Len(dj.path) = 1
          /\ \/ call.op = "open" /\ Fails("FR_INVALID_NAME") /\ fs' = f
             \/ call.op = "cd" /\ Cd(f, dj.sclust)
             \/ call.op = "ls" /\ Into(NoDir, dj.sclust, "list") /\ fs' = f

\* The table ends: nothing was found, or everything has been listed.
TableEnds(f) ==
    IF at \in {"find", "find next"} THEN NotFound(f)
    ELSE Says("OK", out) /\ fs' = f /\ UNCHANGED fileVars

\* The window could not be filled.
Unread(f) == f.win = Junk /\ Fails("FR_DISK_ERR") /\ fs' = f /\ UNCHANGED fileVars

\* dir_next, behind the entry that d has seen.
DirNext(f, d, o) ==
    LET ofs == d.dptr + 1
        turn == ofs % SZ = 0
    IN  IF ofs >= MAX_DIR \/ (turn /\ d.clust = 0 /\ ofs >= g.n_rootdir)
        THEN IF at = "find" THEN NotFound(f)
             ELSE Says("OK", o) /\ fs' = f /\ UNCHANGED fileVars
        ELSE /\ fs' = f /\ out' = o /\ UNCHANGED <<fileVars, parts, btr>>
             /\ IF turn /\ d.clust # 0 /\ (ofs \div SZ) % g.csize = 0
                THEN Goes(IF at = "find" THEN "find next" ELSE "list next") /\ dj' = d
                ELSE /\ dj' = [d EXCEPT !.dptr = ofs, !.sect = IF turn THEN @ + 1 ELSE @]
                     /\ UNCHANGED <<at, call, ret, from>>

\* Mutant: the count of entries is not carried on, which ends a chain that has no end.
Stretch_uncounted(d, c) == [d EXCEPT !.clust = c, !.sect = clst2sect(g, c)]

\* The directory object goes on in the cluster c.
Stretch(d, c) == [d EXCEPT !.clust = c, !.sect = clst2sect(g, c), !.dptr = @ + 1]

\* dir_next at the end of a cluster: the FAT takes the place of the directory in the window.
DirChain ==
    /\ at \in {"find next", "list next"}
    /\ \E f \in move_window(fs, FatSector(g, dj.clust)) :
          LET c == get_fat(f, dj.clust)
          IN  /\ Noted(f.win)
              /\ \/ Unread(f)
                 \/ f.win # Junk /\ c <= 1 /\ Fails("FR_INT_ERR") /\ fs' = f /\ UNCHANGED fileVars
                 \/ f.win # Junk /\ c > 1 /\ c >= g.n_fatent /\ TableEnds(f)
                 \/ /\ f.win # Junk /\ c > 1 /\ c < g.n_fatent
                    /\ dj' = Stretch(dj, c)
                    /\ Goes(IF at = "find next" THEN "find" ELSE "list")
                    /\ fs' = f /\ UNCHANGED <<fileVars, parts, btr, out>>
    /\ UNCHANGED <<Fsid, vol, swaps>>

\* The sequence of long name entries goes on with e, or starts over; -1 is 0xFF.
Lfn(d, e, fits) ==
    LET s == IF e.last THEN [d EXCEPT !.ord = e.ord, !.sum = e.sum] ELSE d
    IN  [s EXCEPT !.ord = IF e.ord = s.ord /\ e.sum = s.sum /\ fits THEN s.ord - 1 ELSE -1,
                  !.name = e.name]

Reset(d) == [d EXCEPT !.ord = -1, !.name = None]

\* An entry is complete when the long name ahead of it is.
HasLong(d, e) == d.ord = 0 /\ d.sum = e.short

\* The entry that is looked at next.
entry(f) == f.win[(dj.dptr % SZ) + 1]

\* An entry of a long name is one of the name that is looked for.
cmp_lfn(e) == e.name = Head(dj.path)

\* dir_find compares the entry with the name.
Matches(e) == HasLong(dj, e) \/ (Head(dj.path) \in Short /\ e.short = Head(dj.path))

Compares(f, e) ==
    \/ e.t = "end" /\ NotFound(f)
    \/ e.t \in {"free", "label"} /\ DirNext(f, Reset(dj), out)
    \/ e.t = "lfn" /\ DirNext(f, Lfn(dj, e, cmp_lfn(e)), out)
    \/ e.t = "sfn" /\ Matches(e) /\ Found(f, e)
    \/ e.t = "sfn" /\ ~Matches(e) /\ DirNext(f, Reset(dj), out)

DirFind ==
    /\ at = "find"
    /\ \E f \in move_window(fs, dj.sect) :
          Noted(f.win) /\ (Unread(f) \/ (f.win # Junk /\ Compares(f, entry(f))))
    /\ UNCHANGED <<Fsid, vol, swaps>>

\* get_fileinfo: the name under which an entry is listed.
fname(e) == IF HasLong(dj, e) THEN dj.name ELSE e.short

\* ls_cmd lists what dir_read stops at.
Lists(f, e) ==
    \/ e.t = "end" /\ Says("OK", out) /\ fs' = f /\ UNCHANGED fileVars
    \/ e.t \in {"free", "label"} /\ DirNext(f, Reset(dj), out)
    \/ e.t = "lfn" /\ DirNext(f, Lfn(dj, e, TRUE), out)
    \/ e.t = "sfn" /\ e.short \in Dots /\ DirNext(f, Reset(dj), out)
    \/ /\ e.t = "sfn" /\ e.short \notin Dots
       /\ DirNext(f, Reset(dj), Append(out, fname(e)))

DirRead ==
    /\ at = "list"
    /\ \E f \in move_window(fs, dj.sect) :
          Noted(f.win) /\ (Unread(f) \/ (f.win # Junk /\ Lists(f, entry(f))))
    /\ UNCHANGED <<Fsid, vol, swaps>>

--------------------------------------------------------------------------------
(* f_read *)

\* The file f is at a cluster, a sector, a byte.
OnSector(f)  == f.fptr % SS = 0
InCluster(f) == (f.fptr \div SS) % g.csize

\* "n" bytes out of the buffer, from the position of the file.
Copied(f, n) == SubSeq(f.buf, (f.fptr % SS) + 1, (f.fptr % SS) + n)

\* The file f has given "bytes"; the loop goes on.
Given(f, bytes) ==
    /\ FilIs([f EXCEPT !.fptr = @ + Len(bytes)])
    /\ btr' = btr - Len(bytes) /\ out' = out \o bytes /\ Goes("reading")
    /\ UNCHANGED <<dj, parts>>

FRead ==
    /\ at = "read"
    /\ IF ~Valid(fil) \/ fil.err THEN Fails(IF Valid(fil) THEN "err" ELSE "FR_INVALID_OBJECT")
       ELSE btr' = Least(call.n, fil.objsize - fil.fptr) /\ Goes("reading") /\ UNCHANGED <<dj, parts, out>>
    /\ UNCHANGED <<driveVars, fs, Fsid, fileVars, vol, swaps>>

\* Until everything has been read: out of the buffer in the middle of a sector; at
\* its beginning the sector, at the beginning of a cluster the cluster is found first.
Reading ==
    /\ at = "reading"
    /\ \/ btr = 0 /\ Says("OK", out) /\ UNCHANGED fd_fil
       \/ btr > 0 /\ ~OnSector(fil) /\ Given(fil, Copied(fil, Least(SS - (fil.fptr % SS), btr)))
       \/ /\ btr > 0 /\ OnSector(fil) /\ InCluster(fil) = 0 /\ fil.fptr # 0
          /\ Goes("read next") /\ UNCHANGED <<fd_fil, workVars>>
       \/ /\ btr > 0 /\ OnSector(fil) /\ InCluster(fil) # 0
          /\ Goes("read sector") /\ UNCHANGED <<fd_fil, workVars>>
       \/ btr > 0 /\ fil.fptr = 0 /\ fil.sclust < 2 /\ Aborts(fil, "FR_INT_ERR")
       \/ /\ btr > 0 /\ fil.fptr = 0 /\ fil.sclust >= 2
          /\ FilIs([fil EXCEPT !.clust = fil.sclust]) /\ Goes("read sector") /\ UNCHANGED workVars
    /\ UNCHANGED <<driveVars, fs, Fsid, fd_used, of, vol, swaps>>

ReadChain ==
    /\ at = "read next"
    /\ \E f \in move_window(fs, FatSector(g, fil.clust)) :
          /\ Moved(f)
          /\ \/ f.win = Junk /\ Aborts(fil, "FR_DISK_ERR")
             \/ f.win # Junk /\ get_fat(f, fil.clust) < 2 /\ Aborts(fil, "FR_INT_ERR")
             \/ /\ f.win # Junk /\ get_fat(f, fil.clust) >= 2
                /\ FilIs([fil EXCEPT !.clust = get_fat(f, fil.clust)])
                /\ Goes("read sector") /\ UNCHANGED workVars
    /\ UNCHANGED <<fd_used, of, vol, swaps>>

\* The buffer takes a sector in.
Holding(f, s, data) == [f EXCEPT !.buf = data, !.sect = s]

\* A read spoils it: the number of the sector that was there stays.
Spoilt(f) == [f EXCEPT !.buf = Junk]

\* Whole sectors go straight to the caller, as far as the cluster holds them; of the
\* last one a part is taken out of the buffer, which is filled unless it holds it.
ReadSector ==
    LET first == clst2sect(g, fil.clust)
        sect  == first + InCluster(fil)
        cc    == Least(btr \div SS, g.csize - InCluster(fil))
    IN  /\ at = "read sector"
        /\ \/ first = 0 /\ Aborts(fil, "FR_INT_ERR") /\ UNCHANGED driveVars
           \/ /\ first # 0 /\ cc > 0
              /\ \E x \in disk_reads(sect, cc) :
                    /\ Noted(x)
                    /\ \/ x = Junk /\ Aborts(fil, "FR_DISK_ERR")
                       \/ /\ x # Junk
                          /\ Given(fil, [i \in 1 .. cc * SS |-> x[((i - 1) \div SS) + 1][((i - 1) % SS) + 1]])
           \/ first # 0 /\ cc = 0 /\ fil.sect = sect /\ Given(fil, Copied(fil, btr)) /\ UNCHANGED driveVars
           \/ /\ first # 0 /\ cc = 0 /\ fil.sect # sect
              /\ \E x \in disk_read(sect) :
                    /\ Noted(x)
                    /\ \/ x = Junk /\ Aborts(Spoilt(fil), "FR_DISK_ERR")
                       \/ x # Junk /\ LET f == Holding(fil, sect, x) IN Given(f, Copied(f, btr))
        /\ UNCHANGED <<fs, Fsid, fd_used, of, vol, swaps>>

--------------------------------------------------------------------------------
(* _lseek, f_lseek *)

bcs == g.csize * SS

\* Where _lseek goes: it adds to an unsigned position or size, and looks for a
\* negative sum afterwards.
Pos == CASE call.whence = "SET" -> call.off
         [] call.whence = "CUR" -> (fil.fptr + call.off) % Wide
         [] call.whence = "END" -> (fil.objsize + call.off) % Wide

\* The target is in the cluster of the file, or behind it.
Ahead(f, ofs) == f.fptr > 0 /\ (ofs - 1) \div bcs >= (f.fptr - 1) \div bcs

\* From the cluster the file is in, when that is not behind the target, or from its first.
FLseek ==
    LET ofs   == Least(Pos, fil.objsize)
        base  == IF Ahead(fil, ofs) THEN ((fil.fptr - 1) \div bcs) * bcs ELSE 0
        clst  == IF Ahead(fil, ofs) THEN fil.clust ELSE fil.sclust
        ok    == Pos >= 0 /\ Valid(fil) /\ ~fil.err
    IN  /\ at = "seek"
        /\ \/ Pos < 0 /\ Fails("EINVAL") /\ UNCHANGED fd_fil
           \/ Pos >= 0 /\ ~Valid(fil) /\ Fails("FR_INVALID_OBJECT") /\ UNCHANGED fd_fil
           \/ Pos >= 0 /\ Valid(fil) /\ fil.err /\ Fails("err") /\ UNCHANGED fd_fil
           \/ ok /\ ofs = 0 /\ FilIs([fil EXCEPT !.fptr = 0]) /\ Says("OK", 0)
           \/ ok /\ ofs > 0 /\ clst = 0 /\ FilIs([fil EXCEPT !.fptr = base, !.clust = clst]) /\ Says("OK", base)
           \/ /\ ok /\ ofs > 0 /\ clst # 0
              /\ FilIs([fil EXCEPT !.fptr = base, !.clust = clst])
              /\ btr' = ofs - base /\ Goes("seeking") /\ UNCHANGED <<dj, parts, out>>
        /\ UNCHANGED <<driveVars, fs, Fsid, fd_used, of, vol, swaps>>

\* One cluster further.
SeekChain ==
    /\ at = "seeking" /\ btr > bcs
    /\ \E f \in move_window(fs, FatSector(g, fil.clust)) :
          LET c == get_fat(f, fil.clust)
              s == [fil EXCEPT !.fptr = @ + bcs]
          IN  /\ Moved(f)
              /\ \/ f.win = Junk /\ Aborts(s, "FR_DISK_ERR")
                 \/ f.win # Junk /\ (c <= 1 \/ c >= g.n_fatent) /\ Aborts(s, "FR_INT_ERR")
                 \/ /\ f.win # Junk /\ c > 1 /\ c < g.n_fatent
                    /\ FilIs([s EXCEPT !.clust = c]) /\ btr' = btr - bcs
                    /\ UNCHANGED <<at, call, ret, from, dj, parts, out>>
    /\ UNCHANGED <<fd_used, of, vol, swaps>>

\* The last part of the way, and the buffer when it ends in the middle of a sector.
SeekEnd ==
    LET f == [fil EXCEPT !.fptr = @ + btr]
        first == clst2sect(g, fil.clust)
        nsect == first + (btr \div SS)
    IN  /\ at = "seeking" /\ btr <= bcs
        /\ \/ btr % SS # 0 /\ first = 0 /\ Aborts(f, "FR_INT_ERR") /\ UNCHANGED driveVars
           \/ /\ btr % SS # 0 => first # 0 /\ nsect = fil.sect
              /\ FilIs(f) /\ Says("OK", f.fptr) /\ UNCHANGED driveVars
           \/ /\ btr % SS # 0 /\ first # 0 /\ nsect # fil.sect
              /\ \E x \in disk_read(nsect) :
                    /\ Noted(x)
                    /\ \/ x = Junk /\ Aborts(Spoilt(f), "FR_DISK_ERR")
                       \/ x # Junk /\ FilIs(Holding(f, nsect, x)) /\ Says("OK", f.fptr)
        /\ UNCHANGED <<fs, Fsid, fd_used, of, vol, swaps>>

--------------------------------------------------------------------------------
\* _close: the descriptor is free again whatever f_close says.
FClose ==
    /\ at = "close"
    /\ fd_used' = [fd_used EXCEPT ![call.h] = FALSE]
    /\ of' = [of EXCEPT ![call.h] = None]
    /\ IF Valid(fil) THEN FilIs([fil EXCEPT !.fs = FALSE]) /\ Says("OK", 0)
                     ELSE UNCHANGED fd_fil /\ Fails("FR_INVALID_OBJECT")
    /\ UNCHANGED <<driveVars, fs, Fsid, vol, swaps>>

\* main has mounted, in vain if it found no card in the drive; by now there may be one.
Init ==
    /\ card \in Cards /\ up = FALSE /\ sd_mounted = FALSE /\ drive_status = "STA_NOINIT"
    /\ fs = NoVolume /\ Fsid = 0
    /\ fd_used = [h \in Handle |-> FALSE] /\ fd_fil = [h \in Handle |-> NoFile]
    /\ call = None /\ at = "idle" /\ dj = NoDir /\ parts = <<>> /\ btr = 0 /\ out = <<>>
    /\ ret = None /\ vol = None /\ from = 0 /\ of = [h \in Handle |-> None]
    /\ trouble = FALSE /\ swaps = 0 /\ faults = 0

Step ==
    \/ Begin \/ MountVolume \/ CheckFs \/ Mounted \/ DirFind \/ DirRead \/ DirChain
    \/ FRead \/ Reading \/ ReadChain \/ ReadSector
    \/ FLseek \/ SeekChain \/ SeekEnd \/ FClose \/ Return

Next == Swap \/ Ask \/ Step

Spec == Init /\ [][Next]_vars
FairSpec == Spec /\ WF_vars(Step)

--------------------------------------------------------------------------------
(* Properties. *)

\* A file delivers when its object is of the volume that is mounted and has met no error.
Live(h) == fd_used[h] /\ fd_fil[h].fs /\ ~fd_fil[h].err /\ fs.type /\ fd_fil[h].id = fs.id

\* The position a program knows: in a call, that with which the call began.
PosOf(h) == IF ret = None /\ call # None /\ call.op \in OnHandle /\ call.h = h THEN from ELSE fd_fil[h].fptr

Mapped ==
    [h \in Handle |-> IF ~fd_used[h] THEN None
                      ELSE IF Live(h) THEN [dir |-> of[h].dir, path |-> of[h].path, pos |-> PosOf(h)]
                      ELSE [dir |-> None, path |-> <<>>, pos |-> 0]]

Store == INSTANCE FileStore WITH
    vol <- IF fs.type THEN [card |-> vol, g |-> fs.g] ELSE None,
    cwd <- fs.cdir, open <- Mapped, told <- sd_mounted, drive <- card,
    Volumes <- LAMBDA c : {[card |-> c, g |-> v] : v \in Volumes(Image[c])},
    First <- LAMBDA c : IF VolumeOf(Image[c]) = None THEN None
                        ELSE [card |-> c, g |-> VolumeOf(Image[c])],
    File <- LAMBDA v, c, p : File(Image[v.card], v.g, c, p),
    Dir <- LAMBDA v, c, p : Dir(Image[v.card], v.g, c, p),
    Torn <- LAMBDA v, c, p : Torn(Image[v.card], v.g, c, p),
    Listing <- LAMBDA v, c : Listing(Image[v.card], v.g, c)

\* Whatever windows, buffers and chains lie between, a program sees files: a path
\* opens what it names on the mounted volume, a read delivers the next bytes of that
\* file or says why not, and no handle survives a new mount or an error.  Only a seek
\* beyond the start may go astray.
StoreSpec == Store!LooseSpec

\* A seek to a place before the start of the file is refused, as _lseek has it:
\* "if(pos < 0) return -EINVAL".
SeeksRefused == Store!Spec

\* A sector read before the card or the volume was changed is never taken for one of
\* the volume that is mounted: neither in the window, nor in the buffer of a file that
\* delivers.
BuffersTrue ==
    fs.type =>
        /\ fs.winsect # NoSector => fs.win = Image[vol][fs.winsect]
        /\ \A h \in Handle : Live(h) /\ fd_fil[h].sect # 0 => fd_fil[h].buf = Image[vol][fd_fil[h].sect]

\* Every call returns: a chain of clusters that leads back into itself holds up
\* neither the search of a directory nor a read or a seek.
Answered == (at # "idle") ~> (at = "idle")
================================================================================
