------------------------------- MODULE FatVolume -------------------------------
(***************************************************************************)
(* What is on a card, and what it means: the layout that ff.c reads, and the *)
(* files and directories it stands for, defined without the steps, windows   *)
(* and buffers by which ff.c finds them.                                     *)
(*                                                                           *)
(* A card maps sectors to what they hold: a boot record, a partition table,  *)
(* entries of the FAT, entries of a directory, or bytes of a file.  A name   *)
(* is a value; the checksum of a short name is the short name itself.        *)
(***************************************************************************)
EXTENDS Integers, Sequences, FiniteSets

CONSTANTS
    SS,                 \* bytes of a sector: 512
    SZ,                 \* entries of a directory in a sector: 16
    FE,                 \* entries of the FAT in a sector: 256 or 128
    MAX_DIR,            \* entries of the longest directory: 65536
    Short,              \* the names that fit 8.3, in that form
    None                \* no sector, no volume, no file, no directory, no long name

ASSUME FatVolumeAssumption == {SS, SZ, FE, MAX_DIR} \subseteq Nat \ {0}

--------------------------------------------------------------------------------
(* The sectors of a volume g, as its boot record says. *)

\* The first sector of a cluster; 0 when there is no such cluster.
clst2sect(g, c) == IF c - 2 \in 0 .. g.n_fatent - 3 THEN g.database + g.csize * (c - 2) ELSE 0

FatSector(g, c) == g.fatbase + (c \div FE)
FatEntry(win, c) == win[(c % FE) + 1]

\* A directory begins at its cluster; 0 is the root, which on FAT32 is a chain
\* as well and on FAT16 a table of its own.
TopCluster(g, c) == IF c = 0 /\ g.fat32 THEN g.dirbase ELSE c
TopSector(g, c)  == IF TopCluster(g, c) = 0 THEN g.dirbase ELSE clst2sect(g, TopCluster(g, c))

--------------------------------------------------------------------------------
(* What they mean. *)

\* The volume that begins at sector b of a card.
Bare(card, b) ==
    LET g == card[b]
    IN  [csize |-> g.csize, n_fatent |-> g.n_fatent, n_rootdir |-> g.n_rootdir,
         fat32 |-> g.fat32, fatbase |-> b + g.fatbase, database |-> b + g.database,
         dirbase |-> IF g.fat32 THEN g.dirbase ELSE b + g.dirbase]

\* The boot records of a card: at its start, or where its partitions begin.  A record
\* that is "odd" looks like one and does not add up.
Records(card) ==
    {b \in {0} \cup (IF card[0].boot = "mbr" THEN {card[0].part[i] : i \in DOMAIN card[0].part} ELSE {}) :
        card[b].boot \in {"fat", "odd"}}

Volumes(card) == {Bare(card, b) : b \in {r \in Records(card) : card[r].boot = "fat"}}

\* The volume of a card, or None: that of its first boot record.
VolumeOf(card) ==
    LET first == IF 0 \in Records(card) THEN 0
                 ELSE card[0].part[CHOOSE i \in DOMAIN card[0].part :
                         /\ card[0].part[i] \in Records(card)
                         /\ \A j \in 1 .. i - 1 : card[0].part[j] \notin Records(card)]
    IN  IF Records(card) = {} \/ card[first].boot = "odd" THEN None ELSE Bare(card, first)

\* What the FAT says follows cluster c; 0 when there is no such cluster.
After(card, g, c) == IF clst2sect(g, c) = 0 THEN 0 ELSE FatEntry(card[FatSector(g, c)], c)

\* The chain of clusters that begins at c; behind its end are no clusters.
Chain(card, g, c) ==
    LET at[i \in Nat] == IF i = 0 THEN c ELSE After(card, g, at[i - 1])
    IN  at

\* The sector that holds unit p, "per" to a sector, of the chain at c; 0 behind its end.
SectorAt(card, g, c, p, per) ==
    LET s == p \div per
        k == Chain(card, g, c)[s \div g.csize]
    IN  IF clst2sect(g, k) = 0 THEN 0 ELSE clst2sect(g, k) + (s % g.csize)

\* A file is its bytes; the chain of a damaged one ends before its size.
FileAt(card, g, c, size) ==
    LET held == {p \in 0 .. size - 1 : SectorAt(card, g, c, p, SS) # 0}
    IN  [size |-> size,
         data |-> [p \in 1 .. Cardinality(held) |->
                      card[SectorAt(card, g, c, p - 1, SS)][((p - 1) % SS) + 1]]]

\* The sector and the entry at position p of a directory; sector 0 behind its end.
DirSector(card, g, c, p) ==
    IF TopCluster(g, c) # 0 THEN SectorAt(card, g, TopCluster(g, c), p, SZ)
    ELSE IF p < g.n_rootdir THEN g.dirbase + (p \div SZ) ELSE 0

DirEntry(card, g, c, p) == card[DirSector(card, g, c, p)][(p % SZ) + 1]

\* A directory is its entries, up to the mark of its end, or of its table.
Ends(card, g, c, p) ==
    p = MAX_DIR \/ DirSector(card, g, c, p) = 0 \/ DirEntry(card, g, c, p).t = "end"

DirLen(card, g, c) ==
    CHOOSE p \in 0 .. MAX_DIR : Ends(card, g, c, p) /\ \A q \in 0 .. p - 1 : ~Ends(card, g, c, q)

DirAt(card, g, c) == [p \in 1 .. DirLen(card, g, c) |-> DirEntry(card, g, c, p - 1)]

\* A directory is damaged when it begins nowhere, or its chain leads to no cluster before
\* it has ended.
Broken(card, g, c) ==
    \/ TopSector(g, c) = 0
    \/ /\ TopCluster(g, c) # 0 /\ DirLen(card, g, c) < MAX_DIR
       /\ DirSector(card, g, c, DirLen(card, g, c)) = 0
       /\ Chain(card, g, TopCluster(g, c))[DirLen(card, g, c) \div (SZ * g.csize)] <= 1

\* The n entries of a long name lie ahead of the short entry at i: the last part of the
\* name first, all of them with the checksum of that entry.
Parts(dir, i, n) ==
    \A o \in 1 .. n : /\ i - o \in DOMAIN dir /\ dir[i - o].t = "lfn" /\ dir[i - o].ord = o
                      /\ dir[i - o].sum = dir[i].short /\ (dir[i - o].last <=> o = n)

HasLongName(dir, i) == \E n \in 1 .. i - 1 : Parts(dir, i, n)
HasThisName(dir, i, name) ==
    \E n \in 1 .. i - 1 : Parts(dir, i, n) /\ \A o \in 1 .. n : dir[i - o].name = name

Items(dir) == {i \in DOMAIN dir : dir[i].t = "sfn"}

\* A name is that of an item: its long name, or its short one.
Names(dir, i, n) == HasThisName(dir, i, n) \/ (n \in Short /\ dir[i].short = n)

\* The item of a directory that has a name: the first one; None when there is none.
Item(dir, n) ==
    IF \E i \in Items(dir) : Names(dir, i, n)
    THEN dir[CHOOSE i \in Items(dir) : Names(dir, i, n) /\ \A j \in Items(dir) : Names(dir, j, n) => i <= j]
    ELSE None

Dots == {".", ".."}
Directory(c) == [dir |-> TRUE, clust |-> c, size |-> 0]

\* One name further: what n names in the directory d.
Enter(card, g, d, n) ==
    LET e == Item(DirAt(card, g, d.clust), n)
    IN  IF d = None \/ ~d.dir THEN None
        ELSE IF e = None /\ n \in Dots THEN d ELSE e

\* A path with a separator ahead, its first element, begins in the root.
Absolute(path) == path # <<>> /\ path[1] = "/"

\* What the first names of a path name, from the directory cwd; a path that is empty names
\* cwd itself, and so does ".." in the root.
Walk(card, g, cwd, path) ==
    LET at[i \in Nat] ==
            IF i = 0 THEN Directory(cwd)
            ELSE IF i = 1 /\ Absolute(path) THEN Directory(0)
            ELSE Enter(card, g, at[i - 1], path[i])
    IN  at

Resolve(card, g, cwd, path) == Walk(card, g, cwd, path)[Len(path)]

File(card, g, cwd, path) ==
    LET e == Resolve(card, g, cwd, path)
    IN  IF e = None \/ e.dir THEN None ELSE FileAt(card, g, e.clust, e.size)

Dir(card, g, cwd, path) ==
    LET e == Resolve(card, g, cwd, path)
    IN  IF e = None \/ ~e.dir THEN None ELSE [clust |-> e.clust]

\* A directory on the way of a path is damaged, or the one it leads to.
Torn(card, g, cwd, path) ==
    \E i \in (IF Absolute(path) THEN 1 ELSE 0) .. Len(path) :
        LET d == Walk(card, g, cwd, path)[i] IN d # None /\ d.dir /\ Broken(card, g, d.clust)

\* The names that "ls" prints: of a directory's items but its dots.
Listed(dir) ==
    LET names[i \in Nat] ==
            IF i = 0 THEN <<>>
            ELSE IF dir[i].t # "sfn" \/ dir[i].short \in Dots THEN names[i - 1]
            ELSE Append(names[i - 1], IF HasLongName(dir, i) THEN dir[i - 1].name ELSE dir[i].short)
    IN  names

Listing(card, g, c) == LET dir == DirAt(card, g, c) IN Listed(dir)[Len(dir)]
================================================================================
