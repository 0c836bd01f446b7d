----------------------------------- MODULE MCFat ---------------------------------
(***************************************************************************)
(* Two cards for Fat.  "a" is FAT16 behind a partition table, two sectors to *)
(* a cluster: its root is a table filled to the last entry, a long name goes *)
(* across two sectors of it, another one across two sectors of the directory *)
(* Long, where the long name of a file that is gone precedes the entry of    *)
(* another file; the clusters of A are not next to each other.  A second     *)
(* partition has another A, and a damaged directory.  "b" is FAT32,          *)
(* one sector to a cluster; its directory Long leads back into itself, and   *)
(* the chain of A ends before its size.                                      *)
(***************************************************************************)
EXTENDS Fat, TLC

sfn(n, d, c, s) == [t |-> "sfn", short |-> n, dir |-> d, clust |-> c, size |-> s]
lfn(n, s, o, l) == [t |-> "lfn", name |-> n, sum |-> s, ord |-> o, last |-> l]
free == [t |-> "free"]
end  == [t |-> "end"]

CardA ==
    0  :> [boot |-> "mbr", part |-> <<3, 4, 0, 21>>] @@
    3  :> [boot |-> "other"] @@
    4  :> [boot |-> "fat", csize |-> 2, n_fatent |-> 8, n_rootdir |-> 4, fat32 |-> FALSE,
           fatbase |-> 1, dirbase |-> 3, database |-> 5] @@
    5  :> <<99, 99, 5, 4>> @@
    6  :> <<99, 99, 99, 99>> @@
    7  :> <<sfn("A", FALSE, 2, 6), lfn("Long dir", "LONG~1", 1, TRUE)>> @@
    8  :> <<sfn("LONG~1", TRUE, 3, 0), sfn("C", FALSE, 7, 1)>> @@
    9  :> <<18, 19>> @@ 10 :> <<20, 21>> @@
    11 :> <<sfn(".", TRUE, 3, 0), sfn("..", TRUE, 0, 0)>> @@
    12 :> <<lfn("second file", "OLD~1", 1, TRUE), sfn("B", FALSE, 0, 0)>> @@
    13 :> <<lfn("second file", "SECO~1", 2, TRUE), lfn("second file", "SECO~1", 1, FALSE)>> @@
    14 :> <<sfn("SECO~1", FALSE, 6, 2), end>> @@
    15 :> <<30, 31>> @@ 16 :> <<32, 33>> @@
    17 :> <<34, 35>> @@ 18 :> <<36, 37>> @@
    19 :> <<38, 39>> @@ 20 :> <<40, 41>> @@
    21 :> [boot |-> "fat", csize |-> 1, n_fatent |-> 4, n_rootdir |-> 4, fat32 |-> FALSE,
           fatbase |-> 1, dirbase |-> 2, database |-> 4] @@
    22 :> <<99, 99, 1, 99>> @@
    23 :> <<sfn("A", FALSE, 3, 1), lfn("Long dir", "LONG~1", 1, TRUE)>> @@
    24 :> <<sfn("LONG~1", TRUE, 2, 0), end>> @@
    25 :> <<sfn(".", TRUE, 2, 0), free>> @@ 26 :> <<44, 45>>

CardB ==
    0 :> [boot |-> "fat", csize |-> 1, n_fatent |-> 7, n_rootdir |-> 0, fat32 |-> TRUE,
          fatbase |-> 1, dirbase |-> 2, database |-> 3] @@
    1 :> <<99, 99, 4, 99>> @@
    2 :> <<99, 5, 99, 99>> @@
    3 :> <<lfn("Long dir", "LONG~1", 1, TRUE), sfn("LONG~1", TRUE, 5, 0)>> @@
    4 :> <<42, 43>> @@
    5 :> <<[t |-> "label"], sfn("A", FALSE, 3, 3)>> @@
    6 :> <<sfn("..", TRUE, 0, 0), free>>

MCImage == "a" :> CardA @@ "b" :> CardB
MCCards == {"a", "b"}
MCShort == {"A", "B", "C", "LONG~1", "SECO~1", ".", ".."}

\* One file is read and searched, across its clusters; the window goes to the
\* directories in between.
MCCalls ==
    {[op |-> "mount"], [op |-> "open", path |-> <<"/", "A">>],
     [op |-> "open", path |-> <<"Long dir", "second file">>],
     [op |-> "cd", path |-> <<"Long dir">>], [op |-> "cd", path |-> <<"..">>],
     [op |-> "ls", path |-> <<>>], [op |-> "read", h |-> 3, n |-> 3],
     [op |-> "seek", h |-> 3, whence |-> "CUR", off |-> -2],
     [op |-> "seek", h |-> 3, whence |-> "SET", off |-> -1],
     [op |-> "close", h |-> 3]}
MCHandle == {3}
================================================================================
