-------------------------------- MODULE MCSdDisk -------------------------------
EXTENDS SdDisk

MCSector == 0 .. 2

\* Sectors that look like answers, tokens and silence.
MCImages ==
    {<<<<0, 254>>, <<254, 0>>, <<255, 5>>>>, <<<<7, 7>>, <<7, 0>>, <<0, 7>>>>}

Zeroed(image) == [s \in MCSector |-> image[s + 1]]

MCDisks == {Zeroed(image) : image \in MCImages}
MCData == {<<5, 254>>}
MCKinds == {"none", "v1", "v2", "hc"}
================================================================================
