-------------------------------- MODULE MCYmodem -------------------------------
EXTENDS Ymodem

A(cut, length, elf, announced, batch) ==
    [cut |-> cut, length |-> length, elf |-> elf, announced |-> announced, batch |-> batch]

MCFiles ==
    {A(<<0, 1, 2, 3, 4, 5, 6>>, 6, TRUE, FALSE, "one"), A(<<0, 2, 4>>, 3, FALSE, TRUE, "one"),
     A(<<0, 2, 4, 5>>, 5, FALSE, FALSE, "one"), A(<<0, 2, 4, 6>>, 6, FALSE, TRUE, "one"),
     A(<<0, 1>>, 1, FALSE, TRUE, "more"), A(<<0>>, 0, FALSE, FALSE, "none")}

MCForces == {-1, DATA}
================================================================================
