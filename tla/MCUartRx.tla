--------------------------------- MODULE MCUartRx --------------------------------
(***************************************************************************)
(* The receiver at five clocks a bit, with bytes of seven significant bits,  *)
(* and with all kinds of bytes.                                              *)
(***************************************************************************)
EXTENDS UartRx

Number(b) == [i \in 0 .. 7 |-> (b \div 2^i) % 2]

MCSevenBits == {Number(b) : b \in {5 * i : i \in 0 .. 25}}

MCEightBits == {Number(b) : b \in {38, 166}}
================================================================================
