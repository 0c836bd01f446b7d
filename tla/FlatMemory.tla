------------------------------- MODULE FlatMemory ------------------------------
(***************************************************************************)
(* What the memory of the core promises to the pipeline: one memory, a data *)
(* port and an instruction port, each with at most one request pending.     *)
(* There is no cache, no arbitration and no timing here.  A store may reach *)
(* the memory at any moment between its request and its completion, and has *)
(* reached it when it completes; a load and a fetch return the contents of  *)
(* the memory at the moment they complete.                                  *)
(***************************************************************************)
CONSTANTS
    Addr, Value,
    None         \* no request; also the port output before the first answer

VARIABLES
    mem,         \* [Addr -> Value]
    dreq,        \* None, or the data request [addr, rw, data]
    dout,        \* what the last load returned
    ireq,        \* None, or the address being fetched
    iout         \* what the last fetch returned

flatVars == <<mem, dreq, dout, ireq, iout>>

Request == [addr : Addr, rw : BOOLEAN, data : Value]

Init ==
    /\ mem \in [Addr -> Value]
    /\ dreq = None /\ dout = None
    /\ ireq = None /\ iout = None

Stored == [mem EXCEPT ![dreq.addr] = dreq.data]

DataRequest ==
    /\ dreq = None
    /\ dreq' \in Request
    /\ UNCHANGED <<mem, dout>>

DataPerform ==
    /\ dreq # None /\ dreq.rw
    /\ mem' = Stored
    /\ UNCHANGED <<dreq, dout>>

DataComplete ==
    /\ dreq # None
    /\ dreq' = None
    /\ mem' = IF dreq.rw THEN Stored ELSE mem
    /\ dout' = IF dreq.rw THEN dout ELSE mem[dreq.addr]

DataStep ==
    DataRequest \/ DataPerform \/ DataComplete \/ UNCHANGED <<mem, dreq, dout>>

InstRequest ==
    /\ ireq = None
    /\ ireq' \in Addr
    /\ UNCHANGED iout

\* The next fetch may be accepted in the clock that answers the last one.
InstComplete ==
    /\ ireq # None
    /\ ireq' \in Addr \cup {None}
    /\ iout' = mem[ireq]

InstStep == InstRequest \/ InstComplete \/ UNCHANGED <<ireq, iout>>

Next == DataStep /\ InstStep

Spec == Init /\ [][Next]_flatVars
================================================================================
