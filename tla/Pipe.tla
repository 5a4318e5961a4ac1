-------------------------------- MODULE Pipe --------------------------------
(***************************************************************************)
(* One direction of a connection: the units written at one end come out at *)
(* the other in order and once, and the end of input is seen only after    *)
(* all of them, unless the writing end broke off.                          *)
(***************************************************************************)
EXTENDS Integers, Sequences

VARIABLES
    sent,    \* units written: 1, 2, ..., sent
    broken,  \* whether the writing end broke off
    got,     \* the units that have come out
    eof      \* whether the end has been seen

pvars == <<sent, broken, got, eof>>

Units(k) == [i \in 1..k |-> i]

PInit == sent = 0 /\ ~broken /\ got = <<>> /\ ~eof

PWrite == sent' = sent + 1 /\ UNCHANGED <<broken, got, eof>>

PBreak == broken' = TRUE /\ UNCHANGED <<sent, got, eof>>

PRead ==
    /\ ~eof
    /\ \E k \in (Len(got) + 1)..sent : got' = Units(k)
    /\ UNCHANGED <<sent, broken, eof>>

PEnd ==
    /\ ~eof
    /\ broken \/ got = Units(sent)
    /\ eof' = TRUE
    /\ UNCHANGED <<sent, broken, got>>

PNext == PWrite \/ PBreak \/ PRead \/ PEnd

PSpec == PInit /\ [][PNext]_pvars
=============================================================================
