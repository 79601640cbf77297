------------------------------- MODULE MCDBus --------------------------------
(***************************************************************************)
(* The drivers of the data bus for TLC.                                    *)
(***************************************************************************)
EXTENDS DBus

At(addr, width) == [addr |-> addr, width |-> width]

\* Cells that overlap, of three widths.
Overlapping == {At(0, 8), At(4, 4), At(6, 2)}

\* Every lane has a value of its own.
Words2 == {NoWord, [l \in Lane |-> l + 1]}
=============================================================================
