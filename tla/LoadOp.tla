-------------------------------- MODULE LoadOp -------------------------------
(***************************************************************************)
(* Placement of data on the data bus: class LoadOp of bus.h.  A word is a  *)
(* function from its eight byte lanes; an operation is a width and the     *)
(* lane it starts at (SIZE2_SHT16 has width 2 and starts at lane 2).       *)
(***************************************************************************)
EXTENDS Integers

Lane == 0 .. 7
Width == {1, 2, 4, 8}
NoWord == [l \in Lane |-> 0]

DISCARD == [width |-> 0, sht |-> 0]

\* Mutant: the half words of a word are told apart by the wrong bit.
parseHalf(width, addr) ==
  [width |-> width, sht |-> IF width = 2 THEN ((addr % 4) \div 2) * 4 ELSE ((addr % 8) \div width) * width]

parse(width, addr) == [width |-> width, sht |-> ((addr % 8) \div width) * width]

\* The same lanes are set in mask().
strobe(op) == op.sht .. op.sht + op.width - 1

place(op, data) == [l \in Lane |-> IF l >= op.sht THEN data[l - op.sht] ELSE 0]

apply(op, data) ==
  IF op = DISCARD THEN NoWord
  ELSE [l \in Lane |-> IF l + op.sht \in Lane THEN data[l + op.sht] ELSE 0]

\* Of apply(data, dest): the bytes of dest it does not write stay.
applyTo(op, data, dest) ==
  [l \in Lane |-> IF l < op.width THEN apply(op, data)[l] ELSE dest[l]]

Truncated(width, data) == [l \in Lane |-> IF l < width THEN data[l] ELSE 0]
=============================================================================
