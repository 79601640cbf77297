--------------------------------- MODULE CBus --------------------------------
(***************************************************************************)
(* Requests of the cache bus and what they mean: a burst of len + 1 beats  *)
(* of 2^size bytes each, of which the bus carries the words they lie in.   *)
(* A requester holds a request until its last beat is answered, changing   *)
(* only the data and the strobe from one beat of a write to the next.      *)
(***************************************************************************)
EXTENDS Integers, Sequences

CONSTANTS
  WordBytes,   \* bytes in a word of the bus, 8 in the source
  MemSize,     \* bytes of RAM, a multiple of WordBytes
  Addrs,       \* addresses requested
  Sizes,       \* values of size
  Lens,        \* values of len, each one less than a power of two
  Strobes,     \* strobes of writes, sets of lanes
  Byte

ASSUME CBusAssumption ==
  /\ WordBytes \in Nat \ {0} /\ MemSize \in Nat \ {0} /\ MemSize % WordBytes = 0
  /\ Addrs \subseteq Nat /\ Lens \subseteq Nat /\ Sizes \subseteq Nat
  /\ Strobes \subseteq SUBSET (0 .. WordBytes - 1)
  /\ 0 \in Byte
  /\ \A s \in Sizes : 2^s \in Nat \ {0}   \* the provers know no powers
  /\ \A s \in Sizes, l \in Lens : (2^s) * (l + 1) <= MemSize /\ MemSize % ((2^s) * (l + 1)) = 0

Lane == 0 .. WordBytes - 1
Cell == 0 .. MemSize - 1

NoReq == [valid |-> FALSE]
Reads == [valid : {TRUE}, is_write : {FALSE}, size : Sizes, addr : Addrs, len : Lens]
Writes == [valid : {TRUE}, is_write : {TRUE}, size : Sizes, addr : Addrs, len : Lens,
           strobe : Strobes, byte : Byte]

\* The other beats of a write: all lanes of one word carry the same byte.
OtherBeats(r) ==
  IF r.is_write
  THEN {w \in Writes : w.size = r.size /\ w.addr = r.addr /\ w.len = r.len}
  ELSE {r}

\* What the requester does in a cycle with the given answer.
NextReqs(r, ready, last) ==
  IF ~r.valid \/ (ready /\ last) THEN {NoReq} \cup Reads \cup Writes
  ELSE IF ready THEN OtherBeats(r)
  ELSE {r}

\* RAM appears at every multiple of its size: at 0, at 0x80000000, which bus.h
\* masks off, and at the boot window 0x1fc00000.
Word(m, a) == [l \in Lane |-> m[((a % MemSize) \div WordBytes) * WordBytes + l]]
Written(m, a, r) ==
  [c \in Cell |-> IF c \div WordBytes = (a % MemSize) \div WordBytes /\ c % WordBytes \in r.strobe
                  THEN r.byte ELSE m[c]]

\* A wrapping burst: the address of beat n, counted from 0.  Only the first one
\* keeps the offset of an unaligned address.
BeatAddr(r, n) ==
  LET bytes == 2^r.size
      total == bytes * (r.len + 1)
      lower == (r.addr \div total) * total
      aligned == (r.addr \div bytes) * bytes
  IN IF n = 0 THEN r.addr ELSE lower + ((aligned - lower + n * bytes) % total)
=============================================================================
