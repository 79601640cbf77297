------------------------------ MODULE SimMemory ------------------------------
(***************************************************************************)
(* The memory of the simulation (memory.cpp) as ModelBase::install_soc     *)
(* installs it: one BlockMemory seen through two windows of a              *)
(* MemoryRouter, the peripherals between them.  A word is its eight bytes. *)
(* Addresses count words; the windows are shrunk to WindowSize of them and *)
(* the offset of the memory is 0, as everywhere in the program.            *)
(***************************************************************************)
EXTENDS Integers, Sequences, SequencesExt

CONSTANTS
  Size,         \* words of the memory
  WindowSize,   \* words of a window of the router
  Byte,         \* values of a byte, 0 among them
  Images,       \* contents of the files it is initialised from
  Masks         \* bytes that a store may select

VARIABLES
  installed,
  mem, saved_mem,   \* of the BlockMemory
  image,            \* history: the file it was given
  written           \* history: the bytes stored since the last reset

vars == <<installed, mem, saved_mem, image, written>>

Lane == 0 .. 7
Index == 0 .. Size - 1
NoByte == -1

Blank == [i \in Index |-> [l \in Lane |-> 0]]
Nothing == [i \in Index |-> [l \in Lane |-> NoByte]]

-----------------------------------------------------------------------------
(* map.  The mask is computed in 32 bits and has zeros in its upper half.   *)
(* For the bytes of the upper half the shift is as wide as the type or      *)
(* wider: the hardware shifts by the rest, a compiler may give zero.        *)

LowHalf == 0 .. 3

kept(l, shift) ==
  IF l \in LowHalf THEN LowHalf \ {l}
  ELSE IF shift = "rest" THEN LowHalf \ {l - 4} ELSE LowHalf

PutByte(word, l, b, keep) ==
  [k \in Lane |-> IF k = l THEN b ELSE IF k \in keep THEN word[k] ELSE 0]

\* The bytes of the file, one after the other; a byte changes no word but its own.
MapImage(m, data, shift) ==
  [i \in Index |->
     FoldLeft(LAMBDA word, l : IF 8 * i + l < Len(data)
                               THEN PutByte(word, l, data[8 * i + l + 1], kept(l, shift))
                               ELSE word,
              m[i], <<0, 1, 2, 3, 4, 5, 6, 7>>)]

Init ==
  /\ installed = FALSE
  /\ mem = Blank /\ saved_mem = Blank
  /\ image = << >> /\ written = Nothing

\* A file that is longer than the memory fails the assertion of map.
Install(data) ==
  /\ ~installed /\ installed' = TRUE
  /\ Len(data) <= 8 * Size
  /\ \E shift \in {"rest", "zero"} : mem' = MapImage(mem, data, shift)
  /\ saved_mem' = mem'
  /\ image' = data
  /\ UNCHANGED written

-----------------------------------------------------------------------------
(* MemoryRouter.  The mask of the last entry is 0: it takes every address.  *)

Entries == << [prefix |-> 2 * WindowSize, all |-> FALSE, mem |-> "block", base |-> 2 * WindowSize],
              [prefix |-> WindowSize, all |-> FALSE, mem |-> "confreg", base |-> 0],
              [prefix |-> 0, all |-> TRUE, mem |-> "block", base |-> 0] >>

Matches(e, addr) == e.all \/ (addr \div WindowSize) * WindowSize = e.prefix

search(addr) == Entries[CHOOSE k \in DOMAIN Entries :
                   /\ Matches(Entries[k], addr)
                   /\ \A j \in DOMAIN Entries : Matches(Entries[j], addr) => k <= j]

paddr(addr) == addr - search(addr).base

\* The assertion of BlockMemory::load and store.
InRange(addr) == search(addr).mem = "block" => paddr(addr) \in Index

-----------------------------------------------------------------------------
Merge(word, new, mask) == [l \in Lane |-> IF l \in mask THEN new[l] ELSE word[l]]

\* Mutant: the bytes that are not selected are cleared.
storedWhole(word, data, mask) == Merge([l \in Lane |-> 0], data, mask)

stored(word, data, mask) == Merge(word, data, mask)

\* Confreg is its own module: here it takes the store.
Store(addr, data, mask) ==
  /\ installed
  /\ InRange(addr)
  /\ IF search(addr).mem = "block"
     THEN mem' = [mem EXCEPT ![paddr(addr)] = stored(@, data, mask)]
     ELSE mem' = mem
  /\ LET i == addr % WindowSize
     IN written' = IF addr \div WindowSize = 1 THEN written
                   ELSE [written EXCEPT ![i] = Merge(@, data, mask)]
  /\ UNCHANGED <<installed, saved_mem, image>>

\* The router resets the memory once for each of its windows.
Reset ==
  /\ installed
  /\ mem' = saved_mem
  /\ written' = Nothing
  /\ UNCHANGED <<installed, saved_mem, image>>

Next ==
  \/ \E data \in Images : Install(data)
  \/ \E addr \in 0 .. 3 * WindowSize - 1, b \in Byte, mask \in Masks :
       Store(addr, [l \in Lane |-> b], mask)
  \/ Reset

Spec == Init /\ [][Next]_vars

-----------------------------------------------------------------------------
\* Each byte is the one stored last since the reset, through whichever window
\* and beside whichever neighbours, or that of the installed memory; stores to
\* the peripherals do not reach it.
\* (model.cpp:16-20; memory.cpp:7-39, 89-92, 133-144)
BytesStored ==
  \A i \in Index, l \in Lane :
    mem[i][l] = IF written[i][l] = NoByte THEN saved_mem[i][l] ELSE written[i][l]

\* "File path of memory initialization file.": a fresh memory holds the bytes of
\* the file.  (runner.h:71, memory.cpp:94-107)
ImageLoaded ==
  installed => \A n \in DOMAIN image : saved_mem[(n - 1) \div 8][(n - 1) % 8] = image[n]
=============================================================================
