------------------------------ MODULE Programs ------------------------------
(***************************************************************************)
(* The programs and page tables that TLC gives the core, each aimed at one *)
(* of the ways in which its units disturb each other.                      *)
(***************************************************************************)
EXTENDS Rv

Ins(op, rd, rs1, rs2, imm) ==
  [op |-> op, rd |-> rd, rs1 |-> rs1, rs2 |-> rs2, imm |-> imm, csr |-> "none"]
Csrrw(rd, csr, rs1, rs2) == [Ins("CSRRW", rd, rs1, rs2, 0) EXCEPT !.csr = csr]

\* Dependent arithmetic and a multiplication.
Arithmetic == {Ins("OPI", 1, 0, 0, 4), Ins("OP", 2, 1, 2, 0), Ins("MUL", 1, 1, 2, 0)}

\* What cannot be decoded, among what can.
Undecodable == {Ins("AUIPC", 1, 0, 0, 4), Ins("OP", 2, 1, 2, 0), Ins("ILLEGAL", 1, 0, 0, 0)}

\* Jumps and branches on a register that is being written.
Control == {Ins("OPI", 1, 0, 0, 9), Ins("JAL", 2, 0, 1, 8), Ins("JALR", 1, 1, 0, 4),
            Ins("BEQ", 0, 1, 2, 12)}

\* Loads and stores, of RAM (addresses from 8) and of devices (below): the
\* address of the last two depends on a register that the others write.
Memory == {Ins("OPI", 1, 0, 0, 9), Ins("SD", 0, 0, 1, 8), Ins("LD", 1, 0, 0, 8),
           Ins("LD", 2, 1, 0, 1)}

\* Trap entry and the vector it takes, trap return and the address it takes.
Traps == {Ins("LUI", 1, 0, 0, 9), Csrrw(1, "mtvec", 1, 2), Ins("ECALL", 0, 0, 0, 0)}
Returns == {Ins("LUI", 1, 0, 0, 9), Csrrw(2, "mepc", 1, 2), Ins("MRET", 0, 0, 2, 0)}

\* Accesses of RAM and of a device that follow each other closely.
Accesses == {Ins("SD", 0, 0, 2, 8), Ins("LD", 1, 0, 0, 8), Ins("LD", 2, 0, 0, 1)}

\* Accesses and fetches around changes of the address space.
Paging == {Ins("LUI", 1, 0, 0, 9), Csrrw(0, "satp", 1, 0), Ins("MRET", 0, 0, 2, 0),
           Ins("SD", 0, 0, 1, 8)}

\* A bit of everything the units can stall each other on.
Stalls == {Ins("MUL", 2, 1, 1, 0), Ins("LD", 1, 1, 0, 0), Ins("BEQ", 0, 1, 2, 12)}

\* The tables swap neighbouring addresses.
Swapped == [a \in Word |-> IF a % 2 = 0 THEN a + 1 ELSE a - 1]

\* Without translation the tables are never read.
Identity == [a \in Word |-> a]
=============================================================================
