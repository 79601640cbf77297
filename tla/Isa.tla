-------------------------------- MODULE Isa ---------------------------------
(***************************************************************************)
(* What the core promises to a program: one instruction at a time, each    *)
(* complete before the next begins.  Its state is what the core reports    *)
(* after every committed instruction (core.sv: DifftestInstrCommit,        *)
(* DifftestArchIntRegState, DifftestCSRState) for difftest to compare with *)
(* a reference.  The value of an instruction is that of the core's own     *)
(* decoder and ALU (Rv): the reference of difftest is a binary             *)
(* (ready-to-run). The instruction found at an address is arbitrary, so the*)
(* specification covers every program over Instrs.                         *)
(***************************************************************************)
EXTENDS Rv

CONSTANT Instrs   \* the instructions a program may hold: a subset of Instr

VARIABLES
  pc,     \* address of the next instruction
  regs,   \* general registers
  csr,    \* control and status registers, the privilege mode included
  mem,    \* RAM
  done    \* the instruction just completed, a bubble if there is none

isaVars == <<pc, regs, csr, mem, done>>

IsaInit ==
  /\ pc = PCINIT
  /\ regs = RegInit
  /\ csr = CsrInit
  /\ mem \in [Cell -> {0}]
  /\ done = Bubble

\* Instruction i, reading the value m if it is a load.
Execute(i, m) ==
  LET A == Q1(regs, i)
      B == ALUBin(regs, csr, i)
      q2 == Q2(regs, csr, i)
      alu == ALUResult(i, A, B)
  IN /\ Legal(i)
     /\ done' = i
     /\ pc' = PCin(i, pc, A, B, W(pc + ILen))
     /\ regs' = RegNext(regs, i, RegDI(i, pc, alu, m, q2))
     /\ csr' = CsrNext(csr, i, pc, alu)
     /\ mem' = IF WMEM(i) THEN Written(mem, Physical(csr, alu), q2) ELSE mem

\* The core drops what it cannot decode, without a trap and without a commit.
Skip ==
  /\ \E i \in Instrs : ~Legal(i) /\ done' = i
  /\ pc' = W(pc + ILen)
  /\ UNCHANGED <<regs, csr, mem>>

Loaded(i) ==
  IF i.op = "LD"
  THEN ReadValues(mem, Physical(csr, ALUResult(i, Q1(regs, i), i.imm)))
  ELSE {0}

Step == \E i \in Instrs : \E m \in Loaded(i) : Execute(i, m)

\* Nothing completes.
Pause ==
  /\ done' = Bubble
  /\ UNCHANGED <<pc, regs, csr, mem>>

IsaNext == Step \/ Skip \/ Pause

IsaSpec == IsaInit /\ [][IsaNext]_isaVars
=============================================================================
