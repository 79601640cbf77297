--------------------------------- MODULE Rv ---------------------------------
(***************************************************************************)
(* The vocabulary the core is built from: instructions after decoding, the *)
(* value functions of the ALU, the register write-back multiplexer, the    *)
(* CSR update and the next program counter.  There is no state here.       *)
(*                                                                         *)
(* A word is an integer modulo WordSize (2^64 in the program).  One        *)
(* operation stands for each class of instructions the core sequences      *)
(* differently: "OP" for the single-cycle register-register operations,    *)
(* "MUL" for the multi-cycle ones, "BEQ" for the conditional branches,     *)
(* "CSRRW" for the Zicsr instructions; "ILLEGAL" is any encoding that      *)
(* Control_Unit.sv decodes to ERROR, "BUBBLE" the all-zero word.           *)
(***************************************************************************)
EXTENDS Integers

CONSTANTS
  WordSize,   \* number of values of a machine word
  ILen,       \* bytes of an instruction (4)
  RegSize,    \* REG_SIZE: number of general registers, x0 included
  Leaf,       \* Leaf[va]: the physical address the page tables hold for va
  CellCount,  \* words of the RAM
  DeviceWord  \* the values a device register may read as

\* The mode (0 to 3) is kept in a word.
ASSUME WordAssumption == WordSize \in Nat /\ WordSize >= 4 /\ ILen \in Nat
ASSUME RegAssumption == RegSize \in Nat \ {0}

ASSUME RamAssumption == CellCount \in Nat \ {0} /\ DeviceWord \subseteq 0 .. (WordSize - 1)

Word == 0 .. (WordSize - 1)
ASSUME LeafAssumption == Leaf \in [Word -> Word]

Reg == 0 .. (RegSize - 1)

CsrFile == {"mstatus", "mtvec", "mscratch", "mcause", "mepc", "satp"}
CsrName == CsrFile \cup {"mode"}
CsrRegs == [CsrName -> Word]

Op == {"BUBBLE", "ILLEGAL", "OP", "OPI", "MUL", "LUI", "AUIPC", "LD", "SD",
       "JAL", "JALR", "BEQ", "CSRRW", "MRET", "ECALL"}

\* rd, rs1, rs2 are the bit fields instr[11:7], [19:15], [24:20] whatever the
\* operation; csr is instr[31:20] ("none": not an implemented CSR).
Instr == [op : Op, rd : Reg, rs1 : Reg, rs2 : Reg, imm : Word,
          csr : CsrFile \cup {"none"}]

Bubble == [op |-> "BUBBLE", rd |-> 0, rs1 |-> 0, rs2 |-> 0, imm |-> 0, csr |-> "none"]

W(n) == n % WordSize

(***************************************************************************)
(* Control signals                                                         *)
(***************************************************************************)
ERROR(i) == i.op \in {"BUBBLE", "ILLEGAL"}
WREG(i) == i.op \notin {"BUBBLE", "ILLEGAL", "SD", "BEQ"}
DMenable(i) == i.op \in {"LD", "SD"}
WMEM(i) == i.op = "SD"
OFFSET(i) == i.op \in {"JALR", "MRET", "ECALL"}
ALU_B(i) == i.op \in {"OPI", "JALR", "LUI", "SD", "LD"}
IsCsr(i) == i.op \in {"CSRRW", "MRET", "ECALL"}
IsJump(i) == i.op \in {"JAL", "JALR", "BEQ"}
Legal(i) == ~ERROR(i)

(***************************************************************************)
(* Values                                                                  *)
(***************************************************************************)
Q1(regs, i) == regs[i.rs1]

Q2(regs, csr, i) ==
  CASE i.op = "MRET" -> csr["mepc"]
    [] i.op = "ECALL" -> csr["mtvec"]
    [] i.op = "CSRRW" /\ i.csr # "none" -> csr[i.csr]
    [] OTHER -> regs[i.rs2]

ALUBin(regs, csr, i) == IF ALU_B(i) THEN i.imm ELSE Q2(regs, csr, i)

ALUResult(i, A, B) ==
  CASE i.op \in {"LUI", "MRET", "ECALL"} -> B
    [] i.op = "CSRRW" -> A
    [] i.op = "MUL" -> W(A * B)
    [] i.op = "BEQ" -> W(A - B)
    [] OTHER -> W(A + B)

BRANCH(i, A, B) == i.op \in {"JAL", "MRET"} \/ (i.op = "BEQ" /\ A = B)

ClearBit0(w) == w - (w % 2)

\* i, pc: the instruction in the E stage and its address; next: PC0 + 4.
PCin(i, pc, A, B, next) ==
  IF OFFSET(i) THEN ClearBit0(ALUResult(i, A, B))
  ELSE IF BRANCH(i, A, B) THEN W(pc + i.imm) ELSE next

RegDI(i, pc, alu, memData, q2) ==
  CASE i.op = "LD" -> memData
    [] i.op = "AUIPC" -> W(pc + i.imm)
    [] i.op \in {"JAL", "JALR", "MRET", "ECALL"} -> W(pc + ILen)
    [] i.op = "CSRRW" -> q2
    [] OTHER -> alu

RegNext(regs, i, di) ==
  IF WREG(i) /\ i.rd # 0 THEN [regs EXCEPT ![i.rd] = di] ELSE regs

(***************************************************************************)
(* CSRs.  The trap fields of mstatus are packed in its low bits: MIE       *)
(* (bit 3 of the program) in bit 0, MPIE (bit 7) in bit 1, MPP (bits       *)
(* 12:11) in bits 3:2; the top bit of satp stands for the Sv39 mode.       *)
(***************************************************************************)
MIE(ms) == ms % 2
MPIE(ms) == (ms \div 2) % 2
Mstatus(old, mie, mpie, mpp) == W(16 * (old \div 16) + 4 * mpp + 2 * mpie + mie)

CsrNext(csr, i, pc, v) ==
  CASE i.op = "MRET" ->
         [csr EXCEPT !["mstatus"] = Mstatus(@, MPIE(@), 1, 0), !["mode"] = 0]
    [] i.op = "ECALL" ->
         [csr EXCEPT !["mepc"] = pc,
                     !["mcause"] = W(8 + csr["mode"]),
                     !["mstatus"] = Mstatus(@, 0, MIE(@), csr["mode"]),
                     !["mode"] = 3]
    [] i.op = "CSRRW" /\ i.csr # "none" -> [csr EXCEPT ![i.csr] = v]
    [] OTHER -> csr

(***************************************************************************)
(* Addresses.  Bit 31 separates RAM from devices: half of the words here.  *)
(***************************************************************************)
IsDevice(a) == a < WordSize \div 2
Translating(csr) == csr["mode"] # 3 /\ csr["satp"] >= WordSize \div 2
Physical(csr, a) == IF Translating(csr) THEN Leaf[a] ELSE a

Cell == 0 .. (CellCount - 1)
CellOf(pa) == pa % CellCount

\* What a read of physical address pa may return, and what a write leaves.
ReadValues(mem, pa) == IF IsDevice(pa) THEN DeviceWord ELSE {mem[CellOf(pa)]}
Written(mem, pa, data) == IF IsDevice(pa) THEN mem ELSE [mem EXCEPT ![CellOf(pa)] = data]

PCINIT == WordSize \div 2
RegInit == [r \in Reg |-> 0]
CsrInit == [c \in CsrName |-> IF c = "mode" THEN 3 ELSE 0]
=============================================================================
