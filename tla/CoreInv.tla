------------------------------ MODULE CoreInv -------------------------------
(***************************************************************************)
(* The inductive invariant behind the properties of CoreProps that relate  *)
(* the pipeline to the program it runs: where an instruction that changes  *)
(* the program counter or a CSR can be while the fetch unit is in a given  *)
(* state, what the stage registers hold of the program's state, and which  *)
(* request is on which bus.                                                *)
(***************************************************************************)
EXTENDS CoreProps

(***************************************************************************)
(* Which instructions are where                                            *)
(***************************************************************************)
Fetched == Instrs \cup {Bubble}

\* What moves through the pipeline has been fetched or is a bubble.
Contents ==
  /\ instruction \in Fetched /\ instr1 \in Fetched /\ instr2 \in Fetched
  /\ instr3 \in Fetched /\ instr4 \in Fetched
  /\ backtoI = "I_BUBBLE1" => delay_instruction \in Instrs
  /\ state \in {"I_GET_INSTR", "I_BUBBLE2a"} => Real(instruction)

Empty1 == instr1 = Bubble
Empty2 == Empty1 /\ instr2 = Bubble
Empty3 == Empty2 /\ instr3 = Bubble
Empty4 == Empty3 /\ instr4 = Bubble

\* The fetch unit offers an instruction to stage D and waits for the advance.
Offering == state = "D_IDLE" /\ Real(instruction)

\* Only bubbles are younger than a CSR instruction, and no other is older.
CsrAlone ==
  /\ Offering => ~IsCsr(instr1) /\ ~IsCsr(instr2) /\ ~IsCsr(instr3)
  /\ IsCsr(instr1) => ~IsCsr(instr2) /\ ~IsCsr(instr3) /\ ~IsCsr(instr4)
  /\ IsCsr(instr2) => Empty1 /\ ~IsCsr(instr3) /\ ~IsCsr(instr4)
  /\ IsCsr(instr3) => Empty2 /\ ~IsCsr(instr4)
  /\ IsCsr(instr4) => Empty3

Trap(i) == i.op \in {"MRET", "ECALL"}
Redirects(i) == IsJump(i) \/ Trap(i)

\* The instructions the fetch unit stalls behind, and what CSR_wait remembers of them.
Jumps(i) == Redirects(i) /\ CSR_wait = Trap(i)
Changes(i) == i.op = "CSRRW" /\ ~CSR_wait

Calm == ~CsrInFlight /\ ~Redirects(instr1) /\ ~Redirects(instr2)

\* The bubbles behind a data hazard have filled the pipeline when the count ends.
BehindHazard ==
  /\ ~CSR_wait /\ Calm /\ bubble \in {1, 2, 4, 8}
  /\ bubble <= 4 => Empty1 /\ (state # "D_IDLE" => Empty2)
  /\ bubble <= 2 => Empty2 /\ (state # "D_IDLE" => Empty3)
  /\ bubble <= 1 => Empty3 /\ (state # "D_IDLE" => Empty4)

\* The count of bubbles behind a jump or CSR instruction tells its stage.
BehindJump ==
  IF state # "D_IDLE"
  THEN /\ instruction = Bubble
       /\ \/ bubble = 2 /\ Jumps(instr1)
          \/ bubble = 1 /\ Jumps(instr2) /\ Empty1
          \/ bubble = 8 /\ Changes(instr1)
          \/ bubble = 4 /\ Changes(instr2)
          \/ bubble = 2 /\ Changes(instr3)
          \/ bubble = 1 /\ Changes(instr4)
  ELSE \/ /\ Real(instruction) /\ Calm
          /\ \/ bubble = 2 /\ Jumps(instruction)
             \/ bubble = 8 /\ Changes(instruction)
       \/ /\ instruction = Bubble
          /\ \/ bubble = 1 /\ Jumps(instr1)
             \/ bubble = 4 /\ Changes(instr1)
             \/ bubble = 2 /\ Changes(instr2)
             \/ bubble = 1 /\ Changes(instr3)

\* While mret or ecall drains, the clock edges counted cover its write-back.
BehindTrap ==
  /\ CSR_wait /\ instruction = Bubble
  /\ IF state = "D_IDLE"
     THEN bubble = 8 /\ Trap(instr3)
     ELSE /\ Trap(instr4) /\ bubble \in {1, 2, 4, 8}
          /\ bubble <= 4 => rf_state # "DOING"
          /\ bubble <= 2 => rf_state = "IDLE"

\* No bubbles are due: an instruction is about to be fetched, is being fetched, or
\* has been.
Underway ==
  /\ state = "D_IDLE" =>
       IF CSR_wait THEN Trap(instr2) /\ Empty1 /\ instruction = Bubble
       ELSE /\ ~IsCsr(instr1) /\ ~IsCsr(instr2) /\ ~IsCsr(instr3)
            /\ ~Redirects(instr1) /\ ~Redirects(instruction) /\ ~IsCsr(instruction)
  /\ state \in Accessing \cup {"D_RESPONSE_RECEIVED", "I_IDLE"} =>
       IF CSR_wait THEN Trap(instr3) /\ Empty2 ELSE Calm
  /\ state \in {"I_PREPARE", "I_REQUEST_SENT", "I_GET_PAGE2", "I_GET_PAGE3", "I_GET_INSTR"} =>
       ~CSR_wait /\ Calm
  /\ state = "I_BUBBLE2a" =>
       /\ Calm
       /\ \/ bubble = 2 /\ Jumps(instruction)
          \/ bubble = 8 /\ Changes(instruction)
  /\ state = "I_RESPONSE_RECEIVED" =>
       IF Real(instruction)
       THEN ~CSR_wait /\ Calm /\ ~Redirects(instruction) /\ ~IsCsr(instruction)
       ELSE \/ Jumps(instr2) /\ Empty1
            \/ Changes(instr4)

FetchShape ==
  /\ backtoI = "I_BUBBLE1" => BehindHazard
  /\ backtoI = "I_BUBBLE2" => BehindJump
  /\ backtoI = "I_BUBBLE3" => BehindTrap
  /\ backtoI = "I_IDLE" => Underway

(***************************************************************************)
(* Registers and CSRs                                                      *)
(***************************************************************************)
\* The state after the instruction in W, given the reported state.
RegW == RegNext(Reg5, instr4, RegDI(instr4, PC4, ALU_result4, Memory_Data4, reg_Q24))
CsrW == CsrNext(CSR5, instr4, PC4, ALU_result4)

WrittenBack ==
  IF rf_state = "DOING" THEN Reg4 = Reg5 /\ CSR4 = CSR5 ELSE Reg4 = RegW /\ CSR4 = CsrW

\* What left stage E with an instruction is what it computes in program order.
Operands ==
  /\ ALU_result4 = ALUResult(instr4, Q1(Reg5, instr4), ALUBin(Reg5, CSR5, instr4))
  /\ reg_Q24 = Q2(Reg5, CSR5, instr4)
  /\ ALU_result3 = ALUResult(instr3, Q1(RegW, instr3), ALUBin(RegW, CsrW, instr3))
  /\ reg_Q23 = Q2(RegW, CsrW, instr3)

Committed == rf_state # "DOING" => commit4 = Legal(instr4)

(***************************************************************************)
(* The program counter                                                     *)
(***************************************************************************)
\* The successor of the youngest instruction is not known yet.
Pending == backtoI = "I_BUBBLE2" \/ (state = "I_RESPONSE_RECEIVED" /\ instruction = Bubble)

Succ(i, pc, regs, csr) == PCin(i, pc, Q1(regs, i), ALUBin(regs, csr, i), W(pc + ILen))

\* Each instruction in the pipeline is at the address to which the one before it
\* leads; the youngest leads to requested_pc, or is there itself while pending.
Chain ==
  /\ Real(instr4) => NextW = IF Pending /\ ~Offering /\ Empty3 THEN PC4
                             ELSE Succ(instr4, PC4, Reg5, CSR5)
  /\ Real(instr3) => NextM = IF Pending /\ ~Offering /\ Empty2 THEN PC3
                             ELSE Succ(instr3, PC3, RegW, CsrW)
  /\ Real(instr2) => NextE = IF Pending /\ ~Offering /\ Empty1 THEN PC2
                             ELSE Succ(instr2, PC2, RegW, CsrW)
  /\ Real(instr1) => NextD = IF Pending /\ ~Offering THEN PC1 ELSE W(PC1 + ILen)
  /\ IF state = "D_IDLE" /\ backtoI = "I_IDLE"
     THEN Real(instruction) => requested_pc = W(current_pc + ILen)
     ELSE requested_pc = current_pc

(***************************************************************************)
(* Memory                                                                  *)
(***************************************************************************)
\* The access under way is that of the instruction in M.
Access ==
  /\ state \in Accessing \cup {"D_RESPONSE_RECEIVED"} => DMenable(instr3)
  /\ state \in Accessing =>
       lock = [addr |-> ALU_result3, strobe |-> WMEM(instr3),
               data |-> IF WMEM(instr3) THEN reg_Q23 ELSE 0]
  /\ state = "D_PREPARE" => ~Translating(CSR4)
  /\ state \in {"D_GET_PAGE1", "D_GET_PAGE2", "D_GET_PAGE3"} => Translating(CSR4)

Walking == {"D_GET_PAGE2", "D_GET_PAGE3", "I_GET_PAGE2", "I_GET_PAGE3"}

Requests ==
  /\ ireq.valid => state = "I_REQUEST_SENT" /\ ireq.addr = Physical(CSR4, current_pc)
  /\ dreq.valid => state \in Walking \cup {"I_REQUEST_SENT", "D_REQUEST_SENT"}
  /\ state \in Walking => dreq.valid
  /\ state = "I_REQUEST_SENT" => dreq.valid = ~ireq.valid
  /\ state \in {"I_GET_PAGE2", "I_GET_PAGE3"} \/ (state = "I_REQUEST_SENT" /\ dreq.valid)
       => Translating(CSR4)
  /\ state # "D_REQUEST_SENT" => ~dreq.strobe /\ (dreq.valid => dreq.walk)
  /\ state = "D_REQUEST_SENT" =>
       /\ dreq.valid /\ ~dreq.walk /\ dreq.strobe = WMEM(instr3)
       /\ dreq.addr = Physical(CSR4, ALU_result3)
       /\ WMEM(instr3) => dreq.data = reg_Q23

\* A load holds what it finds in the memory its predecessors leave.
Loads ==
  /\ instr4.op = "LD" => Memory_Data4 \in ReadValues(cmem, Physical(CSR5, ALU_result4))
  /\ instr3.op = "LD" /\ state \notin Accessing =>
       Memory_Data \in ReadValues(StoreApplied(cmem, instr4, ALU_result4, reg_Q24),
                                  Physical(CsrW, ALU_result3))

(***************************************************************************)
(* The invariant                                                           *)
(***************************************************************************)
FetchInv == Contents /\ CsrAlone /\ FetchShape /\ modify_reg[0] = 0
RetireInv == WrittenBack /\ Operands /\ Committed /\ Chain
MemInv == Access /\ Requests /\ Loads /\ StoresOnce

RInv == IInv /\ FetchInv /\ RetireInv /\ MemInv /\ ReportExact
=============================================================================
