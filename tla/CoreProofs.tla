----------------------------- MODULE CoreProofs -----------------------------
(***************************************************************************)
(* Proofs about the pipeline and the system around it, for any word size,  *)
(* number of registers, program, page tables, latency and bus timing: the  *)
(* value functions of Rv, the pipeline of Core, its implementation of Isa, *)
(* and the board of Soc.                                                   *)
(***************************************************************************)
EXTENDS SocProps, CoreInv, TLAPS

-----------------------------------------------------------------------------
(***************************************************************************)
(* Values: each function of Rv returns a word, a register file or a CSR    *)
(* file when it is given such.                                             *)
(***************************************************************************)

LEMMA WInWord == ASSUME NEW n \in Int PROVE W(n) \in Word
  BY WordAssumption DEF W, Word

LEMMA SmallWords == {0, 1, 2, 3} \subseteq Word /\ PCINIT \in Word /\ Word \subseteq Int
  BY WordAssumption DEF Word, PCINIT

LEMMA RegZero == 0 \in Reg
  BY RegAssumption DEF Reg

LEMMA BubbleInstr == Bubble \in Instr
  BY SmallWords, RegZero DEF Bubble, Instr, Op

LEMMA Q1InWord ==
  ASSUME NEW regs \in [Reg -> Word], NEW i \in Instr PROVE Q1(regs, i) \in Word
  BY DEF Q1, Instr

LEMMA Q2InWord ==
  ASSUME NEW regs \in [Reg -> Word], NEW csr \in CsrRegs, NEW i \in Instr
  PROVE  Q2(regs, csr, i) \in Word
  <1>1. i.csr # "none" => i.csr \in CsrName
    BY DEF Instr, CsrName
  <1>2. csr["mepc"] \in Word /\ csr["mtvec"] \in Word
    BY DEF CsrRegs, CsrName, CsrFile
  <1>3. i.csr # "none" => csr[i.csr] \in Word
    BY <1>1 DEF CsrRegs
  <1>4. regs[i.rs2] \in Word
    BY DEF Instr
  <1>. QED BY <1>2, <1>3, <1>4 DEF Q2

LEMMA ALUBinInWord ==
  ASSUME NEW regs \in [Reg -> Word], NEW csr \in CsrRegs, NEW i \in Instr
  PROVE  ALUBin(regs, csr, i) \in Word
  <1>1. i.imm \in Word
    BY DEF Instr
  <1>. QED BY <1>1, Q2InWord DEF ALUBin

LEMMA ImmIsInt == ASSUME NEW i \in Instr PROVE i.imm \in Word /\ i.imm \in Int
  <1>1. i.imm \in Word
    BY DEF Instr
  <1>. QED BY <1>1, SmallWords

LEMMA ALUResultInWord ==
  ASSUME NEW i, NEW a \in Word, NEW b \in Word
  PROVE  ALUResult(i, a, b) \in Word
  <1>1. a \in Int /\ b \in Int
    BY SmallWords
  <1>2. a + b \in Int /\ a - b \in Int /\ a * b \in Int
    BY <1>1
  <1>3. W(a + b) \in Word /\ W(a - b) \in Word /\ W(a * b) \in Word
    BY <1>2, WInWord
  <1>. QED BY <1>3 DEF ALUResult

LEMMA ClearBit0InWord == ASSUME NEW w \in Word PROVE ClearBit0(w) \in Word
  BY WordAssumption DEF ClearBit0, Word

LEMMA PCinInWord ==
  ASSUME NEW i \in Instr, NEW pc \in Word, NEW a \in Word, NEW b \in Word, NEW next \in Word
  PROVE  PCin(i, pc, a, b, next) \in Word
  <1>1. ClearBit0(ALUResult(i, a, b)) \in Word
    BY ALUResultInWord, ClearBit0InWord
  <1>2. pc + i.imm \in Int
    BY SmallWords, ImmIsInt
  <1>3. W(pc + i.imm) \in Word
    BY <1>2, WInWord
  <1>. QED BY <1>1, <1>3 DEF PCin

LEMMA RegDIInWord ==
  ASSUME NEW i \in Instr, NEW pc \in Word, NEW alu \in Word, NEW m \in Word, NEW q \in Word
  PROVE  RegDI(i, pc, alu, m, q) \in Word
  <1>1. pc + i.imm \in Int /\ pc + ILen \in Int
    BY SmallWords, ImmIsInt, WordAssumption
  <1>2. W(pc + i.imm) \in Word /\ W(pc + ILen) \in Word
    BY <1>1, WInWord
  <1>. QED BY <1>2 DEF RegDI

LEMMA RegNextType ==
  ASSUME NEW regs \in [Reg -> Word], NEW i \in Instr, NEW di \in Word
  PROVE  RegNext(regs, i, di) \in [Reg -> Word]
  BY DEF RegNext, Instr

LEMMA MstatusInWord ==
  ASSUME NEW old \in Word, NEW mie \in Int, NEW mpie \in Int, NEW mpp \in Int
  PROVE  Mstatus(old, mie, mpie, mpp) \in Word
  <1>1. old \in Int
    BY SmallWords
  <1>2. 16 * (old \div 16) + 4 * mpp + 2 * mpie + mie \in Int
    BY <1>1
  <1>. QED BY <1>2, WInWord DEF Mstatus

LEMMA CsrNextType ==
  ASSUME NEW csr \in CsrRegs, NEW i \in Instr, NEW pc \in Word, NEW v \in Word
  PROVE  CsrNext(csr, i, pc, v) \in CsrRegs
  <1>1. csr["mstatus"] \in Word /\ csr["mode"] \in Word
    BY DEF CsrRegs, CsrName, CsrFile
  <1>2. csr["mstatus"] \in Int /\ csr["mode"] \in Int
    BY <1>1, SmallWords
  <1>2a. 8 + csr["mode"] \in Int
    BY <1>2
  <1>3. MIE(csr["mstatus"]) \in Int /\ MPIE(csr["mstatus"]) \in Int
    BY <1>2 DEF MIE, MPIE
  <1>4. Mstatus(csr["mstatus"], MPIE(csr["mstatus"]), 1, 0) \in Word
    BY <1>1, <1>3, MstatusInWord
  <1>5. Mstatus(csr["mstatus"], 0, MIE(csr["mstatus"]), csr["mode"]) \in Word
    BY <1>1, <1>2, <1>3, MstatusInWord
  <1>6. W(8 + csr["mode"]) \in Word
    BY <1>2a, WInWord
  <1>7. CASE i.op = "MRET"
    BY <1>7, <1>4, SmallWords DEF CsrNext, CsrRegs
  <1>8. CASE i.op = "ECALL"
    BY <1>8, <1>5, <1>6, SmallWords DEF CsrNext, CsrRegs
  <1>9. CASE i.op \notin {"MRET", "ECALL"}
    BY <1>9 DEF CsrNext, CsrRegs
  <1>. QED BY <1>7, <1>8, <1>9

LEMMA PhysicalInWord ==
  ASSUME NEW csr, NEW a \in Word PROVE Physical(csr, a) \in Word
  BY LeafAssumption DEF Physical

LEMMA InitTypes == RegInit \in [Reg -> Word] /\ CsrInit \in CsrRegs
  BY SmallWords DEF RegInit, CsrInit, CsrRegs

LEMMA CellInRange == ASSUME NEW a \in Word PROVE CellOf(a) \in Cell
  BY RamAssumption, SmallWords DEF CellOf, Cell

LEMMA WrittenType ==
  ASSUME NEW mem \in [Cell -> Word], NEW pa \in Word, NEW data \in Word
  PROVE  Written(mem, pa, data) \in [Cell -> Word]
  BY CellInRange DEF Written

LEMMA ReadValuesInWord ==
  ASSUME NEW mem \in [Cell -> Word], NEW pa \in Word
  PROVE  ReadValues(mem, pa) \subseteq Word
  BY CellInRange, RamAssumption DEF ReadValues, Word

-----------------------------------------------------------------------------
(***************************************************************************)
(* The pipeline by itself.                                                 *)
(***************************************************************************)

(***************************************************************************)
(* Type correctness, unit by unit                                          *)
(***************************************************************************)
LEMMA ResponseTypes ==
  ASSUME TypeOK, NEW iresp \in IResponses, NEW dresp \in DResponses
  PROVE  iresp.instr \in Instr /\ dresp.data \in Word
  <1>1. iresp.instr \in Instr
    BY BubbleInstr, InstrsAssumption DEF IResponses
  <1>2. dreq.addr \in Word /\ dmem \in [Cell -> Word]
    BY DEF TypeOK, MemTypeOK, DataRequest
  <1>3. ReadValues(dmem, dreq.addr) \subseteq Word /\ 0 \in Word
    BY <1>2, ReadValuesInWord, SmallWords
  <1>4. dresp.data \in Word
    BY <1>3 DEF DResponses
  <1>. QED BY <1>1, <1>4

\* Every combinational signal is a word.
LEMMA SignalTypes ==
  ASSUME TypeOK
  PROVE  /\ reg_Q1 \in Word /\ reg_Q2 \in Word /\ ALU_Bin \in Word
         /\ ALU_result2 \in Word /\ PC_in \in Word /\ reg_DI4 \in Word
  <1>. USE DEF TypeOK, RegFileTypeOK, StagesTypeOK, MemTypeOK
  <1>1. reg_Q1 \in Word /\ reg_Q2 \in Word /\ ALU_Bin \in Word
    BY Q1InWord, Q2InWord, ALUBinInWord DEF reg_Q1, reg_Q2, ALU_Bin
  <1>2. ALU_result2 \in Word
    BY <1>1, ALUResultInWord, SmallWords DEF ALU_result2
  <1>3. W(current_pc + ILen) \in Word
    <2>1. current_pc \in Int
      BY SmallWords
    <2>2. current_pc + ILen \in Int
      BY <2>1, WordAssumption
    <2>. QED BY <2>2, WInWord
  <1>4. PC_in \in Word
    BY <1>1, <1>3, PCinInWord DEF PC_in
  <1>5. reg_DI4 \in Word
    BY RegDIInWord DEF reg_DI4
  <1>. QED BY <1>1, <1>2, <1>4, <1>5

LEMMA MemUnitType ==
  ASSUME TypeOK, NEW iresp \in IResponses, NEW dresp \in DResponses,
         Cycle(iresp, dresp)
  PROVE  MemTypeOK'
  <1>. DEFINE xlate == Translating(CSR4)
  <1>1. MemTypeOK
    BY DEF TypeOK
  <1>2. /\ ALU_result2 \in Word /\ reg_Q2 \in Word /\ PC_in \in Word
        /\ iresp.instr \in Instr /\ dresp.data \in Word /\ 0 \in Word
        /\ Leaf[current_pc] \in Word /\ Leaf[lock.addr] \in Word
    BY <1>1, SignalTypes, ResponseTypes, LeafAssumption, SmallWords DEF MemTypeOK
  <1>3. MemTick(Advance, instr2, ALU_result2, reg_Q2, xlate, PC_in, modify_reg, iresp, dresp)
    BY DEF Cycle, Pipeline
  <1>4. \A x \in {0, 1, 2, 4, 8} : x \div 2 \in {0, 1, 2, 4, 8}
    OBVIOUS
  <1>5. bubble \div 2 \in {0, 1, 2, 4, 8}
    BY <1>1, <1>4 DEF MemTypeOK
  <1>6. IsDevice(ALU_result2) \in BOOLEAN /\ WMEM(instr2) \in BOOLEAN
    BY DEF IsDevice, WMEM
  <1>6a. NoRequest \in DataRequest /\ WalkRequest \in DataRequest
    BY <1>2 DEF NoRequest, WalkRequest, DataRequest
  <1>. USE <1>1, <1>2 DEF MemTypeOK, State
  <1>7. CASE D_Wait(Advance)
    BY <1>7 DEF D_Wait, memVars
  <1>8. CASE D_Pass(Advance, instr2)
    BY <1>8, BubbleInstr DEF D_Pass
  <1>9. CASE D_Accept(Advance, instr2, ALU_result2, reg_Q2, xlate)
    BY <1>9, <1>6, BubbleInstr DEF D_Accept
  <1>10. CASE D_Prepare
    BY <1>10 DEF D_Prepare, LockedRequest, fetchVars, DataRequest
  <1>11. CASE D_GetPage1
    <2>1. [dreq EXCEPT !.valid = TRUE, !.walk = TRUE, !.addr = 0] \in DataRequest
      BY DEF DataRequest
    <2>2. dreq' \in DataRequest
      BY <1>11, <2>1 DEF D_GetPage1
    <2>. QED BY <1>11, <2>2 DEF D_GetPage1, fetchVars
  <1>12. CASE D_GetPage2(dresp)
    BY <1>12 DEF D_GetPage2, fetchVars
  <1>13. CASE D_GetPage3(dresp)
    <2>1. [LockedRequest EXCEPT !.addr = Leaf[lock.addr]] \in DataRequest
      BY DEF LockedRequest, DataRequest
    <2>2. dreq' \in DataRequest
      BY <1>13, <2>1 DEF D_GetPage3
    <2>. QED BY <1>13, <2>2 DEF D_GetPage3, fetchVars
  <1>14. CASE D_RequestSent(dresp)
    BY <1>14, <1>6a DEF D_RequestSent, fetchVars
  <1>15. CASE D_ResponseReceived
    BY <1>15 DEF D_ResponseReceived, fetchVars
  <1>16. CASE I_Idle
    BY <1>16, BubbleInstr DEF I_Idle
  <1>17. CASE I_Bubble3
    <2>1. /\ state' \in State /\ backtoI' \in {"I_IDLE", "I_BUBBLE1", "I_BUBBLE2", "I_BUBBLE3"}
          /\ bubble' \in {0, 1, 2, 4, 8} /\ CSR_wait' \in BOOLEAN /\ flush_F' \in BOOLEAN
      BY <1>17, <1>5 DEF I_Bubble3
    <2>. QED BY <1>17, <2>1 DEF I_Bubble3, fetchVars
  <1>18. CASE I_Prepare(xlate)
    <2>1. [valid |-> TRUE, addr |-> current_pc] \in [valid : BOOLEAN, addr : Word]
      OBVIOUS
    <2>2. ireq' \in [valid : BOOLEAN, addr : Word] /\ dreq' \in DataRequest
      BY <1>18, <1>6a, <2>1 DEF I_Prepare
    <2>. QED BY <1>18, <2>2 DEF I_Prepare, fetchVars
  <1>19. CASE I_Fetched(iresp)
    BY <1>19 DEF I_Fetched
  <1>20. CASE I_RequestSent(iresp, dresp)
    <2>1. [dreq EXCEPT !.valid = TRUE] \in DataRequest
      BY DEF DataRequest
    <2>2. dreq' \in DataRequest
      BY <1>20, <2>1 DEF I_RequestSent
    <2>. QED BY <1>20, <2>2 DEF I_RequestSent, fetchVars
  <1>21. CASE I_GetPage2(dresp)
    <2>1. [dreq EXCEPT !.valid = TRUE] \in DataRequest
      BY DEF DataRequest
    <2>2. dreq' \in DataRequest
      BY <1>21, <2>1 DEF I_GetPage2
    <2>. QED BY <1>21, <2>2 DEF I_GetPage2, fetchVars
  <1>22. CASE I_GetPage3(dresp)
    <2>1. [dreq EXCEPT !.valid = FALSE] \in DataRequest
      BY DEF DataRequest
    <2>2. [valid |-> TRUE, addr |-> Leaf[current_pc]] \in [valid : BOOLEAN, addr : Word]
      OBVIOUS
    <2>3. dreq' \in DataRequest /\ ireq' \in [valid : BOOLEAN, addr : Word]
      BY <1>22, <2>1, <2>2 DEF I_GetPage3
    <2>. QED BY <1>22, <2>3 DEF I_GetPage3, fetchVars
  <1>23. CASE I_GetInstrHazard(modify_reg)
    BY <1>23, BubbleInstr DEF I_GetInstrHazard
  <1>24. CASE I_GetInstr(modify_reg)
    BY <1>24 DEF I_GetInstr, fetchVars
  <1>25. CASE I_Bubble1
    BY <1>25, <1>5 DEF I_Bubble1
  <1>26. CASE I_Bubble2a
    BY <1>26 DEF I_Bubble2a, fetchVars
  <1>27. CASE I_Bubble2
    BY <1>27, <1>5, BubbleInstr DEF I_Bubble2
  <1>28. CASE I_ResponseReceived(PC_in)
    BY <1>28 DEF I_ResponseReceived
  <1>. QED
    BY <1>3, <1>7, <1>8, <1>9, <1>10, <1>11, <1>12, <1>13, <1>14, <1>15, <1>16,
       <1>17, <1>18, <1>19, <1>20, <1>21, <1>22, <1>23, <1>24, <1>25, <1>26,
       <1>27, <1>28 DEF MemTick

LEMMA RegFileType ==
  ASSUME TypeOK, NEW iresp, NEW dresp, Cycle(iresp, dresp)
  PROVE  RegFileTypeOK'
  <1>1. RegFileTypeOK /\ instr4 \in Instr /\ PC4 \in Word /\ ALU_result4 \in Word
    BY DEF TypeOK, StagesTypeOK
  <1>2. RegFileTick(Advance, instr4, PC4, reg_DI4, ALU_result4)
    BY DEF Cycle, Pipeline
  <1>. USE <1>1 DEF RegFileTypeOK
  <1>3. CASE W_Idle(Advance)
    BY <1>3 DEF W_Idle
  <1>4. CASE W_Write(instr4, PC4, reg_DI4, ALU_result4)
    <2>1. RegNext(Reg4, instr4, reg_DI4) \in [Reg -> Word]
      BY SignalTypes, RegNextType
    <2>2. CsrNext(CSR4, instr4, PC4, ALU_result4) \in CsrRegs
      BY CsrNextType
    <2>3. instr4.rd \in Reg
      BY DEF Instr
    <2>. QED BY <1>4, <2>1, <2>2, <2>3 DEF W_Write
  <1>5. CASE W_NoWrite(instr4)
    BY <1>5 DEF W_NoWrite, Legal, ERROR
  <1>6. CASE W_Wait
    BY <1>6, RegZero DEF W_Wait
  <1>. QED BY <1>2, <1>3, <1>4, <1>5, <1>6 DEF RegFileTick

LEMMA StagesType ==
  ASSUME TypeOK, NEW iresp, NEW dresp, Cycle(iresp, dresp)
  PROVE  StagesTypeOK'
  <1>1. Stages /\ Commit
    BY DEF Cycle, Pipeline
  <1>2. TypeOK /\ ALU_result2 \in Word /\ reg_Q2 \in Word
    BY SignalTypes
  <1>. QED
    BY <1>1, <1>2 DEF Stages, Commit, stageVars, reportVars, TypeOK, StagesTypeOK,
       MemTypeOK, RegFileTypeOK

\* Everything of TypeOK but the scoreboard.
LEMMA RestType ==
  ASSUME TypeOK, NEW iresp \in IResponses, NEW dresp \in DResponses,
         Cycle(iresp, dresp)
  PROVE  /\ cu_valid' \in BOOLEAN /\ mod_reg_inc' \in Reg
         /\ alu_valid' \in BOOLEAN /\ mul_left' \in Nat
         /\ dmem' \in [Cell -> Word] /\ cmem' \in [Cell -> Word]
  <1>1. cu_valid' \in BOOLEAN /\ mod_reg_inc' \in Reg
    <2>1. instr1.rd \in Reg
      BY DEF TypeOK, StagesTypeOK, Instr
    <2>2. ControlUnit
      BY DEF Cycle, Pipeline
    <2>. QED BY <2>1, <2>2, RegZero DEF ControlUnit, Advance
  <1>2. alu_valid' \in BOOLEAN /\ mul_left' \in Nat
    <2>1. PICK latency \in MulLatency : Alu(latency)
      BY DEF Cycle, Pipeline
    <2>2. latency \in Nat /\ mul_left \in Nat
      BY LatencyAssumption DEF TypeOK
    <2>. QED BY <2>1, <2>2 DEF Alu, Advance
  <1>3. dmem' \in [Cell -> Word]
    <2>1. dreq.addr \in Word /\ dreq.data \in Word /\ dmem \in [Cell -> Word]
      BY DEF TypeOK, MemTypeOK, DataRequest
    <2>2. Bus(dresp)
      BY DEF Cycle, Pipeline
    <2>. QED BY <2>1, <2>2, WrittenType DEF Bus
  <1>4. cmem' \in [Cell -> Word]
    <2>1. ALU_result4 \in Word /\ reg_Q24 \in Word /\ cmem \in [Cell -> Word]
      BY DEF TypeOK, StagesTypeOK
    <2>2. Commit
      BY DEF Cycle, Pipeline
    <2>3. Written(cmem, Physical(CSR4, ALU_result4), reg_Q24) \in [Cell -> Word]
      BY <2>1, PhysicalInWord, WrittenType
    <2>. QED BY <2>1, <2>2, <2>3 DEF Commit
  <1>. QED BY <1>1, <1>2, <1>3, <1>4

(***************************************************************************)
(* The handshake of the counting units                                     *)
(***************************************************************************)
\* What an instruction writes is decoded, so W_Write is the case WREG.
LEMMA WritersAreLegal == ASSUME NEW i, WREG(i) PROVE Legal(i)
  BY DEF WREG, Legal, ERROR

LEMMA HandshakeStep ==
  ASSUME TypeOK, Handshake, NEW iresp, NEW dresp, Cycle(iresp, dresp)
  PROVE  Handshake'
  <1>1. /\ ControlUnit /\ Stages
        /\ RegFileTick(Advance, instr4, PC4, reg_DI4, ALU_result4)
    BY DEF Cycle, Pipeline
  <1>2. instr1.rd \in Reg /\ instr4.rd \in Reg /\ rf_state \in {"IDLE", "DOING", "WAIT"}
    BY DEF TypeOK, StagesTypeOK, RegFileTypeOK, Instr
  <1>3. Advance \in BOOLEAN /\ (Advance => ~flush_W)
    BY DEF Advance
  <1>4. ~Advance => instr1' = instr1 /\ instr4' = instr4
    BY <1>1 DEF Stages, stageVars
  <1>. USE <1>1, <1>2, <1>3, <1>4 DEF Handshake, ControlUnit
  <1>5. CASE W_Idle(Advance)
    BY <1>5 DEF W_Idle
  <1>6. CASE W_Write(instr4, PC4, reg_DI4, ALU_result4)
    BY <1>6 DEF W_Write
  <1>7. CASE W_NoWrite(instr4)
    BY <1>7 DEF W_NoWrite
  <1>8. CASE W_Wait
    BY <1>8 DEF W_Wait
  <1>. QED BY <1>5, <1>6, <1>7, <1>8 DEF RegFileTick

(***************************************************************************)
(* The scoreboard                                                          *)
(***************************************************************************)
LEMMA ScoreboardStep ==
  ASSUME TypeOK, Handshake, ScoreboardExact, NEW iresp, NEW dresp, Cycle(iresp, dresp)
  PROVE  ScoreboardExact' /\ modify_reg' \in [Reg -> {0, 1, 2, 4, 8}]
  <1>1. /\ ControlUnit /\ Stages /\ Scoreboard
        /\ RegFileTick(Advance, instr4, PC4, reg_DI4, ALU_result4)
    BY DEF Cycle, Pipeline
  <1>2. /\ instr1.rd \in Reg /\ instr4.rd \in Reg
        /\ mod_reg_inc \in Reg /\ mod_reg_dec \in Reg /\ Reg \subseteq Int
    BY DEF TypeOK, StagesTypeOK, RegFileTypeOK, Instr, Reg
  <1>3. Advance => ~flush_W
    BY DEF Advance
  <1>4. ASSUME NEW r \in Reg, r # 0
        PROVE  /\ modify_reg'[r] = OneHot(InFlightWriters(r)')
               /\ modify_reg'[r] \in {1, 2, 4, 8}
    <2>. DEFINE d == Writes(instr1, r)
                e == Writes(instr2, r)
                m == Writes(instr3, r)
                w == Writes(instr4, r)
    <2>1. modify_reg[r] = OneHot(One(d /\ CountedD) + One(e) + One(m) + One(w /\ Unwritten))
      BY <1>4 DEF ScoreboardExact, InFlightWriters
    <2>2. /\ d \in BOOLEAN /\ e \in BOOLEAN /\ m \in BOOLEAN /\ w \in BOOLEAN
      BY DEF Writes, WREG
    <2>3. modify_reg'[r] =
            IF mod_reg_dec = mod_reg_inc THEN modify_reg[r]
            ELSE IF r = mod_reg_dec THEN modify_reg[r] \div 2
            ELSE IF r = mod_reg_inc THEN (modify_reg[r] * 2) % 32
            ELSE modify_reg[r]
      BY <1>1, <1>4 DEF Scoreboard
    <2>4. CASE Advance
      <3>1. /\ rf_state = "IDLE" /\ mod_reg_dec = 0 /\ ~cu_valid /\ ~Unwritten
        BY <2>4, <1>3 DEF Handshake, Unwritten
      <3>2. /\ instr2' = instr1 /\ instr3' = instr2 /\ instr4' = instr3
            /\ cu_valid' /\ rf_state' = "DOING"
        BY <2>4, <1>1, <3>1 DEF Stages, ControlUnit, RegFileTick, W_Idle, W_Write,
           W_NoWrite, W_Wait
      <3>3. InFlightWriters(r)' = One(FALSE) + One(d) + One(e) + One(m)
        BY <3>2 DEF InFlightWriters, Writes, CountedD, Unwritten, One
      <3>4. (r = mod_reg_inc => d) /\ (d /\ mod_reg_inc # 0 => r = mod_reg_inc)
        BY <1>4, <3>1 DEF Handshake, Writes
      <3>5. CASE r = mod_reg_inc
        <4>1. d /\ ~CountedD
          BY <3>4, <3>5, <1>4 DEF CountedD
        <4>. QED BY <4>1, <3>1, <3>3, <3>5, <2>1, <2>2, <2>3, <1>4 DEF OneHot, One
      <3>6. CASE r # mod_reg_inc
        <4>1. d => CountedD
          BY <3>4, <3>6, <3>1, <1>4 DEF CountedD
        <4>. QED BY <4>1, <3>1, <3>3, <3>6, <2>1, <2>2, <2>3, <1>4 DEF OneHot, One
      <3>. QED BY <3>5, <3>6
    <2>5. CASE ~Advance
      <3>1. /\ instr1' = instr1 /\ instr2' = instr2 /\ instr3' = instr3 /\ instr4' = instr4
            /\ ~cu_valid'
        BY <2>5, <1>1 DEF Stages, stageVars, ControlUnit
      <3>2. InFlightWriters(r)' =
              One(d /\ mod_reg_inc' = 0) + One(e) + One(m) + One(w /\ rf_state' # "IDLE")
        BY <3>1 DEF InFlightWriters, Writes, CountedD, Unwritten
      <3>3. CASE rf_state = "DOING"
        <4>1. mod_reg_inc = 0 /\ mod_reg_dec = 0 /\ ~CountedD /\ Unwritten
          BY <3>3 DEF Handshake, CountedD, Unwritten
        <4>2. d => mod_reg_inc' # 0
          BY <1>1, <1>4, <3>3 DEF ControlUnit, Handshake, Writes
        <4>3. w => rf_state' # "IDLE"
          BY <1>1, <3>3, WritersAreLegal DEF RegFileTick, W_Idle, W_Write, W_NoWrite,
             W_Wait, Writes
        <4>. QED BY <4>1, <4>2, <4>3, <3>2, <2>1, <2>2, <2>3, <1>4 DEF OneHot, One
      <3>4. CASE rf_state = "WAIT"
        <4>1. /\ rf_state' = "IDLE" /\ mod_reg_inc' = 0 /\ Unwritten
          BY <1>1, <3>4 DEF RegFileTick, W_Idle, W_Write, W_NoWrite, W_Wait,
             ControlUnit, Handshake, Unwritten
        <4>2. (w <=> r = mod_reg_dec) /\ (d <=> r = mod_reg_inc)
          BY <1>4, <3>4 DEF Handshake, Writes
        <4>3. ~(d /\ CountedD)
          BY <4>2, <1>4 DEF CountedD
        <4>. QED BY <4>1, <4>2, <4>3, <3>2, <2>1, <2>2, <2>3, <1>4 DEF OneHot, One
      <3>5. CASE rf_state = "IDLE"
        <4>1. /\ rf_state' = "IDLE" /\ mod_reg_inc' = 0 /\ mod_reg_dec = 0
              /\ ~cu_valid /\ ~Unwritten
          BY <1>1, <2>5, <3>5 DEF RegFileTick, W_Idle, W_Write, W_NoWrite, W_Wait,
             ControlUnit, Handshake, Unwritten
        <4>2. (r = mod_reg_inc => d) /\ (d /\ mod_reg_inc # 0 => r = mod_reg_inc)
          BY <1>4 DEF Handshake, Writes
        <4>3. CASE r = mod_reg_inc
          <5>1. d /\ ~CountedD
            BY <4>2, <4>3, <1>4 DEF CountedD
          <5>. QED BY <5>1, <4>1, <4>3, <3>2, <2>1, <2>2, <2>3, <1>4 DEF OneHot, One
        <4>4. CASE r # mod_reg_inc
          <5>1. d => CountedD
            BY <4>1, <4>2, <4>4, <1>4 DEF CountedD
          <5>. QED BY <5>1, <4>1, <4>4, <3>2, <2>1, <2>2, <2>3, <1>4 DEF OneHot, One
        <4>. QED BY <4>3, <4>4
      <3>. QED BY <3>3, <3>4, <3>5 DEF TypeOK, RegFileTypeOK
    <2>. QED BY <2>4, <2>5
  <1>5. modify_reg' \in [Reg -> {0, 1, 2, 4, 8}]
    <2>1. modify_reg'[0] = modify_reg[0] /\ modify_reg[0] \in {0, 1, 2, 4, 8}
      BY <1>1, RegZero DEF Scoreboard, TypeOK
    <2>2. DOMAIN modify_reg' = Reg /\ modify_reg' = [r \in Reg |-> modify_reg'[r]]
      BY <1>1 DEF Scoreboard, TypeOK
    <2>3. \A r \in Reg : modify_reg'[r] \in {0, 1, 2, 4, 8}
      BY <1>4, <2>1
    <2>. QED BY <2>2, <2>3
  <1>. QED BY <1>4, <1>5 DEF ScoreboardExact

(***************************************************************************)
(* Where the fetch unit is                                                 *)
(***************************************************************************)
LEMMA FetchTimingStep ==
  ASSUME TypeOK, Handshake, FetchTiming, NEW iresp, NEW dresp, Cycle(iresp, dresp)
  PROVE  FetchTiming'
  <1>. DEFINE xlate == Translating(CSR4)
  <1>1. /\ ControlUnit /\ Stages
        /\ MemTick(Advance, instr2, ALU_result2, reg_Q2, xlate, PC_in, modify_reg, iresp, dresp)
    BY DEF Cycle, Pipeline
  <1>2. Advance => ~flush_F
    BY DEF Advance
  <1>3. Advance \in BOOLEAN /\ (~Advance => instr1' = instr1) /\ (Advance => instr1' = instruction)
    BY <1>1 DEF Stages, stageVars, Advance
  <1>4. /\ state \in State /\ backtoI \in {"I_IDLE", "I_BUBBLE1", "I_BUBBLE2", "I_BUBBLE3"}
        /\ flush_F \in BOOLEAN /\ cu_valid \in BOOLEAN
    BY DEF TypeOK, MemTypeOK
  <1>5. cu_valid' = Advance /\ (~cu_valid => mod_reg_inc' = 0)
        /\ (instr1 = Bubble => mod_reg_inc' = 0)
    BY <1>1 DEF ControlUnit, WREG, Bubble
  <1>. USE <1>2, <1>3, <1>4, <1>5 DEF FetchTiming, State
  <1>7. CASE D_Wait(Advance)
    BY <1>7 DEF D_Wait, memVars
  <1>8. CASE D_Pass(Advance, instr2)
    BY <1>8 DEF D_Pass
  <1>9. CASE D_Accept(Advance, instr2, ALU_result2, reg_Q2, xlate)
    BY <1>9 DEF D_Accept
  <1>10. CASE D_Prepare
    BY <1>10 DEF D_Prepare, fetchVars
  <1>11. CASE D_GetPage1
    BY <1>11 DEF D_GetPage1, fetchVars
  <1>12. CASE D_GetPage2(dresp)
    BY <1>12 DEF D_GetPage2, fetchVars
  <1>13. CASE D_GetPage3(dresp)
    BY <1>13 DEF D_GetPage3, fetchVars
  <1>14. CASE D_RequestSent(dresp)
    BY <1>14 DEF D_RequestSent, fetchVars
  <1>15. CASE D_ResponseReceived
    BY <1>15 DEF D_ResponseReceived, fetchVars
  <1>16. CASE I_Idle
    BY <1>16 DEF I_Idle
  <1>17. CASE I_Bubble3
    BY <1>17 DEF I_Bubble3, fetchVars
  <1>18. CASE I_Prepare(xlate)
    BY <1>18 DEF I_Prepare, fetchVars
  <1>19. CASE I_Fetched(iresp)
    BY <1>19 DEF I_Fetched
  <1>20. CASE I_RequestSent(iresp, dresp)
    BY <1>20 DEF I_RequestSent, fetchVars
  <1>21. CASE I_GetPage2(dresp)
    BY <1>21 DEF I_GetPage2, fetchVars
  <1>22. CASE I_GetPage3(dresp)
    BY <1>22 DEF I_GetPage3, fetchVars
  <1>23. CASE I_GetInstrHazard(modify_reg)
    BY <1>23 DEF I_GetInstrHazard
  <1>24. CASE I_GetInstr(modify_reg)
    BY <1>24 DEF I_GetInstr, fetchVars
  <1>25. CASE I_Bubble1
    BY <1>25 DEF I_Bubble1
  <1>26. CASE I_Bubble2a
    BY <1>26 DEF I_Bubble2a, fetchVars
  <1>27. CASE I_Bubble2
    BY <1>27 DEF I_Bubble2
  <1>28. CASE I_ResponseReceived(PC_in)
    BY <1>28 DEF I_ResponseReceived
  <1>. QED
    BY <1>1, <1>7, <1>8, <1>9, <1>10, <1>11, <1>12, <1>13, <1>14, <1>15, <1>16,
       <1>17, <1>18, <1>19, <1>20, <1>21, <1>22, <1>23, <1>24, <1>25, <1>26,
       <1>27, <1>28 DEF MemTick

(***************************************************************************)
(* No stale operand                                                        *)
(***************************************************************************)
\* An instruction that passes the check of the scoreboard is settled.
LEMMA CheckedIsSettled ==
  ASSUME TypeOK, Handshake, ScoreboardExact, FetchTiming,
         state = "I_GET_INSTR", ~DataHazard(modify_reg, instruction)
  PROVE  Settled(instruction, {instr1, instr2, instr3})
  <1>1. CountedD
    BY DEF FetchTiming, CountedD
  <1>2. ASSUME NEW r \in Reg \ {0}, Names(instruction, r)
        PROVE  /\ ~Writes(instr1, r) /\ ~Writes(instr2, r) /\ ~Writes(instr3, r)
               /\ ~(Writes(instr4, r) /\ Unwritten)
    <2>1. modify_reg[r] \in {0, 1, 2, 4, 8} /\ ~(modify_reg[r] > 1)
      BY <1>2 DEF DataHazard, Names, TypeOK
    <2>2. modify_reg[r] =
            OneHot(One(Writes(instr1, r) /\ CountedD) + One(Writes(instr2, r)) +
                   One(Writes(instr3, r)) + One(Writes(instr4, r) /\ Unwritten))
      BY DEF ScoreboardExact, InFlightWriters
    <2>3. OneHot(One(Writes(instr1, r) /\ CountedD) + One(Writes(instr2, r)) +
                 One(Writes(instr3, r)) + One(Writes(instr4, r) /\ Unwritten)) \in {0, 1}
      BY <2>1, <2>2
    <2>. QED BY <2>3, <1>1 DEF OneHot, One
  <1>. QED BY <1>2 DEF Settled

LEMMA BubbleIsSettled == ASSUME NEW S PROVE Settled(Bubble, S)
  BY DEF Settled, Names, Bubble

LEMMA HazardFreeStep ==
  ASSUME TypeOK, Handshake, ScoreboardExact, FetchTiming, HazardFree,
         NEW iresp, NEW dresp, Cycle(iresp, dresp)
  PROVE  HazardFree'
  <1>. DEFINE xlate == Translating(CSR4)
  <1>1. /\ Stages /\ RegFileTick(Advance, instr4, PC4, reg_DI4, ALU_result4)
        /\ MemTick(Advance, instr2, ALU_result2, reg_Q2, xlate, PC_in, modify_reg, iresp, dresp)
    BY DEF Cycle, Pipeline
  <1>2. CASE Advance
    <2>1. state = "D_IDLE" /\ ~Unwritten
      BY <1>2 DEF Advance, Handshake, FetchTiming, Unwritten, TypeOK, RegFileTypeOK, MemTypeOK
    <2>2. instr1' = instruction /\ instr2' = instr1 /\ instr3' = instr2 /\ instr4' = instr3
      BY <1>1, <1>2 DEF Stages
    <2>3. instruction' = Bubble
      BY <1>1, <1>2, <2>1 DEF MemTick, D_Wait, D_Pass, D_Accept, D_Prepare, D_GetPage1,
         D_GetPage2, D_GetPage3, D_RequestSent, D_ResponseReceived, I_Idle, I_Bubble3,
         I_Prepare, I_Fetched, I_RequestSent, I_GetPage2, I_GetPage3, I_GetInstrHazard,
         I_GetInstr, I_Bubble1, I_Bubble2a, I_Bubble2, I_ResponseReceived
    <2>4. Settled(instruction, {instr1, instr2, instr3})'
      BY <2>3 DEF Settled, Names, Bubble
    <2>5. /\ Settled(instruction, {instr1, instr2, instr3})
          /\ Settled(instr1, {instr2, instr3})
      BY <2>1 DEF HazardFree
    <2>6. Settled(instr1, {instr2, instr3})'
      BY <2>2, <2>5 DEF Settled, Names, Writes
    <2>7. Settled(instr2, {instr3})'
      BY <2>2, <2>5 DEF Settled, Names, Writes
    <2>. QED BY <2>4, <2>6, <2>7 DEF HazardFree
  <1>3. CASE ~Advance
    <2>1. instr1' = instr1 /\ instr2' = instr2 /\ instr3' = instr3 /\ instr4' = instr4
      BY <1>1, <1>3 DEF Stages, stageVars
    <2>2. Unwritten' => Unwritten
      BY <1>1, <1>3 DEF RegFileTick, W_Idle, W_Write, W_NoWrite, W_Wait, Unwritten
    <2>3. Settled(instr1, {instr2, instr3})' /\ Settled(instr2, {instr3})'
      BY <2>1, <2>2 DEF Settled, Names, Writes, HazardFree
    <2>4. ASSUME state' # "I_GET_INSTR"
          PROVE  Settled(instruction, {instr1, instr2, instr3})'
      <3>1. ASSUME Settled(instruction, {instr1, instr2, instr3}), instruction' = instruction
            PROVE  Settled(instruction, {instr1, instr2, instr3})'
        BY <3>1, <2>1, <2>2 DEF Settled, Names, Writes
      <3>2. ASSUME instruction' = Bubble
            PROVE  Settled(instruction, {instr1, instr2, instr3})'
        BY <3>2 DEF Settled, Names, Bubble
      <3>3. CASE state = "I_GET_INSTR"
        <4>1. I_GetInstrHazard(modify_reg) \/ I_GetInstr(modify_reg)
          BY <1>1, <3>3 DEF MemTick, D_Wait, D_Pass, D_Accept, D_Prepare, D_GetPage1,
             D_GetPage2, D_GetPage3, D_RequestSent, D_ResponseReceived, I_Idle, I_Bubble3,
             I_Prepare, I_Fetched, I_RequestSent, I_GetPage2, I_GetPage3, I_Bubble1,
             I_Bubble2a, I_Bubble2, I_ResponseReceived
        <4>2. CASE I_GetInstrHazard(modify_reg)
          BY <4>2, <3>2 DEF I_GetInstrHazard
        <4>3. CASE I_GetInstr(modify_reg)
          <5>1. Settled(instruction, {instr1, instr2, instr3})
            BY <4>3, CheckedIsSettled DEF I_GetInstr
          <5>. QED BY <5>1, <3>1, <4>3 DEF I_GetInstr, fetchVars
        <4>. QED BY <4>1, <4>2, <4>3
      <3>4. CASE state # "I_GET_INSTR"
        <4>1. Settled(instruction, {instr1, instr2, instr3})
          BY <3>4 DEF HazardFree
        <4>2. instruction' = instruction \/ instruction' = Bubble
          BY <1>1, <2>4, <3>4 DEF MemTick, memVars, fetchVars, D_Wait, D_Pass, D_Accept, D_Prepare,
             D_GetPage1, D_GetPage2, D_GetPage3, D_RequestSent, D_ResponseReceived, I_Idle,
             I_Bubble3, I_Prepare, I_Fetched, I_RequestSent, I_GetPage2, I_GetPage3,
             I_GetInstrHazard, I_GetInstr, I_Bubble1, I_Bubble2a, I_Bubble2,
             I_ResponseReceived
        <4>. QED BY <4>1, <4>2, <3>1, <3>2
      <3>. QED BY <3>3, <3>4
    <2>. QED BY <2>3, <2>4 DEF HazardFree
  <1>. QED BY <1>2, <1>3

(***************************************************************************)
(* The inductive invariant and its consequences                            *)
(***************************************************************************)
LEMMA InitInv == Init => IInv
  <1>. SUFFICES ASSUME Init PROVE IInv
    OBVIOUS
  <1>. USE BubbleInstr, SmallWords, RegZero, InitTypes
  <1>1. MemTypeOK
    BY DEF Init, MemInit, MemTypeOK, State, DataRequest, NoRequest
  <1>2. RegFileTypeOK
    BY DEF Init, RegFileInit, RegFileTypeOK
  <1>3. StagesTypeOK
    BY DEF Init, StagesTypeOK
  <1>4. TypeOK
    BY <1>1, <1>2, <1>3 DEF Init, TypeOK
  <1>5. Handshake
    BY DEF Init, RegFileInit, Handshake, Bubble, WREG
  <1>6. ScoreboardExact
    BY DEF Init, ScoreboardExact, InFlightWriters, OneHot, One, Writes, WREG, Bubble
  <1>7. FetchTiming
    BY DEF Init, MemInit, FetchTiming
  <1>8. HazardFree
    BY BubbleIsSettled DEF Init, MemInit, HazardFree
  <1>. QED BY <1>4, <1>5, <1>6, <1>7, <1>8 DEF IInv

LEMMA StepInv == IInv /\ [Next]_vars => IInv'
  <1>. SUFFICES ASSUME IInv, [Next]_vars PROVE IInv'
    OBVIOUS
  <1>1. CASE Next
    <2>1. PICK iresp \in IResponses, dresp \in DResponses : Cycle(iresp, dresp)
      BY <1>1 DEF Next
    <2>2. TypeOK /\ Handshake /\ ScoreboardExact /\ FetchTiming /\ HazardFree
      BY DEF IInv
    <2>3. MemTypeOK' /\ RegFileTypeOK' /\ StagesTypeOK'
      BY <2>1, <2>2, MemUnitType, RegFileType, StagesType
    <2>4. ScoreboardExact' /\ modify_reg' \in [Reg -> {0, 1, 2, 4, 8}]
      BY <2>1, <2>2, ScoreboardStep
    <2>5. TypeOK'
      BY <2>1, <2>2, <2>3, <2>4, RestType DEF TypeOK
    <2>6. Handshake' /\ FetchTiming' /\ HazardFree'
      BY <2>1, <2>2, HandshakeStep, FetchTimingStep, HazardFreeStep
    <2>. QED BY <2>4, <2>5, <2>6 DEF IInv
  <1>2. CASE UNCHANGED vars
    <2>1. TypeOK' /\ Handshake'
      BY <1>2 DEF IInv, vars, memVars, rfVars, stageVars, reportVars, TypeOK, MemTypeOK,
         RegFileTypeOK, StagesTypeOK, Handshake
    <2>2. ScoreboardExact'
      BY <1>2 DEF IInv, vars, rfVars, stageVars, ScoreboardExact, InFlightWriters, Writes,
         CountedD, Unwritten
    <2>3. FetchTiming'
      BY <1>2 DEF IInv, vars, memVars, stageVars, FetchTiming
    <2>4. HazardFree'
      BY <1>2 DEF IInv, vars, memVars, rfVars, stageVars, HazardFree, Settled, Names, Writes,
         Unwritten
    <2>. QED BY <2>1, <2>2, <2>3, <2>4 DEF IInv
  <1>. QED BY <1>1, <1>2

\* The inductive invariant holds of every behaviour.
THEOREM Invariance == Spec => []IInv
  BY InitInv, StepInv, PTL DEF Spec

\* Type correctness: in particular the five bits of a scoreboard entry never
\* overflow and an entry never shifts down to zero (top.sv:44-66).
THEOREM TypeCorrect == Spec => []TypeOK
  <1>1. IInv => TypeOK
    BY DEF IInv
  <1>. QED BY <1>1, Invariance, PTL

\* The scoreboard counts the unfinished writers of each register exactly.
THEOREM ScoreboardIsExact == Spec => []ScoreboardExact
  <1>1. IInv => ScoreboardExact
    BY DEF IInv
  <1>. QED BY <1>1, Invariance, PTL

\* The operands of the instruction in E are those of program order: the pipeline
\* needs no forwarding (MEM.sv:340).
THEOREM NoStaleOperand == Spec => []OperandsSettled
  <1>1. IInv => OperandsSettled
    BY DEF IInv, HazardFree, Settled, OperandsSettled
  <1>. QED BY <1>1, Invariance, PTL

-----------------------------------------------------------------------------
(***************************************************************************)
(* The pipeline implements the instruction set: RInv of CoreInv is an      *)
(* invariant, and under it a clock edge that advances the pipeline is an   *)
(* instruction of Isa and any other edge is a stutter.                     *)
(***************************************************************************)

(***************************************************************************)
(* The two kinds of clock edge                                             *)
(***************************************************************************)
\* At an advance the fetch unit was offering and every stage is loaded.
LEMMA AdvanceEdge ==
  ASSUME RInv, NEW iresp \in IResponses, NEW dresp \in DResponses,
         Cycle(iresp, dresp), Advance
  PROVE  /\ state = "D_IDLE" /\ rf_state = "IDLE" /\ ~Unwritten
         /\ instr1' = instruction /\ PC1' = current_pc
         /\ instr2' = instr1 /\ PC2' = PC1
         /\ instr3' = instr2 /\ PC3' = PC2
         /\ instr4' = instr3 /\ PC4' = PC3
         /\ ALU_result3' = ALU_result2 /\ reg_Q23' = reg_Q2
         /\ ALU_result4' = ALU_result3 /\ reg_Q24' = reg_Q23
         /\ Memory_Data4' = Memory_Data /\ skip4' = skip3
         /\ instruction' = Bubble /\ current_pc' = requested_pc
         /\ UNCHANGED <<requested_pc, backtoI, delay_instruction, bubble, CSR_wait,
                        Memory_Data, ireq, dreq, dmem, Reg4, CSR4>>
         /\ rf_state' = "DOING"
         /\ Reg5' = Reg4 /\ CSR5' = CSR4
         /\ instr5' = instr4 /\ commit5' = commit4
         /\ cmem' = IF commit4 /\ WMEM(instr4)
                    THEN Written(cmem, Physical(CSR4, ALU_result4), reg_Q24) ELSE cmem
         /\ \/ /\ ~DMenable(instr2) /\ state' = backtoI /\ skip3' = FALSE
            \/ /\ DMenable(instr2) /\ skip3' = IsDevice(ALU_result2)
               /\ state' = IF Translating(CSR4) THEN "D_GET_PAGE1" ELSE "D_PREPARE"
               /\ lock' = [addr |-> ALU_result2, strobe |-> WMEM(instr2),
                           data |-> IF WMEM(instr2) THEN reg_Q2 ELSE 0]
  <1>. DEFINE xlate == Translating(CSR4)
  <1>1. /\ Stages /\ Commit /\ Bus(dresp)
        /\ RegFileTick(Advance, instr4, PC4, reg_DI4, ALU_result4)
        /\ MemTick(Advance, instr2, ALU_result2, reg_Q2, xlate, PC_in, modify_reg, iresp, dresp)
    BY DEF Cycle, Pipeline
  <1>2. state = "D_IDLE" /\ rf_state = "IDLE" /\ ~Unwritten
    BY DEF RInv, IInv, Advance, Handshake, FetchTiming, Unwritten, TypeOK, RegFileTypeOK,
       MemTypeOK
  <1>3. W_Idle(Advance)
    BY <1>1, <1>2 DEF RegFileTick, W_Write, W_NoWrite, W_Wait
  <1>4. D_Pass(Advance, instr2) \/ D_Accept(Advance, instr2, ALU_result2, reg_Q2, xlate)
    BY <1>1, <1>2 DEF MemTick, D_Wait, D_Prepare, D_GetPage1, D_GetPage2, D_GetPage3,
       D_RequestSent, D_ResponseReceived, I_Idle, I_Bubble3, I_Prepare, I_Fetched,
       I_RequestSent, I_GetPage2, I_GetPage3, I_GetInstrHazard, I_GetInstr, I_Bubble1,
       I_Bubble2a, I_Bubble2, I_ResponseReceived
  <1>5. ~dreq.valid
    BY <1>2 DEF RInv, MemInv, Requests, Walking
  <1>6. UNCHANGED dmem
    BY <1>1, <1>5 DEF Bus, DResponses
  <1>7. UNCHANGED <<Reg4, CSR4>> /\ rf_state' = "DOING"
    BY <1>3 DEF W_Idle
  <1>8. /\ instruction' = Bubble /\ current_pc' = requested_pc
        /\ UNCHANGED <<requested_pc, backtoI, delay_instruction, bubble, CSR_wait,
                       Memory_Data, ireq, dreq>>
    BY <1>4 DEF D_Pass, D_Accept
  <1>9. \/ /\ ~DMenable(instr2) /\ state' = backtoI /\ skip3' = FALSE
        \/ /\ DMenable(instr2) /\ skip3' = IsDevice(ALU_result2)
           /\ state' = IF Translating(CSR4) THEN "D_GET_PAGE1" ELSE "D_PREPARE"
           /\ lock' = [addr |-> ALU_result2, strobe |-> WMEM(instr2),
                       data |-> IF WMEM(instr2) THEN reg_Q2 ELSE 0]
    BY <1>4 DEF D_Pass, D_Accept
  <1>. QED BY <1>1, <1>2, <1>6, <1>7, <1>8, <1>9 DEF Stages, Commit

\* At any other edge the stages and what is reported stay, and write-back goes on.
LEMMA OtherEdge ==
  ASSUME RInv, NEW iresp, NEW dresp, Cycle(iresp, dresp), ~Advance
  PROVE  /\ UNCHANGED <<stageVars, reportVars, cmem>>
         /\ \/ rf_state = "IDLE" /\ UNCHANGED <<rf_state, Reg4, CSR4, commit4>>
            \/ rf_state = "WAIT" /\ rf_state' = "IDLE" /\ UNCHANGED <<Reg4, CSR4, commit4>>
            \/ /\ rf_state = "DOING" /\ rf_state' \in {"IDLE", "WAIT"}
               /\ commit4' = Legal(instr4)
               /\ Reg4' = RegNext(Reg4, instr4, reg_DI4)
               /\ CSR4' = CsrNext(CSR4, instr4, PC4, ALU_result4)
         /\ Unwritten' => Unwritten
  <1>1. /\ Stages /\ Commit /\ RegFileTick(Advance, instr4, PC4, reg_DI4, ALU_result4)
    BY DEF Cycle, Pipeline
  <1>2. UNCHANGED <<stageVars, reportVars, cmem>>
    BY <1>1 DEF Stages, Commit
  <1>3. CASE W_Idle(Advance)
    BY <1>2, <1>3 DEF W_Idle, Unwritten
  <1>4. CASE W_Write(instr4, PC4, reg_DI4, ALU_result4)
    BY <1>2, <1>4 DEF W_Write, Unwritten
  <1>5. CASE W_NoWrite(instr4)
    <2>1. ~WREG(instr4)
      BY <1>5, WritersAreLegal DEF W_NoWrite
    <2>2. RegNext(Reg4, instr4, reg_DI4) = Reg4
      BY <2>1 DEF RegNext
    <2>3. CsrNext(CSR4, instr4, PC4, ALU_result4) = CSR4
      BY <2>1 DEF CsrNext, WREG
    <2>. QED BY <1>2, <1>5, <2>2, <2>3 DEF W_NoWrite, Unwritten
  <1>6. CASE W_Wait
    BY <1>2, <1>6 DEF W_Wait, Unwritten
  <1>. QED BY <1>1, <1>3, <1>4, <1>5, <1>6 DEF RegFileTick

(***************************************************************************)
(* Where the instructions are                                              *)
(***************************************************************************)
LEMMA KindsOfBubble ==
  /\ ~IsCsr(Bubble) /\ ~IsJump(Bubble) /\ ~Trap(Bubble) /\ ~Redirects(Bubble)
  /\ ~DMenable(Bubble) /\ ~WREG(Bubble) /\ ~WMEM(Bubble) /\ ~Legal(Bubble)
  /\ Bubble.op = "BUBBLE"
  BY DEF Bubble, IsCsr, IsJump, Trap, Redirects, DMenable, WREG, WMEM, Legal, ERROR

LEMMA KindsOfInstruction ==
  ASSUME NEW i
  PROVE  /\ Redirects(i) \in BOOLEAN /\ Trap(i) \in BOOLEAN /\ IsCsr(i) \in BOOLEAN
         /\ Trap(i) => Redirects(i) /\ IsCsr(i) /\ i.op # "CSRRW"
         /\ i.op = "CSRRW" => IsCsr(i) /\ ~Redirects(i)
         /\ IsCsr(i) => Trap(i) \/ i.op = "CSRRW"
         /\ IsCsr(i) => ~DMenable(i) /\ WREG(i)
         /\ Redirects(i) => ~DMenable(i)
         /\ Redirects(i) <=> IsJump(i) \/ Trap(i)
         /\ Trap(i) <=> i.op \in {"MRET", "ECALL"}
  BY DEF IsCsr, IsJump, Trap, Redirects, DMenable, WREG

LEMMA FetchInvAdvance ==
  ASSUME RInv, NEW iresp \in IResponses, NEW dresp \in DResponses,
         Cycle(iresp, dresp), Advance
  PROVE  Contents' /\ CsrAlone' /\ FetchShape'
  <1>1. /\ state = "D_IDLE" /\ instr1' = instruction /\ instr2' = instr1
        /\ instr3' = instr2 /\ instr4' = instr3
        /\ instruction' = Bubble /\ rf_state' = "DOING"
        /\ UNCHANGED <<backtoI, delay_instruction, bubble, CSR_wait>>
        /\ \/ ~DMenable(instr2) /\ state' = backtoI
           \/ DMenable(instr2) /\ state' \in {"D_GET_PAGE1", "D_PREPARE"}
    BY AdvanceEdge
  <1>2. /\ Contents /\ CsrAlone /\ FetchShape
        /\ backtoI \in {"I_IDLE", "I_BUBBLE1", "I_BUBBLE2", "I_BUBBLE3"}
        /\ backtoI = "I_BUBBLE1" => instruction = Bubble
    BY DEF RInv, FetchInv, IInv, TypeOK, MemTypeOK, FetchTiming
  <1>. USE <1>1, <1>2, KindsOfBubble, KindsOfInstruction
  <1>3. Contents'
    BY DEF Contents, Fetched
  <1>4. CsrAlone'
    BY DEF CsrAlone, Offering, Real, Empty1, Empty2, Empty3
  <1>. SUFFICES FetchShape'
    BY <1>3, <1>4
  <1>5. CASE backtoI = "I_BUBBLE1"
    <2>1. BehindHazard
      BY <1>5 DEF FetchShape
    <2>2. BehindHazard'
      BY <1>5, <2>1 DEF BehindHazard, Calm, CsrInFlight, Empty1, Empty2, Empty3, Empty4,
         Unwritten
    <2>. QED BY <1>5, <2>2 DEF FetchShape
  <1>6. CASE backtoI = "I_BUBBLE2"
    <2>1. BehindJump
      BY <1>6 DEF FetchShape
    <2>2. BehindJump'
      BY <1>6, <2>1 DEF BehindJump, Jumps, Changes, Empty1, CsrAlone, Real
    <2>. QED BY <1>6, <2>2 DEF FetchShape
  <1>7. CASE backtoI = "I_BUBBLE3"
    <2>1. BehindTrap
      BY <1>7 DEF FetchShape
    <2>2. BehindTrap'
      BY <1>7, <2>1 DEF BehindTrap, CsrAlone, Empty2, Empty1
    <2>. QED BY <1>7, <2>2 DEF FetchShape
  <1>8. CASE backtoI = "I_IDLE"
    <2>1. Underway
      BY <1>8 DEF FetchShape
    <2>2. state' \in Accessing \cup {"I_IDLE"} /\ state' # "D_IDLE"
      BY <1>8 DEF Accessing
    <2>3. IF CSR_wait THEN Trap(instr3') /\ Empty2' ELSE Calm'
      BY <2>1 DEF Underway, Accessing, Calm, CsrInFlight, Unwritten, Empty2, Empty1
    <2>4. Underway'
      BY <2>2, <2>3 DEF Underway, Accessing
    <2>. QED BY <1>8, <2>4 DEF FetchShape
  <1>. QED BY <1>5, <1>6, <1>7, <1>8

LEMMA FetchInvOther ==
  ASSUME RInv, NEW iresp \in IResponses, NEW dresp \in DResponses,
         Cycle(iresp, dresp), ~Advance
  PROVE  Contents' /\ CsrAlone' /\ FetchShape'
  <1>. DEFINE xlate == Translating(CSR4)
  <1>1. /\ instr1' = instr1 /\ instr2' = instr2 /\ instr3' = instr3 /\ instr4' = instr4
        /\ Unwritten' => Unwritten
        /\ rf_state = "IDLE" => rf_state' = "IDLE"
        /\ rf_state # "DOING" => rf_state' # "DOING"
        /\ rf_state' # "DOING"
    BY OtherEdge DEF stageVars
  <1>1a. rf_state # "DOING" => rf_state' = "IDLE"
    BY OtherEdge
  <1>2. /\ Contents /\ CsrAlone /\ FetchShape
        /\ state \in State /\ backtoI \in {"I_IDLE", "I_BUBBLE1", "I_BUBBLE2", "I_BUBBLE3"}
        /\ state \in {"I_BUBBLE1", "I_BUBBLE2", "I_BUBBLE3"} => backtoI = state
        /\ state \in {"I_IDLE", "I_PREPARE", "I_REQUEST_SENT", "I_GET_PAGE2", "I_GET_PAGE3",
                      "I_GET_INSTR", "I_BUBBLE2a", "I_RESPONSE_RECEIVED"} => backtoI = "I_IDLE"
        /\ backtoI = "I_BUBBLE1" => instruction = Bubble /\ (state # "D_IDLE" => instr1 = Bubble)
        /\ state \in Accessing \cup {"D_RESPONSE_RECEIVED"} => DMenable(instr3)
        /\ CSR_wait \in BOOLEAN
    BY DEF RInv, FetchInv, MemInv, Access, IInv, TypeOK, MemTypeOK, FetchTiming
  <1>3. MemTick(Advance, instr2, ALU_result2, reg_Q2, xlate, PC_in, modify_reg, iresp, dresp)
    BY DEF Cycle, Pipeline
  <1>4. Calm => Calm'
    BY <1>1 DEF Calm, CsrInFlight
  <1>5. /\ Empty1' = Empty1 /\ Empty2' = Empty2 /\ Empty3' = Empty3 /\ Empty4' = Empty4
    BY <1>1 DEF Empty1, Empty2, Empty3, Empty4
  <1>6. iresp.ok => iresp.instr \in Instrs
    BY DEF IResponses
  <1>7. Bubble \notin Instrs
    BY InstrsAssumption
  <1>. DEFINE Goal == Contents' /\ CsrAlone' /\ FetchShape'
  <1>8. ASSUME UNCHANGED <<state, backtoI, instruction, bubble, CSR_wait, delay_instruction>>
        PROVE  Goal
    <2>. USE <1>1, <1>1a, <1>2, <1>4, <1>5, <1>8
    <2>1. Contents' /\ CsrAlone'
      BY DEF Contents, CsrAlone, Offering, Real
    <2>2. BehindHazard => BehindHazard'
      BY DEF BehindHazard
    <2>3. BehindJump => BehindJump'
      BY DEF BehindJump, Jumps, Changes, Real
    <2>4. BehindTrap => BehindTrap'
      BY DEF BehindTrap
    <2>5. Underway => Underway'
      BY DEF Underway, Jumps, Changes, Real, Accessing
    <2>. QED BY <2>1, <2>2, <2>3, <2>4, <2>5 DEF FetchShape
  <1>9. ASSUME state \in Accessing \cup {"D_RESPONSE_RECEIVED"},
               state' \in Accessing \cup {"D_RESPONSE_RECEIVED", backtoI},
               UNCHANGED <<backtoI, instruction, bubble, CSR_wait, delay_instruction>>
        PROVE  Goal
    <2>. USE <1>1, <1>1a, <1>2, <1>4, <1>5, <1>9
    <2>1. state # "D_IDLE" /\ state' # "D_IDLE" /\ state' \notin {"I_GET_INSTR", "I_BUBBLE2a"}
      BY DEF Accessing
    <2>2. Contents' /\ CsrAlone'
      BY <2>1 DEF Contents, CsrAlone, Offering, Real
    <2>3. BehindHazard => BehindHazard'
      BY <2>1 DEF BehindHazard
    <2>4. BehindJump => BehindJump'
      BY <2>1 DEF BehindJump, Jumps, Changes
    <2>5. BehindTrap => BehindTrap'
      BY <2>1 DEF BehindTrap
    <2>6. backtoI = "I_IDLE" /\ Underway => Underway'
      BY <2>1 DEF Underway, Accessing
    <2>. QED BY <2>2, <2>3, <2>4, <2>5, <2>6 DEF FetchShape
  <1>. USE <1>1, <1>2, <1>4, <1>5, <1>7
  <1>10. CASE D_Wait(Advance)
    BY <1>8, <1>10 DEF D_Wait, memVars
  <1>11. CASE D_Prepare
    BY <1>9, <1>11 DEF D_Prepare, fetchVars, Accessing
  <1>12. CASE D_GetPage1
    BY <1>9, <1>12 DEF D_GetPage1, fetchVars, Accessing
  <1>13. CASE D_GetPage2(dresp)
    BY <1>9, <1>13 DEF D_GetPage2, fetchVars, Accessing
  <1>14. CASE D_GetPage3(dresp)
    BY <1>9, <1>14 DEF D_GetPage3, fetchVars, Accessing
  <1>15. CASE D_RequestSent(dresp)
    BY <1>9, <1>15 DEF D_RequestSent, fetchVars, Accessing
  <1>16. CASE D_ResponseReceived
    BY <1>9, <1>16 DEF D_ResponseReceived, fetchVars, Accessing
  <1>17. CASE I_Idle
    <2>1. backtoI = "I_IDLE" /\ Underway
      BY <1>17 DEF FetchShape, I_Idle
    <2>2. Contents' /\ CsrAlone'
      BY <1>17, KindsOfBubble DEF I_Idle, Contents, Fetched, CsrAlone, Offering, Real
    <2>3. CASE CSR_wait
      <3>1. Trap(instr3)
        BY <1>17, <2>1, <2>3 DEF Underway, I_Idle
      <3>2. BehindTrap'
        BY <1>17, <2>3, <3>1 DEF I_Idle, BehindTrap
      <3>. QED BY <1>17, <2>2, <2>3, <3>2 DEF I_Idle, FetchShape
    <2>4. CASE ~CSR_wait
      <3>1. Underway'
        BY <1>17, <2>1, <2>4 DEF Underway, I_Idle, Accessing
      <3>. QED BY <1>17, <2>1, <2>2, <2>4, <3>1 DEF I_Idle, FetchShape
    <2>. QED BY <2>3, <2>4
  <1>18. CASE I_Bubble3
    <2>1. backtoI = "I_BUBBLE3" /\ BehindTrap
      BY <1>18 DEF FetchShape, I_Bubble3
    <2>2. Contents' /\ CsrAlone'
      BY <1>18, <2>1 DEF I_Bubble3, fetchVars, Contents, CsrAlone, Offering, BehindTrap, Real
    <2>3. CASE bubble \div 2 = 0
      <3>1. bubble = 1
        BY <1>18, <2>1, <2>3 DEF BehindTrap, I_Bubble3
      <3>2. Trap(instr4) /\ rf_state = "IDLE" /\ Empty3
        BY <1>18, <2>1, <3>1, KindsOfInstruction DEF BehindTrap, I_Bubble3, CsrAlone
      <3>3. Calm
        BY <3>2, KindsOfBubble DEF Calm, CsrInFlight, Unwritten, Empty3, Empty2, Empty1
      <3>4. Underway'
        BY <1>18, <2>3, <3>3 DEF I_Bubble3, Underway, Accessing
      <3>. QED BY <1>18, <2>2, <2>3, <3>4 DEF I_Bubble3, FetchShape
    <2>4. CASE bubble \div 2 # 0
      <3>1. BehindTrap'
        BY <1>1a, <1>18, <2>1, <2>4 DEF BehindTrap, I_Bubble3, fetchVars
      <3>. QED BY <1>18, <2>1, <2>2, <2>4, <3>1 DEF I_Bubble3, FetchShape
    <2>. QED BY <2>3, <2>4
  <1>19. CASE I_Prepare(xlate)
    BY <1>19 DEF I_Prepare, fetchVars, Contents, CsrAlone, Offering, FetchShape, Underway, Accessing
  <1>20. CASE I_Fetched(iresp)
    BY <1>6, <1>20 DEF I_Fetched, Contents, Fetched, Real, CsrAlone, Offering, FetchShape, Underway,
       Accessing
  <1>21. CASE I_RequestSent(iresp, dresp)
    BY <1>21 DEF I_RequestSent, fetchVars, Contents, CsrAlone, Offering, FetchShape, Underway,
       Accessing
  <1>22. CASE I_GetPage2(dresp)
    BY <1>22 DEF I_GetPage2, fetchVars, Contents, CsrAlone, Offering, FetchShape, Underway,
       Accessing
  <1>23. CASE I_GetPage3(dresp)
    BY <1>23 DEF I_GetPage3, fetchVars, Contents, CsrAlone, Offering, FetchShape, Underway,
       Accessing
  <1>24. CASE I_GetInstrHazard(modify_reg)
    <2>1. ~CSR_wait /\ Calm
      BY <1>24 DEF I_GetInstrHazard, FetchShape, Underway
    <2>2. Contents' /\ CsrAlone'
      BY <1>24 DEF I_GetInstrHazard, Contents, Fetched, Real, CsrAlone, Offering
    <2>3. BehindHazard'
      BY <1>24, <2>1 DEF I_GetInstrHazard, BehindHazard
    <2>. QED BY <1>24, <2>2, <2>3 DEF I_GetInstrHazard, FetchShape
  <1>25. CASE I_GetInstr(modify_reg)
    <2>1. ~CSR_wait /\ Calm /\ Real(instruction)
      BY <1>25 DEF I_GetInstr, FetchShape, Underway, Contents
    <2>2. Contents' /\ CsrAlone'
      BY <1>25 DEF I_GetInstr, fetchVars, Contents, Real, CsrAlone, Offering
    <2>3. Underway'
      BY <1>25, <2>1, KindsOfInstruction
      DEF I_GetInstr, fetchVars, Underway, Jumps, Changes, Real, Accessing
    <2>. QED BY <1>25, <2>2, <2>3 DEF I_GetInstr, FetchShape
  <1>26. CASE I_Bubble1
    <2>1. backtoI = "I_BUBBLE1" /\ BehindHazard
      BY <1>26 DEF FetchShape, I_Bubble1
    <2>2. Contents' /\ CsrAlone'
      BY <1>26, <2>1 DEF I_Bubble1, Contents, Fetched, CsrAlone, Offering, Real
    <2>3. CASE bubble \div 2 = 0
      BY <1>26, <2>1, <2>2, <2>3 DEF I_Bubble1, BehindHazard, FetchShape, Underway, Accessing
    <2>4. CASE bubble \div 2 # 0
      <3>1. bubble \in {2, 4, 8} /\ bubble' \in {1, 2, 4} /\ bubble' = bubble \div 2
        BY <1>26, <2>1, <2>4 DEF I_Bubble1, BehindHazard
      <3>2. BehindHazard'
        BY <1>26, <2>1, <2>4, <3>1 DEF I_Bubble1, BehindHazard, Empty1
      <3>. QED BY <1>26, <2>2, <2>4, <3>2 DEF I_Bubble1, FetchShape
    <2>. QED BY <2>3, <2>4
  <1>27. CASE I_Bubble2a
    <2>1. /\ Calm /\ Real(instruction)
          /\ \/ bubble = 2 /\ Jumps(instruction)
             \/ bubble = 8 /\ Changes(instruction)
      BY <1>27 DEF I_Bubble2a, FetchShape, Underway, Contents
    <2>2. Contents' /\ CsrAlone'
      BY <1>27, <2>1
      DEF I_Bubble2a, fetchVars, Contents, Real, CsrAlone, Offering, Calm, CsrInFlight
    <2>3. BehindJump'
      BY <1>27, <2>1 DEF I_Bubble2a, fetchVars, BehindJump, Real, Jumps, Changes
    <2>. QED BY <1>27, <2>2, <2>3 DEF I_Bubble2a, FetchShape
  <1>28. CASE I_Bubble2
    <2>1. backtoI = "I_BUBBLE2" /\ BehindJump
      BY <1>28 DEF FetchShape, I_Bubble2
    <2>2. Contents' /\ CsrAlone'
      BY <1>28, <2>1 DEF I_Bubble2, Contents, Fetched, CsrAlone, Offering, Real
    <2>3. CASE bubble \div 2 = 0
      <3>1. bubble = 1
        BY <1>28, <2>1, <2>3 DEF BehindJump, I_Bubble2
      <3>2. Underway'
        BY <1>28, <2>1, <2>3, <3>1
        DEF I_Bubble2, BehindJump, Underway, Jumps, Changes, Real, Accessing
      <3>. QED BY <1>28, <2>2, <2>3, <3>2 DEF I_Bubble2, FetchShape
    <2>4. CASE bubble \div 2 # 0
      <3>1. BehindJump'
        BY <1>28, <2>1, <2>4 DEF I_Bubble2, BehindJump, Jumps, Changes, Real
      <3>. QED BY <1>28, <2>2, <2>4, <3>1 DEF I_Bubble2, FetchShape
    <2>. QED BY <2>3, <2>4
  <1>29. CASE I_ResponseReceived(PC_in)
    <2>1. backtoI = "I_IDLE" /\ Underway
      BY <1>29 DEF FetchShape, I_ResponseReceived
    <2>2. CASE Real(instruction)
      <3>1. ~CSR_wait /\ Calm /\ ~Redirects(instruction) /\ ~IsCsr(instruction)
        BY <1>29, <2>1, <2>2 DEF Underway, I_ResponseReceived
      <3>. QED BY <1>29, <2>1, <2>2, <3>1
           DEF I_ResponseReceived, Contents, CsrAlone, Offering, Real, FetchShape, Underway,
               Calm, CsrInFlight, Accessing
    <2>3. CASE ~Real(instruction)
      <3>1. (Jumps(instr2) /\ Empty1) \/ Changes(instr4)
        BY <1>29, <2>1, <2>3 DEF Underway, I_ResponseReceived
      <3>2. Contents' /\ CsrAlone'
        BY <1>29, <2>3 DEF I_ResponseReceived, Contents, CsrAlone, Offering, Real
      <3>3. Underway'
        BY <1>29, <2>3, <3>1, KindsOfInstruction, KindsOfBubble
        DEF I_ResponseReceived, Underway, Jumps, Changes, Real, CsrAlone, Empty3, Empty2, Empty1,
            Accessing
      <3>. QED BY <1>29, <2>1, <3>2, <3>3 DEF I_ResponseReceived, FetchShape
    <2>. QED BY <2>2, <2>3
  <1>. QED
    BY <1>3, <1>10, <1>11, <1>12, <1>13, <1>14, <1>15, <1>16, <1>17, <1>18, <1>19, <1>20,
       <1>21, <1>22, <1>23, <1>24, <1>25, <1>26, <1>27, <1>28, <1>29
    DEF MemTick, D_Pass, D_Accept

(***************************************************************************)
(* Registers and CSRs                                                      *)
(***************************************************************************)
\* Instruction w changes no operand of i if it writes no register that i names and
\* the two are not both CSR instructions.
LEMMA OperandsUnaffected ==
  ASSUME NEW regs, NEW csr, NEW i \in Instr, NEW w, NEW di, NEW pc, NEW a, NEW v,
         \A r \in Reg \ {0} : Names(i, r) => ~Writes(w, r),
         IsCsr(i) => ~IsCsr(w)
  PROVE  /\ Q1(RegNext(regs, w, di), i) = Q1(regs, i)
         /\ Q2(RegNext(regs, w, di), CsrNext(csr, w, a, v), i) = Q2(regs, csr, i)
         /\ ALUBin(RegNext(regs, w, di), CsrNext(csr, w, a, v), i) = ALUBin(regs, csr, i)
         /\ Succ(i, pc, RegNext(regs, w, di), CsrNext(csr, w, a, v)) = Succ(i, pc, regs, csr)
  <1>1. i.rs1 \in Reg /\ i.rs2 \in Reg
    BY DEF Instr
  <1>2. ASSUME NEW r \in Reg, Names(i, r) PROVE RegNext(regs, w, di)[r] = regs[r]
    <2>1. WREG(w) /\ w.rd # 0 => w.rd # r
      BY <1>2 DEF Writes
    <2>. QED BY <2>1 DEF RegNext
  <1>3. RegNext(regs, w, di)[i.rs1] = regs[i.rs1] /\ RegNext(regs, w, di)[i.rs2] = regs[i.rs2]
    BY <1>1, <1>2 DEF Names
  <1>4. IsCsr(i) => CsrNext(csr, w, a, v) = csr
    BY DEF CsrNext, IsCsr
  <1>5. Q1(RegNext(regs, w, di), i) = Q1(regs, i)
    BY <1>3 DEF Q1
  <1>6. Q2(RegNext(regs, w, di), CsrNext(csr, w, a, v), i) = Q2(regs, csr, i)
    <2>1. CASE IsCsr(i)
      BY <2>1, <1>3, <1>4 DEF Q2
    <2>2. CASE ~IsCsr(i)
      BY <2>2, <1>3 DEF Q2, IsCsr
    <2>. QED BY <2>1, <2>2
  <1>7. ALUBin(RegNext(regs, w, di), CsrNext(csr, w, a, v), i) = ALUBin(regs, csr, i)
    BY <1>6 DEF ALUBin
  <1>. QED BY <1>5, <1>6, <1>7 DEF Succ

LEMMA RetireAdvance ==
  ASSUME RInv, NEW iresp \in IResponses, NEW dresp \in DResponses,
         Cycle(iresp, dresp), Advance
  PROVE  WrittenBack' /\ Operands' /\ Committed' /\ Chain'
  <1>1. /\ state = "D_IDLE" /\ rf_state = "IDLE"
        /\ instr1' = instruction /\ PC1' = current_pc
        /\ instr2' = instr1 /\ PC2' = PC1
        /\ instr3' = instr2 /\ PC3' = PC2
        /\ instr4' = instr3 /\ PC4' = PC3
        /\ ALU_result3' = ALU_result2 /\ reg_Q23' = reg_Q2
        /\ ALU_result4' = ALU_result3 /\ reg_Q24' = reg_Q23
        /\ Memory_Data4' = Memory_Data
        /\ instruction' = Bubble /\ current_pc' = requested_pc
        /\ UNCHANGED <<requested_pc, backtoI, Reg4, CSR4>>
        /\ rf_state' = "DOING" /\ Reg5' = Reg4 /\ CSR5' = CSR4
        /\ \/ ~DMenable(instr2) /\ state' = backtoI
           \/ DMenable(instr2) /\ state' \in {"D_GET_PAGE1", "D_PREPARE"}
    BY AdvanceEdge
  <1>2. /\ WrittenBack /\ Operands /\ Chain /\ FetchShape /\ CsrAlone
        /\ instr1 \in Instr /\ instr2 \in Instr /\ instr3 \in Instr
        /\ backtoI \in {"I_IDLE", "I_BUBBLE1", "I_BUBBLE2", "I_BUBBLE3"}
        /\ backtoI = "I_BUBBLE1" => instruction = Bubble
        /\ Settled(instr2, {instr3})
    BY DEF RInv, RetireInv, FetchInv, IInv, TypeOK, MemTypeOK, StagesTypeOK, FetchTiming, HazardFree
  <1>3. RegW = Reg4 /\ CsrW = CSR4
    BY <1>1, <1>2 DEF WrittenBack
  <1>4. /\ RegW' = RegNext(RegW, instr3, RegDI(instr3, PC3, ALU_result3, Memory_Data, reg_Q23))
        /\ CsrW' = CsrNext(CsrW, instr3, PC3, ALU_result3)
    BY <1>1, <1>3 DEF RegW, CsrW
  <1>5. WrittenBack' /\ Committed'
    BY <1>1 DEF WrittenBack, Committed
  <1>6. /\ \A r \in Reg \ {0} : Names(instr2, r) => ~Writes(instr3, r)
        /\ IsCsr(instr2) => ~IsCsr(instr3)
    BY <1>2 DEF Settled, CsrAlone
  <1>7. /\ Q1(RegW', instr2) = Q1(RegW, instr2)
        /\ Q2(RegW', CsrW', instr2) = Q2(RegW, CsrW, instr2)
        /\ ALUBin(RegW', CsrW', instr2) = ALUBin(RegW, CsrW, instr2)
        /\ Succ(instr2, PC2, RegW', CsrW') = Succ(instr2, PC2, RegW, CsrW)
    BY <1>2, <1>4, <1>6, OperandsUnaffected
  <1>8. /\ ALU_result2 = ALUResult(instr2, Q1(RegW, instr2), ALUBin(RegW, CsrW, instr2))
        /\ reg_Q2 = Q2(RegW, CsrW, instr2)
    BY <1>3 DEF ALU_result2, reg_Q1, reg_Q2, ALU_Bin, Advance
  <1>9. Operands'
    BY <1>1, <1>2, <1>3, <1>7, <1>8 DEF Operands
  <1>10. /\ Pending' = Pending /\ Pending = (backtoI = "I_BUBBLE2") /\ ~Offering'
    BY <1>1, <1>2 DEF Pending, Offering, Real
  <1>11. /\ NextD' = requested_pc /\ NextE' = NextD /\ NextM' = NextE /\ NextW' = NextM
         /\ ~Offering => NextD = requested_pc
    BY <1>1 DEF NextD, NextE, NextM, NextW, Real, Offering
  <1>12. /\ Empty1' = (instruction = Bubble) /\ Empty2' = (Empty1 /\ instruction = Bubble)
         /\ Empty3' = (Empty2 /\ instruction = Bubble)
         /\ Offering = (instruction # Bubble)
    BY <1>1 DEF Empty1, Empty2, Empty3, Offering, Real
  <1>13. Real(instr4') => NextW' = IF Pending' /\ ~Offering' /\ Empty3' THEN PC4'
                                   ELSE Succ(instr4', PC4', Reg5', CSR5')
    BY <1>1, <1>2, <1>3, <1>10, <1>11, <1>12 DEF Chain
  <1>14. Real(instr3') => NextM' = IF Pending' /\ ~Offering' /\ Empty2' THEN PC3'
                                   ELSE Succ(instr3', PC3', RegW', CsrW')
    BY <1>1, <1>2, <1>7, <1>10, <1>11, <1>12 DEF Chain
  <1>15. Redirects(instr1) => Pending /\ ~Offering
    <2>. USE KindsOfBubble, KindsOfInstruction
    <2>1. CASE backtoI = "I_BUBBLE1"
      BY <1>2, <2>1 DEF FetchShape, BehindHazard, Calm
    <2>2. CASE backtoI = "I_BUBBLE2"
      BY <1>1, <1>2, <1>10, <1>12, <2>2
      DEF FetchShape, BehindJump, Calm, Changes, CsrAlone, Empty1, Empty2
    <2>3. CASE backtoI = "I_BUBBLE3"
      BY <1>1, <1>2, <2>3 DEF FetchShape, BehindTrap, CsrAlone, Empty1, Empty2
    <2>4. CASE backtoI = "I_IDLE"
      BY <1>1, <1>2, <2>4 DEF FetchShape, Underway, Empty1
    <2>. QED BY <1>2, <2>1, <2>2, <2>3, <2>4
  <1>16. ~Redirects(instr1) => Succ(instr1, PC1, RegW', CsrW') = W(PC1 + ILen)
    BY DEF Succ, PCin, OFFSET, BRANCH, Redirects, IsJump, Trap
  <1>17. Real(instr2') => NextE' = IF Pending' /\ ~Offering' /\ Empty1' THEN PC2'
                                   ELSE Succ(instr2', PC2', RegW', CsrW')
    BY <1>1, <1>2, <1>10, <1>11, <1>12, <1>15, <1>16 DEF Chain
  <1>18. Real(instr1') => NextD' = IF Pending' /\ ~Offering' THEN PC1' ELSE W(PC1' + ILen)
    <2>1. CASE backtoI = "I_IDLE"
      BY <1>1, <1>2, <1>10, <1>11, <2>1 DEF Chain
    <2>2. CASE backtoI = "I_BUBBLE2"
      BY <1>1, <1>2, <1>10, <1>11, <2>2 DEF Chain
    <2>3. CASE backtoI \in {"I_BUBBLE1", "I_BUBBLE3"}
      BY <1>1, <1>2, <2>3 DEF FetchShape, BehindTrap, Real
    <2>. QED BY <1>2, <2>1, <2>2, <2>3
  <1>19. IF state' = "D_IDLE" /\ backtoI' = "I_IDLE"
         THEN Real(instruction') => requested_pc' = W(current_pc' + ILen)
         ELSE requested_pc' = current_pc'
    BY <1>1, <1>2
  <1>20. Chain'
    BY <1>13, <1>14, <1>17, <1>18, <1>19 DEF Chain
  <1>. QED BY <1>5, <1>9, <1>20

\* The jump or CSR instruction whose bubbles are over leads to PC_in.
LEMMA PendingResolved ==
  ASSUME RInv, state = "I_RESPONSE_RECEIVED"
  PROVE  /\ Real(instruction) => PC_in = W(current_pc + ILen)
         /\ ~Real(instruction) =>
              \/ Real(instr2) /\ Empty1 /\ PC_in = Succ(instr2, PC2, RegW, CsrW)
              \/ Real(instr4) /\ Empty3 /\ PC_in = Succ(instr4, PC4, Reg5, CSR5)
  <1>. USE KindsOfInstruction, KindsOfBubble
  <1>1. /\ WrittenBack /\ Chain /\ CsrAlone /\ Underway /\ Settled(instr2, {instr3})
        /\ instr2 \in Instr /\ instr4 \in Instr
    BY DEF RInv, RetireInv, FetchInv, FetchShape, IInv, TypeOK, StagesTypeOK, FetchTiming,
       HazardFree
  <1>2. requested_pc = current_pc
    BY <1>1 DEF Chain
  <1>3. ~Redirects(instr2) => PC_in = W(current_pc + ILen)
    BY DEF PC_in, PCin, OFFSET, BRANCH, Redirects, IsJump, Trap
  <1>4. CASE Real(instruction)
    BY <1>1, <1>3, <1>4 DEF Underway, Calm
  <1>5. CASE ~Real(instruction) /\ Jumps(instr2) /\ Empty1
    <2>1. Real(instr2) /\ NextE = requested_pc
      BY <1>5 DEF Jumps, NextE, NextD, Real, Empty1
    <2>2. PC2 = requested_pc
      BY <1>1, <1>5, <2>1 DEF Chain, Pending, Offering, Real
    <2>3. /\ \A r \in Reg \ {0} : Names(instr2, r) => ~(Writes(instr4, r) /\ Unwritten)
          /\ IsCsr(instr2) => ~IsCsr(instr4)
      BY <1>1 DEF Settled, CsrAlone
    <2>4. /\ Q1(Reg4, instr2) = Q1(RegW, instr2)
          /\ ALUBin(Reg4, CSR4, instr2) = ALUBin(RegW, CsrW, instr2)
      <3>1. CASE rf_state = "DOING"
        <4>1. /\ Reg4 = Reg5 /\ CSR4 = CSR5
              /\ \A r \in Reg \ {0} : Names(instr2, r) => ~Writes(instr4, r)
          BY <1>1, <2>3, <3>1 DEF WrittenBack, Unwritten
        <4>. DEFINE di == RegDI(instr4, PC4, ALU_result4, Memory_Data4, reg_Q24)
        <4>2. /\ Q1(RegNext(Reg5, instr4, di), instr2) = Q1(Reg5, instr2)
              /\ ALUBin(RegNext(Reg5, instr4, di), CsrNext(CSR5, instr4, PC4, ALU_result4), instr2)
                   = ALUBin(Reg5, CSR5, instr2)
          <5>1. \A r \in Reg \ {0} : Names(instr2, r) => ~Writes(instr4, r)
            BY <4>1
          <5>2. instr2 \in Instr /\ (IsCsr(instr2) => ~IsCsr(instr4))
            BY <1>1, <2>3
          <5>. HIDE KindsOfInstruction, KindsOfBubble DEF di
          <5>. QED BY <5>1, <5>2, OperandsUnaffected
        <4>. QED BY <4>1, <4>2 DEF RegW, CsrW
      <3>2. CASE rf_state # "DOING"
        BY <1>1, <3>2 DEF WrittenBack
      <3>. QED BY <3>1, <3>2
    <2>5. PC_in = Succ(instr2, PC2, RegW, CsrW)
      BY <1>2, <2>2, <2>4 DEF PC_in, reg_Q1, ALU_Bin, Succ
    <2>. QED BY <1>5, <2>1, <2>5
  <1>6. CASE ~Real(instruction) /\ Changes(instr4)
    <2>1. Real(instr4) /\ Empty3 /\ instr2 = Bubble
      BY <1>1, <1>6 DEF Changes, CsrAlone, Real, Empty3, Empty2
    <2>2. NextW = requested_pc
      BY <1>6, <2>1 DEF NextW, NextM, NextE, NextD, Real, Empty3, Empty2, Empty1
    <2>3. PC4 = requested_pc
      BY <1>1, <1>6, <2>1, <2>2 DEF Chain, Pending, Offering, Real
    <2>4. Succ(instr4, PC4, Reg5, CSR5) = W(PC4 + ILen)
      BY <1>6 DEF Changes, Succ, PCin, OFFSET, BRANCH
    <2>. QED BY <1>2, <1>3, <1>6, <2>1, <2>3, <2>4
  <1>. QED BY <1>1, <1>4, <1>5, <1>6 DEF Underway

LEMMA RetireOther ==
  ASSUME RInv, NEW iresp \in IResponses, NEW dresp \in DResponses,
         Cycle(iresp, dresp), ~Advance
  PROVE  /\ WrittenBack' /\ Operands' /\ Committed' /\ Chain'
         /\ RetirePC' = RetirePC
  <1>. DEFINE xlate == Translating(CSR4)
  <1>1. UNCHANGED <<stageVars, reportVars>>
    BY OtherEdge
  <1>2. /\ WrittenBack /\ Operands /\ Committed /\ Chain /\ FetchShape /\ Contents
        /\ state \in State /\ backtoI \in {"I_IDLE", "I_BUBBLE1", "I_BUBBLE2", "I_BUBBLE3"}
        /\ state \in {"I_BUBBLE1", "I_BUBBLE2", "I_BUBBLE3"} => backtoI = state
        /\ state \in {"I_IDLE", "I_PREPARE", "I_REQUEST_SENT", "I_GET_PAGE2", "I_GET_PAGE3",
                      "I_GET_INSTR", "I_BUBBLE2a", "I_RESPONSE_RECEIVED"} => backtoI = "I_IDLE"
        /\ backtoI = "I_BUBBLE1" => instruction = Bubble
    BY DEF RInv, RetireInv, FetchInv, IInv, TypeOK, MemTypeOK, FetchTiming
  <1>3. RegW' = RegW /\ CsrW' = CsrW
    BY <1>1 DEF RegW, CsrW, stageVars, reportVars
  <1>4. WrittenBack' /\ Committed'
    BY <1>1, <1>2, <1>3, OtherEdge
    DEF WrittenBack, Committed, RegW, CsrW, reg_DI4, stageVars, reportVars
  <1>5. Operands'
    BY <1>1, <1>2, <1>3 DEF Operands, stageVars, reportVars
  <1>6. /\ Empty1' = Empty1 /\ Empty2' = Empty2 /\ Empty3' = Empty3
        /\ Real(instr1') = Real(instr1) /\ Real(instr2') = Real(instr2)
        /\ Real(instr3') = Real(instr3) /\ Real(instr4') = Real(instr4)
    BY <1>1 DEF Empty1, Empty2, Empty3, stageVars
  <1>. DEFINE Address == IF state = "D_IDLE" /\ backtoI = "I_IDLE"
                         THEN Real(instruction) => requested_pc = W(current_pc + ILen)
                         ELSE requested_pc = current_pc
              Goal == Chain' /\ RetirePC' = RetirePC
  <1>7. ASSUME NextD' = NextD, (Pending /\ ~Offering)' = (Pending /\ ~Offering), Address'
        PROVE  Goal
    <2>1. NextE' = NextE /\ NextM' = NextM /\ NextW' = NextW /\ RetirePC' = RetirePC
      BY <1>1, <1>6, <1>7 DEF NextE, NextM, NextW, RetirePC, stageVars
    <2>. HIDE DEF Address
    <2>2. Address' <=> IF state' = "D_IDLE" /\ backtoI' = "I_IDLE"
                       THEN Real(instruction') => requested_pc' = W(current_pc' + ILen)
                       ELSE requested_pc' = current_pc'
      BY DEF Address
    <2>. QED BY <1>1, <1>2, <1>3, <1>6, <1>7, <2>1, <2>2 DEF Chain, stageVars, reportVars
  <1>8. ASSUME state # "D_IDLE", state' # "D_IDLE",
               state # "I_RESPONSE_RECEIVED", state' # "I_RESPONSE_RECEIVED",
               UNCHANGED requested_pc, current_pc' \in {current_pc, requested_pc},
               backtoI' = backtoI \/ "I_BUBBLE2" \notin {backtoI, backtoI'}
        PROVE  Goal
    BY <1>2, <1>7, <1>8 DEF NextD, Pending, Offering, Chain
  <1>. SUFFICES Goal
    BY <1>4, <1>5
  <1>9. CASE D_Wait(Advance)
    BY <1>2, <1>7, <1>9 DEF D_Wait, memVars, NextD, Pending, Offering, Chain
  <1>. DEFINE Accessed == state' \in Accessing \cup {"D_RESPONSE_RECEIVED", backtoI}
  <1>10. ASSUME state \in Accessing \cup {"D_RESPONSE_RECEIVED"}, Accessed,
                UNCHANGED <<backtoI, fetchVars>>
         PROVE  Goal
    BY <1>2, <1>8, <1>10 DEF Accessing, fetchVars
  <1>11. CASE D_Prepare
    BY <1>10, <1>11 DEF D_Prepare, Accessing
  <1>12. CASE D_GetPage1
    BY <1>10, <1>12 DEF D_GetPage1, Accessing
  <1>13. CASE D_GetPage2(dresp)
    BY <1>10, <1>13 DEF D_GetPage2, Accessing
  <1>14. CASE D_GetPage3(dresp)
    BY <1>10, <1>14 DEF D_GetPage3, Accessing
  <1>15. CASE D_RequestSent(dresp)
    BY <1>10, <1>15 DEF D_RequestSent, Accessing
  <1>16. CASE D_ResponseReceived
    BY <1>10, <1>16 DEF D_ResponseReceived, Accessing
  <1>17. CASE I_Idle
    BY <1>2, <1>7, <1>17 DEF I_Idle, NextD, Pending, Offering, Real
  <1>18. CASE I_Bubble3
    BY <1>2, <1>8, <1>18 DEF I_Bubble3, fetchVars
  <1>19. CASE I_Prepare(xlate)
    BY <1>8, <1>19 DEF I_Prepare, fetchVars
  <1>20. CASE I_Fetched(iresp)
    BY <1>8, <1>20 DEF I_Fetched
  <1>21. CASE I_RequestSent(iresp, dresp)
    BY <1>8, <1>21 DEF I_RequestSent, fetchVars
  <1>22. CASE I_GetPage2(dresp)
    BY <1>8, <1>22 DEF I_GetPage2, fetchVars
  <1>23. CASE I_GetPage3(dresp)
    BY <1>8, <1>23 DEF I_GetPage3, fetchVars
  <1>24. CASE I_GetInstrHazard(modify_reg)
    BY <1>2, <1>7, <1>24 DEF I_GetInstrHazard, NextD, Pending, Offering, Real, Chain
  <1>25. CASE I_GetInstr(modify_reg)
    BY <1>2, <1>7, <1>25
    DEF I_GetInstr, fetchVars, NextD, Pending, Offering, Real, Chain, Contents
  <1>26. CASE I_Bubble1
    BY <1>2, <1>7, <1>26 DEF I_Bubble1, NextD, Pending, Offering, Real, Chain
  <1>27. CASE I_Bubble2a
    BY <1>2, <1>7, <1>27
    DEF I_Bubble2a, fetchVars, NextD, Pending, Offering, Real, Chain, Contents
  <1>28. CASE I_Bubble2
    BY <1>2, <1>7, <1>28 DEF I_Bubble2, NextD, Pending, Offering, Real, Chain
  <1>29. CASE I_ResponseReceived(PC_in) /\ Real(instruction)
    <2>1. PC_in = W(current_pc + ILen)
      BY <1>29, PendingResolved DEF I_ResponseReceived
    <2>. QED
      BY <1>2, <1>7, <1>29, <2>1
      DEF I_ResponseReceived, NextD, Pending, Offering, Real, Chain
  <1>30. CASE I_ResponseReceived(PC_in) /\ ~Real(instruction)
    <2>1. /\ state = "I_RESPONSE_RECEIVED" /\ backtoI = "I_IDLE" /\ Pending /\ ~Offering
          /\ ~Pending' /\ ~Offering' /\ NextD = requested_pc /\ NextD' = PC_in
          /\ state' = "D_IDLE" /\ backtoI' = "I_IDLE" /\ ~Real(instruction')
      BY <1>2, <1>30 DEF I_ResponseReceived, Pending, Offering, NextD, Real
    <2>2. /\ ~Real(instruction')
          /\ Address' <=> (Real(instruction') => requested_pc' = W(current_pc' + ILen))
      BY <2>1
    <2>3. CASE Real(instr2) /\ Empty1 /\ PC_in = Succ(instr2, PC2, RegW, CsrW)
      <3>1. /\ NextE' = PC_in /\ NextM' = PC2 /\ NextM = PC2
            /\ NextW' = NextW /\ RetirePC' = RetirePC
        BY <1>1, <1>6, <2>1, <2>3
        DEF NextE, NextM, NextW, RetirePC, Empty1, Real, stageVars
      <3>2. ~Empty2 /\ ~Empty3
        BY <2>3 DEF Empty2, Empty3, Real
      <3>. QED
        BY <1>1, <1>2, <1>3, <1>6, <2>1, <2>2, <2>3, <3>1, <3>2
        DEF Chain, Empty1, Real, stageVars, reportVars
    <2>4. CASE Real(instr4) /\ Empty3 /\ PC_in = Succ(instr4, PC4, Reg5, CSR5)
      <3>1. /\ ~Real(instr1) /\ ~Real(instr2) /\ ~Real(instr3)
        BY <2>4 DEF Empty3, Empty2, Empty1, Real
      <3>2. NextW' = PC_in /\ RetirePC' = RetirePC
        BY <1>1, <1>6, <2>1, <2>4, <3>1 DEF NextE, NextM, NextW, RetirePC, stageVars
      <3>. QED
        BY <1>1, <1>2, <1>3, <1>6, <2>1, <2>2, <2>4, <3>1, <3>2 DEF Chain, stageVars, reportVars
    <2>. QED BY <1>30, <2>1, <2>3, <2>4, PendingResolved
  <1>31. MemTick(Advance, instr2, ALU_result2, reg_Q2, xlate, PC_in, modify_reg, iresp, dresp)
    BY DEF Cycle, Pipeline
  <1>. QED
    BY <1>9, <1>11, <1>12, <1>13, <1>14, <1>15, <1>16, <1>17, <1>18, <1>19, <1>20,
       <1>21, <1>22, <1>23, <1>24, <1>25, <1>26, <1>27, <1>28, <1>29, <1>30, <1>31
    DEF MemTick, D_Pass, D_Accept

(***************************************************************************)
(* Memory                                                                  *)
(***************************************************************************)
LEMMA MemAdvance ==
  ASSUME RInv, NEW iresp \in IResponses, NEW dresp \in DResponses,
         Cycle(iresp, dresp), Advance
  PROVE  /\ Access' /\ Requests' /\ Loads' /\ StoresOnce' /\ ReportExact'
         /\ cmem' = StoreApplied(cmem, instr4, ALU_result4, reg_Q24)
  <1>1. /\ state = "D_IDLE" /\ rf_state = "IDLE"
        /\ instr3' = instr2 /\ instr4' = instr3 /\ instr5' = instr4
        /\ ALU_result3' = ALU_result2 /\ reg_Q23' = reg_Q2
        /\ ALU_result4' = ALU_result3 /\ reg_Q24' = reg_Q23
        /\ Memory_Data4' = Memory_Data /\ skip4' = skip3
        /\ UNCHANGED <<backtoI, Memory_Data, ireq, dreq, dmem, Reg4, CSR4>>
        /\ CSR5' = CSR4 /\ commit5' = commit4
        /\ cmem' = IF commit4 /\ WMEM(instr4)
                   THEN Written(cmem, Physical(CSR4, ALU_result4), reg_Q24) ELSE cmem
        /\ \/ /\ ~DMenable(instr2) /\ state' = backtoI /\ skip3' = FALSE
           \/ /\ DMenable(instr2) /\ skip3' = IsDevice(ALU_result2)
              /\ state' = IF Translating(CSR4) THEN "D_GET_PAGE1" ELSE "D_PREPARE"
              /\ lock' = [addr |-> ALU_result2, strobe |-> WMEM(instr2),
                          data |-> IF WMEM(instr2) THEN reg_Q2 ELSE 0]
    BY AdvanceEdge
  <1>2. /\ Access /\ Requests /\ Loads /\ StoresOnce /\ ReportExact /\ WrittenBack /\ Committed
        /\ backtoI \in {"I_IDLE", "I_BUBBLE1", "I_BUBBLE2", "I_BUBBLE3"}
    BY DEF RInv, MemInv, RetireInv, IInv, TypeOK, MemTypeOK
  <1>3. CSR4 = CsrW /\ commit4 = Legal(instr4)
    BY <1>1, <1>2 DEF WrittenBack, Committed
  <1>4. cmem' = StoreApplied(cmem, instr4, ALU_result4, reg_Q24)
    BY <1>1, <1>3 DEF StoreApplied, Legal, ERROR, WMEM
  <1>5. state' \notin Accessing => ~DMenable(instr2) /\ state' = backtoI
    BY <1>1 DEF Accessing
  <1>6. Access'
    BY <1>1, <1>2 DEF Access, Accessing
  <1>7. Requests'
    BY <1>1, <1>2 DEF Requests, Walking
  <1>8. Loads'
    <2>1. instr3'.op = "LD" => state' \in Accessing
      BY <1>1, <1>5 DEF DMenable
    <2>2. instr3.op = "LD" => Memory_Data \in ReadValues(cmem', Physical(CSR5', ALU_result3))
      BY <1>1, <1>2, <1>3, <1>4 DEF Loads, Accessing
    <2>. QED BY <1>1, <2>1, <2>2 DEF Loads
  <1>9. StoresOnce'
    <2>1. dmem = StoreApplied(cmem', instr3, ALU_result3, reg_Q23)
      BY <1>1, <1>2, <1>4 DEF StoresOnce, Accessing
    <2>2. state' \notin Accessing => ~WMEM(instr3')
      BY <1>1, <1>5 DEF DMenable, WMEM
    <2>. QED BY <1>1, <2>1, <2>2 DEF StoresOnce, StoreApplied
  <1>10. ReportExact'
    <2>1. commit5' = Legal(instr5')
      BY <1>1, <1>3
    <2>2. skip3' = (DMenable(instr3') /\ IsDevice(ALU_result3'))
      <3>1. IsDevice(ALU_result2) \in BOOLEAN
        BY DEF IsDevice
      <3>2. CASE ~DMenable(instr2)
        BY <1>1, <3>2
      <3>3. CASE DMenable(instr2)
        BY <1>1, <3>1, <3>3
      <3>. QED BY <3>2, <3>3
    <2>3. skip4' = (DMenable(instr4') /\ IsDevice(ALU_result4'))
      BY <1>1, <1>2 DEF ReportExact
    <2>. QED BY <2>1, <2>2, <2>3 DEF ReportExact
  <1>. QED BY <1>4, <1>6, <1>7, <1>8, <1>9, <1>10

\* A CSR instruction is written back with nothing behind it, so an access, a fetch
\* or a page walk never sees the CSRs change.
LEMMA CsrSteady ==
  ASSUME RInv, NEW iresp, NEW dresp, Cycle(iresp, dresp), ~Advance,
         Real(instr3) \/ state \in {"I_PREPARE", "I_REQUEST_SENT", "I_GET_PAGE2", "I_GET_PAGE3"}
         \/ ~IsCsr(instr4)
  PROVE  CSR4' = CSR4
  <1>1. CSR4' = CSR4 \/ (rf_state = "DOING" /\ CSR4' = CsrNext(CSR4, instr4, PC4, ALU_result4))
    BY OtherEdge
  <1>2. CASE IsCsr(instr4) /\ rf_state = "DOING"
    <2>1. ~Real(instr3)
      BY <1>2 DEF RInv, FetchInv, CsrAlone, Empty3, Real
    <2>2. state \in {"I_PREPARE", "I_REQUEST_SENT", "I_GET_PAGE2", "I_GET_PAGE3"} => Calm
      BY DEF RInv, FetchInv, FetchShape, Underway, IInv, FetchTiming
    <2>. QED BY <1>2, <2>1, <2>2 DEF Calm, CsrInFlight, Unwritten
  <1>3. CASE ~IsCsr(instr4)
    BY <1>1, <1>3 DEF CsrNext, IsCsr
  <1>4. CASE rf_state # "DOING"
    BY <1>1, <1>4
  <1>. QED BY <1>2, <1>3, <1>4

LEMMA MemOther ==
  ASSUME RInv, NEW iresp \in IResponses, NEW dresp \in DResponses,
         Cycle(iresp, dresp), ~Advance
  PROVE  Access' /\ Requests' /\ Loads' /\ StoresOnce' /\ ReportExact'
  <1>. DEFINE xlate == Translating(CSR4)
  <1>1. UNCHANGED <<stageVars, reportVars, cmem>>
    BY OtherEdge
  <1>2. /\ Access /\ Requests /\ Loads /\ StoresOnce /\ ReportExact /\ WrittenBack
        /\ state \in State /\ backtoI \in {"I_IDLE", "I_BUBBLE1", "I_BUBBLE2", "I_BUBBLE3"}
        /\ dreq \in DataRequest
        /\ ireq \in [valid : BOOLEAN, addr : Word]
    BY DEF RInv, MemInv, RetireInv, IInv, TypeOK, MemTypeOK
  <1>3. CsrW' = CsrW
    BY <1>1 DEF CsrW, stageVars, reportVars
  <1>4. /\ MemTick(Advance, instr2, ALU_result2, reg_Q2, xlate, PC_in, modify_reg, iresp, dresp)
        /\ Bus(dresp)
    BY DEF Cycle, Pipeline
  <1>5. /\ Real(instr3) => CSR4' = CSR4 /\ Physical(CsrW, ALU_result3) = Physical(CSR4, ALU_result3)
        /\ WMEM(instr3) \/ instr3.op = "LD" \/ DMenable(instr3) => Real(instr3)
        /\ state \in {"I_PREPARE", "I_REQUEST_SENT", "I_GET_PAGE2", "I_GET_PAGE3"} => CSR4' = CSR4
    <2>1. Real(instr3) => ~IsCsr(instr4)
      BY DEF RInv, FetchInv, CsrAlone, Empty3, Real
    <2>2. ~IsCsr(instr4) => CsrW = CSR5
      BY DEF CsrW, CsrNext, IsCsr
    <2>3. Real(instr3) => CSR4' = CSR4
      BY CsrSteady
    <2>4. Real(instr3) => CSR4 = CsrW
      BY <1>2, <2>1, <2>2 DEF WrittenBack
    <2>5. WMEM(instr3) \/ instr3.op = "LD" \/ DMenable(instr3) => Real(instr3)
      BY KindsOfBubble DEF Real, DMenable, WMEM
    <2>6. state \in {"I_PREPARE", "I_REQUEST_SENT", "I_GET_PAGE2", "I_GET_PAGE3"} => CSR4' = CSR4
      BY CsrSteady
    <2>. QED BY <2>3, <2>4, <2>5, <2>6
  <1>6. /\ WMEM(instr4) => CSR4' = CSR4
        /\ WMEM(instr3) => CSR4' = CSR4
    BY <1>5, CsrSteady DEF WMEM, IsCsr
  <1>. DEFINE throughW == StoreApplied(cmem, instr4, ALU_result4, reg_Q24)
              throughM == StoreApplied(throughW, instr3, ALU_result3, reg_Q23)
  <1>7. throughW' = throughW /\ throughM' = throughM
    BY <1>1, <1>6 DEF StoreApplied, stageVars
  <1>8. dmem = IF state \in Accessing THEN throughW ELSE throughM
    BY <1>2 DEF StoresOnce
  <1>9. StoresOnce' <=> dmem' = IF state' \in Accessing THEN throughW' ELSE throughM'
    BY DEF StoresOnce
  <1>10. Loads' <=> /\ instr4'.op = "LD" =>
                         Memory_Data4' \in ReadValues(cmem', Physical(CSR5', ALU_result4'))
                    /\ instr3'.op = "LD" /\ state' \notin Accessing =>
                         Memory_Data' \in ReadValues(throughW', Physical(CsrW', ALU_result3'))
    BY DEF Loads
  <1>11. Loads <=> /\ instr4.op = "LD" =>
                        Memory_Data4 \in ReadValues(cmem, Physical(CSR5, ALU_result4))
                   /\ instr3.op = "LD" /\ state \notin Accessing =>
                        Memory_Data \in ReadValues(throughW, Physical(CsrW, ALU_result3))
    BY DEF Loads
  <1>. HIDE DEF throughW, throughM
  <1>12. ReportExact'
    <2>1. skip3' = skip3
      BY <1>4 DEF MemTick, memVars, fetchVars, D_Wait, D_Pass, D_Accept, D_Prepare, D_GetPage1,
         D_GetPage2, D_GetPage3, D_RequestSent, D_ResponseReceived, I_Idle, I_Bubble3, I_Prepare,
         I_Fetched, I_RequestSent, I_GetPage2, I_GetPage3, I_GetInstrHazard, I_GetInstr,
         I_Bubble1, I_Bubble2a, I_Bubble2, I_ResponseReceived
    <2>. QED BY <1>1, <1>2, <2>1 DEF ReportExact, stageVars, reportVars
  <1>13. state # "D_REQUEST_SENT" => dmem' = dmem
    BY <1>2, <1>4 DEF Bus, Requests
  <1>14. ASSUME (state' \in Accessing) = (state \in Accessing), UNCHANGED <<dmem, Memory_Data>>
         PROVE  Loads' /\ StoresOnce'
    BY <1>1, <1>2, <1>3, <1>7, <1>8, <1>9, <1>10, <1>11, <1>14 DEF stageVars, reportVars
  <1>. DEFINE Goal == Access' /\ Requests' /\ Loads' /\ StoresOnce'
  <1>. SUFFICES Goal
    BY <1>12
  <1>15. ASSUME state \notin Accessing \cup {"I_PREPARE", "I_REQUEST_SENT", "I_GET_PAGE2",
                                            "I_GET_PAGE3", "D_RESPONSE_RECEIVED"},
                state' \notin Accessing \cup {"I_REQUEST_SENT", "I_GET_PAGE2", "I_GET_PAGE3",
                                             "D_RESPONSE_RECEIVED"},
                UNCHANGED <<dreq, Memory_Data>>, ireq'.valid = ireq.valid \/ ~ireq'.valid
         PROVE  Goal
    <2>1. Access' /\ Requests'
      BY <1>2, <1>15 DEF Access, Requests, Walking, Accessing
    <2>. QED BY <1>13, <1>14, <1>15, <2>1 DEF Accessing
  <1>16. ASSUME UNCHANGED <<state, ireq, dreq, lock, Memory_Data, current_pc>>,
                ~dresp.ok \/ state # "D_REQUEST_SENT"
         PROVE  Goal
    <2>1. dmem' = dmem
      BY <1>4, <1>13, <1>16 DEF Bus
    <2>2. Access'
      BY <1>1, <1>2, <1>5, <1>16 DEF Access, Accessing, stageVars
    <2>3. Requests'
      <3>1. state = "I_REQUEST_SENT" \/ state \in Walking \/ state = "D_REQUEST_SENT"
            \/ (~ireq.valid /\ ~dreq.valid)
        BY <1>2 DEF Requests
      <3>. QED BY <1>1, <1>2, <1>5, <1>16, <3>1
           DEF Requests, Access, Walking, Accessing, LockedRequest, stageVars
    <2>. QED BY <1>14, <1>16, <2>1, <2>2, <2>3
  <1>. USE <1>2
  <1>20. CASE D_Wait(Advance)
    BY <1>16, <1>20 DEF D_Wait, memVars
  <1>21. CASE D_Prepare
    <2>1. /\ state = "D_PREPARE" /\ state' = "D_REQUEST_SENT" /\ dreq' = LockedRequest
          /\ UNCHANGED <<lock, ireq, Memory_Data>>
          /\ instr3' = instr3 /\ ALU_result3' = ALU_result3 /\ reg_Q23' = reg_Q23 /\ CSR4' = CSR4
      BY <1>1, <1>5, <1>21 DEF D_Prepare, Access, Accessing, stageVars
    <2>2. Access'
      BY <2>1 DEF Access, Accessing
    <2>3. lock.addr = Physical(CSR4', ALU_result3')
      BY <2>1 DEF Access, Accessing, Physical
    <2>4. /\ dreq'.valid /\ ~dreq'.walk /\ dreq'.addr = lock.addr /\ dreq'.strobe = WMEM(instr3)
          /\ WMEM(instr3) => dreq'.data = reg_Q23
      BY <2>1 DEF LockedRequest, Access, Accessing
    <2>5. Requests'
      BY <2>1, <2>3, <2>4 DEF Requests, Walking
    <2>. QED BY <1>13, <1>14, <2>1, <2>2, <2>5 DEF Accessing
  <1>22. CASE D_GetPage1
    BY <1>1, <1>5, <1>13, <1>14, <1>22
    DEF D_GetPage1, fetchVars, Access, Requests, Accessing, Walking, DataRequest, stageVars
  <1>23. CASE D_GetPage2(dresp)
    BY <1>1, <1>5, <1>13, <1>14, <1>23
    DEF D_GetPage2, fetchVars, Access, Requests, Accessing, Walking, stageVars
  <1>24. CASE D_GetPage3(dresp)
    <2>1. CASE ~dresp.ok
      BY <1>16, <1>24, <2>1 DEF D_GetPage3, fetchVars
    <2>2. CASE dresp.ok
      <3>1. /\ state = "D_GET_PAGE3" /\ state' = "D_REQUEST_SENT"
            /\ dreq' = [LockedRequest EXCEPT !.addr = Leaf[lock.addr]]
            /\ UNCHANGED <<lock, ireq, Memory_Data>>
            /\ instr3' = instr3 /\ ALU_result3' = ALU_result3 /\ reg_Q23' = reg_Q23 /\ CSR4' = CSR4
        BY <1>1, <1>5, <1>24, <2>2 DEF D_GetPage3, Access, Accessing, stageVars
      <3>2. Access'
        BY <3>1 DEF Access, Accessing
      <3>3. Leaf[lock.addr] = Physical(CSR4', ALU_result3')
        BY <3>1 DEF Access, Accessing, Physical
      <3>4. /\ dreq'.valid /\ ~dreq'.walk /\ dreq'.addr = Leaf[lock.addr]
            /\ dreq'.strobe = WMEM(instr3)
            /\ WMEM(instr3) => dreq'.data = reg_Q23
        BY <3>1 DEF LockedRequest, Access, Accessing
      <3>5. Requests'
        BY <3>1, <3>3, <3>4 DEF Requests, Walking
      <3>. QED BY <1>13, <1>14, <3>1, <3>2, <3>5 DEF Accessing
    <2>. QED BY <2>1, <2>2
  <1>25. CASE D_RequestSent(dresp) /\ ~dresp.ok
    BY <1>16, <1>25 DEF D_RequestSent, fetchVars
  <1>26. CASE D_RequestSent(dresp) /\ dresp.ok
    <2>1. /\ state = "D_REQUEST_SENT" /\ state' = "D_RESPONSE_RECEIVED" /\ dreq' = NoRequest
          /\ UNCHANGED ireq /\ Memory_Data' = dresp.data /\ dmem = throughW
      BY <1>8, <1>26 DEF D_RequestSent, Accessing
    <2>2. /\ dreq.valid /\ ~dreq.walk /\ dreq.strobe = WMEM(instr3) /\ DMenable(instr3)
          /\ dreq.addr = Physical(CSR4, ALU_result3) /\ (WMEM(instr3) => dreq.data = reg_Q23)
      BY <2>1 DEF Requests, Access, Accessing, LockedRequest
    <2>3. Access' /\ Requests'
      BY <1>1, <2>1, <2>2 DEF Access, Requests, Accessing, Walking, NoRequest, stageVars
    <2>4. dmem' = throughM
      BY <1>4, <1>26, <2>1, <2>2 DEF Bus, throughM, StoreApplied
    <2>5. instr3.op = "LD" => Memory_Data' \in ReadValues(throughW, Physical(CsrW, ALU_result3))
      <3>1. instr3.op = "LD" => dresp.data \in ReadValues(dmem, dreq.addr)
        <4>1. instr3.op = "LD" => ~dreq.strobe
          BY <2>2 DEF WMEM
        <4>. DEFINE values == IF dreq.walk \/ dreq.strobe THEN {0} ELSE ReadValues(dmem, dreq.addr)
        <4>2. dresp \in {[ok |-> FALSE, data |-> 0]} \cup {[ok |-> TRUE, data |-> v] : v \in values}
          BY <2>2 DEF DResponses
        <4>3. dresp.data \in values
          <5>. HIDE DEF values
          <5>. QED BY <1>26, <4>2
        <4>. QED BY <2>2, <4>1, <4>3
      <3>. QED BY <1>5, <2>1, <2>2, <3>1
    <2>6. StoresOnce' /\ Loads'
      BY <1>1, <1>3, <1>7, <1>9, <1>10, <1>11, <2>1, <2>4, <2>5
      DEF Accessing, stageVars, reportVars
    <2>. QED BY <2>3, <2>6
  <1>27. CASE D_ResponseReceived
    BY <1>13, <1>14, <1>27
    DEF D_ResponseReceived, fetchVars, Access, Requests, Accessing, Walking
  <1>28. CASE I_Idle
    BY <1>15, <1>28 DEF I_Idle, Accessing, fetchVars
  <1>29. CASE I_Bubble3
    BY <1>13, <1>14, <1>29 DEF I_Bubble3, fetchVars, Access, Requests, Accessing, Walking
  <1>30. CASE I_Prepare(xlate)
    <2>1. /\ state = "I_PREPARE" /\ state' = "I_REQUEST_SENT" /\ CSR4' = CSR4
          /\ UNCHANGED <<Memory_Data, current_pc>> /\ ~ireq.valid /\ ~dreq.valid /\ ~dreq.strobe
          /\ IF Translating(CSR4)
             THEN dreq' = WalkRequest /\ ireq' = ireq
             ELSE ireq' = [valid |-> TRUE, addr |-> current_pc] /\ dreq' = dreq
      BY <1>5, <1>30 DEF I_Prepare, fetchVars, Requests, Walking
    <2>2. WalkRequest.valid = TRUE /\ WalkRequest.walk /\ ~WalkRequest.strobe /\ ireq.valid = FALSE
      BY <2>1 DEF WalkRequest, NoRequest
    <2>3. Access'
      BY <2>1 DEF Access, Accessing
    <2>4. Requests'
      <3>1. CASE Translating(CSR4)
        BY <2>1, <2>2, <3>1 DEF Requests, Walking
      <3>2. CASE ~Translating(CSR4)
        <4>1. ireq'.valid /\ ireq'.addr = Physical(CSR4, current_pc) /\ dreq'.valid = FALSE
          BY <2>1, <3>2 DEF Physical
        <4>. QED BY <2>1, <3>2, <4>1 DEF Requests, Walking
      <3>. QED BY <3>1, <3>2
    <2>. QED BY <2>1, <2>3, <2>4, <1>13, <1>14 DEF Accessing
  <1>31. CASE I_Fetched(iresp)
    <2>1. ireq.valid
      BY <1>31 DEF I_Fetched, IResponses
    <2>2. /\ state = "I_REQUEST_SENT" /\ state' = "I_GET_INSTR" /\ ~ireq'.valid
          /\ ~dreq.valid /\ ~dreq.strobe /\ UNCHANGED <<dreq, Memory_Data>>
      BY <1>31, <2>1 DEF I_Fetched, Requests
    <2>. QED BY <1>13, <1>14, <2>2 DEF Access, Requests, Accessing, Walking
  <1>32. CASE I_RequestSent(iresp, dresp)
    <2>1. dresp.ok => dreq.valid
      BY DEF DResponses
    <2>. QED BY <1>5, <1>13, <1>14, <1>32, <2>1
         DEF I_RequestSent, fetchVars, Access, Requests, Accessing, Walking, DataRequest
  <1>33. CASE I_GetPage2(dresp)
    BY <1>5, <1>13, <1>14, <1>33
    DEF I_GetPage2, fetchVars, Access, Requests, Accessing, Walking, DataRequest
  <1>34. CASE I_GetPage3(dresp)
    <2>1. CASE ~dresp.ok
      BY <1>16, <1>34, <2>1 DEF I_GetPage3, fetchVars
    <2>2. CASE dresp.ok
      <3>1. /\ state = "I_GET_PAGE3" /\ state' = "I_REQUEST_SENT" /\ CSR4' = CSR4
            /\ ireq' = [valid |-> TRUE, addr |-> Leaf[current_pc]]
            /\ dreq' = [dreq EXCEPT !.valid = FALSE] /\ ~dreq.strobe
            /\ UNCHANGED <<Memory_Data, current_pc>> /\ Translating(CSR4)
        BY <1>5, <1>34, <2>2 DEF I_GetPage3, fetchVars, Requests
      <3>2. dreq'.valid = FALSE /\ ~dreq'.strobe
        BY <3>1 DEF DataRequest
      <3>3. ireq'.valid /\ ireq'.addr = Physical(CSR4, current_pc)
        BY <3>1 DEF Physical
      <3>4. Access' /\ Requests'
        BY <3>1, <3>2, <3>3 DEF Access, Requests, Accessing, Walking
      <3>. QED BY <3>1, <3>4, <1>13, <1>14 DEF Accessing
    <2>. QED BY <2>1, <2>2
  <1>35. CASE I_GetInstrHazard(modify_reg)
    BY <1>15, <1>35 DEF I_GetInstrHazard, Accessing
  <1>36. CASE I_GetInstr(modify_reg)
    BY <1>15, <1>36 DEF I_GetInstr, fetchVars, Accessing
  <1>37. CASE I_Bubble1
    BY <1>15, <1>37 DEF I_Bubble1, Accessing
  <1>38. CASE I_Bubble2a
    BY <1>15, <1>38 DEF I_Bubble2a, fetchVars, Accessing
  <1>39. CASE I_Bubble2
    BY <1>15, <1>39 DEF I_Bubble2, Accessing
  <1>40. CASE I_ResponseReceived(PC_in)
    BY <1>15, <1>40 DEF I_ResponseReceived, Accessing
  <1>. QED
    BY <1>4, <1>20, <1>21, <1>22, <1>23, <1>24, <1>25, <1>26, <1>27, <1>28, <1>29, <1>30,
       <1>31, <1>32, <1>33, <1>34, <1>35, <1>36, <1>37, <1>38, <1>39, <1>40
    DEF MemTick, D_Pass, D_Accept

(***************************************************************************)
(* The inductive invariant                                                 *)
(***************************************************************************)
\* What the pipeline holds at reset: bubbles, whose operands are all zero.
LEMMA BubbleValues ==
  /\ \A di : RegNext(RegInit, Bubble, di) = RegInit
  /\ \A pc, v : CsrNext(CsrInit, Bubble, pc, v) = CsrInit
  /\ Q1(RegInit, Bubble) = 0 /\ Q2(RegInit, CsrInit, Bubble) = 0
  /\ ALUResult(Bubble, Q1(RegInit, Bubble), ALUBin(RegInit, CsrInit, Bubble)) = 0
  <1>1. \A di : RegNext(RegInit, Bubble, di) = RegInit
    BY KindsOfBubble DEF RegNext
  <1>2. \A pc, v : CsrNext(CsrInit, Bubble, pc, v) = CsrInit
    BY DEF CsrNext, Bubble
  <1>3. Q1(RegInit, Bubble) = 0
    BY RegZero DEF Q1, Bubble, RegInit
  <1>4. Q2(RegInit, CsrInit, Bubble) = 0
    BY RegZero DEF Q2, Bubble, RegInit
  <1>5. ALUBin(RegInit, CsrInit, Bubble) = 0
    BY <1>4 DEF ALUBin, ALU_B, Bubble
  <1>6. ALUResult(Bubble, 0, 0) = W(0)
    BY DEF ALUResult, Bubble
  <1>7. W(0) = 0
    BY WordAssumption DEF W
  <1>. QED BY <1>1, <1>2, <1>3, <1>4, <1>5, <1>6, <1>7

LEMMA InitRInv == Init => RInv
  <1>. SUFFICES ASSUME Init PROVE RInv
    OBVIOUS
  <1>1. /\ state = "D_IDLE" /\ backtoI = "I_IDLE" /\ instruction = Bubble /\ ~CSR_wait
        /\ instr1 = Bubble /\ instr2 = Bubble /\ instr3 = Bubble /\ instr4 = Bubble
        /\ instr5 = Bubble /\ commit4 = FALSE /\ commit5 = FALSE /\ ~skip3 /\ ~skip4
        /\ skip3 = FALSE /\ skip4 = FALSE
        /\ ~ireq.valid /\ ~dreq.valid /\ ~dreq.strobe
        /\ Reg4 = RegInit /\ Reg5 = RegInit /\ CSR4 = CsrInit /\ CSR5 = CsrInit
        /\ ALU_result3 = 0 /\ reg_Q23 = 0 /\ ALU_result4 = 0 /\ reg_Q24 = 0
        /\ cmem = dmem
    BY DEF Init, MemInit, RegFileInit, NoRequest
  <1>. USE <1>1, KindsOfBubble
  <1>2. Contents /\ CsrAlone
    BY DEF Contents, Fetched, CsrAlone, Offering, Real, Empty3, Empty2, Empty1
  <1>3. Underway
    BY DEF Underway, Accessing
  <1>4. FetchInv
    BY <1>2, <1>3, RegZero DEF FetchInv, FetchShape, Init
  <1>5. RegW = RegInit /\ CsrW = CsrInit
    BY BubbleValues DEF RegW, CsrW
  <1>6. WrittenBack /\ Operands /\ Committed
    BY <1>5, BubbleValues DEF WrittenBack, Operands, Committed, Legal, ERROR
  <1>7. Chain
    BY DEF Chain, Real
  <1>8. Access /\ Requests
    BY DEF Access, Accessing, Requests, Walking
  <1>9. Loads
    BY DEF Loads
  <1>10. StoresOnce
    BY DEF StoresOnce, StoreApplied, Accessing
  <1>11. ReportExact
    BY DEF ReportExact, Legal, ERROR, DMenable
  <1>. QED
    BY <1>4, <1>6, <1>7, <1>8, <1>9, <1>10, <1>11, InitInv DEF RInv, RetireInv, MemInv

LEMMA StepRInv == RInv /\ [Next]_vars => RInv'
  <1>. SUFFICES ASSUME RInv, [Next]_vars PROVE RInv'
    OBVIOUS
  <1>1. IInv'
    BY StepInv DEF RInv
  <1>2. CASE Next
    <2>1. PICK iresp \in IResponses, dresp \in DResponses : Cycle(iresp, dresp)
      BY <1>2 DEF Next
    <2>2. modify_reg'[0] = 0
      BY <2>1, RegZero DEF Cycle, Pipeline, Scoreboard, RInv, FetchInv
    <2>3. CASE Advance
      <3>1. Contents' /\ CsrAlone' /\ FetchShape'
        BY <2>1, <2>3, FetchInvAdvance
      <3>2. WrittenBack' /\ Operands' /\ Committed' /\ Chain'
        BY <2>1, <2>3, RetireAdvance
      <3>3. Access' /\ Requests' /\ Loads' /\ StoresOnce' /\ ReportExact'
        BY <2>1, <2>3, MemAdvance
      <3>. QED BY <1>1, <2>2, <3>1, <3>2, <3>3 DEF RInv, FetchInv, RetireInv, MemInv
    <2>4. CASE ~Advance
      <3>1. Contents' /\ CsrAlone' /\ FetchShape'
        BY <2>1, <2>4, FetchInvOther
      <3>2. WrittenBack' /\ Operands' /\ Committed' /\ Chain'
        BY <2>1, <2>4, RetireOther
      <3>3. Access' /\ Requests' /\ Loads' /\ StoresOnce' /\ ReportExact'
        BY <2>1, <2>4, MemOther
      <3>. QED BY <1>1, <2>2, <3>1, <3>2, <3>3 DEF RInv, FetchInv, RetireInv, MemInv
    <2>. QED BY <2>3, <2>4
  <1>3. CASE UNCHANGED vars
    <2>1. UNCHANGED <<memVars, rfVars, stageVars, reportVars, modify_reg, dmem, cmem>>
      BY <1>3 DEF vars
    <2>. USE <2>1 DEF memVars, rfVars, stageVars, reportVars
    <2>2. FetchInv'
      <3>1. Contents' /\ CsrAlone' /\ modify_reg'[0] = 0
        BY DEF RInv, FetchInv, Contents, CsrAlone, Offering, Empty1, Empty2, Empty3
      <3>2. FetchShape'
        BY DEF RInv, FetchInv, FetchShape, BehindHazard, BehindJump, BehindTrap, Underway, Calm,
           CsrInFlight, Unwritten, Jumps, Changes, Empty1, Empty2, Empty3, Empty4
      <3>. QED BY <3>1, <3>2 DEF FetchInv
    <2>3. RetireInv'
      <3>1. RegW' = RegW /\ CsrW' = CsrW
        BY DEF RegW, CsrW
      <3>2. WrittenBack' /\ Operands' /\ Committed'
        BY <3>1 DEF RInv, RetireInv, WrittenBack, Operands, Committed
      <3>3. Chain'
        BY <3>1 DEF RInv, RetireInv, Chain, NextD, NextE, NextM, NextW, Pending, Offering,
           Empty1, Empty2, Empty3
      <3>. QED BY <3>2, <3>3 DEF RetireInv
    <2>4. MemInv'
      <3>1. CsrW' = CsrW
        BY DEF CsrW
      <3>. QED BY <3>1 DEF RInv, MemInv, Access, Requests, Loads, StoresOnce, StoreApplied
    <2>5. ReportExact'
      BY DEF RInv, ReportExact
    <2>. QED BY <1>1, <2>2, <2>3, <2>4, <2>5 DEF RInv
  <1>. QED BY <1>2, <1>3

\* The strengthened invariant holds of every behaviour.
THEOREM RInvariance == Spec => []RInv
  BY InitRInv, StepRInv, PTL DEF Spec

(***************************************************************************)
(* Its consequences                                                        *)
(***************************************************************************)
\* While an instruction is fetched, and while its page tables are walked for it, no
\* earlier instruction that sets satp or the mode is unfinished (MEM.sv:51, 239-336).
THEOREM FetchIsTranslated == Spec => []FetchTranslated
  <1>1. RInv => FetchTranslated
    <2>. SUFFICES ASSUME RInv PROVE FetchTranslated
      OBVIOUS
    <2>1. state \in {"I_PREPARE", "I_REQUEST_SENT", "I_GET_PAGE2", "I_GET_PAGE3"} => ~CsrInFlight
      BY DEF RInv, FetchInv, FetchShape, Underway, Calm, IInv, FetchTiming
    <2>. QED BY <2>1 DEF RInv, MemInv, Requests, FetchTranslated
  <1>. QED BY <1>1, RInvariance, PTL

\* The request on the data bus is that of the instruction in stage M, and it is alone
\* on the buses (MEM.sv:103-229).
THEOREM RequestIsOfStageM == Spec => []RequestOfStageM
  <1>1. RInv => RequestOfStageM
    BY DEF RInv, MemInv, Access, Accessing, Requests, Walking, RequestOfStageM
  <1>. QED BY <1>1, RInvariance, PTL

\* Every store reaches the RAM once, in program order.
THEOREM StoresReachRamOnce == Spec => []StoresOnce
  <1>1. RInv => StoresOnce
    BY DEF RInv, MemInv
  <1>. QED BY <1>1, RInvariance, PTL

\* Commit flag and skip flag reported to difftest belong to the instruction reported
\* (Reg_File.sv:135-179, MEM.sv:115, 152).
THEOREM ReportIsExact == Spec => []ReportExact
  <1>1. RInv => ReportExact
    BY DEF RInv
  <1>. QED BY <1>1, RInvariance, PTL

\* One round of four bubbles empties the pipeline, so nothing is left to wait for
\* when the fetch unit looks at the scoreboard again (MEM.sv:369-377).
THEOREM OneDataStall == Spec => DataStallOnce
  <1>1. RInv /\ RInv' /\ [Next]_vars =>
          [state = "I_BUBBLE1" /\ state' = "I_GET_INSTR"
             => ~DataHazard(modify_reg, instruction)']_vars
    <2>. SUFFICES ASSUME RInv, RInv', Next, state = "I_BUBBLE1", state' = "I_GET_INSTR"
                  PROVE  ~DataHazard(modify_reg, instruction)'
      OBVIOUS
    <2>1. PICK iresp \in IResponses, dresp \in DResponses : Cycle(iresp, dresp)
      BY DEF Next
    <2>2. I_Bubble1 /\ ~Advance
      BY <2>1 DEF Cycle, Pipeline, MemTick, D_Wait, D_Pass, D_Accept, D_Prepare, D_GetPage1,
         D_GetPage2, D_GetPage3, D_RequestSent, D_ResponseReceived, I_Idle, I_Bubble3,
         I_Prepare, I_Fetched, I_RequestSent, I_GetPage2, I_GetPage3, I_GetInstrHazard,
         I_GetInstr, I_Bubble2a, I_Bubble2, I_ResponseReceived,
         RInv, IInv, FetchTiming, Advance
    <2>3. backtoI = "I_BUBBLE1" /\ BehindHazard
      BY DEF RInv, IInv, FetchTiming, FetchInv, FetchShape
    <2>4. Empty4
      BY <2>2, <2>3 DEF I_Bubble1, BehindHazard
    <2>5. instr1' = Bubble /\ instr2' = Bubble /\ instr3' = Bubble /\ instr4' = Bubble
      BY <2>1, <2>2, <2>4, OtherEdge DEF Empty4, Empty3, Empty2, Empty1, stageVars
    <2>6. ASSUME NEW r \in Reg PROVE ~(modify_reg'[r] > 1)
      <3>1. CASE r = 0
        BY <3>1 DEF RInv, FetchInv
      <3>2. CASE r # 0
        <4>1. InFlightWriters(r)' = 0
          BY <2>5, KindsOfBubble DEF InFlightWriters, Writes, One
        <4>2. modify_reg'[r] = OneHot(InFlightWriters(r)')
          BY <3>2 DEF RInv, IInv, ScoreboardExact
        <4>. QED BY <4>1, <4>2 DEF OneHot
      <3>. QED BY <3>1, <3>2
    <2>7. instruction'.rs1 \in Reg /\ instruction'.rs2 \in Reg
      BY DEF RInv, IInv, TypeOK, MemTypeOK, Instr
    <2>. QED BY <2>6, <2>7 DEF DataHazard
  <1>. QED BY <1>1, RInvariance, PTL DEF Spec, DataStallOnce

(***************************************************************************)
(* The refinement of Isa                                                   *)
(***************************************************************************)
\* The instance of Isa computes with the same functions.
LEMMA SameFunctions ==
  /\ A!PCINIT = PCINIT /\ A!RegInit = RegInit /\ A!CsrInit = CsrInit /\ A!Cell = Cell
  /\ A!Bubble = Bubble
  /\ \A n : A!W(n) = W(n)
  /\ \A i : A!Legal(i) = Legal(i) /\ A!WMEM(i) = WMEM(i)
  /\ \A regs, i : A!Q1(regs, i) = Q1(regs, i)
  /\ \A regs, csr, i : A!Q2(regs, csr, i) = Q2(regs, csr, i)
  /\ \A regs, csr, i : A!ALUBin(regs, csr, i) = ALUBin(regs, csr, i)
  /\ \A i, a, b : A!ALUResult(i, a, b) = ALUResult(i, a, b)
  /\ \A i, pc, a, b, n : A!PCin(i, pc, a, b, n) = PCin(i, pc, a, b, n)
  /\ \A i, pc, a, m, q : A!RegDI(i, pc, a, m, q) = RegDI(i, pc, a, m, q)
  /\ \A regs, i, v : A!RegNext(regs, i, v) = RegNext(regs, i, v)
  /\ \A csr, i, pc, v : A!CsrNext(csr, i, pc, v) = CsrNext(csr, i, pc, v)
  /\ \A csr, a : A!Physical(csr, a) = Physical(csr, a)
  /\ \A mem, a : A!ReadValues(mem, a) = ReadValues(mem, a)
  /\ \A mem, a, v : A!Written(mem, a, v) = Written(mem, a, v)
  BY DEF A!PCINIT, PCINIT, A!RegInit, RegInit, A!CsrInit, CsrInit, A!Cell, Cell, A!Bubble, Bubble,
     A!W, W, A!Legal, Legal, A!ERROR, ERROR, A!WMEM, WMEM, A!Q1, Q1, A!Q2, Q2, A!ALUBin, ALUBin,
     A!ALU_B, ALU_B, A!ALUResult, ALUResult, A!PCin, PCin, A!OFFSET, OFFSET, A!BRANCH, BRANCH,
     A!ClearBit0, ClearBit0, A!RegDI, RegDI, A!RegNext, RegNext, A!WREG, WREG, A!CsrNext, CsrNext,
     A!Mstatus, Mstatus, A!MIE, MIE, A!MPIE, MPIE, A!Physical, Physical, A!Translating, Translating,
     A!ReadValues, ReadValues, A!IsDevice, IsDevice, A!CellOf, CellOf, A!Written, Written,
     A!Reg, Reg, A!CsrName, CsrName, A!CsrFile, CsrFile

\* The instruction that leaves W at an advance is followed by the one to which it leads.
LEMMA RetirePCAdvances ==
  ASSUME RInv, NEW iresp \in IResponses, NEW dresp \in DResponses,
         Cycle(iresp, dresp), Advance
  PROVE  RetirePC' = IF Real(instr4) THEN Succ(instr4, PC4, Reg5, CSR5) ELSE RetirePC
  <1>1. /\ state = "D_IDLE" /\ instr1' = instruction /\ PC1' = current_pc
        /\ instr2' = instr1 /\ PC2' = PC1 /\ instr3' = instr2 /\ PC3' = PC2
        /\ instr4' = instr3 /\ PC4' = PC3
        /\ instruction' = Bubble /\ current_pc' = requested_pc /\ UNCHANGED requested_pc
    BY AdvanceEdge
  <1>2. Chain /\ FetchShape
    BY DEF RInv, RetireInv, FetchInv
  <1>3. NextD' = requested_pc /\ NextE' = NextD /\ NextM' = NextE /\ NextW' = NextM
    BY <1>1 DEF NextD, NextE, NextM, NextW, Real
  <1>4. RetirePC' = NextW
    BY <1>1, <1>3 DEF RetirePC, NextW
  <1>5. ~(Pending /\ ~Offering /\ Empty3)
    <2>. SUFFICES ASSUME Pending, ~Offering, Empty3 PROVE FALSE
      OBVIOUS
    <2>1. BehindJump /\ ~Real(instruction)
      BY <1>1, <1>2 DEF Pending, Offering, FetchShape
    <2>. QED BY <1>1, <2>1, KindsOfBubble
         DEF BehindJump, Jumps, Changes, Empty3, Empty2, Empty1, Real
  <1>. QED BY <1>2, <1>4, <1>5 DEF Chain, RetirePC

\* An advance completes the instruction in W, or nothing.
LEMMA AdvanceIsStep ==
  ASSUME RInv, NEW iresp \in IResponses, NEW dresp \in DResponses,
         Cycle(iresp, dresp), Advance
  PROVE  A!IsaNext
  <1>. USE SameFunctions
  <1>1. /\ rf_state = "IDLE" /\ Reg5' = Reg4 /\ CSR5' = CSR4 /\ instr5' = instr4
    BY AdvanceEdge
  <1>2. /\ WrittenBack /\ Operands /\ Loads /\ instr4 \in Fetched
    BY DEF RInv, RetireInv, MemInv, FetchInv, Contents
  <1>3. Reg5' = RegW /\ CSR5' = CsrW
    BY <1>1, <1>2 DEF WrittenBack
  <1>4. cmem' = StoreApplied(cmem, instr4, ALU_result4, reg_Q24) /\ CSR4 = CsrW
    BY <1>1, <1>2, MemAdvance DEF WrittenBack
  <1>5. RetirePC' = IF Real(instr4) THEN Succ(instr4, PC4, Reg5, CSR5) ELSE RetirePC
    BY RetirePCAdvances
  <1>6. ~Legal(instr4) => Reg5' = Reg5 /\ CSR5' = CSR5 /\ cmem' = cmem
    <2>1. ~Legal(instr4) => ~WREG(instr4) /\ ~WMEM(instr4)
      BY DEF Legal, ERROR, WREG, WMEM
    <2>2. ~WREG(instr4) => RegW = Reg5
      BY DEF RegW, RegNext
    <2>3. ~WREG(instr4) => CsrW = CSR5
      BY DEF CsrW, CsrNext, WREG
    <2>. QED BY <1>3, <1>4, <2>1, <2>2, <2>3 DEF StoreApplied
  <1>7. CASE instr4 = Bubble
    <2>1. A!Pause
      BY <1>1, <1>5, <1>6, <1>7, KindsOfBubble DEF A!Pause, Real
    <2>. QED BY <2>1 DEF A!IsaNext
  <1>8. CASE instr4 \in Instrs /\ ~Legal(instr4)
    <2>1. Real(instr4) /\ RetirePC = PC4
      BY <1>8, InstrsAssumption DEF Real, RetirePC
    <2>2. Succ(instr4, PC4, Reg5, CSR5) = W(PC4 + ILen)
      BY <1>8 DEF Succ, PCin, OFFSET, BRANCH, Legal, ERROR
    <2>3. A!Skip
      BY <1>1, <1>5, <1>6, <1>8, <2>1, <2>2 DEF A!Skip
    <2>. QED BY <2>3 DEF A!IsaNext
  <1>9. CASE instr4 \in Instrs /\ Legal(instr4)
    <2>. DEFINE m == IF instr4.op = "LD" THEN Memory_Data4 ELSE 0
                alu == ALUResult(instr4, Q1(Reg5, instr4), ALUBin(Reg5, CSR5, instr4))
    <2>1. Real(instr4) /\ RetirePC = PC4
      BY <1>9, InstrsAssumption DEF Real, RetirePC
    <2>2. ALU_result4 = alu /\ reg_Q24 = Q2(Reg5, CSR5, instr4)
      BY <1>2 DEF Operands
    <2>3. RegDI(instr4, PC4, alu, m, reg_Q24) = RegDI(instr4, PC4, alu, Memory_Data4, reg_Q24)
      BY DEF RegDI
    <2>4. Reg5' = RegNext(Reg5, instr4, RegDI(instr4, PC4, alu, m, reg_Q24))
      BY <1>3, <2>2, <2>3 DEF RegW
    <2>5. CSR5' = CsrNext(CSR5, instr4, PC4, alu)
      BY <1>3, <2>2 DEF CsrW
    <2>6. cmem' = IF WMEM(instr4) THEN Written(cmem, Physical(CSR5, alu), reg_Q24) ELSE cmem
      <3>1. WMEM(instr4) => CsrW = CSR5
        BY DEF CsrW, CsrNext, WMEM
      <3>. QED BY <1>4, <2>2, <3>1 DEF StoreApplied
    <2>7. RetirePC' = PCin(instr4, PC4, Q1(Reg5, instr4), ALUBin(Reg5, CSR5, instr4), W(PC4 + ILen))
      BY <1>5, <2>1 DEF Succ
    <2>8. A!Execute(instr4, m)
      <3>. HIDE DEF m
      <3>. QED BY <1>1, <1>9, <2>1, <2>2, <2>4, <2>5, <2>6, <2>7 DEF A!Execute
    <2>9. m \in A!Loaded(instr4)
      <3>1. instr4.op = "LD" => ALUBin(Reg5, CSR5, instr4) = instr4.imm
        BY DEF ALUBin, ALU_B
      <3>. QED BY <1>2, <2>2, <3>1 DEF A!Loaded, Loads
    <2>. QED BY <1>9, <2>8, <2>9 DEF A!IsaNext, A!Step
  <1>. QED BY <1>2, <1>7, <1>8, <1>9 DEF Fetched

\* Any other edge changes nothing that the program or difftest can see.
LEMMA OtherEdgeStutters ==
  ASSUME RInv, NEW iresp \in IResponses, NEW dresp \in DResponses,
         Cycle(iresp, dresp), ~Advance
  PROVE  UNCHANGED A!isaVars
  BY OtherEdge, RetireOther DEF A!isaVars, reportVars

\* The pipeline implements the sequential machine of Isa, whose states core.sv reports,
\* instruction by instruction: loads, stores, jumps, traps, page table changes and
\* multi-cycle operations, in any mixture (core.sv:44-133).
THEOREM CoreImplementsIsa == Spec => ImplementsIsa
  <1>1. Init => A!IsaInit
    BY SameFunctions
    DEF Init, MemInit, A!IsaInit, RetirePC, NextW, NextM, NextE, NextD, Real
  <1>2. RInv /\ [Next]_vars => [A!IsaNext]_A!isaVars
    <2>. SUFFICES ASSUME RInv, [Next]_vars PROVE [A!IsaNext]_A!isaVars
      OBVIOUS
    <2>1. CASE Next
      <3>1. PICK iresp \in IResponses, dresp \in DResponses : Cycle(iresp, dresp)
        BY <2>1 DEF Next
      <3>2. CASE Advance
        BY <3>1, <3>2, AdvanceIsStep
      <3>3. CASE ~Advance
        BY <3>1, <3>3, OtherEdgeStutters
      <3>. QED BY <3>2, <3>3
    <2>2. CASE UNCHANGED vars
      BY <2>2 DEF vars, memVars, stageVars, reportVars, A!isaVars, RetirePC, NextW, NextM, NextE,
         NextD, Real
    <2>. QED BY <2>1, <2>2
  <1>. QED BY <1>1, <1>2, RInvariance, PTL DEF Spec, ImplementsIsa, A!IsaSpec

-----------------------------------------------------------------------------
(***************************************************************************)
(* The arbiter and the block RAM are an environment of the core as Core    *)
(* assumes it, for any delay of the RAM and any timing of the devices; so  *)
(* what is proved of the core holds on the board.                          *)
(***************************************************************************)

\* The invariant of the system: that of the core and that of what is below it.
SInv == RInv /\ BusInv

\* A request that is not answered stays as it is.
LEMMA UnansweredStays ==
  ASSUME RInv, NEW iresp, NEW dresp, Pipeline(iresp, dresp), ~iresp.ok, ~dresp.ok
  PROVE  /\ ireq.valid => ireq' = ireq
         /\ dreq.valid => dreq' = dreq
  <1>. DEFINE xlate == Translating(CSR4)
              Goal == (ireq.valid => ireq' = ireq) /\ (dreq.valid => dreq' = dreq)
  <1>1. MemTick(Advance, instr2, ALU_result2, reg_Q2, xlate, PC_in, modify_reg, iresp, dresp)
    BY DEF Pipeline
  <1>2. /\ ireq.valid => state = "I_REQUEST_SENT"
        /\ dreq.valid => state \in Walking \cup {"I_REQUEST_SENT", "D_REQUEST_SENT"}
    BY DEF RInv, MemInv, Requests
  <1>. SUFFICES Goal
    OBVIOUS
  <1>3. CASE state = "I_REQUEST_SENT"
    <2>1. I_RequestSent(iresp, dresp)
      BY <1>1, <1>3 DEF MemTick, D_Wait, D_Pass, D_Accept, D_Prepare, D_GetPage1, D_GetPage2,
         D_GetPage3, D_RequestSent, D_ResponseReceived, I_Idle, I_Bubble3, I_Prepare, I_Fetched,
         I_GetPage2, I_GetPage3, I_GetInstrHazard, I_GetInstr, I_Bubble1, I_Bubble2a, I_Bubble2,
         I_ResponseReceived
    <2>. QED BY <2>1 DEF I_RequestSent
  <1>4. CASE state \in Walking
    <2>1. D_GetPage2(dresp) \/ D_GetPage3(dresp) \/ I_GetPage2(dresp) \/ I_GetPage3(dresp)
      BY <1>1, <1>4 DEF MemTick, D_Wait, D_Pass, D_Accept, D_Prepare, D_GetPage1, Walking,
         D_RequestSent, D_ResponseReceived, I_Idle, I_Bubble3, I_Prepare, I_Fetched,
         I_RequestSent, I_GetInstrHazard, I_GetInstr, I_Bubble1, I_Bubble2a, I_Bubble2,
         I_ResponseReceived
    <2>. QED BY <2>1 DEF D_GetPage2, D_GetPage3, I_GetPage2, I_GetPage3
  <1>5. CASE state = "D_REQUEST_SENT"
    <2>1. D_RequestSent(dresp)
      BY <1>1, <1>5 DEF MemTick, D_Wait, D_Pass, D_Accept, D_Prepare, D_GetPage1, D_GetPage2,
         D_GetPage3, D_ResponseReceived, I_Idle, I_Bubble3, I_Prepare, I_Fetched, I_RequestSent,
         I_GetPage2, I_GetPage3, I_GetInstrHazard, I_GetInstr, I_Bubble1, I_Bubble2a, I_Bubble2,
         I_ResponseReceived
    <2>. QED BY <2>1 DEF D_RequestSent
  <1>. QED BY <1>2, <1>3, <1>4, <1>5

\* What the arbiter forwards while it serves one of the buses.
LEMMA Forwarded ==
  ASSUME SInv, busy
  PROVE  /\ oreq.valid
         /\ index = "D" => oreq = dreq
         /\ index = "I" => ireq.valid /\ ~oreq.strobe
         /\ oreq.strobe => index = "D" /\ ~dreq.walk
  <1>1. icreq.valid = ireq.valid /\ ~icreq.strobe
    BY DEF icreq, NoRequest
  <1>2. dreq.strobe => ~dreq.walk
    BY DEF SInv, RInv, MemInv, Requests
  <1>. QED BY <1>1, <1>2 DEF SInv, BusInv, oreq

\* A cycle of the system is a clock edge of the core with responses it allows.
LEMMA SocCycleIsCycle ==
  ASSUME SInv, NEW device_last \in BOOLEAN, BramTick,
         NEW iresp \in IAnswers(last(device_last)),
         NEW dresp \in DAnswers(last(device_last), rdata)
  PROVE  iresp \in IResponses /\ dresp \in DResponses /\ Bus(dresp)
  <1>. DEFINE l == last(device_last)
  <1>1. BusInv /\ dreq \in DataRequest
    BY DEF SInv, RInv, IInv, TypeOK, MemTypeOK
  <1>2. iresp \in IResponses
    <2>1. CASE busy /\ index = "I" /\ l
      BY <2>1, <1>1 DEF IAnswers, IResponses, BusInv
    <2>2. CASE ~(busy /\ index = "I" /\ l)
      BY <2>2 DEF IAnswers, IResponses
    <2>. QED BY <2>1, <2>2
  <1>3. CASE busy /\ index = "D" /\ l
    <2>1. oreq = dreq /\ dreq.valid /\ oreq.valid
      BY <1>1, <1>3, Forwarded DEF BusInv
    <2>. DEFINE served == IF dreq.walk \/ dreq.strobe THEN {0} ELSE rdata
                allowed == IF dreq.walk \/ dreq.strobe THEN {0} ELSE ReadValues(dmem, dreq.addr)
    <2>2. dresp \in {[ok |-> TRUE, data |-> v] : v \in served}
      BY <1>3 DEF DAnswers
    <2>3. served = allowed
      <3>1. ASSUME ~dreq.walk, ~dreq.strobe PROVE rdata = ReadValues(dmem, dreq.addr)
        <4>1. CASE IsDevice(dreq.addr)
          BY <2>1, <3>1, <4>1 DEF rdata, ToRam, ReadValues
        <4>2. CASE ~IsDevice(dreq.addr)
          <5>1. ToRam /\ ram_last /\ ready_read
            BY <1>3, <2>1, <3>1, <4>2 DEF ToRam, last, ram_last
          <5>2. douta = dmem[CellOf(dreq.addr)]
            BY <1>1, <1>3, <2>1, <5>1 DEF BusInv
          <5>. QED BY <4>2, <5>1, <5>2 DEF rdata, ReadValues
        <4>. QED BY <4>1, <4>2
      <3>. QED BY <3>1
    <2>4. DResponses = {[ok |-> FALSE, data |-> 0]} \cup {[ok |-> TRUE, data |-> v] : v \in allowed}
      BY <2>1 DEF DResponses
    <2>5. dresp.ok
      <3>. HIDE DEF served
      <3>. QED BY <2>2
    <2>6. Bus(dresp)
      <3>1. CASE ~dreq.strobe
        BY <2>1, <3>1 DEF BramTick, Bus
      <3>2. CASE dreq.strobe /\ IsDevice(dreq.addr)
        <4>1. ~ToRam
          BY <1>3, <2>1, <3>2, Forwarded DEF ToRam
        <4>2. ~real_valid
          BY <1>1, <4>1 DEF BusInv, ram_valid
        <4>. QED BY <3>2, <4>2 DEF BramTick, Bus, Written
      <3>3. CASE dreq.strobe /\ ~IsDevice(dreq.addr)
        <4>1. ToRam /\ real_valid
          BY <1>3, <2>1, <3>3 DEF ToRam, last, ram_last
        <4>. QED BY <2>1, <2>5, <3>3, <4>1 DEF BramTick, Bus, Written
      <3>. QED BY <3>1, <3>2, <3>3
    <2>7. dresp \in DResponses
      <3>. HIDE DEF served, allowed
      <3>. QED BY <2>2, <2>3, <2>4
    <2>. QED BY <1>2, <2>6, <2>7
  <1>4. CASE ~(busy /\ index = "D" /\ l)
    <2>1. dresp = [ok |-> FALSE, data |-> 0]
      BY <1>4 DEF DAnswers
    <2>2. ~(real_valid /\ oreq.strobe)
      <3>. SUFFICES ASSUME real_valid, oreq.strobe PROVE FALSE
        OBVIOUS
      <3>1. busy /\ ToRam
        BY <1>1 DEF BusInv, ram_valid, oreq, NoRequest
      <3>2. index = "D" /\ ram_last
        BY <3>1, Forwarded DEF ram_last
      <3>. QED BY <1>4, <3>1, <3>2 DEF last
    <2>. QED BY <1>2, <2>1, <2>2 DEF DResponses, Bus, BramTick
  <1>. QED BY <1>3, <1>4

(***************************************************************************)
(* The invariant                                                           *)
(***************************************************************************)
LEMMA BusInvStep ==
  ASSUME SInv, NEW device_last \in BOOLEAN, SocCycle(device_last)
  PROVE  BusInv'
  <1>. DEFINE l == last(device_last)
  <1>1. PICK iresp \in IAnswers(l), dresp \in DAnswers(l, rdata) : Pipeline(iresp, dresp)
    BY DEF SocCycle
  <1>2. ArbiterTick(l) /\ BramTick /\ BusInv /\ RInv
    BY DEF SocCycle, SInv
  <1>3. CASE ~busy
    <2>1. ~iresp.ok /\ ~dresp.ok
      BY <1>1, <1>3 DEF IAnswers, DAnswers
    <2>2. /\ ireq.valid => ireq' = ireq
          /\ dreq.valid => dreq' = dreq
      BY <1>1, <1>2, <2>1, UnansweredStays
    <2>3. ~ram_valid /\ ~real_valid
      BY <1>2, <1>3 DEF BusInv, ram_valid, oreq, NoRequest
    <2>4. ~real_valid' /\ ~ready_read' /\ real_valid' \in BOOLEAN /\ ready_read' \in BOOLEAN
      BY <1>2, <2>3 DEF BramTick, BusInv
    <2>5. icreq.valid = ireq.valid /\ ireq.valid \in BOOLEAN /\ dreq.valid \in BOOLEAN
      BY <1>2 DEF icreq, NoRequest, RInv, IInv, TypeOK, MemTypeOK, DataRequest
    <2>6. busy' = selected_req.valid /\ index' = select
      BY <1>2, <1>3 DEF ArbiterTick
    <2>7. CASE select = "D"
      BY <2>2, <2>4, <2>5, <2>6, <2>7 DEF selected_req, BusInv
    <2>8. CASE select = "I"
      BY <2>2, <2>4, <2>5, <2>6, <2>8 DEF selected_req, BusInv
    <2>. QED BY <2>7, <2>8 DEF select
  <1>4. CASE busy /\ l
    <2>1. busy' = FALSE /\ index' = index
      BY <1>2, <1>4 DEF ArbiterTick
    <2>2. ~ram_valid \/ ram_last
      BY <1>4 DEF last, ram_valid
    <2>3. ~real_valid' /\ real_valid' \in BOOLEAN /\ ready_read' \in BOOLEAN
      BY <1>2, <2>2 DEF BramTick, BusInv
    <2>. QED BY <1>2, <2>1, <2>3 DEF BusInv
  <1>5. CASE busy /\ ~l
    <2>1. busy' = TRUE /\ index' = index /\ ~iresp.ok /\ ~dresp.ok
      <3>1. busy' = TRUE /\ index' = index
        BY <1>2, <1>5 DEF ArbiterTick
      <3>2. iresp = [ok |-> FALSE, instr |-> Bubble] /\ dresp = [ok |-> FALSE, data |-> 0]
        <4>. HIDE DEF l
        <4>. QED BY <1>1, <1>5 DEF IAnswers, DAnswers
      <3>. QED BY <3>1, <3>2
    <2>2. IF index = "D" THEN dreq.valid /\ dreq' = dreq ELSE ireq.valid /\ ireq' = ireq
      BY <1>1, <1>2, <1>5, <2>1, UnansweredStays DEF BusInv
    <2>3. oreq' = oreq
      BY <1>5, <2>1, <2>2 DEF oreq, icreq
    <2>4. ToRam' = ToRam /\ ram_valid' = ram_valid
      BY <2>3 DEF ToRam, ram_valid
    <2>5. real_valid' => ram_valid
      BY <1>2 DEF BramTick
    <2>6. ASSUME ready_read'
          PROVE  ToRam' /\ ~oreq'.strobe /\ douta' = dmem'[CellOf(oreq'.addr)]
      <3>1. real_valid /\ ToRam
        BY <1>2, <2>6 DEF BramTick, BusInv, ram_valid
      <3>2. ~ram_last /\ ~oreq.strobe
        BY <1>5, <3>1 DEF last, ram_last
      <3>. QED BY <1>2, <2>3, <2>4, <3>1, <3>2 DEF BramTick
    <2>7. real_valid' \in BOOLEAN /\ ready_read' \in BOOLEAN
      BY <1>2 DEF BramTick, BusInv
    <2>. QED BY <1>2, <2>1, <2>2, <2>4, <2>5, <2>6, <2>7 DEF BusInv
  <1>. QED BY <1>3, <1>4, <1>5

LEMMA InitSInv == SocInit => SInv
  <1>1. SocInit => BusInv
    BY DEF SocInit, ArbiterInit, BramInit, BusInv
  <1>. QED BY <1>1, InitRInv DEF SocInit, SInv

\* A step of the system is a step of the core, or none.
LEMMA SocStepIsStep == SInv /\ [SocNext]_socVars => [Next]_vars
  <1>. SUFFICES ASSUME SInv, [SocNext]_socVars PROVE [Next]_vars
    OBVIOUS
  <1>1. CASE SocNext
    <2>1. PICK device_last \in BOOLEAN : SocCycle(device_last)
      BY <1>1 DEF SocNext
    <2>2. BramTick
      BY <2>1 DEF SocCycle
    <2>3. PICK iresp \in IAnswers(last(device_last)), dresp \in DAnswers(last(device_last), rdata) :
            Pipeline(iresp, dresp)
      BY <2>1 DEF SocCycle
    <2>4. iresp \in IResponses /\ dresp \in DResponses /\ Bus(dresp)
      BY <2>2, <2>3, SocCycleIsCycle
    <2>. QED BY <2>3, <2>4 DEF Next, Cycle
  <1>2. CASE UNCHANGED socVars
    BY <1>2 DEF socVars
  <1>. QED BY <1>1, <1>2

LEMMA StepSInv == SInv /\ [SocNext]_socVars => SInv'
  <1>. SUFFICES ASSUME SInv, [SocNext]_socVars PROVE SInv'
    OBVIOUS
  <1>1. RInv'
    BY SocStepIsStep, StepRInv DEF SInv
  <1>2. CASE SocNext
    BY <1>1, <1>2, BusInvStep DEF SocNext, SInv
  <1>3. CASE UNCHANGED socVars
    BY <1>1, <1>3 DEF socVars, vars, memVars, arbVars, bramVars, SInv, BusInv, ram_valid, ToRam,
       oreq, icreq
  <1>. QED BY <1>2, <1>3

(***************************************************************************)
(* Theorems                                                                *)
(***************************************************************************)
\* The system keeps the invariant.
THEOREM SocInvariance == SocSpec => []SInv
  BY InitSInv, StepSInv, PTL DEF SocSpec

\* A read of RAM is acknowledged only when the output register of the block RAM
\* shows the present content of the cell it asked for (bram_wrapper.sv:58-68).
THEOREM ReadsGetTheirOwnAnswer == SocSpec => []ReadsOwnAnswer
  <1>1. SInv => ReadsOwnAnswer
    BY DEF SInv, BusInv, ReadsOwnAnswer, ram_last
  <1>. QED BY <1>1, SocInvariance, PTL

\* The buses and the memory of the board are an environment of the core as Core
\* assumes it: only a pending request is answered, a read returns the RAM's content,
\* and a write is done when it is acknowledged.
THEOREM SocImplementsCore == SocSpec => ImplementsCore
  <1>1. SocInit => Init
    BY DEF SocInit
  <1>. QED BY <1>1, SocStepIsStep, SocInvariance, PTL DEF SocSpec, ImplementsCore, Spec

\* So the whole board executes programs one instruction after the other.
THEOREM BoardImplementsIsa == SocSpec => ImplementsIsa
  BY SocImplementsCore, CoreImplementsIsa DEF ImplementsCore
=============================================================================
