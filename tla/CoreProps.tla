------------------------------ MODULE CoreProps -----------------------------
(***************************************************************************)
(* What makes the pipeline of Core correct.                                *)
(***************************************************************************)
EXTENDS Core

DataRequest == [valid : BOOLEAN, walk : BOOLEAN, addr : Word, strobe : BOOLEAN, data : Word]

MemTypeOK ==
  /\ state \in State /\ backtoI \in {"I_IDLE", "I_BUBBLE1", "I_BUBBLE2", "I_BUBBLE3"}
  /\ instruction \in Instr /\ delay_instruction \in Instr
  /\ current_pc \in Word /\ requested_pc \in Word
  /\ flush_F \in BOOLEAN /\ flush_M \in BOOLEAN /\ CSR_wait \in BOOLEAN
  /\ bubble \in {0, 1, 2, 4, 8}
  /\ lock \in [addr : Word, strobe : BOOLEAN, data : Word]
  /\ Memory_Data \in Word /\ skip3 \in BOOLEAN
  /\ ireq \in [valid : BOOLEAN, addr : Word] /\ dreq \in DataRequest

RegFileTypeOK ==
  /\ rf_state \in {"IDLE", "DOING", "WAIT"}
  /\ Reg4 \in [Reg -> Word] /\ CSR4 \in CsrRegs
  /\ commit4 \in BOOLEAN /\ flush_W \in BOOLEAN
  /\ mod_reg_dec \in Reg

StagesTypeOK ==
  /\ instr1 \in Instr /\ instr2 \in Instr /\ instr3 \in Instr
  /\ instr4 \in Instr /\ instr5 \in Instr
  /\ PC1 \in Word /\ PC2 \in Word /\ PC3 \in Word /\ PC4 \in Word /\ PC5 \in Word
  /\ ALU_result3 \in Word /\ reg_Q23 \in Word
  /\ ALU_result4 \in Word /\ reg_Q24 \in Word
  /\ Memory_Data4 \in Word /\ skip4 \in BOOLEAN
  /\ commit5 \in BOOLEAN /\ skip5 \in BOOLEAN
  /\ Reg5 \in [Reg -> Word] /\ CSR5 \in CsrRegs

\* The type invariant.  The scoreboard entries (top.sv:44) never leave the one-hot
\* values 1 to 8 of their five bits; entry 0 is never written and reads 0.
TypeOK ==
  /\ MemTypeOK /\ RegFileTypeOK /\ StagesTypeOK
  /\ modify_reg \in [Reg -> {0, 1, 2, 4, 8}]
  /\ cu_valid \in BOOLEAN /\ mod_reg_inc \in Reg
  /\ alu_valid \in BOOLEAN /\ mul_left \in Nat
  /\ dmem \in [Cell -> Word] /\ cmem \in [Cell -> Word]

(***************************************************************************)
(* The scoreboard                                                          *)
(***************************************************************************)
Writes(i, r) == WREG(i) /\ i.rd = r

\* The instruction of D has been counted; that of W is not yet discounted.
CountedD == ~cu_valid /\ mod_reg_inc = 0
Unwritten == rf_state # "IDLE"

One(b) == IF b THEN 1 ELSE 0

InFlightWriters(r) ==
  One(Writes(instr1, r) /\ CountedD) + One(Writes(instr2, r)) +
  One(Writes(instr3, r)) + One(Writes(instr4, r) /\ Unwritten)

\* The register value that counts n writers.
OneHot(n) == IF n = 0 THEN 1 ELSE IF n = 1 THEN 2 ELSE IF n = 2 THEN 4
             ELSE IF n = 3 THEN 8 ELSE 16

\* modify_reg is exact: at every cycle, with an increment from D and a decrement
\* from W landing together, its entry for r is 1 shifted by the number of
\* instructions in flight that still have to write r (top.sv:44-66).
ScoreboardExact ==
  \A r \in Reg \ {0} : modify_reg[r] = OneHot(InFlightWriters(r))

\* Reads one of the registers the fetch unit compares (MEM.sv:340).
Names(i, r) == i.rs1 = r \/ i.rs2 = r

\* No instruction reads a stale register: nothing older in the pipeline still
\* has to write a register that the instruction in E names, so its operands,
\* its branch and its address are those of program order without forwarding.
OperandsSettled ==
  \A r \in Reg \ {0} :
    Names(instr2, r) => ~Writes(instr3, r) /\ ~(Writes(instr4, r) /\ Unwritten)

\* One round of four bubbles is enough behind a data hazard: when the fetch unit
\* looks at the scoreboard again (MEM.sv:369-377) the hazard is gone.
DataStallOnce ==
  [][state = "I_BUBBLE1" /\ state' = "I_GET_INSTR"
     => ~DataHazard(modify_reg, instruction)']_vars

(***************************************************************************)
(* The inductive invariant behind the two properties above: how the units  *)
(* that count and discount a writer keep in step with the pipeline, and    *)
(* where the fetch unit can be when they do.                               *)
(***************************************************************************)
\* The decoder and the write-back unit both start at an advance; the increment
\* and the decrement of the scoreboard are raised together, one cycle later, and
\* are gone before the next advance can be seen by them.
Handshake ==
  /\ flush_W = (rf_state # "IDLE")
  /\ cu_valid = (rf_state = "DOING")
  /\ mod_reg_dec = IF rf_state = "WAIT" THEN instr4.rd ELSE 0
  /\ rf_state = "WAIT" =>
       WREG(instr4) /\ mod_reg_inc = IF WREG(instr1) THEN instr1.rd ELSE 0
  /\ mod_reg_inc # 0 => ~cu_valid /\ WREG(instr1) /\ mod_reg_inc = instr1.rd

\* While the fetch unit is away from D_IDLE it holds the pipeline, and when it
\* examines an instruction the one in D has been counted or is a bubble.
FetchTiming ==
  /\ flush_F = (state # "D_IDLE")
  /\ state \in {"I_PREPARE", "I_REQUEST_SENT", "I_GET_PAGE2", "I_GET_PAGE3", "I_GET_INSTR"}
       => ~cu_valid
  /\ state \in {"I_REQUEST_SENT", "I_GET_PAGE2", "I_GET_PAGE3", "I_GET_INSTR"}
       => mod_reg_inc = 0
  /\ backtoI = "I_BUBBLE1" => instruction = Bubble /\ (state # "D_IDLE" => instr1 = Bubble)
  /\ state \in {"I_BUBBLE1", "I_BUBBLE2", "I_BUBBLE3"} => backtoI = state
  /\ state \in {"I_IDLE", "I_PREPARE", "I_REQUEST_SENT", "I_GET_PAGE2", "I_GET_PAGE3",
               "I_GET_INSTR", "I_BUBBLE2a", "I_RESPONSE_RECEIVED"}
       => backtoI = "I_IDLE"

\* No register that i names has an unfinished writer in the stages given.
Settled(i, writers) ==
  \A r \in Reg \ {0} : Names(i, r) =>
    /\ \A w \in writers : ~Writes(w, r)
    /\ ~(Writes(instr4, r) /\ Unwritten)

HazardFree ==
  /\ state # "I_GET_INSTR" => Settled(instruction, {instr1, instr2, instr3})
  /\ Settled(instr1, {instr2, instr3})
  /\ Settled(instr2, {instr3})

IInv == TypeOK /\ Handshake /\ ScoreboardExact /\ FetchTiming /\ HazardFree

(***************************************************************************)
(* CSRs and translation                                                    *)
(***************************************************************************)
CsrInFlight == IsCsr(instr1) \/ IsCsr(instr2) \/ IsCsr(instr3) \/ (IsCsr(instr4) /\ Unwritten)

\* An instruction is fetched in the privilege mode and address space that all
\* earlier instructions left: no CSR instruction, mret or ecall is unfinished
\* from the moment satp and mode are read until the instruction arrives
\* (MEM.sv:51, 239-336), and while it is requested the request stays at the
\* address of the instruction, translated under those CSRs.
FetchTranslated ==
  /\ state \in {"I_PREPARE", "I_REQUEST_SENT", "I_GET_PAGE2", "I_GET_PAGE3"} => ~CsrInFlight
  /\ ireq.valid => ~CsrInFlight /\ ireq.addr = Physical(CSR4, current_pc)

(***************************************************************************)
(* Memory accesses                                                         *)
(***************************************************************************)
Accessing == {"D_PREPARE", "D_GET_PAGE1", "D_GET_PAGE2", "D_GET_PAGE3", "D_REQUEST_SENT"}

\* The request on the data bus is the one of the instruction in stage M, whose
\* address and data left stage E with it, translated under the present CSRs
\* (MEM.sv:103-229, Mreg.sv:38-46); a page walk only reads; and no instruction is
\* requested beside it, the unit being one state machine for both (MEM.sv:12), so
\* that the bus arbiter never has a choice.
RequestOfStageM ==
  dreq.valid =>
    /\ ~ireq.valid
    /\ dreq.walk => ~dreq.strobe
    /\ ~dreq.walk => /\ DMenable(instr3) /\ state = "D_REQUEST_SENT"
                     /\ dreq.addr = Physical(CSR4, ALU_result3)
                     /\ dreq.strobe = WMEM(instr3)
                     /\ WMEM(instr3) => dreq.data = reg_Q23

StoreApplied(mem, i, addr, data) ==
  IF WMEM(i) THEN Written(mem, Physical(CSR4, addr), data) ELSE mem

\* Every store reaches the RAM once and in program order: the RAM is what the
\* reported instructions made of it, then the store in W, then that in M if its
\* request has been answered.
StoresOnce ==
  LET throughW == StoreApplied(cmem, instr4, ALU_result4, reg_Q24)
  IN dmem = IF state \in Accessing THEN throughW
            ELSE StoreApplied(throughW, instr3, ALU_result3, reg_Q23)

(***************************************************************************)
(* Retirement                                                              *)
(***************************************************************************)
\* What goes to difftest with an instruction is its own: the commit flag says whether
\* it was decoded, so that no bubble and no undecodable word is reported and nothing
\* decoded is withheld (Reg_File.sv:135-179), and skip, which has come along through
\* two stages, marks exactly the accesses of a device (MEM.sv:115, 152).  That each
\* instruction is reported once, with its own registers, is part of ImplementsIsa.
ReportExact ==
  /\ commit5 = Legal(instr5)
  /\ skip3 = (DMenable(instr3) /\ IsDevice(ALU_result3))
  /\ skip4 = (DMenable(instr4) /\ IsDevice(ALU_result4))

Real(i) == i # Bubble

\* The address behind each stage: that of the next younger instruction in the
\* pipeline; if there is none, of the instruction to be fetched.
NextD == IF state = "D_IDLE" /\ Real(instruction) THEN current_pc ELSE requested_pc
NextE == IF Real(instr1) THEN PC1 ELSE NextD
NextM == IF Real(instr2) THEN PC2 ELSE NextE
NextW == IF Real(instr3) THEN PC3 ELSE NextM

\* The address of the oldest instruction that has not been reported.
RetirePC == IF Real(instr4) THEN PC4 ELSE NextW

A == INSTANCE Isa WITH pc <- RetirePC, regs <- Reg5, csr <- CSR5, mem <- cmem, done <- instr5

\* The pipeline implements the sequential machine: the instructions it reports to
\* difftest (core.sv:44-133), with the states it reports beside them, are an
\* execution of Isa, one instruction after the other.
ImplementsIsa == A!IsaSpec
=============================================================================
