-------------------------------- MODULE Core --------------------------------
(***************************************************************************)
(* top.sv: the pipeline.  The fetch and data unit (MemUnit), the decoder,  *)
(* the ALU, the write-back unit (RegFile), the stage registers and the     *)
(* scoreboard are clocked together; a step of this specification is one    *)
(* clock edge.  Every stage register is loaded at the edge at which no     *)
(* unit raises its all_flush bit; such an edge is an advance.              *)
(*                                                                         *)
(* The buses are the environment: a pending request is answered at an      *)
(* arbitrary edge, and only a pending request is.  An instruction fetch    *)
(* returns any instruction of Instrs, so self-modifying programs are among *)
(* the behaviours; data accesses reach the RAM dmem or a device.           *)
(***************************************************************************)
EXTENDS MemUnit, RegFile

CONSTANTS
  Instrs,       \* the instructions a program may hold
  MulLatency    \* the numbers of cycles the multiplier and divider may take

ASSUME InstrsAssumption == Instrs \subseteq Instr /\ Bubble \notin Instrs
ASSUME LatencyAssumption == MulLatency \subseteq Nat \ {0} /\ MulLatency # {}

VARIABLES
  instr1, PC1,                               \* stage D
  instr2, PC2,                               \* stage E
  instr3, PC3, ALU_result3, reg_Q23,         \* stage M
  instr4, PC4, ALU_result4, reg_Q24, Memory_Data4, skip4,   \* stage W
  instr5, PC5, commit5, skip5, Reg5, CSR5,   \* what is reported to difftest
  modify_reg,      \* scoreboard: one-hot count of the writers in flight
  cu_valid,        \* Control_Unit: valid
  mod_reg_inc,     \* Control_Unit: the register about to have a writer more
  alu_valid,       \* ALU: valid
  mul_left,        \* ALU: cycles the multiplier or divider still needs
  dmem,            \* the RAM
  cmem             \* history: the RAM as the reported instructions define it

stageVars == <<instr1, PC1, instr2, PC2, instr3, PC3, ALU_result3, reg_Q23,
               instr4, PC4, ALU_result4, reg_Q24, Memory_Data4, skip4>>
reportVars == <<instr5, PC5, commit5, skip5, Reg5, CSR5>>
vars == <<memVars, rfVars, stageVars, reportVars, modify_reg, cu_valid,
          mod_reg_inc, alu_valid, mul_left, dmem, cmem>>

(***************************************************************************)
(* Combinational signals                                                   *)
(***************************************************************************)
NeedMul == alu_valid /\ instr2.op = "MUL"
AluBusy == NeedMul \/ mul_left > 0

\* all_flush == 0; the decoder's bit (valid && ~ok) is never set.
Advance == ~flush_F /\ ~flush_M /\ ~flush_W /\ ~AluBusy
BLOCK == ~Advance

reg_Q1 == Q1(Reg4, instr2)
reg_Q2 == Q2(Reg4, CSR4, instr2)
ALU_Bin == ALUBin(Reg4, CSR4, instr2)
ALU_result2 == IF AluBusy THEN 0 ELSE ALUResult(instr2, reg_Q1, ALU_Bin)
PC_in == PCin(instr2, PC2, reg_Q1, ALU_Bin, W(current_pc + ILen))
reg_DI4 == RegDI(instr4, PC4, ALU_result4, Memory_Data4, reg_Q24)

\* A commit is reported in the cycle before the next advance, once.
Report == commit5 /\ ~BLOCK

(***************************************************************************)
(* Clocked units                                                           *)
(***************************************************************************)
\* Mutants: the increment wins when both concern the same register, or whenever
\* there is one.
ScoreboardNoCancel ==
  modify_reg' =
    [r \in Reg |-> IF r # 0 /\ r = mod_reg_inc THEN (modify_reg[r] * 2) % 32
                  ELSE IF r # 0 /\ r = mod_reg_dec THEN modify_reg[r] \div 2
                  ELSE modify_reg[r]]
ScoreboardOnePort ==
  modify_reg' =
    [r \in Reg |-> IF mod_reg_dec = mod_reg_inc THEN modify_reg[r]
                  ELSE IF r # 0 /\ r = mod_reg_inc THEN (modify_reg[r] * 2) % 32
                  ELSE IF r # 0 /\ r = mod_reg_dec /\ mod_reg_inc = 0
                  THEN modify_reg[r] \div 2 ELSE modify_reg[r]]

Scoreboard ==
  modify_reg' =
    IF mod_reg_dec = mod_reg_inc THEN modify_reg
    ELSE [r \in Reg |->
            IF r # 0 /\ r = mod_reg_dec THEN modify_reg[r] \div 2
            ELSE IF r # 0 /\ r = mod_reg_inc THEN (modify_reg[r] * 2) % 32
            ELSE modify_reg[r]]

\* Mutant: an instruction is counted in every cycle it spends in D.
ControlUnitLevel ==
  /\ cu_valid' = Advance
  /\ mod_reg_inc' = IF WREG(instr1) THEN instr1.rd ELSE 0

ControlUnit ==
  /\ cu_valid' = Advance
  /\ mod_reg_inc' = IF WREG(instr1) /\ cu_valid THEN instr1.rd ELSE 0

\* The multiplier starts the cycle after the operation arrives and drops its
\* error signal latency cycles later.
Alu(latency) ==
  /\ alu_valid' = Advance
  /\ mul_left' = IF NeedMul THEN latency
                 ELSE IF mul_left > 0 THEN mul_left - 1 ELSE 0

Stages ==
  IF Advance
  THEN /\ instr1' = instruction /\ PC1' = current_pc
       /\ instr2' = instr1 /\ PC2' = PC1
       /\ instr3' = instr2 /\ PC3' = PC2
       /\ ALU_result3' = ALU_result2 /\ reg_Q23' = reg_Q2
       /\ instr4' = instr3 /\ PC4' = PC3
       /\ ALU_result4' = ALU_result3 /\ reg_Q24' = reg_Q23
       /\ Memory_Data4' = Memory_Data /\ skip4' = skip3
  ELSE UNCHANGED stageVars

Commit ==
  IF Advance
  THEN /\ instr5' = instr4 /\ PC5' = PC4
       /\ commit5' = commit4 /\ skip5' = skip4
       /\ Reg5' = Reg4 /\ CSR5' = CSR4
       /\ cmem' = IF commit4 /\ WMEM(instr4)
                  THEN Written(cmem, Physical(CSR4, ALU_result4), reg_Q24)
                  ELSE cmem
  ELSE UNCHANGED <<reportVars, cmem>>

(***************************************************************************)
(* The buses                                                               *)
(***************************************************************************)
IResponses ==
  {[ok |-> FALSE, instr |-> Bubble]} \cup
  (IF ireq.valid THEN {[ok |-> TRUE, instr |-> i] : i \in Instrs} ELSE {})

\* A page table entry and the answer to a write carry no data of interest.
DResponses ==
  {[ok |-> FALSE, data |-> 0]} \cup
  (IF ~dreq.valid THEN {}
   ELSE {[ok |-> TRUE, data |-> v] :
           v \in IF dreq.walk \/ dreq.strobe THEN {0} ELSE ReadValues(dmem, dreq.addr)})

Bus(dresp) ==
  dmem' = IF dresp.ok /\ dreq.strobe THEN Written(dmem, dreq.addr, dreq.data) ELSE dmem

(***************************************************************************)
(* The clock                                                               *)
(***************************************************************************)
Pipeline(iresp, dresp) ==
  /\ MemTick(Advance, instr2, ALU_result2, reg_Q2, Translating(CSR4), PC_in,
             modify_reg, iresp, dresp)
  /\ RegFileTick(Advance, instr4, PC4, reg_DI4, ALU_result4)
  /\ \E latency \in MulLatency : Alu(latency)
  /\ ControlUnit
  /\ Scoreboard
  /\ Stages
  /\ Commit

Cycle(iresp, dresp) == Pipeline(iresp, dresp) /\ Bus(dresp)

\* At reset release every stage holds a bubble; valid follows rf_state because
\* both saw the last advance of the reset.
Init ==
  /\ MemInit
  /\ RegFileInit
  /\ instr1 = Bubble /\ PC1 = 0 /\ instr2 = Bubble /\ PC2 = 0
  /\ instr3 = Bubble /\ PC3 = 0 /\ ALU_result3 = 0 /\ reg_Q23 = 0
  /\ instr4 = Bubble /\ PC4 = 0 /\ ALU_result4 = 0 /\ reg_Q24 = 0
  /\ Memory_Data4 = 0 /\ skip4 = FALSE
  /\ instr5 = Bubble /\ PC5 = 0 /\ commit5 = FALSE /\ skip5 = FALSE
  /\ Reg5 = RegInit /\ CSR5 = CsrInit
  /\ modify_reg = [r \in Reg |-> IF r = 0 THEN 0 ELSE 1]
  /\ cu_valid = (rf_state = "DOING") /\ alu_valid = (rf_state = "DOING")
  /\ mod_reg_inc = 0
  /\ mul_left = 0
  /\ dmem \in [Cell -> {0}] /\ cmem = dmem

Next == \E iresp \in IResponses, dresp \in DResponses : Cycle(iresp, dresp)

\* An edge at which every pending request is answered.
Respond ==
  /\ ireq.valid \/ dreq.valid
  /\ \E iresp \in IResponses, dresp \in DResponses :
       /\ ireq.valid => iresp.ok
       /\ dreq.valid => dresp.ok
       /\ Cycle(iresp, dresp)

Spec == Init /\ [][Next]_vars

\* The clock does not stop and a bus answers every request in the end.
Fairness == WF_vars(Next) /\ WF_vars(Respond)
FairSpec == Spec /\ Fairness
=============================================================================
