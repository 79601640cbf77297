------------------------------- MODULE MemUnit ------------------------------
(***************************************************************************)
(* MEM.sv: the unit that serves, with one state machine, first the load or *)
(* store of the instruction leaving the E stage and then the fetch of the  *)
(* next instruction, and that inserts the pipeline bubbles of data, control*)
(* and CSR hazards.  One action per state of the machine is one clock edge.*)
(*                                                                         *)
(* The inputs of the unit are parameters: adv is flush_in==0, the edge at  *)
(* which every pipeline register is loaded; xlate is the condition         *)
(* mode!=3 && satp[63:60]==8; iresp and dresp are the bus responses.       *)
(***************************************************************************)
EXTENDS Rv

VARIABLES
  state, backtoI,        \* the state machine and where it resumes the fetch
  instruction,           \* Memory_Data_F: the instruction offered to stage D
  delay_instruction,     \* the one held back during a data hazard
  current_pc, requested_pc,
  flush_F, flush_M,      \* flush_out_F, flush_out_M: the unit is busy
  bubble,                \* one-hot countdown of bubbles
  CSR_wait,
  lock,                  \* Address_lock, strobe_lock # 0, data_lock
  Memory_Data, skip3,    \* results for the instruction now in stage M
  ireq, dreq             \* the two bus requests

fetchVars == <<instruction, delay_instruction, current_pc, requested_pc>>
memVars == <<state, backtoI, instruction, delay_instruction, current_pc,
             requested_pc, flush_F, flush_M, bubble, CSR_wait, lock,
             Memory_Data, skip3, ireq, dreq>>

State == {"I_IDLE", "I_BUBBLE3", "I_PREPARE", "I_REQUEST_SENT", "I_GET_PAGE2",
          "I_GET_PAGE3", "I_GET_INSTR", "I_BUBBLE1", "I_BUBBLE2", "I_BUBBLE2a",
          "I_RESPONSE_RECEIVED", "D_IDLE", "D_PREPARE", "D_GET_PAGE1",
          "D_GET_PAGE2", "D_GET_PAGE3", "D_REQUEST_SENT", "D_RESPONSE_RECEIVED"}

\* walk marks a read of a page table entry, whose address is not modelled.
NoRequest == [valid |-> FALSE, walk |-> FALSE, addr |-> 0, strobe |-> FALSE, data |-> 0]
WalkRequest == [NoRequest EXCEPT !.valid = TRUE, !.walk = TRUE]
LockedRequest == [valid |-> TRUE, walk |-> FALSE, addr |-> lock.addr,
                  strobe |-> lock.strobe, data |-> lock.data]

MemInit ==
  /\ state = "D_IDLE" /\ backtoI = "I_IDLE"
  /\ instruction = Bubble /\ delay_instruction = Bubble
  /\ current_pc = PCINIT /\ requested_pc = PCINIT
  /\ flush_F = FALSE /\ flush_M = FALSE
  /\ bubble = 0 /\ CSR_wait = FALSE
  /\ lock = [addr |-> 0, strobe |-> FALSE, data |-> 0]
  /\ Memory_Data = 0 /\ skip3 = FALSE
  /\ ireq = [valid |-> FALSE, addr |-> 0]
  /\ dreq = NoRequest

(***************************************************************************)
(* The data half                                                           *)
(***************************************************************************)
\* Nothing happens until every other unit is done.
D_Wait(adv) ==
  /\ state = "D_IDLE" /\ ~adv
  /\ UNCHANGED memVars

\* Mutant: skip survives into instructions that access no memory.
D_PassKeepsSkip(adv, e) ==
  /\ state = "D_IDLE" /\ adv /\ ~DMenable(e)
  /\ instruction' = Bubble /\ current_pc' = requested_pc
  /\ flush_F' = TRUE /\ state' = backtoI
  /\ UNCHANGED <<skip3, backtoI, delay_instruction, requested_pc, flush_M, bubble,
                 CSR_wait, lock, Memory_Data, ireq, dreq>>

\* The pipeline advances; the instruction in E (input e) is not a memory access.
D_Pass(adv, e) ==
  /\ state = "D_IDLE" /\ adv /\ ~DMenable(e)
  /\ instruction' = Bubble
  /\ current_pc' = requested_pc
  /\ flush_F' = TRUE
  /\ skip3' = FALSE
  /\ state' = backtoI
  /\ UNCHANGED <<backtoI, delay_instruction, requested_pc, flush_M, bubble,
                 CSR_wait, lock, Memory_Data, ireq, dreq>>

\* Mutant: loads carry a strobe, as if WE were ignored.
D_AcceptAsWrite(adv, e, addr, data, xlate) ==
  /\ state = "D_IDLE" /\ adv /\ DMenable(e)
  /\ instruction' = Bubble /\ current_pc' = requested_pc
  /\ flush_F' = TRUE /\ flush_M' = TRUE /\ skip3' = IsDevice(addr)
  /\ lock' = [addr |-> addr, strobe |-> TRUE, data |-> data]
  /\ state' = IF xlate THEN "D_GET_PAGE1" ELSE "D_PREPARE"
  /\ UNCHANGED <<backtoI, delay_instruction, requested_pc, bubble, CSR_wait,
                 Memory_Data, ireq, dreq>>

\* The pipeline advances and e is a load or a store of data at address addr.
D_Accept(adv, e, addr, data, xlate) ==
  /\ state = "D_IDLE" /\ adv /\ DMenable(e)
  /\ instruction' = Bubble
  /\ current_pc' = requested_pc
  /\ flush_F' = TRUE
  /\ flush_M' = TRUE
  /\ skip3' = IsDevice(addr)
  /\ lock' = [addr |-> addr, strobe |-> WMEM(e), data |-> IF WMEM(e) THEN data ELSE 0]
  /\ state' = IF xlate THEN "D_GET_PAGE1" ELSE "D_PREPARE"
  /\ UNCHANGED <<backtoI, delay_instruction, requested_pc, bubble, CSR_wait,
                 Memory_Data, ireq, dreq>>

D_Prepare ==
  /\ state = "D_PREPARE"
  /\ dreq' = LockedRequest
  /\ state' = "D_REQUEST_SENT"
  /\ UNCHANGED <<backtoI, fetchVars, flush_F, flush_M, bubble, CSR_wait, lock,
                 Memory_Data, skip3, ireq>>

\* strobe, data and size keep what the previous request left.
D_GetPage1 ==
  /\ state = "D_GET_PAGE1"
  /\ dreq' = [dreq EXCEPT !.valid = TRUE, !.walk = TRUE, !.addr = 0]
  /\ state' = "D_GET_PAGE2"
  /\ UNCHANGED <<backtoI, fetchVars, flush_F, flush_M, bubble, CSR_wait, lock,
                 Memory_Data, skip3, ireq>>

D_GetPage2(dresp) ==
  /\ state = "D_GET_PAGE2"
  /\ state' = IF dresp.ok THEN "D_GET_PAGE3" ELSE state
  /\ UNCHANGED <<backtoI, fetchVars, flush_F, flush_M, bubble, CSR_wait, lock,
                 Memory_Data, skip3, ireq, dreq>>

\* Mutant: the translated access keeps the strobe of the walk.
D_GetPage3NoStrobe(dresp) ==
  /\ state = "D_GET_PAGE3"
  /\ IF dresp.ok
     THEN /\ state' = "D_REQUEST_SENT"
          /\ dreq' = [dreq EXCEPT !.walk = FALSE, !.addr = Leaf[lock.addr]]
     ELSE UNCHANGED <<state, dreq>>
  /\ UNCHANGED <<backtoI, fetchVars, flush_F, flush_M, bubble, CSR_wait, lock,
                 Memory_Data, skip3, ireq>>

\* The walk is over: the access itself goes to the translated address.
D_GetPage3(dresp) ==
  /\ state = "D_GET_PAGE3"
  /\ IF dresp.ok
     THEN /\ state' = "D_REQUEST_SENT"
          /\ dreq' = [LockedRequest EXCEPT !.addr = Leaf[lock.addr]]
     ELSE UNCHANGED <<state, dreq>>
  /\ UNCHANGED <<backtoI, fetchVars, flush_F, flush_M, bubble, CSR_wait, lock,
                 Memory_Data, skip3, ireq>>

\* Mutant: the answered request stays on the bus for one cycle more.
D_RequestSentStays(dresp) ==
  /\ state = "D_REQUEST_SENT"
  /\ IF dresp.ok
     THEN state' = "D_RESPONSE_RECEIVED" /\ Memory_Data' = dresp.data
     ELSE UNCHANGED <<state, Memory_Data>>
  /\ UNCHANGED <<backtoI, fetchVars, flush_F, flush_M, bubble, CSR_wait, lock,
                 skip3, ireq, dreq>>

\* Mutant: the request is withdrawn but its strobe stays set.
D_RequestSentKeepsStrobe(dresp) ==
  /\ state = "D_REQUEST_SENT"
  /\ IF dresp.ok
     THEN /\ state' = "D_RESPONSE_RECEIVED"
          /\ dreq' = [dreq EXCEPT !.valid = FALSE]
          /\ Memory_Data' = dresp.data
     ELSE UNCHANGED <<state, dreq, Memory_Data>>
  /\ UNCHANGED <<backtoI, fetchVars, flush_F, flush_M, bubble, CSR_wait, lock,
                 skip3, ireq>>

D_RequestSent(dresp) ==
  /\ state = "D_REQUEST_SENT"
  /\ IF dresp.ok
     THEN /\ state' = "D_RESPONSE_RECEIVED"
          /\ dreq' = NoRequest
          /\ Memory_Data' = dresp.data
     ELSE UNCHANGED <<state, dreq, Memory_Data>>
  /\ UNCHANGED <<backtoI, fetchVars, flush_F, flush_M, bubble, CSR_wait, lock,
                 skip3, ireq>>

D_ResponseReceived ==
  /\ state = "D_RESPONSE_RECEIVED"
  /\ flush_M' = FALSE
  /\ state' = backtoI
  /\ UNCHANGED <<backtoI, fetchVars, flush_F, bubble, CSR_wait, lock,
                 Memory_Data, skip3, ireq, dreq>>

(***************************************************************************)
(* The fetch half                                                          *)
(***************************************************************************)
\* Mutant: CSR_wait is forgotten.
I_IdleNoDrain ==
  /\ state = "I_IDLE"
  /\ instruction' = Bubble /\ current_pc' = requested_pc
  /\ state' = "I_PREPARE" /\ flush_F' = TRUE
  /\ UNCHANGED <<backtoI, bubble, delay_instruction, requested_pc, flush_M, CSR_wait,
                 lock, Memory_Data, skip3, ireq, dreq>>

\* After mret or ecall the pipeline is drained once more before the fetch.
I_Idle ==
  /\ state = "I_IDLE"
  /\ instruction' = Bubble
  /\ current_pc' = requested_pc
  /\ IF CSR_wait
     THEN /\ state' = "D_IDLE" /\ backtoI' = "I_BUBBLE3"
          /\ bubble' = 8 /\ flush_F' = FALSE
     ELSE /\ state' = "I_PREPARE" /\ flush_F' = TRUE
          /\ UNCHANGED <<backtoI, bubble>>
  /\ UNCHANGED <<delay_instruction, requested_pc, flush_M, CSR_wait, lock,
                 Memory_Data, skip3, ireq, dreq>>

\* Unlike the other bubble states this one counts clock edges, not advances.
I_Bubble3 ==
  /\ state = "I_BUBBLE3"
  /\ bubble' = bubble \div 2
  /\ IF bubble \div 2 = 0
     THEN /\ CSR_wait' = FALSE /\ flush_F' = TRUE
          /\ state' = "I_PREPARE" /\ backtoI' = "I_IDLE"
     ELSE UNCHANGED <<CSR_wait, flush_F, state, backtoI>>
  /\ UNCHANGED <<fetchVars, flush_M, lock, Memory_Data, skip3, ireq, dreq>>

I_Prepare(xlate) ==
  /\ state = "I_PREPARE"
  /\ IF xlate
     THEN dreq' = WalkRequest /\ UNCHANGED ireq
     ELSE ireq' = [valid |-> TRUE, addr |-> current_pc] /\ UNCHANGED dreq
  /\ state' = "I_REQUEST_SENT"
  /\ UNCHANGED <<backtoI, fetchVars, flush_F, flush_M, bubble, CSR_wait, lock,
                 Memory_Data, skip3>>

I_Fetched(iresp) ==
  /\ state = "I_REQUEST_SENT" /\ iresp.ok
  /\ instruction' = iresp.instr
  /\ state' = "I_GET_INSTR"
  /\ ireq' = [ireq EXCEPT !.valid = FALSE]
  /\ UNCHANGED <<backtoI, delay_instruction, current_pc, requested_pc, flush_F,
                 flush_M, bubble, CSR_wait, lock, Memory_Data, skip3, dreq>>

\* A response on the data bus here is the first page table entry.
I_RequestSent(iresp, dresp) ==
  /\ state = "I_REQUEST_SENT" /\ ~iresp.ok
  /\ IF dresp.ok
     THEN state' = "I_GET_PAGE2" /\ dreq' = [dreq EXCEPT !.valid = TRUE]
     ELSE UNCHANGED <<state, dreq>>
  /\ UNCHANGED <<backtoI, fetchVars, flush_F, flush_M, bubble, CSR_wait, lock,
                 Memory_Data, skip3, ireq>>

I_GetPage2(dresp) ==
  /\ state = "I_GET_PAGE2"
  /\ IF dresp.ok
     THEN state' = "I_GET_PAGE3" /\ dreq' = [dreq EXCEPT !.valid = TRUE]
     ELSE UNCHANGED <<state, dreq>>
  /\ UNCHANGED <<backtoI, fetchVars, flush_F, flush_M, bubble, CSR_wait, lock,
                 Memory_Data, skip3, ireq>>

\* Mutant: the walk's request stays pending beside the fetch.
I_GetPage3KeepsWalk(dresp) ==
  /\ state = "I_GET_PAGE3"
  /\ IF dresp.ok
     THEN /\ state' = "I_REQUEST_SENT"
          /\ ireq' = [valid |-> TRUE, addr |-> Leaf[current_pc]]
     ELSE UNCHANGED <<state, ireq>>
  /\ UNCHANGED <<backtoI, fetchVars, flush_F, flush_M, bubble, CSR_wait, lock,
                 Memory_Data, skip3, dreq>>

I_GetPage3(dresp) ==
  /\ state = "I_GET_PAGE3"
  /\ IF dresp.ok
     THEN /\ state' = "I_REQUEST_SENT"
          /\ dreq' = [dreq EXCEPT !.valid = FALSE]
          /\ ireq' = [valid |-> TRUE, addr |-> Leaf[current_pc]]
     ELSE UNCHANGED <<state, dreq, ireq>>
  /\ UNCHANGED <<backtoI, fetchVars, flush_F, flush_M, bubble, CSR_wait, lock,
                 Memory_Data, skip3>>

(***************************************************************************)
(* Hazards, decided from the fetched instruction                           *)
(***************************************************************************)
\* Mutants: the second operand is not looked at; one writer is let through.
DataHazardRs1(modify_reg, i) == modify_reg[i.rs1] > 1
DataHazardOne(modify_reg, i) == modify_reg[i.rs2] > 2 \/ modify_reg[i.rs1] > 2

DataHazard(modify_reg, i) == modify_reg[i.rs2] > 1 \/ modify_reg[i.rs1] > 1

\* Mutant: three bubbles instead of four.
I_GetInstrHazardShort(modify_reg) ==
  /\ state = "I_GET_INSTR" /\ DataHazard(modify_reg, instruction)
  /\ state' = "D_IDLE" /\ backtoI' = "I_BUBBLE1"
  /\ delay_instruction' = instruction /\ instruction' = Bubble
  /\ bubble' = 4 /\ flush_F' = FALSE
  /\ UNCHANGED <<current_pc, requested_pc, flush_M, CSR_wait, lock, Memory_Data,
                 skip3, ireq, dreq>>

I_GetInstrHazard(modify_reg) ==
  /\ state = "I_GET_INSTR" /\ DataHazard(modify_reg, instruction)
  /\ state' = "D_IDLE" /\ backtoI' = "I_BUBBLE1"
  /\ delay_instruction' = instruction
  /\ instruction' = Bubble
  /\ bubble' = 8
  /\ flush_F' = FALSE
  /\ UNCHANGED <<current_pc, requested_pc, flush_M, CSR_wait, lock,
                 Memory_Data, skip3, ireq, dreq>>

\* Mutant: one bubble behind a jump, whose target is read too early.
I_GetInstrJumpShort(modify_reg) ==
  /\ state = "I_GET_INSTR" /\ ~DataHazard(modify_reg, instruction)
  /\ state' = IF IsJump(instruction) \/ IsCsr(instruction)
              THEN "I_BUBBLE2a" ELSE "I_RESPONSE_RECEIVED"
  /\ bubble' = IF IsJump(instruction) THEN 1 ELSE IF IsCsr(instruction) THEN 2 ELSE bubble
  /\ CSR_wait' = (CSR_wait \/ instruction.op \in {"MRET", "ECALL"})
  /\ UNCHANGED <<backtoI, fetchVars, flush_F, flush_M, lock, Memory_Data,
                 skip3, ireq, dreq>>

\* Mutant: mret and ecall are stalled like the other CSR instructions.
I_GetInstrTrapLong(modify_reg) ==
  /\ state = "I_GET_INSTR" /\ ~DataHazard(modify_reg, instruction)
  /\ state' = IF IsJump(instruction) \/ IsCsr(instruction)
              THEN "I_BUBBLE2a" ELSE "I_RESPONSE_RECEIVED"
  /\ bubble' = IF IsJump(instruction) THEN 2 ELSE IF IsCsr(instruction) THEN 8 ELSE bubble
  /\ CSR_wait' = (CSR_wait \/ instruction.op \in {"MRET", "ECALL"})
  /\ UNCHANGED <<backtoI, fetchVars, flush_F, flush_M, lock, Memory_Data,
                 skip3, ireq, dreq>>

\* Mutant: CSR instructions do not stop the fetch.
I_GetInstrNoFlush(modify_reg) ==
  /\ state = "I_GET_INSTR" /\ ~DataHazard(modify_reg, instruction)
  /\ state' = IF IsJump(instruction)
              THEN "I_BUBBLE2a" ELSE "I_RESPONSE_RECEIVED"
  /\ bubble' = IF IsJump(instruction) THEN 2 ELSE bubble
  /\ CSR_wait' = (CSR_wait \/ instruction.op \in {"MRET", "ECALL"})
  /\ UNCHANGED <<backtoI, fetchVars, flush_F, flush_M, lock, Memory_Data,
                 skip3, ireq, dreq>>

I_GetInstr(modify_reg) ==
  /\ state = "I_GET_INSTR" /\ ~DataHazard(modify_reg, instruction)
  /\ state' = IF IsJump(instruction) \/ IsCsr(instruction)
              THEN "I_BUBBLE2a" ELSE "I_RESPONSE_RECEIVED"
  /\ bubble' = IF IsJump(instruction) \/ instruction.op \in {"MRET", "ECALL"} THEN 2
               ELSE IF IsCsr(instruction) THEN 8 ELSE bubble
  /\ CSR_wait' = (CSR_wait \/ instruction.op \in {"MRET", "ECALL"})
  /\ UNCHANGED <<backtoI, fetchVars, flush_F, flush_M, lock, Memory_Data,
                 skip3, ireq, dreq>>

\* One bubble per advance behind a data hazard, then the check is repeated.
I_Bubble1 ==
  /\ state = "I_BUBBLE1"
  /\ bubble' = bubble \div 2
  /\ IF bubble \div 2 = 0
     THEN /\ flush_F' = TRUE /\ instruction' = delay_instruction
          /\ state' = "I_GET_INSTR" /\ backtoI' = "I_IDLE"
     ELSE /\ flush_F' = FALSE /\ UNCHANGED instruction
          /\ state' = "D_IDLE" /\ backtoI' = "I_BUBBLE1"
  /\ UNCHANGED <<delay_instruction, current_pc, requested_pc, flush_M, CSR_wait,
                 lock, Memory_Data, skip3, ireq, dreq>>

\* A jump or CSR instruction is passed on before the bubbles behind it.
I_Bubble2a ==
  /\ state = "I_BUBBLE2a"
  /\ ireq' = [ireq EXCEPT !.valid = FALSE]
  /\ state' = "D_IDLE" /\ backtoI' = "I_BUBBLE2"
  /\ flush_F' = FALSE
  /\ UNCHANGED <<fetchVars, flush_M, bubble, CSR_wait, lock, Memory_Data,
                 skip3, dreq>>

I_Bubble2 ==
  /\ state = "I_BUBBLE2"
  /\ instruction' = Bubble
  /\ bubble' = bubble \div 2
  /\ IF bubble \div 2 = 0
     THEN /\ flush_F' = TRUE
          /\ state' = "I_RESPONSE_RECEIVED" /\ backtoI' = "I_IDLE"
     ELSE /\ flush_F' = FALSE
          /\ state' = "D_IDLE" /\ backtoI' = "I_BUBBLE2"
  /\ UNCHANGED <<delay_instruction, current_pc, requested_pc, flush_M, CSR_wait,
                 lock, Memory_Data, skip3, ireq, dreq>>

\* The next address is taken from the E stage, whatever is there.
I_ResponseReceived(PC_in) ==
  /\ state = "I_RESPONSE_RECEIVED"
  /\ requested_pc' = PC_in
  /\ ireq' = [ireq EXCEPT !.valid = FALSE]
  /\ state' = "D_IDLE"
  /\ flush_F' = FALSE
  /\ UNCHANGED <<backtoI, instruction, delay_instruction, current_pc, flush_M,
                 bubble, CSR_wait, lock, Memory_Data, skip3, dreq>>

MemTick(adv, e, addr, data, xlate, PC_in, modify_reg, iresp, dresp) ==
  \/ D_Wait(adv)
  \/ D_Pass(adv, e)
  \/ D_Accept(adv, e, addr, data, xlate)
  \/ D_Prepare
  \/ D_GetPage1
  \/ D_GetPage2(dresp)
  \/ D_GetPage3(dresp)
  \/ D_RequestSent(dresp)
  \/ D_ResponseReceived
  \/ I_Idle
  \/ I_Bubble3
  \/ I_Prepare(xlate)
  \/ I_Fetched(iresp)
  \/ I_RequestSent(iresp, dresp)
  \/ I_GetPage2(dresp)
  \/ I_GetPage3(dresp)
  \/ I_GetInstrHazard(modify_reg)
  \/ I_GetInstr(modify_reg)
  \/ I_Bubble1
  \/ I_Bubble2a
  \/ I_Bubble2
  \/ I_ResponseReceived(PC_in)
=============================================================================
