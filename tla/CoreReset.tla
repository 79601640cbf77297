------------------------------ MODULE CoreReset ------------------------------
(***************************************************************************)
(* The core with its reset button: what each unit's reset branch sets and  *)
(* what it leaves.  The fetch and data unit keeps its state machine, the   *)
(* data request and CSR_wait (MEM.sv:77-98); write-back, the decoder's and *)
(* the ALU's valid have no reset branch and go on; a multi-cycle operation *)
(* starts again.                                                           *)
(***************************************************************************)
EXTENDS CoreProps

CONSTANT HoldCycles   \* clock edges for which the button is down

ASSUME HoldAssumption == HoldCycles \in Nat \ {0}

VARIABLES
  held,      \* edges of the reset still to come
  pressed    \* history: "never", or what the core was at: "fetch" (an instruction
             \* was requested) or "other"

resetVars == <<vars, held, pressed>>

\* Mutant: the data request is taken back as well.
MemResetBoth ==
  /\ instruction' = Bubble /\ delay_instruction' = Bubble
  /\ current_pc' = PCINIT /\ requested_pc' = PCINIT
  /\ ireq' = [valid |-> FALSE, addr |-> 0] /\ dreq' = NoRequest
  /\ flush_F' = FALSE /\ flush_M' = FALSE /\ bubble' = 0
  /\ lock' = [addr |-> 0, strobe |-> FALSE, data |-> 0] /\ skip3' = FALSE
  /\ UNCHANGED <<state, backtoI, CSR_wait, Memory_Data>>

MemReset ==
  /\ instruction' = Bubble /\ delay_instruction' = Bubble
  /\ current_pc' = PCINIT /\ requested_pc' = PCINIT
  /\ ireq' = [valid |-> FALSE, addr |-> 0]
  /\ flush_F' = FALSE /\ flush_M' = FALSE /\ bubble' = 0
  /\ lock' = [addr |-> 0, strobe |-> FALSE, data |-> 0] /\ skip3' = FALSE
  /\ UNCHANGED <<state, backtoI, CSR_wait, Memory_Data, dreq>>

StagesReset ==
  /\ instr1' = Bubble /\ PC1' = 0 /\ instr2' = Bubble /\ PC2' = 0
  /\ instr3' = Bubble /\ PC3' = 0 /\ ALU_result3' = 0 /\ reg_Q23' = 0
  /\ instr4' = Bubble /\ PC4' = 0 /\ ALU_result4' = 0 /\ reg_Q24' = 0
  /\ Memory_Data4' = 0 /\ skip4' = FALSE
  /\ instr5' = Bubble /\ PC5' = 0 /\ commit5' = FALSE /\ skip5' = FALSE
  /\ Reg5' = [r \in Reg |-> 0] /\ CSR5' = [c \in DOMAIN CSR5 |-> 0]

AluReset ==
  /\ alu_valid' = Advance
  /\ \E latency \in MulLatency : mul_left' = IF AluBusy THEN latency ELSE 0

\* An edge of the clock with the button down; memory may answer in it.
ResetEdge(dresp) ==
  /\ MemReset
  /\ StagesReset
  /\ AluReset
  /\ RegFileTick(Advance, instr4, PC4, reg_DI4, ALU_result4)
  /\ ControlUnit
  /\ modify_reg' = [r \in Reg |-> IF r = 0 THEN modify_reg[r] ELSE 1]
  /\ Bus(dresp)
  /\ UNCHANGED cmem

Press ==
  /\ pressed = "never"
  /\ pressed' = (IF ireq.valid THEN "fetch" ELSE "other") /\ held' = HoldCycles - 1
  /\ \E dresp \in DResponses : ResetEdge(dresp)

Hold ==
  /\ held > 0
  /\ held' = held - 1
  /\ \E dresp \in DResponses : ResetEdge(dresp)
  /\ UNCHANGED pressed

Run == held = 0 /\ Next /\ UNCHANGED <<held, pressed>>

Answer == held = 0 /\ Respond /\ UNCHANGED <<held, pressed>>

ResetInit == Init /\ held = 0 /\ pressed = "never"
ResetNext == Press \/ Hold \/ Run
ResetFairness == WF_resetVars(Hold) /\ WF_resetVars(Run) /\ WF_resetVars(Answer)
ResetSpec == ResetInit /\ [][ResetNext]_resetVars /\ ResetFairness

-----------------------------------------------------------------------------
\* The reset initialises the fetch (comments of MEM.sv:78-83): the core fetches
\* again, whatever it was doing.
FetchesAfterReset == []<>(state = "I_RESPONSE_RECEIVED")

\* Until the button is pressed, every decoded instruction that entered the pipeline
\* is reported: under answering buses no stall of the units on each other, no
\* hazard stall and no page walk lasts.
Retires == Legal(instr1) /\ pressed = "never" ~> Report \/ pressed # "never"

\* It does fetch again if no instruction was being requested when the button was
\* pressed, in the middle of a page walk, of a load, a store or a hazard included:
\* what the machine goes on with there, the reset leaves it.
RecoversElsewhere == []<>(state = "I_RESPONSE_RECEIVED" \/ pressed = "fetch")
=============================================================================
