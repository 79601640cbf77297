------------------------------- MODULE RegFile ------------------------------
(***************************************************************************)
(* Reg_File.sv: the write-back stage.  After every advance it commits the  *)
(* instruction of stage W, takes one more cycle if a register or CSR was   *)
(* written, and then is ready for the next.  The RESET state, left at the  *)
(* first clock edge ever, is over before the behaviours modelled here.     *)
(***************************************************************************)
EXTENDS Rv

VARIABLES
  rf_state,     \* IDLE, DOING or WAIT
  Reg4, CSR4,   \* the general registers and the CSRs
  commit4,      \* stage W holds a committed instruction
  flush_W,      \* flush_out: write-back is busy
  mod_reg_dec   \* the register just written, for one cycle

rfVars == <<rf_state, Reg4, CSR4, commit4, flush_W, mod_reg_dec>>

\* The unit ignores reset and alternates between IDLE and DOING during it, so
\* either may be the state in which reset is released.
RegFileInit ==
  /\ rf_state \in {"IDLE", "DOING"}
  /\ flush_W = (rf_state = "DOING")
  /\ Reg4 = RegInit /\ CSR4 = CsrInit
  /\ commit4 = FALSE
  /\ mod_reg_dec = 0

W_Idle(adv) ==
  /\ rf_state = "IDLE"
  /\ IF adv
     THEN rf_state' = "DOING" /\ commit4' = FALSE /\ flush_W' = TRUE
     ELSE UNCHANGED <<rf_state, commit4, flush_W>>
  /\ UNCHANGED <<Reg4, CSR4, mod_reg_dec>>

\* The instruction i at address pc writes di to its register, alu to its CSR.
W_Write(i, pc, di, alu) ==
  /\ rf_state = "DOING" /\ Legal(i) /\ WREG(i)
  /\ commit4' = TRUE
  /\ Reg4' = RegNext(Reg4, i, di)
  /\ CSR4' = CsrNext(CSR4, i, pc, alu)
  /\ mod_reg_dec' = i.rd
  /\ flush_W' = TRUE
  /\ rf_state' = "WAIT"

\* Mutant: bubbles are committed as well.
W_NoWriteCommits(i) ==
  /\ rf_state = "DOING" /\ ~(Legal(i) /\ WREG(i))
  /\ commit4' = TRUE /\ flush_W' = FALSE /\ rf_state' = "IDLE"
  /\ UNCHANGED <<Reg4, CSR4, mod_reg_dec>>

\* A store, a branch, a bubble or an instruction in error.
W_NoWrite(i) ==
  /\ rf_state = "DOING" /\ ~(Legal(i) /\ WREG(i))
  /\ commit4' = Legal(i)
  /\ flush_W' = FALSE
  /\ rf_state' = "IDLE"
  /\ UNCHANGED <<Reg4, CSR4, mod_reg_dec>>

\* Mutant: the unit stays busy after its write.
W_WaitBusy ==
  /\ rf_state = "WAIT"
  /\ mod_reg_dec' = 0 /\ rf_state' = "IDLE"
  /\ UNCHANGED <<Reg4, CSR4, commit4, flush_W>>

W_Wait ==
  /\ rf_state = "WAIT"
  /\ mod_reg_dec' = 0
  /\ flush_W' = FALSE
  /\ rf_state' = "IDLE"
  /\ UNCHANGED <<Reg4, CSR4, commit4>>

RegFileTick(adv, i, pc, di, alu) ==
  \/ W_Idle(adv)
  \/ W_Write(i, pc, di, alu)
  \/ W_NoWrite(i)
  \/ W_Wait
=============================================================================
