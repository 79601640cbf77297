--------------------------------- MODULE Soc --------------------------------
(***************************************************************************)
(* The board's system (soc_top.sv): the core, the arbiter, the crossbar    *)
(* that separates RAM from devices by bit 31 of the address, the block RAM *)
(* with its delay counter, and the devices.  Page tables are in RAM.       *)
(*                                                                         *)
(* The devices run on another clock; to the processor their ready is an    *)
(* input that may have either value in any cycle.                          *)
(***************************************************************************)
EXTENDS Arbiter

CONSTANT BramDelay   \* BRAM_DELAY: 2 in simulation, 32 on the board

ASSUME DelayAssumption == BramDelay \in Nat

VARIABLES
  counter,      \* cycles the request has waited, up to BramDelay
  real_valid,   \* the block RAM is enabled
  ready_read,   \* ready_read and last_read, which are equal without bursts
  douta         \* output register of the block RAM

bramVars == <<counter, real_valid, ready_read, douta>>
socVars == <<vars, arbVars, bramVars>>

(***************************************************************************)
(* Crossbar                                                                *)
(***************************************************************************)
ToRam == oreq.walk \/ ~IsDevice(oreq.addr)
ram_valid == ToRam /\ oreq.valid

(***************************************************************************)
(* Block RAM.  All requests have burst FIXED, so last_write is real_valid. *)
(***************************************************************************)
\* Mutant: reads are acknowledged like writes, before the data is there.
ram_lastEarly == real_valid

ram_last == IF oreq.strobe THEN real_valid ELSE ready_read

BramInit ==
  /\ counter = 0 /\ real_valid = FALSE /\ ready_read = FALSE /\ douta = 0

\* Mutant: the counter does not stop at BramDelay.
BramTickNoCap ==
  LET stop == ~ram_valid \/ ram_last
  IN /\ counter' = IF stop THEN 0 ELSE counter + 1
     /\ real_valid' = (~stop /\ counter = BramDelay)
     /\ ready_read' = real_valid
     /\ douta' = IF real_valid THEN dmem[CellOf(oreq.addr)] ELSE douta
     /\ dmem' = IF real_valid /\ oreq.strobe
                THEN [dmem EXCEPT ![CellOf(oreq.addr)] = oreq.data] ELSE dmem

BramTick ==
  LET stop == ~ram_valid \/ ram_last
  IN /\ counter' = IF stop THEN 0 ELSE IF counter # BramDelay THEN counter + 1 ELSE counter
     /\ real_valid' = (~stop /\ counter = BramDelay)
     /\ ready_read' = real_valid
     /\ douta' = IF real_valid THEN dmem[CellOf(oreq.addr)] ELSE douta
     /\ dmem' = IF real_valid /\ oreq.strobe
                THEN [dmem EXCEPT ![CellOf(oreq.addr)] = oreq.data] ELSE dmem

(***************************************************************************)
(* The system                                                              *)
(***************************************************************************)
last(device_last) == IF ToRam THEN ram_last ELSE device_last
rdata == IF ToRam THEN {douta} ELSE DeviceWord

SocCycle(device_last) ==
  /\ \E iresp \in IAnswers(last(device_last)), dresp \in DAnswers(last(device_last), rdata) :
       Pipeline(iresp, dresp)
  /\ ArbiterTick(last(device_last))
  /\ BramTick

SocInit == Init /\ ArbiterInit /\ BramInit
SocNext == \E device_last \in BOOLEAN : SocCycle(device_last)
DeviceReady == SocCycle(TRUE)

SocSpec == SocInit /\ [][SocNext]_socVars

\* The clock does not stop; a device is ready again and again.
SocFairness == WF_socVars(SocNext) /\ WF_socVars(DeviceReady)
SocFairSpec == SocSpec /\ SocFairness
=============================================================================
