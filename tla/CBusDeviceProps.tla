--------------------------- MODULE CBusDeviceProps ---------------------------
(***************************************************************************)
(* Properties of the simulated bus device.                                 *)
(***************************************************************************)
EXTENDS CBusDevice

\* The assertions of eval_req never fail for a requester that keeps to the
\* rules, pauses and resets included.  (cbus_device.cpp:39-43)
AssertionsHold == ready => Sane

\* The device is a memory: every beat is answered once, in order, at the
\* address of a wrapping burst, through either window.
BurstRAM == INSTANCE BurstMemory WITH ram <- mem,
              beats <- IF tx.busy THEN tx.N - 1 ELSE 0
ImplementsBurstMemory == BurstRAM!BurstSpec

\* A request is answered to its last beat, or taken back by a reset.
\* (cbus_device.cpp:82)
BurstEnds == req.valid ~> ~req.valid \/ (ready /\ last(tx))
=============================================================================
