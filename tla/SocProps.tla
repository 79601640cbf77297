------------------------------ MODULE SocProps ------------------------------
(***************************************************************************)
(* What makes the buses and the memory below the core correct.             *)
(***************************************************************************)
EXTENDS Soc

\* A read of RAM that is being acknowledged shows the present content of the
\* cell it asked for, not what an earlier request left in the output register
\* (bram_wrapper.sv:58-68).
ReadsOwnAnswer ==
  busy /\ oreq.valid /\ ToRam /\ ~oreq.strobe /\ ram_last => douta = dmem[CellOf(oreq.addr)]

\* The inductive invariant behind it: what is forwarded is pending, the block RAM is
\* enabled only for it, and data is announced only for a read that the enabled block
\* RAM has just served.
BusInv ==
  /\ busy \in BOOLEAN /\ index \in {"D", "I"}
  /\ busy => IF index = "D" THEN dreq.valid ELSE ireq.valid
  /\ real_valid \in BOOLEAN /\ (real_valid => ram_valid)
  /\ ready_read \in BOOLEAN
  /\ ready_read /\ busy => ToRam /\ ~oreq.strobe /\ douta = dmem[CellOf(oreq.addr)]

\* The board's buses are an environment of the core as Core assumes it: only
\* pending requests are answered, a read returns the RAM's content, a write is
\* done exactly when it is acknowledged.
ImplementsCore == Spec

\* ... and as fair as the liveness results of Core assume: the clock runs and
\* every request of either bus, fetches and walks included, is answered in the end
\* although the two share one port of one memory (CBusArbiter.sv:36-45).
AnswersAll == Fairness
=============================================================================
