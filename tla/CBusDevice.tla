----------------------------- MODULE CBusDevice ------------------------------
(***************************************************************************)
(* The simulated bus device of the harness: CBusDevice (cbus_device.cpp)   *)
(* with its AXITransaction (axi.h), the router of install_soc (model.cpp), *)
(* and a zero-initialised BlockMemory (memory.cpp).  A step is a cycle of  *)
(* the simulation: eval_resp, eval_req and sync around the clock edge of   *)
(* the requester.  enable drops at random.                                 *)
(***************************************************************************)
EXTENDS CBus

CONSTANTS
  RamBit,     \* the bit of an address that bus.h masks off, 2^31
  BootBase    \* of the window that shows the RAM again, 0x1fc00000

ASSUME DeviceAssumption ==
  /\ RamBit \in Nat \ {0} /\ RamBit % MemSize = 0
  /\ BootBase \in Nat \ {0} /\ BootBase % MemSize = 0
  /\ \A a \in Addrs : LET b == a % RamBit IN b < MemSize \/ (b >= BootBase /\ b < BootBase + MemSize)

VARIABLES
  mem, enable, tx, ntx,
  req, answer      \* the requester's request, the last word it read

vars == <<mem, enable, tx, ntx, req, answer>>

-----------------------------------------------------------------------------
(* AXITransaction *)

Zero == [busy |-> FALSE, is_write |-> FALSE, aligned |-> FALSE, N |-> 0, addr |-> 0,
         Start_Address |-> 0, Number_Bytes |-> 0, Burst_Length |-> 0, Aligned_Address |-> 0,
         Lower_Wrap_Boundry |-> 0, Upper_Wrap_Boundry |-> 0]

\* Bit 31 of the address is masked off by CBusWrapperGen.
ReqAddr(r) == r.addr % RamBit

Started(r) ==
  LET bytes == 2^r.size
      dtsize == bytes * (r.len + 1)
      lower == (ReqAddr(r) \div dtsize) * dtsize
  IN [busy |-> TRUE, is_write |-> r.is_write, aligned |-> FALSE, N |-> 1,
      addr |-> ReqAddr(r), Start_Address |-> ReqAddr(r), Number_Bytes |-> bytes,
      Burst_Length |-> r.len + 1, Aligned_Address |-> (ReqAddr(r) \div bytes) * bytes,
      Lower_Wrap_Boundry |-> lower, Upper_Wrap_Boundry |-> lower + dtsize]

\* Mutant: the boundary is only noticed behind it.
wrappedLate(t, a) == IF a > t.Upper_Wrap_Boundry THEN t.Lower_Wrap_Boundry ELSE a

wrapped(t, a) == IF a >= t.Upper_Wrap_Boundry THEN t.Lower_Wrap_Boundry ELSE a

\* Mutant: the beats are not counted.
AdvancedUncounted(t) ==
  [t EXCEPT !.aligned = TRUE,
            !.addr = wrapped(t, (IF t.aligned THEN t.addr ELSE t.Aligned_Address) + t.Number_Bytes)]

Advanced(t) ==
  [t EXCEPT !.N = @ + 1,
            !.aligned = TRUE,
            !.addr = wrapped(t, (IF t.aligned THEN t.addr ELSE t.Aligned_Address) + t.Number_Bytes)]

last(t) == t.N = t.Burst_Length

-----------------------------------------------------------------------------
(* MemoryRouter: the first entry that matches; both lead to the RAM. *)

InBootWindow(a) == a \div MemSize = BootBase \div MemSize
translate(a) == IF InBootWindow(a) THEN a - BootBase ELSE a

load(a) == Word(mem, translate(a))
store(a, r) == Written(mem, translate(a), r)

-----------------------------------------------------------------------------
Init ==
  /\ mem = [c \in Cell |-> 0]
  /\ enable = TRUE
  /\ tx = Zero /\ ntx = Zero
  /\ req = NoReq
  /\ answer = [l \in Lane |-> 0]

\* eval_resp
ready == enable /\ tx.busy

\* The assertions of eval_req.
Sane ==
  /\ req.valid
  /\ req.is_write = tx.is_write
  /\ 2^req.size = tx.Number_Bytes
  /\ ReqAddr(req) = tx.Start_Address
  /\ req.len + 1 = tx.Burst_Length

\* Mutant: a burst that ends leaves the next transaction as it was.
NextTxKeeps ==
  IF ~enable THEN ntx
  ELSE IF tx.busy THEN (IF last(tx) THEN ntx ELSE Advanced(ntx))
  ELSE IF req.valid THEN Started(req)
  ELSE ntx

\* eval_req
NextTx ==
  IF ~enable THEN ntx
  ELSE IF tx.busy THEN (IF last(tx) THEN Zero ELSE Advanced(ntx))
  ELSE IF req.valid THEN Started(req)
  ELSE ntx

\* Mutant: a write is performed in cycles in which the device pauses.
WritesNowAlways == tx.busy /\ tx.is_write

WritesNow == enable /\ tx.busy /\ tx.is_write

Cycle ==
  /\ (ready => Sane)
  /\ answer' = IF ready /\ ~tx.is_write THEN load(tx.addr) ELSE answer
  /\ ntx' = NextTx
  /\ mem' = IF WritesNow THEN store(tx.addr, req) ELSE mem
  /\ tx' = IF enable THEN NextTx ELSE tx
  /\ enable' \in BOOLEAN
  /\ req' \in NextReqs(req, ready, last(tx))

Reset ==
  /\ mem' = [c \in Cell |-> 0]
  /\ tx' = Zero /\ ntx' = Zero
  /\ req' = NoReq
  /\ UNCHANGED <<enable, answer>>

Next == Cycle \/ Reset
Spec == Init /\ [][Next]_vars
=============================================================================
