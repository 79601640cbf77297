------------------------------- MODULE MCBuses ------------------------------
(***************************************************************************)
(* What can stand behind a cache bus, for TLC: the simulated device, the   *)
(* bridge to AXI, and the memory of the simulation seen through its        *)
(* router.  They share nothing, so one run explores each by itself: what   *)
(* moves is chosen at the start and the rest stands still.                 *)
(***************************************************************************)
EXTENDS CBusDeviceProps

CONSTANTS MemorySize, WindowSize, MemoryByte, Images, Masks

VARIABLES
  part,
  in_issue, saved_req, count, axi_mem, rbeat, staged, wbeat, creq, canswer,
  installed, sim_mem, saved_mem, image, written

Bridge == INSTANCE AxiBridge WITH mem <- axi_mem, answer <- canswer

Memory == INSTANCE SimMemory WITH mem <- sim_mem, Size <- MemorySize, Byte <- MemoryByte

bridgeVars == <<in_issue, saved_req, count, axi_mem, rbeat, staged, wbeat, creq, canswer>>
memoryVars == <<installed, sim_mem, saved_mem, image, written>>
busesVars == <<part, vars, bridgeVars, memoryVars>>

\* Files that end in the middle of a word; bytes selected in either half of a word.
ImagesDef == {<< >>, <<1>>, <<1, 1, 1, 1>>, [n \in 1 .. 12 |-> n % 2]}
MasksDef == {{0}, {7}, 4 .. 7}

\* NoByte of SimMemory is no byte.
ASSUME MemoryAssumption == WindowSize \in Nat \ {0} /\ -1 \notin MemoryByte

BusesInit ==
  /\ part \in {"device", "bridge", "memory"}
  /\ Init /\ Bridge!Init /\ Memory!Init

Device(step) == part = "device" /\ step /\ UNCHANGED <<part, bridgeVars, memoryVars>>
InBridge(step) == part = "bridge" /\ step /\ UNCHANGED <<part, vars, memoryVars>>
InMemory(step) == part = "memory" /\ step /\ UNCHANGED <<part, vars, bridgeVars>>

BusesNext == Device(Next) \/ InBridge(Bridge!Next) \/ InMemory(Memory!Next)

\* The device does not pause for ever (p_disable < 1), and an AXI memory answers on
\* some channel sooner or later.
BusesSpec ==
  /\ BusesInit /\ [][BusesNext]_busesVars
  /\ WF_busesVars(Device(Cycle /\ enable') \/ InBridge(Bridge!Progress))

\* What the bridge (AxiBridge) and the memory (SimMemory) promise.
BridgeImplementsBurstMemory == Bridge!BridgeImplementsBurstMemory
BridgeFree == Bridge!BridgeFree
BytesStored == Memory!BytesStored
ImageLoaded == Memory!ImageLoaded
=============================================================================
