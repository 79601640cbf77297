--------------------------------- MODULE DBus --------------------------------
(***************************************************************************)
(* How a test drives the data bus of the model (bus.h, cell.h): directly,  *)
(* waiting for each answer, or through a DBusPipeline that queues requests *)
(* and hands them over one by one; and cells of memory on top of either.   *)
(*                                                                         *)
(* The device answers the request on the bus in any cycle.  A program      *)
(* issues any operations; program is the memory as that program would see  *)
(* it if each operation took effect when it was called.                    *)
(***************************************************************************)
EXTENDS LoadOp, Sequences, FiniteSets

CONSTANTS
  Cells,       \* of memory the program uses: address and width, aligned
  Values,      \* words the program stores
  MaxQueue     \* bound on the queue: the program waits when it is full

ASSUME DBusAssumption ==
  /\ \A c \in Cells : c.width \in Width /\ c.addr \in Nat /\ c.addr % c.width = 0
  /\ NoWord \in Values /\ Values \subseteq [Lane -> Nat]
  /\ MaxQueue \in Nat \ {0}

Words == {c.addr \div 8 : c \in Cells}

VARIABLES
  driver,      \* what the test uses: "pipeline" or "bare"
  mem,         \* of the device: words
  dreq,        \* the request on the bus
  ongoing,     \* queue of the pipeline
  ppc,         \* run, fence: waiting for the queue, await: waiting for the bus
  cell, value, \* the cell being read, the local variable the data goes to
  program,     \* memory in program order
  done         \* the last value handed to the program, and what it should be

vars == <<driver, mem, dreq, ongoing, ppc, cell, value, program, done>>

NoRequest == [valid |-> FALSE]
OnBus(t) == [valid |-> TRUE, addr |-> t.addr, strobe |-> t.strobe, data |-> t.data]

Stored(m, addr, lanes, data) ==
  [m EXCEPT ![addr \div 8] = [l \in Lane |-> IF l \in lanes THEN data[l] ELSE @[l]]]

\* The bytes of a cell, by their addresses.
Bytes(m, c) == [l \in Lane |-> IF l < c.width THEN m[c.addr \div 8][(c.addr % 8) + l] ELSE 0]
Assigned(m, c, v) ==
  [m EXCEPT ![c.addr \div 8] =
     [l \in Lane |-> IF l >= c.addr % 8 /\ l < (c.addr % 8) + c.width THEN v[l - (c.addr % 8)] ELSE @[l]]]

\* Uninitialised memory may hold anything.
Junk == {NoWord, [l \in Lane |-> 99]}

Init ==
  /\ driver \in {"pipeline", "bare"}
  /\ mem = [w \in Words |-> NoWord] /\ program = mem
  /\ dreq = NoRequest /\ ongoing = << >>
  /\ ppc = "run" /\ cell \in Cells /\ value = NoWord
  /\ done = [got |-> NoWord, want |-> NoWord]

-----------------------------------------------------------------------------
(* Tasks of the pipeline.  want is what the program should see. *)

LoadTask(c, op, dest) ==
  [addr |-> c.addr, strobe |-> {}, data |-> NoWord, op |-> op, dest |-> dest,
   want |-> Bytes(program, c)]

StoreTask(c, v) ==
  LET op == parse(c.width, c.addr)
  IN [addr |-> c.addr, strobe |-> strobe(op), data |-> place(op, v), op |-> parse(8, 0),
      dest |-> "null", want |-> NoWord]

ExpectTask(c, v) ==
  LET op == parse(c.width, c.addr)
  IN [addr |-> c.addr, strobe |-> {}, data |-> place(op, v), op |-> op, dest |-> "null",
      want |-> NoWord]

is_load(t) == t.strobe = {}

\* Mutant: what is issued is the task submitted last, whatever is on the bus.
issuesNowAlways(t) == dreq' = OnBus(t)

\* submit: only an idle bus takes the request at once.
issuesNow(t) == dreq' = IF dreq.valid THEN dreq ELSE OnBus(t)

submit(t) ==
  /\ ppc = "run" /\ Len(ongoing) < MaxQueue
  /\ ongoing' = Append(ongoing, t)
  /\ issuesNow(t)

Load(c) ==
  /\ submit(LoadTask(c, parse(c.width, c.addr), "program"))
  /\ UNCHANGED <<driver, mem, ppc, cell, value, program, done>>

\* A load without a destination.
Touch(c) ==
  /\ submit(LoadTask(c, DISCARD, "null"))
  /\ UNCHANGED <<driver, mem, ppc, cell, value, program, done>>

Store(c, v) ==
  /\ submit(StoreTask(c, v))
  /\ program' = Assigned(program, c, v)
  /\ UNCHANGED <<driver, mem, ppc, cell, value, done>>

\* The program expects what it has stored.
Expect(c) ==
  /\ submit(ExpectTask(c, Bytes(program, c)))
  /\ UNCHANGED <<driver, mem, ppc, cell, value, program, done>>

\* apply_assert: a load without a destination compares the bytes of its operation.
Compared(t, data) ==
  [got |-> [l \in Lane |-> IF l \in strobe(t.op) THEN data[l] ELSE 0],
   want |-> [l \in Lane |-> IF l \in strobe(t.op) THEN t.data[l] ELSE 0]]

\* What the cycle's answer does for the front of the queue.
Answered(t) ==
  LET data == mem[dreq.addr \div 8]
  IN /\ mem' = Stored(mem, dreq.addr, dreq.strobe, dreq.data)
     /\ value' = IF t.dest = "cell" THEN applyTo(t.op, data, value) ELSE value
     /\ done' = IF t.dest = "null" THEN (IF is_load(t) THEN Compared(t, data) ELSE done)
                ELSE [got |-> Truncated(t.op.width, applyTo(t.op, data, NoWord)), want |-> t.want]

\* Mutant: the request that was answered stays on the bus for another cycle.
driveLate(queue) == IF queue = << >> THEN NoRequest ELSE OnBus(Head(ongoing))

\* Mutant: the next request waits for the next submit.
driveOnSubmit(queue) == IF queue = ongoing THEN dreq ELSE NoRequest

drive(queue) == IF queue = << >> THEN NoRequest ELSE OnBus(Head(queue))

\* tick: signals are read before the clock edge and acted on after it.
Tick(data_ok) ==
  /\ ppc \in {"run", "fence"}
  /\ IF data_ok /\ dreq.valid
     THEN Answered(Head(ongoing)) /\ ongoing' = Tail(ongoing)
     ELSE UNCHANGED <<mem, value, done, ongoing>>
  /\ dreq' = drive(ongoing')
  /\ UNCHANGED <<driver, ppc, cell, program>>

-----------------------------------------------------------------------------
(* Cells on a pipeline: set is a store, get a load and a fence. *)

\* Mutant: a cell is read without waiting for the queue.
fencedAlways == ppc = "fence"

fenced == ppc = "fence" /\ ongoing = << >>

\* A cell of eight bytes loses its upper half on a pipeline, as the variable has 32
\* bits: such cells are on the bare bus only here.
PipelineGet(c) ==
  /\ c.width <= 4
  /\ submit(LoadTask(c, parse(c.width, c.addr), "cell"))
  /\ ppc' = "fence" /\ cell' = c /\ value' \in Junk
  /\ UNCHANGED <<driver, mem, program, done>>

\* The variable has 32 bits.
PipelineGot ==
  /\ fenced
  /\ ppc' = "run"
  /\ done' = [got |-> Truncated(cell.width, Truncated(4, value)), want |-> Bytes(program, cell)]
  /\ value' = NoWord
  /\ UNCHANGED <<driver, mem, dreq, ongoing, cell, program>>

-----------------------------------------------------------------------------
(* The bare bus, with the wrapper of CMP_TO that does the same to a         *)
(* reference model, here program: a request, then await.                    *)

BareGet(c) ==
  /\ ppc = "run"
  /\ dreq' = OnBus(LoadTask(c, DISCARD, "null"))
  /\ ppc' = "await" /\ cell' = c
  /\ UNCHANGED <<driver, mem, ongoing, value, program, done>>

BareSet(c, v) ==
  /\ ppc = "run"
  /\ dreq' = OnBus(StoreTask(c, v))
  /\ ppc' = "await" /\ cell' = c
  /\ program' = Assigned(program, c, v)
  /\ UNCHANGED <<driver, mem, ongoing, value, done>>

\* The data is read before the clock edge; the request is gone after it.
AwaitEnds ==
  /\ ppc = "await" /\ dreq.valid
  /\ mem' = Stored(mem, dreq.addr, dreq.strobe, dreq.data)
  /\ dreq' = NoRequest
  /\ ppc' = "run"
  /\ done' = IF dreq.strobe # {} THEN done
             ELSE [got |-> Truncated(cell.width, apply(parse(cell.width, cell.addr), mem[cell.addr \div 8])),
                   want |-> Bytes(program, cell)]
  /\ UNCHANGED <<driver, ongoing, cell, value, program>>

-----------------------------------------------------------------------------
Raw == \E c \in Cells : Load(c) \/ Touch(c) \/ Expect(c) \/ \E v \in Values : Store(c, v)

PipelineNext == Raw \/ (\E data_ok \in BOOLEAN : Tick(data_ok)) \/ (\E c \in Cells : PipelineGet(c)) \/ PipelineGot
BareNext ==
  \/ \E c \in Cells : BareGet(c) \/ \E v \in Values : BareSet(c, v)
  \/ AwaitEnds

\* A test uses one or the other.
Next == (driver = "pipeline" /\ PipelineNext) \/ (driver = "bare" /\ BareNext)

\* The device answers; a fence is left when its condition holds.
Spec == Init /\ [][Next]_vars /\ WF_vars(Tick(TRUE)) /\ WF_vars(PipelineGot)

-----------------------------------------------------------------------------
\* The program gets what a memory without a bus would give it, in the variables it
\* named, in its cells, and when it expects what it has stored itself.
\* (bus.h:647-687, 834-850; cell.h:82-127)
ReadsProgramOrder == done.got = done.want

\* When the bus is quiet every store has arrived, once and in order.
\* (bus.h:511-612, 683-686, 862-867)
Settled == ~dreq.valid => mem = program

\* A fence comes to an end.  (bus.h:789-795)
FenceEnds == ppc = "fence" ~> ppc = "run"
=============================================================================
