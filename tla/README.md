# Structure-Lab-Honor: specifications, model checking and proofs

The repository is an RV64IM processor in SystemVerilog (`vsrc/`), the board
designs around it (`vivado/`) and a C++ simulation harness (`verilate/`). This
directory holds TLA+ modules for the parts whose correctness depends on timing
and on the order of events, the TLC configurations that check them, and TLAPS
proofs of the central invariants and refinements.

## 1. The system

### Components, their state and their operations

| part | source | state | operations |
|---|---|---|---|
| fetch and data unit | `vsrc/MEM.sv` | one state machine of 18 reachable states, the PC, the offered and the held-back instruction, a bubble countdown, locked address/strobe/data, both bus requests | serve the load or store leaving E, then fetch; page walks; bubbles behind data, control and CSR hazards |
| decoder | `vsrc/Control_Unit.sv` | `valid`, `mod_reg_inc` | decode, count a new writer |
| ALU | `vsrc/ALU.sv`, `ALU_mul.sv`, `ALU_div.sv` | `valid`, state and counter of the iterative units | one-cycle operations, 65-cycle multiplication and division |
| write-back | `vsrc/Reg_File.sv` | general registers, CSRs and mode, commit flag, write-back machine | commit, write a register or CSR, discount a writer |
| pipeline | `vsrc/top.sv`, `Dreg` ... `Wreg.sv` | stage registers, scoreboard `modify_reg`, report registers | advance when no unit is busy |
| report | `vsrc/src/core.sv` | none | hand each committed instruction, the registers and CSRs to difftest |
| buses | `vsrc/util/*`, `vsrc/include/common.sv` | arbiter `busy`, `index` | forward one request at a time |
| board SoC | `vivado/src/with_delay/*` | block RAM delay counter and answer registers | answer reads and writes |
| board devices | `vivado/src/device.sv` | UART machine, counters, LED | on the board clock, not the processor's |
| AXI bridge | `vsrc/util/CBusToAXI.sv` | channels still to be served, saved request, beat counter | take a request, exchange beats |
| simulation memory and bus | `verilate/.../cbus_device.cpp`, `memory.cpp`, `axi.h` | transaction, memory | load, store, burst addressing |
| data bus of a test | `verilate/include/bus.h`, `cell.h` | request on the bus, queue of the pipeline | load, store, expect, tick, fence, await |
| simulation peripherals | `verilate/.../confreg.cpp` | registers, change list, UART FIFO filled by a thread | load, store, sync |
| test runner | `verilate/.../testbench.cpp` | task counters, pipes, worker processes, list of hooks | run tests one by one or in processes |
| utilities | `verilate/.../common.cpp` | worker flags on the heap, log switches, status line, character buffer | start, move, stop a worker; write to the log |

The units of the core do not exchange messages. Each drives one bit of
`all_flush`; at a clock edge where all bits are clear (an *advance*) every stage
register is loaded and every unit starts its next job. The decoder increments
and the write-back decrements the scoreboard the fetch unit reads. The fetch
unit talks to memory through an instruction and a data bus which are merged by
the arbiter.

### What is hard

In the processor every bug worth the name is one of timing: a unit samples a signal of
another (`modify_reg`, `PC_in`, `satp`, `commit`, the leftovers in `dreq`) at a
cycle chosen by its own state machine, and any mix of bus delays, page walks,
multi-cycle operations and bubbles lies between. Directed tests in simulation
use one memory latency. In the harness it is processes and threads: a worker that
dies with its task, pipes that stay open in the wrong process, a flag freed by one
thread and written by another, a FIFO filled while it is read. The list of hazards
with their lines is in `PROJECT.json`.

### What makes the parts correct

* core: what is reported to difftest is an execution of the instruction set, one
  instruction at a time; every store reaches memory once and in order; fetches
  use the address space their program point defines; nothing blocks for ever.
* scoreboard: exact at every cycle; no instruction in E has an operand pending.
* buses: an answer belongs to the request it is given to; a write is done once.
* bridge and bus device: each is a memory that answers every beat once, in order.
* UART: each character written is sent whole, once, in order.
* multiplier and divider: the results of the definitions for every operand.
* peripherals: characters pass once and in order, those the wrapper drops excepted;
  test numbers follow each other.
* test runner: every test runs once, no worker is left, a failure ends the run.
* utilities: a flag is not used after it is freed; hooks are undone; the log
  keeps its order and loses only what a NUL cuts off (section 4).

## 2. Modules

| module | models | role |
|---|---|---|
| `Rv` | value functions of `ALU.sv`, `Control_Unit.sv`, `Reg_File.sv`, the multiplexers | constant operators |
| `MemUnit` | `MEM.sv` | one action per state of the machine |
| `RegFile` | the state machine of `Reg_File.sv` | one action per state |
| `Core` | `top.sv` and the units in it | composes the two: a step is a clock edge |
| `Isa` | the sequential machine of the core's decoder and ALU | abstract specification of `Core` |
| `CoreProps` | | properties of `Core`, the refinement mapping, the invariant of the scoreboard |
| `CoreInv` | | the inductive invariant behind the refinement |
| `CoreReset` | the reset branches of all units | `Core` with a reset button |
| `PageWalk` | the two page walks of `MEM.sv`, with tables | what `MemUnit` leaves to `Leaf` |
| `MulDiv`, `MulDivProps` | `ALU.sv`, `ALU_mul.sv`, `ALU_div.sv` | the iterative units, cycle by cycle |
| `Arbiter` | `CBusArbiter.sv`, `DBusToCBus.sv`, `IBusToCBus.sv` | merges the two buses of `Core` |
| `Soc`, `SocProps` | `soc_top.sv`, `cbus_crossbar.sv`, `bram_wrapper.sv` | composes `Core`, arbiter and block RAM; implements `Core` with its environment |
| `Uart`, `UartProps` | the transmitter of `device.sv` | with a processor and a receiver |
| `CBus` | `CBusReq` of `bus.h`, wrapping bursts | what a request means |
| `BurstMemory` | | abstract specification of whatever answers a cache bus |
| `CBusDevice`, `CBusDeviceProps` | `cbus_device.cpp`, `axi.h`, router | implements `BurstMemory` |
| `AxiBridge` | `CBusToAXI.sv` | implements `BurstMemory` |
| `SimMemory` | `memory.cpp` | image, router, bytes of a word |
| `LoadOp`, `DBus` | `bus.h`, `cell.h` | placement of data; bare bus, pipeline, cells |
| `Confreg` | `confreg.cpp`, `checkout_confreg` of `model.cpp` | peripherals and their input thread |
| `TestPool` | | abstract specification of a run of tests |
| `TestRunner` | `run_parallel`, `run_worker`, `run_serial` | processes and pipes; implements `TestPool` |
| `Testbench` | hooks of `testbench.h`, log of `common.cpp` | tests one after the other on one terminal |
| `ThreadWorker` | the class of `common.cpp` | objects, threads and the flags between them |
| `CoreProofs` | | lemmas and theorems of the processor: values, pipeline, instruction set, board |
| `UnitProofs` | | multiplier and divider; serial line |
| `BusesProofs`, `AxiBridgeProofs` | | simulated bus device and memory; bridge |
| `DBusProofs`, `ConfregProofs`, `TestRunnerProofs` | | one component each |
| `UtilityProofs` | | threads, hooks and log |
| `Programs`, `MC...` | | programs, constants and unions of components for TLC |

Names are those of the source: `state`, `backtoI`, `modify_reg`, `mod_reg_inc`,
`reg_Q23`, the states of the enumerations, `ongoing`, `ntx`, `defer_list`.
`flush_F`, `flush_M`, `flush_W` are the bits `all_flush[0]`, `[3]`, `[4]`; bit 1 is
constant, bit 2 is `AluBusy`, bits 5 and 6 are unused. `rf_state` is the state of
`Reg_File`, called `state` there. Definitions whose comment begins with "Mutant"
are variants with a plausible mistake; no specification uses them, they show that
each property can fail.

### How actions correspond to the code

* Hardware: a step is a clock edge of the processor (in `Uart`, of the board).
  Each unit's `always_ff` is one operator that primes its registers, and the step
  is their conjunction with the answers of the environment.
* `CBusDevice`: a step is `eval_resp`, `eval_req` and `sync` around one edge.
* `DBus`: a step is one call of the test (`load`, `store`, `expect`, `set`, ...) or
  one `tick`.
* `Confreg`: a step is an access and the `sync` after it is another, then
  `checkout_confreg`; the thread's `fgetc` and its critical section are a step each.
* `TestRunner`: a step is a system call of the master or of a worker, with the
  bookkeeping up to the next one. Pipes are modelled with the ends each process
  holds, so an end-of-file is seen only when the last writing end is closed.
* `Testbench`: a step is one call of a hook or a function of the log, which hold the
  log's lock; the look at `status_enabled` before the lock is a step of its own.
* `ThreadWorker`: a step is a call of a member function, or a thread's work between
  two looks at its flag.

### Abstractions of the processor

* A word is an integer modulo `WordSize`. Bit 31 of an address, which separates
  RAM from devices, is the upper half of the words; bit 63 of `satp` likewise. The
  trap bits of `mstatus` are packed in its low bits.
* One operation stands for each class of instructions that the core sequences
  differently. The operands named by the fixed bit fields are kept even for
  operations that do not use them, because the hazard check looks at the fields.
* The control word travelling with each instruction is a function of the
  instruction and is not stored beside it.
* An instruction fetch returns any instruction of `Instrs`, at every address and
  every time. This covers every program over `Instrs`, self-modifying ones
  included. An all-zero word in memory is the pipeline's bubble and is excluded.
* `Leaf` gives the result of a page walk. The walk's requests are modelled; the
  tables are in `PageWalk`.
* A multiplication or division takes any of `MulLatency` cycles in `Core`; `MulDiv`
  has the iterations.
* The interrupt inputs are not connected in the source and do not appear.
* `dmem` is the RAM behind the data bus, with a read value for devices from
  `DeviceWord`; `cmem` is a history variable, the RAM as the reported stores make it.
* In `Core` the initial state is power-on, where the initial values in the
  declarations hold and registers without one start at zero; `CoreReset` adds the
  reset of a running core, which sets less.

### The environment of the core

`Core` leaves the buses nondeterministic: a request that is up may be answered
at any edge, and only then. That is what the notes in `common.sv` ask of a bus.
A read returns the present content of the RAM, or a `DeviceWord`; a write takes
effect at the edge that answers it.

`Soc` replaces this assumption by the board's buses: `Core`'s `Pipeline` (a
clock edge of the processor for given answers) is composed with the arbiter and
the block RAM, and `ImplementsCore` says that every behaviour of the board is
one of `Core`. The mapping is the identity, so every safety property of `Core`
carries over. The devices of the board run on another clock; their `ready` is
an input with either value in any cycle. Two things remain assumptions: page
tables are in RAM, and what a fetch finds is arbitrary (the RAM's content is not
interpreted as instructions).

## 3. Runs

Several runs join components that share nothing (`units`, `buses`, `utilities`) or
programs that are independent (`programs`, `reset`, `soc`): a variable `part` or
`program` is chosen in the initial state and never changes, so one run explores
each case by itself and no product of them. All state spaces are exhausted; no
constraint is used. Deadlock is checked except where a run of tests comes to its
end (`test_runner`, `utilities`).

| run | module | what it answers |
|---|---|---|
| `programs` | `MCCore` | Seven kinds of program: `ImplementsIsa`, and the mechanisms it rests on: `ScoreboardExact`, `OperandsSettled`, `DataStallOnce`, `StoresOnce`, `RequestOfStageM`, `FetchTranslated`, `ReportExact` |
| `reset` | `MCReset` | Does every stall end (`Retires`), and does a core that is reset fetch again (`RecoversElsewhere`)? |
| `soc` | `MCSoc` | Are the board's buses what `Core` assumes (`ImplementsCore`), as fair as it assumes (`AnswersAll`), and is each answer its request's own (`ReadsOwnAnswer`)? |
| `units` | `MCUnits` | Multiplier and divider (`ResultRight`, `FoundIdle`, `ResultHeld`, `Completes`), serial line (`CharsInOrder`, `Answered`) |
| `buses` | `MCBuses` | Simulated device and AXI bridge are the same memory (`ImplementsBurstMemory`, `BridgeImplementsBurstMemory`), end every burst (`BurstEnds`, `BridgeFree`), trip no assertion (`AssertionsHold`); bytes of the simulated memory (`BytesStored`) |
| `dbus` | `MCDBus` | A test sees its program order (`ReadsProgramOrder`), nothing is lost (`Settled`), a fence ends (`FenceEnds`) |
| `confreg` | `Confreg` | Output once, and which characters of the virtual UART do not come out (`OutputOnce`), input once and in order (`CharsInOrder`), all of it (`CharsArrive`), test numbers (`NumbersFollow`) |
| `test_runner` | `TestRunner` | The announced result is the truth (`ImplementsPool`, `Bookkeeping`), and it is announced (`RunEnds`, `CrashEndsRun`) |
| `utilities` | `MCUtilities` | Flags and threads (`Ownership`, `ThreadsEnd`), hooks (`HooksUndone`), the order of the log and what a NUL costs it (`LogKept`) |
| `reset_fetch` | `MCReset` | finding: a reset during a fetch stops the core |
| `page_walk` | `PageWalk` | finding: the data walk is not the fetch walk |
| `sim_memory_image` | `MCBuses` | finding: a memory file is not loaded as it is |

### What the refinements say

`ImplementsIsa`: under the mapping of `CoreProps` (the instruction just completed,
the program counter of the oldest unreported instruction, the reported registers
and CSRs, the history RAM) every step of the pipeline is an instruction of `Isa` or
a stutter. It subsumes the absence of stale operands, wrong-path commits, lost or
repeated instructions and CSR ordering mistakes; the invariants name the mechanisms
it rests on and fail closer to the cause. It says nothing of what a fetch finds,
since every instruction is possible everywhere; `FetchTranslated` covers the
address and the moment of the fetch.

`ImplementsBurstMemory`, of the device and of the bridge: seen from the bus, each
beat is answered once, in order, at the address of a wrapping burst. The bridge
acknowledges a write when the memory has taken the last beat but not yet stored
it; the mapping shows RAM with the beats in flight (`staged`), which is right only
because the bridge waits for B before the next request (`CBusToAXI.sv:82`).

`ImplementsPool`: a run of tests is a set of tests each of which is at some moment
running, passed or crashed; a killed worker's test just stops. What the run
announces is the number that passed, or failure.

### Bounds

* `programs`: words of four bits, three registers, two RAM cells, latencies 1 and 3.
  Two registers besides x0 give every combination of equal and different sources
  and destinations; the scoreboard depth (four stages) does not depend on their
  number. Instructions of four bytes leave four instruction addresses, so jumps go
  forwards, backwards and to themselves. The tables swap neighbouring addresses, so
  that a missing or doubled translation shows.
* `reset`, `soc`: instructions of eight bytes (two addresses) and latency 1, as
  nothing on the buses depends on more. Two programs each: paging, and one that
  stalls every unit on every other or accesses RAM and a device back to back. The
  button is pressed at most once, for four edges: after two every stage is empty.
  `BramDelay` is 2, as in the simulation build; on the board it is 32. With 2 the
  counter passes through start, middle and end, and a longer delay only repeats
  the middle.
* `units`: operands of four bits, of which a W operation uses two: every pair of
  values, every sign, overflow and division by zero. Three instructions in a row on
  0, the most negative number and -1. Characters of two bits and a bit time of three
  clocks; the processor's clock is a quarter of the device's. Two characters, the
  text of three, one reset.
* `buses`: words of two bytes, a RAM of two words reached directly, with bit 31 and
  through the boot window; bursts of one and two beats of one and two bytes, aligned
  and not, so that the wrap is met; the second byte of a word is written. The
  simulated memory has two words of eight bytes; files of 0, 1, 4 and 12 bytes.
* `dbus`: overlapping cells of two, four and eight bytes in one word and a queue of
  two: one request on the bus and one behind it.
* `confreg`: three characters stored to each transmitter and three typed, the second for
  the virtual UART above 0x7f, so that it is dropped between two that are printed;
  two test numbers. A program reports numbers or is restarted, not both (see below).
* `test_runner`: one to three workers and three tests. With three tests a worker can
  get a second one while others hold or have lost theirs.
* `utilities`: three objects, a member, a temporary moved into it and another; two
  threads, an old and a new one. Four tests and a buffer of three characters. Of the
  characters written two are newlines and two are NULs: a finished line, a full
  buffer that a NUL cuts in the middle, a line that begins with a NUL and is lost with
  its newline, and a rest are met.

### Fairness

* `Core`, `reset`: the clock runs, and an edge at which every pending request is
  answered is not put off for ever (`WF(Run)`, `WF(Answer)`, `WF(Hold)`: the button
  is released). Both buses of the repository answer within a bounded number of
  cycles (`bram_wrapper.sv:18`, `cbus_device.cpp:82`). `AnswersAll` shows it of the
  board, if the clock runs and a device is ready in infinitely many cycles. The
  latter holds because `ready` is the idle state of the UART's transmitter
  (`device.sv:195`), which is what `Answered` shows of it.
* `units`: the clocks run.
* `buses`: the device does not pause for ever (`p_disable` is less than 1), and an
  AXI memory serves some channel in the end. One condition serves both parts, as
  only one of them moves.
* `dbus`: the bus answers (`Tick(TRUE)`), and a fence is left when its queue is empty.
* `confreg`: the simulation goes on (`Sync`, `Checkout`), the thread is scheduled,
  and a program that looks at RXD does so again and again (strong fairness: it does
  other things between).
* `test_runner`: master and workers are scheduled; a test need not end.
* `utilities`: threads are scheduled and the functions given to them return.

## 4. Findings

Three runs show a disagreement of the code with its comments; `PROJECT.json` quotes
both.

1. `reset_fetch`, `MEM.sv:77`: a reset while an instruction is requested withdraws
   the request but leaves the machine waiting for its answer. `RecoversElsewhere`
   shows that in every other state the core fetches again.
2. `page_walk`, `MEM.sv:171`: a load uses two levels of the page table, a fetch three.
3. `sim_memory_image`, `memory.cpp:102`: a 32-bit mask in a 64-bit word; each byte
   of a file wipes bytes that were loaded before.

Others were met while modelling and have no run of their own; the models go round
them where a property would otherwise only repeat them:

* `Reg_File.sv:122`: mode, `satp` and the registers have no reset; a reset core
  fetches the reset address through the tables of the program it interrupted.
* `device.sv:136`: a store that reaches the transmitter during a frame from before a
  reset is taken for one being sent: answered, not sent. `CharsInOrder` excludes
  behaviours with a reset for this reason.
* `device.sv:140`: the last character of the built-in text is sent twice, as the
  index counts down a clock before the data is taken. `CharsInOrder` is about the
  processor's characters.
* `cell.h:115`: a cell reads through a pipeline into a `uint32_t`, so a cell of
  eight bytes loses its upper half; `PipelineGet` is restricted to the others.
* `cell.h:277`: the cell factory does not align the offset of a wider cell, which
  then trips the assertion at `cell.h:171`.
* `model.cpp:148`: `_current_num` survives a reset of the device, so a restarted
  program that reports its tests again fails the assertion on their order. `Confreg`
  keeps restarts and numbers apart.
* `confreg.cpp:155`: the input thread uses members of its object after `fgetc`
  returns, when the object may be gone; `Confreg` ends before.
* `common.cpp:223`: with the status line on, characters wait in `char_buffer` for a
  newline; they are overtaken by later ones once a test has switched the status line
  off, and lost at the end of the program. `LogKept` is checked of tests that do not
  switch it.
* `common.cpp:232`: the buffered line is written by `fputs(buf.data(), stderr)`, which
  stops at the first NUL. While the status line is on, a NUL (`model.cpp:155` passes 0
  to 0x7f) loses itself and the rest of the buffered line, although `common.h:106`
  says that `notify_char` writes a single character. `LogKept` allows this loss
  (`CutOff`) and no other; without the status line nothing is lost.
* `model.cpp:155`: characters above 0x7f that a program stores to the virtual UART are
  dropped without a word, those stored to the serial port are not. `OutputOnce` says
  that exactly the others are printed.
* `testbench.h:143`: `LOG` and `DEBUG` switch their part of the log on and leave a hook that
  switches it off, also when it was on before, as `runner.h:94` leaves it for `LOG`: after
  a test with `LOG` the `info` texts of all later tests are missing. `HooksUndone` says that
  no hook is left, not that the switches are as they were.
* `testbench.cpp:89`: with `-j 0` no worker is made and no test runs.

## 5. Proofs

Eight modules hold the proofs. Their theorems are about every value of the
constants, under the assumptions the modules declare, which TLC evaluates in every
run. Each safety theorem has the same shape: an invariant that is inductive, one
lemma for each step (or unit) that keeps it, and a last step of temporal logic.
Each refinement theorem adds that under the invariant a step is one step of the
abstract specification or a stutter.

### The core

`CoreProofs` has four sections. The first proves that the value functions of `Rv` are
well typed. The second, from `IInv` of `CoreProps`:

* `TypeCorrect`: `TypeOK`. The entries of the scoreboard stay in 0, 1, 2, 4, 8, so
  the shift in `top.sv:63` never loses a writer.
* `ScoreboardIsExact`: each entry counts the unfinished writers of its register.
* `NoStaleOperand`: nothing in E names a register with an older unfinished writer.

That the scoreboard is exact after a step depends on the increment and the
decrement both being raised exactly one cycle after an advance and gone before the
next (`Handshake`); that the count fits in five bits depends on a writer only
entering when the registers it names are free, which depends on the fetch unit
examining the scoreboard only when the instruction in D has been counted
(`FetchTiming`), and on everything already past the check staying free of hazards
as it moves down (`HazardFree`). None of these is inductive alone; their conjunction
with the type invariant is.

The third, from `RInv` of `CoreInv`, which extends `IInv`:

* `CoreImplementsIsa`: `ImplementsIsa`, the pipeline is the sequential machine.
* `FetchIsTranslated`, `RequestIsOfStageM`, `StoresReachRamOnce`, `ReportIsExact`,
  `OneDataStall`: the mechanisms, as the run `programs` states them.

The argument for `CoreImplementsIsa` separates the two kinds of clock edge. At an
advance the instruction in W becomes the reported one, and the step is that
instruction of `Isa` (a stutter if W holds a bubble); at any other edge nothing that
the mapping looks at changes. So the invariant has to say that what W holds is what
the sequential machine would do next:

* `RetireInv`: the results that travel with an instruction are those of its operands
  in program order (`Operands`; it needs `OperandsSettled`), the registers and CSRs are
  those reported or one write-back further (`WrittenBack`), and each instruction is at
  the address its predecessor leads to (`Chain`).
* `FetchInv`: `Chain` holds only because nothing is fetched behind a jump, a trap or a
  CSR write until it is past the stage that decides. The fetch unit knows this from
  a shifting bubble count alone, so the invariant says for each count in which
  stage the instruction is (`BehindJump`, `BehindTrap`, `BehindHazard`, `Underway`),
  and that a CSR instruction has the pipeline to itself (`CsrAlone`).
* `MemInv`: the request on a bus is that of the state machine's instruction (`Access`,
  `Requests`); what a load returned is what it finds after its predecessors' stores
  (`Loads`), which needs that RAM is the retired stores and the one in W
  (`StoresOnce`).

The fourth, from `SInv`, which is `RInv` and `BusInv` (what the arbiter and the block
RAM hold belongs to the request they serve):

* `ReadsGetTheirOwnAnswer`: `ReadsOwnAnswer`.
* `SocImplementsCore`: `ImplementsCore`, for every delay of the block RAM and every timing
  of the devices. It needs that the core keeps a request until it is answered
  (`UnansweredStays`), which is where `RInv` comes in.
* `BoardImplementsIsa`: the two refinements together.

### The units of the board

`UnitProofs`, the multiplier and the divider, for every word width:

* `UnitsIdle`: `FoundIdle`, an operation finds both units idle; `HeldResult`: `ResultHeld`,
  a result held in E by another unit stays.
* `RightResult`: `ResultRight`, what E hands on is the product, the quotient or the
  remainder of the operands, overflow and division by zero included.

For the first two the invariant (`Handshake`) says that a unit counts only while its
`valid` bit is up, that at most one bit is up, and that both units rest in the cycle
an instruction arrives. For the third, `Multiplying` and `Dividing` say what the
double-width registers hold after k steps: the partial product above and the bits of
the operand that remain below; the remainder so far, which is less than the divisor,
and the bits of the quotient. Each step is then one equation between
products, kept apart in a lemma, and no bit is lost at the top of the remainder. The
signs and the halves of a W operation are taken off before and put back after. The
back ends know nothing of powers, so the sum of exponents is a conjunct of the
assumption `PowersOfTwo`, which TLC evaluates at the width of the run; it is true at
every width.

The serial line, for every ratio of the two clocks, every time of a bit and every
number of data bits:

* `LineKeepsOrder`: `CharsInOrder`.

A store stays on the bus while its frame is sent, and transmitter and receiver count
clocks by themselves. `LineInv` names the six phases of a character (`Quiet`, `Given`,
`Begun`, `Listening`, `Heard`, `Done`) and one lemma for each says which follow. In
`Listening` the age of the receiver, modulo the time of a bit, is the age of the bit
on the line, and it has sampled one bit for each middle that is past. `Done` is met
when the stop bit is sampled in the very clock in which the transmitter stops, which
happens with three or four clocks in a bit. `LineAssumption` needs a bit to last three
clocks; with two, the middle of a bit is its last clock. That different characters
have different bits is a fact of binary numbers whose proof is an induction, so it
is a conjunct of the same assumption.

### The buses of the simulation

`BusesProofs`, the bus device, from `DeviceInv`: both copies of the transaction agree,
and a busy one is that of the request on the bus, at beat `N` and at the address of
that beat.

* `NoAssertionFails`: `AssertionsHold`.
* `DeviceIsBurstMemory`: `ImplementsBurstMemory`.

`axi.h` steps an address and compares it with the wrap boundary, where
`BurstMemory` has the remainder of a product (`Place`); and the device works on an
address without the bits `bus.h` masks off, where the memory takes the address
modulo its size. `NextPlace` and `SameCell` prove these to be the same, from lemmas on
division (`Division` to `Divides`) that use only elementary arithmetic at each leaf.
That `2^size` is a positive number is a conjunct of `CBusAssumption`; the other
conjuncts say that the RAM and the windows are multiples of the bursts, as the sizes
in the source are.

The memory behind the router, in the same module, for every size, window and set of
files: `StoredBytesStay` is `BytesStored`. A store changes the bytes it names and their
history together and no other byte, whichever window it comes through; and before
the image is installed nothing has been stored (`Uninstalled`). What the image is
does not matter to the proof.

`AxiBridgeProofs`, from `BridgeInv`: `BridgeIsBurstMemory`, the bridge with the AXI memory
behind it is a burst memory. While a data channel is needed, the bridge's saved
request is the one on the bus and its counter the one of the memory (`Serving`); the
channels still to be served are those of a read or those of a write, a data channel
among them as long as beats are left; and when B is not awaited, RAM is `staged`
(`Channels`). A step that exchanges a beat is an answer of the burst memory, any
other a stutter, whatever order the address and data channels are served in.

### The data bus of a test

`DBusProofs`, from `BusInv`, for any cells of one, two, four or eight bytes, any values and
any length of the queue:

* `ProgramOrder`: `ReadsProgramOrder`.
* `StoresArrive`: `Settled`.

The queue holds loads and stores that the program has counted as done and memory
has not seen. `PipelineInv` says that there is a row of memories, one between each two
neighbours in the queue, from the device's to the program's (`Between`), such that each
task leads from one to the next and promises its program what the first of them
holds (`Serves`). A tick removes the first, a call appends one. A fence needs more: the last
task is the load of its cell, and when the queue is empty the cell has its value
(`Fenced`). Placement of a cell within its word and back (`Placement`) is arithmetic
modulo eight.

### The harness

`TestRunnerProofs`, from its `IInv`, for any number of workers and tests:

* `BooksAreRight`: `Bookkeeping`.
* `RunnerImplementsPool`: `ImplementsPool`, crashes and kills included.

`Bookkeeping` alone is not inductive: `passed` is raised when the request of a worker
is read, long after its test ended. `PipeInv` says what can be in both pipes of a
worker at each of its positions, `TaskInv` that the test recorded for a worker is
the one it runs or has run, `StatusInv` that a running test has a worker and that
`exited` counts the closed pipes, `PhaseInv` what the position of the master implies;
`SerialInv` is the run without processes. The total announced without a crash is
that of the list because then all pipes were closed by `-1`, which is sent only when
every test was handed out (`ListAtEnd`).

`ConfregProofs`, from `PeripheralInv`, for any number of characters and up to 255 tests
(the number is eight bits wide):

* `TypedInOrder`: `CharsInOrder`; `SentOnce`: `OutputOnce`; `TestsFollow`: `NumbersFollow`.

`OutputOnce` is an equation of the characters stored and sent for the serial port; for
the virtual UART it says that the printed characters increase and are those stored
without the ones above 0x7f (`Wide`, any set).

The flags of a cycle are set by at most one access and taken back by the next `sync`
or checkout (`Flags`); a character in the thread's hand is newer than all in the FIFO
(`Holding`, `Typing`), so appending it keeps the order although the program may have
looked at the FIFO before; and the number shown is the last one passed or its
successor until the checkout has seen it (`Counting`).

`UtilityProofs`:

* `ThreadsOwned`: `Ownership`, for any number of objects and threads. Who owns a thread has
  not told it to end, and only a thread that was told to may free its flag (`IInv`); a
  move hands the relation on, a stop ends it, and a thread's steps need it only when
  it leaves its loop. The assumption is the use the program makes of the class:
  repeating workers, assigned only to objects without a thread
  (`testbench.cpp:42-44`, `confreg.cpp:155`).
* `TestsUndone`: `HooksUndone`, for any tests with any plugins. `HooksInv` says at each
  position of a test what its plugins so far have pushed (`Stacked`) and how much of that
  is undone.
* `LogReadable`: `LogKept`, for any size of the buffer, of tests that do not name the plugin
  `STATUS`. That hypothesis is the case in which the claim is true (the text on
  `common.cpp:223` in section 4), and no test of the repository names it; the macro
  in `testbench.h:145` is all there is. `LogInv` relates the flags of the status line to
  what the terminal shows (`Terminal`) and a thread between its look at
  `status_enabled` and the lock to the test it speaks of (`Threads`). `Written` says that the
  buffer holds the last characters written and that what came before them is on
  stderr, except for what a NUL cut off (`Kept`). A buffer is cut at its first NUL,
  which exists because a finite set of numbers that is not empty has a least element
  (`SmallestElement`).

### What stays with TLC

* Everything under fairness (`Retires`, `AnswersAll`, `Completes`, `Answered`, `BurstEnds`,
  `BridgeFree`, `FenceEnds`, `CharsArrive`, `RunEnds`, `CrashEndsRun`, `ThreadsEnd`,
  `RecoversElsewhere`): TLAPS handles neither liveness nor `ENABLED`.
* Inductions over data: that powers multiply (`PowersOfTwo`), that frames differ
  (`LineAssumption`), what is in the memory after a file is installed. The proofs take
  the first two as assumptions, checked at the sizes of the runs, and do not need the
  third.
* The three runs of the findings, which are counterexamples.

Every other property of the runs, each of their invariants and refinements, is a
theorem.

## 6. Not modelled

* `CLI11.hpp` and `nameof.hpp` are third-party headers: 9274 of the 12918 lines of
  C++. The rest of the harness has 3644 lines, a good part of them declarations,
  accessors, logging and the command line. The processor itself is in
  SystemVerilog.
* Byte lanes of the pipeline's accesses (`MEM.sv:117-140`) and the sign extension of
  loads: the programs access whole words.
* LED, switch and counter registers of `device.sv`: a store assigns, a load reads.
* Bursts through the board's crossbar: no unit requests one.
* The cell factory, trace files, the command line, text comparison (`diff.h`), signal
  handlers, and the opening and closing of the pseudo terminal.
* `IMEM.sv`, `DMEM.sv`, `Freg.sv`, `Mux4.sv`, the "copy" files, `SimpleArbiter.sv` and
  `CBusMultiplexer.sv`, which nothing instantiates; the boards without delay.

What would come next: the lanes of the pipeline's accesses, so that a byte stored by
the processor can be followed to the byte of the simulated memory; the composition of
`Core` with the AXI bridge, as `Soc` does it with the block RAM; and an invariant of
`CoreReset` that says what survives a reset.
