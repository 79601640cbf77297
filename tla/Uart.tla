-------------------------------- MODULE Uart ---------------------------------
(***************************************************************************)
(* The serial line of the board's device unit (device.sv), seen from the   *)
(* processor's accesses on one side and from the wire on the other.        *)
(*                                                                         *)
(* A step is an edge of the device's clock.  Every Ratio-th is also one of *)
(* the processor's, whose arbiter then sees ready, drops the request it    *)
(* saw answered and has none for at least a cycle.  The receiver at the    *)
(* other end of the wire waits for a start bit and samples each bit in its *)
(* middle.                                                                 *)
(***************************************************************************)
EXTENDS Integers, Sequences, SequencesExt

CONSTANTS
  Ratio,       \* device clocks per processor clock: 100 MHz to 25 MHz
  BitTime,     \* device clocks per bit: BIT_TMR_MAX + 1
  DataBits,    \* of a character: 8, BIT_INDEX_MAX - 2
  Message,     \* what str holds: "Hello world!\n"
  MaxChars,    \* bound on the characters the program writes
  MaxResets    \* bound on presses of the reset button

VARIABLES
  phase,                     \* device clocks since the processor's last edge
  req,                       \* the access on the bus: its kind and character
  finish, putchar, idx,
  txState, bitTmr, bitIndex, txData, txBit,
  rx,                        \* receiver: clocks since the start bit began, bits
  issued, acked, received,   \* history: characters stored, answered, at the receiver
  resets                     \* history: presses of the button

regs == <<finish, putchar, idx, txState, bitTmr, bitIndex, txData, txBit>>
vars == <<phase, req, regs, rx, issued, acked, received, resets>>

Char == 0 .. 2^DataBits - 1
BIT_INDEX_MAX == DataBits + 2

NoRequest == [kind |-> "NONE", char |-> 0]
Requests == [kind : {"TX_DATA"}, char : Char] \cup [kind : {"FINISH", "READ"}, char : {0}]

\* A character between its start bit and its stop bit.
Frame(c) == <<0>> \o [i \in 1 .. DataBits |-> (c \div 2^(i - 1)) % 2] \o <<1>>

\* The entries above and below the text are 0.
str(i) == IF i \in 1 .. Len(Message) THEN Message[Len(Message) + 1 - i] ELSE 0

-----------------------------------------------------------------------------
tx_ready == txState = "RDY"

bitDone == bitTmr = BitTime - 1
writing == req.kind = "TX_DATA"
send == (idx # 0 /\ finish) \/ writing
char_data == IF finish THEN str(idx) ELSE req.char

\* Mutant: a character that is still on the bus is sent again.
SentFlagNever(reset) == putchar' = TRUE

\* The character on the bus is not sent a second time while it waits there.
SentFlag(reset) ==
  putchar' = (reset \/ req = NoRequest \/ (putchar /\ ~(writing /\ txState # "RDY")))

\* Mutant: the transmitter does not go back when the frame is sent.
TransmitStays ==
  txState' = CASE txState = "RDY" /\ send /\ putchar -> "LOAD_BIT"
               [] txState = "LOAD_BIT" -> "SEND_BIT"
               [] txState = "SEND_BIT" /\ bitDone -> IF bitIndex = BIT_INDEX_MAX THEN "SEND_BIT" ELSE "LOAD_BIT"
               [] OTHER -> txState

Transmit ==
  txState' = CASE txState = "RDY" /\ send /\ putchar -> "LOAD_BIT"
               [] txState = "LOAD_BIT" -> "SEND_BIT"
               [] txState = "SEND_BIT" /\ bitDone -> IF bitIndex = BIT_INDEX_MAX THEN "RDY" ELSE "LOAD_BIT"
               [] OTHER -> txState

Counters ==
  /\ bitTmr' = IF txState = "RDY" \/ bitDone THEN 0 ELSE bitTmr + 1
  /\ bitIndex' = IF txState = "RDY" THEN 0
                 ELSE IF txState = "LOAD_BIT" THEN bitIndex + 1 ELSE bitIndex

Device(reset) ==
  /\ finish' = (~reset /\ (finish \/ req.kind = "FINISH"))
  /\ SentFlag(reset)
  /\ idx' = IF send /\ finish /\ txState = "RDY" THEN idx - 1 ELSE idx
  /\ Transmit
  /\ Counters
  /\ txData' = IF send THEN Frame(char_data) ELSE txData
  /\ txBit' = CASE txState = "RDY" -> 1
                [] txState = "LOAD_BIT" -> txData[bitIndex + 1]
                [] OTHER -> txBit

\* The processor's edge: an answered access is over, an idle bus may get one.
\* A program that has asked to finish writes no more characters.
Processor ==
  IF req # NoRequest
  THEN /\ req' = IF tx_ready THEN NoRequest ELSE req
       /\ acked' = IF tx_ready /\ writing THEN Append(acked, req.char) ELSE acked
       /\ UNCHANGED issued
  ELSE /\ UNCHANGED acked
       /\ \/ UNCHANGED <<req, issued>>
          \/ \E r \in Requests :
               /\ r.kind = "TX_DATA" => Len(issued) < MaxChars
               /\ finish => r.kind = "READ"
               /\ req' = r
               /\ issued' = IF r.kind = "TX_DATA" THEN Append(issued, r.char) ELSE issued

\* The button resets the arbiter, which takes its request off the bus.
ResetProcessor == req' = NoRequest /\ UNCHANGED <<issued, acked>>

\* The receiver.
Idle == [age |-> 0, bits |-> <<>>]
Decoded(bits) == CHOOSE c \in Char : SubSeq(bits, 2, DataBits + 1) = SubSeq(Frame(c), 2, DataBits + 1)

Receiver ==
  LET age == rx.age
      bits == IF age % BitTime = BitTime \div 2 THEN Append(rx.bits, txBit) ELSE rx.bits
  IN IF age = 0 /\ txBit = 1 THEN UNCHANGED <<rx, received>>
     ELSE IF Len(bits) = DataBits + 2
     THEN rx' = Idle /\ received' = Append(received, Decoded(bits))
     ELSE rx' = [age |-> age + 1, bits |-> bits] /\ UNCHANGED received

-----------------------------------------------------------------------------
Init ==
  /\ phase = 0 /\ req = NoRequest
  /\ finish = FALSE /\ putchar = TRUE /\ idx = Len(Message) + 1
  /\ txState = "RDY" /\ bitTmr = 0 /\ bitIndex = 0 /\ txData = Frame(0) /\ txBit = 1
  /\ rx = Idle
  /\ issued = <<>> /\ acked = <<>> /\ received = <<>> /\ resets = 0

Clock ==
  /\ Device(FALSE)
  /\ IF phase = 0 THEN Processor ELSE UNCHANGED <<req, issued, acked>>
  /\ Receiver
  /\ phase' = (phase + 1) % Ratio
  /\ UNCHANGED resets

\* The button is down during an edge of the processor.
Reset ==
  /\ resets < MaxResets
  /\ phase = 0
  /\ Device(TRUE) /\ ResetProcessor
  /\ Receiver
  /\ phase' = (phase + 1) % Ratio
  /\ resets' = resets + 1

Next == Clock \/ Reset

Spec == Init /\ [][Next]_vars

\* The clock runs.
FairSpec == Spec /\ WF_vars(Clock)
=============================================================================
