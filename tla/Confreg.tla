------------------------------- MODULE Confreg -------------------------------
(***************************************************************************)
(* The simulated peripherals (confreg.cpp) with the thread that reads the  *)
(* terminal, and what ModelBase::checkout_confreg reports of them.         *)
(*                                                                         *)
(* In a cycle of the simulation the program may access one register, then  *)
(* sync commits, then checkout_confreg looks at the committed context.     *)
(* A word of the bus has two halves; the program's loads and stores of a   *)
(* register whose address has bit 2 set use the upper one (LoadOp).        *)
(*                                                                         *)
(* The FIFO is read without its lock.  A deque's push_back leaves the      *)
(* front of a non-empty deque alone and empty() reads one of two values,   *)
(* so each operation on the FIFO is one step.                              *)
(***************************************************************************)
EXTENDS Integers, Sequences, SequencesExt

CONSTANTS
  MaxChars,   \* bound on the characters typed, and on those written
  Wide,       \* which of the characters stored to the virtual UART are above 0x7f
  MaxNum      \* bound on the test numbers the program counts up to

\* A test number has the eight bits NUM gives it.
ASSUME ConfregAssumption ==
  /\ MaxChars \in Nat \ {0} /\ Wide \subseteq 1 .. MaxChars
  /\ MaxNum \in 0 .. 255

VARIABLES
  restarts,           \* the program is restarted
  phase,              \* of the cycle: bus, sync or checkout
  ctx, ctx0,          \* context being built, committed context
  regs, changes,      \* plain registers CR0 and CR1, stores to commit
  ififo,
  wpc, hand,          \* input thread: read or push; the character it holds
  typed,              \* characters fgetc has returned
  current_num,        \* of ModelBase
  got, lost,          \* history: characters the program read, those a reset dropped
  sent, out, printed  \* history: characters stored to TXD, the number of those stored
                      \* to the virtual UART; characters put on the terminal, notified

uartVars == <<ififo, wpc, hand, typed, got, lost>>
outVars == <<sent, out, printed>>
vars == <<restarts, phase, ctx, ctx0, regs, changes, uartVars, current_num, outVars>>

NoChar == 0

Context == [uart_avail |-> FALSE, uart_fetched |-> FALSE, uart_written |-> FALSE,
            uart_data |-> NoChar, vuart_written |-> FALSE, vuart_data |-> NoChar,
            v_num_monitor |-> TRUE, v_num |-> [current |-> 0, acked |-> 0]]

\* The halves of a word.
Low(x) == [lo |-> x, hi |-> 0]
High(x) == [lo |-> 0, hi |-> x]
Zero == Low(0)

Init ==
  /\ restarts \in BOOLEAN
  /\ phase = "bus"
  /\ ctx = Context /\ ctx0 = Context
  /\ regs = [r \in {"CR0", "CR1"} |-> Zero] /\ changes = << >>
  /\ ififo = << >> /\ wpc = "read" /\ hand = NoChar
  /\ typed = 0 /\ current_num = 0
  /\ got = << >> /\ lost = {}
  /\ sent = [tx |-> << >>, vuart |-> 0] /\ out = << >> /\ printed = << >>

-----------------------------------------------------------------------------
(* load *)

\* front() of an empty deque is undefined; the invariant says it is not asked for.
front == IF ififo = << >> THEN NoChar ELSE Head(ififo)

LoadRxd ==
  /\ phase = "bus" /\ phase' = "sync"
  /\ IF ctx.uart_avail
     THEN ctx' = [ctx EXCEPT !.uart_fetched = TRUE] /\ got' = Append(got, front)
     ELSE UNCHANGED <<ctx, got>>
  /\ UNCHANGED <<restarts, ctx0, regs, changes, ififo, wpc, hand, typed, lost, current_num,
                 outVars>>

-----------------------------------------------------------------------------
(* store: plain registers change at sync, fields of the context at once. *)

Store ==
  /\ phase = "bus" /\ phase' = "sync"
  /\ UNCHANGED <<restarts, ctx0, regs, uartVars, current_num, out, printed>>

StoreTxd(c) ==
  /\ Store
  /\ ctx' = [ctx EXCEPT !.uart_written = TRUE, !.uart_data = c]
  /\ sent' = [sent EXCEPT !.tx = Append(@, c)]
  /\ UNCHANGED changes

StoreVirtualUart(c) ==
  /\ Store
  /\ ctx' = [ctx EXCEPT !.vuart_written = TRUE, !.vuart_data = c]
  /\ sent' = [sent EXCEPT !.vuart = @ + 1]
  /\ UNCHANGED changes

\* The program reports the next test as begun and passed: one word has both numbers,
\* in its upper and its lowest byte.
StoreNum ==
  /\ Store
  /\ ctx.v_num.current < MaxNum
  /\ LET next == ctx.v_num.current + 1
     IN ctx' = [ctx EXCEPT !.v_num = [current |-> next, acked |-> next]]
  /\ UNCHANGED <<changes, sent>>

\* Mutant: either half will do.
StoreNumMonitorAny(word) ==
  /\ Store
  /\ ctx' = [ctx EXCEPT !.v_num_monitor = 1 \in {word.lo, word.hi}]
  /\ UNCHANGED <<changes, sent>>

\* Bit 0 of the word, whatever half the program means.
StoreNumMonitor(word) ==
  /\ Store
  /\ ctx' = [ctx EXCEPT !.v_num_monitor = word.lo = 1]
  /\ UNCHANGED <<changes, sent>>

\* Unknown destinations are ignored when the change is committed.
StoreRegister(r, word) ==
  /\ Store
  /\ changes' = Append(changes, [addr |-> r, data |-> word])
  /\ UNCHANGED <<ctx, sent>>

\* Any other access, a poll of LSR among them, and a cycle without one.
Idle ==
  /\ phase = "bus" /\ phase' = "sync"
  /\ UNCHANGED <<restarts, ctx, ctx0, regs, changes, uartVars, current_num, outVars>>

-----------------------------------------------------------------------------
\* Mutant: whatever is available is removed.
poppedWhenAvail == IF ctx.uart_avail /\ ififo # << >> THEN Tail(ififo) ELSE ififo

popped == IF ctx.uart_fetched /\ ififo # << >> THEN Tail(ififo) ELSE ififo

\* Mutant: the FIFO is looked at before the character is removed.
availNowStale == ififo # << >>

\* Mutant: one character is not enough.
availNowLater == Len(popped) > 1

availNow == popped # << >>

\* Mutant: the flag of the virtual UART survives the cycle.
contextNextKeeps ==
  [ctx EXCEPT !.uart_avail = availNow, !.uart_written = FALSE, !.uart_fetched = FALSE]

contextNext ==
  [ctx EXCEPT !.uart_avail = availNow, !.uart_written = FALSE, !.uart_fetched = FALSE,
              !.vuart_written = FALSE]

Sync ==
  /\ phase = "sync" /\ phase' = "checkout"
  /\ ififo' = popped
  /\ out' = IF ctx.uart_written THEN Append(out, ctx.uart_data) ELSE out
  /\ ctx0' = ctx
  /\ ctx' = contextNext
  /\ regs' = FoldLeft(LAMBDA m, c : IF c.addr \in DOMAIN m THEN [m EXCEPT ![c.addr] = c.data] ELSE m,
                      regs, changes)
  /\ changes' = << >>
  /\ UNCHANGED <<restarts, wpc, hand, typed, got, lost, current_num, sent, printed>>

\* The assertions on a number: one more than the last, or unchanged, and passed.
NumberFollows ==
  ctx0.v_num_monitor /\ current_num # ctx0.v_num.current =>
    /\ current_num + 1 = ctx0.v_num.current
    /\ ctx0.v_num.acked = ctx0.v_num.current

\* get_char() <= 0x7f
Printable(c) == c \notin Wide

Checkout ==
  /\ phase = "checkout" /\ phase' = "bus"
  /\ NumberFollows
  /\ current_num' = IF ctx0.v_num_monitor THEN ctx0.v_num.current ELSE current_num
  /\ printed' = IF ctx0.vuart_written /\ Printable(ctx0.vuart_data)
                THEN Append(printed, ctx0.vuart_data) ELSE printed
  /\ UNCHANGED <<restarts, ctx, ctx0, regs, changes, uartVars, sent, out>>

Reset ==
  /\ phase = "bus"
  /\ ctx' = Context /\ ctx0' = Context
  /\ regs' = [r \in DOMAIN regs |-> Zero]
  /\ lost' = lost \cup ToSet(ififo)
  /\ ififo' = << >>
  /\ UNCHANGED <<restarts, phase, changes, wpc, hand, typed, got, current_num, outVars>>

-----------------------------------------------------------------------------
(* The input thread: fgetc blocks until something is typed. *)

ReadChar ==
  /\ wpc = "read" /\ typed < MaxChars
  /\ typed' = typed + 1 /\ hand' = typed + 1
  /\ wpc' = "push"
  /\ UNCHANGED <<restarts, phase, ctx, ctx0, regs, changes, ififo, got, lost, current_num,
                 outVars>>

PushChar ==
  /\ wpc = "push"
  /\ ififo' = Append(ififo, hand) /\ hand' = NoChar
  /\ wpc' = "read"
  /\ UNCHANGED <<restarts, phase, ctx, ctx0, regs, changes, typed, got, lost, current_num,
                 outVars>>

-----------------------------------------------------------------------------
Access ==
  \/ LoadRxd
  \/ Len(sent.tx) < MaxChars /\ StoreTxd(Len(sent.tx) + 1)
  \/ sent.vuart < MaxChars /\ StoreVirtualUart(sent.vuart + 1)
  \/ Idle
Numbers == StoreNum \/ \E bit \in {0, 1} : StoreNumMonitor(High(bit))
Registers == \E r \in {"CR0", "unknown"} : StoreRegister(r, Low(1))
Input == ReadChar \/ PushChar

\* A program either reports the numbers of its tests or is restarted: the number
\* that ModelBase keeps is not reset.
Next ==
  \/ Access \/ Sync \/ Checkout \/ Input
  \/ ~restarts /\ (Numbers \/ Registers)
  \/ restarts /\ Reset

\* The simulation runs on, the program looks at RXD again and again.
Spec ==
  /\ Init /\ [][Next]_vars
  /\ WF_vars(Sync) /\ WF_vars(Checkout) /\ WF_vars(PushChar) /\ SF_vars(LoadRxd)

-----------------------------------------------------------------------------
Increasing(s) == \A i, j \in DOMAIN s : i < j => s[i] < s[j]

\* What was typed, on its way to the program.
Unread == (IF ctx.uart_fetched THEN Tail(ififo) ELSE ififo)
            \o (IF hand # NoChar THEN <<hand>> ELSE << >>)

\* The program reads the characters in the order they are typed, each once; none is
\* lost but those that wait when it is restarted.  It is told that there is a
\* character only if one can be taken, and what it took is still there when sync
\* removes it, although the FIFO is read without its lock while the thread appends.
\* (confreg.cpp:102-118, 155-160, 183-201)
CharsInOrder ==
  /\ ctx.uart_avail \/ ctx.uart_fetched => ififo # << >>
  /\ LET all == got \o Unread
     IN /\ Increasing(all)
        /\ ToSet(all) \cup lost = 1 .. typed
        /\ ToSet(all) \cap lost = {}

Pending(written, data) == IF written THEN <<data>> ELSE << >>

\* Characters of the virtual UART that are notified, or will be by this cycle's
\* checkout, or the next one's.
Notified ==
  LET due(written, c) == Pending(written /\ c \notin Wide, c)
  IN printed \o due(phase = "checkout" /\ ctx0.vuart_written, ctx0.vuart_data)
       \o due(ctx.vuart_written, ctx.vuart_data)

\* Each character stored to TXD comes out once and in order, across the hand-over from
\* the context being built to the committed one; of those stored to the virtual UART,
\* which are numbered as they are stored, exactly the printable ones do.
\* (confreg.cpp:72-75, 109-121, 203-207; model.cpp:155-156)
OutputOnce ==
  /\ out \o Pending(ctx.uart_written, ctx.uart_data) = sent.tx
  /\ Increasing(Notified)
  /\ ToSet(Notified) = (1 .. sent.vuart) \ Wide

\* A program that keeps asking gets every character that was typed, unless it is
\* restarted.  (confreg.cpp:118, 155-160, 194-201)
CharsArrive == \A c \in 1 .. MaxChars : typed >= c ~> c \in ToSet(got) \cup lost

\* The assertions on the order of the tests hold when they are evaluated, wherever in
\* its cycle the program reports a number or writes to the monitor's register.
\* (model.cpp:148, 150)
NumbersFollow == phase = "checkout" => NumberFollows
=============================================================================
