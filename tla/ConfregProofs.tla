---------------------------- MODULE ConfregProofs ---------------------------
(***************************************************************************)
(* What the simulated peripherals are told comes out, and what is typed    *)
(* comes in, once and in order, for any number of characters and whichever *)
(* of them are printable.                                                  *)
(***************************************************************************)
EXTENDS Confreg, SequenceTheorems, TLAPS

ContextType ==
  [uart_avail : BOOLEAN, uart_fetched : BOOLEAN, uart_written : BOOLEAN, uart_data : Nat,
   vuart_written : BOOLEAN, vuart_data : Nat, v_num_monitor : BOOLEAN,
   v_num : [current : Nat, acked : Nat]]

PeripheralType ==
  /\ restarts \in BOOLEAN /\ phase \in {"bus", "sync", "checkout"}
  /\ ctx \in ContextType /\ ctx0 \in ContextType
  /\ ififo \in Seq(Nat) /\ wpc \in {"read", "push"} /\ hand \in Nat
  /\ typed \in Nat /\ current_num \in Nat
  /\ got \in Seq(Nat) /\ sent \in [tx : Seq(Nat), vuart : Nat]
  /\ out \in Seq(Nat) /\ printed \in Seq(Nat)

\* The flags of an access live from the access to the sync of its cycle.
Flags ==
  phase # "sync" => ~ ctx.uart_fetched /\ ~ ctx.uart_written /\ ~ ctx.vuart_written

\* The thread holds the last character typed, or none.
Holding == hand = IF wpc = "push" THEN typed ELSE NoChar
Typing == wpc = "push" => typed # NoChar

\* The number ModelBase keeps is the program's, up to the store of this cycle.
Counting ==
  /\ ctx.v_num.acked = ctx.v_num.current /\ ctx0.v_num.acked = ctx0.v_num.current
  /\ restarts => ctx.v_num.current = 0 /\ ctx0.v_num.current = 0 /\ current_num = 0
  /\ phase = "checkout" => ctx.v_num = ctx0.v_num /\ ctx.v_num_monitor = ctx0.v_num_monitor
  /\ ctx.v_num_monitor =>
       \/ current_num = ctx.v_num.current
       \/ phase # "bus" /\ current_num + 1 = ctx.v_num.current

PeripheralInv ==
  /\ PeripheralType /\ Flags /\ Holding /\ Typing /\ Counting
  /\ OutputOnce /\ CharsInOrder

-----------------------------------------------------------------------------
(* Sequences, their elements and their order. *)

LEMMA ElementsOfConcat ==
  ASSUME NEW s \in Seq(Nat), NEW t \in Seq(Nat)
  PROVE  ToSet(s \o t) = ToSet(s) \cup ToSet(t)
<1>1. s \o t \in Seq(Nat) /\ Len(s \o t) = Len(s) + Len(t)
      /\ \A i \in 1 .. Len(s) + Len(t) :
           (s \o t)[i] = IF i <= Len(s) THEN s[i] ELSE t[i - Len(s)]
  BY ConcatProperties
<1>2. ASSUME NEW i \in 1 .. Len(s) + Len(t)
      PROVE  (s \o t)[i] \in ToSet(s) \cup ToSet(t)
  <2>1. CASE i <= Len(s)
    BY <1>1, <2>1 DEF ToSet
  <2>2. CASE ~ (i <= Len(s))
    <3>1. i - Len(s) \in DOMAIN t /\ (s \o t)[i] = t[i - Len(s)]
      BY <1>1, <2>2
    <3> QED  BY <3>1 DEF ToSet
  <2> QED  BY <2>1, <2>2
<1>3. ASSUME NEW i \in 1 .. Len(s)
      PROVE  s[i] \in ToSet(s \o t)
  <2>1. i \in DOMAIN (s \o t) /\ (s \o t)[i] = s[i]
    BY <1>1
  <2> QED  BY <2>1 DEF ToSet
<1>4. ASSUME NEW i \in 1 .. Len(t)
      PROVE  t[i] \in ToSet(s \o t)
  <2>1. Len(s) + i \in DOMAIN (s \o t) /\ (s \o t)[Len(s) + i] = t[i]
    BY <1>1
  <2> QED  BY <2>1 DEF ToSet
<1>5. DOMAIN s = 1 .. Len(s) /\ DOMAIN t = 1 .. Len(t)
      /\ DOMAIN (s \o t) = 1 .. Len(s) + Len(t)
  BY <1>1
<1> QED  BY <1>2, <1>3, <1>4, <1>5 DEF ToSet

\* A concatenation increases iff its parts do and the first stays below the second.
LEMMA IncreasingConcat ==
  ASSUME NEW s \in Seq(Nat), NEW t \in Seq(Nat)
  PROVE  Increasing(s \o t)
           <=> /\ Increasing(s) /\ Increasing(t)
               /\ \A x \in ToSet(s), y \in ToSet(t) : x < y
<1>1. s \o t \in Seq(Nat) /\ Len(s \o t) = Len(s) + Len(t)
      /\ \A i \in 1 .. Len(s) + Len(t) :
           (s \o t)[i] = IF i <= Len(s) THEN s[i] ELSE t[i - Len(s)]
  BY ConcatProperties
<1>2. DOMAIN s = 1 .. Len(s) /\ DOMAIN t = 1 .. Len(t)
      /\ DOMAIN (s \o t) = 1 .. Len(s) + Len(t)
  BY <1>1
<1>3. /\ \A i \in 1 .. Len(s) : i \in 1 .. Len(s) + Len(t) /\ (s \o t)[i] = s[i]
      /\ \A i \in 1 .. Len(t) : Len(s) + i \in 1 .. Len(s) + Len(t)
                                /\ (s \o t)[Len(s) + i] = t[i]
  BY <1>1
<1>4. ASSUME Increasing(s \o t)
      PROVE  /\ Increasing(s) /\ Increasing(t)
             /\ \A x \in ToSet(s), y \in ToSet(t) : x < y
  <2>1. \A i, j \in 1 .. Len(s) + Len(t) : i < j => (s \o t)[i] < (s \o t)[j]
    BY <1>2, <1>4 DEF Increasing
  <2>2. \A i, j \in 1 .. Len(s) : i < j => s[i] < s[j]
    BY <1>3, <2>1
  <2>3. ASSUME NEW i \in 1 .. Len(t), NEW j \in 1 .. Len(t), i < j
        PROVE  t[i] < t[j]
    <3>1. Len(s) + i < Len(s) + j
      BY <2>3
    <3> QED  BY <1>3, <2>1, <3>1
  <2>4. ASSUME NEW i \in 1 .. Len(s), NEW j \in 1 .. Len(t)
        PROVE  s[i] < t[j]
    <3>1. i < Len(s) + j
      OBVIOUS
    <3> QED  BY <1>3, <2>1, <3>1
  <2> QED  BY <1>2, <2>2, <2>3, <2>4 DEF Increasing, ToSet
<1>5. ASSUME Increasing(s), Increasing(t), \A x \in ToSet(s), y \in ToSet(t) : x < y
      PROVE  Increasing(s \o t)
  <2> SUFFICES ASSUME NEW i \in 1 .. Len(s) + Len(t), NEW j \in 1 .. Len(s) + Len(t), i < j
               PROVE  (s \o t)[i] < (s \o t)[j]
    BY <1>2 DEF Increasing
  <2>1. CASE j <= Len(s)
    <3>1. (s \o t)[i] = s[i] /\ (s \o t)[j] = s[j] /\ i \in DOMAIN s /\ j \in DOMAIN s
      BY <1>1, <2>1
    <3> QED  BY <1>5, <3>1 DEF Increasing
  <2>2. CASE i <= Len(s) /\ ~ (j <= Len(s))
    <3>1. (s \o t)[i] = s[i] /\ (s \o t)[j] = t[j - Len(s)]
          /\ i \in DOMAIN s /\ j - Len(s) \in DOMAIN t
      BY <1>1, <2>2
    <3>2. s[i] \in ToSet(s) /\ t[j - Len(s)] \in ToSet(t)
      BY <3>1 DEF ToSet
    <3> QED  BY <1>5, <3>1, <3>2
  <2>3. CASE ~ (i <= Len(s))
    <3>1. (s \o t)[i] = t[i - Len(s)] /\ (s \o t)[j] = t[j - Len(s)]
          /\ i - Len(s) \in DOMAIN t /\ j - Len(s) \in DOMAIN t
          /\ i - Len(s) < j - Len(s)
      BY <1>1, <2>3
    <3> QED  BY <1>5, <3>1 DEF Increasing
  <2> QED  BY <2>1, <2>2, <2>3
<1> QED  BY <1>4, <1>5

LEMMA Associates ==
  ASSUME NEW s \in Seq(Nat), NEW t \in Seq(Nat), NEW u \in Seq(Nat)
  PROVE  (s \o t) \o u = s \o (t \o u)
BY ConcatAssociative, SMTT(30)

LEMMA OneElement ==
  ASSUME NEW x \in Nat
  PROVE  <<x>> \in Seq(Nat) /\ ToSet(<<x>>) = {x} /\ Increasing(<<x>>)
<1>1. <<x>> \in Seq(Nat) /\ DOMAIN <<x>> = {1} /\ <<x>>[1] = x
  OBVIOUS
<1> QED  BY <1>1 DEF ToSet, Increasing

LEMMA NoElement ==
  /\ << >> \in Seq(Nat) /\ ToSet(<< >>) = {} /\ Increasing(<< >>)
  /\ \A s \in Seq(Nat) : s \o << >> = s /\ << >> \o s = s
<1>1. << >> \in Seq(Nat) /\ DOMAIN << >> = {}
  OBVIOUS
<1>2. \A s \in Seq(Nat) : s \o << >> = s /\ << >> \o s = s
  BY ConcatEmptySeq
<1> QED  BY <1>1, <1>2 DEF ToSet, Increasing

-----------------------------------------------------------------------------
(* The steps that leave part of the invariant alone. *)

\* What a step must leave alone for the characters, and for the output, to stay.
SameChars == /\ ctx'.uart_avail = ctx.uart_avail /\ ctx'.uart_fetched = ctx.uart_fetched
             /\ UNCHANGED uartVars
SameOutput == /\ ctx'.uart_written = ctx.uart_written /\ ctx'.uart_data = ctx.uart_data
              /\ ctx'.vuart_written = ctx.vuart_written /\ ctx'.vuart_data = ctx.vuart_data
              /\ \/ phase # "checkout" /\ phase' # "checkout"
                 \/ phase' = phase /\ ctx0' = ctx0
              /\ UNCHANGED outVars

\* What the contexts hold for the virtual UART.
Committed == Pending(phase = "checkout" /\ ctx0.vuart_written /\ ctx0.vuart_data \notin Wide,
                     ctx0.vuart_data)
Built == Pending(ctx.vuart_written /\ ctx.vuart_data \notin Wide, ctx.vuart_data)

LEMMA NotifiedParts == /\ Notified = (printed \o Committed) \o Built
                       /\ Notified' = (printed' \o Committed') \o Built'
<1>1. Notified = (printed \o Committed) \o Built
  BY DEF Notified, Committed, Built, Pending
<1>2. Notified' = (printed' \o Committed') \o Built'
  BY DEF Notified, Committed, Built, Pending
<1> QED  BY <1>1, <1>2

LEMMA PartsAreSequences ==
  ASSUME PeripheralType
  PROVE  /\ Committed \in Seq(Nat) /\ Built \in Seq(Nat)
         /\ printed \in Seq(Nat) /\ printed \o Committed \in Seq(Nat) /\ Notified \in Seq(Nat)
<1>1. Committed \in Seq(Nat) /\ Built \in Seq(Nat)
  BY OneElement, NoElement DEF Committed, Built, Pending, PeripheralType, ContextType
<1> QED  BY <1>1, ConcatProperties, NotifiedParts DEF PeripheralType

\* A step that stores nothing to the virtual UART and loses nothing of it.
LEMMA SameNotified ==
  ASSUME OutputOnce, Notified' = Notified, sent'.vuart = sent.vuart,
         out' \o Pending(ctx'.uart_written, ctx'.uart_data) = sent'.tx
  PROVE  OutputOnce'
BY DEF OutputOnce, Increasing, ToSet

LEMMA CharsStay ==
  ASSUME CharsInOrder, SameChars
  PROVE  CharsInOrder'
<1>1. Unread' = Unread
  BY DEF SameChars, uartVars, Unread
<1> QED  BY <1>1 DEF SameChars, uartVars, CharsInOrder

LEMMA OutputStays ==
  ASSUME OutputOnce, SameOutput
  PROVE  OutputOnce'
<1>1. Committed' = Committed
  BY DEF SameOutput, Committed, Pending
<1>2. Built' = Built
  BY DEF SameOutput, Built
<1>3. Pending(ctx'.uart_written, ctx'.uart_data) = Pending(ctx.uart_written, ctx.uart_data)
  BY DEF SameOutput
<1> QED  BY <1>1, <1>2, <1>3, NotifiedParts DEF SameOutput, outVars, OutputOnce

\* Types of the parts of Unread.
LEMMA UnreadTypes ==
  ASSUME PeripheralType, CharsInOrder
  PROVE  /\ Unread \in Seq(Nat)
         /\ ctx.uart_fetched => Tail(ififo) \in Seq(Nat)
         /\ (IF hand # NoChar THEN <<hand>> ELSE << >>) \in Seq(Nat)
         /\ got \o Unread \in Seq(Nat)
<1>1. (IF ctx.uart_fetched THEN Tail(ififo) ELSE ififo) \in Seq(Nat)
  BY DEF PeripheralType, CharsInOrder
<1>2. (IF hand # NoChar THEN <<hand>> ELSE << >>) \in Seq(Nat)
  BY OneElement, NoElement DEF PeripheralType
<1>3. Unread \in Seq(Nat)
  BY <1>1, <1>2 DEF Unread
<1> QED  BY <1>1, <1>2, <1>3 DEF PeripheralType

-----------------------------------------------------------------------------
(* The program's accesses. *)

LEMMA InitiallySound ==
  ASSUME Init
  PROVE  PeripheralInv
<1> USE DEF Init
<1>1. PeripheralType
  BY NoElement DEF PeripheralType, ContextType, Context, NoChar
<1>2. Flags /\ Holding /\ Typing /\ Counting
  BY DEF Flags, Holding, Typing, Counting, Context, NoChar
<1>3. OutputOnce
  <2>1. Committed = << >> /\ Built = << >> /\ printed = << >>
    BY DEF Committed, Built, Pending, Context
  <2>2. Notified = << >>
    BY <2>1, NoElement, NotifiedParts
  <2> QED  BY <2>2, NoElement DEF OutputOnce, Pending, Context
<1>4. Unread = << >> /\ got \o Unread = << >>
  BY NoElement DEF Unread, Context, NoChar
<1>5. CharsInOrder
  BY <1>4, NoElement DEF CharsInOrder, Context
<1> QED  BY <1>1, <1>2, <1>3, <1>5 DEF PeripheralInv

LEMMA LoadRxdStep ==
  ASSUME PeripheralInv, LoadRxd
  PROVE  PeripheralInv'
<1> USE DEF PeripheralInv
<1>a. ctx.uart_avail => ififo # << >> /\ front \in Nat /\ front = Head(ififo)
                        /\ Tail(ififo) \in Seq(Nat) /\ <<front>> \o Tail(ififo) = ififo
  BY HeadTailProperties, HeadTailAppend, AppendIsConcat DEF CharsInOrder, PeripheralType, front
<1>b. got \in Seq(Nat) /\ ctx \in ContextType
  BY DEF PeripheralType
<1>c. got' \in Seq(Nat)
  <2>1. CASE ctx.uart_avail
    <3>1. front \in Nat /\ got' = Append(got, front)
      BY <1>a, <2>1 DEF LoadRxd
    <3> QED  BY <1>b, <3>1, AppendProperties
  <2>2. CASE ~ ctx.uart_avail
    BY <1>b, <2>2 DEF LoadRxd
  <2> QED  BY <2>1, <2>2
<1>d. ctx' \in ContextType
  BY <1>b DEF LoadRxd, ContextType
<1>1. PeripheralType'
  BY <1>c, <1>d DEF LoadRxd, PeripheralType, outVars
<1>2. Flags' /\ Holding' /\ Typing' /\ Counting'
  BY DEF LoadRxd, Flags, Holding, Typing, Counting, PeripheralType, ContextType
<1>3. OutputOnce'
  <2>1. SameOutput
    BY DEF LoadRxd, SameOutput, PeripheralType, ContextType
  <2> QED  BY <2>1, OutputStays
<1>4. CharsInOrder'
  <2>1. CASE ~ ctx.uart_avail
    <3>1. SameChars
      BY <2>1 DEF LoadRxd, SameChars, uartVars
    <3> QED  BY <3>1, CharsStay
  <2>2. CASE ctx.uart_avail
    <3> DEFINE H == IF hand # NoChar THEN <<hand>> ELSE << >>
    <3>1. H \in Seq(Nat)
      BY UnreadTypes
    <3>2. Unread = ififo \o H
      BY DEF LoadRxd, Flags, Unread
    <3>3. Unread' = Tail(ififo) \o H
      BY <2>2 DEF LoadRxd, Unread, PeripheralType, ContextType
    <3>4. got' = got \o <<front>>
      <4>1. got' = Append(got, front) /\ front \in Nat
        BY <1>a, <2>2 DEF LoadRxd
      <4> QED  BY <1>b, <4>1, AppendIsConcat
    <3> HIDE DEF H
    <3>5. (got \o <<front>>) \o (Tail(ififo) \o H) = got \o (<<front>> \o (Tail(ififo) \o H))
      <4>1. <<front>> \in Seq(Nat) /\ Tail(ififo) \o H \in Seq(Nat)
        BY <1>a, <2>2, <3>1, ConcatProperties, OneElement
      <4> QED  BY <1>b, <4>1, Associates
    <3>6. <<front>> \o (Tail(ififo) \o H) = (<<front>> \o Tail(ififo)) \o H
      <4>1. <<front>> \in Seq(Nat) /\ Tail(ififo) \in Seq(Nat)
        BY <1>a, <2>2, OneElement
      <4> QED  BY <3>1, <4>1, Associates
    <3>7. got' \o Unread' = got \o Unread
      BY <1>a, <2>2, <3>2, <3>3, <3>4, <3>5, <3>6
    <3> QED  BY <1>a, <2>2, <3>7 DEF CharsInOrder, LoadRxd
  <2> QED  BY <2>1, <2>2
<1> QED  BY <1>1, <1>2, <1>3, <1>4

\* An access that stores: what it leaves alone of the characters.
LEMMA StoreKeepsChars ==
  ASSUME PeripheralInv, Store,
         ctx'.uart_avail = ctx.uart_avail, ctx'.uart_fetched = ctx.uart_fetched
  PROVE  CharsInOrder' /\ Holding' /\ Typing'
<1>1. SameChars
  BY DEF Store, SameChars
<1> QED  BY <1>1, CharsStay DEF PeripheralInv, Store, uartVars, Holding, Typing

LEMMA StoreTxdStep ==
  ASSUME PeripheralInv, NEW c \in Nat, StoreTxd(c)
  PROVE  PeripheralInv'
<1> USE DEF PeripheralInv
<1>0. ctx' = [ctx EXCEPT !.uart_written = TRUE, !.uart_data = c] /\ ctx \in ContextType
  BY DEF StoreTxd, PeripheralType
<1>1. PeripheralType'
  BY AppendProperties DEF StoreTxd, Store, PeripheralType, ContextType, uartVars
<1>2. Flags' /\ Counting'
  BY <1>0 DEF StoreTxd, Store, Flags, Counting, ContextType
<1>3. CharsInOrder' /\ Holding' /\ Typing'
  BY <1>0, StoreKeepsChars DEF StoreTxd, ContextType
<1>4. OutputOnce'
  <2>1. ctx'.uart_written /\ ctx'.uart_data = c /\ ctx'.vuart_written = ctx.vuart_written
        /\ ctx'.vuart_data = ctx.vuart_data
    BY <1>0 DEF ContextType
  <2>2. out = sent.tx
    BY NoElement DEF StoreTxd, Store, Flags, OutputOnce, Pending, PeripheralType
  <2>3. sent'.tx = Append(sent.tx, c) /\ sent'.vuart = sent.vuart
    BY DEF StoreTxd, PeripheralType
  <2>4. out' \o Pending(ctx'.uart_written, ctx'.uart_data) = sent'.tx
    BY <2>1, <2>2, <2>3, AppendIsConcat DEF StoreTxd, Store, Pending, PeripheralType
  <2>5. Committed' = Committed /\ Built' = Built /\ printed' = printed
    BY <2>1 DEF StoreTxd, Store, Committed, Built, Pending
  <2> QED  BY <2>3, <2>4, <2>5, NotifiedParts, SameNotified
<1> QED  BY <1>1, <1>2, <1>3, <1>4

LEMMA StoreVirtualUartStep ==
  ASSUME PeripheralInv, StoreVirtualUart(sent.vuart + 1)
  PROVE  PeripheralInv'
<1> USE DEF PeripheralInv
<1> DEFINE c == sent.vuart + 1
<1>0. /\ ctx' = [ctx EXCEPT !.vuart_written = TRUE, !.vuart_data = c] /\ ctx \in ContextType
      /\ sent' = [sent EXCEPT !.vuart = c] /\ sent \in [tx : Seq(Nat), vuart : Nat] /\ c \in Nat
  BY DEF StoreVirtualUart, PeripheralType
<1>1. PeripheralType'
  BY <1>0 DEF StoreVirtualUart, Store, PeripheralType, ContextType, uartVars
<1>2. Flags' /\ Counting'
  BY <1>0 DEF StoreVirtualUart, Store, Flags, Counting, ContextType
<1>3. CharsInOrder' /\ Holding' /\ Typing'
  BY <1>0, StoreKeepsChars DEF StoreVirtualUart, ContextType
<1>4. OutputOnce'
  <2>1. /\ ctx'.vuart_written /\ ctx'.vuart_data = c /\ ctx'.uart_written = ctx.uart_written
        /\ ctx'.uart_data = ctx.uart_data
        /\ sent'.vuart = c /\ sent'.tx = sent.tx /\ out' = out /\ printed' = printed
    BY <1>0 DEF ContextType, StoreVirtualUart, Store
  <2>2. Committed = << >> /\ Built = << >> /\ Committed' = << >>
    BY DEF StoreVirtualUart, Store, Flags, Committed, Built, Pending
  <2>3. Notified = printed /\ printed \in Seq(Nat)
    BY <2>2, NoElement, NotifiedParts DEF PeripheralType
  <2>4. Notified' = printed \o Built'
    BY <2>1, <2>2, <2>3, NoElement, NotifiedParts
  <2>5. out' \o Pending(ctx'.uart_written, ctx'.uart_data) = sent'.tx
    BY <2>1 DEF OutputOnce
  <2>6. Increasing(printed) /\ ToSet(printed) = (1 .. sent.vuart) \ Wide
    BY <2>3 DEF OutputOnce
  <2>7. sent.vuart \in Nat /\ 1 .. c = (1 .. sent.vuart) \cup {c} /\ c \in Nat
    BY <1>0
  <2>8. Built' = IF c \in Wide THEN << >> ELSE <<c>>
    BY <2>1 DEF Built, Pending
  <2> HIDE DEF c
  <2>9. Increasing(printed \o Built')
        /\ ToSet(printed \o Built') = (1 .. c) \ Wide
    <3>1. CASE c \in Wide
      <4>1. printed \o Built' = printed
        BY <2>3, <2>8, <3>1, NoElement
      <4> QED  BY <2>6, <2>7, <3>1, <4>1
    <3>2. CASE c \notin Wide
      <4>1. Built' = <<c>> /\ Built' \in Seq(Nat) /\ ToSet(Built') = {c} /\ Increasing(Built')
        BY <2>7, <2>8, <3>2, OneElement
      <4>2. \A x \in ToSet(printed), y \in ToSet(Built') : x < y
        <5>1. c = sent.vuart + 1
          BY DEF c
        <5> QED  BY <2>6, <2>7, <4>1, <5>1
      <4>3. Increasing(printed \o Built')
        BY <2>3, <2>6, <4>1, <4>2, IncreasingConcat
      <4>4. ToSet(printed \o Built') = ToSet(printed) \cup {c}
        BY <2>3, <4>1, ElementsOfConcat
      <4> QED  BY <2>6, <2>7, <3>2, <4>3, <4>4
    <3> QED  BY <3>1, <3>2
  <2> QED  BY <2>1, <2>4, <2>5, <2>9 DEF OutputOnce, Increasing, ToSet
<1> QED  BY <1>1, <1>2, <1>3, <1>4

\* A store that sends no character.
LEMMA QuietStore ==
  ASSUME PeripheralInv, Store, sent' = sent, ctx' \in ContextType,
         \A f \in {"uart_avail", "uart_fetched", "uart_written", "uart_data",
                   "vuart_written", "vuart_data"} : ctx'[f] = ctx[f]
  PROVE  PeripheralType' /\ Flags' /\ Holding' /\ Typing' /\ OutputOnce' /\ CharsInOrder'
<1> USE DEF PeripheralInv
<1>1. PeripheralType'
  BY DEF Store, PeripheralType, uartVars
<1>2. Flags'
  BY DEF Store, Flags
<1>3. SameOutput
  BY DEF Store, SameOutput, outVars
<1> QED  BY <1>1, <1>2, <1>3, OutputStays, StoreKeepsChars

LEMMA NumbersStep ==
  ASSUME PeripheralInv, Numbers, ~ restarts
  PROVE  PeripheralInv'
<1> USE DEF PeripheralInv
<1>0. ctx \in ContextType
  BY DEF PeripheralType
<1>1. CASE StoreNum
  <2>1. /\ ctx' = [ctx EXCEPT !.v_num = [current |-> ctx.v_num.current + 1,
                                         acked |-> ctx.v_num.current + 1]]
        /\ ctx' \in ContextType
    BY <1>0, <1>1 DEF StoreNum, ContextType
  <2>2. Counting'
    <3>1. /\ phase = "bus" /\ phase' = "sync" /\ UNCHANGED <<ctx0, current_num, restarts>>
          /\ ctx.v_num.current \in Int
      BY <1>0, <1>1 DEF StoreNum, Store, ContextType
    <3>2. /\ ctx'.v_num = [current |-> ctx.v_num.current + 1,
                           acked |-> ctx.v_num.current + 1]
          /\ ctx'.v_num_monitor = ctx.v_num_monitor
      BY <1>0, <2>1 DEF ContextType
    <3>3. ctx.v_num_monitor => current_num = ctx.v_num.current
      BY <3>1 DEF Counting
    <3> QED  BY <3>1, <3>2, <3>3 DEF Counting
  <2> QED  BY <1>0, <1>1, <2>1, <2>2, QuietStore DEF StoreNum, ContextType
<1>2. CASE \E bit \in {0, 1} : StoreNumMonitor(High(bit))
  <2>1. PICK bit \in {0, 1} : StoreNumMonitor(High(bit))
    BY <1>2
  <2>2. ctx' = [ctx EXCEPT !.v_num_monitor = FALSE] /\ ctx' \in ContextType
    <3>1. High(bit).lo = 0 /\ (High(bit).lo = 1) = FALSE
      BY DEF High
    <3>2. ctx' = [ctx EXCEPT !.v_num_monitor = FALSE]
      BY <2>1, <3>1 DEF StoreNumMonitor
    <3> QED  BY <1>0, <3>2 DEF ContextType
  <2>3. Counting'
    BY <1>0, <2>1, <2>2 DEF StoreNumMonitor, Store, Counting, ContextType
  <2> QED  BY <1>0, <2>1, <2>2, <2>3, QuietStore DEF StoreNumMonitor, ContextType
<1> QED  BY <1>1, <1>2 DEF Numbers

LEMMA OtherAccessStep ==
  ASSUME PeripheralInv, Registers \/ Idle
  PROVE  PeripheralInv'
<1> USE DEF PeripheralInv
<1>1. Store /\ ctx' = ctx /\ sent' = sent /\ ctx' \in ContextType
  BY DEF Registers, StoreRegister, Idle, Store, outVars, PeripheralType
<1>2. Counting'
  BY <1>1 DEF Store, Counting
<1> QED  BY <1>1, <1>2, QuietStore

-----------------------------------------------------------------------------
(* The steps of the cycle. *)

LEMMA SyncStep ==
  ASSUME PeripheralInv, Sync
  PROVE  PeripheralInv'
<1> USE DEF PeripheralInv
<1>0. ctx \in ContextType /\ ctx0' = ctx /\ ctx' = contextNext /\ phase' = "checkout"
      /\ phase = "sync"
  BY DEF Sync, PeripheralType
<1>1. /\ ctx'.uart_avail = (popped # << >>)
      /\ ctx'.uart_fetched = FALSE /\ ctx'.uart_written = FALSE /\ ctx'.vuart_written = FALSE
      /\ ctx'.v_num = ctx.v_num /\ ctx'.v_num_monitor = ctx.v_num_monitor
      /\ ctx' \in ContextType
  BY <1>0 DEF contextNext, availNow, ContextType
<1>2. popped = (IF ctx.uart_fetched THEN Tail(ififo) ELSE ififo) /\ popped \in Seq(Nat)
  BY UnreadTypes DEF popped, CharsInOrder, PeripheralType
<1>3. out' = out \o Pending(ctx.uart_written, ctx.uart_data) /\ out' \in Seq(Nat)
  <2>1. out \in Seq(Nat) /\ ctx.uart_data \in Nat
    BY <1>0 DEF PeripheralType, ContextType
  <2>2. CASE ctx.uart_written
    BY <2>1, <2>2, AppendIsConcat, AppendProperties DEF Sync, Pending
  <2>3. CASE ~ ctx.uart_written
    BY <2>1, <2>3, NoElement DEF Sync, Pending
  <2> QED  BY <2>2, <2>3
<1>4. PeripheralType'
  BY <1>1, <1>2, <1>3 DEF Sync, PeripheralType
<1>5. Flags' /\ Holding' /\ Typing' /\ Counting'
  BY <1>0, <1>1 DEF Sync, Flags, Holding, Typing, Counting, PeripheralType, ContextType
<1>6. OutputOnce'
  <2>1. out' \o Pending(ctx'.uart_written, ctx'.uart_data) = sent'.tx
    BY <1>1, <1>3, NoElement DEF Sync, OutputOnce, Pending
  <2>2. Committed = << >> /\ Built' = << >> /\ Committed' = Built
    BY <1>0, <1>1 DEF Committed, Built, Pending
  <2>3. Notified = printed \o Built /\ printed \in Seq(Nat) /\ printed \o Built \in Seq(Nat)
    BY <2>2, NoElement, NotifiedParts, PartsAreSequences
  <2>4. Notified' = printed \o Built
    <3>1. printed' = printed
      BY DEF Sync
    <3> QED  BY <2>2, <2>3, <3>1, NoElement, NotifiedParts
  <2>5. sent' = sent
    BY DEF Sync
  <2> QED  BY <2>1, <2>3, <2>4, <2>5, SameNotified
<1>7. CharsInOrder'
  <2>1. ififo' = popped /\ hand' = hand /\ got' = got /\ lost' = lost /\ typed' = typed
    BY DEF Sync
  <2>2. Unread' = Unread
    BY <1>1, <1>2, <2>1 DEF Unread
  <2> QED  BY <1>1, <2>1, <2>2 DEF CharsInOrder
<1> QED  BY <1>4, <1>5, <1>6, <1>7

LEMMA CheckoutStep ==
  ASSUME PeripheralInv, Checkout
  PROVE  PeripheralInv'
<1> USE DEF PeripheralInv
<1>0. phase = "checkout" /\ phase' = "bus" /\ ctx' = ctx /\ ctx0' = ctx0 /\ out' = out
      /\ sent' = sent
  BY DEF Checkout
<1>1. printed \in Seq(Nat) /\ ctx0.vuart_data \in Nat
  BY DEF PeripheralType, ContextType
<1>2. printed' = printed \o Committed /\ printed' \in Seq(Nat)
  <2> DEFINE due == ctx0.vuart_written /\ ctx0.vuart_data \notin Wide
  <2>1. /\ printed' = IF due THEN Append(printed, ctx0.vuart_data) ELSE printed
        /\ Committed = IF due THEN <<ctx0.vuart_data>> ELSE << >>
    BY <1>0 DEF Checkout, Printable, Committed, Pending
  <2> HIDE DEF due
  <2>2. CASE due
    BY <1>1, <2>1, <2>2, AppendIsConcat, AppendProperties
  <2>3. CASE ~ due
    BY <1>1, <2>1, <2>3, NoElement
  <2> QED  BY <2>2, <2>3
<1>3. current_num' = (IF ctx0.v_num_monitor THEN ctx0.v_num.current ELSE current_num)
      /\ current_num' \in Nat
  BY DEF Checkout, PeripheralType, ContextType
<1>4. PeripheralType'
  BY <1>0, <1>2, <1>3 DEF Checkout, PeripheralType, uartVars
<1>5. Flags' /\ Holding' /\ Typing'
  BY DEF Checkout, Flags, Holding, Typing, uartVars
<1>6. Counting'
  BY <1>0, <1>3 DEF Checkout, Counting
<1>7. OutputOnce'
  <2>1. Built = << >> /\ Built' = << >> /\ Committed' = << >>
    BY <1>0 DEF Flags, Committed, Built, Pending
  <2>2. Notified = printed' /\ Notified' = printed'
    BY <1>2, <2>1, NoElement, NotifiedParts
  <2> QED  BY <1>0, <2>2, SameNotified DEF OutputOnce
<1>8. CharsInOrder'
  <2>1. SameChars
    BY DEF Checkout, SameChars
  <2> QED  BY <2>1, CharsStay
<1> QED  BY <1>4, <1>5, <1>6, <1>7, <1>8

\* A restart drops what waits in the FIFO, not what the thread still holds.
LEMMA ResetStep ==
  ASSUME PeripheralInv, Reset, restarts
  PROVE  PeripheralInv'
<1> USE DEF PeripheralInv
<1>0. Context \in ContextType
  BY DEF Context, ContextType, NoChar
<1>1. PeripheralType'
  BY <1>0, NoElement DEF Reset, PeripheralType, outVars
<1>2. Flags' /\ Holding' /\ Typing' /\ Counting'
  BY DEF Reset, Flags, Holding, Typing, Counting, Context
<1>3. OutputOnce'
  <2>1. Committed = << >> /\ Committed' = << >> /\ Built = << >> /\ Built' = << >>
        /\ Pending(ctx'.uart_written, ctx'.uart_data)
             = Pending(ctx.uart_written, ctx.uart_data)
    BY DEF Reset, Flags, Committed, Built, Pending, Context
  <2>2. printed' = printed /\ out' = out /\ sent' = sent
    BY DEF Reset, outVars
  <2>3. Notified' = Notified
    BY <2>1, <2>2, NotifiedParts
  <2> QED  BY <2>1, <2>2, <2>3, SameNotified DEF OutputOnce
<1>4. CharsInOrder'
  <2> DEFINE H == IF hand # NoChar THEN <<hand>> ELSE << >>
  <2>1. H \in Seq(Nat) /\ got \in Seq(Nat) /\ ififo \in Seq(Nat)
    BY UnreadTypes DEF PeripheralType
  <2>2. Unread = ififo \o H
    BY DEF Reset, Flags, Unread
  <2>3. Unread' = H /\ got' = got /\ typed' = typed /\ lost' = lost \cup ToSet(ififo)
        /\ ~ ctx'.uart_avail /\ ~ ctx'.uart_fetched
    BY <2>1, NoElement DEF Reset, Unread, Context
  <2> HIDE DEF H
  <2>4. ififo \o H \in Seq(Nat)
    BY <2>1, ConcatProperties
  <2>5. /\ Increasing(got \o (ififo \o H))
        /\ ToSet(got \o (ififo \o H)) \cup lost = 1 .. typed
        /\ ToSet(got \o (ififo \o H)) \cap lost = {}
    BY <2>2 DEF CharsInOrder
  <2>6. ToSet(ififo \o H) = ToSet(ififo) \cup ToSet(H)
    BY <2>1, ElementsOfConcat
  <2>7. ToSet(got \o (ififo \o H)) = ToSet(got) \cup (ToSet(ififo) \cup ToSet(H))
    <3>1. ToSet(got \o (ififo \o H)) = ToSet(got) \cup ToSet(ififo \o H)
      BY <2>1, <2>4, ElementsOfConcat
    <3> QED  BY <2>6, <3>1
  <2>8. ToSet(got \o H) = ToSet(got) \cup ToSet(H)
    BY <2>1, ElementsOfConcat
  <2>9. Increasing(got) /\ Increasing(ififo \o H)
        /\ \A x \in ToSet(got), y \in ToSet(ififo \o H) : x < y
    BY <2>1, <2>4, <2>5, IncreasingConcat
  <2>10. Increasing(H) /\ \A x \in ToSet(ififo), y \in ToSet(H) : x < y
    BY <2>1, <2>9, IncreasingConcat
  <2>11. Increasing(got \o H)
    BY <2>1, <2>9, <2>10, <2>6, IncreasingConcat
  <2>12. ToSet(got) \subseteq Nat /\ ToSet(ififo) \subseteq Nat
    BY <2>1 DEF ToSet
  <2>13. (ToSet(got) \cup ToSet(H)) \cap ToSet(ififo) = {}
    <3>1. \A x \in ToSet(got) : x \notin ToSet(ififo)
      BY <2>9, <2>6, <2>12
    <3>2. \A x \in ToSet(ififo) : x \notin ToSet(H)
      BY <2>10, <2>12
    <3> QED  BY <3>1, <3>2
  <2> QED  BY <2>3, <2>5, <2>7, <2>8, <2>11, <2>13 DEF CharsInOrder
<1> QED  BY <1>1, <1>2, <1>3, <1>4

-----------------------------------------------------------------------------
(* The input thread. *)

LEMMA ReadCharStep ==
  ASSUME PeripheralInv, ReadChar
  PROVE  PeripheralInv'
<1> USE DEF PeripheralInv
<1>0. typed \in Nat /\ typed' = typed + 1 /\ hand = NoChar /\ hand' = typed + 1
      /\ ififo' = ififo /\ ctx' = ctx /\ got' = got /\ lost' = lost
      /\ phase' = phase /\ ctx0' = ctx0
  BY DEF ReadChar, Holding, PeripheralType
<1>1. PeripheralType'
  BY <1>0 DEF ReadChar, PeripheralType, outVars
<1>2. Flags' /\ Holding' /\ Typing' /\ Counting'
  BY <1>0 DEF ReadChar, Flags, Holding, Typing, Counting, NoChar
<1>3. OutputOnce'
  <2>1. SameOutput
    BY <1>0 DEF ReadChar, SameOutput
  <2> QED  BY <2>1, OutputStays
<1>4. CharsInOrder'
  <2>1. Unread \in Seq(Nat) /\ got \in Seq(Nat) /\ got \o Unread \in Seq(Nat)
    BY UnreadTypes DEF PeripheralType
  <2>2. Unread' = Unread \o <<typed + 1>>
    <3> DEFINE Q == IF ctx.uart_fetched THEN Tail(ififo) ELSE ififo
    <3>1. Q \in Seq(Nat)
      BY UnreadTypes DEF PeripheralType
    <3>2. Unread = Q
      BY <1>0, <3>1, NoElement DEF Unread
    <3>3. Unread' = Q \o <<typed + 1>>
      <4>1. hand' # NoChar
        BY <1>0 DEF NoChar
      <4> QED  BY <1>0, <4>1 DEF Unread
    <3> QED  BY <3>2, <3>3
  <2>3. got' \o Unread' = (got \o Unread) \o <<typed + 1>>
    <3>1. <<typed + 1>> \in Seq(Nat)
      BY <1>0, OneElement
    <3> QED  BY <1>0, <2>1, <2>2, <3>1, Associates
  <2> DEFINE all == got \o Unread
  <2>4. /\ all \in Seq(Nat) /\ <<typed + 1>> \in Seq(Nat)
        /\ ToSet(<<typed + 1>>) = {typed + 1} /\ Increasing(<<typed + 1>>)
    BY <1>0, <2>1, OneElement
  <2>5. Increasing(all) /\ ToSet(all) \cup lost = 1 .. typed /\ ToSet(all) \cap lost = {}
    BY DEF CharsInOrder
  <2>6. got' \o Unread' = all \o <<typed + 1>>
    BY <2>3
  <2> HIDE DEF all
  <2>7. ToSet(all \o <<typed + 1>>) = ToSet(all) \cup {typed + 1}
    BY <2>4, ElementsOfConcat
  <2>8. \A x \in ToSet(all) \cup lost : x < typed + 1
    BY <1>0, <2>5
  <2>9. Increasing(all \o <<typed + 1>>)
    <3>1. \A x \in ToSet(all), y \in ToSet(<<typed + 1>>) : x < y
      BY <2>4, <2>8
    <3> QED  BY <2>4, <2>5, <3>1, IncreasingConcat
  <2>10. (1 .. typed) \cup {typed + 1} = 1 .. typed + 1
    BY <1>0
  <2>11. (ToSet(all) \cup {typed + 1}) \cap lost = {}
    BY <1>0, <2>5, <2>8
  <2>12. (ToSet(all) \cup {typed + 1}) \cup lost = 1 .. typed + 1
    BY <2>5, <2>10
  <2> QED  BY <1>0, <2>6, <2>7, <2>9, <2>11, <2>12 DEF CharsInOrder
<1> QED  BY <1>1, <1>2, <1>3, <1>4

LEMMA PushCharStep ==
  ASSUME PeripheralInv, PushChar
  PROVE  PeripheralInv'
<1> USE DEF PeripheralInv
<1>0. hand \in Nat /\ hand # NoChar /\ hand' = NoChar /\ ififo' = Append(ififo, hand)
      /\ ctx' = ctx /\ got' = got /\ lost' = lost /\ typed' = typed
      /\ phase' = phase /\ ctx0' = ctx0 /\ ififo \in Seq(Nat)
  BY DEF PushChar, Holding, Typing, PeripheralType
<1>1. ififo' \in Seq(Nat) /\ ififo' # << >> /\ ififo' = ififo \o <<hand>>
  BY <1>0, AppendProperties, AppendIsConcat
<1>2. PeripheralType'
  BY <1>0, <1>1 DEF PushChar, PeripheralType, outVars, NoChar
<1>3. Flags' /\ Holding' /\ Typing' /\ Counting'
  BY <1>0 DEF PushChar, Flags, Holding, Typing, Counting
<1>4. OutputOnce'
  <2>1. SameOutput
    BY <1>0 DEF PushChar, SameOutput
  <2> QED  BY <2>1, OutputStays
<1>5. CharsInOrder'
  <2>1. Unread' = IF ctx.uart_fetched THEN Tail(ififo') ELSE ififo'
    BY <1>0, <1>1, NoElement, HeadTailProperties DEF Unread
  <2>2. Unread = (IF ctx.uart_fetched THEN Tail(ififo) ELSE ififo) \o <<hand>>
    BY <1>0 DEF Unread
  <2>3. ififo # << >> => Tail(ififo') = Tail(ififo) \o <<hand>>
    <3> SUFFICES ASSUME ififo # << >>  PROVE Tail(ififo') = Tail(ififo) \o <<hand>>
      OBVIOUS
    <3>1. Tail(ififo) \in Seq(Nat)
      BY <1>0, HeadTailProperties
    <3>2. Tail(ififo') = Append(Tail(ififo), hand)
      BY <1>0, HeadTailAppend
    <3> QED  BY <1>0, <3>1, <3>2, AppendIsConcat
  <2>4. Unread' = Unread
    BY <1>1, <2>1, <2>2, <2>3 DEF CharsInOrder
  <2> QED  BY <1>0, <1>1, <2>4 DEF CharsInOrder
<1> QED  BY <1>2, <1>3, <1>4, <1>5

-----------------------------------------------------------------------------
(* The peripherals' invariant, for any number of characters and of tests. *)

LEMMA PeripheralStep ==
  ASSUME PeripheralInv, [Next]_vars
  PROVE  PeripheralInv'
<1>1. CASE LoadRxd
  BY <1>1, LoadRxdStep
<1>2. CASE StoreTxd(Len(sent.tx) + 1)
  <2>1. Len(sent.tx) + 1 \in Nat
    BY DEF PeripheralInv, PeripheralType
  <2> QED  BY <1>2, <2>1, StoreTxdStep
<1>3. CASE StoreVirtualUart(sent.vuart + 1)
  BY <1>3, StoreVirtualUartStep
<1>4. CASE Numbers /\ ~ restarts
  BY <1>4, NumbersStep
<1>5. CASE Registers \/ Idle
  BY <1>5, OtherAccessStep
<1>6. CASE Sync
  BY <1>6, SyncStep
<1>7. CASE Checkout
  BY <1>7, CheckoutStep
<1>8. CASE restarts /\ Reset
  BY <1>8, ResetStep
<1>9. CASE ReadChar
  BY <1>9, ReadCharStep
<1>10. CASE PushChar
  BY <1>10, PushCharStep
<1>11. CASE UNCHANGED vars
  <2>1. SameChars /\ Unread' = Unread
    BY <1>11 DEF vars, SameChars, uartVars, Unread
  <2>2. PeripheralType' /\ Flags' /\ Holding' /\ Typing' /\ Counting'
    BY <1>11 DEF PeripheralInv, PeripheralType, Flags, Holding, Typing, Counting, vars,
                 uartVars, outVars
  <2>3. OutputOnce'
    <3>1. SameOutput
      BY <1>11 DEF vars, SameOutput
    <3> QED  BY <3>1, OutputStays DEF PeripheralInv
  <2> QED  BY <2>1, <2>2, <2>3, CharsStay DEF PeripheralInv
<1> QED  BY <1>1, <1>2, <1>3, <1>4, <1>5, <1>6, <1>7, <1>8, <1>9, <1>10, <1>11
         DEF Next, Access, Input

\* The simulated peripherals keep their invariant: what the bus, the thread and
\* ModelBase know of one another holds whatever is typed, sent and restarted.
THEOREM PeripheralInvariance == Spec => []PeripheralInv
<1>1. Init => PeripheralInv
  BY InitiallySound
<1>2. PeripheralInv /\ [Next]_vars => PeripheralInv'
  BY PeripheralStep
<1> QED  BY <1>1, <1>2, PTL DEF Spec

\* What is typed reaches the program once and in order, although the FIFO is read
\* without its lock (confreg.cpp:102-118, 155-160, 183-201).
THEOREM TypedInOrder == Spec => []CharsInOrder
<1>1. PeripheralInv => CharsInOrder
  BY DEF PeripheralInv
<1> QED  BY <1>1, PeripheralInvariance, PTL

\* What is stored to TXD, and what is printable of that stored to the virtual UART,
\* comes out once and in order (confreg.cpp:72-75, 109-121, 203-207; model.cpp:155-156).
THEOREM SentOnce == Spec => []OutputOnce
<1>1. PeripheralInv => OutputOnce
  BY DEF PeripheralInv
<1> QED  BY <1>1, PeripheralInvariance, PTL

\* The assertions on the order of the tests never fire (model.cpp:148, 150).
THEOREM TestsFollow == Spec => []NumbersFollow
<1>1. PeripheralInv => NumbersFollow
  BY DEF PeripheralInv, PeripheralType, ContextType, Counting, NumbersFollow, NumberFollows
<1> QED  BY <1>1, PeripheralInvariance, PTL
=============================================================================
