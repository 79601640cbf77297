------------------------------ MODULE DBusProofs -----------------------------
(***************************************************************************)
(* A test that drives the data bus sees its own program order, for all     *)
(* cells of memory, all words it stores and every length of the queue.     *)
(***************************************************************************)
EXTENDS DBus, SequenceTheorems, TLAPS

AnyWord == [Lane -> Nat]
Memory == [Words -> AnyWord]

Task == [addr : Nat, strobe : SUBSET Lane, data : AnyWord, op : [width : Nat, sht : Nat],
         dest : {"program", "cell", "null"}, want : AnyWord]

\* Task t, answered by memory v, gives its program what v holds and leaves memory w.
Serves(t, v, w) ==
  \E c \in Cells :
    /\ t.addr = c.addr
    /\ \/ /\ t.strobe = {} /\ w = v
          /\ \/ t.op = parse(c.width, c.addr) /\ t.dest # "null" /\ t.want = Bytes(v, c)
             \/ t.op = parse(c.width, c.addr) /\ t.dest = "null"
                  /\ t.data = place(t.op, Bytes(v, c))
             \/ t.op = DISCARD /\ t.dest = "null"
       \/ /\ t.dest = "null"
          /\ \E x \in Values : /\ t.strobe = strobe(parse(c.width, c.addr))
                               /\ t.data = place(parse(c.width, c.addr), x)
                               /\ w = Assigned(v, c, x)

\* The memories between the queued tasks, from the device's to the program's.
Between(view, queue, first, last) ==
  /\ view \in [1 .. Len(queue) + 1 -> Memory]
  /\ view[1] = first /\ view[Len(queue) + 1] = last
  /\ \A k \in 1 .. Len(queue) : Serves(queue[k], view[k], view[k + 1])

\* A test waits behind the load of its cell, and then for nothing.
Fenced ==
  ppc = "fence" =>
    /\ cell.width <= 4
    /\ ongoing # << >> => LET t == ongoing[Len(ongoing)]
                          IN t.dest = "cell" /\ t.addr = cell.addr
                             /\ t.op = parse(cell.width, cell.addr)
    /\ ongoing = << >> => \A l \in Lane : l < cell.width => value[l] = Bytes(program, cell)[l]

PipelineInv ==
  driver = "pipeline" =>
    /\ ppc \in {"run", "fence"}
    /\ dreq = IF ongoing = << >> THEN NoRequest ELSE OnBus(Head(ongoing))
    /\ \E view : Between(view, ongoing, mem, program)
    /\ Fenced

BareInv ==
  driver = "bare" =>
    /\ ongoing = << >> /\ ppc \in {"run", "await"}
    /\ ppc = "run" => dreq = NoRequest /\ mem = program
    /\ ppc = "await" =>
         \/ mem = program /\ \E t \in Task : t.addr = cell.addr /\ t.strobe = {} /\ dreq = OnBus(t)
         \/ \E x \in Values : dreq = OnBus(StoreTask(cell, x)) /\ program = Assigned(mem, cell, x)

BusInv ==
  /\ driver \in {"pipeline", "bare"}
  /\ mem \in Memory /\ program \in Memory
  /\ cell \in Cells /\ ongoing \in Seq(Task)
  /\ PipelineInv /\ BareInv
  /\ ReadsProgramOrder

-----------------------------------------------------------------------------
(* Placement of a cell in its word *)

LEMMA Placement ==
  ASSUME NEW c \in Cells
  PROVE  /\ c.width \in 1 .. 8 /\ c.addr \in Nat /\ c.addr % 8 \in 0 .. 7
         /\ (c.addr % 8) + c.width <= 8
         /\ parse(c.width, c.addr) = [width |-> c.width, sht |-> c.addr % 8]
         /\ parse(c.width, c.addr) # DISCARD
         /\ c.addr \div 8 \in Words
<1>1. c.width \in Width /\ c.addr \in Nat /\ c.addr % c.width = 0
  BY DBusAssumption
<1>2. ((c.addr % 8) \div c.width) * c.width = c.addr % 8 /\ (c.addr % 8) + c.width <= 8
  <2>1. CASE c.width = 1
    BY <1>1, <2>1
  <2>2. CASE c.width = 2
    BY <1>1, <2>2
  <2>3. CASE c.width = 4
    BY <1>1, <2>3
  <2>4. CASE c.width = 8
    BY <1>1, <2>4
  <2> QED BY <1>1, <2>1, <2>2, <2>3, <2>4 DEF Width
<1>3. c.width \in 1 .. 8 /\ c.addr % 8 \in 0 .. 7
  BY <1>1 DEF Width
<1>4. c.addr \div 8 \in Words
  BY DEF Words
<1> QED BY <1>1, <1>2, <1>3, <1>4 DEF parse, DISCARD

LEMMA Typed ==
  ASSUME NEW c \in Cells, NEW m \in Memory, NEW x \in Values
  PROVE  /\ m[c.addr \div 8] \in AnyWord
         /\ Bytes(m, c) \in AnyWord
         /\ Assigned(m, c, x) \in Memory
         /\ place(parse(c.width, c.addr), x) \in AnyWord
         /\ place(parse(c.width, c.addr), Bytes(m, c)) \in AnyWord
         /\ strobe(parse(c.width, c.addr)) \in SUBSET Lane
         /\ strobe(parse(c.width, c.addr)) # {}
         /\ parse(c.width, c.addr) \in [width : Nat, sht : Nat]
<1> DEFINE op == parse(c.width, c.addr)
           s == c.addr % 8
           a == c.addr \div 8
<1>1. /\ c.width \in 1 .. 8 /\ s \in 0 .. 7 /\ s + c.width <= 8 /\ a \in Words
      /\ op = [width |-> c.width, sht |-> s]
  BY Placement
<1>2. x \in AnyWord /\ m[a] \in AnyWord
  BY <1>1, DBusAssumption DEF AnyWord, Memory
<1> HIDE DEF op, s, a
<1>3. op.width = c.width /\ op.sht = s
  BY <1>1
<1>4. \A y \in AnyWord : place(op, y) \in AnyWord
  BY <1>1, <1>3 DEF place, AnyWord, Lane
<1>5. Bytes(m, c) \in AnyWord
  BY <1>1, <1>2 DEF Bytes, AnyWord, Lane, s, a
<1>6. Assigned(m, c, x) \in Memory
  BY <1>1, <1>2 DEF Assigned, AnyWord, Memory, Lane, s, a
<1>7. op \in [width : Nat, sht : Nat]
  BY <1>1
<1>8. strobe(op) = s .. s + c.width - 1
  BY <1>3 DEF strobe
<1>9. strobe(op) \in SUBSET Lane /\ s \in strobe(op)
  <2>1. \A l \in s .. s + c.width - 1 : l \in 0 .. 7
    BY <1>1
  <2>2. s \in s .. s + c.width - 1
    BY <1>1
  <2> QED BY <1>8, <2>1, <2>2 DEF Lane
<1> QED BY <1>2, <1>4, <1>5, <1>6, <1>7, <1>9 DEF op, a

\* The lanes and the data of a store make of a word what the program means.
LEMMA StoreIsAssignment ==
  ASSUME NEW c \in Cells, NEW m \in Memory, NEW x \in Values
  PROVE  LET op == parse(c.width, c.addr)
         IN Stored(m, c.addr, strobe(op), place(op, x)) = Assigned(m, c, x)
<1> DEFINE op == parse(c.width, c.addr)
           s == c.addr % 8
           a == c.addr \div 8
<1>1. /\ c.width \in 1 .. 8 /\ s \in 0 .. 7 /\ s + c.width <= 8
      /\ op = [width |-> c.width, sht |-> s]
  BY Placement
<1> HIDE DEF op, s, a
<1>2. [l \in Lane |-> IF l \in strobe(op) THEN place(op, x)[l] ELSE m[a][l]]
      = [l \in Lane |-> IF l >= s /\ l < s + c.width THEN x[l - s] ELSE m[a][l]]
  <2>1. op.width = c.width /\ op.sht = s
    BY <1>1
  <2> QED BY <1>1, <2>1 DEF strobe, place, Lane
<1> QED BY <1>2 DEF Stored, Assigned, op, s, a

LEMMA LoadStoresNothing ==
  ASSUME NEW m \in Memory, NEW addr, NEW data, addr \div 8 \in Words
  PROVE  Stored(m, addr, {}, data) = m
BY DEF Stored, Memory, AnyWord

\* What is taken of a word is the cell.
LEMMA LoadIsCell ==
  ASSUME NEW c \in Cells, NEW m \in Memory, NEW old
  PROVE  LET op == parse(c.width, c.addr)
             data == m[c.addr \div 8]
         IN /\ Truncated(op.width, applyTo(op, data, NoWord)) = Bytes(m, c)
            /\ Truncated(c.width, apply(op, data)) = Bytes(m, c)
            /\ \A l \in Lane : l < c.width => applyTo(op, data, old)[l] = Bytes(m, c)[l]
<1> DEFINE op == parse(c.width, c.addr)
           s == c.addr % 8
           a == c.addr \div 8
<1>0. /\ c.width \in 1 .. 8 /\ s \in 0 .. 7 /\ s + c.width <= 8
      /\ op = [width |-> c.width, sht |-> s] /\ op # DISCARD
  BY Placement
<1> HIDE DEF op, s, a
<1>1. /\ c.width \in 1 .. 8 /\ s \in 0 .. 7 /\ s + c.width <= 8
      /\ op.width = c.width /\ op.sht = s /\ op # DISCARD
  BY <1>0
<1>2. Bytes(m, c) = [l \in Lane |-> IF l < c.width THEN m[a][s + l] ELSE 0]
  BY DEF Bytes, s, a
<1>3. apply(op, m[a]) = [l \in Lane |-> IF l + s \in Lane THEN m[a][l + s] ELSE 0]
  BY <1>1 DEF apply
<1>4. \A l \in Lane : l < c.width => apply(op, m[a])[l] = m[a][s + l]
  BY <1>1, <1>3 DEF Lane
<1>5. Truncated(c.width, apply(op, m[a])) = Bytes(m, c)
  BY <1>2, <1>4 DEF Truncated
<1>6. \A o : \A l \in Lane : l < c.width => applyTo(op, m[a], o)[l] = m[a][s + l]
  BY <1>1, <1>4 DEF applyTo
<1>7. Truncated(op.width, applyTo(op, m[a], NoWord)) = Bytes(m, c)
  BY <1>1, <1>2, <1>6 DEF Truncated
<1> QED BY <1>2, <1>5, <1>6, <1>7 DEF op, a

\* A load without a destination compares the cell, or nothing.
LEMMA ComparedRight ==
  ASSUME NEW c \in Cells, NEW m \in Memory, NEW t \in Task,
         \/ t.op = parse(c.width, c.addr) /\ t.data = place(t.op, Bytes(m, c))
         \/ t.op = DISCARD
  PROVE  LET d == Compared(t, m[c.addr \div 8]) IN d.got = d.want
<1> DEFINE s == c.addr % 8
           a == c.addr \div 8
<1>1. CASE t.op = DISCARD
  <2>1. strobe(t.op) = {}
    BY <1>1 DEF strobe, DISCARD
  <2> QED BY <2>1 DEF Compared
<1>2. CASE t.op = parse(c.width, c.addr) /\ t.data = place(t.op, Bytes(m, c))
  <2>0. /\ c.width \in 1 .. 8 /\ s \in 0 .. 7 /\ s + c.width <= 8
        /\ t.op = [width |-> c.width, sht |-> s]
    BY <1>2, Placement
  <2>2. Bytes(m, c) = [l \in Lane |-> IF l < c.width THEN m[a][s + l] ELSE 0]
    BY DEF Bytes
  <2> HIDE DEF s, a
  <2>1. /\ c.width \in 1 .. 8 /\ s \in 0 .. 7 /\ s + c.width <= 8
        /\ t.op.width = c.width /\ t.op.sht = s
    BY <2>0
  <2>3. \A l \in Lane : l \in strobe(t.op) => t.data[l] = m[a][l]
    BY <1>2, <2>1, <2>2 DEF strobe, place, Lane
  <2>4. Compared(t, m[a]).got = Compared(t, m[a]).want
    BY <2>3 DEF Compared
  <2> QED BY <2>4 DEF a
<1> QED BY <1>1, <1>2

-----------------------------------------------------------------------------
(* The queue *)

\* What is submitted goes to the end of the queue, and to the bus if that is idle.
LEMMA Submitted ==
  ASSUME NEW t \in Task, NEW queue \in Seq(Task), NEW first \in Memory, NEW last \in Memory,
         NEW new \in Memory, Serves(t, last, new),
         \E view : Between(view, queue, first, last)
  PROVE  /\ Append(queue, t) \in Seq(Task) /\ Append(queue, t) # << >>
         /\ Head(Append(queue, t)) = IF queue = << >> THEN t ELSE Head(queue)
         /\ Append(queue, t)[Len(Append(queue, t))] = t
         /\ \E view : Between(view, Append(queue, t), first, new)
<1> DEFINE longer == Append(queue, t)
<1>1. /\ longer \in Seq(Task) /\ longer # << >> /\ Len(longer) = Len(queue) + 1
      /\ \A i \in 1 .. Len(queue) : longer[i] = queue[i]
      /\ longer[Len(queue) + 1] = t
      /\ Len(queue) \in Nat
  BY AppendProperties, LenProperties
<1>2. Head(longer) = IF queue = << >> THEN t ELSE Head(queue)
  BY HeadTailAppend
<1>3. PICK view : Between(view, queue, first, last)
  OBVIOUS
<1> DEFINE more == [k \in 1 .. Len(queue) + 2 |-> IF k = Len(queue) + 2 THEN new ELSE view[k]]
<1>4. Between(more, longer, first, new)
  <2>1. /\ view \in [1 .. Len(queue) + 1 -> Memory]
        /\ view[1] = first /\ view[Len(queue) + 1] = last
        /\ \A k \in 1 .. Len(queue) : Serves(queue[k], view[k], view[k + 1])
    BY <1>3 DEF Between
  <2>2. more \in [1 .. Len(longer) + 1 -> Memory]
    BY <1>1, <2>1
  <2>3. more[1] = first /\ more[Len(longer) + 1] = new
    BY <1>1, <2>1
  <2>4. ASSUME NEW k \in 1 .. Len(longer) PROVE Serves(longer[k], more[k], more[k + 1])
    <3>1. CASE k = Len(queue) + 1
      <4>1. longer[k] = t /\ more[k] = last /\ more[k + 1] = new
        BY <1>1, <2>1, <3>1
      <4> QED BY <4>1
    <3>2. CASE k \in 1 .. Len(queue)
      <4>1. longer[k] = queue[k] /\ more[k] = view[k] /\ more[k + 1] = view[k + 1]
        BY <1>1, <3>2
      <4> QED BY <2>1, <3>2, <4>1
    <3> QED BY <1>1, <3>1, <3>2
  <2> QED BY <2>2, <2>3, <2>4, Zenon DEF Between
<1> HIDE DEF longer, more
<1>5. longer[Len(longer)] = t
  BY <1>1
<1> QED BY <1>1, <1>2, <1>4, <1>5 DEF longer

\* The first task is answered by the device's memory and leaves the rest of the queue.
LEMMA Removed ==
  ASSUME NEW queue \in Seq(Task), queue # << >>, NEW first, NEW last,
         NEW view, Between(view, queue, first, last)
  PROVE  /\ Head(queue) \in Task /\ Tail(queue) \in Seq(Task)
         /\ view[2] \in Memory
         /\ Serves(Head(queue), first, view[2])
         /\ \E shorter : Between(shorter, Tail(queue), view[2], last)
         /\ Tail(queue) = << >> => view[2] = last /\ queue[Len(queue)] = Head(queue)
         /\ Tail(queue) # << >> => Tail(queue)[Len(Tail(queue))] = queue[Len(queue)]
<1> DEFINE rest == Tail(queue)
<1>1. /\ rest \in Seq(Task) /\ Len(rest) = Len(queue) - 1 /\ Len(queue) \in Nat \ {0}
      /\ \A i \in 1 .. Len(rest) : rest[i] = queue[i + 1]
      /\ Head(queue) \in Task /\ Head(queue) = queue[1]
      /\ rest = << >> <=> Len(queue) = 1
  <2>1. /\ rest \in Seq(Task) /\ Len(rest) = Len(queue) - 1 /\ Head(queue) \in Task
        /\ \A i \in 1 .. Len(rest) : rest[i] = queue[i + 1]
    BY HeadTailProperties
  <2>2. Len(queue) \in Nat \ {0} /\ (rest = << >> <=> Len(rest) = 0)
    BY <2>1, EmptySeq, Zenon
  <2>3. Head(queue) = queue[1]
    OBVIOUS
  <2> QED BY <2>1, <2>2, <2>3
<1>2. /\ view \in [1 .. Len(queue) + 1 -> Memory]
      /\ view[1] = first /\ view[Len(queue) + 1] = last
      /\ \A k \in 1 .. Len(queue) : Serves(queue[k], view[k], view[k + 1])
  BY DEF Between
<1> HIDE DEF rest
<1> DEFINE fewer == [k \in 1 .. Len(rest) + 1 |-> view[k + 1]]
<1>3. Between(fewer, rest, view[2], last)
  <2>1. fewer \in [1 .. Len(rest) + 1 -> Memory] /\ fewer[1] = view[2]
        /\ fewer[Len(rest) + 1] = last
    BY <1>1, <1>2
  <2>2. ASSUME NEW k \in 1 .. Len(rest) PROVE Serves(rest[k], fewer[k], fewer[k + 1])
    <3>1. rest[k] = queue[k + 1] /\ fewer[k] = view[k + 1] /\ fewer[k + 1] = view[k + 2]
          /\ k + 1 \in 1 .. Len(queue) /\ (k + 1) + 1 = k + 2
      BY <1>1
    <3>2. Serves(queue[k + 1], view[k + 1], view[(k + 1) + 1])
      BY <1>2, <3>1
    <3> QED BY <3>1, <3>2
  <2> QED BY <2>1, <2>2, Zenon DEF Between
<1>4. view[2] \in Memory /\ Serves(Head(queue), first, view[2])
  <2>1. Serves(queue[1], view[1], view[1 + 1])
    BY <1>1, <1>2
  <2> QED BY <1>1, <1>2, <2>1
<1>5. rest = << >> => view[2] = last /\ queue[Len(queue)] = Head(queue)
  <2> SUFFICES ASSUME rest = << >> PROVE view[2] = last /\ queue[Len(queue)] = Head(queue)
    OBVIOUS
  <2>1. Len(queue) + 1 = 2 /\ Len(queue) = 1
    BY <1>1
  <2>2. view[2] = last
    BY <1>2, <2>1
  <2>3. queue[Len(queue)] = Head(queue)
    BY <1>1, <2>1
  <2> QED BY <2>2, <2>3
<1>6. rest # << >> => rest[Len(rest)] = queue[Len(queue)]
  BY <1>1
<1> HIDE DEF fewer
<1> QED BY <1>1, <1>3, <1>4, <1>5, <1>6 DEF rest

\* The answer to a task: memory becomes what the task leaves, the program gets what it
\* should see.
LEMMA AnswerRight ==
  ASSUME NEW t \in Task, NEW w \in Memory, mem \in Memory, Serves(t, mem, w),
         dreq = OnBus(t), Answered(t), ReadsProgramOrder
  PROVE  /\ mem' = w
         /\ ReadsProgramOrder'
         /\ t.dest = "null" => value' = value
         /\ t.dest = "cell" =>
              \A c \in Cells : t.addr = c.addr /\ t.op = parse(c.width, c.addr) =>
                mem' = mem /\ \A l \in Lane : l < c.width => value'[l] = Bytes(mem, c)[l]
<1>1. PICK c \in Cells :
        /\ t.addr = c.addr
        /\ \/ /\ t.strobe = {} /\ w = mem
              /\ \/ t.op = parse(c.width, c.addr) /\ t.dest # "null" /\ t.want = Bytes(mem, c)
                 \/ t.op = parse(c.width, c.addr) /\ t.dest = "null"
                      /\ t.data = place(t.op, Bytes(mem, c))
                 \/ t.op = DISCARD /\ t.dest = "null"
           \/ /\ t.dest = "null"
              /\ \E x \in Values : /\ t.strobe = strobe(parse(c.width, c.addr))
                                   /\ t.data = place(parse(c.width, c.addr), x)
                                   /\ w = Assigned(mem, c, x)
  BY DEF Serves
<1> DEFINE data == mem[dreq.addr \div 8]
<1>2. /\ dreq.addr = c.addr /\ dreq.strobe = t.strobe /\ dreq.data = t.data
      /\ mem' = Stored(mem, dreq.addr, dreq.strobe, dreq.data)
      /\ value' = IF t.dest = "cell" THEN applyTo(t.op, data, value) ELSE value
      /\ done' = IF t.dest = "null" THEN (IF t.strobe = {} THEN Compared(t, data) ELSE done)
                 ELSE [got |-> Truncated(t.op.width, applyTo(t.op, data, NoWord)), want |-> t.want]
  BY <1>1 DEF Answered, OnBus, is_load
<1>3. c.addr \div 8 \in Words
  BY Placement
<1>4. mem' = w
  <2>1. CASE t.strobe = {} /\ w = mem
    BY <1>2, <1>3, <2>1, LoadStoresNothing
  <2>2. CASE \E x \in Values : /\ t.strobe = strobe(parse(c.width, c.addr))
                               /\ t.data = place(parse(c.width, c.addr), x)
                               /\ w = Assigned(mem, c, x)
    BY <1>2, <2>2, StoreIsAssignment
  <2> QED BY <1>1, <2>1, <2>2
<1>5. data = mem[c.addr \div 8]
  BY <1>2
<1>6. ReadsProgramOrder'
  <2>1. CASE t.dest # "null"
    <3>1. t.op = parse(c.width, c.addr) /\ t.want = Bytes(mem, c)
      BY <1>1, <2>1
    <3>2. Truncated(t.op.width, applyTo(t.op, data, NoWord)) = Bytes(mem, c)
      BY <1>5, <3>1, LoadIsCell
    <3> QED BY <1>2, <2>1, <3>1, <3>2 DEF ReadsProgramOrder
  <2>2. CASE t.dest = "null" /\ t.strobe = {}
    <3>1. \/ t.op = parse(c.width, c.addr) /\ t.data = place(t.op, Bytes(mem, c))
          \/ t.op = DISCARD
      BY <1>1, <2>2, Typed
    <3>2. Compared(t, data).got = Compared(t, data).want
      BY <1>5, <3>1, ComparedRight
    <3> QED BY <1>2, <2>2, <3>2 DEF ReadsProgramOrder
  <2>3. CASE t.dest = "null" /\ t.strobe # {}
    BY <1>2, <2>3 DEF ReadsProgramOrder
  <2> QED BY <2>1, <2>2, <2>3
<1>7. ASSUME t.dest = "cell", NEW k \in Cells, t.addr = k.addr, t.op = parse(k.width, k.addr)
      PROVE  mem' = mem /\ \A l \in Lane : l < k.width => value'[l] = Bytes(mem, k)[l]
  <2>1. value' = applyTo(t.op, mem[k.addr \div 8], value) /\ w = mem
    BY <1>1, <1>2, <1>7
  <2>2. \A l \in Lane : l < k.width =>
          applyTo(parse(k.width, k.addr), mem[k.addr \div 8], value)[l] = Bytes(mem, k)[l]
    BY LoadIsCell
  <2> QED BY <1>4, <1>7, <2>1, <2>2
<1> QED BY <1>2, <1>4, <1>6, <1>7

-----------------------------------------------------------------------------
(* The steps *)

LEMMA TasksAreServed ==
  ASSUME NEW c \in Cells, NEW m \in Memory, NEW x \in Values, program = m
  PROVE  /\ LoadTask(c, parse(c.width, c.addr), "program") \in Task
         /\ LoadTask(c, parse(c.width, c.addr), "cell") \in Task
         /\ LoadTask(c, DISCARD, "null") \in Task
         /\ StoreTask(c, x) \in Task
         /\ ExpectTask(c, Bytes(m, c)) \in Task
         /\ Serves(LoadTask(c, parse(c.width, c.addr), "program"), m, m)
         /\ Serves(LoadTask(c, parse(c.width, c.addr), "cell"), m, m)
         /\ Serves(LoadTask(c, DISCARD, "null"), m, m)
         /\ Serves(StoreTask(c, x), m, Assigned(m, c, x))
         /\ Serves(ExpectTask(c, Bytes(m, c)), m, m)
<1>1. /\ c.addr \in Nat /\ Bytes(m, c) \in AnyWord /\ NoWord \in AnyWord
      /\ parse(c.width, c.addr) \in [width : Nat, sht : Nat]
      /\ DISCARD \in [width : Nat, sht : Nat]
      /\ parse(8, 0) \in [width : Nat, sht : Nat]
      /\ place(parse(c.width, c.addr), x) \in AnyWord
      /\ place(parse(c.width, c.addr), Bytes(m, c)) \in AnyWord
      /\ strobe(parse(c.width, c.addr)) \in SUBSET Lane
  <2>1. parse(8, 0) \in [width : Nat, sht : Nat] /\ DISCARD \in [width : Nat, sht : Nat]
    BY DEF parse, DISCARD
  <2>2. NoWord \in AnyWord
    BY DEF NoWord, AnyWord
  <2> QED BY <2>1, <2>2, Typed, Placement
<1>2. /\ LoadTask(c, parse(c.width, c.addr), "program") \in Task
      /\ LoadTask(c, parse(c.width, c.addr), "cell") \in Task
      /\ LoadTask(c, DISCARD, "null") \in Task
  BY <1>1 DEF LoadTask, Task
<1>3. StoreTask(c, x) \in Task /\ ExpectTask(c, Bytes(m, c)) \in Task
  BY <1>1 DEF StoreTask, ExpectTask, Task
<1>4. /\ Serves(LoadTask(c, parse(c.width, c.addr), "program"), m, m)
      /\ Serves(LoadTask(c, parse(c.width, c.addr), "cell"), m, m)
      /\ Serves(LoadTask(c, DISCARD, "null"), m, m)
  BY DEF LoadTask, Serves
<1>5. Serves(StoreTask(c, x), m, Assigned(m, c, x))
  BY DEF StoreTask, Serves
<1>6. Serves(ExpectTask(c, Bytes(m, c)), m, m)
  BY DEF ExpectTask, Serves
<1> QED BY <1>2, <1>3, <1>4, <1>5, <1>6

LEMMA SubmitStep ==
  ASSUME BusInv, driver = "pipeline", driver' = driver, NEW t \in Task, submit(t),
         UNCHANGED <<mem, done>>, program' \in Memory, Serves(t, program, program'),
         cell' \in Cells, ppc' \in {"run", "fence"},
         ppc' = "fence" => /\ cell'.width <= 4 /\ t.dest = "cell" /\ t.addr = cell'.addr
                           /\ t.op = parse(cell'.width, cell'.addr)
  PROVE  BusInv'
<1>1. ongoing' = Append(ongoing, t) /\ dreq' = IF dreq.valid THEN dreq ELSE OnBus(t)
  BY DEF submit, issuesNow
<1>2. /\ dreq = IF ongoing = << >> THEN NoRequest ELSE OnBus(Head(ongoing))
      /\ \E view : Between(view, ongoing, mem, program)
      /\ mem \in Memory /\ program \in Memory /\ ongoing \in Seq(Task) /\ ReadsProgramOrder
  BY DEF BusInv, PipelineInv
<1>3. /\ ongoing' \in Seq(Task) /\ ongoing' # << >>
      /\ Head(ongoing') = IF ongoing = << >> THEN t ELSE Head(ongoing)
      /\ ongoing'[Len(ongoing')] = t
      /\ \E view : Between(view, ongoing', mem, program')
  BY <1>1, <1>2, Submitted
<1>4. dreq' = OnBus(Head(ongoing'))
  BY <1>1, <1>2, <1>3 DEF NoRequest, OnBus
<1>5. (\E view : Between(view, ongoing, mem, program))'
  BY <1>3 DEF Between
<1>6. Fenced'
  BY <1>3 DEF Fenced
<1>7. PipelineInv'
  BY <1>3, <1>4, <1>5, <1>6 DEF PipelineInv
<1>8. BareInv' /\ ReadsProgramOrder'
  BY <1>2 DEF BareInv, ReadsProgramOrder
<1> QED BY <1>2, <1>3, <1>7, <1>8 DEF BusInv

LEMMA TickStep ==
  ASSUME BusInv, driver = "pipeline", NEW data_ok \in BOOLEAN, Tick(data_ok)
  PROVE  BusInv'
<1>1. /\ dreq = IF ongoing = << >> THEN NoRequest ELSE OnBus(Head(ongoing))
      /\ \E view : Between(view, ongoing, mem, program)
      /\ mem \in Memory /\ program \in Memory /\ ongoing \in Seq(Task)
      /\ ReadsProgramOrder /\ Fenced /\ cell \in Cells
  BY DEF BusInv, PipelineInv
<1>2. UNCHANGED <<driver, ppc, cell, program>> /\ dreq' = drive(ongoing')
      /\ ppc \in {"run", "fence"}
  BY DEF Tick
<1>3. dreq' = IF ongoing' = << >> THEN NoRequest ELSE OnBus(Head(ongoing'))
  BY <1>2 DEF drive
<1>4. CASE data_ok /\ dreq.valid
  <2>1. Answered(Head(ongoing)) /\ ongoing' = Tail(ongoing)
    BY <1>4 DEF Tick
  <2>2. ongoing # << >> /\ dreq = OnBus(Head(ongoing))
    BY <1>1, <1>4 DEF NoRequest
  <2>3. PICK view : Between(view, ongoing, mem, program)
    BY <1>1
  <2>4. /\ Head(ongoing) \in Task /\ ongoing' \in Seq(Task)
        /\ view[2] \in Memory /\ Serves(Head(ongoing), mem, view[2])
        /\ \E shorter : Between(shorter, ongoing', view[2], program)
        /\ ongoing' = << >> => view[2] = program /\ ongoing[Len(ongoing)] = Head(ongoing)
        /\ ongoing' # << >> => ongoing'[Len(ongoing')] = ongoing[Len(ongoing)]
    BY <1>1, <2>1, <2>2, <2>3, Removed
  <2>5. /\ mem' = view[2] /\ ReadsProgramOrder'
        /\ Head(ongoing).dest = "cell" =>
             \A c \in Cells : Head(ongoing).addr = c.addr /\ Head(ongoing).op = parse(c.width, c.addr) =>
               mem' = mem /\ \A l \in Lane : l < c.width => value'[l] = Bytes(mem, c)[l]
    BY <1>1, <2>1, <2>2, <2>4, AnswerRight
  <2>6. Fenced'
    <3> SUFFICES ASSUME ppc' = "fence" PROVE Fenced'
      BY DEF Fenced
    <3>1. LET t == ongoing[Len(ongoing)]
          IN /\ cell.width <= 4 /\ t.dest = "cell" /\ t.addr = cell.addr
             /\ t.op = parse(cell.width, cell.addr)
      BY <1>1, <1>2, <2>2 DEF Fenced
    <3>2. CASE ongoing' # << >>
      BY <1>2, <2>4, <3>1, <3>2 DEF Fenced
    <3>3. CASE ongoing' = << >>
      <4>1. view[2] = program /\ ongoing[Len(ongoing)] = Head(ongoing)
        BY <2>4, <3>3
      <4>2. mem' = mem /\ \A l \in Lane : l < cell.width => value'[l] = Bytes(mem, cell)[l]
        BY <1>1, <2>5, <3>1, <4>1
      <4>3. program' = mem /\ cell' = cell
        BY <1>2, <2>5, <4>1, <4>2
      <4> QED BY <3>1, <3>3, <4>2, <4>3 DEF Fenced
    <3> QED BY <3>2, <3>3
  <2>7. (\E v : Between(v, ongoing, mem, program))'
    BY <1>2, <2>4, <2>5 DEF Between
  <2> QED BY <1>1, <1>2, <1>3, <2>4, <2>5, <2>6, <2>7 DEF BusInv, PipelineInv, BareInv
<1>5. CASE ~(data_ok /\ dreq.valid)
  <2>1. UNCHANGED <<mem, value, done, ongoing>>
    BY <1>5 DEF Tick
  <2>2. Fenced' /\ ReadsProgramOrder' /\ (\E v : Between(v, ongoing, mem, program))'
    BY <1>1, <1>2, <2>1 DEF Fenced, ReadsProgramOrder, Between
  <2> QED BY <1>1, <1>2, <1>3, <2>1, <2>2 DEF BusInv, PipelineInv, BareInv
<1> QED BY <1>4, <1>5

LEMMA PipelineStep ==
  ASSUME BusInv, driver = "pipeline", PipelineNext, driver' = driver
  PROVE  BusInv'
<1>0. /\ mem \in Memory /\ program \in Memory /\ ongoing \in Seq(Task) /\ cell \in Cells
      /\ NoWord \in Values
  BY DBusAssumption DEF BusInv
<1>1. ASSUME NEW c \in Cells, Load(c) PROVE BusInv'
  <2> DEFINE t == LoadTask(c, parse(c.width, c.addr), "program")
  <2>1. submit(t) /\ UNCHANGED <<driver, mem, ppc, cell, value, program, done>> /\ ppc = "run"
    BY <1>1 DEF Load, submit
  <2>2. t \in Task /\ Serves(t, program, program)
    BY <1>0, TasksAreServed
  <2> HIDE DEF t
  <2> QED BY <1>0, <2>1, <2>2, SubmitStep
<1>2. ASSUME NEW c \in Cells, Touch(c) PROVE BusInv'
  <2> DEFINE t == LoadTask(c, DISCARD, "null")
  <2>1. submit(t) /\ UNCHANGED <<driver, mem, ppc, cell, value, program, done>> /\ ppc = "run"
    BY <1>2 DEF Touch, submit
  <2>2. t \in Task /\ Serves(t, program, program)
    BY <1>0, TasksAreServed
  <2> HIDE DEF t
  <2> QED BY <1>0, <2>1, <2>2, SubmitStep
<1>3. ASSUME NEW c \in Cells, Expect(c) PROVE BusInv'
  <2> DEFINE t == ExpectTask(c, Bytes(program, c))
  <2>1. submit(t) /\ UNCHANGED <<driver, mem, ppc, cell, value, program, done>> /\ ppc = "run"
    BY <1>3 DEF Expect, submit
  <2>2. t \in Task /\ Serves(t, program, program)
    BY <1>0, TasksAreServed
  <2> HIDE DEF t
  <2> QED BY <1>0, <2>1, <2>2, SubmitStep
<1>4. ASSUME NEW c \in Cells, NEW v \in Values, Store(c, v) PROVE BusInv'
  <2> DEFINE t == StoreTask(c, v)
  <2>1. /\ submit(t) /\ UNCHANGED <<driver, mem, ppc, cell, value, done>> /\ ppc = "run"
        /\ program' = Assigned(program, c, v)
    BY <1>4 DEF Store, submit
  <2>2. t \in Task /\ Serves(t, program, program')
    BY <1>0, <2>1, TasksAreServed
  <2>3. program' \in Memory
    BY <1>0, <2>1, Typed
  <2> HIDE DEF t
  <2> QED BY <1>0, <2>1, <2>2, <2>3, SubmitStep
<1>5. ASSUME NEW c \in Cells, PipelineGet(c) PROVE BusInv'
  <2> DEFINE t == LoadTask(c, parse(c.width, c.addr), "cell")
  <2>1. /\ submit(t) /\ UNCHANGED <<driver, mem, program, done>>
        /\ c.width <= 4 /\ ppc' = "fence" /\ cell' = c
    BY <1>5 DEF PipelineGet
  <2>2. t \in Task /\ Serves(t, program, program)
    BY <1>0, TasksAreServed
  <2>3. t.dest = "cell" /\ t.addr = c.addr /\ t.op = parse(c.width, c.addr)
    BY DEF LoadTask
  <2> HIDE DEF t
  <2> QED BY <1>0, <2>1, <2>2, <2>3, SubmitStep
<1>6. ASSUME NEW data_ok \in BOOLEAN, Tick(data_ok) PROVE BusInv'
  BY <1>6, TickStep
<1>7. ASSUME PipelineGot PROVE BusInv'
  <2>1. /\ ppc = "fence" /\ ongoing = << >> /\ ppc' = "run"
        /\ UNCHANGED <<driver, mem, dreq, ongoing, cell, program>>
        /\ done' = [got |-> Truncated(cell.width, Truncated(4, value)), want |-> Bytes(program, cell)]
    BY <1>7 DEF PipelineGot, fenced
  <2>2. Fenced /\ PipelineInv
    BY DEF BusInv, PipelineInv
  <2>3. cell.width <= 4 /\ \A l \in Lane : l < cell.width => value[l] = Bytes(program, cell)[l]
    BY <2>1, <2>2 DEF Fenced
  <2>4. cell.width \in 1 .. 8
    BY <1>0, Placement
  <2>5. Truncated(cell.width, Truncated(4, value)) = Bytes(program, cell)
    BY <2>3, <2>4 DEF Truncated, Bytes, Lane
  <2>6. ReadsProgramOrder'
    BY <2>1, <2>5 DEF ReadsProgramOrder
  <2>7. Fenced'
    BY <2>1 DEF Fenced
  <2>8. (\E view : Between(view, ongoing, mem, program))'
    BY <2>1, <2>2 DEF PipelineInv, Between
  <2> QED BY <1>0, <2>1, <2>2, <2>6, <2>7, <2>8 DEF BusInv, PipelineInv, BareInv
<1> QED BY <1>1, <1>2, <1>3, <1>4, <1>5, <1>6, <1>7 DEF PipelineNext, Raw

LEMMA BareStep ==
  ASSUME BusInv, driver = "bare", BareNext, driver' = driver
  PROVE  BusInv'
<1>0. /\ mem \in Memory /\ program \in Memory /\ ongoing = << >> /\ ongoing \in Seq(Task)
      /\ cell \in Cells /\ NoWord \in Values /\ ReadsProgramOrder
      /\ ppc = "run" => dreq = NoRequest /\ mem = program
      /\ ppc = "await" =>
           \/ mem = program /\ \E t \in Task : t.addr = cell.addr /\ t.strobe = {} /\ dreq = OnBus(t)
           \/ \E x \in Values : dreq = OnBus(StoreTask(cell, x)) /\ program = Assigned(mem, cell, x)
  BY DBusAssumption DEF BusInv, BareInv
<1>1. ASSUME NEW c \in Cells, BareGet(c) PROVE BusInv'
  <2>1. /\ ppc = "run" /\ ppc' = "await" /\ cell' = c
        /\ dreq' = OnBus(LoadTask(c, DISCARD, "null"))
        /\ UNCHANGED <<driver, mem, ongoing, value, program, done>>
    BY <1>1 DEF BareGet
  <2>2. LoadTask(c, DISCARD, "null") \in Task
    BY <1>0, TasksAreServed
  <2>3. LoadTask(c, DISCARD, "null").addr = c.addr /\ LoadTask(c, DISCARD, "null").strobe = {}
    BY DEF LoadTask
  <2>4. BareInv'
    BY <1>0, <2>1, <2>2, <2>3 DEF BareInv
  <2> QED BY <1>0, <2>1, <2>4 DEF BusInv, PipelineInv, ReadsProgramOrder
<1>2. ASSUME NEW c \in Cells, NEW v \in Values, BareSet(c, v) PROVE BusInv'
  <2>1. /\ ppc = "run" /\ ppc' = "await" /\ cell' = c
        /\ dreq' = OnBus(StoreTask(c, v)) /\ program' = Assigned(program, c, v)
        /\ UNCHANGED <<driver, mem, ongoing, value, done>>
    BY <1>2 DEF BareSet
  <2>2. mem' = program
    BY <1>0, <2>1
  <2>3. \E x \in Values : dreq' = OnBus(StoreTask(cell', x)) /\ program' = Assigned(mem', cell', x)
    BY <2>1, <2>2
  <2>4. (\E x \in Values : dreq = OnBus(StoreTask(cell, x)) /\ program = Assigned(mem, cell, x))'
    BY <2>3 DEF OnBus, StoreTask, Assigned
  <2>5. BareInv'
    BY <1>0, <2>1, <2>4 DEF BareInv
  <2>6. program' \in Memory
    BY <1>0, <2>1, Typed
  <2> QED BY <1>0, <2>1, <2>5, <2>6 DEF BusInv, PipelineInv, ReadsProgramOrder
<1>3. ASSUME AwaitEnds PROVE BusInv'
  <2> DEFINE word == mem[cell.addr \div 8]
             op == parse(cell.width, cell.addr)
  <2>1. /\ ppc = "await" /\ ppc' = "run" /\ dreq' = NoRequest
        /\ mem' = Stored(mem, dreq.addr, dreq.strobe, dreq.data)
        /\ done' = IF dreq.strobe # {} THEN done
                   ELSE [got |-> Truncated(cell.width, apply(op, word)), want |-> Bytes(program, cell)]
        /\ UNCHANGED <<driver, ongoing, cell, value, program>>
    BY <1>3 DEF AwaitEnds
  <2>2. mem' = program /\ ReadsProgramOrder'
    <3>1. CASE mem = program /\ \E t \in Task : t.addr = cell.addr /\ t.strobe = {} /\ dreq = OnBus(t)
      <4>1. dreq.addr = cell.addr /\ dreq.strobe = {}
        BY <3>1 DEF OnBus
      <4>2. mem' = mem
        BY <1>0, <2>1, <4>1, LoadStoresNothing, Placement
      <4>3. Truncated(cell.width, apply(op, word)) = Bytes(program, cell)
        BY <1>0, <3>1, LoadIsCell
      <4> QED BY <2>1, <3>1, <4>1, <4>2, <4>3 DEF ReadsProgramOrder
    <3>2. CASE \E x \in Values : dreq = OnBus(StoreTask(cell, x)) /\ program = Assigned(mem, cell, x)
      <4>1. PICK x \in Values : dreq = OnBus(StoreTask(cell, x)) /\ program = Assigned(mem, cell, x)
        BY <3>2
      <4>2. /\ dreq.addr = cell.addr /\ dreq.strobe = strobe(op) /\ dreq.data = place(op, x)
        BY <4>1 DEF OnBus, StoreTask
      <4>3. mem' = program
        BY <1>0, <2>1, <4>1, <4>2, StoreIsAssignment
      <4>4. dreq.strobe # {}
        BY <1>0, <4>2, Typed
      <4> QED BY <1>0, <2>1, <4>3, <4>4 DEF ReadsProgramOrder
    <3> QED BY <1>0, <2>1, <3>1, <3>2
  <2>3. BareInv'
    BY <1>0, <2>1, <2>2 DEF BareInv
  <2> QED BY <1>0, <2>1, <2>2, <2>3 DEF BusInv, PipelineInv
<1> QED BY <1>1, <1>2, <1>3 DEF BareNext

LEMMA Unchanged ==
  ASSUME BusInv, UNCHANGED vars
  PROVE  BusInv'
<1>1. UNCHANGED <<driver, mem, dreq, ongoing, ppc, cell, value, program, done>>
  BY DEF vars
<1>2. Fenced => Fenced'
  BY <1>1 DEF Fenced
<1>3. (\E view : Between(view, ongoing, mem, program)) => (\E view : Between(view, ongoing, mem, program))'
  BY <1>1 DEF Between
<1>4. PipelineInv'
  BY <1>1, <1>2, <1>3 DEF BusInv, PipelineInv
<1>5. (\E t \in Task : t.addr = cell.addr /\ t.strobe = {} /\ dreq = OnBus(t))
        => (\E t \in Task : t.addr = cell.addr /\ t.strobe = {} /\ dreq = OnBus(t))'
  BY <1>1 DEF OnBus
<1>6. (\E x \in Values : dreq = OnBus(StoreTask(cell, x)) /\ program = Assigned(mem, cell, x))
        => (\E x \in Values : dreq = OnBus(StoreTask(cell, x)) /\ program = Assigned(mem, cell, x))'
  BY <1>1 DEF OnBus, StoreTask, Assigned
<1>7. BareInv'
  BY <1>1, <1>5, <1>6 DEF BusInv, BareInv
<1> QED BY <1>1, <1>4, <1>7 DEF BusInv, ReadsProgramOrder

LEMMA Initially == Init => BusInv
<1> SUFFICES ASSUME Init PROVE BusInv
  OBVIOUS
<1>1. mem \in Memory /\ program = mem
  BY DEF Init, Memory, AnyWord, NoWord
<1> DEFINE view == [k \in 1 .. 1 |-> mem]
<1>2. ongoing = << >> /\ ongoing \in Seq(Task) /\ Len(ongoing) = 0
  BY DEF Init
<1>3. Between(view, ongoing, mem, program)
  BY <1>1, <1>2 DEF Between
<1> HIDE DEF view
<1>4. PipelineInv
  BY <1>2, <1>3 DEF Init, PipelineInv, Fenced
<1>5. BareInv
  BY <1>1, <1>2 DEF Init, BareInv
<1> QED BY <1>1, <1>2, <1>4, <1>5 DEF Init, BusInv, ReadsProgramOrder

\* The types of memory and queue; the memories between the queued tasks, of which each
\* is left by a task and met by the next; what a test behind a fence waits for; and that
\* what the program was given is what it should see.  (bus.h:511-687, 789-867)
THEOREM BusInvariance == Spec => []BusInv
<1>1. Init => BusInv
  BY Initially
<1>2. BusInv /\ [Next]_vars => BusInv'
  <2> SUFFICES ASSUME BusInv, [Next]_vars PROVE BusInv'
    OBVIOUS
  <2>1. CASE driver = "pipeline" /\ PipelineNext
    <3>1. driver' = driver
      BY <2>1 DEF PipelineNext, Raw, Load, Touch, Expect, Store, Tick, PipelineGet, PipelineGot
    <3> QED BY <2>1, <3>1, PipelineStep
  <2>2. CASE driver = "bare" /\ BareNext
    <3>1. driver' = driver
      BY <2>2 DEF BareNext, BareGet, BareSet, AwaitEnds
    <3> QED BY <2>2, <3>1, BareStep
  <2>3. CASE UNCHANGED vars
    BY <2>3, Unchanged
  <2> QED BY <2>1, <2>2, <2>3 DEF Next
<1> QED BY <1>1, <1>2, PTL DEF Spec

\* What a test reads through the queue, a cell or the bare bus is what a memory without
\* a bus would have given it.  (bus.h:647-687, 834-850; cell.h:82-127)
THEOREM ProgramOrder == Spec => []ReadsProgramOrder
<1>1. BusInv => ReadsProgramOrder
  BY DEF BusInv
<1> QED BY <1>1, BusInvariance, PTL

\* With no request on the bus the queue is empty, and the memory of the device is the
\* one of the program.  (bus.h:511-612, 683-686, 862-867)
THEOREM StoresArrive == Spec => []Settled
<1>1. BusInv => Settled
  <2> SUFFICES ASSUME BusInv, ~dreq.valid PROVE mem = program
    BY DEF Settled
  <2>1. CASE driver = "pipeline"
    <3>1. ongoing = << >> /\ \E view : Between(view, ongoing, mem, program)
      BY <2>1 DEF BusInv, PipelineInv, OnBus
    <3> QED BY <3>1 DEF Between
  <2>2. CASE driver = "bare"
    <3>1. ppc = "run"
      BY <2>2 DEF BusInv, BareInv, OnBus
    <3> QED BY <2>2, <3>1 DEF BusInv, BareInv
  <2> QED BY <2>1, <2>2 DEF BusInv
<1> QED BY <1>1, BusInvariance, PTL
=============================================================================
