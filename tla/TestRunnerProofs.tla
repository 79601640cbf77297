-------------------------- MODULE TestRunnerProofs ---------------------------
(***************************************************************************)
(* The test runner does its books right and keeps the promise of TestPool, *)
(* for every number of workers and every list of tests.                    *)
(***************************************************************************)
EXTENDS TestRunner, FiniteSetTheorems, TLAPS

Parallel == n_workers > 1

\* The worker's process exists, or existed.
Born(w) == Parallel /\ w < n_workers /\ (mpc = "spawn" => w < spawned)

\* What the position of the master says.
PhaseInv ==
  /\ mpc \in {"serial", "aborted"} => ~Parallel
  /\ mpc \in {"spawn", "select", "handle", "close", "reap"} => Parallel
  /\ closed <=> Parallel /\ mpc \in {"reap", "done"}
  /\ mpc # "handle" => ready = {}
  /\ Parallel /\ mpc \in {"close", "reap", "done"} => failed \/ exited = n_workers
  /\ Parallel /\ mpc = "done" => spawned = n_workers
  /\ \A w \in Worker : Parallel /\ mpc \in {"reap", "done"} /\ w < spawned => wpc[w] = "dead"
  /\ \A w \in ready : open[w] /\ (req[w] \/ wpc[w] = "dead")

\* The pipes of a worker, by its position.
PipeInv(w) ==
  /\ wpc[w] = "unborn" <=> ~Born(w)
  /\ wpc[w] = "unborn" => first[w]
  /\ first[w] => task[w] = -1 /\ resp[w] = << >>
  /\ req[w] => resp[w] = << >> /\ wpc[w] # "unborn"
  /\ wpc[w] \in {"ask", "run"} => ~req[w] /\ resp[w] = << >> /\ open[w]
  /\ wpc[w] = "wait" => (req[w] <=> resp[w] = << >>)
  /\ open[w] => w < n_workers
  /\ ~open[w] /\ w < n_workers =>
       /\ dispatched = Total /\ ~req[w] /\ ~first[w]
       /\ resp[w] # << >> => resp[w] = << -1 >>
       /\ resp[w] = << >> => task[w] = -1

\* The test in the hands of a worker.
TaskInv(w) ==
  /\ wpc[w] = "run" => task[w] # -1 /\ status[task[w]] = "running"
  /\ wpc[w] = "ask" \/ req[w] =>
       /\ first[w] <=> task[w] = -1
       /\ task[w] # -1 => status[task[w]] = "ok"
  /\ resp[w] # << >> /\ Head(resp[w]) # -1 => status[Head(resp[w])] = "new"
  /\ resp[w] = << -1 >> => ~open[w]
  /\ ~closed /\ wpc[w] = "quit" => ~open[w]
  /\ ~closed /\ wpc[w] = "dead" /\ open[w] =>
       ~req[w] /\ task[w] # -1 /\ status[task[w]] = "crashed"
  /\ Owned(w) \subseteq 0 .. dispatched - 1

\* The tests of a parallel run.
StatusInv ==
  Parallel =>
    /\ \A t \in Test : t >= dispatched => status[t] = "new"
    /\ \A t \in Test : status[t] = "running" => \E w \in Worker : wpc[w] = "run" /\ task[w] = t
    /\ failed => \E t \in Test : status[t] = "crashed"
    /\ exited = Cardinality({w \in Spawned : ~open[w]})

\* The tests of a serial run.
SerialInv ==
  mpc = "serial" =>
    /\ dispatched \in {passed, passed + 1}
    /\ \A t \in Test : status[t] = IF t < passed THEN "ok"
                                   ELSE IF t < dispatched THEN "running" ELSE "new"

IInv ==
  /\ TypeOK
  /\ PhaseInv
  /\ \A w \in Worker : PipeInv(w) /\ TaskInv(w)
  /\ StatusInv
  /\ SerialInv
  /\ Bookkeeping

-----------------------------------------------------------------------------
LEMMA OneNumber ==
  ASSUME NEW x
  PROVE /\ << x >> # << >>
        /\ Head(<< x >>) = x
        /\ Tail(<< x >>) = << >>
        /\ Append(<< >>, x) = << x >>
OBVIOUS

\* What the pipe to a worker holds.
LEMMA PipeHolds ==
  ASSUME TypeOK, NEW w \in Worker
  PROVE resp[w] = << >> \/ \E i \in Test \cup {-1} : resp[w] = << i >> /\ Head(resp[w]) = i
                                                /\ resp[w] # << >> /\ Tail(resp[w]) = << >>
<1>1. resp[w] \in {<< >>} \cup {<<i>> : i \in Test \cup {-1}}
  BY DEF TypeOK
<1>2. ASSUME resp[w] # << >> PROVE \E i \in Test \cup {-1} : resp[w] = << i >>
  BY <1>1, <1>2
<1>3. QED BY <1>2, OneNumber

LEMMA Below ==
  ASSUME NEW n \in Nat
  PROVE  IsFiniteSet(0 .. n - 1) /\ Cardinality(0 .. n - 1) = n
BY FS_Interval

\* The sets whose members are counted are finite.
LEMMA CountedFinite ==
  ASSUME TypeOK
  PROVE  IsFiniteSet(Counted) /\ Cardinality(Counted) \in Nat
<1>1. IsFiniteSet(Test)
  BY RunnerAssumption, Below DEF Test
<1>2. Counted \in SUBSET Test
  BY DEF Counted
<1> QED BY <1>1, <1>2, FS_Subset, FS_CardinalityType

LEMMA ShutFinite ==
  ASSUME TypeOK
  PROVE  /\ IsFiniteSet({v \in Spawned : ~open[v]})
         /\ Cardinality({v \in Spawned : ~open[v]}) \in 0 .. n_workers
         /\ Cardinality({v \in Spawned : ~open[v]}) = n_workers => \A v \in Spawned : ~open[v]
<1>1. n_workers \in Nat
  BY RunnerAssumption DEF TypeOK
<1>2. IsFiniteSet(Spawned) /\ Cardinality(Spawned) = n_workers
  BY <1>1, Below DEF Spawned
<1> DEFINE shut == {v \in Spawned : ~open[v]}
<1>3. shut \in SUBSET Spawned
  OBVIOUS
<1>4. /\ IsFiniteSet(shut) /\ Cardinality(shut) \in Nat /\ Cardinality(shut) <= n_workers
      /\ Cardinality(shut) = n_workers => shut = Spawned
  BY <1>2, <1>3, FS_Subset, FS_CardinalityType
<1> QED BY <1>1, <1>4

LEMMA AskStep == ASSUME IInv, NEW w \in Worker, Ask(w) PROVE IInv'
<1> USE DEF IInv, Ask, Goes, workerVars, masterVars, Parallel
<1>1. TypeOK'
  BY DEF TypeOK, Spawned
<1>2. PhaseInv'
  BY DEF PhaseInv
<1>3. ASSUME NEW v \in Worker PROVE PipeInv(v)'
  BY <1>3 DEF PipeInv, TypeOK, Born
<1>4. ASSUME NEW v \in Worker PROVE TaskInv(v)'
  BY <1>4 DEF TaskInv, Owned
<1>5. StatusInv'
  BY DEF StatusInv, Spawned
<1>6. SerialInv'
  BY DEF SerialInv
<1>7. Bookkeeping'
  BY DEF Bookkeeping, Counted, Owned
<1> QED BY <1>1, <1>2, <1>3, <1>4, <1>5, <1>6, <1>7

\* A worker that is told something owns the same test before and after.
LEMMA ReceiveStep == ASSUME IInv, NEW w \in Worker, Receive(w) PROVE IInv'
<1>1. PICK i \in Test \cup {-1} : resp[w] = << i >> /\ Head(resp[w]) = i /\ Tail(resp[w]) = << >>
  BY PipeHolds DEF IInv, Receive
<1>2. /\ wpc[w] = "wait" /\ resp[w] # << >>
      /\ wpc' = [wpc EXCEPT ![w] = IF i < 0 THEN "quit" ELSE "run"]
      /\ resp' = [resp EXCEPT ![w] = << >>]
      /\ task' = [task EXCEPT ![w] = i]
      /\ status' = IF i < 0 THEN status ELSE [status EXCEPT ![i] = "running"]
      /\ UNCHANGED <<n_workers, req, masterVars>>
  BY <1>1 DEF Receive, Goes
<1>3. /\ i # -1 => i \in Test /\ ~(i < 0) /\ status[i] = "new"
      /\ i = -1 => i < 0 /\ resp[w] = << -1 >>
      /\ Parallel /\ mpc \notin {"serial", "aborted"}
  BY <1>1, <1>2 DEF IInv, TaskInv, PipeInv, PhaseInv, Born, Test
<1>4. \A v \in Worker : Owned(v)' = Owned(v)
  BY <1>1, <1>2 DEF IInv, TypeOK, Owned
<1> USE RunnerAssumption DEF IInv, masterVars
<1>5. TypeOK'
  BY <1>2, <1>3 DEF TypeOK, Spawned
<1>6. PhaseInv'
  BY <1>2 DEF PhaseInv, Parallel
<1>7. ASSUME NEW v \in Worker PROVE PipeInv(v)'
  BY <1>1, <1>2, <1>3, <1>7 DEF PhaseInv, PipeInv, TaskInv, TypeOK, Born, Parallel
<1>8. ASSUME NEW v \in Worker PROVE TaskInv(v)'
  <2>1. Owned(v)' \subseteq 0 .. dispatched' - 1
    BY <1>2, <1>4, <1>8 DEF TaskInv
  <2>2. v # w /\ i # -1 => task[v] # i \/ resp[v] # << >>
    BY <1>1, <1>2, <1>3, <1>8 DEF Bookkeeping, Owned, Parallel
  <2>3. v # w /\ resp[v] # << >> /\ i # -1 => Head(resp[v]) # i
    BY <1>1, <1>2, <1>3, <1>8 DEF Bookkeeping, Owned, Parallel
  <2>5. CASE v = w
    BY <1>1, <1>2, <1>3, <1>8, <2>1, <2>5 DEF PipeInv, TaskInv, TypeOK
  <2>6. CASE v # w
    BY <1>1, <1>2, <1>3, <1>8, <2>1, <2>2, <2>3, <2>6 DEF TaskInv
  <2> QED BY <2>5, <2>6
<1>9. StatusInv'
  BY <1>1, <1>2, <1>3 DEF StatusInv, TaskInv, TypeOK, Spawned, Owned
<1>10. SerialInv'
  BY <1>2, <1>3 DEF SerialInv
<1>11. Bookkeeping'
  <2>1. Counted' = Counted
    BY <1>2, <1>4 DEF Counted
  <2>2. i \notin Counted
    BY <1>1, <1>2, <1>3 DEF Counted, Owned, Test
  <2>3. \A t \in Counted : status'[t] = status[t]
    BY <1>2, <2>2
  <2> QED BY <1>2, <1>4, <2>1, <2>3 DEF Bookkeeping
<1> QED BY <1>5, <1>6, <1>7, <1>8, <1>9, <1>10, <1>11

LEMMA ReceiveEofStep == ASSUME IInv, NEW w \in Worker, ReceiveEof(w) PROVE IInv'
<1> USE DEF IInv, ReceiveEof, Goes, workerVars, masterVars, Parallel, AtEnd
<1>1. TypeOK'
  BY DEF TypeOK, PhaseInv
<1>2. PhaseInv'
  BY DEF PhaseInv
<1>3. ASSUME NEW v \in Worker PROVE PipeInv(v)'
  BY <1>3 DEF PipeInv, Born
<1>4. ASSUME NEW v \in Worker PROVE TaskInv(v)'
  BY <1>4 DEF TaskInv, Owned
<1>5. StatusInv'
  BY DEF StatusInv, Spawned
<1>6. SerialInv'
  BY DEF SerialInv
<1>7. Bookkeeping'
  BY DEF Bookkeeping, Counted, Owned
<1> QED BY <1>1, <1>2, <1>3, <1>4, <1>5, <1>6, <1>7

LEMMA ExitStep == ASSUME IInv, NEW w \in Worker, Exit(w) PROVE IInv'
<1> USE DEF IInv, Exit, Goes, workerVars, masterVars, Parallel
<1>1. TypeOK'
  BY DEF TypeOK, Spawned
<1>2. PhaseInv'
  BY DEF PhaseInv
<1>3. ASSUME NEW v \in Worker PROVE PipeInv(v)'
  BY <1>3 DEF PipeInv, Born
<1>4. ASSUME NEW v \in Worker PROVE TaskInv(v)'
  BY <1>4 DEF TaskInv, Owned
<1>5. StatusInv'
  BY DEF StatusInv, Spawned, Worker
<1>6. SerialInv'
  BY DEF SerialInv
<1>7. Bookkeeping'
  BY DEF Bookkeeping, Counted, Owned
<1> QED BY <1>1, <1>2, <1>3, <1>4, <1>5, <1>6, <1>7

LEMMA FinishStep == ASSUME IInv, NEW w \in Worker, Finish(w) PROVE IInv'
<1> USE DEF IInv, Finish, Goes, workerVars, masterVars, Parallel
<1>1. TypeOK'
  BY DEF TypeOK, Spawned
<1>2. PhaseInv'
  BY DEF PhaseInv
<1>3. ASSUME NEW v \in Worker PROVE PipeInv(v)'
  BY <1>3 DEF PipeInv, Born
<1>4. ASSUME NEW v \in Worker PROVE TaskInv(v)'
  BY <1>4 DEF PipeInv, TaskInv, TypeOK, Owned, Bookkeeping, Worker
<1>5. StatusInv'
  BY DEF StatusInv, TaskInv, TypeOK, Spawned
<1>6. SerialInv'
  BY DEF SerialInv, PhaseInv, PipeInv, Born
<1>7. Bookkeeping'
  BY DEF Bookkeeping, Counted, Owned
<1> QED BY <1>1, <1>2, <1>3, <1>4, <1>5, <1>6, <1>7

LEMMA CrashStep == ASSUME IInv, NEW w \in Worker, Crash(w) PROVE IInv'
<1> USE DEF IInv, Crash, Goes, workerVars, masterVars, Parallel
<1>1. TypeOK'
  BY DEF TypeOK, Spawned
<1>2. PhaseInv'
  BY DEF PhaseInv
<1>3. ASSUME NEW v \in Worker PROVE PipeInv(v)'
  BY <1>3 DEF PipeInv, Born
<1>4. ASSUME NEW v \in Worker PROVE TaskInv(v)'
  BY <1>4 DEF PipeInv, TaskInv, TypeOK, Owned, Bookkeeping, Worker
<1>5. StatusInv'
  BY DEF StatusInv, TaskInv, TypeOK, Spawned
<1>6. SerialInv'
  BY DEF SerialInv, PhaseInv, PipeInv, Born
<1>7. Bookkeeping'
  BY DEF Bookkeeping, PipeInv, Counted, Owned, Test
<1> QED BY <1>1, <1>2, <1>3, <1>4, <1>5, <1>6, <1>7

LEMMA SerialStartStep == ASSUME IInv, SerialStart PROVE IInv'
<1> USE DEF IInv, SerialStart, Goes, workerVars, masterVars, Parallel
<1>1. TypeOK'
  BY RunnerAssumption DEF TypeOK, PhaseInv, Test
<1>2. PhaseInv'
  BY DEF PhaseInv
<1>3. ASSUME NEW v \in Worker PROVE PipeInv(v)'
  BY <1>3 DEF PipeInv, TypeOK, Born
<1>4. ASSUME NEW v \in Worker PROVE TaskInv(v)'
  BY <1>4 DEF PhaseInv, PipeInv, Born, TaskInv, Owned
<1>5. StatusInv'
  BY DEF StatusInv, PhaseInv
<1>6. SerialInv'
  BY DEF SerialInv, TypeOK, Test
<1>7. Bookkeeping'
  BY DEF Bookkeeping, PhaseInv
<1> QED BY <1>1, <1>2, <1>3, <1>4, <1>5, <1>6, <1>7

LEMMA SerialFinishStep == ASSUME IInv, SerialFinish PROVE IInv'
<1> USE DEF IInv, SerialFinish, Goes, workerVars, masterVars, Parallel
<1>1. TypeOK'
  BY RunnerAssumption DEF TypeOK, PhaseInv, Test
<1>2. PhaseInv'
  BY DEF PhaseInv
<1>3. ASSUME NEW v \in Worker PROVE PipeInv(v)'
  BY <1>3 DEF PipeInv, Born
<1>4. ASSUME NEW v \in Worker PROVE TaskInv(v)'
  BY <1>4 DEF PhaseInv, PipeInv, Born, TaskInv, Owned
<1>5. StatusInv'
  BY DEF StatusInv, PhaseInv
<1>6. SerialInv'
  BY DEF SerialInv, TypeOK, Test
<1>7. Bookkeeping'
  BY DEF Bookkeeping, PhaseInv
<1> QED BY <1>1, <1>2, <1>3, <1>4, <1>5, <1>6, <1>7

LEMMA SerialCrashStep == ASSUME IInv, SerialCrash PROVE IInv'
<1> USE DEF IInv, SerialCrash, Goes, workerVars, masterVars, Parallel
<1>1. TypeOK'
  BY DEF TypeOK, PhaseInv
<1>2. PhaseInv'
  BY DEF PhaseInv
<1>3. ASSUME NEW v \in Worker PROVE PipeInv(v)'
  BY <1>3 DEF PipeInv, Born
<1>4. ASSUME NEW v \in Worker PROVE TaskInv(v)'
  BY <1>4 DEF PhaseInv, PipeInv, Born, TaskInv, Owned
<1>5. StatusInv'
  BY DEF StatusInv, PhaseInv
<1>6. SerialInv'
  BY DEF SerialInv
<1>7. Bookkeeping'
  BY DEF Bookkeeping, PhaseInv
<1> QED BY <1>1, <1>2, <1>3, <1>4, <1>5, <1>6, <1>7

LEMMA SerialEndStep == ASSUME IInv, SerialEnd PROVE IInv'
<1> USE DEF IInv, SerialEnd, Goes, workerVars, masterVars, Parallel
<1>1. TypeOK'
  BY DEF TypeOK, PhaseInv
<1>2. PhaseInv'
  BY DEF PhaseInv
<1>3. ASSUME NEW v \in Worker PROVE PipeInv(v)'
  BY <1>3 DEF PipeInv, Born
<1>4. ASSUME NEW v \in Worker PROVE TaskInv(v)'
  BY <1>4 DEF TaskInv, Owned
<1>5. StatusInv'
  BY DEF StatusInv, PhaseInv
<1>6. SerialInv'
  BY DEF SerialInv
<1>7. Bookkeeping'
  BY DEF Bookkeeping, PhaseInv
<1> QED BY <1>1, <1>2, <1>3, <1>4, <1>5, <1>6, <1>7

LEMMA SpawnStep == ASSUME IInv, Spawn PROVE IInv'
<1> USE DEF IInv, Spawn, Goes, workerVars, masterVars, Parallel
<1>1. TypeOK'
  BY RunnerAssumption DEF TypeOK, PhaseInv, Worker
<1>2. PhaseInv'
  BY DEF PhaseInv
<1>3. ASSUME NEW v \in Worker PROVE PipeInv(v)'
  BY <1>3 DEF PhaseInv, PipeInv, TypeOK, Born, Worker
<1>4. ASSUME NEW v \in Worker PROVE TaskInv(v)'
  BY <1>4 DEF PipeInv, TaskInv, Owned
<1>5. StatusInv'
  BY DEF StatusInv, Spawned
<1>6. SerialInv'
  BY DEF SerialInv
<1>7. Bookkeeping'
  BY DEF Bookkeeping, Counted, Owned
<1> QED BY <1>1, <1>2, <1>3, <1>4, <1>5, <1>6, <1>7

LEMMA SpawnEndStep == ASSUME IInv, SpawnEnd PROVE IInv'
<1> USE DEF IInv, SpawnEnd, Goes, workerVars, masterVars, Parallel
<1>1. TypeOK'
  BY DEF TypeOK, PhaseInv
<1>2. PhaseInv'
  BY DEF PhaseInv
<1>3. ASSUME NEW v \in Worker PROVE PipeInv(v)'
  BY <1>3 DEF PipeInv, Born
<1>4. ASSUME NEW v \in Worker PROVE TaskInv(v)'
  BY <1>4 DEF TaskInv, Owned
<1>5. StatusInv'
  BY DEF StatusInv, Spawned
<1>6. SerialInv'
  BY DEF SerialInv
<1>7. Bookkeeping'
  BY DEF Bookkeeping, Counted, Owned
<1> QED BY <1>1, <1>2, <1>3, <1>4, <1>5, <1>6, <1>7

LEMMA SelectStep == ASSUME IInv, Select PROVE IInv'
<1> USE DEF IInv, Select, Goes, workerVars, masterVars, Parallel, readable
<1>1. TypeOK'
  BY DEF TypeOK, Spawned
<1>2. PhaseInv'
  BY DEF PhaseInv
<1>3. ASSUME NEW v \in Worker PROVE PipeInv(v)'
  BY <1>3 DEF PipeInv, Born
<1>4. ASSUME NEW v \in Worker PROVE TaskInv(v)'
  BY <1>4 DEF TaskInv, Owned
<1>5. StatusInv'
  BY DEF StatusInv, TaskInv, Spawned
<1>6. SerialInv'
  BY DEF SerialInv
<1>7. Bookkeeping'
  BY DEF Bookkeeping, Counted, Owned
<1> QED BY <1>1, <1>2, <1>3, <1>4, <1>5, <1>6, <1>7

\* The worker gives up its test, which ended well, for the next one.
LEMMA HandleRequestStep == ASSUME IInv, NEW w \in Worker, HandleRequest(w) PROVE IInv'
<1> DEFINE x == IF moreTests THEN dispatched ELSE -1
<1>1. /\ mpc = "handle" /\ w \in ready /\ req[w] /\ resp[w] = << >> /\ open[w]
      /\ w \in Spawned /\ Parallel /\ wpc[w] # "unborn" /\ ~closed
  BY DEF IInv, HandleRequest, Turn, PipeInv, PhaseInv, TypeOK
<1>2. /\ x \in Test \cup {-1} /\ Append(<< >>, x) = << x >>
      /\ << x >> # << >> /\ Head(<< x >>) = x
      /\ x = -1 <=> dispatched = Total
  BY RunnerAssumption, OneNumber DEF IInv, TypeOK, moreTests, Test
<1>3. /\ ready' = ready \ {w}
      /\ mpc' = IF ready = {w} THEN "select" ELSE "handle"
      /\ req' = [req EXCEPT ![w] = FALSE]
      /\ first' = [first EXCEPT ![w] = FALSE]
      /\ passed' = IF first[w] THEN passed ELSE passed + 1
      /\ resp' = [resp EXCEPT ![w] = << x >>]
      /\ IF moreTests THEN dispatched' = dispatched + 1 /\ UNCHANGED <<open, exited>>
                      ELSE /\ open' = [open EXCEPT ![w] = FALSE]
                           /\ exited' = exited + 1 /\ UNCHANGED dispatched
      /\ UNCHANGED <<n_workers, wpc, task, status, spawned, closed, failed>>
  BY <1>1, <1>2 DEF IInv, HandleRequest, NextTurn, passedNow
<1> HIDE DEF x
<1>4. /\ moreTests => x = dispatched /\ dispatched < Total
      /\ ~moreTests => x = -1 /\ dispatched = Total
  BY <1>2 DEF IInv, moreTests, x
<1>5. /\ Owned(w) = IF first[w] THEN {} ELSE {task[w]}
      /\ ~first[w] => task[w] \in Test /\ status[task[w]] = "ok" /\ task[w] < dispatched
  BY <1>1 DEF IInv, TypeOK, TaskInv, Owned
<1>6. /\ Owned(w)' = {x} \ {-1}
      /\ \A v \in Worker \ {w} : Owned(v)' = Owned(v)
  BY <1>2, <1>3 DEF IInv, TypeOK, Owned
<1>7. Counted' = Counted \cup Owned(w)
  <2>1. \A t \in Test : t < dispatched' /\ t \notin Owned(w)' <=> t < dispatched
    BY <1>3, <1>4, <1>6 DEF IInv, TypeOK, Test
  <2>2. \A t \in Owned(w) : t \in Test /\ t < dispatched
    BY <1>5
  <2>3. \A v \in Worker \ {w} : Owned(v) \cap Owned(w) = {}
    BY <1>1 DEF IInv, Bookkeeping, Parallel
  <2> QED BY <1>6, <2>1, <2>2, <2>3 DEF Counted
<1>8. IsFiniteSet(Counted) /\ Counted \cap Owned(w) = {}
  BY CountedFinite DEF IInv, Counted
<1>9. passed' = Cardinality(Counted')
  <2>1. passed = Cardinality(Counted)
    BY <1>1 DEF IInv, Bookkeeping, Parallel
  <2>2. CASE first[w]
    <3>1. Counted' = Counted
      BY <1>5, <1>7, <2>2
    <3> QED BY <1>3, <2>1, <2>2, <3>1
  <2>3. CASE ~first[w]
    <3>1. Counted' = Counted \cup {task[w]} /\ task[w] \notin Counted
      BY <1>5, <1>7, <1>8, <2>3
    <3> QED BY <1>3, <1>8, <2>1, <2>3, <3>1, FS_AddElement
  <2> QED BY <2>2, <2>3
<1>10. passed' <= dispatched'
  <2>1. dispatched' \in Nat
    BY <1>3 DEF IInv, TypeOK
  <2>2. Counted' \in SUBSET (0 .. dispatched' - 1)
    BY <2>1 DEF Counted, Test
  <2>3. /\ IsFiniteSet(0 .. dispatched' - 1)
        /\ Cardinality(0 .. dispatched' - 1) = dispatched'
    BY <2>1, Below
  <2>4. Cardinality(Counted') <= Cardinality(0 .. dispatched' - 1)
    BY <2>2, <2>3, FS_Subset
  <2> QED BY <1>9, <2>3, <2>4
<1> DEFINE shut == {v \in Spawned : ~open[v]}
<1>11. /\ exited = Cardinality(shut) /\ IsFiniteSet(shut) /\ w \notin shut
       /\ exited \in Nat /\ exited < n_workers
  <2>1. exited = Cardinality(shut)
    BY <1>1 DEF IInv, StatusInv
  <2> QED BY <1>1, <2>1, ShutFinite DEF IInv, TypeOK
<1>12. exited' = Cardinality(shut') /\ exited' \in 0 .. n_workers
  <2>1. CASE moreTests
    <3>1. shut' = shut
      BY <1>3, <2>1 DEF Spawned
    <3> QED BY <1>3, <1>11, <2>1, <3>1 DEF IInv, TypeOK
  <2>2. CASE ~moreTests
    <3>1. Spawned' = Spawned /\ Spawned \subseteq Worker
      BY <1>3, RunnerAssumption DEF IInv, TypeOK, Spawned, Worker
    <3>2. open \in [Worker -> BOOLEAN] /\ open' = [open EXCEPT ![w] = FALSE]
      BY <1>3, <2>2 DEF IInv, TypeOK
    <3>3. shut' = shut \cup {w}
      BY <1>1, <3>1, <3>2
    <3> HIDE DEF shut
    <3>4. Cardinality(shut') = Cardinality(shut) + 1
      BY <1>11, <3>3, FS_AddElement
    <3> QED BY <1>3, <1>11, <2>2, <3>4 DEF IInv, TypeOK
  <2> QED BY <2>1, <2>2
<1> USE RunnerAssumption DEF IInv
<1>14. TypeOK'
  <2>1. resp' \in [Worker -> {<< >>} \cup {<<i>> : i \in Test \cup {-1}}]
    BY <1>2, <1>3 DEF TypeOK
  <2>2. /\ dispatched' \in 0 .. Total /\ passed' \in 0 .. dispatched'
    BY <1>3, <1>4, <1>10 DEF TypeOK
  <2>3. /\ ready' \subseteq Spawned' /\ mpc' \in {"select", "handle"}
        /\ open' \in [Worker -> BOOLEAN]
    BY <1>3 DEF TypeOK, Spawned
  <2> QED BY <1>3, <1>12, <2>1, <2>2, <2>3 DEF TypeOK
<1>15. PhaseInv'
  <2>1. mpc' # "handle" => ready' = {}
    BY <1>3
  <2>2. ASSUME NEW v \in ready' PROVE open'[v] /\ (req'[v] \/ wpc'[v] = "dead")
    <3>1. v \in ready /\ v # w /\ v \in Worker /\ w \in Worker
      BY <1>3, <2>2 DEF TypeOK, Worker
    <3>2. open[v] /\ (req[v] \/ wpc[v] = "dead")
      BY <3>1 DEF PhaseInv
    <3>3. open'[v] = open[v] /\ req'[v] = req[v] /\ wpc'[v] = wpc[v]
      BY <1>3, <3>1 DEF TypeOK
    <3> QED BY <3>2, <3>3
  <2> QED BY <1>1, <1>3, <2>1, <2>2 DEF PhaseInv, Parallel
<1>16. ASSUME NEW v \in Worker PROVE PipeInv(v)'
  <2>1. PipeInv(v) /\ TaskInv(v) /\ (mpc = "spawn" <=> mpc' = "spawn")
    BY <1>1, <1>3, <1>16
  <2>2. CASE v = w
    BY <1>1, <1>2, <1>3, <1>4, <2>1, <2>2 DEF PipeInv, TypeOK, Born, Parallel
  <2>3. CASE v # w
    BY <1>3, <1>4, <1>16, <2>1, <2>3 DEF PipeInv, TypeOK, Born, Parallel
  <2> QED BY <2>2, <2>3
<1>17. ASSUME NEW v \in Worker PROVE TaskInv(v)'
  <2>1. Owned(v)' \subseteq 0 .. dispatched' - 1
    BY <1>3, <1>4, <1>6, <1>17 DEF TaskInv, TypeOK
  <2>2. CASE v = w
    BY <1>1, <1>2, <1>3, <1>4, <2>1, <2>2 DEF PipeInv, TaskInv, TypeOK, StatusInv
  <2>3. CASE v # w
    BY <1>1, <1>3, <1>17, <2>1, <2>3 DEF TaskInv, TypeOK
  <2> QED BY <2>2, <2>3
<1>18. StatusInv'
  <2>1. \A t \in Test : t >= dispatched' => status[t] = "new"
    BY <1>1, <1>3, <1>4 DEF StatusInv, TypeOK, Test
  <2> QED BY <1>1, <1>3, <1>12, <2>1 DEF StatusInv
<1>19. SerialInv'
  BY <1>1, <1>3 DEF SerialInv
<1>20. Bookkeeping'
  <2>1. \A t \in Counted' : status'[t] = "ok"
    BY <1>1, <1>3, <1>5, <1>7 DEF Bookkeeping, Parallel
  <2>2. \A u, v \in Worker : u # v => Owned(u)' \cap Owned(v)' = {}
    <3>1. \A v \in Worker \ {w} : x \notin Owned(v) \/ x = -1
      BY <1>2, <1>4 DEF TaskInv
    <3> QED BY <1>1, <1>6, <3>1 DEF Bookkeeping, Parallel
  <2> QED BY <1>9, <2>1, <2>2 DEF Bookkeeping
<1> QED BY <1>14, <1>15, <1>16, <1>17, <1>18, <1>19, <1>20

LEMMA HandleEofStep == ASSUME IInv, NEW w \in Worker, HandleEof(w) PROVE IInv'
<1> USE DEF IInv, HandleEof, Goes, workerVars, masterVars, Parallel, Turn
<1>1. TypeOK'
  BY DEF TypeOK
<1>2. PhaseInv'
  BY DEF PhaseInv
<1>3. ASSUME NEW v \in Worker PROVE PipeInv(v)'
  BY <1>3 DEF PipeInv, Born
<1>4. ASSUME NEW v \in Worker PROVE TaskInv(v)'
  BY <1>4 DEF TaskInv, Owned
<1>5. StatusInv'
  BY DEF StatusInv, PhaseInv, TaskInv, TypeOK, Spawned
<1>6. SerialInv'
  BY DEF SerialInv
<1>7. Bookkeeping'
  BY DEF Bookkeeping, Counted, Owned
<1> QED BY <1>1, <1>2, <1>3, <1>4, <1>5, <1>6, <1>7

LEMMA AllExitedStep == ASSUME IInv, AllExited PROVE IInv'
<1> USE DEF IInv, AllExited, Goes, workerVars, masterVars, Parallel
<1>1. TypeOK'
  BY DEF TypeOK, PhaseInv
<1>2. PhaseInv'
  BY DEF PhaseInv
<1>3. ASSUME NEW v \in Worker PROVE PipeInv(v)'
  BY <1>3 DEF PipeInv, Born
<1>4. ASSUME NEW v \in Worker PROVE TaskInv(v)'
  BY <1>4 DEF TaskInv, Owned
<1>5. StatusInv'
  BY DEF StatusInv, Spawned
<1>6. SerialInv'
  BY DEF SerialInv
<1>7. Bookkeeping'
  BY DEF Bookkeeping, Counted, Owned
<1> QED BY <1>1, <1>2, <1>3, <1>4, <1>5, <1>6, <1>7

LEMMA ClosePipesStep == ASSUME IInv, ClosePipes PROVE IInv'
<1> USE DEF IInv, ClosePipes, Goes, workerVars, masterVars, Parallel
<1>1. TypeOK'
  BY DEF TypeOK, PhaseInv
<1>2. PhaseInv'
  BY DEF PhaseInv, TypeOK
<1>3. ASSUME NEW v \in Worker PROVE PipeInv(v)'
  BY <1>3 DEF PipeInv, Born
<1>4. ASSUME NEW v \in Worker PROVE TaskInv(v)'
  BY <1>4 DEF TaskInv, Owned
<1>5. StatusInv'
  BY DEF StatusInv, Spawned
<1>6. SerialInv'
  BY DEF SerialInv
<1>7. Bookkeeping'
  BY DEF Bookkeeping, Counted, Owned
<1> QED BY <1>1, <1>2, <1>3, <1>4, <1>5, <1>6, <1>7

LEMMA KillWorkerStep == ASSUME IInv, KillWorker PROVE IInv'
<1> USE DEF IInv, KillWorker, Goes, workerVars, masterVars, Parallel, killAllowed
<1>1. TypeOK'
  BY DEF TypeOK, PhaseInv
<1>2. PhaseInv'
  BY DEF PhaseInv
<1>3. ASSUME NEW v \in Worker PROVE PipeInv(v)'
  BY <1>3 DEF PipeInv, TypeOK, Born
<1>4. ASSUME NEW v \in Worker PROVE TaskInv(v)'
  BY <1>4, RunnerAssumption DEF PhaseInv, PipeInv, TaskInv, TypeOK, Owned, Bookkeeping, Worker
<1>5. StatusInv'
  BY RunnerAssumption DEF StatusInv, TaskInv, TypeOK, Spawned, Worker
<1>6. SerialInv'
  BY DEF SerialInv
<1>7. Bookkeeping'
  BY RunnerAssumption DEF Bookkeeping, PipeInv, TypeOK, Counted, Owned, Worker, Test
<1> QED BY <1>1, <1>2, <1>3, <1>4, <1>5, <1>6, <1>7

LEMMA ReapStep == ASSUME IInv, Reap PROVE IInv'
<1> USE DEF IInv, Reap, Goes, workerVars, masterVars, Parallel
<1>1. TypeOK'
  BY DEF TypeOK, PhaseInv
<1>2. PhaseInv'
  BY RunnerAssumption DEF PhaseInv, PipeInv, TypeOK
<1>3. ASSUME NEW v \in Worker PROVE PipeInv(v)'
  BY <1>3 DEF PipeInv, Born
<1>4. ASSUME NEW v \in Worker PROVE TaskInv(v)'
  BY <1>4 DEF TaskInv, Owned
<1>5. StatusInv'
  BY DEF StatusInv, TaskInv, Spawned
<1>6. SerialInv'
  BY DEF SerialInv
<1>7. Bookkeeping'
  BY DEF Bookkeeping, Counted, Owned
<1> QED BY <1>1, <1>2, <1>3, <1>4, <1>5, <1>6, <1>7

LEMMA ReturnStep == ASSUME IInv, Return PROVE IInv'
<1> USE DEF IInv, Return, Goes, workerVars, masterVars, Parallel
<1>1. TypeOK'
  BY DEF TypeOK, PhaseInv
<1>2. PhaseInv'
  BY DEF PhaseInv
<1>3. ASSUME NEW v \in Worker PROVE PipeInv(v)'
  BY <1>3 DEF PipeInv, Born
<1>4. ASSUME NEW v \in Worker PROVE TaskInv(v)'
  BY <1>4 DEF TaskInv, Owned
<1>5. StatusInv'
  BY DEF StatusInv, Spawned
<1>6. SerialInv'
  BY DEF SerialInv
<1>7. Bookkeeping'
  BY DEF Bookkeeping, Counted, Owned
<1> QED BY <1>1, <1>2, <1>3, <1>4, <1>5, <1>6, <1>7

-----------------------------------------------------------------------------
LEMMA Initially == ASSUME Init PROVE IInv
<1> USE RunnerAssumption DEF Init
<1>1. TypeOK /\ PhaseInv
  BY DEF TypeOK, PhaseInv, Spawned, Worker, Parallel
<1>2. ASSUME NEW w \in Worker PROVE PipeInv(w) /\ TaskInv(w)
  <2>1. /\ wpc[w] = "unborn" /\ task[w] = -1 /\ ~req[w] /\ resp[w] = << >> /\ first[w]
    BY <1>2
  <2>2. open[w] = (w < n_workers) /\ open = [v \in Worker |-> v < n_workers]
    BY <1>2, Zenon
  <2>3. 0 <= w /\ n_workers \in Nat \ {0}
    BY <1>2 DEF Worker
  <2>4. ~Born(w) /\ Owned(w) = {} /\ resp[w] # << -1 >>
    BY <2>1, <2>3, OneNumber DEF Born, Parallel, Owned, Worker
  <2> QED BY <2>1, <2>2, <2>3, <2>4 DEF PipeInv, TaskInv
<1>3. SerialInv
  BY DEF SerialInv, Test
<1>4. Counted = {} /\ {w \in Spawned : ~open[w]} = {}
  <2>1. \A w \in Spawned : w \in Worker /\ w < n_workers
    BY DEF Spawned, Worker
  <2>2. \A w \in Spawned : open[w]
    BY <2>1
  <2> QED BY <2>2 DEF Counted, Test
<1>5. Bookkeeping
  BY <1>4, FS_EmptySet DEF Bookkeeping, Owned
<1>6. StatusInv
  BY <1>4, FS_EmptySet DEF StatusInv, Test
<1> QED BY <1>1, <1>2, <1>3, <1>5, <1>6 DEF IInv

LEMMA Inductive == ASSUME IInv, [Next]_vars PROVE IInv'
<1>1. ASSUME NEW w \in Worker, WorkerStep(w) \/ TestEnds(w) PROVE IInv'
  BY <1>1, AskStep, ReceiveStep, ReceiveEofStep, ExitStep, FinishStep, CrashStep
     DEF WorkerStep, TestEnds
<1>2. CASE Serial \/ SerialTestEnds
  BY <1>2, SerialStartStep, SerialFinishStep, SerialCrashStep, SerialEndStep
     DEF Serial, SerialTestEnds
<1>3. ASSUME NEW w \in Worker, HandleRequest(w) \/ HandleEof(w) PROVE IInv'
  BY <1>3, HandleRequestStep, HandleEofStep
<1>4. CASE Master
  BY <1>3, <1>4, SpawnStep, SpawnEndStep, SelectStep, AllExitedStep, ClosePipesStep,
     KillWorkerStep, ReapStep, ReturnStep DEF Master
<1>5. CASE UNCHANGED vars
  BY <1>5 DEF vars, workerVars, masterVars, IInv, TypeOK, PhaseInv, PipeInv, TaskInv, StatusInv,
     SerialInv, Bookkeeping, Parallel, Born, Owned, Counted, Spawned
<1> QED BY <1>1, <1>2, <1>4, <1>5 DEF Next

\* The inductive invariant of the processes and their pipes, for any number of
\* workers and tests.  (testbench.cpp:50-199)
THEOREM RunnerInvariance == Spec => []IInv
<1>1. Init => IInv
  BY Initially
<1>2. IInv /\ [Next]_vars => IInv'
  BY Inductive
<1> QED BY <1>1, <1>2, PTL DEF Spec

\* The master never counts a test that did not end well or that a worker still
\* owes, and never gives a test to two workers.  (testbench.cpp:151-163)
THEOREM BooksAreRight == Spec => []Bookkeeping
<1>1. IInv => Bookkeeping
  BY DEF IInv
<1> QED BY <1>1, RunnerInvariance, PTL

-----------------------------------------------------------------------------
\* When the master has reaped every worker nothing runs any more.
LEMMA AllDead ==
  ASSUME IInv, mpc = "reap", spawned = n_workers
  PROVE  \A w \in Worker : wpc[w] # "run"
BY RunnerAssumption DEF IInv, PhaseInv, PipeInv, Born, Parallel, TypeOK, Worker

\* A run in which no test crashed has told every worker that the list is at its end.
LEMMA ListAtEnd ==
  ASSUME IInv, mpc = "reap", \A t \in Test : status[t] # "crashed"
  PROVE  Counted = Test
<1>1. Parallel /\ ~failed /\ exited = n_workers
  BY DEF IInv, PhaseInv, StatusInv
<1>2. \A w \in Worker : w < n_workers => ~open[w]
  <2>1. \A w \in Spawned : ~open[w]
    BY <1>1, ShutFinite DEF IInv, StatusInv
  <2> QED BY <2>1, RunnerAssumption DEF IInv, TypeOK, Spawned, Worker
<1>3. dispatched = Total
  BY <1>1, <1>2, RunnerAssumption DEF IInv, TypeOK, PipeInv, Parallel, Worker
<1>4. \A w \in Worker : Owned(w) = {}
  <2>1. ASSUME NEW w \in Worker, resp[w] # << >> PROVE Owned(w) = {}
    <3>1. resp[w] = << -1 >>
      BY <1>2, <2>1 DEF IInv, PipeInv, Born, Parallel
    <3> QED BY <3>1, OneNumber DEF Owned
  <2>2. ASSUME NEW w \in Worker, resp[w] = << >> PROVE Owned(w) = {}
    BY <1>2, <2>2 DEF IInv, PipeInv, Born, Parallel, Owned
  <2> QED BY <2>1, <2>2
<1> QED BY <1>3, <1>4, RunnerAssumption DEF Counted, Test

LEMMA PoolCardinality == \A S : Pool!Cardinality(S) = Cardinality(S)
BY DEF Pool!Cardinality, Cardinality

\* The number the master returns is the one TestPool allows it to announce.
LEMMA ReturnAnnounces == ASSUME IInv, Return PROVE Pool!Announce
<1>1. /\ mpc = "reap" /\ spawned = n_workers /\ mpc' = "done"
      /\ UNCHANGED <<status, passed>> /\ Parallel
  BY DEF IInv, PhaseInv, Return, workerVars
<1>2. Pool!TestsThatAre("running") = {}
  BY <1>1, AllDead DEF IInv, StatusInv, Pool!TestsThatAre, Pool!Test, Test
<1>3. /\ passed = Cardinality(Counted) /\ IsFiniteSet(Counted) /\ passed \in Nat
      /\ Counted \subseteq Pool!TestsThatAre("ok")
  BY <1>1, CountedFinite
     DEF IInv, Bookkeeping, Parallel, Counted, Pool!TestsThatAre, Pool!Test, Test
<1>4. CASE Pool!TestsThatAre("crashed") = {}
  <2>1. Counted = Test /\ Cardinality(Test) = Total
    BY <1>1, <1>4, ListAtEnd, Below, RunnerAssumption DEF Pool!TestsThatAre, Pool!Test, Test
  <2>2. Pool!TestsThatAre("ok") = Pool!Test
    BY <1>3, <2>1 DEF Pool!TestsThatAre, Pool!Test, Test
  <2> QED BY <1>1, <1>2, <1>3, <1>4, <2>1, <2>2 DEF Pool!Announce
<1>5. CASE Pool!TestsThatAre("crashed") # {}
  <2>1. /\ Pool!TestsThatAre("ok") \in SUBSET Test /\ IsFiniteSet(Test)
    BY RunnerAssumption, Below DEF Pool!TestsThatAre, Pool!Test, Test
  <2>2. /\ IsFiniteSet(Pool!TestsThatAre("ok"))
        /\ Cardinality(Pool!TestsThatAre("ok")) \in Nat
    BY <2>1, FS_Subset, FS_CardinalityType
  <2>3. passed <= Cardinality(Pool!TestsThatAre("ok"))
    BY <1>3, <2>2, FS_Subset
  <2>4. passed' \in 0 .. Pool!Cardinality(Pool!TestsThatAre("ok"))
    BY <1>1, <1>3, <2>2, <2>3, PoolCardinality
  <2> QED BY <1>1, <1>2, <1>5, <2>4 DEF Pool!Announce
<1> QED BY <1>4, <1>5

LEMMA SerialEndAnnounces == ASSUME IInv, SerialEnd PROVE Pool!Announce
<1>1. \A t \in Test : status[t] = "ok"
  BY RunnerAssumption DEF IInv, TypeOK, SerialInv, SerialEnd, Test
<1>2. /\ Pool!TestsThatAre("running") = {} /\ Pool!TestsThatAre("crashed") = {}
      /\ Pool!TestsThatAre("ok") = Pool!Test
  BY <1>1 DEF Pool!TestsThatAre, Pool!Test, Test
<1> QED BY <1>2, RunnerAssumption DEF SerialEnd, workerVars, Pool!Announce

LEMMA WorkerStepMaps ==
  ASSUME IInv, NEW w \in Worker, WorkerStep(w) \/ TestEnds(w)
  PROVE  [Pool!PoolNext]_<<status, IF mpc = "done" THEN passed ELSE -1>>
<1>1. UNCHANGED (IF mpc = "done" THEN passed ELSE -1)
  BY DEF WorkerStep, TestEnds, Ask, Receive, ReceiveEof, Exit, Finish, Crash, masterVars
<1>2. CASE Ask(w) \/ ReceiveEof(w) \/ Exit(w)
  BY <1>1, <1>2 DEF Ask, ReceiveEof, Exit
<1>3. CASE Receive(w)
  <2>1. PICK i \in Test \cup {-1} : resp[w] = << i >> /\ Head(resp[w]) = i
    BY <1>3, PipeHolds DEF IInv, Receive
  <2>2. i # -1 => i \in Pool!Test /\ status[i] = "new"
    BY <1>3, <2>1 DEF IInv, TaskInv, Receive, Pool!Test, Test
  <2>3. i # -1 => Pool!Becomes(i, "new", "running")
    BY <1>1, <1>3, <2>1, <2>2, RunnerAssumption DEF Receive, Pool!Becomes, Pool!Test
  <2> QED BY <1>1, <1>3, <2>1, <2>2, <2>3 DEF Receive, Pool!PoolNext
<1>4. CASE Finish(w) \/ Crash(w)
  <2>1. task[w] \in Pool!Test /\ status[task[w]] = "running"
    BY <1>4 DEF IInv, TypeOK, TaskInv, Finish, Crash, Goes, Pool!Test, Test
  <2>2. \/ Pool!Becomes(task[w], "running", "ok")
        \/ Pool!Becomes(task[w], "running", "crashed")
    BY <1>1, <1>4, <2>1 DEF Finish, Crash, Pool!Becomes
  <2> QED BY <2>1, <2>2 DEF Pool!PoolNext
<1> QED BY <1>2, <1>3, <1>4 DEF WorkerStep, TestEnds

LEMMA SerialStepMaps ==
  ASSUME IInv, Serial \/ SerialTestEnds
  PROVE  [Pool!PoolNext]_<<status, IF mpc = "done" THEN passed ELSE -1>>
<1>1. CASE SerialStart
  <2>1. dispatched \in Pool!Test /\ Pool!Becomes(dispatched, "new", "running")
    BY <1>1, RunnerAssumption
       DEF IInv, TypeOK, SerialInv, SerialStart, Pool!Becomes, Pool!Test, Test
  <2> QED BY <2>1 DEF Pool!PoolNext
<1>2. CASE SerialFinish \/ SerialCrash
  <2>1. passed \in Pool!Test /\ status[passed] = "running"
    BY <1>2, RunnerAssumption
       DEF IInv, TypeOK, SerialInv, SerialFinish, SerialCrash, Pool!Test, Test
  <2>2. \/ Pool!Becomes(passed, "running", "ok")
        \/ Pool!Becomes(passed, "running", "crashed")
    BY <1>2, <2>1 DEF SerialFinish, SerialCrash, Pool!Becomes
  <2> QED BY <2>1, <2>2 DEF Pool!PoolNext
<1>3. CASE SerialEnd
  BY <1>3, SerialEndAnnounces DEF Pool!PoolNext
<1> QED BY <1>1, <1>2, <1>3 DEF Serial, SerialTestEnds

LEMMA MasterStepMaps ==
  ASSUME IInv, Master
  PROVE  [Pool!PoolNext]_<<status, IF mpc = "done" THEN passed ELSE -1>>
<1>1. CASE Return
  BY <1>1, ReturnAnnounces DEF Pool!PoolNext
<1>2. CASE KillWorker
  <2>1. CASE wpc[spawned] = "run"
    <3>1. spawned \in Worker
      BY <1>2, RunnerAssumption DEF IInv, TypeOK, KillWorker, Worker
    <3>2. task[spawned] \in Pool!Test /\ status[task[spawned]] = "running"
      BY <2>1, <3>1 DEF IInv, TypeOK, TaskInv, Pool!Test, Test
    <3>3. Pool!TestsThatAre("crashed") # {}
      BY <1>2 DEF IInv, StatusInv, PhaseInv, KillWorker, killAllowed, Pool!TestsThatAre,
         Pool!Test, Test
    <3>4. Pool!Kill(task[spawned])
      BY <1>2, <2>1, <3>2, <3>3 DEF KillWorker, masterVars, Pool!Kill, Pool!Becomes
    <3> QED BY <3>2, <3>4 DEF Pool!PoolNext
  <2>2. CASE wpc[spawned] # "run"
    BY <1>2, <2>2 DEF KillWorker, masterVars
  <2> QED BY <2>1, <2>2
<1>3. ASSUME NEW w \in Worker, HandleRequest(w) \/ HandleEof(w)
      PROVE  UNCHANGED <<status, IF mpc = "done" THEN passed ELSE -1>>
  BY <1>3 DEF HandleRequest, HandleEof, Turn, NextTurn, workerVars
<1>4. CASE Spawn \/ SpawnEnd \/ Select \/ AllExited \/ ClosePipes \/ Reap
  BY <1>4 DEF Spawn, SpawnEnd, Select, AllExited, ClosePipes, Reap, workerVars
<1> QED BY <1>1, <1>2, <1>3, <1>4 DEF Master

\* However the tests are spread over processes and whichever of them crash,
\* each is started at most once, and the number returned is that of the list or,
\* after a crash, counts only tests that ended well.  (testbench.cpp:34-199)
THEOREM RunnerImplementsPool == Spec => ImplementsPool
<1>1. Init => Pool!PoolInit
  BY RunnerAssumption DEF Init, Pool!PoolInit, Pool!Test, Test
<1>2. IInv /\ [Next]_vars => [Pool!PoolNext]_Pool!poolVars
  <2> SUFFICES ASSUME IInv, [Next]_vars
               PROVE  [Pool!PoolNext]_<<status, IF mpc = "done" THEN passed ELSE -1>>
    BY DEF Pool!poolVars
  <2>1. CASE \E w \in Worker : WorkerStep(w) \/ TestEnds(w)
    BY <2>1, WorkerStepMaps
  <2>2. CASE Serial \/ SerialTestEnds
    BY <2>2, SerialStepMaps
  <2>3. CASE Master
    BY <2>3, MasterStepMaps
  <2>4. CASE UNCHANGED vars
    BY <2>4 DEF vars, workerVars, masterVars
  <2> QED BY <2>1, <2>2, <2>3, <2>4 DEF Next
<1> QED BY <1>1, <1>2, RunnerInvariance, PTL DEF Spec, ImplementsPool, Pool!PoolSpec
=============================================================================
