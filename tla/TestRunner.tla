------------------------------ MODULE TestRunner -----------------------------
(***************************************************************************)
(* run_testbench of testbench.cpp: the tests run one after the other in    *)
(* this process, or in processes that ask for the next test over a pipe    *)
(* and are told its number over another.                                   *)
(*                                                                         *)
(* A pipe is at its end when every process that holds its writing end has  *)
(* closed it or died.  The writing end towards the master is held by the   *)
(* worker alone.  The one towards worker w is held by the master and, as   *)
(* fork copies every open descriptor, by each worker spawned after w.      *)
(***************************************************************************)
EXTENDS Integers, Sequences, FiniteSets

CONSTANTS
  MaxWorkers,   \* bound on n_workers, the option -j
  Total         \* length of test_list

ASSUME RunnerAssumption == MaxWorkers \in Nat \ {0} /\ Total \in Nat

Worker == 0 .. MaxWorkers - 1
Test == 0 .. Total - 1

VARIABLES
  n_workers,
  status,       \* of each test: new, running, ok, crashed or killed
  wpc,          \* where each worker is in run_worker
  task,         \* the test a worker was told to run
  req, resp,    \* contents of the pipes: a request is waiting; numbers sent
  mpc,          \* where the master is in run_testbench
  spawned,      \* workers spawned, later workers reaped
  ready,        \* what select returned and has not been looked at
  open,         \* worker[j] >= 0
  closed,       \* the master has closed its ends of the pipes to the workers
  first, dispatched, exited, passed, failed

workerVars == <<wpc, task, req, resp, status>>
masterVars == <<mpc, spawned, ready, open, closed, first, dispatched, exited, passed, failed>>
vars == <<n_workers, workerVars, masterVars>>

Spawned == 0 .. n_workers - 1

Init ==
  /\ n_workers \in 1 .. MaxWorkers
  /\ status = [t \in Test |-> "new"]
  /\ wpc = [w \in Worker |-> "unborn"]
  /\ task = [w \in Worker |-> -1]
  /\ req = [w \in Worker |-> FALSE]
  /\ resp = [w \in Worker |-> << >>]
  /\ mpc = IF n_workers = 1 THEN "serial" ELSE "spawn"
  /\ spawned = 0 /\ ready = {} /\ closed = FALSE
  /\ open = [w \in Worker |-> w < n_workers]
  /\ first = [w \in Worker |-> TRUE]
  /\ dispatched = 0 /\ exited = 0 /\ passed = 0 /\ failed = FALSE

-----------------------------------------------------------------------------
(* run_serial: dispatched is the loop's index and passed its count. *)

SerialStart ==
  /\ mpc = "serial" /\ dispatched < Total /\ dispatched = passed
  /\ status' = [status EXCEPT ![dispatched] = "running"]
  /\ dispatched' = dispatched + 1
  /\ UNCHANGED <<n_workers, wpc, task, req, resp, mpc, spawned, ready, open, closed,
                 first, exited, passed, failed>>

SerialFinish ==
  /\ mpc = "serial" /\ dispatched = passed + 1
  /\ status' = [status EXCEPT ![passed] = "ok"]
  /\ passed' = passed + 1
  /\ UNCHANGED <<n_workers, wpc, task, req, resp, mpc, spawned, ready, open, closed,
                 first, dispatched, exited, failed>>

\* The test takes the whole program with it.
SerialCrash ==
  /\ mpc = "serial" /\ dispatched = passed + 1
  /\ status' = [status EXCEPT ![passed] = "crashed"]
  /\ mpc' = "aborted"
  /\ UNCHANGED <<n_workers, wpc, task, req, resp, spawned, ready, open, closed, first,
                 dispatched, exited, passed, failed>>

SerialEnd ==
  /\ mpc = "serial" /\ passed = Total
  /\ mpc' = "done"
  /\ UNCHANGED <<n_workers, workerVars, spawned, ready, open, closed, first, dispatched,
                 exited, passed, failed>>

-----------------------------------------------------------------------------
(* run_worker *)

Goes(w, from, to) == wpc[w] = from /\ wpc' = [wpc EXCEPT ![w] = to]

Ask(w) ==
  /\ Goes(w, "ask", "wait")
  /\ req' = [req EXCEPT ![w] = TRUE]
  /\ UNCHANGED <<n_workers, task, resp, status, masterVars>>

Receive(w) ==
  /\ resp[w] # << >>
  /\ Goes(w, "wait", IF Head(resp[w]) < 0 THEN "quit" ELSE "run")
  /\ resp' = [resp EXCEPT ![w] = Tail(@)]
  /\ task' = [task EXCEPT ![w] = Head(resp[w])]
  /\ status' = IF Head(resp[w]) < 0 THEN status
               ELSE [status EXCEPT ![Head(resp[w])] = "running"]
  /\ UNCHANGED <<n_workers, req, masterVars>>

AtEnd(w) == resp[w] = << >> /\ closed /\ \A k \in Spawned : k > w => wpc[k] = "dead"

ReceiveEof(w) ==
  /\ AtEnd(w)
  /\ Goes(w, "wait", "quit")
  /\ UNCHANGED <<n_workers, task, req, resp, status, masterVars>>

Finish(w) ==
  /\ Goes(w, "run", "ask")
  /\ status' = [status EXCEPT ![task[w]] = "ok"]
  /\ UNCHANGED <<n_workers, task, req, resp, masterVars>>

Crash(w) ==
  /\ Goes(w, "run", "dead")
  /\ status' = [status EXCEPT ![task[w]] = "crashed"]
  /\ UNCHANGED <<n_workers, task, req, resp, masterVars>>

Exit(w) ==
  /\ Goes(w, "quit", "dead")
  /\ UNCHANGED <<n_workers, task, req, resp, status, masterVars>>

-----------------------------------------------------------------------------
(* run_parallel *)

Spawn ==
  /\ mpc = "spawn" /\ spawned < n_workers
  /\ Goes(spawned, "unborn", "ask")
  /\ spawned' = spawned + 1
  /\ UNCHANGED <<n_workers, status, task, req, resp, mpc, ready, open, closed, first,
                 dispatched, exited, passed, failed>>

SpawnEnd ==
  /\ mpc = "spawn" /\ spawned = n_workers
  /\ mpc' = "select"
  /\ UNCHANGED <<n_workers, workerVars, spawned, ready, open, closed, first, dispatched,
                 exited, passed, failed>>

\* Mutant: the master keeps its own copy of the writing end.
readableIfAsked(w) == open[w] /\ req[w]

readable(w) == open[w] /\ (req[w] \/ wpc[w] = "dead")

Select ==
  /\ mpc = "select" /\ exited < n_workers
  /\ \E w \in Spawned : readable(w)
  /\ ready' = {w \in Spawned : readable(w)}
  /\ mpc' = "handle"
  /\ UNCHANGED <<n_workers, workerVars, spawned, open, closed, first, dispatched, exited,
                 passed, failed>>

\* The loop over the workers: the smallest index that is still to be looked at.
Turn(j) == mpc = "handle" /\ j \in ready /\ \A k \in ready : j <= k

NextTurn(j) ==
  /\ ready' = ready \ {j}
  /\ mpc' = IF ready = {j} THEN "select" ELSE "handle"

\* Mutant: the first request of a worker counts as a test passed.
passedNowAlways(j) == passed + 1

passedNow(j) == IF first[j] THEN passed ELSE passed + 1

moreTests == dispatched < Total

HandleRequest(j) ==
  /\ Turn(j) /\ req[j]
  /\ NextTurn(j)
  /\ req' = [req EXCEPT ![j] = FALSE]
  /\ first' = [first EXCEPT ![j] = FALSE]
  /\ passed' = passedNow(j)
  /\ IF moreTests
     THEN /\ resp' = [resp EXCEPT ![j] = Append(@, dispatched)]
          /\ dispatched' = dispatched + 1
          /\ UNCHANGED <<open, exited>>
     ELSE /\ resp' = [resp EXCEPT ![j] = Append(@, -1)]
          /\ open' = [open EXCEPT ![j] = FALSE]
          /\ exited' = exited + 1
          /\ UNCHANGED dispatched
  /\ UNCHANGED <<n_workers, wpc, task, status, spawned, closed, failed>>

HandleEof(j) ==
  /\ Turn(j) /\ ~req[j]
  /\ failed' = TRUE /\ ready' = {} /\ mpc' = "close"
  /\ UNCHANGED <<n_workers, workerVars, spawned, open, closed, first, dispatched, exited,
                 passed>>

AllExited ==
  /\ mpc = "select" /\ exited = n_workers
  /\ mpc' = "close"
  /\ UNCHANGED <<n_workers, workerVars, spawned, ready, open, closed, first, dispatched,
                 exited, passed, failed>>

ClosePipes ==
  /\ mpc = "close"
  /\ closed' = TRUE /\ spawned' = 0 /\ mpc' = "reap"
  /\ UNCHANGED <<n_workers, workerVars, ready, open, first, dispatched, exited, passed,
                 failed>>

\* Mutant: wait for the worker whatever it does.
killAllowedNever == FALSE

killAllowed == failed

KillWorker ==
  /\ mpc = "reap" /\ spawned < n_workers /\ killAllowed
  /\ wpc[spawned] # "dead"
  /\ wpc' = [wpc EXCEPT ![spawned] = "dead"]
  /\ status' = IF wpc[spawned] = "run" THEN [status EXCEPT ![task[spawned]] = "killed"]
               ELSE status
  /\ UNCHANGED <<n_workers, task, req, resp, masterVars>>

\* Mutant: look at the worker without waiting for its end (WNOHANG).
ReapAtOnce ==
  /\ mpc = "reap" /\ spawned < n_workers
  /\ spawned' = spawned + 1
  /\ UNCHANGED <<n_workers, workerVars, mpc, ready, open, closed, first, dispatched, exited,
                 passed, failed>>

Reap ==
  /\ mpc = "reap" /\ spawned < n_workers
  /\ wpc[spawned] = "dead"
  /\ spawned' = spawned + 1
  /\ UNCHANGED <<n_workers, workerVars, mpc, ready, open, closed, first, dispatched, exited,
                 passed, failed>>

Return ==
  /\ mpc = "reap" /\ spawned = n_workers
  /\ mpc' = "done"
  /\ UNCHANGED <<n_workers, workerVars, spawned, ready, open, closed, first, dispatched,
                 exited, passed, failed>>

Ended == mpc \in {"done", "aborted"}

-----------------------------------------------------------------------------
WorkerStep(w) == Ask(w) \/ Receive(w) \/ ReceiveEof(w) \/ Exit(w)
TestEnds(w) == Finish(w) \/ Crash(w)
Serial == SerialStart \/ SerialEnd
SerialTestEnds == SerialFinish \/ SerialCrash
Master ==
  \/ Spawn \/ SpawnEnd \/ Select \/ AllExited
  \/ \E j \in Worker : HandleRequest(j) \/ HandleEof(j)
  \/ ClosePipes \/ KillWorker \/ Reap \/ Return

Next ==
  \/ \E w \in Worker : WorkerStep(w) \/ TestEnds(w)
  \/ Serial \/ SerialTestEnds
  \/ Master

Spec == Init /\ [][Next]_vars

\* The processes are scheduled; nothing is assumed of the tests they run.
FairSpec ==
  /\ Spec
  /\ WF_vars(Master) /\ WF_vars(Serial)
  /\ \A w \in Worker : WF_vars(WorkerStep(w))

-----------------------------------------------------------------------------
TypeOK ==
  /\ n_workers \in 1 .. MaxWorkers
  /\ status \in [Test -> {"new", "running", "ok", "crashed", "killed"}]
  /\ wpc \in [Worker -> {"unborn", "ask", "wait", "run", "quit", "dead"}]
  /\ task \in [Worker -> Test \cup {-1}]
  /\ req \in [Worker -> BOOLEAN]
  /\ resp \in [Worker -> {<< >>} \cup {<<i>> : i \in Test \cup {-1}}]
  /\ mpc \in {"serial", "spawn", "select", "handle", "close", "reap", "done", "aborted"}
  /\ spawned \in 0 .. n_workers
  /\ ready \subseteq Spawned
  /\ open \in [Worker -> BOOLEAN] /\ first \in [Worker -> BOOLEAN]
  /\ closed \in BOOLEAN /\ failed \in BOOLEAN
  /\ dispatched \in 0 .. Total /\ passed \in 0 .. dispatched
  /\ exited \in 0 .. n_workers

\* What a worker was given and its next request has not yet paid for.
Owned(w) == (IF resp[w] # << >> THEN {Head(resp[w])} ELSE {task[w]}) \ {-1}
Counted == {t \in Test : t < dispatched /\ \A w \in Worker : t \notin Owned(w)}

\* The loop counts a test when its worker comes back for more: at every moment
\* of a parallel run the tests counted are those that ended well and whose
\* worker was heard again, and no test is in the hands of two workers.
\* (testbench.cpp:151-163)
Bookkeeping ==
  n_workers > 1 =>
    /\ passed = Cardinality(Counted)
    /\ \A t \in Counted : status[t] = "ok"
    /\ \A v, w \in Worker : v # w => Owned(v) \cap Owned(w) = {}

\* run_testbench keeps the promise of TestPool.
Pool == INSTANCE TestPool WITH result <- IF mpc = "done" THEN passed ELSE -1
ImplementsPool == Pool!PoolSpec

\* A worker that dies in a test ends the run, even if the tests of all other
\* workers never end.  (testbench.cpp:151, 184-197)
CrashEndsRun == (\E t \in Test : status[t] = "crashed") ~> Ended

\* If no test runs for ever the run ends: no worker and not the master waits
\* for a message that nobody will send.  (testbench.cpp:66, 139, 197)
RunEnds ==
  (/\ []<>(\A t \in Test : n_workers = 1 => status[t] # "running")
   /\ \A w \in Worker : []<>(wpc[w] # "run")) => <>Ended
=============================================================================
