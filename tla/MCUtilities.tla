----------------------------- MODULE MCUtilities ----------------------------
(***************************************************************************)
(* The utilities of the harness for TLC: ThreadWorker objects, and a list  *)
(* of tests run one after the other with the log.  They share nothing, so  *)
(* one run explores each by itself: what moves is chosen at the start.     *)
(* (The two threads that run_serial makes are in Testbench by themselves.) *)
(***************************************************************************)
EXTENDS ThreadWorker, Sequences

CONSTANTS Tests, NewLines, Nuls, LOG_MAX_BUFFER_SIZE

VARIABLES
  part,
  mpc, test, plugin, defer_list,
  log_enabled, debug_enabled, status_enabled, in_status_line, char_buffer,
  wpc, told, undone, notified, err, line, stale

Bench == INSTANCE Testbench WITH raised <- told

benchVars == <<mpc, test, plugin, defer_list, log_enabled, debug_enabled, status_enabled,
               in_status_line, char_buffer, wpc, told, undone, notified, err, line, stale>>
utilVars == <<part, vars, benchVars>>

\* One test that skips itself after a plugin, one that writes, one with plugins, one
\* that writes after it.
SomeTests == << [plugins |-> <<"DEBUG", "SKIP", "LOG">>, chars |-> 0],
                [plugins |-> << >>, chars |-> 3],
                [plugins |-> <<"LOG", "DEBUG">>, chars |-> 2],
                [plugins |-> << >>, chars |-> 1] >>

\* A buffer that holds something; tests as the macros describe them; a character is a
\* newline, a NUL or neither.
ASSUME BenchAssumption ==
  /\ LOG_MAX_BUFFER_SIZE \in Nat \ {0}
  /\ NewLines \subseteq Nat /\ Nuls \subseteq Nat /\ NewLines \cap Nuls = {}
  /\ Tests \in Seq([plugins : Seq(STRING), chars : Nat])

UtilInit == part \in {"workers", "tests"} /\ Init /\ Bench!Init

InWorkers(step) == part = "workers" /\ step /\ UNCHANGED <<part, benchVars>>
InBench(step) == part = "tests" /\ step /\ UNCHANGED <<part, vars>>

\* Threads are scheduled and the functions given to them return.
UtilSpec ==
  /\ UtilInit /\ [][InWorkers(Next) \/ InBench(Bench!Next)]_utilVars
  /\ \A t \in Thread : WF_utilVars(InWorkers(ThreadStep(t)))

\* What the tests and the log promise (Testbench).
HooksUndone == Bench!HooksUndone
LogKept == Bench!LogKept
=============================================================================
