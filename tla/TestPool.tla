------------------------------- MODULE TestPool ------------------------------
(***************************************************************************)
(* What run_testbench promises of a list of tests, however many processes  *)
(* run them: a test is started at most once, and a total is announced only *)
(* when nothing runs any more.  If no test crashed the total is that of    *)
(* the list; otherwise it counts some of the tests that ended well.        *)
(***************************************************************************)
EXTENDS Integers, FiniteSets

CONSTANTS Total         \* length of test_list

Test == 0 .. Total - 1

VARIABLES
  status,   \* what became of each test
  result    \* the announced number of passed tests, -1 before

poolVars == <<status, result>>

TestsThatAre(s) == {t \in Test : status[t] = s}

PoolInit == status = [t \in Test |-> "new"] /\ result = -1

Becomes(t, from, to) ==
  /\ status[t] = from
  /\ status' = [status EXCEPT ![t] = to]
  /\ UNCHANGED result

Kill(t) == TestsThatAre("crashed") # {} /\ Becomes(t, "running", "killed")

Announce ==
  /\ result = -1
  /\ TestsThatAre("running") = {}
  /\ IF TestsThatAre("crashed") = {}
     THEN TestsThatAre("ok") = Test /\ result' = Total
     ELSE result' \in 0 .. Cardinality(TestsThatAre("ok"))
  /\ UNCHANGED status

PoolNext ==
  \/ \E t \in Test : \/ Becomes(t, "new", "running")
                     \/ Becomes(t, "running", "ok")
                     \/ Becomes(t, "running", "crashed")
                     \/ Kill(t)
  \/ Announce

PoolSpec == PoolInit /\ [][PoolNext]_poolVars
=============================================================================
