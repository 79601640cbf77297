----------------------------- MODULE ThreadWorker ----------------------------
(***************************************************************************)
(* ThreadWorker (common.cpp:292-382): objects that own a detached thread   *)
(* through a flag on the heap.  The object asks the thread to end by       *)
(* setting the flag; the thread frees the flag when it ends, at a moment   *)
(* its owner does not see.  Thread t and the flag allocated for it have    *)
(* one name, as a flag is never reused by another thread.                  *)
(*                                                                         *)
(* The program makes repeating workers only (testbench.cpp:44,             *)
(* confreg.cpp:155) and assigns them to workers without a thread           *)
(* (testbench.cpp:42, confreg.h:123).                                      *)
(***************************************************************************)
EXTENDS Naturals, FiniteSets

CONSTANTS
  Object,    \* places where a ThreadWorker can be constructed
  Thread,    \* bound on the threads started
  Nobody     \* nullptr

ASSUME WorkerAssumption == Nobody \notin Thread

VARIABLES
  constructed,     \* the object is there
  stopped, flag,   \* its members
  tpc,             \* where each thread is
  raised           \* contents of the flag of each thread

objVars == <<constructed, stopped, flag>>
vars == <<objVars, tpc, raised>>

Init ==
  /\ constructed = [o \in Object |-> FALSE]
  /\ stopped = [o \in Object |-> TRUE]
  /\ flag = [o \in Object |-> Nobody]
  /\ tpc = [t \in Thread |-> "unborn"]
  /\ raised = [t \in Thread |-> FALSE]

Allocated(t) == tpc[t] \notin {"unborn", "ended"}

-----------------------------------------------------------------------------
(* The owner *)

New(o, s, f) ==
  /\ ~constructed[o]
  /\ constructed' = [constructed EXCEPT ![o] = TRUE]
  /\ stopped' = [stopped EXCEPT ![o] = s]
  /\ flag' = [flag EXCEPT ![o] = f]

Default(o) == New(o, TRUE, Nobody) /\ UNCHANGED <<tpc, raised>>

Start(o, t) ==
  /\ tpc[t] = "unborn"
  /\ New(o, FALSE, t)
  /\ tpc' = [tpc EXCEPT ![t] = "begin"]
  /\ raised' = [raised EXCEPT ![t] = FALSE]

\* Mutant: the source keeps its flag.
MovedKeeps(lhs, rhs) ==
  /\ stopped' = [stopped EXCEPT ![lhs] = stopped[rhs]]
  /\ flag' = [flag EXCEPT ![lhs] = flag[rhs]]

Moved(lhs, rhs) ==
  /\ stopped' = [stopped EXCEPT ![lhs] = stopped[rhs], ![rhs] = TRUE]
  /\ flag' = [flag EXCEPT ![lhs] = flag[rhs], ![rhs] = Nobody]

MoveConstruct(lhs, rhs) ==
  /\ ~constructed[lhs] /\ constructed[rhs]
  /\ constructed' = [constructed EXCEPT ![lhs] = TRUE]
  /\ Moved(lhs, rhs)
  /\ UNCHANGED <<tpc, raised>>

\* The code does not stop the thread of lhs: see the use above.
MoveAssign(lhs, rhs) ==
  /\ constructed[lhs] /\ constructed[rhs] /\ lhs # rhs
  /\ stopped[lhs]
  /\ Moved(lhs, rhs)
  /\ UNCHANGED <<constructed, tpc, raised>>

\* Mutant: only the member is set.
raisedByForgets(o) == raised

raisedBy(o) == IF stopped[o] THEN raised ELSE [raised EXCEPT ![flag[o]] = TRUE]

Stop(o) ==
  /\ constructed[o]
  /\ raised' = raisedBy(o)
  /\ stopped' = [stopped EXCEPT ![o] = TRUE]
  /\ UNCHANGED <<constructed, flag, tpc>>

Destroy(o) ==
  /\ constructed[o]
  /\ raised' = raisedBy(o)
  /\ stopped' = [stopped EXCEPT ![o] = TRUE]
  /\ constructed' = [constructed EXCEPT ![o] = FALSE]
  /\ UNCHANGED <<flag, tpc>>

-----------------------------------------------------------------------------
(* The thread *)

Goes(t, from, to) ==
  /\ tpc[t] = from
  /\ tpc' = [tpc EXCEPT ![t] = to]
  /\ UNCHANGED <<objVars, raised>>

Begin(t) == Goes(t, "begin", "test")
Test(t) == Goes(t, "test", IF raised[t] THEN "final" ELSE "work")
Work(t) == Goes(t, "work", "sleep")

\* Mutant: a worker made by ThreadWorker::once.
afterSleepOnce == "final"

afterSleep == "test"

Sleep(t) == Goes(t, "sleep", afterSleep)
Final(t) == Goes(t, "final", "delete")
Delete(t) == Goes(t, "delete", "ended")

-----------------------------------------------------------------------------
OwnerStep ==
  \/ \E o \in Object : Default(o) \/ Stop(o) \/ Destroy(o)
  \/ \E o \in Object, t \in Thread : Start(o, t)
  \/ \E lhs, rhs \in Object : MoveConstruct(lhs, rhs) \/ MoveAssign(lhs, rhs)

ThreadStep(t) == Begin(t) \/ Test(t) \/ Work(t) \/ Sleep(t) \/ Final(t) \/ Delete(t)

Next == OwnerStep \/ \E t \in Thread : ThreadStep(t)

Spec == Init /\ [][Next]_vars

\* Threads are scheduled and the functions given to them return.
FairSpec == Spec /\ \A t \in Thread : WF_vars(ThreadStep(t))

-----------------------------------------------------------------------------
TypeOK ==
  /\ constructed \in [Object -> BOOLEAN]
  /\ stopped \in [Object -> BOOLEAN]
  /\ flag \in [Object -> Thread \cup {Nobody}]
  /\ tpc \in [Thread -> {"unborn", "begin", "test", "work", "sleep", "final", "delete", "ended"}]
  /\ raised \in [Thread -> BOOLEAN]

Owns(o, t) == ~stopped[o] /\ flag[o] = t

\* stop() writes to a flag that exists: the thread cannot have freed it before
\* its owner has set it.  (common.cpp:325, 375-381)
FlagAllocated ==
  \A o \in Object : ~stopped[o] => /\ flag[o] \in Thread
                                   /\ Allocated(flag[o])

\* A thread that has not been told to end belongs to exactly one object that is
\* still there and will tell it, however the objects were moved.
\* (common.cpp:297-302, 330-340, 370-382)
OneOwner ==
  \A t \in Thread : Allocated(t) /\ ~raised[t] =>
    \E o \in Object : /\ constructed[o] /\ Owns(o, t)
                      /\ \A p \in Object : Owns(p, t) => p = o

\* Together: whatever becomes of the objects, no flag is written after it was freed
\* and no thread is left to run for ever.  (common.cpp:297-325, 330-340, 370-382)
Ownership == FlagAllocated /\ OneOwner

\* The inductive invariant behind it: a thread that can be
\* reached through an object has not been told to end, and one that is about to
\* free its flag has been.  (common.cpp:297-325, 330-340, 370-382)
IInv ==
  /\ TypeOK
  /\ \A o \in Object : ~constructed[o] => stopped[o]
  /\ \A o \in Object, t \in Thread : Owns(o, t) => ~raised[t]
  /\ \A t \in Thread : tpc[t] \in {"final", "delete"} => raised[t]
  /\ FlagAllocated
  /\ OneOwner

\* A thread ends, and its flag is freed, after its last owner was stopped or
\* destroyed.  (common.cpp:316-325, 375-381)
ThreadsEnd ==
  \A t \in Thread : (tpc[t] # "unborn" /\ \A o \in Object : ~Owns(o, t)) ~> tpc[t] = "ended"
=============================================================================
