---------------------------- MODULE UtilityProofs ----------------------------
(***************************************************************************)
(* The utilities of the harness.  For any number of objects and threads:   *)
(* stop() never writes to a flag that was freed, and no thread is left     *)
(* without an owner.  For any list of tests: a test undoes what it set up, *)
(* and the log stays readable if no test asks for the status line.         *)
(***************************************************************************)
EXTENDS MCUtilities, SequenceTheorems, FiniteSetTheorems, TLAPS

(***************************************************************************)
(* ThreadWorker.                                                           *)
(***************************************************************************)
\* The invariant holds when nothing is constructed yet.
LEMMA InitIInv == Init => IInv
BY WorkerAssumption DEF Init, IInv, TypeOK, FlagAllocated, OneOwner, Owns, Allocated

\* A new worker owns the thread it has just started, and nobody else does.
LEMMA StartStep ==
  ASSUME IInv, NEW o \in Object, NEW t \in Thread, Start(o, t)
  PROVE  IInv'
<1> USE WorkerAssumption DEF IInv, TypeOK, Start, New
<1>1. TypeOK'
  OBVIOUS
<1>2. \A p \in Object : ~Owns(p, t)
  BY DEF FlagAllocated, Allocated, Owns
<1>3. \A p \in Object : p # o => stopped'[p] = stopped[p] /\ flag'[p] = flag[p]
  OBVIOUS
<1>4. \A u \in Thread : u # t => tpc'[u] = tpc[u] /\ raised'[u] = raised[u]
  OBVIOUS
<1>5. stopped[o] /\ ~stopped'[o] /\ flag'[o] = t /\ tpc'[t] = "begin" /\ ~raised'[t]
  OBVIOUS
<1>6. (\A p \in Object : ~constructed[p] => stopped[p])'
  OBVIOUS
<1>7. (\A p \in Object, u \in Thread : Owns(p, u) => ~raised[u])'
  BY <1>2, <1>3, <1>4, <1>5 DEF Owns
<1>8. (\A u \in Thread : tpc[u] \in {"final", "delete"} => raised[u])'
  BY <1>4, <1>5
<1>9. FlagAllocated'
  BY <1>2, <1>3, <1>4, <1>5 DEF FlagAllocated, Allocated, Owns
<1>10. OneOwner'
  <2> SUFFICES ASSUME NEW u \in Thread, Allocated(u)', ~raised'[u]
               PROVE  (\E p \in Object : /\ constructed[p] /\ Owns(p, u)
                                         /\ \A q \in Object : Owns(q, u) => q = p)'
    BY DEF OneOwner
  <2>1. CASE u = t
    <3>1. constructed'[o]
      OBVIOUS
    <3> QED BY <2>1, <3>1, <1>2, <1>3, <1>5 DEF Owns
  <2>2. CASE u # t
    <3>1. PICK p \in Object : /\ constructed[p] /\ Owns(p, u)
                              /\ \A q \in Object : Owns(q, u) => q = p
      BY <2>2, <1>4 DEF OneOwner, Allocated
    <3>2. p # o
      BY <3>1 DEF Owns
    <3> QED BY <2>2, <3>1, <3>2, <1>3, <1>5 DEF Owns
  <2> QED BY <2>1, <2>2
<1> QED BY <1>1, <1>6, <1>7, <1>8, <1>9, <1>10

\* The same owner relation under a new name of the owner.
LEMMA MoveStep ==
  ASSUME IInv, NEW lhs \in Object, NEW rhs \in Object, lhs # rhs,
         constructed[rhs], stopped[lhs], Moved(lhs, rhs), UNCHANGED <<tpc, raised>>,
         constructed' = [constructed EXCEPT ![lhs] = TRUE]
  PROVE  IInv'
<1> USE WorkerAssumption DEF IInv, TypeOK, Moved
<1>1. TypeOK'
  OBVIOUS
<1>2. /\ \A p \in Object : p \notin {lhs, rhs} => stopped'[p] = stopped[p] /\ flag'[p] = flag[p]
      /\ stopped'[lhs] = stopped[rhs] /\ flag'[lhs] = flag[rhs] /\ stopped'[rhs]
  OBVIOUS
<1>3. (\A p \in Object : ~constructed[p] => stopped[p])'
  BY <1>2
<1>4. (\A p \in Object, u \in Thread : Owns(p, u) => ~raised[u])'
  BY <1>2 DEF Owns
<1>5. (\A u \in Thread : tpc[u] \in {"final", "delete"} => raised[u])'
  OBVIOUS
<1>6. FlagAllocated'
  BY <1>2 DEF FlagAllocated, Allocated
<1>7. OneOwner'
  <2> SUFFICES ASSUME NEW u \in Thread, Allocated(u)', ~raised'[u]
               PROVE  (\E p \in Object : /\ constructed[p] /\ Owns(p, u)
                                         /\ \A q \in Object : Owns(q, u) => q = p)'
    BY DEF OneOwner
  <2>1. PICK p \in Object : /\ constructed[p] /\ Owns(p, u)
                            /\ \A q \in Object : Owns(q, u) => q = p
    BY DEF OneOwner, Allocated
  <2>2. CASE p = rhs
    <3>1. constructed'[lhs]
      OBVIOUS
    <3> QED BY <2>1, <2>2, <3>1, <1>2 DEF Owns
  <2>3. CASE p # rhs
    <3>1. p # lhs /\ constructed'[p]
      BY <2>1 DEF Owns
    <3> QED BY <2>1, <2>3, <3>1, <1>2 DEF Owns
  <2> QED BY <2>2, <2>3
<1> QED BY <1>1, <1>3, <1>4, <1>5, <1>6, <1>7

\* Whoever is stopped tells its thread; destruction is a stop.
LEMMA StopStep ==
  ASSUME IInv, NEW o \in Object, constructed[o],
         raised' = raisedBy(o), stopped' = [stopped EXCEPT ![o] = TRUE],
         UNCHANGED <<flag, tpc>>,
         \/ UNCHANGED constructed
         \/ constructed' = [constructed EXCEPT ![o] = FALSE]
  PROVE  IInv'
<1> USE WorkerAssumption DEF IInv, TypeOK
<1>1. TypeOK'
  BY DEF raisedBy, FlagAllocated
<1>2. /\ stopped'[o]
      /\ \A p \in Object : p # o => stopped'[p] = stopped[p] /\ constructed'[p] = constructed[p]
  OBVIOUS
<1>3. \A u \in Thread : raised'[u] = (raised[u] \/ Owns(o, u))
  BY DEF raisedBy, Owns, FlagAllocated
<1>4. (\A p \in Object : ~constructed[p] => stopped[p])'
  BY <1>2
<1>5. (\A p \in Object, u \in Thread : Owns(p, u) => ~raised[u])'
  <2> SUFFICES ASSUME NEW p \in Object, NEW u \in Thread, Owns(p, u)'
               PROVE  ~raised'[u]
    OBVIOUS
  <2>1. p # o /\ Owns(p, u) /\ ~raised[u]
    BY <1>2 DEF Owns
  <2>2. Allocated(u)
    BY <2>1 DEF FlagAllocated, Owns
  <2>3. ~Owns(o, u)
    BY <2>1, <2>2 DEF OneOwner
  <2> QED BY <2>1, <2>3, <1>3
<1>6. (\A u \in Thread : tpc[u] \in {"final", "delete"} => raised[u])'
  BY <1>3
<1>7. FlagAllocated'
  BY <1>2 DEF FlagAllocated, Allocated
<1>8. OneOwner'
  <2> SUFFICES ASSUME NEW u \in Thread, Allocated(u)', ~raised'[u]
               PROVE  (\E p \in Object : /\ constructed[p] /\ Owns(p, u)
                                         /\ \A q \in Object : Owns(q, u) => q = p)'
    BY DEF OneOwner
  <2>1. PICK p \in Object : /\ constructed[p] /\ Owns(p, u)
                            /\ \A q \in Object : Owns(q, u) => q = p
    BY <1>3 DEF OneOwner, Allocated
  <2>2. p # o
    BY <2>1, <1>3
  <2> QED BY <2>1, <2>2, <1>2 DEF Owns
<1> QED BY <1>1, <1>4, <1>5, <1>6, <1>7, <1>8

\* A thread goes on; only one that was told to ends.
LEMMA ThreadStepInv ==
  ASSUME IInv, NEW t \in Thread, ThreadStep(t)
  PROVE  IInv'
<1> USE WorkerAssumption
    DEF IInv, TypeOK, Goes, objVars
<1> DEFINE Pc == {"begin", "test", "work", "sleep", "final", "delete", "ended"}
<1>1. PICK to \in Pc :
        /\ Allocated(t) /\ tpc' = [tpc EXCEPT ![t] = to]
        /\ UNCHANGED <<constructed, stopped, flag, raised>>
        /\ to \in {"final", "delete", "ended"} => raised[t]
  BY DEF ThreadStep, Begin, Test, Work, Sleep, Final, Delete, afterSleep, Allocated
<1>2. \A u \in Thread : u # t => tpc'[u] = tpc[u]
  BY <1>1
<1>3. TypeOK'
  BY <1>1
<1>4. (\A u \in Thread : tpc[u] \in {"final", "delete"} => raised[u])'
  BY <1>1
<1>5. (\A p \in Object, u \in Thread : Owns(p, u) => ~raised[u])'
  BY <1>1 DEF Owns
<1>6. FlagAllocated'
  BY <1>1, <1>2 DEF FlagAllocated, Allocated, Owns
<1>7. OneOwner'
  BY <1>1, <1>2 DEF OneOwner, Owns, Allocated
<1> QED BY <1>1, <1>3, <1>4, <1>5, <1>6, <1>7

\* The invariant is inductive.
LEMMA StepIInv == IInv /\ [Next]_vars => IInv'
<1> SUFFICES ASSUME IInv, [Next]_vars PROVE IInv'
  OBVIOUS
<1>1. ASSUME NEW o \in Object, Default(o) PROVE IInv'
  BY <1>1, WorkerAssumption
  DEF IInv, TypeOK, Default, New, FlagAllocated, OneOwner, Owns, Allocated
<1>2. ASSUME NEW o \in Object, Stop(o) \/ Destroy(o) PROVE IInv'
  BY <1>2, StopStep DEF Stop, Destroy
<1>3. ASSUME NEW o \in Object, NEW t \in Thread, Start(o, t) PROVE IInv'
  BY <1>3, StartStep
<1>4. ASSUME NEW lhs \in Object, NEW rhs \in Object, MoveConstruct(lhs, rhs) PROVE IInv'
  <2>1. lhs # rhs /\ stopped[lhs]
    BY <1>4 DEF MoveConstruct, IInv
  <2> QED BY <1>4, <2>1, MoveStep DEF MoveConstruct
<1>5. ASSUME NEW lhs \in Object, NEW rhs \in Object, MoveAssign(lhs, rhs) PROVE IInv'
  <2>1. constructed' = [constructed EXCEPT ![lhs] = TRUE]
    BY <1>5 DEF MoveAssign, IInv, TypeOK
  <2> QED BY <1>5, <2>1, MoveStep DEF MoveAssign
<1>6. ASSUME NEW t \in Thread, ThreadStep(t) PROVE IInv'
  BY <1>6, ThreadStepInv
<1>7. CASE UNCHANGED vars
  BY <1>7 DEF vars, objVars, IInv, TypeOK, FlagAllocated, OneOwner, Owns, Allocated
<1> QED BY <1>1, <1>2, <1>3, <1>4, <1>5, <1>6, <1>7 DEF Next, OwnerStep

\* The inductive invariant holds in every reachable state, for every set of
\* objects and threads.  (common.cpp:292-382)
THEOREM WorkerInvariance == Spec => []IInv
BY InitIInv, StepIInv, PTL DEF Spec

\* stop() never writes to a freed flag, and every thread that was not told to end
\* has exactly one owner, which will tell it.  (common.cpp:297-302, 325-340, 370-382)
THEOREM ThreadsOwned == Spec => []Ownership
<1>1. IInv => Ownership
  BY DEF IInv, Ownership
<1> QED BY <1>1, WorkerInvariance, PTL

-----------------------------------------------------------------------------
(***************************************************************************)
(* Testbench: the hooks of a test.                                         *)
(***************************************************************************)
Plugins(t) == Tests[t].plugins
Hook == STRING \cup {"post"}

\* A test has passed its first n plugins, and these are its hooks.
Passed(t, n) == n \in 0 .. Len(Plugins(t)) /\ \A k \in 1 .. n : Plugins(t)[k] # "SKIP"
Hooks(t, n) == [k \in 1 .. n + 1 |-> IF k = 1 THEN "post" ELSE Plugins(t)[k - 1]]

\* The last n hooks of the list, the last first.
Unstacked(list, n) == [k \in 1 .. n |-> list[Len(list) + 1 - k]]

Position ==
  /\ mpc \in {"start", "pre", "plugins", "body", "defers", "report", "stop", "done"}
  /\ test \in 1 .. Len(Tests) + 1 /\ plugin \in Nat /\ defer_list \in Seq(Hook)
  /\ mpc \notin {"start", "done"} => test \in 1 .. Len(Tests)

\* The hooks in the list and those undone, by what the test is at.
Stacked ==
  /\ mpc \notin {"plugins", "body", "defers"} => defer_list = << >>
  /\ mpc = "plugins" => /\ plugin >= 1 /\ Passed(test, plugin - 1)
                        /\ defer_list = Hooks(test, plugin - 1)
  /\ mpc \in {"plugins", "body"} => undone = << >>
  /\ mpc \in {"body", "defers"} => defer_list = Bench!Deferred(test)
  /\ mpc = "defers" => /\ plugin \in 0 .. Len(defer_list)
                       /\ undone = Unstacked(defer_list, Len(defer_list) - plugin)
  /\ mpc = "report" => undone = Bench!Reverse(Bench!Deferred(test))

HooksInv == Position /\ Stacked

LEMMA TestTypes ==
  ASSUME NEW t \in 1 .. Len(Tests)
  PROVE  /\ Plugins(t) \in Seq(Hook)
         /\ Len(Plugins(t)) \in Nat /\ DOMAIN Plugins(t) = 1 .. Len(Plugins(t))
<1> DEFINE Described == [plugins : Seq(STRING), chars : Nat]
<1>1. Tests \in Seq(Described)
  BY BenchAssumption
<1> HIDE DEF Described
<1>2. Tests[t] \in Described
  BY <1>1
<1>3. Plugins(t) \in Seq(STRING)
  BY <1>2 DEF Described, Plugins
<1>4. Plugins(t) \in Seq(Hook)
  <2>1. STRING \subseteq Hook
    BY DEF Hook
  <2> QED  BY <1>3, <2>1, SeqMonotonic
<1> QED  BY <1>4, LenProperties

LEMMA HooksTypes ==
  ASSUME NEW t \in 1 .. Len(Tests), NEW n \in 0 .. Len(Plugins(t))
  PROVE  Hooks(t, n) \in Seq(Hook) /\ Len(Hooks(t, n)) = n + 1
<1>1. Plugins(t) \in Seq(Hook) /\ Len(Plugins(t)) \in Nat
  BY TestTypes
<1>2. "post" \in Hook
  BY DEF Hook
<1>3. ASSUME NEW k \in 1 .. n + 1
      PROVE  (IF k = 1 THEN "post" ELSE Plugins(t)[k - 1]) \in Hook
  <2>1. CASE k = 1
    BY <1>2, <2>1
  <2>2. CASE k # 1
    <3>1. k - 1 \in 1 .. Len(Plugins(t))
      BY <1>1, <2>2
    <3> QED  BY <1>1, <2>2, <3>1, ElementOfSeq
  <2> QED  BY <2>1, <2>2
<1>4. Hooks(t, n) \in [1 .. n + 1 -> Hook]
  BY <1>3 DEF Hooks
<1> QED  BY <1>1, <1>4, IsASeq, LenProperties

\* A test that is through with its plugins has set up what Deferred says.
LEMMA HooksAreDeferred ==
  ASSUME NEW t \in 1 .. Len(Tests), NEW n \in Nat, Passed(t, n),
         n = Len(Plugins(t)) \/ Plugins(t)[n + 1] = "SKIP"
  PROVE  Bench!Deferred(t) = Hooks(t, n)
<1> DEFINE ps == Plugins(t)
           skips == {k \in DOMAIN ps : ps[k] = "SKIP"}
           first == CHOOSE k \in skips : \A j \in skips : k <= j
           upto == IF skips = {} THEN Len(ps) ELSE first - 1
<1>1. ps \in Seq(Hook) /\ DOMAIN ps = 1 .. Len(ps) /\ Len(ps) \in Nat
  BY TestTypes
<1>2. /\ n \in 0 .. Len(ps) /\ \A k \in 1 .. n : ps[k] # "SKIP"
      /\ n = Len(ps) \/ ps[n + 1] = "SKIP"
  BY DEF Passed
<1>3. Len(ps) \in Nat /\ n \in 0 .. Len(ps)
  BY <1>1, <1>2
<1>4. Bench!Deferred(t) = <<"post">> \o SubSeq(ps, 1, upto)
  BY DEF Bench!Deferred, Plugins
<1> HIDE DEF ps
<1>5. upto = n
  <2>1. \A k : k \in skips <=> k \in 1 .. Len(ps) /\ ps[k] = "SKIP"
    BY <1>1
  <2> HIDE DEF skips
  <2>2. CASE n = Len(ps)
    <3>1. skips = {}
      BY <1>2, <2>1, <2>2
    <3> QED  BY <2>2, <3>1
  <2>3. CASE n # Len(ps)
    <3>1. n + 1 \in skips
      <4>1. n + 1 \in 1 .. Len(ps)
        BY <1>3, <2>3
      <4>2. ps[n + 1] = "SKIP"
        BY <1>2, <2>3
      <4> QED  BY <2>1, <4>1, <4>2
    <3>2. ASSUME NEW j \in skips
          PROVE  j \in Nat /\ n + 1 <= j
      <4>1. j \in 1 .. Len(ps) /\ ps[j] = "SKIP"
        BY <2>1
      <4>2. j \notin 1 .. n
        BY <1>2, <4>1
      <4> QED  BY <1>3, <4>1, <4>2
    <3>3. first \in skips /\ \A j \in skips : first <= j
      BY <3>1, <3>2
    <3> HIDE DEF first
    <3>4. first = n + 1
      BY <3>1, <3>2, <3>3
    <3> QED  BY <3>1, <3>4
  <2> QED  BY <2>2, <2>3
<1>6. SubSeq(ps, 1, n) \in Seq(Hook) /\ Len(SubSeq(ps, 1, n)) = n
      /\ \A k \in 1 .. n : SubSeq(ps, 1, n)[k] = ps[k]
  <2>1. \A i \in 1 .. n : ps[i] \in Hook
    <3>1. \A i \in 1 .. n : i \in 1 .. Len(ps)
      BY <1>3
    <3> QED  BY <1>1, <3>1, ElementOfSeq
  <2>2. /\ SubSeq(ps, 1, n) \in Seq(Hook)
        /\ Len(SubSeq(ps, 1, n)) = IF 1 <= n THEN n - 1 + 1 ELSE 0
        /\ \A k \in 1 .. n - 1 + 1 : SubSeq(ps, 1, n)[k] = ps[1 + k - 1]
    <3>1. 1 \in Int /\ n \in Int
      BY <1>3
    <3> QED  BY <2>1, <3>1, SubSeqProperties
  <2>3. n - 1 + 1 = n /\ (~ (1 <= n) => n = 0) /\ \A k \in 1 .. n : 1 + k - 1 = k
    BY <1>3
  <2> QED  BY <2>2, <2>3
<1>7. <<"post">> \in Seq(Hook) /\ Len(<<"post">>) = 1 /\ <<"post">>[1] = "post"
  <2>1. "post" \in Hook
    BY DEF Hook
  <2> QED  BY <2>1
<1>8. <<"post">> \o SubSeq(ps, 1, n) \in Seq(Hook)
      /\ Len(<<"post">> \o SubSeq(ps, 1, n)) = n + 1
      /\ \A k \in 1 .. n + 1 :
           (<<"post">> \o SubSeq(ps, 1, n))[k]
             = IF k <= 1 THEN <<"post">>[k] ELSE SubSeq(ps, 1, n)[k - 1]
  BY <1>2, <1>6, <1>7, ConcatProperties
<1>9. \A k \in 1 .. n + 1 : (<<"post">> \o SubSeq(ps, 1, n))[k] = Hooks(t, n)[k]
  <2> SUFFICES ASSUME NEW k \in 1 .. n + 1
               PROVE  (<<"post">> \o SubSeq(ps, 1, n))[k] = Hooks(t, n)[k]
    OBVIOUS
  <2>1. CASE k = 1
    BY <1>7, <1>8, <2>1 DEF Hooks
  <2>2. CASE k # 1
    <3>1. k - 1 \in 1 .. n /\ ~ (k <= 1)
      BY <2>2
    <3>2. (<<"post">> \o SubSeq(ps, 1, n))[k] = ps[k - 1]
      BY <1>6, <1>8, <3>1
    <3> QED  BY <2>2, <3>2 DEF Hooks, ps
  <2> QED  BY <2>1, <2>2
<1>10. Hooks(t, n) \in Seq(Hook) /\ Len(Hooks(t, n)) = n + 1
  BY <1>2, HooksTypes DEF ps
<1>11. <<"post">> \o SubSeq(ps, 1, n) = Hooks(t, n)
  BY <1>8, <1>9, <1>10, SeqEqual
<1> QED  BY <1>4, <1>5, <1>11

LEMMA DeferredTypes ==
  ASSUME NEW t \in 1 .. Len(Tests), NEW n \in Nat, Passed(t, n),
         n = Len(Plugins(t)) \/ Plugins(t)[n + 1] = "SKIP"
  PROVE  Bench!Deferred(t) \in Seq(Hook)
BY HooksAreDeferred, HooksTypes DEF Passed

hookVars == <<mpc, test, plugin, defer_list, undone>>

LEMMA HooksStay ==
  ASSUME HooksInv, UNCHANGED hookVars
  PROVE  HooksInv'
BY DEF HooksInv, Position, Stacked, hookVars

\* A test is begun, reported, ended: its hooks are not in the list.
LEMMA OutsideSteps ==
  ASSUME HooksInv,
         Bench!StartTest \/ Bench!Report \/ Bench!StopWorker \/ Bench!Total
  PROVE  HooksInv'
<1> USE DEF HooksInv, Position, Stacked
<1>0. Len(Tests) \in Nat
  BY BenchAssumption
<1>1. CASE Bench!StartTest
  BY <1>0, <1>1 DEF Bench!StartTest
<1>2. CASE Bench!Report
  BY <1>0, <1>2 DEF Bench!Report
<1>3. CASE Bench!StopWorker
  BY <1>0, <1>3 DEF Bench!StopWorker
<1>4. CASE Bench!Total
  BY <1>0, <1>4 DEF Bench!Total
<1> QED  BY <1>1, <1>2, <1>3, <1>4

LEMMA OpenStep ==
  ASSUME HooksInv, Bench!Open
  PROVE  HooksInv'
<1>0. test \in 1 .. Len(Tests) /\ defer_list = << >> /\ mpc' = "plugins" /\ test' = test
      /\ plugin' = 1 /\ undone' = << >> /\ defer_list' = Append(defer_list, "post")
  BY DEF HooksInv, Position, Stacked, Bench!Open
<1>1. Len(Plugins(test)) \in Nat
  BY <1>0, TestTypes
<1>2. Passed(test, 0)
  BY <1>1 DEF Passed
<1>3. defer_list' = Hooks(test, 0)
  <2>1. Hooks(test, 0) = [k \in {1} |-> "post"]
    BY DEF Hooks
  <2>2. Append(<< >>, "post") = [k \in {1} |-> "post"]
    OBVIOUS
  <2> QED  BY <1>0, <2>1, <2>2
<1>4. defer_list' \in Seq(Hook)
  BY <1>0, <1>1, <1>3, HooksTypes
<1> QED  BY <1>0, <1>2, <1>3, <1>4 DEF HooksInv, Position, Stacked

LEMMA NothingUnstacked ==
  ASSUME NEW list
  PROVE  Unstacked(list, 0) = << >>
BY DEF Unstacked

LEMMA PluginStep ==
  ASSUME HooksInv, Bench!Plugin
  PROVE  HooksInv'
<1> DEFINE name == Plugins(test)[plugin]
<1>0. /\ test \in 1 .. Len(Tests) /\ plugin \in Nat \ {0} /\ Passed(test, plugin - 1)
      /\ defer_list = Hooks(test, plugin - 1) /\ undone = << >> /\ mpc = "plugins"
  BY DEF HooksInv, Position, Stacked, Bench!Plugin
<1>1. plugin <= Len(Plugins(test)) /\ test' = test /\ undone' = undone
  BY DEF Bench!Plugin, Plugins
<1>2. Len(Plugins(test)) \in Nat /\ Plugins(test) \in Seq(Hook)
  BY <1>0, TestTypes
<1>3. defer_list \in Seq(Hook) /\ Len(defer_list) = plugin
  <2>1. plugin - 1 \in 0 .. Len(Plugins(test)) /\ plugin - 1 + 1 = plugin
    BY <1>0, <1>1, <1>2
  <2> QED  BY <1>0, <2>1, HooksTypes
<1>4. CASE name = "SKIP"
  <2>1. mpc' = "defers" /\ plugin' = Len(defer_list) /\ defer_list' = defer_list
    BY <1>4 DEF Bench!Plugin, Plugins
  <2>2. Bench!Deferred(test) = defer_list
    <3>1. plugin - 1 \in Nat /\ plugin - 1 + 1 = plugin
      BY <1>0
    <3> QED  BY <1>0, <1>4, <3>1, HooksAreDeferred
  <2>3. Unstacked(defer_list, Len(defer_list) - plugin') = undone'
    BY <1>0, <1>1, <1>3, <2>1, NothingUnstacked
  <2> QED  BY <1>0, <1>1, <1>3, <2>1, <2>2, <2>3 DEF HooksInv, Position, Stacked
<1>5. CASE name # "SKIP"
  <2>1. mpc' = mpc /\ plugin' = plugin + 1 /\ defer_list' = Append(defer_list, name)
    BY <1>5 DEF Bench!Plugin, Plugins
  <2>2. Passed(test, plugin)
    BY <1>0, <1>1, <1>2, <1>5 DEF Passed
  <2>3. Append(defer_list, name) = Hooks(test, plugin)
    <3>1. name \in Hook
      <4>1. plugin \in 1 .. Len(Plugins(test))
        BY <1>0, <1>1, <1>2
      <4> QED  BY <1>2, <4>1, ElementOfSeq
    <3> HIDE DEF name
    <3>2. /\ Append(defer_list, name) \in Seq(Hook)
          /\ Len(Append(defer_list, name)) = plugin + 1
          /\ \A k \in 1 .. plugin : Append(defer_list, name)[k] = defer_list[k]
          /\ Append(defer_list, name)[plugin + 1] = name
      BY <1>3, <3>1, AppendProperties
    <3>3. Hooks(test, plugin) \in Seq(Hook) /\ Len(Hooks(test, plugin)) = plugin + 1
      BY <1>0, <2>2, HooksTypes DEF Passed
    <3>4. \A k \in 1 .. plugin : Hooks(test, plugin)[k] = defer_list[k]
      BY <1>0 DEF Hooks
    <3>5. Hooks(test, plugin)[plugin + 1] = name
      BY <1>0 DEF Hooks, name
    <3>6. \A k \in 1 .. plugin + 1 : Append(defer_list, name)[k] = Hooks(test, plugin)[k]
      BY <1>0, <3>2, <3>4, <3>5
    <3> QED  BY <3>2, <3>3, <3>6, SeqEqual
  <2>4. plugin' - 1 = plugin /\ plugin' \in Nat /\ plugin' >= 1
    BY <1>0, <2>1
  <2>5. defer_list' \in Seq(Hook)
    BY <1>0, <2>1, <2>2, <2>3, HooksTypes DEF Passed
  <2> QED  BY <1>0, <1>1, <2>1, <2>2, <2>3, <2>4, <2>5 DEF HooksInv, Position, Stacked
<1> QED  BY <1>4, <1>5

LEMMA BodySteps ==
  ASSUME HooksInv, Bench!BodyBegins \/ Bench!BodyWrites \/ Bench!BodyEnds
  PROVE  HooksInv'
<1> USE DEF HooksInv, Position, Stacked
<1>1. CASE Bench!BodyBegins
  <2>1. test \in 1 .. Len(Tests) /\ plugin \in Nat \ {0} /\ Passed(test, plugin - 1)
        /\ plugin > Len(Plugins(test))
    BY <1>1 DEF Bench!BodyBegins, Plugins
  <2>2. plugin - 1 \in Nat /\ plugin - 1 = Len(Plugins(test))
    BY <2>1, TestTypes DEF Passed
  <2>3. Bench!Deferred(test) = defer_list
    BY <1>1, <2>1, <2>2, HooksAreDeferred DEF Bench!BodyBegins
  <2> QED  BY <1>1, <2>3 DEF Bench!BodyBegins
<1>2. CASE Bench!BodyWrites
  <2>1. UNCHANGED <<mpc, test, defer_list, undone>> /\ plugin' = plugin + 1 /\ mpc = "body"
    BY <1>2 DEF Bench!BodyWrites
  <2> QED  BY <2>1
<1>3. CASE Bench!BodyEnds
  <2>1. mpc' = "defers" /\ plugin' = Len(defer_list) /\ UNCHANGED <<test, defer_list, undone>>
        /\ mpc = "body"
    BY <1>3 DEF Bench!BodyEnds
  <2>2. Len(defer_list) \in Nat
    BY LenProperties
  <2>3. Unstacked(defer_list, 0) = << >>
    BY NothingUnstacked
  <2> QED  BY <2>1, <2>2, <2>3
<1> QED  BY <1>1, <1>2, <1>3

\* The hook at the top of what is left is undone next.
LEMMA OneMoreUnstacked ==
  ASSUME NEW list \in Seq(Hook), NEW n \in 1 .. Len(list)
  PROVE  Append(Unstacked(list, Len(list) - n), list[n]) = Unstacked(list, Len(list) - n + 1)
<1> DEFINE len == Len(list)  done == Unstacked(list, len - n)
           more == Unstacked(list, len - n + 1)
<1>1. len \in Nat /\ n \in Nat /\ n >= 1 /\ n <= len
  BY LenProperties
<1>2. \A k \in 1 .. len : list[k] \in Hook
  BY ElementOfSeq
<1> HIDE DEF len
<1>3. \A m \in 0 .. len : /\ Unstacked(list, m) \in Seq(Hook)
                          /\ Len(Unstacked(list, m)) = m
                          /\ \A k \in 1 .. m : Unstacked(list, m)[k] = list[len + 1 - k]
  <2> SUFFICES ASSUME NEW m \in 0 .. len
               PROVE  /\ Unstacked(list, m) \in Seq(Hook)
                      /\ Len(Unstacked(list, m)) = m
                      /\ \A k \in 1 .. m : Unstacked(list, m)[k] = list[len + 1 - k]
    OBVIOUS
  <2>1. Unstacked(list, m) = [k \in 1 .. m |-> list[len + 1 - k]]
    BY DEF Unstacked, len
  <2>2. \A k \in 1 .. m : len + 1 - k \in 1 .. len
    BY <1>1
  <2>3. [k \in 1 .. m |-> list[len + 1 - k]] \in [1 .. m -> Hook]
    BY <1>2, <2>2
  <2> QED  BY <1>1, <2>1, <2>3
<1>4. len - n \in 0 .. len /\ len - n + 1 \in 0 .. len /\ len + 1 - (len - n + 1) = n
  BY <1>1
<1>5. list[n] \in Hook
  BY <1>1, <1>2
<1>6. /\ Append(done, list[n]) \in Seq(Hook) /\ Len(Append(done, list[n])) = len - n + 1
      /\ \A k \in 1 .. len - n : Append(done, list[n])[k] = list[len + 1 - k]
      /\ Append(done, list[n])[len - n + 1] = list[n]
  BY <1>3, <1>4, <1>5, AppendProperties
<1>7. /\ more \in Seq(Hook) /\ Len(more) = len - n + 1
      /\ \A k \in 1 .. len - n + 1 : more[k] = list[len + 1 - k]
  BY <1>3, <1>4
<1> HIDE DEF done, more
<1>8. \A k \in 1 .. len - n + 1 : Append(done, list[n])[k] = more[k]
  <2> SUFFICES ASSUME NEW k \in 1 .. len - n + 1
               PROVE  Append(done, list[n])[k] = more[k]
    OBVIOUS
  <2>1. k = len - n + 1 \/ k \in 1 .. len - n
    BY <1>1
  <2> QED  BY <1>4, <1>6, <1>7, <2>1
<1>9. Append(done, list[n]) = more
  BY <1>6, <1>7, <1>8, SeqEqual
<1> QED  BY <1>9 DEF done, more, len

LEMMA RunDeferStep ==
  ASSUME HooksInv, Bench!RunDefer
  PROVE  HooksInv'
<1>0. /\ mpc = "defers" /\ mpc' = mpc /\ test' = test /\ defer_list' = defer_list
      /\ undone' = Append(undone, defer_list[plugin]) /\ plugin' = plugin - 1
      /\ plugin \in 1 .. Len(defer_list) /\ defer_list \in Seq(Hook)
      /\ undone = Unstacked(defer_list, Len(defer_list) - plugin)
  BY DEF HooksInv, Position, Stacked, Bench!RunDefer
<1>1. Len(defer_list) \in Nat
  BY <1>0, LenProperties
<1>2. Len(defer_list) - plugin' = Len(defer_list) - plugin + 1
      /\ plugin' \in 0 .. Len(defer_list)
  BY <1>0, <1>1
<1>3. undone' = Unstacked(defer_list', Len(defer_list') - plugin')
  BY <1>0, <1>2, OneMoreUnstacked
<1> QED  BY <1>0, <1>2, <1>3 DEF HooksInv, Position, Stacked

LEMMA CloseStep ==
  ASSUME HooksInv, Bench!Close
  PROVE  HooksInv'
<1>0. /\ mpc = "defers" /\ plugin = 0 /\ mpc' = "report" /\ test' = test /\ plugin' = plugin
      /\ undone' = undone /\ defer_list' = << >> /\ defer_list \in Seq(Hook)
      /\ undone = Unstacked(defer_list, Len(defer_list) - plugin)
      /\ defer_list = Bench!Deferred(test)
  BY DEF HooksInv, Position, Stacked, Bench!Close, Bench!emptied
<1>1. Len(defer_list) \in Nat
  BY <1>0, LenProperties
<1>2. Unstacked(defer_list, Len(defer_list) - plugin) = Bench!Reverse(defer_list)
  <2>1. Len(defer_list) - plugin = Len(defer_list)
        /\ \A k \in 1 .. Len(defer_list) :
             Len(defer_list) + 1 - k = (Len(defer_list) - k) + 1
    BY <1>0, <1>1
  <2> QED  BY <2>1 DEF Unstacked, Bench!Reverse
<1>3. defer_list' \in Seq(Hook)
  BY <1>0
<1> QED  BY <1>0, <1>2, <1>3 DEF HooksInv, Position, Stacked

LEMMA HooksStep ==
  ASSUME HooksInv, [InBench(Bench!Next)]_utilVars \/ InWorkers(Next)
  PROVE  HooksInv'
<1>1. CASE InWorkers(Next) \/ UNCHANGED utilVars
  BY <1>1, HooksStay DEF InWorkers, utilVars, benchVars, hookVars
<1>2. CASE \E i \in DOMAIN Tests : Bench!WorkerTest(i) \/ Bench!WorkerLook(i)
                                     \/ Bench!status_line(i)
  BY <1>2, HooksStay DEF Bench!WorkerTest, Bench!WorkerLook, Bench!status_line, hookVars
<1> QED  BY <1>1, <1>2, OutsideSteps, OpenStep, PluginStep, BodySteps, RunDeferStep, CloseStep
         DEF InBench, Bench!Next, Bench!Main

\* What the hooks' invariant rests on holds in every reachable state.
THEOREM HooksInvariance == UtilSpec => []HooksInv
<1>1. UtilInit => HooksInv
  <2>1. Len(Tests) \in Nat /\ << >> \in Seq(Hook)
    BY BenchAssumption
  <2> QED  BY <2>1 DEF UtilInit, Bench!Init, HooksInv, Position, Stacked
<1>2. HooksInv /\ [InWorkers(Next) \/ InBench(Bench!Next)]_utilVars => HooksInv'
  BY HooksStep
<1> QED  BY <1>1, <1>2, PTL DEF UtilSpec

\* Whatever plugins the tests name: a test that ends, also one that skips itself
\* between them, has undone exactly what it set up, in the opposite order, and leaves
\* no hook to the next one.  (testbench.cpp:20-36, 270-285; testbench.h:98-141)
THEOREM TestsUndone == UtilSpec => []HooksUndone
<1>1. HooksInv => HooksUndone
  BY DEF HooksInv, Stacked, HooksUndone, Bench!HooksUndone
<1> QED  BY <1>1, HooksInvariance, PTL

-----------------------------------------------------------------------------
(***************************************************************************)
(* Testbench: the log, when no test asks for the status line.              *)
(***************************************************************************)
\* No test of the repository names the plugin STATUS.
NoStatusPlugin == \A t \in DOMAIN Tests : \A k \in DOMAIN Plugins(t) : Plugins(t)[k] # "STATUS"

LogType ==
  /\ status_enabled \in BOOLEAN /\ in_status_line \in BOOLEAN
  /\ notified \in Nat /\ char_buffer \in Seq(Nat) /\ err \in Seq(Nat)
  /\ wpc \in [DOMAIN Tests -> {"unborn", "test", "look", "write", "ended"}]
  /\ told \in [DOMAIN Tests -> BOOLEAN] /\ stale \in [DOMAIN Tests -> Nat]

\* The status line is never switched on or off.
NoStatusHook == \A k \in DOMAIN defer_list : defer_list[k] # "STATUS"

\* The flag tells of a status line; without status lines there is neither.
Terminal ==
  /\ line \in {"nothing", "status"} /\ (line = "status" => in_status_line)
  /\ ~ status_enabled => /\ line = "nothing" /\ ~ in_status_line /\ char_buffer = << >>
                         /\ \A i \in DOMAIN Tests : wpc[i] # "write"

\* The thread of a test that is over is told so, and has at most one line to write.
Threads ==
  \A i \in DOMAIN Tests :
    /\ i > test \/ (i = test /\ mpc = "start") => wpc[i] = "unborn"
    /\ i >= test => stale[i] = 0
    /\ i < test => told[i]
    /\ stale[i] = 0 \/ (stale[i] = 1 /\ wpc[i] \in {"test", "ended"})

\* Of the first n characters s has those that no NUL has cut off, in order.
Kept(s, n) ==
  /\ \A k \in DOMAIN s : s[k] \in 1 .. n
  /\ \A i, j \in DOMAIN s : i < j => s[i] < s[j]
  /\ \A c \in 1 .. n : (\E k \in DOMAIN s : s[k] = c) \/ Bench!CutOff(c)

\* The buffer holds the last characters, a piece of one line; stderr was given those
\* before them.
Written ==
  LET before == notified - Len(char_buffer)
  IN /\ before \in Nat /\ Kept(err, before)
     /\ \A k \in DOMAIN char_buffer : /\ char_buffer[k] = before + k
                                       /\ char_buffer[k] \notin NewLines
     /\ Len(char_buffer) < LOG_MAX_BUFFER_SIZE
     /\ ~ status_enabled => err = [c \in 1 .. notified |-> c]

LogInv == HooksInv /\ LogType /\ NoStatusHook /\ Terminal /\ Threads /\ Written

LEMMA TestsDomain == Len(Tests) \in Nat /\ DOMAIN Tests = 1 .. Len(Tests)
BY BenchAssumption

\* What a step leaves alone.
LEMMA TerminalStays ==
  ASSUME LogType, Terminal, Written,
         UNCHANGED <<status_enabled, in_status_line, line, char_buffer, notified, err>>,
         told' \in [DOMAIN Tests -> BOOLEAN], stale' = stale,
         wpc' = wpc \/ \E i \in DOMAIN Tests : wpc' = [wpc EXCEPT ![i] = "test"]
  PROVE  LogType' /\ Terminal' /\ Written'
<1>1. Written'
  BY DEF Written, Kept
<1> QED  BY <1>1 DEF LogType, Terminal

\* Text on a line of its own.
LEMMA WriteLineStep ==
  ASSUME Terminal, Bench!WriteLine, LogType
  PROVE  line' = "nothing" /\ in_status_line' = FALSE
BY DEF Terminal, Bench!WriteLine

\* The main thread goes from step to step within a test.
LEMMA QuietMainStep ==
  ASSUME LogInv, HooksInv', NoStatusHook', test' = test, mpc # "start", mpc' # "start",
         UNCHANGED <<status_enabled, in_status_line, line, char_buffer, notified, err>>,
         UNCHANGED <<wpc, told, stale>>
  PROVE  LogInv'
<1>1. LogType' /\ Terminal' /\ Written'
  BY TerminalStays DEF LogInv, LogType
<1>2. Threads'
  BY DEF LogInv, Threads
<1> QED  BY <1>1, <1>2 DEF LogInv

LEMMA StartTestLog ==
  ASSUME LogInv, Bench!StartTest, HooksInv'
  PROVE  LogInv'
<1>0. /\ test \in DOMAIN Tests /\ test' = test /\ mpc' = "pre" /\ mpc = "start"
      /\ wpc' = [wpc EXCEPT ![test] = "test"] /\ wpc[test] = "unborn"
      /\ UNCHANGED <<defer_list, status_enabled, in_status_line, line, char_buffer, notified,
                     err, told, stale>>
  BY TestsDomain DEF LogInv, HooksInv, Position, Threads, Bench!StartTest, Bench!logVars,
                     Bench!lineVars, Bench!charVars
<1>1. LogType' /\ Terminal' /\ Written'
  BY <1>0, TerminalStays DEF LogInv, LogType
<1>2. Threads'
  BY <1>0, TestsDomain DEF LogInv, Threads, LogType
<1>3. NoStatusHook'
  BY <1>0 DEF LogInv, NoStatusHook
<1> QED  BY <1>1, <1>2, <1>3 DEF LogInv

LEMMA HookSteps ==
  ASSUME LogInv, HooksInv', NoStatusPlugin,
         Bench!Open \/ Bench!Plugin \/ Bench!BodyBegins \/ Bench!BodyEnds
           \/ Bench!RunDefer \/ Bench!Close
  PROVE  LogInv'
<1> USE DEF LogInv
<1>0. defer_list \in Seq(Hook)
  BY DEF HooksInv, Position
<1>1. CASE Bench!Open
  <2>1. defer_list = << >> /\ defer_list' = Append(defer_list, "post")
    BY <1>1 DEF HooksInv, Stacked, Bench!Open
  <2>2. NoStatusHook'
    BY <2>1 DEF NoStatusHook
  <2> QED  BY <1>1, <2>2, QuietMainStep
           DEF Bench!Open, Bench!logVars, Bench!lineVars, Bench!charVars, Bench!threadVars
<1>2. CASE Bench!Plugin
  <2> DEFINE name == Plugins(test)[plugin]
  <2>1. /\ test \in DOMAIN Tests /\ plugin \in DOMAIN Plugins(test) /\ name \in Hook
    <3>1. test \in 1 .. Len(Tests) /\ plugin \in Nat \ {0} /\ plugin <= Len(Plugins(test))
      BY <1>2 DEF HooksInv, Position, Stacked, Bench!Plugin, Plugins
    <3>2. plugin \in 1 .. Len(Plugins(test)) /\ DOMAIN Plugins(test) = 1 .. Len(Plugins(test))
          /\ Plugins(test) \in Seq(Hook)
      BY <3>1, TestTypes
    <3> QED  BY <3>1, <3>2, TestsDomain, ElementOfSeq
  <2>2. name # "STATUS"
    BY <2>1 DEF NoStatusPlugin
  <2>3. mpc' # "start" /\ mpc # "start" /\ test' = test
        /\ UNCHANGED <<in_status_line, line, char_buffer, notified, err, wpc, told, stale>>
    BY <1>2 DEF Bench!Plugin, Bench!lineVars, Bench!charVars, Bench!threadVars
  <2>4. CASE name = "SKIP"
    <3>1. defer_list' = defer_list /\ status_enabled' = status_enabled
      BY <1>2, <2>4 DEF Bench!Plugin, Plugins, Bench!logVars
    <3>2. NoStatusHook'
      BY <3>1 DEF NoStatusHook
    <3> QED  BY <2>3, <3>1, <3>2, QuietMainStep
  <2>5. CASE name # "SKIP"
    <3>1. defer_list' = Append(defer_list, name) /\ status_enabled' = status_enabled
      BY <1>2, <2>2, <2>5 DEF Bench!Plugin, Bench!Controls, Plugins
    <3> HIDE DEF name
    <3>2. NoStatusHook'
      <4>1. /\ Append(defer_list, name) \in Seq(Hook)
            /\ Len(Append(defer_list, name)) = Len(defer_list) + 1
            /\ \A k \in 1 .. Len(defer_list) : Append(defer_list, name)[k] = defer_list[k]
            /\ Append(defer_list, name)[Len(defer_list) + 1] = name
        BY <1>0, <2>1, AppendProperties
      <4>2. /\ DOMAIN defer_list = 1 .. Len(defer_list) /\ Len(defer_list) \in Nat
            /\ DOMAIN Append(defer_list, name) = 1 .. Len(Append(defer_list, name))
        BY <1>0, <4>1, LenProperties
      <4>3. ASSUME NEW k \in DOMAIN Append(defer_list, name)
            PROVE  Append(defer_list, name)[k] # "STATUS"
        <5>1. k \in 1 .. Len(defer_list) \/ k = Len(defer_list) + 1
          BY <4>1, <4>2
        <5> QED  BY <2>2, <4>1, <4>2, <5>1 DEF NoStatusHook
      <4> QED  BY <3>1, <4>3 DEF NoStatusHook
    <3> QED  BY <2>3, <3>1, <3>2, QuietMainStep
  <2> QED  BY <2>4, <2>5
<1>3. CASE Bench!BodyBegins
  <2>1. NoStatusHook'
    BY <1>3 DEF NoStatusHook, Bench!BodyBegins
  <2> QED  BY <1>3, <2>1, QuietMainStep
           DEF Bench!BodyBegins, Bench!logVars, Bench!lineVars, Bench!charVars,
               Bench!threadVars
<1>4. CASE Bench!BodyEnds
  <2>1. NoStatusHook'
    BY <1>4 DEF NoStatusHook, Bench!BodyEnds
  <2> QED  BY <1>4, <2>1, QuietMainStep
           DEF Bench!BodyEnds, Bench!logVars, Bench!lineVars, Bench!charVars,
               Bench!threadVars
<1>5. CASE Bench!RunDefer
  <2>1. plugin \in DOMAIN defer_list
    <3>1. plugin \in 1 .. Len(defer_list)
      BY <1>5 DEF HooksInv, Position, Stacked, Bench!RunDefer
    <3> QED  BY <1>0, <3>1, LenProperties
  <2>2. status_enabled' = status_enabled
    BY <1>5, <2>1 DEF NoStatusHook, Bench!RunDefer, Bench!Controls
  <2>3. NoStatusHook'
    BY <1>5 DEF NoStatusHook, Bench!RunDefer
  <2> QED  BY <1>5, <2>2, <2>3, QuietMainStep
           DEF Bench!RunDefer, Bench!lineVars, Bench!charVars, Bench!threadVars
<1>6. CASE Bench!Close
  <2>1. NoStatusHook'
    BY <1>6 DEF NoStatusHook, Bench!Close, Bench!emptied
  <2> QED  BY <1>6, <2>1, QuietMainStep
           DEF Bench!Close, Bench!logVars, Bench!lineVars, Bench!charVars, Bench!threadVars
<1> QED  BY <1>1, <1>2, <1>3, <1>4, <1>5, <1>6

\* Of a test, and of the whole run, a line is printed unless the log is off.
LEMMA InfoLog ==
  ASSUME LogInv, HooksInv', Bench!Report \/ Bench!Total
  PROVE  LogInv'
<1>0. /\ UNCHANGED <<test, defer_list, status_enabled, char_buffer, notified, err, wpc, told,
                     stale>>
      /\ mpc \in {"start", "report"} /\ mpc' # "start" /\ Bench!info
      /\ mpc = "start" => test > Len(Tests)
  BY DEF Bench!Report, Bench!Total, Bench!logVars, Bench!charVars, Bench!threadVars
<1>1. (line' = line /\ in_status_line' = in_status_line)
        \/ (line' = "nothing" /\ in_status_line' = FALSE)
  BY <1>0, WriteLineStep DEF LogInv, Bench!info, Bench!lineVars
<1>2. LogType' /\ Terminal'
  <2>1. LogType'
    BY <1>0, <1>1 DEF LogInv, LogType
  <2>2. Terminal'
    BY <1>0, <1>1 DEF LogInv, Terminal
  <2> QED  BY <2>1, <2>2
<1>3. Written' /\ NoStatusHook'
  BY <1>0 DEF LogInv, Written, NoStatusHook
<1>4. Threads'
  BY <1>0, TestsDomain DEF LogInv, Threads, HooksInv, Position
<1> QED  BY <1>2, <1>3, <1>4 DEF LogInv

\* A test that ends has told its thread.
LEMMA StopWorkerLog ==
  ASSUME LogInv, HooksInv', Bench!StopWorker
  PROVE  LogInv'
<1>0. /\ test \in DOMAIN Tests /\ test' = test + 1 /\ mpc' = "start" /\ mpc = "stop"
      /\ told' = [told EXCEPT ![test] = TRUE]
      /\ UNCHANGED <<defer_list, status_enabled, in_status_line, line, char_buffer, notified,
                     err, wpc, stale>>
  BY TestsDomain DEF LogInv, HooksInv, Position, Bench!StopWorker, Bench!toldToEnd,
                     Bench!logVars, Bench!lineVars, Bench!charVars
<1>1. LogType' /\ Terminal' /\ Written'
  BY <1>0, TerminalStays DEF LogInv, LogType
<1>2. Threads'
  <2> SUFFICES ASSUME NEW i \in DOMAIN Tests
               PROVE  /\ i > test' \/ (i = test' /\ mpc' = "start") => wpc'[i] = "unborn"
                      /\ i >= test' => stale'[i] = 0
                      /\ i < test' => told'[i]
                      /\ stale'[i] = 0 \/ (stale'[i] = 1 /\ wpc'[i] \in {"test", "ended"})
    BY DEF Threads
  <2>1. i \in Nat /\ test \in Nat
    BY <1>0, TestsDomain
  <2> QED  BY <1>0, <2>1 DEF LogInv, Threads, LogType
<1>3. NoStatusHook'
  BY <1>0 DEF LogInv, NoStatusHook
<1> QED  BY <1>1, <1>2, <1>3 DEF LogInv

\* The sets below the members of T are finite, so one has no other inside it.
LEMMA SmallestElement ==
  ASSUME NEW T, T \subseteq Nat, T # {}
  PROVE  \E x \in T : \A y \in T : x <= y
<1> DEFINE Below == {0 .. k : k \in T}
<1>1. Below # {} /\ Below \subseteq FiniteSubsetsOf(Nat)
  <2>1. \A k \in T : 0 .. k \subseteq Nat /\ IsFiniteSet(0 .. k)
    BY FS_Interval
  <2> QED  BY <2>1 DEF FiniteSubsetsOf
<1>2. PICK B \in Below : \A C \in Below : ~ (<<C, B>> \in StrictSubsetOrdering(Nat))
  <2> HIDE DEF Below
  <2> QED  BY <1>1, FS_StrictSubsetOrderingWellFounded, WFMin
<1>3. PICK x \in T : B = 0 .. x
  BY <1>2
<1>4. ASSUME NEW y \in T, ~ (x <= y)
      PROVE  FALSE
  <2>1. 0 .. y \in Below /\ 0 .. y \subseteq 0 .. x /\ 0 .. y # 0 .. x
    BY <1>4
  <2>2. 0 .. y \in SUBSET Nat /\ 0 .. x \in SUBSET Nat
    OBVIOUS
  <2>3. <<0 .. y, 0 .. x>> \in StrictSubsetOrdering(Nat)
    <3> DEFINE p == <<0 .. y, 0 .. x>>
    <3>1. p \in (SUBSET Nat) \X (SUBSET Nat) /\ p[1] = 0 .. y /\ p[2] = 0 .. x
      BY <2>2
    <3> HIDE DEF p
    <3> QED  BY <2>1, <3>1 DEF StrictSubsetOrdering
  <2> QED  BY <1>2, <1>3, <2>1, <2>3
<1> QED  BY <1>4

\* fputs writes the string up to its end or to a NUL.
LEMMA FputsPrefix ==
  ASSUME NEW buf \in Seq(Nat)
  PROVE  \E m \in 0 .. Len(buf) : /\ Bench!fputs(buf) = SubSeq(buf, 1, m)
                                  /\ m < Len(buf) => buf[m + 1] \in Nuls
<1> DEFINE nuls == {k \in DOMAIN buf : buf[k] \in Nuls}
<1>1. Len(buf) \in Nat /\ DOMAIN buf = 1 .. Len(buf)
  BY LenProperties
<1>2. CASE nuls = {}
  <2>1. Bench!fputs(buf) = buf
    BY <1>2 DEF Bench!fputs
  <2>2. SubSeq(buf, 1, Len(buf)) = buf
    BY SubSeqFull
  <2>3. Len(buf) \in 0 .. Len(buf) /\ ~ (Len(buf) < Len(buf))
    BY <1>1
  <2> QED  BY <2>1, <2>2, <2>3
<1>3. CASE nuls # {}
  <2> DEFINE first == Bench!Min(nuls)
  <2>1. nuls \subseteq Nat
    BY <1>1
  <2>2. first \in nuls
    <3> HIDE DEF nuls
    <3>1. PICK x \in nuls : \A y \in nuls : x <= y
      BY <1>3, <2>1, SmallestElement
    <3> QED  BY <3>1 DEF Bench!Min
  <2>3. Bench!fputs(buf) = SubSeq(buf, 1, first - 1)
    BY <1>3 DEF Bench!fputs
  <2> HIDE DEF first
  <2>4. first \in 1 .. Len(buf) /\ buf[first] \in Nuls
    BY <1>1, <2>2
  <2>5. first - 1 \in 0 .. Len(buf) /\ (first - 1) + 1 = first
    BY <1>1, <2>4
  <2> QED  BY <2>3, <2>4, <2>5
<1> QED  BY <1>2, <1>3

\* A piece of the text is added; what of it is missing was cut off.
LEMMA KeptLonger ==
  ASSUME NEW s \in Seq(Nat), NEW n \in Nat, Kept(s, n),
         NEW t \in Seq(Nat), NEW len \in Nat, Len(t) <= len,
         \A k \in 1 .. Len(t) : t[k] = n + k,
         \A c \in n + Len(t) + 1 .. n + len : Bench!CutOff(c)
  PROVE  Kept(s \o t, n + len)
<1> DEFINE u == s \o t
<1>1. /\ Len(s) \in Nat /\ DOMAIN s = 1 .. Len(s) /\ Len(t) \in Nat
      /\ u \in Seq(Nat) /\ Len(u) = Len(s) + Len(t) /\ DOMAIN u = 1 .. Len(u)
  BY ConcatProperties, LenProperties
<1>2. /\ \A k \in 1 .. Len(s) : u[k] = s[k]
      /\ \A k \in 1 .. Len(t) : u[Len(s) + k] = n + k
  BY ConcatProperties, <1>1
<1> HIDE DEF u
<1>3. \A k \in DOMAIN u : \/ k \in 1 .. Len(s) /\ u[k] = s[k] /\ u[k] \in 1 .. n
                          \/ k > Len(s) /\ u[k] = n + (k - Len(s)) /\ k - Len(s) \in 1 .. Len(t)
  <2> SUFFICES ASSUME NEW k \in DOMAIN u
               PROVE  \/ k \in 1 .. Len(s) /\ u[k] = s[k] /\ u[k] \in 1 .. n
                      \/ /\ k > Len(s) /\ u[k] = n + (k - Len(s))
                         /\ k - Len(s) \in 1 .. Len(t)
    OBVIOUS
  <2>1. CASE k \in 1 .. Len(s)
    BY <1>1, <1>2, <2>1 DEF Kept
  <2>2. CASE k \notin 1 .. Len(s)
    <3>1. k > Len(s) /\ k - Len(s) \in 1 .. Len(t) /\ Len(s) + (k - Len(s)) = k
      BY <1>1, <2>2
    <3> QED  BY <1>2, <3>1
  <2> QED  BY <2>1, <2>2
<1>4. ASSUME NEW k \in DOMAIN u
      PROVE  u[k] \in 1 .. n + len
  <2>1. CASE u[k] \in 1 .. n
    BY <2>1
  <2>2. CASE u[k] \notin 1 .. n
    <3>1. u[k] = n + (k - Len(s)) /\ k - Len(s) \in 1 .. Len(t)
      BY <1>3, <2>2
    <3>2. \A m \in 1 .. Len(t) : n + m \in 1 .. n + len
      BY <1>1
    <3> QED  BY <3>1, <3>2
  <2> QED  BY <2>1, <2>2
<1>5. ASSUME NEW i \in DOMAIN u, NEW j \in DOMAIN u, i < j
      PROVE  u[i] < u[j]
  <2>1. CASE j \in 1 .. Len(s)
    <3>1. i \in 1 .. Len(s)
      BY <1>1, <1>5, <2>1
    <3> QED  BY <1>1, <1>2, <1>5, <2>1, <3>1 DEF Kept
  <2>2. CASE j \notin 1 .. Len(s)
    <3>1. u[j] = n + (j - Len(s)) /\ j - Len(s) \in 1 .. Len(t)
      BY <1>3, <2>2
    <3>2. CASE u[i] \in 1 .. n
      BY <1>1, <3>1, <3>2
    <3>3. CASE u[i] \notin 1 .. n
      <4>1. u[i] = n + (i - Len(s)) /\ i - Len(s) \in 1 .. Len(t)
        BY <1>3, <3>3
      <4>2. i \in Nat /\ j \in Nat
        BY <1>1
      <4> QED  BY <1>1, <1>5, <3>1, <4>1, <4>2
    <3> QED  BY <3>2, <3>3
  <2> QED  BY <2>1, <2>2
<1>6. ASSUME NEW c \in 1 .. n + len
      PROVE  (\E k \in DOMAIN u : u[k] = c) \/ Bench!CutOff(c)
  <2>1. CASE c \in 1 .. n
    BY <1>1, <1>2, <2>1 DEF Kept
  <2>2. CASE c \in n + 1 .. n + Len(t)
    <3>1. c - n \in 1 .. Len(t) /\ n + (c - n) = c /\ Len(s) + (c - n) \in DOMAIN u
      BY <1>1, <2>2
    <3> QED  BY <1>2, <3>1
  <2>3. CASE c \in n + Len(t) + 1 .. n + len
    BY <2>3
  <2> QED  BY <1>1, <2>1, <2>2, <2>3
<1>7. Kept(u, n + len)
  BY <1>4, <1>5, <1>6 DEF Kept
<1> QED  BY <1>7 DEF u

\* One character more, in the buffer or on the terminal.
LEMMA BodyWritesLog ==
  ASSUME LogInv, HooksInv', Bench!BodyWrites
  PROVE  LogInv'
<1> USE DEF LogInv
<1> DEFINE c == notified + 1  buf == Append(char_buffer, c)
           before == notified - Len(char_buffer)
<1>0. /\ Bench!notify_char(c) /\ notified' = c
      /\ UNCHANGED <<mpc, test, defer_list, status_enabled, wpc, told, stale>>
  BY DEF Bench!BodyWrites, Bench!notify_char, Bench!logVars, Bench!threadVars
<1>1. /\ notified \in Nat /\ c \in Nat /\ char_buffer \in Seq(Nat) /\ err \in Seq(Nat)
      /\ before \in Nat /\ Kept(err, before)
      /\ Len(char_buffer) \in Nat /\ Len(char_buffer) < LOG_MAX_BUFFER_SIZE
      /\ LOG_MAX_BUFFER_SIZE \in Nat \ {0}
      /\ DOMAIN char_buffer = 1 .. Len(char_buffer)
      /\ \A k \in 1 .. Len(char_buffer) : /\ char_buffer[k] = before + k
                                          /\ char_buffer[k] \notin NewLines
  BY BenchAssumption, LenProperties DEF LogType, Written
<1>2. /\ buf \in Seq(Nat) /\ Len(buf) = Len(char_buffer) + 1 /\ c = before + Len(buf)
      /\ \A k \in 1 .. Len(char_buffer) : buf[k] = char_buffer[k]
      /\ buf[Len(buf)] = c
  BY <1>1, AppendProperties
<1>3. \A k \in 1 .. Len(buf) : buf[k] = before + k
  <2> SUFFICES ASSUME NEW k \in 1 .. Len(buf)  PROVE buf[k] = before + k
    OBVIOUS
  <2>1. k \in 1 .. Len(char_buffer) \/ k = Len(buf)
    BY <1>1, <1>2
  <2> QED  BY <1>1, <1>2, <2>1
<1>5. Threads' /\ NoStatusHook'
  BY <1>0 DEF Threads, NoStatusHook
<1>6. c = notified + 1
  OBVIOUS
<1> HIDE DEF c, buf, before
<1>7. LogType' /\ Terminal' /\ Written'
  <2>1. CASE status_enabled /\ (c \in NewLines \/ Len(buf) >= LOG_MAX_BUFFER_SIZE)
    <3>1. Bench!WriteLine /\ err' = err \o Bench!fputs(buf) /\ char_buffer' = << >>
      BY <1>0, <2>1 DEF Bench!notify_char, Bench!flushed, buf
    <3>2. line' = "nothing" /\ in_status_line' = FALSE
      BY <3>1, WriteLineStep
    <3>3. PICK m \in 0 .. Len(buf) : /\ Bench!fputs(buf) = SubSeq(buf, 1, m)
                                     /\ m < Len(buf) => buf[m + 1] \in Nuls
      BY <1>2, FputsPrefix
    <3> DEFINE t == SubSeq(buf, 1, m)
    <3>4. t \in Seq(Nat) /\ Len(t) = m /\ \A k \in 1 .. m : t[k] = before + k
      <4>1. m \in Int /\ \A k \in 1 .. m : k \in 1 .. Len(buf) /\ buf[k] \in Nat
        BY <1>1, <1>2, <1>3
      <4>2. /\ t \in Seq(Nat) /\ Len(t) = (IF 1 <= m THEN m - 1 + 1 ELSE 0)
            /\ \A k \in 1 .. m - 1 + 1 : t[k] = buf[1 + k - 1]
        BY <4>1, SubSeqProperties
      <4>3. m - 1 + 1 = m /\ \A k \in 1 .. m : 1 + k - 1 = k /\ k \in 1 .. Len(buf)
        BY <4>1
      <4> HIDE DEF t
      <4> QED  BY <1>3, <4>1, <4>2, <4>3
    <3> HIDE DEF t
    <3>5. ASSUME NEW d \in before + m + 1 .. before + Len(buf)
          PROVE  Bench!CutOff(d)
      <4>1. /\ m \in Nat /\ m < Len(buf) /\ m + 1 \in 1 .. Len(buf)
            /\ Len(buf) <= LOG_MAX_BUFFER_SIZE
        BY <1>1, <1>2, <3>5
      <4>2. before + m + 1 \in Nuls
        BY <1>1, <1>3, <3>3, <4>1
      <4>3. (before + m + 1 .. d - 1) \cap NewLines = {}
        <5> SUFFICES ASSUME NEW e \in before + m + 1 .. d - 1  PROVE e \notin NewLines
          OBVIOUS
        <5>1. e - before \in 1 .. Len(char_buffer) /\ before + (e - before) = e
          BY <1>1, <1>2, <3>5, <4>1
        <5> QED  BY <1>1, <5>1
      <4>4. before + m + 1 <= d /\ d < before + m + 1 + LOG_MAX_BUFFER_SIZE
        BY <1>1, <1>2, <3>5, <4>1
      <4> QED  BY <4>2, <4>3, <4>4 DEF Bench!CutOff
    <3>6. Kept(err', notified')
      <4>1. Len(buf) \in Nat /\ m <= Len(buf)
        BY <1>1, <1>2
      <4>2. Kept(err \o t, before + Len(buf))
        BY <1>1, <3>4, <3>5, <4>1, KeptLonger
      <4> QED  BY <1>0, <1>2, <3>1, <3>3, <4>2 DEF t
    <3>7. err' \in Seq(Nat) /\ char_buffer' \in Seq(Nat) /\ Len(char_buffer') = 0
          /\ DOMAIN char_buffer' = {}
      BY <1>1, <3>1, <3>3, <3>4, ConcatProperties DEF t
    <3>8. LogType' /\ Terminal'
      BY <1>0, <1>1, <2>1, <3>2, <3>7 DEF LogType, Terminal
    <3>9. notified' - Len(char_buffer') = notified'
      BY <1>0, <1>1, <3>7
    <3>10. Written'
      BY <1>0, <1>1, <2>1, <3>6, <3>7, <3>9 DEF Written
    <3> QED  BY <3>8, <3>10
  <2>2. CASE status_enabled /\ ~ (c \in NewLines \/ Len(buf) >= LOG_MAX_BUFFER_SIZE)
    <3>1. line' = line /\ in_status_line' = in_status_line /\ err' = err /\ char_buffer' = buf
      BY <1>0, <2>2 DEF Bench!notify_char, Bench!lineVars, buf
    <3>2. LogType' /\ Terminal'
      BY <1>0, <1>1, <1>2, <2>2, <3>1 DEF LogType, Terminal
    <3>3. Len(buf) < LOG_MAX_BUFFER_SIZE /\ notified' - Len(buf) = before
          /\ DOMAIN buf = 1 .. Len(buf)
      BY <1>0, <1>1, <1>2, <2>2, LenProperties
    <3>4. \A k \in 1 .. Len(buf) : buf[k] \notin NewLines
      <4> SUFFICES ASSUME NEW k \in 1 .. Len(buf)  PROVE buf[k] \notin NewLines
        OBVIOUS
      <4>1. k \in 1 .. Len(char_buffer) \/ k = Len(buf)
        BY <1>1, <1>2
      <4> QED  BY <1>1, <1>2, <2>2, <4>1
    <3>5. Written'
      BY <1>0, <1>1, <1>3, <2>2, <3>1, <3>3, <3>4 DEF Written
    <3> QED  BY <3>2, <3>5
  <2>3. CASE ~ status_enabled
    <3>1. err' = Append(err, c) /\ char_buffer' = char_buffer /\ char_buffer = << >>
          /\ line = "nothing" /\ line' = line /\ in_status_line' = in_status_line
      BY <1>0, <2>3 DEF Bench!notify_char, Terminal
    <3>2. err' \in Seq(Nat)
      BY <1>1, <3>1, AppendProperties
    <3>3. LogType' /\ Terminal'
      BY <1>0, <1>1, <2>3, <3>1, <3>2 DEF LogType, Terminal
    <3>4. err' = [k \in 1 .. notified' |-> k]
      <4>1. err = [k \in 1 .. notified |-> k]
        BY <2>3 DEF Written
      <4>2. Append([k \in 1 .. notified |-> k], notified + 1) = [k \in 1 .. notified + 1 |-> k]
        BY <1>1
      <4> QED  BY <1>0, <1>6, <3>1, <4>1, <4>2
    <3>5. Kept(err', notified')
      <4>1. DOMAIN err' = 1 .. notified' /\ \A k \in 1 .. notified' : err'[k] = k
        BY <3>4
      <4> QED  BY <1>0, <1>1, <4>1 DEF Kept
    <3>6. Len(char_buffer') = 0 /\ DOMAIN char_buffer' = {}
      BY <3>1
    <3>7. notified' - Len(char_buffer') = notified'
      BY <1>0, <1>1, <3>6
    <3>8. Written'
      BY <1>0, <1>1, <3>4, <3>5, <3>6, <3>7 DEF Written
    <3> QED  BY <3>3, <3>8
  <2>4. status_enabled \in BOOLEAN
    BY DEF LogType
  <2> QED  BY <2>1, <2>2, <2>3, <2>4
<1> QED  BY <1>5, <1>7

\* The threads; one that was told to end writes no line more.
LEMMA ThreadLog ==
  ASSUME LogInv, HooksInv', NEW i \in DOMAIN Tests,
         Bench!WorkerTest(i) \/ Bench!WorkerLook(i) \/ Bench!status_line(i)
  PROVE  LogInv'
<1> USE DEF LogInv
<1>0. /\ UNCHANGED <<mpc, test, defer_list, status_enabled, char_buffer, notified, err, told>>
      /\ i \in Nat /\ test \in Nat
  BY TestsDomain DEF Bench!WorkerTest, Bench!WorkerLook, Bench!status_line, Bench!logVars,
                     Bench!lineVars, Bench!charVars, HooksInv, Position
<1>1. Written' /\ NoStatusHook'
  BY <1>0 DEF Written, Kept, NoStatusHook
<1>2. \A j \in DOMAIN Tests : j # i => wpc'[j] = wpc[j] /\ stale'[j] = stale[j]
  BY DEF LogType, Bench!WorkerTest, Bench!WorkerLook, Bench!status_line, Bench!Goes
<1>3. CASE Bench!WorkerTest(i)
  <2>1. wpc[i] = "test" /\ wpc' = [wpc EXCEPT ![i] = IF told[i] THEN "ended" ELSE "look"]
        /\ UNCHANGED <<line, in_status_line, stale>>
    BY <1>3 DEF Bench!WorkerTest, Bench!Goes, Bench!lineVars
  <2>2. LogType' /\ Terminal'
    BY <1>0, <2>1 DEF LogType, Terminal
  <2>3. Threads'
    BY <1>0, <1>2, <2>1, TestsDomain DEF LogType, Threads
  <2> QED  BY <1>1, <2>2, <2>3
<1>4. CASE Bench!WorkerLook(i)
  <2>1. wpc[i] = "look"
        /\ wpc' = [wpc EXCEPT ![i] = IF status_enabled THEN "write" ELSE "test"]
        /\ UNCHANGED <<line, in_status_line, stale>>
    BY <1>4 DEF Bench!WorkerLook, Bench!Goes, Bench!lineVars
  <2>2. LogType' /\ Terminal'
    BY <1>0, <2>1 DEF LogType, Terminal
  <2>3. Threads'
    BY <1>0, <1>2, <2>1, TestsDomain DEF LogType, Threads
  <2> QED  BY <1>1, <2>2, <2>3
<1>5. CASE Bench!status_line(i)
  <2>1. /\ wpc[i] = "write" /\ wpc' = [wpc EXCEPT ![i] = "test"] /\ in_status_line' = TRUE
        /\ line' = IF line = "mixed" THEN line ELSE "status"
        /\ stale' = IF i = test THEN stale ELSE [stale EXCEPT ![i] = @ + 1]
    BY <1>5 DEF Bench!status_line, Bench!Goes
  <2>2. status_enabled /\ stale[i] = 0 /\ i <= test
    <3>1. stale[i] = 0
      BY <2>1 DEF Threads
    <3>2. i <= test
      BY <1>0, <2>1 DEF Threads
    <3>3. status_enabled
      BY <2>1 DEF Terminal
    <3> QED  BY <3>1, <3>2, <3>3
  <2>3. LogType' /\ Terminal'
    BY <1>0, <2>1, <2>2 DEF LogType, Terminal
  <2>4. Threads'
    BY <1>0, <1>2, <2>1, <2>2, TestsDomain DEF LogType, Threads
  <2> QED  BY <1>1, <2>3, <2>4
<1> QED  BY <1>3, <1>4, <1>5

LEMMA LogStep ==
  ASSUME LogInv, NoStatusPlugin, [InWorkers(Next) \/ InBench(Bench!Next)]_utilVars
  PROVE  LogInv'
<1>1. HooksInv'
  BY HooksStep DEF LogInv
<1>2. CASE InWorkers(Next) \/ UNCHANGED utilVars
  <2>1. UNCHANGED benchVars
    BY <1>2 DEF InWorkers, utilVars
  <2> QED  BY <1>1, <2>1 DEF benchVars, LogInv, LogType, NoStatusHook, Terminal, Threads,
                             Written
<1>3. ASSUME NEW i \in DOMAIN Tests,
             Bench!WorkerTest(i) \/ Bench!WorkerLook(i) \/ Bench!status_line(i)
      PROVE  LogInv'
  BY <1>1, <1>3, ThreadLog
<1> QED  BY <1>1, <1>2, <1>3, StartTestLog, HookSteps, InfoLog, StopWorkerLog, BodyWritesLog
         DEF InBench, Bench!Next, Bench!Main

\* What is on stderr and in the buffer, taken together.
LEMMA WrittenIsKept ==
  ASSUME LogType, Written
  PROVE  Bench!CharsKept
<1> DEFINE all == err \o char_buffer  before == notified - Len(char_buffer)
<1>1. /\ notified \in Nat /\ char_buffer \in Seq(Nat) /\ err \in Seq(Nat)
      /\ before \in Nat /\ Kept(err, before)
      /\ Len(char_buffer) \in Nat /\ DOMAIN char_buffer = 1 .. Len(char_buffer)
      /\ \A k \in 1 .. Len(char_buffer) : char_buffer[k] = before + k
  BY LenProperties DEF LogType, Written
<1>2. before + Len(char_buffer) = notified
      /\ before + Len(char_buffer) + 1 .. before + Len(char_buffer) = {}
  BY <1>1
<1>3. Kept(all, notified)
  <2> HIDE DEF before
  <2>1. \A c \in before + Len(char_buffer) + 1 .. before + Len(char_buffer) :
          Bench!CutOff(c)
    BY <1>2
  <2>2. Len(char_buffer) <= Len(char_buffer)
    BY <1>1
  <2>3. Kept(err \o char_buffer, before + Len(char_buffer))
    BY ONLY <1>1, <2>1, <2>2, KeptLonger
  <2> QED  BY <1>2, <2>3
<1> HIDE DEF all
<1>4. /\ \A i, j \in DOMAIN all : i < j => all[i] < all[j]
      /\ Bench!ToSet(all) \subseteq 1 .. notified
      /\ \A c \in 1 .. notified : c \in Bench!ToSet(all) \/ Bench!CutOff(c)
  BY <1>3 DEF Kept, Bench!ToSet
<1> QED  BY <1>4 DEF Written, Bench!CharsKept, all

\* For every list of tests none of which asks for the status line, and every way the
\* threads are scheduled, the log stays readable: no character is repeated or out of
\* order, none is lost but a NUL and what stands behind it in a buffered line, no text
\* stands behind a status line, and a thread writes at most one line about a test that
\* is over.
\* (common.cpp:167-174, 191-198, 223-257, 313-321; testbench.cpp:38-50)
THEOREM LogReadable ==
  ASSUME NoStatusPlugin
  PROVE  UtilSpec => []LogKept
<1>1. UtilInit => LogInv
  <2> SUFFICES ASSUME UtilInit  PROVE LogInv
    OBVIOUS
  <2> USE DEF UtilInit, Bench!Init
  <2>1. Len(Tests) \in Nat /\ << >> \in Seq(Hook) /\ << >> \in Seq(Nat)
    BY BenchAssumption
  <2>2. HooksInv
    BY <2>1 DEF HooksInv, Position, Stacked
  <2>3. LogType /\ NoStatusHook /\ Terminal
    <3>1. LogType
      BY <2>1 DEF LogType
    <3>2. NoStatusHook
      BY DEF NoStatusHook
    <3>3. Terminal
      BY DEF Terminal
    <3> QED  BY <3>1, <3>2, <3>3
  <2>4. Threads
    BY <2>1, TestsDomain DEF Threads
  <2>5. Written
    <3>1. [c \in 1 .. 0 |-> c] = << >> /\ Len(<< >>) = 0 /\ DOMAIN << >> = {}
      OBVIOUS
    <3>2. Kept(<< >>, 0)
      BY <3>1 DEF Kept
    <3> QED  BY <3>1, <3>2, BenchAssumption DEF Written
  <2> QED  BY <2>2, <2>3, <2>4, <2>5 DEF LogInv
<1>2. LogInv /\ [InWorkers(Next) \/ InBench(Bench!Next)]_utilVars => LogInv'
  BY LogStep
<1>3. LogInv => LogKept
  <2> SUFFICES ASSUME LogInv  PROVE LogKept
    OBVIOUS
  <2>1. \A i \in DOMAIN Tests : stale[i] <= 1
    BY DEF LogInv, Threads
  <2>2. Bench!CharsKept
    BY WrittenIsKept DEF LogInv
  <2> QED  BY <2>1, <2>2 DEF LogInv, Terminal, LogKept, Bench!LogKept
<1> QED  BY <1>1, <1>2, <1>3, PTL DEF UtilSpec
=============================================================================
