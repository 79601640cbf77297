------------------------------ MODULE Testbench ------------------------------
(***************************************************************************)
(* run_serial with the tests as the macros of testbench.h make them, and   *)
(* the log of common.cpp on the terminal.  A test is described by          *)
(*   plugins   what stands between WITH and its body                       *)
(*   chars     how many characters its program writes, numbered as they    *)
(*             are written                                                 *)
(* While a test runs, a thread writes a status line at intervals; it is    *)
(* told to end when the test is over (ThreadWorker).  Each function of the *)
(* log holds the lock of the log and is one step.                          *)
(***************************************************************************)
EXTENDS Integers, Sequences, SequencesExt

CONSTANTS
  Tests,                  \* test_list
  NewLines, Nuls,         \* which of the characters written are a '\n', a '\0'
  LOG_MAX_BUFFER_SIZE

VARIABLES
  mpc, test, plugin,   \* where the main thread is: step, test, plugin or hook
  defer_list,
  log_enabled, debug_enabled, status_enabled, in_status_line, char_buffer,
  wpc, raised,         \* of the thread of each test
  undone,              \* history: the hooks of the test that were run
  notified, err,       \* history: characters given to notify_char; on stderr
  line,                \* the status line: nothing of it, status, or mixed with text
  stale                \* history: lines written about each test after it was over

logVars == <<log_enabled, debug_enabled, status_enabled>>
lineVars == <<in_status_line, line>>
charVars == <<char_buffer, notified, err>>
threadVars == <<wpc, raised, stale>>
vars == <<mpc, test, plugin, defer_list, undone, logVars, lineVars, charVars, threadVars>>

Init ==
  /\ mpc = "start" /\ test = 1 /\ plugin = 1
  /\ defer_list = << >> /\ undone = << >>
  /\ log_enabled = TRUE /\ debug_enabled = FALSE /\ status_enabled \in BOOLEAN
  /\ in_status_line = FALSE /\ line = "nothing"
  /\ char_buffer = << >> /\ notified = 0 /\ err = << >>
  /\ wpc = [i \in DOMAIN Tests |-> "unborn"] /\ raised = [i \in DOMAIN Tests |-> FALSE]
  /\ stale = [i \in DOMAIN Tests |-> 0]

-----------------------------------------------------------------------------
(* The terminal *)

\* Mutant: the status line is not cleared.
WriteLineBehind ==
  /\ in_status_line' = FALSE
  /\ line' = IF line = "nothing" THEN "nothing" ELSE "mixed"

\* Text that ends its line, after check_status_line.
WriteLine ==
  /\ in_status_line' = FALSE
  /\ line' = IF in_status_line \/ line = "nothing" THEN "nothing" ELSE "mixed"

info == IF log_enabled THEN WriteLine ELSE UNCHANGED lineVars

\* Mutant: the buffer is not cleared.
flushedKeeps(buf) == buf

flushed(buf) == << >>

\* The part of a string that fputs writes ends before its first NUL.
fputs(buf) ==
  LET nuls == {k \in DOMAIN buf : buf[k] \in Nuls}
  IN IF nuls = {} THEN buf ELSE SubSeq(buf, 1, Min(nuls) - 1)

notify_char(c) ==
  /\ notified' = notified + 1
  /\ IF status_enabled
     THEN LET buf == Append(char_buffer, c)
          IN IF c \in NewLines \/ Len(buf) >= LOG_MAX_BUFFER_SIZE
             THEN WriteLine /\ err' = err \o fputs(buf) /\ char_buffer' = flushed(buf)
             ELSE UNCHANGED <<lineVars, err>> /\ char_buffer' = buf
     ELSE /\ err' = Append(err, c)
          /\ line' = IF line = "status" THEN "mixed" ELSE line
          /\ UNCHANGED <<in_status_line, char_buffer>>

-----------------------------------------------------------------------------
(* The main thread *)

StartTest ==
  /\ mpc = "start" /\ test <= Len(Tests)
  /\ mpc' = "pre"
  /\ wpc' = [wpc EXCEPT ![test] = "test"]
  /\ UNCHANGED <<test, plugin, defer_list, undone, logVars, lineVars, charVars, raised, stale>>

\* pre_fn, then the list is opened with post_fn in it.
Open ==
  /\ mpc = "pre"
  /\ mpc' = "plugins" /\ plugin' = 1
  /\ defer_list' = Append(defer_list, "post")
  /\ undone' = << >>
  /\ UNCHANGED <<test, logVars, lineVars, charVars, threadVars>>

Controls(name, b) ==
  /\ log_enabled' = IF name = "LOG" THEN b ELSE log_enabled
  /\ debug_enabled' = IF name = "DEBUG" THEN b ELSE debug_enabled
  /\ status_enabled' = IF name = "STATUS" THEN b ELSE status_enabled

Plugin ==
  /\ mpc = "plugins" /\ plugin <= Len(Tests[test].plugins)
  /\ LET name == Tests[test].plugins[plugin]
     IN IF name = "SKIP"
        THEN mpc' = "defers" /\ plugin' = Len(defer_list) /\ UNCHANGED <<defer_list, logVars>>
        ELSE /\ Controls(name, TRUE)
             /\ defer_list' = Append(defer_list, name)
             /\ plugin' = plugin + 1 /\ mpc' = mpc
  /\ UNCHANGED <<test, undone, lineVars, charVars, threadVars>>

BodyBegins ==
  /\ mpc = "plugins" /\ plugin > Len(Tests[test].plugins)
  /\ mpc' = "body" /\ plugin' = 1
  /\ UNCHANGED <<test, defer_list, undone, logVars, lineVars, charVars, threadVars>>

BodyWrites ==
  /\ mpc = "body" /\ plugin <= Tests[test].chars
  /\ notify_char(notified + 1)
  /\ plugin' = plugin + 1
  /\ UNCHANGED <<mpc, test, defer_list, undone, logVars, threadVars>>

BodyEnds ==
  /\ mpc = "body" /\ plugin > Tests[test].chars
  /\ mpc' = "defers" /\ plugin' = Len(defer_list)
  /\ UNCHANGED <<test, defer_list, undone, logVars, lineVars, charVars, threadVars>>

RunDefer ==
  /\ mpc = "defers" /\ plugin >= 1
  /\ Controls(defer_list[plugin], FALSE)
  /\ undone' = Append(undone, defer_list[plugin])
  /\ plugin' = plugin - 1
  /\ UNCHANGED <<mpc, test, defer_list, lineVars, charVars, threadVars>>

\* Mutant: the list of the last test is kept.
clearedList == defer_list

emptied == << >>

Close ==
  /\ mpc = "defers" /\ plugin = 0
  /\ mpc' = "report"
  /\ defer_list' = emptied
  /\ UNCHANGED <<test, plugin, undone, logVars, lineVars, charVars, threadVars>>

Report ==
  /\ mpc = "report"
  /\ info
  /\ mpc' = "stop"
  /\ UNCHANGED <<test, plugin, defer_list, undone, logVars, charVars, threadVars>>

\* Mutant: the worker is left alone.
toldToEndNot == raised

toldToEnd == [raised EXCEPT ![test] = TRUE]

StopWorker ==
  /\ mpc = "stop"
  /\ raised' = toldToEnd
  /\ test' = test + 1 /\ mpc' = "start"
  /\ UNCHANGED <<plugin, defer_list, undone, logVars, lineVars, charVars, wpc, stale>>

Total ==
  /\ mpc = "start" /\ test > Len(Tests)
  /\ info
  /\ mpc' = "done"
  /\ UNCHANGED <<test, plugin, defer_list, undone, logVars, charVars, threadVars>>

-----------------------------------------------------------------------------
(* The thread of test i.  It may be overtaken anywhere: by a change of     *)
(* status_enabled between its look at it and the line, and by the end of   *)
(* its test.                                                               *)

Goes(i, from, to) == mpc # "done" /\ wpc[i] = from /\ wpc' = [wpc EXCEPT ![i] = to]

WorkerTest(i) ==
  /\ Goes(i, "test", IF raised[i] THEN "ended" ELSE "look")
  /\ UNCHANGED <<mpc, test, plugin, defer_list, undone, logVars, lineVars, charVars, raised, stale>>

WorkerLook(i) ==
  /\ Goes(i, "look", IF status_enabled THEN "write" ELSE "test")
  /\ UNCHANGED <<mpc, test, plugin, defer_list, undone, logVars, lineVars, charVars, raised, stale>>

status_line(i) ==
  /\ Goes(i, "write", "test")
  /\ in_status_line' = TRUE
  /\ line' = IF line = "mixed" THEN line ELSE "status"
  /\ stale' = IF i = test THEN stale ELSE [stale EXCEPT ![i] = @ + 1]
  /\ UNCHANGED <<mpc, test, plugin, defer_list, undone, logVars, charVars, raised>>

-----------------------------------------------------------------------------
Main ==
  \/ StartTest \/ Open \/ Plugin \/ BodyBegins \/ BodyWrites \/ BodyEnds
  \/ RunDefer \/ Close \/ Report \/ StopWorker \/ Total

Next == Main \/ \E i \in DOMAIN Tests : WorkerTest(i) \/ WorkerLook(i) \/ status_line(i)

Spec == Init /\ [][Next]_vars

-----------------------------------------------------------------------------
\* What a test has set up: its plugins as far as they are reached.
Deferred(t) ==
  LET ps == Tests[t].plugins
      skips == {k \in DOMAIN ps : ps[k] = "SKIP"}
      upto == IF skips = {} THEN Len(ps) ELSE (CHOOSE k \in skips : \A j \in skips : k <= j) - 1
  IN <<"post">> \o SubSeq(ps, 1, upto)

\* "defer_list acts like a stack": a test that ends, also one that skips itself
\* in the middle of its plugins, has undone exactly what it set up, in the
\* opposite order, and leaves no hook to the next one.
\* (testbench.cpp:20-36, 270-285; testbench.h:98-141)
HooksUndone ==
  /\ mpc = "report" => undone = Reverse(Deferred(test))
  /\ mpc = "pre" => defer_list = << >>

\* A NUL takes with it what follows it in the buffer, the rest of its line at most.
CutOff(c) ==
  \E n \in Nuls : /\ n <= c /\ c < n + LOG_MAX_BUFFER_SIZE
                  /\ (n .. c - 1) \cap NewLines = {}

\* What the program writes is on stderr or in the buffer, in order and once, but for what
\* a NUL cuts off; without the status line nothing is cut off.  The buffer is never full
\* and never holds a finished line.
CharsKept ==
  /\ LET all == err \o char_buffer
     IN /\ \A i, j \in DOMAIN all : i < j => all[i] < all[j]
        /\ ToSet(all) \subseteq 1 .. notified
        /\ \A c \in 1 .. notified : c \in ToSet(all) \/ CutOff(c)
  /\ ~ status_enabled => err = [c \in 1 .. notified |-> c]
  /\ Len(char_buffer) < LOG_MAX_BUFFER_SIZE
  /\ \A k \in DOMAIN char_buffer : char_buffer[k] \notin NewLines

\* The log stays readable, whichever thread writes: no character is repeated or out of
\* order, none is lost but a NUL and what stands behind it in a buffered line, no text is
\* written behind a status line, and a thread writes at most one line about a test that
\* is over.
\* (common.cpp:167-174, 191-198, 223-257; 313-321; testbench.cpp:38-50)
LogKept == /\ CharsKept
           /\ line # "mixed"
           /\ \A i \in DOMAIN Tests : stale[i] <= 1
=============================================================================
