------------------------------- MODULE Arbiter ------------------------------
(***************************************************************************)
(* CBusArbiter.sv with the converters DBusToCBus.sv and IBusToCBus.sv: the *)
(* two buses of the core merged into one.  The arbiter registers only      *)
(* which input it serves; the request it forwards is the live one, and     *)
(* between two requests it forwards nothing for a cycle.                   *)
(***************************************************************************)
EXTENDS Core

VARIABLES
  busy,    \* a request is being forwarded
  index    \* whose: "D" for the data bus (input 0), "I" for the other

arbVars == <<busy, index>>

ArbiterInit == busy = FALSE /\ index = "D"

\* A fetch is a read of four bytes.
icreq == [NoRequest EXCEPT !.valid = ireq.valid, !.addr = ireq.addr]

\* Prevents early issue.
oreq == IF ~busy THEN NoRequest ELSE IF index = "D" THEN dreq ELSE icreq

\* Mutant: the first input is preferred without looking at its valid.
selectFirst == "D"

\* Select a preferred request.
select == IF ~dreq.valid /\ ireq.valid THEN "I" ELSE "D"
selected_req == IF select = "D" THEN dreq ELSE icreq

\* Mutant: no idle cycle between the end of a request and the next one.
ArbiterTickBackToBack(last) ==
  IF busy /\ ~last THEN UNCHANGED arbVars
  ELSE busy' = selected_req.valid /\ index' = select

ArbiterTick(last) ==
  IF busy
  THEN busy' = ~last /\ UNCHANGED index
  ELSE busy' = selected_req.valid /\ index' = select

\* The answers the core sees in a cycle whose response has last (and so ready);
\* only the input served is told.  What a fetch finds is arbitrary.
IAnswers(last) ==
  IF busy /\ index = "I" /\ last
  THEN {[ok |-> TRUE, instr |-> i] : i \in Instrs}
  ELSE {[ok |-> FALSE, instr |-> Bubble]}

\* As in Core, a table entry and the answer to a write carry no data of interest.
DAnswers(last, values) ==
  IF busy /\ index = "D" /\ last
  THEN {[ok |-> TRUE, data |-> v] : v \in IF dreq.walk \/ dreq.strobe THEN {0} ELSE values}
  ELSE {[ok |-> FALSE, data |-> 0]}
=============================================================================
