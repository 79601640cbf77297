------------------------------ MODULE AxiBridge ------------------------------
(***************************************************************************)
(* CBusToAXI.sv, which turns requests of the cache bus into the five       *)
(* channels of AXI, with an AXI memory behind it.  A step is a clock edge. *)
(* The memory accepts addresses and data in any cycle and any order, sends *)
(* the beats of a read in order once it has the address, and acknowledges  *)
(* a write once it has address and data; only then are they in its RAM.    *)
(***************************************************************************)
EXTENDS CBus

VARIABLES
  in_issue,    \* the channels the current request still needs
  saved_req,   \* the request when it was taken: the part of it that the source uses
  count,       \* beats left after the current one
  mem, rbeat,             \* the memory: RAM, beats sent
  staged, wbeat,          \* RAM with the beats of the write under way, beats received
  creq, answer            \* the requester's request, the last word it read

vars == <<in_issue, saved_req, count, mem, rbeat, staged, wbeat, creq, answer>>

Channel == {"AR", "R", "AW", "W", "B"}

Saved(r) ==
  IF r.valid THEN [valid |-> TRUE, size |-> r.size, addr |-> r.addr, len |-> r.len] ELSE r

next_issue == IF creq.is_write THEN {"AW", "W", "B"} ELSE {"AR", "R"}

\* Mutant: the acknowledgement of a write is not waited for.
busyNoB == in_issue \ {"B"} # {}

busy == in_issue # {}

is_last == count = 0
wlast == is_last
rlast == rbeat = saved_req.len

\* What the memory can do: answer a read whose address it has, acknowledge a
\* write of which it has everything, accept anything.
handshakes ==
  {S \in SUBSET in_issue : /\ "R" \in S => "AR" \notin in_issue
                           /\ "B" \in S => "AW" \notin in_issue /\ "W" \notin in_issue}

\* Mutant: the first beat of a burst ends it.
endedAtOnce(handshake) == handshake

ended(handshake) ==
  handshake \ ((IF rlast THEN {} ELSE {"R"}) \cup (IF wlast THEN {} ELSE {"W"}))

cresp_ready(handshake) == "W" \in handshake \/ "R" \in handshake

cresp_last(handshake) ==
  /\ cresp_ready(handshake)
  /\ "R" \in in_issue => rlast
  /\ is_last

\* Mutant: the counter runs with the cycles, not with the answers.
countNextEvery(ready, last) == IF ~last THEN count - 1 ELSE count

countNext(ready, last) == IF ready /\ ~last THEN count - 1 ELSE count

Init ==
  /\ in_issue = {} /\ saved_req = NoReq /\ count = 0
  /\ mem = [c \in Cell |-> 0] /\ rbeat = 0
  /\ staged = mem /\ wbeat = 0
  /\ creq = NoReq /\ answer = [l \in Lane |-> 0]

\* The request is taken; its address goes out from the next cycle on.
Take ==
  /\ ~busy
  /\ in_issue' = IF creq.valid THEN next_issue ELSE {}
  /\ saved_req' = Saved(creq)
  /\ count' = IF creq.valid THEN creq.len ELSE 0
  /\ rbeat' = 0 /\ wbeat' = 0
  /\ creq' \in NextReqs(creq, FALSE, FALSE)
  /\ UNCHANGED <<mem, staged, answer>>

\* handshake: the channels on which both sides agree in this cycle.
Exchange(handshake) ==
  LET ready == cresp_ready(handshake)
      last == cresp_last(handshake)
  IN /\ busy
     /\ in_issue' = in_issue \ ended(handshake)
     /\ count' = countNext(ready, last)
     /\ rbeat' = IF "R" \notin handshake THEN rbeat ELSE IF rlast THEN 0 ELSE rbeat + 1
     /\ answer' = IF "R" \in handshake THEN Word(mem, BeatAddr(saved_req, rbeat)) ELSE answer
     /\ staged' = IF "W" \in handshake THEN Written(staged, BeatAddr(saved_req, wbeat), creq)
                  ELSE staged
     /\ wbeat' = IF "W" \in handshake THEN wbeat + 1 ELSE wbeat
     /\ mem' = IF "B" \in handshake THEN staged ELSE mem
     /\ creq' \in NextReqs(creq, ready, last)
     /\ UNCHANGED saved_req

\* A cycle in which the bridge gets on: a channel does, if it is busy.
Progress == Take \/ \E S \in handshakes \ {{}} : Exchange(S)

Next == Take \/ \E S \in handshakes : Exchange(S)

Spec == Init /\ [][Next]_vars

-----------------------------------------------------------------------------
\* A read or a write is never answered before the writes that came first are
\* in the RAM, though the bridge answers a write when its last beat is handed
\* over: seen from the bus it is a memory.  (CBusToAXI.sv:94-98, 149-161)
BridgeRAM == INSTANCE BurstMemory WITH
  req <- creq,
  ram <- staged,
  beats <- IF "R" \in in_issue \/ "W" \in in_issue THEN saved_req.len - count ELSE 0
BridgeImplementsBurstMemory == BridgeRAM!BurstSpec

\* A request is answered to its last beat and the bridge is free for the next.
\* (CBusToAXI.sv:150-156)
BridgeFree == /\ creq.valid ~> is_last /\ ("R" \in in_issue \/ "W" \in in_issue)
              /\ busy ~> ~busy
=============================================================================
