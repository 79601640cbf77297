--------------------------- MODULE AxiBridgeProofs ---------------------------
(***************************************************************************)
(* The bridge and the AXI memory behind it are one burst memory, for every *)
(* size of word and RAM and all bursts, however the channels interleave.   *)
(***************************************************************************)
EXTENDS MCBuses, TLAPS

Requests == Bridge!Reads \cup Bridge!Writes

\* Beats of the request in the bridge that have been answered.
Done == saved_req.len - count

\* While a data channel is needed, the bridge serves the request on the bus and
\* counts its beats as the memory does.
Serving ==
  "R" \in in_issue \/ "W" \in in_issue =>
    /\ creq \in Requests
    /\ saved_req = Bridge!Saved(creq)
    /\ count \in 0 .. creq.len
    /\ "R" \in in_issue => ~creq.is_write /\ rbeat = creq.len - count
    /\ "W" \in in_issue => creq.is_write /\ wbeat = creq.len - count

\* A request needs the channels of a read or those of a write, a data channel as
\* long as there are beats; a write that is over is in the RAM.
Channels ==
  /\ in_issue \subseteq {"AR", "R"} \/ in_issue \subseteq {"AW", "W", "B"}
  /\ "AR" \in in_issue => "R" \in in_issue
  /\ "W" \in in_issue => "B" \in in_issue
  /\ "B" \notin in_issue => staged = axi_mem

BridgeInv ==
  /\ creq \in {Bridge!NoReq} \cup Requests
  /\ Channels
  /\ Serving

-----------------------------------------------------------------------------
LEMMA RequestFields ==
  ASSUME NEW r \in Requests
  PROVE  /\ r.valid /\ r.is_write \in BOOLEAN
         /\ r.len \in Nat /\ r.size \in Sizes /\ r.addr \in Addrs
         /\ Bridge!Saved(r) = [valid |-> TRUE, size |-> r.size, addr |-> r.addr, len |-> r.len]
BY CBusAssumption DEF Requests, Bridge!Reads, Bridge!Writes, Bridge!Saved

\* A request without an answer stays; one with an answer, but not the last, keeps
\* all that the bridge has saved of it.
LEMMA NextRequest ==
  ASSUME NEW r \in {Bridge!NoReq} \cup Requests, NEW answered \in BOOLEAN, NEW over \in BOOLEAN,
         NEW q \in Bridge!NextReqs(r, answered, over)
  PROVE  /\ q \in {Bridge!NoReq} \cup Requests
         /\ r.valid /\ ~answered => q = r
         /\ r.valid /\ ~over => q \in Requests /\ q.is_write = r.is_write
                              /\ Bridge!Saved(q) = Bridge!Saved(r)
<1>1. CASE r = Bridge!NoReq
  BY <1>1 DEF Bridge!NoReq, Bridge!NextReqs, Requests
<1>2. CASE r \in Requests
  <2>1. r.valid /\ r.is_write \in BOOLEAN
    BY <1>2, RequestFields
  <2>2. \A w \in Bridge!OtherBeats(r) :
          w \in Requests /\ w.is_write = r.is_write /\ Bridge!Saved(w) = Bridge!Saved(r)
    BY <1>2, <2>1 DEF Bridge!OtherBeats, Requests, Bridge!Reads, Bridge!Writes, Bridge!Saved
  <2> QED BY <1>2, <2>1, <2>2 DEF Bridge!NextReqs, Requests
<1> QED BY <1>1, <1>2

LEMMA InvInit == ASSUME Bridge!Init PROVE BridgeInv
BY DEF Bridge!Init, BridgeInv, Channels, Serving

LEMMA TakeStep == ASSUME BridgeInv, Bridge!Take PROVE BridgeInv'
<1>1. creq' \in {Bridge!NoReq} \cup Requests /\ (creq.valid => creq' = creq)
  BY NextRequest DEF BridgeInv, Bridge!Take
<1>2. CASE creq.valid
  <2>1. creq \in Requests /\ creq' = creq
    BY <1>1, <1>2 DEF BridgeInv, Bridge!NoReq
  <2>2. /\ in_issue' = Bridge!next_issue /\ saved_req' = Bridge!Saved(creq)
        /\ count' = creq.len /\ rbeat' = 0 /\ wbeat' = 0
    BY <1>2 DEF Bridge!Take
  <2>3. creq.is_write \in BOOLEAN /\ creq.len \in Nat
    BY <2>1, RequestFields
  <2>4. Serving'
    BY <2>1, <2>2, <2>3 DEF Serving, Bridge!next_issue
  <2>5. Channels'
    BY <2>2 DEF Channels, Bridge!next_issue, BridgeInv, Bridge!Take, Bridge!busy
  <2> QED BY <1>1, <2>4, <2>5 DEF BridgeInv
<1>3. CASE ~creq.valid
  BY <1>1, <1>3 DEF BridgeInv, Bridge!Take, Serving, Channels, Bridge!busy
<1> QED BY <1>2, <1>3

\* What a cycle does that exchanges no beat of data, and one that does.
LEMMA QuietCycle ==
  ASSUME BridgeInv, NEW S \in Bridge!handshakes, Bridge!Exchange(S), "R" \notin S, "W" \notin S
  PROVE  /\ creq' \in Bridge!NextReqs(creq, FALSE, FALSE)
         /\ UNCHANGED <<staged, saved_req, count, rbeat, wbeat, canswer>>
         /\ "R" \in in_issue' <=> "R" \in in_issue
         /\ "W" \in in_issue' <=> "W" \in in_issue
BY DEF Bridge!Exchange, Bridge!cresp_ready, Bridge!cresp_last, Bridge!ended, Bridge!countNext

LEMMA BeatCycle ==
  ASSUME BridgeInv, NEW S \in Bridge!handshakes, Bridge!Exchange(S), "R" \in S \/ "W" \in S
  PROVE  /\ "R" \in in_issue \/ "W" \in in_issue
         /\ creq' \in Bridge!NextReqs(creq, TRUE, count = 0)
         /\ count' = IF count = 0 THEN count ELSE count - 1
         /\ UNCHANGED saved_req
         /\ "R" \in S <=> "R" \in in_issue
         /\ "W" \in S <=> "W" \in in_issue
         /\ "R" \in in_issue' <=> "R" \in in_issue /\ count # 0
         /\ "W" \in in_issue' <=> "W" \in in_issue /\ count # 0
         /\ "R" \in S => rbeat' = (IF count = 0 THEN 0 ELSE rbeat + 1) /\ UNCHANGED <<staged, wbeat>>
         /\ "W" \in S => wbeat' = wbeat + 1 /\ UNCHANGED <<rbeat, canswer>>
<1>1. S \in SUBSET in_issue
  BY DEF Bridge!handshakes
<1>2. Serving /\ Channels
  BY DEF BridgeInv
<1>3. "R" \in in_issue \/ "W" \in in_issue
  BY <1>1
<1>4. ~("R" \in in_issue /\ "W" \in in_issue)
  BY <1>2 DEF Channels
<1>5. "R" \in in_issue => (Bridge!rlast <=> count = 0)
  <2> SUFFICES ASSUME "R" \in in_issue PROVE Bridge!rlast <=> count = 0
    OBVIOUS
  <2>1. rbeat = creq.len - count /\ creq \in Requests /\ count \in 0 .. creq.len
        /\ saved_req = Bridge!Saved(creq)
    BY <1>2 DEF Serving
  <2>2. creq.len \in Nat /\ saved_req.len = creq.len
    BY <2>1, RequestFields
  <2> QED BY <2>1, <2>2 DEF Bridge!rlast
<1>6. Bridge!cresp_ready(S) = TRUE /\ (Bridge!cresp_last(S) <=> count = 0)
  BY <1>5 DEF Bridge!cresp_ready, Bridge!cresp_last, Bridge!is_last
<1>7. Bridge!cresp_last(S) = (count = 0)
  BY <1>6 DEF Bridge!cresp_last
<1> QED BY <1>1, <1>3, <1>4, <1>5, <1>6, <1>7
        DEF Bridge!Exchange, Bridge!ended, Bridge!countNext, Bridge!wlast, Bridge!is_last

LEMMA ExchangeStep ==
  ASSUME BridgeInv, NEW S \in Bridge!handshakes, Bridge!Exchange(S)
  PROVE  BridgeInv'
<1>1. Serving /\ Channels /\ creq \in {Bridge!NoReq} \cup Requests /\ S \subseteq in_issue
  BY DEF BridgeInv, Bridge!handshakes
<1>2. Channels'
  <2>1. in_issue' = in_issue \ Bridge!ended(S) /\ Bridge!ended(S) \subseteq S
    BY DEF Bridge!Exchange, Bridge!ended
  <2>2. /\ "B" \in S => "AW" \notin in_issue /\ "W" \notin in_issue
        /\ "R" \in S => "AR" \notin in_issue
    BY DEF Bridge!handshakes
  <2>3. "B" \in S => "B" \notin in_issue' /\ "W" \notin S /\ axi_mem' = staged /\ staged' = staged
    BY <1>1, <2>1, <2>2 DEF Bridge!Exchange, Bridge!ended
  <2>4. "B" \notin in_issue => "W" \notin S /\ axi_mem' = axi_mem /\ staged' = staged
    BY <1>1 DEF Bridge!Exchange, Channels
  <2>5. "B" \in in_issue' \/ "B" \in S \/ "B" \notin in_issue
    BY <2>1
  <2>6. "B" \notin in_issue' => staged' = axi_mem'
    BY <1>1, <2>3, <2>4, <2>5 DEF Channels
  <2>7. "AR" \in in_issue' => "R" \in in_issue'
    BY <1>1, <2>1, <2>2 DEF Channels
  <2>8. "W" \in in_issue' => "B" \in in_issue'
    BY <1>1, <2>1, <2>2 DEF Channels
  <2>9. in_issue' \subseteq {"AR", "R"} \/ in_issue' \subseteq {"AW", "W", "B"}
    BY <1>1, <2>1 DEF Channels
  <2> QED BY <2>6, <2>7, <2>8, <2>9 DEF Channels
<1>3. creq' \in {Bridge!NoReq} \cup Requests /\ Serving'
  <2>1. CASE "R" \notin S /\ "W" \notin S
    <3>1. /\ creq' \in Bridge!NextReqs(creq, FALSE, FALSE)
          /\ UNCHANGED <<staged, saved_req, count, rbeat, wbeat, canswer>>
          /\ "R" \in in_issue' <=> "R" \in in_issue
          /\ "W" \in in_issue' <=> "W" \in in_issue
      BY <2>1, QuietCycle
    <3>2. creq' \in {Bridge!NoReq} \cup Requests /\ (creq.valid => creq' = creq)
      BY <1>1, <3>1, NextRequest
    <3> QED BY <1>1, <3>1, <3>2, RequestFields DEF Serving
  <2>2. CASE "R" \in S \/ "W" \in S
    <3>1. /\ "R" \in in_issue \/ "W" \in in_issue
          /\ creq' \in Bridge!NextReqs(creq, TRUE, count = 0)
          /\ count' = IF count = 0 THEN count ELSE count - 1
          /\ UNCHANGED saved_req
          /\ "R" \in S <=> "R" \in in_issue
          /\ "W" \in S <=> "W" \in in_issue
          /\ "R" \in in_issue' <=> "R" \in in_issue /\ count # 0
          /\ "W" \in in_issue' <=> "W" \in in_issue /\ count # 0
          /\ "R" \in S => rbeat' = IF count = 0 THEN 0 ELSE rbeat + 1
          /\ "W" \in S => wbeat' = wbeat + 1
      BY <2>2, BeatCycle
    <3>2. creq \in Requests /\ saved_req = Bridge!Saved(creq) /\ count \in 0 .. creq.len
          /\ creq.len \in Nat /\ creq.valid
      BY <1>1, <3>1, RequestFields DEF Serving
    <3>3. creq' \in {Bridge!NoReq} \cup Requests
          /\ (count # 0 => creq' \in Requests /\ creq'.is_write = creq.is_write
                           /\ Bridge!Saved(creq') = Bridge!Saved(creq))
      BY <3>1, <3>2, NextRequest
    <3>4. count # 0 => creq'.len = creq.len
      BY <3>2, <3>3, RequestFields
    <3>5. ASSUME "R" \in in_issue' \/ "W" \in in_issue' PROVE Serving'
      <4>1. count # 0
        BY <3>1, <3>5
      <4>2. /\ "R" \in in_issue => rbeat = creq.len - count /\ ~creq.is_write
            /\ "W" \in in_issue => wbeat = creq.len - count /\ creq.is_write
        BY <1>1 DEF Serving
      <4> QED BY <3>1, <3>2, <3>3, <3>4, <4>1, <4>2 DEF Serving
    <3>6. ~("R" \in in_issue' \/ "W" \in in_issue') => Serving'
      BY DEF Serving
    <3> QED BY <3>3, <3>5, <3>6
  <2> QED BY <2>1, <2>2
<1> QED BY <1>2, <1>3 DEF BridgeInv

LEMMA InvStep == ASSUME BridgeInv, [Bridge!Next]_Bridge!vars PROVE BridgeInv'
<1>1. CASE UNCHANGED Bridge!vars
  BY <1>1 DEF Bridge!vars, BridgeInv, Channels, Serving
<1> QED BY <1>1, TakeStep, ExchangeStep DEF Bridge!Next

\* A step of the whole is one of the bridge or leaves it alone.
LEMMA BridgeSteps == [BusesNext]_busesVars => [Bridge!Next]_Bridge!vars
BY DEF BusesNext, Device, InBridge, InMemory, busesVars, bridgeVars, Bridge!vars

\* The bridge serves the request on the bus, beat by beat, and what it has taken
\* of a write reaches the RAM before the next request.  (CBusToAXI.sv:82-98, 148-161)
THEOREM BridgeInvariance == BusesSpec => []BridgeInv
<1>1. BusesInit => BridgeInv
  BY InvInit DEF BusesInit
<1>2. BridgeInv /\ [BusesNext]_busesVars => BridgeInv'
  BY InvStep, BridgeSteps
<1> QED BY <1>1, <1>2, PTL DEF BusesSpec

-----------------------------------------------------------------------------
\* The beats answered, as BurstMemory counts them.
Beats == IF "R" \in in_issue \/ "W" \in in_issue THEN saved_req.len - count ELSE 0

LEMMA SameRequests ==
  ASSUME NEW r, NEW f \in BOOLEAN, NEW l \in BOOLEAN, NEW q \in Bridge!NextReqs(r, f, l)
  PROVE  q \in Bridge!BridgeRAM!NextReqs(r, f, l)
BY DEF Bridge!BridgeRAM!NextReqs, Bridge!NextReqs, Bridge!BridgeRAM!OtherBeats,
     Bridge!OtherBeats, Bridge!BridgeRAM!NoReq, Bridge!NoReq,
   Bridge!BridgeRAM!Reads, Bridge!Reads, Bridge!BridgeRAM!Writes, Bridge!Writes

LEMMA SameOperators ==
  ASSUME NEW r, NEW m, NEW a
  PROVE  /\ Bridge!BridgeRAM!BeatAddr(r, a) = Bridge!BeatAddr(r, a)
         /\ Bridge!BridgeRAM!Word(m, a) = Bridge!Word(m, a)
         /\ Bridge!BridgeRAM!Written(m, a, r) = Bridge!Written(m, a, r)
<1>1. Bridge!BridgeRAM!BeatAddr(r, a) = Bridge!BeatAddr(r, a)
  BY Zenon DEF Bridge!BridgeRAM!BeatAddr, Bridge!BeatAddr
<1>2. /\ Bridge!BridgeRAM!Word(m, a) = Bridge!Word(m, a)
      /\ Bridge!BridgeRAM!Written(m, a, r) = Bridge!Written(m, a, r)
  BY Zenon DEF Bridge!BridgeRAM!Word, Bridge!Word, Bridge!BridgeRAM!Written, Bridge!Written,
     Bridge!BridgeRAM!Lane, Bridge!Lane,
     Bridge!BridgeRAM!Cell, Bridge!Cell
<1> QED BY <1>1, <1>2

\* A cycle without an answer: at most the requester makes a request.
LEMMA Unanswered ==
  ASSUME BridgeInv, creq' \in Bridge!NextReqs(creq, FALSE, FALSE),
         staged' = staged, Beats' = Beats, canswer' = canswer
  PROVE  Bridge!BridgeRAM!Request \/ UNCHANGED Bridge!BridgeRAM!burstVars
<1>1. CASE creq.valid
  <2>1. creq' = creq
    BY <1>1, NextRequest DEF BridgeInv
  <2> QED BY <2>1 DEF Bridge!BridgeRAM!burstVars, Beats
<1>2. CASE ~creq.valid
  <2>1. creq' \in Bridge!BridgeRAM!NextReqs(creq, FALSE, FALSE)
    BY SameRequests
  <2> QED BY <1>2, <2>1 DEF Bridge!BridgeRAM!Request, Beats
<1> QED BY <1>1, <1>2

LEMMA TakeMaps ==
  ASSUME BridgeInv, Bridge!Take
  PROVE  Bridge!BridgeRAM!Request \/ UNCHANGED Bridge!BridgeRAM!burstVars
<1>1. Beats = 0 /\ staged' = staged /\ canswer' = canswer
  BY DEF Bridge!Take, Bridge!busy, Beats
<1>2. Beats' = 0
  <2>1. CASE creq.valid
    <3>1. creq \in Requests /\ creq.len \in Nat
      BY <2>1, RequestFields DEF BridgeInv, Bridge!NoReq
    <3>2. saved_req'.len = creq.len /\ count' = creq.len
      BY <2>1, <3>1, RequestFields DEF Bridge!Take
    <3> QED BY <3>1, <3>2 DEF Beats
  <2>2. CASE ~creq.valid
    BY <2>2 DEF Bridge!Take, Beats
  <2> QED BY <2>1, <2>2
<1>3. creq' \in Bridge!NextReqs(creq, FALSE, FALSE)
  BY DEF Bridge!Take
<1> QED BY <1>1, <1>2, <1>3, Unanswered

LEMMA QuietMaps ==
  ASSUME BridgeInv, NEW S \in Bridge!handshakes, Bridge!Exchange(S), "R" \notin S, "W" \notin S
  PROVE  Bridge!BridgeRAM!Request \/ UNCHANGED Bridge!BridgeRAM!burstVars
<1>1. creq' \in Bridge!NextReqs(creq, FALSE, FALSE) /\ UNCHANGED <<staged, Beats, canswer>>
  BY QuietCycle DEF Beats
<1> QED BY <1>1, Unanswered

\* A beat of data on either channel is a beat of the burst: a read sees RAM in
\* which every earlier write has arrived.
LEMMA BeatMaps ==
  ASSUME BridgeInv, NEW S \in Bridge!handshakes, Bridge!Exchange(S), "R" \in S \/ "W" \in S
  PROVE  Bridge!BridgeRAM!Beat
<1>1. /\ "R" \in in_issue \/ "W" \in in_issue
      /\ creq' \in Bridge!NextReqs(creq, TRUE, count = 0)
      /\ count' = IF count = 0 THEN count ELSE count - 1
      /\ UNCHANGED saved_req
      /\ "R" \in S <=> "R" \in in_issue
      /\ "W" \in S <=> "W" \in in_issue
      /\ "R" \in in_issue' <=> "R" \in in_issue /\ count # 0
      /\ "W" \in in_issue' <=> "W" \in in_issue /\ count # 0
      /\ "R" \in S => UNCHANGED staged
      /\ "W" \in S => UNCHANGED canswer
  BY BeatCycle
<1>2. /\ creq \in Requests /\ saved_req = Bridge!Saved(creq) /\ count \in 0 .. creq.len
      /\ "R" \in in_issue => ~creq.is_write /\ rbeat = creq.len - count /\ staged = axi_mem
      /\ "W" \in in_issue => creq.is_write /\ wbeat = creq.len - count
  BY <1>1 DEF BridgeInv, Serving, Channels
<1>3. /\ creq.valid /\ creq.len \in Nat /\ saved_req.len = creq.len
      /\ saved_req.addr = creq.addr /\ saved_req.size = creq.size
  BY <1>2, RequestFields
<1> DEFINE n == creq.len - count
           a == Bridge!BridgeRAM!BeatAddr(creq, n)
<1>4. Beats = n /\ (n = creq.len <=> count = 0)
  BY <1>1, <1>2, <1>3 DEF Beats
<1>5. Beats' = IF n = creq.len THEN 0 ELSE n + 1
  BY <1>1, <1>2, <1>3 DEF Beats
<1>6. a = Bridge!BeatAddr(saved_req, n)
  <2>1. Bridge!BeatAddr(saved_req, n) = Bridge!BeatAddr(creq, n)
    BY <1>3, Zenon DEF Bridge!BeatAddr
  <2> QED BY <2>1, SameOperators, Zenon
<1>7. CASE "W" \in S
  <2>1. /\ staged' = Bridge!Written(staged, Bridge!BeatAddr(saved_req, wbeat), creq)
        /\ wbeat = n /\ creq.is_write
    BY <1>1, <1>2, <1>7 DEF Bridge!Exchange
  <2>2. staged' = Bridge!BridgeRAM!Written(staged, a, creq)
    BY <1>6, <2>1, SameOperators, Zenon
  <2>3. creq' \in Bridge!BridgeRAM!NextReqs(creq, TRUE, n = creq.len)
    <3>1. creq' \in Bridge!NextReqs(creq, TRUE, n = creq.len)
      BY <1>1, <1>4 DEF Bridge!NextReqs
    <3> QED BY <3>1, SameRequests
  <2>4. /\ staged' = Bridge!BridgeRAM!Written(staged, Bridge!BridgeRAM!BeatAddr(creq, Beats), creq)
          /\ UNCHANGED canswer /\ creq.is_write
    BY <1>1, <1>4, <1>7, <2>1, <2>2
  <2>5. /\ creq' \in Bridge!BridgeRAM!NextReqs(creq, TRUE, Beats = creq.len)
        /\ Beats' = IF Beats = creq.len THEN 0 ELSE Beats + 1
    BY <1>4, <1>5, <2>3
  <2> HIDE DEF n, a
  <2> QED BY <1>3, <2>4, <2>5 DEF Bridge!BridgeRAM!Beat, Beats
<1>8. CASE "R" \in S
  <2>1. /\ canswer' = Bridge!Word(axi_mem, Bridge!BeatAddr(saved_req, rbeat))
        /\ rbeat = n /\ ~creq.is_write /\ axi_mem = staged
    BY <1>1, <1>2, <1>8 DEF Bridge!Exchange
  <2>2. canswer' = Bridge!BridgeRAM!Word(staged, a)
    BY <1>6, <2>1, SameOperators, Zenon
  <2>3. creq' \in Bridge!BridgeRAM!NextReqs(creq, TRUE, n = creq.len)
    <3>1. creq' \in Bridge!NextReqs(creq, TRUE, n = creq.len)
      BY <1>1, <1>4 DEF Bridge!NextReqs
    <3> QED BY <3>1, SameRequests
  <2>4. /\ canswer' = Bridge!BridgeRAM!Word(staged, Bridge!BridgeRAM!BeatAddr(creq, Beats))
          /\ UNCHANGED staged /\ ~creq.is_write
    BY <1>1, <1>4, <1>8, <2>1, <2>2
  <2>5. /\ creq' \in Bridge!BridgeRAM!NextReqs(creq, TRUE, Beats = creq.len)
        /\ Beats' = IF Beats = creq.len THEN 0 ELSE Beats + 1
    BY <1>4, <1>5, <2>3
  <2> HIDE DEF n, a
  <2> QED BY <1>3, <2>4, <2>5 DEF Bridge!BridgeRAM!Beat, Beats
<1> QED BY <1>7, <1>8

\* However the five channels interleave, the bridge and the AXI memory behind it
\* answer every beat of a burst once, in order and at its address, and no read or
\* write overtakes a write that was answered but not acknowledged.
\* (CBusToAXI.sv:82-98, 148-161)
THEOREM BridgeIsBurstMemory == BusesSpec => BridgeImplementsBurstMemory
<1>1. BusesInit => Bridge!BridgeRAM!BurstInit
  BY DEF BusesInit, Bridge!Init, Bridge!BridgeRAM!BurstInit, Bridge!BridgeRAM!Cell,
     Bridge!Cell, Bridge!BridgeRAM!NoReq, Bridge!NoReq,
     Bridge!BridgeRAM!Lane, Bridge!Lane
<1>2. BridgeInv /\ [Bridge!Next]_Bridge!vars
        => [Bridge!BridgeRAM!Request \/ Bridge!BridgeRAM!Beat \/ Bridge!BridgeRAM!Reset]_(
             Bridge!BridgeRAM!burstVars)
  <2> SUFFICES ASSUME BridgeInv, [Bridge!Next]_Bridge!vars
               PROVE  \/ Bridge!BridgeRAM!Request \/ Bridge!BridgeRAM!Beat
                      \/ UNCHANGED Bridge!BridgeRAM!burstVars
    OBVIOUS
  <2>1. CASE Bridge!Take
    BY <2>1, TakeMaps
  <2>2. ASSUME NEW S \in Bridge!handshakes, Bridge!Exchange(S)
        PROVE  \/ Bridge!BridgeRAM!Request \/ Bridge!BridgeRAM!Beat
               \/ UNCHANGED Bridge!BridgeRAM!burstVars
    BY <2>2, QuietMaps, BeatMaps
  <2>3. CASE UNCHANGED Bridge!vars
    BY <2>3 DEF Bridge!vars, Bridge!BridgeRAM!burstVars
  <2> QED BY <2>1, <2>2, <2>3 DEF Bridge!Next
<1> QED
  BY <1>1, <1>2, BridgeSteps, BridgeInvariance, PTL
     DEF BusesSpec, BridgeImplementsBurstMemory, Bridge!BridgeImplementsBurstMemory,
         Bridge!BridgeRAM!BurstSpec
=============================================================================
