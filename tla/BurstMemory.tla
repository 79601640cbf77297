----------------------------- MODULE BurstMemory -----------------------------
(***************************************************************************)
(* What a cache bus promises: the beats of a burst are answered one by one *)
(* and in order, each exactly once, each reading or writing the RAM at the *)
(* moment it is answered, however long that takes.                         *)
(***************************************************************************)
EXTENDS CBus

VARIABLES
  ram,      \* bytes
  req,      \* the request on the bus
  beats,    \* how many of its beats have been answered
  answer    \* the last word read

burstVars == <<ram, req, beats, answer>>

BurstInit ==
  /\ ram = [c \in Cell |-> 0]
  /\ req = NoReq /\ beats = 0
  /\ answer = [l \in Lane |-> 0]

Request == ~req.valid /\ req' \in NextReqs(req, FALSE, FALSE) /\ UNCHANGED <<ram, beats, answer>>

Beat ==
  LET a == BeatAddr(req, beats)
      last == beats = req.len
  IN /\ req.valid
     /\ IF req.is_write THEN ram' = Written(ram, a, req) /\ UNCHANGED answer
                        ELSE answer' = Word(ram, a) /\ UNCHANGED ram
     /\ beats' = IF last THEN 0 ELSE beats + 1
     /\ req' \in NextReqs(req, TRUE, last)

Reset == ram' = [c \in Cell |-> 0] /\ req' = NoReq /\ beats' = 0 /\ UNCHANGED answer

BurstSpec == BurstInit /\ [][Request \/ Beat \/ Reset]_burstVars
=============================================================================
