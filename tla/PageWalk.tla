------------------------------ MODULE PageWalk -------------------------------
(***************************************************************************)
(* The table entries that the two page walks of MEM.sv read, which MemUnit *)
(* leaves to Leaf: that of a data access and that of a fetch, of the same  *)
(* virtual page, each entry after the answer for the one before.           *)
(***************************************************************************)
EXTENDS Naturals

CONSTANTS
  Pages,   \* page frames; one of them is the root table of satp
  Index    \* values of a nine-bit field of a virtual address, 0 among them

VARIABLES
  entry,          \* memory: the frame named by the entry of a table
  root, vpn,      \* of satp; the page's fields, 3 for bits 38:30 down to 1 for 20:12
  fetch, data     \* the walks: state and the address on the data bus

vars == <<entry, root, vpn, fetch, data>>

\* The bus answers with the entry at the address.
Answer(w) == entry[w.table, w.index]

Init ==
  /\ entry \in [Pages \X Index -> Pages]
  /\ root \in Pages /\ vpn \in [1 .. 3 -> Index]
  /\ fetch = [state |-> "I_PREPARE", table |-> root, index |-> 0]
  /\ data = [state |-> "D_GET_PAGE1", table |-> root, index |-> 0]

FetchStep ==
  /\ \/ /\ fetch.state = "I_PREPARE"
        /\ fetch' = [state |-> "I_REQUEST_SENT", table |-> root, index |-> vpn[3]]
     \/ /\ fetch.state = "I_REQUEST_SENT"
        /\ fetch' = [state |-> "I_GET_PAGE2", table |-> Answer(fetch), index |-> vpn[2]]
     \/ /\ fetch.state = "I_GET_PAGE2"
        /\ fetch' = [state |-> "I_GET_PAGE3", table |-> Answer(fetch), index |-> vpn[1]]
     \/ /\ fetch.state = "I_GET_PAGE3"
        /\ fetch' = [state |-> "ACCESS", table |-> Answer(fetch), index |-> 0]
  /\ UNCHANGED <<entry, root, vpn, data>>

DataStep ==
  /\ \/ /\ data.state = "D_GET_PAGE1"
        /\ data' = [state |-> "D_GET_PAGE2", table |-> root, index |-> 0]
     \/ /\ data.state = "D_GET_PAGE2"
        /\ data' = [state |-> "D_GET_PAGE3", table |-> Answer(data), index |-> vpn[1]]
     \/ /\ data.state = "D_GET_PAGE3"
        /\ data' = [state |-> "D_REQUEST_SENT", table |-> Answer(data), index |-> 0]
  /\ UNCHANGED <<entry, root, vpn, fetch>>

Done == fetch.state = "ACCESS" /\ data.state = "D_REQUEST_SENT"

Next == FetchStep \/ DataStep \/ (Done /\ UNCHANGED vars)
Spec == Init /\ [][Next]_vars

\* A virtual address becomes one physical address (comments of MEM.sv:145 and 276),
\* whether an instruction or a datum is read there.
OneTranslation == Done => fetch.table = data.table
=============================================================================
