------------------------------- MODULE MCCore -------------------------------
(***************************************************************************)
(* Core for TLC.  Words have four bits and instructions four bytes, so     *)
(* there are four instruction addresses; the instruction found at an       *)
(* address is arbitrary each time, among those of one kind of program,     *)
(* chosen at the start.                                                    *)
(***************************************************************************)
EXTENDS CoreProps, Programs

VARIABLE program   \* the kind of program that runs

Code == [arithmetic |-> Arithmetic, undecodable |-> Undecodable, control |-> Control,
         memory |-> Memory, traps |-> Traps, returns |-> Returns, paging |-> Paging]

Everything == UNION {Code[p] : p \in DOMAIN Code}

ProgramInit == Init /\ program \in DOMAIN Code

\* The bus answers a fetch with an instruction of the program.
ProgramNext ==
  /\ \E iresp \in {r \in IResponses : r.ok => r.instr \in Code[program]} :
       \E dresp \in DResponses : Cycle(iresp, dresp)
  /\ UNCHANGED program

ProgramSpec == ProgramInit /\ [][ProgramNext]_<<vars, program>>
=============================================================================
