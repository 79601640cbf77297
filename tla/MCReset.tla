------------------------------- MODULE MCReset ------------------------------
(***************************************************************************)
(* CoreReset for TLC, with one of two programs, chosen at the start.       *)
(***************************************************************************)
EXTENDS CoreReset, Programs

VARIABLE program   \* the kind of program that runs

Code == [paging |-> Paging, stalls |-> Stalls]
Everything == Paging \cup Stalls

\* What is fetched is an instruction of the program.
InProgram == instruction' \in Code[program] \cup {Bubble}

ProgramInit == ResetInit /\ program \in DOMAIN Code
ProgramNext == ResetNext /\ InProgram /\ UNCHANGED program
ProgramSpec == ProgramInit /\ [][ProgramNext]_<<resetVars, program>> /\ ResetFairness
=============================================================================
