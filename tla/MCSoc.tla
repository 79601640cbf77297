-------------------------------- MODULE MCSoc -------------------------------
(***************************************************************************)
(* Soc for TLC, with one of two programs, chosen at the start.             *)
(***************************************************************************)
EXTENDS SocProps, Programs

VARIABLE program   \* the kind of program that runs

Code == [accesses |-> Accesses, paging |-> Paging]
Everything == Accesses \cup Paging

\* What is fetched is an instruction of the program.
InProgram == instruction' \in Code[program] \cup {Bubble}

ProgramInit == SocInit /\ program \in DOMAIN Code
ProgramNext == SocNext /\ InProgram /\ UNCHANGED program
ProgramSpec == ProgramInit /\ [][ProgramNext]_<<socVars, program>> /\ SocFairness
=============================================================================
