------------------------------- MODULE MulDiv --------------------------------
(***************************************************************************)
(* The multi-cycle operations of stage E: the multiplier (ALU_mul.sv), the *)
(* divider (ALU_div.sv) and the handshake the ALU drives them with         *)
(* (ALU.sv).  A step is a clock edge.  The rest of the pipeline appears as *)
(* hold: a bit of flush_in that belongs to another unit.                   *)
(*                                                                         *)
(* A word has Width bits, 64 in the code, and its lower half is what the   *)
(* operations ending in W see.  The one-hot count is the number of shifts  *)
(* left in it.                                                             *)
(***************************************************************************)
EXTENDS Integers

CONSTANTS
  Half,       \* bits of a half word
  MaxInstrs   \* bound on the instructions that reach E

ASSUME MulDivAssumption == Half \in Nat \ {0} /\ MaxInstrs \in Nat \ {0}

VARIABLES
  op, A, B,               \* of the instruction in E
  valid,                  \* ALU: the instruction has just arrived
  valid_mul, valid_div,
  mul_count, div_count,   \* 0 in INIT; in DOING, the cycles left
  mul_p, div_p,           \* shifted partial results
  mul_c, div_c,           \* results as the ALU sees them
  seen                    \* instructions that have reached E

vars == <<op, A, B, valid, valid_mul, valid_div, mul_count, div_count,
          mul_p, div_p, mul_c, div_c, seen>>

Width == 2 * Half

\* What the proofs know of powers.
ASSUME PowersOfTwo ==
  /\ 2^1 = 2
  /\ \A m, n \in 0 .. 2 * Width : 2^m \in Nat \ {0} /\ 2^(m + n) = 2^m * 2^n

Word == 0 .. 2^Width - 1

\* An instruction of E: its function, uors = ~funct3[0], and whether it ends in W.
Operation == [f : {"MUL"}, uors : {TRUE}, w : BOOLEAN]
        \cup [f : {"DIV", "REM"}, uors : BOOLEAN, w : BOOLEAN]
        \cup [f : {"OTHER"}, uors : {TRUE}, w : {FALSE}]

Neg(x, n) == (2^n - x) % 2^n
Low(x) == x % 2^Half
High(x, n) == (x \div 2^n) % 2^n

-----------------------------------------------------------------------------
(* Control *)

\* Mutant: the request does not look at valid.
need_mulLevel == op.f = "MUL"

need_mul == valid /\ op.f = "MUL"
need_div == valid /\ op.f \in {"DIV", "REM"}

byZero == B = 0 \/ (op.w /\ Low(B) = 0)

\* count_nxt is zero: the last cycle.
ok_mul == mul_count = 1
ok_div == div_count = 1

error_mul == IF mul_count = 0 THEN valid_mul ELSE ~ok_mul
error_div == IF div_count = 0 THEN valid_div ELSE ~ok_div

flush_out == error_mul \/ error_div \/ need_mul \/ need_div

mulCycles == Width + 1

divCycles == IF byZero THEN 1 ELSE Width + 1

Counts ==
  /\ mul_count' = IF ~valid_mul THEN 0
                  ELSE IF mul_count = 0 THEN mulCycles ELSE mul_count - 1
  /\ div_count' = IF ~valid_div THEN 0
                  ELSE IF div_count = 0 THEN divCycles ELSE div_count - 1

\* Mutant: a unit that is done is not taken off the line.
ValidsKept(hold) ==
  /\ valid' = (~flush_out /\ ~hold)
  /\ valid_mul' = IF need_mul \/ need_div THEN need_mul ELSE valid_mul
  /\ valid_div' = IF need_mul \/ need_div THEN need_div ELSE valid_div

Valids(hold) ==
  /\ valid' = (~flush_out /\ ~hold)
  /\ valid_mul' = IF need_mul \/ need_div THEN need_mul ELSE valid_mul /\ ~(ok_mul \/ ok_div)
  /\ valid_div' = IF need_mul \/ need_div THEN need_div ELSE valid_div /\ ~(ok_mul \/ ok_div)

-----------------------------------------------------------------------------
(* Data *)

\* Multiplication: a in the lower half of p, sums enter from above.
mulNext ==
  IF mul_count = 0 THEN A
  ELSE LET upper == mul_p \div 2^Width
           sum == IF mul_p % 2 = 1 THEN High(mul_p, Width) + B ELSE upper
       IN (sum * 2^Width + (mul_p % 2^Width)) \div 2

Multiplier ==
  /\ mul_p' = mulNext
  /\ mul_c' = IF valid_mul /\ ~ok_mul THEN mulNext % 2^Width ELSE mul_c

\* The signs are those of the quotient and of the remainder.
width == IF op.w THEN Half ELSE Width
negative(x) == (x \div 2^(width - 1)) % 2 = 1
sign == op.uors /\ negative(A) # negative(B)
sign2 == negative(A)

magnitude(x) == IF op.uors /\ negative(x) THEN Neg(x % 2^width, width) ELSE x % 2^width

\* a and b are 0 in a cycle in which the divider is idle.
dividing == valid_div \/ div_count > 0
divA == IF ~dividing THEN 0 ELSE IF byZero THEN A ELSE magnitude(A)
divB == IF ~dividing THEN 0 ELSE IF byZero THEN B ELSE magnitude(B)

\* Mutant: an equal remainder is not reduced.
divNextAbove ==
  IF div_count = 0 THEN divA
  ELSE LET p == (div_p * 2) % 2^(2 * Width + 1)
       IN IF High(p, Width) > divB THEN p - divB * 2^Width + 1 ELSE p

divNext ==
  IF div_count = 0 THEN divA
  ELSE LET p == (div_p * 2) % 2^(2 * Width + 1)
       IN IF High(p, Width) >= divB THEN p - divB * 2^Width + 1 ELSE p

\* Mutant: the remainder takes the sign of the quotient.
signedResultOneSign(p) ==
  IF ~op.uors THEN [rem |-> High(p, Width), quot |-> p % 2^Width]
  ELSE [rem |-> IF sign THEN Neg(High(p, Width), Width) ELSE High(p, Width),
        quot |-> IF sign THEN Neg(p % 2^Width, Width) ELSE p % 2^Width]

signedResult(p) ==
  IF ~op.uors THEN [rem |-> High(p, Width), quot |-> p % 2^Width]
  ELSE [rem |-> IF sign2 THEN Neg(High(p, Width), Width) ELSE High(p, Width),
        quot |-> IF sign THEN Neg(p % 2^Width, Width) ELSE p % 2^Width]

Divider ==
  /\ div_p' = divNext
  /\ div_c' = IF ~valid_div \/ ok_div THEN div_c
              ELSE IF byZero THEN [rem |-> divA, quot |-> 2^Width - 1]
              ELSE signedResult(divNext)

\* Sign extension of the lower half, for the operations that end in W.
extended(x) ==
  IF ~op.w THEN x
  ELSE IF Low(x) >= 2^(Half - 1) THEN Low(x) + 2^Width - 2^Half ELSE Low(x)

selected ==
  IF op.f = "MUL" THEN mul_c
  ELSE IF op.f = "DIV" THEN div_c.quot
  ELSE IF op.f = "REM" THEN div_c.rem ELSE A

Result == IF (error_mul \/ error_div) /\ ~ok_mul /\ ~ok_div THEN 0 ELSE extended(selected)

-----------------------------------------------------------------------------
Init ==
  /\ op \in Operation /\ A \in Word /\ B \in Word
  /\ valid = TRUE
  /\ valid_mul = FALSE /\ valid_div = FALSE
  /\ mul_count = 0 /\ div_count = 0
  /\ mul_p = 0 /\ div_p = 0
  /\ mul_c = 0 /\ div_c = [rem |-> 0, quot |-> 0]
  /\ seen = 1

\* hold: another unit holds the pipeline.  The next instruction comes when none does.
Clock(hold) ==
  /\ Counts
  /\ Valids(hold)
  /\ Multiplier
  /\ Divider
  /\ IF flush_out \/ hold THEN UNCHANGED <<op, A, B>>
     ELSE op' \in Operation /\ A' \in Word /\ B' \in Word
  /\ seen' = IF flush_out \/ hold THEN seen ELSE seen + 1

\* The bound: fetch holds the pipeline when it has no more to give.
Next == \E hold \in BOOLEAN : (seen = MaxInstrs => hold) /\ Clock(hold)

Spec == Init /\ [][Next]_vars

\* The clock runs.
FairSpec == Spec /\ WF_vars(Next)

=============================================================================
