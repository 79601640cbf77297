----------------------------- MODULE MulDivProps -----------------------------
(***************************************************************************)
(* What the multi-cycle unit promises, with the products and quotients of  *)
(* the comments of ALU.sv (135-139: A*B, sA/sB, A/B, sA%sB, A%B) as the    *)
(* reference, quotients rounded towards zero and a division by zero        *)
(* answered with -1 and the dividend.                                      *)
(***************************************************************************)
EXTENDS MulDiv

\* The operands as the instruction means them.
Signed(x, n) == IF x >= 2^(n - 1) THEN x - 2^n ELSE x
Operand(x) == IF op.uors THEN Signed(x % 2^width, width) ELSE x % 2^width

Magnitude(x) == IF x < 0 THEN -x ELSE x
Towards0(q, negate) == IF negate THEN -q ELSE q
Quotient(x, y) ==
  IF y = 0 THEN -1 ELSE Towards0(Magnitude(x) \div Magnitude(y), (x < 0) # (y < 0))
Remainder(x, y) ==
  IF y = 0 THEN x ELSE Towards0(Magnitude(x) % Magnitude(y), x < 0)

\* A result of width bits as the 2^Width value the register receives.
Representation(x) == Signed(x % 2^width, width) % 2^Width

Reference ==
  LET x == Operand(A)
      y == Operand(B)
  IN CASE op.f = "MUL" -> Representation(x * y)
       [] op.f = "DIV" -> Representation(Quotient(x, y))
       [] op.f = "REM" -> Representation(Remainder(x, y))
       [] OTHER -> A

\* Whenever the unit lets the instruction go, after however many cycles, what
\* stage M takes is the result of the operation: for every sign, for the
\* operations ending in W, for a divisor above half of the range (the shifted
\* remainder must not lose its top bit), for the most negative number divided by
\* -1 and for a division by zero (ALU_mul.sv 61-88, ALU_div.sv 46-136).
ResultRight == ~flush_out => Result = Reference

\* A result that another unit's hold keeps in E stays there, whatever the idle
\* multiplier and divider do with their registers, and the operation is not
\* started again (ALU.sv 43-69).
ResultHeld == [][~flush_out /\ ~valid' => ~flush_out' /\ Result' = Result]_vars

\* A multi-cycle operation lets the pipeline go again, and each by itself: no
\* operation finds its unit still counting for an earlier one.
Completes == []<>~flush_out
FoundIdle == valid => mul_count = 0 /\ div_count = 0 /\ ~valid_mul /\ ~valid_div
=============================================================================
