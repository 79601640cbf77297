------------------------------- MODULE MCUnits ------------------------------
(***************************************************************************)
(* The multi-cycle unit of the ALU, with a single instruction on any       *)
(* operands and with several on a few, and the serial line of the board,   *)
(* for TLC.  Unit and line share nothing, so one run explores each by      *)
(* itself: what moves is chosen at the start and the rest stands still.    *)
(***************************************************************************)
EXTENDS MulDivProps, Sequences

CONSTANTS Ratio, BitTime, DataBits, Message, MaxChars, MaxResets

VARIABLES
  part,
  phase, req, finish, putchar, idx, txState, bitTmr, bitIndex, txData, txBit,
  rx, issued, acked, received, resets

Line == INSTANCE UartProps

lineVars == <<phase, req, finish, putchar, idx, txState, bitTmr, bitIndex, txData, txBit,
              rx, issued, acked, received, resets>>
unitVars == <<part, vars, lineVars>>

\* Two-bit characters and a text of three.
Text == <<1, 3, 2>>

\* Zero, the most negative number and -1.
Few == {0, 2^(Width - 1), 2^Width - 1}

\* The device's clock is the faster one, and bits last long enough to be sampled in
\* their middle; a character is told from another by its bits.
ASSUME LineAssumption ==
  /\ Ratio \in Nat \ {0, 1} /\ BitTime \in Nat \ {0, 1, 2} /\ DataBits \in Nat
  /\ \A c, d \in Line!Char :
       SubSeq(Line!Frame(c), 2, DataBits + 1) = SubSeq(Line!Frame(d), 2, DataBits + 1) => c = d

UnitsInit ==
  /\ part \in {"values", "sequence", "line"}
  /\ Init
  /\ part = "sequence" => A \in Few /\ B \in Few
  /\ part = "line" => op.f = "OTHER" /\ A = 0 /\ B = 0
  /\ Line!Init

OneInstruction == part = "values" /\ Next /\ seen' = seen /\ UNCHANGED <<part, lineVars>>
Instructions == part = "sequence" /\ Next /\ {A', B'} \subseteq Few /\ UNCHANGED <<part, lineVars>>
LineClock == part = "line" /\ Line!Clock /\ UNCHANGED <<part, vars>>
LineReset == part = "line" /\ Line!Reset /\ UNCHANGED <<part, vars>>

UnitsSpec ==
  /\ UnitsInit /\ [][OneInstruction \/ Instructions \/ LineClock \/ LineReset]_unitVars
  /\ WF_unitVars(OneInstruction) /\ WF_unitVars(Instructions) /\ WF_unitVars(LineClock)

\* What the serial line promises (UartProps).
CharsInOrder == Line!CharsInOrder
Answered == Line!Answered
=============================================================================
