----------------------------- MODULE UnitProofs -----------------------------
(***************************************************************************)
(* The multi-cycle unit of the ALU, for every width of a word, and the     *)
(* serial line, for every ratio of the clocks, time of a bit and number of *)
(* bits in a character.                                                    *)
(***************************************************************************)
EXTENDS MCUnits, SequenceTheorems, TLAPS

-----------------------------------------------------------------------------
(***************************************************************************)
(* The multiplier and the divider.                                         *)
(***************************************************************************)

\* A unit counts only while its valid is up, only one valid is up at a time, and
\* never in the cycle in which an instruction arrives.
Handshake ==
  /\ valid \in BOOLEAN /\ valid_mul \in BOOLEAN /\ valid_div \in BOOLEAN
  /\ mul_count \in Nat /\ div_count \in Nat
  /\ mul_count > 0 => valid_mul
  /\ div_count > 0 => valid_div
  /\ ~(valid_mul /\ valid_div)
  /\ FoundIdle

\* The lengths of the operations are positive, as Half is.
LEMMA CyclesPositive == mulCycles \in Nat \ {0} /\ divCycles \in Nat \ {0}
BY MulDivAssumption DEF mulCycles, divCycles, Width

LEMMA HandshakeInit == Init => Handshake
<1> SUFFICES ASSUME Init PROVE Handshake
  OBVIOUS
<1>1. /\ valid \in BOOLEAN /\ valid_mul \in BOOLEAN /\ valid_div \in BOOLEAN
      /\ ~(valid_mul /\ valid_div)
  BY Zenon DEF Init
<1>2. mul_count = 0 /\ div_count = 0
  BY DEF Init
<1>3. FoundIdle
  BY Zenon DEF Init, FoundIdle
<1> QED BY <1>1, <1>2, <1>3 DEF Handshake

LEMMA HandshakeNext == Handshake /\ [Next]_vars => Handshake'
<1> SUFFICES ASSUME Handshake, [Next]_vars PROVE Handshake'
  OBVIOUS
<1>1. CASE UNCHANGED vars
  BY <1>1 DEF Handshake, FoundIdle, vars
<1>2. CASE Next
  <2>1. PICK hold \in BOOLEAN : Clock(hold)
    BY <1>2 DEF Next
  <2>2. Counts /\ Valids(hold)
    BY <2>1 DEF Clock
  <2>3. /\ valid' = (~flush_out /\ ~hold)
        /\ valid_mul' = IF need_mul \/ need_div THEN need_mul ELSE valid_mul /\ ~(ok_mul \/ ok_div)
        /\ valid_div' = IF need_mul \/ need_div THEN need_div ELSE valid_div /\ ~(ok_mul \/ ok_div)
    BY <2>2 DEF Valids
  <2>4. /\ mul_count' = IF ~valid_mul THEN 0
                        ELSE IF mul_count = 0 THEN mulCycles ELSE mul_count - 1
        /\ div_count' = IF ~valid_div THEN 0
                        ELSE IF div_count = 0 THEN divCycles ELSE div_count - 1
    BY <2>2 DEF Counts
  <2>5. /\ need_mul \in BOOLEAN /\ need_div \in BOOLEAN /\ ~(need_mul /\ need_div)
        /\ need_mul \/ need_div => valid
    BY DEF Handshake, need_mul, need_div
  <2>6. /\ valid' \in BOOLEAN /\ valid_mul' \in BOOLEAN /\ valid_div' \in BOOLEAN
        /\ ~(valid_mul' /\ valid_div')
    BY <2>3, <2>5 DEF Handshake, flush_out, ok_mul, ok_div
  <2>7. mul_count' \in Nat /\ div_count' \in Nat
    BY <2>4, CyclesPositive DEF Handshake
  <2>8. mul_count' > 0 => valid_mul'
    BY <2>3, <2>4, <2>5, CyclesPositive DEF Handshake, FoundIdle, ok_mul, ok_div
  <2>9. div_count' > 0 => valid_div'
    BY <2>3, <2>4, <2>5, CyclesPositive DEF Handshake, FoundIdle, ok_mul, ok_div
  <2>10. FoundIdle'
    BY <2>3, <2>4, <2>5, <2>7
    DEF Handshake, FoundIdle, flush_out, error_mul, error_div, ok_mul, ok_div
  <2> QED BY <2>6, <2>7, <2>8, <2>9, <2>10 DEF Handshake
<1> QED BY <1>1, <1>2 DEF Next

\* Every operation finds the multiplier and the divider idle: none is still
\* counting for an instruction that has left E (ALU.sv 58-68).
THEOREM UnitsIdle == Spec => []FoundIdle
<1>1. Init => Handshake
  BY HandshakeInit
<1>2. Handshake /\ [Next]_vars => Handshake'
  BY HandshakeNext
<1>3. Handshake => FoundIdle
  BY DEF Handshake
<1> QED BY <1>1, <1>2, <1>3, PTL DEF Spec

\* A result held in E by another unit is still there in the next cycle and no
\* operation starts, for every width (ALU.sv 43-69).
THEOREM HeldResult == Spec => ResultHeld
<1>1. Handshake /\ [Next]_vars => [~flush_out /\ ~valid' => ~flush_out' /\ Result' = Result]_vars
  <2> SUFFICES ASSUME Handshake, Next, ~flush_out, ~valid'
               PROVE ~flush_out' /\ Result' = Result
    OBVIOUS
  <2>1. PICK hold \in BOOLEAN : Clock(hold)
    BY DEF Next
  <2>2. Counts /\ Valids(hold) /\ Multiplier /\ Divider
    BY <2>1 DEF Clock
  <2>3. hold
    BY <2>2 DEF Valids
  <2>4. op' = op /\ A' = A /\ B' = B
    BY <2>1, <2>3 DEF Clock
  <2>5. ~need_mul /\ ~need_div /\ ~error_mul /\ ~error_div
    BY DEF flush_out
  <2>6. /\ valid_mul' = (valid_mul /\ ~(ok_mul \/ ok_div))
        /\ valid_div' = (valid_div /\ ~(ok_mul \/ ok_div))
    BY <2>2, <2>5 DEF Valids
  <2>7. /\ (mul_count = 0 /\ ~valid_mul) \/ ok_mul
        /\ (div_count = 0 /\ ~valid_div) \/ ok_div
    BY <2>5 DEF error_mul, error_div, ok_mul, ok_div, Handshake
  <2>8. ~valid_mul' /\ ~valid_div'
    BY <2>6, <2>7
  <2>9. mul_count' = 0 /\ div_count' = 0
    BY <2>2, <2>7 DEF Counts, ok_mul, ok_div, Handshake
  <2>10. mul_c' = mul_c /\ div_c' = div_c
    BY <2>2, <2>7 DEF Multiplier, Divider
  <2>11. ~need_mul' /\ ~need_div'
    BY DEF need_mul, need_div
  <2>12. ~error_mul' /\ ~error_div' /\ ~flush_out'
    BY <2>8, <2>9, <2>11 DEF error_mul, error_div, flush_out
  <2>13. selected' = selected
    BY <2>4, <2>10, Zenon DEF selected
  <2>14. Result = extended(selected) /\ Result' = extended(selected)'
    BY <2>5, <2>12 DEF Result
  <2>15. Result' = Result
    BY <2>4, <2>13, <2>14, Zenon DEF extended, Low
  <2> QED BY <2>12, <2>15
<1>2. Init => Handshake
  BY HandshakeInit
<1>3. Handshake /\ [Next]_vars => Handshake'
  BY HandshakeNext
<1> QED BY <1>1, <1>2, <1>3, PTL DEF Spec, ResultHeld

-----------------------------------------------------------------------------
(* Numbers *)

\* Quotient and remainder, and that there is one of each
LEMMA DivMod ==
  ASSUME NEW a \in Int, NEW m \in Nat \ {0}
  PROVE  a \div m \in Int /\ a % m \in 0 .. m - 1 /\ a = m * (a \div m) + (a % m)
OBVIOUS
LEMMA Mono == ASSUME NEW m \in Nat \ {0}, NEW x \in Int, x >= 1 PROVE m * x >= m
OBVIOUS
LEMMA Unique ==
  ASSUME NEW a \in Int, NEW m \in Nat \ {0}, NEW q \in Int, NEW r \in 0 .. m - 1, a = m * q + r
  PROVE  a \div m = q /\ a % m = r
<1>1. a \div m \in Int /\ a % m \in 0 .. m - 1 /\ a = m * (a \div m) + (a % m)
  BY DivMod
<1> DEFINE d == a \div m
           e == a % m
<1> HIDE DEF d, e
<1>2. d \in Int /\ e \in 0 .. m - 1 /\ m * (d - q) = r - e /\ m * (q - d) = e - r
  BY <1>1 DEF d, e
<1>3. ~(d - q >= 1) /\ ~(q - d >= 1)
  BY <1>2, Mono
<1>4. d = q
  BY <1>2, <1>3
<1> QED BY <1>2, <1>4 DEF d, e

LEMMA Congruent ==
  ASSUME NEW a \in Int, NEW k \in Int, NEW m \in Nat \ {0}
  PROVE  (a + m * k) % m = a % m
<1> DEFINE q == a \div m
           r == a % m
<1>1. q \in Int /\ r \in 0 .. m - 1 /\ a = m * q + r
  BY DivMod
<1> HIDE DEF q, r
<1>2. a + m * k = m * (q + k) + r /\ a + m * k \in Int /\ q + k \in Int
  BY <1>1
<1>3. (a + m * k) % m = r
  BY <1>1, <1>2, Unique
<1> QED BY <1>3 DEF r

LEMMA SameResidue ==
  ASSUME NEW a \in Int, NEW x \in Int, NEW m \in Nat \ {0}, a % m = x % m
  PROVE  \E k \in Int : a = x + m * k
<1>1. /\ a \div m \in Int /\ x \div m \in Int
      /\ a = m * (a \div m) + (a % m) /\ x = m * (x \div m) + (x % m)
  BY DivMod
<1> DEFINE q == a \div m
           s == x \div m
           r == x % m
<1>2. r \in Int /\ q \in Int /\ s \in Int /\ a = m * q + r /\ x = m * s + r
  BY <1>1, DivMod
<1> HIDE DEF q, s, r
<1>3. a = x + m * (q - s) /\ q - s \in Int
  BY <1>2
<1> QED BY <1>3

Equal(a, x, m) == a % m = x % m

LEMMA FactorCongruent ==
  ASSUME NEW a \in Int, NEW x \in Int, NEW m \in Nat \ {0}, Equal(a, x, m), NEW b \in Int
  PROVE  Equal(a * b, x * b, m)
<1>1. PICK k \in Int : a = x + m * k
  BY SameResidue DEF Equal
<1> DEFINE h == k * b
           z == x * b
<1>2. a * b = z + m * h /\ h \in Int /\ z \in Int
  BY <1>1
<1> HIDE DEF h, z
<1>3. (z + m * h) % m = z % m
  BY <1>2, Congruent, Zenon
<1>4. (a * b) % m = z % m
  BY <1>2, <1>3, Zenon
<1> QED BY <1>4 DEF z, Equal

Divides(m, p) == \E n \in Nat \ {0} : p = m * n

LEMMA ResidueOfResidue ==
  ASSUME NEW m \in Nat \ {0}, NEW p \in Nat \ {0}, Divides(m, p), NEW z \in Int
  PROVE  (z % p) % m = z % m
<1>0. PICK n \in Nat \ {0} : p = m * n
  BY DEF Divides
<1> DEFINE q == z \div p
           r == z % p
<1>1. q \in Int /\ r \in 0 .. p - 1 /\ z = p * q + r
  BY DivMod
<1> HIDE DEF q, r
<1> DEFINE k == n * q
<1>2. z = r + m * k /\ k \in Int /\ r \in Int
  BY <1>0, <1>1
<1> HIDE DEF k
<1>3. z % m = r % m
  BY <1>2, Congruent
<1> QED BY <1>3 DEF r

LEMMA ProductBound ==
  ASSUME NEW a \in Nat, NEW b \in Nat, NEW c \in Nat, NEW d \in Nat, a <= c, b <= d
  PROVE  a * b \in Nat /\ a * b <= c * d
OBVIOUS

\* One shift of the multiplier
LEMMA MulShift ==
  ASSUME NEW P \in Nat \ {0}, NEW K \in Nat \ {0}, NEW R \in Nat \ {0}, K * (2 * R) = P,
         NEW b \in 0 .. P - 1, NEW a1 \in 0 .. 2 * R - 1, NEW a0 \in 0 .. K - 1,
         NEW p, p = a1 + b * (a0 * (2 * R))
  PROVE  LET sum == IF p % 2 = 1 THEN ((p \div P) % P) + b ELSE p \div P
         IN (sum * P + (p % P)) \div 2 = (a1 \div 2) + b * ((a0 + (a1 % 2) * K) * R)
<1> DEFINE bit == a1 % 2
           half == a1 \div 2
           U == p \div P
           L == p % P
<1>1. bit \in 0 .. 1 /\ half \in Nat /\ a1 = 2 * half + bit
  OBVIOUS
<1>2. a0 * (2 * R) \in Nat /\ a0 * (2 * R) <= P - 2 * R
  <2>1. a0 * (2 * R) <= (K - 1) * (2 * R) /\ a0 * (2 * R) \in Nat
    BY ProductBound
  <2>2. (K - 1) * (2 * R) = P - 2 * R
    OBVIOUS
  <2> QED BY <2>1, <2>2
<1>3. b * (a0 * (2 * R)) \in Nat /\ b * (a0 * (2 * R)) <= (P - 1) * (P - 2 * R)
  BY <1>2, ProductBound
<1>4. p \in Nat /\ p < P * P
  <2>1. 2 * R <= P /\ 2 * R \in Nat
    BY ProductBound
  <2>2. (P - 1) * (P - 2 * R) = P * P - P * (2 * R) - P + 2 * R
    OBVIOUS
  <2>3. 2 * P <= P * (2 * R)
    OBVIOUS
  <2> QED BY <1>3, <2>1, <2>2, <2>3
<1>5. U \in Int /\ L \in 0 .. P - 1 /\ p = P * U + L
  <2>1. \A x \in Int : x \div P \in Int /\ x % P \in 0 .. P - 1 /\ x = P * (x \div P) + (x % P)
    BY DivMod
  <2>2. p \in Int
    BY <1>4
  <2> QED BY <2>1, <2>2, Zenon
<1>6. p % 2 = bit
  <2> DEFINE x == half + b * (a0 * R)
  <2>1. p = bit + 2 * x /\ x \in Int
    BY <1>1
  <2> HIDE DEF x, bit, half
  <2>2. p % 2 = bit % 2
    BY <1>1, <2>1, Congruent
  <2> QED BY <1>1, <2>2
<1> HIDE DEF bit, half, U, L
<1>7. U % P = U
  <2>1. U \in 0 .. P - 1
    <3>1. ~(U >= P) 
      BY <1>4, <1>5, ProductBound
    <3>2. ~(U <= -1)
      <4>1. U <= -1 => P * (-U) >= P
        BY <1>5, Mono
      <4> QED BY <1>4, <1>5, <4>1
    <3> QED BY <1>5, <3>1, <3>2
  <2> QED BY <2>1
<1> DEFINE sum == IF p % 2 = 1 THEN (U % P) + b ELSE U
           all == b * ((a0 + bit * K) * R)
<1>8. sum * P + L = p + bit * (b * P)
  <2>1. sum = U + bit * b
    BY <1>1, <1>5, <1>6, <1>7
  <2> HIDE DEF sum
  <2> QED BY <1>1, <1>5, <2>1
<1>9. p + bit * (b * P) = 2 * (half + all) + bit
  <2>1. CASE bit = 0
    BY <1>1, <2>1
  <2>2. CASE bit = 1
    <3>1. all = b * (a0 * R) + b * (K * R)
      BY <2>2
    <3>2. b * P = 2 * (b * (K * R)) /\ b * (a0 * (2 * R)) = 2 * (b * (a0 * R))
      OBVIOUS
    <3>3. b * (K * R) \in Int /\ b * (a0 * R) \in Int
      OBVIOUS
    <3> HIDE DEF all
    <3> QED BY <1>1, <2>2, <3>1, <3>2, <3>3
  <2> QED BY <1>1, <2>1, <2>2
<1>10. all \in Int
  BY <1>1
<1>11. (sum * P + L) \div 2 = half + all
  <2> HIDE DEF sum, all
  <2> QED BY <1>1, <1>8, <1>9, <1>10
<1> QED BY <1>11 DEF sum, U, L, half, bit

\* One shift of the divider: a1 divided by d with K shifts done, a0 to come, to words of P.
BeforeShift(P, K, R, M, d, a1, a0, q, r) ==
  /\ P \in Nat \ {0} /\ K \in Nat \ {0} /\ R \in Nat \ {0} /\ K * (2 * R) = P
  /\ M \in Nat \ {0} /\ M = 2 * (P * P) /\ d \in Nat \ {0}
  /\ a1 \in 0 .. K - 1 /\ a0 \in 0 .. 2 * R - 1 /\ q \in Nat /\ r \in 0 .. d - 1
  /\ a1 = q * d + r

AfterShift(P, K, R, M, d, a1, a0, q, r) ==
  LET p == r * P + a0 * K + q
      s == (p * 2) % M
  IN \E b \in 0 .. 1, c0 \in 0 .. R - 1, q1 \in Nat, r1 \in 0 .. d - 1 :
       /\ a0 = b * R + c0 /\ 2 * a1 + b = q1 * d + r1
       /\ (IF (s \div P) % P >= d THEN s - d * P + 1 ELSE s) = r1 * P + c0 * (2 * K) + q1

LEMMA DivShift ==
  ASSUME NEW P, NEW K, NEW R, NEW M, NEW d, NEW a1, NEW a0, NEW q, NEW r,
         BeforeShift(P, K, R, M, d, a1, a0, q, r)
  PROVE  AfterShift(P, K, R, M, d, a1, a0, q, r)
<1>0. /\ P \in Nat \ {0} /\ K \in Nat \ {0} /\ R \in Nat \ {0} /\ K * (2 * R) = P
      /\ M \in Nat \ {0} /\ M = 2 * (P * P) /\ d \in Nat \ {0}
      /\ a1 \in 0 .. K - 1 /\ a0 \in 0 .. 2 * R - 1 /\ q \in Nat /\ r \in 0 .. d - 1
      /\ a1 = q * d + r
  BY DEF BeforeShift
<1> DEFINE b == IF a0 >= R THEN 1 ELSE 0
           c0 == a0 - b * R
           x == 2 * r + b
           y == c0 * (2 * K) + 2 * q
           p == r * P + a0 * K + q
           s == (p * 2) % M
           Shifted ==
             \E q1 \in Nat, r1 \in 0 .. d - 1 :
               /\ 2 * a1 + b = q1 * d + r1
               /\ (IF (s \div P) % P >= d THEN s - d * P + 1 ELSE s) = r1 * P + c0 * (2 * K) + q1
<1>1. b \in 0 .. 1 /\ c0 \in 0 .. R - 1 /\ a0 = b * R + c0
  BY <1>0
<1> HIDE DEF b, c0
<1>2. q <= a1 /\ r <= a1
  <2>1. q * 1 <= q * d /\ q * d \in Nat
    BY <1>0, ProductBound
  <2> QED BY <1>0, <2>1
<1>3. x \in 0 .. P - 1
  <2>1. 2 * K * 1 <= 2 * K * R /\ 2 * K * R = P
    BY <1>0, ProductBound
  <2> QED BY <1>0, <1>1, <1>2, <2>1
<1>4. y \in 0 .. P - 2
  <2>1. c0 * (2 * K) <= (R - 1) * (2 * K) /\ c0 * (2 * K) \in Nat
    BY <1>0, <1>1, ProductBound
  <2>2. (R - 1) * (2 * K) = P - 2 * K
    BY <1>0
  <2> QED BY <1>0, <1>1, <1>2, <2>1, <2>2
<1>5. p * 2 = P * x + y
  <2>1. 2 * (a0 * K) = b * P + c0 * (2 * K)
    <3>1. (b * R) * (2 * K) = b * P
      BY <1>0, <1>1
    <3>2. a0 * (2 * K) = (b * R) * (2 * K) + c0 * (2 * K)
      BY <1>0, <1>1
    <3> QED BY <1>0, <3>1, <3>2
  <2> QED BY <1>0, <1>1, <2>1
<1>6. s = P * x + y
  <2>1. P * x <= P * (P - 1) /\ P * x \in Nat
    BY <1>0, <1>3, ProductBound
  <2>2. P * (P - 1) = P * P - P
    BY <1>0
  <2>3. P * x + y \in 0 .. M - 1
    BY <1>0, <1>4, <2>1, <2>2
  <2> HIDE DEF p, x, y
  <2> QED BY <1>0, <1>5, <2>3
<1> HIDE DEF p, s
<1>7. s \div P = x /\ (s \div P) % P = x
  <2> HIDE DEF x, y
  <2>1. s \in Int /\ P \in Nat \ {0} /\ x \in Int /\ y \in 0 .. P - 1 /\ s = P * x + y
    BY <1>0, <1>3, <1>4, <1>6
  <2>2. s \div P = x
    BY <2>1, Unique, Zenon
  <2> QED BY <1>0, <1>3, <2>2
<1>8. ASSUME x >= d PROVE Shifted
  <2>1. 2 * q + 1 \in Nat /\ x - d \in 0 .. d - 1
    BY <1>0, <1>1, <1>8
  <2>2. 2 * a1 + b = (2 * q + 1) * d + (x - d)
    BY <1>0, <1>1
  <2>3. s - d * P + 1 = (x - d) * P + c0 * (2 * K) + (2 * q + 1)
    BY <1>0, <1>1, <1>3, <1>6
  <2>4. (IF (s \div P) % P >= d THEN s - d * P + 1 ELSE s) = s - d * P + 1
    BY <1>0, <1>7, <1>8
  <2> HIDE DEF x, y
  <2> QED BY <1>0, <2>1, <2>2, <2>3, <2>4, Zenon
<1>9. ASSUME ~(x >= d) PROVE Shifted
  <2>1. 2 * q \in Nat /\ x \in 0 .. d - 1
    BY <1>0, <1>1, <1>3, <1>9
  <2>2. 2 * a1 + b = (2 * q) * d + x
    BY <1>0, <1>1
  <2>3. s = x * P + c0 * (2 * K) + 2 * q
    BY <1>0, <1>1, <1>3, <1>6
  <2>4. (IF (s \div P) % P >= d THEN s - d * P + 1 ELSE s) = s
    BY <1>0, <1>7, <1>9
  <2> HIDE DEF x, y
  <2> QED BY <1>0, <2>1, <2>2, <2>3, <2>4, Zenon
<1>10. Shifted
  BY <1>0, <1>8, <1>9, Zenon
<1> QED BY <1>1, <1>10, Zenon DEF AfterShift, p, s

-----------------------------------------------------------------------------
(* Words *)

LEMMA Powers ==
  /\ Width \in Nat \ {0} /\ 2^0 = 1
  /\ 2^Half \in Nat \ {0} /\ 2^Width \in Nat \ {0} /\ 2^Width = 2^Half * 2^Half
  /\ 2^(2 * Width + 1) = 2 * (2^Width * 2^Width) /\ 2^(2 * Width + 1) \in Nat \ {0}
  /\ 2^(Half - 1) \in Nat \ {0} /\ 2^Half = 2 * 2^(Half - 1)
  /\ 2^(Width - 1) \in Nat \ {0} /\ 2^Width = 2 * 2^(Width - 1)
<1>1. Half \in Nat \ {0} /\ Width = 2 * Half
  BY MulDivAssumption DEF Width
<1> DEFINE Exp == 0 .. 2 * Width
<1>2. \A m, n \in Exp : 2^m \in Nat \ {0} /\ 2^(m + n) = 2^m * 2^n
  BY PowersOfTwo
<1>3. 2^1 = 2
  BY PowersOfTwo
<1>4. 0 \in Exp /\ 1 \in Exp /\ Half \in Exp /\ Width \in Exp /\ 2 * Width \in Exp
      /\ Half - 1 \in Exp /\ Width - 1 \in Exp
  BY <1>1
<1> HIDE DEF Exp
<1>5. 2^(0 + 0) = 2^0 * 2^0 /\ 2^0 \in Nat \ {0}
  BY <1>2, <1>4
<1>6. 2^0 = 1
  BY <1>5
<1>7. 2^(Half + Half) = 2^Half * 2^Half /\ 2^Half \in Nat \ {0}
  BY <1>2, <1>4
<1>8. 2^(Width + Width) = 2^Width * 2^Width /\ 2^Width \in Nat \ {0}
  BY <1>2, <1>4
<1>9. 2^(1 + 2 * Width) = 2^1 * 2^(2 * Width) /\ 2^(2 * Width) \in Nat \ {0}
  BY <1>2, <1>4
<1>10. 2^(1 + (Half - 1)) = 2^1 * 2^(Half - 1) /\ 2^(Half - 1) \in Nat \ {0}
  BY <1>2, <1>4
<1>11. 2^(1 + (Width - 1)) = 2^1 * 2^(Width - 1) /\ 2^(Width - 1) \in Nat \ {0}
  BY <1>2, <1>4
<1>12. /\ Half + Half = Width /\ Width + Width = 2 * Width /\ 1 + 2 * Width = 2 * Width + 1
       /\ 1 + (Half - 1) = Half /\ 1 + (Width - 1) = Width
  BY <1>1
<1>13. 2^(2 * Width + 1) = 2 * (2^Width * 2^Width) /\ 2^(2 * Width + 1) \in Nat \ {0}
  BY <1>3, <1>8, <1>9, <1>12
<1> QED BY <1>1, <1>3, <1>6, <1>7, <1>8, <1>10, <1>11, <1>12, <1>13

LEMMA PowersBetween ==
  ASSUME NEW k \in 0 .. Width
  PROVE  /\ 2^k \in Nat \ {0} /\ 2^(Width - k) \in Nat \ {0}
         /\ 2^k * 2^(Width - k) = 2^Width
         /\ 2^(k + 1) = 2 * 2^k
<1>1. Width \in Nat \ {0}
  BY Powers
<1>2. k \in 0 .. 2 * Width /\ Width - k \in 0 .. 2 * Width /\ 1 \in 0 .. 2 * Width
      /\ k + (Width - k) = Width
  BY <1>1
<1>3. 2^(k + (Width - k)) = 2^k * 2^(Width - k) /\ 2^k \in Nat \ {0} /\ 2^(Width - k) \in Nat \ {0}
  BY <1>2, PowersOfTwo
<1>4. 2^(k + 1) = 2^k * 2^1
  BY <1>2, PowersOfTwo
<1>5. 2^(k + 1) = 2 * 2^k
  BY <1>3, <1>4, PowersOfTwo
<1> QED BY <1>2, <1>3, <1>5

LEMMA Operations ==
  ASSUME op \in Operation
  PROVE  /\ op.f \in {"MUL", "DIV", "REM", "OTHER"} /\ op.uors \in BOOLEAN /\ op.w \in BOOLEAN
         /\ op.f = "OTHER" => ~op.w
BY DEF Operation

\* The bits an operation sees are a divisor of the bits of a register.
LEMMA Widths ==
  ASSUME op \in Operation
  PROVE  /\ 2^width \in Nat \ {0} /\ 2^(width - 1) \in Nat \ {0} /\ 2^width = 2 * 2^(width - 1)
         /\ Divides(2^width, 2^Width)
         /\ 2^width <= 2^Width
<1>1. CASE op.w
  <2>1. width = Half
    BY <1>1 DEF width
  <2>2. 2^Half <= 2^Half * 2^Half
    BY Powers, Mono
  <2> QED BY <2>1, <2>2, Powers DEF Divides
<1>2. CASE ~op.w
  <2>1. width = Width /\ 2^Width * 1 = 2^Width
    BY <1>2, Powers DEF width
  <2> QED BY <2>1, Powers DEF Divides
<1> QED BY <1>1, <1>2, Operations

\* The top bit of the residue.
LEMMA TopBit ==
  ASSUME NEW x \in Nat, NEW n \in Nat \ {0}, NEW m \in Nat \ {0}, m = 2 * n
  PROVE  (x \div n) % 2 = 1 <=> x % m >= n
<1> DEFINE q == x \div m
           r == x % m
           top == IF r >= n THEN 1 ELSE 0
<1>1. q \in Int /\ r \in 0 .. m - 1 /\ x = m * q + r
  <2>1. x \in Int
    OBVIOUS
  <2> QED BY <2>1, DivMod, Zenon
<1> HIDE DEF q, r
<1> DEFINE t == 2 * q + top
           e == r - n * top
<1>2. x = n * t + e /\ e \in 0 .. n - 1 /\ t \in Int /\ x \in Int
  BY <1>1
<1>3. x \div n = 2 * q + top
  <2> HIDE DEF t, e
  <2>1. x \div n = t
    BY <1>2, Unique, Zenon
  <2> QED BY <2>1 DEF t
<1>4. (2 * q + top) % 2 = top
  BY <1>1
<1> QED BY <1>3, <1>4 DEF r

\* An operand as the instruction means it: its residue, its sign and its magnitude.
LEMMA OperandRight ==
  ASSUME op \in Operation, NEW x \in Word
  PROVE  /\ Operand(x) \in Int
         /\ Operand(x) % 2^width = x % 2^width
         /\ magnitude(x) = Magnitude(Operand(x))
         /\ magnitude(x) \in 0 .. 2^Width - 1
         /\ Operand(x) < 0 <=> op.uors /\ negative(x)
<1> DEFINE m == 2^width
           n == 2^(width - 1)
           r == x % m
           z == Operand(x)
<1>1. m \in Nat \ {0} /\ n \in Nat \ {0} /\ m = 2 * n /\ m <= 2^Width /\ 2^Width \in Nat
  BY Widths, Powers
<1>2. x \in Nat /\ x \in Int
  BY Powers DEF Word
<1>3. r \in 0 .. m - 1
  BY <1>1, <1>2, DivMod, Zenon
<1>4. negative(x) <=> r >= n
  <2> HIDE DEF m, n
  <2>1. (x \div n) % 2 = 1 <=> x % m >= n
    BY <1>1, <1>2, TopBit
  <2> QED BY <2>1 DEF negative, m, n
<1>5. z = IF op.uors /\ r >= n THEN r - m ELSE r
  BY DEF Operand, Signed
<1>6. magnitude(x) = IF op.uors /\ r >= n THEN (m - r) % m ELSE r
  <2> HIDE DEF r
  <2> QED BY <1>4 DEF magnitude, Neg, r
<1> HIDE DEF m, n, r, z
<1>7. r >= n => (m - r) % m = m - r
  BY <1>1, <1>3
<1>8. z \in Int /\ (z < 0 <=> op.uors /\ r >= n)
  BY <1>1, <1>3, <1>5
<1>9. z % m = r
  <2>1. z = r + m * (IF op.uors /\ r >= n THEN -1 ELSE 0)
    BY <1>1, <1>3, <1>5
  <2>2. r \in Int /\ r % m = r
    BY <1>1, <1>3
  <2> DEFINE k == IF op.uors /\ r >= n THEN -1 ELSE 0
  <2>3. k \in Int
    OBVIOUS
  <2>4. (r + m * k) % m = r % m
    <3> HIDE DEF k
    <3> QED BY <1>1, <2>2, <2>3, Congruent
  <2> QED BY <2>1, <2>2, <2>4
<1>10. magnitude(x) = Magnitude(z) /\ magnitude(x) \in 0 .. 2^Width - 1
  BY <1>1, <1>3, <1>5, <1>6, <1>7 DEF Magnitude
<1> QED BY <1>4, <1>8, <1>9, <1>10 DEF m, r, z

\* The divider's test for a zero divisor sees the bits of the operation.
LEMMA ByZeroRight ==
  ASSUME op \in Operation, B \in Word
  PROVE  byZero <=> magnitude(B) = 0
<1>1. /\ Operand(B) \in Int /\ Operand(B) % 2^width = B % 2^width
      /\ magnitude(B) = Magnitude(Operand(B)) /\ magnitude(B) \in 0 .. 2^Width - 1
  BY OperandRight
<1>2. B \in 0 .. 2^Width - 1 /\ 2^Width \in Nat \ {0} /\ 2^Half \in Nat \ {0}
  BY Powers DEF Word
<1>3. byZero <=> B % 2^width = 0
  <2>1. CASE op.w
    BY <1>2, <2>1 DEF byZero, Low, width
  <2>2. CASE ~op.w
    <3>1. width = Width
      BY <2>2 DEF width
    <3>2. B % 2^Width = B
      BY <1>2
    <3> QED BY <2>2, <3>1, <3>2 DEF byZero
  <2> QED BY <2>1, <2>2, Operations
<1>4. magnitude(B) = 0 <=> B % 2^width = 0
  <2> DEFINE m == 2^width
             n == 2^(width - 1)
             r == B % m
  <2>1. m \in Nat \ {0} /\ n \in Nat \ {0} /\ m = 2 * n
    BY Widths
  <2>2. r \in 0 .. m - 1
    <3>1. B \in Int
      BY <1>2
    <3> QED BY <2>1, <3>1, DivMod, Zenon
  <2>3. Operand(B) = IF op.uors /\ r >= n THEN r - m ELSE r
    BY DEF Operand, Signed
  <2> HIDE DEF m, n, r
  <2>4. Operand(B) = 0 <=> r = 0
    BY <2>1, <2>2, <2>3
  <2>5. Magnitude(Operand(B)) = 0 <=> Operand(B) = 0
    BY <1>1 DEF Magnitude
  <2> QED BY <1>1, <2>4, <2>5 DEF r, m
<1> QED BY <1>3, <1>4

\* A register with the residue of a number, sign-extended for the operations ending in W,
\* is what represents the number.
LEMMA Represented ==
  ASSUME op \in Operation, NEW s \in Word, NEW z \in Int, s % 2^width = z % 2^width
  PROVE  extended(s) = Representation(z)
<1>1. s \in 0 .. 2^Width - 1 /\ 2^Width \in Nat \ {0} /\ 2^Width = 2 * 2^(Width - 1)
      /\ 2^(Width - 1) \in Nat \ {0}
      /\ 2^Half \in Nat \ {0} /\ 2^Half = 2 * 2^(Half - 1) /\ 2^(Half - 1) \in Nat \ {0}
  BY Powers DEF Word
<1> DEFINE p == 2^Width
           h == 2^Half
<1>2. CASE op.w
  <2>1. width = Half
    BY <1>2 DEF width
  <2> DEFINE r == s % h
             v == IF r >= 2^(Half - 1) THEN r - h ELSE r
  <2>2. Representation(z) = v % p
    BY <2>1 DEF Representation, Signed
  <2>3. extended(s) = IF r >= 2^(Half - 1) THEN r + p - h ELSE r
    BY <1>2 DEF extended, Low
  <2>4. r \in 0 .. h - 1
    <3>1. s \in Int
      BY <1>1
    <3> QED BY <1>1, <3>1, DivMod, Zenon
  <2>5. h <= p
    BY <2>1, Widths
  <2> HIDE DEF r, p, h
  <2>6. r \in 0 .. p - 1 /\ p \in Nat \ {0} /\ h \in Nat \ {0}
    BY <1>1, <2>4, <2>5 DEF p, h
  <2>7. CASE r >= 2^(Half - 1)
    <3>1. r - h = p * (-1) + (r + p - h) /\ r + p - h \in 0 .. p - 1 /\ r - h \in Int
      BY <2>4, <2>5, <2>6
    <3>2. (r - h) % p = r + p - h
      BY <2>6, <3>1, Unique
    <3> QED BY <2>2, <2>3, <2>7, <3>2
  <2>8. CASE ~(r >= 2^(Half - 1))
    <3>1. r % p = r
      BY <2>6
    <3> QED BY <2>2, <2>3, <2>8, <3>1
  <2> QED BY <2>7, <2>8
<1>3. CASE ~op.w
  <2>1. width = Width
    BY <1>3 DEF width
  <2> DEFINE r == s % p
             v == IF r >= 2^(Width - 1) THEN r - p ELSE r
  <2>2. Representation(z) = v % p
    BY <2>1 DEF Representation, Signed
  <2>3. extended(s) = s
    BY <1>3 DEF extended
  <2> HIDE DEF p
  <2>4. p \in Nat \ {0} /\ s \in 0 .. p - 1
    BY <1>1 DEF p
  <2>5. r = s
    BY <2>4
  <2> HIDE DEF r
  <2>6. (r - p) % p = r
    <3>1. r - p = p * (-1) + r /\ r \in 0 .. p - 1 /\ r - p \in Int
      BY <2>4, <2>5
    <3> QED BY <2>4, <3>1, Unique
  <2>7. r % p = r
    BY <2>4, <2>5
  <2> QED BY <2>2, <2>3, <2>5, <2>6, <2>7
<1> QED BY <1>2, <1>3, Operations

-----------------------------------------------------------------------------
(* Results *)

MulDone == mul_c = (A * B) % 2^Width

\* The quotient and the remainder, with the signs of the operation; a division by zero.
DivDone ==
  div_c = IF byZero THEN [rem |-> A, quot |-> 2^Width - 1]
          ELSE LET quot == magnitude(A) \div magnitude(B)
                   rem == magnitude(A) % magnitude(B)
               IN [rem |-> IF op.uors /\ sign2 THEN Neg(rem, Width) ELSE rem,
                   quot |-> IF sign THEN Neg(quot, Width) ELSE quot]

LEMMA MulResult ==
  ASSUME op \in Operation, A \in Word, B \in Word, op.f = "MUL", MulDone
  PROVE  extended(selected) = Reference
<1> DEFINE p == 2^Width
           m == 2^width
           x == Operand(A)
           y == Operand(B)
<1>1. x \in Int /\ y \in Int /\ A % m = x % m /\ B % m = y % m
  BY OperandRight
<1>2. p \in Nat \ {0} /\ m \in Nat \ {0} /\ Divides(m, p)
  BY Widths, Powers
<1>3. A \in Int /\ B \in Int
  BY Powers DEF Word
<1> HIDE DEF p, m, x, y
<1>4. A * B \in Int /\ x * y \in Int
  BY <1>1, <1>3
<1>5. (A * B) % m = (x * y) % m
  <2>1. m \in Nat \ {0}
    BY <1>2
  <2>2. A \in Int /\ B \in Int /\ x \in Int /\ y \in Int /\ A % m = x % m /\ B % m = y % m
    BY <1>1, <1>3
  <2>3. Equal(A, x, m) /\ Equal(B, y, m)
    BY <2>2 DEF Equal
  <2>4. Equal(A * B, x * B, m) /\ Equal(B * x, y * x, m)
    BY <2>1, <2>2, <2>3, FactorCongruent, Zenon
  <2>5. x * B = B * x /\ x * y = y * x
    BY <2>2
  <2> QED BY <2>4, <2>5, Zenon DEF Equal
<1>6. ((A * B) % p) % m = (A * B) % m
  BY <1>2, <1>4, ResidueOfResidue, Zenon
<1>7. (A * B) % p \in 0 .. p - 1
  BY <1>2, <1>4, DivMod, Zenon
<1>8. selected = (A * B) % p
  BY DEF selected, MulDone, p
<1>9. selected \in Word /\ selected % m = (x * y) % m
  BY <1>5, <1>6, <1>7, <1>8 DEF Word, p
<1>10. extended(selected) = Representation(x * y)
  BY <1>4, <1>9, Represented DEF m
<1>11. Reference = Representation(x * y)
  BY Zenon DEF Reference, x, y
<1> QED BY <1>10, <1>11

\* The complement of a magnitude has the residue of its negative.
LEMMA Complement ==
  ASSUME op \in Operation, NEW q \in Word
  PROVE  /\ Neg(q, Width) \in Word
         /\ Neg(q, Width) % 2^width = (-q) % 2^width
<1> DEFINE p == 2^Width
           m == 2^width
<1>1. p \in Nat \ {0} /\ m \in Nat \ {0} /\ Divides(m, p)
  BY Widths, Powers
<1>2. q \in 0 .. p - 1
  BY DEF Word
<1>3. Neg(q, Width) = (p - q) % p
  BY DEF Neg
<1> HIDE DEF p, m
<1>4. -q \in Int /\ 1 \in Int /\ p - q \in Int /\ p - q = -q + p * 1
  BY <1>1, <1>2
<1>5. (p - q) % p = (-q) % p
  <2>1. (-q + p * 1) % p = (-q) % p
    BY <1>1, <1>4, Congruent, Zenon
  <2> QED BY <1>4, <2>1, Zenon
<1>6. (p - q) % p \in 0 .. p - 1
  BY <1>1, <1>4, DivMod, Zenon
<1>7. ((-q) % p) % m = (-q) % m
  BY <1>1, <1>4, ResidueOfResidue, Zenon
<1> QED BY <1>3, <1>5, <1>6, <1>7 DEF Word, p, m

LEMMA DivResult ==
  ASSUME op \in Operation, A \in Word, B \in Word, op.f \in {"DIV", "REM"}, DivDone
  PROVE  extended(selected) = Reference
<1> DEFINE p == 2^Width
           m == 2^width
           x == Operand(A)
           y == Operand(B)
           a == magnitude(A)
           d == magnitude(B)
<1>1. /\ x \in Int /\ a = Magnitude(x) /\ a \in 0 .. p - 1 /\ (x < 0 <=> op.uors /\ negative(A))
      /\ y \in Int /\ d = Magnitude(y) /\ d \in 0 .. p - 1 /\ (y < 0 <=> op.uors /\ negative(B))
      /\ A % m = x % m
  BY OperandRight
<1>2. byZero <=> d = 0
  BY ByZeroRight
<1>3. p \in Nat \ {0} /\ m \in Nat \ {0} /\ Divides(m, p)
  BY Widths, Powers
<1>4. Word = 0 .. p - 1
  BY DEF Word
<1>5. d = 0 <=> y = 0
  <2> HIDE DEF a, d, x, y
  <2> QED BY <1>1 DEF Magnitude
<1>6. Reference = IF op.f = "DIV" THEN Representation(Quotient(x, y))
                  ELSE Representation(Remainder(x, y))
  BY DEF Reference
<1>7. selected = IF op.f = "DIV" THEN div_c.quot ELSE div_c.rem
  BY DEF selected
<1>8. CASE byZero
  <2>1. div_c.quot = p - 1 /\ div_c.rem = A
    BY <1>8 DEF DivDone
  <2>2. y = 0
    BY <1>2, <1>5, <1>8
  <2>3. Quotient(x, y) = -1 /\ Remainder(x, y) = x
    BY <2>2 DEF Quotient, Remainder
  <2>4. p - 1 \in Word /\ (p - 1) % m = (-1) % m
    <3> HIDE DEF p, m
    <3>1. PICK n \in Nat \ {0} : p = m * n
      BY <1>3 DEF Divides
    <3>2. n \in Int /\ -1 \in Int /\ p - 1 = -1 + m * n
      BY <1>3, <3>1
    <3>3. (-1 + m * n) % m = (-1) % m
      BY <1>3, <3>2, Congruent, Zenon
    <3>4. p - 1 \in 0 .. p - 1
      BY <1>3
    <3> QED BY <1>4, <3>2, <3>3, <3>4, Zenon
  <2>5. extended(p - 1) = Representation(-1) /\ extended(A) = Representation(x)
    BY <1>1, <2>4, Represented
  <2> QED BY <1>6, <1>7, <2>1, <2>3, <2>5
<1>9. CASE ~byZero
  <2> DEFINE q == a \div d
             r == a % d
  <2>1. div_c.quot = (IF sign THEN Neg(q, Width) ELSE q)
        /\ div_c.rem = (IF op.uors /\ sign2 THEN Neg(r, Width) ELSE r)
    BY <1>9 DEF DivDone
  <2>2. y # 0 /\ d \in Nat \ {0}
    BY <1>1, <1>2, <1>5, <1>9
  <2>3. /\ Quotient(x, y) = IF (x < 0) # (y < 0) THEN -q ELSE q
        /\ Remainder(x, y) = IF x < 0 THEN -r ELSE r
    BY <1>1, <2>2 DEF Quotient, Remainder, Towards0
  <2>4. /\ sign <=> (x < 0) # (y < 0)
        /\ op.uors /\ sign2 <=> x < 0
    <3>1. op.uors \in BOOLEAN /\ negative(A) \in BOOLEAN /\ negative(B) \in BOOLEAN
      BY Operations DEF negative
    <3>2. (sign <=> op.uors /\ ~(negative(A) <=> negative(B))) /\ (sign2 <=> negative(A))
      BY <3>1, Zenon DEF sign, sign2
    <3>3. (x < 0) # (y < 0) <=> ~(x < 0 <=> y < 0)
      OBVIOUS
    <3> QED BY <1>1, <3>2, <3>3, Zenon
  <2> HIDE DEF p, m, x, y, a, d
  <2>5. q \in 0 .. p - 1 /\ r \in 0 .. p - 1
    <3>1. a \in Int /\ q \in Int /\ r \in 0 .. d - 1 /\ a = d * q + r
      <4>1. a \in Int
        BY <1>1
      <4> QED BY <2>2, <4>1, DivMod, Zenon
    <3> HIDE DEF q, r
    <3>2. ~(q >= p)
      <4>1. q >= p => 1 * p <= d * q
        BY <1>3, <2>2, <3>1, ProductBound
      <4> QED BY <1>1, <1>3, <3>1, <4>1
    <3>3. ~(-q >= 1)
      <4>1. -q >= 1 => d * (-q) >= d
        BY <2>2, <3>1, Mono
      <4>2. d * (-q) = -(d * q) /\ d * q \in Int
        BY <2>2, <3>1
      <4> QED BY <1>1, <2>2, <3>1, <4>1, <4>2
    <3>4. q \in 0 .. p - 1
      BY <1>3, <3>1, <3>2, <3>3
    <3>5. r \in 0 .. p - 1
      BY <1>1, <1>3, <2>2, <3>1
    <3> QED BY <3>4, <3>5
  <2> HIDE DEF q, r
  <2>6. q \in Word /\ r \in Word /\ q \in Int /\ r \in Int /\ -q \in Int /\ -r \in Int
    BY <1>3, <1>4, <2>5
  <2>7. /\ Neg(q, Width) \in Word /\ Neg(q, Width) % m = (-q) % m
        /\ Neg(r, Width) \in Word /\ Neg(r, Width) % m = (-r) % m
    BY <2>6, Complement DEF m
  <2>8. /\ extended(q) = Representation(q) /\ extended(Neg(q, Width)) = Representation(-q)
        /\ extended(r) = Representation(r) /\ extended(Neg(r, Width)) = Representation(-r)
    BY <2>6, <2>7, Represented, Zenon DEF m
  <2>9. CASE op.f = "DIV"
    BY <1>6, <1>7, <2>1, <2>3, <2>4, <2>8, <2>9
  <2>10. CASE op.f # "DIV"
    BY <1>6, <1>7, <2>1, <2>3, <2>4, <2>8, <2>10
  <2> QED BY <2>9, <2>10
<1> QED BY <1>8, <1>9

-----------------------------------------------------------------------------
(* The result of every operation *)

\* k shifts from the end: the bits of a that are left stand below the product of the
\* others with b.
MulShifts(left, a, b, p) ==
  \E k \in 0 .. Width :
    \E a1 \in 0 .. 2^(Width - k) - 1, a0 \in 0 .. 2^k - 1 :
      /\ left = Width + 1 - k
      /\ a = a1 * 2^k + a0
      /\ p = a1 + b * (a0 * 2^(Width - k))

MulProgress == MulShifts(mul_count, A, B, mul_p)

\* The top k bits of a are divided by d: the quotient q enters from below, the remainder
\* r stands above the bits that are left.
DivShifts(left, a, d, p) ==
  \E k \in 0 .. Width :
    \E a1 \in 0 .. 2^k - 1, a0 \in 0 .. 2^(Width - k) - 1, q \in Word, r \in Word :
      /\ left = Width + 1 - k
      /\ a = a1 * 2^(Width - k) + a0
      /\ a1 = q * d + r /\ r < d
      /\ p = r * 2^Width + a0 * 2^k + q

DivProgress == DivShifts(div_count, magnitude(A), magnitude(B), div_p)

Instruction ==
  /\ op \in Operation /\ A \in Word /\ B \in Word
  /\ valid_mul => op.f = "MUL"
  /\ valid_div => op.f \in {"DIV", "REM"}

\* Once the request is made, a unit is at work or its result is there.
Multiplying ==
  /\ op.f = "MUL" /\ ~valid /\ ~valid_mul => MulDone
  /\ mul_count > 0 => MulProgress
  /\ mul_count = 1 => MulDone

Dividing ==
  /\ op.f \in {"DIV", "REM"} /\ ~valid /\ ~valid_div => DivDone
  /\ div_count > 0 => IF byZero THEN div_count = 1 ELSE DivProgress
  /\ div_count = 1 => DivDone

UnitInv == Handshake /\ Instruction /\ Multiplying /\ Dividing

\* The next instruction comes when both units are idle; until then the operands stay.
LEMMA Stays ==
  ASSUME UnitInv, NEW hold \in BOOLEAN, Clock(hold), Handshake'
  PROVE  \/ UNCHANGED <<op, A, B>>
         \/ /\ op' \in Operation /\ A' \in Word /\ B' \in Word
            /\ valid' /\ ~valid_mul' /\ ~valid_div' /\ mul_count' = 0 /\ div_count' = 0
<1>1. \/ UNCHANGED <<op, A, B>>
      \/ op' \in Operation /\ A' \in Word /\ B' \in Word /\ ~flush_out /\ ~hold
  BY DEF Clock
<1>2. valid' = (~flush_out /\ ~hold)
  BY DEF Clock, Valids
<1>3. valid' => mul_count' = 0 /\ div_count' = 0 /\ ~valid_mul' /\ ~valid_div'
  BY DEF Handshake, FoundIdle
<1> QED BY <1>1, <1>2, <1>3

LEMMA SameOperands ==
  ASSUME UNCHANGED <<op, A, B>>
  PROVE  /\ magnitude(A)' = magnitude(A) /\ magnitude(B)' = magnitude(B)
         /\ byZero' = byZero /\ sign' = sign /\ sign2' = sign2
<1>1. op' = op /\ A' = A /\ B' = B
  OBVIOUS
<1>2. width' = width
  BY <1>1, Zenon DEF width
<1>3. magnitude(A)' = magnitude(A) /\ magnitude(B)' = magnitude(B)
  BY <1>1, <1>2, Zenon DEF magnitude, negative, Neg
<1>4. byZero' = byZero
  BY <1>1, Zenon DEF byZero, Low
<1>5. sign' = sign /\ sign2' = sign2
  BY <1>1, <1>2, Zenon DEF sign, sign2, negative
<1> QED BY <1>3, <1>4, <1>5

\* A cycle of the multiplier at work is one shift.
LEMMA MulCycle ==
  ASSUME B \in Word, A \in Word, MulProgress, mul_count > 1, mul_count \in Nat,
         A' = A, B' = B, mul_count' = mul_count - 1, mul_p' = mulNext
  PROVE  MulProgress'
<1>1. PICK k \in 0 .. Width :
        \E a1 \in 0 .. 2^(Width - k) - 1, a0 \in 0 .. 2^k - 1 :
          /\ mul_count = Width + 1 - k
          /\ A = a1 * 2^k + a0
          /\ mul_p = a1 + B * (a0 * 2^(Width - k))
  BY DEF MulProgress, MulShifts
<1> DEFINE P == 2^Width
           K == 2^k
           R == 2^(Width - (k + 1))
<1>2. k + 1 \in 0 .. Width /\ mul_count' = Width + 1 - (k + 1) /\ Width \in Nat
  BY <1>1, Powers
<1>3. /\ P \in Nat \ {0} /\ K \in Nat \ {0} /\ R \in Nat \ {0}
      /\ K * (2 * R) = P /\ 2^(k + 1) = 2 * K /\ 2^(Width - k) = 2 * R
  <2>1. /\ K \in Nat \ {0} /\ 2^(k + 1) = 2 * K /\ K * 2^(Width - k) = P
    BY PowersBetween
  <2>2. R \in Nat \ {0}
    BY <1>2, PowersBetween
  <2>3. 2^(Width - (k + 1) + 1) = 2 * R
    <3>1. Width - (k + 1) \in 0 .. Width
      BY <1>2
    <3> QED BY <3>1, PowersBetween
  <2>4. Width - (k + 1) + 1 = Width - k
    BY <1>2
  <2>5. P \in Nat \ {0}
    BY Powers
  <2> QED BY <2>1, <2>2, <2>3, <2>4, <2>5
<1>4. PICK a1 \in 0 .. 2 * R - 1, a0 \in 0 .. K - 1 :
        A = a1 * K + a0 /\ mul_p = a1 + B * (a0 * (2 * R))
  BY <1>1, <1>3
<1> DEFINE c1 == a1 \div 2
           c0 == a0 + (a1 % 2) * K
<1>5. mul_p' = c1 + B * (c0 * R)
  <2>1. B \in 0 .. P - 1
    BY DEF Word
  <2>2. mul_p' = LET sum == IF mul_p % 2 = 1 THEN ((mul_p \div P) % P) + B ELSE mul_p \div P
                 IN (sum * P + (mul_p % P)) \div 2
    BY DEF mulNext, High
  <2> HIDE DEF P, K, R
  <2> QED BY <1>3, <1>4, <2>1, <2>2, MulShift
<1> HIDE DEF P, K, R
<1>6. c1 \in 0 .. R - 1 /\ c0 \in 0 .. 2 * K - 1 /\ A = c1 * (2 * K) + c0
  <2>1. a1 % 2 \in 0 .. 1 /\ c1 \in Nat /\ a1 = 2 * c1 + (a1 % 2)
    BY <1>3
  <2>2. c1 \in 0 .. R - 1
    BY <1>3, <1>4, <2>1
  <2>3. CASE a1 % 2 = 0
    BY <1>3, <1>4, <2>1, <2>2, <2>3
  <2>4. CASE a1 % 2 = 1
    BY <1>3, <1>4, <2>1, <2>2, <2>4
  <2> QED BY <2>1, <2>3, <2>4
<1> HIDE DEF c0, c1
<1>7. /\ c1 \in 0 .. 2^(Width - (k + 1)) - 1 /\ c0 \in 0 .. 2^(k + 1) - 1
      /\ mul_count' = Width + 1 - (k + 1)
      /\ A' = c1 * 2^(k + 1) + c0
      /\ mul_p' = c1 + B' * (c0 * 2^(Width - (k + 1)))
  BY <1>2, <1>3, <1>5, <1>6 DEF R
<1> QED BY <1>2, <1>7 DEF MulProgress, MulShifts

\* After all shifts the product is there.
LEMMA MulLast ==
  ASSUME NEW a \in Word, NEW b \in Word, NEW p, MulShifts(1, a, b, p)
  PROVE  p = a * b
<1>1. PICK k \in 0 .. Width :
        \E a1 \in 0 .. 2^(Width - k) - 1, a0 \in 0 .. 2^k - 1 :
          1 = Width + 1 - k /\ a = a1 * 2^k + a0 /\ p = a1 + b * (a0 * 2^(Width - k))
  BY DEF MulShifts
<1>2. k = Width /\ Width - k = 0 /\ 2^0 = 1 /\ 2^Width \in Nat \ {0}
  BY <1>1, Powers
<1>3. PICK a0 \in Nat : a = 0 * 2^Width + a0 /\ p = 0 + b * (a0 * 1)
  BY <1>1, <1>2
<1>4. a = a0 /\ b \in Int
  BY <1>2, <1>3, Powers DEF Word
<1> QED BY <1>3, <1>4

LEMMA MultiplyingNext ==
  ASSUME UnitInv, NEW hold \in BOOLEAN, Clock(hold), Handshake'
  PROVE  Multiplying'
<1>1. /\ valid \in BOOLEAN /\ valid_mul \in BOOLEAN /\ valid_div \in BOOLEAN /\ mul_count \in Nat /\ div_count \in Nat
      /\ mul_count > 0 => valid_mul
      /\ div_count > 0 => valid_div
      /\ ~(valid_mul /\ valid_div)
      /\ valid => mul_count = 0 /\ ~valid_mul
      /\ mul_count > 0 => MulProgress
      /\ mul_count = 1 => MulDone
      /\ op.f = "MUL" /\ ~valid /\ ~valid_mul => MulDone
      /\ op.f \in {"MUL", "DIV", "REM", "OTHER"} /\ A \in Word /\ B \in Word
  BY Operations DEF UnitInv, Handshake, FoundIdle, Instruction, Multiplying
<1>2. /\ valid_mul' = IF need_mul \/ need_div THEN need_mul ELSE valid_mul /\ ~(ok_mul \/ ok_div)
      /\ mul_count' = IF ~valid_mul THEN 0
                      ELSE IF mul_count = 0 THEN Width + 1 ELSE mul_count - 1
      /\ mul_p' = mulNext
      /\ mul_c' = IF valid_mul /\ ~ok_mul THEN mulNext % 2^Width ELSE mul_c
  BY DEF Clock, Counts, Valids, Multiplier, mulCycles
<1>3. Width \in Nat \ {0} /\ 2^Width \in Nat \ {0} /\ 2^0 = 1
  BY Powers
<1>4. CASE UNCHANGED <<op, A, B>>
  <2>1. mul_c' = mul_c => (MulDone' <=> MulDone)
    BY <1>4 DEF MulDone
  <2>2. ASSUME mul_count' > 0 PROVE MulProgress'
    <3>1. valid_mul
      BY <1>2, <2>2
    <3>2. CASE mul_count = 0
      <4>1. mul_count' = Width + 1 - 0 /\ mul_p' = A
        BY <1>2, <3>1, <3>2 DEF mulNext
      <4>2. A \in 0 .. 2^(Width - 0) - 1 /\ 0 \in 0 .. 2^0 - 1 /\ 0 \in 0 .. Width
        BY <1>1, <1>3 DEF Word
      <4>3. A' = A * 2^0 + 0 /\ mul_p' = A + B' * (0 * 2^(Width - 0))
        <5>1. A \in Nat /\ B \in Nat /\ Width - 0 = Width
          BY <1>1, <1>3 DEF Word
        <5> QED BY <1>3, <1>4, <4>1, <5>1
      <4> QED BY <4>1, <4>2, <4>3, Zenon DEF MulProgress, MulShifts
    <3>3. CASE mul_count # 0
      <4>1. mul_count > 1 /\ mul_count' = mul_count - 1 /\ MulProgress
        BY <1>1, <1>2, <2>2, <3>1, <3>3
      <4> QED BY <1>1, <1>2, <1>4, <4>1, MulCycle
    <3> QED BY <3>2, <3>3
  <2>3. ASSUME mul_count' = 1 PROVE MulDone'
    <3>1. valid_mul /\ ~ok_mul
      BY <1>1, <1>2, <1>3, <2>3 DEF ok_mul
    <3>2. MulProgress'
      BY <2>2, <2>3
    <3>3. A' \in Word /\ B' \in Word
      BY <1>1, <1>4
    <3>4. MulShifts(1, A', B', mul_p')
      BY <2>3, <3>2 DEF MulProgress, MulShifts
    <3>5. mul_p' = A' * B'
      BY <3>3, <3>4, MulLast
    <3> QED BY <1>2, <3>1, <3>5 DEF MulDone
  <2>4. ASSUME op'.f = "MUL", ~valid', ~valid_mul' PROVE MulDone'
    <3>1. ~need_mul
      BY <1>2, <2>4
    <3>2. op.f = "MUL" /\ ~need_div
      BY <1>4, <2>4 DEF need_div
    <3>3. ~valid
      BY <1>1, <3>1, <3>2 DEF need_mul
    <3>4. CASE valid_mul
      <4>1. ~ok_div
        BY <1>1, <3>4 DEF ok_div
      <4>2. ok_mul
        BY <1>2, <2>4, <3>1, <3>2, <3>4, <4>1, Zenon
      <4> QED BY <1>1, <1>2, <2>1, <4>2 DEF ok_mul
    <3>5. CASE ~valid_mul
      BY <1>1, <1>2, <2>1, <3>2, <3>3, <3>5
    <3> QED BY <3>4, <3>5
  <2> QED BY <2>2, <2>3, <2>4 DEF Multiplying
<1>5. CASE valid' /\ mul_count' = 0
  BY <1>5 DEF Multiplying
<1> QED BY <1>4, <1>5, Stays

\* A cycle of the divider at work is one shift.
LEMMA DivCycle ==
  ASSUME op \in Operation, A \in Word, B \in Word, DivProgress, ~byZero, valid_div,
         div_count > 1, div_count \in Nat,
         UNCHANGED <<op, A, B>>, div_count' = div_count - 1, div_p' = divNext
  PROVE  DivProgress'
<1> DEFINE a == magnitude(A)
           d == magnitude(B)
           P == 2^Width
<1>1. PICK k \in 0 .. Width :
        \E a1 \in 0 .. 2^k - 1, a0 \in 0 .. 2^(Width - k) - 1, q \in Word, r \in Word :
          /\ div_count = Width + 1 - k
          /\ a = a1 * 2^(Width - k) + a0
          /\ a1 = q * d + r /\ r < d
          /\ div_p = r * P + a0 * 2^k + q
  BY DEF DivProgress, DivShifts
<1> DEFINE K == 2^k
           R == 2^(Width - (k + 1))
           M == 2^(2 * Width + 1)
<1>2. k + 1 \in 0 .. Width /\ div_count' = Width + 1 - (k + 1) /\ Width \in Nat
  BY <1>1, Powers
<1>3. /\ P \in Nat \ {0} /\ K \in Nat \ {0} /\ R \in Nat \ {0}
      /\ K * (2 * R) = P /\ 2^(k + 1) = 2 * K /\ 2^(Width - k) = 2 * R
  <2>1. /\ K \in Nat \ {0} /\ 2^(k + 1) = 2 * K /\ K * 2^(Width - k) = P
    BY PowersBetween
  <2>2. R \in Nat \ {0}
    BY <1>2, PowersBetween
  <2>3. 2^(Width - (k + 1) + 1) = 2 * R
    <3>1. Width - (k + 1) \in 0 .. Width
      BY <1>2
    <3> QED BY <3>1, PowersBetween
  <2>4. Width - (k + 1) + 1 = Width - k
    BY <1>2
  <2>5. P \in Nat \ {0}
    BY Powers
  <2> QED BY <2>1, <2>2, <2>3, <2>4, <2>5
<1>4. M \in Nat \ {0} /\ M = 2 * (P * P)
  BY Powers
<1>5. d \in Nat \ {0} /\ d < P
  BY <1>3, OperandRight, ByZeroRight
<1>6. Word = 0 .. P - 1
  BY DEF Word
<1>7. div_p' = LET s == (div_p * 2) % M
               IN IF (s \div P) % P >= d THEN s - d * P + 1 ELSE s
  <2>1. div_count # 0
    OBVIOUS
  <2>2. divB = d
    BY DEF divB, dividing
  <2> QED BY <2>1, <2>2 DEF divNext, High
<1> HIDE DEF a, d, P, K, R, M
<1>8. PICK a1 \in 0 .. K - 1, a0 \in 0 .. 2 * R - 1, q \in Nat, r \in 0 .. d - 1 :
        /\ a = a1 * (2 * R) + a0
        /\ a1 = q * d + r
        /\ div_p = r * P + a0 * K + q
  <2>1. PICK a1 \in 0 .. 2^k - 1, a0 \in 0 .. 2^(Width - k) - 1, q \in Word, r \in Word :
          /\ a = a1 * 2^(Width - k) + a0
          /\ a1 = q * d + r /\ r < d
          /\ div_p = r * P + a0 * 2^k + q
    BY <1>1
  <2>2. q \in Nat /\ r \in 0 .. d - 1
    BY <1>3, <1>5, <1>6, <2>1
  <2>3. a1 \in 0 .. K - 1 /\ a0 \in 0 .. 2 * R - 1 /\ a = a1 * (2 * R) + a0
        /\ div_p = r * P + a0 * K + q
    BY <1>3, <2>1 DEF K
  <2> QED BY <2>1, <2>2, <2>3, Zenon
<1>9. PICK b \in 0 .. 1, c0 \in 0 .. R - 1, q1 \in Nat, r1 \in 0 .. d - 1 :
        /\ a0 = b * R + c0 /\ 2 * a1 + b = q1 * d + r1
        /\ div_p' = r1 * P + c0 * (2 * K) + q1
  <2> DEFINE p == r * P + a0 * K + q
             s == (p * 2) % M
  <2>1. div_p' = IF (s \div P) % P >= d THEN s - d * P + 1 ELSE s
    BY <1>7, <1>8, Zenon
  <2>2. \E b \in 0 .. 1, c0 \in 0 .. R - 1, q1 \in Nat, r1 \in 0 .. d - 1 :
          /\ a0 = b * R + c0 /\ 2 * a1 + b = q1 * d + r1
          /\ (IF (s \div P) % P >= d THEN s - d * P + 1 ELSE s) = r1 * P + c0 * (2 * K) + q1
    <3>1. BeforeShift(P, K, R, M, d, a1, a0, q, r)
      BY <1>3, <1>4, <1>5, <1>8 DEF BeforeShift
    <3>2. AfterShift(P, K, R, M, d, a1, a0, q, r)
      BY <3>1, DivShift, Zenon
    <3> QED BY <3>2, Zenon DEF AfterShift
  <2> HIDE DEF s
  <2> QED BY <2>1, <2>2
<1> DEFINE c1 == 2 * a1 + b
<1>10. c1 \in 0 .. 2 * K - 1 /\ a = c1 * R + c0
  <2>1. c1 \in 0 .. 2 * K - 1
    BY <1>3
  <2>2. CASE b = 0
    BY <1>3, <1>8, <1>9, <2>2
  <2>3. CASE b = 1
    BY <1>3, <1>8, <1>9, <2>3
  <2> QED BY <2>1, <2>2, <2>3
<1>11. q1 \in Word /\ r1 \in Word
  <2>1. 2 * K <= P
    <3>1. (2 * K) * 1 <= (2 * K) * R /\ (2 * K) * R = P
      BY <1>3, ProductBound
    <3> QED BY <1>3, <3>1
  <2>2. q1 * 1 <= q1 * d /\ q1 * d \in Nat
    BY <1>5, ProductBound
  <2>3. q1 <= c1
    BY <1>5, <1>9, <2>2
  <2> QED BY <1>3, <1>5, <1>6, <1>10, <2>1, <2>3
<1> HIDE DEF c1
<1>12. magnitude(A)' = a /\ magnitude(B)' = d
  BY SameOperands DEF a, d
<1>13. /\ c1 \in 0 .. 2^(k + 1) - 1 /\ c0 \in 0 .. 2^(Width - (k + 1)) - 1
       /\ div_count' = Width + 1 - (k + 1)
       /\ magnitude(A)' = c1 * 2^(Width - (k + 1)) + c0
       /\ c1 = q1 * magnitude(B)' + r1 /\ r1 < magnitude(B)'
       /\ div_p' = r1 * 2^Width + c0 * 2^(k + 1) + q1
  BY <1>2, <1>3, <1>5, <1>9, <1>10, <1>12 DEF R, P, c1
<1> QED BY <1>2, <1>11, <1>13 DEF DivProgress, DivShifts

\* After all shifts quotient and remainder are there.
LEMMA DivLast ==
  ASSUME NEW a \in Word, NEW d \in Nat \ {0}, NEW p, DivShifts(1, a, d, p)
  PROVE  High(p, Width) = a % d /\ p % 2^Width = a \div d
<1> DEFINE P == 2^Width
<1>1. PICK k \in 0 .. Width :
        \E a1 \in 0 .. 2^k - 1, a0 \in 0 .. 2^(Width - k) - 1, q \in Word, r \in Word :
          /\ 1 = Width + 1 - k
          /\ a = a1 * 2^(Width - k) + a0
          /\ a1 = q * d + r /\ r < d
          /\ p = r * 2^Width + a0 * 2^k + q
  BY DEF DivShifts
<1>2. k = Width /\ Width - k = 0 /\ 2^0 = 1 /\ P \in Nat \ {0}
  BY <1>1, Powers
<1>3. PICK a1 \in 0 .. P - 1, q \in Word, r \in Word :
        /\ a = a1 * 1 + 0 /\ a1 = q * d + r /\ r < d
        /\ p = r * P + 0 * P + q
  <2>1. PICK a1 \in 0 .. 2^k - 1, a0 \in 0 .. 2^(Width - k) - 1, q \in Word, r \in Word :
          /\ 1 = Width + 1 - k
          /\ a = a1 * 2^(Width - k) + a0
          /\ a1 = q * d + r /\ r < d
          /\ p = r * 2^Width + a0 * 2^k + q
    BY <1>1, Zenon
  <2>2. a0 \in 0 .. 0 /\ a1 \in 0 .. P - 1
    BY <1>2
  <2>3. a = a1 * 1 + 0 /\ p = r * P + 0 * P + q
    BY <1>2, <2>1, <2>2
  <2> QED BY <2>1, <2>2, <2>3, Zenon
<1>4. q \in 0 .. P - 1 /\ r \in 0 .. P - 1
  BY DEF Word
<1> HIDE DEF P
<1>5. a \in Int /\ q \in Int /\ r \in 0 .. d - 1 /\ a = d * q + r
  BY <1>2, <1>3, <1>4
<1>6. a \div d = q /\ a % d = r
  BY <1>5, Unique, Zenon
<1>7. P \in Nat \ {0} /\ p \in Int /\ r \in Int /\ q \in 0 .. P - 1 /\ p = P * r + q
  BY <1>2, <1>3, <1>4
<1>8. p \div P = r /\ p % P = q
  BY <1>7, Unique, Zenon
<1>9. r % P = r
  BY <1>2, <1>4
<1> QED BY <1>6, <1>8, <1>9 DEF High, P

LEMMA DividingNext ==
  ASSUME UnitInv, NEW hold \in BOOLEAN, Clock(hold), Handshake'
  PROVE  Dividing'
<1>1. /\ valid \in BOOLEAN /\ valid_mul \in BOOLEAN /\ valid_div \in BOOLEAN
      /\ mul_count \in Nat /\ div_count \in Nat
      /\ mul_count > 0 => valid_mul
      /\ div_count > 0 => valid_div
      /\ ~(valid_mul /\ valid_div)
      /\ valid => div_count = 0 /\ ~valid_div
      /\ div_count > 0 => IF byZero THEN div_count = 1 ELSE DivProgress
      /\ div_count = 1 => DivDone
      /\ op.f \in {"DIV", "REM"} /\ ~valid /\ ~valid_div => DivDone
      /\ op \in Operation /\ A \in Word /\ B \in Word
  BY DEF UnitInv, Handshake, FoundIdle, Instruction, Dividing
<1>2. /\ valid_div' = IF need_mul \/ need_div THEN need_div ELSE valid_div /\ ~(ok_mul \/ ok_div)
      /\ div_count' = IF ~valid_div THEN 0
                      ELSE IF div_count = 0 THEN divCycles ELSE div_count - 1
      /\ div_p' = divNext
      /\ div_c' = IF ~valid_div \/ ok_div THEN div_c
                  ELSE IF byZero THEN [rem |-> divA, quot |-> 2^Width - 1]
                  ELSE signedResult(divNext)
  BY DEF Clock, Counts, Valids, Divider
<1>3. Width \in Nat \ {0} /\ 2^Width \in Nat \ {0} /\ 2^0 = 1
  BY Powers
<1>4. divCycles = IF byZero THEN 1 ELSE Width + 1
  BY DEF divCycles
<1>5. CASE UNCHANGED <<op, A, B>>
  <2>1. /\ magnitude(A)' = magnitude(A) /\ magnitude(B)' = magnitude(B)
        /\ byZero' = byZero /\ sign' = sign /\ sign2' = sign2 /\ op' = op /\ A' = A
    BY <1>5, SameOperands
  <2>2. DivDone /\ div_c' = div_c => DivDone'
    BY <2>1 DEF DivDone, Neg
  <2>3. ASSUME div_count' > 0, ~byZero PROVE DivProgress'
    <3>1. valid_div
      BY <1>2, <2>3
    <3>2. CASE div_count = 0
      <4>1. div_count' = Width + 1 - 0 /\ div_p' = magnitude(A)
        BY <1>2, <1>3, <1>4, <2>3, <3>1, <3>2 DEF divNext, divA, dividing
      <4>2. /\ magnitude(A) \in 0 .. 2^Width - 1 /\ magnitude(B) \in Nat \ {0}
        BY <1>1, <1>3, <2>3, OperandRight, ByZeroRight
      <4>3. /\ magnitude(A) \in 0 .. 2^(Width - 0) - 1 /\ 0 \in 0 .. 2^0 - 1 /\ 0 \in 0 .. Width
            /\ 0 \in Word
        BY <1>3, <4>2 DEF Word
      <4>4. /\ magnitude(A)' = 0 * 2^(Width - 0) + magnitude(A)
            /\ 0 = 0 * magnitude(B)' + 0 /\ 0 < magnitude(B)'
            /\ div_p' = 0 * 2^Width + magnitude(A) * 2^0 + 0
        <5>1. Width - 0 = Width
          BY <1>3
        <5> QED BY <1>3, <2>1, <4>1, <4>2, <5>1
      <4> QED BY <4>1, <4>3, <4>4, Zenon DEF DivProgress, DivShifts
    <3>3. CASE div_count # 0
      <4>1. div_count > 1 /\ div_count' = div_count - 1 /\ DivProgress
        BY <1>1, <1>2, <2>3, <3>1, <3>3
      <4> QED BY <1>1, <1>2, <1>5, <2>3, <3>1, <4>1, DivCycle
    <3> QED BY <3>2, <3>3
  <2>4. ASSUME div_count' > 0, byZero PROVE div_count' = 1
    BY <1>1, <1>2, <1>4, <2>4
  <2>5. ASSUME div_count' = 1 PROVE DivDone'
    <3>1. valid_div
      BY <1>2, <2>5
    <3>2. CASE byZero
      <4>1. ~ok_div
        BY <1>1, <1>2, <1>4, <2>5, <3>1, <3>2 DEF ok_div
      <4>2. div_c' = [rem |-> A, quot |-> 2^Width - 1]
        BY <1>2, <3>1, <3>2, <4>1 DEF divA, dividing
      <4> QED BY <2>1, <3>2, <4>2 DEF DivDone
    <3>3. CASE ~byZero
      <4> DEFINE a == magnitude(A)
                 d == magnitude(B)
      <4>1. ~ok_div
        BY <1>1, <1>2, <2>5, <3>1 DEF ok_div
      <4>2. div_c' = signedResult(div_p')
        BY <1>2, <3>1, <3>3, <4>1
      <4>3. a \in Word /\ d \in Nat \ {0}
        BY <1>1, <3>3, OperandRight, ByZeroRight DEF Word
      <4>4. DivProgress'
        BY <2>3, <2>5, <3>3
      <4>5. DivShifts(1, a, d, div_p')
        <5>1. DivShifts(div_count', magnitude(A)', magnitude(B)', div_p')
          BY <4>4, Zenon DEF DivProgress, DivShifts
        <5> QED BY <2>1, <2>5, <5>1, Zenon
      <4> HIDE DEF a, d
      <4>6. High(div_p', Width) = a % d /\ div_p' % 2^Width = a \div d
        BY <4>3, <4>5, DivLast
      <4>7. sign => op.uors
        BY DEF sign
      <4>8. signedResult(div_p') =
              [rem |-> IF op.uors /\ sign2 THEN Neg(a % d, Width) ELSE a % d,
               quot |-> IF sign THEN Neg(a \div d, Width) ELSE a \div d]
        BY <4>6, <4>7, Zenon DEF signedResult
      <4> QED BY <2>1, <3>3, <4>2, <4>8 DEF DivDone, a, d, Neg
    <3> QED BY <3>2, <3>3
  <2>6. ASSUME op'.f \in {"DIV", "REM"}, ~valid', ~valid_div' PROVE DivDone'
    <3>1. op.f \in {"DIV", "REM"} /\ ~need_mul
      BY <2>1, <2>6 DEF need_mul
    <3>2. ~need_div
      BY <1>2, <2>6
    <3>3. ~valid
      BY <1>1, <3>1, <3>2 DEF need_div
    <3>4. CASE valid_div
      <4>1. ~ok_mul
        BY <1>1, <3>4 DEF ok_mul
      <4>2. ok_div
        BY <1>2, <2>6, <3>1, <3>2, <3>4, <4>1, Zenon
      <4> QED BY <1>1, <1>2, <2>2, <4>2 DEF ok_div
    <3>5. CASE ~valid_div
      BY <1>1, <1>2, <2>2, <3>1, <3>3, <3>5
    <3> QED BY <3>4, <3>5
  <2> QED BY <2>1, <2>3, <2>4, <2>5, <2>6 DEF Dividing
<1>6. CASE valid' /\ div_count' = 0
  BY <1>6 DEF Dividing
<1> QED BY <1>5, <1>6, Stays

LEMMA InstructionNext ==
  ASSUME UnitInv, NEW hold \in BOOLEAN, Clock(hold), Handshake'
  PROVE  Instruction'
<1>1. /\ op \in Operation /\ A \in Word /\ B \in Word
      /\ valid_mul => op.f = "MUL"
      /\ valid_div => op.f \in {"DIV", "REM"}
  BY DEF UnitInv, Instruction
<1>2. /\ valid_mul' = IF need_mul \/ need_div THEN need_mul ELSE valid_mul /\ ~(ok_mul \/ ok_div)
      /\ valid_div' = IF need_mul \/ need_div THEN need_div ELSE valid_div /\ ~(ok_mul \/ ok_div)
  BY DEF Clock, Valids
<1>3. CASE UNCHANGED <<op, A, B>>
  <2>1. valid_mul' => op.f = "MUL"
    BY <1>1, <1>2 DEF need_mul
  <2>2. valid_div' => op.f \in {"DIV", "REM"}
    BY <1>1, <1>2 DEF need_div
  <2> QED BY <1>1, <1>3, <2>1, <2>2 DEF Instruction, Word, Operation
<1>4. CASE op' \in Operation /\ A' \in Word /\ B' \in Word /\ ~valid_mul' /\ ~valid_div'
  BY <1>4 DEF Instruction, Word, Operation
<1> QED BY <1>3, <1>4, Stays

LEMMA ResultWhenReady == UnitInv => ResultRight
<1> SUFFICES ASSUME UnitInv, ~flush_out PROVE Result = Reference
  BY DEF ResultRight
<1>1. /\ mul_count \in Nat /\ div_count \in Nat
      /\ op \in Operation /\ A \in Word /\ B \in Word
      /\ op.f = "MUL" /\ ~valid /\ ~valid_mul => MulDone
      /\ mul_count = 1 => MulDone
      /\ op.f \in {"DIV", "REM"} /\ ~valid /\ ~valid_div => DivDone
      /\ div_count = 1 => DivDone
  BY DEF UnitInv, Handshake, Instruction, Multiplying, Dividing
<1>2. ~error_mul /\ ~error_div /\ ~need_mul /\ ~need_div
  BY DEF flush_out
<1>3. Result = extended(selected)
  BY <1>2 DEF Result
<1>4. /\ ~valid_mul \/ mul_count = 1
      /\ ~valid_div \/ div_count = 1
  BY <1>2 DEF error_mul, error_div, ok_mul, ok_div
<1>5. CASE op.f = "MUL"
  <2>1. MulDone
    BY <1>1, <1>2, <1>4, <1>5 DEF need_mul
  <2> QED BY <1>1, <1>3, <1>5, <2>1, MulResult
<1>6. CASE op.f \in {"DIV", "REM"}
  <2>1. DivDone
    BY <1>1, <1>2, <1>4, <1>6 DEF need_div
  <2> QED BY <1>1, <1>3, <1>6, <2>1, DivResult
<1>7. CASE op.f = "OTHER"
  <2>1. ~op.w
    BY <1>1, <1>7, Operations
  <2>2. Result = A
    BY <1>3, <1>7, <2>1 DEF extended, selected
  <2>3. Reference = A
    BY <1>7 DEF Reference
  <2> QED BY <2>2, <2>3
<1> QED BY <1>1, <1>5, <1>6, <1>7, Operations

\* A unit at work holds the partial result of its shifts, and a unit that is done holds
\* the product, or quotient and remainder, of the operands in E (ALU_mul.sv 61-88,
\* ALU_div.sv 46-136).
THEOREM UnitInvariance == Spec => []UnitInv
<1>1. Init => UnitInv
  <2> SUFFICES ASSUME Init PROVE UnitInv
    OBVIOUS
  <2>1. Handshake
    BY HandshakeInit
  <2>2. valid /\ ~valid_mul /\ ~valid_div /\ mul_count = 0 /\ div_count = 0
    BY Zenon DEF Init
  <2>3. op \in Operation /\ A \in Word /\ B \in Word
    BY DEF Init
  <2> QED BY <2>1, <2>2, <2>3 DEF UnitInv, Instruction, Multiplying, Dividing
<1>2. UnitInv /\ [Next]_vars => UnitInv'
  <2> SUFFICES ASSUME UnitInv, [Next]_vars PROVE UnitInv'
    OBVIOUS
  <2>1. Handshake'
    BY HandshakeNext DEF UnitInv
  <2>2. CASE Next
    <3>1. PICK hold \in BOOLEAN : Clock(hold)
      BY <2>2 DEF Next
    <3>2. Instruction' /\ Multiplying' /\ Dividing'
      BY <2>1, <3>1, InstructionNext, MultiplyingNext, DividingNext
    <3> QED BY <2>1, <3>2 DEF UnitInv
  <2>3. CASE UNCHANGED vars
    <3>1. UNCHANGED <<op, A, B, valid, valid_mul, valid_div, mul_count, div_count,
                      mul_p, div_p, mul_c, div_c>>
      BY <2>3 DEF vars
    <3>2. /\ magnitude(A)' = magnitude(A) /\ magnitude(B)' = magnitude(B)
          /\ byZero' = byZero /\ sign' = sign /\ sign2' = sign2 /\ op' = op /\ A' = A
      BY <3>1, SameOperands
    <3>3. MulDone => MulDone'
      BY <3>1 DEF MulDone
    <3>4. DivDone => DivDone'
      BY <3>1, <3>2 DEF DivDone, Neg
    <3>5. MulProgress => MulProgress'
      BY <3>1 DEF MulProgress, MulShifts
    <3>6. DivProgress => DivProgress'
      <4>1. div_count' = div_count /\ div_p' = div_p
        BY <3>1
      <4>2. DivProgress' <=> DivShifts(div_count', magnitude(A)', magnitude(B)', div_p')
        BY Zenon DEF DivProgress, DivShifts
      <4> QED BY <3>2, <4>1, <4>2, Zenon DEF DivProgress
    <3>7. Instruction'
      BY <3>1 DEF UnitInv, Instruction, Operation, Word
    <3>8. Multiplying'
      BY <3>1, <3>3, <3>5 DEF UnitInv, Multiplying
    <3>9. Dividing'
      BY <3>1, <3>2, <3>4, <3>6 DEF UnitInv, Dividing
    <3> QED BY <2>1, <3>7, <3>8, <3>9 DEF UnitInv
  <2> QED BY <2>2, <2>3
<1> QED BY <1>1, <1>2, PTL DEF Spec

\* What stage M takes of an operation is its product, quotient or remainder, in words of
\* every width (ALU.sv 43-69, 144-176; ALU_mul.sv 61-88; ALU_div.sv 46-136).
THEOREM RightResult == Spec => []ResultRight
BY UnitInvariance, ResultWhenReady, PTL

-----------------------------------------------------------------------------
(***************************************************************************)
(* The serial line.                                                        *)
(***************************************************************************)
StopBit == DataBits + 2

LineIdle == rx = Line!Idle /\ txBit = 1

\* Clocks that the bit on the line has been there; whether it has been sampled.
Age == IF bitTmr = 0 THEN BitTime - 1 ELSE bitTmr - 1
Sampled == BitTime \div 2 < Age

\* No character is waiting: all are received and answered.
Quiet ==
  /\ ~ Line!writing /\ txState = "RDY" /\ LineIdle
  /\ req = Line!NoRequest => putchar \/ phase # 0
  /\ received = issued /\ acked = issued

\* A character is on its way: the last one issued.
OnItsWay == Line!writing /\ acked = received /\ issued = Append(received, req.char)

Given == OnItsWay /\ txState = "RDY" /\ putchar /\ phase # 0 /\ LineIdle

Begun ==
  /\ OnItsWay /\ txState = "LOAD_BIT" /\ bitIndex = 0 /\ bitTmr = 0
  /\ txData = Line!Frame(req.char) /\ LineIdle

\* A bit of the frame is on the line.
InFrame ==
  /\ Line!writing /\ ~ putchar /\ bitIndex \in 1 .. StopBit
  /\ \/ txState = "SEND_BIT" /\ bitTmr \in 1 .. BitTime - 1
     \/ txState = "LOAD_BIT" /\ bitTmr = 0 /\ bitIndex < StopBit
  /\ txData = Line!Frame(req.char) /\ txBit = txData[bitIndex]

\* The receiver is as old as the frame and has the bits sampled so far.
Listening ==
  /\ OnItsWay /\ InFrame
  /\ bitIndex = StopBit => ~ Sampled
  /\ rx.age \in Nat /\ rx.age % BitTime = Age /\ (rx.age = 0 => bitIndex = 1)
  /\ rx.bits = [k \in 1 .. (IF Sampled THEN bitIndex ELSE bitIndex - 1) |-> txData[k]]

\* The character is received and waits for its answer.
Received == Line!writing /\ received = issued /\ issued = Append(acked, req.char)

Heard == Received /\ InFrame /\ bitIndex = StopBit /\ Sampled /\ LineIdle

Done == Received /\ txState = "RDY" /\ ~ putchar /\ LineIdle

LineType ==
  /\ phase \in 0 .. Ratio - 1 /\ req \in {Line!NoRequest} \cup Line!Requests
  /\ resets \in Nat /\ finish \in BOOLEAN /\ putchar \in BOOLEAN
  /\ issued \in Seq(Line!Char) /\ acked \in Seq(Line!Char)

Talking == Quiet \/ Given \/ Begun \/ Listening \/ Heard \/ Done

LineInv == LineType /\ (~ finish /\ resets = 0 => Talking)

-----------------------------------------------------------------------------
(* Frames. *)

LEMMA LineConstants ==
  /\ Ratio \in Nat /\ Ratio >= 2 /\ BitTime \in Nat /\ BitTime >= 3
  /\ DataBits \in Nat /\ StopBit \in Nat /\ StopBit >= 2
  /\ BitTime \div 2 \in Nat /\ BitTime \div 2 >= 1 /\ BitTime \div 2 < BitTime - 1
  /\ (BitTime - 2 <= BitTime \div 2 => BitTime \div 2 = BitTime - 2)
BY LineAssumption DEF StopBit

\* A frame begins with 0 and ends with 1.
LEMMA FrameEnds ==
  ASSUME NEW c
  PROVE  /\ Line!Frame(c) = [k \in 1 .. StopBit |-> Line!Frame(c)[k]]
         /\ Line!Frame(c)[1] = 0 /\ Line!Frame(c)[StopBit] = 1
<1> DEFINE mid == [i \in 1 .. DataBits |-> (c \div 2^(i - 1)) % 2]
           Bit == {0, 1} \cup {mid[i] : i \in 1 .. DataBits}
<1>0. DataBits \in Nat
  BY LineConstants
<1>1. Line!Frame(c) = (<<0>> \o mid) \o <<1>>
  BY DEF Line!Frame
<1>2. \A i \in 1 .. DataBits : mid[i] \in Bit
  OBVIOUS
<1>3. mid = [i \in 1 .. DataBits |-> mid[i]]
  OBVIOUS
<1>4. 0 \in Bit /\ 1 \in Bit
  OBVIOUS
<1> HIDE DEF mid, Bit
<1>5. mid \in Seq(Bit) /\ Len(mid) = DataBits
  <2>1. mid \in [1 .. DataBits -> Bit]
    BY <1>2, <1>3
  <2> QED  BY <1>0, <2>1
<1>6. <<0>> \in Seq(Bit) /\ <<1>> \in Seq(Bit) /\ Len(<<0>>) = 1 /\ Len(<<1>>) = 1
      /\ <<0>>[1] = 0 /\ <<1>>[1] = 1
  BY <1>4
<1>7. /\ <<0>> \o mid \in Seq(Bit) /\ Len(<<0>> \o mid) = 1 + DataBits
      /\ (<<0>> \o mid)[1] = 0
  <2>1. 1 <= Len(<<0>>) /\ 1 \in 1 .. Len(<<0>>) + Len(mid)
    BY <1>0, <1>5, <1>6
  <2> QED  BY <1>5, <1>6, <2>1, ConcatProperties
<1> DEFINE s == <<0>> \o mid
<1> HIDE DEF s
<1>8. s \in Seq(Bit) /\ Len(s) = 1 + DataBits /\ s[1] = 0
  BY <1>7 DEF s
<1>9. /\ s \o <<1>> \in Seq(Bit) /\ Len(s \o <<1>>) = DataBits + 2
      /\ (s \o <<1>>)[1] = 0 /\ (s \o <<1>>)[DataBits + 2] = 1
  <2>1. /\ 1 \in 1 .. Len(s) + Len(<<1>>) /\ 1 <= Len(s)
        /\ DataBits + 2 \in 1 .. Len(s) + Len(<<1>>) /\ ~ (DataBits + 2 <= Len(s))
        /\ DataBits + 2 - Len(s) = 1 /\ Len(s) + Len(<<1>>) = DataBits + 2
    BY <1>0, <1>6, <1>8
  <2>2. /\ s \o <<1>> \in Seq(Bit) /\ Len(s \o <<1>>) = Len(s) + Len(<<1>>)
        /\ \A i \in 1 .. Len(s) + Len(<<1>>) :
             (s \o <<1>>)[i] = IF i <= Len(s) THEN s[i] ELSE <<1>>[i - Len(s)]
    BY <1>6, <1>8, ConcatProperties
  <2> QED  BY <1>6, <1>8, <2>1, <2>2
<1>10. Line!Frame(c) = s \o <<1>>
  BY <1>1 DEF s
<1>11. s \o <<1>> = [k \in 1 .. Len(s \o <<1>>) |-> (s \o <<1>>)[k]]
  BY <1>9
<1> QED  BY <1>9, <1>10, <1>11 DEF StopBit

\* Whoever has the whole frame has the character.
LEMMA FrameDecoded ==
  ASSUME NEW c \in Line!Char
  PROVE  Line!Decoded(Line!Frame(c)) = c
<1> DEFINE P(d) == SubSeq(Line!Frame(c), 2, DataBits + 1) = SubSeq(Line!Frame(d), 2, DataBits + 1)
<1>1. \A d \in Line!Char : P(d) => c = d
  BY LineAssumption
<1>2. P(c)
  OBVIOUS
<1>3. Line!Decoded(Line!Frame(c)) = CHOOSE d \in Line!Char : P(d)
  BY DEF Line!Decoded
<1> HIDE DEF P
<1>4. (CHOOSE d \in Line!Char : P(d)) \in Line!Char /\ P(CHOOSE d \in Line!Char : P(d))
  BY <1>2
<1> QED  BY <1>1, <1>3, <1>4

\* One bit more of what begins a frame.
LEMMA OneMoreBit ==
  ASSUME NEW f, NEW n \in Nat
  PROVE  Append([k \in 1 .. n |-> f[k]], f[n + 1]) = [k \in 1 .. n + 1 |-> f[k]]
OBVIOUS

\* One clock later in the same bit, or in the next one.
LEMMA NextClock ==
  ASSUME NEW a \in Nat
  PROVE  /\ a % BitTime < BitTime - 1 => (a + 1) % BitTime = (a % BitTime) + 1
         /\ a % BitTime = BitTime - 1 => (a + 1) % BitTime = 0
<1> DEFINE T == BitTime  q == a \div T  r == a % T
<1>1. T \in Nat \ {0} /\ T >= 3
  BY LineConstants
<1>2. q \in Int /\ r \in 0 .. T - 1 /\ a = T * q + r
  BY <1>1, DivMod
<1> HIDE DEF T, q, r
<1>3. ASSUME r < T - 1  PROVE (a + 1) % T = r + 1
  <2>1. a + 1 = T * q + (r + 1) /\ r + 1 \in 0 .. T - 1
    BY <1>1, <1>2, <1>3
  <2> DEFINE b == a + 1  s == r + 1
  <2>2. b \in Int /\ s \in 0 .. T - 1 /\ b = T * q + s
    BY <2>1
  <2> HIDE DEF b, s
  <2>3. b % T = s
    BY <1>1, <1>2, <2>2, Unique
  <2> QED  BY <2>3 DEF b, s
<1>4. ASSUME r = T - 1  PROVE (a + 1) % T = 0
  <2>1. a + 1 = T * (q + 1) + 0 /\ q + 1 \in Int /\ 0 \in 0 .. T - 1
    BY <1>1, <1>2, <1>4
  <2> DEFINE b == a + 1  p == q + 1
  <2>2. b \in Int /\ p \in Int /\ b = T * p + 0
    BY <2>1
  <2> HIDE DEF b, p
  <2>3. b % T = 0
    BY <1>1, <2>1, <2>2, Unique
  <2> QED  BY <2>3 DEF b
<1> QED  BY <1>3, <1>4 DEF T, r

-----------------------------------------------------------------------------
(* A clock, while no text of the device is sent. *)

Talked == LineType /\ ~ finish /\ Line!Clock /\ ~ finish'

\* What the device does in it.
LEMMA DeviceClock ==
  ASSUME Talked
  PROVE  /\ putchar' = (req = Line!NoRequest \/ (putchar /\ ~ (Line!writing /\ txState # "RDY")))
         /\ Line!send = Line!writing
         /\ Line!writing => txData' = Line!Frame(req.char)
         /\ Line!Transmit /\ Line!Counters
         /\ txBit' = IF txState = "RDY" THEN 1
                     ELSE IF txState = "LOAD_BIT" THEN txData[bitIndex + 1] ELSE txBit
         /\ req.kind # "FINISH" /\ resets' = resets
<1>1. Line!Device(FALSE) /\ resets' = resets
  BY DEF Talked, Line!Clock
<1>2. Line!send = Line!writing
  BY DEF Talked, Line!send, Line!writing
<1>3. Line!char_data = req.char
  BY DEF Talked, Line!char_data
<1>4. putchar' = (req = Line!NoRequest \/ (putchar /\ ~ (Line!writing /\ txState # "RDY")))
  BY <1>1 DEF Line!Device, Line!SentFlag
<1>5. Line!writing => txData' = Line!Frame(req.char)
  BY <1>1, <1>2, <1>3 DEF Line!Device
<1>6. Line!Transmit /\ Line!Counters
  BY <1>1 DEF Line!Device
<1>7. txBit' = IF txState = "RDY" THEN 1
               ELSE IF txState = "LOAD_BIT" THEN txData[bitIndex + 1] ELSE txBit
  BY <1>1 DEF Line!Device
<1>8. req.kind # "FINISH"
  BY <1>1 DEF Talked, Line!Device
<1> QED  BY <1>1, <1>2, <1>4, <1>5, <1>6, <1>7, <1>8

\* Nothing new is on the bus while a request waits there.
LEMMA Waiting ==
  ASSUME Talked, req # Line!NoRequest, txState # "RDY" \/ phase # 0
  PROVE  UNCHANGED <<req, issued, acked>>
BY DEF Talked, Line!Clock, Line!Processor, Line!tx_ready

\* A receiver that sees the line at rest goes on waiting.
LEMMA ReceiverRests ==
  ASSUME Talked, LineIdle
  PROVE  rx' = rx /\ received' = received
<1>1. Line!Receiver
  BY DEF Talked, Line!Clock
<1>2. rx.age = 0 /\ txBit = 1
  BY DEF LineIdle, Line!Idle
<1> QED  BY <1>1, <1>2 DEF Line!Receiver

\* The phase of the processor's clock.
LEMMA PhaseNext ==
  ASSUME LineType, phase' = (phase + 1) % Ratio
  PROVE  phase' \in 0 .. Ratio - 1 /\ (phase = 0 => phase' # 0)
<1>1. Ratio \in Nat \ {0} /\ Ratio >= 2 /\ phase + 1 \in Int
  BY LineConstants DEF LineType
<1>2. phase' \in 0 .. Ratio - 1
  BY <1>1, DivMod
<1>3. phase = 0 => phase' = 1
  BY <1>1
<1> QED  BY <1>2, <1>3

LEMMA QuietNext ==
  ASSUME Talked, Quiet
  PROVE  Quiet' \/ Given'
<1>0. LineType /\ phase' = (phase + 1) % Ratio
  BY DEF Talked, Line!Clock
<1>1. /\ rx' = rx /\ received' = received
      /\ txState' = "RDY" /\ txBit' = 1
      /\ putchar' = (req = Line!NoRequest \/ putchar)
  BY DeviceClock, ReceiverRests DEF Quiet, Line!Transmit, Line!writing
<1>2. LineIdle'
  BY <1>1 DEF Quiet, LineIdle
<1>3. CASE UNCHANGED <<req, issued, acked>>
  <2>1. req' = Line!NoRequest => putchar'
    BY <1>1, <1>3
  <2> QED  BY <1>1, <1>2, <1>3, <2>1 DEF Quiet, Line!writing
<1>4. CASE ~ UNCHANGED <<req, issued, acked>>
  <2>1. phase = 0 /\ Line!Processor
    BY <1>4 DEF Talked, Line!Clock
  <2>2. phase' # 0
    BY <1>0, <2>1, PhaseNext
  <2>3. CASE req # Line!NoRequest
    <3>1. req' = Line!NoRequest /\ UNCHANGED <<issued, acked>>
      BY <1>4, <2>1, <2>3 DEF Line!Processor, Quiet
    <3>2. ~ Line!writing'
      BY <3>1 DEF Line!writing, Line!NoRequest
    <3> QED  BY <1>1, <1>2, <2>2, <3>1, <3>2 DEF Quiet
  <2>4. CASE req = Line!NoRequest
    <3>1. acked' = acked /\ putchar'
      BY <1>1, <2>1, <2>4 DEF Line!Processor
    <3>2. PICK r \in Line!Requests :
            req' = r /\ issued' = IF r.kind = "TX_DATA" THEN Append(issued, r.char) ELSE issued
      BY <1>4, <2>1, <2>4 DEF Line!Processor
    <3>3. CASE r.kind = "TX_DATA"
      BY <1>1, <1>2, <2>2, <3>1, <3>2, <3>3 DEF Quiet, Given, OnItsWay, Line!writing
    <3>4. CASE r.kind # "TX_DATA"
      BY <1>1, <1>2, <2>2, <3>1, <3>2, <3>4 DEF Quiet, Line!writing
    <3> QED  BY <3>3, <3>4
  <2> QED  BY <2>3, <2>4
<1> QED  BY <1>3, <1>4

LEMMA WritingRequest ==
  ASSUME Line!writing
  PROVE  req # Line!NoRequest
BY DEF Line!writing, Line!NoRequest

LEMMA GivenNext ==
  ASSUME Talked, Given
  PROVE  Begun'
<1>1. Line!writing /\ req # Line!NoRequest
  BY WritingRequest DEF Given, OnItsWay
<1>2. UNCHANGED <<req, issued, acked, rx, received>>
  BY <1>1, Waiting, ReceiverRests DEF Given
<1>3. /\ txState' = "LOAD_BIT" /\ txBit' = 1 /\ txData' = Line!Frame(req.char)
      /\ bitTmr' = 0 /\ bitIndex' = 0
  BY <1>1, DeviceClock DEF Given, Line!Transmit, Line!Counters
<1> QED  BY <1>1, <1>2, <1>3 DEF Given, Begun, OnItsWay, LineIdle, Line!writing

LEMMA BegunNext ==
  ASSUME Talked, Begun
  PROVE  Listening'
<1>0. BitTime \in Nat /\ BitTime >= 3 /\ BitTime \div 2 \in Nat /\ StopBit >= 2 /\ StopBit \in Nat
  BY LineConstants
<1>1. Line!writing /\ req # Line!NoRequest
  BY WritingRequest DEF Begun, OnItsWay
<1>2. UNCHANGED <<req, issued, acked, rx, received>>
  BY <1>1, Waiting, ReceiverRests DEF Begun
<1>3. /\ txState' = "SEND_BIT" /\ txBit' = txData[1] /\ txData' = txData
      /\ bitTmr' = 1 /\ bitIndex' = 1 /\ ~ putchar'
  <2>1. ~ Line!bitDone
    BY <1>0 DEF Begun, Line!bitDone
  <2>2. txState' = "SEND_BIT" /\ bitTmr' = 1 /\ bitIndex' = 1
    BY <2>1, DeviceClock DEF Begun, Line!Transmit, Line!Counters
  <2>3. txBit' = txData[1]
    BY DeviceClock DEF Begun
  <2>4. txData' = txData
    BY <1>1, DeviceClock DEF Begun
  <2>5. ~ putchar'
    BY <1>1, DeviceClock DEF Begun
  <2> QED  BY <2>2, <2>3, <2>4, <2>5
<1>4. InFrame'
  BY <1>0, <1>1, <1>2, <1>3 DEF Begun, InFrame, Line!writing
<1>5. Age' = 0 /\ ~ Sampled'
  BY <1>0, <1>3 DEF Age, Sampled
<1>6. rx'.age = 0 /\ 0 % BitTime = 0 /\ rx'.bits = << >>
  BY <1>0, <1>2 DEF Begun, LineIdle, Line!Idle
<1>7. rx'.bits = [k \in 1 .. 0 |-> txData'[k]]
  BY <1>6
<1>8. OnItsWay'
  BY <1>1, <1>2 DEF Begun, OnItsWay, Line!writing
<1> QED  BY <1>0, <1>3, <1>4, <1>5, <1>6, <1>7, <1>8 DEF Listening

\* The clocks of a frame: within a bit, at the end of one, at the beginning of the next.
LEMMA FrameClock ==
  ASSUME Talked, InFrame
  PROVE  /\ UNCHANGED <<req, issued, acked, txData>> /\ ~ putchar'
         /\ \/ /\ txState = "SEND_BIT" /\ bitTmr # BitTime - 1 /\ txState' = "SEND_BIT"
               /\ bitTmr' = bitTmr + 1 /\ bitIndex' = bitIndex /\ txBit' = txBit
            \/ /\ txState = "SEND_BIT" /\ bitTmr = BitTime - 1 /\ bitIndex < StopBit
               /\ txState' = "LOAD_BIT"
               /\ bitTmr' = 0 /\ bitIndex' = bitIndex /\ txBit' = txBit
            \/ /\ txState = "SEND_BIT" /\ bitTmr = BitTime - 1 /\ bitIndex = StopBit
               /\ txState' = "RDY" /\ bitTmr' = 0 /\ txBit' = txBit
            \/ /\ txState = "LOAD_BIT" /\ txState' = "SEND_BIT" /\ bitTmr = 0 /\ bitTmr' = 1
               /\ bitIndex < StopBit /\ bitIndex' = bitIndex + 1
               /\ txBit' = txData[bitIndex + 1]
<1>0. BitTime \in Nat /\ BitTime >= 3 /\ StopBit \in Nat /\ Line!BIT_INDEX_MAX = StopBit
  BY LineConstants DEF Line!BIT_INDEX_MAX, StopBit
<1>1. Line!writing /\ req # Line!NoRequest /\ txState # "RDY"
  BY WritingRequest DEF InFrame
<1>2. UNCHANGED <<req, issued, acked>>
  BY <1>1, Waiting
<1>3. txData' = txData /\ ~ putchar'
  BY <1>1, DeviceClock DEF InFrame
<1>4. Line!Transmit /\ Line!Counters
      /\ txBit' = IF txState = "LOAD_BIT" THEN txData[bitIndex + 1] ELSE txBit
  BY <1>1, DeviceClock
<1>5. CASE txState = "LOAD_BIT"
  <2>1. bitTmr = 0 /\ bitIndex < StopBit /\ ~ Line!bitDone
    BY <1>0, <1>5 DEF InFrame, Line!bitDone
  <2> QED  BY <1>2, <1>3, <1>4, <1>5, <2>1 DEF Line!Transmit, Line!Counters
<1>6. CASE txState = "SEND_BIT"
  <2>1. Line!bitDone <=> bitTmr = BitTime - 1
    BY DEF Line!bitDone
  <2>2. bitIndex = StopBit \/ bitIndex < StopBit
    BY <1>0 DEF InFrame
  <2>3. CASE bitTmr # BitTime - 1
    BY <1>2, <1>3, <1>4, <1>6, <2>1, <2>3 DEF Line!Transmit, Line!Counters
  <2>4. CASE bitTmr = BitTime - 1 /\ bitIndex < StopBit
    <3>1. bitIndex # StopBit
      BY <1>0, <2>4 DEF InFrame
    <3> QED  BY <1>0, <1>2, <1>3, <1>4, <1>6, <2>1, <2>4, <3>1 DEF Line!Transmit, Line!Counters
  <2>5. CASE bitTmr = BitTime - 1 /\ bitIndex = StopBit
    BY <1>0, <1>2, <1>3, <1>4, <1>6, <2>1, <2>5 DEF Line!Transmit, Line!Counters
  <2> QED  BY <2>2, <2>3, <2>4, <2>5
<1> QED  BY <1>5, <1>6 DEF InFrame

\* The frame goes on, or ends.
LEMMA FrameNext ==
  ASSUME Talked, InFrame
  PROVE  /\ txState' # "RDY" =>
              /\ InFrame'
              /\ \/ Age < BitTime - 1 /\ Age' = Age + 1 /\ bitIndex' = bitIndex
                 \/ Age = BitTime - 1 /\ Age' = 0 /\ bitIndex < StopBit
                      /\ bitIndex' = bitIndex + 1
         /\ txState' = "RDY" => bitIndex = StopBit /\ Age = BitTime - 2 /\ txBit' = txBit
         /\ Age \in 0 .. BitTime - 1
<1>0. BitTime \in Nat /\ BitTime >= 3 /\ StopBit \in Nat
  BY LineConstants
<1>1. Age \in 0 .. BitTime - 1
  BY <1>0 DEF InFrame, Age
<1>2. CASE txState' = "RDY"
  <2>1. bitTmr = BitTime - 1 /\ bitIndex = StopBit /\ txBit' = txBit
    BY <1>2, FrameClock
  <2> QED  BY <1>0, <1>1, <1>2, <2>1 DEF Age
<1>3. CASE txState' # "RDY"
  <2>1. Line!writing' /\ txData' = Line!Frame(req'.char) /\ ~ putchar' /\ txData' = txData
    BY FrameClock DEF InFrame, Line!writing
  <2>2. CASE txState = "SEND_BIT" /\ bitTmr # BitTime - 1
    <3>1. /\ txState' = "SEND_BIT" /\ bitTmr' = bitTmr + 1 /\ bitIndex' = bitIndex
          /\ txBit' = txBit /\ bitTmr \in 1 .. BitTime - 1
      BY <2>2, FrameClock DEF InFrame
    <3>2. InFrame'
      BY <1>0, <2>1, <2>2, <3>1 DEF InFrame
    <3>3. Age < BitTime - 1 /\ Age' = Age + 1
      BY <1>0, <2>2, <3>1 DEF Age
    <3> QED  BY <1>1, <1>3, <3>1, <3>2, <3>3
  <2>3. CASE txState = "SEND_BIT" /\ bitTmr = BitTime - 1
    <3>1. /\ txState' = "LOAD_BIT" /\ bitTmr' = 0 /\ bitIndex' = bitIndex
          /\ bitIndex < StopBit /\ txBit' = txBit
      BY <1>3, <2>3, FrameClock
    <3>2. InFrame'
      BY <2>1, <3>1 DEF InFrame
    <3>3. Age < BitTime - 1 /\ Age' = Age + 1
      BY <1>0, <2>3, <3>1 DEF Age
    <3> QED  BY <1>1, <1>3, <3>1, <3>2, <3>3
  <2>4. CASE txState = "LOAD_BIT"
    <3>1. /\ txState' = "SEND_BIT" /\ bitTmr' = 1 /\ bitIndex' = bitIndex + 1
          /\ bitIndex < StopBit /\ txBit' = txData[bitIndex + 1] /\ bitTmr = 0
      BY <2>4, FrameClock
    <3>2. InFrame'
      <4>1. bitIndex' \in 1 .. StopBit /\ 1 \in 1 .. BitTime - 1
        BY <1>0, <3>1 DEF InFrame
      <4> QED  BY <2>1, <3>1, <4>1 DEF InFrame
    <3>3. Age = BitTime - 1 /\ Age' = 0
      BY <1>0, <3>1 DEF Age
    <3> QED  BY <1>1, <1>3, <3>1, <3>2, <3>3
  <2> QED  BY <2>2, <2>3, <2>4 DEF InFrame
<1> QED  BY <1>1, <1>2, <1>3

\* What the receiver has sampled is a beginning of the frame.
LEMMA ReceiverSamples ==
  ASSUME Talked, Listening
  PROVE  LET n == IF Sampled \/ Age = BitTime \div 2 THEN bitIndex ELSE bitIndex - 1
             got == [k \in 1 .. n |-> txData[k]]
         IN /\ n = StopBit => rx' = Line!Idle /\ received' = Append(received, Line!Decoded(got))
            /\ n # StopBit => rx' = [age |-> rx.age + 1, bits |-> got] /\ received' = received
            /\ n = StopBit <=> bitIndex = StopBit /\ Age = BitTime \div 2
<1> DEFINE M == BitTime \div 2
           n == IF Sampled \/ Age = M THEN bitIndex ELSE bitIndex - 1
           got == [k \in 1 .. n |-> txData[k]]
           bits == IF rx.age % BitTime = M THEN Append(rx.bits, txBit) ELSE rx.bits
<1>0. StopBit \in Nat /\ StopBit = DataBits + 2 /\ bitIndex \in 1 .. StopBit
  BY LineConstants DEF Listening, InFrame, StopBit
<1>1. ~ (rx.age = 0 /\ txBit = 1)
  <2>1. ASSUME rx.age = 0  PROVE txBit = 0
    BY <2>1, FrameEnds DEF Listening, InFrame
  <2> QED  BY <2>1
<1>2. bits = got
  <2>1. CASE Age = M
    <3>1. ~ Sampled
      BY <2>1, LineConstants DEF Sampled
    <3>2. rx.bits = [k \in 1 .. bitIndex - 1 |-> txData[k]] /\ txBit = txData[bitIndex]
          /\ rx.age % BitTime = M
      BY <2>1, <3>1 DEF Listening, InFrame
    <3>3. Append([k \in 1 .. bitIndex - 1 |-> txData[k]], txData[(bitIndex - 1) + 1])
            = [k \in 1 .. (bitIndex - 1) + 1 |-> txData[k]]
      BY <1>0, OneMoreBit
    <3>4. (bitIndex - 1) + 1 = bitIndex
      BY <1>0
    <3> QED  BY <2>1, <3>2, <3>3, <3>4
  <2>2. CASE Age # M
    BY <2>2 DEF Listening
  <2> QED  BY <2>1, <2>2
<1>3. n \in Nat /\ Len(got) = n
  BY <1>0
<1>4. n = StopBit <=> bitIndex = StopBit /\ Age = M
  BY <1>0 DEF Listening
<1>5. Line!Receiver
  BY DEF Talked, Line!Clock
<1>6. IF Len(bits) = DataBits + 2
      THEN rx' = Line!Idle /\ received' = Append(received, Line!Decoded(bits))
      ELSE rx' = [age |-> rx.age + 1, bits |-> bits] /\ received' = received
  BY <1>1, <1>5 DEF Line!Receiver
<1> HIDE DEF n, got, bits
<1>7. /\ n = StopBit => rx' = Line!Idle /\ received' = Append(received, Line!Decoded(got))
      /\ n # StopBit => rx' = [age |-> rx.age + 1, bits |-> got] /\ received' = received
  BY <1>0, <1>2, <1>3, <1>6
<1> QED  BY <1>4, <1>7 DEF n, got

\* It goes on receiving the character, or has it when the stop bit is half over.
LEMMA ListeningNext ==
  ASSUME Talked, Listening
  PROVE  Listening' \/ Heard' \/ Done'
<1> DEFINE M == BitTime \div 2
           n == IF Sampled \/ Age = M THEN bitIndex ELSE bitIndex - 1
           got == [k \in 1 .. n |-> txData[k]]
<1>0. /\ BitTime \in Nat /\ M \in Nat /\ M < BitTime - 1 /\ (BitTime - 2 <= M => M = BitTime - 2)
      /\ StopBit \in Nat /\ bitIndex \in 1 .. StopBit /\ Age \in 0 .. BitTime - 1
      /\ rx.age \in Nat /\ rx.age % BitTime = Age /\ Line!writing
  BY LineConstants, FrameNext DEF Listening, InFrame
<1>1. UNCHANGED <<req, issued, acked, txData>> /\ ~ putchar' /\ Line!writing'
  BY <1>0, FrameClock DEF Listening, Line!writing
<1>2. (rx.age + 1) % BitTime = IF Age = BitTime - 1 THEN 0 ELSE Age + 1
  BY <1>0, NextClock
<1>3. CASE n = StopBit
  <2>1. bitIndex = StopBit /\ Age = M /\ got = Line!Frame(req.char) /\ ~ Sampled
    <3>1. bitIndex = StopBit /\ Age = M
      BY <1>3, ReceiverSamples
    <3>2. got = [k \in 1 .. StopBit |-> Line!Frame(req.char)[k]]
      BY <1>3 DEF Listening, InFrame
    <3> QED  BY <3>1, <3>2, FrameEnds DEF Listening
  <2>2. req.char \in Line!Char
    BY <1>0, WritingRequest DEF Talked, LineType, Line!Requests, Line!writing
  <2>3. rx' = Line!Idle /\ received' = issued
    <3>1. rx' = Line!Idle /\ received' = Append(received, Line!Decoded(got))
      BY <1>3, ReceiverSamples
    <3> QED  BY <2>1, <2>2, <3>1, FrameDecoded DEF Listening, OnItsWay
  <2>4. Received'
    BY <1>1, <2>3 DEF Listening, OnItsWay, Received
  <2>5. txData[StopBit] = 1 /\ txBit = 1
    BY <2>1, FrameEnds DEF Listening, InFrame
  <2>6. CASE txState' = "RDY"
    <3>1. LineIdle'
      BY <2>3, <2>5, <2>6, FrameNext DEF Listening, LineIdle
    <3> QED  BY <1>1, <2>4, <2>6, <3>1 DEF Done
  <2>7. CASE txState' # "RDY"
    <3>1. InFrame' /\ Age' = Age + 1 /\ bitIndex' = bitIndex
      BY <1>0, <2>1, <2>7, FrameNext DEF Listening
    <3>2. txBit' = 1 /\ Sampled'
      BY <1>0, <1>1, <2>1, <2>5, <3>1 DEF InFrame, Sampled
    <3> QED  BY <2>1, <2>3, <2>4, <3>1, <3>2 DEF Heard, LineIdle
  <2> QED  BY <2>6, <2>7
<1>4. CASE n # StopBit
  <2>1. rx' = [age |-> rx.age + 1, bits |-> got] /\ received' = received
    BY <1>4, ReceiverSamples
  <2>2. ~ (bitIndex = StopBit /\ Age = M)
    BY <1>4, ReceiverSamples
  <2>3. txState' # "RDY"
    <3>1. bitIndex = StopBit => ~ (M < Age)
      BY DEF Listening, Sampled
    <3> QED  BY <1>0, <2>2, <3>1, FrameNext DEF Listening
  <2>4. InFrame' /\ OnItsWay'
    BY <1>1, <2>1, <2>3, FrameNext DEF Listening, OnItsWay
  <2>5. rx'.age \in Nat /\ rx'.age # 0 /\ rx'.age % BitTime = Age'
    <3>1. rx'.age = rx.age + 1
      BY <2>1
    <3>2. Age' = IF Age = BitTime - 1 THEN 0 ELSE Age + 1
      <4>1. \/ Age < BitTime - 1 /\ Age' = Age + 1
            \/ Age = BitTime - 1 /\ Age' = 0
        BY <2>3, FrameNext DEF Listening
      <4> QED  BY <1>0, <4>1
    <3>3. rx'.age % BitTime = Age'
      BY <1>2, <3>1, <3>2, Zenon
    <3> QED  BY <1>0, <3>1, <3>3
  <2>6. CASE Age < BitTime - 1
    <3>1. Age' = Age + 1 /\ bitIndex' = bitIndex
      BY <1>0, <2>3, <2>6, FrameNext DEF Listening
    <3>2. Sampled' = (Sampled \/ Age = M)
      BY <1>0, <3>1 DEF Sampled
    <3>3. bitIndex' = StopBit => ~ Sampled'
      BY <2>2, <3>1, <3>2 DEF Listening
    <3>4. rx'.bits = [k \in 1 .. (IF Sampled' THEN bitIndex' ELSE bitIndex' - 1) |-> txData'[k]]
      BY <1>1, <2>1, <3>1, <3>2
    <3> QED  BY <2>4, <2>5, <3>3, <3>4 DEF Listening
  <2>7. CASE Age = BitTime - 1
    <3>1. Age' = 0 /\ bitIndex' = bitIndex + 1
      BY <1>0, <2>3, <2>7, FrameNext DEF Listening
    <3>2. Sampled /\ ~ Sampled'
      BY <1>0, <2>7, <3>1 DEF Sampled
    <3>3. n = bitIndex' - 1
      BY <1>0, <3>1, <3>2
    <3>4. rx'.bits = [k \in 1 .. (IF Sampled' THEN bitIndex' ELSE bitIndex' - 1) |-> txData'[k]]
      BY <1>1, <2>1, <3>2, <3>3
    <3> QED  BY <2>4, <2>5, <3>2, <3>4 DEF Listening
  <2> QED  BY <1>0, <2>6, <2>7
<1> QED  BY <1>3, <1>4

\* The frame ends; then the answer.
LEMMA HeardNext ==
  ASSUME Talked, Heard
  PROVE  Heard' \/ Done'
<1>0. BitTime \in Nat /\ StopBit \in Nat /\ BitTime \div 2 \in Nat
  BY LineConstants
<1>1. UNCHANGED <<req, issued, acked, txData, rx, received>> /\ ~ putchar'
      /\ Line!writing' /\ Line!writing
  BY FrameClock, ReceiverRests DEF Heard, Received, Line!writing
<1>2. Received'
  BY <1>1 DEF Heard, Received
<1>3. CASE txState' = "RDY"
  BY <1>1, <1>2, <1>3, FrameNext DEF Heard, Done, LineIdle
<1>4. CASE txState' # "RDY"
  <2>1. InFrame' /\ Age' = Age + 1 /\ bitIndex' = StopBit /\ Age \in 0 .. BitTime - 1
    BY <1>0, <1>4, FrameNext DEF Heard
  <2>2. Sampled'
    BY <1>0, <2>1 DEF Heard, Sampled
  <2>3. txBit' = 1
    BY <1>1, <2>1, FrameEnds DEF InFrame
  <2> QED  BY <1>1, <1>2, <2>1, <2>2, <2>3 DEF Heard, LineIdle
<1> QED  BY <1>3, <1>4

LEMMA DoneNext ==
  ASSUME Talked, Done
  PROVE  Done' \/ Quiet'
<1>0. LineType /\ phase' = (phase + 1) % Ratio
  BY DEF Talked, Line!Clock
<1>1. Line!writing /\ req # Line!NoRequest
  BY WritingRequest DEF Done, Received
<1>2. UNCHANGED <<rx, received>> /\ txState' = "RDY" /\ txBit' = 1 /\ ~ putchar' /\ LineIdle'
  <2>1. UNCHANGED <<rx, received>>
    BY ReceiverRests DEF Done
  <2>2. txBit' = 1 /\ ~ putchar'
    BY <1>1, DeviceClock DEF Done
  <2>3. txState' = "RDY"
    BY DeviceClock DEF Done, Line!Transmit
  <2> QED  BY <2>1, <2>2, <2>3 DEF Done, LineIdle
<1>3. CASE phase # 0
  BY <1>1, <1>2, <1>3, Waiting DEF Done, Received, Line!writing
<1>4. CASE phase = 0
  <2>1. req' = Line!NoRequest /\ acked' = Append(acked, req.char) /\ issued' = issued
    BY <1>1, <1>4 DEF Talked, Done, Line!Clock, Line!Processor, Line!tx_ready
  <2>2. phase' # 0 /\ ~ Line!writing'
    BY <1>0, <1>4, <2>1, PhaseNext DEF Line!writing, Line!NoRequest
  <2> QED  BY <1>2, <2>1, <2>2 DEF Done, Received, Quiet
<1> QED  BY <1>3, <1>4

LEMMA TalkingNext ==
  ASSUME Talked, Talking
  PROVE  Talking'
BY QuietNext, GivenNext, BegunNext, ListeningNext, HeardNext, DoneNext DEF Talking

-----------------------------------------------------------------------------
(* Every step of the line. *)

LEMMA LineStarts ==
  ASSUME Line!Init
  PROVE  LineInv
<1>1. LineType
  <2>1. phase \in 0 .. Ratio - 1 /\ resets \in Nat /\ finish \in BOOLEAN /\ putchar \in BOOLEAN
    <3>1. phase = 0 /\ resets = 0 /\ finish = FALSE /\ putchar = TRUE
      BY DEF Line!Init
    <3>2. 0 \in 0 .. Ratio - 1 /\ 0 \in Nat
      BY LineConstants
    <3> QED  BY <3>1, <3>2
  <2>2. issued \in Seq(Line!Char) /\ acked \in Seq(Line!Char) /\ req = Line!NoRequest
    BY DEF Line!Init
  <2> QED  BY <2>1, <2>2 DEF LineType
<1>2. Quiet
  BY DEF Line!Init, Quiet, LineIdle, Line!Idle, Line!writing, Line!NoRequest
<1> QED  BY <1>1, <1>2 DEF LineInv, Talking

LEMMA ProcessorTyped ==
  ASSUME LineType, Line!Processor \/ Line!ResetProcessor \/ UNCHANGED <<req, issued, acked>>
  PROVE  /\ req' \in {Line!NoRequest} \cup Line!Requests
         /\ issued' \in Seq(Line!Char) /\ acked' \in Seq(Line!Char)
<1>1. CASE UNCHANGED <<req, issued, acked>>
  BY <1>1 DEF LineType
<1>2. CASE Line!ResetProcessor
  BY <1>2 DEF LineType, Line!ResetProcessor
<1>3. CASE Line!Processor
  <2>1. CASE req # Line!NoRequest
    <3>1. Line!writing => req.char \in Line!Char
      BY <2>1 DEF LineType, Line!Requests, Line!writing
    <3>2. req \in {Line!NoRequest} \cup Line!Requests
          /\ issued \in Seq(Line!Char) /\ acked \in Seq(Line!Char)
      BY DEF LineType
    <3>3. /\ req' = Line!NoRequest \/ req' = req
          /\ (acked' = Append(acked, req.char) /\ Line!writing) \/ acked' = acked
          /\ issued' = issued
      BY <1>3, <2>1 DEF Line!Processor
    <3>4. req' \in {Line!NoRequest} \cup Line!Requests
      BY <3>2, <3>3
    <3>5. acked' \in Seq(Line!Char)
      BY <3>1, <3>2, <3>3
    <3> QED  BY <3>2, <3>3, <3>4, <3>5
  <2>2. CASE req = Line!NoRequest /\ ~ UNCHANGED <<req, issued>>
    <3>1. PICK r \in Line!Requests :
            req' = r /\ issued' = IF r.kind = "TX_DATA" THEN Append(issued, r.char) ELSE issued
      BY <1>3, <2>2 DEF Line!Processor
    <3>2. r.kind = "TX_DATA" => r.char \in Line!Char
      BY DEF Line!Requests
    <3> QED  BY <1>3, <2>2, <3>1, <3>2 DEF LineType, Line!Processor
  <2>3. CASE req = Line!NoRequest /\ UNCHANGED <<req, issued>>
    BY <1>3, <2>3 DEF LineType, Line!Processor
  <2> QED  BY <2>1, <2>2, <2>3
<1> QED  BY <1>1, <1>2, <1>3

LEMMA LineClocked ==
  ASSUME LineInv, Line!Clock
  PROVE  LineInv'
<1>1. LineType
  BY DEF LineInv
<1>2. /\ finish' = (finish \/ req.kind = "FINISH") /\ putchar' \in BOOLEAN
      /\ phase' = (phase + 1) % Ratio /\ resets' = resets
  BY DEF Line!Clock, Line!Device, Line!SentFlag
<1>3. LineType'
  BY <1>1, <1>2, PhaseNext, ProcessorTyped DEF Line!Clock, LineType
<1>4. ASSUME ~ finish', resets' = 0  PROVE Talking'
  <2>1. Talked /\ Talking
    BY <1>1, <1>2, <1>4 DEF LineInv, Talked
  <2> QED  BY <2>1, TalkingNext
<1> QED  BY <1>3, <1>4 DEF LineInv

LEMMA LinePressed ==
  ASSUME LineInv, Line!Reset
  PROVE  LineInv'
<1>1. LineType
  BY DEF LineInv
<1>2. /\ finish' = FALSE /\ putchar' \in BOOLEAN
      /\ phase' = (phase + 1) % Ratio /\ resets' = resets + 1
  BY DEF Line!Reset, Line!Device, Line!SentFlag
<1>3. LineType' /\ resets' # 0
  <2>1. resets' \in Nat /\ resets' # 0
    BY <1>1, <1>2 DEF LineType
  <2>2. Line!ResetProcessor
    BY DEF Line!Reset
  <2>3. req' \in {Line!NoRequest} \cup Line!Requests
        /\ issued' \in Seq(Line!Char) /\ acked' \in Seq(Line!Char)
    BY <1>1, <2>2, ProcessorTyped
  <2>4. phase' \in 0 .. Ratio - 1
    BY <1>1, <1>2, PhaseNext
  <2> QED  BY <1>2, <2>1, <2>3, <2>4 DEF LineType
<1> QED  BY <1>3 DEF LineInv

\* Init => LineInv, and every step of the unit or of the line keeps it.
THEOREM LineInvariance == UnitsSpec => []LineInv
<1>1. UnitsInit => LineInv
  BY LineStarts DEF UnitsInit
<1>2. LineInv /\ [OneInstruction \/ Instructions \/ LineClock \/ LineReset]_unitVars => LineInv'
  <2>1. ASSUME LineInv, UNCHANGED lineVars  PROVE LineInv'
    BY <2>1 DEF lineVars, LineInv, LineType, Talking, Quiet, Given, Begun, Listening, Heard, Done,
                OnItsWay, InFrame, Received, LineIdle, Sampled, Age, Line!writing
  <2> QED
    BY <2>1, LineClocked, LinePressed
       DEF OneInstruction, Instructions, LineClock, LineReset, unitVars
<1> QED  BY <1>1, <1>2, PTL DEF UnitsSpec

\* A sequence is a prefix of itself and of one element more.
LEMMA PrefixOfMore ==
  ASSUME NEW S, NEW s \in Seq(S)
  PROVE  Line!IsPrefix(s, s) /\ \A x \in S : Line!IsPrefix(s, Append(s, x))
<1>1. \A x \in S : SubSeq(Append(s, x), 1, Len(s)) = s
  OBVIOUS
<1> QED  BY <1>1 DEF Line!IsPrefix

\* What the receiver has is a beginning of what the program has stored, and what is
\* answered is at the receiver.
THEOREM LineKeepsOrder == UnitsSpec => []CharsInOrder
<1>1. LineInv => CharsInOrder
  <2> SUFFICES ASSUME LineType, Talking
               PROVE  Line!IsPrefix(received, issued) /\ Line!IsPrefix(acked, received)
    BY DEF LineInv, CharsInOrder, Line!CharsInOrder
  <2>0. issued \in Seq(Line!Char) /\ acked \in Seq(Line!Char)
        /\ (Line!writing => req.char \in Line!Char)
    BY DEF LineType, Line!Requests, Line!writing, Line!NoRequest
  <2>1. CASE Quiet
    BY <2>0, <2>1, PrefixOfMore DEF Quiet
  <2>2. CASE OnItsWay
    BY <2>0, <2>2, PrefixOfMore DEF OnItsWay
  <2>3. CASE Received
    BY <2>0, <2>3, PrefixOfMore DEF Received
  <2> QED  BY <2>1, <2>2, <2>3 DEF Talking, Given, Begun, Listening, Heard, Done
<1> QED  BY <1>1, LineInvariance, PTL
=============================================================================
