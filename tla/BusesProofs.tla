----------------------------- MODULE BusesProofs -----------------------------
(***************************************************************************)
(* What stands behind a cache bus in the simulation.  The bus device never *)
(* trips over its own assertions and is a burst memory, for every word     *)
(* size, RAM size and address window; the memory behind its router keeps   *)
(* what is stored, for every size and every file it is initialised from.   *)
(***************************************************************************)
EXTENDS MCBuses, TLAPS

Requests == Reads \cup Writes

\* The bytes of one beat.
Bytes(r) == 2^r.size

\* What the address of a request loses when bus.h masks its upper bits off.
Masked(r) == r.addr - ReqAddr(r)

\* The address of beat n of a burst that starts at an aligned address.
Place(r, n) ==
  LET bytes == Bytes(r)
      total == bytes * (r.len + 1)
      lower == (r.addr \div total) * total
      aligned == (r.addr \div bytes) * bytes
  IN lower + ((aligned - lower + n * bytes) % total)

Transaction ==
  [busy : BOOLEAN, is_write : BOOLEAN, aligned : BOOLEAN, N : Int, addr : Int,
   Start_Address : Int, Number_Bytes : Int, Burst_Length : Int, Aligned_Address : Int,
   Lower_Wrap_Boundry : Int, Upper_Wrap_Boundry : Int]

\* Transaction t serves request r and is at its beat t.N, counted from 1.
Serves(t, r) ==
  /\ r \in Requests
  /\ t.is_write = r.is_write
  /\ t.Start_Address = ReqAddr(r)
  /\ t.Number_Bytes = Bytes(r) /\ t.Burst_Length = r.len + 1
  /\ t.Aligned_Address = Started(r).Aligned_Address
  /\ t.Lower_Wrap_Boundry = Started(r).Lower_Wrap_Boundry
  /\ t.Upper_Wrap_Boundry = Started(r).Upper_Wrap_Boundry
  /\ t.N \in 1 .. r.len + 1
  /\ t.aligned <=> t.N # 1
  /\ t.addr = IF t.N = 1 THEN ReqAddr(r) ELSE Place(r, t.N - 1) - Masked(r)

\* Both copies of the transaction agree, and they serve the request on the bus.
DeviceInv ==
  /\ tx \in Transaction /\ ntx = tx
  /\ enable \in BOOLEAN
  /\ req \in {NoReq} \cup Requests
  /\ tx.busy => Serves(tx, req)

-----------------------------------------------------------------------------
(* Division and remainder *)

LEMMA Division ==
  ASSUME NEW m \in Nat \ {0}, NEW y \in Int
  PROVE  \E q \in Int, r \in 0 .. m - 1 : y \div m = q /\ y % m = r /\ y = q*m + r
<1> DEFINE q == y \div m
           r == y % m
<1>1. q \in Int /\ r \in 0 .. m - 1 /\ r = y - m*q
  BY SMT
<1> HIDE DEF q, r
<1>2. y = q*m + r
  BY <1>1
<1> QED BY <1>1, <1>2 DEF q, r

LEMMA Unique ==
  ASSUME NEW m \in Nat \ {0}, NEW q \in Int, NEW p \in Int,
         NEW r \in 0 .. m-1, NEW s \in 0 .. m-1,
         q*m + r = p*m + s
  PROVE  r = s /\ q = p
<1>1. ~ q > p
  <2>1. q > p => (q - p) * m >= m /\ (q - p) * m = q*m - p*m
    OBVIOUS
  <2> QED BY <2>1
<1>2. ~ q < p
  <2>1. q < p => (p - q) * m >= m /\ (p - q) * m = p*m - q*m
    OBVIOUS
  <2> QED BY <2>1
<1> QED BY <1>1, <1>2

LEMMA Remainder ==
  ASSUME NEW m \in Nat \ {0}, NEW k \in Int, NEW r \in 0 .. m-1, NEW y \in Int, y = k*m + r
  PROVE  y % m = r /\ y \div m = k
<1>1. PICK q \in Int, s \in 0 .. m - 1 : y \div m = q /\ y % m = s /\ y = q*m + s
  BY Division
<1> QED BY <1>1, Unique

LEMMA Shift ==
  ASSUME NEW m \in Nat \ {0}, NEW k \in Int, NEW y \in Int, NEW z \in Int, z = y + k*m
  PROVE  z % m = y % m /\ z \div m = (y \div m) + k
<1>1. PICK q \in Int, s \in 0 .. m - 1 : y \div m = q /\ y % m = s /\ y = q*m + s
  BY Division
<1>2. z = (q + k) * m + s /\ q + k \in Int
  BY <1>1
<1>3. z % m = s /\ z \div m = q + k
  BY <1>2, Remainder
<1> QED BY <1>1, <1>3, Zenon

LEMMA Congruent ==
  ASSUME NEW m \in Nat \ {0}, NEW y \in Int, NEW z \in Int, \E k \in Int : z = y + k*m
  PROVE  z % m = y % m
<1>1. PICK k \in Int : z = y + k*m
  OBVIOUS
<1>2. PICK q \in Int, s \in 0 .. m - 1 : y % m = s /\ y = q*m + s
  BY Division
<1>3. z = (q + k) * m + s /\ q + k \in Int
  BY <1>1, <1>2
<1>4. z % m = s /\ z \div m = q + k
  BY <1>3, Remainder
<1> QED BY <1>2, <1>4, Zenon

\* A multiple of n is one of every divisor of n.
LEMMA Divides ==
  ASSUME NEW m \in Nat \ {0}, NEW n \in Int, n % m = 0
  PROVE  \E k \in Int : n = k*m
BY Division

-----------------------------------------------------------------------------
(* The places of a wrapping burst *)

LEMMA RequestFlags ==
  ASSUME NEW r \in Requests
  PROVE  r.valid = TRUE /\ r.is_write \in BOOLEAN
BY DEF Requests, Reads, Writes

LEMMA RequestFields ==
  ASSUME NEW r \in Requests
  PROVE  /\ r.addr \in Nat /\ r.len \in Nat /\ r.len + 1 \in Nat \ {0}
         /\ Bytes(r) \in Nat \ {0}
<1>1. r.addr \in Addrs /\ r.size \in Sizes /\ r.len \in Lens
  BY DEF Requests, Reads, Writes
<1>2. Bytes(r) \in Nat \ {0}
  BY <1>1, CBusAssumption, Zenon DEF Bytes
<1>3. r.addr \in Nat /\ r.len \in Nat
  BY <1>1, CBusAssumption
<1>4. r.len + 1 \in Nat \ {0}
  BY <1>3
<1> QED BY <1>2, <1>3, <1>4, Zenon

LEMMA BurstDivides ==
  ASSUME NEW r \in Requests
  PROVE  /\ (Bytes(r)) * (r.len + 1) \in Nat \ {0}
         /\ MemSize % ((Bytes(r)) * (r.len + 1)) = 0
<1>1. \A b \in Nat \ {0}, l \in Nat \ {0} : b * l \in Nat \ {0}
  OBVIOUS
<1>2. (Bytes(r)) * (r.len + 1) \in Nat \ {0}
  BY <1>1, RequestFields
<1>3. r.size \in Sizes /\ r.len \in Lens
  BY DEF Requests, Reads, Writes
<1>4. MemSize % ((Bytes(r)) * (r.len + 1)) = 0
  BY <1>3, CBusAssumption, Zenon DEF Bytes
<1> QED BY <1>2, <1>4

\* Address a is u units of B behind the k-th burst of L units.
LiesAt(a, B, L, k, u) == a \div (B*L) = k /\ (a \div B) * B = k * (B*L) + u*B

LEMMA Split ==
  ASSUME NEW B \in Nat \ {0}, NEW L \in Nat \ {0}, NEW a \in Int
  PROVE  \E k \in Int, u \in 0 .. L - 1 : LiesAt(a, B, L, k, u)
<1>1. B*L \in Nat \ {0}
  OBVIOUS
<1>2. PICK k \in Int, s \in 0 .. B*L - 1 : a \div (B*L) = k /\ a = k * (B*L) + s
  BY <1>1, Division
<1>3. PICK j \in Int, t \in 0 .. B - 1 : a \div B = j /\ a = j*B + t
  BY Division
<1> DEFINE u == j - k*L
<1>4. u \in Int /\ j*B = k * (B*L) + u*B
  OBVIOUS
<1>5. u*B = s - t /\ u*B < L*B /\ u*B > -B
  BY <1>2, <1>3, <1>4
<1>6. u \in 0 .. L - 1
  <2>1. u < 0 => u*B <= -B
    BY <1>4
  <2>2. u >= L => u*B >= L*B
    BY <1>4
  <2> QED BY <1>4, <1>5, <2>1, <2>2
<1> HIDE DEF u
<1>7. LiesAt(a, B, L, k, u)
  BY <1>2, <1>3, <1>4 DEF LiesAt
<1> QED BY <1>6, <1>7

LEMMA Geometry ==
  ASSUME NEW r \in Requests, NEW B, NEW L, B = Bytes(r), L = r.len + 1
  PROVE  \E k, c, e \in Int, u \in 0 .. L - 1 :
           /\ Masked(r) = c * (B*L) /\ Masked(r) = e * MemSize
           /\ LiesAt(r.addr, B, L, k, u)
           /\ LiesAt(ReqAddr(r), B, L, k - c, u)
<1>1. /\ B \in Nat \ {0} /\ L \in Nat \ {0} /\ B*L \in Nat \ {0} /\ r.addr \in Nat
      /\ MemSize % (B*L) = 0
  BY RequestFields, BurstDivides
<1>2. /\ MemSize \in Nat \ {0} /\ MemSize \in Int
      /\ RamBit \in Nat \ {0} /\ RamBit \in Int /\ RamBit % MemSize = 0
      /\ r.addr \in Int
  BY <1>1, CBusAssumption, DeviceAssumption
<1>3. PICK f \in Int : MemSize = f * (B*L)
  BY <1>1, <1>2, Divides, Zenon
<1>4. PICK h \in Int : RamBit = h * MemSize
  BY <1>2, Divides, Zenon
<1>5. PICK q \in Int, m \in 0 .. RamBit - 1 :
        r.addr \div RamBit = q /\ r.addr % RamBit = m /\ r.addr = q*RamBit + m
  BY <1>2, Division, Zenon
<1>6. Masked(r) = q*RamBit /\ ReqAddr(r) = m /\ m \in Int
  BY <1>1, <1>2, <1>5 DEF Masked, ReqAddr
<1> DEFINE e == q*h
           c == q*h*f
<1>7. q*RamBit = e * MemSize /\ e \in Int
  BY <1>2, <1>4
<1>8. c \in Int /\ e * MemSize = c * (B*L)
  BY <1>1, <1>2, <1>3
<1> HIDE DEF e, c
<1>9. PICK k \in Int, u \in 0 .. L - 1 : LiesAt(r.addr, B, L, k, u)
  BY <1>1, <1>2, Split
<1>10. m = r.addr + (-c) * (B*L) /\ m = r.addr + (-(c*L)) * B
  BY <1>1, <1>5, <1>7, <1>8
<1> DEFINE T == B*L
<1>11. m \div T = k - c
  <2>1. -c \in Int /\ m \in Int /\ T \in Nat \ {0} /\ m = r.addr + (-c) * T
    BY <1>1, <1>2, <1>5, <1>8, <1>10
  <2>2. r.addr \div T = k
    BY <1>9 DEF LiesAt
  <2> HIDE DEF T
  <2>3. \A d \in Int : m = r.addr + d*T => m \div T = (r.addr \div T) + d
    BY <1>2, <2>1, Shift
  <2> QED BY <1>8, <2>1, <2>2, <2>3
<1>12. (m \div B) * B = (k - c) * T + u*B
  <2>1. -(c*L) \in Int
    BY <1>1, <1>8
  <2>2. m \div B = (r.addr \div B) + (-(c*L))
    BY <1>1, <1>5, <1>10, <2>1, Shift
  <2>3. PICK j \in Int : r.addr \div B = j
    BY <1>1, Division
  <2>4. (j + (-(c*L))) * B = j*B - c*(B*L)
    BY <1>1, <1>8, <2>3
  <2>5. j*B = k * (B*L) + u*B
    BY <1>9, <2>3 DEF LiesAt
  <2> QED BY <1>1, <1>8, <2>2, <2>3, <2>4, <2>5
<1>13. LiesAt(ReqAddr(r), B, L, k - c, u)
  BY <1>6, <1>11, <1>12 DEF LiesAt
<1> QED BY <1>6, <1>7, <1>8, <1>9, <1>13

LEMMA PlaceIs ==
  ASSUME NEW r \in Requests, NEW B, NEW L, B = Bytes(r), L = r.len + 1,
         NEW k \in Int, NEW u \in 0 .. L - 1,
         LiesAt(r.addr, B, L, k, u),
         NEW n \in 0 .. L
  PROVE  Place(r, n) = k * (B*L) + (IF u + n < L THEN u + n ELSE u + n - L) * B
<1>1. B \in Nat \ {0} /\ L \in Nat \ {0} /\ B*L \in Nat \ {0} /\ r.addr \in Nat
  BY RequestFields, BurstDivides
<1> DEFINE T == B*L
           v == IF u + n < L THEN u + n ELSE u + n - L
<1>2. Place(r, n) = k*T + (((k*T + u*B) - k*T + n*B) % T)
  <2> DEFINE x == r.addr \div T
             y == (r.addr \div B) * B
  <2>1. Place(r, n) = x*T + ((y - x*T + n*B) % T)
    BY Zenon DEF Place
  <2>2. x = k /\ y = k*T + u*B
    BY DEF LiesAt
  <2> HIDE DEF x, y, T
  <2> QED BY <2>1, <2>2, Zenon
<1>3. (k*T + u*B) - k*T + n*B = (u + n) * B
  BY <1>1
<1>4. v \in 0 .. L - 1 /\ (v*B) \in 0 .. T - 1
  <2>1. v \in 0 .. L - 1
    BY <1>1
  <2>2. \A w \in 0 .. L - 1 : w*B \in 0 .. B*L - 1
    BY <1>1
  <2> QED BY <2>1, <2>2
<1>5. (u + n) * B = (IF u + n < L THEN 0 ELSE 1) * T + v*B
  BY <1>1
<1>6. ((u + n) * B) % T = v*B
  <2>1. /\ T \in Nat \ {0} /\ (u + n) * B \in Int
        /\ (IF u + n < L THEN 0 ELSE 1) \in Int
    BY <1>1
  <2> DEFINE x == (u + n) * B
             c == IF u + n < L THEN 0 ELSE 1
             y == v*B
  <2>2. x \in Int /\ c \in Int /\ y \in 0 .. T - 1 /\ x = c*T + y
    BY <1>4, <1>5, <2>1
  <2> HIDE DEF T, v, x, c, y
  <2>3. T \in Nat \ {0}
    BY <2>1
  <2>4. \A p \in Int, w \in 0 .. T - 1 : x = p*T + w => x % T = w /\ x \div T = p
    BY <2>2, <2>3, Remainder
  <2>5. x % T = y
    BY <2>2, <2>4
  <2> QED BY <2>5 DEF x, y
<1> QED BY <1>2, <1>3, <1>6

\* The device steps from one place to the next, wrapping at the boundary.
LEMMA NextPlace ==
  ASSUME NEW r \in Requests, NEW n \in 0 .. r.len, NEW p, p = Place(r, n) - Masked(r)
  PROVE  /\ p \in Int
         /\ p + Bytes(r) \in Int
         /\ Started(r).Lower_Wrap_Boundry \in Int /\ Started(r).Upper_Wrap_Boundry \in Int
         /\ Place(r, n + 1) - Masked(r) = IF p + Bytes(r) >= Started(r).Upper_Wrap_Boundry
                                          THEN Started(r).Lower_Wrap_Boundry ELSE p + Bytes(r)
<1> DEFINE B == Bytes(r)
           L == r.len + 1
<1>1. B \in Nat \ {0} /\ L \in Nat \ {0} /\ n \in 0 .. L - 1
  BY RequestFields
<1>2. PICK k, c, e \in Int, u \in 0 .. L - 1 :
        /\ Masked(r) = c * (B*L)
        /\ LiesAt(r.addr, B, L, k, u) /\ LiesAt(ReqAddr(r), B, L, k - c, u)
  BY Geometry
<1>3. /\ Started(r).Lower_Wrap_Boundry = (k - c) * (B*L)
      /\ Started(r).Upper_Wrap_Boundry = (k - c) * (B*L) + B*L
  BY <1>2 DEF Started, LiesAt, Bytes
<1> HIDE DEF B, L
<1>4. /\ Place(r, n) = k * (B*L) + (IF u + n < L THEN u + n ELSE u + n - L) * B
      /\ Place(r, n + 1)
           = k * (B*L) + (IF u + (n + 1) < L THEN u + (n + 1) ELSE u + (n + 1) - L) * B
  <2>1. n \in 0 .. L /\ n + 1 \in 0 .. L
    BY <1>1
  <2> QED BY <1>2, <2>1, PlaceIs DEF B, L
<1> DEFINE v == IF u + n < L THEN u + n ELSE u + n - L
           w == IF u + (n + 1) < L THEN u + (n + 1) ELSE u + (n + 1) - L
<1>5. v \in 0 .. L - 1 /\ w = IF v + 1 >= L THEN 0 ELSE v + 1
  BY <1>1
<1>6. Place(r, n) = k * (B*L) + v*B /\ Place(r, n + 1) = k * (B*L) + w*B
  BY <1>4
<1> HIDE DEF v, w
<1>7. p = (k - c) * (B*L) + v*B /\ p \in Int
  BY <1>1, <1>2, <1>5, <1>6
<1>8. p + B = (k - c) * (B*L) + (v + 1) * B /\ p + B \in Int
  BY <1>1, <1>5, <1>7
<1>9. p + B >= (k - c) * (B*L) + B*L <=> v + 1 >= L
  <2>1. (v + 1) * B >= B*L <=> v + 1 >= L
    <3>1. v + 1 >= L => (v + 1) * B >= B*L
      BY <1>1, <1>5
    <3>2. v + 1 < L => (v + 1) * B < B*L
      BY <1>1, <1>5
    <3> QED BY <1>1, <1>5, <3>1, <3>2
  <2> QED BY <1>1, <1>5, <1>8, <2>1
<1>10. Place(r, n + 1) - Masked(r) = (k - c) * (B*L) + w*B
  BY <1>1, <1>2, <1>5, <1>6
<1>11. Place(r, n + 1) - Masked(r) = IF v + 1 >= L THEN (k - c) * (B*L) ELSE p + B
  BY <1>1, <1>5, <1>8, <1>10
<1>12. (k - c) * (B*L) \in Int /\ (k - c) * (B*L) + B*L \in Int
  BY <1>1
<1> QED BY <1>3, <1>7, <1>8, <1>9, <1>11, <1>12 DEF B

\* The aligned start is the place of beat 0.
LEMMA FirstPlace ==
  ASSUME NEW r \in Requests
  PROVE  /\ Started(r).Aligned_Address = Place(r, 0) - Masked(r)
         /\ Started(r).Aligned_Address \in Int /\ ReqAddr(r) \in Int
<1> DEFINE B == Bytes(r)
           L == r.len + 1
<1>1. B \in Nat \ {0} /\ L \in Nat \ {0} /\ 0 \in 0 .. L
  BY RequestFields
<1>2. PICK k, c, e \in Int, u \in 0 .. L - 1 :
        /\ Masked(r) = c * (B*L)
        /\ LiesAt(r.addr, B, L, k, u) /\ LiesAt(ReqAddr(r), B, L, k - c, u)
  BY Geometry
<1>3. Started(r).Aligned_Address = (k - c) * (B*L) + u*B
  BY <1>2 DEF Started, LiesAt, Bytes
<1> HIDE DEF B, L
<1>4. Place(r, 0) = k * (B*L) + (IF u + 0 < L THEN u + 0 ELSE u + 0 - L) * B
  BY <1>1, <1>2, PlaceIs DEF B, L
<1>5. Place(r, 0) = k * (B*L) + u*B
  BY <1>1, <1>4
<1>6. ReqAddr(r) \in Int
  <2>1. r.addr \in Int /\ RamBit \in Nat \ {0}
    BY RequestFields, DeviceAssumption
  <2>2. PICK m \in 0 .. RamBit - 1 : r.addr % RamBit = m
    BY <2>1, Division, Zenon
  <2> QED BY <2>1, <2>2 DEF ReqAddr
<1> QED BY <1>1, <1>2, <1>3, <1>5, <1>6

-----------------------------------------------------------------------------
(* The transaction *)

LEMMA StartServes ==
  ASSUME NEW r \in Requests
  PROVE  Started(r) \in Transaction /\ Started(r).busy /\ Serves(Started(r), r)
<1>1. r.is_write \in BOOLEAN
  BY RequestFlags
<1>2. Bytes(r) \in Int /\ r.len + 1 \in Int /\ 0 \in 0 .. r.len /\ 1 \in 1 .. r.len + 1
  BY RequestFields
<1>3. /\ Started(r).busy = TRUE /\ Started(r).aligned = FALSE /\ Started(r).N = 1
      /\ Started(r).is_write = r.is_write
      /\ Started(r).addr = ReqAddr(r) /\ Started(r).Start_Address = ReqAddr(r)
      /\ Started(r).Number_Bytes = Bytes(r) /\ Started(r).Burst_Length = r.len + 1
  BY DEF Started, Bytes
<1>4. /\ Started(r).Lower_Wrap_Boundry \in Int /\ Started(r).Upper_Wrap_Boundry \in Int
      /\ Started(r).Aligned_Address \in Int /\ ReqAddr(r) \in Int
  BY <1>2, NextPlace, FirstPlace
<1>5. Started(r) \in Transaction
  <2> DEFINE bytes == Bytes(r)
             aligned == Started(r).Aligned_Address
             lower == Started(r).Lower_Wrap_Boundry
             upper == Started(r).Upper_Wrap_Boundry
  <2>1. Started(r) = [busy |-> TRUE, is_write |-> r.is_write, aligned |-> FALSE, N |-> 1,
                      addr |-> ReqAddr(r), Start_Address |-> ReqAddr(r), Number_Bytes |-> bytes,
                      Burst_Length |-> r.len + 1, Aligned_Address |-> aligned,
                      Lower_Wrap_Boundry |-> lower, Upper_Wrap_Boundry |-> upper]
    BY DEF Started, Bytes
  <2>2. bytes \in Int /\ aligned \in Int /\ lower \in Int /\ upper \in Int
    BY <1>2, <1>4
  <2> HIDE DEF bytes, aligned, lower, upper
  <2> QED BY <1>1, <1>2, <1>4, <2>1, <2>2 DEF Transaction
<1>6. Serves(Started(r), r)
  <2>1. (Started(r).aligned <=> Started(r).N # 1) /\ Started(r).busy
    BY <1>3
  <2> HIDE DEF Requests
  <2> QED BY <1>2, <1>3, <2>1, Zenon DEF Serves
<1> QED BY <1>3, <1>5, <1>6

LEMMA AdvancedFields ==
  ASSUME NEW t \in Transaction
  PROVE  LET a == wrapped(t, (IF t.aligned THEN t.addr ELSE t.Aligned_Address) + t.Number_Bytes)
         IN /\ Advanced(t) \in Transaction
            /\ Advanced(t).N = t.N + 1 /\ Advanced(t).aligned = TRUE /\ Advanced(t).addr = a
            /\ Advanced(t).busy = t.busy /\ Advanced(t).is_write = t.is_write
            /\ Advanced(t).Start_Address = t.Start_Address
            /\ Advanced(t).Number_Bytes = t.Number_Bytes
            /\ Advanced(t).Burst_Length = t.Burst_Length
            /\ Advanced(t).Aligned_Address = t.Aligned_Address
            /\ Advanced(t).Lower_Wrap_Boundry = t.Lower_Wrap_Boundry
            /\ Advanced(t).Upper_Wrap_Boundry = t.Upper_Wrap_Boundry
<1> DEFINE a == wrapped(t, (IF t.aligned THEN t.addr ELSE t.Aligned_Address) + t.Number_Bytes)
<1>1. a \in Int /\ t.N + 1 \in Int
  BY DEF Transaction, wrapped
<1>2. Advanced(t) = [t EXCEPT !.N = t.N + 1, !.aligned = TRUE, !.addr = a]
  BY DEF Advanced, Transaction
<1> HIDE DEF a
<1>3. Advanced(t) \in Transaction
  BY <1>1, <1>2 DEF Transaction
<1>4. /\ Advanced(t).N = t.N + 1 /\ Advanced(t).aligned = TRUE /\ Advanced(t).addr = a
      /\ Advanced(t).busy = t.busy /\ Advanced(t).is_write = t.is_write
      /\ Advanced(t).Start_Address = t.Start_Address
      /\ Advanced(t).Number_Bytes = t.Number_Bytes /\ Advanced(t).Burst_Length = t.Burst_Length
      /\ Advanced(t).Aligned_Address = t.Aligned_Address
      /\ Advanced(t).Lower_Wrap_Boundry = t.Lower_Wrap_Boundry
      /\ Advanced(t).Upper_Wrap_Boundry = t.Upper_Wrap_Boundry
  BY <1>2 DEF Transaction
<1> QED BY <1>3, <1>4 DEF a

\* As long as its last beat is not reached a transaction can go on.
LEMMA AdvanceServes ==
  ASSUME NEW t \in Transaction, NEW r \in Requests, Serves(t, r), ~last(t)
  PROVE  Serves(Advanced(t), r)
<1>1. t.N \in 1 .. r.len /\ t.N - 1 \in 0 .. r.len /\ r.len \in Nat
  BY RequestFields DEF Serves, last
<1> DEFINE p == IF t.aligned THEN t.addr ELSE t.Aligned_Address
<1>2. p = Place(r, t.N - 1) - Masked(r)
  <2>1. CASE t.N = 1
    BY <2>1, FirstPlace DEF Serves
  <2>2. CASE t.N # 1
    BY <2>2 DEF Serves
  <2> QED BY <2>1, <2>2
<1>3. wrapped(t, p + t.Number_Bytes) = Place(r, t.N - 1 + 1) - Masked(r)
  BY <1>1, <1>2, NextPlace DEF Serves, wrapped
<1>4. t.N - 1 + 1 = Advanced(t).N - 1 /\ Advanced(t).N # 1 /\ Advanced(t).N \in 1 .. r.len + 1
  <2>1. Advanced(t).N = t.N + 1
    BY AdvancedFields
  <2> QED BY <1>1, <2>1
<1> QED BY <1>3, <1>4, AdvancedFields DEF Serves

\* The next beat of a write is served by the same transaction.
LEMMA OtherBeatServed ==
  ASSUME NEW t, NEW r \in Requests, NEW s \in OtherBeats(r)
  PROVE  s \in Requests /\ (Serves(t, r) => Serves(t, s))
<1>1. /\ s \in Requests /\ s.is_write = r.is_write
      /\ s.size = r.size /\ s.addr = r.addr /\ s.len = r.len
  <2>1. CASE r.is_write
    BY <2>1, RequestFlags DEF OtherBeats, Requests, Writes
  <2>2. CASE ~r.is_write
    BY <2>2 DEF OtherBeats
  <2> QED BY <2>1, <2>2
<1> QED BY <1>1 DEF Serves, Started, ReqAddr, Place, Masked, Bytes

-----------------------------------------------------------------------------
(* The device *)

LEMMA DeviceInit == ASSUME Init PROVE DeviceInv
BY DEF Init, DeviceInv, Zero, Transaction

LEMMA DeviceTick == ASSUME DeviceInv, Next PROVE DeviceInv'
<1>1. CASE Reset
  BY <1>1 DEF Reset, DeviceInv, Zero, Transaction
<1>2. CASE Cycle
  <2>1. /\ tx \in Transaction /\ ntx = tx /\ enable \in BOOLEAN /\ tx.busy \in BOOLEAN
        /\ req \in {NoReq} \cup Requests
        /\ tx.busy => Serves(tx, req)
    BY DEF DeviceInv, Transaction
  <2>2. /\ ntx' = NextTx /\ tx' = (IF enable THEN NextTx ELSE tx) /\ enable' \in BOOLEAN
        /\ req' \in NextReqs(req, ready, last(tx))
    BY <1>2 DEF Cycle
  <2>3. ntx' = tx'
    BY <2>1, <2>2 DEF NextTx
  <2>4. req' \in {NoReq} \cup Requests
    <3>1. req \in Requests => OtherBeats(req) \subseteq Requests
      BY OtherBeatServed
    <3>2. ~NoReq.valid
      BY DEF NoReq
    <3> QED BY <2>1, <2>2, <3>1, <3>2 DEF NextReqs, Requests
  <2>5. CASE ~enable
    <3>1. tx.busy => req' = req
      BY <2>1, <2>2, <2>5, RequestFlags DEF NextReqs, Serves, ready
    <3> QED BY <2>1, <2>2, <2>3, <2>4, <2>5, <3>1 DEF DeviceInv
  <2>6. CASE enable /\ tx.busy /\ last(tx)
    <3>1. tx' = Zero /\ Zero \in Transaction /\ ~Zero.busy
      BY <2>2, <2>6 DEF NextTx, Zero, Transaction
    <3> QED BY <2>2, <2>3, <2>4, <3>1 DEF DeviceInv
  <2>7. CASE enable /\ tx.busy /\ ~last(tx)
    <3>1. tx' = Advanced(tx) /\ Serves(tx, req) /\ req \in Requests
      BY <2>1, <2>2, <2>7 DEF NextTx, Serves
    <3>2. req' \in OtherBeats(req)
      BY <2>2, <2>7, <3>1, RequestFlags DEF NextReqs, ready
    <3>3. Serves(Advanced(tx), req')
      BY <2>1, <2>7, <3>1, <3>2, AdvanceServes, OtherBeatServed
    <3>4. Advanced(tx) \in Transaction
      BY <2>1, AdvancedFields
    <3> QED BY <2>2, <2>3, <2>4, <3>1, <3>3, <3>4 DEF DeviceInv
  <2>8. CASE enable /\ ~tx.busy /\ req.valid
    <3>1. req \in Requests
      BY <2>1, <2>8 DEF NoReq
    <3>2. tx' = Started(req) /\ req' = req
      BY <2>2, <2>8 DEF NextTx, NextReqs, ready
    <3> QED BY <2>2, <2>3, <2>4, <3>1, <3>2, StartServes DEF DeviceInv
  <2>9. CASE enable /\ ~tx.busy /\ ~req.valid
    <3>1. tx' = tx
      BY <2>1, <2>2, <2>9 DEF NextTx
    <3> QED BY <2>1, <2>2, <2>3, <2>4, <2>9, <3>1 DEF DeviceInv
  <2> QED BY <2>5, <2>6, <2>7, <2>8, <2>9
<1> QED BY <1>1, <1>2 DEF Next

\* Both copies of the transaction are the same at every cycle, and a busy
\* transaction is that of the request on the bus, at the beat that comes next.
\* (axi.h:7-70, cbus_device.cpp:32-88)
THEOREM DeviceInvariance == Spec => []DeviceInv
<1>1. DeviceInv /\ UNCHANGED vars => DeviceInv'
  BY DEF DeviceInv, vars
<1> QED BY <1>1, DeviceInit, DeviceTick, PTL DEF Spec

\* The assertions of eval_req cannot fail, whatever the pauses, bursts and resets.
\* (cbus_device.cpp:39-43)
THEOREM NoAssertionFails == Spec => []AssertionsHold
<1>1. DeviceInv => AssertionsHold
  <2> SUFFICES ASSUME DeviceInv, ready PROVE Sane
    BY DEF AssertionsHold
  <2>1. Serves(tx, req)
    BY DEF DeviceInv, ready
  <2>2. req.valid
    BY <2>1, RequestFlags DEF Serves
  <2> QED BY <2>1, <2>2, Zenon DEF Serves, Sane, Bytes
<1> QED BY <1>1, DeviceInvariance, PTL

-----------------------------------------------------------------------------
(* The device is a burst memory *)

\* The cell of RAM that a beat reaches is that of its place in the burst, through
\* the mask and through either window.
LEMMA SameCell ==
  ASSUME NEW t, NEW r \in Requests, Serves(t, r)
  PROVE  translate(t.addr) % MemSize = BeatAddr(r, t.N - 1) % MemSize
<1> DEFINE a == BeatAddr(r, t.N - 1)
<1>1. t.N - 1 \in 0 .. r.len /\ r.len \in Nat /\ r.addr \in Int
  BY RequestFields DEF Serves
<1>2. a = IF t.N = 1 THEN r.addr ELSE Place(r, t.N - 1)
  <2>1. t.N - 1 = 0 <=> t.N = 1
    BY <1>1 DEF Serves
  <2> QED BY <2>1, Zenon DEF BeatAddr, Place, Bytes
<1>3. Place(r, t.N - 1) - Masked(r) \in Int /\ ReqAddr(r) \in Int /\ Masked(r) \in Int
  BY <1>1, NextPlace, FirstPlace DEF Masked
<1>4. Place(r, t.N - 1) \in Int
  <2> DEFINE B == Bytes(r)
             L == r.len + 1
  <2>1. B \in Nat \ {0} /\ L \in Nat \ {0} /\ t.N - 1 \in 0 .. L
    BY <1>1, RequestFields
  <2>2. PICK k, c, e \in Int, u \in 0 .. L - 1 : LiesAt(r.addr, B, L, k, u)
    BY Geometry
  <2> HIDE DEF B, L
  <2>3. Place(r, t.N - 1)
          = k * (B*L) + (IF u + (t.N - 1) < L THEN u + (t.N - 1) ELSE u + (t.N - 1) - L) * B
    BY <2>1, <2>2, PlaceIs DEF B, L
  <2> QED BY <2>1, <2>3
<1>5. t.addr = a - Masked(r) /\ a \in Int
  BY <1>1, <1>2, <1>3, <1>4 DEF Serves, Masked
<1> HIDE DEF a
<1>6. PICK e \in Int : Masked(r) = e * MemSize
  BY Geometry
<1>7. MemSize \in Nat \ {0} /\ BootBase \in Int /\ BootBase % MemSize = 0
  BY CBusAssumption, DeviceAssumption
<1>8. PICK h \in Int : BootBase = h * MemSize
  BY <1>7, Divides, Zenon
<1>9. PICK d \in Int : translate(t.addr) = a + d * MemSize
  <2>1. /\ a - e * MemSize = a + (-e) * MemSize
        /\ (a - e * MemSize) - h * MemSize = a + (-e - h) * MemSize
    BY <1>5, <1>7
  <2>2. translate(t.addr) = a + (-e) * MemSize \/ translate(t.addr) = a + (-e - h) * MemSize
    BY <1>5, <1>6, <1>8, <2>1, Zenon DEF translate
  <2> QED BY <2>2
<1>10. translate(t.addr) \in Int
  BY <1>5, <1>7, <1>9
<1>11. translate(t.addr) % MemSize = a % MemSize
  <2>1. MemSize \in Nat \ {0} /\ a \in Int
    BY <1>5, <1>7
  <2> DEFINE x == translate(t.addr)
  <2>2. x \in Int /\ \E k \in Int : x = a + k * MemSize
    BY <1>9, <1>10
  <2> HIDE DEF x
  <2>3. x % MemSize = a % MemSize
    BY <2>1, <2>2, Congruent
  <2> QED BY <2>3 DEF x
<1> QED BY <1>11 DEF a

\* What the abstract memory reads and writes at a beat is what the device does.
LEMMA SameBeat ==
  ASSUME DeviceInv, tx.busy
  PROVE  /\ req \in Requests /\ req.valid
         /\ BurstRAM!Word(mem, BurstRAM!BeatAddr(req, tx.N - 1)) = load(tx.addr)
         /\ BurstRAM!Written(mem, BurstRAM!BeatAddr(req, tx.N - 1), req) = store(tx.addr, req)
         /\ req.is_write = tx.is_write
         /\ last(tx) <=> tx.N - 1 = req.len
         /\ tx.N - 1 + 1 = tx.N
<1>1. Serves(tx, req) /\ req \in Requests
  BY DEF DeviceInv, Serves
<1>2. translate(tx.addr) % MemSize = BurstRAM!BeatAddr(req, tx.N - 1) % MemSize
  BY <1>1, SameCell DEF BurstRAM!BeatAddr, BeatAddr
<1>3. /\ BurstRAM!Word(mem, BurstRAM!BeatAddr(req, tx.N - 1)) = load(tx.addr)
      /\ BurstRAM!Written(mem, BurstRAM!BeatAddr(req, tx.N - 1), req) = store(tx.addr, req)
  BY <1>2, Zenon DEF BurstRAM!Word, Word, BurstRAM!Written, Written, load, store, BurstRAM!Lane,
     Lane, BurstRAM!Cell, Cell
<1>4. /\ last(tx) <=> tx.N - 1 = req.len
      /\ tx.N - 1 + 1 = tx.N
  BY <1>1, RequestFields DEF Serves, last
<1> QED BY <1>1, <1>3, <1>4, RequestFlags DEF Serves

LEMMA SameRequests ==
  ASSUME NEW r, NEW f, NEW l
  PROVE  BurstRAM!NextReqs(r, f, l) = NextReqs(r, f, l)
BY DEF BurstRAM!NextReqs, NextReqs, BurstRAM!OtherBeats, OtherBeats, BurstRAM!NoReq, NoReq,
   BurstRAM!Reads, Reads, BurstRAM!Writes, Writes

LEMMA StepMaps ==
  ASSUME DeviceInv, [Next]_vars
  PROVE  [BurstRAM!Request \/ BurstRAM!Beat \/ BurstRAM!Reset]_BurstRAM!burstVars
<1> DEFINE beats == IF tx.busy THEN tx.N - 1 ELSE 0
<1>1. CASE UNCHANGED vars
  BY <1>1 DEF vars, BurstRAM!burstVars
<1>2. CASE Reset
  BY <1>2 DEF Reset, Zero, BurstRAM!Reset, BurstRAM!Cell, Cell, BurstRAM!NoReq, NoReq
<1>3. CASE Cycle /\ ready
  <2>1. tx.busy /\ enable /\ tx \in Transaction /\ ntx = tx
    BY <1>3 DEF ready, DeviceInv
  <2>2. beats' = IF tx.N - 1 = req.len THEN 0 ELSE tx.N - 1 + 1
    <3>1. CASE last(tx)
      BY <1>3, <2>1, <3>1, SameBeat DEF Cycle, NextTx, Zero
    <3>2. CASE ~last(tx)
      <4>1. tx' = Advanced(tx)
        BY <1>3, <2>1, <3>2 DEF Cycle, NextTx
      <4>2. tx'.busy /\ tx'.N = tx.N + 1 /\ tx.N \in Int
        BY <2>1, <4>1, AdvancedFields DEF Transaction
      <4> QED BY <2>1, <3>2, <4>2, SameBeat
    <3> QED BY <3>1, <3>2
  <2>3. req' \in BurstRAM!NextReqs(req, TRUE, tx.N - 1 = req.len)
    <3>1. req' \in NextReqs(req, ready, last(tx)) /\ last(tx) \in BOOLEAN
      BY <1>3 DEF Cycle, last
    <3> QED BY <1>3, <2>1, <3>1, SameBeat, SameRequests DEF NextReqs
  <2>4. /\ req.is_write => mem' = store(tx.addr, req) /\ answer' = answer
        /\ ~req.is_write => answer' = load(tx.addr) /\ mem' = mem
    BY <1>3, <2>1, SameBeat DEF Cycle, WritesNow
  <2>5. BurstRAM!Beat
    BY <2>1, <2>2, <2>3, <2>4, SameBeat DEF BurstRAM!Beat
  <2> QED BY <2>5
<1>4. CASE Cycle /\ ~ready
  <2>1. mem' = mem /\ answer' = answer /\ req' \in NextReqs(req, FALSE, last(tx)) /\ ntx = tx
        /\ req \in {NoReq} \cup Requests
    BY <1>4 DEF Cycle, ready, WritesNow, NextReqs, DeviceInv
  <2>2. beats' = beats
    <3>1. CASE ~enable
      BY <1>4, <3>1 DEF Cycle
    <3>2. CASE enable /\ ~tx.busy /\ req.valid
      <4>1. tx' = Started(req)
        BY <1>4, <3>2 DEF Cycle, NextTx
      <4> QED BY <3>2, <4>1 DEF Started
    <3>3. CASE enable /\ ~tx.busy /\ ~req.valid
      BY <1>4, <2>1, <3>3 DEF Cycle, NextTx
    <3> QED BY <1>4, <3>1, <3>2, <3>3 DEF ready
  <2>3. CASE req.valid
    <3>1. req' = req
      BY <2>1, <2>3 DEF NextReqs
    <3> QED BY <2>1, <2>2, <3>1 DEF BurstRAM!burstVars
  <2>4. CASE ~req.valid
    <3>1. req' \in BurstRAM!NextReqs(req, FALSE, FALSE)
      BY <2>1, <2>4, SameRequests DEF NextReqs
    <3>2. BurstRAM!Request
      BY <2>1, <2>2, <2>4, <3>1 DEF BurstRAM!Request
    <3> QED BY <3>2
  <2> QED BY <2>3, <2>4
<1> QED BY <1>1, <1>2, <1>3, <1>4 DEF Next

\* However often the device pauses, every beat of a burst is answered exactly once
\* and in order, at the address the burst has in RAM.  (cbus_device.cpp:13-88,
\* axi.h:7-70, model.cpp:11-21)
THEOREM DeviceIsBurstMemory == Spec => ImplementsBurstMemory
<1>1. Init => BurstRAM!BurstInit
  BY DEF Init, Zero, BurstRAM!BurstInit, BurstRAM!Cell, Cell, BurstRAM!NoReq, NoReq,
     BurstRAM!Lane, Lane
<1>2. DeviceInv /\ [Next]_vars
        => [BurstRAM!Request \/ BurstRAM!Beat \/ BurstRAM!Reset]_BurstRAM!burstVars
  BY StepMaps
<1> QED BY <1>1, <1>2, DeviceInvariance, PTL DEF Spec, ImplementsBurstMemory, BurstRAM!BurstSpec

-----------------------------------------------------------------------------
(***************************************************************************)
(* The memory of the simulation, behind its router.                        *)
(***************************************************************************)
MemoryShape ==
  /\ sim_mem = [i \in Memory!Index |-> sim_mem[i]]
  /\ saved_mem = [i \in Memory!Index |-> saved_mem[i]]
  /\ written = [i \in Memory!Index |-> written[i]]

\* The memory is blank until it is initialised.
Uninstalled ==
  ~ installed =>
    sim_mem = Memory!Blank /\ saved_mem = Memory!Blank /\ written = Memory!Nothing

MemoryInv == MemoryShape /\ Uninstalled /\ Memory!BytesStored

\* Nothing was stored, so the memory is what was installed.
LEMMA NothingWritten ==
  ASSUME sim_mem = saved_mem, written = Memory!Nothing
  PROVE  Memory!BytesStored
BY DEF Memory!BytesStored, Memory!Nothing

LEMMA InstallStep ==
  ASSUME MemoryInv, NEW data, Memory!Install(data)
  PROVE  MemoryInv'
<1>1. PICK shift \in {"rest", "zero"} : sim_mem' = Memory!MapImage(sim_mem, data, shift)
  BY DEF Memory!Install
<1>2. saved_mem' = sim_mem' /\ installed' = TRUE /\ written' = Memory!Nothing
  BY DEF Memory!Install, MemoryInv, Uninstalled
<1>3. sim_mem' = [i \in Memory!Index |-> sim_mem'[i]]
  BY <1>1 DEF Memory!MapImage
<1>4. MemoryShape'
  BY <1>2, <1>3 DEF MemoryShape, Memory!Nothing
<1>5. Memory!BytesStored'
  BY <1>2 DEF Memory!BytesStored, Memory!Nothing
<1> QED  BY <1>2, <1>4, <1>5 DEF MemoryInv, Uninstalled

\* The windows of the router: the memory twice, the peripherals between.
LEMMA Windows ==
  ASSUME NEW addr \in 0 .. 3 * WindowSize - 1
  PROVE  /\ addr % WindowSize \in Nat
         /\ addr \div WindowSize = 1 => Memory!search(addr).mem = "confreg"
         /\ addr \div WindowSize # 1 => /\ Memory!search(addr).mem = "block"
                                        /\ Memory!paddr(addr) = addr % WindowSize
<1> DEFINE W == WindowSize  q == addr \div W  r == addr % W
           E == Memory!Entries
           M(k) == Memory!Matches(E[k], addr)
           k0 == CHOOSE k \in DOMAIN E : M(k) /\ \A j \in DOMAIN E : M(j) => k <= j
<1>0. W \in Nat /\ W > 0
  BY MemoryAssumption
<1>1. q \in Int /\ r \in 0 .. W - 1 /\ addr = q * W + r
  BY <1>0
<1>2. q \in {0, 1, 2}
  <2> HIDE DEF q, r, W
  <2>1. addr < 3 * W /\ addr >= 0
    BY <1>0 DEF W
  <2>2. q >= 0
    <3> SUFFICES ASSUME q <= -1  PROVE FALSE
      BY <1>1
    <3>1. q * W <= -W
      BY <1>0, <1>1
    <3> QED  BY <1>0, <1>1, <2>1, <3>1
  <2>3. q <= 2
    <3> SUFFICES ASSUME q >= 3  PROVE FALSE
      BY <1>1
    <3>1. q * W >= 3 * W
      BY <1>0, <1>1
    <3> QED  BY <1>0, <1>1, <2>1, <3>1
  <2> QED  BY <1>1, <2>2, <2>3
<1>3. /\ DOMAIN E = 1 .. 3
      /\ E[1].all = FALSE /\ E[1].prefix = 2 * W /\ E[1].mem = "block" /\ E[1].base = 2 * W
      /\ E[2].all = FALSE /\ E[2].prefix = W /\ E[2].mem = "confreg" /\ E[2].base = 0
      /\ E[3].all = TRUE /\ E[3].mem = "block" /\ E[3].base = 0
  BY DEF Memory!Entries
<1>4. Memory!search(addr) = E[k0]
  BY DEF Memory!search
<1> HIDE DEF E
<1>5. (M(1) <=> q * W = 2 * W) /\ (M(2) <=> q * W = W) /\ M(3)
  BY <1>3 DEF Memory!Matches
<1> HIDE DEF M, q, r, W
<1>6. (M(1) <=> q = 2) /\ (M(2) <=> q = 1)
  BY <1>0, <1>2, <1>5
<1>7. k0 = IF q = 2 THEN 1 ELSE IF q = 1 THEN 2 ELSE 3
  BY <1>2, <1>3, <1>5, <1>6
<1> HIDE DEF k0
<1>8. Memory!paddr(addr) = addr - E[k0].base
  BY <1>4 DEF Memory!paddr
<1>9. CASE q = 0
  BY <1>0, <1>1, <1>3, <1>4, <1>7, <1>8, <1>9 DEF q, r, W
<1>10. CASE q = 1
  BY <1>0, <1>1, <1>3, <1>4, <1>7, <1>8, <1>10 DEF q, r, W
<1>11. CASE q = 2
  BY <1>0, <1>1, <1>3, <1>4, <1>7, <1>8, <1>11 DEF q, r, W
<1> QED  BY <1>2, <1>9, <1>10, <1>11

\* A store through either window of the memory, or to the peripherals.
LEMMA MemoryStoreStep ==
  ASSUME MemoryInv, NEW addr \in 0 .. 3 * WindowSize - 1, NEW b \in MemoryByte, NEW mask,
         Memory!Store(addr, [l \in Memory!Lane |-> b], mask)
  PROVE  MemoryInv'
<1> DEFINE data == [l \in Memory!Lane |-> b]  i == addr % WindowSize
<1>0. installed /\ installed' = installed /\ saved_mem' = saved_mem
  BY DEF Memory!Store
<1>1. CASE addr \div WindowSize = 1
  <2>1. sim_mem' = sim_mem /\ written' = written
    BY <1>1, Windows DEF Memory!Store
  <2> QED  BY <1>0, <2>1 DEF MemoryInv, MemoryShape, Uninstalled, Memory!BytesStored
<1>2. CASE addr \div WindowSize # 1
  <2>1. i \in Memory!Index
    BY <1>2, Windows DEF Memory!Store, Memory!InRange
  <2>2. /\ sim_mem' = [sim_mem EXCEPT ![i] = Memory!Merge(sim_mem[i], data, mask)]
        /\ written' = [written EXCEPT ![i] = Memory!Merge(written[i], data, mask)]
    BY <1>2, Windows DEF Memory!Store, Memory!stored
  <2> HIDE DEF i
  <2>3. /\ sim_mem'[i] = Memory!Merge(sim_mem[i], data, mask)
        /\ written'[i] = Memory!Merge(written[i], data, mask)
        /\ \A j \in Memory!Index : j # i => sim_mem'[j] = sim_mem[j] /\ written'[j] = written[j]
    BY <2>1, <2>2 DEF MemoryInv, MemoryShape
  <2>4. MemoryShape'
    BY <1>0, <2>2 DEF MemoryInv, MemoryShape
  <2>5. Memory!BytesStored'
    <3> SUFFICES ASSUME NEW j \in Memory!Index, NEW l \in Memory!Lane
                 PROVE  sim_mem'[j][l] = IF written'[j][l] = Memory!NoByte THEN saved_mem'[j][l]
                                         ELSE written'[j][l]
      BY DEF Memory!BytesStored
    <3>1. sim_mem[j][l] = IF written[j][l] = Memory!NoByte THEN saved_mem[j][l]
                          ELSE written[j][l]
      BY DEF MemoryInv, Memory!BytesStored
    <3>2. CASE j = i
      <4>1. /\ sim_mem'[j][l] = IF l \in mask THEN b ELSE sim_mem[j][l]
            /\ written'[j][l] = IF l \in mask THEN b ELSE written[j][l]
        BY <2>3, <3>2 DEF Memory!Merge
      <4>2. b # Memory!NoByte
        BY MemoryAssumption DEF Memory!NoByte
      <4> QED  BY <1>0, <3>1, <4>1, <4>2
    <3>3. CASE j # i
      BY <1>0, <2>3, <3>1, <3>3
    <3> QED  BY <3>2, <3>3
  <2> QED  BY <1>0, <2>4, <2>5 DEF MemoryInv, Uninstalled
<1> QED  BY <1>1, <1>2

LEMMA MemoryStep ==
  ASSUME MemoryInv, [BusesNext]_busesVars
  PROVE  MemoryInv'
<1>1. CASE UNCHANGED memoryVars
  BY <1>1 DEF memoryVars, MemoryInv, MemoryShape, Uninstalled, Memory!BytesStored
<1>2. CASE Memory!Reset
  <2>1. sim_mem' = saved_mem /\ saved_mem' = saved_mem /\ written' = Memory!Nothing
        /\ installed' = installed /\ installed
    BY <1>2 DEF Memory!Reset
  <2>2. MemoryShape'
    BY <2>1 DEF MemoryInv, MemoryShape, Memory!Nothing
  <2>3. Memory!BytesStored'
    BY <2>1 DEF Memory!BytesStored, Memory!Nothing
  <2> QED  BY <2>1, <2>2, <2>3 DEF MemoryInv, Uninstalled
<1>3. CASE \E data \in Images : Memory!Install(data)
  BY <1>3, InstallStep
<1>4. CASE \E addr \in 0 .. 3 * WindowSize - 1, b \in MemoryByte, mask \in Masks :
             Memory!Store(addr, [l \in Memory!Lane |-> b], mask)
  BY <1>4, MemoryStoreStep
<1>5. Memory!Next \/ UNCHANGED memoryVars
  BY DEF BusesNext, Device, InBridge, InMemory, busesVars
<1> QED  BY <1>1, <1>2, <1>3, <1>4, <1>5 DEF Memory!Next

\* Each byte of the memory is the one stored last since the reset, through whichever
\* window and beside whichever neighbours, or that of the memory as it was installed;
\* stores to the peripherals do not reach it.
\* (model.cpp:16-20; memory.cpp:7-39, 89-92, 133-144)
THEOREM StoredBytesStay == BusesSpec => []BytesStored
<1>1. BusesInit => MemoryInv
  BY NothingWritten
     DEF BusesInit, Memory!Init, MemoryInv, MemoryShape, Uninstalled, Memory!Blank,
         Memory!Nothing
<1>2. MemoryInv /\ [BusesNext]_busesVars => MemoryInv'
  BY MemoryStep
<1>3. MemoryInv => BytesStored
  BY DEF MemoryInv, BytesStored
<1> QED  BY <1>1, <1>2, <1>3, PTL DEF BusesSpec
=============================================================================
