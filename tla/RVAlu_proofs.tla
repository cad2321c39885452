---------------------------- MODULE RVAlu_proofs ----------------------------
(***************************************************************************)
(* Proofs about RVArithmetic, for words of any number of bits: the gates   *)
(* of the adder add, and the ALU computes what the simulator computes.     *)
(* Induction is over sets of numbers, by the least element that a set      *)
(* leaves out.                                                             *)
(***************************************************************************)
EXTENDS RVArithmetic, WellFoundedInduction, TLAPS

-----------------------------------------------------------------------------
(* Induction over the natural numbers, and the power of two *)

\* A set of natural numbers has a least element
LEMMA LeastElement ==
  ASSUME NEW T, T \subseteq Nat, T # {}
  PROVE  \E m \in T : \A k \in T : m <= k
<1> DEFINE R == OpToRel(<, Nat)
<1>1. IsWellFoundedOn(R, Nat)
  BY NatLessThanWellFounded
<1>2. \A k, m \in Nat : k < m => <<k, m>> \in R
  BY DEF OpToRel
<1> HIDE DEF R
<1>3. \E m \in T : \A k \in T : ~ (<<k, m>> \in R)
  BY <1>1, WFMin
<1>4. PICK m \in T : \A k \in T : ~ (<<k, m>> \in R)
  BY <1>3
<1>5. \A k \in T : m <= k
  <2> SUFFICES ASSUME NEW k \in T, ~(m <= k) PROVE FALSE
    OBVIOUS
  <2>1. k \in Nat /\ m \in Nat /\ k < m
    OBVIOUS
  <2> QED BY <2>1, <1>2, <1>4
<1> QED BY <1>5

\* A set that has 0 and with every number its successor has them all
LEMMA Induct ==
  ASSUME NEW S, 0 \in S, \A n \in Nat : n \in S => n + 1 \in S
  PROVE  Nat \subseteq S
<1> DEFINE T == Nat \ S
<1> SUFFICES ASSUME T # {} PROVE FALSE
  OBVIOUS
<1>1. PICK m \in T : \A k \in T : m <= k
  BY LeastElement
<1>2. m \in Nat /\ m # 0
  OBVIOUS
<1>3. m - 1 \in Nat /\ m - 1 \notin T
  BY <1>1, <1>2
<1>4. (m - 1) + 1 \in S /\ (m - 1) + 1 = m
  BY <1>2, <1>3
<1> QED BY <1>4

\* The first powers of two, up to the exponent n
Powers(n, f) == /\ f \in [0..n -> Nat]
                /\ f[0] = 1
                /\ \A k \in 0..(n - 1) : f[k + 1] = 2 * f[k]

LEMMA PowersExist == \A n \in Nat : \E f : Powers(n, f)
<1> DEFINE S == {n \in Nat : \E f : Powers(n, f)}
<1>1. 0 \in S
  <2>1. Powers(0, [k \in 0..0 |-> 1])
    BY DEF Powers
  <2> QED BY <2>1
<1>2. ASSUME NEW n \in Nat, n \in S PROVE n + 1 \in S
  <2>1. PICK f : Powers(n, f)
    BY <1>2
  <2> DEFINE g == [k \in 0..(n + 1) |-> IF k = n + 1 THEN 2 * f[n] ELSE f[k]]
  <2>2. g \in [0..(n + 1) -> Nat] /\ g[0] = 1
    BY <2>1 DEF Powers
  <2>3. ASSUME NEW k \in 0..n PROVE g[k + 1] = 2 * g[k]
    <3>1. CASE k = n
      BY <3>1
    <3>2. CASE k # n
      BY <3>2, <2>1 DEF Powers
    <3> QED BY <3>1, <3>2
  <2>4. Powers(n + 1, g)
    <3>1. 0..((n + 1) - 1) = 0..n
      OBVIOUS
    <3> HIDE DEF g
    <3> QED BY <2>2, <2>3, <3>1 DEF Powers
  <2> QED BY <2>4
<1>3. Nat \subseteq S
  BY <1>1, <1>2, Induct
<1> QED BY <1>3

LEMMA PowersUnique ==
  ASSUME NEW m \in Nat, NEW n \in Nat, NEW f, NEW g, Powers(m, f), Powers(n, g),
         NEW k \in Nat, k <= m, k <= n
  PROVE  f[k] = g[k]
<1> DEFINE S == {j \in Nat : j <= m /\ j <= n => f[j] = g[j]}
<1>1. 0 \in S
  <2>1. f[0] = 1 /\ g[0] = 1
    BY DEF Powers
  <2> QED BY <2>1
<1>2. ASSUME NEW j \in Nat, j \in S PROVE j + 1 \in S
  <2> SUFFICES ASSUME j + 1 <= m, j + 1 <= n PROVE f[j + 1] = g[j + 1]
    OBVIOUS
  <2>1. j \in 0..(m - 1) /\ j \in 0..(n - 1) /\ f[j] = g[j]
    BY <1>2
  <2> QED BY <2>1 DEF Powers
<1>3. Nat \subseteq S
  BY <1>1, <1>2, Induct
<1> QED BY <1>3

\* Pow2 is the function its recursive definition describes
LEMMA Pow2Equation == Pow2 = [k \in Nat |-> IF k = 0 THEN 1 ELSE 2 * Pow2[k - 1]]
<1> DEFINE F(n) == CHOOSE f : Powers(n, f)
           h == [k \in Nat |-> F(k)[k]]
<1>1. \A n \in Nat : Powers(n, F(n))
  BY PowersExist
<1> HIDE DEF F
<1>2. h[0] = 1
  BY <1>1 DEF Powers
<1>3. ASSUME NEW k \in Nat, k # 0 PROVE h[k] = 2 * h[k - 1]
  <2>1. k - 1 \in Nat /\ k - 1 \in 0..(k - 1) /\ (k - 1) + 1 = k
    BY <1>3
  <2>2. F(k)[k] = 2 * F(k)[k - 1]
    BY <2>1, <1>1 DEF Powers
  <2>3. F(k)[k - 1] = F(k - 1)[k - 1]
    BY <2>1, <1>1, PowersUnique
  <2> QED BY <2>1, <2>2, <2>3
<1>4. h = [k \in Nat |-> IF k = 0 THEN 1 ELSE 2 * h[k - 1]]
  <2>1. \A k \in Nat : h[k] = IF k = 0 THEN 1 ELSE 2 * h[k - 1]
    BY <1>2, <1>3
  <2> QED BY <2>1
<1> HIDE DEF h
<1> QED BY <1>4 DEF Pow2

LEMMA Pow2Facts ==
  /\ Pow2[0] = 1
  /\ \A k \in Nat : Pow2[k] \in Nat /\ Pow2[k] > 0 /\ Pow2[k + 1] = 2 * Pow2[k]
<1>1. \A k \in Nat : Pow2[k] = IF k = 0 THEN 1 ELSE 2 * Pow2[k - 1]
  BY Pow2Equation
<1>2. \A k \in Nat : Pow2[k + 1] = 2 * Pow2[k]
  <2> TAKE k \in Nat
  <2>1. k + 1 \in Nat /\ k + 1 # 0 /\ (k + 1) - 1 = k
    OBVIOUS
  <2> QED BY <1>1, <2>1
<1> DEFINE S == {k \in Nat : Pow2[k] \in Nat /\ Pow2[k] > 0}
<1>3. 0 \in S
  BY <1>1
<1>4. \A n \in Nat : n \in S => n + 1 \in S
  BY <1>2
<1>5. Nat \subseteq S
  <2> HIDE DEF S
  <2> QED BY <1>3, <1>4, Induct
<1> QED BY <1>1, <1>2, <1>5

\* The instances of Binary in the adder and in the ALU count in the same powers
LEMMA SameBinary == Gates!Pow2 = Pow2 /\ Unit!Pow2 = Pow2
BY DEF Gates!Pow2, Unit!Pow2, Pow2

LEMMA TimesFacts ==
  ASSUME NEW x \in Nat, NEW y \in Nat
  PROVE  x * y \in Nat /\ (x > 0 /\ y > 0 => x * y > 0)
OBVIOUS

\* Shifting by m places and then by n is shifting by m + n
LEMMA Pow2Sum == \A m, n \in Nat : Pow2[m + n] = Pow2[m] * Pow2[n]
<1> SUFFICES ASSUME NEW m \in Nat PROVE \A n \in Nat : Pow2[m + n] = Pow2[m] * Pow2[n]
  OBVIOUS
<1> DEFINE S == {n \in Nat : Pow2[m + n] = Pow2[m] * Pow2[n]}
<1>1. 0 \in S
  BY Pow2Facts
<1>2. ASSUME NEW n \in Nat, n \in S PROVE n + 1 \in S
  <2>1. Pow2[m + (n + 1)] = 2 * Pow2[m + n]
    <3>1. m + n \in Nat /\ m + (n + 1) = (m + n) + 1
      OBVIOUS
    <3> QED BY <3>1, Pow2Facts
  <2>2. 2 * (Pow2[m] * Pow2[n]) = Pow2[m] * (2 * Pow2[n])
    <3>1. Pow2[m] \in Nat /\ Pow2[n] \in Nat
      BY Pow2Facts
    <3>2. \A x, y \in Nat : 2 * (x * y) = x * (2 * y)
      OBVIOUS
    <3> QED BY <3>1, <3>2
  <2>3. Pow2[n + 1] = 2 * Pow2[n]
    BY Pow2Facts
  <2> QED BY <1>2, <2>1, <2>2, <2>3
<1>3. Nat \subseteq S
  BY <1>1, <1>2, Induct
<1> QED BY <1>3

-----------------------------------------------------------------------------
(* Division by a positive number, and the bits of a number *)

\* Quotient and remainder are what the division gives, and nothing else is
LEMMA Division ==
  ASSUME NEW x \in Nat, NEW d \in Nat, d > 0
  PROVE  /\ x \div d \in Nat /\ x % d \in Nat /\ x % d < d
         /\ x = (x \div d) * d + (x % d)
OBVIOUS

LEMMA Products ==
  ASSUME NEW u \in Int, NEW v \in Int, NEW d \in Nat, u * d < v * d + d
  PROVE  u <= v
<1>1. (u - v) * d < d
  OBVIOUS
<1>2. CASE u - v >= 1
  <2>1. (u - v) * d >= 1 * d
    BY <1>2
  <2> QED BY <2>1, <1>1
<1> QED BY <1>2

LEMMA DivisionUnique ==
  ASSUME NEW x \in Int, NEW d \in Nat, d > 0, NEW q \in Int, NEW r \in Nat,
         r < d, x = q * d + r
  PROVE  x \div d = q /\ x % d = r
<1> DEFINE u == x \div d  v == x % d
<1>1. u \in Int /\ v \in Nat /\ v < d /\ x = u * d + v
  OBVIOUS
<1> HIDE DEF u, v
<1>2. u * d \in Int /\ q * d \in Int
  BY <1>1
<1>3. u * d < q * d + d /\ q * d < u * d + d
  BY <1>1, <1>2
<1>4. u <= q /\ q <= u
  BY <1>1, <1>3, Products
<1>5. u = q
  BY <1>1, <1>4
<1>6. v = r
  BY <1>1, <1>2, <1>5
<1> QED BY <1>5, <1>6 DEF u, v

\* The number that the low k bits of x make
Low(x, k) == x % Pow2[k]

LEMMA LowType ==
  ASSUME NEW x \in Nat, NEW k \in Nat
  PROVE  Low(x, k) \in Nat /\ Low(x, k) < Pow2[k]
BY Pow2Facts, Division DEF Low

\* The bits of a number one by one: bit k adds its weight to the bits below it
LEMMA LowStep ==
  ASSUME NEW x \in Nat, NEW k \in Nat
  PROVE  Low(x, k + 1) = Low(x, k) + (IF On(x, k) THEN Pow2[k] ELSE 0)
<1> DEFINE p == Pow2[k]  q == x \div p  r == x % p  h == q \div 2  t == q % 2
<1>1. p \in Nat /\ p > 0 /\ Pow2[k + 1] = 2 * p
  BY Pow2Facts
<1>2. q \in Nat /\ r \in Nat /\ r < p /\ x = q * p + r
  BY <1>1, Division
<1>3. h \in Nat /\ t \in 0..1 /\ q = 2 * h + t
  <2> HIDE DEF q
  <2> QED BY <1>2
<1>4. On(x, k) = (t = 1) /\ Low(x, k) = r
  BY DEF On, Low
<1> HIDE DEF p, q, r, h, t
<1>5. x = h * (2 * p) + (t * p + r)
  <2>1. \A a, b, c \in Nat : (2 * a + b) * c = a * (2 * c) + b * c
    OBVIOUS
  <2>2. q * p = h * (2 * p) + t * p
    BY <2>1, <1>1, <1>3
  <2> DEFINE hp == h * (2 * p)  tp == t * p
  <2>3. hp \in Nat /\ tp \in Nat
    BY <1>1, <1>3
  <2> HIDE DEF hp, tp
  <2>4. hp + tp + r = hp + (tp + r)
    BY <2>3, <1>2
  <2> QED BY <1>2, <2>2, <2>4 DEF hp, tp
<1>6. t * p = (IF t = 1 THEN p ELSE 0)
  BY <1>1, <1>3
<1>7. t * p + r \in Nat /\ t * p + r < 2 * p
  BY <1>1, <1>2, <1>3, <1>6
<1>8. x % (2 * p) = t * p + r
  BY <1>1, <1>3, <1>5, <1>7, DivisionUnique
<1>9. Low(x, k + 1) = t * p + r
  BY <1>1, <1>8 DEF Low
<1>10. Low(x, k + 1) = r + (IF t = 1 THEN p ELSE 0)
  BY <1>1, <1>2, <1>6, <1>9
<1> QED BY <1>4, <1>10 DEF p

\* Bit k is on when the number that the bits up to it make reaches its weight
LEMMA OnLow ==
  ASSUME NEW x \in Nat, NEW k \in Nat
  PROVE  On(x, k) <=> Low(x, k + 1) >= Pow2[k]
<1>1. Low(x, k) \in Nat /\ Low(x, k) < Pow2[k] /\ Pow2[k] \in Nat
  BY LowType, Pow2Facts
<1>2. Low(x, k + 1) = Low(x, k) + (IF On(x, k) THEN Pow2[k] ELSE 0)
  BY LowStep
<1> QED BY <1>1, <1>2

LEMMA LowWord ==
  ASSUME NEW x \in Word
  PROVE  x \in Nat /\ Low(x, WordBits) = x
<1>1. WordSize \in Nat /\ x \in Nat /\ x < WordSize /\ WordSize = Pow2[WordBits]
  BY WordAssumption, WidthAssumption DEF Word
<1> QED BY <1>1 DEF Low

\* Words with the same bits are the same
LEMMA SameBits ==
  ASSUME NEW x \in Word, NEW y \in Word, \A k \in Bits : On(x, k) = On(y, k)
  PROVE  x = y
<1> DEFINE S == {k \in Nat : k <= WordBits => Low(x, k) = Low(y, k)}
<1>1. x \in Nat /\ y \in Nat /\ WordBits \in Nat
  BY LowWord, WidthAssumption
<1>2. 0 \in S
  <2>1. Low(x, 0) \in Nat /\ Low(y, 0) \in Nat /\ Low(x, 0) < 1 /\ Low(y, 0) < 1
    BY <1>1, LowType, Pow2Facts
  <2> QED BY <2>1
<1>3. ASSUME NEW k \in Nat, k \in S PROVE k + 1 \in S
  <2> SUFFICES ASSUME k + 1 <= WordBits PROVE Low(x, k + 1) = Low(y, k + 1)
    OBVIOUS
  <2>1. k \in Bits /\ Low(x, k) = Low(y, k)
    BY <1>1, <1>3 DEF Bits
  <2>2. On(x, k) = On(y, k)
    BY <2>1
  <2>3. /\ Low(x, k + 1) = Low(x, k) + (IF On(x, k) THEN Pow2[k] ELSE 0)
        /\ Low(y, k + 1) = Low(y, k) + (IF On(y, k) THEN Pow2[k] ELSE 0)
    BY <1>1, LowStep
  <2> QED BY <2>1, <2>2, <2>3
<1>4. Nat \subseteq S
  BY <1>2, <1>3, Induct
<1>5. Low(x, WordBits) = Low(y, WordBits)
  BY <1>1, <1>4
<1> QED BY <1>5, LowWord

-----------------------------------------------------------------------------
(* The adder *)

\* The carry into bit k: the low bits of the operands overflow
CarryAt(x, y, c, k) == Low(x, k) + Low(y, k) + B2W(c) >= Pow2[k]

LEMMA CarryStep ==
  ASSUME NEW x \in Nat, NEW y \in Nat, NEW c \in BOOLEAN, NEW k \in Nat
  PROVE  CarryAt(x, y, c, k + 1) = (Gates!G(x, y, k) \/ (Gates!P(x, y, k) /\ CarryAt(x, y, c, k)))
<1> DEFINE p == Pow2[k]  u == Low(x, k)  v == Low(y, k)
<1>1. p \in Nat /\ p > 0 /\ Pow2[k + 1] = 2 * p
  BY Pow2Facts
<1>2. u \in Nat /\ v \in Nat /\ u < p /\ v < p
  BY LowType
<1>3. /\ Low(x, k + 1) = u + (IF On(x, k) THEN p ELSE 0)
      /\ Low(y, k + 1) = v + (IF On(y, k) THEN p ELSE 0)
  BY LowStep
<1>4. B2W(c) \in 0..1
  BY DEF B2W
<1>5. /\ Gates!G(x, y, k) = (On(x, k) /\ On(y, k))
      /\ Gates!P(x, y, k) = (On(x, k) \/ On(y, k))
  BY SameBinary DEF Gates!G, Gates!P, Gates!On, On
<1> DEFINE b == B2W(c)
<1> HIDE DEF p, u, v, b
<1>6. CarryAt(x, y, c, k) = (u + v + b >= p)
  BY DEF CarryAt, p, u, v, b
<1>7. CarryAt(x, y, c, k + 1) =
        ((u + (IF On(x, k) THEN p ELSE 0)) + (v + (IF On(y, k) THEN p ELSE 0)) + b >= 2 * p)
  BY <1>1, <1>3 DEF CarryAt, b
<1>8. b \in 0..1
  BY <1>4 DEF b
<1>9. On(x, k) \in BOOLEAN /\ On(y, k) \in BOOLEAN
  BY DEF On
<1>10. \A s, t \in BOOLEAN :
         ((u + (IF s THEN p ELSE 0)) + (v + (IF t THEN p ELSE 0)) + b >= 2 * p)
           = ((s /\ t) \/ ((s \/ t) /\ u + v + b >= p))
  BY <1>1, <1>2, <1>8, SMT
<1> QED BY <1>5, <1>6, <1>7, <1>9, <1>10

LEMMA CarryIn ==
  ASSUME NEW x \in Nat, NEW y \in Nat, NEW c \in BOOLEAN
  PROVE  CarryAt(x, y, c, 0) = c
<1>1. Low(x, 0) = 0 /\ Low(y, 0) = 0
  <2>1. Low(x, 0) \in Nat /\ Low(y, 0) \in Nat /\ Low(x, 0) < 1 /\ Low(y, 0) < 1
    BY LowType, Pow2Facts
  <2> QED BY <2>1
<1> QED BY <1>1, Pow2Facts DEF CarryAt, B2W

\* A block that is given the carry into its first bit looks ahead to the others
LEMMA BlockStep ==
  ASSUME NEW x \in Nat, NEW y \in Nat, NEW c \in BOOLEAN, NEW blk \in Nat
  PROVE  LET into == CarryAt(x, y, c, 4 * blk)
         IN  /\ \A j \in 0..3 :
                  Gates!BlockCarries(x, y, blk, into)[j] = CarryAt(x, y, c, 4 * blk + j)
             /\ Gates!BlockOut(x, y, blk, into) = CarryAt(x, y, c, 4 * (blk + 1))
<1> DEFINE G(j) == Gates!G(x, y, 4 * blk + j)
           P(j) == Gates!P(x, y, 4 * blk + j)
           C(j) == CarryAt(x, y, c, 4 * blk + j)
           into == CarryAt(x, y, c, 4 * blk)
           look == Gates!BlockCarries(x, y, blk, into)
<1>1. ASSUME NEW j \in Nat PROVE C(j + 1) = (G(j) \/ (P(j) /\ C(j)))
  <2>1. 4 * blk + j \in Nat /\ 4 * blk + (j + 1) = (4 * blk + j) + 1
    OBVIOUS
  <2> QED BY <2>1, CarryStep
<1>2. C(0) = into
  <2>1. 4 * blk + 0 = 4 * blk
    OBVIOUS
  <2> QED BY <2>1
<1>3. look[0] = into
  BY DEF Gates!BlockCarries, Gates!LookAhead
<1>4. look[1] = (G(0) \/ (P(0) /\ into))
  BY DEF Gates!BlockCarries, Gates!LookAhead
<1>5. look[2] = (G(1) \/ (P(1) /\ G(0)) \/ (P(1) /\ P(0) /\ into))
  BY DEF Gates!BlockCarries, Gates!LookAhead
<1> DEFINE third == \/ G(2) \/ (P(2) /\ G(1)) \/ (P(2) /\ P(1) /\ G(0))
                    \/ (P(2) /\ P(1) /\ P(0) /\ into)
<1>6. look[3] = third
  BY DEF Gates!BlockCarries, Gates!LookAhead
<1>7. Gates!BlockOut(x, y, blk, into) = (G(3) \/ (P(3) /\ look[3]))
  BY DEF Gates!BlockOut
<1>8. C(4) = CarryAt(x, y, c, 4 * (blk + 1))
  <2>1. 4 * blk + 4 = 4 * (blk + 1)
    OBVIOUS
  <2> QED BY <2>1
<1>9. /\ C(1) = (G(0) \/ (P(0) /\ C(0))) /\ C(2) = (G(1) \/ (P(1) /\ C(1)))
      /\ C(3) = (G(2) \/ (P(2) /\ C(2))) /\ C(4) = (G(3) \/ (P(3) /\ C(3)))
  <2>1. C(0 + 1) = (G(0) \/ (P(0) /\ C(0))) /\ C(1 + 1) = (G(1) \/ (P(1) /\ C(1)))
    BY <1>1
  <2>2. C(2 + 1) = (G(2) \/ (P(2) /\ C(2))) /\ C(3 + 1) = (G(3) \/ (P(3) /\ C(3)))
    BY <1>1
  <2>3. 0 + 1 = 1 /\ 1 + 1 = 2 /\ 2 + 1 = 3 /\ 3 + 1 = 4
    OBVIOUS
  <2> HIDE DEF G, P, C
  <2> QED BY <2>1, <2>2, <2>3
<1> HIDE DEF G, P, C, into, look, third
<1>10. look[0] = C(0) /\ look[1] = C(1)
  BY <1>2, <1>3, <1>4, <1>9
<1>11. look[2] = C(2)
  <2>1. C(1) <=> (G(0) \/ (P(0) /\ into))
    BY <1>2, <1>9
  <2>2. (G(1) \/ (P(1) /\ C(1))) = (G(1) \/ (P(1) /\ G(0)) \/ (P(1) /\ P(0) /\ into))
    BY <2>1
  <2> QED BY <1>5, <1>9, <2>2
<1>12. look[3] = C(3)
  <2>1. C(1) <=> (G(0) \/ (P(0) /\ into))
    BY <1>2, <1>9
  <2>2. C(2) <=> (G(1) \/ (P(1) /\ C(1)))
    BY <1>9
  <2>3. third = (G(2) \/ (P(2) /\ C(2)))
    BY <2>1, <2>2 DEF third
  <2> QED BY <1>6, <1>9, <2>3
<1>13. Gates!BlockOut(x, y, blk, into) = C(4)
  BY <1>7, <1>9, <1>12
<1>14. \A j \in 0..3 : look[j] = C(j)
  BY <1>10, <1>11, <1>12
<1> QED BY <1>8, <1>13, <1>14 DEF C, look, into

LEMMA WidthFacts ==
  /\ WordBits \in Nat /\ WordBits > 0 /\ WordSize \in Nat /\ WordSize > 4
  /\ WordSize = Pow2[WordBits]
  BY WidthAssumption, WordAssumption

\* Only the adder is made of blocks
LEMMA WholeBlocks == Gates!Blocks \in Nat /\ 4 * Gates!Blocks = WordBits
  BY WidthFacts, BlockAssumption DEF Gates!Blocks

\* The chain of the blocks carries what the addition does
LEMMA Chain ==
  ASSUME NEW x \in Nat, NEW y \in Nat, NEW c \in BOOLEAN, NEW blk \in 0..Gates!Blocks
  PROVE  Gates!CarryInto(x, y, c)[blk] = CarryAt(x, y, c, 4 * blk)
<1> DEFINE D == 0..Gates!Blocks
           f == Gates!CarryInto(x, y, c)
           h == [i \in D |-> CarryAt(x, y, c, 4 * i)]
           Describes(g) == g = [i \in D |-> IF i = 0 THEN c
                                            ELSE Gates!BlockOut(x, y, i - 1, g[i - 1])]
<1>1. Gates!Blocks \in Nat
  BY WholeBlocks
<1>2. Describes(h)
  <2>1. ASSUME NEW i \in D, i # 0 PROVE h[i] = Gates!BlockOut(x, y, i - 1, h[i - 1])
    <3>1. i - 1 \in Nat /\ i - 1 \in D /\ (i - 1) + 1 = i
      BY <1>1, <2>1
    <3>2. Gates!BlockOut(x, y, i - 1, CarryAt(x, y, c, 4 * (i - 1))) = CarryAt(x, y, c, 4 * i)
      BY <3>1, BlockStep
    <3> QED BY <3>1, <3>2
  <2>2. h[0] = c
    <3>1. 0 \in D /\ 4 * 0 = 0
      BY <1>1
    <3> QED BY <3>1, CarryIn
  <2>3. \A i \in D : h[i] = IF i = 0 THEN c ELSE Gates!BlockOut(x, y, i - 1, h[i - 1])
    BY <2>1, <2>2
  <2> QED BY <2>3
<1>3. f = CHOOSE g : Describes(g)
  BY DEF Gates!CarryInto
<1>4. Describes(f)
  <2> HIDE DEF Describes, f, h
  <2> QED BY <1>2, <1>3
<1> DEFINE S == {i \in Nat : i \in D => f[i] = h[i]}
<1>5. 0 \in S
  <2>1. 0 \in D
    BY <1>1
  <2>2. f[0] = c /\ h[0] = c
    <3> HIDE DEF f, h
    <3> QED BY <2>1, <1>2, <1>4
  <2> QED BY <2>2
<1>6. ASSUME NEW i \in Nat, i \in S PROVE i + 1 \in S
  <2> SUFFICES ASSUME i + 1 \in D PROVE f[i + 1] = h[i + 1]
    OBVIOUS
  <2>1. i \in D /\ i + 1 # 0 /\ (i + 1) - 1 = i
    BY <1>1
  <2>2. f[i] = h[i]
    BY <1>6, <2>1
  <2> HIDE DEF f, h, D
  <2>3. /\ f[i + 1] = Gates!BlockOut(x, y, i, f[i])
        /\ h[i + 1] = Gates!BlockOut(x, y, i, h[i])
    BY <1>2, <1>4, <2>1
  <2> QED BY <2>2, <2>3
<1>7. Nat \subseteq S
  <2> HIDE DEF S
  <2> QED BY <1>5, <1>6, Induct
<1>8. blk \in Nat /\ blk \in D
  BY <1>1
<1> QED BY <1>7, <1>8

\* The carry that the gates bring into a bit is the carry of the addition
LEMMA CarryBitIs ==
  ASSUME NEW x \in Nat, NEW y \in Nat, NEW c \in BOOLEAN, NEW k \in Bits
  PROVE  Gates!CarryBit(x, y, c, k) = CarryAt(x, y, c, k)
<1> DEFINE blk == k \div 4  j == k % 4
<1>1. k \in Nat /\ k < WordBits /\ Gates!Blocks \in Nat /\ 4 * Gates!Blocks = WordBits
  BY WidthFacts, WholeBlocks DEF Bits
<1>2. blk \in 0..Gates!Blocks /\ blk \in Nat /\ j \in 0..3 /\ 4 * blk + j = k
  BY <1>1
<1> HIDE DEF blk, j
<1>3. Gates!CarryInto(x, y, c)[blk] = CarryAt(x, y, c, 4 * blk)
  BY <1>2, Chain
<1>4. Gates!BlockCarries(x, y, blk, CarryAt(x, y, c, 4 * blk))[j] = CarryAt(x, y, c, k)
  BY <1>2, BlockStep
<1>5. Gates!CarryBit(x, y, c, k) = Gates!BlockCarries(x, y, blk, Gates!CarryInto(x, y, c)[blk])[j]
  BY DEF Gates!CarryBit, blk, j
<1> QED BY <1>3, <1>4, <1>5

\* The low bits of a sum are those of the sum of the low bits, less the carry
LEMMA LowSum ==
  ASSUME NEW x \in Nat, NEW y \in Nat, NEW c \in BOOLEAN, NEW k \in Nat
  PROVE  Low(x + y + B2W(c), k)
           = Low(x, k) + Low(y, k) + B2W(c) - (IF CarryAt(x, y, c, k) THEN Pow2[k] ELSE 0)
<1> DEFINE p == Pow2[k]  u == Low(x, k)  v == Low(y, k)  b == B2W(c)
           m == x \div p  n == y \div p
<1>1. p \in Nat /\ p > 0
  BY Pow2Facts
<1>2. u \in Nat /\ v \in Nat /\ u < p /\ v < p
  BY LowType
<1>3. b \in 0..1
  BY DEF B2W
<1>4. m \in Nat /\ n \in Nat /\ x = m * p + u /\ y = n * p + v
  BY <1>1, Division DEF Low
<1>5. CarryAt(x, y, c, k) = (u + v + b >= p)
  BY DEF CarryAt
<1> HIDE DEF p, u, v, b, m, n
<1> DEFINE e == IF u + v + b >= p THEN 1 ELSE 0
           r == u + v + b - (IF u + v + b >= p THEN p ELSE 0)
<1>6. r \in Nat /\ r < p /\ e \in 0..1 /\ e * p + r = u + v + b
  BY <1>1, <1>2, <1>3
<1> HIDE DEF e, r
<1>7. x + y + b = (m + n + e) * p + r
  <2>1. \A i, j, l \in Nat : (i + j + l) * p = i * p + j * p + l * p
    BY <1>1
  <2>2. (m + n + e) * p = m * p + n * p + e * p
    BY <2>1, <1>4, <1>6
  <2> DEFINE mp == m * p  np == n * p  ep == e * p
  <2>3. mp \in Nat /\ np \in Nat /\ ep \in Nat
    BY <1>1, <1>4, <1>6
  <2>4. x = mp + u /\ y = np + v /\ ep + r = u + v + b /\ (m + n + e) * p = mp + np + ep
    BY <1>4, <1>6, <2>2
  <2> HIDE DEF mp, np, ep
  <2> QED BY <2>3, <2>4, <1>2, <1>3, <1>6
<1>8. (x + y + b) % p = r
  <2>1. x + y + b \in Int /\ m + n + e \in Int
    BY <1>3, <1>4, <1>6
  <2> QED BY <2>1, <1>1, <1>6, <1>7, DivisionUnique
<1>9. Low(x + y + b, k) = r
  BY <1>8 DEF Low, p
<1> QED BY <1>5, <1>9 DEF r, u, v, b, p

\* The sum, bit by bit
LEMMA SumBits ==
  ASSUME NEW x \in Nat, NEW y \in Nat, NEW c \in BOOLEAN, NEW k \in Bits
  PROVE  Gates!SumBit(x, y, c, k) = On(x + y + B2W(c), k)
<1> DEFINE p == Pow2[k]  u == Low(x, k)  v == Low(y, k)  b == B2W(c)
           into == CarryAt(x, y, c, k)  out == CarryAt(x, y, c, k + 1)
           total == x + y + b
<1>1. k \in Nat /\ p \in Nat /\ p > 0 /\ Pow2[k + 1] = 2 * p
  BY WidthFacts, Pow2Facts DEF Bits
<1>2. u \in Nat /\ v \in Nat /\ u < p /\ v < p /\ b \in 0..1 /\ total \in Nat
  <2>1. b \in 0..1
    BY DEF B2W
  <2>2. u \in Nat /\ v \in Nat /\ u < p /\ v < p
    BY <1>1, LowType
  <2> HIDE DEF b
  <2> QED BY <2>1, <2>2
<1>3. Gates!CarryBit(x, y, c, k) = into
  BY CarryBitIs
<1>4. Gates!SumBit(x, y, c, k) = Gates!BitSum(x, y, k, into)
  BY <1>3 DEF Gates!SumBit
<1>5. Gates!BitSum(x, y, k, into)
        = LET half == (On(x, k) \/ On(y, k)) /\ ~(On(x, k) /\ On(y, k))
          IN  (into \/ half) /\ ~(into /\ half)
  BY SameBinary DEF Gates!BitSum, Gates!G, Gates!P, Gates!On, On
<1>6. /\ Low(x, k + 1) = u + (IF On(x, k) THEN p ELSE 0)
      /\ Low(y, k + 1) = v + (IF On(y, k) THEN p ELSE 0)
  BY <1>1, LowStep
<1>7. into = (u + v + b >= p)
  BY DEF CarryAt
<1>8. out = (Low(x, k + 1) + Low(y, k + 1) + b >= 2 * p)
  BY <1>1 DEF CarryAt
<1>9. Low(total, k + 1) = Low(x, k + 1) + Low(y, k + 1) + b - (IF out THEN 2 * p ELSE 0)
  <2>1. k + 1 \in Nat
    BY <1>1
  <2>2. Low(x + y + B2W(c), k + 1)
          = Low(x, k + 1) + Low(y, k + 1) + B2W(c)
              - (IF CarryAt(x, y, c, k + 1) THEN Pow2[k + 1] ELSE 0)
    BY <2>1, LowSum
  <2> QED BY <2>2, <1>1
<1>10. On(total, k) <=> Low(total, k + 1) >= p
  BY <1>1, <1>2, OnLow
<1>11. On(x, k) \in BOOLEAN /\ On(y, k) \in BOOLEAN /\ On(total, k) \in BOOLEAN
  BY DEF On
<1> HIDE DEF p, u, v, b, into, out, total
<1>12. \A s, t \in BOOLEAN :
         LET X == u + (IF s THEN p ELSE 0)
             Y == v + (IF t THEN p ELSE 0)
             half == (s \/ t) /\ ~(s /\ t)
             carry == u + v + b >= p
         IN  (X + Y + b - (IF X + Y + b >= 2 * p THEN 2 * p ELSE 0) >= p)
               = ((carry \/ half) /\ ~(carry /\ half))
  BY <1>1, <1>2, SMT
<1>13. On(total, k) = LET half == (On(x, k) \/ On(y, k)) /\ ~(On(x, k) /\ On(y, k))
                      IN  (into \/ half) /\ ~(into /\ half)
  BY <1>6, <1>7, <1>8, <1>9, <1>10, <1>11, <1>12
<1> QED BY <1>4, <1>5, <1>13 DEF total, b

\* The carry out of the adder
LEMMA CarryOut ==
  ASSUME NEW x \in Word, NEW y \in Word, NEW c \in BOOLEAN
  PROVE  /\ CarryAt(x, y, c, WordBits) = (x + y + B2W(c) >= WordSize)
         /\ Gates!Carry(x, y, c) = CarryAt(x, y, c, WordBits)
<1>1. x \in Nat /\ y \in Nat /\ Low(x, WordBits) = x /\ Low(y, WordBits) = y
  BY LowWord
<1>2. CarryAt(x, y, c, WordBits) = (x + y + B2W(c) >= WordSize)
  BY <1>1, WidthFacts DEF CarryAt
<1>3. Gates!Blocks \in 0..Gates!Blocks /\ 4 * Gates!Blocks = WordBits
  BY WholeBlocks
<1>4. Gates!Carry(x, y, c) = CarryAt(x, y, c, WordBits)
  BY <1>1, <1>3, Chain DEF Gates!Carry
<1> QED BY <1>2, <1>4

\* The sign bit has half the weight of the word
LEMMA HalfFacts ==
  /\ WordBits - 1 \in Bits /\ WordBits - 1 \in Nat
  /\ Pow2[WordBits - 1] \in Nat /\ Pow2[WordBits - 1] > 0
  /\ WordSize = 2 * Pow2[WordBits - 1]
  /\ WordSize \div 2 = Pow2[WordBits - 1]
<1>1. WordBits - 1 \in Nat /\ (WordBits - 1) + 1 = WordBits /\ WordBits - 1 \in Bits
  BY WidthFacts DEF Bits
<1>2. WordSize = 2 * Pow2[WordBits - 1] /\ Pow2[WordBits - 1] \in Nat /\ Pow2[WordBits - 1] > 0
  BY <1>1, WidthFacts, Pow2Facts
<1>3. WordSize \div 2 = Pow2[WordBits - 1]
  BY <1>2
<1> QED BY <1>1, <1>2, <1>3

\* The carries into and out of the sign bit differ when the sum of the two signed
\* operands is not a signed word
LEMMA SignedOverflow ==
  ASSUME NEW x \in Word, NEW y \in Word, NEW c \in BOOLEAN
  PROVE  Gates!VFlag(x, y, c) =
           (Signed(x) + Signed(y) + B2W(c) \notin -(WordSize \div 2)..(WordSize \div 2) - 1)
<1> DEFINE h == Pow2[WordBits - 1]  u == Low(x, WordBits - 1)  v == Low(y, WordBits - 1)
           b == B2W(c)
<1>1. h \in Nat /\ h > 0 /\ WordSize = 2 * h /\ WordSize \div 2 = h
  BY HalfFacts
<1>2. x \in Nat /\ y \in Nat /\ x < WordSize /\ y < WordSize
  BY WidthFacts DEF Word
<1>3. u \in Nat /\ v \in Nat /\ u < h /\ v < h
  BY <1>2, HalfFacts, LowType
<1>4. /\ x = u + (IF On(x, WordBits - 1) THEN h ELSE 0)
      /\ y = v + (IF On(y, WordBits - 1) THEN h ELSE 0)
  <2>1. WordBits - 1 \in Nat /\ (WordBits - 1) + 1 = WordBits
    BY WidthFacts
  <2> QED BY <2>1, <1>2, LowStep, LowWord
<1>5. b \in 0..1
  BY DEF B2W
<1>6. Gates!VFlag(x, y, c) = ((u + v + b >= h) # (x + y + b >= 2 * h))
  <2>1. Gates!CarryBit(x, y, c, WordBits - 1) = (u + v + b >= h)
    BY <1>2, HalfFacts, CarryBitIs DEF CarryAt
  <2>2. Gates!Carry(x, y, c) = (x + y + b >= 2 * h)
    BY <1>1, CarryOut
  <2> QED BY <2>1, <2>2 DEF Gates!VFlag
<1> HIDE DEF h, u, v, b
<1>7. /\ Signed(x) = IF x < h THEN x ELSE x - 2 * h
      /\ Signed(y) = IF y < h THEN y ELSE y - 2 * h
  BY <1>1, <1>2 DEF Signed
<1>8. \A s, t \in {x - 2 * h, x} \cup {y - 2 * h, y} :
        (s + t + b \notin -h..h - 1) = (s + t + b < -h \/ s + t + b >= h)
  BY <1>1, <1>2, <1>5
<1>9. ((u + v + b >= h) # (x + y + b >= 2 * h))
        = (Signed(x) + Signed(y) + b < -h \/ Signed(x) + Signed(y) + b >= h)
  <2>1. CASE On(x, WordBits - 1)
    <3>1. CASE On(y, WordBits - 1)
      BY <2>1, <3>1, <1>1, <1>2, <1>3, <1>4, <1>5, <1>7
    <3>2. CASE ~On(y, WordBits - 1)
      BY <2>1, <3>2, <1>1, <1>2, <1>3, <1>4, <1>5, <1>7
    <3> QED BY <3>1, <3>2
  <2>2. CASE ~On(x, WordBits - 1)
    <3>1. CASE On(y, WordBits - 1)
      BY <2>2, <3>1, <1>1, <1>2, <1>3, <1>4, <1>5, <1>7
    <3>2. CASE ~On(y, WordBits - 1)
      BY <2>2, <3>2, <1>1, <1>2, <1>3, <1>4, <1>5, <1>7
    <3> QED BY <3>1, <3>2
  <2> QED BY <2>1, <2>2
<1>10. Signed(x) \in {x - 2 * h, x} /\ Signed(y) \in {y - 2 * h, y}
  BY <1>7
<1> QED BY <1>1, <1>6, <1>8, <1>9, <1>10 DEF b

-----------------------------------------------------------------------------
(* The ALU beside the simulator *)

\* What is not a word wraps around once
LEMMA WrapsOnce ==
  ASSUME NEW z \in Int
  PROVE  /\ 0 <= z /\ z < WordSize => z % WordSize = z
         /\ WordSize <= z /\ z < 2 * WordSize => z % WordSize = z - WordSize
         /\ -WordSize <= z /\ z < 0 => z % WordSize = z + WordSize
<1> DEFINE w == WordSize
<1>1. w \in Nat /\ w > 0
  BY WidthFacts
<1> HIDE DEF w
<1>2. z = 0 * w + z /\ z = 1 * w + (z - w) /\ z = (-1) * w + (z + w)
  BY <1>1
<1>3. 0 <= z /\ z < w => z % w = z
  BY <1>1, <1>2, DivisionUnique
<1>4. w <= z /\ z < 2 * w => z % w = z - w
  <2> SUFFICES ASSUME w <= z, z < 2 * w PROVE z % w = z - w
    OBVIOUS
  <2>1. z - w \in Nat /\ z - w < w
    BY <1>1
  <2> QED BY <2>1, <1>1, <1>2, DivisionUnique
<1>5. -w <= z /\ z < 0 => z % w = z + w
  <2> SUFFICES ASSUME -w <= z, z < 0 PROVE z % w = z + w
    OBVIOUS
  <2>1. z + w \in Nat /\ z + w < w /\ -1 \in Int
    BY <1>1
  <2> QED BY <2>1, <1>1, <1>2, DivisionUnique
<1> QED BY <1>3, <1>4, <1>5 DEF w

\* The rows of the control table that select the function of the ALU
LEMMA FunctionRows ==
  /\ AluFn([op |-> "ADD"]) = "ADD_OP" /\ AluFn([op |-> "SUB"]) = "SUB_OP"
  /\ AluFn([op |-> "AND"]) = "AND_OP" /\ AluFn([op |-> "OR"]) = "OR_OP"
  /\ AluFn([op |-> "XOR"]) = "XOR_OP" /\ AluFn([op |-> "SLL"]) = "SHL_OP"
  /\ AluFn([op |-> "SRL"]) = "LSR_OP" /\ AluFn([op |-> "SRA"]) = "ASR_OP"
  /\ AluFn([op |-> "SLT"]) = "SLT_OP" /\ AluFn([op |-> "SLTU"]) = "SLTU_OP"
  /\ AluFn([op |-> "BEQ"]) = "SUB_OP" /\ AluFn([op |-> "BNE"]) = "SUB_OP"
  /\ AluFn([op |-> "BLT"]) = "SUB_OP" /\ AluFn([op |-> "BGE"]) = "SUB_OP"
  /\ AluFn([op |-> "BLTU"]) = "SLTU_OP" /\ AluFn([op |-> "BGEU"]) = "BGEU_OP"
BY DEF AluFn

\* The difference a - b, which the ALU adds up as a + ~b + 1
LEMMA Difference ==
  ASSUME NEW a \in Word, NEW b \in Word, NEW fn \in {"SUB_OP", "SLT_OP"}
  PROVE  /\ Unit!Sum(fn, a, b) = (a - b) % WordSize
         /\ Unit!Sum(fn, a, b) = IF a >= b THEN a - b ELSE a - b + WordSize
<1>1. a \in Nat /\ b \in Nat /\ a < WordSize /\ b < WordSize /\ WordSize \in Nat
  BY WidthFacts DEF Word
<1>2. Unit!Sum(fn, a, b) = (a + (WordSize - 1 - b) + 1) % WordSize
  BY DEF Unit!Sum, Unit!AddendB, Unit!Inv, Unit!Subtracts, Unit!Bit
<1> DEFINE d == a - b  z == a + (WordSize - 1 - b) + 1
<1>3. d \in Int /\ z \in Int /\ z = d + WordSize
  BY <1>1
<1>4. CASE a >= b
  <2>1. d % WordSize = d /\ z % WordSize = d
    <3>1. 0 <= d /\ d < WordSize /\ WordSize <= z /\ z < 2 * WordSize
      BY <1>1, <1>4
    <3> HIDE DEF d, z
    <3>2. d % WordSize = d /\ z % WordSize = z - WordSize
      BY <3>1, <1>3, WrapsOnce
    <3> QED BY <3>2, <1>1, <1>3
  <2> QED BY <2>1, <1>2, <1>4
<1>5. CASE ~(a >= b)
  <2>1. d % WordSize = d + WordSize /\ z % WordSize = d + WordSize
    <3>1. -WordSize <= d /\ d < 0 /\ 0 <= z /\ z < WordSize
      BY <1>1, <1>5
    <3> HIDE DEF d, z
    <3>2. d % WordSize = d + WordSize /\ z % WordSize = z
      BY <3>1, <1>3, WrapsOnce
    <3> QED BY <3>2, <1>3
  <2> QED BY <2>1, <1>2, <1>5
<1> QED BY <1>4, <1>5

\* The negative flag of a difference tells which of two signed words is less
LEMMA NegativeIsLess ==
  ASSUME NEW a \in Word, NEW b \in Word, NEW fn \in {"SUB_OP", "SLT_OP"}
  PROVE  Unit!N(fn, a, b) = (Signed(a) < Signed(b))
<1> DEFINE h == Pow2[WordBits - 1]
           s == Unit!Sum(fn, a, b)
<1>1. h \in Nat /\ h > 0 /\ WordSize = 2 * h
  BY HalfFacts
<1>2. a \in Nat /\ b \in Nat /\ a < WordSize /\ b < WordSize
  BY WidthFacts DEF Word
<1>3. s = IF a >= b THEN a - b ELSE a - b + WordSize
  BY Difference
<1>4. Unit!AddendB(fn, b) = WordSize - 1 - b
  BY DEF Unit!AddendB, Unit!Inv, Unit!Subtracts
<1>5. Unit!N(fn, a, b) = IF Unit!Overflow(fn, a, b) THEN Unit!Sign(a) = 1 ELSE Unit!Sign(s) = 1
  BY DEF Unit!N
<1>6. Unit!Overflow(fn, a, b) = (Unit!Sign(a) = Unit!Sign(WordSize - 1 - b) /\ Unit!Sign(a) # Unit!Sign(s))
  BY <1>4 DEF Unit!Overflow
<1> HIDE DEF h, s
<1>7. /\ Unit!Sign(a) = IF a >= h THEN 1 ELSE 0
      /\ Unit!Sign(s) = IF s >= h THEN 1 ELSE 0
      /\ Unit!Sign(WordSize - 1 - b) = IF b < h THEN 1 ELSE 0
  BY <1>1, <1>2, <1>3 DEF Unit!Sign
<1>8. /\ Signed(a) = IF a < h THEN a ELSE a - 2 * h
      /\ Signed(b) = IF b < h THEN b ELSE b - 2 * h
  BY <1>1, <1>2 DEF Signed
<1>9. Unit!Overflow(fn, a, b) = ((a >= h) = (b < h) /\ (a >= h) # (s >= h))
  <2>1. (Unit!Sign(a) = Unit!Sign(WordSize - 1 - b)) = ((a >= h) = (b < h))
    BY <1>7
  <2>2. (Unit!Sign(a) = Unit!Sign(s)) = ((a >= h) = (s >= h))
    BY <1>7
  <2> QED BY <1>6, <2>1, <2>2
<1>10. Unit!N(fn, a, b) = IF (a >= h) = (b < h) /\ (a >= h) # (s >= h) THEN a >= h ELSE s >= h
  <2>1. (Unit!Sign(a) = 1) = (a >= h) /\ (Unit!Sign(s) = 1) = (s >= h)
    BY <1>7
  <2> QED BY <1>5, <1>9, <2>1
<1>11. (IF (a >= h) = (b < h) /\ (a >= h) # (s >= h) THEN a >= h ELSE s >= h)
         = (Signed(a) < Signed(b))
  <2>1. CASE a >= b
    BY <1>1, <1>2, <1>3, <1>8, <2>1
  <2>2. CASE ~(a >= b)
    BY <1>1, <1>2, <1>3, <1>8, <2>2
  <2> QED BY <2>1, <2>2
<1> QED BY <1>10, <1>11

\* Bits from k on do not show below them
LEMMA AddAbove ==
  ASSUME NEW x \in Nat, NEW k \in Nat, NEW j \in Nat
  PROVE  j * Pow2[k + 1] \in Nat /\ On(x + j * Pow2[k + 1], k) = On(x, k)
<1> DEFINE p == Pow2[k + 1]  t == j * p  q == x \div p  r == x % p
<1>1. p \in Nat /\ p > 0
  BY Pow2Facts
<1>2. t \in Nat
  <2> HIDE DEF p
  <2> QED BY <1>1
<1>3. q \in Nat /\ r \in Nat /\ r < p /\ x = q * p + r
  BY <1>1, Division
<1> HIDE DEF p, q, r
<1>4. x + t = (q + j) * p + r
  <2>1. \A u, v \in Nat : (u + v) * p = u * p + v * p
    BY <1>1
  <2>2. (q + j) * p = q * p + t
    BY <2>1, <1>3
  <2> DEFINE qp == q * p
  <2>3. qp \in Nat
    BY <1>1, <1>3
  <2> HIDE DEF qp, t
  <2>4. x + t = (qp + t) + r
    BY <2>3, <1>2, <1>3 DEF qp
  <2> QED BY <2>2, <2>4 DEF qp
<1>5. (x + t) % p = r
  <2>1. x + t \in Int /\ q + j \in Int
    BY <1>2, <1>3
  <2> HIDE DEF t
  <2> QED BY <2>1, <1>1, <1>3, <1>4, DivisionUnique
<1>6. Low(x + t, k + 1) = Low(x, k + 1)
  BY <1>5 DEF Low, p, r
<1>7. x + t \in Nat
  BY <1>2
<1> HIDE DEF t
<1>8. On(x + t, k) = On(x, k)
  BY <1>6, <1>7, OnLow DEF On
<1> QED BY <1>2, <1>8 DEF t, p

\* Of a bit and a lower one the weights divide
LEMMA Weights ==
  ASSUME NEW i \in Nat, NEW k \in Nat, k <= i
  PROVE  /\ i - k \in Nat /\ Pow2[i - k] \in Nat /\ Pow2[i - k] >= 1
         /\ Pow2[i] = Pow2[i - k] * Pow2[k] /\ Pow2[k] <= Pow2[i]
<1>1. i - k \in Nat /\ (i - k) + k = i
  OBVIOUS
<1>2. Pow2[i - k] \in Nat /\ Pow2[i - k] >= 1 /\ Pow2[k] \in Nat
  BY <1>1, Pow2Facts
<1>3. Pow2[i] = Pow2[i - k] * Pow2[k]
  BY <1>1, Pow2Sum
<1>4. \A u, v \in Nat : u >= 1 => v <= u * v
  OBVIOUS
<1> QED BY <1>1, <1>2, <1>3, <1>4

\* A word less than the weight of bit m below the greatest has all bits from m on
LEMMA OnesAbove ==
  ASSUME NEW m \in Nat, NEW k \in Bits, m <= k, NEW v \in Nat,
         WordSize - Pow2[m] <= v, v < WordSize
  PROVE  On(v, k)
<1> DEFINE p == Pow2[k]  e == Pow2[WordBits - (k + 1)]
<1>1. k \in Nat /\ k + 1 \in Nat /\ k + 1 <= WordBits /\ WordBits \in Nat
  BY WidthFacts DEF Bits
<1>2. p \in Nat /\ p > 0 /\ Pow2[k + 1] = 2 * p
  BY <1>1, Pow2Facts
<1>3. Pow2[m] <= p /\ Pow2[m] \in Nat
  BY <1>1, Weights, Pow2Facts
<1>4. e \in Nat /\ e >= 1 /\ WordSize = e * (2 * p)
  BY <1>1, <1>2, Weights, WidthFacts
<1> HIDE DEF p, e
<1> DEFINE r == 2 * p - (WordSize - v)
<1>5. r \in Nat /\ r < 2 * p /\ r >= p
  BY <1>2, <1>3, <1>4, WidthFacts
<1>6. v = (e - 1) * (2 * p) + r
  <2>1. (e - 1) * (2 * p) = e * (2 * p) - 2 * p
    <3>1. \A u, w \in Int : (u - 1) * w = u * w - w
      OBVIOUS
    <3> QED BY <3>1, <1>2, <1>4
  <2> QED BY <2>1, <1>2, <1>4, WidthFacts
<1> HIDE DEF r
<1>7. v % (2 * p) = r
  <2>1. v \in Int /\ e - 1 \in Int /\ 2 * p \in Nat /\ 2 * p > 0
    BY <1>2, <1>4
  <2> QED BY <2>1, <1>5, <1>6, DivisionUnique
<1> QED BY <1>1, <1>2, <1>5, <1>7, OnLow DEF Low, p

\* A right shift of a negative word by s places, with the mask of shifter.v or-ed in:
\* the sum of the shifted word and the sign that sim.c fills in
LEMMA ArithmeticShift ==
  ASSUME NEW a \in Word, 2 * a >= WordSize, NEW s \in 0..(WordBits - 1)
  PROVE  BitOr(((WordSize - 1) * Pow2[WordBits - 1 - s]) % WordSize, a \div Pow2[s])
           = (a \div Pow2[s]) + (WordSize - (WordSize \div Pow2[s]))
<1> DEFINE m == WordBits - 1 - s  q == Pow2[m]  d == Pow2[s]
           w == WordSize
           r == a \div d
           mask == ((w - 1) * q) % w
<1>1. /\ s \in Nat /\ m \in Nat /\ s + m = WordBits - 1 /\ s + (m + 1) = WordBits
      /\ WordBits \in Nat /\ w \in Nat /\ w > 4
  BY WidthFacts
<1>2. /\ q \in Nat /\ q > 0 /\ d \in Nat /\ d > 0 /\ Pow2[m + 1] = 2 * q
      /\ w = d * (2 * q) /\ w = 2 * (d * q)
  <2>1. q \in Nat /\ q > 0 /\ d \in Nat /\ d > 0 /\ Pow2[m + 1] = 2 * q
    BY <1>1, Pow2Facts
  <2>2. w = d * (2 * q)
    <3>1. m + 1 \in Nat
      BY <1>1
    <3> QED BY <3>1, <1>1, <2>1, Pow2Sum, WidthFacts
  <2>3. w = 2 * (d * q)
    <3>1. \A u, v \in Nat : u * (2 * v) = 2 * (u * v)
      OBVIOUS
    <3> HIDE DEF w, d, q
    <3> QED BY <3>1, <2>1, <2>2
  <2> QED BY <2>1, <2>2, <2>3
<1>3. q <= w /\ 2 * q <= w
  <2>1. \A u, v \in Nat : u > 0 => v <= u * v
    OBVIOUS
  <2>2. 2 * q \in Nat
    BY <1>2
  <2> HIDE DEF w, d, q
  <2>3. 2 * q <= d * (2 * q)
    BY <2>1, <2>2, <1>2
  <2> QED BY <2>3, <1>2
<1>4. mask = w - q
  <2>1. (w - 1) * q = (q - 1) * w + (w - q)
    <3>1. \A u, v \in Int : (u - 1) * v = (v - 1) * u + (u - v)
      OBVIOUS
    <3> QED BY <3>1, <1>1, <1>2
  <2>2. /\ w - q \in Nat /\ w - q < w /\ q - 1 \in Int /\ (w - 1) * q \in Int
        /\ w \in Nat /\ w > 0
    BY <1>1, <1>2, <1>3
  <2> DEFINE x == (w - 1) * q
  <2>3. x = (q - 1) * w + (w - q) /\ x \in Int
    BY <2>1, <2>2
  <2> HIDE DEF w, q, x
  <2>4. x % w = w - q
    BY <2>2, <2>3, DivisionUnique
  <2> QED BY <2>4 DEF x
<1>5. w \div d = 2 * q
  <2>1. w = (2 * q) * d + 0
    <3>1. \A u, v \in Nat : u * (2 * v) = (2 * v) * u + 0
      OBVIOUS
    <3> QED BY <3>1, <1>2
  <2>2. 2 * q \in Int /\ 0 \in Nat /\ 0 < d /\ w \in Int
    BY <1>1, <1>2
  <2> HIDE DEF w, q, d
  <2> QED BY <2>1, <2>2, <1>2, DivisionUnique
<1>6. r \in Nat /\ q <= r /\ r < 2 * q
  <2>1. a \in Nat /\ a < w /\ 2 * a >= w
    BY <1>1 DEF Word
  <2> DEFINE z == a % d
  <2>2. r \in Nat /\ z \in Nat /\ z < d /\ a = r * d + z
    BY <2>1, <1>2, Division
  <2> HIDE DEF w, q, d, r, z
  <2>3. r < 2 * q
    <3>1. r * d < d * (2 * q)
      BY <2>1, <2>2, <1>2
    <3>2. CASE r >= 2 * q
      <4>1. \A u, v, x \in Nat : u >= v => u * x >= x * v
        OBVIOUS
      <4>2. 2 * q \in Nat
        BY <1>2
      <4>3. r * d >= d * (2 * q)
        BY <4>1, <4>2, <3>2, <2>2, <1>2
      <4> QED BY <3>1, <4>3, <2>2, <1>2, <4>2
    <3> QED BY <3>2, <2>2, <1>2
  <2>4. q <= r
    <3>1. a >= d * q
      BY <2>1, <1>2
    <3>2. d * q < r * d + d
      BY <3>1, <2>2, <1>2
    <3>3. q * d = d * q
      BY <1>2
    <3> QED BY <3>2, <3>3, <2>2, <1>2, Products
  <2> QED BY <2>2, <2>3, <2>4
<1> DEFINE sum == (r - q) + (w - q)
<1>7. /\ sum \in Nat /\ sum \in Word /\ w - q <= sum /\ sum < w
      /\ r \in Word /\ w - q \in Word /\ r - q \in Nat /\ w - q \in Nat
  BY <1>1, <1>2, <1>3, <1>6 DEF Word
<1>8. BitOr(w - q, r) \in Word
  BY <1>7, OrAssumption
<1>9. ASSUME NEW k \in Bits PROVE On(BitOr(w - q, r), k) = On(sum, k)
  <2>1. On(BitOr(w - q, r), k) = (On(w - q, k) \/ On(r, k))
    BY <1>7, OrAssumption
  <2>2. k \in Nat /\ k < WordBits
    BY <1>1 DEF Bits
  <2>3. CASE m <= k
    <3>1. On(w - q, k)
      <4>1. w - q \in Nat /\ w - q < w /\ w - q <= w - q
        BY <1>1, <1>2, <1>7
      <4> QED BY <4>1, <2>3, <1>1, OnesAbove
    <3>2. On(sum, k)
      BY <2>3, <1>1, <1>7, OnesAbove
    <3> QED BY <3>1, <3>2, <2>1 DEF On
  <2>4. CASE k < m
    <3> DEFINE i == Pow2[m - (k + 1)]  j == Pow2[WordBits - (k + 1)]  p == Pow2[k + 1]
    <3>1. i \in Nat /\ q = i * p
      <4>1. k + 1 \in Nat /\ k + 1 <= m
        BY <2>2, <2>4, <1>1
      <4> QED BY <4>1, <1>1, Weights
    <3>2. j \in Nat /\ w = j * p
      <4>1. k + 1 \in Nat /\ k + 1 <= WordBits
        BY <2>2, <1>1
      <4> QED BY <4>1, <1>1, Weights, WidthFacts
    <3>3. p \in Nat /\ p > 0
      BY <2>2, Pow2Facts
    <3>4. j - i \in Nat /\ w - q = (j - i) * p
      <4> HIDE DEF i, j, p, q, w
      <4>1. (j - i) * p = j * p - i * p
        BY <3>1, <3>2, <3>3
      <4>2. CASE j < i
        <5>1. \A u, v \in Nat : u < v => (u - v) * p < 0
          BY <3>3
        <5>2. (j - i) * p < 0
          BY <5>1, <4>2, <3>1, <3>2
        <5> QED BY <5>2, <4>1, <3>1, <3>2, <1>3, <1>1, <1>2
      <4> QED BY <4>1, <4>2, <3>1, <3>2
    <3>5. On(r, k) = On(r - q, k)
      <4>1. (r - q) + i * p = r
        BY <3>1, <1>2, <1>6
      <4> QED BY <4>1, <3>1, <2>2, <1>7, AddAbove
    <3>6. On(sum, k) = On(r - q, k)
      BY <3>4, <2>2, <1>7, AddAbove
    <3>7. ~On(w - q, k)
      <4>1. 0 + (j - i) * p = w - q
        BY <3>4, <1>7
      <4>2. On(w - q, k) = On(0, k)
        BY <4>1, <3>4, <2>2, AddAbove
      <4>3. ~On(0, k)
        <5>1. Low(0, k + 1) = 0
          <6>1. 0 = 0 * p + 0
            BY <3>3
          <6> QED BY <6>1, <3>3, DivisionUnique DEF Low
        <5> QED BY <5>1, <2>2, OnLow, Pow2Facts
      <4> QED BY <4>2, <4>3
    <3> QED BY <2>1, <3>5, <3>6, <3>7 DEF On
  <2> QED BY <2>2, <2>3, <2>4, <1>1
<1>10. BitOr(w - q, r) = sum
  <2> HIDE DEF w, q, r, sum
  <2> QED BY <1>7, <1>8, <1>9, SameBits
<1>11. sum = r + (w - 2 * q)
  BY <1>1, <1>2, <1>6
<1> QED BY <1>4, <1>5, <1>10, <1>11

\* The shifts: the masks of shifter.v and the sign fill of sim.c included
LEMMA ShiftsMatch ==
  ASSUME NEW a \in Word, NEW b \in Word
  PROVE  /\ Unit!Res("SHL_OP", a, b) = RValue("SLL", a, b)
         /\ Unit!Res("LSR_OP", a, b) = RValue("SRL", a, b)
         /\ Unit!Res("ASR_OP", a, b) = RValue("SRA", a, b)
<1> DEFINE s == b % ShiftSize
<1>1. ShiftSize = WordBits /\ Unit!Amount(b) = s /\ s \in 0..(WordBits - 1)
  <2>1. b \in Nat /\ WordBits \in Nat /\ WordBits > 0
    BY WidthFacts DEF Word
  <2> QED BY <2>1, WidthAssumption DEF Unit!Amount
<1> HIDE DEF s
<1>2. Unit!Res("SHL_OP", a, b) = (a * Pow2[s]) % WordSize
  BY <1>1, SameBinary DEF Unit!Res, Unit!Shift
<1>3. Unit!Res("LSR_OP", a, b) = a \div Pow2[s]
  BY <1>1, SameBinary DEF Unit!Res, Unit!Shift
<1>4. Unit!Res("ASR_OP", a, b) =
        IF 2 * a >= WordSize
          THEN BitOr(((WordSize - 1) * Pow2[WordBits - 1 - s]) % WordSize, a \div Pow2[s])
          ELSE a \div Pow2[s]
  <2>1. (Unit!Sign(a) = 1) = (2 * a >= WordSize)
    BY DEF Unit!Sign
  <2> QED BY <1>1, <2>1, SameBinary DEF Unit!Res, Unit!Shift
<1>5. /\ RValue("SLL", a, b) = (a * Pow2[s]) % WordSize
      /\ RValue("SRL", a, b) = a \div Pow2[s]
      /\ RValue("SRA", a, b) = (a \div Pow2[s]) + SignFill(a, s)
  BY DEF RValue, s
<1>6. CASE 2 * a >= WordSize
  <2>1. SignFill(a, s) = WordSize - (WordSize \div Pow2[s])
    BY <1>6, WidthFacts DEF SignFill, Word
  <2> QED BY <1>1, <1>2, <1>3, <1>4, <1>5, <1>6, <2>1, ArithmeticShift
<1>7. CASE ~(2 * a >= WordSize)
  <2>1. SignFill(a, s) = 0
    BY <1>7, WidthFacts DEF SignFill, Word
  <2>2. a \div Pow2[s] \in Nat
    <3>1. a \in Nat /\ s \in Nat
      BY <1>1, WidthFacts DEF Word
    <3> QED BY <3>1, Pow2Facts, Division
  <2> QED BY <1>2, <1>3, <1>4, <1>5, <1>7, <2>1, <2>2
<1> QED BY <1>6, <1>7

\* The other functions of the ALU
LEMMA ValuesMatch ==
  ASSUME NEW a \in Word, NEW b \in Word
  PROVE  /\ Unit!Res("ADD_OP", a, b) = RValue("ADD", a, b)
         /\ Unit!Res("SUB_OP", a, b) = RValue("SUB", a, b)
         /\ Unit!Res("AND_OP", a, b) = RValue("AND", a, b)
         /\ Unit!Res("OR_OP", a, b) = RValue("OR", a, b)
         /\ Unit!Res("XOR_OP", a, b) = RValue("XOR", a, b)
         /\ Unit!Res("SLT_OP", a, b) = RValue("SLT", a, b)
         /\ Unit!Res("SLTU_OP", a, b) = RValue("SLTU", a, b)
<1>1. a \in Nat /\ b \in Nat
  BY WidthFacts DEF Word
<1>2. Unit!Res("ADD_OP", a, b) = RValue("ADD", a, b)
  <2>1. Unit!Res("ADD_OP", a, b) = (a + b + 0) % WordSize
    BY DEF Unit!Res, Unit!Sum, Unit!AddendB, Unit!Subtracts, Unit!Bit
  <2>2. a + b + 0 = a + b
    BY <1>1
  <2> QED BY <2>1, <2>2 DEF RValue
<1>3. Unit!Res("SUB_OP", a, b) = RValue("SUB", a, b)
  <2>1. Unit!Res("SUB_OP", a, b) = Unit!Sum("SUB_OP", a, b)
    BY DEF Unit!Res
  <2> QED BY <2>1, Difference DEF RValue
<1>4. /\ Unit!Res("AND_OP", a, b) = RValue("AND", a, b)
      /\ Unit!Res("OR_OP", a, b) = RValue("OR", a, b)
      /\ Unit!Res("XOR_OP", a, b) = RValue("XOR", a, b)
  BY DEF Unit!Res, Unit!Logical, RValue
<1>5. Unit!Res("SLT_OP", a, b) = RValue("SLT", a, b)
  <2>1. Unit!Res("SLT_OP", a, b) = Unit!Bit(Unit!N("SLT_OP", a, b))
    BY DEF Unit!Res
  <2> QED BY <2>1, NegativeIsLess DEF RValue, B2W, Unit!Bit
<1>6. Unit!Res("SLTU_OP", a, b) = RValue("SLTU", a, b)
  BY DEF Unit!Res, Unit!Compare, Unit!Bit, RValue, B2W
<1> QED BY <1>2, <1>3, <1>4, <1>5, <1>6

\* The ALU under the control table against execute_r
LEMMA ResultsMatch ==
  ASSUME NEW a \in Word, NEW b \in Word, NEW op \in RTypes
  PROVE  Unit!Res(AluFn([op |-> op]), a, b) = RValue(op, a, b)
<1>1. op \in {"ADD", "SUB", "AND", "OR", "XOR", "SLL", "SRL", "SRA", "SLT", "SLTU"}
  BY DEF RTypes
<1> QED BY <1>1, FunctionRows, ShiftsMatch, ValuesMatch

\* What the rows of the branches make of the two flags
LEMMA BranchRows ==
  ASSUME NEW z \in BOOLEAN, NEW n \in BOOLEAN
  PROVE  /\ BranchCond("BEQ", z, n) = z /\ BranchCond("BNE", z, n) = ~z
         /\ BranchCond("BLT", z, n) = n /\ BranchCond("BLTU", z, n) = n
         /\ BranchCond("BGE", z, n) = (~n \/ z) /\ BranchCond("BGEU", z, n) = (~n \/ z)
BY DEF BranchCond

\* The flags under the control table against execute_b
LEMMA ConditionsMatch ==
  ASSUME NEW a \in Word, NEW b \in Word, NEW op \in BTypes
  PROVE  LET fn == AluFn([op |-> op])
         IN  BranchCond(op, Unit!Z(fn, a, b), Unit!N(fn, a, b)) = BCond(op, a, b)
<1>1. a \in Nat /\ b \in Nat /\ a < WordSize /\ b < WordSize /\ WordSize \in Nat
  BY WidthFacts DEF Word
<1>2. Unit!Z("SUB_OP", a, b) = (a = b)
  <2>1. Unit!Sum("SUB_OP", a, b) = IF a >= b THEN a - b ELSE a - b + WordSize
    BY Difference
  <2>2. (Unit!Sum("SUB_OP", a, b) = 0) = (a = b)
    BY <1>1, <2>1
  <2> QED BY <2>2 DEF Unit!Z
<1>3. Unit!N("SUB_OP", a, b) = (Signed(a) < Signed(b))
  BY NegativeIsLess
<1>4. Unit!N("SLTU_OP", a, b) = (a < b)
  BY DEF Unit!N, Unit!Compare
<1>5. Unit!N("BGEU_OP", a, b) = ~(a > b)
  BY DEF Unit!N, Unit!Compare
<1>6. (Unit!Z("BGEU_OP", a, b)) = (a = b)
  <2>1. Unit!Sum("BGEU_OP", a, b) = Unit!Sum("SUB_OP", a, b)
    BY DEF Unit!Sum, Unit!AddendB, Unit!Subtracts, Unit!Bit
  <2> QED BY <1>2, <2>1 DEF Unit!Z
<1>7. Signed(a) \in Int /\ Signed(b) \in Int /\ (a = b => Signed(a) = Signed(b))
  BY <1>1 DEF Signed
<1>8. op \in {"BEQ", "BNE", "BLT", "BGE", "BLTU", "BGEU"}
  BY DEF BTypes
<1>9. /\ Unit!Z("SUB_OP", a, b) \in BOOLEAN /\ Unit!N("SUB_OP", a, b) \in BOOLEAN
      /\ Unit!Z("SLTU_OP", a, b) \in BOOLEAN /\ Unit!N("SLTU_OP", a, b) \in BOOLEAN
      /\ Unit!Z("BGEU_OP", a, b) \in BOOLEAN /\ Unit!N("BGEU_OP", a, b) \in BOOLEAN
  <2>1. Unit!Z("SLTU_OP", a, b) \in BOOLEAN
    BY DEF Unit!Z
  <2>2. Unit!Z("SUB_OP", a, b) \in BOOLEAN /\ Unit!Z("BGEU_OP", a, b) \in BOOLEAN
    BY DEF Unit!Z
  <2>3. Unit!N("SUB_OP", a, b) \in BOOLEAN
    <3>1. (Signed(a) < Signed(b)) \in BOOLEAN
      OBVIOUS
    <3> QED BY <3>1, <1>3, Zenon
  <2>4. Unit!N("SLTU_OP", a, b) \in BOOLEAN
    <3>1. (a < b) \in BOOLEAN
      OBVIOUS
    <3> QED BY <3>1, <1>4, Zenon
  <2>5. Unit!N("BGEU_OP", a, b) \in BOOLEAN
    BY <1>5, Zenon
  <2> QED BY <2>1, <2>2, <2>3, <2>4, <2>5, Zenon
<1>10. CASE op \in {"BEQ", "BNE"}
  BY <1>10, <1>2, <1>9, BranchRows, FunctionRows DEF BCond
<1>11. CASE op = "BLT"
  BY <1>11, <1>3, <1>9, BranchRows, FunctionRows DEF BCond
<1>12. CASE op = "BGE"
  <2>1. (Signed(a) >= Signed(b)) = (~(Signed(a) < Signed(b)) \/ a = b)
    BY <1>7
  <2>2. BCond("BGE", a, b) = (Signed(a) >= Signed(b))
    BY DEF BCond
  <2> QED BY <1>12, <1>2, <1>3, <1>9, <2>1, <2>2, BranchRows, FunctionRows
<1>13. CASE op = "BLTU"
  BY <1>13, <1>4, <1>9, BranchRows, FunctionRows DEF BCond
<1>14. CASE op = "BGEU"
  <2>1. (a >= b) = (~(~(a > b)) \/ a = b)
    BY <1>1
  <2>2. BCond("BGEU", a, b) = (a >= b)
    BY DEF BCond
  <2> QED BY <1>14, <1>5, <1>6, <1>9, <2>1, <2>2, BranchRows, FunctionRows
<1> QED BY <1>8, <1>10, <1>11, <1>12, <1>13, <1>14

-----------------------------------------------------------------------------
(* The properties of the machine that runs through the operands *)

OperandsOK == opr_a \in Word /\ opr_b \in Word /\ cin \in BOOLEAN

LEMMA OperandsAreWords == OperandsSpec => []OperandsOK
<1>1. OperandsInit => OperandsOK
  BY WidthFacts DEF OperandsInit, OperandsOK, Word
<1>2. OperandsOK /\ [OperandsNext]_operands => OperandsOK'
  <2> SUFFICES ASSUME OperandsOK, [OperandsNext]_operands PROVE OperandsOK'
    OBVIOUS
  <2>1. CASE OperandsNext
    <3>1. (opr_b + 1) % WordSize \in Word
      <4>1. opr_b + 1 \in Nat
        BY WidthFacts DEF OperandsOK, Word
      <4>2. (opr_b + 1) % WordSize \in Nat /\ (opr_b + 1) % WordSize < WordSize
        BY <4>1, WidthFacts, Division
      <4> QED BY <4>2, WidthFacts DEF Word
    <3> QED BY <2>1, <3>1 DEF OperandsNext, OperandsOK
  <2>2. CASE UNCHANGED operands
    BY <2>2 DEF operands, OperandsOK
  <2> QED BY <2>1, <2>2
<1> QED BY <1>1, <1>2, PTL DEF OperandsSpec

\* The look-ahead adder adds, in any number of blocks of four: every bit of the sum,
\* the carry out and the signed overflow (adder.v, carry_lookahead_gen.v)
THEOREM AdderCorrect == OperandsSpec => []AdderAdds
<1>1. OperandsOK => AdderAdds
  <2> SUFFICES ASSUME OperandsOK PROVE AdderAdds
    OBVIOUS
  <2>1. /\ opr_a \in Word /\ opr_b \in Word /\ cin \in BOOLEAN
        /\ opr_a \in Nat /\ opr_b \in Nat
    BY LowWord DEF OperandsOK
  <2> QED BY <2>1, SumBits, CarryOut, SignedOverflow DEF AdderAdds
<1> QED BY <1>1, OperandsAreWords, PTL

\* The function control.v selects for a register-register instruction is the one sim.c
\* computes, on words of any number of bits (alu.v, shifter.v, comparator.v)
THEOREM AluCorrect == OperandsSpec => []AluMatchesIss
<1>1. OperandsOK => AluMatchesIss
  BY ResultsMatch DEF OperandsOK, AluMatchesIss
<1> QED BY <1>1, OperandsAreWords, PTL

\* The flags of the ALU decide a branch as sim.c does, on words of any number of bits
THEOREM BranchesCorrect == OperandsSpec => []BranchesMatchIss
<1>1. OperandsOK => BranchesMatchIss
  BY ConditionsMatch DEF OperandsOK, BranchesMatchIss
<1> QED BY <1>1, OperandsAreWords, PTL

-----------------------------------------------------------------------------
(* The gates inside the ALU *)

\* What wraps around to a word keeps its bits
LEMMA WrappedBits ==
  ASSUME NEW x \in Nat, NEW k \in Bits
  PROVE  On(x % WordSize, k) = On(x, k)
<1> DEFINE q == x \div WordSize  r == x % WordSize  e == Pow2[WordBits - (k + 1)]
           p == Pow2[k + 1]
<1>1. q \in Nat /\ r \in Nat /\ x = q * WordSize + r
  <2>1. WordSize \in Nat /\ WordSize > 0
    BY WidthFacts
  <2> QED BY <2>1, Division
<1>2. k \in Nat /\ k + 1 \in Nat /\ k + 1 <= WordBits /\ WordBits \in Nat
  BY WidthFacts DEF Bits
<1>3. e \in Nat /\ WordSize = e * p /\ p \in Nat
  BY <1>2, Weights, WidthFacts, Pow2Facts
<1> HIDE DEF q, r, e, p
<1>4. q * WordSize = (q * e) * p /\ q * e \in Nat
  <2>1. \A u, v, w \in Nat : u * (v * w) = (u * v) * w
    OBVIOUS
  <2> QED BY <2>1, <1>1, <1>3
<1>5. x = r + (q * e) * p
  <2> DEFINE t == (q * e) * p
  <2>1. t \in Nat /\ x = t + r
    BY <1>1, <1>3, <1>4
  <2> HIDE DEF t
  <2>2. x = r + t
    BY <2>1, <1>1
  <2> QED BY <2>2 DEF t
<1>6. On(x, k) = On(r, k)
  BY <1>1, <1>2, <1>4, <1>5, AddAbove DEF p
<1> QED BY <1>6 DEF r

\* The sum and the overflow of RVAlu, which are arithmetic there, are what the gates of
\* the adder give for the operands that alu.v hands them (alu.v:43-50).
THEOREM GatesCompute ==
  ASSUME NEW fn \in AluFns, NEW a \in Word, NEW b \in Word
  PROVE  LET y == Unit!AddendB(fn, b)
             c == Unit!Subtracts(fn)
         IN  /\ \A k \in Bits : Gates!SumBit(a, y, c, k) = On(Unit!Sum(fn, a, b), k)
             /\ Gates!VFlag(a, y, c) = Unit!Overflow(fn, a, b)
<1> DEFINE y == Unit!AddendB(fn, b)
           c == Unit!Subtracts(fn)
           h == Pow2[WordBits - 1]
           t == a + y + B2W(c)
           s == Unit!Sum(fn, a, b)
<1>1. h \in Nat /\ h > 0 /\ WordSize = 2 * h /\ WordSize \div 2 = h
  BY HalfFacts
<1>2. a \in Nat /\ b \in Nat /\ a < WordSize /\ b < WordSize
  BY WidthFacts DEF Word
<1>3. y \in Word /\ y \in Nat /\ y < WordSize /\ c \in BOOLEAN
  <2>1. b \in Word /\ WordSize - 1 - b \in Word
    BY <1>2, WidthFacts DEF Word
  <2>2. y \in Word /\ c \in BOOLEAN
    BY <2>1 DEF Unit!AddendB, Unit!Inv, Unit!Subtracts
  <2> QED BY <2>2, WidthFacts DEF Word
<1>4. B2W(c) \in 0..1 /\ Unit!Bit(c) = B2W(c)
  BY DEF B2W, Unit!Bit
<1>5. s = t % WordSize
  BY <1>4 DEF Unit!Sum
<1> HIDE DEF y, c, s
<1>6. t \in Nat /\ t < 2 * WordSize
  BY <1>2, <1>3, <1>4, WidthFacts
<1>7. \A k \in Bits : Gates!SumBit(a, y, c, k) = On(s, k)
  BY <1>2, <1>3, <1>5, <1>6, SumBits, WrappedBits
<1>8. s = IF t < WordSize THEN t ELSE t - WordSize
  <2> HIDE DEF t
  <2>1. t < WordSize => t % WordSize = t
    BY <1>6, WrapsOnce
  <2>2. ~(t < WordSize) => t % WordSize = t - WordSize
    <3>1. ~(t < WordSize) => WordSize <= t
      BY <1>6, WidthFacts
    <3> QED BY <3>1, <1>6, WrapsOnce
  <2> QED BY <1>5, <2>1, <2>2
<1>9. Gates!VFlag(a, y, c) = (Signed(a) + Signed(y) + B2W(c) \notin -h..h - 1)
  BY <1>1, <1>3, SignedOverflow
<1>10. Unit!Overflow(fn, a, b) = (Unit!Sign(a) = Unit!Sign(y) /\ Unit!Sign(a) # Unit!Sign(s))
  BY DEF Unit!Overflow, y, s
<1> DEFINE d == B2W(c)
<1> HIDE DEF h
<1>11. /\ Signed(a) = IF a < h THEN a ELSE a - 2 * h
       /\ Signed(y) = IF y < h THEN y ELSE y - 2 * h
  BY <1>1, <1>2, <1>3 DEF Signed
<1>12. /\ Unit!Sign(a) = IF a >= h THEN 1 ELSE 0
       /\ Unit!Sign(y) = IF y >= h THEN 1 ELSE 0
       /\ Unit!Sign(s) = IF s >= h THEN 1 ELSE 0
  BY <1>1, <1>2, <1>3, <1>6, <1>8 DEF Unit!Sign
<1>13. Unit!Overflow(fn, a, b) = ((a >= h) = (y >= h) /\ (a >= h) # (s >= h))
  <2>1. (Unit!Sign(a) = Unit!Sign(y)) = ((a >= h) = (y >= h))
    BY <1>12
  <2>2. (Unit!Sign(a) = Unit!Sign(s)) = ((a >= h) = (s >= h))
    BY <1>12
  <2> QED BY <1>10, <2>1, <2>2
<1>14. (Signed(a) + Signed(y) + d \notin -h..h - 1)
         = ((a >= h) = (y >= h) /\ (a >= h) # (s >= h))
  <2>1. d \in 0..1 /\ t = a + y + d
    BY <1>4
  <2> HIDE DEF d, t
  <2>2. CASE t < WordSize
    BY <2>1, <2>2, <1>1, <1>2, <1>3, <1>8, <1>11
  <2>3. CASE ~(t < WordSize)
    BY <2>1, <2>3, <1>1, <1>2, <1>3, <1>8, <1>11
  <2> QED BY <2>2, <2>3
<1> QED BY <1>7, <1>9, <1>13, <1>14 DEF y, c, s, d
=============================================================================
