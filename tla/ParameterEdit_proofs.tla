------------------------- MODULE ParameterEdit_proofs -------------------------
(***************************************************************************)
(* The arithmetic of parameters, for every precision and range: what       *)
(* rounding to a float keeps, and from it that a draft and its runtime     *)
(* step stay valid whatever sequence of adjustments they have been through. *)
(***************************************************************************)
EXTENDS ParameterEdit, WellFoundedInduction, TLAPS

LEMMA LeastElement ==
    ASSUME NEW S \in SUBSET Nat, S # {}
    PROVE  \E least \in S : \A n \in S : least <= n
<1>1. PICK least \in S : \A n \in S : <<n, least>> \notin OpToRel(<, Nat)
  BY NatLessThanWellFounded, WFMin, Zenon
<1>2. \A n \in S : ~(n < least)
  BY <1>1, Zenon DEF OpToRel
<1> QED BY <1>2

(* The recursion of Power has one solution below every n, and these agree. *)
Doubles(f, n) ==
    /\ f \in [0 .. n -> Nat] /\ f[0] = 1
    /\ \A i \in 1 .. n : f[i] = 2 * f[i - 1]

LEMMA DoublesExists == \A n \in Nat : \E f : Doubles(f, n)
<1> DEFINE S == {n \in Nat : ~ \E f : Doubles(f, n)}
<1> SUFFICES ASSUME S # {} PROVE FALSE
  OBVIOUS
<1>1. PICK n \in S : \A i \in S : n <= i
  BY LeastElement
<1>2. n # 0
  <2>1. Doubles([i \in 0 .. 0 |-> 1], 0)
    BY DEF Doubles
  <2> QED BY <2>1
<1>3. PICK f : Doubles(f, n - 1)
  BY <1>1, <1>2
<1> DEFINE g == [i \in 0 .. n |-> IF i = n THEN 2 * f[n - 1] ELSE f[i]]
<1>4. n \in Nat /\ n - 1 \in Nat
  BY <1>2
<1>5. Doubles(g, n)
  BY <1>2, <1>3, <1>4 DEF Doubles
<1> QED BY <1>5, <1>4

LEMMA DoublesUnique ==
    ASSUME NEW n \in Nat, NEW f, Doubles(f, n), NEW m \in Nat, m <= n, NEW g, Doubles(g, m)
    PROVE  g[m] = f[m]
<1> DEFINE S == {i \in 0 .. m : g[i] # f[i]}
<1> SUFFICES ASSUME S # {} PROVE FALSE
  OBVIOUS
<1>1. S \in SUBSET Nat
  OBVIOUS
<1>2. PICK i \in S : \A j \in S : i <= j
  BY <1>1, LeastElement
<1>3. i # 0
  BY DEF Doubles
<1>4. i \in 1 .. m /\ i - 1 \in 0 .. m /\ i - 1 \notin S
  BY <1>2, <1>3
<1> QED BY <1>2, <1>4 DEF Doubles

LEMMA PowerRecursion == Power = [n \in Nat |-> IF n = 0 THEN 1 ELSE 2 * Power[n - 1]]
<1> DEFINE h == [n \in Nat |-> (CHOOSE f : Doubles(f, n))[n]]
<1>1. ASSUME NEW n \in Nat PROVE h[n] = IF n = 0 THEN 1 ELSE 2 * h[n - 1]
  <2> DEFINE f == CHOOSE f : Doubles(f, n)
             g == CHOOSE g : Doubles(g, n - 1)
  <2>1. Doubles(f, n)
    BY DoublesExists
  <2>2. CASE n = 0
    BY <2>1, <2>2 DEF Doubles
  <2>3. CASE n # 0
    <3>1. n - 1 \in Nat /\ h[n - 1] = g[n - 1]
      BY <2>3
    <3>2. Doubles(g, n - 1)
      BY <3>1, DoublesExists
    <3>3. g[n - 1] = f[n - 1]
      <4> HIDE DEF f, g
      <4> QED BY <2>1, <3>1, <3>2, DoublesUnique
    <3>4. f[n] = 2 * f[n - 1]
      <4>1. n \in 1 .. n
        BY <2>3
      <4> HIDE DEF f
      <4> QED BY <2>1, <4>1 DEF Doubles
    <3> QED BY <2>3, <3>1, <3>3, <3>4
  <2> QED BY <2>2, <2>3
<1> HIDE DEF h
<1>2. h = [n \in Nat |-> h[n]]
  BY DEF h
<1>3. h = [n \in Nat |-> IF n = 0 THEN 1 ELSE 2 * h[n - 1]]
  BY <1>1, <1>2, Zenon
<1> QED BY <1>3 DEF Power

LEMMA PowerDoubles ==
    /\ Power[0] = 1
    /\ \A n \in Nat : Power[n] \in Nat \ {0} /\ Power[n + 1] = 2 * Power[n]
<1>1. \A n \in Nat : Power[n] = IF n = 0 THEN 1 ELSE 2 * Power[n - 1]
  <2> DEFINE P == [n \in Nat |-> IF n = 0 THEN 1 ELSE 2 * Power[n - 1]]
  <2>1. \A n \in Nat : P[n] = IF n = 0 THEN 1 ELSE 2 * Power[n - 1]
    OBVIOUS
  <2> HIDE DEF P
  <2>2. Power = P
    BY PowerRecursion DEF P
  <2> QED BY <2>1, <2>2
<1>2. \A n \in Nat : n + 1 # 0 /\ (n + 1) - 1 = n /\ n + 1 \in Nat
  OBVIOUS
<1>3. \A n \in Nat : Power[n + 1] = 2 * Power[n]
  BY <1>1, <1>2
<1>4. \A n \in Nat : Power[n] \in Nat \ {0}
  <2> DEFINE S == {n \in Nat : Power[n] \notin Nat \ {0}}
  <2> SUFFICES ASSUME S # {} PROVE FALSE
    OBVIOUS
  <2>1. PICK n \in S : \A i \in S : n <= i
    BY LeastElement
  <2>2. n # 0
    BY <1>1
  <2>3. n - 1 \in Nat /\ n - 1 \notin S
    BY <2>1, <2>2
  <2>4. Power[n - 1] \in Nat \ {0} /\ Power[n] = 2 * Power[n - 1]
    BY <1>1, <2>2, <2>3
  <2> QED BY <2>4
<1> QED BY <1>1, <1>3, <1>4

LEMMA PowerSum == \A a, b \in Nat : Power[a + b] = Power[a] * Power[b]
<1> SUFFICES ASSUME NEW a \in Nat PROVE \A b \in Nat : Power[a + b] = Power[a] * Power[b]
  OBVIOUS
<1> DEFINE S == {b \in Nat : Power[a + b] # Power[a] * Power[b]}
<1> SUFFICES ASSUME S # {} PROVE FALSE
  OBVIOUS
<1>1. PICK b \in S : \A i \in S : b <= i
  BY LeastElement
<1>2. b # 0
  <2>1. Power[a + 0] = Power[a] /\ Power[a] * 1 = Power[a]
    BY PowerDoubles
  <2> QED BY <2>1, PowerDoubles
<1> DEFINE c == b - 1
<1>3. c \in Nat /\ c + 1 = b /\ a + c \in Nat /\ (a + c) + 1 = a + b
  BY <1>1, <1>2
<1>4. Power[a + c] = Power[a] * Power[c]
  BY <1>1, <1>3
<1> HIDE DEF c
<1>5. Power[a + b] = 2 * (Power[a] * Power[c]) /\ Power[b] = 2 * Power[c]
  BY <1>3, <1>4, PowerDoubles
<1>6. Power[a] \in Nat /\ Power[c] \in Nat
  BY <1>3, PowerDoubles
<1>7. 2 * (Power[a] * Power[c]) = Power[a] * (2 * Power[c])
  BY <1>6
<1> QED BY <1>1, <1>5, <1>7

LEMMA PowerExceeds == \A n \in Nat : n < Power[n]
<1> DEFINE S == {n \in Nat : ~(n < Power[n])}
<1> SUFFICES ASSUME S # {} PROVE FALSE
  OBVIOUS
<1>1. PICK n \in S : \A i \in S : n <= i
  BY LeastElement
<1>2. n # 0
  BY PowerDoubles
<1> DEFINE c == n - 1
<1>3. c \in Nat /\ c + 1 = n /\ c < Power[c]
  BY <1>1, <1>2
<1> HIDE DEF c
<1>4. Power[n] = 2 * Power[c] /\ Power[c] \in Nat
  BY <1>3, PowerDoubles
<1> QED BY <1>1, <1>3, <1>4

-----------------------------------------------------------------------------
(* Rounding.  A magnitude has a unit, which is the last place that its     *)
(* significand can show; those below Significand have unit 1.              *)
Significand == Power[Precision]
Unit(m) == Power[UlpExponent(m)]

LEMMA UlpExponentFound ==
    ASSUME NEW m \in Nat
    PROVE  /\ UlpExponent(m) \in 0 .. m
           /\ m < Power[Precision + UlpExponent(m)]
           /\ \A j \in 0 .. UlpExponent(m) - 1 : m >= Power[Precision + j]
<1> DEFINE S == {k \in Nat : m < Power[Precision + k]}
           P(k) == m < Power[Precision + k] /\ \A j \in 0 .. k - 1 : m >= Power[Precision + j]
<1>1. Precision + m \in Nat /\ m <= Precision + m /\ Precision \in Nat
  BY PrecisionAssumption
<1>2. m \in S
  BY <1>1, PowerExceeds, PowerDoubles
<1>3. PICK k \in S : \A j \in S : k <= j
  BY <1>2, LeastElement
<1>4. k \in 0 .. m
  BY <1>2, <1>3
<1>5. \A j \in 0 .. k - 1 : Precision + j \in Nat /\ Power[Precision + j] \in Nat
  BY <1>1, PowerDoubles
<1>6. P(k)
  <2>1. ASSUME NEW j \in 0 .. k - 1 PROVE m >= Power[Precision + j]
    <3>1. j \in Nat /\ j \notin S
      BY <1>3
    <3> QED BY <1>5, <3>1
  <2> QED BY <1>3, <2>1
<1>7. UlpExponent(m) = CHOOSE i \in 0 .. m : P(i)
  BY DEF UlpExponent
<1> HIDE DEF P
<1>8. UlpExponent(m) \in 0 .. m /\ P(UlpExponent(m))
  BY <1>4, <1>6, <1>7
<1> QED BY <1>8 DEF P

LEMMA UnitIsNatural ==
    /\ Significand \in Nat /\ Significand >= 2
    /\ \E half \in Nat \ {0} : Significand = 2 * half
    /\ \A m \in Nat : Unit(m) \in Nat \ {0}
<1> DEFINE p == Precision - 1
<1>1. p \in Nat /\ Precision = p + 1
  BY PrecisionAssumption
<1> HIDE DEF p
<1>2. Significand = 2 * Power[p] /\ Power[p] \in Nat \ {0}
  BY <1>1, PowerDoubles DEF Significand
<1>3. \A m \in Nat : Unit(m) \in Nat \ {0}
  BY UlpExponentFound, PowerDoubles DEF Unit
<1> QED BY <1>2, <1>3

LEMMA BelowUnit ==
    ASSUME NEW m \in Nat
    PROVE  m < Significand * Unit(m)
<1>1. UlpExponent(m) \in Nat /\ Precision \in Nat
  BY UlpExponentFound, PrecisionAssumption
<1>2. Power[Precision + UlpExponent(m)] = Significand * Unit(m)
  BY <1>1, PowerSum DEF Significand, Unit
<1> QED BY <1>2, UlpExponentFound

(* The unit of a smaller magnitude divides that of a larger one; when they *)
(* differ, the larger one is beyond all that the smaller unit can show.    *)
LEMMA UnitsDivide ==
    ASSUME NEW m \in Nat, NEW n \in Nat, m <= n
    PROVE  \/ Unit(n) = Unit(m)
           \/ \E q \in Nat \ {0} : Unit(n) = 2 * (q * Unit(m)) /\ n >= Significand * (q * Unit(m))
<1> DEFINE k == UlpExponent(m)
           l == UlpExponent(n)
<1>1. /\ k \in Nat /\ l \in Nat /\ Precision \in Nat
      /\ m < Power[Precision + k] /\ n < Power[Precision + l]
      /\ \A j \in 0 .. k - 1 : m >= Power[Precision + j]
      /\ \A j \in 0 .. l - 1 : n >= Power[Precision + j]
  BY UlpExponentFound, PrecisionAssumption
<1>2. Unit(m) = Power[k] /\ Unit(n) = Power[l]
  BY DEF Unit
<1> HIDE DEF k, l
<1>3. k <= l
  <2> SUFFICES ASSUME l < k PROVE FALSE
    BY <1>1
  <2>1. l \in 0 .. k - 1
    BY <1>1
  <2>2. Power[Precision + l] \in Nat
    BY <1>1, PowerDoubles
  <2> QED BY <1>1, <2>1, <2>2
<1>4. CASE k = l
  BY <1>2, <1>4
<1>5. CASE k # l
  <2> DEFINE j == l - 1
             i == j - k
             q == Power[i]
  <2>1. j \in Nat /\ i \in Nat /\ l = j + 1 /\ j = i + k /\ j \in 0 .. l - 1
    BY <1>1, <1>3, <1>5
  <2> HIDE DEF i, j
  <2>2. q \in Nat \ {0} /\ Power[j] = q * Power[k] /\ Power[l] = 2 * Power[j]
    BY <1>1, <2>1, PowerSum, PowerDoubles
  <2>3. Power[Precision + j] = Significand * Power[j]
    BY <1>1, <2>1, PowerSum DEF Significand
  <2>4. n >= Power[Precision + j]
    BY <1>1, <2>1
  <2> HIDE DEF q
  <2> QED BY <1>2, <2>2, <2>3, <2>4
<1> QED BY <1>4, <1>5

LEMMA Turns ==
    ASSUME NEW x \in Nat, NEW m \in Nat \ {0}
    PROVE  x \div m \in Nat /\ x % m \in 0 .. m - 1 /\ x = m * (x \div m) + (x % m)
<1>1. x = m * (x \div m) + (x % m)
  OBVIOUS
<1>2. x \div m \in Nat /\ x % m \in 0 .. m - 1
  OBVIOUS
<1> QED BY <1>1, <1>2

(* Rounding goes to one of the two multiples of the unit around it, and    *)
(* leaves a multiple alone.                                                *)
LEMMA RoundsToNeighbour ==
    ASSUME NEW m \in Nat
    PROVE  \E down \in Nat :
              /\ Unit(m) * down <= m /\ m < Unit(m) * (down + 1)
              /\ \/ RoundMagnitude(m) = Unit(m) * down
                 \/ RoundMagnitude(m) = Unit(m) * (down + 1) /\ Unit(m) * down < m
<1> DEFINE u == Unit(m)
           down == m \div u
           rest == m % u
           up == 2 * rest > u \/ (2 * rest = u /\ down % 2 = 1)
<1>1. u \in Nat \ {0}
  BY UnitIsNatural
<1>2. RoundMagnitude(m) = u * (IF up THEN down + 1 ELSE down)
  BY DEF RoundMagnitude, Unit
<1> HIDE DEF u
<1>3. down \in Nat /\ rest \in 0 .. u - 1 /\ m = u * down + rest
  BY <1>1, Turns
<1> HIDE DEF down, rest
<1>4. u * down \in Nat /\ u * (down + 1) = u * down + u
  BY <1>1, <1>3
<1>5. CASE up
  <2>1. rest > 0
    BY <1>1, <1>3, <1>5
  <2>2. u * down < m /\ u * down <= m /\ m < u * (down + 1)
    BY <1>1, <1>3, <1>4, <2>1
  <2> QED BY <1>2, <1>3, <1>5, <2>2 DEF u
<1>6. CASE ~up
  <2>1. u * down <= m /\ m < u * (down + 1)
    BY <1>1, <1>3, <1>4
  <2> QED BY <1>2, <1>3, <1>6, <2>1 DEF u
<1> QED BY <1>5, <1>6

LEMMA MultiplesOrdered ==
    ASSUME NEW u \in Nat \ {0}, NEW a \in Nat, NEW b \in Nat
    PROVE  /\ u * a \in Nat
           /\ a <= b => u * a <= u * b
           /\ u * a < u * b => a < b
<1>1. \A c, d \in Nat : c <= d => u * c <= u * d
  <2> SUFFICES ASSUME NEW c \in Nat, NEW d \in Nat, c <= d PROVE u * c <= u * d
    OBVIOUS
  <2> DEFINE e == d - c
  <2>1. e \in Nat /\ d = c + e
    OBVIOUS
  <2> HIDE DEF e
  <2>2. u * d = u * c + u * e /\ u * e \in Nat /\ u * c \in Nat
    BY <2>1
  <2> QED BY <2>2
<1>2. u * a \in Nat /\ u * b \in Nat
  OBVIOUS
<1> QED BY <1>1, <1>2

LEMMA RoundedIsNatural == \A m \in Nat : RoundMagnitude(m) \in Nat
<1> SUFFICES ASSUME NEW m \in Nat PROVE RoundMagnitude(m) \in Nat
  OBVIOUS
<1>1. PICK down \in Nat : \/ RoundMagnitude(m) = Unit(m) * down
                          \/ RoundMagnitude(m) = Unit(m) * (down + 1)
  BY RoundsToNeighbour
<1>2. Unit(m) \in Nat \ {0} /\ down + 1 \in Nat
  BY UnitIsNatural
<1>3. Unit(m) * down \in Nat /\ Unit(m) * (down + 1) \in Nat
  BY <1>2, MultiplesOrdered
<1> QED BY <1>1, <1>3

(* The magnitudes of floats are the multiples of their own unit.           *)
LEMMA FloatsAreMultiples ==
    ASSUME NEW f \in Nat
    PROVE  RoundMagnitude(f) = f <=> \E c \in Nat : f = Unit(f) * c
<1> DEFINE u == Unit(f)
<1>1. u \in Nat \ {0}
  BY UnitIsNatural
<1>2. PICK down \in Nat :
         /\ u * down <= f /\ f < u * (down + 1)
         /\ \/ RoundMagnitude(f) = u * down
            \/ RoundMagnitude(f) = u * (down + 1) /\ u * down < f
  BY RoundsToNeighbour
<1> HIDE DEF u
<1>3. RoundMagnitude(f) = f => \E c \in Nat : f = u * c
  BY <1>2
<1>4. ASSUME NEW c \in Nat, f = u * c PROVE RoundMagnitude(f) = f
  <2>1. c < down + 1
    BY <1>1, <1>2, <1>4, MultiplesOrdered
  <2>2. CASE u * down < f
    <3>1. down < c
      BY <1>1, <1>4, <2>2, MultiplesOrdered
    <3> QED BY <2>1, <3>1
  <2>3. CASE ~(u * down < f)
    <3>1. u * down = f
      BY <1>1, <1>2, <2>3, MultiplesOrdered
    <3> QED BY <1>2, <2>3, <3>1
  <2> QED BY <2>2, <2>3
<1> QED BY <1>3, <1>4 DEF u

(* Rounding never crosses a float.                                         *)
LEMMA RoundsBelow ==
    ASSUME NEW m \in Nat, NEW f \in Nat, RoundMagnitude(f) = f, m <= f
    PROVE  RoundMagnitude(m) <= f
<1> DEFINE u == Unit(m)
<1>1. u \in Nat \ {0}
  BY UnitIsNatural
<1>2. PICK down \in Nat : /\ u * down <= m
                          /\ \/ RoundMagnitude(m) = u * down
                             \/ RoundMagnitude(m) = u * (down + 1) /\ u * down < m
  BY RoundsToNeighbour
<1>3. PICK c \in Nat : f = Unit(f) * c
  BY FloatsAreMultiples
<1>4. \E e \in Nat : f = u * e
  <2>1. Unit(f) = u \/ \E q \in Nat \ {0} : Unit(f) = 2 * (q * u)
    BY UnitsDivide
  <2> HIDE DEF u
  <2>2. ASSUME NEW q \in Nat \ {0}, Unit(f) = 2 * (q * u) PROVE f = u * (2 * q * c)
    BY <1>1, <1>3, <2>2
  <2>3. \A q \in Nat \ {0} : 2 * q * c \in Nat
    OBVIOUS
  <2> QED BY <1>3, <2>1, <2>2, <2>3
<1>5. PICK e \in Nat : f = u * e
  BY <1>4
<1> HIDE DEF u
<1>6. CASE RoundMagnitude(m) = u * (down + 1) /\ u * down < m
  <2>1. u * down < u * e
    BY <1>1, <1>5, <1>6, MultiplesOrdered
  <2>2. down + 1 <= e
    BY <1>1, <2>1, MultiplesOrdered
  <2> QED BY <1>1, <1>5, <1>6, <2>2, MultiplesOrdered
<1> QED BY <1>1, <1>2, <1>6, MultiplesOrdered

LEMMA RoundsAbove ==
    ASSUME NEW m \in Nat, NEW f \in Nat, RoundMagnitude(f) = f, f <= m
    PROVE  f <= RoundMagnitude(m)
<1> DEFINE u == Unit(m)
           v == Unit(f)
<1>1. u \in Nat \ {0} /\ v \in Nat \ {0}
  BY UnitIsNatural
<1>2. PICK down \in Nat : /\ m < u * (down + 1)
                          /\ \/ RoundMagnitude(m) = u * down
                             \/ RoundMagnitude(m) = u * (down + 1)
  BY RoundsToNeighbour
<1>3. \E e \in Nat : f <= u * e /\ u * e <= m
  <2>1. PICK c \in Nat : f = v * c
    BY FloatsAreMultiples
  <2>2. CASE u = v
    BY <2>1, <2>2
  <2>3. ASSUME NEW q \in Nat \ {0}, u = 2 * (q * v), m >= Significand * (q * v)
        PROVE  f <= Significand * (q * v) /\ \E e \in Nat : Significand * (q * v) = u * e
    <3>1. f < Significand * v
      BY BelowUnit
    <3>2. PICK half \in Nat \ {0} : Significand = 2 * half
      BY UnitIsNatural
    <3> HIDE DEF u, v
    <3>3. Significand * (q * v) = u * half
      BY <1>1, <2>3, <3>2
    <3>4. q * v >= v /\ Significand \in Nat \ {0} /\ q * v \in Nat
      <4>1. v * 1 <= v * q
        BY <1>1, MultiplesOrdered
      <4> QED BY <1>1, <4>1, UnitIsNatural
    <3>5. Significand * v <= Significand * (q * v)
      BY <1>1, <3>4, MultiplesOrdered
    <3>6. Significand * v \in Int /\ Significand * (q * v) \in Int
      BY <1>1, <3>4
    <3>7. f <= Significand * (q * v)
      BY <3>1, <3>5, <3>6 DEF v
    <3> QED BY <3>3, <3>7
  <2>4. u = v \/ \E q \in Nat \ {0} : u = 2 * (q * v) /\ m >= Significand * (q * v)
    BY UnitsDivide
  <2> HIDE DEF u, v
  <2> QED BY <2>2, <2>3, <2>4
<1>4. PICK e \in Nat : f <= u * e /\ u * e <= m
  BY <1>3
<1> HIDE DEF u, v
<1>5. /\ u * e \in Nat /\ u * down \in Nat /\ u * (down + 1) \in Nat
      /\ u * down <= u * (down + 1)
  BY <1>1, MultiplesOrdered
<1>6. e <= down
  <2>1. u * e < u * (down + 1)
    BY <1>2, <1>4, <1>5
  <2>2. e < down + 1
    BY <1>1, <2>1, MultiplesOrdered
  <2> QED BY <2>2
<1>7. u * e <= u * down
  BY <1>1, <1>6, MultiplesOrdered
<1> QED BY <1>2, <1>4, <1>5, <1>7

(* What rounding returns is a float. *)
LEMMA RoundedIsFloat ==
    ASSUME NEW m \in Nat
    PROVE  RoundMagnitude(RoundMagnitude(m)) = RoundMagnitude(m)
<1> DEFINE u == Unit(m)
           r == RoundMagnitude(m)
           v == Unit(r)
<1>1. r \in Nat
  BY RoundedIsNatural
<1>2. u \in Nat \ {0} /\ v \in Nat \ {0}
  BY <1>1, UnitIsNatural
<1>3. PICK down \in Nat :
         /\ u * down <= m /\ m < u * (down + 1)
         /\ r = u * down \/ (r = u * (down + 1) /\ u * down < m)
  BY RoundsToNeighbour
<1>4. PICK half \in Nat \ {0} : Significand = 2 * half
  BY UnitIsNatural
<1>5. m < u * Significand
  BY <1>2, BelowUnit, UnitIsNatural
<1>6. r <= m => v = u \/ \E q \in Nat \ {0} : u = 2 * (q * v)
  BY <1>1, UnitsDivide
<1>7. m <= r => v = u \/ \E q \in Nat \ {0} : v = 2 * (q * u) /\ r >= Significand * (q * u)
  BY <1>1, UnitsDivide
<1> SUFFICES \E c \in Nat : r = v * c
  BY <1>1, FloatsAreMultiples
<1> HIDE DEF u, r, v
<1>8. PICK c \in Nat : r = u * c /\ c <= Significand
  <2>1. u * down < u * Significand
    BY <1>2, <1>3, <1>5, MultiplesOrdered, UnitIsNatural
  <2>2. down < Significand
    BY <1>2, <2>1, MultiplesOrdered, UnitIsNatural
  <2>3. down <= Significand /\ down + 1 <= Significand /\ down + 1 \in Nat
    BY <2>2, UnitIsNatural
  <2> QED BY <1>3, <2>3
<1>9. CASE v = u
  BY <1>8, <1>9
<1>10. ASSUME NEW q \in Nat \ {0}, u = 2 * (q * v) PROVE \E d \in Nat : r = v * d
  <2>1. r = v * (2 * q * c) /\ 2 * q * c \in Nat
    BY <1>2, <1>8, <1>10
  <2> QED BY <2>1
<1>11. ASSUME NEW q \in Nat \ {0}, v = 2 * (q * u), r >= Significand * (q * u)
       PROVE  \E d \in Nat : r = v * d
  <2>1. u * (Significand * q) <= u * c /\ Significand * q \in Nat
    <3>1. Significand * (q * u) = u * (Significand * q)
      BY <1>2, UnitIsNatural
    <3> QED BY <1>8, <1>11, <3>1, UnitIsNatural
  <2>2. Significand * q <= c
    <3> SUFFICES ASSUME c < Significand * q PROVE FALSE
      BY <2>1
    <3>1. c + 1 <= Significand * q /\ c + 1 \in Nat
      BY <2>1
    <3>2. u * (c + 1) <= u * (Significand * q)
      BY <1>2, <2>1, <3>1, MultiplesOrdered
    <3>3. u * (c + 1) = u * c + u /\ u * c \in Nat
      BY <1>2
    <3> QED BY <1>2, <2>1, <3>2, <3>3
  <2>3. Significand * 1 <= Significand * q
    BY MultiplesOrdered, UnitIsNatural
  <2>4. c = Significand /\ Significand * q = Significand
    BY <1>8, <2>1, <2>2, <2>3, UnitIsNatural
  <2>5. q = 1
    <3> SUFFICES ASSUME q >= 2 PROVE FALSE
      OBVIOUS
    <3>1. Significand * 2 <= Significand * q
      BY MultiplesOrdered, UnitIsNatural
    <3> QED BY <2>4, <3>1, UnitIsNatural
  <2>6. v = 2 * u
    BY <1>2, <1>11, <2>5
  <2>7. r = v * half
    BY <1>2, <1>4, <1>8, <2>4, <2>6
  <2> QED BY <2>7
<1>12. m \in Int /\ r \in Int
  BY <1>1
<1> QED BY <1>6, <1>7, <1>9, <1>10, <1>11, <1>12

LEMMA SmallestFloats == RoundMagnitude(0) = 0 /\ RoundMagnitude(1) = 1
<1>1. RoundMagnitude(0) = 0
  <2>1. 0 = Unit(0) * 0 /\ 0 \in Nat
    BY UnitIsNatural
  <2> QED BY <2>1, FloatsAreMultiples
<1>2. UlpExponent(1) = 0
  <2>1. UlpExponent(1) \in 0 .. 1 /\ \A j \in 0 .. UlpExponent(1) - 1 : 1 >= Power[Precision + j]
    BY UlpExponentFound
  <2>2. Precision + 0 = Precision /\ Significand >= 2 /\ Significand \in Nat
    BY PrecisionAssumption, UnitIsNatural
  <2>3. UlpExponent(1) # 1
    <3> SUFFICES ASSUME UlpExponent(1) = 1 PROVE FALSE
      OBVIOUS
    <3>1. 1 >= Power[Precision + 0]
      BY <2>1
    <3> QED BY <2>2, <3>1 DEF Significand
  <2> QED BY <2>1, <2>3
<1>3. Unit(1) = 1
  BY <1>2, PowerDoubles DEF Unit
<1>4. 1 = Unit(1) * 1 /\ 1 \in Nat
  BY <1>3
<1>5. RoundMagnitude(1) = 1
  BY <1>4, FloatsAreMultiples
<1> QED BY <1>1, <1>5

(* The same for numbers of both signs.                                     *)
LEMMA ConversionIsFloat == \A x \in Int : ToFloat(x) \in Int /\ IsFloat(ToFloat(x))
<1> SUFFICES ASSUME NEW x \in Int PROVE ToFloat(x) \in Int /\ IsFloat(ToFloat(x))
  OBVIOUS
<1>1. CASE x >= 0
  <2>1. x \in Nat /\ ToFloat(x) = RoundMagnitude(x)
    BY <1>1 DEF ToFloat
  <2> DEFINE r == RoundMagnitude(x)
  <2>2. r \in Nat /\ RoundMagnitude(r) = r
    BY <2>1, RoundedIsNatural, RoundedIsFloat
  <2> HIDE DEF r
  <2>3. IsFloat(r)
    BY <2>2 DEF IsFloat, ToFloat
  <2> QED BY <2>1, <2>2, <2>3 DEF r
<1>2. CASE x < 0
  <2> DEFINE r == RoundMagnitude(-x)
  <2>1. -x \in Nat /\ ToFloat(x) = -r
    BY <1>2 DEF ToFloat
  <2>2. r \in Nat /\ RoundMagnitude(r) = r
    BY <2>1, RoundedIsNatural, RoundedIsFloat
  <2> HIDE DEF r
  <2>3. -(-r) = r /\ -r \in Int /\ (r = 0 => -r = 0) /\ (r # 0 => -r < 0)
    BY <2>2
  <2>4. IsFloat(-r)
    <3>1. CASE r = 0
      <4>1. -r = 0 /\ ~(0 < 0)
        BY <2>3, <3>1
      <4> QED BY <4>1, SmallestFloats DEF IsFloat, ToFloat
    <3>2. CASE r # 0
      <4> DEFINE y == -r
      <4>1. y < 0 /\ -y = r
        BY <2>3, <3>2
      <4> HIDE DEF y
      <4>2. ToFloat(y) = -r
        BY <2>2, <4>1 DEF ToFloat
      <4> QED BY <4>2 DEF IsFloat, y
    <3> QED BY <3>1, <3>2
  <2> QED BY <2>1, <2>3, <2>4
<1> QED BY <1>1, <1>2

LEMMA ConversionKeepsOrder ==
    ASSUME NEW x \in Int, NEW f \in Int, IsFloat(f)
    PROVE  (x <= f => ToFloat(x) <= f) /\ (f <= x => f <= ToFloat(x))
<1>1. CASE x >= 0 /\ f >= 0
  <2>1. x \in Nat /\ f \in Nat /\ ToFloat(x) = RoundMagnitude(x) /\ RoundMagnitude(f) = f
    BY <1>1 DEF ToFloat, IsFloat
  <2> QED BY <2>1, RoundsBelow, RoundsAbove
<1>2. CASE x < 0 /\ f < 0
  <2> DEFINE y == -x
             g == -f
  <2>1. y \in Nat /\ g \in Nat /\ ToFloat(x) = -RoundMagnitude(y) /\ f = -RoundMagnitude(g)
    BY <1>2 DEF ToFloat, IsFloat
  <2>2. (x <= f <=> g <= y) /\ (f <= x <=> y <= g) /\ f = -g
    BY <1>2
  <2> HIDE DEF y, g
  <2>3. RoundMagnitude(y) \in Nat /\ RoundMagnitude(g) \in Nat
    BY <2>1, RoundedIsNatural
  <2>4. RoundMagnitude(g) = g
    BY <2>1, <2>2, <2>3
  <2>5. (g <= y => g <= RoundMagnitude(y)) /\ (y <= g => RoundMagnitude(y) <= g)
    BY <2>1, <2>4, RoundsBelow, RoundsAbove
  <2> QED BY <2>1, <2>2, <2>3, <2>5
<1>3. CASE x < 0 /\ f >= 0
  <2>1. -x \in Nat /\ ToFloat(x) = -RoundMagnitude(-x)
    BY <1>3 DEF ToFloat
  <2>2. RoundMagnitude(-x) \in Nat
    BY <2>1, RoundedIsNatural
  <2> QED BY <1>3, <2>1, <2>2
<1>4. CASE x >= 0 /\ f < 0
  <2>1. x \in Nat /\ ToFloat(x) = RoundMagnitude(x)
    BY <1>4 DEF ToFloat
  <2>2. RoundMagnitude(x) \in Nat
    BY <2>1, RoundedIsNatural
  <2> QED BY <1>4, <2>1, <2>2
<1> QED BY <1>1, <1>2, <1>3, <1>4

LEMMA OneIsFloat == IsFloat(1)
BY SmallestFloats DEF IsFloat, ToFloat

-----------------------------------------------------------------------------
(* Adjusting and scaling.                                                  *)
LEMMA AdjustmentStays ==
    ASSUME NEW d, Typed(d), NEW value \in Int, NEW step \in Int, NEW count \in Int,
           AdjustStatus(d, value, step) = "OK"
    PROVE  /\ AdjustValue(d, value, step, count) \in Int
           /\ InRange(d, AdjustValue(d, value, step, count))
           /\ d.type = "FLOAT" => IsFloat(AdjustValue(d, value, step, count))
<1> DEFINE exact == value + step * count
<1>1. exact \in Int /\ AdjustValue(d, value, step, count) = Adjusted(d, value, step, count)
  BY DEF AdjustValue
<1>2. /\ d.minimum \in Int /\ d.maximum \in Int /\ d.minimum <= d.maximum
      /\ d.minimum <= value /\ value <= d.maximum /\ step > 0
  <2>1. DescriptorStatus(d) = "OK" /\ InRange(d, value) /\ ~(step <= 0)
    BY DEF AdjustStatus
  <2>2. ~(d.minimum > d.maximum)
    BY <2>1 DEF DescriptorStatus
  <2> QED BY <2>1, <2>2 DEF Typed, InRange
<1>3. CASE d.type = "FLOAT"
  <2>1. IsFloat(d.minimum) /\ IsFloat(d.maximum)
    BY <1>3 DEF Typed
  <2>2. Adjusted(d, value, step, count) =
            IF InRange(d, exact) THEN ToFloat(exact) ELSE Clamp(exact, d.minimum, d.maximum)
    BY <1>3 DEF Adjusted, AdjustFloat
  <2> HIDE DEF exact
  <2>3. CASE InRange(d, exact)
    <3>1. ToFloat(exact) \in Int /\ IsFloat(ToFloat(exact))
      BY <1>1, ConversionIsFloat
    <3>2. d.minimum <= ToFloat(exact) /\ ToFloat(exact) <= d.maximum
      BY <1>1, <1>2, <2>1, <2>3, ConversionKeepsOrder DEF InRange
    <3> QED BY <1>1, <2>2, <2>3, <3>1, <3>2 DEF InRange
  <2>4. CASE ~InRange(d, exact)
    <3>1. Clamp(exact, d.minimum, d.maximum) \in {d.minimum, d.maximum}
      BY <1>1, <1>2, <2>4 DEF Clamp, InRange
    <3> QED BY <1>1, <1>2, <2>1, <2>2, <2>4, <3>1 DEF InRange
  <2> QED BY <2>3, <2>4
<1>4. CASE d.type = "INT32"
  <2>1. Adjusted(d, value, step, count) = Clamp(exact, d.minimum, d.maximum)
    BY <1>4 DEF Adjusted, AdjustInt32
  <2> HIDE DEF exact
  <2> QED BY <1>1, <1>2, <1>4, <2>1 DEF Clamp, InRange
<1>5. CASE d.type = "UINT32"
  <2> DEFINE delta == step * Magnitude(count)
  <2>1. delta \in Nat
    <3>1. Magnitude(count) \in Nat
      BY DEF Magnitude
    <3> QED BY <1>2, <3>1
  <2>2. Adjusted(d, value, step, count) =
            IF count < 0
            THEN IF delta >= value - d.minimum THEN d.minimum ELSE value - delta
            ELSE IF delta >= d.maximum - value THEN d.maximum ELSE value + delta
    BY <1>5 DEF Adjusted, AdjustUint32
  <2> HIDE DEF delta
  <2> QED BY <1>1, <1>2, <1>5, <2>1, <2>2 DEF InRange
<1>6. CASE d.type = "BOOL"
  <2>1. d.minimum = 0 /\ d.maximum = 1
    BY <1>6 DEF Typed
  <2>2. Adjusted(d, value, step, count) = IF count = 0 THEN value ELSE IF count > 0 THEN 1 ELSE 0
    BY <1>6 DEF Adjusted, AdjustBool
  <2> QED BY <1>1, <1>2, <1>6, <2>1, <2>2 DEF InRange
<1> QED BY <1>3, <1>4, <1>5, <1>6 DEF Typed, ValueType

(* An adjustment that changes the value goes the way that was asked for.   *)
LEMMA AdjustmentMoves ==
    ASSUME NEW d, Typed(d), NEW value \in Int, NEW step \in Int, NEW count \in Int \ {0},
           AdjustStatus(d, value, step) = "OK", d.type = "FLOAT" => IsFloat(value),
           AdjustValue(d, value, step, count) # value
    PROVE  AdjustValue(d, value, step, count) > value <=> count > 0
<1> DEFINE product == step * count
           exact == value + product
           adjusted == AdjustValue(d, value, step, count)
<1>1. /\ d.minimum \in Int /\ d.maximum \in Int
      /\ d.minimum <= value /\ value <= d.maximum /\ step > 0
  <2>1. InRange(d, value) /\ ~(step <= 0)
    BY DEF AdjustStatus
  <2> QED BY <2>1 DEF Typed, InRange
<1>2. product \in Int /\ (count > 0 => product > 0) /\ (count < 0 => product < 0)
  <2>1. \A a, b \in Nat \ {0} : a * b \in Nat \ {0}
    OBVIOUS
  <2>2. CASE count > 0
    BY <1>1, <2>1, <2>2
  <2>3. CASE count < 0
    <3>1. step * (-count) \in Nat \ {0} /\ step * count = -(step * (-count))
      BY <1>1, <2>1, <2>3
    <3> QED BY <2>3, <3>1
  <2> QED BY <2>2, <2>3
<1>3. adjusted \in Int /\ adjusted # value /\ adjusted = Adjusted(d, value, step, count)
  BY AdjustmentStays DEF AdjustValue
<1>4. exact \in Int /\ (count > 0 => exact > value) /\ (count < 0 => exact < value)
  <2> HIDE DEF product
  <2> QED BY <1>2
<1> SUFFICES adjusted > value <=> count > 0
  OBVIOUS
<1> HIDE DEF adjusted
<1>5. CASE d.type = "FLOAT"
  <2>1. adjusted = IF InRange(d, exact) THEN ToFloat(exact) ELSE Clamp(exact, d.minimum, d.maximum)
    BY <1>3, <1>5 DEF Adjusted, AdjustFloat
  <2> HIDE DEF exact
  <2>2. CASE InRange(d, exact)
    <3>1. (exact <= value => adjusted <= value) /\ (value <= exact => value <= adjusted)
      BY <1>4, <1>5, <2>1, <2>2, ConversionKeepsOrder
    <3> QED BY <1>3, <1>4, <3>1
  <2>3. CASE ~InRange(d, exact)
    <3>1. adjusted = Clamp(exact, d.minimum, d.maximum)
      BY <2>1, <2>3
    <3> QED BY <1>1, <1>3, <1>4, <3>1 DEF Clamp
  <2> QED BY <2>2, <2>3
<1>6. CASE d.type = "INT32"
  <2>1. adjusted = Clamp(exact, d.minimum, d.maximum)
    BY <1>3, <1>6 DEF Adjusted, AdjustInt32
  <2> HIDE DEF exact
  <2> QED BY <1>1, <1>3, <1>4, <2>1 DEF Clamp
<1>7. CASE d.type = "UINT32"
  <2> DEFINE delta == step * Magnitude(count)
  <2>1. delta \in Nat
    <3>1. Magnitude(count) \in Nat
      BY DEF Magnitude
    <3> QED BY <1>1, <3>1
  <2>2. adjusted = IF count < 0
                   THEN IF delta >= value - d.minimum THEN d.minimum ELSE value - delta
                   ELSE IF delta >= d.maximum - value THEN d.maximum ELSE value + delta
    BY <1>3, <1>7 DEF Adjusted, AdjustUint32
  <2> HIDE DEF delta
  <2> QED BY <1>1, <1>3, <2>1, <2>2
<1>8. CASE d.type = "BOOL"
  <2>1. d.minimum = 0 /\ d.maximum = 1
    BY <1>8 DEF Typed
  <2>2. adjusted = IF count > 0 THEN 1 ELSE 0
    BY <1>3, <1>8 DEF Adjusted, AdjustBool
  <2> QED BY <1>1, <1>3, <2>1, <2>2
<1> QED BY <1>5, <1>6, <1>7, <1>8 DEF Typed, ValueType

(* What scale_step demands of a descriptor.                                *)
LEMMA Scalable ==
    ASSUME NEW d, Typed(d), NEW step \in Int, ScaleStatus(d, step) = "OK"
    PROVE  /\ d.type \in {"FLOAT", "INT32", "UINT32"}
           /\ RuntimeStepStatus(d, step) = "OK" /\ step > 0
           /\ Span(d) \in Nat \ {0}
           /\ DoubleRange(d) \in Nat \ {0} /\ DoubleRange(d) <= Span(d)
<1>1. /\ DescriptorStatus(d) = "OK" /\ d.type # "BOOL" /\ d.minimum # d.maximum
      /\ RuntimeStepStatus(d, step) = "OK"
  BY DEF ScaleStatus
<1>2. ~(d.minimum > d.maximum) /\ ~(step <= 0)
  BY <1>1 DEF DescriptorStatus, RuntimeStepStatus
<1>3. d.minimum \in Int /\ d.maximum \in Int /\ d.type \in ValueType
  BY DEF Typed
<1>4. Span(d) \in Nat \ {0}
  BY <1>1, <1>2, <1>3 DEF Span
<1>5. DoubleRange(d) \in Nat \ {0} /\ DoubleRange(d) <= Span(d)
  BY <1>4, FloatMaxAssumption DEF DoubleRange
<1> QED BY <1>1, <1>2, <1>3, <1>4, <1>5 DEF ValueType

(* The limits of a step, as scaling computes them.                         *)
Least(d) == IF d.type = "FLOAT" THEN d.smallest ELSE 1
Most(d) ==
    CASE d.type = "FLOAT" -> DoubleRange(d)
      [] d.type = "INT32" -> IF Span(d) > IntMax THEN IntMax ELSE Span(d)
      [] OTHER            -> Span(d)

LEMMA Limits ==
    ASSUME NEW d, Typed(d), NEW step \in Int, ScaleStatus(d, step) = "OK"
    PROVE  /\ Least(d) \in Nat \ {0} /\ Most(d) \in Nat \ {0} /\ step > 0
           /\ Least(d) <= step /\ Least(d) <= Most(d)
           /\ d.type = "FLOAT" => IsFloat(Least(d))
           /\ SpanIsFloat(d) /\ d.type = "FLOAT" => IsFloat(Most(d))
           /\ d.type = "FLOAT" => step <= Most(d)
           /\ \A s \in Int : Least(d) <= s /\ (s <= Most(d) \/ s <= step)
                             => RuntimeStepStatus(d, s) = "OK"
<1>1. /\ d.type \in {"FLOAT", "INT32", "UINT32"} /\ RuntimeStepStatus(d, step) = "OK" /\ step > 0
      /\ Span(d) \in Nat \ {0} /\ DoubleRange(d) \in Nat \ {0}
  BY Scalable
<1>2. Least(d) \in Nat \ {0} /\ d.smallest \in Nat \ {0}
  BY DEF Typed, Least
<1>3. Most(d) \in Nat \ {0} /\ (d.type # "FLOAT" => Most(d) <= Span(d))
  BY <1>1, IntMaxAssumption DEF Most
<1>4. Least(d) <= step /\ (d.type = "FLOAT" => IsFloat(Least(d)))
  BY <1>1, <1>2 DEF RuntimeStepStatus, Least, Typed
<1>5. SpanIsFloat(d) /\ d.type = "FLOAT" => IsFloat(Most(d))
  BY FloatMaxAssumption DEF SpanIsFloat, Most, DoubleRange
<1>6. /\ d.type = "FLOAT" => Most(d) = DoubleRange(d) /\ step <= DoubleRange(d)
      /\ d.type # "FLOAT" => step <= Span(d)
  BY <1>1 DEF RuntimeStepStatus, Most
<1>8. Least(d) <= Most(d)
  BY <1>1, <1>2, <1>3, <1>4, <1>6 DEF Least
<1>7. ASSUME NEW s \in Int, Least(d) <= s, s <= Most(d) \/ s <= step
      PROVE  RuntimeStepStatus(d, s) = "OK"
  BY <1>1, <1>2, <1>3, <1>6, <1>7 DEF RuntimeStepStatus, Least
<1> QED BY <1>1, <1>2, <1>3, <1>4, <1>5, <1>6, <1>7, <1>8

(* A scaled step is positive; it is within the limits again if the float   *)
(* range is a float.                                                       *)
LEMMA ScalingStays ==
    ASSUME NEW d, Typed(d), NEW step \in Int, ScaleStatus(d, step) = "OK", NEW direction \in Int
    PROVE  LET s == ScaleStep(d, step, direction)
           IN  /\ s \in Int /\ s > 0
               /\ SpanIsFloat(d) => RuntimeStepStatus(d, s) = "OK"
<1> DEFINE tenth == IF d.type = "FLOAT" THEN ToFloat(step \div 10) ELSE step \div 10
           larger == IF step * 10 > Most(d) THEN Most(d) ELSE step * 10
<1>1. /\ Least(d) \in Nat \ {0} /\ Most(d) \in Nat \ {0} /\ step > 0
      /\ SpanIsFloat(d) /\ d.type = "FLOAT" => IsFloat(Most(d))
      /\ d.type = "FLOAT" => step <= Most(d)
      /\ Least(d) <= step /\ Least(d) <= Most(d) /\ (d.type = "FLOAT" => IsFloat(Least(d)))
  BY Limits
<1>2. ScaledDown(d, step) = IF tenth < Least(d) THEN Least(d) ELSE tenth
  BY DEF ScaledDown, Least
<1>3. ScaledUp(d, step) = IF d.type = "FLOAT" THEN ToFloat(larger) ELSE larger
  BY DEF ScaledUp, Most
<1>4. tenth \in Int /\ (SpanIsFloat(d) => tenth <= Most(d) \/ tenth <= step)
  <2> DEFINE x == step \div 10
  <2>1. x \in Int /\ x <= step
    BY <1>1
  <2> HIDE DEF x
  <2>2. CASE d.type = "FLOAT"
    <3>1. ToFloat(x) \in Int /\ (SpanIsFloat(d) => ToFloat(x) <= Most(d))
      <4>1. x <= Most(d)
        BY <1>1, <2>1, <2>2
      <4> QED BY <1>1, <2>1, <2>2, <4>1, ConversionIsFloat, ConversionKeepsOrder
    <3> QED BY <2>2, <3>1 DEF x
  <2>3. CASE d.type # "FLOAT"
    BY <2>1, <2>3 DEF x
  <2> QED BY <2>2, <2>3
<1>5. larger \in Int /\ Least(d) <= larger /\ larger <= Most(d)
  BY <1>1
<1> HIDE DEF tenth, larger
<1>6. ASSUME NEW s \in Int, s = ScaledDown(d, step)
      PROVE  s > 0 /\ (SpanIsFloat(d) => RuntimeStepStatus(d, s) = "OK")
  <2>1. Least(d) <= s /\ (SpanIsFloat(d) => s <= Most(d) \/ s <= step)
    BY <1>1, <1>2, <1>4, <1>6
  <2> QED BY <1>1, <2>1, Limits
<1>7. ScaledDown(d, step) \in Int
  BY <1>1, <1>2, <1>4
<1>8. ASSUME NEW s, s = ScaledUp(d, step)
      PROVE  s \in Int /\ s > 0 /\ (SpanIsFloat(d) => RuntimeStepStatus(d, s) = "OK")
  <2>1. CASE d.type = "FLOAT"
    <3>1. s = ToFloat(larger)
      BY <1>3, <1>8, <2>1
    <3>2. s \in Int /\ Least(d) <= s
      BY <1>1, <1>5, <2>1, <3>1, ConversionIsFloat, ConversionKeepsOrder
    <3>3. SpanIsFloat(d) => s <= Most(d)
      BY <1>1, <1>5, <2>1, <3>1, ConversionKeepsOrder
    <3> QED BY <1>1, <3>2, <3>3, Limits
  <2>2. CASE d.type # "FLOAT"
    <3>1. s = larger
      BY <1>3, <1>8, <2>2
    <3> QED BY <1>1, <1>5, <3>1, Limits
  <2> QED BY <2>1, <2>2
<1>9. ScaleStep(d, step, direction) =
          IF direction = 0 THEN step
          ELSE IF direction < 0 THEN ScaledDown(d, step) ELSE ScaledUp(d, step)
  BY DEF ScaleStep
<1>10. RuntimeStepStatus(d, step) = "OK"
  BY Scalable
<1> QED BY <1>1, <1>6, <1>7, <1>8, <1>9, <1>10

-----------------------------------------------------------------------------
(* The draft has its type and its range, and the step its sign.            *)
EditInv ==
    /\ edited \in Descriptors /\ DescriptorStatus(edited) = "OK" /\ edited.writable
    /\ draft \in Int /\ InRange(edited, draft)
    /\ edited.type = "FLOAT" => IsFloat(draft)
    /\ draft_step \in Int /\ draft_step > 0

LEMMA FreshStep ==
    ASSUME NEW d, Typed(d), DescriptorStatus(d) = "OK"
    PROVE  d.step > 0 /\ d.minimum <= d.maximum
<1>1. ~(d.minimum > d.maximum) /\ (d.type = "BOOL" => d.step = 1) /\ (d.type # "BOOL" => ~(d.step <= 0))
  BY DEF DescriptorStatus
<1> QED BY <1>1 DEF Typed

LEMMA EditInitiation == EditInit => EditInv
<1> SUFFICES ASSUME EditInit PROVE EditInv
  OBVIOUS
<1>1. Typed(edited) /\ DescriptorStatus(edited) = "OK" /\ edited.writable /\ edited \in Descriptors
  BY EditedAssumption DEF EditInit
<1>2. edited.step > 0 /\ edited.minimum <= edited.maximum
  BY <1>1, FreshStep
<1> QED BY <1>1, <1>2 DEF EditInit, EditInv, Typed, InRange

LEMMA AdjustStep ==
    ASSUME EditInv, NEW count \in Counts, AdjustDraft(count)
    PROVE  EditInv'
<1>1. Typed(edited) /\ count \in Int
  BY EditedAssumption DEF EditInv
<1>2. AdjustStatus(edited, draft, draft_step) = "OK"
  BY DEF EditInv, AdjustStatus
<1> DEFINE v == AdjustValue(edited, draft, draft_step, count)
<1>3. v \in Int /\ InRange(edited, v) /\ (edited.type = "FLOAT" => IsFloat(v))
  BY <1>1, <1>2, AdjustmentStays DEF EditInv
<1>4. draft' = v /\ edited' = edited /\ draft_step' = draft_step
  BY DEF AdjustDraft
<1> HIDE DEF v
<1> QED BY <1>3, <1>4 DEF EditInv, InRange

LEMMA ScaleKeepsStep ==
    ASSUME EditInv, NEW direction \in {-1, 1}, ScaleDraftStep(direction)
    PROVE  EditInv'
<1>1. Typed(edited) /\ direction \in Int
  BY EditedAssumption DEF EditInv
<1> DEFINE s == ScaleStep(edited, draft_step, direction)
<1>2. s \in Int /\ s > 0
  <2>1. CASE ScaleStatus(edited, draft_step) = "OK"
    BY <1>1, <2>1, ScalingStays DEF EditInv
  <2>2. CASE ScaleStatus(edited, draft_step) # "OK"
    BY <2>2 DEF ScaleStep, EditInv
  <2> QED BY <2>1, <2>2
<1>3. draft_step' = s /\ edited' = edited /\ draft' = draft
  BY DEF ScaleDraftStep
<1> HIDE DEF s
<1> QED BY <1>2, <1>3 DEF EditInv, InRange

LEMMA EditConsecution == EditInv /\ [EditNext]_edit_vars => EditInv'
<1> SUFFICES ASSUME EditInv, [EditNext]_edit_vars PROVE EditInv'
  OBVIOUS
<1>1. CASE UNCHANGED edit_vars
  BY <1>1 DEF edit_vars, EditInv, InRange
<1> QED BY <1>1, AdjustStep, ScaleKeepsStep DEF EditNext

LEMMA EditInvariant == EditSpec => []EditInv
BY EditInitiation, EditConsecution, PTL DEF EditSpec

(* Adjusted by any sequence of step counts, with a step scaled up and down *)
(* at will, a draft never leaves its range or its type: the adjusting      *)
(* functions of parameter.c.                                               *)
THEOREM DraftsStayCommittable == EditSpec => []DraftStaysCommittable
<1>1. EditInv => DraftStaysCommittable
  BY DEF EditInv, DraftStaysCommittable, AdjustStatus
<1> QED BY <1>1, EditInvariant, PTL

-----------------------------------------------------------------------------
(* The step stays within the limits.                                       *)
StepInv ==
    /\ edited \in Descriptors /\ DescriptorStatus(edited) = "OK"
    /\ draft_step \in Int
    /\ edited.type # "BOOL" /\ edited.minimum # edited.maximum =>
          RuntimeStepStatus(edited, draft_step) = "OK"

LEMMA FreshStepIsScalable ==
    ASSUME NEW d, Typed(d), SpanIsFloat(d), DescriptorStatus(d) = "OK",
           d.type # "BOOL", d.minimum # d.maximum
    PROVE  RuntimeStepStatus(d, d.step) = "OK"
<1>1. d.type \in {"FLOAT", "INT32", "UINT32"} /\ d.step \in Int /\ d.smallest \in Nat /\ Span(d) \in Int
  BY DEF Typed, ValueType, Span
<1>2. ~(d.step <= 0) /\ (d.type = "FLOAT" => ~(d.step < d.smallest))
  BY <1>1 DEF DescriptorStatus
<1>3. d.step <= Span(d)
  BY <1>1 DEF DescriptorStatus, SpanIsFloat, IsFloat
<1>4. d.type = "FLOAT" => d.step <= DoubleRange(d)
  BY <1>1, <1>3 DEF DoubleRange, Typed
<1> QED BY <1>1, <1>2, <1>3, <1>4, FloatMaxAssumption DEF RuntimeStepStatus, DoubleRange

LEMMA StepConsecution ==
    ASSUME \A d \in Descriptors : SpanIsFloat(d), StepInv, [EditNext]_edit_vars
    PROVE  StepInv'
<1>1. ASSUME NEW direction \in {-1, 1}, ScaleDraftStep(direction) PROVE StepInv'
  <2> DEFINE s == ScaleStep(edited, draft_step, direction)
  <2>1. Typed(edited) /\ SpanIsFloat(edited) /\ direction \in Int
    BY EditedAssumption DEF StepInv
  <2>2. /\ s \in Int
        /\ edited.type # "BOOL" /\ edited.minimum # edited.maximum =>
              RuntimeStepStatus(edited, s) = "OK"
    <3>1. CASE ScaleStatus(edited, draft_step) = "OK"
      BY <2>1, <3>1, ScalingStays DEF StepInv
    <3>2. CASE ScaleStatus(edited, draft_step) # "OK"
      BY <3>2 DEF ScaleStep, StepInv
    <3> QED BY <3>1, <3>2
  <2>3. draft_step' = s /\ edited' = edited
    BY <1>1 DEF ScaleDraftStep
  <2> HIDE DEF s
  <2>4. RuntimeStepStatus(edited, draft_step)' = RuntimeStepStatus(edited, s)
    BY <2>3 DEF RuntimeStepStatus, DoubleRange, Span
  <2>5. DescriptorStatus(edited)' = DescriptorStatus(edited)
    BY <2>3
  <2> QED BY <2>2, <2>3, <2>4, <2>5 DEF StepInv
<1>2. CASE UNCHANGED <<edited, draft_step>>
  BY <1>2 DEF StepInv
<1>3. ASSUME NEW count \in Counts, AdjustDraft(count) PROVE UNCHANGED <<edited, draft_step>>
  BY <1>3 DEF AdjustDraft
<1> QED BY <1>1, <1>2, <1>3 DEF EditNext, edit_vars

(* Whatever was done to a step, scale_step takes it again, if the widths   *)
(* of the float ranges are floats; that this is needed is a finding, which *)
(* the run parameter_float_step shows.                                     *)
THEOREM StepsStayScalable ==
    ASSUME \A d \in Descriptors : SpanIsFloat(d)
    PROVE  EditSpec => []StepStaysScalable
<1>1. EditInit => StepInv
  <2> SUFFICES ASSUME EditInit PROVE StepInv
    OBVIOUS
  <2>1. Typed(edited) /\ DescriptorStatus(edited) = "OK" /\ edited \in Descriptors
    BY EditedAssumption DEF EditInit
  <2>2. draft_step = edited.step /\ edited.step \in Int
    BY <2>1 DEF EditInit, Typed
  <2> QED BY <2>1, <2>2, FreshStepIsScalable DEF StepInv
<1>2. StepInv /\ [EditNext]_edit_vars => StepInv'
  BY StepConsecution
<1>3. StepInv => StepStaysScalable
  BY DEF StepInv, StepStaysScalable
<1> QED BY <1>1, <1>2, <1>3, PTL DEF EditSpec

-----------------------------------------------------------------------------
(* The unsigned arithmetic is the signed one.                              *)
LEMMA IntegerAdjustment ==
    ASSUME NEW d, Typed(d), d.type \in {"INT32", "UINT32"},
           NEW value \in Int, NEW step \in Int, NEW count \in Int,
           AdjustStatus(d, value, step) = "OK"
    PROVE  AdjustValue(d, value, step, count) = Clamp(value + step * count, d.minimum, d.maximum)
<1> DEFINE p == step * count
           delta == step * Magnitude(count)
<1>1. AdjustValue(d, value, step, count) = Adjusted(d, value, step, count)
  BY DEF AdjustValue
<1>2. /\ d.minimum \in Int /\ d.maximum \in Int /\ d.minimum <= value /\ value <= d.maximum
      /\ step > 0
  BY DEF AdjustStatus, Typed, InRange
<1>3. CASE d.type = "INT32"
  BY <1>1, <1>3 DEF Adjusted, AdjustInt32
<1>4. CASE d.type = "UINT32"
  <2>1. CASE count < 0
    <3>1. delta = -p /\ p \in Int /\ p < 0
      <4> DEFINE c == -count
      <4>1. c \in Nat \ {0} /\ Magnitude(count) = c /\ count = -c
        BY <2>1 DEF Magnitude
      <4> HIDE DEF c
      <4>2. step * c \in Nat \ {0} /\ step * (-c) = -(step * c)
        BY <1>2, <4>1
      <4> QED BY <4>1, <4>2
    <3>2. Adjusted(d, value, step, count) =
              IF delta >= value - d.minimum THEN d.minimum ELSE value - delta
      BY <1>4, <2>1 DEF Adjusted, AdjustUint32
    <3> HIDE DEF p, delta
    <3>3. Adjusted(d, value, step, count) = Clamp(value + p, d.minimum, d.maximum)
      BY <1>2, <3>1, <3>2 DEF Clamp
    <3> QED BY <1>1, <3>3 DEF p
  <2>2. CASE count >= 0
    <3>1. delta = p /\ p \in Nat
      BY <1>2, <2>2 DEF Magnitude
    <3>2. Adjusted(d, value, step, count) =
              IF delta >= d.maximum - value THEN d.maximum ELSE value + delta
      BY <1>4, <2>2 DEF Adjusted, AdjustUint32
    <3> HIDE DEF p, delta
    <3>3. Adjusted(d, value, step, count) = Clamp(value + p, d.minimum, d.maximum)
      BY <1>2, <3>1, <3>2 DEF Clamp
    <3> QED BY <1>1, <3>3 DEF p
  <2> QED BY <2>1, <2>2
<1> QED BY <1>3, <1>4

(* Integers are adjusted exactly and reversibly, unsigned ones without     *)
(* ever forming a sum that has no room.                                    *)
THEOREM AdjustmentsAreExact == EditSpec => []AdjustmentIsExact
<1>1. EditInv => AdjustmentIsExact
  <2> SUFFICES ASSUME EditInv, edited.type \in {"INT32", "UINT32"}, NEW count \in Counts
               PROVE  LET moved == AdjustValue(edited, draft, draft_step, count)
                          exact == draft + draft_step * count
                      IN  /\ moved = Clamp(exact, edited.minimum, edited.maximum)
                          /\ moved = exact =>
                                AdjustValue(edited, moved, draft_step, -count) = draft
    BY DEF AdjustmentIsExact
  <2> DEFINE moved == AdjustValue(edited, draft, draft_step, count)
             exact == draft + draft_step * count
  <2>1. /\ Typed(edited) /\ count \in Int /\ -count \in Int /\ draft \in Int /\ draft_step \in Int
        /\ AdjustStatus(edited, draft, draft_step) = "OK"
    BY EditedAssumption DEF EditInv, AdjustStatus
  <2>2. moved = Clamp(exact, edited.minimum, edited.maximum)
    BY <2>1, IntegerAdjustment
  <2>3. moved \in Int /\ InRange(edited, moved)
    BY <2>1, AdjustmentStays
  <2>4. exact + draft_step * (-count) = draft
    BY <2>1
  <2> HIDE DEF moved, exact
  <2>5. AdjustStatus(edited, moved, draft_step) = "OK"
    BY <2>1, <2>3 DEF AdjustStatus
  <2>6. AdjustValue(edited, moved, draft_step, -count)
            = Clamp(moved + draft_step * (-count), edited.minimum, edited.maximum)
    BY <2>1, <2>3, <2>5, IntegerAdjustment
  <2>7. Clamp(draft, edited.minimum, edited.maximum) = draft
    BY <2>1 DEF EditInv, InRange, Clamp, Typed
  <2> QED BY <2>2, <2>4, <2>6, <2>7 DEF moved, exact
<1> QED BY <1>1, EditInvariant, PTL
=============================================================================
