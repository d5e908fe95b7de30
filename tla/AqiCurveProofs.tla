--------------------------- MODULE AqiCurveProofs ---------------------------
(***************************************************************************)
(* Theorems of the weight curve and the AQI bands: for every ratio at      *)
(* which the index fits its int, and not only those of the grid that TLC   *)
(* steps through, more dust never shows a smaller number.                  *)
(***************************************************************************)
EXTENDS AqiCurve, TLAPS

\* A ratio is one that a window gave, or none was closed yet.
TypeOK ==
  /\ lastLowRatio \in [Channel -> Nat \cup {NaN}]
  /\ coeff \in Nat

-----------------------------------------------------------------------------
(* Integer arithmetic. *)

\* Division by a positive number is monotone.
LEMMA DivMonotone ==
  ASSUME NEW n \in Nat \ {0}, NEW a \in Int, NEW b \in Int, a <= b
  PROVE  a \div n <= b \div n /\ a \div n \in Int /\ b \div n \in Int
OBVIOUS

\* So is multiplication by a natural number.
LEMMA TimesMonotone ==
  ASSUME NEW a \in Int, NEW b \in Int, NEW k \in Nat, a <= b
  PROVE  a * k <= b * k /\ a * k \in Int /\ b * k \in Int
<1>1. (b - a) * k \in Nat
  <2>1. b - a \in Nat
    OBVIOUS
  <2> QED
    BY <2>1
<1>2. b * k = a * k + (b - a) * k
  OBVIOUS
<1>3. a * k \in Int /\ b * k \in Int
  OBVIOUS
<1> QED
  BY <1>1, <1>2, <1>3

\* A larger ratio stays the larger one divided by the coefficient.
LEMMA RatioMonotone ==
  ASSUME NEW c \in Nat \ {0}, NEW r \in Nat, NEW s \in Nat, r <= s
  PROVE  r \div c \in Nat /\ s \div c \in Nat /\ r \div c <= s \div c
<1>1. \A a \in Nat : a \div c \in Nat
  OBVIOUS
<1> QED
  BY <1>1, DivMonotone

-----------------------------------------------------------------------------
(* The curve rises. *)

\* The lines of Horner's rule.
A(x) == (30473 * x - 263943000) \div 10000
B(x) == (A(x) * x + 1026029100) \div 10000

\* The curve in these lines.
LEMMA CurveIs ==
  ASSUME NEW x \in Nat
  PROVE  /\ Curve(x) = B(x) * x - 3496160
         /\ A(x) \in Int /\ B(x) \in Int /\ Curve(x) \in Int
<1>1. A(x) \in Int
  BY DEF A
<1>2. A(x) * x \in Int
  BY <1>1
<1>3. B(x) \in Int
  BY <1>2 DEF B
<1>4. B(x) * x \in Int
  BY <1>3
<1>5. Curve(x) = B(x) * x - 3496160
  BY DEF Curve, A, B
<1> QED
  BY <1>1, <1>3, <1>4, <1>5

\* The first line rises everywhere, and is positive from 8662 on.
LEMMA ARises ==
  ASSUME NEW x \in Nat, NEW y \in Nat, x <= y
  PROVE  A(x) <= A(y) /\ A(x) >= -26395 /\ (x >= 8662 => A(x) >= 0)
BY DEF A

\* From 8662 on the second line rises too; below, it stays above 79000 and
\* falls by less than 3 a step.
LEMMA BRises ==
  ASSUME NEW x \in Nat, NEW y \in Nat, x < y
  PROVE  /\ x >= 8662 => B(x) <= B(y) /\ B(x) >= 0
         /\ x <= 8661 => B(x) >= 79000 /\ B(y) >= B(x) - 3 * (y - x)
<1>1. /\ A(x) \in Int /\ A(y) \in Int /\ A(x) <= A(y) /\ A(x) >= -26395
      /\ x >= 8662 => A(x) >= 0
  BY ARises, CurveIs
<1> DEFINE p == A(x) * x
           q == A(y) * y
           d == y - x
           f == A(x) * d
<1>2. d \in Nat \ {0}
  OBVIOUS
<1>3. p \in Int /\ q \in Int /\ f \in Int
  BY <1>1, <1>2
<1>4. q >= p + f
  <2>1. A(x) * y = p + f
    BY <1>1
  <2>2. A(x) * y <= q
    BY <1>1, TimesMonotone
  <2> QED
    BY <2>1, <2>2
<1>5. f >= -26395 * d
  <2>1. -26395 * d <= A(x) * d
    BY <1>1, <1>2, TimesMonotone
  <2> QED
    BY <2>1
<1>6. x >= 8662 => f >= 0 /\ p >= 0
  BY <1>1, <1>2, TimesMonotone
<1>7. x <= 8661 => p >= -26395 * 8661
  <2>1. -26395 * x <= p
    BY <1>1, TimesMonotone
  <2> HIDE DEF p
  <2>2. x <= 8661 => -26395 * x >= -26395 * 8661
    OBVIOUS
  <2> QED
    BY <1>3, <2>1, <2>2
<1>8. B(x) = (p + 1026029100) \div 10000 /\ B(y) = (q + 1026029100) \div 10000
  BY DEF B
<1> HIDE DEF p, q, d, f
<1>9. x >= 8662 => B(x) <= B(y) /\ B(x) >= 0
  BY <1>3, <1>4, <1>6, <1>8
<1>10. x <= 8661 => B(x) >= 79000
  BY <1>3, <1>7, <1>8
<1>11. B(y) >= B(x) - 3 * d
  BY <1>2, <1>3, <1>4, <1>5, <1>8
<1> QED
  BY <1>9, <1>10, <1>11 DEF d

\* The curve rises where the second line is known to, or to fall slowly.
LEMMA CurveRisesNear ==
  ASSUME NEW x \in Nat, NEW y \in Nat, x < y, x >= 8662 \/ y <= 20000
  PROVE  Curve(x) <= Curve(y)
<1>1. /\ B(x) \in Int /\ B(y) \in Int /\ Curve(x) \in Int /\ Curve(y) \in Int
      /\ Curve(x) = B(x) * x - 3496160
      /\ Curve(y) = B(y) * y - 3496160
  BY CurveIs
<1>2. B(x) * x <= B(y) * y /\ B(x) * x \in Int /\ B(y) * y \in Int
  <2>1. CASE x >= 8662
    <3>1. B(x) \in Nat /\ B(x) <= B(y)
      BY <1>1, <2>1, BRises
    <3>2. x * B(x) <= y * B(x)
      BY <3>1, TimesMonotone
    <3>3. B(x) * y <= B(y) * y
      BY <1>1, <3>1, TimesMonotone
    <3> QED
      BY <1>1, <3>1, <3>2, <3>3
  <2>2. CASE x <= 8661
    <3> DEFINE d == y - x
               k == B(x) - 3 * y
    <3>1. B(x) >= 79000 /\ B(y) >= B(x) - 3 * d /\ y <= 20000
      BY <2>2, BRises
    <3>2. d \in Nat /\ k \in Nat
      BY <1>1, <3>1
    <3>3. (B(x) - 3 * d) * y <= B(y) * y
      BY <1>1, <3>1, <3>2, TimesMonotone
    <3>4. (B(x) - 3 * d) * y = B(x) * x + d * k
      BY <1>1
    <3>5. d * k \in Nat
      BY <3>2
    <3> QED
      BY <1>1, <3>3, <3>4, <3>5
  <2> QED
    BY <2>1, <2>2
<1> QED
  BY <1>1, <1>2

\* The curve rises everywhere: by way of 10000, from below 8662 to above 20000.
LEMMA CurveRises ==
  ASSUME NEW x \in Nat, NEW y \in Nat, x <= y
  PROVE  Curve(x) <= Curve(y) /\ Curve(x) \in Int /\ Curve(y) \in Int
<1>1. Curve(x) \in Int /\ Curve(y) \in Int /\ Curve(10000) \in Int
  BY CurveIs
<1>2. CASE x = y
  BY <1>1, <1>2
<1>3. CASE x < y /\ (x >= 8662 \/ y <= 20000)
  BY <1>1, <1>3, CurveRisesNear
<1>4. CASE x < 8662 /\ y > 20000
  <2>1. Curve(x) <= Curve(10000) /\ Curve(10000) <= Curve(y)
    BY <1>4, CurveRisesNear
  <2> QED
    BY <1>1, <2>1
<1> QED
  BY <1>2, <1>3, <1>4

-----------------------------------------------------------------------------
(* The bands rise, each from where the one before it ends. *)

Band(w) == CHOOSE b \in Bands : w > b.low /\ w <= b.high
Line(b, w) == Base(b) + (w - b.low) \div b.step

\* The same with numbers for edges, in tenths of a ug/m3.
Above(w, low) == w > low * Tenth
Within(w, low, high) == Above(w, low) /\ w <= high * Tenth
Up(w, base, low, step) == base + (w - low * Tenth) \div (step * Tenth)

First(w) == w >= 0 /\ w <= 154 * Tenth

\* Behind the first band and before the second.
InGap(w) == Within(w, 154, 155)

\* The number of a weight, band by band.
LEMMA AqiIs ==
  ASSUME NEW w \in Int
  PROVE  /\ First(w) => AqiOf(w) = (10 * w) \div (31 * Tenth)
         /\ Within(w, 155, 405) => AqiOf(w) = Up(w, 50, 155, 5)
         /\ Within(w, 405, 655) => AqiOf(w) = Up(w, 100, 405, 5)
         /\ Within(w, 655, 1505) => AqiOf(w) = Up(w, 150, 655, 17)
         /\ Within(w, 1505, 2505) => AqiOf(w) = Up(w, 200, 1505, 10)
         /\ Within(w, 2505, 3505) => AqiOf(w) = Up(w, 300, 2505, 10)
         /\ Within(w, 3505, 5000) => AqiOf(w) = Up(w, 400, 3505, 15)
         /\ Above(w, 5000) => AqiOf(w) = Up(w, 500, 5000, 10)
         /\ w < 0 \/ InGap(w) => AqiOf(w) = -1
<1>1. ASSUME NEW b \in Bands
      PROVE  /\ b.low \in Int /\ b.high \in Int
             /\ b.low >= 155 * Tenth /\ b.high <= 5000 * Tenth
             /\ \A c \in Bands : c # b => c.high <= b.low \/ b.high <= c.low
  BY SMT DEF Bands, Tenth
<1>2. ASSUME NEW b \in Bands, w > b.low, w <= b.high
      PROVE  AqiOf(w) = Line(b, w)
  <2>1. ~(w >= 0 /\ w <= 154 * Tenth) /\ ~(w > 5000 * Tenth)
    BY <1>1, <1>2, SMT DEF Tenth
  <2>2. Band(w) \in Bands /\ w > Band(w).low /\ w <= Band(w).high
    BY <1>2 DEF Band
  <2>3. Band(w) = b
    BY <1>1, <1>2, <2>2
  <2>4. \E c \in Bands : w > c.low /\ w <= c.high
    BY <1>2
  <2>5. AqiOf(w) = Line(Band(w), w)
    BY <2>1, <2>4 DEF AqiOf, Band, Line
  <2> QED
    BY <2>3, <2>5
<1>3. w <= 155 * Tenth \/ w > 5000 * Tenth => ~\E b \in Bands : w > b.low /\ w <= b.high
  BY <1>1, SMT DEF Tenth
<1>4. First(w) => AqiOf(w) = (10 * w) \div (31 * Tenth)
  <2> SUFFICES ASSUME w >= 0, w <= 154 * Tenth PROVE AqiOf(w) = (10 * w) \div (31 * Tenth)
    BY DEF First
  <2>1. w <= 155 * Tenth /\ ~(w > 5000 * Tenth)
    BY SMT DEF Tenth
  <2> QED
    BY <1>3, <2>1 DEF AqiOf
<1>5. Above(w, 5000) => AqiOf(w) = Up(w, 500, 5000, 10)
  <2> SUFFICES ASSUME w > 5000 * Tenth PROVE AqiOf(w) = Up(w, 500, 5000, 10)
    BY DEF Above
  <2>1. ~(w >= 0 /\ w <= 154 * Tenth)
    BY SMT DEF Tenth
  <2> QED
    BY <1>3, <2>1 DEF AqiOf, Up
<1>6. w < 0 \/ InGap(w) => AqiOf(w) = -1
  <2> SUFFICES ASSUME w < 0 \/ InGap(w) PROVE AqiOf(w) = -1
    OBVIOUS
  <2>1. /\ ~(w >= 0 /\ w <= 154 * Tenth) /\ ~(w > 5000 * Tenth)
        /\ w <= 155 * Tenth
    BY SMT DEF InGap, Within, Above, Tenth
  <2> QED
    BY <1>3, <2>1 DEF AqiOf
<1>7. Within(w, 155, 405) => AqiOf(w) = Up(w, 50, 155, 5)
  <2> DEFINE b == [low |-> 155 * Tenth, high |-> 405 * Tenth,
                   base |-> 50, step |-> 5 * Tenth]
  <2>1. b \in Bands
    BY DEF Bands
  <2> QED
    BY <1>2, <2>1 DEF Line, Base, Within, Above, Up
<1>8. Within(w, 405, 655) => AqiOf(w) = Up(w, 100, 405, 5)
  <2> DEFINE b == [low |-> 405 * Tenth, high |-> 655 * Tenth,
                   base |-> 100, step |-> 5 * Tenth]
  <2>1. b \in Bands
    BY DEF Bands
  <2> QED
    BY <1>2, <2>1 DEF Line, Base, Within, Above, Up
<1>9. Within(w, 655, 1505) => AqiOf(w) = Up(w, 150, 655, 17)
  <2> DEFINE b == [low |-> 655 * Tenth, high |-> 1505 * Tenth,
                   base |-> 150, step |-> 17 * Tenth]
  <2>1. b \in Bands
    BY DEF Bands
  <2> QED
    BY <1>2, <2>1 DEF Line, Base, Within, Above, Up
<1>10. Within(w, 1505, 2505) => AqiOf(w) = Up(w, 200, 1505, 10)
  <2> DEFINE b == [low |-> 1505 * Tenth, high |-> 2505 * Tenth,
                   base |-> 200, step |-> 10 * Tenth]
  <2>1. b \in Bands
    BY DEF Bands
  <2> QED
    BY <1>2, <2>1 DEF Line, Base, Within, Above, Up
<1>11. Within(w, 2505, 3505) => AqiOf(w) = Up(w, 300, 2505, 10)
  <2> DEFINE b == [low |-> 2505 * Tenth, high |-> 3505 * Tenth,
                   base |-> 300, step |-> 10 * Tenth]
  <2>1. b \in Bands
    BY DEF Bands
  <2> QED
    BY <1>2, <2>1 DEF Line, Base, Within, Above, Up
<1>12. Within(w, 3505, 5000) => AqiOf(w) = Up(w, 400, 3505, 15)
  <2> DEFINE b == [low |-> 3505 * Tenth, high |-> 5000 * Tenth,
                   base |-> 400, step |-> 15 * Tenth]
  <2>1. b \in Bands
    BY DEF Bands
  <2> QED
    BY <1>2, <2>1 DEF Line, Base, Within, Above, Up
<1> QED
  BY <1>4, <1>5, <1>6, <1>7, <1>8, <1>9, <1>10, <1>11, <1>12

\* What each band gives lies between its base and the base of the next.
LEMMA AqiWithin ==
  ASSUME NEW w \in Int, AqiOf(w) >= 0
  PROVE  /\ AqiOf(w) \in Int
         /\ w >= 0 /\ ~InGap(w)
         /\ First(w) => AqiOf(w) <= 50
         /\ Within(w, 155, 405) => AqiOf(w) >= 50 /\ AqiOf(w) <= 100
         /\ Within(w, 405, 655) => AqiOf(w) >= 100 /\ AqiOf(w) <= 150
         /\ Within(w, 655, 1505) => AqiOf(w) >= 150 /\ AqiOf(w) <= 200
         /\ Within(w, 1505, 2505) => AqiOf(w) >= 200 /\ AqiOf(w) <= 300
         /\ Within(w, 2505, 3505) => AqiOf(w) >= 300 /\ AqiOf(w) <= 400
         /\ Within(w, 3505, 5000) => AqiOf(w) >= 400 /\ AqiOf(w) <= 500
         /\ Above(w, 5000) => AqiOf(w) >= 500
BY AqiIs, SMT DEF First, Within, Above, InGap, Up, Tenth

\* A larger weight never has a smaller number.
LEMMA AqiRises ==
  ASSUME NEW v \in Int, NEW w \in Int, v <= w, AqiOf(v) >= 0, AqiOf(w) >= 0
  PROVE  AqiOf(v) <= AqiOf(w)
<1> USE DEF First, Within, Above, InGap, Up, Tenth
<1>1. CASE First(w)
  BY <1>1, AqiIs, AqiWithin, SMT
<1>2. CASE Above(v, 155) /\ w <= 405 * Tenth
  BY <1>2, AqiIs, SMT
<1>3. CASE Above(v, 405) /\ w <= 655 * Tenth
  BY <1>3, AqiIs, SMT
<1>4. CASE Above(v, 655) /\ w <= 1505 * Tenth
  BY <1>4, AqiIs, SMT
<1>5. CASE Above(v, 1505) /\ w <= 2505 * Tenth
  BY <1>5, AqiIs, SMT
<1>6. CASE Above(v, 2505) /\ w <= 3505 * Tenth
  BY <1>6, AqiIs, SMT
<1>7. CASE Above(v, 3505) /\ w <= 5000 * Tenth
  BY <1>7, AqiIs, SMT
<1>8. CASE Above(v, 5000)
  BY <1>8, AqiIs, SMT
<1>9. CASE \E e \in {155, 405, 655, 1505, 2505, 3505, 5000} : ~Above(v, e) /\ Above(w, e)
  BY <1>9, AqiWithin, SMT
<1> QED
  BY <1>1, <1>2, <1>3, <1>4, <1>5, <1>6, <1>7, <1>8, <1>9, AqiWithin, SMT

-----------------------------------------------------------------------------
(* More dust, larger number. *)

\* The types hold before the first window.
LEMMA TypeInit == Init => TypeOK
BY DEF Init, TypeOK, Channel, NaN

\* Every step keeps them.
LEMMA TypeNext == TypeOK /\ [Next]_vars => TypeOK'
<1> SUFFICES ASSUME TypeOK, [Next]_vars PROVE TypeOK'
  OBVIOUS
<1>1. ASSUME NEW i \in Channel, NEW x \in Ratios, NewRatio(i, x) PROVE TypeOK'
  BY <1>1, CurveAssumption DEF TypeOK, NewRatio
<1>2. ASSUME NEW c \in Coeffs, SetCoeff(c) PROVE TypeOK'
  BY <1>2, CurveAssumption DEF TypeOK, SetCoeff
<1>3. CASE UNCHANGED vars
  BY <1>3 DEF TypeOK, vars
<1> QED
  BY <1>1, <1>2, <1>3 DEF Next

\* The weight of a channel, from its ratio.
Weight(r, c) ==
  LET x == r \div c
  IN  IF Curve(x) < 0 THEN 0 ELSE Curve(x)

\* A larger ratio never has a smaller weight, clipped at 0 or not.
LEMMA WeightRises ==
  ASSUME NEW c \in Nat \ {0}, NEW r \in Nat, NEW s \in Nat, r <= s
  PROVE  Weight(r, c) <= Weight(s, c) /\ Weight(r, c) \in Int /\ Weight(s, c) \in Int
<1>1. /\ r \div c \in Nat /\ s \div c \in Nat
      /\ r \div c <= s \div c
  BY RatioMonotone
<1>2. /\ Curve(r \div c) <= Curve(s \div c)
      /\ Curve(r \div c) \in Int /\ Curve(s \div c) \in Int
  BY <1>1, CurveRises
<1> QED
  BY <1>2 DEF Weight

\* A number that is shown was computed from two weights.
Weighed ==
  /\ coeff \in Nat \ {0} /\ \A i \in Channel : lastLowRatio[i] \in Nat
  /\ AQI = AqiOf(Weight(lastLowRatio[0], coeff) - Weight(lastLowRatio[1], coeff))

LEMMA ShownIsWeighed == TypeOK /\ AQI >= 0 => Weighed
<1> SUFFICES ASSUME TypeOK, AQI >= 0 PROVE Weighed
  OBVIOUS
<1>1. ~Undefined /\ AQI = AqiOf(Difference)
  BY DEF AQI
<1>2. \A i \in Channel : lastLowRatio[i] # NaN /\ coeff # 0
  <2>1. ASSUME NEW i \in Channel, lastLowRatio[i] = NaN \/ coeff = 0
        PROVE  FALSE
    <3>1. LowRatio(i) = NaN
      BY <2>1 DEF LowRatio
    <3>2. ParticalWeight(i) = NaN
      BY <3>1 DEF ParticalWeight
    <3> QED
      BY <1>1, <3>2 DEF Undefined
  <2> QED
    BY <2>1
<1>3. ASSUME NEW i \in Channel
      PROVE  /\ lastLowRatio[i] \in Nat /\ coeff \in Nat \ {0}
             /\ ParticalWeight(i) = Weight(lastLowRatio[i], coeff)
  <2>1. lastLowRatio[i] \in Nat /\ coeff \in Nat \ {0}
    BY <1>2 DEF TypeOK, Channel
  <2>2. LowRatio(i) = lastLowRatio[i] \div coeff
    BY <1>2 DEF LowRatio
  <2>3. LowRatio(i) # NaN
    BY <2>1, <2>2, RatioMonotone DEF NaN
  <2> QED
    BY <2>1, <2>2, <2>3 DEF ParticalWeight, Weight
<1> QED
  BY <1>1, <1>3 DEF Weighed, Difference, Channel

\* When the ratio of channel 0 rises and nothing else changes, an AQI shown
\* before and after does not fall (getParticalWeight and getAQI, through the
\* polynomial, the clipping at 0, and every band edge): for all ratios and
\* coefficients.
THEOREM DustRaisesAqi == Spec => MoreDustMoreAqi
<1>1. Init => TypeOK
  BY TypeInit
<1>2. TypeOK /\ [Next]_vars => TypeOK'
  BY TypeNext
<1> DEFINE Rises ==
      (/\ AQI >= 0 /\ AQI' >= 0 /\ coeff' = coeff
       /\ lastLowRatio'[1] = lastLowRatio[1]
       /\ lastLowRatio'[0] >= lastLowRatio[0])
      => AQI' >= AQI
<1>3. TypeOK /\ TypeOK' => Rises
  <2> SUFFICES ASSUME TypeOK, TypeOK', AQI >= 0, AQI' >= 0, coeff' = coeff,
                      lastLowRatio'[1] = lastLowRatio[1],
                      lastLowRatio'[0] >= lastLowRatio[0]
               PROVE  AQI' >= AQI
    OBVIOUS
  <2> DEFINE r  == lastLowRatio[0]
             r1 == lastLowRatio'[0]
             s  == lastLowRatio[1]
             c  == coeff
  <2>1. /\ c \in Nat \ {0} /\ r \in Nat /\ s \in Nat
        /\ AQI = AqiOf(Weight(r, c) - Weight(s, c))
    BY ShownIsWeighed DEF Weighed, Channel
  <2>2. /\ r1 \in Nat
        /\ AQI' = AqiOf(Weight(r1, c) - Weight(s, c))
    <3>1. /\ coeff' \in Nat \ {0} /\ \A i \in Channel : lastLowRatio'[i] \in Nat
          /\ AQI' = AqiOf(Weight(r1, coeff') - Weight(lastLowRatio'[1], coeff'))
      <4>1. (TypeOK /\ AQI >= 0 => Weighed)'
        BY ShownIsWeighed, PTL
      <4>2. Weighed'
        BY <4>1
      <4> QED
        BY <4>2 DEF Weighed, Weight, Curve
    <3> QED
      BY <3>1 DEF Channel
  <2>3. r <= r1
    OBVIOUS
  <2> DEFINE v == Weight(r, c) - Weight(s, c)
             w == Weight(r1, c) - Weight(s, c)
  <2> HIDE DEF r, r1, s, c
  <2>4. v \in Int /\ w \in Int /\ v <= w
    BY <2>1, <2>2, <2>3, WeightRises
  <2>5. AqiOf(v) >= 0 /\ AqiOf(w) >= 0
    BY <2>1, <2>2
  <2> HIDE DEF v, w
  <2>6. AqiOf(v) <= AqiOf(w)
    BY <2>4, <2>5, AqiRises
  <2>7. AqiOf(v) \in Int /\ AqiOf(w) \in Int
    BY <2>4, <2>5, AqiWithin
  <2> QED
    BY <2>1, <2>2, <2>6, <2>7 DEF v, w
<1>4. TypeOK /\ TypeOK' => [Rises]_vars
  BY <1>3
<1> QED
  BY <1>1, <1>2, <1>4, PTL DEF Spec, MoreDustMoreAqi

-----------------------------------------------------------------------------
(* When there is no number. *)

\* Either a channel has no ratio, or the coefficient is 0, or channel 1 has the
\* larger weight, or the difference falls between the first band and the second.
MinusOneIs ==
  AQI = -1 <=> \/ \E i \in Channel : lastLowRatio[i] = NaN
               \/ coeff = 0
               \/ Difference < 0 \/ InGap(Difference)

\* Every other weight has a number.
LEMMA NumberFrom0 ==
  ASSUME NEW w \in Int
  PROVE  AqiOf(w) = -1 <=> w < 0 \/ InGap(w)
<1>1. CASE w < 0 \/ InGap(w)
  BY <1>1, AqiIs
<1>2. CASE w >= 0 /\ ~InGap(w)
  BY <1>2, AqiIs, SMT DEF First, Within, Above, InGap, Up, Tenth
<1> QED
  BY <1>1, <1>2

\* What finding 4.1 of the README shows by examples, for all ratios and
\* coefficients: -1 is shown (getAQI) in these cases, and in no other.
THEOREM MinusOneMeans == Spec => []MinusOneIs
<1>1. TypeOK => MinusOneIs
  <2> SUFFICES ASSUME TypeOK PROVE MinusOneIs
    OBVIOUS
  <2>1. CASE coeff = 0 \/ \E i \in Channel : lastLowRatio[i] = NaN
    <3>1. PICK i \in Channel : LowRatio(i) = NaN
      BY <2>1 DEF LowRatio, Channel
    <3>2. Undefined
      BY <3>1 DEF ParticalWeight, Undefined
    <3> QED
      BY <2>1, <3>2 DEF AQI, MinusOneIs
  <2>2. CASE coeff # 0 /\ \A i \in Channel : lastLowRatio[i] # NaN
    <3>1. ASSUME NEW i \in Channel
          PROVE  ParticalWeight(i) \in Nat
      <4>1. lastLowRatio[i] \in Nat /\ coeff \in Nat \ {0}
        BY <2>2 DEF TypeOK
      <4>2. LowRatio(i) = lastLowRatio[i] \div coeff
        BY <2>2 DEF LowRatio
      <4>3. LowRatio(i) # NaN
        BY <4>1, <4>2, RatioMonotone DEF NaN
      <4>4. ParticalWeight(i) = Weight(lastLowRatio[i], coeff)
        BY <4>2, <4>3 DEF ParticalWeight, Weight
      <4>5. Weight(lastLowRatio[i], coeff) \in Int
        BY <4>1, WeightRises
      <4>6. Weight(lastLowRatio[i], coeff) < 0 => FALSE
        BY <4>5 DEF Weight
      <4> QED
        BY <4>4, <4>5, <4>6
    <3>2. ~Undefined
      BY <3>1 DEF Undefined, NaN
    <3>3. Difference \in Int
      BY <3>1 DEF Difference, Channel
    <3> QED
      BY <2>2, <3>2, <3>3, NumberFrom0 DEF AQI, MinusOneIs
  <2> QED
    BY <2>1, <2>2
<1> QED
  BY <1>1, TypeInit, TypeNext, PTL DEF Spec

=============================================================================
