------------------------------ MODULE AqiCurve ------------------------------
(***************************************************************************)
(* From low ratios to the number on the display: getParticalWeight and     *)
(* getAQI of DSM501.cpp.                                                   *)
(*                                                                         *)
(* The state is what getLowRatio would return: per channel the last mean   *)
(* ratio and the coefficient that divides it.  Floating point is done in   *)
(* integers, rounded down: ratios in thousandths of a percent, weights in  *)
(* millionths of a ug/m3.  NAN is the value NaN.                           *)
(***************************************************************************)
EXTENDS Integers

CONSTANTS
  Ratios,     \* the ratios a closed window may give
  Coeffs      \* the coefficients tried

NaN     == -1
Channel == {0, 1}

\* Up to 48 % the index fits the int that getAQI returns.
ASSUME CurveAssumption ==
  /\ \A x \in Ratios : x \in Nat /\ x <= 48000
  /\ Coeffs \subseteq 0 .. 255

VARIABLES
  lastLowRatio,  \* _lastLowRatio, per channel
  coeff          \* _coeff

vars == <<lastLowRatio, coeff>>

-----------------------------------------------------------------------------
\* Mutant: the coefficient multiplies.
LowRatioTimes(i) ==
  IF lastLowRatio[i] = NaN \/ coeff = 0 THEN NaN ELSE lastLowRatio[i] * coeff

\* A zero coefficient gives 0/0 or an infinity, and the polynomial of an
\* infinity (inf - inf) is not a number either.
LowRatio(i) ==
  IF lastLowRatio[i] = NaN \/ coeff = 0 THEN NaN ELSE lastLowRatio[i] \div coeff

\* y = 0.30473 x^3 - 2.63943 x^2 + 102.60291 x - 3.49616, by Horner's rule;
\* every line in a power of ten that fits an integer.
Curve(x) ==
  LET a == 30473 * x - 263943000
      b == (a \div 10000) * x + 1026029100
  IN  (b \div 10000) * x - 3496160

ParticalWeight(i) ==
  CASE LowRatio(i) = NaN -> NaN
    [] LowRatio(i) # NaN -> LET w == Curve(LowRatio(i)) IN IF w < 0 THEN 0 ELSE w

Tenth == 100000 \* a tenth of a ug/m3

\* The bands, as [low, high, base, step]: a weight w in (low, high] maps to
\* base + (int)(slope * (w - low)); every step of weight makes it one more.
Bands ==
  { [low |->  155 * Tenth, high |->  405 * Tenth, base |->  50, step |->  5 * Tenth],
    [low |->  405 * Tenth, high |->  655 * Tenth, base |-> 100, step |->  5 * Tenth],
    [low |->  655 * Tenth, high |-> 1505 * Tenth, base |-> 150, step |-> 17 * Tenth],
    [low |-> 1505 * Tenth, high |-> 2505 * Tenth, base |-> 200, step |-> 10 * Tenth],
    [low |-> 2505 * Tenth, high |-> 3505 * Tenth, base |-> 300, step |-> 10 * Tenth],
    [low |-> 3505 * Tenth, high |-> 5000 * Tenth, base |-> 400, step |-> 15 * Tenth] }

BaseShifted(b) == IF b.base = 150 THEN 100 ELSE b.base \* mutant: a wrong band base
Base(b) == b.base

\* The first band is closed at 0 and ends at 15.4; the second begins above 15.5.
AqiOf(w) ==
  CASE w >= 0 /\ w <= 154 * Tenth -> (10 * w) \div (31 * Tenth)
    [] \E b \in Bands : w > b.low /\ w <= b.high ->
         LET b == CHOOSE b \in Bands : w > b.low /\ w <= b.high
         IN  Base(b) + (w - b.low) \div b.step
    [] w > 5000 * Tenth -> 500 + (w - 5000 * Tenth) \div (10 * Tenth)
    [] OTHER -> -1

Undefined == \E i \in Channel : ParticalWeight(i) = NaN
Difference == ParticalWeight(0) - ParticalWeight(1)
AQI == IF Undefined THEN -1 ELSE AqiOf(Difference)

-----------------------------------------------------------------------------
Init ==
  /\ lastLowRatio = [i \in Channel |-> NaN]
  /\ coeff = 1

\* getLowRatio closes a window of one channel.
NewRatio(i, x) ==
  /\ lastLowRatio' = [lastLowRatio EXCEPT ![i] = x]
  /\ UNCHANGED coeff

SetCoeff(c) ==
  /\ coeff' = c
  /\ UNCHANGED lastLowRatio

Next ==
  \/ \E i \in Channel, x \in Ratios : NewRatio(i, x)
  \/ \E c \in Coeffs : SetCoeff(c)

Spec == Init /\ [][Next]_vars

-----------------------------------------------------------------------------
(* Properties. *)

\* More dust, larger number: when the ratio of channel 0 rises and nothing
\* else changes, an AQI that is shown before and after does not fall, across
\* every band edge.
MoreDustMoreAqi ==
  [][ (/\ AQI >= 0 /\ AQI' >= 0 /\ coeff' = coeff
       /\ lastLowRatio'[1] = lastLowRatio[1]
       /\ lastLowRatio'[0] >= lastLowRatio[0])
      => AQI' >= AQI ]_vars

\* The coefficient only damps: a larger one never shows a larger AQI, although
\* it divides both ratios of a difference of two cubics (one unit of slack for
\* the rounding of this model).
CoeffOnlyDamps ==
  [][ (/\ AQI >= 0 /\ AQI' >= 0 /\ lastLowRatio' = lastLowRatio
       /\ coeff' >= coeff)
      => AQI' <= AQI + 1 ]_vars

\* DSM501.cpp:148 comments the value -1 with "Initializing".
MinusOneMeansInitializing ==
  AQI = -1 => \E i \in Channel : lastLowRatio[i] = NaN

=============================================================================
