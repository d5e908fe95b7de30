----------------------------- MODULE MCAqiCurve -----------------------------
(* The weight curve on small ratios one by one and larger ones in steps, in  *)
(* tenths of a percent: the weights reach every band and the extension above *)
(* 500.  0.186 % has a weight in the gap between 15.4 and 15.5.              *)
EXTENDS AqiCurve

Tenths   == 0 .. 8 \cup {2 * k + 1 : k \in 4 .. 29}
MCRatios == {100 * t : t \in Tenths} \cup {186}

=============================================================================
