----------------------------- MODULE SlidingMean -----------------------------
(***************************************************************************)
(* What the sliding filter of DSM501.cpp promises: per channel, the        *)
(* reported quotient is the mean of the totals of the last Windows closed  *)
(* windows, or of all of them while there are fewer.                       *)
(***************************************************************************)
EXTENDS Integers, Sequences

CONSTANTS
  Channel,   \* the sensor's channels
  Windows,   \* how many windows the mean covers
  Total      \* what a window can hold

VARIABLES
  recent,    \* the last closed totals of each channel, oldest first
  mean       \* the reported quotient of each channel, [sum, n]; n = 0 before any

vars == <<recent, mean>>

SumOf(s) ==
  LET upTo[k \in 0 .. Len(s)] == IF k = 0 THEN 0 ELSE upTo[k - 1] + s[k]
  IN  upTo[Len(s)]
LastOf(s) == IF Len(s) <= Windows THEN s ELSE Tail(s)
MeanOf(s) == [sum |-> SumOf(s), n |-> Len(s)]

Init ==
  /\ recent = [i \in Channel |-> <<>>]
  /\ mean = [i \in Channel |-> MeanOf(<<>>)]

Close(i, t) ==
  LET s == LastOf(Append(recent[i], t))
  IN  /\ recent' = [recent EXCEPT ![i] = s]
      /\ mean' = [mean EXCEPT ![i] = MeanOf(s)]

Next == \E i \in Channel, t \in Total : Close(i, t)

Spec == Init /\ [][Next]_vars

=============================================================================
