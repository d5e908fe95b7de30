--------------------------- MODULE DSM501MeanProofs ---------------------------
(***************************************************************************)
(* The averaging ring of the dust sensor driver is the mean of the last    *)
(* closed windows: DSM501 implements SlidingMean, for every size of the    *)
(* ring and every clock in whose word the sum of a full ring fits.         *)
(***************************************************************************)
EXTENDS DSM501Proofs, WellFoundedInduction

SumOf(s) == Mean!SumOf(s)

\* What a closed window holds at most, and what the clock's word must hold.
WindowBound  == MIN_WIN_SPAN + MaxReadGap + MAX_SIG_SPAN - 1
FullRingFits == SAF_WIN_MAX * WindowBound < ClockMod

\* The end of warm-up: both resets, then the second one.
ResetCalls == {Both("reset"), <<Do("reset", PM25_IDX)>>}

\* After warm-up no channel is left unread for longer than MaxReadGap.  This
\* begins with the resets, which come after WarmUp.
ReadInTime ==
  /\ todo \in ResetCalls \/ \A k \in 1 .. Len(todo) : todo[k].op # "reset"
  /\ todo \in ResetCalls => millis >= WarmUp
  /\ todo = <<Do("reset", PM25_IDX)>> => since[PM10_IDX] + WarmUp <= millis
  /\ phase = "run" => \A i \in Channel : since[i] <= MaxReadGap

\* The ring of channel i: no entry is larger than a window, those not yet used
\* are 0, and the sum is that of the closed windows.
RingHolds(i) ==
  /\ \A j \in 0 .. SAF_WIN_MAX - 1 : saf_ent[i][j] <= WindowBound
  /\ saf_idx[i] < SAF_WIN_MAX =>
       \A j \in 0 .. SAF_WIN_MAX - 1 : j = 0 \/ j > saf_idx[i] => saf_ent[i][j] = 0
  /\ saf_sum[i] = SumOf(Recent(i))
  /\ lastLowRatio[i] = [sum |-> saf_sum[i], n |-> Divisor(saf_idx[i])]

RingInv == IInv /\ ReadInTime /\ \A i \in Channel : RingHolds(i)

-----------------------------------------------------------------------------
(* Induction, for sets of numbers. *)

\* A set that holds 0, and with each number the next, holds them all.
LEMMA SetInduction ==
  ASSUME NEW S, 0 \in S, \A n \in Nat : n \in S => n + 1 \in S
  PROVE  Nat \subseteq S
<1> DEFINE R == {p \in Nat \X Nat : p[1] < p[2]}
           T == Nat \ S
<1>1. IsWellFoundedOn(R, Nat)
  BY NatLessThanWellFounded, Zenon DEF OpToRel
<1>2. SUFFICES ASSUME T # {} PROVE FALSE
  OBVIOUS
<1>3. PICK x \in T : \A y \in T : ~ (<<y, x>> \in R)
  BY <1>1, <1>2, WFMin, Zenon
<1>4. x # 0
  OBVIOUS
<1>5. x - 1 \in Nat /\ <<x - 1, x>> \in R
  BY <1>4
<1>6. x - 1 \in S
  BY <1>3, <1>5
<1> QED
  BY <1>5, <1>6

-----------------------------------------------------------------------------
(* Sums. *)

\* f holds the sums of the first n elements of s, one by one.
Sums(f, s, n) ==
  /\ f[0] = 0
  /\ \A k \in 1 .. n : f[k] = f[k - 1] + s[k]
  /\ \A k \in 0 .. n : f[k] \in Int

\* Every front part of a sequence has its sums.
LEMMA SumsExist ==
  ASSUME NEW s \in Seq(Int), NEW m \in Nat
  PROVE  m <= Len(s) => \E f : Sums(f, s, m)
<1> DEFINE S == {n \in Nat : n <= Len(s) => \E f : Sums(f, s, n)}
<1>1. 0 \in S
  <2>1. Sums([k \in {0} |-> 0], s, 0)
    BY DEF Sums
  <2> QED
    BY <2>1
<1>2. ASSUME NEW n \in Nat, n \in S PROVE n + 1 \in S
  <2>1. SUFFICES ASSUME n + 1 <= Len(s) PROVE \E f : Sums(f, s, n + 1)
    OBVIOUS
  <2>2. Len(s) \in Nat
    BY LenProperties
  <2>3. PICK f : Sums(f, s, n)
    BY <1>2, <2>1, <2>2
  <2>4. s[n + 1] \in Int
    <3>1. n + 1 \in 1 .. Len(s)
      BY <2>1, <2>2
    <3> QED
      BY <3>1, ElementOfSeq
  <2> DEFINE g == [k \in 0 .. n + 1 |-> IF k = n + 1 THEN f[n] + s[n + 1] ELSE f[k]]
  <2>5. /\ \A k \in 0 .. n : g[k] = f[k]
        /\ g[n + 1] = f[n] + s[n + 1]
    OBVIOUS
  <2> HIDE DEF g
  <2>6. g[0] = 0 /\ f[n] \in Int
    BY <2>3, <2>5 DEF Sums
  <2>7. ASSUME NEW k \in 0 .. n + 1 PROVE g[k] \in Int
    <3>1. CASE k = n + 1
      BY <2>4, <2>5, <2>6, <3>1
    <3>2. CASE k # n + 1
      <4>1. k \in 0 .. n
        BY <3>2
      <4> QED
        BY <2>3, <2>5, <4>1 DEF Sums
    <3> QED
      BY <3>1, <3>2
  <2>8. ASSUME NEW k \in 1 .. n + 1 PROVE g[k] = g[k - 1] + s[k]
    <3>1. CASE k = n + 1
      BY <2>5, <3>1
    <3>2. CASE k # n + 1
      <4>1. k \in 1 .. n /\ k \in 0 .. n /\ k - 1 \in 0 .. n
        BY <3>2
      <4> QED
        BY <2>3, <2>5, <4>1 DEF Sums
    <3> QED
      BY <3>1, <3>2
  <2>9. Sums(g, s, n + 1)
    BY <2>6, <2>7, <2>8 DEF Sums
  <2> QED
    BY <2>9
<1>3. m \in S
  <2> HIDE DEF S
  <2>1. Nat \subseteq S
    BY <1>1, <1>2, SetInduction
  <2> QED
    BY <2>1
<1> QED
  BY <1>3

\* The recursive definition of SumOf is the last of these sums.
LEMMA SumIs ==
  ASSUME NEW s \in Seq(Int), NEW f, Sums(f, s, Len(s))
  PROVE  SumOf(s) = f[Len(s)]
<1> DEFINE def(h) == [k \in 0 .. Len(s) |-> IF k = 0 THEN 0 ELSE h[k - 1] + s[k]]
           upTo == CHOOSE h : h = def(h)
<1>0. Len(s) \in Nat
  BY LenProperties
<1>1. SumOf(s) = upTo[Len(s)]
  BY DEF SumOf, Mean!SumOf
<1>2. upTo = def(upTo)
  <2> DEFINE g == [k \in 0 .. Len(s) |-> f[k]]
  <2>1. ASSUME NEW k \in 0 .. Len(s) PROVE g[k] = def(g)[k]
    <3>1. CASE k = 0
      BY <3>1 DEF Sums
    <3>2. CASE k # 0
      <4>1. k \in 1 .. Len(s) /\ k - 1 \in 0 .. Len(s)
        BY <1>0, <3>2
      <4> QED
        BY <3>2, <4>1 DEF Sums
    <3> QED
      BY <3>1, <3>2
  <2>2. g = def(g)
    BY <2>1
  <2> HIDE DEF g, def
  <2> QED
    BY <2>2
<1> HIDE DEF upTo
<1>3. upTo[0] = 0 /\ \A k \in 1 .. Len(s) : upTo[k] = upTo[k - 1] + s[k]
  <2>1. \A k \in 0 .. Len(s) : upTo[k] = IF k = 0 THEN 0 ELSE upTo[k - 1] + s[k]
    BY <1>2
  <2> QED
    BY <1>0, <2>1
<1> DEFINE S == {n \in Nat : n <= Len(s) => upTo[n] = f[n]}
<1>4. 0 \in S
  BY <1>3 DEF Sums
<1>5. ASSUME NEW n \in Nat, n \in S PROVE n + 1 \in S
  <2>1. SUFFICES ASSUME n + 1 <= Len(s) PROVE upTo[n + 1] = f[n + 1]
    OBVIOUS
  <2>2. n + 1 \in 1 .. Len(s) /\ upTo[n] = f[n] /\ (n + 1) - 1 = n
    BY <1>0, <1>5, <2>1
  <2> QED
    BY <1>3, <2>2 DEF Sums
<1>6. Len(s) \in S
  <2> HIDE DEF S
  <2>1. Nat \subseteq S
    BY <1>4, <1>5, SetInduction
  <2> QED
    BY <1>0, <2>1
<1> QED
  BY <1>1, <1>6

\* A sum grows by what is appended and shrinks by what is taken from the front.
LEMMA SumOfAppend ==
  ASSUME NEW s \in Seq(Int), NEW t \in Int
  PROVE  SumOf(Append(s, t)) = SumOf(s) + t /\ SumOf(s) \in Int
<1> DEFINE m == Len(s)
           ap == Append(s, t)
<1>1. m \in Nat
  BY LenProperties
<1>2. PICK f : Sums(f, s, m)
  BY <1>1, SumsExist
<1>3. /\ ap \in Seq(Int) /\ Len(ap) = m + 1 /\ ap[m + 1] = t
      /\ \A k \in 1 .. m : ap[k] = s[k]
  BY AppendProperties
<1>4. SumOf(s) = f[m]
  BY <1>2, SumIs
<1> DEFINE g == [k \in 0 .. m + 1 |-> IF k = m + 1 THEN f[m] + t ELSE f[k]]
<1>5. (\A k \in 0 .. m : g[k] = f[k]) /\ g[m + 1] = f[m] + t
  BY <1>1
<1> HIDE DEF g, ap, m
<1>6. f[m] \in Int /\ g[0] = 0
  BY <1>1, <1>2, <1>5 DEF Sums
<1>7. ASSUME NEW k \in 0 .. m + 1 PROVE g[k] \in Int
  <2>1. CASE k = m + 1
    BY <1>5, <1>6, <2>1
  <2>2. CASE k # m + 1
    <3>1. k \in 0 .. m
      BY <1>1, <2>2
    <3> QED
      BY <1>2, <1>5, <3>1 DEF Sums
  <2> QED
    BY <2>1, <2>2
<1>8. ASSUME NEW k \in 1 .. m + 1 PROVE g[k] = g[k - 1] + ap[k]
  <2>1. CASE k = m + 1
    <3>1. m \in 0 .. m /\ k - 1 = m
      BY <1>1, <2>1
    <3> QED
      BY <1>3, <1>5, <2>1, <3>1
  <2>2. CASE k # m + 1
    <3>1. k \in 1 .. m /\ k \in 0 .. m /\ k - 1 \in 0 .. m
      BY <1>1, <2>2
    <3> QED
      BY <1>2, <1>3, <1>5, <3>1 DEF Sums
  <2> QED
    BY <2>1, <2>2
<1>9. Sums(g, ap, m + 1)
  BY <1>6, <1>7, <1>8 DEF Sums
<1>10. SumOf(ap) = g[m + 1]
  BY <1>3, <1>9, SumIs
<1> QED
  BY <1>4, <1>5, <1>6, <1>10 DEF ap

\* What Tail takes away is the first number.
LEMMA SumOfTail ==
  ASSUME NEW s \in Seq(Int), s # <<>>
  PROVE  SumOf(Tail(s)) = SumOf(s) - s[1]
<1> DEFINE m == Len(s) - 1
           tl == Tail(s)
<1>1. /\ tl \in Seq(Int) /\ Len(tl) = m
      /\ \A k \in 1 .. m : tl[k] = s[k + 1]
  <2>1. /\ tl \in Seq(Int) /\ Len(tl) = Len(s) - 1
        /\ \A k \in 1 .. Len(tl) : tl[k] = s[k + 1]
    BY HeadTailProperties
  <2> QED
    BY <2>1
<1>2. m \in Nat /\ Len(s) = m + 1
  BY LenProperties, EmptySeq
<1>3. PICK f : Sums(f, s, m + 1)
  BY <1>2, SumsExist
<1>4. SumOf(s) = f[m + 1]
  BY <1>2, <1>3, SumIs
<1>5. s[1] \in Int
  <2>1. 1 \in 1 .. Len(s)
    BY <1>2
  <2> QED
    BY <2>1, ElementOfSeq
<1> DEFINE g == [k \in 0 .. m |-> f[k + 1] - s[1]]
<1>6. \A k \in 0 .. m : g[k] = f[k + 1] - s[1]
  OBVIOUS
<1> HIDE DEF g, tl, m
<1>7. \A k \in 0 .. m + 1 : f[k] \in Int
  BY <1>3 DEF Sums
<1>8. g[0] = 0
  <2>1. f[1] = f[0] + s[1] /\ f[0] = 0
    <3>1. 1 \in 1 .. m + 1 /\ 1 - 1 = 0
      BY <1>2
    <3> QED
      BY <1>3, <3>1 DEF Sums
  <2>2. g[0] = f[1] - s[1]
    BY <1>2, <1>6
  <2> QED
    BY <1>5, <2>1, <2>2
<1>9. ASSUME NEW k \in 0 .. m PROVE g[k] \in Int
  <2>1. k + 1 \in 0 .. m + 1
    BY <1>2
  <2> QED
    BY <1>5, <1>6, <1>7, <2>1
<1>10. ASSUME NEW k \in 1 .. m PROVE g[k] = g[k - 1] + tl[k]
  <2>1. k + 1 \in 1 .. m + 1 /\ (k + 1) - 1 = k /\ k \in 0 .. m /\ k - 1 \in 0 .. m
        /\ k \in 0 .. m + 1 /\ (k - 1) + 1 = k
    BY <1>2
  <2>2. f[k + 1] = f[k] + s[k + 1]
    BY <1>3, <2>1 DEF Sums
  <2>3. g[k] = f[k + 1] - s[1] /\ g[k - 1] = f[k] - s[1]
    BY <1>6, <2>1
  <2>4. f[k] \in Int /\ s[k + 1] \in Int
    <3>1. s[k + 1] \in Int
      BY <1>2, <2>1, ElementOfSeq
    <3> QED
      BY <1>7, <2>1, <3>1
  <2>5. tl[k] = s[k + 1]
    BY <1>1
  <2> QED
    BY <1>5, <2>2, <2>3, <2>4, <2>5
<1>11. Sums(g, tl, m)
  BY <1>8, <1>9, <1>10 DEF Sums
<1>12. SumOf(tl) = g[m]
  BY <1>1, <1>11, SumIs
<1>13. g[m] = f[m + 1] - s[1]
  BY <1>2, <1>6
<1> QED
  BY <1>4, <1>12, <1>13 DEF tl

\* A sum of nonnegative numbers that are at most b.
LEMMA SumBounded ==
  ASSUME NEW b \in Nat, NEW s \in Seq(0 .. b)
  PROVE  SumOf(s) \in Nat /\ SumOf(s) <= Len(s) * b
<1>0. s \in Seq(Int) /\ Len(s) \in Nat
  BY SeqMonotonic, LenProperties
<1>1. PICK f : Sums(f, s, Len(s))
  BY <1>0, SumsExist
<1>2. SumOf(s) = f[Len(s)]
  BY <1>0, <1>1, SumIs
<1> DEFINE S == {n \in Nat : n <= Len(s) => f[n] \in Nat /\ f[n] <= n * b}
<1>3. 0 \in S
  BY <1>1 DEF Sums
<1>4. ASSUME NEW n \in Nat, n \in S PROVE n + 1 \in S
  <2>1. SUFFICES ASSUME n + 1 <= Len(s) PROVE f[n + 1] \in Nat /\ f[n + 1] <= (n + 1) * b
    OBVIOUS
  <2>2. n + 1 \in 1 .. Len(s) /\ f[n] \in Nat /\ f[n] <= n * b /\ (n + 1) - 1 = n
    BY <1>0, <1>4, <2>1
  <2>3. f[n + 1] = f[n] + s[n + 1]
    BY <1>1, <2>2 DEF Sums
  <2>4. s[n + 1] \in 0 .. b
    BY <2>2, ElementOfSeq
  <2>5. (n + 1) * b = n * b + b /\ n * b \in Nat
    OBVIOUS
  <2> QED
    BY <2>2, <2>3, <2>4, <2>5
<1>5. Len(s) \in S
  <2> HIDE DEF S
  <2>1. Nat \subseteq S
    BY <1>3, <1>4, SetInduction
  <2> QED
    BY <1>0, <2>1
<1> QED
  BY <1>2, <1>5

-----------------------------------------------------------------------------
(* Reads keep pace after warm-up. *)

\* The calls that are not the end of warm-up have no reset among their steps.
LEMMA OtherCalls ==
  ASSUME NEW s
  PROVE  /\ s \in Seq({t \in Step : t.op # "reset"}) =>
              s \notin ResetCalls /\ \A k \in 1 .. Len(s) : s[k].op # "reset"
         /\ s \in Seq(RunStep) => s \in Seq({t \in Step : t.op # "reset"})
         /\ s \in Seq(ReadStep) => s \in Seq({t \in Step : t.op # "reset"})
         /\ s = <<>> => s \in Seq({t \in Step : t.op # "reset"})
<1> DEFINE Other == {t \in Step : t.op # "reset"}
<1>1. ASSUME s \in Seq(Other) PROVE \A k \in 1 .. Len(s) : s[k].op # "reset"
  BY <1>1, ElementOfSeq
<1>2. \A c \in ResetCalls : 1 \in 1 .. Len(c) /\ c[1].op = "reset"
  BY DEF ResetCalls, Both, Do
<1>3. RunStep \subseteq Other /\ ReadStep \subseteq Other
  BY DEF RunStep, ReadStep
<1>4. s \in Seq(Other) => s \notin ResetCalls
  BY <1>1, <1>2
<1>5. /\ s \in Seq(RunStep) => s \in Seq(Other)
      /\ s \in Seq(ReadStep) => s \in Seq(Other)
      /\ s = <<>> => s \in Seq(Other)
  <2> HIDE DEF Other
  <2>1. s = <<>> => s \in Seq(Other)
    OBVIOUS
  <2> QED
    BY <1>3, <2>1, SeqMonotonic, Zenon
<1> HIDE DEF Other
<1> QED
  BY <1>1, <1>4, <1>5, Zenon DEF Other

\* Taking a step from the front of such a call.
LEMMA OtherTail ==
  ASSUME TypeOK, todo # <<>>, todo \notin ResetCalls, ReadInTime
  PROVE  /\ Tail(todo) \notin ResetCalls
         /\ \A k \in 1 .. Len(Tail(todo)) : Tail(todo)[k].op # "reset"
<1>1. \A k \in 1 .. Len(todo) : todo[k].op # "reset"
  BY DEF ReadInTime
<1>2. todo \in Seq({t \in Step : t.op # "reset"})
  <2>1. todo \in Seq(Step) /\ \A k \in 1 .. Len(todo) : todo[k] \in Step
    BY ElementOfSeq DEF TypeOK
  <2> DEFINE Other == {t \in Step : t.op # "reset"}
  <2>2. todo \in [1 .. Len(todo) -> Other]
    BY <1>1, <2>1, LenProperties
  <2>3. Len(todo) \in Nat
    BY <2>1, LenProperties
  <2> HIDE DEF Other
  <2>4. todo \in Seq(Other)
    BY <2>2, <2>3, SeqDef
  <2> QED
    BY <2>4 DEF Other
<1>3. Tail(todo) \in Seq({t \in Step : t.op # "reset"})
  BY <1>2, HeadTailProperties
<1> QED
  BY <1>3, OtherCalls

\* The two calls of the end of warm-up, and what Advance takes from them.
LEMMA ResetCallsAre ==
  /\ Both("reset") # <<Do("reset", PM25_IDX)>>
  /\ Both("reset") # <<>> /\ Head(Both("reset")) = Do("reset", PM10_IDX)
  /\ Tail(Both("reset")) = <<Do("reset", PM25_IDX)>>
  /\ Head(<<Do("reset", PM25_IDX)>>) = Do("reset", PM25_IDX)
  /\ Tail(<<Do("reset", PM25_IDX)>>) = <<>>
  /\ <<Do("reset", PM25_IDX)>> # <<>>
  /\ \A op, i : op # "reset" =>
                 Do(op, i) # Do("reset", PM10_IDX) /\ Do(op, i) # Do("reset", PM25_IDX)
  /\ Do("reset", PM10_IDX) # Do("reset", PM25_IDX)
BY DEF Both, Do, PM10_IDX, PM25_IDX

\* No step breaks the pace of the reads.
LEMMA InTimePreserved ==
  ASSUME IInv, ReadInTime, [Next]_vars
  PROVE  ReadInTime'
<1> DEFINE Plain(s) == s \notin ResetCalls /\ \A k \in 1 .. Len(s) : s[k].op # "reset"
<1>0. /\ TypeOK /\ StepsFitPhase
      /\ millis \in Nat /\ WarmUp \in Nat /\ MaxReadGap \in Nat /\ ClockMod \in Nat
      /\ WarmUp + MaxReadGap < ClockMod
      /\ \A i \in Channel : since[i] \in Nat
      /\ PM10_IDX \in Channel /\ PM25_IDX \in Channel
  <2>1. TypeOK /\ StepsFitPhase
    BY DEF IInv
  <2>2. PM10_IDX \in Channel /\ PM25_IDX \in Channel
    BY DEF Channel
  <2> QED
    <3>1. millis \in Nat /\ \A i \in Channel : since[i] \in Nat
      BY <2>1 DEF TypeOK, Word
    <3>2. /\ WarmUp \in Nat /\ MaxReadGap \in Nat /\ ClockMod \in Nat
          /\ WarmUp + MaxReadGap < ClockMod
      BY SpansAssumption
    <3> QED
      BY <2>1, <2>2, <3>1, <3>2
<1>1. ASSUME NEW s, s \in Seq(RunStep) \/ s \in Seq(ReadStep) \/ s = <<>> PROVE Plain(s)
  BY <1>1, OtherCalls
<1>2. phase = "run" => Plain(todo)
  <2>1. phase = "run" => todo \in Seq(RunStep)
    BY <1>0 DEF StepsFitPhase
  <2> QED
    BY <1>1, <2>1
<1>3. ASSUME todo' = todo, UNCHANGED <<phase, millis, since>> PROVE ReadInTime'
  BY <1>3 DEF ReadInTime, ResetCalls, Both
<1>4. ASSUME Plain(todo'), UNCHANGED <<phase, millis>>,
             \A i \in Channel : since'[i] = since[i] \/ since'[i] = 0
      PROVE  ReadInTime'
  <2>1. phase' = "run" => \A i \in Channel : since'[i] <= MaxReadGap
    BY <1>0, <1>4 DEF ReadInTime
  <2>2. todo' \notin ResetCalls /\ \A k \in 1 .. Len(todo') : todo'[k].op # "reset"
    BY <1>4
  <2> QED
    BY <2>1, <2>2 DEF ReadInTime, ResetCalls
<1>5. todo # <<>> /\ todo \notin ResetCalls => Plain(Tail(todo))
  BY <1>0, OtherTail
<1>6. ASSUME NEW op, NEW i, Pending(op, i), op # "reset" PROVE Plain(Tail(todo))
  <2>1. todo # <<>> /\ Head(todo) = Do(op, i)
    BY <1>6 DEF Pending
  <2>2. todo \notin ResetCalls
    BY <1>6, <2>1, ResetCallsAre DEF ResetCalls
  <2> QED
    BY <1>5, <2>1, <2>2
<1> HIDE DEF Plain
<1>7. CASE Tick
  <2>1. /\ UNCHANGED <<phase, todo>> /\ millis' = Plus(millis, 1)
        /\ \A i \in Channel : since'[i] = since[i] + 1
    BY <1>7 DEF Tick
  <2>2. CASE phase = "run"
    <3>1. Plain(todo')
      BY <1>2, <2>1, <2>2
    <3>2. \A i \in Channel : since'[i] <= MaxReadGap
      BY <1>0, <1>7, <2>1, <2>2 DEF Tick
    <3> QED
      BY <3>1, <3>2 DEF ReadInTime, ResetCalls, Plain
  <2>3. CASE phase # "run"
    <3>1. phase = "warmup" /\ phase' # "run"
      BY <1>0, <2>1, <2>3 DEF TypeOK
    <3>2. millis' = millis + 1
      BY <1>0, <1>7, <2>1, <3>1 DEF Tick, Plus
    <3>3. todo' \in ResetCalls => millis' >= WarmUp
      BY <1>0, <2>1, <3>2 DEF ReadInTime, ResetCalls
    <3>4. todo' = <<Do("reset", PM25_IDX)>> => since'[PM10_IDX] + WarmUp <= millis'
      BY <1>0, <2>1, <3>2 DEF ReadInTime
    <3>5. todo' \in ResetCalls \/ \A k \in 1 .. Len(todo') : todo'[k].op # "reset"
      BY <2>1 DEF ReadInTime, ResetCalls
    <3> QED
      BY <3>1, <3>3, <3>4, <3>5 DEF ReadInTime, ResetCalls
  <2> QED
    BY <2>2, <2>3
<1>8. CASE WarmUpPass
  <2>1. todo' = <<Do("serial", PM10_IDX)>> /\ UNCHANGED <<phase, millis, since>>
    BY <1>8 DEF WarmUpPass, Call
  <2>2. <<Do("serial", PM10_IDX)>> \in Seq({t \in Step : t.op # "reset"})
    BY DEF Do, Step, Channel
  <2>3. Plain(todo')
    BY <2>1, <2>2, OtherCalls DEF Plain
  <2> QED
    BY <1>4, <2>1, <2>3
<1>9. CASE LeaveWarmUp
  <2>1. /\ phase = "warmup" /\ millis >= WarmUp /\ todo' = Both("reset")
        /\ UNCHANGED <<phase, millis, since>>
    BY <1>9 DEF LeaveWarmUp, Call
  <2> QED
    BY <2>1, ResetCallsAre DEF ReadInTime, ResetCalls
<1>10. CASE Update
  <2>1. todo' = Both("poll") /\ UNCHANGED <<phase, millis, since>>
    BY <1>10 DEF Update, Call
  <2>2. Both("poll") \in Seq(RunStep)
    BY BothSteps, SeqMonotonic DEF RunStep
  <2> QED
    BY <1>1, <1>4, <2>1, <2>2
<1>11. CASE GetAQI \/ Report \/ WarmUpSerial
  <2>1. (todo' \in Seq(ReadStep) \/ todo' = <<>>) /\ UNCHANGED <<phase, millis, since>>
    BY <1>11, ReadCalls DEF GetAQI, Report, WarmUpSerial, Call
  <2> QED
    BY <1>1, <1>4, <2>1
<1>12. ASSUME NEW c \in Coeffs, SetCoeff(c) PROVE ReadInTime'
  BY <1>1, <1>4, <1>12 DEF SetCoeff
<1>13. ASSUME NEW i \in Channel, Advance(i) PROVE ReadInTime'
  <2>1. CASE OpenWindow(i)
    <3>1. /\ todo' = Tail(todo) /\ millis' = millis /\ todo # <<>>
          /\ phase' = IF Pending("reset", PM25_IDX) THEN "run" ELSE phase
          /\ since' = [since EXCEPT ![i] = 0]
          /\ Pending("begin", i) \/ Pending("reset", i)
          /\ phase = "warmup"
      <4>1. phase = "warmup"
        BY <2>1, TailOfTodo DEF OpenWindow, Pending, StepsFitPhase, RunStep, Do, IInv
      <4> QED
        BY <2>1, <4>1 DEF OpenWindow, Pending
    <3>2. \A j \in Channel : since'[j] = since[j] \/ since'[j] = 0
      BY <1>0, <3>1 DEF TypeOK
    <3>3. CASE todo = Both("reset")
      <4>1. Pending("reset", PM10_IDX) /\ ~Pending("reset", PM25_IDX) /\ i = PM10_IDX
        BY <3>1, <3>3, ResetCallsAre DEF Pending, Do
      <4>2. todo' = <<Do("reset", PM25_IDX)>> /\ phase' = "warmup" /\ since'[PM10_IDX] = 0
        BY <1>0, <3>1, <3>3, <4>1, ResetCallsAre DEF TypeOK
      <4>3. millis >= WarmUp
        BY <3>3 DEF ReadInTime, ResetCalls
      <4>4. since'[PM10_IDX] + WarmUp <= millis'
        BY <1>0, <3>1, <4>2, <4>3
      <4>5. todo' \in ResetCalls /\ ResetCalls' = ResetCalls
        BY <4>2 DEF ResetCalls, Both
      <4> QED
        BY <3>1, <4>2, <4>3, <4>4, <4>5 DEF ReadInTime
    <3>4. CASE todo = <<Do("reset", PM25_IDX)>>
      <4>1. Pending("reset", PM25_IDX) /\ i = PM25_IDX
        BY <3>1, <3>4, ResetCallsAre DEF Pending, Do
      <4>2. todo' = <<>> /\ since'[PM25_IDX] = 0 /\ since'[PM10_IDX] = since[PM10_IDX]
        BY <1>0, <3>1, <3>4, <4>1, ResetCallsAre DEF TypeOK, PM10_IDX, PM25_IDX
      <4>3. since[PM10_IDX] + WarmUp <= millis /\ millis <= WarmUp + MaxReadGap
        BY <3>1, <3>4 DEF ReadInTime, IInv, WarmUpClock
      <4>4. \A j \in Channel : since'[j] <= MaxReadGap
        BY <1>0, <4>2, <4>3 DEF Channel
      <4>5. Plain(todo')
        BY <1>1, <4>2
      <4> QED
        BY <4>4, <4>5 DEF ReadInTime, ResetCalls, Plain
    <3>5. CASE todo \notin ResetCalls
      <4>1. Plain(todo')
        BY <1>5, <3>1, <3>5
      <4>2. ~Pending("reset", PM25_IDX)
        <5>1. /\ Head(todo) = todo[1] /\ 1 \in 1 .. Len(todo)
          BY <1>0, <3>1, HeadTailProperties, LenProperties, EmptySeq DEF TypeOK
        <5>2. todo[1].op # "reset"
          BY <3>5, <5>1 DEF ReadInTime
        <5> QED
          BY <5>1, <5>2 DEF Pending, Do
      <4> QED
        BY <1>4, <3>1, <3>2, <4>1, <4>2
    <3> QED
      BY <3>3, <3>4, <3>5 DEF ResetCalls
  <2>2. CASE PollNothing(i) \/ SignalEnd(i)
    BY <1>4, <1>6, <2>2 DEF PollNothing, SignalEnd
  <2>3. CASE PulseSeen(i)
    <3>1. phase = "run"
      <4>1. todo # <<>> /\ Head(todo).op = "poll"
        BY <2>3 DEF PulseSeen, Pending, Do
      <4>2. phase = "warmup" => Head(todo) \in WarmUpStep
        BY <1>0, <4>1, TailOfTodo DEF StepsFitPhase, WarmUpStep
      <4> QED
        BY <1>0, <4>1, <4>2 DEF WarmUpStep, TypeOK
    <3>2. todo' \in Seq(RunStep) /\ UNCHANGED <<phase, millis, since>>
      <4>1. StepsFitPhase'
        BY <1>0, StepsPreserved DEF TypeOK
      <4> QED
        BY <2>3, <3>1, <4>1 DEF PulseSeen, StepsFitPhase
    <3> QED
      BY <1>1, <1>4, <3>2
  <2>4. CASE SignalBegin(i)
    BY <1>4, <1>6, <2>4 DEF SignalBegin
  <2>5. CASE KeepWindow(i) \/ CloseWindow(i)
    <3>1. /\ Pending("read", i) /\ todo' = Tail(todo) /\ UNCHANGED <<phase, millis>>
          /\ since' = [since EXCEPT ![i] = 0]
      BY <2>5 DEF KeepWindow, CloseWindow
    <3>2. \A j \in Channel : since'[j] = since[j] \/ since'[j] = 0
      BY <1>0, <3>1 DEF TypeOK
    <3> QED
      BY <1>4, <1>6, <3>1, <3>2
  <2> QED
    BY <1>13, <2>1, <2>2, <2>3, <2>4, <2>5 DEF Advance
<1>14. CASE UNCHANGED vars
  BY <1>3, <1>14 DEF vars
<1> QED
  BY <1>7, <1>8, <1>9, <1>10, <1>11, <1>12, <1>13, <1>14 DEF Next

-----------------------------------------------------------------------------
(* The ring. *)

\* The remainder of an index less than three times the size of the ring.
LEMMA Modulo ==
  ASSUME NEW w \in Nat \ {0}, NEW k \in 0 .. w - 1
  PROVE  k % w = k /\ (k + w) % w = k /\ (k + w + w) % w = k
OBVIOUS

\* The slot of every index that the driver and Recent compute.
LEMMA SlotIs ==
  ASSUME NEW k \in 0 .. SAF_WIN_MAX - 1
  PROVE  Slot(k) = k /\ Slot(k + SAF_WIN_MAX) = k /\ Slot(k + SAF_WIN_MAX + SAF_WIN_MAX) = k
BY Modulo, SpansAssumption DEF Slot

\* What is read out of the ring: with the ring not yet full it lies there in
\* order, and then it goes round from the place after the last.
ReadRing(n, ent) ==
  [k \in 1 .. Divisor(n) |-> ent[Slot(n + SAF_WIN_MAX + k - Divisor(n))]]

Reads(n, ent, r) ==
  /\ r \in Seq(Word) /\ Len(r) = Divisor(n)
  /\ n < SAF_WIN_MAX => \A k \in 1 .. n : r[k] = ent[k]
  /\ n >= SAF_WIN_MAX => \A k \in 1 .. SAF_WIN_MAX : r[k] = ent[Slot(n + k)]

\* ReadRing does read it so, for every index the driver can have.
LEMMA RingReads ==
  ASSUME NEW n \in 0 .. 2 * SAF_WIN_MAX - 1, NEW ent \in [0 .. SAF_WIN_MAX - 1 -> Word],
         NEW r, r = ReadRing(n, ent)
  PROVE  Reads(n, ent, r)
<1> DEFINE w == SAF_WIN_MAX
           d == Divisor(n)
<1>1. /\ w \in Nat \ {0} /\ n \in 0 .. 2 * w - 1
      /\ d = (IF n < w THEN n ELSE w) /\ d \in 0 .. w
  BY SpansAssumption DEF Divisor
<1>2. r = [k \in 1 .. d |-> ent[Slot(n + w + k - d)]] /\ ent \in [0 .. w - 1 -> Word]
  BY DEF ReadRing
<1> HIDE DEF w, d
<1>3. ASSUME NEW k \in 1 .. d
      PROVE  /\ n < w => Slot(n + w + k - d) = k /\ k \in 0 .. w - 1
             /\ n >= w => n + w + k - d = n + k
             /\ Slot(n + w + k - d) \in 0 .. w - 1
  <2>1. CASE n < w
    <3>1. n + w + k - d = k + w /\ k \in 0 .. w - 1
      BY <1>1, <2>1
    <3>2. Slot(k + w) = k
      BY <3>1, SlotIs DEF w
    <3> QED
      BY <1>1, <2>1, <3>1, <3>2
  <2>2. CASE n >= w
    <3>1. n + w + k - d = n + k /\ ~(n < w)
      BY <1>1, <2>2
    <3>2. (n + k) % w \in 0 .. w - 1
      BY <1>1
    <3> QED
      BY <2>2, <3>1, <3>2 DEF Slot, w
  <2> QED
    BY <1>1, <2>1, <2>2
<1>4. r \in [1 .. d -> Word]
  BY <1>1, <1>2, <1>3
<1>5. r \in Seq(Word) /\ Len(r) = d
  <2>1. d \in Nat
    BY <1>1
  <2>2. r \in Seq(Word)
    BY <1>4, <2>1, SeqDef
  <2>3. Len(r) \in Nat /\ DOMAIN r = 1 .. Len(r)
    BY <2>2, LenProperties, Zenon
  <2>4. DOMAIN r = 1 .. d
    BY <1>4
  <2>5. 1 .. d = 1 .. Len(r)
    BY <2>3, <2>4, Zenon
  <2>6. \A a, b \in Nat : 1 .. a = 1 .. b => a = b
    OBVIOUS
  <2>7. d = Len(r)
    BY <2>1, <2>3, <2>5, <2>6, Zenon
  <2> QED
    BY <2>2, <2>7
<1>7. n < w => \A k \in 1 .. n : r[k] = ent[k]
  BY <1>1, <1>2, <1>3
<1>8. ASSUME n >= w, NEW k \in 1 .. w PROVE r[k] = ent[Slot(n + k)]
  <2>1. k \in 1 .. d
    BY <1>1, <1>8
  <2>2. n + w + k - d = n + k
    BY <1>3, <1>8, <2>1
  <2>3. r[k] = ent[Slot(n + w + k - d)]
    BY <1>2, <2>1, Zenon
  <2> QED
    BY <2>2, <2>3
<1> QED
  BY <1>5, <1>7, <1>8 DEF w, d, Reads

\* What a window holds when it is closed.
LEMMA TotalBounded ==
  ASSUME IInv, ReadInTime, NEW i \in Channel
  PROVE  low_total[i] \in 0 .. WindowBound /\ WindowBound \in Nat
<1>1. /\ MIN_WIN_SPAN \in Nat \ {0} /\ MaxReadGap \in Nat /\ MAX_SIG_SPAN \in Nat
      /\ WindowBound \in Nat
  BY SpansAssumption DEF WindowBound
<1>2. /\ low_total[i] \in Nat /\ since[i] \in Nat /\ Elapsed(i) \in Nat
      /\ phase \in {"warmup", "run"}
  <2>1. TypeOK
    BY DEF IInv
  <2>2. Elapsed(i) \in Word
    BY <2>1, WordArithmetic DEF TypeOK, Elapsed
  <2> QED
    BY <2>1, <2>2 DEF TypeOK, Word
<1>3. CASE low_total[i] = 0
  BY <1>1, <1>3
<1>4. CASE low_total[i] # 0
  <2>1. phase = "run"
    BY <1>2, <1>4 DEF IInv, NoPulseYet
  <2>2. since[i] <= MaxReadGap
    BY <2>1 DEF ReadInTime
  <2>3. Elapsed(i) < MIN_WIN_SPAN + since[i]
    BY DEF IInv, WindowsTurnOver
  <2>4. low_total[i] <= Elapsed(i) + MAX_SIG_SPAN
    BY <1>4 DEF IInv, PulseFits
  <2> QED
    BY <1>1, <1>2, <2>2, <2>3, <2>4 DEF WindowBound
<1> QED
  BY <1>3, <1>4

\* A sum of a full ring, or of less, fits the clock's word.
LEMMA SumFits ==
  ASSUME FullRingFits, WindowBound \in Nat, NEW s \in Seq(0 .. WindowBound),
         Len(s) <= SAF_WIN_MAX
  PROVE  SumOf(s) \in Nat /\ SumOf(s) < ClockMod
<1> DEFINE w == SAF_WIN_MAX
           b == WindowBound
           n == Len(s)
<1>1. w \in Nat /\ n \in Nat /\ n <= w /\ b \in Nat /\ ClockMod \in Nat
  BY LenProperties, SpansAssumption
<1>2. SumOf(s) \in Nat /\ SumOf(s) <= n * b
  BY SumBounded
<1>3. w * b < ClockMod
  BY DEF FullRingFits
<1> HIDE DEF w, b, n
<1>4. n * b <= w * b /\ n * b \in Nat /\ w * b \in Nat
  <2>1. (w - n) * b \in Nat
    BY <1>1
  <2>2. w * b = n * b + (w - n) * b
    BY <1>1
  <2>3. n * b \in Nat /\ w * b \in Nat
    BY <1>1
  <2> QED
    BY <2>1, <2>2, <2>3
<1> QED
  BY <1>1, <1>2, <1>3, <1>4

\* Closing a window: what was evicted makes room for what is appended.
LEMMA CloseShifts ==
  ASSUME TypeOK, NEW i \in Channel, CloseWindow(i), RingHolds(i)
  PROVE  /\ Recent(i) \in Seq(Word) /\ Recent(i)' \in Seq(Word)
         /\ Len(Recent(i)) <= SAF_WIN_MAX
         /\ Len(Recent(i)') = Divisor(NextIdx(saf_idx[i]))
         /\ Len(Recent(i)') <= SAF_WIN_MAX
         /\ Recent(i)' = Mean!LastOf(Append(Recent(i), low_total[i]))
         /\ \/ Evicted(i) = 0 /\ Recent(i)' = Append(Recent(i), low_total[i])
            \/ /\ Recent(i) # <<>> /\ Evicted(i) = Recent(i)[1]
               /\ Recent(i)' = Tail(Append(Recent(i), low_total[i]))
<1> DEFINE n  == saf_idx[i]
           k1 == NextIdx(n)
           w  == SAF_WIN_MAX
           t  == low_total[i]
           e  == saf_ent[i]
           e1 == saf_ent'[i]
           r  == Recent(i)
           r1 == Recent(i)'
           ap == Append(r, t)
<1>1. /\ w \in Nat \ {0} /\ n \in 0 .. 2 * w - 1 /\ e \in [0 .. w - 1 -> Word] /\ t \in Word
  BY SpansAssumption DEF TypeOK
<1>2. /\ saf_idx'[i] = k1 /\ e1 = [e EXCEPT ![Slot(k1)] = t]
      /\ k1 \in 0 .. 2 * w - 1 /\ Slot(k1) \in 0 .. w - 1
  BY RingIndex DEF CloseWindow, TypeOK
<1>3. /\ r \in Seq(Word) /\ Len(r) = Divisor(n)
      /\ n < w => \A k \in 1 .. n : r[k] = e[k]
      /\ n >= w => \A k \in 1 .. w : r[k] = e[Slot(n + k)]
  <2>1. r = ReadRing(n, e)
    BY DEF Recent, ReadRing
  <2> HIDE DEF r, n, e
  <2>2. Reads(n, e, r)
    BY <1>1, <2>1, RingReads, Zenon
  <2> QED
    BY <2>2 DEF Reads
<1>4. /\ r1 \in Seq(Word) /\ Len(r1) = Divisor(k1)
      /\ k1 < w => \A k \in 1 .. k1 : r1[k] = e1[k]
      /\ k1 >= w => \A k \in 1 .. w : r1[k] = e1[Slot(k1 + k)]
  <2>1. r1 = ReadRing(k1, e1)
    BY <1>2 DEF Recent, Divisor, Slot, ReadRing
  <2>2. e1 \in [0 .. w - 1 -> Word]
    BY <1>1, <1>2
  <2>3. k1 \in 0 .. 2 * w - 1
    BY <1>2
  <2> HIDE DEF r1, k1, e1
  <2>4. Reads(k1, e1, r1)
    BY <2>1, <2>2, <2>3, RingReads, Zenon
  <2> QED
    BY <2>4 DEF Reads
<1>5. /\ ap \in Seq(Word) /\ Len(ap) = Len(r) + 1 /\ ap[Len(r) + 1] = t
      /\ \A k \in 1 .. Len(r) : ap[k] = r[k]
  BY <1>1, <1>3, AppendProperties
<1>6. n < w => \A j \in 0 .. w - 1 : j = 0 \/ j > n => e[j] = 0
  BY DEF RingHolds
<1>7. /\ Evicted(i) = e[Slot(k1)]
      /\ Divisor(n) = (IF n < w THEN n ELSE w)
      /\ Divisor(k1) = (IF k1 < w THEN k1 ELSE w)
      /\ k1 = (IF n + 1 = 2 * w THEN w ELSE n + 1)
  BY DEF Evicted, Divisor, NextIdx
<1>8. Mean!LastOf(ap) = IF Len(ap) <= w THEN ap ELSE Tail(ap)
  BY DEF Mean!LastOf
<1>9. /\ Slot(k1) \in 0 .. w - 1 /\ e1[Slot(k1)] = t
      /\ \A j \in 0 .. w - 1 : j # Slot(k1) => e1[j] = e[j]
  BY <1>1, <1>2
<1> HIDE DEF n, k1, t, e, e1, r, r1, ap
<1>10. Len(r) <= w /\ Len(r1) = Divisor(k1) /\ Len(r1) <= w
  BY <1>1, <1>2, <1>3, <1>4, <1>7
<1>11. CASE n < w
  <2>1. Len(r) = n /\ k1 = n + 1 /\ Len(r1) = n + 1 /\ Len(ap) = n + 1
    BY <1>1, <1>3, <1>4, <1>5, <1>7, <1>11
  <2>2. Evicted(i) = 0
    <3>1. CASE n + 1 < w
      <4>1. Slot(k1) = n + 1
        BY <1>1, <2>1, <3>1, SlotIs DEF w
      <4> QED
        BY <1>1, <1>6, <1>7, <1>9, <1>11, <4>1
    <3>2. CASE ~(n + 1 < w)
      <4>1. k1 = 0 + w /\ 0 \in 0 .. w - 1
        BY <1>1, <1>11, <2>1, <3>2
      <4>2. Slot(k1) = 0
        BY <4>1, SlotIs DEF w
      <4> QED
        BY <1>6, <1>7, <1>9, <1>11, <4>2
    <3> QED
      BY <3>1, <3>2
  <2>3. ASSUME NEW k \in 1 .. n + 1 PROVE r1[k] = ap[k]
    <3>1. CASE n + 1 < w
      <4>1. Slot(k1) = n + 1 /\ r1[k] = e1[k] /\ k \in 0 .. w - 1
        BY <1>1, <1>4, <2>1, <3>1, SlotIs DEF w
      <4>2. CASE k = n + 1
        BY <1>5, <1>9, <2>1, <4>1, <4>2
      <4>3. CASE k # n + 1
        <5>1. k \in 1 .. n
          BY <1>1, <4>3
        <5> QED
          BY <1>3, <1>5, <1>9, <1>11, <2>1, <4>1, <4>3, <5>1
      <4> QED
        BY <4>2, <4>3
    <3>2. CASE ~(n + 1 < w)
      <4>1. k1 = 0 + w /\ n + 1 = w /\ 0 \in 0 .. w - 1
        BY <1>1, <1>11, <2>1, <3>2
      <4>2. Slot(k1) = 0 /\ r1[k] = e1[Slot(k1 + k)]
        BY <1>1, <1>4, <4>1, SlotIs DEF w
      <4>3. CASE k = w
        <5>1. k1 + k = 0 + w + w
          BY <1>1, <4>1, <4>3
        <5>2. Slot(k1 + k) = 0
          BY <4>1, <5>1, SlotIs DEF w
        <5> QED
          BY <1>5, <1>9, <2>1, <4>1, <4>2, <4>3, <5>2
      <4>4. CASE k # w
        <5>1. k \in 1 .. n /\ k \in 0 .. w - 1 /\ k1 + k = k + w /\ k # 0
          BY <1>1, <4>1, <4>4
        <5>2. Slot(k1 + k) = k
          BY <5>1, SlotIs DEF w
        <5> QED
          BY <1>3, <1>5, <1>9, <1>11, <2>1, <4>2, <5>1, <5>2
      <4> QED
        BY <4>3, <4>4
    <3> QED
      BY <3>1, <3>2
  <2>4. r1 = ap
    <3>1. Len(r1) = Len(ap) /\ \A k \in 1 .. Len(r1) : r1[k] = ap[k]
      BY <2>1, <2>3
    <3> QED
      BY <1>4, <1>5, <3>1, SeqEqual
  <2>5. Mean!LastOf(ap) = ap
    BY <1>1, <1>8, <1>11, <2>1
  <2> QED
    BY <1>3, <1>4, <1>10, <2>2, <2>4, <2>5 DEF r, r1, ap, t, k1, n, w
<1>12. CASE ~(n < w)
  <2>1. Len(r) = w /\ Len(r1) = w /\ Len(ap) = w + 1 /\ n >= w /\ k1 >= w
    BY <1>1, <1>3, <1>4, <1>5, <1>7, <1>12
  <2> DEFINE p == k1 - w
  <2>2. p \in 0 .. w - 1 /\ k1 = p + w
    BY <1>1, <1>2, <2>1
  <2> HIDE DEF p
  <2>3. Slot(k1) = p /\ Slot(k1 + w) = p
    BY <2>2, SlotIs DEF w
  <2>4. ASSUME NEW k \in 1 .. w - 1
        PROVE  Slot(k1 + k) # p /\ Slot(k1 + k) \in 0 .. w - 1
    <3>1. CASE p + k < w
      <4>1. p + k \in 0 .. w - 1 /\ k1 + k = (p + k) + w /\ p + k # p
        BY <1>1, <2>2, <3>1
      <4> QED
        BY <4>1, SlotIs DEF w
    <3>2. CASE p + k >= w
      <4>1. p + k - w \in 0 .. w - 1 /\ k1 + k = (p + k - w) + w + w /\ p + k - w # p
        BY <1>1, <2>2, <3>2
      <4> QED
        BY <4>1, SlotIs DEF w
    <3> QED
      BY <1>1, <2>2, <3>1, <3>2
  <2>5. ASSUME NEW k \in 0 .. w - 1 PROVE Slot(n + (k + 1)) = Slot(k1 + k)
    <3>1. CASE n + 1 = 2 * w
      <4>1. k1 = w /\ n + (k + 1) = k + w + w /\ k1 + k = k + w
        BY <1>1, <1>7, <3>1
      <4> QED
        BY <4>1, SlotIs DEF w
    <3>2. CASE n + 1 # 2 * w
      <4>1. n + (k + 1) = k1 + k
        BY <1>1, <1>7, <3>2
      <4> QED
        BY <4>1
    <3> QED
      BY <3>1, <3>2
  <2>6. r # <<>> /\ Evicted(i) = r[1]
    <3>1. r[1] = e[Slot(n + 1)]
      <4>1. 1 \in 1 .. w
        BY <1>1
      <4> QED
        BY <1>3, <2>1, <4>1
    <3>2. Slot(n + (0 + 1)) = Slot(k1 + 0) /\ 0 + 1 = 1 /\ k1 + 0 = k1
      BY <1>1, <1>2, <2>5
    <3>3. Len(r) # 0
      BY <1>1, <2>1
    <3> QED
      BY <1>3, <1>7, <3>1, <3>2, <3>3, EmptySeq
  <2>7. /\ Tail(ap) \in Seq(Word) /\ Len(Tail(ap)) = w
        /\ \A k \in 1 .. w : Tail(ap)[k] = ap[k + 1]
    <3>1. ap # <<>>
      BY <1>1, <1>5, <2>1, EmptySeq
    <3>2. /\ Tail(ap) \in Seq(Word) /\ Len(Tail(ap)) = Len(ap) - 1
          /\ \A k \in 1 .. Len(Tail(ap)) : Tail(ap)[k] = ap[k + 1]
      BY <1>5, <3>1, HeadTailProperties
    <3>3. Len(Tail(ap)) = w
      BY <1>1, <2>1, <3>2
    <3> QED
      BY <3>2, <3>3
  <2>8. ASSUME NEW k \in 1 .. w PROVE r1[k] = Tail(ap)[k]
    <3>1. r1[k] = e1[Slot(k1 + k)] /\ Tail(ap)[k] = ap[k + 1]
      BY <1>4, <2>1, <2>7
    <3>2. CASE k = w
      BY <1>5, <1>9, <2>1, <2>3, <3>1, <3>2
    <3>3. CASE k # w
      <4>1. k \in 1 .. w - 1 /\ k \in 0 .. w - 1 /\ k + 1 \in 1 .. w
        BY <1>1, <3>3
      <4>2. e1[Slot(k1 + k)] = e[Slot(k1 + k)]
        BY <1>9, <2>3, <2>4, <4>1
      <4>3. r[k + 1] = e[Slot(n + (k + 1))]
        BY <1>3, <2>1, <4>1
      <4>4. ap[k + 1] = r[k + 1]
        BY <1>5, <2>1, <4>1
      <4> QED
        BY <2>5, <3>1, <4>1, <4>2, <4>3, <4>4
    <3> QED
      BY <3>2, <3>3
  <2>9. r1 = Tail(ap)
    BY <1>4, <2>1, <2>7, <2>8, SeqEqual
  <2>10. Mean!LastOf(ap) = Tail(ap)
    BY <1>1, <1>8, <2>1
  <2> QED
    BY <1>3, <1>4, <1>10, <2>6, <2>9, <2>10 DEF r, r1, ap, t, k1, n, w
<1> QED
  BY <1>11, <1>12

\* What a bound on the ring's entries says of what is read out of it.
LEMMA RingEntries ==
  ASSUME NEW n \in 0 .. 2 * SAF_WIN_MAX - 1, NEW ent \in [0 .. SAF_WIN_MAX - 1 -> Word],
         NEW r, r = ReadRing(n, ent),
         NEW b, \A j \in 0 .. SAF_WIN_MAX - 1 : ent[j] <= b
  PROVE  \A k \in 1 .. Len(r) : r[k] <= b
<1>1. /\ Len(r) = Divisor(n)
      /\ n < SAF_WIN_MAX => \A k \in 1 .. n : r[k] = ent[k]
      /\ n >= SAF_WIN_MAX => \A k \in 1 .. SAF_WIN_MAX : r[k] = ent[Slot(n + k)]
  <2>1. Reads(n, ent, r)
    BY RingReads, Zenon
  <2> QED
    BY <2>1, Zenon DEF Reads
<1>2. SAF_WIN_MAX \in Nat \ {0} /\ \A k \in Nat : Slot(k) \in 0 .. SAF_WIN_MAX - 1
  BY SpansAssumption DEF Slot
<1>3. n \in Nat
  BY <1>2
<1>4. CASE n < SAF_WIN_MAX
  <2>1. Len(r) = n
    BY <1>1, <1>4 DEF Divisor
  <2>2. ASSUME NEW k \in 1 .. n PROVE r[k] <= b
    <3>1. k \in 0 .. SAF_WIN_MAX - 1 /\ r[k] = ent[k]
      BY <1>1, <1>2, <1>3, <1>4
    <3> QED
      BY <3>1
  <2> QED
    BY <2>1, <2>2
<1>5. CASE ~(n < SAF_WIN_MAX)
  <2>1. Len(r) = SAF_WIN_MAX /\ n >= SAF_WIN_MAX
    BY <1>1, <1>2, <1>3, <1>5 DEF Divisor
  <2>2. ASSUME NEW k \in 1 .. SAF_WIN_MAX PROVE r[k] <= b
    <3>1. r[k] = ent[Slot(n + k)]
      BY <1>1, <2>1, Zenon
    <3>2. Slot(n + k) \in 0 .. SAF_WIN_MAX - 1
      BY <1>2, <1>3
    <3> QED
      BY <3>1, <3>2
  <2> QED
    BY <2>1, <2>2
<1> QED
  BY <1>4, <1>5

\* The entries of the ring are those that Recent reads.
LEMMA RecentBounded ==
  ASSUME TypeOK, NEW i \in Channel, RingHolds(i), WindowBound \in Nat
  PROVE  Recent(i) \in Seq(0 .. WindowBound)
<1> DEFINE n == saf_idx[i]
           e == saf_ent[i]
           r == Recent(i)
<1>1. /\ n \in 0 .. 2 * SAF_WIN_MAX - 1 /\ e \in [0 .. SAF_WIN_MAX - 1 -> Word]
      /\ \A j \in 0 .. SAF_WIN_MAX - 1 : e[j] \in Nat /\ e[j] <= WindowBound
  <2>1. \A j \in 0 .. SAF_WIN_MAX - 1 : e[j] \in Word /\ e[j] <= WindowBound
    BY DEF TypeOK, RingHolds
  <2>2. Word \subseteq Nat
    BY SpansAssumption DEF Word
  <2> QED
    BY <2>1, <2>2 DEF TypeOK
<1>2. r = ReadRing(n, e)
  BY DEF Recent, ReadRing
<1> HIDE DEF n, e, r
<1>3. r \in Seq(Word)
  BY <1>1, <1>2, RingReads DEF Reads
<1>4. \A k \in 1 .. Len(r) : r[k] \in 0 .. WindowBound
  <2>1. \A k \in 1 .. Len(r) : r[k] <= WindowBound
    BY <1>1, <1>2, RingEntries
  <2>2. \A k \in 1 .. Len(r) : r[k] \in Word
    BY <1>3, ElementOfSeq
  <2> QED
    BY <2>1, <2>2, SpansAssumption DEF Word
<1>5. r \in [1 .. Len(r) -> 0 .. WindowBound] /\ Len(r) \in Nat
  BY <1>3, <1>4, LenProperties
<1>6. r \in Seq(0 .. WindowBound)
  BY <1>5, SeqDef
<1> QED
  BY <1>6 DEF r

\* The running sum follows: what is subtracted and added is what leaves and
\* enters the closed windows, and nothing wraps.
LEMMA SumFollows ==
  ASSUME IInv, ReadInTime, FullRingFits, NEW i \in Channel, CloseWindow(i), RingHolds(i)
  PROVE  Plus(Minus(saf_sum[i], Evicted(i)), low_total[i]) = SumOf(Recent(i)')
<1> DEFINE r  == Recent(i)
           r1 == Recent(i)'
           t  == low_total[i]
           ev == Evicted(i)
           b  == WindowBound
           ap == Append(r, t)
           u  == saf_sum[i]
<1>1. TypeOK
  BY DEF IInv
<1>2. b \in Nat /\ t \in 0 .. b
  BY TotalBounded
<1>3. r \in Seq(0 .. b)
  BY <1>1, <1>2, RecentBounded
<1>4. /\ Len(r) <= SAF_WIN_MAX /\ Len(r1) <= SAF_WIN_MAX
      /\ \/ ev = 0 /\ r1 = ap
         \/ r # <<>> /\ ev = r[1] /\ r1 = Tail(ap)
  BY <1>1, CloseShifts
<1>5. u = SumOf(r)
  BY DEF RingHolds
<1>6. ClockMod \in Nat
  BY SpansAssumption
<1>7. FullRingFits
  OBVIOUS
<1> HIDE DEF r, r1, t, ev, b, ap, u
<1>8. ap \in Seq(0 .. b) /\ ap # <<>> /\ (Len(r) > 0 => ap[1] = r[1])
  <2> DEFINE z == Append(r, t)
  <2>1. /\ z \in Seq(0 .. b) /\ Len(z) = Len(r) + 1
        /\ \A k \in 1 .. Len(r) : z[k] = r[k]
    BY <1>2, <1>3, AppendProperties
  <2>2. Len(r) \in Nat
    BY <1>3, LenProperties
  <2> HIDE DEF z
  <2>3. z # <<>>
    BY <2>1, <2>2, EmptySeq
  <2>4. Len(r) > 0 => z[1] = r[1]
    BY <2>1, <2>2
  <2> QED
    BY <2>1, <2>3, <2>4 DEF ap, z
<1>9. r \in Seq(Int) /\ ap \in Seq(Int) /\ t \in Int /\ t \in Nat
  <2>1. 0 .. b \subseteq Int
    BY <1>2
  <2> QED
    BY <1>2, <1>3, <1>8, <2>1, SeqMonotonic
<1>10. SumOf(ap) = u + t
  BY <1>5, <1>9, SumOfAppend DEF ap
<1>11. u \in Nat /\ u < ClockMod
  BY <1>2, <1>3, <1>4, <1>5, <1>7, SumFits DEF b
<1>12. r1 \in Seq(0 .. b) => SumOf(r1) \in Nat /\ SumOf(r1) < ClockMod
  BY <1>2, <1>4, <1>7, SumFits DEF b
<1>13. CASE ev = 0 /\ r1 = ap
  <2>1. SumOf(r1) = u + t /\ u + t < ClockMod
    BY <1>8, <1>10, <1>12, <1>13
  <2>2. Minus(u, ev) = u
    BY <1>11, <1>13 DEF Minus
  <2>3. Plus(Minus(u, ev), t) = SumOf(r1)
    BY <2>1, <2>2 DEF Plus
  <2> QED
    BY <2>3 DEF u, ev, t, r1
<1>14. CASE r # <<>> /\ ev = r[1] /\ r1 = Tail(ap)
  <2>1. Len(r) \in Nat /\ Len(r) > 0
    BY <1>3, <1>14, LenProperties, EmptySeq
  <2>2. ev \in 0 .. b
    <3>1. 1 \in 1 .. Len(r)
      BY <2>1
    <3> QED
      BY <1>3, <1>14, <3>1, ElementOfSeq
  <2>3. r1 \in Seq(0 .. b)
    BY <1>8, <1>14, HeadTailProperties
  <2>4. SumOf(r1) = (u + t) - ev
    <3>1. SumOf(Tail(ap)) = SumOf(ap) - ap[1]
      BY <1>8, <1>9, SumOfTail
    <3> QED
      BY <1>8, <1>10, <1>14, <2>1, <3>1
  <2>5. ev <= u
    <3>1. Tail(r) \in Seq(0 .. b)
      BY <1>3, <1>14, HeadTailProperties
    <3>2. SumOf(Tail(r)) \in Nat
      BY <1>2, <3>1, SumBounded
    <3>3. SumOf(Tail(r)) = u - ev
      BY <1>5, <1>9, <1>14, SumOfTail
    <3> QED
      BY <1>2, <1>11, <2>2, <3>2, <3>3
  <2>6. Minus(u, ev) = u - ev
    BY <1>2, <1>11, <2>2, <2>5 DEF Minus
  <2>7. (u - ev) + t < ClockMod /\ (u - ev) + t = SumOf(r1)
    BY <1>2, <1>9, <1>11, <1>12, <2>2, <2>3, <2>4
  <2>8. Plus(Minus(u, ev), t) = SumOf(r1)
    BY <2>6, <2>7 DEF Plus
  <2> QED
    BY <2>8 DEF u, ev, t, r1
<1> QED
  BY <1>4, <1>13, <1>14

\* What does not touch the ring keeps it.
LEMMA RingStays ==
  ASSUME NEW j, saf_sum'[j] = saf_sum[j], saf_ent'[j] = saf_ent[j], saf_idx'[j] = saf_idx[j],
         lastLowRatio'[j] = lastLowRatio[j]
  PROVE  /\ Recent(j)' = Recent(j)
         /\ RingHolds(j) => RingHolds(j)'
<1>1. Recent(j)' = Recent(j)
  BY DEF Recent, Divisor, Slot
<1> QED
  BY <1>1 DEF RingHolds, WindowBound, SumOf, Divisor

\* Closing a window keeps the ring of its channel.
LEMMA CloseKeepsRing ==
  ASSUME IInv, ReadInTime, FullRingFits, NEW i \in Channel, CloseWindow(i), RingHolds(i)
  PROVE  RingHolds(i)'
<1> DEFINE n  == saf_idx[i]
           k1 == NextIdx(n)
           w  == SAF_WIN_MAX
           t  == low_total[i]
           e  == saf_ent[i]
           e1 == saf_ent'[i]
<1>1. TypeOK /\ w \in Nat \ {0}
  BY SpansAssumption DEF IInv
<1>2. /\ saf_idx'[i] = k1 /\ e1 = [e EXCEPT ![Slot(k1)] = t]
      /\ saf_sum'[i] = Plus(Minus(saf_sum[i], Evicted(i)), t)
      /\ lastLowRatio'[i] = [sum |-> saf_sum'[i], n |-> Divisor(k1)]
  BY <1>1 DEF CloseWindow, TypeOK
<1>3. /\ n \in 0 .. 2 * w - 1 /\ e \in [0 .. w - 1 -> Word]
      /\ Slot(k1) \in 0 .. w - 1
  BY <1>1, RingIndex DEF TypeOK
<1>4. t <= WindowBound
  BY TotalBounded
<1>5. \A j \in 0 .. w - 1 : e1[j] = t \/ e1[j] = e[j]
  BY <1>2, <1>3
<1>6. \A j \in 0 .. w - 1 : j # Slot(k1) => e1[j] = e[j]
  BY <1>2, <1>3
<1>7. \A j \in 0 .. w - 1 : e[j] <= WindowBound
  BY DEF RingHolds
<1>8. \A j \in 0 .. w - 1 : e1[j] <= WindowBound
  BY <1>4, <1>5, <1>7
<1>9. ASSUME k1 < w, NEW j \in 0 .. w - 1, j = 0 \/ j > k1 PROVE e1[j] = 0
  <2>1. k1 = n + 1 /\ n < w
    BY <1>1, <1>3, <1>9 DEF NextIdx
  <2>2. Slot(k1) = k1
    <3>1. k1 \in 0 .. w - 1
      BY <1>1, <1>3, <1>9, <2>1
    <3> HIDE DEF k1
    <3> QED
      BY <3>1, SlotIs
  <2>3. j # Slot(k1) /\ (j = 0 \/ j > n)
    BY <1>3, <1>9, <2>1, <2>2
  <2>4. e[j] = 0
    BY <1>9, <2>1, <2>3 DEF RingHolds
  <2> QED
    BY <1>6, <2>3, <2>4
<1>10. saf_sum'[i] = SumOf(Recent(i))'
  <2>1. SumOf(Recent(i))' = SumOf(Recent(i)')
    BY DEF SumOf, Mean!SumOf
  <2> QED
    BY <1>2, <2>1, SumFollows
<1>11. lastLowRatio'[i] = [sum |-> saf_sum'[i], n |-> Divisor(saf_idx'[i])]
  BY <1>2
<1> QED
  BY <1>2, <1>8, <1>9, <1>10, <1>11 DEF RingHolds, WindowBound, Divisor

\* A step that is not the closing of a window leaves the ring alone.
LEMMA OnlyCloseTouches ==
  ASSUME [Next]_vars
  PROVE  UNCHANGED ring \/ \E i \in Channel : CloseWindow(i)
BY DEF Next, vars, Advance, Tick, WarmUpPass, LeaveWarmUp, Update, GetAQI, Report, Call,
   WarmUpSerial, SetCoeff, OpenWindow, PollNothing, PulseSeen, SignalBegin, SignalEnd,
   KeepWindow

\* Closing a window of one channel leaves the ring of the other.
LEMMA CloseElsewhere ==
  ASSUME TypeOK, NEW i \in Channel, CloseWindow(i), NEW j \in Channel, j # i
  PROVE  /\ saf_sum'[j] = saf_sum[j] /\ saf_ent'[j] = saf_ent[j] /\ saf_idx'[j] = saf_idx[j]
         /\ lastLowRatio'[j] = lastLowRatio[j]
BY DEF CloseWindow, TypeOK

\* The empty rings, before the first pass.
LEMMA RingInvInit == Init => RingInv
<1> SUFFICES ASSUME Init PROVE RingInv
  OBVIOUS
<1>1. IInv
  BY InitIInv
<1>2. ReadInTime
  <2>1. todo = Both("begin") /\ phase = "warmup"
    BY DEF Init
  <2>2. Both("begin") \in Seq({t \in Step : t.op # "reset"})
    BY BothSteps, SeqMonotonic
  <2>3. todo \notin ResetCalls /\ \A k \in 1 .. Len(todo) : todo[k].op # "reset"
    BY <2>1, <2>2, OtherCalls
  <2> QED
    BY <2>1, <2>3 DEF ReadInTime, ResetCalls
<1>3. ASSUME NEW i \in Channel PROVE RingHolds(i)
  <2>1. /\ saf_idx[i] = 0 /\ saf_sum[i] = 0 /\ lastLowRatio[i] = [sum |-> 0, n |-> 0]
        /\ \A j \in 0 .. SAF_WIN_MAX - 1 : saf_ent[i][j] = 0
    BY DEF Init
  <2>2. WindowBound \in Nat /\ SAF_WIN_MAX \in Nat \ {0} /\ Divisor(0) = 0
    BY SpansAssumption DEF WindowBound, Divisor
  <2>3. TypeOK
    BY <1>1 DEF IInv
  <2>4. Recent(i) \in Seq(Word) /\ Len(Recent(i)) = 0
    <3> DEFINE r == Recent(i)
               e == saf_ent[i]
    <3>1. r = ReadRing(0, e)
      BY <2>1 DEF Recent, ReadRing
    <3>2. e \in [0 .. SAF_WIN_MAX - 1 -> Word] /\ 0 \in 0 .. 2 * SAF_WIN_MAX - 1
      BY <2>2, <2>3 DEF TypeOK
    <3> HIDE DEF r, e
    <3>3. r \in Seq(Word) /\ Len(r) = 0
      BY <2>2, <3>1, <3>2, RingReads DEF Reads
    <3> QED
      BY <3>3 DEF r
  <2>5. Recent(i) = <<>>
    BY <2>4, EmptySeq
  <2>6. SumOf(<<>>) = 0
    <3>1. Sums([k \in {0} |-> 0], <<>>, 0)
      BY DEF Sums
    <3>2. <<>> \in Seq(Int) /\ Len(<<>>) = 0
      OBVIOUS
    <3> QED
      BY <3>1, <3>2, SumIs
  <2> QED
    BY <2>1, <2>2, <2>5, <2>6 DEF RingHolds
<1> QED
  BY <1>1, <1>2, <1>3 DEF RingInv

\* No step breaks the invariant.
LEMMA RingInvNext == FullRingFits /\ RingInv /\ [Next]_vars => RingInv'
<1> SUFFICES ASSUME FullRingFits, RingInv, [Next]_vars PROVE RingInv'
  OBVIOUS
<1>1. IInv /\ ReadInTime /\ \A i \in Channel : RingHolds(i)
  BY DEF RingInv
<1>2. IInv'
  BY <1>1, NextIInv
<1>3. ReadInTime'
  BY <1>1, InTimePreserved
<1>4. ASSUME NEW j \in Channel PROVE RingHolds(j)'
  <2>1. CASE UNCHANGED ring
    BY <1>1, <2>1, RingStays DEF ring
  <2>2. ASSUME NEW i \in Channel, CloseWindow(i) PROVE RingHolds(j)'
    <3>1. CASE j = i
      BY <1>1, <2>2, <3>1, CloseKeepsRing
    <3>2. CASE j # i
      BY <1>1, <2>2, <3>2, CloseElsewhere, RingStays DEF IInv
    <3> QED
      BY <3>1, <3>2
  <2> QED
    BY <2>1, <2>2, OnlyCloseTouches
<1> QED
  BY <1>2, <1>3, <1>4 DEF RingInv

-----------------------------------------------------------------------------
(* The refinement. *)

\* The empty ring is the mean of nothing.
LEMMA MeanInit == Init /\ RingInv => Mean!Init
<1> SUFFICES ASSUME Init, RingInv PROVE Mean!Init
  OBVIOUS
<1>1. ASSUME NEW i \in Channel
      PROVE  Recent(i) = <<>> /\ lastLowRatio[i] = Mean!MeanOf(<<>>)
  <2>1. /\ saf_idx[i] = 0 /\ lastLowRatio[i] = [sum |-> 0, n |-> 0]
        /\ saf_sum[i] = 0 /\ RingHolds(i) /\ TypeOK
    BY DEF Init, RingInv, IInv
  <2>2. SAF_WIN_MAX \in Nat \ {0} /\ Divisor(0) = 0
    BY SpansAssumption DEF Divisor
  <2>3. Recent(i) = <<>>
    <3> DEFINE r == Recent(i)
               e == saf_ent[i]
    <3>1. r = ReadRing(0, e)
      BY <2>1 DEF Recent, ReadRing
    <3>2. e \in [0 .. SAF_WIN_MAX - 1 -> Word] /\ 0 \in 0 .. 2 * SAF_WIN_MAX - 1
      BY <2>1, <2>2 DEF TypeOK
    <3> HIDE DEF r, e
    <3>3. r \in Seq(Word) /\ Len(r) = 0
      BY <2>2, <3>1, <3>2, RingReads DEF Reads
    <3>4. r = <<>>
      BY <3>3, EmptySeq
    <3> QED
      BY <3>4 DEF r
  <2>4. SumOf(<<>>) = 0
    BY <2>1, <2>3 DEF RingHolds
  <2> QED
    BY <2>1, <2>3, <2>4 DEF Mean!MeanOf, SumOf
<1>2. lastLowRatio = [i \in Channel |-> lastLowRatio[i]]
  BY DEF RingInv, IInv, TypeOK
<1> QED
  BY <1>1, <1>2 DEF Mean!Init

\* A window that closes is a step of the mean.
LEMMA CloseIsClose ==
  ASSUME RingInv, FullRingFits, RingInv', NEW i \in Channel, CloseWindow(i)
  PROVE  Mean!Close(i, low_total[i]) /\ low_total[i] \in Word
<1> DEFINE rec == [j \in Channel |-> Recent(j)]
           s   == Mean!LastOf(Append(rec[i], low_total[i]))
<1>1. IInv /\ TypeOK /\ RingHolds(i) /\ RingHolds(i)'
  BY DEF RingInv, IInv
<1>2. Recent(i)' = s
  BY <1>1, CloseShifts
<1>3. rec' = [rec EXCEPT ![i] = s]
  <2>1. ASSUME NEW j \in Channel, j # i PROVE Recent(j)' = Recent(j)
    BY <1>1, <2>1, CloseElsewhere, RingStays
  <2>2. rec' = [j \in Channel |-> Recent(j)']
    BY DEF Channel, PM10_IDX, PM25_IDX
  <2> QED
    BY <1>2, <2>1, <2>2
<1>4. lastLowRatio' = [lastLowRatio EXCEPT ![i] = Mean!MeanOf(s)]
  <2>1. lastLowRatio'[i] = [sum |-> SumOf(Recent(i)'), n |-> Len(Recent(i)')]
    <3>1. lastLowRatio'[i] = [sum |-> saf_sum'[i], n |-> Divisor(NextIdx(saf_idx[i]))]
      BY <1>1 DEF CloseWindow, TypeOK
    <3>2. saf_sum'[i] = SumOf(Recent(i)')
      <4>1. saf_sum'[i] = Plus(Minus(saf_sum[i], Evicted(i)), low_total[i])
        BY <1>1 DEF CloseWindow, TypeOK
      <4> QED
        BY <1>1, <4>1, SumFollows DEF RingInv
    <3>3. Len(Recent(i)') = Divisor(NextIdx(saf_idx[i]))
      BY <1>1, CloseShifts
    <3> QED
      BY <3>1, <3>2, <3>3
  <2>2. lastLowRatio'[i] = Mean!MeanOf(s)
    BY <1>2, <2>1 DEF Mean!MeanOf, SumOf
  <2>3. \E v : lastLowRatio' = [lastLowRatio EXCEPT ![i] = v]
    BY DEF CloseWindow
  <2>4. lastLowRatio \in [Channel -> [sum : Word, n : 0 .. SAF_WIN_MAX]]
    BY <1>1 DEF TypeOK
  <2> QED
    BY <2>2, <2>3, <2>4
<1>5. low_total[i] \in Word
  BY <1>1 DEF TypeOK
<1> QED
  BY <1>3, <1>4, <1>5 DEF Mean!Close

\* The ring, its index and its running sum are the mean of the last closed
\* windows (getLowRatio), if the low time of a full ring, as long as the loop
\* reads in time, fits the clock's word.
THEOREM RingIsSlidingMean ==
  ASSUME FullRingFits
  PROVE  Spec => ImplementsSlidingMean
<1>1. Init => RingInv
  BY RingInvInit
<1>2. RingInv /\ [Next]_vars => RingInv'
  BY RingInvNext
<1>3. Init /\ RingInv => Mean!Init
  BY MeanInit
<1>4. RingInv /\ RingInv' /\ [Next]_vars => [Mean!Next]_Mean!vars
  <2> SUFFICES ASSUME RingInv, RingInv', [Next]_vars PROVE [Mean!Next]_Mean!vars
    OBVIOUS
  <2>1. CASE UNCHANGED ring
    <3>1. \A j \in Channel : Recent(j)' = Recent(j)
      BY <2>1, RingStays DEF ring
    <3>2. UNCHANGED Mean!vars
      BY <2>1, <3>1 DEF Mean!vars, ring, Channel, PM10_IDX, PM25_IDX
    <3> QED
      BY <3>2
  <2>2. ASSUME NEW i \in Channel, CloseWindow(i) PROVE Mean!Next
    BY <2>2, CloseIsClose DEF Mean!Next
  <2> QED
    BY <2>1, <2>2, OnlyCloseTouches
<1> QED
  BY <1>1, <1>2, <1>3, <1>4, PTL DEF Spec, ImplementsSlidingMean, Mean!Spec
=============================================================================
