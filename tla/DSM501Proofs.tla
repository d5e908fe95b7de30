---------------------------- MODULE DSM501Proofs ----------------------------
(***************************************************************************)
(* Proofs about the dust sensor driver, for every clock width, span and    *)
(* coefficient set.                                                        *)
(***************************************************************************)
EXTENDS DSM501, SequenceTheorems, TLAPS

WarmUpStep == {t \in Step : t.op \in {"begin", "reset", "serial", "read"}}
RunStep    == {t \in Step : t.op \in {"poll", "mark", "read"}}
ReadStep   == {t \in Step : t.op = "read"}

\* The reset that ends warm-up comes last in its call.
ResetLast(steps) ==
  \A k \in 1 .. Len(steps) : steps[k] = Do("reset", PM25_IDX) => k = Len(steps)

\* Warm-up never polls a pin and loop() never opens a window.
StepsFitPhase ==
  /\ todo \in Seq(IF phase = "warmup" THEN WarmUpStep ELSE RunStep)
  /\ ResetLast(todo)

\* Before the first poll every channel is as the constructor left it.
NoPulseYet ==
  phase = "warmup" =>
    \A i \in Channel : low_total[i] = 0 /\ state[i] = "Idle"

WarmUpClock ==
  phase = "warmup" =>
    /\ millis <= WarmUp + MaxReadGap
    /\ \A i \in Channel : since[i] <= millis

\* LowTimeBounded with the pulse under way accounted for.
PulseFits(i) ==
  \/ low_total[i] = 0
  \/ /\ low_total[i] <= Elapsed(i) + MAX_SIG_SPAN
     /\ state[i] = "Start" => low_total[i] + Width(i) <= Elapsed(i) + MAX_SIG_SPAN

IInv ==
  /\ TypeOK
  /\ StepsFitPhase
  /\ NoPulseYet
  /\ WarmUpClock
  /\ WindowsTurnOver
  /\ WrapOutageBounded
  /\ \A i \in Channel : PulseFits(i)

-----------------------------------------------------------------------------
(* Lemmas about the clock and the step sequence. *)

\* Clock arithmetic stays within a machine word.
LEMMA WordArithmetic ==
  \A a, b \in Word : Plus(a, b) \in Word /\ Minus(a, b) \in Word
BY SpansAssumption DEF Word, Plus, Minus

\* A tick makes the age of any earlier reading one larger, or wraps it to 0.
LEMMA AgeAfterTick ==
  \A a, b \in Word :
    LET t == Plus(a, 1) IN
      /\ t \in Word
      /\ Minus(a, b) + 1 < ClockMod => Minus(t, b) = Minus(a, b) + 1
      /\ Minus(a, b) + 1 >= ClockMod => Minus(t, b) = 0
      /\ a + 1 < ClockMod => t = a + 1
      /\ a + 1 >= ClockMod => t = 0
BY SpansAssumption DEF Word, Plus, Minus

\* Taking the step at the head leaves the others in order.
LEMMA TailOfTodo ==
  ASSUME NEW S, S \subseteq Step, NEW s \in Seq(S), s # <<>>
  PROVE  /\ Tail(s) \in Seq(S)
         /\ Head(s) = s[1] /\ Head(s) \in S
         /\ ResetLast(s) => ResetLast(Tail(s))
         /\ ResetLast(s) /\ Head(s) = Do("reset", PM25_IDX) => Tail(s) = <<>>
<1>1. /\ Tail(s) \in Seq(S) /\ Len(s) \in Nat
      /\ Len(Tail(s)) = Len(s) - 1
      /\ Head(s) = s[1] /\ Head(s) \in S
      /\ \A k \in 1 .. Len(Tail(s)) : Tail(s)[k] = s[k + 1]
  BY HeadTailProperties, LenProperties, EmptySeq
<1>2. Len(s) >= 1
  BY <1>1, EmptySeq
<1>3. ASSUME ResetLast(s) PROVE ResetLast(Tail(s))
  <2>1. PICK t : /\ t = Tail(s) /\ Len(t) = Len(s) - 1
                 /\ \A k \in 1 .. Len(t) : t[k] = s[k + 1]
    BY <1>1
  <2>2. ASSUME NEW k \in 1 .. Len(t), t[k] = Do("reset", PM25_IDX)
        PROVE  k = Len(t)
    <3>1. Len(s) \in Nat
      BY <1>1
    <3>2. k \in Nat /\ k + 1 \in 1 .. Len(s) /\ s[k + 1] = t[k]
      BY <1>2, <2>1, <3>1
    <3>3. k + 1 = Len(s)
      BY <1>3, <2>2, <3>2 DEF ResetLast
    <3>4. Len(t) = Len(s) - 1
      BY <2>1
    <3> QED
      BY <3>1, <3>2, <3>3, <3>4
  <2> QED
    BY <2>1, <2>2 DEF ResetLast
<1>4. ASSUME ResetLast(s), Head(s) = Do("reset", PM25_IDX)
      PROVE  Len(Tail(s)) = 0
  <2>1. 1 \in 1 .. Len(s) /\ s[1] = Do("reset", PM25_IDX)
    BY <1>1, <1>2, <1>4
  <2>2. Len(s) = 1
    BY <1>4, <2>1 DEF ResetLast
  <2> QED
    BY <1>1, <2>2
<1> QED
  BY <1>1, <1>3, <1>4, EmptySeq

\* The calls the program makes, by the kind of their steps.
LEMMA BothSteps ==
  ASSUME NEW op \in {"begin", "reset", "serial", "poll", "mark", "read"}
  PROVE  /\ Both(op) \in Seq({t \in Step : t.op = op})
         /\ ResetLast(Both(op))
<1>1. /\ Do(op, PM10_IDX) \in {t \in Step : t.op = op}
      /\ Do(op, PM25_IDX) \in {t \in Step : t.op = op}
      /\ Do(op, PM10_IDX) # Do("reset", PM25_IDX)
  BY DEF Do, Step, Channel, PM10_IDX, PM25_IDX
<1> QED
  BY <1>1 DEF Both, ResetLast

LEMMA NoResets ==
  ASSUME NEW s \in Seq({t \in Step : t.op # "reset"})
  PROVE  ResetLast(s)
<1> SUFFICES ASSUME NEW k \in 1 .. Len(s) PROVE s[k] # Do("reset", PM25_IDX)
  BY DEF ResetLast
<1> QED
  BY ElementOfSeq DEF Do

LEMMA ReadCalls ==
  /\ AqiReads \subseteq Seq(ReadStep)
  /\ DetailReads \subseteq Seq(ReadStep)
<1>1. Both("read") \in Seq(ReadStep)
  BY BothSteps DEF ReadStep
<1>2. AqiReads \subseteq Seq(ReadStep)
  <2>1. Do("read", PM10_IDX) \in ReadStep /\ Do("read", PM25_IDX) \in ReadStep
    BY DEF Do, Step, ReadStep, Channel, PM10_IDX, PM25_IDX
  <2> QED
    BY <1>1, <2>1 DEF AqiReads
<1>3. \A r \in AqiReads : Both("read") \o r \in Seq(ReadStep)
  BY <1>1, <1>2, ConcatProperties
<1> QED
  BY <1>2, <1>3 DEF DetailReads

\* What a call or a step leaves to do, for the phase it is made in.
LEMMA TodoFits ==
  ASSUME NEW s
  PROVE  /\ s = <<>> => s \in Seq(WarmUpStep) /\ s \in Seq(RunStep) /\ ResetLast(s)
         /\ s \in Seq(ReadStep) =>
              s \in Seq(WarmUpStep) /\ s \in Seq(RunStep) /\ ResetLast(s)
         /\ s \in Seq(RunStep) => ResetLast(s)
<1>1. /\ ReadStep \subseteq WarmUpStep /\ ReadStep \subseteq RunStep
      /\ RunStep \subseteq {t \in Step : t.op # "reset"}
  BY DEF ReadStep, WarmUpStep, RunStep
<1>2. s = <<>> => s \in Seq(ReadStep)
  OBVIOUS
<1>3. s \in Seq(ReadStep) => s \in Seq(WarmUpStep) /\ s \in Seq(RunStep)
  BY <1>1, SeqMonotonic
<1>4. s \in Seq(RunStep) => ResetLast(s)
  <2>1. s \in Seq(RunStep) => s \in Seq({t \in Step : t.op # "reset"})
    BY <1>1, SeqMonotonic
  <2> QED
    BY <2>1, NoResets
<1> QED
  BY <1>2, <1>3, <1>4

-----------------------------------------------------------------------------
(* The step sequence. *)

\* The phase bookkeeping survives every step.
LEMMA StepsPreserved ==
  StepsFitPhase /\ phase \in {"warmup", "run"} /\ [Next]_vars => StepsFitPhase'
<1> SUFFICES ASSUME StepsFitPhase, phase \in {"warmup", "run"}, [Next]_vars
             PROVE  StepsFitPhase'
  OBVIOUS
<1> DEFINE Allowed == IF phase = "warmup" THEN WarmUpStep ELSE RunStep
<1>1. /\ Allowed \subseteq Step /\ todo \in Seq(Allowed) /\ ResetLast(todo)
      /\ WarmUpStep \subseteq Step
  BY DEF StepsFitPhase, WarmUpStep, RunStep
<1>2. ASSUME todo # <<>>
      PROVE  /\ Tail(todo) \in Seq(Allowed) /\ ResetLast(Tail(todo))
             /\ Head(todo) \in Allowed
             /\ Head(todo) = Do("reset", PM25_IDX) => Tail(todo) = <<>>
  BY <1>1, <1>2, TailOfTodo
<1>3. ASSUME todo' = Tail(todo), todo # <<>>, phase' = phase
      PROVE  StepsFitPhase'
  BY <1>2, <1>3 DEF StepsFitPhase
<1>4. ASSUME todo' = todo, phase' = phase
      PROVE  StepsFitPhase'
  BY <1>4 DEF StepsFitPhase
<1>5. ASSUME todo' \in {<<>>} \cup Seq(ReadStep), phase' = phase
      PROVE  StepsFitPhase'
  BY <1>5, TodoFits DEF StepsFitPhase
<1>6. CASE Tick
  BY <1>4, <1>6 DEF Tick
<1>7. CASE WarmUpPass
  <2>1. Do("serial", PM10_IDX) \in WarmUpStep
    BY DEF Do, Step, WarmUpStep, Channel, PM10_IDX
  <2>2. <<Do("serial", PM10_IDX)>> \in Seq(WarmUpStep)
    BY <2>1
  <2>3. ResetLast(<<Do("serial", PM10_IDX)>>)
    BY DEF ResetLast
  <2> QED
    BY <1>7, <2>2, <2>3 DEF WarmUpPass, Call, StepsFitPhase
<1>8. CASE LeaveWarmUp
  <2>1. Both("reset") \in Seq(WarmUpStep) /\ ResetLast(Both("reset"))
    BY BothSteps, SeqMonotonic DEF WarmUpStep
  <2> QED
    BY <1>8, <2>1 DEF LeaveWarmUp, Call, StepsFitPhase
<1>9. CASE Update
  <2>1. Both("poll") \in Seq(RunStep) /\ ResetLast(Both("poll"))
    BY BothSteps, SeqMonotonic DEF RunStep
  <2> QED
    BY <1>9, <2>1 DEF Update, Call, StepsFitPhase
<1>10. CASE GetAQI
  BY <1>5, <1>10, ReadCalls DEF GetAQI, Call
<1>11. CASE Report
  BY <1>5, <1>11, ReadCalls DEF Report, Call
<1>12. CASE WarmUpSerial
  BY <1>5, <1>12, ReadCalls DEF WarmUpSerial
<1>13. ASSUME NEW c \in Coeffs, SetCoeff(c) PROVE StepsFitPhase'
  BY <1>5, <1>13 DEF SetCoeff
<1>14. ASSUME NEW i \in Channel, Advance(i) PROVE StepsFitPhase'
  <2>1. CASE OpenWindow(i)
    <3>1. phase = "warmup"
      BY <1>2, <2>1 DEF OpenWindow, Pending, RunStep, Do
    <3>2. CASE Pending("reset", PM25_IDX)
      <4>1. Tail(todo) = <<>>
        BY <1>2, <3>2 DEF Pending
      <4> QED
        BY <2>1, <4>1, TodoFits DEF OpenWindow, StepsFitPhase
    <3>3. CASE ~Pending("reset", PM25_IDX)
      BY <1>3, <2>1, <3>3 DEF OpenWindow, Pending
    <3> QED
      BY <3>2, <3>3
  <2>2. CASE PulseSeen(i)
    <3>1. phase = "run" /\ todo # <<>>
      BY <1>2, <2>2 DEF PulseSeen, Pending, WarmUpStep, Do
    <3>2. Do("mark", i) \in RunStep
      BY DEF Do, Step, RunStep
    <3>3. Tail(todo) \in Seq(RunStep)
      BY <1>2, <3>1
    <3>4. <<Do("mark", i)>> \in Seq(RunStep)
      BY <3>2
    <3>5. <<Do("mark", i)>> \o Tail(todo) \in Seq(RunStep)
      BY <3>3, <3>4, ConcatProperties
    <3> QED
      BY <2>2, <3>1, <3>5, TodoFits DEF PulseSeen, StepsFitPhase
  <2>3. CASE PollNothing(i) \/ SignalBegin(i) \/ SignalEnd(i) \/ KeepWindow(i)
    BY <1>3, <2>3 DEF PollNothing, SignalBegin, SignalEnd, KeepWindow, Pending
  <2>4. CASE CloseWindow(i)
    BY <1>3, <2>4 DEF CloseWindow, Pending
  <2> QED
    BY <1>14, <2>1, <2>2, <2>3, <2>4 DEF Advance
<1>15. CASE UNCHANGED vars
  BY <1>4, <1>15 DEF vars
<1> QED
  BY <1>6, <1>7, <1>8, <1>9, <1>10, <1>11, <1>12, <1>13, <1>14, <1>15 DEF Next

-----------------------------------------------------------------------------
(* Types. *)

\* The ring index, its slot and the mean's divisor stay in range.
LEMMA RingIndex ==
  ASSUME NEW k \in 0 .. 2 * SAF_WIN_MAX - 1
  PROVE  /\ NextIdx(k) \in 0 .. 2 * SAF_WIN_MAX - 1
         /\ Slot(k) \in 0 .. SAF_WIN_MAX - 1
         /\ Divisor(k) \in 0 .. SAF_WIN_MAX
BY SpansAssumption DEF NextIdx, Slot, Divisor

\* All that a step must respect of the types, apart from the ring's.
LEMMA TypesPreserved ==
  ASSUME TypeOK, WarmUpClock, StepsFitPhase', [Next]_vars
  PROVE  TypeOK'
<1>0. 0 \in Word /\ 1 \in Word
  BY SpansAssumption DEF Word
<1>1. phase' \in {"warmup", "run"} => todo' \in Seq(Step)
  <2>1. WarmUpStep \subseteq Step /\ RunStep \subseteq Step
    BY DEF WarmUpStep, RunStep
  <2> QED
    BY <2>1, SeqMonotonic DEF StepsFitPhase
<1>2. CASE Tick
  <2>1. millis' \in Word
    BY <1>0, <1>2, WordArithmetic DEF Tick, TypeOK
  <2>2. since' \in [Channel -> 0 .. WarmUp + MaxReadGap]
    <3>1. \A i \in Channel : since[i] + 1 \in 0 .. WarmUp + MaxReadGap
      <4>1. CASE phase = "warmup"
        BY <1>2, <4>1, SpansAssumption DEF Tick, TypeOK, WarmUpClock, Word
      <4>2. CASE phase # "warmup"
        BY <1>2, <4>2, SpansAssumption DEF Tick, TypeOK
      <4> QED
        BY <4>1, <4>2
    <3> QED
      BY <1>2, <3>1 DEF Tick
  <2> QED
    BY <1>1, <1>2, <2>1, <2>2 DEF Tick, TypeOK, ring
<1>3. CASE WarmUpPass \/ LeaveWarmUp \/ Update \/ GetAQI \/ Report
  BY <1>1, <1>3 DEF WarmUpPass, LeaveWarmUp, Update, GetAQI, Report, Call, TypeOK, ring
<1>4. CASE WarmUpSerial
  BY <1>1, <1>4 DEF WarmUpSerial, TypeOK, ring
<1>5. ASSUME NEW c \in Coeffs, SetCoeff(c) PROVE TypeOK'
  BY <1>1, <1>5 DEF SetCoeff, TypeOK, ring
<1>6. ASSUME NEW i \in Channel, Advance(i) PROVE TypeOK'
  <2>1. CASE OpenWindow(i)
    BY <1>1, <2>1, SpansAssumption DEF OpenWindow, TypeOK, ring
  <2>2. CASE PollNothing(i) \/ PulseSeen(i)
    BY <1>1, <2>2 DEF PollNothing, PulseSeen, TypeOK, ring
  <2>3. CASE SignalBegin(i)
    BY <1>1, <2>3 DEF SignalBegin, TypeOK, ring
  <2>4. CASE SignalEnd(i)
    <3>1. Plus(low_total[i], Width(i)) \in Word
      BY WordArithmetic DEF TypeOK, Width
    <3> QED
      BY <1>0, <1>1, <2>4, <3>1 DEF SignalEnd, TypeOK, ring
  <2>5. CASE KeepWindow(i)
    BY <1>1, <2>5, SpansAssumption DEF KeepWindow, TypeOK, ring
  <2>6. CASE CloseWindow(i)
    <3> DEFINE k == NextIdx(saf_idx[i])
               sum == Plus(Minus(saf_sum[i], Evicted(i)), low_total[i])
    <3>1. /\ k \in 0 .. 2 * SAF_WIN_MAX - 1
          /\ Slot(k) \in 0 .. SAF_WIN_MAX - 1
          /\ Divisor(k) \in 0 .. SAF_WIN_MAX
      BY RingIndex DEF TypeOK
    <3>2. Evicted(i) \in Word
      BY <3>1 DEF Evicted, TypeOK
    <3>3. sum \in Word
      BY <3>2, WordArithmetic DEF TypeOK
    <3>4. saf_ent' \in [Channel -> [0 .. SAF_WIN_MAX - 1 -> Word]]
      BY <2>6, <3>1 DEF CloseWindow, TypeOK
    <3>5. lastLowRatio' \in [Channel -> [sum : Word, n : 0 .. SAF_WIN_MAX]]
      BY <2>6, <3>1, <3>3 DEF CloseWindow, TypeOK
    <3>6. /\ saf_idx' \in [Channel -> 0 .. 2 * SAF_WIN_MAX - 1]
          /\ saf_sum' \in [Channel -> Word]
      BY <2>6, <3>1, <3>3 DEF CloseWindow, TypeOK
    <3>7. /\ win_start' \in [Channel -> Word]
          /\ low_total' \in [Channel -> Word]
          /\ since' \in [Channel -> 0 .. WarmUp + MaxReadGap]
      <4>1. /\ win_start' = [win_start EXCEPT ![i] = millis]
            /\ low_total' = [low_total EXCEPT ![i] = 0]
            /\ since' = [since EXCEPT ![i] = 0]
        BY <2>6 DEF CloseWindow
      <4>2. 0 \in 0 .. WarmUp + MaxReadGap
        BY SpansAssumption
      <4> QED
        BY <1>0, <4>1, <4>2 DEF TypeOK
    <3> HIDE DEF k, sum
    <3> QED
      BY <1>1, <2>6, <3>4, <3>5, <3>6, <3>7 DEF CloseWindow, TypeOK
  <2> QED
    BY <1>6, <2>1, <2>2, <2>3, <2>4, <2>5, <2>6 DEF Advance
<1>7. CASE UNCHANGED vars
  BY <1>7, <1>1 DEF TypeOK, vars, ring
<1> QED
  BY <1>2, <1>3, <1>4, <1>5, <1>6, <1>7 DEF Next

-----------------------------------------------------------------------------
(* Windows and the clock. *)

\* A tick ages every window by one; no window is old enough for its age to
\* wrap, because the main loop keeps reading.
LEMMA TickAges ==
  ASSUME TypeOK, WindowsTurnOver, Tick, NEW i \in Channel
  PROVE  /\ Elapsed(i)' = Elapsed(i) + 1
         /\ Elapsed(i) \in Nat
         /\ since'[i] = since[i] + 1
<1>1. /\ millis \in Word /\ win_start[i] \in Word
      /\ since[i] \in 0 .. WarmUp + MaxReadGap
  BY DEF TypeOK
<1>2. Elapsed(i) + 1 < ClockMod /\ Elapsed(i) \in Nat
  <2>1. Elapsed(i) < MIN_WIN_SPAN + since[i]
    BY DEF WindowsTurnOver
  <2>2. Elapsed(i) \in Word
    BY <1>1, WordArithmetic DEF Elapsed
  <2> QED
    BY <1>1, <2>1, <2>2, SpansAssumption DEF Word
<1>3. Minus(Plus(millis, 1), win_start[i]) = Minus(millis, win_start[i]) + 1
  BY <1>1, <1>2, AgeAfterTick DEF Elapsed
<1> QED
  BY <1>2, <1>3 DEF Tick, Elapsed

\* A window just opened has age 0.
LEMMA FreshWindow ==
  ASSUME NEW t \in Word
  PROVE  Minus(t, t) = 0
BY DEF Minus, Word

\* The three clock invariants survive every step.
LEMMA ClockPreserved ==
  ASSUME TypeOK, WarmUpClock, WindowsTurnOver, WrapOutageBounded,
         [Next]_vars, StepsFitPhase
  PROVE  WarmUpClock' /\ WindowsTurnOver' /\ WrapOutageBounded'
<1>1. ASSUME UNCHANGED <<millis, phase, win_start, since>>
      PROVE  WarmUpClock' /\ WindowsTurnOver' /\ WrapOutageBounded'
  BY <1>1 DEF WarmUpClock, WindowsTurnOver, WrapOutageBounded, Elapsed
<1>2. CASE Tick
  <2>1. WindowsTurnOver'
    <3> SUFFICES ASSUME NEW i \in Channel
                 PROVE  Elapsed(i)' < MIN_WIN_SPAN + since'[i]
      BY DEF WindowsTurnOver
    <3>1. Elapsed(i) < MIN_WIN_SPAN + since[i]
      BY DEF WindowsTurnOver
    <3>2. since[i] \in Nat /\ MIN_WIN_SPAN \in Nat
      BY SpansAssumption DEF TypeOK
    <3> QED
      BY <1>2, <3>1, <3>2, TickAges
  <2>2. WrapOutageBounded'
    <3> SUFFICES ASSUME NEW i \in Channel, millis' < win_start'[i]
                 PROVE  millis' < since'[i]
      BY DEF WrapOutageBounded
    <3>1. /\ millis \in Word /\ since[i] \in Nat /\ win_start[i] \in Word
          /\ win_start' = win_start /\ millis' = Plus(millis, 1)
          /\ since'[i] = since[i] + 1
      BY <1>2, TickAges DEF Tick, TypeOK
    <3>2. CASE millis + 1 >= ClockMod
      BY <3>1, <3>2, AgeAfterTick
    <3>3. CASE millis + 1 < ClockMod
      <4>1. millis' = millis + 1
        BY <3>1, <3>3, AgeAfterTick
      <4>2. millis < win_start[i]
        BY <3>1, <4>1 DEF Word
      <4>3. millis < since[i]
        BY <4>2 DEF WrapOutageBounded
      <4> QED
        BY <3>1, <4>1, <4>3 DEF Word
    <3> QED
      BY <3>1, <3>2, <3>3, SpansAssumption DEF Word
  <2>3. WarmUpClock'
    <3> SUFFICES ASSUME phase' = "warmup"
                 PROVE  /\ millis' <= WarmUp + MaxReadGap
                        /\ \A i \in Channel : since'[i] <= millis'
      BY DEF WarmUpClock
    <3>1. phase = "warmup" /\ millis < WarmUp + MaxReadGap /\ millis \in Word
      BY <1>2 DEF Tick, TypeOK
    <3>2. millis' = millis + 1
      <4>1. millis + 1 < ClockMod
        BY <3>1, SpansAssumption DEF Word
      <4> QED
        BY <1>2, <3>1, <4>1 DEF Tick, Plus
    <3>3. \A i \in Channel : since'[i] <= millis'
      <4> SUFFICES ASSUME NEW i \in Channel PROVE since'[i] <= millis'
        OBVIOUS
      <4>1. since[i] <= millis /\ since[i] \in Nat /\ since'[i] = since[i] + 1
        BY <1>2, <3>1, TickAges DEF WarmUpClock, TypeOK
      <4> QED
        BY <3>1, <3>2, <4>1 DEF Word
    <3> QED
      BY <3>1, <3>2, <3>3, SpansAssumption DEF Word
  <2> QED
    BY <2>1, <2>2, <2>3
<1>3. ASSUME NEW i \in Channel,
             win_start' = [win_start EXCEPT ![i] = millis],
             since' = [since EXCEPT ![i] = 0],
             millis' = millis, phase' \in {phase, "run"}
      PROVE  WarmUpClock' /\ WindowsTurnOver' /\ WrapOutageBounded'
  <2>1. /\ millis \in Word /\ since[i] \in Nat
        /\ win_start'[i] = millis /\ since'[i] = 0
        /\ \A j \in Channel \ {i} : win_start'[j] = win_start[j] /\ since'[j] = since[j]
    BY <1>3 DEF TypeOK
  <2>2. Elapsed(i)' = 0
    BY <1>3, <2>1, FreshWindow DEF Elapsed
  <2>3. \A j \in Channel \ {i} : Elapsed(j)' = Elapsed(j)
    BY <1>3, <2>1 DEF Elapsed
  <2>4. WindowsTurnOver'
    BY <2>1, <2>2, <2>3, SpansAssumption DEF WindowsTurnOver
  <2>5. WrapOutageBounded'
    BY <1>3, <2>1 DEF WrapOutageBounded, Word
  <2>6. WarmUpClock'
    BY <1>3, <2>1 DEF WarmUpClock, Word
  <2> QED
    BY <2>4, <2>5, <2>6
<1>4. ASSUME NEW i \in Channel, KeepWindow(i)
      PROVE  WarmUpClock' /\ WindowsTurnOver' /\ WrapOutageBounded'
  <2>1. /\ millis \in Word /\ win_start' = win_start /\ millis' = millis
        /\ phase' = phase /\ since'[i] = 0 /\ ~(millis < win_start[i])
        /\ ~(Elapsed(i) >= MIN_WIN_SPAN)
        /\ \A j \in Channel \ {i} : since'[j] = since[j]
    BY <1>4 DEF KeepWindow, TypeOK, WindowDone
  <2>2. \A j \in Channel : Elapsed(j)' = Elapsed(j)
    BY <2>1 DEF Elapsed
  <2>3. Elapsed(i) < MIN_WIN_SPAN
    <3>1. Elapsed(i) \in Word
      BY <2>1, WordArithmetic DEF Elapsed, TypeOK
    <3> QED
      BY <2>1, <3>1, SpansAssumption DEF Word
  <2>4. WindowsTurnOver'
    BY <2>1, <2>2, <2>3, SpansAssumption DEF WindowsTurnOver
  <2>5. WrapOutageBounded'
    BY <2>1 DEF WrapOutageBounded
  <2>6. WarmUpClock'
    BY <2>1 DEF WarmUpClock, Word
  <2> QED
    BY <2>4, <2>5, <2>6
<1>5. ASSUME NEW i \in Channel, Advance(i)
      PROVE  WarmUpClock' /\ WindowsTurnOver' /\ WrapOutageBounded'
  <2>1. CASE OpenWindow(i)
    BY <1>3, <2>1 DEF OpenWindow
  <2>2. CASE CloseWindow(i)
    BY <1>3, <2>2 DEF CloseWindow
  <2>3. CASE PollNothing(i) \/ PulseSeen(i) \/ SignalBegin(i) \/ SignalEnd(i)
    BY <1>1, <2>3 DEF PollNothing, PulseSeen, SignalBegin, SignalEnd
  <2> QED
    BY <1>4, <1>5, <2>1, <2>2, <2>3 DEF Advance
<1>6. CASE WarmUpPass \/ LeaveWarmUp \/ Update \/ GetAQI \/ Report
  BY <1>1, <1>6 DEF WarmUpPass, LeaveWarmUp, Update, GetAQI, Report, Call
<1>7. ASSUME WarmUpSerial \/ (\E c \in Coeffs : SetCoeff(c)) \/ UNCHANGED vars
      PROVE  WarmUpClock' /\ WindowsTurnOver' /\ WrapOutageBounded'
  BY <1>1, <1>7 DEF WarmUpSerial, SetCoeff, vars
<1> QED
  BY <1>2, <1>5, <1>6, <1>7 DEF Next

-----------------------------------------------------------------------------
(* Pulses. *)

\* The channels are untouched until warm-up ends.
LEMMA NoPulsePreserved ==
  ASSUME TypeOK, NoPulseYet, StepsFitPhase, [Next]_vars
  PROVE  NoPulseYet'
<1> USE DEF NoPulseYet
<1>1. ASSUME phase' = "warmup" => phase = "warmup", UNCHANGED <<state, low_total>>
      PROVE  NoPulseYet'
  BY <1>1
<1>2. ASSUME NEW i \in Channel, Advance(i) PROVE NoPulseYet'
  <2>1. CASE OpenWindow(i)
    BY <1>1, <2>1 DEF OpenWindow, TypeOK
  <2>2. CASE PollNothing(i) \/ PulseSeen(i) \/ KeepWindow(i)
    BY <1>1, <2>2 DEF PollNothing, PulseSeen, KeepWindow
  <2>3. CASE SignalBegin(i) \/ SignalEnd(i)
    <3>1. todo # <<>> /\ Head(todo).op \in {"mark", "poll"}
      BY <2>3 DEF SignalBegin, SignalEnd, Pending, Do
    <3>2. phase # "warmup"
      BY <3>1, TailOfTodo DEF StepsFitPhase, WarmUpStep
    <3>3. phase' = phase
      BY <2>3 DEF SignalBegin, SignalEnd
    <3> QED
      BY <3>2, <3>3
  <2>4. CASE CloseWindow(i)
    BY <2>4 DEF CloseWindow, TypeOK
  <2> QED
    BY <1>2, <2>1, <2>2, <2>3, <2>4 DEF Advance
<1>3. CASE Tick
  BY <1>1, <1>3 DEF Tick
<1>4. CASE WarmUpPass \/ LeaveWarmUp \/ Update \/ GetAQI \/ Report
  BY <1>1, <1>4 DEF WarmUpPass, LeaveWarmUp, Update, GetAQI, Report, Call
<1>5. ASSUME WarmUpSerial \/ (\E c \in Coeffs : SetCoeff(c)) \/ UNCHANGED vars
      PROVE  NoPulseYet'
  BY <1>1, <1>5 DEF WarmUpSerial, SetCoeff, vars
<1> QED
  BY <1>2, <1>3, <1>4, <1>5 DEF Next

\* Whatever a step does to a channel, its low time still fits its window.
LEMMA PulsesPreserved ==
  ASSUME TypeOK, NoPulseYet, StepsFitPhase, WindowsTurnOver,
         \A j \in Channel : PulseFits(j), [Next]_vars
  PROVE  \A j \in Channel : PulseFits(j)'
<1> SUFFICES ASSUME NEW j \in Channel PROVE PulseFits(j)'
  OBVIOUS
<1>1. /\ millis \in Word /\ low_total[j] \in Word
      /\ win_start[j] \in Word /\ sig_start[j] \in Word
      /\ Elapsed(j) \in Word /\ Width(j) \in Word
      /\ state[j] \in {"Idle", "Start"}
  BY WordArithmetic DEF TypeOK, Elapsed, Width
<1>2. PulseFits(j)
  OBVIOUS
<1>3. ASSUME millis' = millis, state'[j] = state[j], low_total'[j] = low_total[j],
             sig_start'[j] = sig_start[j], win_start'[j] = win_start[j]
      PROVE  PulseFits(j)'
  BY <1>2, <1>3 DEF PulseFits, Elapsed, Width
<1>4. CASE Tick
  <2>1. /\ state' = state /\ low_total' = low_total /\ sig_start' = sig_start
        /\ Elapsed(j)' = Elapsed(j) + 1
    BY <1>4, TickAges DEF Tick
  <2>2. Width(j)' = Width(j) + 1 \/ Width(j)' = 0
    <3>1. /\ millis' = Plus(millis, 1)
          /\ Width(j)' = Minus(Plus(millis, 1), sig_start[j])
      BY <1>4 DEF Tick, Width
    <3>2. \/ Minus(millis, sig_start[j]) + 1 < ClockMod
          \/ Minus(millis, sig_start[j]) + 1 >= ClockMod
      BY <1>1, SpansAssumption DEF Width, Word
    <3> QED
      BY <1>1, <3>1, <3>2, AgeAfterTick DEF Width
  <2> QED
    BY <1>1, <1>2, <2>1, <2>2, SpansAssumption DEF PulseFits, Word
<1>5. ASSUME NEW i \in Channel, Advance(i) PROVE PulseFits(j)'
  <2>1. CASE i # j
    BY <1>3, <1>5, <2>1 DEF Advance, OpenWindow, PollNothing, PulseSeen, SignalBegin,
       SignalEnd, KeepWindow, CloseWindow, TypeOK
  <2>2. CASE i = j /\ OpenWindow(j)
    <3>1. phase = "warmup"
      BY <2>2, TailOfTodo DEF OpenWindow, Pending, StepsFitPhase, RunStep, Do
    <3>2. low_total'[j] = 0
      BY <2>2, <3>1 DEF OpenWindow, NoPulseYet
    <3> QED
      BY <3>2 DEF PulseFits
  <2>3. CASE i = j /\ (PollNothing(j) \/ PulseSeen(j))
    BY <1>3, <2>3 DEF PollNothing, PulseSeen
  <2>4. CASE i = j /\ SignalBegin(j)
    <3>1. /\ millis' = millis /\ win_start' = win_start
          /\ low_total' = low_total /\ sig_start'[j] = millis
      BY <2>4 DEF SignalBegin, TypeOK
    <3>2. Width(j)' = 0 /\ Elapsed(j)' = Elapsed(j)
      BY <1>1, <3>1, FreshWindow DEF Width, Elapsed
    <3> QED
      BY <1>1, <1>2, <3>1, <3>2 DEF PulseFits, Word
  <2>5. CASE i = j /\ SignalEnd(j)
    <3>1. /\ state[j] = "Start" /\ state'[j] = "Idle"
          /\ Elapsed(j)' = Elapsed(j)
          /\ low_total'[j] = IF Counts(j) THEN Plus(low_total[j], Width(j))
                                          ELSE low_total[j]
      BY <2>5 DEF SignalEnd, TypeOK, Elapsed
    <3>2. CASE Counts(j)
      <4>1. Width(j) <= MAX_SIG_SPAN
        BY <3>2 DEF Counts
      <4>2. low_total[j] + Width(j) <= Elapsed(j) + MAX_SIG_SPAN
        BY <1>1, <1>2, <3>1, <4>1, SpansAssumption DEF PulseFits, Word
      <4>3. Elapsed(j) + MAX_SIG_SPAN < ClockMod
        <5>1. Elapsed(j) < MIN_WIN_SPAN + since[j]
          BY DEF WindowsTurnOver
        <5>2. since[j] \in 0 .. WarmUp + MaxReadGap
          BY DEF TypeOK
        <5> QED
          BY <1>1, <5>1, <5>2, SpansAssumption DEF Word
      <4>4. Plus(low_total[j], Width(j)) = low_total[j] + Width(j)
        BY <1>1, <4>2, <4>3, SpansAssumption DEF Plus, Word
      <4> QED
        BY <3>1, <3>2, <4>2, <4>4 DEF PulseFits
    <3>3. CASE ~Counts(j)
      BY <1>2, <3>1, <3>3 DEF PulseFits
    <3> QED
      BY <3>2, <3>3
  <2>6. CASE i = j /\ KeepWindow(j)
    BY <1>3, <2>6 DEF KeepWindow
  <2>7. CASE i = j /\ CloseWindow(j)
    <3>1. low_total'[j] = 0
      BY <2>7 DEF CloseWindow, TypeOK
    <3> QED
      BY <3>1 DEF PulseFits
  <2> QED
    BY <1>5, <2>1, <2>2, <2>3, <2>4, <2>5, <2>6, <2>7 DEF Advance
<1>6. CASE WarmUpPass \/ LeaveWarmUp \/ Update \/ GetAQI \/ Report
  BY <1>3, <1>6 DEF WarmUpPass, LeaveWarmUp, Update, GetAQI, Report, Call
<1>7. ASSUME WarmUpSerial \/ (\E c \in Coeffs : SetCoeff(c)) \/ UNCHANGED vars
      PROVE  PulseFits(j)'
  BY <1>3, <1>7 DEF WarmUpSerial, SetCoeff, vars
<1> QED
  BY <1>4, <1>5, <1>6, <1>7 DEF Next

-----------------------------------------------------------------------------
(* The theorems. *)

\* The inductive invariant holds when begin() starts.
LEMMA InitIInv == Init => IInv
<1> SUFFICES ASSUME Init PROVE IInv
  OBVIOUS
<1> USE SpansAssumption DEF Init
<1>1. todo \in Seq(WarmUpStep) /\ ResetLast(todo) /\ todo \in Seq(Step)
  BY BothSteps, SeqMonotonic DEF WarmUpStep
<1>2. \A i \in Channel : Elapsed(i) = 0
  BY DEF Elapsed, Minus
<1>3. 0 \in Word
  BY DEF Word
<1>4. TypeOK
  BY <1>1, <1>3 DEF TypeOK
<1>5. StepsFitPhase /\ NoPulseYet /\ WarmUpClock
  BY <1>1 DEF StepsFitPhase, NoPulseYet, WarmUpClock
<1>6. WindowsTurnOver
  <2> SUFFICES ASSUME NEW i \in Channel PROVE Elapsed(i) < MIN_WIN_SPAN + since[i]
    BY DEF WindowsTurnOver
  <2>1. Elapsed(i) = 0 /\ since[i] = 0
    BY <1>2
  <2> QED
    BY <2>1
<1>7. WrapOutageBounded /\ \A i \in Channel : PulseFits(i)
  BY DEF WrapOutageBounded, PulseFits
<1> QED
  BY <1>4, <1>5, <1>6, <1>7 DEF IInv

\* Every step preserves it.
LEMMA NextIInv == IInv /\ [Next]_vars => IInv'
<1> SUFFICES ASSUME IInv, [Next]_vars PROVE IInv'
  OBVIOUS
<1>1. phase \in {"warmup", "run"}
  BY DEF IInv, TypeOK
<1>2. StepsFitPhase'
  BY <1>1, StepsPreserved DEF IInv
<1>3. TypeOK'
  BY <1>2, TypesPreserved DEF IInv
<1>4. WarmUpClock' /\ WindowsTurnOver' /\ WrapOutageBounded'
  BY ClockPreserved DEF IInv
<1>5. NoPulseYet'
  BY NoPulsePreserved DEF IInv
<1>6. \A j \in Channel : PulseFits(j)'
  BY PulsesPreserved DEF IInv
<1> QED
  BY <1>2, <1>3, <1>4, <1>5, <1>6 DEF IInv

\* So it holds in every reachable state.
THEOREM Invariance == Spec => []IInv
BY InitIInv, NextIInv, PTL DEF Spec

\* Type correctness of the driver, for every clock width and span.
THEOREM TypeCorrectness == Spec => []TypeOK
<1>1. IInv => TypeOK
  BY DEF IInv
<1> QED
  BY <1>1, Invariance, PTL

\* A window never holds more low time than its age plus one pulse.
THEOREM LowTimeFitsWindow == Spec => []LowTimeBounded
<1>1. IInv => LowTimeBounded
  BY DEF IInv, LowTimeBounded, PulseFits
<1> QED
  BY <1>1, Invariance, PTL

\* A window is younger than MIN_WIN_SPAN plus the time since the last read.
THEOREM FigureNeverStale == Spec => []WindowsTurnOver
<1>1. IInv => WindowsTurnOver
  BY DEF IInv
<1> QED
  BY <1>1, Invariance, PTL

\* After the clock wraps, sampling is refused only until the next read.
THEOREM OutageEndsWithRead == Spec => []WrapOutageBounded
<1>1. IInv => WrapOutageBounded
  BY DEF IInv
<1> QED
  BY <1>1, Invariance, PTL

=============================================================================
