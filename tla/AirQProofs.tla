------------------------------ MODULE AirQProofs ------------------------------
(***************************************************************************)
(* Proofs about the main loop and its interval timers, for every interval, *)
(* width of the clock, length of a pass and timeout of the watchdog.       *)
(***************************************************************************)
EXTENDS AirQ, SequenceTheorems, TLAPS

\* How long ago the clock showed t.
Age(t) == Minus(millis, t)

\* The statements of a pass of loop() before it reads the clock.
BeforeNow == {"poll", "serial", "command", "job", "timers"}

-----------------------------------------------------------------------------
(* The parts of the inductive invariant. *)

\* The statement belongs to setup() or to loop(), and the watchdog is started
\* by setup() if it is compiled in.
PhaseAgrees ==
  /\ pc \in {"setup", "warm", "delay"} => phase = "warmup"
  /\ pc \in {"update", "timers", "line1", "line2", "log", "write"} => phase = "run"
  /\ wdt => EN_USB /\ pc # "setup"

\* With the watchdog on, a pass is over before its bound: each feeding of the
\* watchdog belongs to a pass.
PassFed ==
  wdt /\ pc # "warm" =>
    /\ passAge <= WdtSpan + kickAge
    /\ pc \in {"delay", "poll"} \/ (phase = "warmup" /\ pc \in BeforeNow) =>
         passAge <= kickAge

\* The clock does not wrap during warm-up, and the timers of the LCD are 0.
WarmUpClock ==
  phase = "warmup" =>
    /\ lcd_lu_time = 0 /\ lcd_lu_aqdat = 0
    /\ millis <= IF pc = "warm" /\ wdt THEN WarmUp + PassBound + kickAge ELSE WarmUp + passAge

\* Time since the last update of the sensor began, or the one before it.
SinceNow(pcs) == IF pc \in pcs THEN PassBound + passAge ELSE passAge

\* now is of the pass under way.
NowOfPass ==
  pc \in {"line1", "line2", "log", "write"} => Age(now) <= passAge

\* The first pass of loop() comes to the timers, that are still 0, before the
\* clock wraps.
FirstPass(pcs) ==
  /\ pc \in {"update"} \cup pcs
  /\ WarmUp <= millis
  /\ millis <= WarmUp + PassBound +
                 CASE wdt /\ pc \in {"update", "poll"} -> kickAge
                   [] wdt /\ pc \notin {"update", "poll"} -> WdtSpan + kickAge
                   [] OTHER -> SinceNow(pcs)
  /\ pc \in {"line1", "line2"} => WarmUp <= now /\ now <= millis

\* A timer is never older than its interval and two passes, and what it times
\* not older than the timer.
Timed(last, intv, age, pcs) ==
  /\ age <= Age(last)
  /\ Age(last) <= intv + SinceNow(pcs)

ClockLine ==
  phase = "run" =>
    LET pcs == BeforeNow \cup {"line1"} IN
    /\ \/ Timed(lcd_lu_time, lcd_tm_Intv, lineAge, pcs)
       \/ FirstPass(pcs) /\ lcd_lu_time = 0
    /\ pc = "line1" => \/ skew <= Minus(now, lcd_lu_time)
                       \/ FirstPass(pcs) /\ lcd_lu_time = 0
    /\ pc \in {"line2", "log", "write"} => skew <= lcd_tm_Intv

AirData ==
  phase = "run" =>
    LET pcs == BeforeNow \cup {"line1", "line2"} IN
    \/ Timed(lcd_lu_aqdat, lcd_ad_Intv, readAge, pcs)
    \/ FirstPass(pcs) /\ lcd_lu_aqdat = 0 /\ readAge <= SinceNow(pcs)

IInv ==
  /\ TypeOK /\ PhaseAgrees /\ PassFed /\ WarmUpClock /\ NowOfPass /\ ClockLine /\ AirData

-----------------------------------------------------------------------------
(* Lemmas about the clock and the serial jobs. *)

\* The lengths of time that the program and the environment keep to.
LEMMA Spans ==
  /\ ClockMod \in Nat /\ lcd_tm_Intv \in Nat /\ lcd_ad_Intv \in Nat /\ WarmUp \in Nat
  /\ WdtSpan \in Nat /\ PassBound \in Nat /\ ReadBound = lcd_ad_Intv + 2 * PassBound
  /\ EN_USB \in BOOLEAN
  /\ EN_USB => PassBound = 2 * WdtSpan
  /\ lcd_tm_Intv < WarmUp /\ lcd_ad_Intv < WarmUp
  /\ WarmUp + 3 * PassBound < ClockMod
BY TimersAssumption DEF PassBound, ReadBound

\* Zero is of every type.
LEMMA ZeroTypes ==
  /\ 0 \in Word /\ 0 \in 0 .. lcd_tm_Intv + 1 /\ 0 \in 0 .. ReadBound + 1
  /\ 0 \in 0 .. PassBound /\ 0 \in 0 .. WdtSpan
BY Spans DEF Word

\* Differences of times are times.
LEMMA MinusInWord == \A a, b \in Word : Minus(a, b) \in Word /\ Minus(a, b) \in Nat
BY TimersAssumption DEF Word, Minus

\* What was read this moment has age 0, and an age that is not yet a whole turn
\* of the clock adds up.
LEMMA AgesAddUp ==
  ASSUME NEW m \in Word, NEW n \in Word, NEW t \in Word
  PROVE  /\ Minus(m, m) = 0
         /\ Minus(n, t) + Minus(m, n) < ClockMod => Minus(m, t) = Minus(n, t) + Minus(m, n)
         /\ t <= m => Minus(m, t) = m - t
BY TimersAssumption DEF Word, Minus

\* A tick makes every reading one older, or wraps the difference to 0.
LEMMA TickAges ==
  ASSUME NEW m \in Word, NEW t \in Word
  PROVE  /\ Plus(m, 1) \in Word
         /\ m + 1 < ClockMod => Plus(m, 1) = m + 1
         /\ Minus(m, t) + 1 < ClockMod => Minus(Plus(m, 1), t) = Minus(m, t) + 1
BY TimersAssumption DEF Word, Minus, Plus

\* The types of the variables that tell time.
LEMMA TimeTypes ==
  ASSUME TypeOK
  PROVE  /\ millis \in Word /\ now \in Word /\ lcd_lu_time \in Word /\ lcd_lu_aqdat \in Word
         /\ lastLog \in Word /\ millis \in Nat /\ now \in Nat
         /\ lineAge \in Nat /\ skew \in Nat /\ readAge \in Nat
         /\ passAge \in Nat /\ passAge <= PassBound /\ kickAge \in Nat /\ kickAge <= WdtSpan
         /\ Age(now) \in Nat /\ Age(lcd_lu_time) \in Nat /\ Age(lcd_lu_aqdat) \in Nat
         /\ Minus(now, lcd_lu_time) \in Nat /\ Minus(now, lcd_lu_aqdat) \in Nat
<1>1. /\ millis \in Word /\ now \in Word /\ lcd_lu_time \in Word /\ lcd_lu_aqdat \in Word
      /\ lastLog \in Word
  BY DEF TypeOK
<1>2. millis \in Nat /\ now \in Nat
  BY <1>1, TimersAssumption DEF Word
<1>3. /\ lineAge \in Nat /\ skew \in Nat /\ readAge \in Nat
      /\ passAge \in Nat /\ passAge <= PassBound /\ kickAge \in Nat /\ kickAge <= WdtSpan
  BY Spans DEF TypeOK
<1> QED
  BY <1>1, <1>2, <1>3, MinusInWord DEF Age

\* A job is a sequence of steps, and what is left of one is too.
LEMMA JobTypes ==
  LET Steps == {"sync", "fill", "coeff", "settime"} IN
  /\ CoeffJob \in Seq(Steps) /\ CoeffJob # <<>>
  /\ TimeJob \in Seq(Steps) /\ TimeJob # <<>>
  /\ \A s \in Seq(Steps) : s # <<>> => Tail(s) \in Seq(Steps)
<1> DEFINE Steps == {"sync", "fill", "coeff", "settime"}
           fills == [k \in 1 .. FillLen |-> "fill"]
           body  == <<"sync">> \o fills
<1>1. CoeffJob \in Seq(Steps) /\ CoeffJob # <<>>
  BY DEF CoeffJob
<1>2. fills \in Seq(Steps)
  <2>1. fills \in [1 .. FillLen -> Steps] /\ FillLen \in Nat
    BY TimersAssumption
  <2> QED
    BY <2>1, SeqDef, Zenon
<1>3. <<"sync">> \in Seq(Steps) /\ <<"sync", "settime">> \in Seq(Steps)
      /\ Len(<<"sync", "settime">>) = 2
  OBVIOUS
<1> HIDE DEF fills, Steps
<1>4. body \in Seq(Steps) /\ Len(body) \in Nat
  BY <1>2, <1>3, ConcatProperties, LenProperties
<1> HIDE DEF body
<1>5. /\ body \o <<"sync", "settime">> \in Seq(Steps)
      /\ Len(body \o <<"sync", "settime">>) = Len(body) + 2
  BY <1>3, <1>4, ConcatProperties
<1>6. body \o <<"sync", "settime">> # <<>>
  BY <1>4, <1>5, EmptySeq
<1>7. TimeJob = body \o <<"sync", "settime">>
  BY DEF TimeJob, body, fills
<1>8. \A s \in Seq(Steps) : s # <<>> => Tail(s) \in Seq(Steps)
  BY HeadTailProperties
<1> QED
  BY <1>1, <1>5, <1>6, <1>7, <1>8 DEF Steps

-----------------------------------------------------------------------------
(* Each step of the environment and of the program preserves the invariant. *)

\* Before the clock is read again, at most two passes have gone by.
LEMMA SinceNowBound ==
  ASSUME TypeOK, NEW pcs
  PROVE  SinceNow(pcs) \in Nat /\ SinceNow(pcs) <= 2 * PassBound
BY Spans, TimeTypes DEF SinceNow

\* Time passes: no pass outlasts its bound and the clock does not overtake a
\* timer.
LEMMA TickPreserves == IInv /\ Tick => IInv'
<1>0. SUFFICES ASSUME IInv, Tick PROVE IInv'
  OBVIOUS
<1> USE DEF IInv, ages, timers
<1>a. /\ IF wdt THEN kickAge < WdtSpan ELSE passAge < PassBound
      /\ millis' = Plus(millis, 1)
      /\ lineAge' = UpTo(lineAge, lcd_tm_Intv + 1)
      /\ readAge' = UpTo(readAge, ReadBound + 1)
      /\ passAge' = UpTo(passAge, PassBound)
      /\ kickAge' = IF wdt THEN kickAge + 1 ELSE 0
      /\ UNCHANGED <<pc, phase, job, timers, sd_initialized, rx, card, wdt, skew>>
  BY <1>0 DEF Tick
<1>b. /\ millis' \in Word
      /\ millis + 1 < ClockMod => millis' = millis + 1
      /\ \A t \in Word : Age(t) + 1 < ClockMod => Age(t)' = Age(t) + 1
  BY <1>0, <1>a, TickAges, TimeTypes DEF Age
<1>c. /\ passAge \in Nat /\ passAge <= PassBound /\ kickAge \in Nat /\ kickAge <= WdtSpan
      /\ lineAge \in Nat /\ readAge \in Nat /\ skew \in Nat /\ millis \in Nat
      /\ lineAge' <= lineAge + 1 /\ readAge' <= readAge + 1
      /\ kickAge' \in Nat /\ kickAge' <= WdtSpan
  BY <1>0, <1>a, Spans, TimeTypes DEF UpTo, Word
<1>d. pc # "warm" \/ ~wdt => passAge < PassBound /\ passAge' = passAge + 1
  <2>1. CASE ~wdt
    BY <1>a, <1>c, <2>1, Spans DEF UpTo
  <2>2. CASE wdt /\ pc # "warm"
    <3>1. passAge <= WdtSpan + kickAge /\ EN_USB
      BY <1>0, <2>2, Spans DEF PassFed, PhaseAgrees
    <3>2. passAge < PassBound
      BY <1>a, <1>c, <2>2, <3>1, Spans
    <3> QED
      BY <1>a, <3>2 DEF UpTo
  <2> QED
    BY <2>1, <2>2
<1>e. wdt => kickAge' = kickAge + 1
  BY <1>a
<1>1. TypeOK'
  <2>1. lineAge' \in 0 .. lcd_tm_Intv + 1
    BY <1>0, <1>a, Spans DEF TypeOK, UpTo
  <2>2. readAge' \in 0 .. ReadBound + 1
    BY <1>0, <1>a, Spans DEF TypeOK, UpTo
  <2>3. passAge' \in 0 .. PassBound
    BY <1>0, <1>a, Spans DEF TypeOK, UpTo
  <2>4. kickAge' \in 0 .. WdtSpan
    BY <1>c, Spans
  <2> QED
    BY <1>0, <1>a, <1>b, <2>1, <2>2, <2>3, <2>4 DEF TypeOK
<1>2. PhaseAgrees'
  BY <1>0, <1>a DEF PhaseAgrees
<1>3. PassFed'
  BY <1>0, <1>a, <1>c, <1>d, <1>e, Spans DEF PassFed
<1>4. WarmUpClock'
  <2> SUFFICES ASSUME phase = "warmup" PROVE WarmUpClock'
    BY <1>a DEF WarmUpClock
  <2>1. CASE pc = "warm" /\ wdt
    <3>1. millis <= WarmUp + PassBound + kickAge
      BY <1>0, <2>1 DEF WarmUpClock
    <3>2. EN_USB
      BY <1>0, <2>1, Spans DEF PhaseAgrees
    <3>3. millis' = millis + 1
      BY <1>a, <1>b, <1>c, <2>1, <3>1, <3>2, Spans
    <3> QED
      BY <1>0, <1>a, <1>c, <1>e, <2>1, <3>1, <3>3, Spans DEF WarmUpClock
  <2>2. CASE ~(pc = "warm" /\ wdt)
    <3>1. millis <= WarmUp + passAge
      BY <1>0, <2>2 DEF WarmUpClock
    <3>2. passAge < PassBound /\ passAge' = passAge + 1
      BY <1>d, <2>2
    <3>3. millis' = millis + 1
      BY <1>b, <1>c, <3>1, <3>2, Spans
    <3> QED
      BY <1>0, <1>a, <1>c, <2>2, <3>1, <3>2, <3>3, Spans DEF WarmUpClock
  <2> QED
    BY <2>1, <2>2
<1>5. NowOfPass'
  <2> SUFFICES ASSUME pc \in {"line1", "line2", "log", "write"} PROVE Age(now)' <= passAge'
    BY <1>a DEF NowOfPass
  <2>1. Age(now) <= passAge /\ Age(now) \in Nat /\ now \in Word /\ now' = now
    BY <1>0, <1>a, TimeTypes DEF NowOfPass
  <2>2. passAge < PassBound /\ passAge' = passAge + 1
    BY <1>d
  <2>3. Age(now) + 1 < ClockMod
    BY <1>c, <2>1, <2>2, Spans
  <2>4. Age(now)' = Age(now) + 1
    BY <1>b, <2>1, <2>3
  <2> QED
    BY <1>c, <2>1, <2>2, <2>4
\* A timer gets older by the tick, and what it times by no more.
<1>f. ASSUME NEW t \in Word, NEW intv \in Nat, intv < WarmUp, NEW pcs,
             NEW a \in Nat, NEW b \in Nat, b <= a + 1,
             a <= Age(t), Age(t) <= intv + SinceNow(pcs), phase = "run"
      PROVE  b <= Age(t)' /\ Age(t)' <= intv + SinceNow(pcs)'
  <2>1. SinceNow(pcs)' = SinceNow(pcs) + 1 /\ SinceNow(pcs) \in Nat
        /\ SinceNow(pcs) <= 2 * PassBound
    <3>1. pc # "warm"
      BY <1>0, <1>f DEF PhaseAgrees
    <3> QED
      BY <1>0, <1>a, <1>c, <1>d, <3>1, Spans, SinceNowBound DEF SinceNow
  <2>2. Age(t) \in Nat
    BY <1>0, <1>f, TimeTypes, MinusInWord DEF Age
  <2>3. Age(t)' = Age(t) + 1
    BY <1>b, <1>f, <2>1, <2>2, Spans
  <2> QED
    BY <1>f, <2>1, <2>2, <2>3
<1>g. ASSUME NEW pcs, FirstPass(pcs), phase = "run"
      PROVE  FirstPass(pcs)' /\ SinceNow(pcs)' = SinceNow(pcs) + 1
  <2>1. SinceNow(pcs)' = SinceNow(pcs) + 1 /\ SinceNow(pcs) \in Nat
        /\ SinceNow(pcs) <= 2 * PassBound /\ pc # "warm"
    <3>1. pc # "warm"
      BY <1>0, <1>g DEF PhaseAgrees
    <3> QED
      BY <1>0, <1>a, <1>c, <1>d, <3>1, Spans, SinceNowBound DEF SinceNow
  <2>2. wdt => EN_USB
    BY <1>0, Spans DEF PhaseAgrees
  <2>3. wdt => kickAge < WdtSpan /\ kickAge' = kickAge + 1
    BY <1>a
  <2>4. millis < WarmUp + 3 * PassBound
    <3>1. ~wdt => SinceNow(pcs) < 2 * PassBound
      BY <1>a, <1>c, Spans DEF SinceNow
    <3>2. CASE ~wdt
      BY <1>c, <1>g, <2>1, <3>1, <3>2, Spans DEF FirstPass
    <3>3. CASE wdt /\ pc \in {"update", "poll"}
      <4>1. millis <= WarmUp + PassBound + kickAge
        BY <1>g, <3>3 DEF FirstPass
      <4> QED
        BY <1>c, <2>2, <2>3, <3>3, <4>1, Spans
    <3>4. CASE wdt /\ pc \notin {"update", "poll"}
      <4>1. millis <= WarmUp + PassBound + (WdtSpan + kickAge)
        BY <1>g, <3>4 DEF FirstPass
      <4> QED
        BY <1>c, <2>2, <2>3, <3>4, <4>1, Spans
    <3> QED
      BY <3>2, <3>3, <3>4
  <2>5. millis' = millis + 1
    BY <1>b, <1>c, <2>4, Spans
  <2>6. now' = now /\ pc' = pc /\ wdt' = wdt /\ now \in Nat
    BY <1>0, <1>a, TimeTypes DEF Word
  <2> QED
    BY <1>c, <1>g, <2>1, <2>3, <2>5, <2>6, Spans DEF FirstPass
<1>6. ClockLine'
  <2> SUFFICES ASSUME phase = "run" PROVE ClockLine'
    BY <1>a DEF ClockLine
  <2> DEFINE pcs == BeforeNow \cup {"line1"}
  <2>1. Timed(lcd_lu_time, lcd_tm_Intv, lineAge, pcs)
          => Timed(lcd_lu_time, lcd_tm_Intv, lineAge, pcs)'
    BY <1>0, <1>a, <1>c, <1>f, <1>1, Spans, TimeTypes DEF Timed, UpTo
  <2> QED
    BY <1>0, <1>a, <1>g, <2>1 DEF ClockLine
<1>7. AirData'
  <2> SUFFICES ASSUME phase = "run" PROVE AirData'
    BY <1>a DEF AirData
  <2> DEFINE pcs == BeforeNow \cup {"line1", "line2"}
  <2>1. Timed(lcd_lu_aqdat, lcd_ad_Intv, readAge, pcs)
          => Timed(lcd_lu_aqdat, lcd_ad_Intv, readAge, pcs)'
    BY <1>0, <1>a, <1>c, <1>f, <1>1, Spans, TimeTypes DEF Timed, UpTo
  <2>2. FirstPass(pcs) /\ readAge <= SinceNow(pcs)
          => FirstPass(pcs)' /\ readAge' <= SinceNow(pcs)'
    BY <1>0, <1>c, <1>g, <1>1, Spans, SinceNowBound DEF UpTo, TypeOK
  <2> QED
    BY <1>0, <1>a, <2>1, <2>2 DEF AirData
<1> QED
  BY <1>1, <1>2, <1>3, <1>4, <1>5, <1>6, <1>7

\* A byte arrives.
LEMMA HostSendsPreserves == IInv /\ HostSends => IInv'
<1>0. SUFFICES ASSUME IInv, HostSends PROVE IInv'
  OBVIOUS
<1> USE DEF IInv, HostSends, ages, timers
<1>1. TypeOK'
  BY <1>0, Spans, TimeTypes DEF TypeOK
<1>2. PhaseAgrees'
  BY <1>0, Spans, TimeTypes DEF PhaseAgrees, TypeOK
<1>3. PassFed'
  BY <1>0, Spans, TimeTypes DEF PassFed, PhaseAgrees, TypeOK, BeforeNow
<1>4. WarmUpClock'
  BY <1>0, Spans, TimeTypes DEF WarmUpClock, PhaseAgrees
<1>5. NowOfPass'
  BY <1>0, Spans, TimeTypes DEF NowOfPass, Age
<1>6. ClockLine'
  BY <1>0, Spans, TimeTypes
    DEF PhaseAgrees, ClockLine, Timed, FirstPass, SinceNow, BeforeNow, Age
<1>7. AirData'
  BY <1>0, Spans, TimeTypes DEF PhaseAgrees, AirData, Timed, FirstPass, SinceNow, BeforeNow, Age
<1> QED
  BY <1>1, <1>2, <1>3, <1>4, <1>5, <1>6, <1>7

\* The card is pushed in or pulled out.
LEMMA CardMovesPreserves == IInv /\ CardMoves => IInv'
<1>0. SUFFICES ASSUME IInv, CardMoves PROVE IInv'
  OBVIOUS
<1> USE DEF IInv, CardMoves, ages, timers
<1>1. TypeOK'
  BY <1>0, Spans, TimeTypes DEF TypeOK
<1>2. PhaseAgrees'
  BY <1>0, Spans, TimeTypes DEF PhaseAgrees, TypeOK
<1>3. PassFed'
  BY <1>0, Spans, TimeTypes DEF PassFed, PhaseAgrees, TypeOK, BeforeNow
<1>4. WarmUpClock'
  BY <1>0, Spans, TimeTypes DEF WarmUpClock, PhaseAgrees
<1>5. NowOfPass'
  BY <1>0, Spans, TimeTypes DEF NowOfPass, Age
<1>6. ClockLine'
  BY <1>0, Spans, TimeTypes
    DEF PhaseAgrees, ClockLine, Timed, FirstPass, SinceNow, BeforeNow, Age
<1>7. AirData'
  BY <1>0, Spans, TimeTypes DEF PhaseAgrees, AirData, Timed, FirstPass, SinceNow, BeforeNow, Age
<1> QED
  BY <1>1, <1>2, <1>3, <1>4, <1>5, <1>6, <1>7

\* After a reset nothing is left of the ages and of the clock.
LEMMA WatchdogResetsPreserves == IInv /\ WatchdogResets => IInv'
<1>0. SUFFICES ASSUME IInv, WatchdogResets PROVE IInv'
  OBVIOUS
<1> USE DEF IInv, WatchdogResets, ages, timers
<1>1. TypeOK'
  <2>1. {sd_initialized', rx', card', wdt'} \subseteq BOOLEAN
    BY <1>0, Spans DEF TypeOK
  <2>2. job' \in Seq({"sync", "fill", "coeff", "settime"})
    BY <1>0, EmptySeq DEF TypeOK
  <2> QED
    BY <1>0, <2>1, <2>2, ZeroTypes DEF TypeOK
<1>2. PhaseAgrees'
  BY <1>0, Spans, TimeTypes DEF PhaseAgrees, TypeOK
<1>3. PassFed'
  BY <1>0, Spans, TimeTypes DEF PassFed, PhaseAgrees, TypeOK, BeforeNow
<1>4. WarmUpClock'
  BY <1>0, Spans, TimeTypes DEF WarmUpClock, PhaseAgrees
<1>5. NowOfPass'
  BY <1>0, Spans, TimeTypes DEF NowOfPass, Age
<1>6. ClockLine'
  BY <1>0, Spans, TimeTypes
    DEF PhaseAgrees, ClockLine, Timed, FirstPass, SinceNow, BeforeNow, Age
<1>7. AirData'
  BY <1>0, Spans, TimeTypes DEF PhaseAgrees, AirData, Timed, FirstPass, SinceNow, BeforeNow, Age
<1> QED
  BY <1>1, <1>2, <1>3, <1>4, <1>5, <1>6, <1>7

\* setup() starts the watchdog, and not more than a pass has gone by.
LEMMA SetupPreserves == IInv /\ Setup => IInv'
<1>0. SUFFICES ASSUME IInv, Setup PROVE IInv'
  OBVIOUS
<1> USE DEF IInv, Setup, ages, timers
<1>1. TypeOK'
  <2>1. {sd_initialized', rx', card', wdt'} \subseteq BOOLEAN
    <3>1. card \in BOOLEAN /\ rx \in BOOLEAN
      <4>1. {sd_initialized, rx, card, wdt} \subseteq BOOLEAN
        BY <1>0 DEF TypeOK
      <4> QED
        BY <4>1, Zenon
    <3>2. sd_initialized' = card /\ rx' = rx /\ card' = card /\ wdt' = EN_USB
      BY <1>0
    <3> QED
      BY <3>1, <3>2, Spans, Zenon
  <2>2. job' \in Seq({"sync", "fill", "coeff", "settime"})
    BY <1>0, EmptySeq DEF TypeOK
  <2> QED
    BY <1>0, <2>1, <2>2, ZeroTypes DEF TypeOK
<1>2. PhaseAgrees'
  BY <1>0, Spans, TimeTypes DEF PhaseAgrees, TypeOK
<1>3. PassFed'
  BY <1>0, Spans, TimeTypes DEF PassFed, PhaseAgrees, TypeOK, BeforeNow
<1>4. WarmUpClock'
  BY <1>0, Spans, TimeTypes DEF WarmUpClock, PhaseAgrees
<1>5. NowOfPass'
  BY <1>0, Spans, TimeTypes DEF NowOfPass, Age
<1>6. ClockLine'
  BY <1>0, Spans, TimeTypes
    DEF PhaseAgrees, ClockLine, Timed, FirstPass, SinceNow, BeforeNow, Age
<1>7. AirData'
  BY <1>0, Spans, TimeTypes DEF PhaseAgrees, AirData, Timed, FirstPass, SinceNow, BeforeNow, Age
<1> QED
  BY <1>1, <1>2, <1>3, <1>4, <1>5, <1>6, <1>7

\* A pass of the warm-up begins before its end.
LEMMA WarmUpPassPreserves == IInv /\ WarmUpPass => IInv'
<1>0. SUFFICES ASSUME IInv, WarmUpPass PROVE IInv'
  OBVIOUS
<1> USE DEF IInv, WarmUpPass, ages, timers
<1>1. TypeOK'
  BY <1>0, Spans, TimeTypes DEF TypeOK
<1>2. PhaseAgrees'
  BY <1>0, Spans, TimeTypes DEF PhaseAgrees, TypeOK
<1>3. PassFed'
  BY <1>0, Spans, TimeTypes DEF PassFed, PhaseAgrees, TypeOK, BeforeNow
<1>4. WarmUpClock'
  BY <1>0, Spans, TimeTypes DEF WarmUpClock, PhaseAgrees
<1>5. NowOfPass'
  BY <1>0, Spans, TimeTypes DEF NowOfPass, Age
<1>6. ClockLine'
  BY <1>0, Spans, TimeTypes
    DEF PhaseAgrees, ClockLine, Timed, FirstPass, SinceNow, BeforeNow, Age
<1>7. AirData'
  BY <1>0, Spans, TimeTypes DEF PhaseAgrees, AirData, Timed, FirstPass, SinceNow, BeforeNow, Age
<1> QED
  BY <1>1, <1>2, <1>3, <1>4, <1>5, <1>6, <1>7

\* The delay of the warm-up is over.
LEMMA WarmUpDelayPreserves == IInv /\ WarmUpDelay => IInv'
<1>0. SUFFICES ASSUME IInv, WarmUpDelay PROVE IInv'
  OBVIOUS
<1> USE DEF IInv, WarmUpDelay, ages, timers
<1>1. TypeOK'
  BY <1>0, Spans, TimeTypes DEF TypeOK
<1>2. PhaseAgrees'
  BY <1>0, Spans, TimeTypes DEF PhaseAgrees, TypeOK
<1>3. PassFed'
  BY <1>0, Spans, TimeTypes DEF PassFed, PhaseAgrees, TypeOK, BeforeNow
<1>4. WarmUpClock'
  BY <1>0, Spans, TimeTypes DEF WarmUpClock, PhaseAgrees
<1>5. NowOfPass'
  BY <1>0, Spans, TimeTypes DEF NowOfPass, Age
<1>6. ClockLine'
  BY <1>0, Spans, TimeTypes
    DEF PhaseAgrees, ClockLine, Timed, FirstPass, SinceNow, BeforeNow, Age
<1>7. AirData'
  BY <1>0, Spans, TimeTypes DEF PhaseAgrees, AirData, Timed, FirstPass, SinceNow, BeforeNow, Age
<1> QED
  BY <1>1, <1>2, <1>3, <1>4, <1>5, <1>6, <1>7

\* The first pass of loop() begins less than a pass after the end of the warm-up.
LEMMA LeaveWarmUpPreserves == IInv /\ LeaveWarmUp => IInv'
<1>0. SUFFICES ASSUME IInv, LeaveWarmUp PROVE IInv'
  OBVIOUS
<1> USE DEF IInv, LeaveWarmUp, ages, timers
<1>1. TypeOK'
  BY <1>0, Spans, TimeTypes DEF TypeOK
<1>2. PhaseAgrees'
  BY <1>0, Spans, TimeTypes DEF PhaseAgrees, TypeOK
<1>3. PassFed'
  BY <1>0, Spans, TimeTypes DEF PassFed, PhaseAgrees, TypeOK, BeforeNow
<1>4. WarmUpClock'
  BY <1>0, Spans, TimeTypes DEF WarmUpClock, PhaseAgrees
<1>5. NowOfPass'
  BY <1>0, Spans, TimeTypes DEF NowOfPass, Age
<1>6. ClockLine'
  <2>1. /\ phase = "warmup" /\ pc = "warm" /\ lcd_lu_time = 0 /\ WarmUp <= millis
        /\ millis <= IF wdt THEN WarmUp + PassBound + kickAge ELSE WarmUp + passAge
    BY <1>0, Spans, TimeTypes DEF WarmUpClock, PhaseAgrees
  <2>2. millis <= WarmUp + PassBound + IF wdt THEN kickAge ELSE 0
    BY <1>0, <2>1, Spans, TimeTypes
  <2>3. FirstPass(BeforeNow \cup {"line1"})'
    BY <1>0, <2>1, <2>2, Spans, TimeTypes DEF FirstPass, SinceNow, BeforeNow
  <2> QED
    BY <1>0, <2>1, <2>3, SinceNowBound DEF ClockLine, SinceNow, BeforeNow
<1>7. AirData'
  <2>1. /\ phase = "warmup" /\ pc = "warm" /\ lcd_lu_aqdat = 0 /\ WarmUp <= millis
        /\ millis <= IF wdt THEN WarmUp + PassBound + kickAge ELSE WarmUp + passAge
    BY <1>0, Spans, TimeTypes DEF WarmUpClock, PhaseAgrees
  <2>2. millis <= WarmUp + PassBound + IF wdt THEN kickAge ELSE 0
    BY <1>0, <2>1, Spans, TimeTypes
  <2>3. FirstPass(BeforeNow \cup {"line1", "line2"})'
    BY <1>0, <2>1, <2>2, Spans, TimeTypes DEF FirstPass, SinceNow, BeforeNow
  <2> QED
    BY <1>0, <2>1, <2>3, SinceNowBound DEF AirData, SinceNow, BeforeNow
<1> QED
  BY <1>1, <1>2, <1>3, <1>4, <1>5, <1>6, <1>7

\* A pass of loop() begins at its update of the sensor.
LEMMA SensorUpdatePreserves == IInv /\ SensorUpdate => IInv'
<1>0. SUFFICES ASSUME IInv, SensorUpdate PROVE IInv'
  OBVIOUS
<1> USE DEF IInv, SensorUpdate, ages, timers
<1>1. TypeOK'
  BY <1>0, Spans, TimeTypes DEF TypeOK
<1>2. PhaseAgrees'
  BY <1>0, Spans, TimeTypes DEF PhaseAgrees, TypeOK
<1>3. PassFed'
  BY <1>0, Spans, TimeTypes DEF PassFed, PhaseAgrees, TypeOK, BeforeNow
<1>4. WarmUpClock'
  BY <1>0, Spans, TimeTypes DEF WarmUpClock, PhaseAgrees
<1>5. NowOfPass'
  BY <1>0, Spans, TimeTypes DEF NowOfPass, Age
<1>6. ClockLine'
  BY <1>0, Spans, TimeTypes
    DEF PhaseAgrees, ClockLine, Timed, FirstPass, SinceNow, BeforeNow, Age
<1>7. AirData'
  BY <1>0, Spans, TimeTypes DEF PhaseAgrees, AirData, Timed, FirstPass, SinceNow, BeforeNow, Age
<1> QED
  BY <1>1, <1>2, <1>3, <1>4, <1>5, <1>6, <1>7

\* The watchdog is fed once in a pass.
LEMMA UsbPollPreserves == IInv /\ UsbPoll => IInv'
<1>0. SUFFICES ASSUME IInv, UsbPoll PROVE IInv'
  OBVIOUS
<1> USE DEF IInv, UsbPoll, ages, timers
<1>1. TypeOK'
  BY <1>0, Spans, TimeTypes DEF TypeOK
<1>2. PhaseAgrees'
  BY <1>0, Spans, TimeTypes DEF PhaseAgrees, TypeOK
<1>3. PassFed'
  BY <1>0, Spans, TimeTypes DEF PassFed, PhaseAgrees, TypeOK, BeforeNow
<1>4. WarmUpClock'
  BY <1>0, Spans, TimeTypes DEF WarmUpClock, PhaseAgrees
<1>5. NowOfPass'
  BY <1>0, Spans, TimeTypes DEF NowOfPass, Age
<1>6. ClockLine'
  BY <1>0, Spans, TimeTypes
    DEF PhaseAgrees, ClockLine, Timed, FirstPass, SinceNow, BeforeNow, Age
<1>7. AirData'
  BY <1>0, Spans, TimeTypes DEF PhaseAgrees, AirData, Timed, FirstPass, SinceNow, BeforeNow, Age
<1> QED
  BY <1>1, <1>2, <1>3, <1>4, <1>5, <1>6, <1>7

\* The serial interpreter is entered, or not.
LEMMA SerialCheckPreserves == IInv /\ SerialCheck => IInv'
<1>0. SUFFICES ASSUME IInv, SerialCheck PROVE IInv'
  OBVIOUS
<1> USE DEF IInv, SerialCheck, ages, timers, AfterSerial
<1>1. TypeOK'
  BY <1>0, Spans, TimeTypes DEF TypeOK
<1>2. PhaseAgrees'
  BY <1>0, Spans, TimeTypes DEF PhaseAgrees, TypeOK
<1>3. PassFed'
  BY <1>0, Spans, TimeTypes DEF PassFed, PhaseAgrees, TypeOK, BeforeNow
<1>4. WarmUpClock'
  BY <1>0, Spans, TimeTypes DEF WarmUpClock, PhaseAgrees
<1>5. NowOfPass'
  BY <1>0, Spans, TimeTypes DEF NowOfPass, Age
<1>6. ClockLine'
  BY <1>0, Spans, TimeTypes
    DEF PhaseAgrees, ClockLine, Timed, FirstPass, SinceNow, BeforeNow, Age
<1>7. AirData'
  BY <1>0, Spans, TimeTypes DEF PhaseAgrees, AirData, Timed, FirstPass, SinceNow, BeforeNow, Age
<1> QED
  BY <1>1, <1>2, <1>3, <1>4, <1>5, <1>6, <1>7

\* The clock is read once for all timers.
LEMMA ReadNowPreserves == IInv /\ ReadNow => IInv'
<1>0. SUFFICES ASSUME IInv, ReadNow PROVE IInv'
  OBVIOUS
<1> USE DEF IInv, ReadNow, ages, timers
<1>1. TypeOK'
  BY <1>0, Spans, TimeTypes DEF TypeOK
<1>2. PhaseAgrees'
  BY <1>0, Spans, TimeTypes DEF PhaseAgrees, TypeOK
<1>3. PassFed'
  BY <1>0, Spans, TimeTypes DEF PassFed, PhaseAgrees, TypeOK, BeforeNow
<1>4. WarmUpClock'
  BY <1>0, Spans, TimeTypes DEF WarmUpClock, PhaseAgrees
<1>5. NowOfPass'
  BY <1>0, TimeTypes, AgesAddUp DEF NowOfPass, Age
<1>6. ClockLine'
  BY <1>0, Spans, TimeTypes
    DEF PhaseAgrees, ClockLine, Timed, FirstPass, SinceNow, BeforeNow, Age
<1>7. AirData'
  BY <1>0, Spans, TimeTypes DEF PhaseAgrees, AirData, Timed, FirstPass, SinceNow, BeforeNow, Age
<1> QED
  BY <1>1, <1>2, <1>3, <1>4, <1>5, <1>6, <1>7

\* The clock line is refreshed, or was within its interval.
LEMMA LcdLine1Preserves == IInv /\ LcdLine1 => IInv'
<1>0. SUFFICES ASSUME IInv, LcdLine1 PROVE IInv'
  OBVIOUS
<1> USE DEF IInv, LcdLine1, ages, timers
<1>1. TypeOK'
  BY <1>0, Spans, TimeTypes DEF TypeOK
<1>2. PhaseAgrees'
  BY <1>0, Spans, TimeTypes DEF PhaseAgrees, TypeOK
<1>3. PassFed'
  BY <1>0, Spans, TimeTypes DEF PassFed, PhaseAgrees, TypeOK, BeforeNow
<1>4. WarmUpClock'
  BY <1>0, Spans, TimeTypes DEF WarmUpClock, PhaseAgrees
<1>5. NowOfPass'
  BY <1>0, Spans, TimeTypes DEF NowOfPass, Age
<1>6. ClockLine'
  <2> DEFINE pcs == BeforeNow \cup {"line1"}
  <2>1. /\ phase = "run" /\ pc = "line1" /\ Age(now) <= passAge
        /\ SinceNow(pcs) = PassBound + passAge /\ SinceNow(pcs)' = passAge
    BY <1>0 DEF PhaseAgrees, NowOfPass, SinceNow, BeforeNow
  <2>2. CASE Due(lcd_lu_time, lcd_tm_Intv)
    <3>1. lcd_lu_time' = now /\ lineAge' = 0 /\ Age(lcd_lu_time)' = Age(now) /\ skew' = 0
      BY <1>0, <2>2 DEF Age, ClockDue
    <3> QED
      BY <1>0, <2>1, <3>1, Spans, TimeTypes DEF ClockLine, Timed
  <2>3. CASE ~Due(lcd_lu_time, lcd_tm_Intv)
    <3>1. UNCHANGED <<lcd_lu_time, lineAge, skew>>
      BY <1>0, <2>3 DEF ClockDue
    <3>2. Minus(now, lcd_lu_time) <= lcd_tm_Intv /\ Minus(now, lcd_lu_time) \in Nat
      BY <1>0, <2>3, Spans, TimeTypes DEF Due
    <3>3. ~(FirstPass(pcs) /\ lcd_lu_time = 0)
      <4> SUFFICES ASSUME FirstPass(pcs), lcd_lu_time = 0 PROVE FALSE
        OBVIOUS
      <4>1. Minus(now, 0) = now /\ WarmUp <= now
        BY <1>0, <2>1, TimeTypes, ZeroTypes, AgesAddUp DEF FirstPass
      <4> QED
        BY <1>0, <3>2, <4>1, Spans, TimeTypes
    <3>4. Age(lcd_lu_time) = Minus(now, lcd_lu_time) + Age(now)
      BY <1>0, <2>1, <3>2, Spans, TimeTypes, AgesAddUp DEF Age
    <3>5. Age(lcd_lu_time)' = Age(lcd_lu_time) /\ passAge' = passAge
      BY <1>0, <3>1 DEF Age
    <3> QED
      BY <1>0, <2>1, <3>1, <3>2, <3>3, <3>4, <3>5, Spans, TimeTypes DEF ClockLine, Timed
  <2> QED
    BY <2>2, <2>3
<1>7. AirData'
  BY <1>0, Spans, TimeTypes DEF PhaseAgrees, AirData, Timed, FirstPass, SinceNow, BeforeNow, Age
<1> QED
  BY <1>1, <1>2, <1>3, <1>4, <1>5, <1>6, <1>7

\* The air data is refreshed, or was within its interval.
LEMMA LcdLine2Preserves == IInv /\ LcdLine2 => IInv'
<1>0. SUFFICES ASSUME IInv, LcdLine2 PROVE IInv'
  OBVIOUS
<1> USE DEF IInv, LcdLine2, AirDataDue, ages, timers
<1>1. TypeOK'
  BY <1>0, Spans, TimeTypes DEF TypeOK
<1>2. PhaseAgrees'
  BY <1>0, Spans, TimeTypes DEF PhaseAgrees, TypeOK
<1>3. PassFed'
  BY <1>0, Spans, TimeTypes DEF PassFed, PhaseAgrees, TypeOK, BeforeNow
<1>4. WarmUpClock'
  BY <1>0, Spans, TimeTypes DEF WarmUpClock, PhaseAgrees
<1>5. NowOfPass'
  BY <1>0, Spans, TimeTypes DEF NowOfPass, Age
<1>6. ClockLine'
  BY <1>0, Spans, TimeTypes
    DEF PhaseAgrees, ClockLine, Timed, FirstPass, SinceNow, BeforeNow, Age
<1>7. AirData'
  <2> DEFINE pcs == BeforeNow \cup {"line1", "line2"}
  <2>1. /\ phase = "run" /\ pc = "line2" /\ Age(now) <= passAge
        /\ SinceNow(pcs) = PassBound + passAge /\ SinceNow(pcs)' = passAge
    BY <1>0 DEF PhaseAgrees, NowOfPass, SinceNow, BeforeNow
  <2>2. CASE Due(lcd_lu_aqdat, lcd_ad_Intv)
    <3>1. lcd_lu_aqdat' = now /\ readAge' = 0 /\ Age(lcd_lu_aqdat)' = Age(now) 
      BY <1>0, <2>2 DEF Age
    <3> QED
      BY <1>0, <2>1, <3>1, Spans, TimeTypes DEF AirData, Timed
  <2>3. CASE ~Due(lcd_lu_aqdat, lcd_ad_Intv)
    <3>1. UNCHANGED <<lcd_lu_aqdat, readAge>>
      BY <1>0, <2>3
    <3>2. Minus(now, lcd_lu_aqdat) <= lcd_ad_Intv /\ Minus(now, lcd_lu_aqdat) \in Nat
      BY <1>0, <2>3, Spans, TimeTypes DEF Due
    <3>3. ~(FirstPass(pcs) /\ lcd_lu_aqdat = 0)
      <4> SUFFICES ASSUME FirstPass(pcs), lcd_lu_aqdat = 0 PROVE FALSE
        OBVIOUS
      <4>1. Minus(now, 0) = now /\ WarmUp <= now
        BY <1>0, <2>1, TimeTypes, ZeroTypes, AgesAddUp DEF FirstPass
      <4> QED
        BY <1>0, <3>2, <4>1, Spans, TimeTypes
    <3>4. Age(lcd_lu_aqdat) = Minus(now, lcd_lu_aqdat) + Age(now)
      BY <1>0, <2>1, <3>2, Spans, TimeTypes, AgesAddUp DEF Age
    <3>5. Age(lcd_lu_aqdat)' = Age(lcd_lu_aqdat) /\ passAge' = passAge
      BY <1>0, <3>1 DEF Age
    <3> QED
      BY <1>0, <2>1, <3>1, <3>2, <3>3, <3>4, <3>5, Spans, TimeTypes DEF AirData, Timed
  <2> QED
    BY <2>2, <2>3
<1> QED
  BY <1>1, <1>2, <1>3, <1>4, <1>5, <1>6, <1>7

\* No record is due.
LEMMA LogSkipPreserves == IInv /\ LogSkip => IInv'
<1>0. SUFFICES ASSUME IInv, LogSkip PROVE IInv'
  OBVIOUS
<1> USE DEF IInv, LogSkip, ages, timers
<1>1. TypeOK'
  BY <1>0, Spans, TimeTypes DEF TypeOK
<1>2. PhaseAgrees'
  BY <1>0, Spans, TimeTypes DEF PhaseAgrees, TypeOK
<1>3. PassFed'
  BY <1>0, Spans, TimeTypes DEF PassFed, PhaseAgrees, TypeOK, BeforeNow
<1>4. WarmUpClock'
  BY <1>0, Spans, TimeTypes DEF WarmUpClock, PhaseAgrees
<1>5. NowOfPass'
  BY <1>0, Spans, TimeTypes DEF NowOfPass, Age
<1>6. ClockLine'
  BY <1>0, Spans, TimeTypes
    DEF PhaseAgrees, ClockLine, Timed, FirstPass, SinceNow, BeforeNow, Age
<1>7. AirData'
  BY <1>0, Spans, TimeTypes DEF PhaseAgrees, AirData, Timed, FirstPass, SinceNow, BeforeNow, Age
<1> QED
  BY <1>1, <1>2, <1>3, <1>4, <1>5, <1>6, <1>7

\* The card is tried.
LEMMA LogOpenPreserves == IInv /\ LogOpen => IInv'
<1>0. SUFFICES ASSUME IInv, LogOpen PROVE IInv'
  OBVIOUS
<1> USE DEF IInv, LogOpen, ages, timers
<1>1. TypeOK'
  BY <1>0, Spans, TimeTypes DEF TypeOK
<1>2. PhaseAgrees'
  BY <1>0, Spans, TimeTypes DEF PhaseAgrees, TypeOK
<1>3. PassFed'
  BY <1>0, Spans, TimeTypes DEF PassFed, PhaseAgrees, TypeOK, BeforeNow
<1>4. WarmUpClock'
  BY <1>0, Spans, TimeTypes DEF WarmUpClock, PhaseAgrees
<1>5. NowOfPass'
  BY <1>0, Spans, TimeTypes DEF NowOfPass, Age
<1>6. ClockLine'
  BY <1>0, Spans, TimeTypes
    DEF PhaseAgrees, ClockLine, Timed, FirstPass, SinceNow, BeforeNow, Age
<1>7. AirData'
  BY <1>0, Spans, TimeTypes DEF PhaseAgrees, AirData, Timed, FirstPass, SinceNow, BeforeNow, Age
<1> QED
  BY <1>1, <1>2, <1>3, <1>4, <1>5, <1>6, <1>7

\* The record is written, and the sensor is read.
LEMMA LogWritePreserves == IInv /\ LogWrite => IInv'
<1>0. SUFFICES ASSUME IInv, LogWrite PROVE IInv'
  OBVIOUS
<1> USE DEF IInv, LogWrite, ages, timers
<1>1. TypeOK'
  BY <1>0, Spans, TimeTypes DEF TypeOK
<1>2. PhaseAgrees'
  BY <1>0, Spans, TimeTypes DEF PhaseAgrees, TypeOK
<1>3. PassFed'
  BY <1>0, Spans, TimeTypes DEF PassFed, PhaseAgrees, TypeOK, BeforeNow
<1>4. WarmUpClock'
  BY <1>0, Spans, TimeTypes DEF WarmUpClock, PhaseAgrees
<1>5. NowOfPass'
  BY <1>0, Spans, TimeTypes DEF NowOfPass, Age
<1>6. ClockLine'
  BY <1>0, Spans, TimeTypes
    DEF PhaseAgrees, ClockLine, Timed, FirstPass, SinceNow, BeforeNow, Age
<1>7. AirData'
  BY <1>0, Spans, TimeTypes DEF PhaseAgrees, AirData, Timed, FirstPass, SinceNow, BeforeNow, Age
<1> QED
  BY <1>1, <1>2, <1>3, <1>4, <1>5, <1>6, <1>7

\* 'r' fills the line and reads the sensor.
LEMMA CommandReportPreserves == IInv /\ CommandReport => IInv'
<1>0. SUFFICES ASSUME IInv, CommandReport PROVE IInv'
  OBVIOUS
<1> USE DEF IInv, CommandReport, ages, timers, AfterSerial, Getch
<1>1. TypeOK'
  BY <1>0, ZeroTypes DEF TypeOK
<1>2. PhaseAgrees'
  BY <1>0, Spans, TimeTypes DEF PhaseAgrees, TypeOK
<1>3. PassFed'
  BY <1>0, Spans, TimeTypes DEF PassFed, PhaseAgrees, TypeOK, BeforeNow
<1>4. WarmUpClock'
  BY <1>0, Spans, TimeTypes DEF WarmUpClock, PhaseAgrees
<1>5. NowOfPass'
  BY <1>0, Spans, TimeTypes DEF NowOfPass, Age
<1>6. ClockLine'
  BY <1>0, Spans, TimeTypes
    DEF PhaseAgrees, ClockLine, Timed, FirstPass, SinceNow, BeforeNow, Age
<1>7. AirData'
  BY <1>0, Spans, TimeTypes DEF PhaseAgrees, AirData, Timed, FirstPass, SinceNow, BeforeNow, Age
<1> QED
  BY <1>1, <1>2, <1>3, <1>4, <1>5, <1>6, <1>7

\* Other bytes do nothing.
LEMMA CommandOtherPreserves == IInv /\ CommandOther => IInv'
<1>0. SUFFICES ASSUME IInv, CommandOther PROVE IInv'
  OBVIOUS
<1> USE DEF IInv, CommandOther, ages, timers, AfterSerial, Getch
<1>1. TypeOK'
  BY <1>0, Spans, TimeTypes DEF TypeOK
<1>2. PhaseAgrees'
  BY <1>0, Spans, TimeTypes DEF PhaseAgrees, TypeOK
<1>3. PassFed'
  BY <1>0, Spans, TimeTypes DEF PassFed, PhaseAgrees, TypeOK, BeforeNow
<1>4. WarmUpClock'
  BY <1>0, Spans, TimeTypes DEF WarmUpClock, PhaseAgrees
<1>5. NowOfPass'
  BY <1>0, Spans, TimeTypes DEF NowOfPass, Age
<1>6. ClockLine'
  BY <1>0, Spans, TimeTypes
    DEF PhaseAgrees, ClockLine, Timed, FirstPass, SinceNow, BeforeNow, Age
<1>7. AirData'
  BY <1>0, Spans, TimeTypes DEF PhaseAgrees, AirData, Timed, FirstPass, SinceNow, BeforeNow, Age
<1> QED
  BY <1>1, <1>2, <1>3, <1>4, <1>5, <1>6, <1>7

\* 'C' and 'T' begin a job.
LEMMA CommandJobPreserves == IInv /\ CommandJob => IInv'
<1>0. SUFFICES ASSUME IInv, CommandJob PROVE IInv'
  OBVIOUS
<1> USE DEF IInv, CommandJob, ages, timers, Getch
<1>1. TypeOK'
  <2>1. job' \in Seq({"sync", "fill", "coeff", "settime"}) /\ job' # <<>>
    BY <1>0, JobTypes DEF TypeOK
  <2>2. pc' = "job" /\ rx' = FALSE
    BY <1>0
  <2> QED
    BY <1>0, <2>1, <2>2 DEF TypeOK
<1>2. PhaseAgrees'
  BY <1>0, Spans, TimeTypes DEF PhaseAgrees, TypeOK
<1>3. PassFed'
  BY <1>0, Spans, TimeTypes DEF PassFed, PhaseAgrees, TypeOK, BeforeNow
<1>4. WarmUpClock'
  BY <1>0, Spans, TimeTypes DEF WarmUpClock, PhaseAgrees
<1>5. NowOfPass'
  BY <1>0, Spans, TimeTypes DEF NowOfPass, Age
<1>6. ClockLine'
  BY <1>0, Spans, TimeTypes
    DEF PhaseAgrees, ClockLine, Timed, FirstPass, SinceNow, BeforeNow, Age
<1>7. AirData'
  BY <1>0, Spans, TimeTypes DEF PhaseAgrees, AirData, Timed, FirstPass, SinceNow, BeforeNow, Age
<1> QED
  BY <1>1, <1>2, <1>3, <1>4, <1>5, <1>6, <1>7

\* A job goes on or ends at a separator.
LEMMA SyncPreserves == IInv /\ Sync => IInv'
<1>0. SUFFICES ASSUME IInv, Sync PROVE IInv'
  OBVIOUS
<1> USE DEF IInv, Sync, ages, timers, AfterSerial, Getch, NextInJob
<1>1. TypeOK'
  <2>1. CASE NextInJob
    <3>1. job' \in Seq({"sync", "fill", "coeff", "settime"})
      BY <1>0, <2>1, JobTypes DEF TypeOK
    <3> QED
      BY <1>0, <2>1, <3>1 DEF TypeOK
  <2>2. CASE job' = <<>> /\ pc' = AfterSerial
    <3>1. job' \in Seq({"sync", "fill", "coeff", "settime"})
      BY <2>2, EmptySeq
    <3> QED
      BY <1>0, <2>2, <3>1 DEF TypeOK
  <2> QED
    BY <1>0, <2>1, <2>2
<1>2. PhaseAgrees'
  BY <1>0, Spans, TimeTypes DEF PhaseAgrees, TypeOK
<1>3. PassFed'
  BY <1>0, Spans, TimeTypes DEF PassFed, PhaseAgrees, TypeOK, BeforeNow
<1>4. WarmUpClock'
  BY <1>0, Spans, TimeTypes DEF WarmUpClock, PhaseAgrees
<1>5. NowOfPass'
  BY <1>0, Spans, TimeTypes DEF NowOfPass, Age
<1>6. ClockLine'
  BY <1>0, Spans, TimeTypes
    DEF PhaseAgrees, ClockLine, Timed, FirstPass, SinceNow, BeforeNow, Age
<1>7. AirData'
  BY <1>0, Spans, TimeTypes DEF PhaseAgrees, AirData, Timed, FirstPass, SinceNow, BeforeNow, Age
<1> QED
  BY <1>1, <1>2, <1>3, <1>4, <1>5, <1>6, <1>7

\* A job takes a byte.
LEMMA FillPreserves == IInv /\ Fill => IInv'
<1>0. SUFFICES ASSUME IInv, Fill PROVE IInv'
  OBVIOUS
<1> USE DEF IInv, Fill, ages, timers, AfterSerial, Getch, NextInJob
<1>1. TypeOK'
  <2>1. job' \in Seq({"sync", "fill", "coeff", "settime"})
    BY <1>0, JobTypes, EmptySeq DEF TypeOK
  <2> QED
    BY <1>0, <2>1, ZeroTypes DEF TypeOK
<1>2. PhaseAgrees'
  BY <1>0, Spans, TimeTypes DEF PhaseAgrees, TypeOK
<1>3. PassFed'
  BY <1>0, Spans, TimeTypes DEF PassFed, PhaseAgrees, TypeOK, BeforeNow
<1>4. WarmUpClock'
  BY <1>0, Spans, TimeTypes DEF WarmUpClock, PhaseAgrees
<1>5. NowOfPass'
  BY <1>0, Spans, TimeTypes DEF NowOfPass, Age
<1>6. ClockLine'
  BY <1>0, Spans, TimeTypes
    DEF PhaseAgrees, ClockLine, Timed, FirstPass, SinceNow, BeforeNow, Age
<1>7. AirData'
  BY <1>0, Spans, TimeTypes DEF PhaseAgrees, AirData, Timed, FirstPass, SinceNow, BeforeNow, Age
<1> QED
  BY <1>1, <1>2, <1>3, <1>4, <1>5, <1>6, <1>7

\* A job takes a number.
LEMMA ReadCoeffPreserves == IInv /\ ReadCoeff => IInv'
<1>0. SUFFICES ASSUME IInv, ReadCoeff PROVE IInv'
  OBVIOUS
<1> USE DEF IInv, ReadCoeff, ages, timers, AfterSerial, NextInJob
<1>1. TypeOK'
  <2>1. job' \in Seq({"sync", "fill", "coeff", "settime"})
    BY <1>0, JobTypes, EmptySeq DEF TypeOK
  <2> QED
    BY <1>0, <2>1, ZeroTypes DEF TypeOK
<1>2. PhaseAgrees'
  BY <1>0, Spans, TimeTypes DEF PhaseAgrees, TypeOK
<1>3. PassFed'
  BY <1>0, Spans, TimeTypes DEF PassFed, PhaseAgrees, TypeOK, BeforeNow
<1>4. WarmUpClock'
  BY <1>0, Spans, TimeTypes DEF WarmUpClock, PhaseAgrees
<1>5. NowOfPass'
  BY <1>0, Spans, TimeTypes DEF NowOfPass, Age
<1>6. ClockLine'
  BY <1>0, Spans, TimeTypes
    DEF PhaseAgrees, ClockLine, Timed, FirstPass, SinceNow, BeforeNow, Age
<1>7. AirData'
  BY <1>0, Spans, TimeTypes DEF PhaseAgrees, AirData, Timed, FirstPass, SinceNow, BeforeNow, Age
<1> QED
  BY <1>1, <1>2, <1>3, <1>4, <1>5, <1>6, <1>7

\* 'T' fills the line with the new time.
LEMMA SetTimePreserves == IInv /\ SetTime => IInv'
<1>0. SUFFICES ASSUME IInv, SetTime PROVE IInv'
  OBVIOUS
<1> USE DEF IInv, SetTime, ages, timers, AfterSerial, NextInJob
<1>1. TypeOK'
  BY <1>0, Spans, TimeTypes DEF TypeOK
<1>2. PhaseAgrees'
  BY <1>0, Spans, TimeTypes DEF PhaseAgrees, TypeOK
<1>3. PassFed'
  BY <1>0, Spans, TimeTypes DEF PassFed, PhaseAgrees, TypeOK, BeforeNow
<1>4. WarmUpClock'
  BY <1>0, Spans, TimeTypes DEF WarmUpClock, PhaseAgrees
<1>5. NowOfPass'
  BY <1>0, Spans, TimeTypes DEF NowOfPass, Age
<1>6. ClockLine'
  BY <1>0, Spans, TimeTypes
    DEF PhaseAgrees, ClockLine, Timed, FirstPass, SinceNow, BeforeNow, Age
<1>7. AirData'
  BY <1>0, Spans, TimeTypes DEF PhaseAgrees, AirData, Timed, FirstPass, SinceNow, BeforeNow, Age
<1> QED
  BY <1>1, <1>2, <1>3, <1>4, <1>5, <1>6, <1>7

-----------------------------------------------------------------------------
(* The invariant. *)

\* The invariant holds when the program starts.
LEMMA InitIInv == Init => IInv
<1> SUFFICES ASSUME Init PROVE IInv
  OBVIOUS
<1> USE DEF Init
<1>1. TypeOK
  <2>1. job \in Seq({"sync", "fill", "coeff", "settime"})
    BY EmptySeq
  <2>2. {sd_initialized, rx, card, wdt} \subseteq BOOLEAN
    OBVIOUS
  <2> QED
    BY <2>1, <2>2, ZeroTypes DEF TypeOK
<1>2. PhaseAgrees /\ PassFed /\ NowOfPass /\ ClockLine /\ AirData
  BY DEF PhaseAgrees, PassFed, NowOfPass, ClockLine, AirData
<1>3. WarmUpClock
  BY Spans DEF WarmUpClock
<1> QED
  BY <1>1, <1>2, <1>3 DEF IInv

\* Every step of the program and of its environment preserves it.
LEMMA NextIInv == IInv /\ [Next]_vars => IInv'
<1> SUFFICES ASSUME IInv, [Next]_vars PROVE IInv'
  OBVIOUS
<1>1. CASE Program
  BY <1>1, SetupPreserves, WarmUpPassPreserves, WarmUpDelayPreserves, LeaveWarmUpPreserves,
     SensorUpdatePreserves, UsbPollPreserves, SerialCheckPreserves, ReadNowPreserves,
     LcdLine1Preserves, LcdLine2Preserves, LogSkipPreserves, LogOpenPreserves,
     LogWritePreserves, CommandReportPreserves, CommandOtherPreserves, CommandJobPreserves,
     SyncPreserves, FillPreserves, ReadCoeffPreserves, SetTimePreserves DEF Program, Serial
<1>2. CASE Tick \/ HostSends \/ CardMoves \/ WatchdogResets
  BY <1>2, TickPreserves, HostSendsPreserves, CardMovesPreserves, WatchdogResetsPreserves
<1>3. CASE UNCHANGED vars
  <2> USE <1>3 DEF vars, ages, timers, IInv
  <2>1. TypeOK'
    BY DEF TypeOK
  <2>2. PhaseAgrees' /\ PassFed' /\ WarmUpClock' /\ NowOfPass'
    BY DEF PhaseAgrees, PassFed, WarmUpClock, NowOfPass, Age
  <2>3. ClockLine' /\ AirData'
    BY DEF ClockLine, AirData, Timed, FirstPass, SinceNow, Age
  <2> QED
    BY <2>1, <2>2, <2>3
<1> QED
  BY <1>1, <1>2, <1>3 DEF Next

\* So it holds in every reachable state.
THEOREM Invariance == Spec => []IInv
BY InitIInv, NextIInv, PTL DEF Spec

-----------------------------------------------------------------------------
(* What the sensor, the log and the display rely on. *)

\* Every variable keeps its type, and a serial command is executed exactly while
\* some of it is left.
THEOREM TypeCorrectness == Spec => []TypeOK
<1>1. IInv => TypeOK
  BY DEF IInv
<1> QED
  BY <1>1, Invariance, PTL

\* The sensor is read at least once in its interval and two passes, for every
\* width of the clock: the timer of the air data is never older.
THEOREM SensorReadInTime == Spec => []ReadsKeepPace
<1>1. IInv => ReadsKeepPace
  <2> SUFFICES ASSUME IInv, phase = "run" PROVE readAge <= ReadBound
    BY DEF ReadsKeepPace
  <2> DEFINE pcs == BeforeNow \cup {"line1", "line2"}
  <2>1. TypeOK
    BY DEF IInv
  <2>2. SinceNow(pcs) \in Nat /\ SinceNow(pcs) <= 2 * PassBound
    BY <2>1, SinceNowBound
  <2>3. \/ readAge <= Age(lcd_lu_aqdat) /\ Age(lcd_lu_aqdat) <= lcd_ad_Intv + SinceNow(pcs)
        \/ readAge <= SinceNow(pcs)
    BY DEF IInv, AirData, Timed
  <2> QED
    BY <2>1, <2>2, <2>3, Spans, TimeTypes
<1> QED
  BY <1>1, Invariance, PTL

\* A record's time was at most the clock line's interval old when the pass read
\* the clock, also across the wrap and after a reset.
THEOREM StampInTime == Spec => []LogStampFresh
<1>1. IInv => LogStampFresh
  BY DEF IInv, LogStampFresh, ClockLine, PhaseAgrees
<1> QED
  BY <1>1, Invariance, PTL

=============================================================================
