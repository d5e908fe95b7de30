------------------------------- MODULE DSM501 -------------------------------
(***************************************************************************)
(* The dust sensor driver (DSM501.cpp) and the calls AirQ.cpp makes of it. *)
(*                                                                         *)
(* The sensor pulls one pin per channel LOW while a particle passes.  The  *)
(* driver polls the pins, adds the widths of plausible pulses to a window  *)
(* total, and every getLowRatio call that finds the window old enough      *)
(* moves the total into a ring of the last SAF_WIN_MAX windows, whose mean *)
(* is the reported ratio.                                                  *)
(*                                                                         *)
(* Time is the wrapping millis() counter.  A call made by the main loop is *)
(* the sequence  todo  of its steps, each of which reads the clock once;   *)
(* the clock may tick between any two of them.                             *)
(***************************************************************************)
EXTENDS Integers, Sequences

CONSTANTS
  ClockMod,       \* millis() counts modulo ClockMod (2^32 on the device)
  MIN_SIG_SPAN,   \* shortest pulse that counts
  MAX_SIG_SPAN,   \* longest pulse that counts
  MIN_WIN_SPAN,   \* shortest window
  SAF_WIN_MAX,    \* windows in the ring
  WarmUp,         \* setup() waits until this time (60000)
  MaxReadGap,     \* the main loop reads both channels at least this often
  Noisy,          \* channels whose pin may be seen LOW
  Coeffs          \* coefficients the serial port may set

PM10_IDX == 0
PM25_IDX == 1
Channel  == {PM10_IDX, PM25_IDX}
Word     == 0 .. ClockMod - 1

ASSUME SpansAssumption ==
  /\ ClockMod \in Nat /\ MIN_SIG_SPAN \in Nat /\ MAX_SIG_SPAN \in Nat
  /\ MIN_WIN_SPAN \in Nat \ {0} /\ SAF_WIN_MAX \in Nat \ {0}
  /\ WarmUp \in Nat /\ MaxReadGap \in Nat
  /\ WarmUp + MIN_WIN_SPAN + MaxReadGap + MAX_SIG_SPAN < ClockMod
ASSUME InputsAssumption == Noisy \subseteq Channel /\ Coeffs \subseteq Nat

VARIABLES
  millis,         \* the Arduino clock
  phase,          \* "warmup" inside setup(), "run" inside loop()
  todo,           \* the steps left of the driver call in progress
  state,          \* _state: "Idle" or "Start", per channel
  sig_start,      \* _sig_start
  low_total,      \* _low_total
  win_start,      \* _win_start
  saf_sum,        \* _saf_sum
  saf_ent,        \* _saf_ent
  saf_idx,        \* _saf_idx, folded by NextIdx
  lastLowRatio,   \* _lastLowRatio: a quotient [sum, n]; n = 0 is NAN
  coeff,          \* _coeff
  since           \* time since the channel was last read (history variable)

ring == <<saf_sum, saf_ent, saf_idx, lastLowRatio>>
vars == <<millis, phase, todo, state, sig_start, low_total, win_start,
          ring, coeff, since>>

-----------------------------------------------------------------------------
(* uint32_t arithmetic on the clock. *)

Plus(a, b)  == IF a + b < ClockMod THEN a + b ELSE a + b - ClockMod
Minus(a, b) == IF a >= b THEN a - b ELSE a - b + ClockMod

\* What the device would measure as the age of channel i's window.
Elapsed(i) == Minus(millis, win_start[i])
Width(i)   == Minus(millis, sig_start[i])

\* The ring index only matters through (saf_idx % SAF_WIN_MAX) and through
\* (saf_idx < SAF_WIN_MAX); folding it back by SAF_WIN_MAX keeps both.
NextIdx(k) == IF k + 1 = 2 * SAF_WIN_MAX THEN SAF_WIN_MAX ELSE k + 1
Slot(k)    == k % SAF_WIN_MAX
DivisorUncapped(k) == k \* mutant: the mean is taken over more windows than it sums
Divisor(k) == IF k < SAF_WIN_MAX THEN k ELSE SAF_WIN_MAX

-----------------------------------------------------------------------------
(* The driver calls of the program, as the steps they are made of. *)

Step == [op : {"begin", "reset", "serial", "poll", "mark", "read"}, ch : Channel]
Do(op, i) == [op |-> op, ch |-> i]

Both(op)  == <<Do(op, PM10_IDX), Do(op, PM25_IDX)>>
\* getAQI subtracts the two weights; C++ leaves open which is read first.
AqiReads  == {Both("read"), <<Do("read", PM25_IDX), Do("read", PM10_IDX)>>}
DetailReads == {Both("read") \o r : r \in AqiReads}

Pending(op, i) == todo # <<>> /\ Head(todo) = Do(op, i)
Quiet == todo = <<>>

\* Just after begin() copied dsm501_coeff: the two windows are still to open.
Init ==
  /\ millis = 0
  /\ phase = "warmup"
  /\ todo = Both("begin")
  /\ state = [i \in Channel |-> "Idle"]
  /\ sig_start = [i \in Channel |-> 0]
  /\ low_total = [i \in Channel |-> 0]
  /\ win_start = [i \in Channel |-> 0]
  /\ saf_sum = [i \in Channel |-> 0]
  /\ saf_ent = [i \in Channel |-> [k \in 0 .. SAF_WIN_MAX - 1 |-> 0]]
  /\ saf_idx = [i \in Channel |-> 0]
  /\ lastLowRatio = [i \in Channel |-> [sum |-> 0, n |-> 0]]
  /\ coeff = 1
  /\ since = [i \in Channel |-> 0]

\* The clock advances, but never so far that the loop would have left a
\* channel unread for more than MaxReadGap.
Tick ==
  /\ IF phase = "warmup" THEN millis < WarmUp + MaxReadGap
                         ELSE \A i \in Channel : since[i] < MaxReadGap
  /\ millis' = Plus(millis, 1)
  /\ since' = [i \in Channel |-> since[i] + 1]
  /\ UNCHANGED <<phase, todo, state, sig_start, low_total, win_start, ring, coeff>>

Call(steps) ==
  /\ Quiet
  /\ todo' = steps
  /\ UNCHANGED <<millis, phase, state, sig_start, low_total, win_start, ring,
                 coeff, since>>

\* One pass of setup()'s loop: the test, then delay(10), then the serial port.
WarmUpPass  == phase = "warmup" /\ millis < WarmUp /\ Call(<<Do("serial", PM10_IDX)>>)
LeaveWarmUp == phase = "warmup" /\ millis >= WarmUp /\ Call(Both("reset"))

\* The calls loop() makes: update() each pass, the LCD's report, a detailed
\* report for the serial port or the SD card.
Update      == phase = "run" /\ Call(Both("poll"))
GetAQI      == phase = "run" /\ \E r \in AqiReads : Call(r)
Report      == phase = "run" /\ \E r \in DetailReads : Call(r)

\* The serial port during warm-up: nothing to do, or a detailed report.
WarmUpSerial ==
  /\ Pending("serial", PM10_IDX)
  /\ todo' \in {<<>>} \cup DetailReads
  /\ UNCHANGED <<millis, phase, state, sig_start, low_total, win_start, ring,
                 coeff, since>>

SetCoeff(c) ==
  /\ (phase = "run" /\ Quiet) \/ Pending("serial", PM10_IDX)
  /\ todo' = <<>>
  /\ coeff' = c
  /\ UNCHANGED <<millis, phase, state, sig_start, low_total, win_start, ring, since>>

-----------------------------------------------------------------------------
(* The steps. *)

\* begin() and reset() open a window per channel, reading the clock for each.
OpenWindow(i) ==
  /\ Pending("begin", i) \/ Pending("reset", i)
  /\ todo' = Tail(todo)
  /\ phase' = IF Pending("reset", PM25_IDX) THEN "run" ELSE phase
  /\ win_start' = [win_start EXCEPT ![i] = millis]
  /\ since' = [since EXCEPT ![i] = 0]
  /\ UNCHANGED <<millis, state, sig_start, low_total, ring, coeff>>

\* update() finds nothing to do: no edge, or signal_begin refuses because the
\* clock has wrapped behind the window.
PollNothing(i) ==
  /\ Pending("poll", i)
  /\ \/ state[i] = "Start" /\ i \in Noisy
     \/ state[i] = "Idle"
  /\ todo' = Tail(todo)
  /\ UNCHANGED <<millis, phase, state, sig_start, low_total, win_start, ring,
                 coeff, since>>

\* A falling edge: signal_begin tests the clock and then reads it again.
PulseSeen(i) ==
  /\ Pending("poll", i)
  /\ state[i] = "Idle" /\ i \in Noisy
  /\ millis >= win_start[i]
  /\ todo' = <<Do("mark", i)>> \o Tail(todo)
  /\ UNCHANGED <<millis, phase, state, sig_start, low_total, win_start, ring,
                 coeff, since>>

SignalBegin(i) ==
  /\ Pending("mark", i)
  /\ todo' = Tail(todo)
  /\ sig_start' = [sig_start EXCEPT ![i] = millis]
  /\ state' = [state EXCEPT ![i] = "Start"]
  /\ UNCHANGED <<millis, phase, low_total, win_start, ring, coeff, since>>

\* Mutant: a stuck-LOW pin is not filtered.
CountsAnyLength(i) == sig_start[i] # 0 /\ Width(i) >= MIN_SIG_SPAN

\* A start time of 0 doubles as "no signal".
Counts(i) ==
  /\ sig_start[i] # 0
  /\ Width(i) <= MAX_SIG_SPAN
  /\ Width(i) >= MIN_SIG_SPAN

SignalEnd(i) ==
  /\ Pending("poll", i)
  /\ state[i] = "Start"
  /\ todo' = Tail(todo)
  /\ low_total' = IF Counts(i)
                  THEN [low_total EXCEPT ![i] = Plus(@, Width(i))]
                  ELSE low_total
  /\ sig_start' = [sig_start EXCEPT ![i] = 0]
  /\ state' = [state EXCEPT ![i] = "Idle"]
  /\ UNCHANGED <<millis, phase, win_start, ring, coeff, since>>

\* A window closes when it is old enough, and always when the clock wrapped.
WindowDoneLate(i) == millis < win_start[i] \/ Elapsed(i) > MIN_WIN_SPAN \* mutant
WindowDoneNoWrap(i) == millis - win_start[i] >= MIN_WIN_SPAN \* mutant: no special case
WindowDone(i) == millis < win_start[i] \/ Elapsed(i) >= MIN_WIN_SPAN

\* The total that makes room for the new one.
EvictedTooEarly(i) == saf_ent[i][Slot(saf_idx[i])] \* mutant: post-increment
Evicted(i) == saf_ent[i][Slot(NextIdx(saf_idx[i]))]

KeepWindow(i) ==
  /\ Pending("read", i)
  /\ ~WindowDone(i)
  /\ todo' = Tail(todo)
  /\ since' = [since EXCEPT ![i] = 0]
  /\ UNCHANGED <<millis, phase, state, sig_start, low_total, win_start, ring, coeff>>

CloseWindow(i) ==
  LET k   == NextIdx(saf_idx[i])
      sum == Plus(Minus(saf_sum[i], Evicted(i)), low_total[i])
  IN  /\ Pending("read", i)
      /\ WindowDone(i)
      /\ todo' = Tail(todo)
      /\ saf_idx' = [saf_idx EXCEPT ![i] = k]
      /\ saf_sum' = [saf_sum EXCEPT ![i] = sum]
      /\ saf_ent' = [saf_ent EXCEPT ![i][Slot(k)] = low_total[i]]
      /\ lastLowRatio' = [lastLowRatio EXCEPT ![i] = [sum |-> sum, n |-> Divisor(k)]]
      /\ win_start' = [win_start EXCEPT ![i] = millis]
      /\ low_total' = [low_total EXCEPT ![i] = 0]
      /\ since' = [since EXCEPT ![i] = 0]
      /\ UNCHANGED <<millis, phase, state, sig_start, coeff>>

Advance(i) ==
  \/ OpenWindow(i)
  \/ PollNothing(i)
  \/ PulseSeen(i)
  \/ SignalBegin(i)
  \/ SignalEnd(i)
  \/ KeepWindow(i)
  \/ CloseWindow(i)

Next ==
  \/ Tick
  \/ WarmUpPass
  \/ LeaveWarmUp
  \/ Update
  \/ GetAQI
  \/ Report
  \/ WarmUpSerial
  \/ \E c \in Coeffs : SetCoeff(c)
  \/ \E i \in Channel : Advance(i)

Spec == Init /\ [][Next]_vars

-----------------------------------------------------------------------------
(* Properties. *)

\* Every variable has its type; the clock and the sums are machine words.
TypeOK ==
  /\ millis \in Word
  /\ phase \in {"warmup", "run"}
  /\ todo \in Seq(Step)
  /\ state \in [Channel -> {"Idle", "Start"}]
  /\ sig_start \in [Channel -> Word]
  /\ low_total \in [Channel -> Word]
  /\ win_start \in [Channel -> Word]
  /\ saf_sum \in [Channel -> Word]
  /\ saf_ent \in [Channel -> [0 .. SAF_WIN_MAX - 1 -> Word]]
  /\ saf_idx \in [Channel -> 0 .. 2 * SAF_WIN_MAX - 1]
  /\ lastLowRatio \in [Channel -> [sum : Word, n : 0 .. SAF_WIN_MAX]]
  /\ coeff \in Coeffs \cup {1}
  /\ since \in [Channel -> 0 .. WarmUp + MaxReadGap]

\* The sensor cannot have been LOW for longer than its window has been open:
\* a window never holds more low time than its age plus the one pulse that
\* was already under way when it opened, whatever the polls, the reads and
\* the clock's wrap do.  (signal_begin, signal_end, getLowRatio.)
LowTimeBounded ==
  \A i \in Channel :
    low_total[i] = 0 \/ low_total[i] <= Elapsed(i) + MAX_SIG_SPAN

\* The figure on display is never stale: the window being filled is younger
\* than MIN_WIN_SPAN plus the time since the channel was last read, also
\* across the clock's wrap.  (getLowRatio.)
WindowsTurnOver ==
  \A i \in Channel : Elapsed(i) < MIN_WIN_SPAN + since[i]

\* When the clock wraps behind an open window signal_begin refuses every
\* pulse; that outage began after the channel's last read and ends with the
\* next one, so it is never longer than the pause between two reads.
WrapOutageBounded ==
  \A i \in Channel : millis < win_start[i] => millis < since[i]

\* The closed windows, oldest first, read out of the ring.
Recent(i) ==
  [k \in 1 .. Divisor(saf_idx[i]) |->
     saf_ent[i][Slot(saf_idx[i] + SAF_WIN_MAX + k - Divisor(saf_idx[i]))]]

Mean == INSTANCE SlidingMean WITH
  Windows <- SAF_WIN_MAX, Total <- Word,
  recent <- [i \in Channel |-> Recent(i)], mean <- lastLowRatio

\* The ring, its index and its running sum implement the mean of the last
\* SAF_WIN_MAX closed windows.  (getLowRatio lines 96 to 105.)
ImplementsSlidingMean == Mean!Spec

=============================================================================
