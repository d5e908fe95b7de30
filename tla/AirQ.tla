-------------------------------- MODULE AirQ --------------------------------
(***************************************************************************)
(* The firmware's only thread (AirQ.cpp): setup() with its warm-up loop,   *)
(* then loop() for ever, one statement per action, with the serial command *)
(* interpreter, the three interval timers, the shared line buffer          *)
(* FB.line1, the SD log and, when built with EN_USB, the USB poll that     *)
(* also feeds the watchdog.                                                *)
(*                                                                         *)
(* The bytes of the serial port and the presence of the SD card are the    *)
(* environment's; what a byte is is chosen when getch returns it.  The     *)
(* variables lineAge, skew, readAge, passAge and kickAge are clocks that   *)
(* the program does not have.                                              *)
(***************************************************************************)
EXTENDS Integers, Sequences

CONSTANTS
  ClockMod,     \* millis() counts modulo ClockMod (2^32 on the device)
  lcd_tm_Intv,  \* LCD clock line refresh interval
  lcd_ad_Intv,  \* LCD air data refresh interval
  logIntv,      \* SD log interval
  WarmUp,       \* end of the warm-up loop (60000)
  Delay,        \* delay(10) in the warm-up loop
  FillLen,      \* bytes of the date and time in a 'T' command (12)
  EN_USB,       \* the compile option
  MaxPass,      \* longest pass of either loop while no watchdog runs
  WdtSpan       \* the watchdog's timeout

Word == 0 .. ClockMod - 1

\* The longest time that can pass between two reads of the dust sensor.
PassBound == IF EN_USB THEN 2 * WdtSpan ELSE MaxPass
ReadBound == lcd_ad_Intv + 2 * PassBound

ASSUME TimersAssumption ==
  /\ ClockMod \in Nat /\ lcd_tm_Intv \in Nat /\ lcd_ad_Intv \in Nat
  /\ logIntv \in Nat /\ WarmUp \in Nat /\ Delay \in Nat /\ FillLen \in Nat
  /\ EN_USB \in BOOLEAN /\ MaxPass \in Nat /\ WdtSpan \in Nat
  /\ lcd_tm_Intv < WarmUp /\ lcd_ad_Intv < WarmUp
  /\ WarmUp + 3 * PassBound < ClockMod
  /\ logIntv + 2 * PassBound < ClockMod

VARIABLES
  pc,             \* the statement about to run
  phase,          \* "warmup" in setup(), "run" in loop()
  job,            \* what is left of the serial command being executed
  millis,         \* the Arduino clock
  now,            \* loop()'s local copy of it
  lcd_lu_time, lcd_lu_aqdat, lastLog,    \* the timers
  sd_initialized, \* the card was usable when last tried
  rx,             \* a byte waits in the serial receive buffer
  card,           \* an SD card that opens is in the slot
  wdt,            \* the watchdog runs
  lineAge,        \* time since the buffer FB.line1 was filled (stops at lcd_tm_Intv + 1)
  skew,           \* how old FB.line1 was when now was read; 0 if filled since
  readAge,        \* time since the sensor was read (stops at ReadBound + 1)
  passAge,        \* time since the pass began (stops at PassBound)
  kickAge         \* time since the watchdog was fed

ages == <<lineAge, skew, readAge, passAge, kickAge>>
timers == <<now, lcd_lu_time, lcd_lu_aqdat, lastLog>>
vars == <<pc, phase, job, millis, timers, sd_initialized, rx, card, wdt, ages>>

-----------------------------------------------------------------------------
Plus(a, b)  == IF a + b < ClockMod THEN a + b ELSE a + b - ClockMod
Minus(a, b) == IF a >= b THEN a - b ELSE a - b + ClockMod
UpTo(a, bound) == IF a < bound THEN a + 1 ELSE bound

\* Unsigned subtraction makes the interval test right across the wrap.
DueNoWrap(last, intv) == now > last + intv \* mutant: absolute deadline
Due(last, intv) == Minus(now, last) > intv

\* Where procSerial returns to.
AfterSerial == IF phase = "warmup" THEN "poll" ELSE "timers"

Init ==
  /\ pc = "setup"
  /\ phase = "warmup"
  /\ job = <<>>
  /\ millis = 0
  /\ now = 0 /\ lcd_lu_time = 0 /\ lcd_lu_aqdat = 0 /\ lastLog = 0
  /\ sd_initialized = FALSE
  /\ rx = FALSE
  /\ card \in BOOLEAN
  /\ wdt = FALSE
  /\ lineAge = 0 /\ skew = 0 /\ readAge = 0 /\ passAge = 0 /\ kickAge = 0

-----------------------------------------------------------------------------
(* The environment. *)

\* A serial command waits for its next byte.
Waiting == pc = "job" /\ Head(job) \in {"sync", "fill"}

\* Time passes, at most MaxPass in one pass of a loop; with the watchdog on,
\* at most WdtSpan between two feedings.
Tick ==
  /\ IF wdt THEN kickAge < WdtSpan ELSE passAge < PassBound
  /\ millis' = Plus(millis, 1)
  /\ lineAge' = UpTo(lineAge, lcd_tm_Intv + 1)
  /\ readAge' = UpTo(readAge, ReadBound + 1)
  /\ passAge' = UpTo(passAge, PassBound)
  /\ kickAge' = IF wdt THEN kickAge + 1 ELSE 0
  /\ UNCHANGED <<pc, phase, job, timers, sd_initialized, rx, card, wdt, skew>>

HostSends ==
  /\ ~rx
  /\ rx' = TRUE
  /\ UNCHANGED <<pc, phase, job, millis, timers, sd_initialized, card, wdt, ages>>

\* The card is pushed in or pulled out.
CardMoves ==
  /\ card' = ~card
  /\ UNCHANGED <<pc, phase, job, millis, timers, sd_initialized, rx, wdt, ages>>

\* The watchdog restarts the program: memory is lost, the card stays.
WatchdogResets ==
  /\ wdt /\ kickAge = WdtSpan
  /\ pc' = "setup" /\ phase' = "warmup" /\ job' = <<>>
  /\ millis' = 0
  /\ now' = 0 /\ lcd_lu_time' = 0 /\ lcd_lu_aqdat' = 0 /\ lastLog' = 0
  /\ sd_initialized' = FALSE
  /\ rx' = FALSE
  /\ wdt' = FALSE
  /\ lineAge' = 0 /\ skew' = 0 /\ readAge' = 0 /\ passAge' = 0 /\ kickAge' = 0
  /\ UNCHANGED card

-----------------------------------------------------------------------------
(* setup(). *)

\* Up to the warm-up loop: SD.begin, and UsbPort.begin starts the watchdog.
Setup ==
  /\ pc = "setup"
  /\ pc' = "warm"
  /\ sd_initialized' = card
  /\ wdt' = EN_USB
  /\ kickAge' = 0
  /\ UNCHANGED <<phase, job, millis, timers, rx, card, lineAge, skew, readAge, passAge>>

\* The loop's test; its body begins with the LCD's first line.
WarmUpPass ==
  /\ pc = "warm" /\ millis < WarmUp
  /\ pc' = "delay"
  /\ lineAge' = 0
  /\ passAge' = 0
  /\ UNCHANGED <<phase, job, millis, timers, sd_initialized, rx, card, wdt, skew,
                 readAge, kickAge>>

WarmUpDelay ==
  /\ pc = "delay" /\ passAge >= Delay
  /\ pc' = "serial"
  /\ UNCHANGED <<phase, job, millis, timers, sd_initialized, rx, card, wdt, ages>>

\* dsm501.reset() opens fresh windows.
LeaveWarmUp ==
  /\ pc = "warm" /\ millis >= WarmUp
  /\ pc' = "update"
  /\ phase' = "run"
  /\ readAge' = 0
  /\ passAge' = 0
  /\ UNCHANGED <<job, millis, timers, sd_initialized, rx, card, wdt, lineAge, skew, kickAge>>

-----------------------------------------------------------------------------
(* loop(), and the two statements it shares with setup(). *)

\* dsm501.update(): see module DSM501.
SensorUpdate ==
  /\ pc = "update"
  /\ pc' = "poll"
  /\ passAge' = 0
  /\ UNCHANGED <<phase, job, millis, timers, sd_initialized, rx, card, wdt,
                 lineAge, skew, readAge, kickAge>>

\* UsbPort.poll() feeds the watchdog; without EN_USB there is no such call.
UsbPoll ==
  /\ pc = "poll"
  /\ pc' = IF phase = "warmup" THEN "warm" ELSE "serial"
  /\ kickAge' = 0
  /\ UNCHANGED <<phase, job, millis, timers, sd_initialized, rx, card, wdt,
                 lineAge, skew, readAge, passAge>>

SerialCheck ==
  /\ pc = "serial"
  /\ pc' = IF rx THEN "command" ELSE AfterSerial
  /\ UNCHANGED <<phase, job, millis, timers, sd_initialized, rx, card, wdt, ages>>

ReadNow ==
  /\ pc = "timers"
  /\ pc' = "line1"
  /\ now' = millis
  /\ skew' = lineAge
  /\ UNCHANGED <<phase, job, millis, lcd_lu_time, lcd_lu_aqdat, lastLog,
                 sd_initialized, rx, card, wdt, lineAge, readAge, passAge, kickAge>>

ClockDueRarely == Due(lcd_lu_time, lcd_ad_Intv) \* mutant: the other line's interval
ClockDue == Due(lcd_lu_time, lcd_tm_Intv)

LcdLine1 ==
  /\ pc = "line1"
  /\ pc' = "line2"
  /\ IF ClockDue
     THEN lcd_lu_time' = now /\ lineAge' = 0 /\ skew' = 0
     ELSE UNCHANGED <<lcd_lu_time, lineAge, skew>>
  /\ UNCHANGED <<phase, job, millis, now, lcd_lu_aqdat, lastLog, sd_initialized,
                 rx, card, wdt, readAge, passAge, kickAge>>

AirDataDue == Due(lcd_lu_aqdat, lcd_ad_Intv)

\* The air data line reads both channels of the sensor.
LcdLine2 ==
  /\ pc = "line2"
  /\ pc' = "log"
  /\ IF AirDataDue
     THEN lcd_lu_aqdat' = now /\ readAge' = 0
     ELSE UNCHANGED <<lcd_lu_aqdat, readAge>>
  /\ UNCHANGED <<phase, job, millis, now, lcd_lu_time, lastLog, sd_initialized,
                 rx, card, wdt, lineAge, skew, passAge, kickAge>>

LogDue == sd_initialized /\ Due(lastLog, logIntv)

LogSkip ==
  /\ pc = "log" /\ ~LogDue
  /\ pc' = "update"
  /\ UNCHANGED <<phase, job, millis, timers, sd_initialized, rx, card, wdt, ages>>

\* log2Sd opens the file; if it cannot, the log is switched off.
LogOpen ==
  /\ pc = "log" /\ LogDue
  /\ IF card
     THEN pc' = "write" /\ UNCHANGED <<sd_initialized, lastLog>>
     ELSE pc' = "update" /\ sd_initialized' = FALSE /\ lastLog' = now
  /\ UNCHANGED <<phase, job, millis, now, lcd_lu_time, lcd_lu_aqdat, rx, card, wdt, ages>>

\* The record: FB.line1 as it is, then a report that reads the sensor.
LogWrite ==
  /\ pc = "write"
  /\ pc' = "update"
  /\ sd_initialized' = TRUE
  /\ lastLog' = now
  /\ readAge' = 0
  /\ UNCHANGED <<phase, job, millis, now, lcd_lu_time, lcd_lu_aqdat, rx, card, wdt,
                 lineAge, skew, passAge, kickAge>>

-----------------------------------------------------------------------------
(* procSerial().  Every getch waits for a byte and nothing else. *)

CoeffJob == <<"sync", "coeff", "sync">>
TimeJob  == <<"sync">> \o [k \in 1 .. FillLen |-> "fill"] \o <<"sync", "settime">>

Getch == rx /\ rx' = FALSE

\* 'r': fills FB.line1 and reads the sensor; the LCD is left alone.
CommandReport ==
  /\ pc = "command"
  /\ Getch
  /\ pc' = AfterSerial
  /\ lineAge' = 0 /\ skew' = 0 /\ readAge' = 0
  /\ UNCHANGED <<phase, job, millis, timers, sd_initialized, card, wdt, passAge, kickAge>>

\* 'c' and every other byte.
CommandOther ==
  /\ pc = "command"
  /\ Getch
  /\ pc' = AfterSerial
  /\ UNCHANGED <<phase, job, millis, timers, sd_initialized, card, wdt, ages>>

\* 'C' and 'T'.
CommandJob ==
  /\ pc = "command"
  /\ Getch
  /\ pc' = "job"
  /\ job' \in {CoeffJob, TimeJob}
  /\ UNCHANGED <<phase, millis, timers, sd_initialized, card, wdt, ages>>

NextInJobForever == pc' = "job" /\ job' = Tail(job) \* mutant: never returns
NextInJob == /\ job' = Tail(job)
             /\ pc' = IF Tail(job) = <<>> THEN AfterSerial ELSE "job"

\* ch_sync: a space goes on, any other byte ends the command.
Sync ==
  /\ pc = "job" /\ Head(job) = "sync"
  /\ Getch
  /\ \/ NextInJob
     \/ job' = <<>> /\ pc' = AfterSerial
  /\ UNCHANGED <<phase, millis, timers, sd_initialized, card, wdt, ages>>

Fill ==
  /\ pc = "job" /\ Head(job) = "fill"
  /\ Getch
  /\ NextInJob
  /\ UNCHANGED <<phase, millis, timers, sd_initialized, card, wdt, ages>>

\* Serial.parseInt takes what digits come, or gives up; setCoeff.
ReadCoeff ==
  /\ pc = "job" /\ Head(job) = "coeff"
  /\ rx' \in {rx, FALSE}
  /\ NextInJob
  /\ UNCHANGED <<phase, millis, timers, sd_initialized, card, wdt, ages>>

\* setDateTimeBCD, then makeStr fills FB.line1; the LCD is left alone.
SetTime ==
  /\ pc = "job" /\ Head(job) = "settime"
  /\ NextInJob
  /\ lineAge' = 0 /\ skew' = 0
  /\ UNCHANGED <<phase, millis, timers, sd_initialized, rx, card, wdt, readAge,
                 passAge, kickAge>>

Serial ==
  \/ CommandReport \/ CommandOther \/ CommandJob
  \/ Sync \/ Fill \/ ReadCoeff \/ SetTime

Program ==
  \/ Setup \/ WarmUpPass \/ WarmUpDelay \/ LeaveWarmUp
  \/ SensorUpdate \/ UsbPoll \/ SerialCheck \/ ReadNow
  \/ LcdLine1 \/ LcdLine2 \/ LogSkip \/ LogOpen \/ LogWrite
  \/ Serial

Next == Program \/ Tick \/ HostSends \/ CardMoves \/ WatchdogResets

Spec == Init /\ [][Next]_vars

\* The processor runs and the clock counts; and a host that began a command
\* sends the rest of it.
FairSpec ==
  /\ Spec
  /\ WF_vars(Program)
  /\ WF_vars(Tick)
  /\ WF_vars(Waiting /\ HostSends)

-----------------------------------------------------------------------------
(* Properties. *)

\* Types; a serial command is being executed exactly while some of it is left,
\* and the clocks stay in their bounds.
TypeOK ==
  /\ pc \in {"setup", "warm", "delay", "update", "poll", "serial", "timers", "line1",
             "line2", "log", "write", "command", "job"}
  /\ phase \in {"warmup", "run"}
  /\ job \in Seq({"sync", "fill", "coeff", "settime"})
  /\ pc = "job" <=> job # <<>>
  /\ {millis, now, lcd_lu_time, lcd_lu_aqdat, lastLog} \subseteq Word
  /\ {sd_initialized, rx, card, wdt} \subseteq BOOLEAN
  /\ lineAge \in 0 .. lcd_tm_Intv + 1
  /\ skew \in 0 .. lcd_tm_Intv + 1
  /\ readAge \in 0 .. ReadBound + 1
  /\ passAge \in 0 .. PassBound
  /\ kickAge \in 0 .. WdtSpan

\* The log does not ask the clock chip for the time: it prints FB.line1
\* "since LCD is updating this every sec" (log2Sd).  The stamp was filled at
\* most lcd_tm_Intv before now was read, whatever the serial commands, the
\* clock's wrap and watchdog restarts do in between.
LogStampFresh == pc = "write" => skew <= lcd_tm_Intv

\* The dust sensor is read at least every lcd_ad_Intv plus two passes: the
\* gap that module DSM501 takes for granted.
ReadsKeepPace == phase = "run" => readAge <= ReadBound

\* Both rows of the LCD keep being written for ever, by lcd_ref_line(1) and
\* lcd_ref_line(2) of loop(): commands and the log, which fill FB.line1 or read
\* the sensor without touching the LCD, do not count.
ClockKeepsShowing == []<><<LcdLine1 /\ ClockDue>>_vars
AirDataKeepsShowing == []<><<LcdLine2 /\ AirDataDue>>_vars

\* AirQ.cpp:349 says that the data is logged "if possible".  When setup() found
\* a card, and there is one from some time on, records should keep being
\* written.
LogsIfPossible == <>sd_initialized /\ <>[]card => []<>(pc = "write")

=============================================================================
