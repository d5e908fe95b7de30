# Verification of AqiMon

AqiMon is an Arduino program (ATmega at 16 MHz) that measures dust with a DSM501
sensor, shows an air quality index, temperature, humidity and the time on a
16x2 LCD, logs to an SD card, answers commands on the serial port and, when it
is built with `EN_USB`, is a USB HID device by means of the V-USB software
driver. This directory holds TLA+ models of the program, the TLC runs that
check them and the TLAPS proofs about nearly all of what they check.

    tlc -workers 2 -config DSM501.cfg DSM501            # one run
    tlapm UsbDriverProofs.tla                           # one module of proofs

`PROJECT.json` lists the runs, the lines of source each definition models, the
hazards and the properties that watch over them.

## 1. Inventory

### Parts

| Part | Source | State it keeps | Operations |
|---|---|---|---|
| Main program | `AirQ.cpp` `setup`, `loop` | `lcd_lu_time`, `lcd_lu_aqdat`, `lastLog`, `sd_initialized`, `FB.line1/line2` | start-up, warm-up loop of 60 s, then one pass after another: sensor poll, USB poll, serial command, three interval timers |
| Serial commands | `AirQ.cpp` `procSerial`, `getch`, `ch_sync`, `fill` | position inside a command | `r` report, `c` show and `C` set the coefficient, `T` set date and time |
| SD log | `AirQ.cpp` `log2Sd` | `sd_initialized` | append a record, with the time that `FB.line1` happens to hold |
| LCD | `AirQ.cpp` `displayTime`, `displayAirData`, `displaySdState` | `FB`, the columns of both rows | refresh the clock row, refresh the air row, mark the card |
| Dust sensor driver | `DSM501.cpp` | per channel: pulse state, window, ring of 10 windows with a running sum | `begin`, `reset`, `update`, `signal_begin`, `signal_end`, `getLowRatio`, `setCoeff` |
| AQI curve | `DSM501.cpp` `getParticalWeight`, `getAQI` | none | ratio to weight to index |
| Clock chip driver | `DS1307.cpp` | fields of the last reading, the chip's registers | `setDateTimeBCD`, `updateDateTime` (`readRawData`, `parseData`) |
| USB interrupt routine | `usbdrv/asmcommon.inc`, `usbdrvasm16.inc` | receive buffer, token, transmit buffer, address | receive, acknowledge, refuse, transmit |
| USB `usbPoll` | `usbdrv/usbdrv.c` | message pointer, length, flags, new address, configuration | process a received packet, build a block to send, notice a bus reset |
| USB start-up and descriptors | `USBPort.cpp` `begin`, `usbdrv/usbdrv.c`, `usbdrv/usbconfig.h` | tables in flash | enable the interrupt, pull the line low for a count of milliseconds, answer the requests of an enumeration |
| HID report | `USBPort.cpp` | `currentAddress`, `bytesRemaining`, EEPROM | `usbFunctionSetup`, `usbFunctionRead`, `usbFunctionWrite` |

Not compiled, or external: the driver's assembly for other clock rates,
`oddebug`, and the Arduino libraries (DHT22, LiquidCrystal, Wire, SD, EEPROM).

### How the parts interact

One thread runs `setup` and then `loop` for ever and calls every other part;
nothing else runs but the USB interrupt routine, which may preempt that thread
between any two instructions and shares with `usbPoll` the receive buffer, the
transmit buffer and the address, without a lock. The sensor is polled once per
pass; it makes progress (closes windows) only inside `getLowRatio`, which the
LCD refresh, the serial report and the log call. Four places fill the one buffer
`FB.line1`, and the log reads it. With USB, `UsbPort.poll()` is also what feeds
the watchdog, so a pass that takes too long restarts the program.

### What is hard here

* `millis()` wraps after 49.7 days; windows, pulses and three timers compare its
  values, and the driver reads it several times within one call.
* A window holds pulses of an unreliable input, polled late, straddling the
  window's start.
* `getch` waits without a timeout; every command can be cut short at any byte.
* The card may be pulled or put in at any time; the clock chip may not answer.
* A USB host may give up a transfer between any two packets and begin another,
  or reset the bus, while `usbPoll` is half way through the old one.
* A restart of the program empties the USB driver's memory while the host still
  takes the device for configured, and a bus reset can fall between two calls of
  `usbPoll` and be missed.
* The LCD is never cleared: what a text does not reach stays from the one before.
* The faked disconnect holds D- low while the USB interrupt is enabled and the
  host may still send.
* Hand-written numbers: eight bands of the index, six BCD masks each way, 8-bit
  lengths with a reserved value, and the lengths, counts and indexes inside the
  USB descriptors, spread over three files.

### What makes each part correct

| Part | Properties |
|---|---|
| Dust sensor driver | `LowTimeBounded`, `WindowsTurnOver`, `WrapOutageBounded`, `ImplementsSlidingMean` |
| AQI curve | `MoreDustMoreAqi`, `CoeffOnlyDamps`; `MinusOneMeansInitializing` fails |
| Clock chip driver | `DateRoundTrip`; `HourRoundTrip` fails |
| LCD | `LineFits`, `ReportRowCurrent`; `SomeRowCurrent` fails |
| Main program, commands | `ReadsKeepPace`, `ClockKeepsShowing`, `AirDataKeepsShowing` |
| SD log | `LogStampFresh`; `LogsIfPossible` fails |
| USB interrupt routine and `usbPoll` | `RxStable`, `SetupNeverRefused`, `AddressAgrees`, `RepliesInOrder`, `RepliesComplete`, `AnswerOnItsWay`, `TransfersEnd`, `ImplementsControlPipe` |
| HID report | `ReportMatches` |
| USB start-up, session, descriptors | `SessionAgrees`, `EveryStepCloser`, `Recovers`, `DescriptorsAgree` |

## 2. Modules

| Module | Models | Used with |
|---|---|---|
| `DSM501` | the sensor driver and the calls `AirQ.cpp` makes of it | `DSM501.cfg` |
| `SlidingMean` | what the driver's filter promises (abstract) | instantiated by `DSM501` as `Mean` |
| `DSM501Proofs` | the theorems about the windows of `DSM501` | TLAPS |
| `DSM501MeanProofs` | that `DSM501` implements `SlidingMean` | TLAPS |
| `AqiCurve` | from ratios to the index | `MCAqiCurve`, `MCAqiCurve*.cfg` |
| `AqiCurveProofs` | that more dust shows a larger index, and when none is shown | TLAPS |
| `DS1307` | clock chip driver and the `T` command's effect on it | `MCDS1307_hour.cfg` |
| `Display` | the columns of the LCD's two rows, above `DS1307` | `Display*.cfg` |
| `DisplayProofs` | the theorems about `Display` and `DS1307` | TLAPS |
| `AirQ` | `setup`, `loop`, serial commands, timers, log, watchdog | `MCAirQ_*.cfg` |
| `AirQProofs` | the theorems about `AirQ` | TLAPS |
| `UsbDriver` | interrupt routine, `usbPoll`, report handlers, host | `MCUsbDriver_*.cfg` |
| `ControlPipe` | what the driver promises a host that finishes its transfers (abstract) | instantiated by `UsbDriver` as `Pipe` |
| `UsbDriverProofs` | the theorems about `UsbDriver`, that it implements `ControlPipe` among them | TLAPS |
| `UsbDescriptors` | the driver's tables and which of them answers a request | extended by `UsbSession` |
| `UsbSession` | start-up, enumeration, restarts, hangs, bus resets | `UsbSession*.cfg` |
| `UsbSessionProofs` | the theorems about agreement and progress in `UsbSession` | TLAPS |
| `UsbEnumerationProofs` | the theorems about the descriptors that a host gets in `UsbSession` | TLAPS |

`DSM501` and `AirQ` meet in one number. `DSM501` assumes that both channels are
read at least every `MaxReadGap`; `AirQ` checks it: `ReadsKeepPace` says that
the program reads them at least every `lcd_ad_Intv` plus two passes. In the
other direction `AirQ` takes from `DSM501` only that a read never blocks.

`UsbDriver` and `UsbSession` look at the same functions at two scales.
`UsbDriver` has the packets, the interrupts and the shared buffers of one
transfer and the next; what it finds about a transfer of a host that finishes
what it begins is the abstract `ControlPipe`. `UsbSession` takes a transfer as
three steps and follows whole enumerations through restarts, hangs and resets, with the
bytes of the real descriptors.

### DSM501

Every member variable of the source is a variable, a function of the channel.
A call of the driver is a list of steps, `todo`, each of which reads the clock
once; `Tick` may happen between any two. So `signal_begin`, which tests the
clock and then reads it again, is the two steps `PulseSeen` and `SignalBegin`,
and the two windows opened by `reset()` may be a tick apart. `Update`, `GetAQI`,
`Report`, `SetCoeff`, `WarmUpPass`, `LeaveWarmUp` and `WarmUpSerial` are the
calls of `AirQ.cpp`; C++ leaves open which channel `getAQI` reads first, so both
orders are taken. The pin is read anew at each poll: a channel in `Noisy` may be
seen LOW or HIGH at any of them.

Abstractions: the ratio is the quotient `[sum, n]` instead of a float, `n = 0`
being NAN. `_saf_idx` is a free-running 32-bit counter that is only used modulo
`SAF_WIN_MAX` and in a comparison with it; `NextIdx` folds it, which is exact
until it wraps after 2^32 windows of a minute, in 8171 years. `since` is a
history variable.

### AqiCurve

The state is what `getLowRatio` returns for both channels, and the coefficient;
every ratio may follow every other. Floating point is done in integers, rounded
down, by Horner's rule: ratios in thousandths of a percent, weights in millionths
of a ug/m3, so that the gap between the first two bands is an interval of 100000
values and the smallest negative difference a millionth.
Ratios are at most 48 % (`CurveAssumption`), far above what the sensor's range
allows: there the `int` result would overflow.

### DS1307

Registers are bytes and every mask is translated as what it keeps. The chip is
external: seven registers that keep what was written, its counting left out so
that what is shown after a set can be compared with what was asked. A failed
transfer writes nothing or reads `0xFF` everywhere, as `Wire.read()` returns -1.
What bit 6 of the hour means to the real chip is not looked at: the code both
writes and reads it as "24 h".

The `T` command hands on whatever twelve bytes `fill` got. `SetGarbled` writes
the largest and smallest numbers that the masks of `setDateTimeBCD` let through;
nobody asked for such a date, so `DateRoundTrip` forgets what was asked, and
`Display` still has to show it within its columns.

### Display

Extends `DS1307` by the 16 columns of both rows. A column is blank, fresh (of
the row's last text) or stale (of an earlier one): a text of n characters makes
n columns fresh and leaves what is behind it. `ShowTime` is `displayTime` with
the SD mark, `ShowAirData` is `displayAirData` for readings of one to three
characters each: the index, padded to four characters, comes last and loses what
the row has no room for. `SerialReport` and `SerialSetTime` change the chip or the
driver's fields and not the LCD.

### AirQ

One statement per action, `pc` the statement about to run; `millis`, the timers
and `sd_initialized` are the program's. `rx` says whether a byte waits, its
value is chosen when `getch` takes it. `job` is what is left of a `C` or `T`
command. `card` and `rx` move at any time. `WatchdogResets` may restart the
program at any statement once the watchdog was not fed for `WdtSpan`. The
variables `lineAge`, `skew`, `readAge`, `passAge` and `kickAge` are clocks that
the program does not have; they stop at the value where no guard or property
tells more from it. `lineAge` is the age of the buffer `FB.line1` and `readAge`
that of the last call of `getLowRatio`, whoever made it; neither says that the
LCD was written. That is what the two steps `LcdLine1` and `LcdLine2` do when
they are due, and `ClockKeepsShowing` and `AirDataKeepsShowing` count those.

### UsbDriver

The interrupt routine handles one packet in one step (it runs with interrupts
off), and `usbPoll` is cut at every access to what they share: the test of
`usbRxLen` (`PollRx`), the abort of a pending transmission (`BeginSetup`), the
handlers (`ProcessSetup`, `ProcessOut`), the release of the buffer, the test of
`usbTxLen`, the block and its last line (`BuildTxBlock`, `CommitTxBlock`), the
two writes at a bus reset (`LineCheck`, `ResetAddress`). The host is the
environment; it obeys the protocol's retries (it repeats on NAK, waits for IN
data, ignores a packet with the wrong data token). A byte is its place and the
version that was written there, so that order and staleness can be told; bytes of
a descriptor (`Rom`) and of the replies to GET_STATUS, GET_CONFIGURATION and
GET_INTERFACE (`Ram`) have a version of their own. `RamReads` says which of these
three the host asks for. An IN for another address makes the routine forget the
token last heard, like any other token for another address.

Assumed, because the driver does: the bus neither loses nor garbles packets
("the rest of the driver assumes error-free transfers anyway",
`asmcommon.inc:159` and `:160`). A host that gives up on SET_ADDRESS resets the bus, since
it cannot know which address the device has. A bus reset lasts through one whole
call of `usbPoll`; while `getch` blocks the main loop it would not be noticed.
SET_REPORT carries between one byte and the whole report; the runs use the whole
one. After a short one the device never answers, see the hazards.

### ControlPipe

A request is served at a time; a read grows from the first byte and is finished
when it has what is owed, the smaller of what was asked for and what there is; a
write is in the store, whole, before it is confirmed; an address changes when
the request is confirmed. `UsbDriver` implements it with `stored` for the EEPROM
and `address` for `usbDeviceAddr`. The request served and the bytes received are
the host's own variables. The refinement is stated for a host that finishes its
transfers: one that gives up may leave a write half stored and an address set
without having seen the confirmation, which `usb_abort` watches with properties
of its own.

### UsbDescriptors and UsbSession

`UsbDescriptors` evaluates the tables as the compiler does. Where a host
computes with a byte (a length, a count, an index, a type) it is the real one;
characters of the strings are not told apart, their number is.

In `UsbSession` a transfer is `HostAsk`, which stores the request, `Poll`, which
prepares the reply and assigns the configuration or the new address, and
`HostFinish`, with which the host takes the reply. The host enumerates along
`Agenda`, where each request is computed from the replies before it, as hosts
do: the total length from the first nine bytes of the configuration, the
strings from the device descriptor's indexes, the report's length from the HID
part. Trouble, `MaxTrouble` times in a behaviour and at any moment, is a restart
of the device that the host is not told of, a bus reset, or a bus reset during
which no `usbPoll` ran (the main loop waits in `getch`). A host that gets no
answer resets the bus again (`GiveUp`). `begin` runs as it is written:
`usbInit` enables the interrupt before the line is pulled low, so that a request
can be stored in between; the countdown is the `uchar` that starts at 0, one
millisecond a turn, and a host notices after `Noticed` of them.

The interrupt stays enabled while the line is low. A host that has not noticed
yet sends packets, each an edge of D+, and the routine finds no sync pattern
behind a D- that does not move. `usbdrv.h:313` says that it hangs then; the 16 MHz
routine bounds its first wait ("just make sure we have ANY timeout",
`usbdrvasm16.inc:49`) and takes a low D- for the two K it waits for, which speaks
for a return with nothing received. The model takes either: nothing happens, or
`Hang`, a fourth kind of trouble, out of which only the watchdog comes
(`WatchdogRestarts`). Its second is longer than a host takes to notice.

## 3. Runs

| Run | Question | Bounds, and why they are enough | Result |
|---|---|---|---|
| `sensor` | Do windows, pulses and outages keep their bounds across the clock's wrap, and are index, divisor, eviction and running sum of the ring right? | clock of 10 ticks, windows of 2, pulses of 1: the clock wraps over and over, at every position relative to a window, a pulse and a call; one channel sees pulses, the other does not; a ring of 3, refilled several times and with the index at both sides of the fold | holds |
| `aqi_curve` | Is the index monotone? | every pair of ratios on a grid that reaches each of the eight bands and the gap between the first two, coefficients 1, 2, 7 and 0 | holds |
| `aqi_initializing` | Does -1 mean "Initializing"? | the same | fails, 4.1 |
| `display` | Does a date survive the masks both ways, does the clock's line keep off the SD mark, and is the air row of the last report? | the smallest and the largest digits of each field that is shown, and digits between; chip contents valid, with digits above 9, and all ones; garbled dates at the limits of the masks; readings of 1 to 3 characters | holds |
| `display_leftovers` | Is there at any moment a row of the LCD without the end of an earlier text? | both hour modes, readings of one and of two characters | fails, 4.4 and 4.5 |
| `rtc_hour` | Does the hour? | all 24 | fails, 4.2 |
| `loop_watchdog` | With USB: is the log's stamp fresh and the sensor read in time? | clock of 17 ticks, intervals 1, 2 and 3, watchdog of 2: each timer comes due before, with and after each other one and across the wrap, commands are cut at every byte, the watchdog bites at every statement | holds |
| `loop_live` | Without USB: the same, and are both rows of the LCD written again and again for ever? | clock of 7 ticks; passes of up to 1 tick | holds |
| `loop_logs` | Is the data logged "if possible", once a card was found at start-up? | clock of 6 ticks | fails, 4.3 |
| `usb_abort` | With a host that gives up at any point: order, completeness, stale data, address, the shared buffer, and whether one can wait for the other for good | packets of 2, report of 4, descriptor of 3 bytes: replies of one, of several full, and of a short last packet; two versions of the report, one address besides 0; no replies from RAM, which would take the run past five minutes: abandoned ones are covered by the proofs alone, for every `RamReads` | holds |
| `usb_patient` | With a host that finishes what it begins: is no SETUP refused, does every transfer end, is the driver one exact control pipe? | lengths below, at and above the packet size, the report and the descriptor, among them the full last packet that needs an empty one after it; replies of one and two bytes from RAM | holds |
| `usb_session` | Do host and device agree after any restart and reset, does the host find consistent descriptors, does every step lead on, is the device configured in the end? | the device's own numbers: a countdown of 256, 250 ms to notice, first requests of 8 and 64 bytes, the configuration asked for with its length, 255 and 512 bytes; two addresses, so that an old one can be told from a new one; three troubles (restart, hang, reset, missed reset), so that each kind can follow each other one and a third can come on top | holds |

The bound of each counter is named in its module: `MaxReadGap`, `MaxPass`,
`WdtSpan` and the `UpTo` ceilings bound clocks; nothing else grows. All runs
check deadlock; none of the systems may stop.

Small constants keep the orderings of the device's: `MIN_SIG_SPAN <=
MAX_SIG_SPAN < MIN_WIN_SPAN`, `lcd_tm_Intv <= lcd_ad_Intv <= logIntv`, everything
below the clock's range, `ReportLen` a multiple of `PacketSize` and
`ReportLen < NoMsg`. One more holds on the device with room to spare and had to
be kept in `DSM501.cfg`: the sum of a full ring, 600 s of 49 days, fits the
clock's word (`FullRingFits` of `DSM501MeanProofs`: 9 of 10 ticks there). The
three window properties of `sensor` have small windows and pulses there for the
ring's sake; they are proved for all values, section 5.

Every property has a mutant in `PROJECT.json`: a change to one of the model's
definitions, of the kind a bug in the code would be, under which the run reports
the property violated. Mutated forms stand next to what they mutate and are
marked as such.

### Fairness

* `AirQ!FairSpec`: `WF(Program)`, the processor runs; `WF(Tick)`, the clock
  counts; `WF(Waiting /\ HostSends)`, a host that began a command sends the rest
  of it. The last one is a real assumption about the host: `getch` has no
  timeout, and without it the display stops for ever (hazard at `AirQ.cpp:174`).
  Nothing is assumed about the card or about when commands begin.
* `UsbDriver!FairSpec`: `WF(UsbPoll)`, the main loop calls `usbPoll` again and
  again; `WF(HostGoesOn)`, the host goes on with a transfer that it began.
  Nothing makes it begin one. Weak fairness of `HostGoesOn` is enough because
  a host in the middle of a transfer always has a next packet.
* `UsbSession!FairSpec`: `WF(Device)`, the program starts and then calls
  `usbPoll` again and again; `WF(HostGoesOn)`, the host attaches what it finds,
  goes on with an enumeration and tries again when a device does not answer.
  Routine requests to a configured device are not needed for progress. Nothing
  is assumed about restarts, hangs and resets but that they end, which `Recovers`
  could not do without. That the watchdog bites a device that hangs is part of
  `WF(Device)`: nothing feeds it then.
* `LogsIfPossible` is violated under `AirQ!FairSpec`: the counterexample is a run
  in which everything that should run does.

## 4. What the runs found

1. **-1 does not mean "Initializing"** (`DSM501.cpp:148`). The first band ends at
   15.4 and the second begins above 15.5, and all that lies between has none, 15.5
   included; a negative difference of weights, however small, has no band, and
   a coefficient of 0 set over the serial port makes the ratio not a number:
   all show -1. `MinusOneMeans` proves that nothing else does.
2. **Hours 10 to 19 are shown as 0 to 9** (`DS1307.cpp:92`). In 24 hour mode
   the tens digit is masked with `0x2`, which keeps the twenties only.
3. **One failure to open the log file ends logging for good**
   (`AirQ.cpp:162`). The run's card is there at start-up, is pulled before the log
   is due and then put back. In between `log2Sd` could not open the file and
   cleared `sd_initialized`, and `loop` asks for it before it calls `log2Sd`, the
   only place that would set it again. (A card that is missing at start-up is not
   tried again either; the property does not ask for it.)
4. **The A or P of an earlier time stays on the clock row** (`AirQ.cpp:117`).
   The text is 15 characters in 12 hour mode and 14 in 24 hour mode, and the row
   is not cleared: after a `T` command, or after one read that failed, the
   letter stays.
5. **Digits of an earlier index stay on the air row** (`AirQ.cpp:132`). The report
   has 16 characters when temperature and humidity take two each. When one takes
   a character less the whole text is shorter and the last digit of the old index
   stays right behind the new one: 95 after 155 is read as 955. When both do, two
   digits stay, as in the run. (A longer text cuts the new index off; no digit is
   wrong then, but one is missing.)

Findings 4 and 5 are shown by one run: `SomeRowCurrent` is so weak that its
counterexample has to leave something on both rows.

Read off the code, with no run that asks for it: the faked disconnect of `begin`
(`USBPort.cpp:110`) runs with the USB interrupt enabled. `usbInit` enables it two
lines before, nothing disables it, and the Arduino core has interrupts on. The
comment there ("do this while interrupts are disabled!") and `usbdrv.h:313` ("must
be disabled while the device is in disconnected state, or the interrupt handler
will hang!") ask for the opposite. A host that has found the device between
`usbInit` and the disconnect, or that a restart took by surprise, still sends
packets then. `usb_session` has the hang among its troubles: the session recovers
from any number of them, by the watchdog, but not if every `begin` hangs. Whether
this board's routine does hang is left open, see `UsbSession` in section 2.

Not a defect, but a limit the runs respect: a GET_REPORT with a wLength of 255
would never be given data, because the reply length is taken from wLength and
255 is `USB_NO_MSG` (`usbdrv.c:456`). `usbdrv.h:157` documents the limit of 254,
and the report has 128 bytes.

## 5. Proofs

Each theorem is proved of the specification that the runs check, for every value
of the constants that satisfies the assumptions of its module, which TLC
evaluates on every run. They rest on an inductive invariant of their module,
`IInv` (`RingInv` in `DSM501MeanProofs`, only the types in `AqiCurveProofs`),
that TLC found to hold on the module's runs before it was proved.

| Module | Theorem | States |
|---|---|---|
| `DSM501Proofs` | `TypeCorrectness` | `[]TypeOK`: no sum, age or ring index leaves its range |
| | `LowTimeFitsWindow` | `[]LowTimeBounded` |
| | `FigureNeverStale` | `[]WindowsTurnOver` |
| | `OutageEndsWithRead` | `[]WrapOutageBounded` |
| `DSM501MeanProofs` | `RingIsSlidingMean` | `ImplementsSlidingMean`, if `FullRingFits` |
| `AqiCurveProofs` | `DustRaisesAqi` | `MoreDustMoreAqi` |
| | `MinusOneMeans` | `[]MinusOneIs`: the four reasons for a -1, and no other |
| `DisplayProofs` | `MarkNotOverwritten` | `[]LineFits` |
| | `ReportRowShown` | `[]ReportRowCurrent` |
| | `DateComesBack` | `[]DateRoundTrip` |
| `AirQProofs` | `TypeCorrectness` | `[]TypeOK` |
| | `SensorReadInTime` | `[]ReadsKeepPace` |
| | `StampInTime` | `[]LogStampFresh` |
| `UsbDriverProofs` | `TypeCorrectness` | `[]TypeOK`: no length leaves its 8 bits, no index its buffer |
| | `PacketNotOverwritten` | `RxStable` |
| | `AddressChangesWithStatus` | `[]AddressAgrees` |
| | `ReportIntact` | `[]ReportMatches` |
| | `ReadsInOrder` | `[]RepliesInOrder` |
| | `ReadsComplete` | `[]RepliesComplete`, if `ReadLens \subseteq 1 .. NoMsg` |
| | `SetupAccepted` | `[]SetupNeverRefused`, if `Patient` |
| | `NeverWaitsInVain` | `[]AnswerOnItsWay`, if `ReadLens \subseteq 1 .. NoMsg - 1` and writes are whole reports |
| | `DriverImplementsPipe` | `ImplementsControlPipe`, if `Patient` and `ReadLens \subseteq 1 .. NoMsg` |
| `UsbSessionProofs` | `TypeCorrectness` | `[]TypeOK` |
| | `ConfiguredAgrees` | `[]SessionAgrees` |
| | `StepsLeadOn` | `EveryStepCloser` |
| `UsbEnumerationProofs` | `KnownIsExact` | `[]KnownExact`: the descriptors kept are the source's tables |
| | `DescriptorsConsistent` | `[]DescriptorsAgree` |

These hypotheses are what the documentation or the device says:
`usbdrv.h:157` limits a transfer to 254 bytes, and `NoMsg` is 255 on the device
(section 4 says what happens at 255 itself); the report descriptor declares one
report, of 128 bytes; `Patient` is the host of `usb_patient`, which finishes what
it begins, and `usb_abort` shows why the pipe is not claimed for another;
`FullRingFits` asks that ten windows, each with one pause between reads and one
pulse more, fit the clock's word: 650 s of 49.7 days.

### DSM501: windows

`SpansAssumption` asks that warm-up, a window, a pulse and the pause between
reads together are shorter than the clock's period. On the device they are 60 s,
60 s, 90 ms and 5 s plus two passes, against 49.7 days. That the pause between reads is
bounded is built into `Tick`; `SensorReadInTime` of `AirQProofs` justifies it.

None of the properties is inductive. `IInv` adds:

* `StepsFitPhase`: warm-up never polls a pin and the loop never opens a window,
  and the reset that ends warm-up is the last step of its call. Without it a
  window could be opened while a pulse is being counted.
* `NoPulseYet`: before the first poll nothing was counted. `reset()` does not
  clear `low_total` or `state`; this is why it need not.
* `WarmUpClock`: in warm-up no read is needed, because the clock cannot have
  gone far.
* `PulseFits`: `LowTimeBounded` with the pulse under way accounted for. A pulse
  that began before the window may be counted in it, but only when nothing else
  has been, or when it still fits beside what has.

The argument: `AgeAfterTick` shows that a tick makes every age in the wrapping
clock one larger, or wraps it to 0 when it reaches the period. `WindowsTurnOver`
with the bound on `since` keeps a window's age away from the period, so ages of
windows never wrap, even where the clock does (`TickAges`). With that each
conjunct follows action by action (`StepsPreserved`, `TypesPreserved`,
`ClockPreserved`, `NoPulsePreserved`, `PulsesPreserved`), and `NextIInv` puts
them together.

### DSM501: the ring

`SumOf` is a recursive function, and what it gives is proved by induction:
`SetInduction` (a set that holds 0 and with each number the next holds them all)
is a first-order statement and follows from the well-foundedness of `<` on the
naturals, so no step needs an induction principle with an operator parameter.
`SumsExist` and `SumIs` show that the recursion has a value, `SumOfAppend` and
`SumOfTail` how it changes, `SumBounded` how large it gets.

`RingInv` is `IInv` with, per channel, `RingHolds`: entries not yet used are 0
(so that the driver, which subtracts what it overwrites also on the first
round, subtracts nothing), the running sum is the sum of the closed windows that
the index says are there, no entry is larger than a window can be; and
`ReadInTime`, that the reads of the loop begin with the resets that end warm-up,
without which a window's length would not be bounded. `CloseShifts` shows that
closing a window drops the oldest entry and appends the new one, in all three
positions of the index: before the ring is full, at the fold, and going round.
`SumFollows` shows that the sum, computed in the clock's word, follows: this is
where `FullRingFits` is needed, since the unsigned subtraction and addition would
otherwise wrap to a sum that is right and a quotient that is not.

### AqiCurve

The curve is monotone although neither line of Horner's rule is. Below 8.662 %
the middle line falls, but by no more than 3 a step while it is at least 79000
(`BRises`); above, both rise; two far ratios are compared by way of 10 %
(`CurveRises`). The bands meet in their bases (`AqiWithin`), so the index rises
across every edge (`AqiRises`). The theorem is about the integers of the model,
with their rounding down; what a `double` rounds is below them.

`MinusOneMeans` says when there is no number at all. Its cases are finding 4.1 in
general: every weight difference but a negative one and those above 15.4 and up to
15.5 lies in a band, in the first or above the last (`NumberFrom0`).

The proof found an ambiguity of the model: `ParticalWeight` was a `CASE` whose
second guard also held for NAN. TLC takes the first; the definition now says so.

### Display

`FieldsFit`, that no shown field takes a third digit, holds of any register
contents (`ParsedFits`) and gives `LineFits`. `ChipAgrees` ties the driver's
fields to the chip's registers and those to what was asked; `WrittenReturns`
shows that masks and packings undo each other on every legal date.

`ReportRowShown` says of the air row what is true of it for all widths: the
readings are those of the last report, and only the last two columns may be of an
earlier text. That the whole row is of the last report needs two characters for
each reading; 4.5 shows what happens otherwise.

### AirQ

`TimersAssumption` asks that the intervals are shorter than warm-up and that
warm-up and three passes are shorter than the clock's period. It used to ask for
two passes. The proof did not go through with it, and rightly: `lcd_lu_time` and
`lcd_lu_aqdat` are 0 until the first pass of `loop` sets them, and that pass
compares them with a clock that has gone through warm-up, a last pass of warm-up,
one more until the watchdog would bite, and its own. Were it to wrap there, the
first refresh would come an interval late. On the device the sum is far below
49.7 days; `loop_watchdog` has a clock of 17 ticks for it.

`IInv` relates each of the clocks that the program does not have to the timer it
is compared with, in the clock's arithmetic: `ClockLine` and `AirData` say that a
timer is at most its interval and two passes old (one, once the statement that
tests it has run) and what it times no older than that, or that the program is
still in its first pass (`FirstPass`). `PassFed` bounds a pass by the watchdog's
timeout, `WarmUpClock` the clock in warm-up, `NowOfPass` the age of `now`.

### UsbDriver

`IInv` says what `usbPoll`, cut into its steps, and the interrupt routine leave
for each other.

* `PollConsistent`: what each step of `usbPoll` may rely on although packets
  arrive between them. `RxStable` follows from it: the routine stores only when
  `usbRxLen` is 0, and it is not 0 from storing to release.
* `TokenHeard`: a data packet is never taken for that of another token.
* `WriteInPlace`: a stored data packet goes where its bytes belong even when the
  host gives up before `usbPoll` has processed it. This is what `ReportMatches`
  needs.
* `AddressPrepared`: the new address is prepared only while its own host waits
  for the status stage, and a bus reset takes back first the prepared and then
  the used one. Strengthens `AddressAgrees`.
* `StageOfRequest`, `ReadServed`, `ReadBlock`, `Delivered`: how far a reply has
  been put into blocks, where the host is, and that a block that is ready goes on
  where the host stopped, under the data token it expects. `RepliesInOrder` and
  `RepliesComplete` follow.
* `WriteServed`: the bytes counted by the host are in the EEPROM or in the stored
  packet, and the confirmation is built only behind the last one.
* `PatientHost`: a host that finishes finds the receive buffer free when it
  begins; `SetupNeverRefused` follows.

`AnswerOnItsWay` is what `TransfersEnd` rests on, without its fairness: in every
state in which the host waits for the device, the answer is built, or `usbPoll`
has the packet or the message that leads to it. It follows from `ReadServed` and
`WriteServed` and, for the packets of the host, from `Listens`: the token last
heard is the one of the stage. It is claimed of hosts that give up, too.

`DriverImplementsPipe` maps each step: `ProcessSetup` and the blocks to
stutters; a SETUP sent to `Begin`, a block received to `Deliver`, a packet of a
report processed to `Store`, the end of the status stage to `Finish`, and a bus
reset to `Reset`.

### UsbSession

`DeviceFollows`, that a running device has what the host gave it in this
enumeration, is `SessionAgrees` made inductive. What could break it is a request
of before a restart that is processed after it: `RequestStored` says that what
the buffer holds while the host waits is the host's own request, `RequestDone`
that a prepared reply belongs to it and came with its effect. The lemma that
carries the proof is `ConnectsUnnoticed`: the faked disconnect of `begin` cannot
end before the host has noticed it, for every countdown longer than the time to
notice, so a restarted device never meets a host that believes it configured.
`RepliesSuffice` uses the real tables: the host computes with bytes of replies
that are long enough to have them. `SessionAssumption` says that a host asks for
at least 8 bytes first, and for no part of the configuration shorter than the
whole.

`Recovers` is liveness and beyond the prover, but what could defeat it is an
order of steps that goes round: a device that is given an address again and
again, a host that resets and is never in step. `EveryStepCloser` excludes that,
and is an action property. `Distance` bounds the steps that are left; it is large
while the device hangs or starts, and on the bus it depends on whether device and host are
in step (`InStep`). If they are, every request leads on (`AskIsCloser`,
`PollIsCloser`, `FinishIsCloser`); if they are not, either the address happens to
fit and the enumeration goes on, or the host resets (`ResetIsCloser`). A reset
that the device saw must leave them in step (`EndResetIsCloser`), which needs
`ResetClears`: a host that resets is back at address 0, and a device that saw it
has no request stored and neither address. This needs no fairness; what is left
to `Recovers` and TLC is that a step is always taken until the device is
configured.

### UsbSession: descriptors

`DescriptorsAgree` speaks of what the host got, so it is first shown that this is
what the source says: `KnownExact`. Each reply is cut at the length of its
request, which the host computes from replies before it; those are exact, so the
length is enough (`TurnExact`, `EnoughAsked`). After that `DescriptorsAgree` is
about the tables. `Starts` is a recursive function of the places in a table; that
it has a value is proved by induction from the table's end (`WalkExists`, with
`SetInduction`), and its steps then give the places one by one: the parts of the
configuration at 1, 10, 19 and 28 (`PartsOfConfiguration`), and the items of the
report descriptor (`ItemsOfReport`). `UsbDescriptors` counts the characters of
the two names; an earlier form of it assumed something about their number.

### Only model-checked

* Liveness, which the prover cannot do: `TransfersEnd`, `Recovers`,
  `ClockKeepsShowing`, `AirDataKeepsShowing`. `LogsIfPossible` and the other
  properties that fail are shown by their counterexamples.
* `CoeffOnlyDamps`: it holds of the reals with no slack and of the model's
  rounding with one unit on the run's grid; for the largest ratios a thousandth of
  a percent weighs more than that unit, so it is not true of every constant.

## 6. Not modelled

* The bit level of USB: synchronisation, bit stuffing, cycle counts, CRC of what
  is received (the driver does not check it either). It is a matter of cycles,
  not of states.
* A noisy bus: see `UsbDriver` above.
* `usbSetInterrupt` (never called), the branches of `usbdrv.c` that
  `usbconfig.h` compiles away, and the driver for other clock rates.
* The characters of the LCD rows, of the report and of the log record: only
  which text a column is of (`Display`) and the age of the stamp
  (`LogStampFresh`).
* What a garbled date means: `Display` shows that any bytes sent with `T` are
  displayed within their columns, and the code promises nothing else.
* `debug()` code, and the libraries, whose effects are choices of the models:
  card or no card, bus answer or none, time taken.

## 7. Plan

Done: every part that is compiled in for the board is modelled and checked, and
every invariant and action property of the runs that pass, but `CoeffOnlyDamps`,
is proved.

Next, in this order:

1. A bound for `CoeffOnlyDamps` that holds of every ratio: slack in proportion to
   the weight of one step of the grid.
2. For `UsbDriver`, besides `AnswerOnItsWay`, what `EveryStepCloser` is for
   `UsbSession`. The host polls with IN packets that are refused, and `usbPoll`
   goes round when it has nothing to do, so that a count of steps left has to tell
   those rounds from progress.
3. The composition of `AirQ` and `DSM501` in one module, replacing the number
   they share by the real calls.
