------------------------------- MODULE DS1307 -------------------------------
(***************************************************************************)
(* The clock chip driver (DS1307.cpp) and the date and time that the       *)
(* serial 'T' command hands it (AirQ.cpp).                                 *)
(*                                                                         *)
(* The chip is external: seven registers that keep the bytes written to    *)
(* them (its counting is left out, so what is shown after a set can be     *)
(* compared with what was asked).  A transfer over the bus may fail: then  *)
(* nothing is written, or every byte read is 0xFF (Wire.read() is -1).     *)
(***************************************************************************)
EXTENDS Integers

CONSTANTS
  Years, Months, Days, Hours, Minutes, Seconds   \* what the host may ask for

Shown == {"sec", "min", "hour", "day", "month"}  \* what makeStr prints
Field == Shown \cup {"dow", "year"}
Byte  == 0 .. 255
Asked == [year : Years, month : Months, day : Days, hour : Hours, min : Minutes,
          sec : Seconds]

ASSUME AskedAssumption ==
  /\ Years \subseteq 0 .. 99 /\ Months \subseteq 1 .. 12 /\ Days \subseteq 1 .. 31
  /\ Hours \subseteq 0 .. 23 /\ Minutes \subseteq 0 .. 59 /\ Seconds \subseteq 0 .. 59

VARIABLES
  reg,     \* the chip's registers
  field,   \* the driver's public fields
  mode,    \* m: "M_24", "M_AM" or "M_PM"
  asked,   \* the last date and time the chip took, {} before any (history variable)
  synced   \* the fields were read from the chip after that (history variable)

vars == <<reg, field, mode, asked, synced>>

-----------------------------------------------------------------------------
(* Conversions.  The masks of the code are all runs of low bits, taken with  *)
(* % and \div; BCD_Byte keeps the ones digit and the masked tens digit.      *)

\* SerBcdParseByte of the two digits of n.
Bcd(n) == (n \div 10) * 16 + (n % 10)

Tens(b) == b \div 16
BCD_Byte(b, tens) == (b % 16) + 10 * tens

IS_24H(b) == (b \div 64) % 2 = 1
IS_PM(b)  == (b \div 32) % 2 = 1

\* Mask 0x2 keeps the twenties' bit only, mask 0x1 the tens' bit only.
HourTens(b) == IF IS_24H(b) THEN 2 * ((b \div 32) % 2) ELSE (b \div 16) % 2

\* The tens digit of seconds and minutes, mask 0x7.
SixtyTensUnmasked(b) == Tens(b) \* mutant
SixtyTens(b) == Tens(b) % 8

Parsed(r) ==
  [ sec   |-> BCD_Byte(r.sec, SixtyTens(r.sec)),
    min   |-> BCD_Byte(r.min, SixtyTens(r.min)),
    hour  |-> BCD_Byte(r.hour, HourTens(r.hour)),
    dow   |-> r.dow % 8,
    day   |-> BCD_Byte(r.day, Tens(r.day) % 4),
    month |-> BCD_Byte(r.month, Tens(r.month) % 2),
    year  |-> BCD_Byte(r.year, Tens(r.year)) ]

ModeOf(h) == IF IS_24H(h) THEN "M_24" ELSE IF IS_PM(h) THEN "M_PM" ELSE "M_AM"

\* Seconds and minutes are written under mask 0x7f.
SixtyByteNarrow(n) == Bcd(n) % 64 \* mutant
SixtyByte(n) == Bcd(n) % 128

\* The seven bytes setDateTimeBCD sends; bit 6 of the hour is "set 24h".
Written(t) ==
  [ year |-> Bcd(t.year) % 128, month |-> Bcd(t.month) % 32, day |-> Bcd(t.day) % 64,
    hour |-> (Bcd(t.hour) % 64) + 64,  min |-> SixtyByte(t.min), sec |-> SixtyByte(t.sec),
    dow |-> 0 ]

NoAnswer == [f \in Field |-> 255]

-----------------------------------------------------------------------------
\* A chip that was never set, or that another program set, holds any bytes:
\* valid ones, digits above 9, all ones; in every mode.
Init ==
  /\ reg \in { [f \in Field |-> IF f = "hour" THEN h ELSE b] :
                 h \in {1, 33, 65, 255}, b \in {1, 153, 250, 255} }
  /\ field = [f \in Field |-> 0]
  /\ mode = "M_AM"
  /\ asked = {}
  /\ synced = FALSE

\* readRawData and parseData: all seven bytes in one request.
Update(r) ==
  \/ /\ field' = Parsed(r)
     /\ mode' = ModeOf(r.hour)
     /\ synced' = TRUE
  \/ /\ field' = Parsed(NoAnswer)
     /\ mode' = ModeOf(NoAnswer.hour)
     /\ synced' = FALSE

\* updateDateTime, as makeStr calls it.
UpdateDateTime ==
  /\ Update(reg)
  /\ UNCHANGED <<reg, asked>>

\* setDateTimeBCD: nobody looks whether the write succeeded.
SetDateTimeBCD(t) ==
  \/ /\ reg' = Written(t)
     /\ asked' = {t}
     /\ Update(Written(t))
  \/ /\ UNCHANGED <<reg, asked>>
     /\ Update(reg)

\* Twelve bytes that are no digits: SerBcdParseByte of any two bytes may be any
\* number, and the masks leave anything that fits them.
Garbled ==
  [year : {127}, month : {0, 31}, day : {63}, hour : {64, 127}, min : {0, 127}, sec : {127},
   dow : {0}]

\* The same call with what such bytes make: nobody asked for this date.
SetGarbled(r) ==
  \/ /\ reg' = r
     /\ asked' = {}
     /\ Update(r)
  \/ /\ UNCHANGED <<reg, asked>>
     /\ Update(reg)

Next ==
  \/ UpdateDateTime
  \/ \E t \in Asked : SetDateTimeBCD(t)
  \/ \E r \in Garbled : SetGarbled(r)

Spec == Init /\ [][Next]_vars

-----------------------------------------------------------------------------
(* Properties. *)

\* What is shown is what was asked for, through six masks, two packings and
\* the chip: minutes, seconds, day and month.
DateRoundTrip ==
  synced => \A t \in asked, f \in Shown \ {"hour"} : field[f] = t[f]

\* setDateTimeBCD says "set 24h" (DS1307.cpp:31): the hour of a 24 hour time
\* should come back too.
HourRoundTrip ==
  synced => \A t \in asked : mode = "M_24" /\ field.hour = t.hour

=============================================================================
