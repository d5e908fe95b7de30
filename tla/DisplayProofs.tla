---------------------------- MODULE DisplayProofs ----------------------------
(***************************************************************************)
(* Proofs about the rows of the LCD and the date that the clock chip gives *)
(* back, for every date and time that the host may ask for and every width *)
(* of a reading.                                                           *)
(***************************************************************************)
EXTENDS Display, TLAPS

-----------------------------------------------------------------------------
(* The parts of the inductive invariant. *)

\* Registers are bytes, and a column is blank, fresh or stale.
Types ==
  /\ reg \in [Field -> Byte]
  /\ DOMAIN field = Field
  /\ mode \in {"M_24", "M_AM", "M_PM"}
  /\ asked \in SUBSET Asked
  /\ synced \in BOOLEAN
  /\ row1 \in [Column -> {"blank", "fresh", "stale"}]
  /\ row2 \in [Column -> {"blank", "fresh", "stale"}]
  /\ printed = <<>> \/ printed \in Widths \X Widths

\* No number of the shown date takes a third digit.
FieldsFit == \A f \in Shown : field[f] \in 0 .. 99

\* What was read is what the chip holds, and the chip holds what was asked.
ChipAgrees ==
  /\ synced => field = Parsed(reg)
  /\ \A t \in asked : reg = Written(t)

IInv == Types /\ FieldsFit /\ ChipAgrees /\ ReportRowCurrent

-----------------------------------------------------------------------------
(* Lemmas about the conversions. *)

\* A masked tens digit and any low four bits make a number of two digits.
LEMMA ParsedFits ==
  ASSUME NEW r \in [Field -> Byte]
  PROVE  /\ DOMAIN Parsed(r) = Field
         /\ \A f \in Shown : Parsed(r)[f] \in 0 .. 99
<1>1. \A f \in Field : r[f] \in Byte
  OBVIOUS
<1>2. \A b \in Byte, k \in 0 .. 7 : BCD_Byte(b, k) \in 0 .. 99
  BY DEF Byte, BCD_Byte
<1>3. \A b \in Byte : /\ SixtyTens(b) \in 0 .. 7
                      /\ Tens(b) % 4 \in 0 .. 7
                      /\ Tens(b) % 2 \in 0 .. 7
  BY DEF Byte, SixtyTens, Tens
<1>4. \A b \in Byte : HourTens(b) \in 0 .. 7
  BY DEF Byte, HourTens
<1>5. DOMAIN Parsed(r) = Field
  BY DEF Parsed, Field, Shown
<1>6. /\ Parsed(r)["sec"] \in 0 .. 99
      /\ Parsed(r)["min"] \in 0 .. 99
      /\ Parsed(r)["hour"] \in 0 .. 99
      /\ Parsed(r)["day"] \in 0 .. 99
      /\ Parsed(r)["month"] \in 0 .. 99
  BY <1>1, <1>2, <1>3, <1>4 DEF Parsed, Field, Shown
<1> QED
  BY <1>5, <1>6 DEF Shown

\* The two packings undo each other on a number below 80 that fits the masks.
LEMMA DigitsReturn ==
  /\ \A n \in 0 .. 59 : LET b == SixtyByte(n) IN BCD_Byte(b, SixtyTens(b)) = n
  /\ \A n \in 1 .. 31 : LET b == Bcd(n) % 64 IN BCD_Byte(b, Tens(b) % 4) = n
  /\ \A n \in 1 .. 12 : LET b == Bcd(n) % 32 IN BCD_Byte(b, Tens(b) % 2) = n
<1>1. \A n \in 0 .. 59 : LET b == SixtyByte(n) IN BCD_Byte(b, SixtyTens(b)) = n
  BY DEF SixtyByte, Bcd, BCD_Byte, SixtyTens, Tens
<1>2. \A n \in 1 .. 31 : LET b == Bcd(n) % 64 IN BCD_Byte(b, Tens(b) % 4) = n
  BY DEF Bcd, BCD_Byte, Tens
<1>3. \A n \in 1 .. 12 : LET b == Bcd(n) % 32 IN BCD_Byte(b, Tens(b) % 2) = n
  BY DEF Bcd, BCD_Byte, Tens
<1> QED
  BY <1>1, <1>2, <1>3

\* The seven bytes that setDateTimeBCD sends are bytes, and all of the date but
\* the hour is parsed out of them again.
LEMMA WrittenReturns ==
  ASSUME NEW t \in Asked
  PROVE  /\ Written(t) \in [Field -> Byte]
         /\ \A f \in Shown \ {"hour"} : Parsed(Written(t))[f] = t[f]
<1>1. /\ t.year \in 0 .. 99 /\ t.month \in 1 .. 12 /\ t.day \in 1 .. 31
      /\ t.hour \in 0 .. 23 /\ t.min \in 0 .. 59 /\ t.sec \in 0 .. 59
  BY AskedAssumption DEF Asked
<1>2. \A n \in 0 .. 99 : /\ Bcd(n) % 128 \in Byte /\ (Bcd(n) % 64) + 64 \in Byte
                         /\ Bcd(n) % 32 \in Byte /\ Bcd(n) % 64 \in Byte
                         /\ SixtyByte(n) \in Byte
  BY DEF Bcd, Byte, SixtyByte
<1>3. Written(t) \in [Field -> Byte]
  <2>1. /\ (Bcd(t.year) % 128) \in Byte /\ (Bcd(t.month) % 32) \in Byte
        /\ (Bcd(t.day) % 64) \in Byte /\ ((Bcd(t.hour) % 64) + 64) \in Byte
        /\ SixtyByte(t.min) \in Byte /\ SixtyByte(t.sec) \in Byte /\ 0 \in Byte
    <3>1. /\ t.year \in 0 .. 99 /\ t.month \in 0 .. 99 /\ t.day \in 0 .. 99
          /\ t.hour \in 0 .. 99 /\ t.min \in 0 .. 99 /\ t.sec \in 0 .. 99
      BY <1>1
    <3>2. 0 \in Byte
      BY DEF Byte
    <3> QED
      BY <1>2, <3>1, <3>2, Zenon
  <2> QED
    BY <2>1 DEF Written, Field, Shown
<1>4. /\ Parsed(Written(t))["sec"] = t.sec
      /\ Parsed(Written(t))["min"] = t.min
      /\ Parsed(Written(t))["day"] = t.day
      /\ Parsed(Written(t))["month"] = t.month
  BY <1>1, DigitsReturn DEF Parsed, Written
<1> QED
  BY <1>3, <1>4 DEF Shown

\* What the driver reads when the chip does not answer is bytes too.
LEMMA NoAnswerIsBytes == NoAnswer \in [Field -> Byte]
BY DEF NoAnswer, Byte

\* And so is what twelve bytes that are no digits make.
LEMMA GarbledIsBytes == \A r \in Garbled : r \in [Field -> Byte]
BY DEF Garbled, Field, Shown, Byte

\* The mode is one of the three.
LEMMA ModeTypes == \A h : ModeOf(h) \in {"M_24", "M_AM", "M_PM"}
BY DEF ModeOf

\* A text of n characters makes the first n columns fresh, and all 16 if it is
\* that long.
LEMMA OverwriteRow ==
  ASSUME NEW row \in [Column -> {"blank", "fresh", "stale"}], NEW n \in Nat
  PROVE  /\ Overwrite(row, n) \in [Column -> {"blank", "fresh", "stale"}]
         /\ \A c \in Column : c <= n => Overwrite(row, n)[c] = "fresh"
BY DEF Overwrite, Column

-----------------------------------------------------------------------------
(* The invariant is inductive. *)

\* A read leaves fields of two digits, and synced only if they are the chip's.
LEMMA UpdateReads ==
  ASSUME Types, NEW r \in [Field -> Byte], Update(r), reg' = r
  PROVE  /\ DOMAIN field' = Field
         /\ mode' \in {"M_24", "M_AM", "M_PM"}
         /\ synced' \in BOOLEAN
         /\ FieldsFit'
         /\ synced' => field' = Parsed(reg')
<1>1. CASE field' = Parsed(r) /\ mode' = ModeOf(r.hour) /\ synced' = TRUE
  BY <1>1, ParsedFits, ModeTypes DEF FieldsFit
<1>2. CASE /\ field' = Parsed(NoAnswer)
           /\ mode' = ModeOf(NoAnswer.hour)
           /\ synced' = FALSE
  BY <1>2, ParsedFits, NoAnswerIsBytes, ModeTypes DEF FieldsFit
<1> QED
  BY <1>1, <1>2 DEF Update

\* The state that the chip and the driver start from.
LEMMA InitInv == DisplayInit => IInv
<1>1. SUFFICES ASSUME DisplayInit PROVE IInv
  OBVIOUS
<1>2. reg \in [Field -> Byte]
  <2>1. PICK h \in {1, 33, 65, 255}, b \in {1, 153, 250, 255} :
          reg = [f \in Field |-> IF f = "hour" THEN h ELSE b]
    BY <1>1 DEF DisplayInit, Init
  <2>2. h \in Byte /\ b \in Byte
    BY DEF Byte
  <2> QED
    BY <2>1, <2>2
<1>3. /\ DOMAIN field = Field
      /\ FieldsFit
  BY <1>1 DEF DisplayInit, Init, FieldsFit, Field
<1>4. row1 \in [Column -> {"blank", "fresh", "stale"}]
  BY <1>1 DEF DisplayInit
<1>5. row2 \in [Column -> {"blank", "fresh", "stale"}]
  BY <1>1, <1>4, OverwriteRow DEF DisplayInit
<1> QED
  BY <1>1, <1>2, <1>3, <1>4, <1>5
     DEF IInv, Types, ChipAgrees, ReportRowCurrent, DisplayInit, Init

\* The rows do not change when a serial command uses the clock.
LEMMA RowsStay ==
  ASSUME IInv, UNCHANGED display
  PROVE  /\ ReportRowCurrent'
         /\ row1' \in [Column -> {"blank", "fresh", "stale"}]
         /\ row2' \in [Column -> {"blank", "fresh", "stale"}]
         /\ printed' = <<>> \/ printed' \in Widths \X Widths
BY DEF IInv, Types, display, ReportRowCurrent, StaleColumns

\* A plain read of the clock keeps the date's part of the invariant.
LEMMA ReadPreserves ==
  ASSUME IInv, UpdateDateTime
  PROVE  /\ reg' \in [Field -> Byte] /\ DOMAIN field' = Field
         /\ mode' \in {"M_24", "M_AM", "M_PM"}
         /\ asked' \in SUBSET Asked /\ synced' \in BOOLEAN
         /\ FieldsFit' /\ ChipAgrees'
<1>1. /\ Types /\ reg \in [Field -> Byte] /\ Update(reg) /\ reg' = reg /\ asked' = asked
      /\ \A t \in asked : reg = Written(t)
      /\ asked \in SUBSET Asked
  BY DEF IInv, Types, UpdateDateTime, ChipAgrees
<1>2. /\ DOMAIN field' = Field /\ mode' \in {"M_24", "M_AM", "M_PM"}
      /\ synced' \in BOOLEAN /\ FieldsFit' /\ (synced' => field' = Parsed(reg'))
  BY <1>1, UpdateReads
<1> QED
  BY <1>1, <1>2 DEF ChipAgrees

\* Setting the clock does too, whether the write succeeds or not and whatever
\* the bytes were.
LEMMA SetPreserves ==
  ASSUME IInv, SerialSetTime
  PROVE  /\ reg' \in [Field -> Byte] /\ DOMAIN field' = Field
         /\ mode' \in {"M_24", "M_AM", "M_PM"}
         /\ asked' \in SUBSET Asked /\ synced' \in BOOLEAN
         /\ FieldsFit' /\ ChipAgrees'
<1>1. PICK r \in [Field -> Byte] :
        /\ reg' = r /\ Update(r) /\ asked' \in SUBSET Asked
        /\ \A t \in asked' : r = Written(t)
  <2>1. /\ reg \in [Field -> Byte] /\ asked \in SUBSET Asked
        /\ \A t \in asked : reg = Written(t)
    BY DEF IInv, Types, ChipAgrees
  <2>2. CASE UNCHANGED <<reg, asked>> /\ Update(reg)
    BY <2>1, <2>2
  <2>3. ASSUME NEW t \in Asked, SetDateTimeBCD(t), ~UNCHANGED <<reg, asked>>
        PROVE  reg' = Written(t) /\ asked' = {t} /\ Update(Written(t))
    BY <2>3 DEF SetDateTimeBCD
  <2>4. ASSUME NEW r \in Garbled, SetGarbled(r), ~UNCHANGED <<reg, asked>>
        PROVE  reg' = r /\ asked' = {} /\ Update(r)
    BY <2>4 DEF SetGarbled
  <2>5. ASSUME NEW t \in Asked, SetDateTimeBCD(t), UNCHANGED <<reg, asked>>
        PROVE  Update(reg)
    BY <2>5 DEF SetDateTimeBCD
  <2>6. ASSUME NEW r \in Garbled, SetGarbled(r), UNCHANGED <<reg, asked>>
        PROVE  Update(reg)
    BY <2>6 DEF SetGarbled
  <2>7. ASSUME NEW t \in Asked, SetDateTimeBCD(t)
        PROVE  \E r \in [Field -> Byte] :
                 /\ reg' = r /\ Update(r) /\ asked' \in SUBSET Asked
                 /\ \A u \in asked' : r = Written(u)
    BY <2>2, <2>3, <2>5, <2>7, WrittenReturns
  <2>8. ASSUME NEW g \in Garbled, SetGarbled(g)
        PROVE  \E r \in [Field -> Byte] :
                 /\ reg' = r /\ Update(r) /\ asked' \in SUBSET Asked
                 /\ \A u \in asked' : r = Written(u)
    BY <2>2, <2>4, <2>6, <2>8, GarbledIsBytes
  <2> QED
    BY <2>7, <2>8 DEF SerialSetTime
<1>2. /\ DOMAIN field' = Field /\ mode' \in {"M_24", "M_AM", "M_PM"}
      /\ synced' \in BOOLEAN /\ FieldsFit' /\ (synced' => field' = Parsed(reg'))
  BY <1>1, UpdateReads DEF IInv
<1> QED
  BY <1>1, <1>2 DEF ChipAgrees

\* No number of the line takes a third digit, so it has 14 or 15 characters.
LEMMA LineLength == FieldsFit => LineLen(field, mode) \in 14 .. 15
<1>1. SUFFICES ASSUME FieldsFit PROVE LineLen(field, mode) \in 14 .. 15
  OBVIOUS
<1>2. \A n \in 0 .. 99 : Digits(n) = 2
  BY DEF Digits
<1>3. /\ Digits(field.month) = 2 /\ Digits(field.day) = 2 /\ Digits(field.hour) = 2
      /\ Digits(field.min) = 2 /\ Digits(field.sec) = 2
  BY <1>1, <1>2 DEF FieldsFit, Shown
<1>4. (IF mode = "M_24" THEN 0 ELSE 1) \in 0 .. 1
  OBVIOUS
<1> QED
  BY <1>3, <1>4 DEF LineLen

\* A report makes the columns fresh that its readings and its index need.
LEMMA ReportFresh ==
  ASSUME IInv, NEW wt \in Widths, NEW wh \in Widths, ShowAirData(wt, wh)
  PROVE  ReportRowCurrent' /\ row2' \in [Column -> {"blank", "fresh", "stale"}]
<1>1. wt \in 1 .. 3 /\ wh \in 1 .. 3
  BY WidthsAssumption
<1>2. /\ ReportLen(wt, wh) = 12 + wt + wh
      /\ ReportLen(wt, wh) \in Nat
  BY <1>1 DEF ReportLen, AqiWidth
<1>3. /\ row2' \in [Column -> {"blank", "fresh", "stale"}]
      /\ \A c \in Column : c <= 12 + wt + wh => row2'[c] = "fresh"
  <2>1. row2 \in [Column -> {"blank", "fresh", "stale"}]
    BY DEF IInv, Types
  <2> QED
    BY <1>2, <2>1, OverwriteRow DEF ShowAirData
<1>4. printed'[1] = wt /\ printed'[2] = wh
  BY DEF ShowAirData
<1>5. \A c \in Column : row2'[c] = "stale" => c > 12 + wt + wh
  BY <1>1, <1>3 DEF Column
<1>6. StaleColumns(row2') \subseteq 15 .. 16
  BY <1>1, <1>5 DEF StaleColumns, Column
<1>7. \A c \in 1 .. 8 + wt + wh : row2'[c] = "fresh"
  BY <1>1, <1>3 DEF Column
<1>8. wt = 2 /\ wh = 2 => StaleColumns(row2') = {} /\ row2'[16] = "fresh"
  BY <1>3, <1>5 DEF StaleColumns, Column
<1> QED
  BY <1>3, <1>4, <1>6, <1>7, <1>8 DEF ReportRowCurrent, StaleColumns

\* Every step of the rows and of the clock preserves the invariant.
LEMMA StepPreserves == IInv /\ [DisplayNext]_dvars => IInv'
<1>0. SUFFICES ASSUME IInv, [DisplayNext]_dvars PROVE IInv'
  OBVIOUS
<1>1. CASE ShowTime
  <2>1. UpdateDateTime /\ row2' = row2 /\ printed' = printed
    BY <1>1 DEF ShowTime
  <2>2. /\ reg' \in [Field -> Byte] /\ DOMAIN field' = Field
        /\ mode' \in {"M_24", "M_AM", "M_PM"}
        /\ asked' \in SUBSET Asked /\ synced' \in BOOLEAN
        /\ FieldsFit' /\ ChipAgrees'
    BY <1>0, <2>1, ReadPreserves
  <2>3. LineLen(field', mode') \in Nat
    BY <2>2 DEF LineLen, Digits
  <2>4. Overwrite(row1, LineLen(field', mode')) \in [Column -> {"blank", "fresh", "stale"}]
    BY <1>0, <2>3, OverwriteRow DEF IInv, Types
  <2>5. row1' \in [Column -> {"blank", "fresh", "stale"}]
    BY <1>1, <2>4 DEF ShowTime, WithSdState
  <2> QED
    BY <1>0, <2>1, <2>2, <2>5 DEF IInv, Types, ReportRowCurrent, StaleColumns
<1>2. ASSUME NEW wt \in Widths, NEW wh \in Widths, ShowAirData(wt, wh) PROVE IInv'
  <2>1. /\ reg' = reg /\ field' = field /\ mode' = mode /\ asked' = asked
        /\ synced' = synced /\ row1' = row1 /\ printed' = <<wt, wh>>
    BY <1>2 DEF ShowAirData, vars
  <2>2. ReportRowCurrent' /\ row2' \in [Column -> {"blank", "fresh", "stale"}]
    BY <1>0, <1>2, ReportFresh
  <2>3. FieldsFit' /\ ChipAgrees'
    BY <1>0, <2>1 DEF IInv, FieldsFit, ChipAgrees
  <2> QED
    BY <1>0, <2>1, <2>2, <2>3 DEF IInv, Types
<1>3. CASE SerialReport
  <2>1. UpdateDateTime /\ UNCHANGED display
    BY <1>3 DEF SerialReport
  <2> QED
    BY <1>0, <2>1, ReadPreserves, RowsStay DEF IInv, Types
<1>4. CASE SerialSetTime
  <2>1. UNCHANGED display
    BY <1>4 DEF SerialSetTime
  <2> QED
    BY <1>0, <1>4, <2>1, SetPreserves, RowsStay DEF IInv, Types
<1>5. CASE UNCHANGED dvars
  BY <1>0, <1>5
     DEF dvars, vars, display, IInv, Types, FieldsFit, ChipAgrees, ReportRowCurrent,
         StaleColumns
<1> QED
  BY <1>0, <1>1, <1>2, <1>3, <1>4, <1>5 DEF DisplayNext

\* The invariant holds in every state that the program reaches.
THEOREM Invariance == DisplaySpec => []IInv
<1>1. DisplayInit => IInv
  BY InitInv
<1>2. IInv /\ [DisplayNext]_dvars => IInv'
  BY StepPreserves
<1> QED
  BY <1>1, <1>2, PTL DEF DisplaySpec

-----------------------------------------------------------------------------
(* What follows from it. *)

\* makeStr's line never reaches the column of the SD mark (displayTime and
\* displaySdState), whatever the chip and the bus deliver.
THEOREM MarkNotOverwritten == DisplaySpec => []LineFits
<1>1. IInv => LineFits
  BY LineLength DEF IInv, LineFits
<1> QED
  BY <1>1, Invariance, PTL

\* The air row (genReports and displayAirData) has the readings of the last
\* report, whatever their widths, and the index too when both take two
\* characters; only its last two columns can be of an earlier text.
THEOREM ReportRowShown == DisplaySpec => []ReportRowCurrent
<1>1. IInv => ReportRowCurrent
  BY DEF IInv
<1> QED
  BY <1>1, Invariance, PTL

\* A date that the chip took and the driver read back is the date that the host
\* sent, all but the hour (setDateTimeBCD and parseData), for every legal date.
THEOREM DateComesBack == DisplaySpec => []DateRoundTrip
<1>1. IInv => DateRoundTrip
  BY WrittenReturns DEF IInv, Types, ChipAgrees, DateRoundTrip
<1> QED
  BY <1>1, Invariance, PTL

=============================================================================
