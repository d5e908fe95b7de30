------------------------------- MODULE Display -------------------------------
(***************************************************************************)
(* The 16 columns of both rows of the LCD, and who writes which            *)
(* (displayTime, displaySdState and displayAirData of AirQ.cpp), beside    *)
(* the clock chip driver that fills the first row's text.                  *)
(*                                                                         *)
(* The program never clears the LCD: a text is printed over the one before *)
(* and what it does not reach stays.  A column is blank, fresh (of the     *)
(* row's last text) or stale (of an earlier one).  The LCD is external: it *)
(* keeps what is printed and shows the first 16 columns.                   *)
(***************************************************************************)
EXTENDS DS1307, FiniteSets

CONSTANT Widths  \* characters that a temperature or a humidity may take

ASSUME WidthsAssumption == Widths \subseteq 1 .. 3

Column == 1 .. 16

VARIABLES
  row1, row2,
  printed   \* the widths of the readings in the second row, <<>> before any

display == <<row1, row2, printed>>
dvars   == <<vars, display>>

\* A text of n characters from the first column on.
Overwrite(row, n) ==
  [c \in Column |-> CASE c <= n -> "fresh"
                      [] c > n /\ row[c] = "blank" -> "blank"
                      [] OTHER -> "stale"]

-----------------------------------------------------------------------------
\* "%02d" has two characters or more.
Digits(n) == IF n < 100 THEN 2 ELSE 3

\* "%02d/%02d %02d:%02d:%02d%s" of makeStr.
LineLen(f, m) ==
  Digits(f.month) + 1 + Digits(f.day) + 1 + Digits(f.hour) + 1 + Digits(f.min) + 1
    + Digits(f.sec) + (IF m = "M_24" THEN 0 ELSE 1)

\* "T:%sC " and "H:%s%% " with the readings, and "%4d" with the index.
AqiWidthNarrow == 3 \* mutant
AqiWidth == 4
ReportLen(wt, wh) == (2 + wt + 2) + (2 + wh + 2) + AqiWidth

\* displaySdState: '*' or a blank in the last column.
WithSdState(row) == [row EXCEPT ![16] = "fresh"]

\* setup() leaves "Initializing..." in the second row.
DisplayInit ==
  /\ Init
  /\ row1 = [c \in Column |-> "blank"]
  /\ row2 = Overwrite(row1, 15)
  /\ printed = <<>>

\* lcd_ref_line(1): the time, then the SD mark.
ShowTime ==
  /\ UpdateDateTime
  /\ row1' = WithSdState(Overwrite(row1, LineLen(field', mode')))
  /\ UNCHANGED <<row2, printed>>

\* lcd_ref_line(2).
ShowAirData(wt, wh) ==
  /\ row2' = Overwrite(row2, ReportLen(wt, wh))
  /\ printed' = <<wt, wh>>
  /\ UNCHANGED <<vars, row1>>

\* The serial commands 'r' and 'T' use the clock's line and not the LCD.
SerialReport == UpdateDateTime /\ UNCHANGED display

SerialSetTime ==
  /\ \/ \E t \in Asked : SetDateTimeBCD(t)
     \/ \E r \in Garbled : SetGarbled(r)
  /\ UNCHANGED display

DisplayNext ==
  \/ ShowTime
  \/ \E wt \in Widths, wh \in Widths : ShowAirData(wt, wh)
  \/ SerialReport
  \/ SerialSetTime

DisplaySpec == DisplayInit /\ [][DisplayNext]_dvars

-----------------------------------------------------------------------------
(* Properties. *)

\* The clock's line keeps off the SD mark in the last column, whatever the bus
\* delivers and whatever bytes came with a 'T': no number takes a third digit.
LineFits == LineLen(field, mode) < 16

StaleColumns(row) == {c \in Column : row[c] = "stale"}

\* The readings in the second row are always those of the last report, and only
\* its last two columns can be of an earlier text.  When both readings take two
\* characters the whole row is of the last report and its index is not cut off.
\* Otherwise old digits may stay behind the index, see SomeRowCurrent.
ReportRowCurrent ==
  printed # <<>> =>
    LET wt == printed[1]
        wh == printed[2]
    IN  /\ StaleColumns(row2) \subseteq 15 .. 16
        /\ \A c \in 1 .. 8 + wt + wh : row2[c] = "fresh"
        /\ wt = 2 /\ wh = 2 => StaleColumns(row2) = {} /\ row2[16] = "fresh"

\* "Update LCD every seconds" (AirQ.cpp:336): a refreshed row should have nothing
\* of an earlier text.  Neither row keeps to it: not even this holds, that at any
\* moment one of them does.  The last column of the second row is only an index's;
\* a digit that stays there is read as one of the new index.
SomeRowCurrent == StaleColumns(row1) = {} \/ row2[16] # "stale"

=============================================================================
