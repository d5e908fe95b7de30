\* Both hour modes, and readings of one and of two characters.
SPECIFICATION DisplaySpec
CONSTANTS
  Years = {13}
  Months = {9}
  Days = {31}
  Hours = {8, 23}
  Minutes = {0, 59}
  Seconds = {0, 59}
  Widths = {1, 2}
INVARIANTS
  SomeRowCurrent
