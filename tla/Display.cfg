\* Dates with the smallest and the largest digits of each field that is shown.
SPECIFICATION DisplaySpec
CONSTANTS
  Years = {13}
  Months = {9, 12}
  Days = {1, 9, 20, 31}
  Hours = {8, 23}
  Minutes = {0, 7, 48, 59}
  Seconds = {0, 59}
  Widths = {1, 2, 3}
INVARIANTS
  DateRoundTrip
  LineFits
  ReportRowCurrent
