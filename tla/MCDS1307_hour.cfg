SPECIFICATION Spec
CONSTANTS
  Years = {13}
  Months = {5}
  Days = {9}
  Hours = {0, 1, 2, 3, 4, 5, 6, 7, 8, 9, 10, 11, 12, 13, 14, 15, 16, 17, 18, 19, 20, 21, 22, 23}
  Minutes = {0, 59}
  Seconds = {0, 59}
INVARIANTS
  HourRoundTrip
