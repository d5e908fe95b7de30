\* One channel sees pulses, the other does not; three windows in the ring.
SPECIFICATION Spec
CONSTANTS
  ClockMod = 10
  MIN_SIG_SPAN = 1
  MAX_SIG_SPAN = 1
  MIN_WIN_SPAN = 2
  SAF_WIN_MAX = 3
  WarmUp = 2
  MaxReadGap = 1
  Noisy = {0}
  Coeffs = {1}
INVARIANTS
  TypeOK
  LowTimeBounded
  WindowsTurnOver
  WrapOutageBounded
PROPERTIES
  ImplementsSlidingMean
