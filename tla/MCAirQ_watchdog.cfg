SPECIFICATION Spec
CONSTANTS
  ClockMod = 17
  lcd_tm_Intv = 1
  lcd_ad_Intv = 2
  logIntv = 3
  WarmUp = 4
  Delay = 1
  FillLen = 1
  EN_USB = TRUE
  MaxPass = 2
  WdtSpan = 2
INVARIANTS
  TypeOK
  LogStampFresh
  ReadsKeepPace
