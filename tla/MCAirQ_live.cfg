SPECIFICATION FairSpec
CONSTANTS
  ClockMod = 7
  lcd_tm_Intv = 1
  lcd_ad_Intv = 2
  logIntv = 3
  WarmUp = 3
  Delay = 1
  FillLen = 1
  EN_USB = FALSE
  MaxPass = 1
  WdtSpan = 1
INVARIANTS
  LogStampFresh
  ReadsKeepPace
PROPERTIES
  ClockKeepsShowing
  AirDataKeepsShowing
