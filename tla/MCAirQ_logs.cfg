SPECIFICATION FairSpec
CONSTANTS
  ClockMod = 6
  lcd_tm_Intv = 1
  lcd_ad_Intv = 1
  logIntv = 1
  WarmUp = 2
  Delay = 1
  FillLen = 1
  EN_USB = FALSE
  MaxPass = 1
  WdtSpan = 1
PROPERTIES
  LogsIfPossible
