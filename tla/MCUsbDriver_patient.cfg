\* A host that finishes every transfer it begins.
CONSTANTS
  PacketSize = 2
  ReportLen = 4
  DescrLen = 3
  NoMsg = 7
  Versions = {1, 2}
  Addrs = {5}
  ReadLens = {1, 3, 4, 5}
  WriteLens = {4}
  DescrLens = {1, 3, 6}
  RamReads = {"GET_STATUS", "GET_CONFIGURATION", "GET_INTERFACE"}
  RamLens = {1, 2}
  Patient = TRUE
SPECIFICATION FairSpec
INVARIANT SetupNeverRefused
PROPERTIES TransfersEnd ImplementsControlPipe
