\* A host that gives up on transfers and resets the bus at any time.
CONSTANTS
  PacketSize = 2
  ReportLen = 4
  DescrLen = 3
  NoMsg = 7
  Versions = {1, 2}
  Addrs = {5}
  ReadLens = {3}
  WriteLens = {4}
  DescrLens = {1}
  RamReads = {}
  RamLens = {}
  Patient = FALSE
SPECIFICATION Spec
INVARIANTS TypeOK RepliesInOrder RepliesComplete ReportMatches AddressAgrees AnswerOnItsWay
PROPERTY RxStable
