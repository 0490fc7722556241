SPECIFICATION FairSpec
CONSTANTS
  t1 = t1
  t2 = t2
  Thread = {t1, t2}
  NoThread = NoThread
  NoCall = NoCall
  NoDump = NoDump
  Torn = Torn
  NoTime = NoTime
  NoAck = NoAck
  Record <- MCRecord
  Schema <- MCSchema
  Key <- MCKey
  Time <- MCTime
  Request <- MCRequest

INVARIANTS
  TypeOK
  IndexesMatchLog
  EveryCopyLoads
  HeldWatermarkStays
PROPERTIES
  ImplementsLedger
  AppendsReturn
