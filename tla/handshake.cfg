SPECIFICATION FairSpec
CONSTANTS
  Methods = {"GetIFVersion", "GetDeviceInfo"}
  Numbers = {0, 1, 10, 32, 64, 100, 10001}
  Spellings = {}
  U32 = 100
  I63 = 100
  Documents <- MCDocuments
INVARIANTS
  TypeOK
  HandsOverQuiet
  NoXmlOnHd2020
  RequestsIdentified
PROPERTIES
  ConnectEnds
CHECK_DEADLOCK FALSE
