SPECIFICATION SerialSpec
CONSTANTS
  Depth = 2
  MaxBytes = 3
  MaxFrames = 2
  MaxAsk = 2
  CtrlIn <- MCCtrl
  SpiIerIn <- MCSpiIer
  MierIn <- MCMier
  SaiDepth = 2
  MaxWords = 3
  Loopback = TRUE
  SaiIeIn <- MCSaiIe
  RxLen = 2
  TxLen = 3
  RingGuard = 3
  FrameMax = 2
  MaxEthFrames = 2
  MacIn <- MCMac
  IntIn <- MCInt
INVARIANTS BytesInOrder OnlyLateEnableStalls  OneTransaction AskedIsOffered SaiInOrder EnetFramesWhole
PROPERTIES OnlyShrinkingOverruns BytesArrive SaiWordsLeave EnetOnlyEarlyFlushDrops EnetOnlyLateStartStalls
