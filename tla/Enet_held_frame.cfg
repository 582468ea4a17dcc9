SPECIFICATION EnetSpec
CONSTANTS
  RxLen = 2
  TxLen = 3
  RingGuard = 3
  FrameMax = 2
  MaxFrames = 2
  MacIn <- MCMac
  IntIn <- MCInt
PROPERTIES HeldIsDelivered
