SPECIFICATION FairSpec
CONSTANTS
  NChannels = 2
  NSources = 1
  PulseSource = {}
  MaxLoops = 2
  MaxCount = 2
  BadPtr = "bad"
  TcdMem <- MCTcdMem
  CiterIn <- ReqCiter
  BiterIn <- None
  TcdCsrIn <- ReqTcdCsr
  ErrIn <- ReqErr
  AdjErrIn <- None
  SgaIn <- None
  ChCsrIn <- ReqChCsr
PROPERTIES OnlyLateArmingStalls BhTerminates ScheduledIsServed
