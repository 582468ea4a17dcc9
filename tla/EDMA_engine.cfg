SPECIFICATION LocalSpec
CONSTANTS
  NChannels = 1
  NSources = 1
  PulseSource = {1}
  MaxLoops = 2
  MaxCount = 2
  BadPtr = "bad"
  TcdMem <- MCTcdMem
  CiterIn <- SgCiter
  BiterIn <- ReqBiter
  TcdCsrIn <- SgTcdCsr
  ErrIn <- SgErr
  AdjErrIn <- SgAdjErr
  SgaIn <- SgSga
  ChCsrIn <- SgChCsr
INVARIANTS IrqFollowsInt PulseEvaporates
PROPERTIES RefusedNeverCompletes
