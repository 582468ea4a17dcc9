SPECIFICATION FlexcommSpec
CONSTANTS
  Depth = 2
  MaxBytes = 2
  MaxFrames = 1
  MaxAsk = 1
  CtrlIn <- MCCtrl
  SpiIerIn <- MCSpiIer
  MierIn <- MCMier
INVARIANTS NeverOverruns
