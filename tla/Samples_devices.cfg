SPECIFICATION SamplesSpec
CONSTANTS
  a = a
  b = b
  Depth = 3
  Sample <- MCSample
  NoSample = none
  IerIn <- MCIer
  AdcDepth = 2
  Trigger = {0}
  Channel = {c0}
  Value <- MCSample
  MidScale = a
  IeIn <- MCIe
  PdmDepth = 3
  ResetMark = 2
 
PROPERTIES ImplementsQueue AdcResultsKept PdmImplementsQueue
