CONSTANTS
  None = None
  NsPerSec = 3
  MaxLate = 2
  MaxAge = 10
  Match <- MCMatch
  CtWrap = 4
  FreqIn = {0, 1, 2}
  PrIn = {0, 1}
  MrIn = {1, 2}
  McrIn <- MCMcrIn
  Channel = {0, 1}
  BusHz = 2
  BusHzIn = {1, 2}
  IntvalIn = {1, 2}
  HalfBits = 2
  HighBits = 1
  LptWrap = 8
  SourceHz <- MCSourceHz
  DivIn = {2, 4}
  CmrIn = {0, 1, 2}
SPECIFICATION Spec
PROPERTIES
  CtimerKeepsTime
  MrtKeepsTime
  OstimerKeepsTime
  LptmrKeepsTime
