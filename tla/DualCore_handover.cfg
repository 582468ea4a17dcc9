SPECIFICATION FairDualSpec
CONSTANTS
  core0 = core0
  Cpu1 = core1
  ping = ping
  pong = pong
  Core <- MCCore
  Msg <- MCMsg
  NoOwner = NoOwner
  v1 = v1
  Vtor <- MCVtor
  NoVtor = NoVtor
  MaxBhs = 2
  CtrlIn <- MCCtrlIn
  Program <- MCProgram
    
PROPERTIES ReleaseBoots 
