SPECIFICATION Spec
CONSTANTS
  Space = 16
  MaxXfer = 4
  Loops = 2
  TcdIn <- MCTcdIn
INVARIANTS TypeOK MovesTheStream NeverRefusedMidway
CHECK_DEADLOCK FALSE
