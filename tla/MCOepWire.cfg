SPECIFICATION Spec
CONSTANTS
  Width = 4
  Numbers <- MCNumbers
INVARIANTS
  TypeOK
  CommandKept
  
CHECK_DEADLOCK FALSE
