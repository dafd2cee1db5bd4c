SPECIFICATION FairSpec
CONSTANTS
  Programs <- AllPrograms
  Operands = {0, 15, 55, 128, 217}
INVARIANTS StackIsKept ArithmeticIsRight DecimalIsRight
PROPERTIES ServedInTurn HaltEnds
