CONSTANTS
  WordSize = 32
  WordBits = 5
  ImmSize = 16
  TargetSize = 32
  ShamtSize = 4
  NumRegs = 3
  Link = 2
  TextSlots = 4
  DataBase = 16
  PredEntries = 8
  DmemFill = 15
  AluRes <- MCAluRes
  AluZ <- MCAluZ
  AluN <- MCAluN
  Programs <- AnyPrograms
  BootRegs <- MCBootRegs
  NegedgeOrders = {"write_first"}
SPECIFICATION Spec
INVARIANTS BtbTrained OperandsCurrent OperandsForwarded
PROPERTIES ControlFlow Progress
