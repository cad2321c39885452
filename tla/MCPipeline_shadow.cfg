CONSTANTS
  WordSize = 32
  WordBits = 5
  Imm12Size = 16
  Imm20Size = 16
  UpperUnit = 4
  NumRegs = 3
  TextBase = 16
  TextSlots = 4
  PredEntries = 8
  DmemFill = 15
  AluRes <- MCAluRes
  AluZ <- MCAluZ
  AluN <- MCAluN
  Programs <- ControlPrograms
  BootRegs <- MCBootRegs
  NegedgeOrders = {"write_first"}
SPECIFICATION Spec
PROPERTY ControlFlow
