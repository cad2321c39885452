CONSTANTS
  WordSize = 32
  WordBits = 5
  Imm12Size = 16
  Imm20Size = 16
  UpperUnit = 4
  NumRegs = 3
  TextBase = 16
  TextSlots = 4
  PredEntries = 8
  DmemFill = 15
  ByteSize = 4
  HalfSize = 8
  ShiftSize = 5
  FinishCount = 20
  AluRes <- MCAluRes
  AluZ <- MCAluZ
  AluN <- MCAluN
  BitAnd <- MCAnd
  BitOr <- MCOr
  BitXor <- MCXor
  DecodeWord <- MCDecodeWord
  EncodeInstr <- MCEncodeInstr
  Programs <- AgreeingPrograms
  BootRegs <- MCBootRegs
  NegedgeOrders = {"write_first"}
SPECIFICATION CosimSpec
INVARIANTS NeverFatal LockStep MemoryAgrees
PROPERTY Finishes
CHECK_DEADLOCK FALSE
