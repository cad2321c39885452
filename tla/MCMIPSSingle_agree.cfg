CONSTANTS
  WordSize = 32
  WordBits = 5
  ImmSize = 16
  TargetSize = 32
  ShamtSize = 4
  NumRegs = 3
  Link = 2
  TextSlots = 4
  DataBase = 8
  DmemFill = 15
  ByteSize = 4
  HalfSize = 8
  UpperUnit = 4
  MemDataStart = 16
  DataWords = 4
  V0 = 1
  ExitCode = 6
  AluRes <- MCAluRes
  AluZ <- MCAluZ
  AluN <- MCAluN
  BitAnd <- MCAnd
  BitOr <- MCOr
  BitXor <- MCXor
  DecodeWord <- MCDecodeWord
  EncodeInstr <- MCEncodeInstr
  Programs <- AllPrograms
  BootRegs <- MCBootRegs
  ReleaseOrders = {"reset", "clock"}
SPECIFICATION CosimSpec
INVARIANTS NeverFatal LockStep StopsTogether
CHECK_DEADLOCK FALSE
