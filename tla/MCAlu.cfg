CONSTANTS
  WordSize = 256
  WordBits = 8
  ShiftSize = 8
  Imm12Size = 16
  Imm20Size = 16
  UpperUnit = 4
  NumRegs = 3
  TextBase = 128
  TextSlots = 4
  AluRes <- MCAluRes
  AluZ <- MCAluZ
  AluN <- MCAluN
  BitAnd <- MCAnd
  BitOr <- MCOr
  BitXor <- MCXor
SPECIFICATION OperandsSpec
INVARIANTS AdderAdds AluMatchesIss BranchesMatchIss
