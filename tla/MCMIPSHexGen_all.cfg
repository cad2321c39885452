CONSTANTS
  NumSlots = 8
  Margin = 1
  DataSize = 24
  WordSize = 256
  ImmSize = 128
  NumRegs = 3
  V0 = 1
  Link = 2
  ExitCode = 10
  Values <- SampleValues
  Mixes <- MCMixes
  Drawn = {"ADD", "ADDI", "LW", "SW", "BNE", "J"}
  Imms <- SampleImms
  Targets = {1, 3, 5, 6, 9}
  Calls <- SampleCalls
  MaxCalls = 2
SPECIFICATION Spec
INVARIANTS LandsOnNoInstruction MixDelivered OperandsSet
PROPERTY Ends
CHECK_DEADLOCK FALSE
