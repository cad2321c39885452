CONSTANTS
  NumSlots = 8
  Tail = 2
  WordSize = 128
  ImmSize = 16
  NumRegs = 2
  Values <- SampleValues
  Mixes <- MCMixes
  Drawn = {"R", "ALUI", "LW", "JALR", "SW", "BRANCH", "U", "JAL"}
  Imms <- Positive
  BranchOffsets <- Offsets
  JumpOffsets = {1}
SPECIFICATION Spec
INVARIANTS MixDelivered FileIsText
PROPERTIES GeneratesPath Ends
CHECK_DEADLOCK FALSE
