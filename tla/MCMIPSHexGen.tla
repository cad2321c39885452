---------------------------- MODULE MCMIPSHexGen ----------------------------
(***************************************************************************)
(* Instances of MIPSHexGen: eight slots, so that the text is the addresses *)
(* 0..31, and 24 words of data above; half the immediates are greater than *)
(* the text, as in the code.                                               *)
(***************************************************************************)
EXTENDS MIPSHexGen

Mix(n) == {w \in [Kinds -> 0..n] : w["r"] + w["i"] + w["j"] = n}
MCMixes == Mix(0) \cup Mix(1)

\* A word of the text, which is the exit code too, one of the data and one above them
SampleValues == {10, 40, 200}
SampleImms   == {1, 4, 40, 125}

\* A call of the directed interface without operands, and with them
Plain(op, rd, rs, rt, imm) ==
  [op |-> op, rd |-> rd, rs |-> rs, rt |-> rt, imm |-> imm,
   set |-> FALSE, rsVal |-> 0, rtVal |-> 0]
Set(op, rd, rs, rt, imm, v, w) ==
  [op |-> op, rd |-> rd, rs |-> rs, rt |-> rt, imm |-> imm,
   set |-> TRUE, rsVal |-> v, rtVal |-> w]

SampleCalls ==
  {Set("ADD", 2, 1, 2, 0, 5, 6), Set("AND", 2, 1, 1, 0, 7, 3), Set("DIV", 1, 2, 1, 0, 9, 0),
   Set("MULT", 0, 1, 2, 0, 4, 11), Set("SUB", 1, 1, 2, 0, 128, 1), Plain("SYSCALL", 0, 0, 0, 0),
   Set("JR", 1, 2, 1, 0, 12, 0), Set("JALR", 1, 2, 0, 0, 2, 0), Plain("MFHI", 2, 0, 0, 0),
   Set("ADDI", 0, 1, 2, 3, 8, 0), Set("LB", 0, 1, 2, 1, 9, 0), Set("LW", 0, 2, 1, 0, 40, 0),
   Set("BGEZAL", 0, 2, 1, 1, 1, 0), Set("BEQ", 0, 1, 2, 125, 10, 0), Plain("BNE", 0, 0, 1, 2),
   Set("SB", 0, 1, 2, 3, 6, 0), Set("SW", 0, 1, 2, 127, 15, 0), Plain("ORI", 0, 2, 1, 128),
   Set("LUI", 0, 2, 2, 1, 10, 0), Set("XORI", 0, 1, 1, 1, 128, 0), Set("OR", 2, 1, 2, 0, -1, 6),
   Set("JR", 1, 2, 0, 0, 8, 0), Plain("BLTZ", 0, 0, 0, 127)}
=============================================================================
