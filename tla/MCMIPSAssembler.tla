---------------------------- MODULE MCMIPSAssembler ----------------------------
(***************************************************************************)
(* What the runs of the MIPS modules share: an ALU for the constants of     *)
(* MIPSIsa and an assembler for the programs.                               *)
(***************************************************************************)
EXTENDS MIPSIsa, Binary
LOCAL INSTANCE Bitwise

ASSUME PowerAssumption == /\ WordBits \in Nat \ {0} /\ WordSize = Pow2[WordBits]
                          /\ \A k \in 0..WordBits : Pow2[k] = 2^k

\* The operators of Verilog and of C
MCAnd(a, b) == a & b
MCOr(a, b)  == a | b
MCXor(a, b) == a ^^ b

Alu == INSTANCE MIPSAlu WITH BitAnd <- MCAnd, BitOr <- MCOr, BitXor <- MCXor

MCAluRes(fn, a, b) == Alu!Res(fn, a, b)
MCAluZ(fn, a, b)   == Alu!Z(fn, a, b)
MCAluN(fn, a, b)   == Alu!N(fn, a, b)

\* Assembler: branch offsets and jump targets count words.  A J-type instruction has
\* bits of its target in the fields of the registers.
R(op, rd, rs, rt)  == [op |-> op, rs |-> rs, rt |-> rt, rd |-> rd, shamt |-> 0, imm |-> 0]
Sh(op, rd, rt, sa) == [op |-> op, rs |-> 0, rt |-> rt, rd |-> rd, shamt |-> sa, imm |-> 0]
I(op, rt, rs, imm) == [op |-> op, rs |-> rs, rt |-> rt, rd |-> 0, shamt |-> 0,
                       imm |-> imm % ImmSize]
J(op, slot)        == [op |-> op, rs |-> 1, rt |-> Link, rd |-> 0, shamt |-> 0, imm |-> slot]
=============================================================================
