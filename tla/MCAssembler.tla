----------------------------- MODULE MCAssembler -----------------------------
(***************************************************************************)
(* What the runs of the RISC-V modules share: an ALU and the bitwise        *)
(* operators for the constants, and an assembler for the programs.          *)
(***************************************************************************)
EXTENDS RVIsa, Binary
LOCAL INSTANCE Bitwise

ASSUME PowerAssumption == /\ WordBits \in Nat \ {0} /\ WordSize = Pow2[WordBits]
                          /\ \A k \in 0..WordBits : Pow2[k] = 2^k

\* The operators of Verilog and of C
MCAnd(a, b) == a & b
MCOr(a, b)  == a | b
MCXor(a, b) == a ^^ b

Alu == INSTANCE RVAlu WITH BitAnd <- MCAnd, BitOr <- MCOr, BitXor <- MCXor

MCAluRes(fn, a, b) == Alu!Res(fn, a, b)
MCAluZ(fn, a, b)   == Alu!Z(fn, a, b)
MCAluN(fn, a, b)   == Alu!N(fn, a, b)

\* Assembler: the immediate of a byte offset is in half words.  A format without a
\* register has bits of its immediate in that field.
I(op, rd, rs1, imm)  == [op |-> op, rd |-> rd, rs1 |-> rs1, rs2 |-> 0, imm |-> imm % Imm12Size]
R(op, rd, rs1, rs2)  == [op |-> op, rd |-> rd, rs1 |-> rs1, rs2 |-> rs2, imm |-> 0]
S(op, rs1, rs2, imm) == [op |-> op, rd |-> imm % NumRegs, rs1 |-> rs1, rs2 |-> rs2, imm |-> imm % Imm12Size]
B(op, rs1, rs2, off) == [op |-> op, rd |-> (off \div 2) % NumRegs, rs1 |-> rs1, rs2 |-> rs2,
                         imm |-> (off \div 2) % Imm12Size]
U(op, rd, imm)       == [op |-> op, rd |-> rd, rs1 |-> 1, rs2 |-> 2, imm |-> imm % Imm20Size]
J(rd, off)           == [op |-> "JAL", rd |-> rd, rs1 |-> 1, rs2 |-> 2,
                         imm |-> (off \div 2) % Imm20Size]
=============================================================================
