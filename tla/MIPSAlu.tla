-------------------------------- MODULE MIPSAlu --------------------------------
(***************************************************************************)
(* alu.v of the MIPS pipeline with its shifter.v, logical.v and             *)
(* comparator.v, on words of WordBits bits: what a run gives for the        *)
(* constants AluRes, AluZ and AluN of MIPSIsa.                              *)
(***************************************************************************)
EXTENDS Binary

CONSTANTS
  WordSize,                               \* 2^32, the weight of bit WordBits
  BitAnd(_,_), BitOr(_,_), BitXor(_,_)    \* the operators &, | and ^ of Verilog

Sign(a)  == IF 2 * a >= WordSize THEN 1 ELSE 0
Inv(a)   == WordSize - 1 - a
Bit(b)   == IF b THEN 1 ELSE 0

\* op_alu_i[0] asks for a - b, as a + ~b + 1
Subtracts(fn)  == fn \in {"SUB_OP", "SLT_OP", "SLTU_OP"}
AddendB(fn, b) == IF Subtracts(fn) THEN Inv(b) ELSE b
Sum(fn, a, b)  == (a + AddendB(fn, b) + Bit(Subtracts(fn))) % WordSize

\* v_flag: the carry into the sign bit differs from the carry out of it
Overflow(fn, a, b) == /\ Sign(a) = Sign(AddendB(fn, b))
                      /\ Sign(a) # Sign(Sum(fn, a, b))

\* shifter.v, one bit of shift amount more than the word needs; its operand is not
\* signed, so >>> fills with zeros like >>
Shift(fn, a, b) ==
  LET amount == b % (2 * WordBits)
  IN  IF fn = "SHL_OP" THEN (a * Pow2[amount]) % WordSize ELSE a \div Pow2[amount]

Logical(fn, a, b) == CASE fn = "OR_OP"  -> BitOr(a, b)
                       [] fn = "AND_OP" -> BitAnd(a, b)
                       [] fn = "NOR_OP" -> Inv(BitOr(a, b))
                       [] fn = "XOR_OP" -> BitXor(a, b)

Z(fn, a, b) == Sum(fn, a, b) = 0
N(fn, a, b) == IF Overflow(fn, a, b) THEN Sign(a) = 1 ELSE Sign(Sum(fn, a, b)) = 1
Res(fn, a, b) ==
  CASE fn \in {"ADD_OP", "SUB_OP"}                   -> Sum(fn, a, b)
    [] fn \in {"SHL_OP", "LSR_OP", "ASR_OP"}         -> Shift(fn, a, b)
    [] fn \in {"OR_OP", "AND_OP", "NOR_OP", "XOR_OP"} -> Logical(fn, a, b)
    [] fn = "SLTU_OP"                                -> Bit(a < b)
    [] fn = "SLT_OP"                                 -> Bit(N(fn, a, b))
=============================================================================
