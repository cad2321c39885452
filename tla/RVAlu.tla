-------------------------------- MODULE RVAlu --------------------------------
(***************************************************************************)
(* alu.v with its shifter.v, logical.v and comparator.v, on words of       *)
(* WordBits bits: what a run gives for the constants AluRes, AluZ and AluN *)
(* of RVIsa.  The sum and its overflow are arithmetic here; RVAdder models   *)
(* the gates that compute them.                                            *)
(***************************************************************************)
EXTENDS Binary

CONSTANTS
  WordSize,                               \* 2^32, the weight of bit WordBits
  BitAnd(_,_), BitOr(_,_), BitXor(_,_)    \* the operators &, | and ^ of Verilog

Sign(a)  == IF 2 * a >= WordSize THEN 1 ELSE 0
Inv(a)   == WordSize - 1 - a
Bit(b)   == IF b THEN 1 ELSE 0

\* op_alu_i[0] asks for a - b, as a + ~b + 1
Subtracts(fn) == fn \in {"SUB_OP", "SLT_OP", "SLTU_OP", "BGEU_OP"}
AddendB(fn, b) == IF Subtracts(fn) THEN Inv(b) ELSE b
Sum(fn, a, b) == (a + AddendB(fn, b) + Bit(Subtracts(fn))) % WordSize
\* (mutant) the overflow ignored
NoOverflow(fn, a, b) == FALSE

\* v_flag: the carry into the sign bit differs from the carry out of it
Overflow(fn, a, b) == /\ Sign(a) = Sign(AddendB(fn, b))
                      /\ Sign(a) # Sign(Sum(fn, a, b))

\* shifter.v: the amount is the low log2(WordBits) bits of b
Amount(b) == b % WordBits
Shift(fn, a, b) ==
  LET right == a \div Pow2[Amount(b)]
  IN  CASE fn = "SHL_OP" -> (a * Pow2[Amount(b)]) % WordSize
        [] fn = "LSR_OP" -> right
        [] fn = "ASR_OP" ->
             IF Sign(a) = 1
               THEN BitOr(((WordSize - 1) * Pow2[WordBits - 1 - Amount(b)]) % WordSize, right)
               ELSE right

Logical(fn, a, b) == CASE fn = "OR_OP"  -> BitOr(a, b)
                       [] fn = "AND_OP" -> BitAnd(a, b)
                       [] fn = "XOR_OP" -> BitXor(a, b)

\* comparator.v: the operation is op_alu_i[5:3]
Compare(fn, a, b) == IF fn = "BGEU_OP" THEN a > b ELSE a < b

Z(fn, a, b) == Sum(fn, a, b) = 0
N(fn, a, b) == CASE fn = "SLTU_OP" -> Compare(fn, a, b)
                 [] fn = "BGEU_OP" -> ~Compare(fn, a, b)
                 [] OTHER -> IF Overflow(fn, a, b) THEN Sign(a) = 1
                                                   ELSE Sign(Sum(fn, a, b)) = 1
Res(fn, a, b) ==
  CASE fn \in {"ADD_OP", "SUB_OP"}            -> Sum(fn, a, b)
    [] fn \in {"SHL_OP", "LSR_OP", "ASR_OP"}  -> Shift(fn, a, b)
    [] fn \in {"OR_OP", "AND_OP", "XOR_OP"}   -> Logical(fn, a, b)
    [] fn \in {"SLTU_OP", "BGEU_OP"}          -> Bit(Compare(fn, a, b))
    [] fn = "SLT_OP"                          -> Bit(N(fn, a, b))
=============================================================================
