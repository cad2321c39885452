----------------------------- MODULE RVIssValues -----------------------------
(***************************************************************************)
(* The values that the C expressions of sim.c compute for the arithmetic   *)
(* instructions and the branches: an account of the instruction set that   *)
(* is independent of the RTL's.                                            *)
(***************************************************************************)
EXTENDS RVIsa, Binary

CONSTANTS
  ShiftSize,            \* number of shift amounts: 32
  BitAnd(_,_), BitOr(_,_), BitXor(_,_)    \* the operators &, | and ^ of C

\* A word has WordBits bits, and can be shifted by each smaller number
ASSUME WidthAssumption ==
  /\ WordBits \in Nat \ {0} /\ WordSize = Pow2[WordBits]
  /\ ShiftSize = WordBits

\* | works bit by bit
ASSUME OrAssumption ==
  \A x, y \in Word :
    /\ BitOr(x, y) \in Word
    /\ \A k \in Bits : On(BitOr(x, y), k) = (On(x, k) \/ On(y, k))

Signed(a) == IF 2 * a < WordSize THEN a ELSE a - WordSize
B2W(b)    == IF b THEN 1 ELSE 0
\* x | shift_const(k), the sign extension of a field of the given size
Extend(x, size) == IF 2 * x < size THEN x ELSE (WordSize - size) + x

\* sign times the top sh bits: shift_const
SignFill(a, sh) == IF 2 * a < WordSize THEN 0 ELSE WordSize - (WordSize \div Pow2[sh])

RValue(op, a, b) ==
  LET sh == b % ShiftSize
  IN  CASE op = "ADD"  -> (a + b) % WordSize
        [] op = "SUB"  -> (a - b) % WordSize
        [] op = "AND"  -> BitAnd(a, b)
        [] op = "OR"   -> BitOr(a, b)
        [] op = "XOR"  -> BitXor(a, b)
        [] op = "SLL"  -> (a * Pow2[sh]) % WordSize
        [] op = "SRL"  -> a \div Pow2[sh]
        [] op = "SRA"  -> (a \div Pow2[sh]) + SignFill(a, sh)
        [] op = "SLT"  -> B2W(Signed(a) < Signed(b))
        [] op = "SLTU" -> B2W(a < b)

BCond(op, a, b) == CASE op = "BEQ"  -> a = b
                     [] op = "BNE"  -> a # b
                     [] op = "BLT"  -> Signed(a) < Signed(b)
                     [] op = "BGE"  -> Signed(a) >= Signed(b)
                     [] op = "BLTU" -> a < b
                     [] op = "BGEU" -> a >= b
=============================================================================
