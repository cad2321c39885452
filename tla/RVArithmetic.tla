----------------------------- MODULE RVArithmetic -----------------------------
(***************************************************************************)
(* The arithmetic of the RISC-V pipeline against what it has to compute:   *)
(* the gates of the adder against integer addition, and the ALU with the   *)
(* control table against the C of the instruction set simulator.  The      *)
(* state is one pair of operands after the other.                          *)
(***************************************************************************)
EXTENDS RVIssValues

Gates == INSTANCE RVAdder
Unit  == INSTANCE RVAlu

\* The adder is made of whole blocks
ASSUME BlockAssumption == WordBits % 4 = 0

VARIABLES opr_a, opr_b, cin     \* opr_a_alu_i, opr_b_alu_i (inverted or not) and cin_alu
operands == <<opr_a, opr_b, cin>>

OperandsInit == opr_a \in Word /\ opr_b = 0 /\ cin \in BOOLEAN
OperandsNext == opr_b' = (opr_b + 1) % WordSize /\ UNCHANGED <<opr_a, cin>>
OperandsSpec == OperandsInit /\ [][OperandsNext]_operands

\* The look-ahead adder adds: every bit of the sum, the carry out and the signed
\* overflow are those of the integer sum, for carries that cross a block boundary and
\* carries that do not (adder.v:17-26).
AdderAdds ==
  LET total == opr_a + opr_b + B2W(cin)
  IN  /\ \A k \in Bits : Gates!SumBit(opr_a, opr_b, cin, k) = On(total, k)
      /\ Gates!Carry(opr_a, opr_b, cin) = (total >= WordSize)
      /\ Gates!VFlag(opr_a, opr_b, cin) =
           (Signed(opr_a) + Signed(opr_b) + B2W(cin)
              \notin -(WordSize \div 2)..(WordSize \div 2) - 1)

\* For every register-register instruction the function control.v selects gives
\* the value sim.c computes: the borrow, the overflow of a signed comparison and
\* the sign of an arithmetic shift included (alu.v:29-41 against sim.c:53-199).
AluMatchesIss ==
  \A op \in RTypes : Unit!Res(AluFn([op |-> op]), opr_a, opr_b) = RValue(op, opr_a, opr_b)

\* Every branch is taken for the same operands in the pipeline, which reads the
\* flags of a subtraction or of the comparator, and in the simulator
\* (control.v:156-168, top.v:396-402 against sim.c:516-639).
BranchesMatchIss ==
  \A op \in BTypes :
    LET fn == AluFn([op |-> op])
    IN  BranchCond(op, Unit!Z(fn, opr_a, opr_b), Unit!N(fn, opr_a, opr_b))
          = BCond(op, opr_a, opr_b)

\* The arithmetic unit of RVIsa is alu.v: the hypothesis of the theorems that say the
\* pipeline and the simulator agree without supposing it of the ALU
AluWired ==
  \A fn \in AluFns : \A a, b \in Word :
    /\ AluRes(fn, a, b) = Unit!Res(fn, a, b)
    /\ AluZ(fn, a, b) = Unit!Z(fn, a, b)
    /\ AluN(fn, a, b) = Unit!N(fn, a, b)
=============================================================================
