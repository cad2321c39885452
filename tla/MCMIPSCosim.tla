----------------------------- MODULE MCMIPSCosim -----------------------------
(***************************************************************************)
(* MIPSCosim for TLC, on programs that keep their loads and stores in the   *)
(* data segment.                                                            *)
(***************************************************************************)
EXTENDS MIPSCosim, MCMIPSAssembler

\* A data word has few bits here; the words with a zero opcode and funct field are NOPs
MCDecodeWord(v) == IF v = 0 THEN [NoInstr EXCEPT !.op = "SLL"] ELSE NoInstr
MCEncodeInstr(i) == IF i.op = "NONE" THEN 15 ELSE 7

MCBootRegs == {[r \in Reg |-> 0], [r \in Reg |-> ((r * 7) + (r % 3)) % WordSize]}

Exit == R("SYSCALL", 0, 0, 0)

\* Loads and stores are of whole words, at addresses from register 0.  The moves to
\* and from HI and LO have the encoding the manual gives them, JR too.
AgreeMenu == {I("ADDI", 1, 2, ExitCode), R("SUB", 1, 2, 1), Sh("SRA", 2, 2, 1), I("LW", 1, 0, -8),
              I("SW", 2, 0, -8), I("BLEZ", 0, 1, 1), I("BGEZAL", 0, 1, -3), J("JAL", 0),
              J("J", 2), R("MULT", 0, 1, 2), R("MFLO", 2, 0, 0), Exit}

AgreeingPrograms == {p \in [Slots -> AgreeMenu] : Closed(p) /\ Spaced(p)}

\* What the theorems of MIPSCosim_proofs assume of the constants holds here
ASSUME InstanceAssumption ==
  GoodPrograms /\ FixedAddresses /\ AluWired /\ AluAgrees /\ SameLayout
=============================================================================
