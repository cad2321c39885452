----------------------------- MODULE MCMIPSSingle -----------------------------
(***************************************************************************)
(* MIPSSingleCosim for TLC.  The addresses of the loads and stores are in   *)
(* the data segment of both machines.                                       *)
(***************************************************************************)
EXTENDS MIPSSingleCosim, MCMIPSAssembler

MCDecodeWord(v) == IF v = 0 THEN [NoInstr EXCEPT !.op = "SLL"] ELSE NoInstr
MCEncodeInstr(i) == IF i.op = "NONE" THEN 15 ELSE 7

MCBootRegs == {[r \in Reg |-> 0], [r \in Reg |-> ((r * 7) + (r % 3)) % WordSize]}

Menu == {I("ADDI", 1, 2, ExitCode), R("SUB", 1, 2, 1), Sh("SRA", 2, 2, 1), I("LW", 1, 0, -8),
         I("SW", 1, 0, -8), I("BEQ", 2, 1, -2), I("BLEZ", 0, 1, 1), I("BGEZAL", 0, 2, 2),
         J("JAL", 1), J("J", 3), Sh("SLL", 0, 0, 0), R("SLTU", 2, 1, 2), R("JR", 0, 1, 0),
         R("MTLO", 0, 1, 0), I("XORI", 1, 2, -6), R("SYSCALL", 0, 0, 0)}

AllPrograms == {p \in [Slots -> Menu] : Stays(p)}

\* What the theorems of MIPSSingleCosim_proofs assume of the constants holds here
ASSUME InstanceAssumption ==
  /\ GoodPrograms /\ FixedAddresses /\ AluWired /\ AluAgrees /\ SameLayout
  /\ PlainSyscalls /\ NoExitAtBoot
=============================================================================
