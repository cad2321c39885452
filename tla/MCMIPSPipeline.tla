---------------------------- MODULE MCMIPSPipeline ----------------------------
(***************************************************************************)
(* MIPSPipeline for TLC: words of five bits, a program of four slots in the *)
(* lower half of the addresses, three registers, the last one the link.     *)
(***************************************************************************)
EXTENDS MIPSPipeline, MCMIPSAssembler

\* The register file of boot_code, and one that lets every branch go both ways
MCBootRegs == {[r \in Reg |-> 0], [r \in Reg |-> ((r * 3) + (r % 3)) % WordSize]}

ControlMenu == {I("ADDI", 1, 1, 1), I("BNE", 1, 0, 1), I("BEQ", 1, 2, -2),
                I("BGEZAL", 0, 1, -3), I("BLTZ", 0, 1, 1), J("JAL", 0), J("J", 2)}
DataMenu == {I("ADDI", 1, 2, 3), R("ADD", 2, 1, 1), R("SUB", 1, 2, 1), I("LW", 1, 1, 4),
             I("SW", 1, 2, 0), I("LB", 2, 0, 4), I("BGTZ", 0, 1, -2), J("JAL", 0)}
LinkMenu == {I("BGEZAL", 0, 1, -2), I("BLTZAL", 0, 2, 1), R("JALR", 0, 1, 0), J("JAL", 1),
             R("ADD", 1, 2, 1), Sh("SRL", 2, 2, 1), I("XORI", 1, 1, -1)}
MixedMenu == {I("ADDI", 1, 2, 3), R("ADD", 2, 1, 1), I("LW", 1, 1, 4), I("LHU", 2, 1, 0),
              I("BGEZAL", 0, 1, 1), I("BNE", 1, 0, -3), J("JAL", 0), R("JALR", 0, 2, 0)}

\* Every closed program of the mixed menu, and the spaced ones of the others
MenuPrograms(menu) == {p \in [Slots -> menu] : Closed(p)}
AnyPrograms ==
  MenuPrograms(MixedMenu)
  \cup {p \in UNION {MenuPrograms(m) : m \in {ControlMenu, DataMenu, LinkMenu}} : Spaced(p)}
=============================================================================
