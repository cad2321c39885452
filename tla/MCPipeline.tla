------------------------------ MODULE MCPipeline ------------------------------
(***************************************************************************)
(* RVPipeline for TLC: words of five bits, a program of four slots in the  *)
(* upper half of the addresses, three registers.                           *)
(***************************************************************************)
EXTENDS RVPipeline, MCAssembler

\* The register files of boot_code, cleared or preloaded; the preload's stride
\* of 32 is 3 here
MCBootRegs == {[r \in Reg |-> 0], [r \in Reg |-> ((r * 3) + (r % 3)) % WordSize]}

ControlMenu == {I("ADDI", 1, 1, 1), B("BNE", 1, 0, 8), B("BEQ", 1, 2, -4),
                B("BLT", 2, 1, -8), J(2, 8), J(0, -4)}
DataMenu == {I("ADDI", 1, 2, 3), R("ADD", 2, 1, 1), R("SUB", 1, 2, 1), I("LW", 1, 1, 4),
             I("JALR", 2, 1, 4), I("ANDI", 1, 1, 3),
             S("SW", 2, 1, 0), B("BGE", 1, 2, -8), J(1, -8), U("AUIPC", 2, 1)}

MixedMenu == {I("ADDI", 1, 2, 3), R("ADD", 2, 1, 1), I("LW", 1, 1, 4), S("SW", 1, 1, 0),
              I("JALR", 1, 2, 4), B("BNE", 1, 0, 8), B("BEQ", 1, 2, -4), J(1, -8), J(0, 8)}

MenuPrograms(menu) == {p \in [Slots -> menu] : Closed(p)}
ControlPrograms == MenuPrograms(ControlMenu)
MixedPrograms   == MenuPrograms(MixedMenu)
DataPrograms    == {p \in MenuPrograms(DataMenu) : BranchSpacing(p)}
LoadUsePrograms == {p \in DataPrograms : NoLinkUse(p)}
SpacedPrograms  == {p \in ControlPrograms \cup LoadUsePrograms :
                      BranchSpacing(p) /\ NoLoadUseRs2(p)}
=============================================================================
