------------------------------- MODULE MCCosim -------------------------------
(***************************************************************************)
(* RVCosim for TLC, on programs that keep their loads and stores in the     *)
(* data segment.                                                           *)
(***************************************************************************)
EXTENDS RVCosim, MCAssembler

\* A data word has few bits here: 3 and 19 are the opcodes of LB and ADDI with
\* every other field zero
MCDecodeWord(v) == CASE v = 3  -> I("LB", 0, 0, 0)
                     [] v = 19 -> I("ADDI", 0, 0, 0)
                     [] OTHER  -> NoInstr
MCEncodeInstr(i) == IF i.op = "NONE" THEN 0 ELSE 7

MCBootRegs == {[r \in Reg |-> 0], [r \in Reg |-> ((r * 3) + (r % 3)) % WordSize]}

\* The simulator takes the address of a store from rs2 and its data from rs1, so
\* the two machines can only agree on stores whose registers are the same
DataMenu == {I("ADDI", 1, 2, 3), R("SUB", 1, 2, 1), R("SRA", 2, 2, 1), I("LW", 1, 0, 4),
             S("SW", 0, 0, 4), S("SW", 2, 2, 4), B("BGEU", 2, 1, -8), J(1, -8),
             U("AUIPC", 2, 1), R("SLT", 1, 2, 1), I("XORI", 2, 1, -3), B("BLT", 1, 2, 8)}

\* The base of a store is a boot value, an address of the data segment
KeepsBases(p) == \A s, t \in Slots :
                   p[s].op = "SW" /\ RfEn(p[t]) /\ p[t].rd # 0 => p[t].rd # p[s].rs1

\* Programs within the restrictions under which the pipeline is right
AgreeingPrograms == {p \in [Slots -> DataMenu] :
                       Closed(p) /\ BranchSpacing(p) /\ NoLoadUseRs2(p) /\ KeepsBases(p)}

\* What the theorems of RVCosim_proofs assume of the programs and of the ALU holds here
ASSUME InstanceAssumption == GoodPrograms /\ FixedAddresses /\ AluAgrees
=============================================================================
