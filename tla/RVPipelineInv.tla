---------------------------- MODULE RVPipelineInv ----------------------------
(***************************************************************************)
(* Inductive invariants of RVPipeline: what must hold between the stages   *)
(* for its properties to be true.                                          *)
(***************************************************************************)
EXTENDS RVPipeline

\* An instruction in EX is the word at its address, with that word's successors
ExFetched ==
  /\ ex.valid = IsValid(ex.instr)
  /\ ex.valid => /\ ex.instr = Imem(prog, ex.pc)
                 /\ ex.seqpc = SeqPC(ex.pc)
                 /\ ex.brnpc = Target(prog, ex.pc)
IssIsFetched == iss.instr = Imem(prog, iss.pc) /\ iss.seqpc = SeqPC(iss.pc)
FetchInv == ExFetched /\ (iss = IssBubble \/ IssIsFetched)

-----------------------------------------------------------------------------
(* Forwarding *)

\* ISS_EX_REG holds what the register file holds, and MEM's control bits those of
\* one instruction; a JAL in EX or MEM has nothing behind it
ForwardInv ==
  /\ IsJump(ex.instr) => iss = IssBubble
  /\ mem.rfEn /\ mem.wbSel = "seq" /\ ~mem.isLw => ~ex.valid
  /\ mem.rfEn /\ mem.wbSel # "seq" => (mem.isLw <=> mem.wbSel = "mem")
  /\ regs[0] = 0
  /\ ex.p1 = regs[ex.instr.rs1] /\ ex.p2 = regs[ex.instr.rs2]

\* What forwarding misses is not asked for: a load in MEM brings nothing that the
\* instruction in EX reads through rs2, a JALR no link that it reads through either
\* port.  It holds of programs with NoLoadUseRs2 and NoLinkUse, because what stands
\* in EX is a successor of the instruction in MEM.
NoMissInv ==
  ex.valid =>
    /\ ReadsRs2(ex.instr) => ~(mem.isLw /\ FromMem(ex.instr.rs2))
    /\ Op1Sel(ex.instr) = "rs1" =>
         ~(mem.isLw /\ mem.wbSel = "seq" /\ FromMem(ex.instr.rs1))

-----------------------------------------------------------------------------
(* Control flow: the fetch stage has followed the prediction that an instruction   *)
(* carries, unless the instruction will be flushed or will flush what follows it.  *)

\* Behind a jump in EX there is nothing, and its target is being fetched; behind
\* another instruction there is the fetch that its prediction asked for
BehindEx ==
  ex.valid =>
    IF IsJump(ex.instr) THEN iss = IssBubble /\ pc = ex.brnpc
    ELSE /\ IssIsFetched
         /\ IsBranch(ex.instr) => iss.pc = IF ex.pred THEN ex.predpc ELSE ex.seqpc
         /\ ~IsBranch(ex.instr) /\ ~ex.pred => iss.pc = ex.seqpc

\* A predicted branch is followed, although NextPC ignores a prediction made while a
\* branch is in EX: BranchSpacing keeps a branch out of that slot on the right path
BehindIss ==
  IsValid(iss.instr) /\ ~IsJump(iss.instr) =>
    /\ ~iss.pred => pc = iss.seqpc
    /\ IsBranch(iss.instr) /\ iss.pred /\ ~FlushEx => pc = iss.predpc

\* What is not an instruction predicts nothing
Bubbles ==
  /\ ~ex.valid => ~ex.pred
  /\ ~ex.valid /\ ~IsValid(iss.instr) => iss = IssBubble

FlowInv ==
  /\ FetchInv
  /\ BehindEx
  /\ BehindIss
  /\ Bubbles
  /\ IsValid(Imem(prog, ArchPC))
=============================================================================
