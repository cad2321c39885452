--------------------------- MODULE MIPSPipelineInv ---------------------------
(***************************************************************************)
(* Inductive invariants of MIPSPipeline: what must hold between the stages  *)
(* for its properties to be true.                                           *)
(***************************************************************************)
EXTENDS MIPSPipeline

\* An instruction in EX is the word at its address, with that word's successors
ExFetched ==
  IsValid(ex.instr) => /\ ex.instr = Imem(prog, ex.pc)
                       /\ ex.seqpc = SeqPC(ex.pc)
                       /\ ex.brnpc = BranchTarget(SeqPC(ex.pc), ex.instr)
IssIsFetched == iss.instr = Imem(prog, iss.pc) /\ iss.seqpc = SeqPC(iss.pc)
FetchInv == ExFetched /\ (iss = IssBubble \/ IssIsFetched)

-----------------------------------------------------------------------------
(* Forwarding *)

\* ISS_EX_REG holds what the register file holds; a jump in EX has nothing behind it,
\* and so nobody in EX looks at a jump's link in MEM
ForwardInv ==
  /\ IsJump(ex.instr) => iss = IssBubble
  /\ IsJump(mem.instr) => ~IsValid(ex.instr)
  /\ regs[0] = 0
  /\ ex.p1 = regs[Port1(ex.instr)] /\ ex.p2 = regs[Port2(ex.instr)]

\* In spaced programs the two next instructions behind a branch that links do not
\* read the link register
LinkInv ==
  mem.instr.op \in LinkBranches =>
    /\ ~UsesLinkReg(Imem(prog, ArchPC))
    /\ IsValid(ex.instr) => ~UsesLinkReg(Imem(prog, Goes))

\* Nor does the instruction in EX use anything else that forwarding misses
NoMissInv ==
  IsValid(ex.instr) =>
    /\ UsesPort1(ex.instr) => /\ ~MissedFromMem(Port1(ex.instr), TRUE)
                              /\ ~MissedFromWb(Port1(ex.instr))
    /\ UsesPort2(ex.instr) => /\ ~MissedFromMem(Port2(ex.instr), FALSE)
                              /\ ~MissedFromWb(Port2(ex.instr))

-----------------------------------------------------------------------------
(* Control flow: the fetch stage has followed the prediction that an instruction   *)
(* carries, unless the instruction will be flushed or will flush what follows it.  *)

\* Behind a jump in EX there is nothing, and its target is being fetched; behind
\* another instruction there is the fetch that its prediction asked for
BehindEx ==
  IsValid(ex.instr) =>
    IF IsJump(ex.instr) THEN iss = IssBubble /\ pc = JumpTarget(ex.seqpc, ex.instr)
    ELSE /\ IssIsFetched
         /\ IsBranch(ex.instr) => iss.pc = IF ex.pred THEN ex.predpc ELSE ex.seqpc
         /\ ~IsBranch(ex.instr) /\ ~ex.pred => iss.pc = ex.seqpc

\* A predicted branch is followed, although NextPC ignores a prediction made while a
\* branch is in EX: BranchSpacing keeps a branch out of that slot on the right path
BehindIss ==
  IsValid(iss.instr) /\ ~IsJump(iss.instr) =>
    /\ ~iss.pred => pc = iss.seqpc
    /\ IsBranch(iss.instr) /\ iss.pred /\ ~FlushEx => pc = iss.predpc

\* What is not an instruction predicts nothing
Bubbles ==
  /\ ~IsValid(ex.instr) => ~ex.pred
  /\ ~IsValid(ex.instr) /\ ~IsValid(iss.instr) => iss = IssBubble

FlowInv ==
  /\ FetchInv
  /\ BehindEx
  /\ BehindIss
  /\ Bubbles
  /\ IsValid(Imem(prog, ArchPC))

\* What holds of every closed program, and what of those that are spaced besides
SpacedInv ==
  /\ FetchInv /\ ForwardInv
  /\ BranchSpacing(prog) => FlowInv
  /\ Spaced(prog) => LinkInv /\ NoMissInv
=============================================================================
