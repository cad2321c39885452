----------------------------- MODULE MIPSPipeline -----------------------------
(***************************************************************************)
(* The five-stage MIPS pipeline of mips-pipeline/verilog/top.v: fetch,      *)
(* issue (decode, jumps resolved), execute (branches resolved), memory and  *)
(* write-back, with the forwarding and flushing of hazard_unit.v and the    *)
(* branch predictor.                                                        *)
(*                                                                         *)
(* A state is what the registers hold right after a rising clock edge; one  *)
(* clock cycle is one step.  Every control bit a pipeline register holds is *)
(* a function of the instruction that decode.v saw, so the register holds   *)
(* the instruction.                                                         *)
(***************************************************************************)
EXTENDS MIPSIsa

CONSTANTS
  PredEntries,      \* entries of the branch predictor: 1024
  Programs,         \* the programs init_imem may load
  BootRegs,         \* the register files boot_code may set up
  DmemFill,         \* the word init_dmem fills the data memory with
  NegedgeOrders     \* the orders in which the simulator may run regfile.v's blocks

WriteFirst == "write_first"
ReadFirst  == "read_first"

ASSUME PipelineAssumption ==
  /\ PredEntries \in Nat \ {0}
  /\ Programs \subseteq Program
  /\ BootRegs \subseteq [Reg -> Word] /\ \A r \in BootRegs : r[0] = 0
  /\ DmemFill \in Word
  /\ NegedgeOrders \subseteq {WriteFirst, ReadFirst} /\ NegedgeOrders # {}

VARIABLES
  prog,     \* instr_mem, constant once loaded
  pc,       \* FETCH_REG
  iss,      \* FETCH_ISS_REG
  ex,       \* ISS_EX_REG
  mem,      \* EX_MEM_REG
  wb,       \* MEM_WB_REG
  regs,     \* reg_file
  dmem,     \* data_mem, by words
  bpred,    \* the counters of the branch predictor
  btb       \* its target buffer

BP == INSTANCE BranchPredictor

stages == <<pc, iss, ex, mem, wb>>
vars == <<prog, stages, regs, dmem, bpred, btb>>

-----------------------------------------------------------------------------
(* The pipeline registers; a cleared one holds NoInstr *)

IssReg == [instr : Instr, pc : Word, seqpc : Word, pred : BOOLEAN, predpc : Word]
ExReg  == [instr : Instr, pc : Word, seqpc : Word, brnpc : Word,
           pred : BOOLEAN, predpc : Word, p1 : Word, p2 : Word]
MemReg == [instr : Instr, alu : Word, seqpc : Word, p2 : Word]
WbReg  == [instr : Instr, alu : Word, rdata : Word, seqpc : Word]

IssBubble == [instr |-> NoInstr, pc |-> 0, seqpc |-> 0, pred |-> FALSE, predpc |-> 0]
ExBubble  == [instr |-> NoInstr, pc |-> 0, seqpc |-> 0, brnpc |-> 0,
              pred |-> FALSE, predpc |-> 0, p1 |-> 0, p2 |-> 0]
MemBubble == [instr |-> NoInstr, alu |-> 0, seqpc |-> 0, p2 |-> 0]
WbBubble  == [instr |-> NoInstr, alu |-> 0, rdata |-> 0, seqpc |-> 0]

-----------------------------------------------------------------------------
(* Write-back and memory *)

Writes(i) == RegWr(i) \/ UsesLink(i)

WbData == CASE UsesLink(wb.instr) -> wb.seqpc
            [] Dest(wb.instr) = 0 -> 0
            [] MemToReg(wb.instr) /\ Dest(wb.instr) # 0 /\ ~UsesLink(wb.instr) -> wb.rdata
            [] OTHER -> wb.alu
ReadData == dmem[DmemIndex(mem.alu)]

\* The write of the falling edge
RegsWritten == IF Writes(wb.instr) THEN [regs EXCEPT ![Dest(wb.instr)] = WbData] ELSE regs

-----------------------------------------------------------------------------
(* Execute: the operands, with the forwarding of hazard_unit.v *)

\* (mutant) forwarding from MEM without its reg_wr
FromMemNoEnable(r) == Dest(mem.instr) # 0 /\ Dest(mem.instr) = r

\* Only reg_wr forwards: the link of a branch is written without it
FromMem(r) == RegWr(mem.instr) /\ Dest(mem.instr) # 0 /\ Dest(mem.instr) = r
FromWb(r)  == RegWr(wb.instr) /\ Dest(wb.instr) # 0 /\ Dest(wb.instr) = r

\* (mutant) the first port is no better than the second
P1NoLoad == IF FromMem(Port1(ex.instr)) THEN mem.alu
            ELSE IF FromWb(Port1(ex.instr)) THEN WbData ELSE ex.p1

\* Only the first port can take a loaded word from the memory stage, and only LW's
P1 == IF FromMem(Port1(ex.instr)) THEN (IF IsLw(mem.instr) THEN ReadData ELSE mem.alu)
      ELSE IF FromWb(Port1(ex.instr)) THEN WbData ELSE ex.p1
P2 == IF FromMem(Port2(ex.instr)) THEN mem.alu
      ELSE IF FromWb(Port2(ex.instr)) THEN WbData ELSE ex.p2

BranchTaken == Taken(ex.instr, P1, P2)
CorrectPred == ex.pred = BranchTaken /\ ex.brnpc = ex.predpc
Mispredict  == ex.pred /\ ~CorrectPred

-----------------------------------------------------------------------------
(* The next pc and the flushes *)

JumpIss   == IsJump(iss.instr)
IssTarget == JumpTarget(iss.seqpc, iss.instr)
IssBranch == BranchTarget(iss.seqpc, iss.instr)

\* force_pc_val_ex
Forced == IF BranchTaken THEN ex.brnpc ELSE ex.seqpc

NextCalPC ==
  IF IsBranch(ex.instr) /\ Mispredict THEN Forced
  ELSE IF BranchTaken /\ ~(ex.pred /\ CorrectPred) THEN ex.brnpc
  ELSE IF JumpIss THEN IssTarget
  ELSE SeqPC(pc)

NextPC ==
  IF ~IsJump(ex.instr) /\ ~IsBranch(ex.instr) /\ Mispredict THEN ex.seqpc
  ELSE IF ~JumpIss /\ ~IsBranch(ex.instr) /\ BP!PredictTaken(pc)
    THEN BP!PredictTarget(pc)
  ELSE NextCalPC

\* (mutants) the flush of flush_incorr_pred_ex missing; a fetch predicted taken
\* flushed as if the branch had been taken
FlushExTakenOnly  == BranchTaken /\ ~CorrectPred
FlushIssPredicted == (BranchTaken /\ ~CorrectPred) \/ JumpIss \/ BP!PredictTaken(pc)

FlushEx  == (BranchTaken /\ ~CorrectPred) \/ Mispredict
FlushIss == (BranchTaken /\ ~CorrectPred) \/ JumpIss
              \/ (~IsJump(ex.instr) /\ Mispredict)

-----------------------------------------------------------------------------
Init ==
  /\ prog \in Programs
  /\ pc = 0
  /\ iss = IssBubble /\ ex = ExBubble /\ mem = MemBubble /\ wb = WbBubble
  /\ regs \in BootRegs
  /\ dmem = [w \in DmemWords |-> DmemFill]
  /\ BP!Init

LoadIss ==
  iss' = IF FlushIss THEN IssBubble
         ELSE [instr |-> Imem(prog, pc), pc |-> pc, seqpc |-> SeqPC(pc),
               pred |-> BP!PredictTaken(pc), predpc |-> BP!PredictTarget(pc)]

\* readRegs is the register file that the falling edge's reads see
LoadEx(readRegs) ==
  ex' = IF FlushEx THEN ExBubble
        ELSE [instr |-> iss.instr, pc |-> iss.pc, seqpc |-> iss.seqpc, brnpc |-> IssBranch,
              pred |-> iss.pred, predpc |-> iss.predpc,
              p1 |-> readRegs[Port1(iss.instr)], p2 |-> readRegs[Port2(iss.instr)]]

\* (mutant) the data of a store not forwarded
LoadMemStale ==
  mem' = [instr |-> ex.instr, alu |-> Result(ex.instr, P1, P2), seqpc |-> ex.seqpc,
          p2 |-> ex.p2]

\* The memory and write-back registers are never flushed
LoadMem ==
  mem' = [instr |-> ex.instr, alu |-> Result(ex.instr, P1, P2), seqpc |-> ex.seqpc,
          p2 |-> P2]
LoadWb ==
  wb' = [instr |-> mem.instr, alu |-> mem.alu, rdata |-> ReadData, seqpc |-> mem.seqpc]

\* A clock cycle, from one rising edge to the next
Cycle(order) ==
  /\ regs' = RegsWritten
  /\ pc' = NextPC
  /\ LoadIss
  /\ LoadEx(IF order = WriteFirst THEN RegsWritten ELSE regs)
  /\ LoadMem
  /\ LoadWb
  /\ dmem' = IF MemWr(mem.instr) THEN [dmem EXCEPT ![DmemIndex(mem.alu)] = mem.p2] ELSE dmem
  /\ BP!Feedback(IsBranch(ex.instr), ex.pc, CorrectPred, ex.brnpc)
  /\ UNCHANGED prog

\* A reset pulse between two rising edges clears every pipeline register at once: a
\* store in MEM is lost, a result in WB is written only when the pulse came after
\* the falling edge, and a branch in EX never reaches the predictor.
Reset ==
  /\ pc' = 0
  /\ iss' = IssBubble /\ ex' = ExBubble /\ mem' = MemBubble /\ wb' = WbBubble
  /\ regs' \in {regs, RegsWritten}
  /\ UNCHANGED <<prog, dmem, bpred, btb>>

Run  == \E order \in NegedgeOrders : Cycle(order)
Next == Run \/ Reset

\* The clock never stops; the reset is the environment's
Spec == Init /\ [][Next]_vars /\ WF_vars(Run)

-----------------------------------------------------------------------------
TypeOK ==
  /\ prog \in Program
  /\ pc \in Word
  /\ iss \in IssReg /\ ex \in ExReg /\ mem \in MemReg /\ wb \in WbReg
  /\ regs \in [Reg -> Word]
  /\ dmem \in [DmemWords -> Word]
  /\ BP!TypeOK
-----------------------------------------------------------------------------
(* The architectural state: what the machine would hold if fetching stopped   *)
(* and the pipeline drained.  An instruction counts as executed from the edge *)
(* that takes it out of EX.                                                    *)

Goes == IF IsJump(ex.instr) THEN JumpTarget(ex.seqpc, ex.instr)
        ELSE IF BranchTaken THEN ex.brnpc ELSE ex.seqpc
ArchPC == IF IsValid(ex.instr) THEN ex.pc
          ELSE IF IsValid(iss.instr) THEN iss.pc ELSE pc

MemData  == CASE UsesLink(mem.instr) -> mem.seqpc
              [] MemToReg(mem.instr) /\ ~UsesLink(mem.instr) -> ReadData
              [] OTHER -> mem.alu
ArchRegs == IF Writes(mem.instr) /\ Dest(mem.instr) # 0
              THEN [RegsWritten EXCEPT ![Dest(mem.instr)] = MemData] ELSE RegsWritten
ArchDmem == IF MemWr(mem.instr) THEN [dmem EXCEPT ![DmemIndex(mem.alu)] = mem.p2] ELSE dmem

Sequential == INSTANCE MIPSSequential WITH apc <- ArchPC, aregs <- ArchRegs, admem <- ArchDmem

\* Refinement: cycle by cycle the pipeline does what the sequential machine does:
\* every instruction it takes out of EX is the next one of the program, its
\* operands hold every earlier result, and no wrong-path instruction leaves a
\* trace in the registers or the memory (top.v as a whole, against the claim of
\* hazard_unit.v that forwarding makes stalls unnecessary).
ImplementsSequential == Sequential!Spec

-----------------------------------------------------------------------------
(* Programs.  Static restrictions under which properties are stated.          *)

\* Control begins at a loaded word and never leaves them
Closed(p) ==
  /\ IsValid(Imem(p, 0))
  /\ \A a \in Word : IsValid(Imem(p, a)) => \A b \in Succ(p, a) : IsValid(Imem(p, b))

\* No branch is the second successor of a branch, unless a jump lies between
BranchSpacing(p) ==
  \A a \in Word : IsBranch(Imem(p, a)) =>
    \A b \in Succ(p, a) : ~IsJump(Imem(p, b)) =>
      \A c \in Succ(p, b) : ~IsBranch(Imem(p, c))

\* What an instruction computes with: the value of a port it only passes on, as a
\* shift does with the second one, cannot matter
UsesPort1(i) == ~IsJump(i)
UsesPort2(i) == AluSrc(i) = "port2" \/ MemWr(i)

\* What comes from memory is no operand of the next instruction, except a word
\* that LW loads as its first one
LoadsSpaced(p) ==
  \A a \in Word : LET i == Imem(p, a) IN MemToReg(i) /\ Dest(i) # 0 =>
    \A b \in Succ(p, a) : LET j == Imem(p, b) IN
      /\ UsesPort2(j) => Port2(j) # Dest(i)
      /\ UsesPort1(j) => Port1(j) # Dest(i) \/ IsLw(i)

UsesLinkReg(i) == (UsesPort1(i) /\ Port1(i) = Link) \/ (UsesPort2(i) /\ Port2(i) = Link)

\* The link of a JALR is not used by the next instruction, that of a branch not by
\* the next two
LinksSpaced(p) ==
  \A a \in Word : LET i == Imem(p, a) IN
    UsesLink(i) /\ ~IsJump(i) => \A b \in Succ(p, a) :
      /\ ~UsesLinkReg(Imem(p, b))
      /\ IsBranch(i) => \A c \in Succ(p, b) : ~UsesLinkReg(Imem(p, c))

Spaced(p) == BranchSpacing(p) /\ LoadsSpaced(p) /\ LinksSpaced(p)

-----------------------------------------------------------------------------
(* Properties *)

\* In a spaced program the operands EX computes with hold every result of the older
\* instructions, those in MEM and WB included (top.v:314-321 against hazard_unit.v:50-52).
OperandsCurrent ==
  Spaced(prog) /\ IsValid(ex.instr) =>
    /\ UsesPort1(ex.instr) => P1 = ArchRegs[Port1(ex.instr)]
    /\ UsesPort2(ex.instr) => P2 = ArchRegs[Port2(ex.instr)]

\* The values that forwarding misses: from memory, unless LW brings it to the first
\* port, and the link of a JALR in MEM, or of a branch in MEM or WB
MissedFromMem(r, port1) ==
  /\ Dest(mem.instr) = r /\ r # 0
  /\ \/ MemToReg(mem.instr) /\ ~(port1 /\ IsLw(mem.instr))
     \/ UsesLink(mem.instr) /\ ~IsJump(mem.instr)
MissedFromWb(r) == Dest(wb.instr) = r /\ wb.instr.op \in LinkBranches

\* For every program forwarding fails in these cases only (top.v:314-321 has no arm
\* for next_seq_pc, and hazard_unit.v:40-49 does not look at use_link): in
\* particular a JAL, whose alu_res_mem is not its link either, never has a reader
\* behind it, because it flushed its fetch shadow two cycles earlier.
OperandsForwarded ==
  IsValid(ex.instr) =>
    /\ \/ P1 = ArchRegs[Port1(ex.instr)]
       \/ MissedFromMem(Port1(ex.instr), TRUE) \/ MissedFromWb(Port1(ex.instr))
    /\ \/ P2 = ArchRegs[Port2(ex.instr)]
       \/ MissedFromMem(Port2(ex.instr), FALSE) \/ MissedFromWb(Port2(ex.instr))

\* Between two edges without a reset the architectural pc moves exactly when an
\* instruction leaves EX, and then to that instruction's successor: in a program with
\* spaced branches no prediction, flush or jump in its shadow loses an instruction or
\* lets a wrong one through (top.v:158-177, 355-360, hazard_unit.v:59-62).
ControlFlow ==
  [][Run /\ BranchSpacing(prog) =>
       ArchPC' = IF IsValid(ex.instr) THEN Goes ELSE ArchPC]_vars

\* The predictor names a target only after a branch has left one: an entry that
\* has ever moved holds the target of a branch of the program that maps to it
\* (one_level_bpred.v:33-45), however many addresses share the entry.
BtbTrained ==
  \A e \in 0..(PredEntries - 1) : bpred[e] # 0 =>
    \E a \in Word : IsBranch(Imem(prog, a)) /\ BP!Index(a) = e /\ btb[e] = Target(prog, a)

\* The pipeline never stops retiring: no sequence of mispredictions, aliased
\* predictions and flushes keeps it from write-back for ever, unless it is reset
\* again and again.
Progress == []<>IsValid(wb.instr) \/ []<><<Reset>>_vars
=============================================================================
