------------------------------ MODULE RVPipeline ------------------------------
(***************************************************************************)
(* The five-stage RISC-V pipeline of top.v: fetch, issue (decode, jumps    *)
(* resolved), execute (branches resolved), memory and write-back, with the *)
(* forwarding and flushing of hazard_unit.v and the branch predictor.      *)
(*                                                                         *)
(* A state is what the registers hold right after a rising clock edge; the *)
(* operators of the stages are the wires they drive until the next one.    *)
(* One clock cycle is one step: at the falling edge regfile.v writes the   *)
(* result in WB and reads the operands of the instruction in ISS, in an    *)
(* order that Verilog leaves to the simulator, and at the rising edge      *)
(* every pipeline register is loaded.                                      *)
(***************************************************************************)
EXTENDS RVIsa

CONSTANTS
  PredEntries,      \* entries of the branch predictor: 1024
  Programs,         \* the programs init_imem may load
  BootRegs,         \* the register files boot_code may set up
  DmemFill,         \* the word init_dmem fills the data memory with
  NegedgeOrders     \* the orders in which the simulator may run regfile.v's blocks

WriteFirst == "write_first"
ReadFirst  == "read_first"

ASSUME PipelineAssumption ==
  /\ PredEntries \in Nat \ {0}
  /\ Programs \subseteq Program
  /\ BootRegs \subseteq [Reg -> Word] /\ \A r \in BootRegs : r[0] = 0
  /\ DmemFill \in Word
  /\ NegedgeOrders \subseteq {WriteFirst, ReadFirst} /\ NegedgeOrders # {}

VARIABLES
  prog,     \* instr_mem, constant once loaded
  pc,       \* FETCH_REG
  iss,      \* FETCH_ISS_REG
  ex,       \* ISS_EX_REG
  mem,      \* EX_MEM_REG
  wb,       \* MEM_WB_REG
  regs,     \* reg_file
  dmem,     \* data_mem, by words
  bpred,    \* the counters of the branch predictor
  btb       \* its target buffer

BP == INSTANCE BranchPredictor

stages == <<pc, iss, ex, mem, wb>>
vars == <<prog, stages, regs, dmem, bpred, btb>>

-----------------------------------------------------------------------------
(* The pipeline registers.  What decode.v and control.v drive into ISS_EX_REG *)
(* is a function of the instruction, so the register holds the instruction.   *)

IssReg == [instr : Instr, pc : Word, seqpc : Word, pred : BOOLEAN, predpc : Word]
ExReg  == [valid : BOOLEAN, instr : Instr, pc : Word, seqpc : Word, brnpc : Word,
           pred : BOOLEAN, predpc : Word, p1 : Word, p2 : Word]
MemReg == [valid : BOOLEAN, rfEn : BOOLEAN, wbSel : {"alu", "seq", "mem"},
           memWr : BOOLEAN, isLw : BOOLEAN, rd : Reg, alu : Word, seqpc : Word,
           p2 : Word]
WbReg  == [valid : BOOLEAN, rfEn : BOOLEAN, wbSel : {"alu", "seq", "mem"},
           rd : Reg, alu : Word, rdata : Word, seqpc : Word]

IssBubble == [instr |-> NoInstr, pc |-> 0, seqpc |-> 0, pred |-> FALSE, predpc |-> 0]
ExBubble  == [valid |-> FALSE, instr |-> NoInstr, pc |-> 0, seqpc |-> 0, brnpc |-> 0,
              pred |-> FALSE, predpc |-> 0, p1 |-> 0, p2 |-> 0]
MemBubble == [valid |-> FALSE, rfEn |-> FALSE, wbSel |-> "mem", memWr |-> FALSE,
              isLw |-> FALSE, rd |-> 0, alu |-> 0, seqpc |-> 0, p2 |-> 0]
WbBubble  == [valid |-> FALSE, rfEn |-> FALSE, wbSel |-> "mem", rd |-> 0, alu |-> 0,
              rdata |-> 0, seqpc |-> 0]

-----------------------------------------------------------------------------
(* Write-back and memory *)

WbData   == IF wb.rd = 0 THEN 0
            ELSE CASE wb.wbSel = "alu" -> wb.alu
                   [] wb.wbSel = "seq" -> wb.seqpc
                   [] wb.wbSel = "mem" -> wb.rdata
ReadData == dmem[DmemIndex(mem.alu)]

\* The write of the falling edge
RegsWritten == IF wb.rfEn THEN [regs EXCEPT ![wb.rd] = WbData] ELSE regs

-----------------------------------------------------------------------------
(* Execute: the operands, with the forwarding of hazard_unit.v *)

\* (mutant) forwarding from MEM without its rf_en
FromMemNoEnable(rs) == mem.rd # 0 /\ mem.rd = rs

FromMem(rs) == mem.rfEn /\ mem.rd # 0 /\ mem.rd = rs
FromWb(rs)  == wb.rfEn /\ wb.rd # 0 /\ wb.rd = rs

\* (mutant) the first operand is no better than the second
P1NoLoad == IF FromMem(ex.instr.rs1) THEN mem.alu
            ELSE IF FromWb(ex.instr.rs1) THEN WbData ELSE ex.p1

\* Only the first operand can take a loaded word from the memory stage
P1 == IF FromMem(ex.instr.rs1) THEN (IF mem.isLw THEN ReadData ELSE mem.alu)
      ELSE IF FromWb(ex.instr.rs1) THEN WbData ELSE ex.p1
P2 == IF FromMem(ex.instr.rs2) THEN mem.alu
      ELSE IF FromWb(ex.instr.rs2) THEN WbData ELSE ex.p2

BranchTaken == Taken(ex.instr, ex.pc, P1, P2)
CorrectPred == ex.pred = BranchTaken /\ ex.brnpc = ex.predpc
Mispredict  == ex.pred /\ ~CorrectPred

-----------------------------------------------------------------------------
(* The next pc and the flushes *)

JumpIss == IsJump(iss.instr)
IssTarget == Add(iss.pc, ImmValue(iss.instr))

NextCalPC ==
  IF IsBranch(ex.instr) /\ Mispredict
    THEN IF BranchTaken THEN ex.brnpc ELSE ex.seqpc
  ELSE IF BranchTaken /\ ~(ex.pred /\ CorrectPred) THEN ex.brnpc
  ELSE IF JumpIss THEN IssTarget
  ELSE SeqPC(pc)

NextPC ==
  IF ~IsJump(ex.instr) /\ ~IsBranch(ex.instr) /\ Mispredict THEN ex.seqpc
  ELSE IF ~JumpIss /\ ~IsBranch(ex.instr) /\ BP!PredictTaken(pc)
    THEN BP!PredictTarget(pc)
  ELSE NextCalPC

\* (mutants) the flush of flush_incorr_pred_ex, the flush of a jump's shadow missing;
\* a fetch predicted taken flushed as if the branch had been taken
FlushExTakenOnly == BranchTaken /\ ~CorrectPred
FlushIssNoJump   == (BranchTaken /\ ~CorrectPred) \/ (~IsJump(ex.instr) /\ Mispredict)
FlushIssPredicted == (BranchTaken /\ ~CorrectPred) \/ JumpIss \/ BP!PredictTaken(pc)

FlushEx  == (BranchTaken /\ ~CorrectPred) \/ Mispredict
FlushIss == (BranchTaken /\ ~CorrectPred) \/ JumpIss
              \/ (~IsJump(ex.instr) /\ Mispredict)

-----------------------------------------------------------------------------
Init ==
  /\ prog \in Programs
  /\ pc = TextBase
  /\ iss = IssBubble /\ ex = ExBubble /\ mem = MemBubble /\ wb = WbBubble
  /\ regs \in BootRegs
  /\ dmem = [w \in DmemWords |-> DmemFill]
  /\ BP!Init

LoadIss ==
  iss' = IF FlushIss THEN IssBubble
         ELSE [instr |-> Imem(prog, pc), pc |-> pc, seqpc |-> SeqPC(pc),
               pred |-> BP!PredictTaken(pc), predpc |-> BP!PredictTarget(pc)]

\* readRegs is the register file that the falling edge's reads see
LoadEx(readRegs) ==
  ex' = IF FlushEx THEN ExBubble
        ELSE [valid |-> IsValid(iss.instr), instr |-> iss.instr, pc |-> iss.pc,
              seqpc |-> iss.seqpc, brnpc |-> IssTarget,
              pred |-> iss.pred, predpc |-> iss.predpc,
              p1 |-> readRegs[iss.instr.rs1], p2 |-> readRegs[iss.instr.rs2]]

\* (mutant) the data of a store not forwarded
LoadMemStale ==
  mem' = [valid |-> ex.valid, rfEn |-> RfEn(ex.instr), wbSel |-> WbSel(ex.instr),
          memWr |-> MemWr(ex.instr), isLw |-> IsLw(ex.instr), rd |-> ex.instr.rd,
          alu |-> Result(ex.instr, ex.pc, P1, P2), seqpc |-> ex.seqpc, p2 |-> ex.p2]

\* The memory and write-back registers are never flushed
LoadMem ==
  mem' = [valid |-> ex.valid, rfEn |-> RfEn(ex.instr), wbSel |-> WbSel(ex.instr),
          memWr |-> MemWr(ex.instr), isLw |-> IsLw(ex.instr), rd |-> ex.instr.rd,
          alu |-> Result(ex.instr, ex.pc, P1, P2), seqpc |-> ex.seqpc, p2 |-> P2]

LoadWb ==
  wb' = [valid |-> mem.valid, rfEn |-> mem.rfEn, wbSel |-> mem.wbSel, rd |-> mem.rd,
         alu |-> mem.alu, rdata |-> ReadData, seqpc |-> mem.seqpc]

\* A clock cycle, from one rising edge to the next
Cycle(order) ==
  /\ regs' = RegsWritten
  /\ pc' = NextPC
  /\ LoadIss
  /\ LoadEx(IF order = WriteFirst THEN RegsWritten ELSE regs)
  /\ LoadMem
  /\ LoadWb
  /\ dmem' = IF mem.memWr THEN [dmem EXCEPT ![DmemIndex(mem.alu)] = mem.p2] ELSE dmem
  /\ BP!Feedback(IsBranch(ex.instr), ex.pc, CorrectPred, ex.brnpc)
  /\ UNCHANGED prog

\* A reset pulse over a rising edge.  Only ISS_EX_REG waits for that edge: the
\* others are cleared at once, so a store in MEM is lost, a result in WB is
\* written only when the pulse came after the falling edge, and a branch in EX
\* still reaches the predictor, its operands no longer forwarded.
Reset ==
  LET taken   == Taken(ex.instr, ex.pc, ex.p1, ex.p2)
      correct == ex.pred = taken /\ ex.brnpc = ex.predpc
  IN  /\ pc' = TextBase
      /\ iss' = IssBubble /\ ex' = ExBubble /\ mem' = MemBubble /\ wb' = WbBubble
      /\ regs' \in {regs, RegsWritten}
      /\ BP!Feedback(IsBranch(ex.instr), ex.pc, correct, ex.brnpc)
      /\ UNCHANGED <<prog, dmem>>

Run  == \E order \in NegedgeOrders : Cycle(order)
Next == Run \/ Reset

\* The clock never stops; the reset is the environment's
Spec == Init /\ [][Next]_vars /\ WF_vars(Run)

-----------------------------------------------------------------------------
TypeOK ==
  /\ prog \in Program
  /\ pc \in Word
  /\ iss \in IssReg /\ ex \in ExReg /\ mem \in MemReg /\ wb \in WbReg
  /\ regs \in [Reg -> Word]
  /\ dmem \in [DmemWords -> Word]
  /\ BP!TypeOK

-----------------------------------------------------------------------------
(* The architectural state: what the machine would hold if fetching stopped   *)
(* and the pipeline drained.  An instruction counts as executed from the edge *)
(* that takes it out of EX.                                                    *)

Goes   == IF IsJump(ex.instr) \/ BranchTaken THEN ex.brnpc ELSE ex.seqpc
ArchPC == IF ex.valid THEN ex.pc ELSE IF IsValid(iss.instr) THEN iss.pc ELSE pc

MemData  == CASE mem.wbSel = "alu" -> mem.alu
              [] mem.wbSel = "seq" -> mem.seqpc
              [] mem.wbSel = "mem" -> ReadData
ArchRegs == IF mem.rfEn /\ mem.rd # 0 THEN [RegsWritten EXCEPT ![mem.rd] = MemData]
                                      ELSE RegsWritten
ArchDmem == IF mem.memWr THEN [dmem EXCEPT ![DmemIndex(mem.alu)] = mem.p2] ELSE dmem

Sequential == INSTANCE RVSequential WITH apc <- ArchPC, aregs <- ArchRegs, admem <- ArchDmem

\* Refinement: cycle by cycle the pipeline does what the sequential machine does:
\* every instruction it takes out of EX is the next one of the program, its
\* operands hold every earlier result, and no wrong-path instruction leaves a
\* trace in the registers or the memory (top.v as a whole, against the claim of
\* hazard_unit.v that forwarding makes stalls unnecessary).
ImplementsSequential == Sequential!Spec

-----------------------------------------------------------------------------
(* Programs.  Static restrictions under which properties are stated.          *)

\* Control begins at a loaded word and never leaves them
Closed(p) ==
  /\ IsValid(Imem(p, TextBase))
  /\ \A a \in Word : IsValid(Imem(p, a)) => \A b \in Succ(p, a) : IsValid(Imem(p, b))

\* No branch is the second successor of a branch, unless a jump lies between
BranchSpacing(p) ==
  \A a \in Word : IsBranch(Imem(p, a)) =>
    \A b \in Succ(p, a) : ~IsJump(Imem(p, b)) =>
      \A c \in Succ(p, b) : ~IsBranch(Imem(p, c))

\* The instructions that use what they read through the second port
ReadsRs2(i) == i.op \in RTypes \cup BTypes \cup STypes

\* The word a load brings is not the second operand of the next instruction
NoLoadUseRs2(p) ==
  \A a \in Word : LET i == Imem(p, a) IN IsLoad(i) /\ i.rd # 0 =>
    \A b \in Succ(p, a) : ~(ReadsRs2(Imem(p, b)) /\ Imem(p, b).rs2 = i.rd)

\* The link a JALR writes is no operand of the next instruction
NoLinkUse(p) ==
  \A a \in Word : LET i == Imem(p, a) IN i.op = "JALR" /\ i.rd # 0 =>
    \A b \in Succ(p, a) : LET j == Imem(p, b) IN
      ~(Op1Sel(j) = "rs1" /\ j.rs1 = i.rd) /\ ~(ReadsRs2(j) /\ j.rs2 = i.rd)

-----------------------------------------------------------------------------
(* Properties *)

\* The alu_res_mem that forwarding offers is not what a JAL writes (its link
\* address), so a JAL in MEM must never have a reader behind it in EX.  That
\* holds only because the jump flushed its fetch shadow two cycles earlier
\* (hazard_unit.v:62, top.v:381-388).  It does not hold of JALR, whose word no
\* jump logic knows (top.v:305): is_lw, which is set for it alone, tells the two.
LinkShadow == mem.rfEn /\ mem.wbSel = "seq" /\ ~mem.isLw => ~ex.valid

\* The operands EX computes with hold every result of the older instructions,
\* those in MEM and WB included (top.v:381-388 against hazard_unit.v:50-52).
OperandsCurrent ==
  ex.valid =>
    /\ Op1Sel(ex.instr) = "rs1" => P1 = ArchRegs[ex.instr.rs1]
    /\ ReadsRs2(ex.instr)       => P2 = ArchRegs[ex.instr.rs2]

\* The same for every program: the operands miss a result in two cases only, the
\* word that a load in MEM brings, as a second operand (top.v:386 has no
\* read_data_dmem_ram arm), and the link of a JALR in MEM, as either one (top.v:381
\* takes it for a load, and nothing has flushed what follows it).
OperandsForwarded ==
  ex.valid =>
    /\ P1 = ArchRegs[ex.instr.rs1] \/ (mem.isLw /\ mem.wbSel = "seq" /\ FromMem(ex.instr.rs1))
    /\ P2 = ArchRegs[ex.instr.rs2] \/ (mem.isLw /\ FromMem(ex.instr.rs2))

\* Between two edges without a reset the architectural pc moves exactly when an
\* instruction leaves EX, and then to that instruction's successor: no prediction,
\* flush or jump in its shadow loses an instruction or lets a wrong one through
\* (top.v:175-194, 410-427, hazard_unit.v:55-62).
ControlFlow == [][Run => ArchPC' = IF ex.valid THEN Goes ELSE ArchPC]_vars

\* The predictor names a target only after a branch has left one: an entry that
\* has ever moved holds the target of a branch of the program that maps to it
\* (one_level_bpred.v:33-45), however many addresses share the entry.
BtbTrained ==
  \A e \in 0..(PredEntries - 1) : bpred[e] # 0 =>
    \E a \in Word : IsBranch(Imem(prog, a)) /\ BP!Index(a) = e /\ btb[e] = Target(prog, a)

\* The pipeline never stops retiring: no sequence of mispredictions, aliased
\* predictions and flushes keeps it from write-back for ever, unless it is reset
\* again and again.
Progress == []<>(wb.valid) \/ []<><<Reset>>_vars
=============================================================================
