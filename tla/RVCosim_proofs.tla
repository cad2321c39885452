---------------------------- MODULE RVCosim_proofs ----------------------------
(***************************************************************************)
(* Theorems of the RISC-V pipeline and of its testbench.                   *)
(* The pipeline, for every width, program and ALU: its types, the          *)
(* predictor and forwarding; then, when the register file writes before it *)
(* reads and the programs are within the restrictions, that its control    *)
(* flow is the program's and that it implements RVSequential.              *)
(* The testbench never reports a difference, the simulator's registers are *)
(* the pipeline's after every cycle, and so is its memory but for the      *)
(* store in write-back: for every width, predictor, number of registers    *)
(* and length of the test, on programs for which the pipeline is right and *)
(* both machines mean the same; and with the ALU of alu.v.                 *)
(***************************************************************************)
EXTENDS RVCosim, RVPipelineInv, RVAlu_proofs

-----------------------------------------------------------------------------
(* What the operators of the model return *)

LEMMA WordFacts == /\ 0 \in Word /\ 4 \in Word /\ Word \subseteq Int /\ Word \subseteq Nat
                   /\ 0 \in Reg /\ DmemFill \in Word /\ TextBase \in Word
  BY WordAssumption, PipelineAssumption DEF Word, Reg

LEMMA ModType == \A a \in Int : a % WordSize \in Word
  BY WordAssumption DEF Word

LEMMA AddType == \A a, b \in Int : Add(a, b) \in Word
  BY ModType DEF Add

LEMMA DmemIndexType == \A a \in Word : DmemIndex(a) \in DmemWords
  BY WordAssumption DEF Word, DmemIndex, DmemWords

LEMMA IndexType == \A a \in Word : BP!Index(a) \in 0..(PredEntries - 1)
  BY PipelineAssumption, WordFacts DEF BP!Index

LEMMA NoInstrType == NoInstr \in Instr /\ ~IsBranch(NoInstr) /\ ~IsJump(NoInstr)
                     /\ ~IsValid(NoInstr) /\ ~IsLoad(NoInstr) /\ ~IsLw(NoInstr)
                     /\ ~RfEn(NoInstr)
                     /\ ~MemWr(NoInstr) /\ WbSel(NoInstr) = "mem"
  BY WordAssumption DEF NoInstr, Instr, InstrFields, ValidOps, Reg, ImmRange, RTypes,
     ITypes, STypes, BTypes, UTypes, JTypes, Loads, IsBranch, IsJump, IsLoad, IsLw,
     IsValid, RfEn, MemWr, WbSel

LEMMA InstrType ==
  ASSUME NEW i \in Instr
  PROVE  /\ i.op \in ValidOps \cup {"NONE"} /\ i.rd \in Reg /\ i.rs1 \in Reg /\ i.rs2 \in Reg
         /\ i.imm \in ImmRange(i.op) /\ i.imm \in Nat
  BY DEF Instr, InstrFields

LEMMA ControlType ==
  ASSUME NEW i \in Instr
  PROVE  /\ WbSel(i) \in {"alu", "seq", "mem"} /\ AluFn(i) \in AluFns
         /\ IsLw(i) \in BOOLEAN /\ RfEn(i) \in BOOLEAN /\ MemWr(i) \in BOOLEAN
         /\ IsValid(i) \in BOOLEAN /\ IsBranch(i) \in BOOLEAN
         /\ Op1Sel(i) \in {"imm", "rs1"} /\ Op2Sel(i) \in {"rs2", "imm", "pc", "zero"}
  <1>1. WbSel(i) \in {"alu", "seq", "mem"}
    BY DEF WbSel
  <1>2. AluFn(i) \in AluFns
    BY DEF AluFn, AluFns
  <1>3. Op1Sel(i) \in {"imm", "rs1"} /\ Op2Sel(i) \in {"rs2", "imm", "pc", "zero"}
    BY DEF Op1Sel, Op2Sel
  <1> QED
    BY <1>1, <1>2, <1>3 DEF IsLw, RfEn, MemWr, IsValid, IsBranch

LEMMA SignExtendType ==
  ASSUME NEW size \in 1..WordSize, NEW imm \in 0..(size - 1)
  PROVE  SignExtend(imm, size) \in Word
  BY WordAssumption DEF SignExtend, Word

LEMMA ImmValueType ==
  ASSUME NEW i \in Instr
  PROVE  ImmValue(i) \in Word
  <1> DEFINE s12 == SignExtend(i.imm, Imm12Size)
             s20 == SignExtend(i.imm, Imm20Size)
  <1>1. CASE i.op \in JTypes
    <2>1. s20 \in Word
      BY <1>1, InstrType, SignExtendType, WordAssumption DEF ImmRange
    <2>2. Add(s20, s20) \in Word
      BY <2>1, AddType, WordFacts
    <2>3. ImmValue(i) = Add(s20, s20)
      BY <1>1 DEF ImmValue, JTypes, UTypes, BTypes, ITypes, Loads, STypes
    <2> QED
      BY <2>2, <2>3
  <1>2. CASE i.op \in UTypes
    <2>1. i.imm * UpperUnit \in Int
      BY InstrType, WordAssumption
    <2>2. ImmValue(i) = (i.imm * UpperUnit) % WordSize
      BY <1>2 DEF ImmValue, JTypes, UTypes, BTypes, ITypes, Loads, STypes
    <2> QED
      BY <2>1, <2>2, ModType
  <1>3. CASE i.op \notin JTypes \cup UTypes
    <2>1. s12 \in Word
      BY <1>3, InstrType, SignExtendType, WordAssumption DEF ImmRange
    <2>2. Add(s12, s12) \in Word
      BY <2>1, AddType, WordFacts
    <2>3. ImmValue(i) \in {Add(s12, s12), s12, 0}
      BY <1>3 DEF ImmValue
    <2> QED
      BY <2>1, <2>2, <2>3, WordFacts
  <1> QED
    BY <1>1, <1>2, <1>3

LEMMA AluType ==
  ASSUME NEW i \in Instr, NEW p \in Word, NEW p1 \in Word, NEW p2 \in Word
  PROVE  Result(i, p, p1, p2) \in Word
  <1>1. OperandA(i, p1) \in Word
    BY ImmValueType DEF OperandA
  <1>2. OperandB(i, p, p2) \in Word
    BY ImmValueType, ControlType, WordFacts DEF OperandB
  <1> QED
    BY <1>1, <1>2, ControlType, AluAssumption DEF Result

LEMMA ImemType ==
  ASSUME NEW p \in Program, NEW a \in Word
  PROVE  Imem(p, a) \in Instr
  BY NoInstrType DEF Imem, Program

-----------------------------------------------------------------------------
(* Type correctness *)

LEMMA StageTypes ==
  ASSUME TypeOK
  PROVE  /\ ex \in ExReg /\ ex.instr \in Instr /\ ex.pc \in Word /\ ex.seqpc \in Word
         /\ ex.brnpc \in Word /\ ex.p1 \in Word /\ ex.p2 \in Word /\ ex.predpc \in Word
         /\ ex.valid \in BOOLEAN /\ ex.pred \in BOOLEAN
         /\ iss.instr \in Instr /\ iss.pc \in Word /\ iss.seqpc \in Word
         /\ iss.pred \in BOOLEAN /\ iss.predpc \in Word
         /\ mem.valid \in BOOLEAN /\ mem.rfEn \in BOOLEAN /\ mem.memWr \in BOOLEAN
         /\ mem.isLw \in BOOLEAN /\ mem.rd \in Reg /\ mem.alu \in Word
         /\ mem.seqpc \in Word /\ mem.p2 \in Word /\ mem.wbSel \in {"alu", "seq", "mem"}
         /\ wb.valid \in BOOLEAN /\ wb.rfEn \in BOOLEAN /\ wb.rd \in Reg
         /\ wb.alu \in Word /\ wb.rdata \in Word /\ wb.seqpc \in Word
         /\ wb.wbSel \in {"alu", "seq", "mem"}
         /\ pc \in Word /\ prog \in Program
         /\ regs \in [Reg -> Word] /\ dmem \in [DmemWords -> Word]
         /\ bpred \in [0..(PredEntries - 1) -> 0..3] /\ btb \in [0..(PredEntries - 1) -> Word]
  BY DEF TypeOK, IssReg, ExReg, MemReg, WbReg, BP!TypeOK, Word

\* What the stages drive
LEMMA WireTypes ==
  ASSUME TypeOK
  PROVE  /\ WbData \in Word /\ ReadData \in Word /\ RegsWritten \in [Reg -> Word]
         /\ P1 \in Word /\ P2 \in Word /\ IssTarget \in Word /\ NextPC \in Word
         /\ Imem(prog, pc) \in Instr /\ SeqPC(pc) \in Word
         /\ BP!PredictTarget(pc) \in Word
  <1>1. WbData \in Word
    BY StageTypes, WordFacts DEF WbData
  <1>2. ReadData \in Word
    BY StageTypes, DmemIndexType DEF ReadData
  <1>3. RegsWritten \in [Reg -> Word]
    BY <1>1, StageTypes DEF RegsWritten
  <1>4. P1 \in Word /\ P2 \in Word
    BY <1>1, <1>2, StageTypes DEF P1, P2
  <1>5. IssTarget \in Word
    BY StageTypes, ImmValueType, AddType, WordFacts DEF IssTarget
  <1>6. SeqPC(pc) \in Word
    BY StageTypes, AddType, WordFacts DEF SeqPC
  <1>7. BP!PredictTarget(pc) \in Word
    BY StageTypes, IndexType, WordFacts DEF BP!PredictTarget
  <1>8. NextPC \in Word
    BY <1>5, <1>6, <1>7, StageTypes DEF NextPC, NextCalPC
  <1>9. Imem(prog, pc) \in Instr
    BY StageTypes, ImemType
  <1> QED
    BY <1>1, <1>2, <1>3, <1>4, <1>5, <1>6, <1>7, <1>8, <1>9

LEMMA BubbleTypes == /\ IssBubble \in IssReg /\ ExBubble \in ExReg
                     /\ MemBubble \in MemReg /\ WbBubble \in WbReg
  BY NoInstrType, WordFacts
     DEF IssBubble, ExBubble, MemBubble, WbBubble, IssReg, ExReg, MemReg, WbReg

LEMMA FeedbackType ==
  ASSUME TypeOK, NEW isBranch, NEW correct, NEW p \in Word, NEW target \in Word,
         BP!Feedback(isBranch, p, correct, target)
  PROVE  BP!TypeOK'
  <1>1. \A c \in 0..3 : BP!NextCount(c, correct) \in 0..3
    BY DEF BP!NextCount
  <1>2. bpred' \in [0..(PredEntries - 1) -> 0..3]
    BY <1>1, StageTypes, IndexType DEF BP!Feedback
  <1>3. btb' \in [0..(PredEntries - 1) -> Word]
    BY StageTypes, IndexType DEF BP!Feedback
  <1> QED
    BY <1>2, <1>3 DEF BP!TypeOK, Word

\* One step for each register the cycle loads
LEMMA CycleType ==
  ASSUME TypeOK, NEW order \in NegedgeOrders, Cycle(order)
  PROVE  TypeOK'
  <1>1. prog' \in Program /\ pc' \in Word /\ regs' \in [Reg -> Word]
    BY StageTypes, WireTypes DEF Cycle
  <1>2. iss' \in IssReg
    BY StageTypes, WireTypes, BubbleTypes DEF Cycle, LoadIss, IssReg, BP!PredictTaken
  <1>3. ex' \in ExReg
    <2>1. (IF order = WriteFirst THEN RegsWritten ELSE regs) \in [Reg -> Word]
      BY StageTypes, WireTypes
    <2> QED
      BY <2>1, StageTypes, WireTypes, BubbleTypes, InstrType, ControlType
         DEF Cycle, LoadEx, ExReg
  <1>4. mem' \in MemReg
    BY StageTypes, WireTypes, ControlType, AluType, InstrType DEF Cycle, LoadMem, MemReg
  <1>5. wb' \in WbReg
    BY StageTypes, WireTypes DEF Cycle, LoadWb, WbReg
  <1>6. dmem' \in [DmemWords -> Word]
    BY StageTypes, DmemIndexType DEF Cycle
  <1>7. BP!TypeOK'
    BY StageTypes, FeedbackType DEF Cycle
  <1> QED
    BY <1>1, <1>2, <1>3, <1>4, <1>5, <1>6, <1>7 DEF TypeOK

LEMMA ResetType ==
  ASSUME TypeOK, Reset
  PROVE  TypeOK'
  <1>1. BP!TypeOK'
    BY StageTypes, FeedbackType DEF Reset
  <1> QED
    BY <1>1, StageTypes, WireTypes, BubbleTypes, WordFacts DEF Reset, TypeOK

LEMMA InitType == Init => TypeOK
  <1> SUFFICES ASSUME Init PROVE TypeOK
    OBVIOUS
  <1>1. BP!TypeOK
    BY PipelineAssumption, WordFacts DEF Init, BP!Init, BP!TypeOK, Word
  <1> QED
    BY <1>1, BubbleTypes, WordFacts, PipelineAssumption DEF Init, TypeOK

LEMMA StepType == TypeOK /\ [Next]_vars => TypeOK'
  <1> SUFFICES ASSUME TypeOK, [Next]_vars PROVE TypeOK'
    OBVIOUS
  <1>1. CASE Run
    BY <1>1, CycleType DEF Run
  <1>2. CASE Reset
    BY <1>2, ResetType
  <1>3. CASE UNCHANGED vars
    BY <1>3 DEF vars, stages, TypeOK, BP!TypeOK
  <1> QED
    BY <1>1, <1>2, <1>3 DEF Next

\* Every register, table and memory holds a value of its width in every reachable
\* state, whatever the program, the widths and the ALU (the declarations of top.v).
THEOREM TypeCorrect == Spec => []TypeOK
  BY InitType, StepType, PTL DEF Spec

-----------------------------------------------------------------------------
(* What the stages hold: the fetched words *)

LEMMA InitFetch == Init => FetchInv
  <1> SUFFICES ASSUME Init PROVE ExFetched /\ iss = IssBubble
    BY DEF FetchInv
  <1>1. ex = ExBubble /\ iss = IssBubble
    BY DEF Init
  <1> QED
    BY <1>1 DEF ExFetched, ExBubble, NoInstr, IsValid

LEMMA CycleFetch ==
  ASSUME FetchInv, NEW order, Cycle(order)
  PROVE  FetchInv'
  <1>1. ExFetched'
    <2>1. CASE FlushEx
      BY <2>1 DEF Cycle, LoadEx, ExFetched, ExBubble, NoInstr, IsValid
    <2>2. CASE ~FlushEx
      <3>1. CASE iss = IssBubble
        BY <2>2, <3>1, NoInstrType DEF Cycle, LoadEx, ExFetched, IssBubble
      <3>2. CASE IssIsFetched
        BY <2>2, <3>2 DEF Cycle, LoadEx, ExFetched, IssIsFetched, IssTarget, Target
      <3> QED
        BY <3>1, <3>2 DEF FetchInv
    <2> QED
      BY <2>1, <2>2
  <1>2. iss' = IssBubble \/ IssIsFetched'
    BY DEF Cycle, LoadIss, IssIsFetched
  <1> QED
    BY <1>1, <1>2 DEF FetchInv

LEMMA StepFetch == FetchInv /\ [Next]_vars => FetchInv'
  <1> SUFFICES ASSUME FetchInv, [Next]_vars PROVE FetchInv'
    OBVIOUS
  <1>1. CASE Run
    BY <1>1, CycleFetch DEF Run
  <1>2. CASE Reset
    BY <1>2 DEF Reset, FetchInv, ExFetched, ExBubble, NoInstr, IsValid
  <1>3. CASE UNCHANGED vars
    BY <1>3 DEF vars, stages, FetchInv, ExFetched, IssIsFetched
  <1> QED
    BY <1>1, <1>2, <1>3 DEF Next

-----------------------------------------------------------------------------
(* The branch predictor *)

\* A branch in EX feeds its own target back, and a correct prediction leaves an
\* entry at 0 where it is
LEMMA FeedbackTrains ==
  ASSUME TypeOK, FetchInv, BtbTrained, NEW correct,
         BP!Feedback(IsBranch(ex.instr), ex.pc, correct, ex.brnpc), prog' = prog
  PROVE  BtbTrained'
  <1> SUFFICES ASSUME NEW e \in 0..(PredEntries - 1), bpred'[e] # 0
               PROVE  \E a \in Word : /\ IsBranch(Imem(prog, a)) /\ BP!Index(a) = e
                                     /\ btb'[e] = Target(prog, a)
    BY DEF BtbTrained
  <1> USE StageTypes, IndexType
  <1>1. CASE ~IsBranch(ex.instr) \/ e # BP!Index(ex.pc)
    <2>1. bpred'[e] = bpred[e] /\ btb'[e] = btb[e]
      BY <1>1 DEF BP!Feedback
    <2> QED
      BY <2>1 DEF BtbTrained
  <1>2. CASE IsBranch(ex.instr) /\ e = BP!Index(ex.pc) /\ ~correct
    <2>1. btb'[e] = ex.brnpc
      BY <1>2 DEF BP!Feedback
    <2>2. ex.valid
      BY <1>2 DEF FetchInv, ExFetched, IsBranch, IsValid, BTypes
    <2> QED
      BY <1>2, <2>1, <2>2 DEF FetchInv, ExFetched
  <1>3. CASE IsBranch(ex.instr) /\ e = BP!Index(ex.pc) /\ correct
    <2>1. bpred'[e] = BP!NextCount(bpred[e], correct) /\ btb'[e] = btb[e]
      BY <1>3 DEF BP!Feedback
    <2>2. BP!NextCount(0, correct) = 0
      BY <1>3 DEF BP!NextCount
    <2>3. bpred[e] # 0
      BY <2>1, <2>2
    <2> QED
      BY <2>1, <2>3 DEF BtbTrained
  <1> QED
    BY <1>1, <1>2, <1>3

LEMMA StepBtb == TypeOK /\ FetchInv /\ BtbTrained /\ [Next]_vars => BtbTrained'
  <1> SUFFICES ASSUME TypeOK, FetchInv, BtbTrained, [Next]_vars PROVE BtbTrained'
    OBVIOUS
  <1>1. CASE Run
    BY <1>1, FeedbackTrains DEF Run, Cycle
  <1>2. CASE Reset
    BY <1>2, FeedbackTrains DEF Reset
  <1>3. CASE UNCHANGED vars
    BY <1>3 DEF vars, BtbTrained
  <1> QED
    BY <1>1, <1>2, <1>3 DEF Next

LEMMA InitBtb == Init => BtbTrained
  BY DEF Init, BP!Init, BtbTrained

\* However many addresses share an entry of the predictor, the target it gives is
\* the target of a branch of the program that maps to it (one_level_bpred.v:33-45).
THEOREM PredictorTrained == Spec => []BtbTrained
  <1>1. TypeOK /\ FetchInv /\ BtbTrained /\ [Next]_vars => (TypeOK /\ FetchInv /\ BtbTrained)'
    BY StepType, StepFetch, StepBtb
  <1> QED
    BY InitType, InitFetch, InitBtb, <1>1, PTL DEF Spec

-----------------------------------------------------------------------------
(* Forwarding *)

LEMMA WbDataZero == wb.rd = 0 => WbData = 0
  BY DEF WbData

\* The instructions whose result is not the one of the ALU
LEMMA ControlRows ==
  ASSUME NEW i \in Instr
  PROVE  /\ WbSel(i) = "seq" /\ ~IsLw(i) => IsJump(i)
         /\ WbSel(i) = "seq" /\ IsLw(i) => i.op = "JALR"
         /\ RfEn(i) /\ WbSel(i) # "seq" => (IsLw(i) <=> WbSel(i) = "mem")
         /\ IsJump(i) => ~IsBranch(i) /\ IsValid(i)
  <1> USE DEF RTypes, ITypes, STypes, BTypes, UTypes, JTypes, Loads
  <1>1. WbSel(i) = "seq" => i.op \in JTypes \cup {"JALR"}
    BY DEF WbSel
  <1>2. RfEn(i) /\ WbSel(i) # "seq" => (IsLw(i) <=> WbSel(i) = "mem")
    <2>1. CASE i.op \in Loads
      <3>1. WbSel(i) = "mem"
        BY <2>1 DEF WbSel
      <3> QED
        BY <2>1, <3>1 DEF IsLw
    <2>2. CASE i.op \in (RTypes \cup ITypes \cup UTypes) \ (Loads \cup {"JALR"})
      <3>1. WbSel(i) = "alu"
        BY <2>2 DEF WbSel
      <3> QED
        BY <2>2, <3>1 DEF IsLw
    <2>3. CASE i.op \in JTypes \cup {"JALR"}
      BY <2>3 DEF WbSel
    <2> QED
      BY <2>1, <2>2, <2>3 DEF RfEn
  <1>3. IsJump(i) => ~IsBranch(i) /\ IsValid(i)
    BY DEF IsJump, IsBranch, IsValid
  <1> QED
    BY <1>1, <1>2, <1>3 DEF IsJump, IsLw

LEMMA InitForward == Init => ForwardInv
  BY PipelineAssumption, NoInstrType, WordFacts
     DEF Init, ForwardInv, ExBubble, MemBubble, NoInstr

LEMMA CycleForward ==
  ASSUME TypeOK, FetchInv, ForwardInv, NEW order, order = WriteFirst, Cycle(order)
  PROVE  ForwardInv'
  <1>1. IsJump(ex'.instr) => iss' = IssBubble
    <2>1. CASE FlushEx
      BY <2>1, NoInstrType DEF Cycle, LoadEx, ExBubble
    <2>2. CASE ~FlushEx
      BY <2>2 DEF Cycle, LoadEx, LoadIss, FlushIss, JumpIss
    <2> QED
      BY <2>1, <2>2
  <1>2. mem'.rfEn /\ mem'.wbSel = "seq" /\ ~mem'.isLw => ~ex'.valid
    <2> SUFFICES ASSUME mem'.wbSel = "seq", ~mem'.isLw PROVE ~ex'.valid
      OBVIOUS
    <2>1. IsJump(ex.instr)
      BY StageTypes, ControlRows DEF Cycle, LoadMem
    <2>2. iss = IssBubble
      BY <2>1 DEF ForwardInv
    <2> QED
      BY <2>2, NoInstrType DEF Cycle, LoadEx, ExBubble, IssBubble
  <1>3. mem'.rfEn /\ mem'.wbSel # "seq" => (mem'.isLw <=> mem'.wbSel = "mem")
    BY StageTypes, ControlRows DEF Cycle, LoadMem
  <1>4. regs'[0] = 0
    BY StageTypes, WbDataZero DEF Cycle, RegsWritten, ForwardInv
  <1>5. ex'.p1 = regs'[ex'.instr.rs1] /\ ex'.p2 = regs'[ex'.instr.rs2]
    <2>1. CASE FlushEx
      BY <2>1, <1>4 DEF Cycle, LoadEx, ExBubble, NoInstr
    <2>2. CASE ~FlushEx
      BY <2>2 DEF Cycle, LoadEx
    <2> QED
      BY <2>1, <2>2
  <1> QED
    BY <1>1, <1>2, <1>3, <1>4, <1>5 DEF ForwardInv

LEMMA ResetForward ==
  ASSUME TypeOK, ForwardInv, Reset
  PROVE  ForwardInv'
  <1>1. regs[0] = 0 /\ RegsWritten[0] = 0
    BY StageTypes, WbDataZero, WordFacts DEF RegsWritten, ForwardInv
  <1>2. regs'[0] = 0
    BY <1>1 DEF Reset
  <1> QED
    BY <1>2, NoInstrType DEF Reset, ForwardInv, ExBubble, MemBubble, NoInstr

LEMMA StepForward ==
  ASSUME NegedgeOrders = {WriteFirst}
  PROVE  TypeOK /\ FetchInv /\ ForwardInv /\ [Next]_vars => ForwardInv'
  <1> SUFFICES ASSUME TypeOK, FetchInv, ForwardInv, [Next]_vars PROVE ForwardInv'
    OBVIOUS
  <1>1. CASE Run
    BY <1>1, CycleForward DEF Run
  <1>2. CASE Reset
    BY <1>2, ResetForward
  <1>3. CASE UNCHANGED vars
    BY <1>3 DEF vars, stages, ForwardInv
  <1> QED
    BY <1>1, <1>2, <1>3 DEF Next

\* A register as the older instructions will leave it, seen by forwarding or not;
\* forwarding does not see the link of a JALR in MEM
LinkInMem == mem.isLw /\ mem.wbSel = "seq"

LEMMA ForwardedValue ==
  ASSUME TypeOK, ForwardInv, ex.valid, NEW rs \in Reg
  PROVE  /\ FromMem(rs) /\ ~LinkInMem =>
              ArchRegs[rs] = IF mem.isLw THEN ReadData ELSE mem.alu
         /\ ~FromMem(rs) => ArchRegs[rs] = IF FromWb(rs) THEN WbData ELSE regs[rs]
  <1> USE StageTypes, WireTypes
  <1>1. ASSUME FromMem(rs), ~LinkInMem
        PROVE  ArchRegs[rs] = IF mem.isLw THEN ReadData ELSE mem.alu
    <2>1. ArchRegs[rs] = MemData
      BY <1>1 DEF FromMem, ArchRegs
    <2>2. mem.wbSel # "seq" /\ (mem.isLw <=> mem.wbSel = "mem")
      BY <1>1 DEF FromMem, ForwardInv, LinkInMem
    <2> QED
      BY <2>1, <2>2 DEF MemData
  <1>2. ASSUME ~FromMem(rs) PROVE ArchRegs[rs] = IF FromWb(rs) THEN WbData ELSE regs[rs]
    <2>1. ArchRegs[rs] = RegsWritten[rs]
      BY <1>2 DEF FromMem, ArchRegs
    <2>2. RegsWritten[rs] = IF FromWb(rs) THEN WbData ELSE regs[rs]
      BY WbDataZero DEF RegsWritten, FromWb, ForwardInv
    <2> QED
      BY <2>1, <2>2
  <1> QED
    BY <1>1, <1>2

LEMMA ForwardInvOperands == TypeOK /\ ForwardInv => OperandsForwarded
  <1> SUFFICES ASSUME TypeOK, ForwardInv, ex.valid
               PROVE  /\ P1 = ArchRegs[ex.instr.rs1] \/ (LinkInMem /\ FromMem(ex.instr.rs1))
                      /\ P2 = ArchRegs[ex.instr.rs2] \/ (mem.isLw /\ FromMem(ex.instr.rs2))
    BY DEF OperandsForwarded, LinkInMem
  <1>1. ex.instr.rs1 \in Reg /\ ex.instr.rs2 \in Reg
    BY StageTypes, InstrType
  <1>2. P1 = ArchRegs[ex.instr.rs1] \/ (LinkInMem /\ FromMem(ex.instr.rs1))
    BY <1>1, ForwardedValue DEF P1, ForwardInv
  <1>3. P2 = ArchRegs[ex.instr.rs2] \/ (mem.isLw /\ FromMem(ex.instr.rs2))
    BY <1>1, ForwardedValue DEF P2, ForwardInv, LinkInMem
  <1> QED
    BY <1>2, <1>3

LEMMA StepForwardInv ==
  ASSUME NegedgeOrders = {WriteFirst}
  PROVE  TypeOK /\ FetchInv /\ ForwardInv /\ [Next]_vars => (TypeOK /\ FetchInv /\ ForwardInv)'
  BY StepType, StepFetch, StepForward

\* When the register file writes before it reads, the operands of the instruction in
\* EX are those the older instructions leave, but for a second operand that a load in
\* MEM brings and for the link of a JALR in MEM (top.v:305, 381-388, 438).
THEOREM ForwardingCorrect ==
  ASSUME NegedgeOrders = {WriteFirst}
  PROVE  Spec => []OperandsForwarded
  BY InitType, InitFetch, InitForward, ForwardInvOperands, StepForwardInv, PTL DEF Spec

-----------------------------------------------------------------------------
(* The shadow of a jump *)

ShadowInv ==
  /\ IsJump(ex.instr) => iss = IssBubble
  /\ mem.rfEn /\ mem.wbSel = "seq" /\ ~mem.isLw => ~ex.valid

LEMMA StepShadow == TypeOK /\ ShadowInv /\ [Next]_vars => ShadowInv'
  <1> SUFFICES ASSUME TypeOK, ShadowInv, [Next]_vars PROVE ShadowInv'
    OBVIOUS
  <1>1. ASSUME NEW order, Cycle(order) PROVE ShadowInv'
    <2>1. IsJump(ex'.instr) => iss' = IssBubble
      <3>1. CASE FlushEx
        BY <1>1, <3>1, NoInstrType DEF Cycle, LoadEx, ExBubble
      <3>2. CASE ~FlushEx
        BY <1>1, <3>2 DEF Cycle, LoadEx, LoadIss, FlushIss, JumpIss
      <3> QED
        BY <3>1, <3>2
    <2>2. mem'.wbSel = "seq" /\ ~mem'.isLw => IsJump(ex.instr)
      BY <1>1, StageTypes, ControlRows DEF Cycle, LoadMem
    <2>3. IsJump(ex.instr) => ~ex'.valid
      BY <1>1, NoInstrType DEF ShadowInv, Cycle, LoadEx, ExBubble, IssBubble
    <2> QED
      BY <2>1, <2>2, <2>3 DEF ShadowInv
  <1>2. CASE Reset
    BY <1>2, NoInstrType DEF Reset, ShadowInv, ExBubble, MemBubble
  <1>3. CASE UNCHANGED vars
    BY <1>3 DEF vars, stages, ShadowInv
  <1> QED
    BY <1>1, <1>2, <1>3 DEF Next, Run

\* The link address of a JAL is never needed from MEM, where forwarding would offer
\* the ALU's result instead: the jump has flushed its shadow, whatever the program, the
\* order at the falling edge, the predictor and the resets (hazard_unit.v:62).  A JALR
\* flushes nothing: of it the theorem says nothing.
THEOREM LinkShadowed == Spec => []LinkShadow
  <1>1. Init => ShadowInv
    BY NoInstrType DEF Init, ShadowInv, ExBubble, MemBubble
  <1>2. ShadowInv => LinkShadow
    BY DEF ShadowInv, LinkShadow
  <1> QED
    BY InitType, StepType, StepShadow, <1>1, <1>2, PTL DEF Spec

-----------------------------------------------------------------------------
(* The right path of programs within the restrictions *)

GoodProg == prog \in Program /\ Closed(prog) /\ BranchSpacing(prog)

\* The part of FlowInv that the next state must establish beside FetchInv
Behind == BehindEx /\ BehindIss /\ Bubbles

-----------------------------------------------------------------------------
(* The wires of a cycle *)

LEMMA BranchFacts ==
  /\ BranchTaken \in BOOLEAN
  /\ BranchTaken => IsBranch(ex.instr)
  /\ IsBranch(ex.instr) => ~IsJump(ex.instr)
  BY DEF BranchTaken, Taken, IsBranch, IsJump, BTypes, JTypes

\* A step that flushes EX for another instruction than a jump goes where it goes
LEMMA SquashWires ==
  ASSUME TypeOK, FlushEx, ~IsJump(ex.instr)
  PROVE  FlushIss /\ NextPC = Goes
  BY StageTypes, BranchFacts
     DEF FlushEx, FlushIss, Mispredict, CorrectPred, NextPC, NextCalPC, Goes

\* A step that does not follows the jump in ISS or the predictor
LEMMA FollowWires ==
  ASSUME TypeOK, ~FlushEx \/ IsJump(ex.instr)
  PROVE  /\ ~FlushEx => (FlushIss <=> JumpIss)
         /\ ~JumpIss => ~FlushIss
         /\ ~FlushEx /\ JumpIss => NextPC = IssTarget
         /\ ~JumpIss => NextPC = IF ~IsBranch(ex.instr) /\ BP!PredictTaken(pc)
                                   THEN BP!PredictTarget(pc) ELSE SeqPC(pc)
  BY StageTypes, BranchFacts
     DEF FlushEx, FlushIss, Mispredict, CorrectPred, NextPC, NextCalPC

LEMMA InvalidEx ==
  ASSUME FetchInv, ~ex.valid
  PROVE  ~IsBranch(ex.instr) /\ ~IsJump(ex.instr) /\ (~ex.pred => ~FlushEx)
  <1>1. ~IsBranch(ex.instr) /\ ~IsJump(ex.instr)
    BY DEF FetchInv, ExFetched, IsValid, IsBranch, IsJump, BTypes, JTypes
  <1> QED
    BY <1>1, BranchFacts DEF FlushEx, Mispredict

-----------------------------------------------------------------------------
(* The right path *)

LEMMA GoesSucc == TypeOK /\ FetchInv /\ ex.valid => Goes \in Succ(prog, ex.pc) /\ Goes \in Word
  <1> SUFFICES ASSUME TypeOK, FetchInv, ex.valid
               PROVE  Goes \in Succ(prog, ex.pc) /\ Goes \in Word
    OBVIOUS
  <1>1. Goes \in Word
    BY StageTypes DEF Goes
  <1>2. Goes \in Succ(prog, ex.pc)
    BY BranchFacts DEF Goes, Succ, FetchInv, ExFetched
  <1> QED
    BY <1>1, <1>2

\* Behind an instruction that flushes nothing stands the one it goes to
LEMMA RightPath == TypeOK /\ BehindEx /\ ex.valid /\ ~IsJump(ex.instr) /\ ~FlushEx
                     => iss.pc = Goes /\ IssIsFetched
  BY StageTypes, BranchFacts DEF BehindEx, FlushEx, Mispredict, CorrectPred, Goes

LEMMA GoesValid ==
  ASSUME TypeOK, FetchInv, GoodProg, ex.valid
  PROVE  IsValid(Imem(prog, Goes))
  <1>1. IsValid(Imem(prog, ex.pc)) /\ ex.pc \in Word
    BY StageTypes DEF FetchInv, ExFetched
  <1> QED
    BY <1>1, GoesSucc DEF GoodProg, Closed

-----------------------------------------------------------------------------
(* The three kinds of cycle *)

\* EX flushes itself and what follows
LEMMA SquashStep ==
  ASSUME TypeOK, FlushEx, ~IsJump(ex.instr), NEW order, Cycle(order)
  PROVE  Behind' /\ ArchPC' = Goes
  <1>1. ex' = ExBubble /\ iss' = IssBubble /\ pc' = Goes
    BY SquashWires DEF Cycle, LoadEx, LoadIss
  <1>2. ~ex'.valid /\ ~ex'.pred /\ ~IsValid(iss'.instr)
    BY <1>1 DEF ExBubble, IssBubble, NoInstr, IsValid
  <1> QED
    BY <1>1, <1>2 DEF Behind, BehindEx, BehindIss, Bubbles, ArchPC

\* EX is empty or holds a jump, ISS is empty: the next word is fetched
LEMMA RefillStep ==
  ASSUME TypeOK, GoodProg, iss = IssBubble, IsValid(Imem(prog, pc)),
         ~FlushEx \/ IsJump(ex.instr), ~IsBranch(ex.instr), NEW order, Cycle(order)
  PROVE  Behind' /\ ArchPC' = pc
  <1>1. ~JumpIss
    BY NoInstrType DEF JumpIss, IssBubble
  <1>2. ~ex'.valid /\ ~ex'.pred
    BY DEF Cycle, LoadEx, ExBubble, IssBubble, NoInstr, IsValid
  <1>3. /\ iss'.instr = Imem(prog, pc) /\ iss'.pc = pc /\ iss'.seqpc = SeqPC(pc)
        /\ iss'.pred = BP!PredictTaken(pc) /\ iss'.predpc = BP!PredictTarget(pc)
    BY <1>1, FollowWires DEF Cycle, LoadIss
  <1>4. pc' = IF BP!PredictTaken(pc) THEN BP!PredictTarget(pc) ELSE SeqPC(pc)
    BY <1>1, FollowWires DEF Cycle
  <1> QED
    BY <1>2, <1>3, <1>4 DEF Behind, BehindEx, BehindIss, Bubbles, ArchPC

\* The instruction in ISS, on the right path, moves to EX
LEMMA FollowStep ==
  ASSUME TypeOK, TypeOK', FetchInv, FetchInv', GoodProg, Behind, ~FlushEx,
         IsValid(iss.instr), IssIsFetched, ex.valid => ~IsJump(ex.instr),
         NEW order, Cycle(order)
  PROVE  Behind' /\ ArchPC' = iss.pc
  <1>1. /\ ex'.valid /\ ex'.instr = iss.instr /\ ex'.pc = iss.pc /\ ex'.seqpc = iss.seqpc
        /\ ex'.brnpc = IssTarget /\ ex'.pred = iss.pred /\ ex'.predpc = iss.predpc
    BY DEF Cycle, LoadEx
  <1>2. CASE JumpIss
    <2>1. iss' = IssBubble /\ pc' = IssTarget
      BY <1>2, FollowWires DEF Cycle, LoadIss
    <2>2. ~IsValid(iss'.instr)
      BY <2>1 DEF IssBubble, NoInstr, IsValid
    <2> QED
      BY <1>1, <1>2, <2>1, <2>2 DEF Behind, BehindEx, BehindIss, Bubbles, ArchPC, JumpIss
  <1>3. CASE ~JumpIss
    <2>1. /\ iss'.instr = Imem(prog, pc) /\ iss'.pc = pc /\ iss'.seqpc = SeqPC(pc)
          /\ iss'.pred = BP!PredictTaken(pc) /\ iss'.predpc = BP!PredictTarget(pc)
          /\ prog' = prog
      BY <1>3, FollowWires DEF Cycle, LoadIss
    <2>2. pc' = IF ~IsBranch(ex.instr) /\ BP!PredictTaken(pc)
                  THEN BP!PredictTarget(pc) ELSE SeqPC(pc)
      BY <1>3, FollowWires DEF Cycle
    <2>3. BehindEx'
      BY <1>1, <1>3, <2>1 DEF Behind, BehindEx, BehindIss, JumpIss, IssIsFetched
    <2>4. ASSUME IsBranch(iss'.instr), iss'.pred, ~FlushEx' PROVE ~IsBranch(ex.instr)
      <3> SUFFICES ASSUME IsBranch(ex.instr) PROVE FALSE
        OBVIOUS
      <3>1. ex.valid
        BY InvalidEx
      <3>2. iss.pc \in Succ(prog, ex.pc)
        BY <3>1, RightPath, GoesSucc, BranchFacts DEF Behind
      <3>3. iss'.pc = Goes' /\ Goes' \in Succ(prog, iss.pc)
        <4>1. ~IsJump(ex'.instr)
          BY <1>1, <1>3 DEF JumpIss
        <4>2. (TypeOK /\ BehindEx /\ ex.valid /\ ~IsJump(ex.instr) /\ ~FlushEx
                 => iss.pc = Goes /\ IssIsFetched)'
          BY RightPath, PTL
        <4>3. (TypeOK /\ FetchInv /\ ex.valid => Goes \in Succ(prog, ex.pc) /\ Goes \in Word)'
          BY GoesSucc, PTL
        <4> QED
          BY <1>1, <2>1, <2>3, <2>4, <4>1, <4>2, <4>3
      <3>4. IsBranch(Imem(prog, ex.pc)) /\ ~IsJump(Imem(prog, iss.pc)) /\ ex.pc \in Word
        BY <1>3, <3>1, StageTypes DEF JumpIss, IssIsFetched, FetchInv, ExFetched
      <3>5. ~IsBranch(Imem(prog, iss'.pc))
        BY <3>2, <3>3, <3>4 DEF GoodProg, BranchSpacing
      <3> QED
        BY <2>1, <2>4, <3>5
    <2>5. BehindIss'
      BY <2>1, <2>2, <2>4 DEF BehindIss
    <2> QED
      BY <1>1, <2>3, <2>5 DEF Behind, Bubbles, ArchPC
  <1> QED
    BY <1>2, <1>3

-----------------------------------------------------------------------------
(* The invariant and the theorem *)

\* A cycle takes the architectural pc where the instruction in EX goes
LEMMA CycleFlow ==
  ASSUME TypeOK, TypeOK', FlowInv, FetchInv', GoodProg, NEW order, Cycle(order)
  PROVE  Behind' /\ ArchPC' = IF ex.valid THEN Goes ELSE ArchPC
  <1> USE DEF FlowInv
  <1>1. CASE ~ex.valid
    <2>1. ~FlushEx /\ ~IsBranch(ex.instr) /\ ~IsJump(ex.instr)
      BY <1>1, InvalidEx DEF Bubbles
    <2>2. CASE IsValid(iss.instr)
      <3>1. IssIsFetched
        BY <2>2 DEF FetchInv, IssBubble, NoInstr, IsValid
      <3> QED
        BY <1>1, <2>1, <2>2, <3>1, FollowStep DEF Behind, ArchPC
    <2>3. CASE ~IsValid(iss.instr)
      <3>1. iss = IssBubble /\ ArchPC = pc
        BY <1>1, <2>3 DEF Bubbles, ArchPC
      <3> QED
        BY <1>1, <2>1, <3>1, RefillStep
    <2> QED
      BY <2>2, <2>3
  <1>2. CASE ex.valid /\ IsJump(ex.instr)
    <2>1. iss = IssBubble /\ pc = ex.brnpc /\ Goes = ex.brnpc
      BY <1>2 DEF BehindEx, Goes
    <2>2. IsValid(Imem(prog, pc))
      BY <1>2, <2>1, GoesValid
    <2>3. ~IsBranch(ex.instr)
      BY <1>2, BranchFacts
    <2> QED
      BY <1>2, <2>1, <2>2, <2>3, RefillStep
  <1>3. CASE ex.valid /\ ~IsJump(ex.instr) /\ FlushEx
    BY <1>3, SquashStep
  <1>4. CASE ex.valid /\ ~IsJump(ex.instr) /\ ~FlushEx
    <2>1. iss.pc = Goes /\ IssIsFetched
      BY <1>4, RightPath
    <2>2. IsValid(iss.instr)
      BY <1>4, <2>1, GoesValid DEF IssIsFetched
    <2> QED
      BY <1>4, <2>1, <2>2, FollowStep DEF Behind
  <1> QED
    BY <1>1, <1>2, <1>3, <1>4

LEMMA InitFlow ==
  ASSUME \A p \in Programs : Closed(p) /\ BranchSpacing(p)
  PROVE  Init => FlowInv /\ GoodProg
  <1> SUFFICES ASSUME Init PROVE FlowInv /\ GoodProg
    OBVIOUS
  <1>1. GoodProg
    BY PipelineAssumption DEF Init, GoodProg
  <1>2. ex = ExBubble /\ iss = IssBubble /\ pc = TextBase
    BY DEF Init
  <1>3. ~ex.valid /\ ~ex.pred /\ ~IsValid(iss.instr)
    BY <1>2 DEF ExBubble, IssBubble, NoInstr, IsValid
  <1> QED
    BY <1>1, <1>2, <1>3, InitFetch
       DEF FlowInv, BehindEx, BehindIss, Bubbles, ArchPC, GoodProg, Closed

LEMMA StepFlow ==
  TypeOK /\ GoodProg /\ FlowInv /\ [Next]_vars => (GoodProg /\ FlowInv)'
  <1> SUFFICES ASSUME TypeOK, GoodProg, FlowInv, [Next]_vars
               PROVE  (GoodProg /\ FlowInv)'
    OBVIOUS
  <1>1. TypeOK' /\ FetchInv'
    BY StepType, StepFetch DEF FlowInv
  <1>2. prog' = prog
    BY DEF Next, Run, Reset, Cycle, vars
  <1>3. CASE Run
    <2>1. PICK order \in NegedgeOrders : Cycle(order)
      BY <1>3 DEF Run
    <2>2. Behind' /\ ArchPC' = IF ex.valid THEN Goes ELSE ArchPC
      BY <1>1, <2>1, CycleFlow
    <2>3. IsValid(Imem(prog, ArchPC'))
      BY <2>2, GoesValid DEF FlowInv
    <2> QED
      BY <1>1, <1>2, <2>2, <2>3 DEF FlowInv, GoodProg, Behind
  <1>4. CASE Reset
    <2>1. ex' = ExBubble /\ iss' = IssBubble /\ pc' = TextBase
      BY <1>4 DEF Reset
    <2>2. ~ex'.valid /\ ~ex'.pred /\ ~IsValid(iss'.instr)
      BY <2>1 DEF ExBubble, IssBubble, NoInstr, IsValid
    <2> QED
      BY <1>1, <1>2, <2>1, <2>2
         DEF FlowInv, BehindEx, BehindIss, Bubbles, ArchPC, GoodProg, Closed
  <1>5. CASE UNCHANGED vars
    <2>1. /\ BehindEx' /\ Bubbles' /\ ArchPC' = ArchPC
      BY <1>5 DEF FlowInv, BehindEx, Bubbles, ArchPC, IssIsFetched, vars, stages
    <2>2. BehindIss'
      <3>1. FlushEx' = FlushEx
        BY <1>5 DEF vars, stages, FlushEx, Mispredict, CorrectPred, BranchTaken, P1, P2,
                    FromMem, FromWb, WbData, ReadData
      <3> QED
        BY <1>5, <3>1 DEF FlowInv, BehindIss, vars, stages
    <2> QED
      BY <1>1, <1>2, <2>1, <2>2 DEF FlowInv, GoodProg
  <1> QED
    BY <1>3, <1>4, <1>5 DEF Next

LEMMA FlowAction ==
  TypeOK /\ GoodProg /\ FlowInv /\ [Next]_vars
    => [Run => ArchPC' = IF ex.valid THEN Goes ELSE ArchPC]_vars
  <1> SUFFICES ASSUME TypeOK, GoodProg, FlowInv, [Next]_vars, Run
               PROVE  ArchPC' = IF ex.valid THEN Goes ELSE ArchPC
    OBVIOUS
  <1>1. TypeOK' /\ FetchInv'
    BY StepType, StepFetch DEF FlowInv
  <1> QED
    BY <1>1, CycleFlow DEF Run

\* For every program within the restrictions, whatever the predictor has learnt and
\* however its entries are shared, no instruction is lost, repeated or let through
\* out of its turn (top.v:175-194, 410-427, hazard_unit.v:55-62).
THEOREM ControlFlowCorrect ==
  ASSUME \A p \in Programs : Closed(p) /\ BranchSpacing(p)
  PROVE  Spec => ControlFlow
  <1>1. TypeOK /\ GoodProg /\ FlowInv /\ [Next]_vars => (TypeOK /\ GoodProg /\ FlowInv)'
    BY StepType, StepFlow
  <1> QED
    BY InitType, InitFlow, FlowAction, <1>1, PTL DEF Spec, ControlFlow

-----------------------------------------------------------------------------
(* Operands *)

RightProg == GoodProg /\ NoLoadUseRs2(prog) /\ NoLinkUse(prog)

LEMMA InitNoMiss == Init => NoMissInv
  BY DEF Init, NoMissInv, ExBubble

\* What leaves EX without a jump or a flush has its successor behind it
LEMMA BehindWord ==
  ASSUME TypeOK, FlowInv, RightProg, NEW order, Cycle(order), ex'.valid, IsLw(ex.instr)
  PROVE  /\ ex'.instr = Imem(prog, iss.pc) /\ ex.instr = Imem(prog, ex.pc)
         /\ iss.pc \in Succ(prog, ex.pc) /\ ex.pc \in Word
  <1>1. ~FlushEx /\ ex'.instr = iss.instr
    BY DEF Cycle, LoadEx, ExBubble
  <1>2. ex.valid /\ ~IsJump(ex.instr)
    BY DEF FlowInv, FetchInv, ExFetched, IsLw, IsJump, IsValid, Loads, JTypes
  <1>3. iss.pc = Goes /\ IssIsFetched
    BY <1>1, <1>2, RightPath DEF FlowInv
  <1>4. iss.pc \in Succ(prog, ex.pc) /\ ex.pc \in Word
    BY <1>2, <1>3, GoesSucc, StageTypes DEF FlowInv
  <1> QED
    BY <1>1, <1>2, <1>3, <1>4 DEF FlowInv, FetchInv, ExFetched, IssIsFetched

LEMMA CycleNoMiss ==
  ASSUME TypeOK, FlowInv, RightProg, NEW order, Cycle(order)
  PROVE  NoMissInv'
  <1> SUFFICES ASSUME ex'.valid, mem'.isLw, mem'.rd # 0
               PROVE  /\ ~(ReadsRs2(ex'.instr) /\ mem'.rd = ex'.instr.rs2)
                      /\ mem'.wbSel = "seq" =>
                           ~(Op1Sel(ex'.instr) = "rs1" /\ mem'.rd = ex'.instr.rs1)
    BY DEF NoMissInv, FromMem
  <1>1. IsLw(ex.instr) /\ mem'.rd = ex.instr.rd /\ mem'.wbSel = WbSel(ex.instr)
    BY DEF Cycle, LoadMem
  <1>2. /\ ex'.instr = Imem(prog, iss.pc) /\ ex.instr = Imem(prog, ex.pc)
        /\ iss.pc \in Succ(prog, ex.pc) /\ ex.pc \in Word
    BY <1>1, BehindWord
  <1>3. CASE ex.instr.op = "JALR"
    BY <1>1, <1>2, <1>3 DEF RightProg, NoLinkUse
  <1>4. CASE IsLoad(ex.instr)
    <2>1. ~(ReadsRs2(ex'.instr) /\ mem'.rd = ex'.instr.rs2)
      BY <1>1, <1>2, <1>4 DEF RightProg, NoLoadUseRs2
    <2>2. mem'.wbSel # "seq"
      BY <1>1, <1>4, StageTypes, ControlRows DEF IsLoad, Loads
    <2> QED
      BY <2>1, <2>2
  <1> QED
    BY <1>1, <1>3, <1>4 DEF IsLw, IsLoad

LEMMA StepNoMiss ==
  TypeOK /\ FlowInv /\ RightProg /\ NoMissInv /\ [Next]_vars => NoMissInv'
  <1> SUFFICES ASSUME TypeOK, FlowInv, RightProg, NoMissInv, [Next]_vars
               PROVE  NoMissInv'
    OBVIOUS
  <1>1. CASE Run
    BY <1>1, CycleNoMiss DEF Run
  <1>2. CASE Reset
    BY <1>2 DEF Reset, NoMissInv, ExBubble
  <1>3. CASE UNCHANGED vars
    BY <1>3 DEF vars, stages, NoMissInv, FromMem
  <1> QED
    BY <1>1, <1>2, <1>3 DEF Next

LEMMA CurrentOperands ==
  TypeOK /\ ForwardInv /\ NoMissInv => OperandsCurrent
  BY ForwardInvOperands DEF OperandsForwarded, NoMissInv, OperandsCurrent

-----------------------------------------------------------------------------
(* The invariant of the refinement *)

RefineInv == TypeOK /\ RightProg /\ FlowInv /\ ForwardInv /\ NoMissInv

LEMMA InitRefineInv ==
  ASSUME \A p \in Programs : /\ Closed(p) /\ BranchSpacing(p)
                              /\ NoLoadUseRs2(p) /\ NoLinkUse(p)
  PROVE  Init => RefineInv
  <1> SUFFICES ASSUME Init PROVE RefineInv
    OBVIOUS
  <1>1. NoLoadUseRs2(prog) /\ NoLinkUse(prog)
    BY DEF Init
  <1> QED
    BY <1>1, InitType, InitFlow, InitForward, InitNoMiss DEF RefineInv, RightProg

LEMMA StepRefineInv ==
  ASSUME NegedgeOrders = {WriteFirst}
  PROVE  RefineInv /\ [Next]_vars => RefineInv'
  <1> SUFFICES ASSUME RefineInv, [Next]_vars PROVE RefineInv'
    OBVIOUS
  <1>1. TypeOK' /\ ForwardInv'
    BY StepType, StepForward DEF RefineInv, FlowInv
  <1>2. FlowInv' /\ GoodProg'
    BY StepFlow DEF RefineInv, RightProg
  <1>3. NoMissInv'
    BY StepNoMiss DEF RefineInv
  <1>4. NoLoadUseRs2(prog') /\ NoLinkUse(prog')
    BY DEF RefineInv, RightProg, Next, Run, Reset, Cycle, vars
  <1> QED
    BY <1>1, <1>2, <1>3, <1>4 DEF RefineInv, RightProg

\* Under the restrictions every operand that an instruction uses is current, the
\* second one included (top.v:381-388 against hazard_unit.v:50-52).
THEOREM OperandsCorrect ==
  ASSUME NegedgeOrders = {WriteFirst},
         \A p \in Programs : /\ Closed(p) /\ BranchSpacing(p)
                              /\ NoLoadUseRs2(p) /\ NoLinkUse(p)
  PROVE  Spec => []OperandsCurrent
  <1>1. RefineInv => OperandsCurrent
    BY CurrentOperands DEF RefineInv
  <1> QED
    BY InitRefineInv, StepRefineInv, <1>1, PTL DEF Spec

-----------------------------------------------------------------------------
(* The instruction set is the same on both sides of the instance *)

LEMMA SameIsa ==
  /\ Sequential!Word = Word /\ Sequential!Reg = Reg /\ Sequential!Program = Program
  /\ Sequential!DmemWords = DmemWords
  /\ \A a : Sequential!SeqPC(a) = SeqPC(a) /\ Sequential!DmemIndex(a) = DmemIndex(a)
  /\ \A p, a : Sequential!Imem(p, a) = Imem(p, a)
  /\ \A p, a : Sequential!Target(p, a) = Target(p, a)
  <1> USE DEF RTypes, Loads, ITypes, STypes, BTypes, UTypes, JTypes, ValidOps,
              Sequential!RTypes, Sequential!Loads, Sequential!ITypes, Sequential!STypes,
              Sequential!BTypes, Sequential!UTypes, Sequential!JTypes, Sequential!ValidOps
  <1>1. /\ Sequential!Word = Word /\ Sequential!Reg = Reg
        /\ Sequential!DmemWords = DmemWords
        /\ \A a : Sequential!SeqPC(a) = SeqPC(a) /\ Sequential!DmemIndex(a) = DmemIndex(a)
    BY DEF Word, Reg, DmemWords, SeqPC, Add, DmemIndex, Sequential!Word, Sequential!Reg,
           Sequential!DmemWords, Sequential!SeqPC, Sequential!Add, Sequential!DmemIndex
  <1>2. Sequential!Program = Program
    BY DEF Program, Slots, Instr, InstrFields, ImmRange, Reg, Sequential!Program,
           Sequential!Slots, Sequential!Instr, Sequential!InstrFields,
           Sequential!ImmRange, Sequential!Reg
  <1>3. \A p, a : Sequential!Imem(p, a) = Imem(p, a)
    BY DEF Imem, SlotOf, Slots, NoInstr, Sequential!Imem, Sequential!SlotOf,
           Sequential!Slots, Sequential!NoInstr
  <1>4. \A i : Sequential!ImmValue(i) = ImmValue(i)
    BY DEF ImmValue, SignExtend, Add, Sequential!ImmValue, Sequential!SignExtend,
           Sequential!Add
  <1>5. \A p, a : Sequential!Target(p, a) = Target(p, a)
    BY <1>3, <1>4 DEF Target, Add, Sequential!Target, Sequential!Add
  <1> QED
    BY <1>1, <1>2, <1>3, <1>5

LEMMA SameControl ==
  /\ \A i : /\ Sequential!IsJump(i) = IsJump(i) /\ Sequential!IsValid(i) = IsValid(i)
            /\ Sequential!RfEn(i) = RfEn(i) /\ Sequential!MemWr(i) = MemWr(i)
            /\ Sequential!WbSel(i) = WbSel(i)
  /\ \A i, a, p1, p2 : Sequential!Result(i, a, p1, p2) = Result(i, a, p1, p2)
  /\ \A i, a, p1, p2 : Sequential!Taken(i, a, p1, p2) = Taken(i, a, p1, p2)
  <1> USE DEF RTypes, Loads, ITypes, STypes, BTypes, UTypes, JTypes,
              Sequential!RTypes, Sequential!Loads, Sequential!ITypes, Sequential!STypes,
              Sequential!BTypes, Sequential!UTypes, Sequential!JTypes
  <1>1. \A i : /\ Sequential!IsJump(i) = IsJump(i) /\ Sequential!IsValid(i) = IsValid(i)
               /\ Sequential!RfEn(i) = RfEn(i) /\ Sequential!MemWr(i) = MemWr(i)
               /\ Sequential!WbSel(i) = WbSel(i)
    BY DEF IsJump, IsValid, RfEn, MemWr, WbSel, Sequential!IsJump, Sequential!IsValid,
           Sequential!RfEn, Sequential!MemWr, Sequential!WbSel
  <1>2. \A i : Sequential!AluFn(i) = AluFn(i)
    BY DEF AluFn, Sequential!AluFn
  <1>3. \A i, p1 : Sequential!OperandA(i, p1) = OperandA(i, p1)
    BY DEF OperandA, Op1Sel, ImmValue, SignExtend, Add, Sequential!OperandA,
           Sequential!Op1Sel, Sequential!ImmValue, Sequential!SignExtend, Sequential!Add
  <1>4. \A i, a, p2 : Sequential!OperandB(i, a, p2) = OperandB(i, a, p2)
    BY DEF OperandB, Op2Sel, ImmValue, SignExtend, Add, Sequential!OperandB,
           Sequential!Op2Sel, Sequential!ImmValue, Sequential!SignExtend, Sequential!Add
  <1>5. \A i, a, p1, p2 : Sequential!Result(i, a, p1, p2) = Result(i, a, p1, p2)
    BY <1>2, <1>3, <1>4 DEF Result, Sequential!Result
  <1>6. \A i, a, p1, p2 : Sequential!Taken(i, a, p1, p2) = Taken(i, a, p1, p2)
    BY <1>2, <1>3, <1>4
       DEF Taken, IsBranch, BranchCond, Sequential!Taken, Sequential!IsBranch,
           Sequential!BranchCond
  <1> QED
    BY <1>1, <1>5, <1>6

-----------------------------------------------------------------------------
(* A cycle, seen from the architectural state *)

\* What a cycle leaves in the register file and the memory once MEM is drained: what
\* the instruction it takes out of EX writes, over what was there
LEMMA DrainedRegs ==
  ASSUME RefineInv, RefineInv', NEW order, Cycle(order)
  PROVE  RegsWritten' = ArchRegs
  <1> USE StageTypes, WireTypes DEF RefineInv
  <1>1. /\ wb'.rfEn = mem.rfEn /\ wb'.rd = mem.rd /\ wb'.wbSel = mem.wbSel
        /\ wb'.alu = mem.alu /\ wb'.seqpc = mem.seqpc /\ wb'.rdata = ReadData
        /\ regs' = RegsWritten
    BY DEF Cycle, LoadWb
  <1>2. WbData' = IF mem.rd = 0 THEN 0 ELSE MemData
    BY <1>1 DEF WbData, MemData
  <1>3. RegsWritten[0] = 0
    BY <1>1 DEF ForwardInv
  <1>4. mem.rd = 0 => [RegsWritten EXCEPT ![mem.rd] = 0] = RegsWritten
    BY <1>3
  <1> QED
    BY <1>1, <1>2, <1>4 DEF RegsWritten, ArchRegs

LEMMA DrainedMem ==
  ASSUME NEW order, Cycle(order)
  PROVE  dmem' = ArchDmem
  BY DEF Cycle, ArchDmem

LEMMA CurrentResult ==
  ASSUME RefineInv, ex.valid
  PROVE  LET a == ArchRegs[ex.instr.rs1]
             b == ArchRegs[ex.instr.rs2]
         IN  /\ Result(ex.instr, ex.pc, P1, P2) = Result(ex.instr, ex.pc, a, b)
             /\ BranchTaken = Taken(ex.instr, ex.pc, a, b)
             /\ MemWr(ex.instr) => P2 = b
  <1> DEFINE a == ArchRegs[ex.instr.rs1]
             b == ArchRegs[ex.instr.rs2]
  <1>1. /\ Op1Sel(ex.instr) = "rs1" => P1 = a
        /\ ReadsRs2(ex.instr) => P2 = b
    BY CurrentOperands DEF RefineInv, OperandsCurrent
  <1>4. OperandA(ex.instr, P1) = OperandA(ex.instr, a)
    BY <1>1, StageTypes, ControlType DEF OperandA, RefineInv
  <1>2. OperandB(ex.instr, ex.pc, P2) = OperandB(ex.instr, ex.pc, b)
    <2>1. CASE ReadsRs2(ex.instr)
      BY <1>1, <2>1
    <2>2. CASE ~ReadsRs2(ex.instr)
      <3>1. Op2Sel(ex.instr) # "rs2"
        BY <2>2 DEF ReadsRs2, Op2Sel
      <3> QED
        BY <3>1, StageTypes, ControlType DEF OperandB, RefineInv
    <2> QED
      BY <2>1, <2>2
  <1>3. MemWr(ex.instr) => P2 = b
    BY <1>1 DEF MemWr, ReadsRs2
  <1> HIDE DEF a, b
  <1> QED
    BY <1>2, <1>3, <1>4 DEF Result, BranchTaken, Taken, a, b

\* The instruction in EX is the next one of the sequential machine, and the cycle
\* that takes it out is that machine's step
LEMMA CycleExecutes ==
  ASSUME RefineInv, RefineInv', NEW order, Cycle(order), ex.valid
  PROVE  Sequential!Execute
  <1> USE StageTypes DEF RefineInv
  <1> DEFINE i   == ex.instr
             a   == ArchRegs[i.rs1]
             b   == ArchRegs[i.rs2]
             res == Result(i, ex.pc, a, b)
             val == CASE WbSel(i) = "alu" -> res
                      [] WbSel(i) = "seq" -> SeqPC(ex.pc)
                      [] WbSel(i) = "mem" -> ArchDmem[DmemIndex(res)]
  <1>1. /\ ArchPC = ex.pc /\ i = Imem(prog, ArchPC) /\ IsValid(i)
        /\ ex.seqpc = SeqPC(ex.pc) /\ ex.brnpc = Target(prog, ex.pc)
    BY DEF ArchPC, FlowInv, FetchInv, ExFetched
  <1>2. /\ mem'.rfEn = RfEn(i) /\ mem'.wbSel = WbSel(i) /\ mem'.memWr = MemWr(i)
        /\ mem'.rd = i.rd /\ mem'.alu = res /\ mem'.seqpc = SeqPC(ex.pc) /\ mem'.p2 = P2
    BY <1>1, CurrentResult DEF Cycle, LoadMem
  <1>3. RegsWritten' = ArchRegs /\ dmem' = ArchDmem
    BY DrainedRegs, DrainedMem
  <1>4. ArchPC' = IF IsJump(i) \/ Taken(i, ex.pc, a, b) THEN Target(prog, ex.pc)
                                                        ELSE SeqPC(ex.pc)
    BY <1>1, CycleFlow, CurrentResult DEF Goes, RightProg, FlowInv
  <1>5. ArchRegs' = IF RfEn(i) /\ i.rd # 0 THEN [ArchRegs EXCEPT ![i.rd] = val]
                                           ELSE ArchRegs
    <2>1. MemData' = val
      BY <1>2, <1>3 DEF MemData, ReadData
    <2> QED
      BY <1>2, <1>3, <2>1 DEF ArchRegs
  <1>6. ArchDmem' = IF MemWr(i) THEN [ArchDmem EXCEPT ![DmemIndex(res)] = b] ELSE ArchDmem
    BY <1>2, <1>3, CurrentResult DEF ArchDmem
  <1>7. prog' = prog
    BY DEF Cycle
  <1>8. /\ Sequential!Imem(prog, ArchPC) = i /\ Sequential!IsValid(i)
        /\ Sequential!Result(i, ArchPC, a, b) = res
    BY <1>1, SameIsa, SameControl
  <1>9. /\ Sequential!IsJump(i) = IsJump(i) /\ Sequential!WbSel(i) = WbSel(i)
        /\ Sequential!Taken(i, ArchPC, a, b) = Taken(i, ex.pc, a, b)
        /\ Sequential!RfEn(i) = RfEn(i) /\ Sequential!MemWr(i) = MemWr(i)
    BY <1>1, SameControl
  <1>10. /\ Sequential!Target(prog, ArchPC) = Target(prog, ex.pc)
         /\ Sequential!SeqPC(ArchPC) = SeqPC(ex.pc)
         /\ Sequential!DmemIndex(res) = DmemIndex(res)
    BY <1>1, SameIsa
  <1> HIDE DEF res
  <1> QED
    BY <1>4, <1>5, <1>6, <1>7, <1>8, <1>9, <1>10 DEF Sequential!Execute

\* A cycle that takes nothing out of EX changes nothing
LEMMA CycleStutters ==
  ASSUME RefineInv, RefineInv', NEW order, Cycle(order), ~ex.valid
  PROVE  UNCHANGED <<prog, ArchPC, ArchRegs, ArchDmem>>
  <1> USE StageTypes DEF RefineInv
  <1>1. ~RfEn(ex.instr) /\ ~MemWr(ex.instr)
    BY DEF FlowInv, FetchInv, ExFetched, IsValid, RfEn, MemWr, RTypes, ITypes, Loads,
           UTypes, JTypes, STypes
  <1>2. ~mem'.rfEn /\ ~mem'.memWr
    BY <1>1 DEF Cycle, LoadMem
  <1>3. ArchPC' = ArchPC
    BY CycleFlow DEF RightProg, FlowInv
  <1>4. ArchRegs' = ArchRegs /\ ArchDmem' = ArchDmem
    BY <1>2, DrainedRegs, DrainedMem DEF ArchRegs, ArchDmem
  <1> QED
    BY <1>3, <1>4 DEF Cycle

LEMMA BubbleArch ==
  ex = ExBubble /\ iss = IssBubble /\ mem = MemBubble /\ wb = WbBubble
    => ArchPC = pc /\ ArchRegs = regs /\ ArchDmem = dmem
  BY DEF ExBubble, IssBubble, MemBubble, WbBubble, NoInstr, IsValid, ArchPC, ArchRegs,
         ArchDmem, RegsWritten

LEMMA ResetRestarts ==
  ASSUME RefineInv, RefineInv', Reset
  PROVE  Sequential!Restart
  <1>1. (ex = ExBubble /\ iss = IssBubble /\ mem = MemBubble /\ wb = WbBubble
           => ArchPC = pc /\ ArchRegs = regs /\ ArchDmem = dmem)'
    BY BubbleArch, PTL
  <1>2. regs' \in [Reg -> Word] /\ regs'[0] = 0 /\ dmem' \in [DmemWords -> Word]
    BY DEF RefineInv, TypeOK, ForwardInv
  <1> QED
    BY <1>1, <1>2, SameIsa DEF Reset, Sequential!Restart

LEMMA InitRefines == RefineInv /\ Init => Sequential!Init
  <1> SUFFICES ASSUME RefineInv, Init PROVE Sequential!Init
    OBVIOUS
  <1>1. ArchPC = TextBase /\ ArchRegs = regs /\ ArchDmem = dmem
    BY BubbleArch DEF Init, RefineInv
  <1>2. regs[0] = 0
    BY DEF RefineInv, ForwardInv
  <1> QED
    BY <1>1, <1>2, SameIsa, StageTypes DEF RefineInv, Init, Sequential!Init, Sequential!TypeOK

LEMMA StepRefines ==
  RefineInv /\ RefineInv' /\ [Next]_vars
    => [Sequential!Next]_<<prog, ArchPC, ArchRegs, ArchDmem>>
  <1> SUFFICES ASSUME RefineInv, RefineInv', [Next]_vars
               PROVE  [Sequential!Next]_<<prog, ArchPC, ArchRegs, ArchDmem>>
    OBVIOUS
  <1>1. CASE Run
    BY <1>1, CycleExecutes, CycleStutters DEF Run, Sequential!Next
  <1>2. CASE Reset
    BY <1>2, ResetRestarts DEF Sequential!Next
  <1>3. CASE UNCHANGED vars
    BY <1>3 DEF vars, stages, ArchPC, ArchRegs, ArchDmem, RegsWritten, WbData, MemData,
                ReadData
  <1> QED
    BY <1>1, <1>2, <1>3 DEF Next

\* The pipeline implements the machine that executes one instruction at a time, for
\* every width, ALU, predictor size and program within the restrictions: forwarding,
\* prediction, flushing and resets included (top.v against hazard_unit.v:50-62).
THEOREM PipelineRefines ==
  ASSUME NegedgeOrders = {WriteFirst},
         \A p \in Programs : /\ Closed(p) /\ BranchSpacing(p)
                              /\ NoLoadUseRs2(p) /\ NoLinkUse(p)
  PROVE  Spec => ImplementsSequential
  <1> QED
    BY InitRefineInv, StepRefineInv, InitRefines, StepRefines, PTL
       DEF Spec, ImplementsSequential, Sequential!Spec, Sequential!avars

-----------------------------------------------------------------------------
(* The invariant.  The testbench's registers follow the pipeline's, and the    *)
(* simulator is behind it by the instructions in MEM and WB, which it will     *)
(* execute as the pipeline has.                                                *)

\* Where an instruction sends control, given the registers
LeadsTo(i, p, rf) ==
  IF IsJump(i) \/ Taken(i, p, rf[i.rs1], rf[i.rs2]) THEN Add(p, ImmValue(i)) ELSE SeqPC(p)

\* The stage t of the testbench holds an instruction of the program, and the pipeline's
\* register r its control bits and its result
Carries(r, t, rf) ==
  /\ IsValid(t.instr) /\ t.instr = Imem(prog, t.pc) /\ t.decoded = t.instr /\ t.pc \in Word
  /\ r.rfEn = RfEn(t.instr) /\ r.wbSel = WbSel(t.instr) /\ r.rd = t.instr.rd
  /\ r.alu = Result(t.instr, t.pc, rf[t.instr.rs1], rf[t.instr.rs2])
  /\ r.seqpc = SeqPC(t.pc)

\* The testbench's registers are those that top.v does not have
Follows ==
  /\ tb \in [TbStages -> [pc : Word, instr : Instr, decoded : Instr]]
  /\ IsValid(iss.instr) => tb["iss"].pc = iss.pc /\ tb["iss"].instr = iss.instr
  /\ ex.valid => tb["ex"] = [pc |-> ex.pc, instr |-> ex.instr, decoded |-> ex.instr]
  /\ mem.valid => /\ Carries(mem, tb["mem"], RegsWritten)
                  /\ mem.memWr = MemWr(tb["mem"].instr)
                  /\ mem.memWr => mem.p2 = RegsWritten[tb["mem"].instr.rs2]
  /\ ~mem.valid => ~mem.rfEn /\ ~mem.memWr
  /\ wb.valid => /\ Carries(wb, tb["wb"], regs)
                 /\ IsLoad(tb["wb"].instr) /\ DmemIndex(wb.alu) \in DataWords
                      => wb.rdata = idata[DmemIndex(wb.alu)]
  /\ ~wb.valid => ~wb.rfEn

\* Where the simulator will be when it has executed the instruction in WB, and that in MEM
AfterWb  == IF wb.valid THEN LeadsTo(tb["wb"].instr, tb["wb"].pc, regs) ELSE ipc
AfterMem == IF mem.valid THEN LeadsTo(tb["mem"].instr, tb["mem"].pc, RegsWritten) ELSE AfterWb

OnPath ==
  /\ wb.valid => tb["wb"].pc = ipc
  /\ mem.valid => tb["mem"].pc = AfterWb
  /\ ArchPC = AfterMem

StoreInWb(w) == wb.valid /\ MemWr(tb["wb"].instr) /\ w = DmemIndex(wb.alu)

SameState ==
  /\ runBit /\ prevPC = ipc /\ itext = prog /\ iregs = regs
  /\ idata \in [DataWords -> Word]
  /\ \A w \in DataWords : dmem[w] = IF StoreInWb(w) THEN regs[tb["wb"].instr.rs2] ELSE idata[w]

CosimInv ==
  /\ verdict \in {"running", "finish"}
  /\ verdict = "running" => Follows /\ OnPath /\ SameState

-----------------------------------------------------------------------------
(* The two accounts of the instruction set *)

LEMMA Times ==
  ASSUME NEW w \in Nat, NEW k \in Int
  PROVE  (k >= 1 => w * k >= w) /\ (k <= -1 => w * k <= -w)
  OBVIOUS

LEMMA Divided ==
  ASSUME NEW w \in Nat, w > 0, NEW x \in Int
  PROVE  x \div w \in Int /\ x % w \in 0..(w - 1) /\ x = w * (x \div w) + (x % w)
  OBVIOUS

\* Words wrap around
LEMMA Wraps ==
  ASSUME NEW w \in Nat, w > 0, NEW x \in Int
  PROVE  (x + w) % w = x % w
<1> DEFINE q == x \div w
           r == x % w
           t == (x + w) \div w
           u == (x + w) % w
<1>1. /\ q \in Int /\ r \in 0..(w - 1) /\ x = w * q + r
      /\ t \in Int /\ u \in 0..(w - 1) /\ x + w = w * t + u
  BY Divided
<1> HIDE DEF q, r, t, u
<1>2. w * (t - q - 1) = r - u
  BY <1>1
<1>3. ~(t - q - 1 >= 1) /\ ~(t - q - 1 <= -1)
  BY <1>1, <1>2, Times
<1>4. t - q - 1 = 0
  BY <1>1, <1>3
<1> QED
  BY <1>1, <1>2, <1>4 DEF r, u

LEMMA WordStays ==
  ASSUME NEW w \in Nat, NEW x \in 0..(w - 1)
  PROVE  x % w = x
<1> DEFINE q == x \div w
           r == x % w
<1>1. q \in Int /\ r \in 0..(w - 1) /\ x = w * q + r
  BY Divided
<1> HIDE DEF q, r
<1>2. ~(q >= 1) /\ ~(q <= -1)
  BY <1>1, Times
<1> QED
  BY <1>1, <1>2 DEF r

LEMMA ModFacts ==
  /\ \A x \in Int : (x + WordSize) % WordSize = x % WordSize
  /\ \A x \in Word : x % WordSize = x
<1>1. WordSize \in Nat /\ WordSize > 0
  BY WordAssumption
<1> QED
  BY <1>1, Wraps, WordStays DEF Word

\* The offset of a branch or a jump, which the simulator's decoder has shifted already
LEMMA OffsetIsImm ==
  ASSUME NEW i \in Instr
  PROVE  /\ IsBranch(i) => Offset(i.imm, Imm12Size) = ImmValue(i)
         /\ IsJump(i) => Offset(i.imm, Imm20Size) = ImmValue(i)
<1>1. ASSUME NEW size \in 1..WordSize, NEW imm \in Nat
      PROVE  Offset(imm, size) = Add(SignExtend(imm, size), SignExtend(imm, size))
  <2>1. CASE 2 * imm < size
    BY <2>1, WordAssumption DEF Offset, Extend, Add, SignExtend
  <2>2. CASE ~(2 * imm < size)
    <3> DEFINE x == (WordSize - 2 * size) + 2 * imm
               s == (WordSize - size) + imm
    <3>1. Offset(imm, size) = x % WordSize
      BY <2>2, WordAssumption DEF Offset, Extend
    <3>2. SignExtend(imm, size) = s
      BY <2>2 DEF SignExtend
    <3>3. s + s = x + WordSize /\ x \in Int
      BY WordAssumption
    <3> HIDE DEF x, s
    <3> QED
      BY <3>1, <3>2, <3>3, ModFacts DEF Add
  <2> QED
    BY <2>1, <2>2
<1>2. /\ i.imm \in Nat /\ Imm12Size \in 1..WordSize /\ Imm20Size \in 1..WordSize
  BY WordAssumption, InstrType
<1>3. IsBranch(i) => ImmValue(i) = Add(SignExtend(i.imm, Imm12Size), SignExtend(i.imm, Imm12Size))
  BY DEF IsBranch, ImmValue, JTypes, UTypes, BTypes, ITypes, Loads, STypes
<1>4. IsJump(i) => ImmValue(i) = Add(SignExtend(i.imm, Imm20Size), SignExtend(i.imm, Imm20Size))
  BY DEF IsJump, ImmValue, JTypes, UTypes, BTypes, ITypes, Loads, STypes
<1> QED
  BY <1>1, <1>2, <1>3, <1>4

\* The rows of the control table, beside what sim.c does.  The function the ALU is given
\* depends on the operation alone.
LEMMA AluRows ==
  ASSUME AluAgrees, NEW i \in Instr, NEW a \in Word, NEW b \in Word
  PROVE  /\ i.op \in RTypes => AluRes(AluFn(i), a, b) = RValue(i.op, a, b)
         /\ i.op \in BTypes => BranchCond(i.op, AluZ(AluFn(i), a, b), AluN(AluFn(i), a, b))
                                 = BCond(i.op, a, b)
         /\ AluRes("ADD_OP", a, b) = (a + b) % WordSize
         /\ AluRes("AND_OP", a, b) = BitAnd(a, b)
         /\ AluRes("OR_OP", a, b)  = BitOr(a, b)
         /\ AluRes("XOR_OP", a, b) = BitXor(a, b)
         /\ AluRes("SLT_OP", a, b)  = B2W(Signed(a) < Signed(b))
         /\ AluRes("SLTU_OP", a, b) = B2W(a < b)
<1> USE DEF RTypes
<1>1. AluFn(i) = AluFn([op |-> i.op])
  BY DEF AluFn
<1>2. \A op \in RTypes : AluRes(AluFn([op |-> op]), a, b) = RValue(op, a, b)
  BY DEF AluAgrees
<1>3. \A op \in BTypes : BranchCond(op, AluZ(AluFn([op |-> op]), a, b), AluN(AluFn([op |-> op]), a, b))
                           = BCond(op, a, b)
  BY DEF AluAgrees
<1>4. /\ AluFn([op |-> "ADD"]) = "ADD_OP" /\ AluFn([op |-> "AND"]) = "AND_OP"
      /\ AluFn([op |-> "OR"]) = "OR_OP" /\ AluFn([op |-> "XOR"]) = "XOR_OP"
      /\ AluFn([op |-> "SLT"]) = "SLT_OP" /\ AluFn([op |-> "SLTU"]) = "SLTU_OP"
  BY DEF AluFn
<1>5. /\ RValue("ADD", a, b) = (a + b) % WordSize /\ RValue("AND", a, b) = BitAnd(a, b)
      /\ RValue("OR", a, b) = BitOr(a, b) /\ RValue("XOR", a, b) = BitXor(a, b)
      /\ RValue("SLT", a, b) = B2W(Signed(a) < Signed(b)) /\ RValue("SLTU", a, b) = B2W(a < b)
  BY DEF RValue
<1> QED
  BY <1>1, <1>2, <1>3, <1>4, <1>5

\* What the simulator computes for an instruction is what the pipeline does
LEMMA SameValue ==
  ASSUME AluAgrees, NEW i \in Instr, Alike(i), NEW p \in Word, NEW a \in Word, NEW b \in Word
  PROVE  /\ i.op \in RTypes => Result(i, p, a, b) = RValue(i.op, a, b)
         /\ i.op \in ITypes \ Loads =>
              /\ i.op \in IExecuted \ {"JALR"}
              /\ Result(i, p, a, b) = ComputedValue(i.op, a, Extend(i.imm, Imm12Size))
         /\ i.op \in {"LW", "SW"} =>
              Result(i, p, a, b) = (a + SignExtend(i.imm, Imm12Size)) % WordSize
         /\ i.op = "LUI" => Result(i, p, a, b) = (i.imm * UpperUnit) % WordSize
         /\ i.op = "AUIPC" => Result(i, p, a, b) = (p + ((i.imm * UpperUnit) % WordSize)) % WordSize
         /\ IsBranch(i) => Taken(i, p, a, b) = BCond(i.op, a, b)
<1> USE DEF RTypes, ITypes, Loads, STypes, BTypes, UTypes, JTypes
<1> DEFINE imm == SignExtend(i.imm, Imm12Size)
           upper == (i.imm * UpperUnit) % WordSize
<1>1. Extend(i.imm, Imm12Size) = imm
  BY DEF Extend, SignExtend
<1>2. ImmValue(i) \in Word
  BY ImmValueType
<1>3. 0 \in Word /\ \A x \in Word : x \in Int
  BY WordFacts
<1>4. CASE i.op \in RTypes
  <2>1. Result(i, p, a, b) = AluRes(AluFn(i), a, b)
    BY <1>4 DEF Result, OperandA, OperandB, Op1Sel, Op2Sel
  <2> QED
    BY <1>4, <2>1, AluRows DEF IsBranch
<1>5. CASE i.op \in ITypes \ Loads
  <2>1. ImmValue(i) = imm /\ imm \in Word
    BY <1>2, <1>5 DEF ImmValue
  <2>2. Result(i, p, a, b) = AluRes(AluFn(i), a, imm)
    BY <1>5, <2>1 DEF Result, OperandA, OperandB, Op1Sel, Op2Sel
  <2>3. i.op \in {"ADDI", "ORI", "XORI", "SLTI", "SLTIU"}
    BY <1>5 DEF Alike
  <2> HIDE DEF imm
  <2>4. Result(i, p, a, b) = ComputedValue(i.op, a, imm)
    <3>1. AluFn(i) = CASE i.op = "ADDI" -> "ADD_OP"
                       [] i.op = "ORI" -> "OR_OP" [] i.op = "XORI" -> "XOR_OP"
                       [] i.op = "SLTI" -> "SLT_OP" [] i.op = "SLTIU" -> "SLTU_OP"
      BY <2>3 DEF AluFn
    <3> QED
      BY <2>1, <2>2, <2>3, <3>1, AluRows DEF ComputedValue
  <2> QED
    BY <1>1, <1>5, <2>3, <2>4 DEF IExecuted, IsBranch
<1>6. CASE i.op \in {"LW", "SW"}
  <2>1. ImmValue(i) = imm /\ imm \in Word
    BY <1>2, <1>6 DEF ImmValue
  <2>2. Result(i, p, a, b) = AluRes("ADD_OP", a, imm)
    BY <1>6, <2>1 DEF Result, OperandA, OperandB, Op1Sel, Op2Sel, AluFn
  <2> HIDE DEF imm
  <2> QED
    BY <1>6, <2>1, <2>2, AluRows DEF IsBranch, imm
<1>7. CASE i.op \in UTypes
  <2>1. ImmValue(i) = upper /\ upper \in Word
    BY <1>2, <1>7 DEF ImmValue
  <2>2. Result(i, p, a, b) = AluRes("ADD_OP", upper, IF i.op = "LUI" THEN 0 ELSE p)
    BY <1>7, <2>1 DEF Result, OperandA, OperandB, Op1Sel, Op2Sel, AluFn
  <2> HIDE DEF upper
  <2>3. /\ AluRes("ADD_OP", upper, 0) = (upper + 0) % WordSize
        /\ AluRes("ADD_OP", upper, p) = (upper + p) % WordSize
    BY <1>3, <2>1, AluRows
  <2>4. upper + 0 = upper /\ upper + p = p + upper
    BY <1>3, <2>1
  <2>5. upper % WordSize = upper
    BY <2>1, ModFacts
  <2> QED
    BY <1>7, <2>2, <2>3, <2>4, <2>5 DEF IsBranch, upper
<1>8. CASE i.op \in BTypes
  <2>1. Taken(i, p, a, b) = BranchCond(i.op, AluZ(AluFn(i), a, b), AluN(AluFn(i), a, b))
    <3>1. OperandA(i, a) = a /\ OperandB(i, p, b) = b
      BY <1>8 DEF OperandA, OperandB, Op1Sel, Op2Sel
    <3>2. BranchCond(i.op, AluZ(AluFn(i), a, b), AluN(AluFn(i), a, b)) \in BOOLEAN
      BY DEF BranchCond
    <3> QED
      BY <1>8, <3>1, <3>2 DEF Taken, IsBranch
  <2> QED
    BY <1>8, <2>1, AluRows
<1> QED
  BY <1>4, <1>5, <1>6, <1>7, <1>8 DEF IsBranch

-----------------------------------------------------------------------------
(* The simulator executes what has retired *)

CosimContext ==
  /\ AluAgrees /\ RefineInv /\ Follows /\ OnPath /\ SameState
  /\ WithinData /\ verdict = "running" /\ wb.valid
  /\ \A s \in Slots : Alike(prog[s])

\* The instruction it fetches is the one in WB, of which it knows nothing
LEMMA Retiring ==
  ASSUME CosimContext
  PROVE  LET i == tb["wb"].instr
         IN  /\ Fetched = i /\ i \in Instr /\ IsValid(i) /\ Alike(i) /\ ipc \in Word
             /\ tb["wb"].pc = ipc
             /\ i.rd \in Reg /\ i.rs1 \in Reg /\ i.rs2 \in Reg
             /\ regs[i.rs1] \in Word /\ regs[i.rs2] \in Word
             /\ wb.rfEn = RfEn(i) /\ wb.wbSel = WbSel(i) /\ wb.rd = i.rd
             /\ wb.alu = Result(i, ipc, regs[i.rs1], regs[i.rs2])
             /\ wb.seqpc = SeqPC(ipc)
<1> DEFINE i == tb["wb"].instr
<1>1. /\ IsValid(i) /\ i = Imem(prog, ipc) /\ ipc \in Word /\ tb["wb"].pc = ipc
      /\ wb.rfEn = RfEn(i) /\ wb.wbSel = WbSel(i) /\ wb.rd = i.rd
      /\ wb.alu = Result(i, ipc, regs[i.rs1], regs[i.rs2])
      /\ wb.seqpc = SeqPC(ipc)
  BY DEF CosimContext, Follows, OnPath, Carries
<1>2. prog \in Program /\ itext = prog /\ regs \in [Reg -> Word]
  BY DEF CosimContext, RefineInv, TypeOK, SameState
<1>3. i \in Instr
  BY <1>1, <1>2, ImemType
<1>4. Fetched = i
  BY <1>1, <1>2 DEF Fetched, Imem
<1>5. Alike(i)
  BY <1>1, NoInstrType DEF Imem, CosimContext
<1> HIDE DEF i
<1>6. i.rd \in Reg /\ i.rs1 \in Reg /\ i.rs2 \in Reg
  BY <1>3, InstrType
<1> QED
  BY <1>1, <1>2, <1>3, <1>4, <1>5, <1>6 DEF i

\* An instruction is of one type; ANDI and JALR have rows unlike their type's
LEMMA OneType ==
  ASSUME NEW i, IsValid(i), i \in Instr
  PROVE  /\ i.op \in RTypes \cup ITypes \cup STypes \cup BTypes \cup UTypes \cup JTypes
         /\ i.op \in RTypes => WbSel(i) = "alu" /\ RfEn(i) /\ ~MemWr(i) /\ ~IsBranch(i) /\ ~IsJump(i)
         /\ i.op \in ITypes \ {"ANDI", "JALR"} =>
              /\ WbSel(i) = IF IsLoad(i) THEN "mem" ELSE "alu"
              /\ RfEn(i) /\ ~MemWr(i) /\ ~IsBranch(i) /\ ~IsJump(i)
         /\ i.op \in STypes => ~RfEn(i) /\ MemWr(i) /\ ~IsBranch(i) /\ ~IsJump(i)
         /\ i.op \in BTypes => ~RfEn(i) /\ ~MemWr(i) /\ IsBranch(i) /\ ~IsJump(i)
         /\ i.op \in UTypes => WbSel(i) = "alu" /\ RfEn(i) /\ ~MemWr(i) /\ ~IsBranch(i) /\ ~IsJump(i)
         /\ i.op \in JTypes => WbSel(i) = "seq" /\ RfEn(i) /\ ~MemWr(i) /\ ~IsBranch(i) /\ IsJump(i)
<1> USE DEF RTypes, ITypes, Loads, STypes, BTypes, UTypes, JTypes
<1>1. i.op \in RTypes \cup ITypes \cup STypes \cup BTypes \cup UTypes \cup JTypes
  BY InstrType DEF IsValid, ValidOps
<1> USE DEF RfEn, MemWr, IsBranch, IsJump, IsLoad
<1>2. i.op \in RTypes => WbSel(i) = "alu" /\ RfEn(i) /\ ~MemWr(i) /\ ~IsBranch(i) /\ ~IsJump(i)
  BY DEF WbSel
<1>3. i.op \in ITypes \ {"ANDI", "JALR"} =>
        /\ WbSel(i) = IF IsLoad(i) THEN "mem" ELSE "alu"
        /\ RfEn(i) /\ ~MemWr(i) /\ ~IsBranch(i) /\ ~IsJump(i)
  BY DEF WbSel
<1>4. i.op \in STypes \cup BTypes => ~RfEn(i) /\ ~IsJump(i) /\ (MemWr(i) <=> i.op \in STypes)
  OBVIOUS
<1>5. i.op \in UTypes => WbSel(i) = "alu" /\ RfEn(i) /\ ~MemWr(i) /\ ~IsBranch(i) /\ ~IsJump(i)
  BY DEF WbSel
<1>6. i.op \in JTypes => WbSel(i) = "seq" /\ RfEn(i) /\ ~MemWr(i) /\ ~IsBranch(i) /\ IsJump(i)
  BY DEF WbSel
<1>7. i.op \in STypes => ~IsBranch(i)
  OBVIOUS
<1> QED
  BY <1>1, <1>2, <1>3, <1>4, <1>5, <1>6, <1>7

\* The register file it is left with is the one the falling edge writes
LEMMA SameWrite ==
  ASSUME CosimContext, RfEn(tb["wb"].instr), NEW v, tb["wb"].instr.rd # 0 => v = WbData,
         WriteReg(tb["wb"].instr.rd, v)
  PROVE  iregs' = RegsWritten
<1>1. wb.rfEn /\ wb.rd = tb["wb"].instr.rd
  BY Retiring
<1>2. iregs = regs /\ regs[0] = 0 /\ regs \in [Reg -> Word]
  BY DEF CosimContext, SameState, RefineInv, ForwardInv, TypeOK
<1>3. CASE wb.rd = 0
  <2>1. iregs' = regs /\ WbData = 0
    BY <1>1, <1>2, <1>3, WbDataZero DEF WriteReg
  <2>2. [regs EXCEPT ![0] = 0] = regs
    BY <1>2
  <2> QED
    BY <1>1, <1>3, <2>1, <2>2 DEF RegsWritten
<1>4. CASE wb.rd # 0
  BY <1>1, <1>2, <1>4 DEF WriteReg, RegsWritten
<1> QED
  BY <1>3, <1>4

LEMMA StraightOn ==
  ASSUME CosimContext, ~IsJump(tb["wb"].instr), ~IsBranch(tb["wb"].instr)
  PROVE  AfterWb = (ipc + 4) % WordSize
<1>1. wb.valid /\ tb["wb"].pc = ipc
  BY Retiring DEF CosimContext
<1> QED
  BY <1>1 DEF AfterWb, LeadsTo, Taken, SeqPC, Add

LEMMA NoStore ==
  ASSUME CosimContext, ~MemWr(tb["wb"].instr)
  PROVE  idata \in [DataWords -> Word] /\ \A w \in DataWords : idata[w] = dmem[w]
  BY DEF CosimContext, SameState, StoreInWb

\* What one instruction leaves in the simulator
Executed ==
  /\ ipc' = AfterWb /\ iregs' = RegsWritten /\ itext' = itext
  /\ idata' \in [DataWords -> Word]
  /\ \A w \in DataWords : idata'[w] = dmem[w]

LEMMA LoadExecuted ==
  ASSUME CosimContext, tb["wb"].instr.op \in Loads, ExecuteI(tb["wb"].instr)
  PROVE  Executed
<1> DEFINE i == tb["wb"].instr
           a == regs[i.rs1]
           imm == SignExtend(i.imm, Imm12Size)
<1>1. /\ Fetched = i /\ i \in Instr /\ IsValid(i) /\ Alike(i) /\ ipc \in Word
      /\ a \in Word /\ regs[i.rs2] \in Word /\ wb.rd = i.rd /\ wb.wbSel = WbSel(i)
      /\ wb.alu = Result(i, ipc, a, regs[i.rs2])
  BY Retiring
<1>2. i.op = "LW" /\ i.op \in IExecuted /\ IsLoad(i) /\ i.op \in ITypes
  BY <1>1 DEF Alike, IExecuted, IsLoad, Loads, ITypes
<1>3. /\ WbSel(i) = "mem" /\ RfEn(i) /\ ~MemWr(i) /\ ~IsBranch(i) /\ ~IsJump(i)
  BY <1>1, <1>2, OneType
<1>4. iregs = regs /\ AluAgrees /\ verdict = "running" /\ wb.valid
  BY DEF CosimContext, SameState
<1>5. wb.alu = (a + imm) % WordSize
  BY <1>1, <1>2, <1>4, SameValue
<1>6. DmemIndex(wb.alu) \in DataWords
  BY <1>1, <1>2, <1>4, <1>5 DEF CosimContext, WithinData
<1>7. MemRead(wb.alu) = wb.rdata
  BY <1>1, <1>2, <1>4, <1>6 DEF CosimContext, Follows, MemRead
<1>8. Extend(i.imm, Imm12Size) = imm
  BY DEF Extend, SignExtend
<1>9. WriteReg(i.rd, wb.rdata) /\ ipc' = (ipc + 4) % WordSize /\ itext' = itext /\ idata' = idata
  BY <1>2, <1>4, <1>5, <1>7, <1>8 DEF ExecuteI, LoadedValue, Advance, KeepMem
<1>10. i.rd # 0 => wb.rdata = WbData
  BY <1>1, <1>3 DEF WbData
<1>11. iregs' = RegsWritten
  BY <1>3, <1>9, <1>10, SameWrite
<1> QED
  BY <1>3, <1>9, <1>11, StraightOn, NoStore DEF Executed

LEMMA StoreExecuted ==
  ASSUME CosimContext, tb["wb"].instr.op \in STypes, ExecuteS(tb["wb"].instr)
  PROVE  Executed
<1> DEFINE i == tb["wb"].instr
           a == regs[i.rs1]
           b == regs[i.rs2]
<1>1. /\ Fetched = i /\ i \in Instr /\ IsValid(i) /\ Alike(i) /\ ipc \in Word
      /\ a \in Word /\ b \in Word /\ wb.rfEn = RfEn(i)
      /\ wb.alu = Result(i, ipc, a, b)
  BY Retiring
<1>2. i.op = "SW" /\ 2 * i.imm < Imm12Size
  BY <1>1 DEF Alike, STypes
<1>3. ~RfEn(i) /\ MemWr(i) /\ ~IsBranch(i) /\ ~IsJump(i)
  BY <1>1, OneType
<1>4. iregs = regs /\ AluAgrees /\ verdict = "running" /\ wb.valid
  BY DEF CosimContext, SameState
<1>5. SignExtend(i.imm, Imm12Size) = i.imm /\ i.imm \in Nat
  BY <1>1, <1>2, InstrType DEF SignExtend
<1>6. wb.alu = (a + i.imm) % WordSize
  BY <1>1, <1>2, <1>4, <1>5, SameValue
<1>7. DmemIndex(wb.alu) \in DataWords /\ b = a
  BY <1>1, <1>3, <1>4, <1>5, <1>6 DEF CosimContext, WithinData
<1>8. i.imm + 0 = i.imm
  BY <1>5
<1>9. /\ MemWrite(wb.alu, a) /\ ipc' = (ipc + 4) % WordSize /\ iregs' = iregs
  BY <1>2, <1>4, <1>6, <1>7, <1>8 DEF ExecuteS, Advance
<1>10. idata' = [idata EXCEPT ![DmemIndex(wb.alu)] = b] /\ itext' = itext
  BY <1>7, <1>9 DEF MemWrite
<1>11. /\ idata \in [DataWords -> Word]
       /\ \A w \in DataWords : dmem[w] = IF w = DmemIndex(wb.alu) THEN b ELSE idata[w]
  BY <1>3, <1>4 DEF CosimContext, SameState, StoreInWb
<1>12. iregs' = RegsWritten
  BY <1>1, <1>3, <1>4, <1>9 DEF RegsWritten
<1> QED
  BY <1>1, <1>3, <1>9, <1>10, <1>11, <1>12, StraightOn DEF Executed

\* Every other instruction keeps the memory
LEMMA RegisterExecuted ==
  ASSUME CosimContext, NEW v,
         tb["wb"].instr.op \in RTypes \cup (ITypes \ Loads) \cup UTypes,
         v = wb.alu, WriteReg(tb["wb"].instr.rd, v), Advance, KeepMem
  PROVE  Executed
<1> DEFINE i == tb["wb"].instr
<1>1. /\ i \in Instr /\ IsValid(i) /\ Alike(i) /\ wb.rd = i.rd /\ wb.wbSel = WbSel(i)
  BY Retiring
<1>2. /\ WbSel(i) = "alu" /\ RfEn(i) /\ ~MemWr(i) /\ ~IsBranch(i) /\ ~IsJump(i)
  BY <1>1, OneType DEF IsLoad, Alike
<1>3. i.rd # 0 => v = WbData
  BY <1>1, <1>2 DEF WbData
<1>4. iregs' = RegsWritten
  BY <1>2, <1>3, SameWrite
<1> QED
  BY <1>2, <1>4, StraightOn, NoStore DEF Executed, Advance, KeepMem

LEMMA BranchExecuted ==
  ASSUME CosimContext, tb["wb"].instr.op \in BTypes, ExecuteB(tb["wb"].instr)
  PROVE  Executed
<1> DEFINE i == tb["wb"].instr
           a == regs[i.rs1]
           b == regs[i.rs2]
<1>1. /\ i \in Instr /\ IsValid(i) /\ Alike(i) /\ ipc \in Word /\ wb.rfEn = RfEn(i)
      /\ a \in Word /\ b \in Word /\ tb["wb"].pc = ipc
  BY Retiring
<1>2. ~RfEn(i) /\ ~MemWr(i) /\ IsBranch(i) /\ ~IsJump(i)
  BY <1>1, OneType
<1>3. iregs = regs /\ AluAgrees /\ wb.valid
  BY DEF CosimContext, SameState
<1>4. Taken(i, ipc, a, b) = BCond(i.op, a, b) /\ Offset(i.imm, Imm12Size) = ImmValue(i)
  BY <1>1, <1>2, <1>3, SameValue, OffsetIsImm
<1>5. ipc' = AfterWb
  BY <1>1, <1>2, <1>3, <1>4 DEF ExecuteB, AfterWb, LeadsTo, SeqPC, Add
<1>6. iregs' = RegsWritten
  BY <1>1, <1>2, <1>3 DEF ExecuteB, RegsWritten
<1> QED
  BY <1>2, <1>5, <1>6, NoStore DEF ExecuteB, KeepMem, Executed

LEMMA JumpExecuted ==
  ASSUME CosimContext, tb["wb"].instr.op \in JTypes, ExecuteJ(tb["wb"].instr)
  PROVE  Executed
<1> DEFINE i == tb["wb"].instr
<1>1. /\ i \in Instr /\ IsValid(i) /\ tb["wb"].pc = ipc /\ wb.rd = i.rd
      /\ wb.wbSel = WbSel(i) /\ wb.seqpc = SeqPC(ipc)
  BY Retiring
<1>2. WbSel(i) = "seq" /\ RfEn(i) /\ ~MemWr(i) /\ ~IsBranch(i) /\ IsJump(i)
  BY <1>1, OneType
<1>3. wb.valid
  BY DEF CosimContext
<1>4. ipc' = AfterWb
  BY <1>1, <1>2, <1>3, OffsetIsImm DEF ExecuteJ, AfterWb, LeadsTo, Add
<1>5. i.rd # 0 => (ipc + 4) % WordSize = WbData
  BY <1>1, <1>2 DEF WbData, SeqPC, Add
<1>6. iregs' = RegsWritten
  BY <1>2, <1>5, SameWrite DEF ExecuteJ
<1> QED
  BY <1>2, <1>4, <1>6, NoStore DEF ExecuteJ, KeepMem, Executed

LEMMA SimulatorExecutes ==
  ASSUME CosimContext, ProcessInstruction
  PROVE  Executed /\ opcode' = tb["wb"].instr
<1> DEFINE i == tb["wb"].instr
           a == regs[i.rs1]
           b == regs[i.rs2]
<1>1. /\ Fetched = i /\ i \in Instr /\ IsValid(i) /\ Alike(i) /\ ipc \in Word
      /\ a \in Word /\ b \in Word
      /\ wb.alu = Result(i, ipc, a, b)
  BY Retiring
<1>2. iregs = regs /\ AluAgrees
  BY DEF CosimContext, SameState
<1>3. opcode' = i
  BY <1>1 DEF ProcessInstruction
<1>4. \/ i.op \in RTypes /\ ExecuteR(i)
      \/ i.op \in ITypes /\ ExecuteI(i)
      \/ i.op \in STypes /\ ExecuteS(i)
      \/ i.op \in BTypes /\ ExecuteB(i)
      \/ i.op \in UTypes /\ ExecuteU(i)
      \/ i.op \in JTypes /\ ExecuteJ(i)
  BY <1>1 DEF ProcessInstruction
<1>5. CASE i.op \in RTypes /\ ExecuteR(i)
  <2>1. RValue(i.op, a, b) = wb.alu
    BY <1>1, <1>2, <1>5, SameValue
  <2>2. WriteReg(i.rd, RValue(i.op, a, b)) /\ Advance /\ KeepMem
    BY <1>2, <1>5 DEF ExecuteR
  <2> QED
    BY <1>3, <1>5, <2>1, <2>2, RegisterExecuted
<1>6. CASE i.op \in ITypes /\ ExecuteI(i)
  <2>1. CASE i.op \in Loads
    BY <1>3, <1>6, <2>1, LoadExecuted
  <2>2. CASE i.op \notin Loads
    <3>1. i.op \in IExecuted \ {"JALR"} /\ ComputedValue(i.op, a, Extend(i.imm, Imm12Size)) = wb.alu
      BY <1>1, <1>2, <1>6, <2>2, SameValue
    <3>2. /\ WriteReg(i.rd, ComputedValue(i.op, a, Extend(i.imm, Imm12Size)))
          /\ Advance /\ KeepMem
      BY <1>2, <1>6, <2>2, <3>1 DEF ExecuteI, IsLoad
    <3> QED
      BY <1>3, <1>6, <2>2, <3>1, <3>2, RegisterExecuted
  <2> QED
    BY <2>1, <2>2
<1>7. CASE i.op \in STypes /\ ExecuteS(i)
  BY <1>3, <1>7, StoreExecuted
<1>8. CASE i.op \in BTypes /\ ExecuteB(i)
  BY <1>3, <1>8, BranchExecuted
<1>9. CASE i.op \in UTypes /\ ExecuteU(i)
  <2> DEFINE upper == (i.imm * UpperUnit) % WordSize
             v == IF i.op = "LUI" THEN upper ELSE (ipc + upper) % WordSize
  <2>1. v = wb.alu
    BY <1>1, <1>2, <1>9, SameValue DEF UTypes
  <2>2. WriteReg(i.rd, v) /\ Advance /\ KeepMem
    BY <1>9 DEF ExecuteU
  <2> HIDE DEF v
  <2> QED
    BY <1>3, <1>9, <2>1, <2>2, RegisterExecuted
<1>10. CASE i.op \in JTypes /\ ExecuteJ(i)
  BY <1>3, <1>10, JumpExecuted
<1> QED
  BY <1>4, <1>5, <1>6, <1>7, <1>8, <1>9, <1>10

-----------------------------------------------------------------------------
(* A clock cycle *)

AlikeProg == \A s \in Slots : Alike(prog[s])

LEMMA AlikeNoLinkUse ==
  ASSUME NEW p \in Program, \A s \in Slots : Alike(p[s])
  PROVE  NoLinkUse(p)
  <1> SUFFICES ASSUME NEW a \in Word PROVE Imem(p, a).op # "JALR"
    BY DEF NoLinkUse
  <1> QED
    BY DEF Imem, Alike, NoInstr

CosimStep ==
  /\ AluAgrees /\ AlikeProg /\ RefineInv /\ RefineInv'
  /\ Follows /\ OnPath /\ SameState /\ WithinData
  /\ Clock

\* The simulator has caught up with what the pipeline has retired, and the testbench has
\* found no difference
LEMMA CaughtUp ==
  ASSUME CosimStep
  PROVE  /\ Executed /\ iregs' = regs' /\ runBit' /\ prevPC' = ipc'
         /\ verdict' \in {"running", "finish"}
<1>1. /\ verdict = "running" /\ regs' = RegsWritten
      /\ iregs = regs /\ runBit = TRUE /\ prevPC = ipc
  BY DEF CosimStep, Clock, Run, Cycle, SameState
<1>2. CASE Retire
  <2>1. CosimContext
    BY <1>1, <1>2 DEF CosimStep, CosimContext, Retire, AlikeProg
  <2>2. /\ ProcessInstruction
        /\ runBit' = (IsValid(opcode') /\ CompareOk)
        /\ prevPC' = IF CompareOk THEN ipc' ELSE prevPC
        /\ verdict' = RetireVerdict(CompareOk, instrCount')
    BY <1>1, <1>2 DEF Retire
  <2>3. Executed /\ opcode' = tb["wb"].instr
    BY <2>1, <2>2, SimulatorExecutes
  <2>4. /\ tb["wb"].decoded = tb["wb"].instr /\ IsValid(tb["wb"].instr) /\ tb["wb"].pc = ipc
    BY <2>1 DEF CosimContext, Follows, Carries, OnPath
  <2>5. iregs' = regs'
    BY <1>1, <2>3 DEF Executed
  <2>6. CompareOk
    BY <1>1, <2>3, <2>4, <2>5 DEF CompareOk
  <2>7. RetireVerdict(CompareOk, instrCount') \in {"running", "finish"}
    BY <2>6 DEF RetireVerdict
  <2> QED
    BY <2>2, <2>3, <2>4, <2>5, <2>6, <2>7
<1>3. CASE NoRetire
  <2>1. ~wb.valid /\ UNCHANGED <<ipc, iregs, itext, idata, runBit, prevPC, verdict>>
    BY <1>3 DEF NoRetire, issVars
  <2>2. RegsWritten = regs /\ AfterWb = ipc
    BY <2>1 DEF CosimStep, Follows, RegsWritten, AfterWb
  <2>3. idata \in [DataWords -> Word] /\ \A w \in DataWords : dmem[w] = idata[w]
    BY <2>1 DEF CosimStep, SameState, StoreInWb
  <2> QED
    BY <1>1, <2>1, <2>2, <2>3 DEF Executed
<1> QED
  BY <1>2, <1>3 DEF CosimStep, Clock

\* The stages of the testbench shift as those of the pipeline
LEMMA Shifted ==
  ASSUME CosimStep
  PROVE  /\ tb'["iss"] = [pc |-> pc, instr |-> Imem(prog, pc), decoded |-> NoInstr]
         /\ IsValid(iss.instr) =>
              tb'["ex"] = [pc |-> iss.pc, instr |-> iss.instr, decoded |-> iss.instr]
         /\ tb'["mem"] = tb["ex"] /\ tb'["wb"] = tb["mem"]
         /\ tb' \in [TbStages -> [pc : Word, instr : Instr, decoded : Instr]]
<1>1. /\ pc \in Word /\ Imem(prog, pc) \in Instr /\ iss.instr \in Instr
      /\ tb \in [TbStages -> [pc : Word, instr : Instr, decoded : Instr]]
      /\ IsValid(iss.instr) => tb["iss"].pc = iss.pc /\ tb["iss"].instr = iss.instr
  BY WireTypes, StageTypes DEF CosimStep, RefineInv, TypeOK, Follows
<1>2. \A t \in TbStages : tb[t] \in [pc : Word, instr : Instr, decoded : Instr]
  BY <1>1
<1>3. TbStages = {"iss", "ex", "mem", "wb"}
  BY DEF TbStages
<1>4. tb' = [iss |-> [pc |-> pc, instr |-> Imem(prog, pc), decoded |-> NoInstr],
             ex  |-> [tb["iss"] EXCEPT !.decoded = iss.instr],
             mem |-> tb["ex"],
             wb  |-> tb["mem"]]
  BY DEF CosimStep, Clock, TbShift
<1>5. [tb["iss"] EXCEPT !.decoded = iss.instr]
        = [pc |-> tb["iss"].pc, instr |-> tb["iss"].instr, decoded |-> iss.instr]
  BY <1>2, <1>3
<1>6. [tb["iss"] EXCEPT !.decoded = iss.instr] \in [pc : Word, instr : Instr, decoded : Instr]
  BY <1>1, <1>2, <1>3
<1>7. [pc |-> pc, instr |-> Imem(prog, pc), decoded |-> NoInstr]
        \in [pc : Word, instr : Instr, decoded : Instr]
  BY <1>1, NoInstrType
<1>8. tb' \in [TbStages -> [pc : Word, instr : Instr, decoded : Instr]]
  BY <1>2, <1>3, <1>4, <1>6, <1>7
<1> QED
  BY <1>1, <1>4, <1>5, <1>8

\* What a cycle takes out of EX
LEMMA LeavesEx ==
  ASSUME CosimStep
  PROVE  /\ mem'.valid = ex.valid /\ prog' = prog
         /\ ex.valid => /\ Carries(mem', tb["ex"], RegsWritten')
                        /\ tb["ex"].instr = ex.instr /\ tb["ex"].pc = ex.pc
                        /\ mem'.memWr = MemWr(ex.instr)
                        /\ mem'.memWr => mem'.p2 = RegsWritten'[ex.instr.rs2]
                        /\ ArchPC = ex.pc
                        /\ ArchPC' = LeadsTo(ex.instr, ex.pc, RegsWritten')
         /\ ~ex.valid => ~mem'.rfEn /\ ~mem'.memWr /\ ArchPC' = ArchPC
<1>1. PICK order \in NegedgeOrders : Cycle(order)
  BY DEF CosimStep, Clock, Run
<1>2. /\ RefineInv /\ RefineInv' /\ TypeOK /\ TypeOK' /\ FlowInv /\ FlowInv' /\ GoodProg
  BY DEF CosimStep, RefineInv, RightProg
<1>3. mem'.valid = ex.valid /\ prog' = prog
  BY <1>1 DEF Cycle, LoadMem
<1>4. RegsWritten' = ArchRegs
  BY <1>1, <1>2, DrainedRegs
<1>5. ArchPC' = IF ex.valid THEN Goes ELSE ArchPC
  BY <1>1, <1>2, CycleFlow DEF FlowInv
<1>6. ASSUME ex.valid
      PROVE  /\ Carries(mem', tb["ex"], RegsWritten')
             /\ tb["ex"].instr = ex.instr /\ tb["ex"].pc = ex.pc
             /\ mem'.memWr = MemWr(ex.instr)
             /\ mem'.memWr => mem'.p2 = RegsWritten'[ex.instr.rs2]
             /\ ArchPC = ex.pc
             /\ ArchPC' = LeadsTo(ex.instr, ex.pc, RegsWritten')
  <2> DEFINE a == ArchRegs[ex.instr.rs1]
             b == ArchRegs[ex.instr.rs2]
  <2>1. /\ tb["ex"].pc = ex.pc /\ tb["ex"].instr = ex.instr /\ tb["ex"].decoded = ex.instr
    BY <1>6 DEF CosimStep, Follows
  <2>2. /\ IsValid(ex.instr) /\ ex.instr = Imem(prog, ex.pc) /\ ex.seqpc = SeqPC(ex.pc)
        /\ ex.brnpc = Add(ex.pc, ImmValue(ex.instr)) /\ ex.pc \in Word
    BY <1>2, <1>6, StageTypes DEF FlowInv, FetchInv, ExFetched, Target
  <2>3. /\ Result(ex.instr, ex.pc, P1, P2) = Result(ex.instr, ex.pc, a, b)
        /\ BranchTaken = Taken(ex.instr, ex.pc, a, b)
        /\ MemWr(ex.instr) => P2 = b
    BY <1>2, <1>6, CurrentResult
  <2> HIDE DEF a, b
  <2>4. /\ mem'.rfEn = RfEn(ex.instr) /\ mem'.wbSel = WbSel(ex.instr)
        /\ mem'.memWr = MemWr(ex.instr) /\ mem'.rd = ex.instr.rd
        /\ mem'.alu = Result(ex.instr, ex.pc, a, b) /\ mem'.seqpc = SeqPC(ex.pc)
        /\ mem'.p2 = P2
    BY <1>1, <2>2, <2>3 DEF Cycle, LoadMem
  <2>5. a = RegsWritten'[ex.instr.rs1] /\ b = RegsWritten'[ex.instr.rs2]
    BY <1>4 DEF a, b
  <2>6. Goes = LeadsTo(ex.instr, ex.pc, RegsWritten')
    BY <2>2, <2>3, <2>5 DEF Goes, LeadsTo
  <2>7. Carries(mem', tb["ex"], RegsWritten')
    BY <2>1, <2>2, <2>4, <2>5 DEF Carries
  <2>8. ArchPC = ex.pc
    BY <1>6 DEF ArchPC
  <2> QED
    BY <1>5, <1>6, <2>1, <2>3, <2>4, <2>5, <2>6, <2>7, <2>8
<1>7. ASSUME ~ex.valid PROVE ~mem'.rfEn /\ ~mem'.memWr
  <2>1. ~RfEn(ex.instr) /\ ~MemWr(ex.instr)
    BY <1>2, <1>7 DEF FlowInv, FetchInv, ExFetched, IsValid, RfEn, MemWr, RTypes, ITypes,
                      Loads, UTypes, JTypes, STypes
  <2> QED
    BY <1>1, <2>1 DEF Cycle, LoadMem
<1> QED
  BY <1>3, <1>5, <1>6, <1>7

\* What a cycle takes out of MEM, as the simulator's memory will have it
LEMMA LeavesMem ==
  ASSUME CosimStep
  PROVE  /\ wb'.valid = mem.valid
         /\ mem.valid => /\ Carries(wb', tb["mem"], regs')
                         /\ DmemIndex(wb'.alu) \in DataWords
                              => wb'.rdata = idata'[DmemIndex(wb'.alu)]
         /\ ~mem.valid => ~wb'.rfEn
<1>1. /\ wb' = [valid |-> mem.valid, rfEn |-> mem.rfEn, wbSel |-> mem.wbSel, rd |-> mem.rd,
                alu |-> mem.alu, rdata |-> ReadData, seqpc |-> mem.seqpc]
      /\ regs' = RegsWritten
  BY DEF CosimStep, Clock, Run, Cycle, LoadWb
<1>2. \A w \in DataWords : idata'[w] = dmem[w]
  BY CaughtUp DEF Executed
<1>3. mem.valid => Carries(mem, tb["mem"], RegsWritten)
  BY DEF CosimStep, Follows
<1>4. ~mem.valid => ~mem.rfEn
  BY DEF CosimStep, Follows
<1> QED
  BY <1>1, <1>2, <1>3, <1>4 DEF Carries, ReadData

LEMMA FollowsNext == CosimStep => Follows'
<1> SUFFICES ASSUME CosimStep PROVE Follows'
  OBVIOUS
<1>1. PICK order : Cycle(order)
  BY DEF CosimStep, Clock, Run
<1>2. IsValid(iss'.instr) => tb'["iss"].pc = iss'.pc /\ tb'["iss"].instr = iss'.instr
  BY <1>1, Shifted, NoInstrType DEF Cycle, LoadIss, IssBubble
<1>3. ex'.valid => tb'["ex"] = [pc |-> ex'.pc, instr |-> ex'.instr, decoded |-> ex'.instr]
  BY <1>1, Shifted DEF Cycle, LoadEx, ExBubble
<1>4. mem'.valid => /\ Carries(mem', tb'["mem"], RegsWritten')
                    /\ mem'.memWr = MemWr(tb'["mem"].instr)
                    /\ mem'.memWr => mem'.p2 = RegsWritten'[tb'["mem"].instr.rs2]
  BY LeavesEx, Shifted
<1>5. ~mem'.valid => ~mem'.rfEn /\ ~mem'.memWr
  BY LeavesEx
<1>6. wb'.valid => /\ Carries(wb', tb'["wb"], regs')
                   /\ IsLoad(tb'["wb"].instr) /\ DmemIndex(wb'.alu) \in DataWords
                        => wb'.rdata = idata'[DmemIndex(wb'.alu)]
  BY LeavesMem, Shifted
<1>7. ~wb'.valid => ~wb'.rfEn
  BY LeavesMem
<1>8. prog' = prog
  BY LeavesEx
<1> QED
  BY <1>2, <1>3, <1>4, <1>5, <1>6, <1>7, <1>8, Shifted DEF Follows, Carries

LEMMA OnPathNext == CosimStep => OnPath'
<1> SUFFICES ASSUME CosimStep PROVE OnPath'
  OBVIOUS
<1>1. /\ ipc' = AfterWb /\ regs' = RegsWritten
  BY CaughtUp DEF Executed, CosimStep, Clock, Run, Cycle
<1>2. /\ mem.valid => tb["mem"].pc = AfterWb
      /\ ArchPC = AfterMem
  BY DEF CosimStep, OnPath
<1>3. wb'.valid => tb'["wb"].pc = ipc'
  BY <1>1, <1>2, LeavesMem, Shifted
<1>4. AfterWb' = AfterMem
  BY <1>1, LeavesMem, Shifted DEF AfterWb, AfterMem
<1>5. mem'.valid => tb'["mem"].pc = AfterWb'
  BY <1>2, <1>4, LeavesEx, Shifted
<1>6. AfterMem' = IF ex.valid THEN LeadsTo(ex.instr, ex.pc, RegsWritten') ELSE AfterWb'
  BY LeavesEx, Shifted DEF AfterMem, LeadsTo
<1>7. ArchPC' = AfterMem'
  BY <1>2, <1>4, <1>6, LeavesEx
<1> QED
  BY <1>3, <1>5, <1>7 DEF OnPath

LEMMA SameStateNext == CosimStep => SameState'
<1> SUFFICES ASSUME CosimStep PROVE SameState'
  OBVIOUS
<1>1. /\ dmem' = IF mem.memWr THEN [dmem EXCEPT ![DmemIndex(mem.alu)] = mem.p2] ELSE dmem
      /\ wb'.valid = mem.valid /\ wb'.alu = mem.alu /\ regs' = RegsWritten
  BY DEF CosimStep, Clock, Run, Cycle, LoadWb
<1>2. DataWords \subseteq DmemWords
  BY WordAssumption DEF DataWords, DmemWords
<1>3. dmem \in [DmemWords -> Word]
  BY DEF CosimStep, RefineInv, TypeOK
<1>4. /\ mem.valid => /\ mem.memWr = MemWr(tb["mem"].instr)
                      /\ mem.memWr => mem.p2 = RegsWritten[tb["mem"].instr.rs2]
      /\ ~mem.valid => ~mem.memWr
  BY DEF CosimStep, Follows
<1>5. ASSUME NEW w \in DataWords
      PROVE  dmem'[w] = IF StoreInWb(w)' THEN regs'[tb'["wb"].instr.rs2] ELSE idata'[w]
  <2>1. idata'[w] = dmem[w]
    BY CaughtUp DEF Executed
  <2>2. StoreInWb(w)' = (mem.valid /\ MemWr(tb["mem"].instr) /\ w = DmemIndex(mem.alu))
    BY <1>1, Shifted DEF StoreInWb
  <2> QED
    BY <1>1, <1>2, <1>3, <1>4, <2>1, <2>2, Shifted
<1>6. itext' = prog'
  BY CaughtUp, LeavesEx DEF Executed, CosimStep, SameState
<1> QED
  BY <1>5, <1>6, CaughtUp DEF SameState, Executed

-----------------------------------------------------------------------------
(* The theorems *)

CosimAll == RefineInv /\ AlikeProg /\ CosimInv

LEMMA CosimStarts ==
  ASSUME GoodPrograms
  PROVE  CosimInit => CosimAll
<1> SUFFICES ASSUME CosimInit PROVE CosimAll
  OBVIOUS
<1>1. RefineInv
  <2>1. \A p \in Programs : NoLinkUse(p)
    BY AlikeNoLinkUse, PipelineAssumption DEF GoodPrograms
  <2> QED
    BY <2>1, InitRefineInv DEF GoodPrograms, CosimInit
<1>2. AlikeProg
  BY DEF GoodPrograms, CosimInit, Init, AlikeProg
<1>3. /\ iss = IssBubble /\ ex = ExBubble /\ mem = MemBubble /\ wb = WbBubble
      /\ pc = TextBase /\ dmem = [w \in DmemWords |-> DmemFill]
      /\ IssInit(prog, regs, DmemFill) /\ tb = [s \in TbStages |-> TbNone]
      /\ verdict = "running"
  BY DEF CosimInit, Init
<1>4. DataWords \subseteq DmemWords
  BY WordAssumption DEF DataWords, DmemWords
<1>5. Follows
  <2>1. TbNone \in [pc : Word, instr : Instr, decoded : Instr]
    BY WordFacts, NoInstrType DEF TbNone
  <2>2. ~IsValid(IssBubble.instr)
    BY NoInstrType DEF IssBubble
  <2> QED
    BY <1>3, <2>1, <2>2 DEF Follows, ExBubble, MemBubble, WbBubble
<1>6. OnPath
  <2>1. ArchPC = pc
    BY <1>3, BubbleArch
  <2> QED
    BY <1>3, <2>1 DEF OnPath, AfterMem, AfterWb, MemBubble, WbBubble, IssInit
<1>7. SameState
  <2>1. ~wb.valid
    BY <1>3 DEF WbBubble
  <2> QED
    BY <1>3, <1>4, <2>1, WordFacts DEF SameState, StoreInWb, IssInit
<1> QED
  BY <1>1, <1>2, <1>3, <1>5, <1>6, <1>7 DEF CosimAll, CosimInv

LEMMA CosimContinues ==
  ASSUME NegedgeOrders = {WriteFirst}, AluAgrees
  PROVE  CosimAll /\ WithinData /\ [Clock]_cosimVars => CosimAll'
<1> SUFFICES ASSUME CosimAll, WithinData, [Clock]_cosimVars PROVE CosimAll'
  OBVIOUS
<1>1. CASE Clock
  <2>1. RefineInv'
    BY <1>1, StepRefineInv DEF CosimAll, Clock, Next
  <2>2. CosimStep
    BY <1>1, <2>1 DEF CosimAll, CosimInv, CosimStep, Clock
  <2>3. AlikeProg'
    BY <2>2, LeavesEx DEF CosimStep, AlikeProg
  <2> QED
    BY <2>1, <2>2, <2>3, CaughtUp, FollowsNext, OnPathNext, SameStateNext
       DEF CosimAll, CosimInv
<1>2. CASE UNCHANGED cosimVars
  <2>1. UNCHANGED vars /\ UNCHANGED issVars /\ UNCHANGED tbVars
    BY <1>2 DEF cosimVars
  <2>2. RefineInv'
    BY <2>1, StepRefineInv DEF CosimAll
  <2>3. UNCHANGED <<prog, pc, iss, ex, mem, wb, regs, dmem, ipc, iregs, itext, idata, runBit,
                    prevPC, tb, verdict>>
    BY <2>1 DEF vars, stages, issVars, tbVars
  <2>4. AlikeProg'
    BY <2>3 DEF CosimAll, AlikeProg
  <2>5. Follows => Follows'
    <3>1. RegsWritten' = RegsWritten
      BY <2>3 DEF RegsWritten, WbData
    <3>2. /\ Carries(mem, tb["mem"], RegsWritten)' = Carries(mem, tb["mem"], RegsWritten)
          /\ Carries(wb, tb["wb"], regs)' = Carries(wb, tb["wb"], regs)
      BY <2>3, <3>1 DEF Carries
    <3> QED
      BY <2>3, <3>1, <3>2 DEF Follows
  <2>6. AfterWb' = AfterWb /\ AfterMem' = AfterMem /\ ArchPC' = ArchPC
    BY <2>3 DEF ArchPC, AfterMem, AfterWb, LeadsTo, RegsWritten, WbData
  <2>7. OnPath => OnPath'
    BY <2>3, <2>6 DEF OnPath
  <2>8. SameState => SameState'
    BY <2>3 DEF SameState, StoreInWb
  <2>9. CosimInv'
    BY <2>3, <2>5, <2>7, <2>8 DEF CosimAll, CosimInv
  <2> QED
    BY <2>2, <2>4, <2>9 DEF CosimAll
<1> QED
  BY <1>1, <1>2

LEMMA CosimInvariant ==
  ASSUME NegedgeOrders = {WriteFirst}, AluAgrees, GoodPrograms
  PROVE  CosimSpec /\ []WithinData => []CosimAll
  BY CosimStarts, CosimContinues, PTL DEF CosimSpec

\* A register that no instruction of the program writes has its boot value
KeptInv ==
  /\ prog \in Programs
  /\ \E boot \in BootRegs : \A r \in Reg : NeverWritten(prog, r) => regs[r] = boot[r]

LEMMA KeptNext ==
  ASSUME NegedgeOrders = {WriteFirst}, KeptInv, CosimAll, [Clock]_cosimVars
  PROVE  KeptInv'
<1>1. CASE Clock
  <2>1. prog' = prog /\ regs' = RegsWritten /\ verdict = "running"
    BY <1>1 DEF Clock, Run, Cycle
  <2>2. /\ regs \in [Reg -> Word] /\ regs'[0] = 0 /\ regs[0] = 0
    <3>1. RefineInv /\ RefineInv'
      BY <1>1, StepRefineInv DEF CosimAll, Clock, Next
    <3> QED
      BY <3>1 DEF RefineInv, FlowInv, ForwardInv, TypeOK
  <2>3. wb.rfEn => \E s \in Slots : RfEn(prog[s]) /\ prog[s].rd = wb.rd
    <3> SUFFICES ASSUME wb.rfEn PROVE \E s \in Slots : RfEn(prog[s]) /\ prog[s].rd = wb.rd
      OBVIOUS
    <3>1. Carries(wb, tb["wb"], regs)
      BY <2>1 DEF CosimAll, CosimInv, Follows
    <3>2. RfEn(Imem(prog, tb["wb"].pc)) /\ wb.rd = Imem(prog, tb["wb"].pc).rd
      BY <3>1 DEF Carries
    <3> QED
      BY <3>2, NoInstrType DEF Imem
  <2>4. ASSUME NEW r \in Reg, NeverWritten(prog, r) PROVE regs'[r] = regs[r]
    <3>1. CASE r = 0
      BY <2>2, <3>1
    <3>2. CASE r # 0
      BY <2>1, <2>2, <2>3, <2>4, <3>2 DEF NeverWritten, RegsWritten
    <3> QED
      BY <3>1, <3>2
  <2> QED
    BY <2>1, <2>4 DEF KeptInv, NeverWritten
<1>2. CASE UNCHANGED cosimVars
  BY <1>2 DEF KeptInv, cosimVars, vars, NeverWritten
<1> QED
  BY <1>1, <1>2

\* Programs whose loads and stores have fixed addresses stay in the data region
\* (data_mem, and the regions of the simulator): on them the theorems below hold of
\* CosimSpec alone.
THEOREM StaysInData ==
  ASSUME NegedgeOrders = {WriteFirst}, AluAgrees, GoodPrograms, FixedAddresses
  PROVE  CosimSpec => []WithinData
<1>1. CosimAll /\ KeptInv => WithinData
  <2> DEFINE i == Fetched
  <2> SUFFICES ASSUME CosimAll, KeptInv, verdict = "running", IsLoad(i) \/ MemWr(i)
               PROVE  /\ DmemIndex((iregs[i.rs1] + SignExtend(i.imm, Imm12Size)) % WordSize) \in DataWords
                      /\ MemWr(i) => iregs[i.rs2] = iregs[i.rs1]
    BY DEF WithinData
  <2>1. itext = prog /\ iregs = regs /\ prog \in Programs
    BY DEF CosimAll, CosimInv, SameState, KeptInv
  <2>2. PICK s \in Slots : i = prog[s]
    BY <2>1, NoInstrType DEF Fetched
  <2>3. PICK boot \in BootRegs : \A r \in Reg : NeverWritten(prog, r) => regs[r] = boot[r]
    BY DEF KeptInv
  <2>4. /\ NeverWritten(prog, i.rs1) /\ (MemWr(i) => i.rs2 = i.rs1)
        /\ DmemIndex((boot[i.rs1] + SignExtend(i.imm, Imm12Size)) % WordSize) \in DataWords
    BY <2>1, <2>2 DEF FixedAddresses
  <2>5. i.rs1 \in Reg
    BY <2>1, <2>2, PipelineAssumption DEF Program, Instr, InstrFields
  <2>6. iregs[i.rs1] = boot[i.rs1]
    BY <2>1, <2>3, <2>4, <2>5
  <2> QED
    BY <2>4, <2>6
<1>2. CosimInit => KeptInv
  BY DEF CosimInit, Init, KeptInv
<1>3. CosimAll /\ KeptInv /\ [Clock]_cosimVars => KeptInv'
  BY KeptNext
<1> QED
  BY <1>1, <1>2, <1>3, CosimStarts, CosimContinues, PTL DEF CosimSpec

\* The testbench reports no difference and is not halted (the assertion of
\* top_tb.sv:203-233): for every program for which the pipeline is right and that both
\* machines understand alike, while its accesses stay in the data region.
THEOREM NoDifference ==
  ASSUME NegedgeOrders = {WriteFirst}, AluAgrees, GoodPrograms
  PROVE  CosimSpec /\ []WithinData => []NeverFatal
<1>1. CosimAll => NeverFatal
  BY DEF CosimAll, CosimInv, NeverFatal
<1> QED
  BY <1>1, CosimInvariant, PTL

\* Under the same conditions every register of the two machines is the same after every
\* cycle, those included that compare_r .. compare_j do not look at.
THEOREM SameRegisters ==
  ASSUME NegedgeOrders = {WriteFirst}, AluAgrees, GoodPrograms
  PROVE  CosimSpec /\ []WithinData => []LockStep
<1>1. CosimAll => LockStep
  BY DEF CosimAll, CosimInv, SameState, LockStep
<1> QED
  BY <1>1, CosimInvariant, PTL

\* And so is every word of the data region, which no comparison looks at, but the word
\* of a store that waits in WB for the simulator.
THEOREM SameMemory ==
  ASSUME NegedgeOrders = {WriteFirst}, AluAgrees, GoodPrograms
  PROVE  CosimSpec /\ []WithinData => []MemoryAgrees
<1>1. CosimAll => MemoryAgrees
  <2> SUFFICES ASSUME CosimAll, verdict = "running", NEW w \in DataWords, dmem[w] # idata[w]
               PROVE  wb.valid /\ tb["wb"].decoded.op \in STypes
    BY DEF MemoryAgrees
  <2>1. wb.valid /\ MemWr(tb["wb"].instr)
    BY DEF CosimAll, CosimInv, SameState, StoreInWb
  <2> QED
    BY <2>1 DEF CosimAll, CosimInv, Follows, Carries, MemWr
<1> QED
  BY <1>1, CosimInvariant, PTL

-----------------------------------------------------------------------------
(* With the ALU of alu.v *)

\* alu.v computes what sim.c computes, for words of any number of bits: the hypothesis
\* on the ALU is a theorem for the ALU the pipeline has (alu.v, control.v against
\* execute_r and execute_b).
THEOREM ShippedAluAgrees ==
  ASSUME AluWired
  PROVE  AluAgrees
<1>1. ASSUME NEW op \in RTypes \cup BTypes PROVE AluFn([op |-> op]) \in AluFns
  BY FunctionRows DEF RTypes, BTypes, AluFns
<1>2. ASSUME NEW a \in Word, NEW b \in Word, NEW op \in RTypes
      PROVE  AluRes(AluFn([op |-> op]), a, b) = RValue(op, a, b)
  BY <1>1, ResultsMatch DEF AluWired
<1>3. ASSUME NEW a \in Word, NEW b \in Word, NEW op \in BTypes
      PROVE  LET fn == AluFn([op |-> op])
             IN  BranchCond(op, AluZ(fn, a, b), AluN(fn, a, b)) = BCond(op, a, b)
  <2> DEFINE fn == AluFn([op |-> op])
  <2>1. AluZ(fn, a, b) = Unit!Z(fn, a, b) /\ AluN(fn, a, b) = Unit!N(fn, a, b)
    BY <1>1 DEF AluWired
  <2>2. BranchCond(op, Unit!Z(fn, a, b), Unit!N(fn, a, b)) = BCond(op, a, b)
    BY ConditionsMatch
  <2> HIDE DEF fn
  <2>3. BranchCond(op, AluZ(fn, a, b), AluN(fn, a, b)) = BCond(op, a, b)
    BY <2>1, <2>2
  <2> QED BY <2>3 DEF fn
<1> QED BY <1>2, <1>3 DEF AluAgrees

\* With that ALU the pipeline and the simulator differ in nothing the testbench compares,
\* in no register and in no word of the data: what is left to suppose is the order at the
\* falling edge, the restrictions on the programs and the addresses they use.
THEOREM ShippedPipelineAgrees ==
  ASSUME NegedgeOrders = {WriteFirst}, AluWired, GoodPrograms
  PROVE  CosimSpec /\ []WithinData => [](NeverFatal /\ LockStep /\ MemoryAgrees)
<1>1. AluAgrees
  BY ShippedAluAgrees
<1>2. /\ CosimSpec /\ []WithinData => []NeverFatal
      /\ CosimSpec /\ []WithinData => []LockStep
      /\ CosimSpec /\ []WithinData => []MemoryAgrees
  BY <1>1, NoDifference, SameRegisters, SameMemory
<1> QED
  BY <1>2, PTL
=============================================================================
