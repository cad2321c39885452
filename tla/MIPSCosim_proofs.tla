--------------------------- MODULE MIPSCosim_proofs ---------------------------
(***************************************************************************)
(* Theorems of MIPSPipeline, for every width, program and ALU: its types,   *)
(* the predictor and forwarding; then, when the register file writes before *)
(* it reads and the programs are within the restrictions, that its control  *)
(* flow is the program's and that it implements MIPSSequential.             *)
(*                                                                          *)
(* From them, of MIPSCosim: its testbench never reports a difference, the   *)
(* registers and the data memories of the two machines are the same after   *)
(* every cycle, and $finish comes with the simulator's stop, on programs    *)
(* for which the pipeline is right and which the two understand alike.      *)
(***************************************************************************)
EXTENDS MIPSCosim, MIPSPipelineInv, MIPSIsa_proofs

-----------------------------------------------------------------------------
(* What the operators of the model return *)

LEMMA IndexType == \A a \in Word : BP!Index(a) \in 0..(PredEntries - 1)
  BY PipelineAssumption, WordFacts DEF BP!Index

-----------------------------------------------------------------------------
(* Type correctness *)

LEMMA StageTypes ==
  ASSUME TypeOK
  PROVE  /\ ex \in ExReg /\ ex.instr \in Instr /\ ex.pc \in Word /\ ex.seqpc \in Word
         /\ ex.brnpc \in Word /\ ex.p1 \in Word /\ ex.p2 \in Word /\ ex.predpc \in Word
         /\ ex.pred \in BOOLEAN
         /\ iss.instr \in Instr /\ iss.pc \in Word /\ iss.seqpc \in Word
         /\ iss.pred \in BOOLEAN /\ iss.predpc \in Word
         /\ mem.instr \in Instr /\ mem.alu \in Word /\ mem.seqpc \in Word /\ mem.p2 \in Word
         /\ wb.instr \in Instr /\ wb.alu \in Word /\ wb.rdata \in Word /\ wb.seqpc \in Word
         /\ pc \in Word /\ prog \in Program
         /\ regs \in [Reg -> Word] /\ dmem \in [DmemWords -> Word]
         /\ bpred \in [0..(PredEntries - 1) -> 0..3] /\ btb \in [0..(PredEntries - 1) -> Word]
  BY DEF TypeOK, IssReg, ExReg, MemReg, WbReg, BP!TypeOK, Word

\* What the stages drive
LEMMA WireTypes ==
  ASSUME TypeOK
  PROVE  /\ WbData \in Word /\ ReadData \in Word /\ RegsWritten \in [Reg -> Word]
         /\ P1 \in Word /\ P2 \in Word /\ IssTarget \in Word /\ IssBranch \in Word
         /\ NextPC \in Word /\ Imem(prog, pc) \in Instr /\ SeqPC(pc) \in Word
         /\ BP!PredictTarget(pc) \in Word
  <1>1. WbData \in Word
    BY StageTypes, WordFacts DEF WbData
  <1>2. ReadData \in Word
    BY StageTypes, DmemIndexType DEF ReadData
  <1>3. RegsWritten \in [Reg -> Word]
    BY <1>1, StageTypes DEF RegsWritten
  <1>4. P1 \in Word /\ P2 \in Word
    BY <1>1, <1>2, StageTypes DEF P1, P2
  <1>5. IssTarget \in Word /\ IssBranch \in Word
    BY StageTypes, TargetType DEF IssTarget, IssBranch
  <1>6. SeqPC(pc) \in Word
    BY StageTypes, AddType, WordFacts DEF SeqPC
  <1>7. BP!PredictTarget(pc) \in Word
    BY StageTypes, IndexType, WordFacts DEF BP!PredictTarget
  <1>8. NextPC \in Word
    BY <1>5, <1>6, <1>7, StageTypes DEF NextPC, NextCalPC, Forced
  <1>9. Imem(prog, pc) \in Instr
    BY StageTypes, ImemType
  <1> QED
    BY <1>1, <1>2, <1>3, <1>4, <1>5, <1>6, <1>7, <1>8, <1>9

LEMMA BubbleTypes == /\ IssBubble \in IssReg /\ ExBubble \in ExReg
                     /\ MemBubble \in MemReg /\ WbBubble \in WbReg
  BY NoInstrType, WordFacts
     DEF IssBubble, ExBubble, MemBubble, WbBubble, IssReg, ExReg, MemReg, WbReg

LEMMA FeedbackType ==
  ASSUME TypeOK, NEW isBranch, NEW correct, NEW p \in Word, NEW target \in Word,
         BP!Feedback(isBranch, p, correct, target)
  PROVE  BP!TypeOK'
  <1>1. \A c \in 0..3 : BP!NextCount(c, correct) \in 0..3
    BY DEF BP!NextCount
  <1>2. bpred' \in [0..(PredEntries - 1) -> 0..3]
    BY <1>1, StageTypes, IndexType DEF BP!Feedback
  <1>3. btb' \in [0..(PredEntries - 1) -> Word]
    BY StageTypes, IndexType DEF BP!Feedback
  <1> QED
    BY <1>2, <1>3 DEF BP!TypeOK, Word

\* One step for each register the cycle loads
LEMMA CycleType ==
  ASSUME TypeOK, NEW order \in NegedgeOrders, Cycle(order)
  PROVE  TypeOK'
  <1>1. prog' \in Program /\ pc' \in Word /\ regs' \in [Reg -> Word]
    BY StageTypes, WireTypes DEF Cycle
  <1>2. iss' \in IssReg
    BY StageTypes, WireTypes, BubbleTypes DEF Cycle, LoadIss, IssReg, BP!PredictTaken
  <1>3. ex' \in ExReg
    <2>1. (IF order = WriteFirst THEN RegsWritten ELSE regs) \in [Reg -> Word]
      BY StageTypes, WireTypes
    <2> QED
      BY <2>1, StageTypes, WireTypes, BubbleTypes, PortType DEF Cycle, LoadEx, ExReg
  <1>4. mem' \in MemReg
    BY StageTypes, WireTypes, AluType DEF Cycle, LoadMem, MemReg
  <1>5. wb' \in WbReg
    BY StageTypes, WireTypes DEF Cycle, LoadWb, WbReg
  <1>6. dmem' \in [DmemWords -> Word]
    BY StageTypes, DmemIndexType DEF Cycle
  <1>7. BP!TypeOK'
    BY StageTypes, FeedbackType DEF Cycle
  <1> QED
    BY <1>1, <1>2, <1>3, <1>4, <1>5, <1>6, <1>7 DEF TypeOK

LEMMA ResetType ==
  ASSUME TypeOK, Reset
  PROVE  TypeOK'
  <1>1. BP!TypeOK'
    BY DEF Reset, TypeOK, BP!TypeOK
  <1> QED
    BY <1>1, StageTypes, WireTypes, BubbleTypes, WordFacts DEF Reset, TypeOK

LEMMA InitType == Init => TypeOK
  <1> SUFFICES ASSUME Init PROVE TypeOK
    OBVIOUS
  <1>1. BP!TypeOK
    BY PipelineAssumption, WordFacts DEF Init, BP!Init, BP!TypeOK, Word
  <1> QED
    BY <1>1, BubbleTypes, WordFacts, PipelineAssumption DEF Init, TypeOK

LEMMA StepType == TypeOK /\ [Next]_vars => TypeOK'
  <1> SUFFICES ASSUME TypeOK, [Next]_vars PROVE TypeOK'
    OBVIOUS
  <1>1. CASE Run
    BY <1>1, CycleType DEF Run
  <1>2. CASE Reset
    BY <1>2, ResetType
  <1>3. CASE UNCHANGED vars
    BY <1>3 DEF vars, stages, TypeOK, BP!TypeOK
  <1> QED
    BY <1>1, <1>2, <1>3 DEF Next

\* Every register, table and memory holds a value of its width in every reachable
\* state, whatever the program, the widths and the ALU (the declarations of top.v).
THEOREM TypeCorrect == Spec => []TypeOK
  BY InitType, StepType, PTL DEF Spec

-----------------------------------------------------------------------------
(* What the stages hold: the fetched words *)

LEMMA InitFetch == Init => FetchInv
  <1> SUFFICES ASSUME Init PROVE ExFetched /\ iss = IssBubble
    BY DEF FetchInv
  <1>1. ex = ExBubble /\ iss = IssBubble
    BY DEF Init
  <1> QED
    BY <1>1, NoInstrType DEF ExFetched, ExBubble

LEMMA CycleFetch ==
  ASSUME FetchInv, NEW order, Cycle(order)
  PROVE  FetchInv'
  <1>1. ExFetched'
    <2>1. CASE FlushEx
      BY <2>1, NoInstrType DEF Cycle, LoadEx, ExFetched, ExBubble
    <2>2. CASE ~FlushEx
      <3>1. CASE iss = IssBubble
        BY <2>2, <3>1, NoInstrType DEF Cycle, LoadEx, ExFetched, IssBubble
      <3>2. CASE IssIsFetched
        BY <2>2, <3>2 DEF Cycle, LoadEx, ExFetched, IssIsFetched, IssBranch
      <3> QED
        BY <3>1, <3>2 DEF FetchInv
    <2> QED
      BY <2>1, <2>2
  <1>2. iss' = IssBubble \/ IssIsFetched'
    BY DEF Cycle, LoadIss, IssIsFetched
  <1> QED
    BY <1>1, <1>2 DEF FetchInv

LEMMA StepFetch == FetchInv /\ [Next]_vars => FetchInv'
  <1> SUFFICES ASSUME FetchInv, [Next]_vars PROVE FetchInv'
    OBVIOUS
  <1>1. CASE Run
    BY <1>1, CycleFetch DEF Run
  <1>2. CASE Reset
    BY <1>2, NoInstrType DEF Reset, FetchInv, ExFetched, ExBubble
  <1>3. CASE UNCHANGED vars
    BY <1>3 DEF vars, stages, FetchInv, ExFetched, IssIsFetched
  <1> QED
    BY <1>1, <1>2, <1>3 DEF Next

-----------------------------------------------------------------------------
(* The branch predictor *)

\* A branch in EX feeds its own target back, and a correct prediction leaves an
\* entry at 0 where it is
LEMMA FeedbackTrains ==
  ASSUME TypeOK, FetchInv, BtbTrained, NEW correct,
         BP!Feedback(IsBranch(ex.instr), ex.pc, correct, ex.brnpc), prog' = prog
  PROVE  BtbTrained'
  <1> SUFFICES ASSUME NEW e \in 0..(PredEntries - 1), bpred'[e] # 0
               PROVE  \E a \in Word : /\ IsBranch(Imem(prog, a)) /\ BP!Index(a) = e
                                     /\ btb'[e] = Target(prog, a)
    BY DEF BtbTrained
  <1> USE StageTypes, IndexType
  <1>1. CASE ~IsBranch(ex.instr) \/ e # BP!Index(ex.pc)
    <2>1. bpred'[e] = bpred[e] /\ btb'[e] = btb[e]
      BY <1>1 DEF BP!Feedback
    <2> QED
      BY <2>1 DEF BtbTrained
  <1>2. CASE IsBranch(ex.instr) /\ e = BP!Index(ex.pc) /\ ~correct
    <2>1. btb'[e] = ex.brnpc
      BY <1>2 DEF BP!Feedback
    <2>2. IsValid(ex.instr) /\ ~IsJump(ex.instr)
      BY <1>2, BranchValid
    <2>3. ex.instr = Imem(prog, ex.pc) /\ ex.brnpc = Target(prog, ex.pc)
      BY <2>2 DEF FetchInv, ExFetched, Target
    <2> QED
      BY <1>2, <2>1, <2>3
  <1>3. CASE IsBranch(ex.instr) /\ e = BP!Index(ex.pc) /\ correct
    <2>1. bpred'[e] = BP!NextCount(bpred[e], correct) /\ btb'[e] = btb[e]
      BY <1>3 DEF BP!Feedback
    <2>2. BP!NextCount(0, correct) = 0
      BY <1>3 DEF BP!NextCount
    <2>3. bpred[e] # 0
      BY <2>1, <2>2
    <2> QED
      BY <2>1, <2>3 DEF BtbTrained
  <1> QED
    BY <1>1, <1>2, <1>3

LEMMA StepBtb == TypeOK /\ FetchInv /\ BtbTrained /\ [Next]_vars => BtbTrained'
  <1> SUFFICES ASSUME TypeOK, FetchInv, BtbTrained, [Next]_vars PROVE BtbTrained'
    OBVIOUS
  <1>1. CASE Run
    BY <1>1, FeedbackTrains DEF Run, Cycle
  <1>2. CASE Reset
    BY <1>2 DEF Reset, BtbTrained
  <1>3. CASE UNCHANGED vars
    BY <1>3 DEF vars, BtbTrained
  <1> QED
    BY <1>1, <1>2, <1>3 DEF Next

LEMMA InitBtb == Init => BtbTrained
  BY DEF Init, BP!Init, BtbTrained

\* However many addresses share an entry of the predictor, the target it gives is
\* the target of a branch of the program that maps to it (one_level_bpred.v:33-45).
THEOREM PredictorTrained == Spec => []BtbTrained
  <1>1. TypeOK /\ FetchInv /\ BtbTrained /\ [Next]_vars => (TypeOK /\ FetchInv /\ BtbTrained)'
    BY StepType, StepFetch, StepBtb
  <1> QED
    BY InitType, InitFetch, InitBtb, <1>1, PTL DEF Spec

-----------------------------------------------------------------------------
(* Forwarding *)

LEMMA WbDataZero == Dest(wb.instr) = 0 => WbData = 0
  BY WordFacts DEF WbData, Dest

LEMMA InitForward == Init => ForwardInv
  BY PipelineAssumption, NoInstrType, WordFacts
     DEF Init, ForwardInv, ExBubble, MemBubble

LEMMA CycleForward ==
  ASSUME TypeOK, FetchInv, ForwardInv, NEW order, order = WriteFirst, Cycle(order)
  PROVE  ForwardInv'
  <1>1. IsJump(ex'.instr) => iss' = IssBubble
    <2>1. CASE FlushEx
      BY <2>1, NoInstrType DEF Cycle, LoadEx, ExBubble
    <2>2. CASE ~FlushEx
      BY <2>2 DEF Cycle, LoadEx, LoadIss, FlushIss, JumpIss
    <2> QED
      BY <2>1, <2>2
  <1>2. IsJump(mem'.instr) => ~IsValid(ex'.instr)
    <2> SUFFICES ASSUME IsJump(mem'.instr) PROVE ~IsValid(ex'.instr)
      OBVIOUS
    <2>1. iss = IssBubble
      BY DEF Cycle, LoadMem, ForwardInv
    <2> QED
      BY <2>1, NoInstrType DEF Cycle, LoadEx, ExBubble, IssBubble
  <1>3. regs'[0] = 0
    BY StageTypes, PortType, WordFacts, WbDataZero DEF Cycle, RegsWritten, ForwardInv
  <1>4. ex'.p1 = regs'[Port1(ex'.instr)] /\ ex'.p2 = regs'[Port2(ex'.instr)]
    <2>1. CASE FlushEx
      BY <2>1, <1>3, NoInstrType DEF Cycle, LoadEx, ExBubble
    <2>2. CASE ~FlushEx
      BY <2>2 DEF Cycle, LoadEx
    <2> QED
      BY <2>1, <2>2
  <1> QED
    BY <1>1, <1>2, <1>3, <1>4 DEF ForwardInv

LEMMA ResetForward ==
  ASSUME TypeOK, ForwardInv, Reset
  PROVE  ForwardInv'
  <1>1. regs[0] = 0 /\ RegsWritten[0] = 0
    BY StageTypes, PortType, WbDataZero, WordFacts DEF RegsWritten, ForwardInv
  <1>2. regs'[0] = 0
    BY <1>1 DEF Reset
  <1> QED
    BY <1>2, NoInstrType DEF Reset, ForwardInv, ExBubble, MemBubble

LEMMA StepForward ==
  ASSUME NegedgeOrders = {WriteFirst}
  PROVE  TypeOK /\ FetchInv /\ ForwardInv /\ [Next]_vars => ForwardInv'
  <1> SUFFICES ASSUME TypeOK, FetchInv, ForwardInv, [Next]_vars PROVE ForwardInv'
    OBVIOUS
  <1>1. CASE Run
    BY <1>1, CycleForward DEF Run
  <1>2. CASE Reset
    BY <1>2, ResetForward
  <1>3. CASE UNCHANGED vars
    BY <1>3 DEF vars, stages, ForwardInv
  <1> QED
    BY <1>1, <1>2, <1>3 DEF Next

\* A register as the older instructions will leave it, seen by forwarding or not,
\* unless it is one of the values that forwarding misses
LEMMA ForwardedValue ==
  ASSUME TypeOK, ForwardInv, IsValid(ex.instr), NEW r \in Reg, NEW port1 \in BOOLEAN,
         ~MissedFromMem(r, port1), ~MissedFromWb(r)
  PROVE  /\ FromMem(r) => ArchRegs[r] = IF port1 /\ IsLw(mem.instr) THEN ReadData ELSE mem.alu
         /\ FromMem(r) /\ ~port1 => ~IsLw(mem.instr)
         /\ ~FromMem(r) => ArchRegs[r] = IF FromWb(r) THEN WbData ELSE regs[r]
  <1> USE StageTypes, WireTypes, PortType
  <1>1. ~IsJump(mem.instr)
    BY DEF ForwardInv
  <1>2. ASSUME FromMem(r)
        PROVE  /\ ArchRegs[r] = IF port1 /\ IsLw(mem.instr) THEN ReadData ELSE mem.alu
               /\ ~port1 => ~IsLw(mem.instr)
    <2>1. ArchRegs[r] = MemData
      BY <1>2 DEF FromMem, ArchRegs, Writes
    <2>2. ~UsesLink(mem.instr) /\ (MemToReg(mem.instr) => port1 /\ IsLw(mem.instr))
      BY <1>1, <1>2 DEF FromMem, MissedFromMem
    <2>3. IsLw(mem.instr) => MemToReg(mem.instr)
      BY ControlRows
    <2> QED
      BY <2>1, <2>2, <2>3 DEF MemData
  <1>3. ASSUME ~FromMem(r) PROVE ArchRegs[r] = IF FromWb(r) THEN WbData ELSE regs[r]
    <2>1. ArchRegs[r] = RegsWritten[r]
      <3>1. CASE Writes(mem.instr) /\ Dest(mem.instr) # 0 /\ Dest(mem.instr) = r
        BY <1>1, <1>3, <3>1 DEF FromMem, MissedFromMem, Writes
      <3>2. CASE ~(Writes(mem.instr) /\ Dest(mem.instr) # 0 /\ Dest(mem.instr) = r)
        BY <3>2 DEF ArchRegs
      <3> QED
        BY <3>1, <3>2
    <2>2. RegsWritten[r] = IF FromWb(r) THEN WbData ELSE regs[r]
      <3>1. CASE Writes(wb.instr) /\ Dest(wb.instr) = r
        <4>1. RegWr(wb.instr)
          BY <3>1, ControlRows DEF Writes, MissedFromWb
        <4> QED
          BY <3>1, <4>1, WbDataZero DEF RegsWritten, FromWb, ForwardInv
      <3>2. CASE ~(Writes(wb.instr) /\ Dest(wb.instr) = r)
        BY <3>2 DEF RegsWritten, FromWb, Writes
      <3> QED
        BY <3>1, <3>2
    <2> QED
      BY <2>1, <2>2
  <1> QED
    BY <1>2, <1>3

LEMMA ForwardInvOperands == TypeOK /\ ForwardInv => OperandsForwarded
  <1> SUFFICES ASSUME TypeOK, ForwardInv, IsValid(ex.instr) PROVE OperandsForwarded!2
    BY DEF OperandsForwarded
  <1>1. Port1(ex.instr) \in Reg /\ Port2(ex.instr) \in Reg
    BY StageTypes, PortType
  <1>2. \/ P1 = ArchRegs[Port1(ex.instr)]
        \/ MissedFromMem(Port1(ex.instr), TRUE) \/ MissedFromWb(Port1(ex.instr))
    BY <1>1, ForwardedValue DEF P1, ForwardInv
  <1>3. \/ P2 = ArchRegs[Port2(ex.instr)]
        \/ MissedFromMem(Port2(ex.instr), FALSE) \/ MissedFromWb(Port2(ex.instr))
    BY <1>1, ForwardedValue DEF P2, ForwardInv
  <1> QED
    BY <1>2, <1>3

\* When the register file writes before it reads, the operands of the instruction in
\* EX are those the older instructions leave, but for the loads and links that the
\* forwarding of the MIPS pipeline has no path for (top.v:314-321, hazard_unit.v:40-49).
THEOREM ForwardingCorrect ==
  ASSUME NegedgeOrders = {WriteFirst}
  PROVE  Spec => []OperandsForwarded
  <1>1. TypeOK /\ FetchInv /\ ForwardInv /\ [Next]_vars
          => (TypeOK /\ FetchInv /\ ForwardInv)'
    BY StepType, StepFetch, StepForward
  <1> QED
    BY InitType, InitFetch, InitForward, ForwardInvOperands, <1>1, PTL DEF Spec

-----------------------------------------------------------------------------
(* The right path of programs within the restrictions *)

GoodProg == prog \in Program /\ Closed(prog) /\ BranchSpacing(prog)

\* The part of FlowInv that the next state must establish beside FetchInv
Behind == BehindEx /\ BehindIss /\ Bubbles

-----------------------------------------------------------------------------
(* The wires of a cycle *)

LEMMA BranchFacts ==
  /\ BranchTaken \in BOOLEAN
  /\ BranchTaken => IsBranch(ex.instr)
  /\ IsBranch(ex.instr) => ~IsJump(ex.instr)
  <1>1. IsBranch(ex.instr) => ~IsJump(ex.instr)
    BY BranchValid
  <1>2. BranchTaken => IsBranch(ex.instr)
    BY DEF BranchTaken, Taken
  <1>3. BranchTaken \in BOOLEAN
    BY DEF BranchTaken, Taken
  <1> QED
    BY <1>1, <1>2, <1>3

\* A step that flushes EX for another instruction than a jump goes where it goes
LEMMA SquashWires ==
  ASSUME TypeOK, FlushEx, ~IsJump(ex.instr)
  PROVE  FlushIss /\ NextPC = Goes
  BY StageTypes, BranchFacts
     DEF FlushEx, FlushIss, Mispredict, CorrectPred, NextPC, NextCalPC, Forced, Goes

\* A step that does not follows the jump in ISS or the predictor
LEMMA FollowWires ==
  ASSUME TypeOK, ~FlushEx \/ IsJump(ex.instr)
  PROVE  /\ ~FlushEx => (FlushIss <=> JumpIss)
         /\ ~JumpIss => ~FlushIss
         /\ ~FlushEx /\ JumpIss => NextPC = IssTarget
         /\ ~JumpIss => NextPC = IF ~IsBranch(ex.instr) /\ BP!PredictTaken(pc)
                                   THEN BP!PredictTarget(pc) ELSE SeqPC(pc)
  BY StageTypes, BranchFacts
     DEF FlushEx, FlushIss, Mispredict, CorrectPred, NextPC, NextCalPC, Forced

LEMMA InvalidEx ==
  ASSUME ~IsValid(ex.instr)
  PROVE  ~IsBranch(ex.instr) /\ ~IsJump(ex.instr) /\ (~ex.pred => ~FlushEx)
  <1>1. ~IsBranch(ex.instr) /\ ~IsJump(ex.instr)
    BY BranchValid, ControlRows
  <1> QED
    BY <1>1, BranchFacts DEF FlushEx, Mispredict

-----------------------------------------------------------------------------
(* The right path *)

LEMMA GoesSucc == TypeOK /\ FetchInv /\ IsValid(ex.instr) => Goes \in Succ(prog, ex.pc) /\ Goes \in Word
  <1> SUFFICES ASSUME TypeOK, FetchInv, IsValid(ex.instr)
               PROVE  Goes \in Succ(prog, ex.pc) /\ Goes \in Word
    OBVIOUS
  <1>1. Goes \in Word
    BY StageTypes, TargetType DEF Goes
  <1>2. Goes \in Succ(prog, ex.pc)
    BY BranchFacts DEF Goes, Succ, Target, FetchInv, ExFetched
  <1> QED
    BY <1>1, <1>2

\* Behind an instruction that flushes nothing stands the one it goes to
LEMMA RightPath == TypeOK /\ BehindEx /\ IsValid(ex.instr) /\ ~IsJump(ex.instr) /\ ~FlushEx
                     => iss.pc = Goes /\ IssIsFetched
  BY StageTypes, BranchFacts DEF BehindEx, FlushEx, Mispredict, CorrectPred, Goes

LEMMA GoesValid ==
  ASSUME TypeOK, FetchInv, GoodProg, IsValid(ex.instr)
  PROVE  IsValid(Imem(prog, Goes))
  <1>1. IsValid(Imem(prog, ex.pc)) /\ ex.pc \in Word
    BY StageTypes DEF FetchInv, ExFetched
  <1> QED
    BY <1>1, GoesSucc DEF GoodProg, Closed

-----------------------------------------------------------------------------
(* The three kinds of cycle *)

\* EX flushes itself and what follows
LEMMA SquashStep ==
  ASSUME TypeOK, FlushEx, ~IsJump(ex.instr), NEW order, Cycle(order)
  PROVE  Behind' /\ ArchPC' = Goes
  <1>1. ex' = ExBubble /\ iss' = IssBubble /\ pc' = Goes
    BY SquashWires DEF Cycle, LoadEx, LoadIss
  <1>2. ~IsValid(ex'.instr) /\ ~ex'.pred /\ ~IsValid(iss'.instr)
    BY <1>1 DEF ExBubble, IssBubble, NoInstr, IsValid
  <1> QED
    BY <1>1, <1>2 DEF Behind, BehindEx, BehindIss, Bubbles, ArchPC

\* EX is empty or holds a jump, ISS is empty: the next word is fetched
LEMMA RefillStep ==
  ASSUME TypeOK, GoodProg, iss = IssBubble, IsValid(Imem(prog, pc)),
         ~FlushEx \/ IsJump(ex.instr), ~IsBranch(ex.instr), NEW order, Cycle(order)
  PROVE  Behind' /\ ArchPC' = pc
  <1>1. ~JumpIss
    BY NoInstrType DEF JumpIss, IssBubble
  <1>2. ~IsValid(ex'.instr) /\ ~ex'.pred
    BY DEF Cycle, LoadEx, ExBubble, IssBubble, NoInstr, IsValid
  <1>3. /\ iss'.instr = Imem(prog, pc) /\ iss'.pc = pc /\ iss'.seqpc = SeqPC(pc)
        /\ iss'.pred = BP!PredictTaken(pc) /\ iss'.predpc = BP!PredictTarget(pc)
    BY <1>1, FollowWires DEF Cycle, LoadIss
  <1>4. pc' = IF BP!PredictTaken(pc) THEN BP!PredictTarget(pc) ELSE SeqPC(pc)
    BY <1>1, FollowWires DEF Cycle
  <1> QED
    BY <1>2, <1>3, <1>4 DEF Behind, BehindEx, BehindIss, Bubbles, ArchPC

\* The instruction in ISS, on the right path, moves to EX
LEMMA FollowStep ==
  ASSUME TypeOK, TypeOK', FetchInv, FetchInv', GoodProg, Behind, ~FlushEx,
         IsValid(iss.instr), IssIsFetched, IsValid(ex.instr) => ~IsJump(ex.instr),
         NEW order, Cycle(order)
  PROVE  Behind' /\ ArchPC' = iss.pc
  <1>1. /\ IsValid(ex'.instr) /\ ex'.instr = iss.instr /\ ex'.pc = iss.pc /\ ex'.seqpc = iss.seqpc
        /\ ex'.brnpc = IssBranch /\ ex'.pred = iss.pred /\ ex'.predpc = iss.predpc
    BY DEF Cycle, LoadEx
  <1>2. CASE JumpIss
    <2>1. iss' = IssBubble /\ pc' = IssTarget
      BY <1>2, FollowWires DEF Cycle, LoadIss
    <2>2. ~IsValid(iss'.instr)
      BY <2>1 DEF IssBubble, NoInstr, IsValid
    <2> QED
      BY <1>1, <1>2, <2>1, <2>2 DEF Behind, BehindEx, BehindIss, Bubbles, ArchPC, JumpIss, IssTarget
  <1>3. CASE ~JumpIss
    <2>1. /\ iss'.instr = Imem(prog, pc) /\ iss'.pc = pc /\ iss'.seqpc = SeqPC(pc)
          /\ iss'.pred = BP!PredictTaken(pc) /\ iss'.predpc = BP!PredictTarget(pc)
          /\ prog' = prog
      BY <1>3, FollowWires DEF Cycle, LoadIss
    <2>2. pc' = IF ~IsBranch(ex.instr) /\ BP!PredictTaken(pc)
                  THEN BP!PredictTarget(pc) ELSE SeqPC(pc)
      BY <1>3, FollowWires DEF Cycle
    <2>3. BehindEx'
      BY <1>1, <1>3, <2>1 DEF Behind, BehindEx, BehindIss, JumpIss, IssIsFetched
    <2>4. ASSUME IsBranch(iss'.instr), iss'.pred, ~FlushEx' PROVE ~IsBranch(ex.instr)
      <3> SUFFICES ASSUME IsBranch(ex.instr) PROVE FALSE
        OBVIOUS
      <3>1. IsValid(ex.instr)
        BY InvalidEx
      <3>2. iss.pc \in Succ(prog, ex.pc)
        BY <3>1, RightPath, GoesSucc, BranchFacts DEF Behind
      <3>3. iss'.pc = Goes' /\ Goes' \in Succ(prog, iss.pc)
        <4>1. ~IsJump(ex'.instr)
          BY <1>1, <1>3 DEF JumpIss
        <4>2. (TypeOK /\ BehindEx /\ IsValid(ex.instr) /\ ~IsJump(ex.instr) /\ ~FlushEx
                 => iss.pc = Goes /\ IssIsFetched)'
          BY RightPath, PTL
        <4>3. (TypeOK /\ FetchInv /\ IsValid(ex.instr) => Goes \in Succ(prog, ex.pc) /\ Goes \in Word)'
          BY GoesSucc, PTL
        <4> QED
          BY <1>1, <2>1, <2>3, <2>4, <4>1, <4>2, <4>3
      <3>4. IsBranch(Imem(prog, ex.pc)) /\ ~IsJump(Imem(prog, iss.pc)) /\ ex.pc \in Word
        BY <1>3, <3>1, StageTypes DEF JumpIss, IssIsFetched, FetchInv, ExFetched
      <3>5. ~IsBranch(Imem(prog, iss'.pc))
        BY <3>2, <3>3, <3>4 DEF GoodProg, BranchSpacing
      <3> QED
        BY <2>1, <2>4, <3>5
    <2>5. BehindIss'
      BY <2>1, <2>2, <2>4 DEF BehindIss
    <2> QED
      BY <1>1, <2>3, <2>5 DEF Behind, Bubbles, ArchPC
  <1> QED
    BY <1>2, <1>3

-----------------------------------------------------------------------------
(* The invariant and the theorem *)

\* A program keeps its restrictions, and with them the invariant
SpacedFlow == prog \in Program /\ Closed(prog) /\ FetchInv /\ (BranchSpacing(prog) => FlowInv)

\* A cycle takes the architectural pc where the instruction in EX goes
LEMMA CycleFlow ==
  ASSUME TypeOK, TypeOK', FlowInv, FetchInv', GoodProg, NEW order, Cycle(order)
  PROVE  Behind' /\ ArchPC' = IF IsValid(ex.instr) THEN Goes ELSE ArchPC
  <1> USE DEF FlowInv
  <1>1. CASE ~IsValid(ex.instr)
    <2>1. ~FlushEx /\ ~IsBranch(ex.instr) /\ ~IsJump(ex.instr)
      BY <1>1, InvalidEx DEF Bubbles
    <2>2. CASE IsValid(iss.instr)
      <3>1. IssIsFetched
        BY <2>2 DEF FetchInv, IssBubble, NoInstr, IsValid
      <3> QED
        BY <1>1, <2>1, <2>2, <3>1, FollowStep DEF Behind, ArchPC
    <2>3. CASE ~IsValid(iss.instr)
      <3>1. iss = IssBubble /\ ArchPC = pc
        BY <1>1, <2>3 DEF Bubbles, ArchPC
      <3> QED
        BY <1>1, <2>1, <3>1, RefillStep
    <2> QED
      BY <2>2, <2>3
  <1>2. CASE IsValid(ex.instr) /\ IsJump(ex.instr)
    <2>1. iss = IssBubble /\ pc = JumpTarget(ex.seqpc, ex.instr) /\ pc = Goes
      BY <1>2 DEF BehindEx, Goes
    <2>2. IsValid(Imem(prog, pc))
      BY <1>2, <2>1, GoesValid
    <2>3. ~IsBranch(ex.instr)
      BY <1>2, BranchFacts
    <2> QED
      BY <1>2, <2>1, <2>2, <2>3, RefillStep
  <1>3. CASE IsValid(ex.instr) /\ ~IsJump(ex.instr) /\ FlushEx
    BY <1>3, SquashStep
  <1>4. CASE IsValid(ex.instr) /\ ~IsJump(ex.instr) /\ ~FlushEx
    <2>1. iss.pc = Goes /\ IssIsFetched
      BY <1>4, RightPath
    <2>2. IsValid(iss.instr)
      BY <1>4, <2>1, GoesValid DEF IssIsFetched
    <2> QED
      BY <1>4, <2>1, <2>2, FollowStep DEF Behind
  <1> QED
    BY <1>1, <1>2, <1>3, <1>4

LEMMA InitFlow ==
  ASSUME \A p \in Programs : Closed(p)
  PROVE  Init => SpacedFlow
  <1> SUFFICES ASSUME Init PROVE SpacedFlow
    OBVIOUS
  <1>1. prog \in Program /\ Closed(prog)
    BY PipelineAssumption DEF Init
  <1>2. ex = ExBubble /\ iss = IssBubble /\ pc = 0
    BY DEF Init
  <1>3. ~IsValid(ex.instr) /\ ~ex.pred /\ ~IsValid(iss.instr)
    BY <1>2 DEF ExBubble, IssBubble, NoInstr, IsValid
  <1> QED
    BY <1>1, <1>2, <1>3, InitFetch
       DEF SpacedFlow, FlowInv, BehindEx, BehindIss, Bubbles, ArchPC, Closed

LEMMA StepFlow ==
  TypeOK /\ GoodProg /\ FlowInv /\ [Next]_vars => (GoodProg /\ FlowInv)'
  <1> SUFFICES ASSUME TypeOK, GoodProg, FlowInv, [Next]_vars
               PROVE  (GoodProg /\ FlowInv)'
    OBVIOUS
  <1>1. TypeOK' /\ FetchInv'
    BY StepType, StepFetch DEF FlowInv
  <1>2. prog' = prog
    BY DEF Next, Run, Reset, Cycle, vars
  <1>3. CASE Run
    <2>1. PICK order \in NegedgeOrders : Cycle(order)
      BY <1>3 DEF Run
    <2>2. Behind' /\ ArchPC' = IF IsValid(ex.instr) THEN Goes ELSE ArchPC
      BY <1>1, <2>1, CycleFlow
    <2>3. IsValid(Imem(prog, ArchPC'))
      BY <2>2, GoesValid DEF FlowInv
    <2> QED
      BY <1>1, <1>2, <2>2, <2>3 DEF FlowInv, GoodProg, Behind
  <1>4. CASE Reset
    <2>1. ex' = ExBubble /\ iss' = IssBubble /\ pc' = 0
      BY <1>4 DEF Reset
    <2>2. ~IsValid(ex'.instr) /\ ~ex'.pred /\ ~IsValid(iss'.instr)
      BY <2>1 DEF ExBubble, IssBubble, NoInstr, IsValid
    <2> QED
      BY <1>1, <1>2, <2>1, <2>2
         DEF FlowInv, BehindEx, BehindIss, Bubbles, ArchPC, GoodProg, Closed
  <1>5. CASE UNCHANGED vars
    <2>1. /\ BehindEx' /\ Bubbles' /\ ArchPC' = ArchPC
      BY <1>5 DEF FlowInv, BehindEx, Bubbles, ArchPC, IssIsFetched, vars, stages
    <2>2. BehindIss'
      <3>1. FlushEx' = FlushEx
        BY <1>5 DEF vars, stages, FlushEx, Mispredict, CorrectPred, BranchTaken, P1, P2,
                    FromMem, FromWb, WbData, ReadData
      <3> QED
        BY <1>5, <3>1 DEF FlowInv, BehindIss, vars, stages
    <2> QED
      BY <1>1, <1>2, <2>1, <2>2 DEF FlowInv, GoodProg
  <1> QED
    BY <1>3, <1>4, <1>5 DEF Next

LEMMA StepSpacedFlow == TypeOK /\ SpacedFlow /\ [Next]_vars => SpacedFlow'
  <1> SUFFICES ASSUME TypeOK, SpacedFlow, [Next]_vars PROVE SpacedFlow'
    OBVIOUS
  <1>1. prog' = prog /\ FetchInv'
    BY StepFetch DEF SpacedFlow, Next, Run, Reset, Cycle, vars
  <1>2. ASSUME BranchSpacing(prog) PROVE FlowInv'
    BY <1>2, StepFlow DEF SpacedFlow, GoodProg
  <1> QED
    BY <1>1, <1>2 DEF SpacedFlow

LEMMA FlowAction ==
  TypeOK /\ SpacedFlow /\ [Next]_vars
    => [Run /\ BranchSpacing(prog)
          => ArchPC' = IF IsValid(ex.instr) THEN Goes ELSE ArchPC]_vars
  <1> SUFFICES ASSUME TypeOK, SpacedFlow, [Next]_vars, Run, BranchSpacing(prog)
               PROVE  ArchPC' = IF IsValid(ex.instr) THEN Goes ELSE ArchPC
    OBVIOUS
  <1>1. TypeOK' /\ FetchInv'
    BY StepType, StepFetch DEF SpacedFlow
  <1> QED
    BY <1>1, CycleFlow DEF Run, SpacedFlow, GoodProg

\* For every program that stays in the loaded words and spaces its branches, whatever
\* the predictor has learnt and however its entries are shared, no instruction is
\* lost, repeated or let through out of its turn (top.v:158-177, 355-360,
\* hazard_unit.v:59-62).
THEOREM ControlFlowCorrect ==
  ASSUME \A p \in Programs : Closed(p)
  PROVE  Spec => ControlFlow
  <1>1. TypeOK /\ SpacedFlow /\ [Next]_vars => (TypeOK /\ SpacedFlow)'
    BY StepType, StepSpacedFlow
  <1> QED
    BY InitType, InitFlow, FlowAction, <1>1, PTL DEF Spec, ControlFlow

-----------------------------------------------------------------------------
(* Operands *)

\* The instruction behind the one a cycle takes out of EX is its successor
LEMMA NextInEx ==
  ASSUME TypeOK, TypeOK', FlowInv, FetchInv', GoodProg, NEW order, Cycle(order),
         IsValid(ex'.instr)
  PROVE  /\ ex'.instr = Imem(prog, ArchPC') /\ ArchPC' \in Word
         /\ ArchPC' = IF IsValid(ex.instr) THEN Goes ELSE ArchPC
  <1>1. ArchPC' = IF IsValid(ex.instr) THEN Goes ELSE ArchPC
    BY CycleFlow
  <1>2. ArchPC' = ex'.pc /\ prog' = prog
    BY DEF ArchPC, Cycle
  <1>3. ex'.instr = Imem(prog, ex'.pc)
    BY <1>2 DEF FetchInv, ExFetched
  <1>4. ex'.pc \in Word
    BY DEF TypeOK, ExReg
  <1> QED
    BY <1>1, <1>2, <1>3, <1>4

LEMMA CycleLink ==
  ASSUME TypeOK, TypeOK', FlowInv, FetchInv', GoodProg, LinksSpaced(prog),
         NEW order, Cycle(order)
  PROVE  LinkInv'
  <1> SUFFICES ASSUME mem'.instr.op \in LinkBranches
               PROVE  /\ ~UsesLinkReg(Imem(prog, ArchPC'))
                      /\ IsValid(ex'.instr) => ~UsesLinkReg(Imem(prog, Goes'))
    BY DEF LinkInv, Cycle
  <1>1. mem'.instr = ex.instr
    BY DEF Cycle, LoadMem
  <1>2. IsBranch(ex.instr) /\ UsesLink(ex.instr) /\ IsValid(ex.instr) /\ ~IsJump(ex.instr)
    BY <1>1, ControlRows, BranchValid
  <1>3. ex.instr = Imem(prog, ex.pc) /\ ex.pc \in Word
    BY <1>2, StageTypes DEF FlowInv, FetchInv, ExFetched
  <1>4. ArchPC' = Goes /\ Goes \in Succ(prog, ex.pc)
    BY <1>2, CycleFlow, GoesSucc DEF FlowInv
  <1>5. ~UsesLinkReg(Imem(prog, ArchPC'))
    BY <1>2, <1>3, <1>4 DEF LinksSpaced
  <1>6. ASSUME IsValid(ex'.instr) PROVE ~UsesLinkReg(Imem(prog, Goes'))
    <2>1. (TypeOK /\ FetchInv /\ IsValid(ex.instr)
             => Goes \in Succ(prog, ex.pc) /\ Goes \in Word)'
      BY GoesSucc, PTL
    <2>2. Goes' \in Succ(prog, ArchPC')
      BY <1>6, <2>1 DEF ArchPC, Cycle
    <2> QED
      BY <1>2, <1>3, <1>4, <2>2 DEF LinksSpaced
  <1> QED
    BY <1>5, <1>6

\* What it passes on to MEM is a load or a link that the next one does not use
LEMMA CycleMissesMem ==
  ASSUME TypeOK, TypeOK', FlowInv, FetchInv', GoodProg, LoadsSpaced(prog),
         LinksSpaced(prog), NEW order, Cycle(order), IsValid(ex'.instr)
  PROVE  /\ UsesPort1(ex'.instr) => ~MissedFromMem(Port1(ex.instr), TRUE)'
         /\ UsesPort2(ex'.instr) => ~MissedFromMem(Port2(ex.instr), FALSE)'
  <1> DEFINE i == ex.instr
             j == ex'.instr
  <1>1. mem'.instr = i
    BY DEF Cycle, LoadMem
  <1>2. ASSUME MemToReg(i) \/ UsesLink(i)
        PROVE  i = Imem(prog, ex.pc) /\ ex.pc \in Word /\ ArchPC' \in Succ(prog, ex.pc)
               /\ j = Imem(prog, ArchPC')
    <2>1. IsValid(i)
      BY <1>2, ControlRows
    <2>2. i = Imem(prog, ex.pc) /\ ex.pc \in Word
      BY <2>1, StageTypes DEF FlowInv, FetchInv, ExFetched
    <2> QED
      BY <2>1, <2>2, NextInEx, GoesSucc DEF FlowInv
  <1>3. ASSUME MemToReg(i), Dest(i) # 0
        PROVE  /\ UsesPort2(j) => Port2(j) # Dest(i)
               /\ UsesPort1(j) => Port1(j) # Dest(i) \/ IsLw(i)
    BY <1>2, <1>3 DEF LoadsSpaced
  <1>4. ASSUME UsesLink(i), ~IsJump(i) PROVE ~UsesLinkReg(j)
    BY <1>2, <1>4 DEF LinksSpaced
  <1>5. UsesLink(i) => Dest(i) = Link
    BY DEF Dest
  <1> HIDE DEF i, j
  <1>6. MissedFromMem(Port1(ex.instr), TRUE)' =>
          /\ Dest(i) = Port1(j) /\ Port1(j) # 0
          /\ (MemToReg(i) /\ ~IsLw(i)) \/ (UsesLink(i) /\ ~IsJump(i))
    BY <1>1 DEF MissedFromMem, j
  <1>7. MissedFromMem(Port2(ex.instr), FALSE)' =>
          /\ Dest(i) = Port2(j) /\ Port2(j) # 0
          /\ MemToReg(i) \/ (UsesLink(i) /\ ~IsJump(i))
    BY <1>1 DEF MissedFromMem, j
  <1>8. UsesPort1(j) => ~MissedFromMem(Port1(ex.instr), TRUE)'
    BY <1>3, <1>4, <1>5, <1>6 DEF UsesLinkReg
  <1>9. UsesPort2(j) => ~MissedFromMem(Port2(ex.instr), FALSE)'
    BY <1>3, <1>4, <1>5, <1>7 DEF UsesLinkReg
  <1> QED
    BY <1>8, <1>9 DEF j

\* Nor does it use the link that the instruction in MEM passes on to WB
LEMMA CycleMissesWb ==
  ASSUME TypeOK, TypeOK', FlowInv, FetchInv', GoodProg, LinkInv,
         NEW order, Cycle(order), IsValid(ex'.instr)
  PROVE  /\ UsesPort1(ex'.instr) => ~MissedFromWb(Port1(ex.instr))'
         /\ UsesPort2(ex'.instr) => ~MissedFromWb(Port2(ex.instr))'
  <1>1. wb'.instr = mem.instr
    BY DEF Cycle, LoadWb
  <1>2. mem.instr.op \in LinkBranches => Dest(mem.instr) = Link
    BY ControlRows
  <1>3. mem.instr.op \in LinkBranches => ~UsesLinkReg(ex'.instr)
    BY NextInEx DEF LinkInv
  <1> QED
    BY <1>1, <1>2, <1>3 DEF MissedFromWb, UsesLinkReg

LEMMA CycleNoMiss ==
  ASSUME TypeOK, TypeOK', FlowInv, FetchInv', GoodProg, LoadsSpaced(prog),
         LinksSpaced(prog), LinkInv, NEW order, Cycle(order)
  PROVE  NoMissInv'
  <1> SUFFICES ASSUME IsValid(ex'.instr) PROVE NoMissInv'
    BY DEF NoMissInv
  <1> QED
    BY CycleMissesMem, CycleMissesWb DEF NoMissInv

LEMMA BubbleSpaced ==
  ex = ExBubble /\ mem = MemBubble => LinkInv /\ NoMissInv
  <1>1. NoInstr.op \notin LinkBranches
    BY DEF NoInstr, LinkBranches
  <1>2. mem = MemBubble => LinkInv
    BY <1>1 DEF LinkInv, MemBubble
  <1>3. ex = ExBubble => NoMissInv
    BY NoInstrType DEF NoMissInv, ExBubble
  <1> QED
    BY <1>2, <1>3

LEMMA CurrentOperands ==
  TypeOK /\ ForwardInv /\ (Spaced(prog) => NoMissInv) => OperandsCurrent
  BY ForwardInvOperands DEF OperandsForwarded, NoMissInv, OperandsCurrent

-----------------------------------------------------------------------------
(* The invariant of the refinement *)

RefineInv ==
  TypeOK /\ SpacedFlow /\ ForwardInv /\ (Spaced(prog) => LinkInv /\ NoMissInv)

LEMMA InitRefineInv ==
  ASSUME \A p \in Programs : Closed(p)
  PROVE  Init => RefineInv
  <1>1. Init => LinkInv /\ NoMissInv
    BY BubbleSpaced DEF Init
  <1> QED
    BY <1>1, InitType, InitFlow, InitForward DEF RefineInv

LEMMA StepSpaced ==
  TypeOK /\ TypeOK' /\ FlowInv /\ FetchInv' /\ GoodProg /\ Spaced(prog) /\ LinkInv /\ NoMissInv
    /\ [Next]_vars => (LinkInv /\ NoMissInv)'
  <1> SUFFICES ASSUME TypeOK, TypeOK', FlowInv, FetchInv', GoodProg, Spaced(prog), LinkInv,
                      NoMissInv, [Next]_vars
               PROVE  LinkInv' /\ NoMissInv'
    OBVIOUS
  <1>1. CASE Run
    BY <1>1, CycleLink, CycleNoMiss DEF Run, Spaced
  <1>2. CASE Reset
    <2>1. (ex = ExBubble /\ mem = MemBubble => LinkInv /\ NoMissInv)'
      BY BubbleSpaced, PTL
    <2> QED
      BY <1>2, <2>1 DEF Reset
  <1>3. CASE UNCHANGED vars
    <2>1. ArchPC' = ArchPC /\ Goes' = Goes /\ mem' = mem /\ ex' = ex /\ wb' = wb /\ prog' = prog
      BY <1>3 DEF vars, stages, ArchPC, Goes, BranchTaken, P1, P2, FromMem, FromWb,
                  WbData, ReadData
    <2> QED
      BY <2>1 DEF LinkInv, NoMissInv, MissedFromMem, MissedFromWb
  <1> QED
    BY <1>1, <1>2, <1>3 DEF Next

LEMMA StepRefineInv ==
  ASSUME NegedgeOrders = {WriteFirst}
  PROVE  RefineInv /\ [Next]_vars => RefineInv'
  <1> SUFFICES ASSUME RefineInv, [Next]_vars PROVE RefineInv'
    OBVIOUS
  <1>1. TypeOK' /\ SpacedFlow'
    BY StepType, StepSpacedFlow DEF RefineInv
  <1>2. ForwardInv'
    BY StepForward DEF RefineInv, SpacedFlow
  <1>3. prog' = prog
    BY DEF Next, Run, Reset, Cycle, vars
  <1>4. ASSUME Spaced(prog) PROVE (LinkInv /\ NoMissInv)'
    <2>1. FlowInv /\ GoodProg
      BY <1>4 DEF RefineInv, SpacedFlow, Spaced, GoodProg
    <2> QED
      BY <1>1, <1>4, <2>1, StepSpaced DEF RefineInv, SpacedFlow
  <1> QED
    BY <1>1, <1>2, <1>3, <1>4 DEF RefineInv

\* In a spaced program every operand that an instruction uses is current
\* (top.v:314-321 against hazard_unit.v:50-52).
THEOREM OperandsCorrect ==
  ASSUME NegedgeOrders = {WriteFirst}, \A p \in Programs : Closed(p)
  PROVE  Spec => []OperandsCurrent
  <1>1. RefineInv => OperandsCurrent
    BY CurrentOperands DEF RefineInv
  <1> QED
    BY InitRefineInv, StepRefineInv, <1>1, PTL DEF Spec

-----------------------------------------------------------------------------
(* The instruction set is the same on both sides of the instance *)

LEMMA SameWords ==
  /\ Sequential!Word = Word /\ Sequential!Reg = Reg /\ Sequential!Program = Program
  /\ Sequential!DmemWords = DmemWords
  /\ \A a : Sequential!SeqPC(a) = SeqPC(a) /\ Sequential!DmemIndex(a) = DmemIndex(a)
  /\ \A p, a : Sequential!Imem(p, a) = Imem(p, a)
  <1> USE DEF RTypes, Shifts, AddRows, Loads, Stores, LinkBranches, Branches, ImmOps, ITypes,
              JTypes, ValidOps, Sequential!RTypes, Sequential!Shifts, Sequential!AddRows,
              Sequential!Loads, Sequential!Stores, Sequential!LinkBranches,
              Sequential!Branches, Sequential!ImmOps, Sequential!ITypes,
              Sequential!JTypes, Sequential!ValidOps
  <1>1. /\ Sequential!Word = Word /\ Sequential!Reg = Reg
        /\ Sequential!DmemWords = DmemWords
        /\ \A a : Sequential!SeqPC(a) = SeqPC(a) /\ Sequential!DmemIndex(a) = DmemIndex(a)
    BY DEF Word, Reg, DmemWords, SeqPC, Add, DmemIndex, Sequential!Word, Sequential!Reg,
           Sequential!DmemWords, Sequential!SeqPC, Sequential!Add, Sequential!DmemIndex
  <1>2. Sequential!Program = Program
    BY DEF Program, Slots, Instr, InstrFields, ImmRange, Reg, Sequential!Program,
           Sequential!Slots, Sequential!Instr, Sequential!InstrFields,
           Sequential!ImmRange, Sequential!Reg
  <1>3. \A p, a : Sequential!Imem(p, a) = Imem(p, a)
    BY DEF Imem, SlotOf, Slots, NoInstr, Sequential!Imem, Sequential!SlotOf,
           Sequential!Slots, Sequential!NoInstr
  <1> QED
    BY <1>1, <1>2, <1>3

LEMMA SameControl ==
  \A i : /\ Sequential!IsJump(i) = IsJump(i) /\ Sequential!IsBranch(i) = IsBranch(i)
         /\ Sequential!RegWr(i) = RegWr(i) /\ Sequential!MemWr(i) = MemWr(i)
         /\ Sequential!MemToReg(i) = MemToReg(i) /\ Sequential!UsesLink(i) = UsesLink(i)
         /\ Sequential!Port1(i) = Port1(i) /\ Sequential!Port2(i) = Port2(i)
         /\ Sequential!Dest(i) = Dest(i) /\ Sequential!AluFn(i) = AluFn(i)
         /\ Sequential!AluSrc(i) = AluSrc(i) /\ Sequential!ImmValue(i) = ImmValue(i)
  <1> TAKE i
  <1> USE DEF RTypes, Shifts, AddRows, Loads, Stores, LinkBranches, Branches, ImmOps, ITypes,
              JTypes, Sequential!RTypes, Sequential!Shifts, Sequential!AddRows,
              Sequential!Loads, Sequential!Stores, Sequential!LinkBranches,
              Sequential!Branches, Sequential!ImmOps, Sequential!ITypes,
              Sequential!JTypes
  <1>1. /\ Sequential!IsJump(i) = IsJump(i) /\ Sequential!IsBranch(i) = IsBranch(i)
        /\ Sequential!UsesLink(i) = UsesLink(i)
    BY DEF IsJump, IsBranch, UsesLink, Sequential!IsJump, Sequential!IsBranch,
           Sequential!UsesLink
  <1>2. /\ Sequential!RegWr(i) = RegWr(i) /\ Sequential!MemWr(i) = MemWr(i)
        /\ Sequential!MemToReg(i) = MemToReg(i)
    BY DEF RegWr, MemWr, MemToReg, Sequential!RegWr, Sequential!MemWr, Sequential!MemToReg
  <1>3. /\ Sequential!Port1(i) = Port1(i) /\ Sequential!Port2(i) = Port2(i)
        /\ Sequential!Dest(i) = Dest(i)
    BY <1>1 DEF Port1, Port2, Dest, Sequential!Port1, Sequential!Port2, Sequential!Dest
  <1>4. Sequential!AluFn(i) = AluFn(i)
    BY DEF AluFn, Sequential!AluFn
  <1>5. Sequential!AluSrc(i) = AluSrc(i)
    BY DEF AluSrc, Sequential!AluSrc
  <1>6. Sequential!ImmValue(i) = ImmValue(i)
    BY DEF ImmValue, ImmField, Signed, Sequential!ImmValue, Sequential!ImmField,
           Sequential!Signed
  <1> QED
    BY <1>1, <1>2, <1>3, <1>4, <1>5, <1>6

LEMMA SameMeaning ==
  /\ \A i, p1, p2 : Sequential!Result(i, p1, p2) = Result(i, p1, p2)
  /\ \A i, p1, p2 : Sequential!Taken(i, p1, p2) = Taken(i, p1, p2)
  /\ \A p, a : Sequential!Target(p, a) = Target(p, a)
  <1>1. \A i, p2 : Sequential!OperandB(i, p2) = OperandB(i, p2)
    BY SameControl DEF OperandB, Sequential!OperandB
  <1>2. \A i, p1, p2 : Sequential!Result(i, p1, p2) = Result(i, p1, p2)
    BY <1>1, SameControl DEF Result, Sequential!Result
  <1>3. \A i, p1, p2 : Sequential!Taken(i, p1, p2) = Taken(i, p1, p2)
    BY <1>1, SameControl DEF Taken, BranchCond, LinkBranches, Sequential!Taken,
                             Sequential!BranchCond
  <1>4. \A p, a : Sequential!Target(p, a) = Target(p, a)
    BY SameControl, SameWords
       DEF Target, JumpTarget, BranchTarget, Add, Sequential!Target,
           Sequential!JumpTarget, Sequential!BranchTarget, Sequential!Add
  <1> QED
    BY <1>2, <1>3, <1>4

LEMMA SameEffect ==
  ASSUME NEW i, NEW a, NEW p1, NEW p2, NEW m
  PROVE  /\ Sequential!WritesReg(i) <=> (Writes(i) /\ Dest(i) # 0)
         /\ Sequential!RegValue(i, a, p1, p2, m) =
              CASE UsesLink(i) -> SeqPC(a)
                [] MemToReg(i) /\ ~UsesLink(i)  -> m[DmemIndex(Result(i, p1, p2))]
                [] ~MemToReg(i) /\ ~UsesLink(i) -> Result(i, p1, p2)
  BY SameControl, SameMeaning, SameWords
     DEF Writes, Sequential!WritesReg, Sequential!RegValue

-----------------------------------------------------------------------------
(* A cycle, seen from the architectural state *)

\* The invariant, of a program within all the restrictions
SpacedRefine == RefineInv /\ Spaced(prog)

LEMMA SpacedFacts ==
  ASSUME SpacedRefine
  PROVE  TypeOK /\ FlowInv /\ FetchInv /\ ForwardInv /\ GoodProg /\ OperandsCurrent
  BY CurrentOperands DEF SpacedRefine, RefineInv, SpacedFlow, Spaced, GoodProg

\* What a cycle leaves in the register file and the memory once MEM is drained: what
\* the instruction it takes out of EX writes, over what was there
LEMMA DrainedRegs ==
  ASSUME TypeOK, ForwardInv, ForwardInv', NEW order, Cycle(order)
  PROVE  RegsWritten' = ArchRegs
  <1> USE StageTypes, WireTypes
  <1>1. /\ wb'.instr = mem.instr /\ wb'.alu = mem.alu /\ wb'.seqpc = mem.seqpc
        /\ wb'.rdata = ReadData /\ regs' = RegsWritten
    BY DEF Cycle, LoadWb
  <1>2. UsesLink(mem.instr) => Dest(mem.instr) # 0
    BY WordFacts DEF Dest
  <1>3. WbData' = IF Dest(mem.instr) = 0 THEN 0 ELSE MemData
    BY <1>1, <1>2 DEF WbData, MemData
  <1>4. RegsWritten[0] = 0
    BY <1>1 DEF ForwardInv
  <1>5. Dest(mem.instr) = 0 => [RegsWritten EXCEPT ![Dest(mem.instr)] = 0] = RegsWritten
    BY <1>4
  <1> QED
    BY <1>1, <1>3, <1>5 DEF RegsWritten, ArchRegs

LEMMA DrainedMem ==
  ASSUME NEW order, Cycle(order)
  PROVE  dmem' = ArchDmem
  BY DEF Cycle, ArchDmem

\* A jump computes something else than the sequential machine, and nobody looks at it
LEMMA CurrentResult ==
  ASSUME SpacedRefine, IsValid(ex.instr)
  PROVE  LET a == ArchRegs[Port1(ex.instr)]
             b == ArchRegs[Port2(ex.instr)]
         IN  /\ ~IsJump(ex.instr) => Result(ex.instr, P1, P2) = Result(ex.instr, a, b)
             /\ BranchTaken = Taken(ex.instr, a, b)
             /\ MemWr(ex.instr) => P2 = b
  <1> DEFINE a == ArchRegs[Port1(ex.instr)]
             b == ArchRegs[Port2(ex.instr)]
  <1>1. /\ ~IsJump(ex.instr) => P1 = a
        /\ AluSrc(ex.instr) = "port2" \/ MemWr(ex.instr) => P2 = b
    BY SpacedFacts DEF SpacedRefine, OperandsCurrent, UsesPort1, UsesPort2
  <1>2. OperandB(ex.instr, P2) = OperandB(ex.instr, b)
    <2>1. CASE AluSrc(ex.instr) = "port2"
      BY <1>1, <2>1
    <2>2. CASE AluSrc(ex.instr) # "port2"
      BY <2>2, SpacedFacts, StageTypes, ControlType DEF OperandB
    <2> QED
      BY <2>1, <2>2
  <1>3. IsBranch(ex.instr) => ~IsJump(ex.instr)
    BY BranchValid
  <1> HIDE DEF a, b
  <1>4. ~IsJump(ex.instr) => Result(ex.instr, P1, P2) = Result(ex.instr, a, b)
    BY <1>1, <1>2 DEF Result
  <1>5. BranchTaken = Taken(ex.instr, a, b)
    BY <1>1, <1>2, <1>3 DEF BranchTaken, Taken
  <1> QED
    BY <1>1, <1>4, <1>5 DEF a, b

\* The instruction in EX is the next one of the sequential machine, and the cycle
\* that takes it out is that machine's step
LEMMA CycleExecutes ==
  ASSUME SpacedRefine, SpacedRefine', NEW order, Cycle(order), IsValid(ex.instr)
  PROVE  Sequential!Execute
  <1> DEFINE i   == ex.instr
             a   == ArchRegs[Port1(i)]
             b   == ArchRegs[Port2(i)]
             res == Result(i, a, b)
             val == CASE UsesLink(i) -> SeqPC(ArchPC)
                      [] MemToReg(i) /\ ~UsesLink(i)  -> ArchDmem[DmemIndex(res)]
                      [] ~MemToReg(i) /\ ~UsesLink(i) -> res
  <1>0. TypeOK /\ FlowInv /\ FetchInv /\ ForwardInv /\ GoodProg
    BY SpacedFacts
  <1>0a. TypeOK' /\ FetchInv' /\ ForwardInv'
    BY DEF SpacedRefine, RefineInv, SpacedFlow
  <1>1. /\ ArchPC = ex.pc /\ i = Imem(prog, ArchPC)
        /\ ex.seqpc = SeqPC(ArchPC)
        /\ ex.brnpc = BranchTarget(SeqPC(ArchPC), i)
    BY <1>0 DEF ArchPC, FetchInv, ExFetched
  <1>2. /\ mem'.instr = i /\ mem'.seqpc = SeqPC(ArchPC) /\ mem'.p2 = P2
        /\ ~IsJump(i) => mem'.alu = res
    BY <1>1, CurrentResult DEF Cycle, LoadMem
  <1>3. RegsWritten' = ArchRegs /\ dmem' = ArchDmem
    BY <1>0, <1>0a, DrainedRegs, DrainedMem
  <1>4. ArchPC' = IF IsJump(i) \/ Taken(i, a, b) THEN Target(prog, ArchPC) ELSE SeqPC(ArchPC)
    <2>1. ArchPC' = Goes
      BY <1>0, <1>0a, CycleFlow
    <2>2. Goes = IF IsJump(i) THEN JumpTarget(ex.seqpc, i)
                 ELSE IF Taken(i, a, b) THEN ex.brnpc ELSE ex.seqpc
      BY CurrentResult DEF Goes
    <2> QED
      BY <1>1, <2>1, <2>2 DEF Target
  <1>5. ArchRegs' = IF Writes(i) /\ Dest(i) # 0 THEN [ArchRegs EXCEPT ![Dest(i)] = val]
                                                ELSE ArchRegs
    <2>1. ASSUME Writes(i) PROVE MemData' = val
      <3>1. ~UsesLink(i) => ~IsJump(i)
        BY <2>1 DEF Writes, RegWr, UsesLink, IsJump, JTypes, RTypes, ImmOps, Loads, Shifts,
                    AddRows
      <3>2. ~UsesLink(i) => mem'.alu = res
        BY <1>2, <3>1
      <3>3. ~UsesLink(i) => ReadData' = ArchDmem[DmemIndex(res)]
        BY <1>3, <3>2 DEF ReadData
      <3> HIDE DEF res
      <3>4. val = IF UsesLink(i) THEN SeqPC(ArchPC)
                  ELSE IF MemToReg(i) THEN ArchDmem[DmemIndex(res)] ELSE res
        OBVIOUS
      <3>5. MemData' = IF UsesLink(i) THEN mem'.seqpc
                       ELSE IF MemToReg(i) THEN ReadData' ELSE mem'.alu
        BY <1>2 DEF MemData
      <3> QED
        BY <1>2, <3>2, <3>3, <3>4, <3>5
    <2> QED
      BY <1>2, <1>3, <2>1 DEF ArchRegs
  <1>6. ArchDmem' = IF MemWr(i) THEN [ArchDmem EXCEPT ![DmemIndex(res)] = b] ELSE ArchDmem
    <2>1. MemWr(i) => ~IsJump(i) /\ P2 = b
      BY CurrentResult DEF MemWr, IsJump, Stores, JTypes
    <2> QED
      BY <1>2, <1>3, <2>1 DEF ArchDmem
  <1>7. prog' = prog
    BY DEF Cycle
  <1>8. /\ Sequential!Imem(prog, ArchPC) = i /\ i.op # "NONE"
        /\ Sequential!Port1(i) = Port1(i) /\ Sequential!Port2(i) = Port2(i)
        /\ Sequential!Result(i, a, b) = res
    BY <1>1, SameWords, SameControl, SameMeaning DEF IsValid
  <1>9. /\ Sequential!IsJump(i) = IsJump(i) /\ Sequential!MemWr(i) = MemWr(i)
        /\ Sequential!Taken(i, a, b) = Taken(i, a, b) /\ Sequential!Dest(i) = Dest(i)
        /\ Sequential!Target(prog, ArchPC) = Target(prog, ArchPC)
        /\ Sequential!SeqPC(ArchPC) = SeqPC(ArchPC)
        /\ Sequential!DmemIndex(res) = DmemIndex(res)
    BY SameWords, SameControl, SameMeaning
  <1>10. /\ Sequential!WritesReg(i) <=> (Writes(i) /\ Dest(i) # 0)
         /\ Sequential!RegValue(i, ArchPC, a, b, ArchDmem) = val
    BY SameEffect
  <1> HIDE DEF res, val
  <1> QED
    BY <1>4, <1>5, <1>6, <1>7, <1>8, <1>9, <1>10 DEF Sequential!Execute

\* A cycle that takes nothing out of EX, or the NOP of a wrong path, changes nothing
LEMMA CycleStutters ==
  ASSUME SpacedRefine, SpacedRefine', NEW order, Cycle(order), ~IsValid(ex.instr)
  PROVE  UNCHANGED <<prog, ArchPC, ArchRegs, ArchDmem>>
  <1>0. TypeOK /\ FlowInv /\ ForwardInv /\ GoodProg /\ TypeOK' /\ FetchInv' /\ ForwardInv'
    BY SpacedFacts DEF SpacedRefine, RefineInv, SpacedFlow
  <1>1. (~RegWr(ex.instr) \/ Dest(ex.instr) = 0) /\ ~UsesLink(ex.instr) /\ ~MemWr(ex.instr)
    <2>1. ~UsesLink(ex.instr) /\ ~MemWr(ex.instr)
      BY ControlRows
    <2>2. IsNop(ex.instr) => Dest(ex.instr) = 0
      BY <2>1 DEF IsNop, Dest, RTypes, Shifts
    <2>3. ex.instr.op = "NONE" => ~RegWr(ex.instr)
      BY DEF RegWr, RTypes, Shifts, AddRows, ImmOps, Loads
    <2> QED
      BY <2>1, <2>2, <2>3 DEF IsValid
  <1>2. mem'.instr = ex.instr
    BY DEF Cycle, LoadMem
  <1>3. ArchPC' = ArchPC
    BY <1>0, CycleFlow
  <1>4. ArchRegs' = ArchRegs /\ ArchDmem' = ArchDmem
    BY <1>0, <1>1, <1>2, DrainedRegs, DrainedMem DEF ArchRegs, ArchDmem, Writes
  <1> QED
    BY <1>3, <1>4 DEF Cycle

LEMMA BubbleArch ==
  ex = ExBubble /\ iss = IssBubble /\ mem = MemBubble /\ wb = WbBubble
    => ArchPC = pc /\ ArchRegs = regs /\ ArchDmem = dmem
  BY NoInstrType
     DEF ExBubble, IssBubble, MemBubble, WbBubble, ArchPC, ArchRegs, ArchDmem,
         RegsWritten, Writes

LEMMA ResetRestarts ==
  ASSUME SpacedRefine, SpacedRefine', Reset
  PROVE  Sequential!Restart
  <1>1. (ex = ExBubble /\ iss = IssBubble /\ mem = MemBubble /\ wb = WbBubble
           => ArchPC = pc /\ ArchRegs = regs /\ ArchDmem = dmem)'
    BY BubbleArch, PTL
  <1>2. regs' \in [Reg -> Word] /\ regs'[0] = 0 /\ dmem' \in [DmemWords -> Word]
    BY DEF SpacedRefine, RefineInv, TypeOK, ForwardInv
  <1> QED
    BY <1>1, <1>2, SameWords DEF Reset, Sequential!Restart

LEMMA InitRefines == SpacedRefine /\ Init => Sequential!Init
  <1> SUFFICES ASSUME SpacedRefine, Init PROVE Sequential!Init
    OBVIOUS
  <1>1. ArchPC = 0 /\ ArchRegs = regs /\ ArchDmem = dmem
    BY BubbleArch DEF Init
  <1>2. TypeOK /\ regs[0] = 0
    BY SpacedFacts DEF ForwardInv
  <1> QED
    BY <1>1, <1>2, SameWords, StageTypes, WordFacts
       DEF Init, Sequential!Init, Sequential!TypeOK

LEMMA StepRefines ==
  SpacedRefine /\ SpacedRefine' /\ [Next]_vars
    => [Sequential!Next]_<<prog, ArchPC, ArchRegs, ArchDmem>>
  <1> SUFFICES ASSUME SpacedRefine, SpacedRefine', [Next]_vars
               PROVE  [Sequential!Next]_<<prog, ArchPC, ArchRegs, ArchDmem>>
    OBVIOUS
  <1>1. CASE Run
    BY <1>1, CycleExecutes, CycleStutters DEF Run, Sequential!Next
  <1>2. CASE Reset
    BY <1>2, ResetRestarts DEF Sequential!Next
  <1>3. CASE UNCHANGED vars
    BY <1>3 DEF vars, stages, ArchPC, ArchRegs, ArchDmem, RegsWritten, WbData, MemData,
                ReadData
  <1> QED
    BY <1>1, <1>2, <1>3 DEF Next

LEMMA SpacedRefineInductive ==
  ASSUME NegedgeOrders = {WriteFirst}, \A p \in Programs : Closed(p) /\ Spaced(p)
  PROVE  /\ Init => SpacedRefine
         /\ SpacedRefine /\ [Next]_vars => SpacedRefine'
  <1>1. Init => SpacedRefine
    BY InitRefineInv DEF SpacedRefine, Init
  <1>2. [Next]_vars => prog' = prog
    BY DEF Next, Run, Reset, Cycle, vars
  <1> QED
    BY <1>1, <1>2, StepRefineInv DEF SpacedRefine

\* The MIPS pipeline implements the machine that executes one instruction at a time,
\* for every width, ALU, predictor size and spaced program: forwarding, prediction,
\* flushing and resets included (top.v against hazard_unit.v:50-62).
THEOREM PipelineRefines ==
  ASSUME NegedgeOrders = {WriteFirst}, \A p \in Programs : Closed(p) /\ Spaced(p)
  PROVE  Spec => ImplementsSequential
  <1> QED
    BY SpacedRefineInductive, InitRefines, StepRefines, PTL
       DEF Spec, ImplementsSequential, Sequential!Spec, Sequential!avars

-----------------------------------------------------------------------------
(* The invariant.  The testbench's registers follow the pipeline's, and the    *)
(* simulator is behind it by the instructions in MEM and WB, which it will     *)
(* execute as the pipeline has.                                                *)

\* The stage t of the testbench holds the instruction of the program that the pipeline's
\* register r has, with the result it has in the register file rf
Carries(r, t, rf) ==
  /\ t.instr = r.instr /\ t.decoded = r.instr /\ t.pc \in Word
  /\ r.instr = Imem(prog, t.pc)
  /\ ~IsJump(r.instr) => r.alu = Computed(r.instr, rf)
  /\ r.seqpc = SeqPC(t.pc)

TbReg == [pc : Word, instr : Instr, decoded : Instr]

\* The testbench's registers are those that top.v does not have
Follows ==
  /\ tb \in [TbStages -> TbReg]
  /\ IsValid(iss.instr) => tb["iss"].pc = iss.pc /\ tb["iss"].instr = iss.instr
  /\ IsValid(ex.instr) => tb["ex"] = [pc |-> ex.pc, instr |-> ex.instr, decoded |-> ex.instr]
  /\ IsValid(mem.instr) => /\ Carries(mem, tb["mem"], RegsWritten)
                           /\ MemWr(mem.instr) => mem.p2 = RegsWritten[mem.instr.rt]
  /\ IsValid(wb.instr) => Carries(wb, tb["wb"], regs)
  /\ IsLw(wb.instr) /\ DataIndex(wb.alu) \in DataIndexes => wb.rdata = idata[DataIndex(wb.alu)]

\* Where the simulator will be when it has executed the instruction in WB, and that in MEM
AfterWb  == IF IsValid(wb.instr) THEN LeadsTo(wb.instr, tb["wb"].pc, regs) ELSE ipc
AfterMem == IF IsValid(mem.instr) THEN LeadsTo(mem.instr, tb["mem"].pc, RegsWritten) ELSE AfterWb

OnPath ==
  /\ IsValid(wb.instr) => tb["wb"].pc = ipc
  /\ IsValid(mem.instr) => tb["mem"].pc = AfterWb
  /\ ArchPC = AfterMem

StoreInWb(a) == MemWr(wb.instr) /\ DmemIndex(a) = DmemIndex(wb.alu)

SameState ==
  /\ hi = 0 /\ lo = 0 /\ prevPC = ipc /\ itext = prog /\ iregs = regs
  /\ idata \in [DataIndexes -> Word]
  /\ \A a \in Word : DataIndex(a) \in DataIndexes =>
       dmem[DmemIndex(a)] = IF StoreInWb(a) THEN regs[wb.instr.rt] ELSE idata[DataIndex(a)]

CosimInv ==
  /\ verdict \in {"running", "finish"} /\ runBit = (verdict = "running")
  /\ verdict = "running" => Follows /\ OnPath /\ SameState

AlikeProg == \A s \in Slots : Alike(prog[s])

\* A clock cycle of the testbench, while the invariants hold
CosimStep ==
  /\ AluAgrees /\ SameLayout /\ SpacedRefine /\ SpacedRefine' /\ AlikeProg
  /\ Follows /\ OnPath /\ SameState /\ KeepsToData /\ runBit /\ Clock

-----------------------------------------------------------------------------
(* The simulator executes what has retired *)

\* The instruction it fetches is the one in WB, of which it knows nothing
LEMMA Retiring ==
  ASSUME CosimStep, IsValid(wb.instr)
  PROVE  Executing(wb.instr) /\ ipc = tb["wb"].pc /\ tb["wb"].instr = wb.instr
         /\ tb["wb"].decoded = wb.instr
  <1> DEFINE i == wb.instr
  <1>1. /\ tb["wb"].pc = ipc /\ tb["wb"].instr = i /\ tb["wb"].decoded = i
        /\ i = Imem(prog, ipc) /\ ipc \in Word
    BY DEF CosimStep, Follows, OnPath, Carries
  <1>2. TypeOK /\ ForwardInv
    BY SpacedFacts DEF CosimStep
  <1>3. prog \in Program /\ itext = prog /\ regs \in [Reg -> Word] /\ regs[0] = 0 /\ i \in Instr
    BY <1>2, StageTypes DEF CosimStep, SameState, TypeOK, ForwardInv
  <1>4. i.op # "NONE" /\ SlotOf(ipc) \in Slots
    BY <1>1 DEF IsValid, Imem, NoInstr
  <1>5. Fetched = i /\ Alike(i)
    BY <1>1, <1>3, <1>4 DEF Fetched, Imem, CosimStep, AlikeProg
  <1> HIDE DEF i
  <1>6. Executing(i)
    BY <1>1, <1>3, <1>4, <1>5 DEF Executing, CosimStep, SameState
  <1> QED
    BY <1>1, <1>6 DEF i

\* What the falling edge writes is what the simulator will
LEMMA SameWrite ==
  ASSUME CosimStep, IsValid(wb.instr)
  PROVE  RegsWritten = Written(wb.instr, iregs,
                         ValueOf(wb.instr, ipc, Computed(wb.instr, iregs),
                                 idata[DataIndex(Computed(wb.instr, iregs))]))
  <1> DEFINE i   == wb.instr
             res == Computed(i, iregs)
             m   == idata[DataIndex(res)]
  <1>1. Executing(i) /\ ipc = tb["wb"].pc /\ iregs = regs /\ i \in Instr /\ Alike(i)
    BY Retiring DEF CosimStep, SameState, Executing
  <1>2. /\ ~IsJump(i) => wb.alu = res
        /\ wb.seqpc = SeqPC(ipc)
    BY <1>1 DEF CosimStep, Follows, Carries
  <1>3. IsLw(i) /\ DataIndex(wb.alu) \in DataIndexes => wb.rdata = idata[DataIndex(wb.alu)]
    BY DEF CosimStep, Follows
  <1>4. MemToReg(i) => i.op = "LW"
    BY <1>1 DEF Alike, MemToReg, Loads
  <1>5. MemToReg(i) => ~IsJump(i) /\ ~UsesLink(i)
    BY ControlRows
  <1>6. MemToReg(i) => wb.rdata = m
    <2>1. i.op = "LW" => DataIndex(res) \in DataIndexes
      BY <1>1, AddressOf
    <2> QED
      BY <1>2, <1>3, <1>4, <1>5, <2>1 DEF IsLw
  <1>7. Writes(i) /\ ~UsesLink(i) => ~IsJump(i)
    BY DEF Writes, RegWr, UsesLink, IsJump, JTypes, RTypes, Shifts, AddRows, ImmOps, Loads
  <1>8. Writes(i) => WbData = ValueOf(i, ipc, res, m)
    <2> HIDE DEF i, res, m
    <2>1. UsesLink(i) => Dest(i) # 0
      BY WordFacts DEF Dest
    <2>2. WbData = IF UsesLink(i) THEN wb.seqpc ELSE IF Dest(i) = 0 THEN 0
                   ELSE IF MemToReg(i) THEN wb.rdata ELSE wb.alu
      BY <2>1 DEF WbData, i
    <2> QED
      BY <1>2, <1>5, <1>6, <1>7, <2>2 DEF ValueOf
  <1> HIDE DEF res, m
  <1>9. RegsWritten = Written(i, iregs, ValueOf(i, ipc, res, m))
    BY <1>1, <1>8 DEF RegsWritten, Written, Writes
  <1> QED
    BY <1>9 DEF res, m

\* The simulator has caught up with WB
CaughtUpState ==
  /\ ipc' = AfterWb /\ iregs' = RegsWritten /\ hi' = 0 /\ lo' = 0 /\ itext' = itext
  /\ idata' \in [DataIndexes -> Word]
  /\ \A a \in Word : DataIndex(a) \in DataIndexes => idata'[DataIndex(a)] = dmem[DmemIndex(a)]

LEMMA RetiredState ==
  ASSUME CosimStep, IsValid(wb.instr), ProcessInstruction
  PROVE  CaughtUpState /\ opcode' = wb.instr
  <1> DEFINE i == wb.instr
  <1>1. Executing(i) /\ ipc = tb["wb"].pc /\ iregs = regs
    BY Retiring DEF CosimStep, SameState
  <1>2. Executed(i)
    BY <1>1, SimulatorExecutes
  <1>3. ipc' = AfterWb
    BY <1>1, <1>2 DEF Executed, AfterWb
  <1>4. iregs' = RegsWritten
    BY <1>2, SameWrite DEF Executed, SameRegs
  <1>5. ASSUME NEW a \in Word, DataIndex(a) \in DataIndexes
        PROVE  idata'[DataIndex(a)] = dmem[DmemIndex(a)]
    <2>1. MemWr(i) => wb.alu = Computed(i, iregs)
      <3>1. MemWr(i) => ~IsJump(i)
        BY DEF MemWr, IsJump, Stores, JTypes
      <3> QED
        BY <1>1, <3>1 DEF CosimStep, Follows, Carries
    <2>2. idata'[DataIndex(a)] = IF MemWr(i) /\ DmemIndex(a) = DmemIndex(Computed(i, iregs))
                                   THEN iregs[i.rt] ELSE idata[DataIndex(a)]
      BY <1>2, <1>5 DEF Executed
    <2>3. dmem[DmemIndex(a)] = IF StoreInWb(a) THEN regs[i.rt] ELSE idata[DataIndex(a)]
      BY <1>5 DEF CosimStep, SameState
    <2> QED
      BY <1>1, <2>1, <2>2, <2>3 DEF StoreInWb
  <1> QED
    BY <1>2, <1>3, <1>4, <1>5 DEF CaughtUpState, Executed

\* A NOP writes 0 to register 0
LEMMA NothingWritten ==
  ASSUME CosimStep, ~IsValid(wb.instr)
  PROVE  RegsWritten = regs /\ ~MemWr(wb.instr)
  <1> DEFINE i == wb.instr
  <1>1. ~MemWr(i) /\ ~UsesLink(i)
    BY ControlRows
  <1>2. regs \in [Reg -> Word] /\ regs[0] = 0
    BY SpacedFacts DEF CosimStep, TypeOK, ForwardInv
  <1>3. CASE i.op = "NONE"
    <2>1. ~RegWr(i)
      BY <1>3 DEF RegWr, RTypes, Shifts, AddRows, ImmOps, Loads
    <2> QED
      BY <1>1, <2>1 DEF RegsWritten, Writes
  <1>4. CASE IsNop(i)
    <2>1. Dest(i) = 0
      BY <1>1, <1>4 DEF IsNop, Dest, RTypes, Shifts
    <2>2. [regs EXCEPT ![0] = 0] = regs
      BY <1>2
    <2> QED
      BY <1>1, <2>1, <2>2, WbDataZero DEF RegsWritten
  <1> QED
    BY <1>3, <1>4 DEF IsValid

LEMMA CaughtUp ==
  ASSUME CosimStep
  PROVE  /\ CaughtUpState /\ regs' = RegsWritten /\ prevPC' = ipc'
         /\ verdict' \in {"running", "finish"} /\ runBit' = (verdict' = "running")
  <1>1. regs' = RegsWritten /\ prevPC = ipc /\ iregs = regs /\ runBit = TRUE
    BY DEF CosimStep, Clock, Run, Cycle, SameState
  <1>2. CASE Retire
    <2> DEFINE i == wb.instr
    <2>1. IsValid(i)
      BY <1>2 DEF Retire, Retired
    <2>2. Executing(i) /\ ipc = tb["wb"].pc /\ tb["wb"].instr = i /\ tb["wb"].decoded = i
      BY <2>1, Retiring
    <2>3. i = Fetched /\ Alike(i) /\ i \in Instr /\ i.op # "NONE"
      BY <2>2 DEF Executing
    <2>4. ~Traps(Fetched)
      BY <2>3 DEF Traps, Alike, AddRows
    <2>5. /\ ProcessInstruction
          /\ runBit' = (CompareOk /\ ~Stops(opcode'))
          /\ prevPC' = IF CompareOk THEN ipc' ELSE prevPC
          /\ verdict' = Verdict(CompareOk)
      BY <1>1, <1>2, <2>4 DEF Retire
    <2>6. CaughtUpState /\ opcode' = i
      BY <2>1, <2>5, RetiredState
    <2>7. CompareOk
      <3>1. i.op \in ValidOps /\ i.op # "JALR" /\ iregs' = regs'
        BY <1>1, <2>3, <2>6, InstrType DEF Alike, CaughtUpState
      <3> QED
        BY <1>1, <2>2, <2>6, <3>1, AgreesWithItself DEF CompareOk
    <2>8. Stops(opcode') <=> Finish
      <3>1. i.op = "SYSCALL" <=> i = [NoInstr EXCEPT !.op = "SYSCALL"]
        BY <2>3 DEF Alike, NoInstr
      <3>2. i.op = "SYSCALL" => RegsWritten = regs
        BY DEF RegsWritten, Writes, RegWr, UsesLink, RTypes, Shifts, AddRows, ImmOps, Loads,
               LinkBranches
      <3> QED
        BY <1>1, <2>2, <2>6, <3>1, <3>2 DEF Stops, Finish
    <2> QED
      BY <1>1, <2>5, <2>6, <2>7, <2>8 DEF Verdict
  <1>3. CASE NoRetire
    <2>1. /\ ~IsValid(wb.instr) /\ verdict = "running"
          /\ UNCHANGED <<ipc, iregs, hi, lo, itext, idata, runBit, prevPC, verdict>>
      BY <1>3 DEF NoRetire, Retired, issVars, CosimStep, Clock
    <2>2. RegsWritten = regs /\ AfterWb = ipc /\ ~MemWr(wb.instr)
      BY <2>1, NothingWritten DEF AfterWb
    <2>3. /\ hi = 0 /\ lo = 0 /\ idata \in [DataIndexes -> Word]
          /\ \A a \in Word : DataIndex(a) \in DataIndexes =>
               dmem[DmemIndex(a)] = idata[DataIndex(a)]
      BY <2>2 DEF CosimStep, SameState, StoreInWb
    <2>4. CaughtUpState
      BY <1>1, <2>1, <2>2, <2>3 DEF CaughtUpState
    <2> QED
      BY <1>1, <2>1, <2>4
  <1> QED
    BY <1>2, <1>3 DEF CosimStep, Clock

-----------------------------------------------------------------------------
(* A cycle of the testbench *)

\* The stages of the testbench shift as those of the pipeline
LEMMA Shifted ==
  ASSUME CosimStep
  PROVE  /\ tb'["iss"] = [pc |-> pc, instr |-> Imem(prog, pc), decoded |-> NoInstr]
         /\ IsValid(iss.instr) =>
              tb'["ex"] = [pc |-> iss.pc, instr |-> iss.instr, decoded |-> iss.instr]
         /\ tb'["mem"] = tb["ex"] /\ tb'["wb"] = tb["mem"]
         /\ tb' \in [TbStages -> TbReg]
  <1>1. /\ pc \in Word /\ Imem(prog, pc) \in Instr /\ iss.instr \in Instr
        /\ tb \in [TbStages -> TbReg]
        /\ IsValid(iss.instr) => tb["iss"].pc = iss.pc /\ tb["iss"].instr = iss.instr
    BY SpacedFacts, WireTypes, StageTypes DEF CosimStep, Follows
  <1>2. \A t \in TbStages : tb[t] \in TbReg
    BY <1>1
  <1>3. TbStages = {"iss", "ex", "mem", "wb"}
    BY DEF TbStages
  <1>4. tb' = [iss |-> [pc |-> pc, instr |-> Imem(prog, pc), decoded |-> NoInstr],
               ex  |-> [tb["iss"] EXCEPT !.decoded = iss.instr],
               mem |-> tb["ex"],
               wb  |-> tb["mem"]]
    BY DEF CosimStep, Clock, TbShift
  <1>5. [tb["iss"] EXCEPT !.decoded = iss.instr]
          = [pc |-> tb["iss"].pc, instr |-> tb["iss"].instr, decoded |-> iss.instr]
    BY <1>2, <1>3 DEF TbReg
  <1>6. [tb["iss"] EXCEPT !.decoded = iss.instr] \in TbReg
    BY <1>1, <1>2, <1>3 DEF TbReg
  <1>7. [pc |-> pc, instr |-> Imem(prog, pc), decoded |-> NoInstr] \in TbReg
    BY <1>1, NoInstrType DEF TbReg
  <1>8. tb' \in [TbStages -> TbReg]
    BY <1>2, <1>3, <1>4, <1>6, <1>7
  <1> QED
    BY <1>1, <1>4, <1>5, <1>8

\* What a cycle takes out of EX
LEMMA LeavesEx ==
  ASSUME CosimStep
  PROVE  /\ mem'.instr = ex.instr /\ prog' = prog
         /\ IsValid(ex.instr) => /\ Carries(mem', tb["ex"], RegsWritten')
                                 /\ MemWr(ex.instr) => mem'.p2 = RegsWritten'[ex.instr.rt]
                                 /\ tb["ex"].pc = ex.pc /\ ArchPC = ex.pc
                                 /\ ArchPC' = LeadsTo(ex.instr, ex.pc, RegsWritten')
         /\ ~IsValid(ex.instr) => ArchPC' = ArchPC
  <1> DEFINE i == ex.instr
             a == ArchRegs[Port1(i)]
             b == ArchRegs[Port2(i)]
  <1>1. PICK order \in NegedgeOrders : Cycle(order)
    BY DEF CosimStep, Clock, Run
  <1>2. SpacedRefine /\ TypeOK /\ FlowInv /\ FetchInv /\ ForwardInv /\ GoodProg
    BY SpacedFacts DEF CosimStep
  <1>3. TypeOK' /\ FetchInv' /\ ForwardInv'
    BY DEF CosimStep, SpacedRefine, RefineInv, SpacedFlow
  <1>4. mem'.instr = i /\ prog' = prog
    BY <1>1 DEF Cycle, LoadMem
  <1>5. RegsWritten' = ArchRegs
    BY <1>1, <1>2, <1>3, DrainedRegs
  <1>6. ArchPC' = IF IsValid(i) THEN Goes ELSE ArchPC
    BY <1>1, <1>2, <1>3, CycleFlow
  <1>7. ASSUME IsValid(i)
        PROVE  /\ Carries(mem', tb["ex"], RegsWritten')
               /\ MemWr(i) => mem'.p2 = RegsWritten'[i.rt]
               /\ tb["ex"].pc = ex.pc /\ ArchPC = ex.pc
               /\ ArchPC' = LeadsTo(i, ex.pc, RegsWritten')
    <2>1. tb["ex"].pc = ex.pc /\ tb["ex"].instr = i /\ tb["ex"].decoded = i
      BY <1>7 DEF CosimStep, Follows
    <2>2. /\ i = Imem(prog, ex.pc) /\ ex.seqpc = SeqPC(ex.pc) /\ ex.pc \in Word
          /\ ex.brnpc = BranchTarget(SeqPC(ex.pc), i)
      BY <1>2, <1>7, StageTypes DEF FetchInv, ExFetched
    <2>3. /\ ~IsJump(i) => Result(i, P1, P2) = Result(i, a, b)
          /\ BranchTaken = Taken(i, a, b)
          /\ MemWr(i) => P2 = b
      BY <1>2, <1>7, CurrentResult
    <2> HIDE DEF a, b
    <2>4. /\ ~IsJump(i) => mem'.alu = Result(i, a, b)
          /\ mem'.seqpc = SeqPC(ex.pc) /\ mem'.p2 = P2
      BY <1>1, <2>2, <2>3 DEF Cycle, LoadMem
    <2>5. a = RegsWritten'[Port1(i)] /\ b = RegsWritten'[Port2(i)] /\ Port2(i) = i.rt
      BY <1>5 DEF a, b, Port2
    <2>6. Goes = LeadsTo(i, ex.pc, RegsWritten')
      BY <2>2, <2>3, <2>5 DEF Goes, LeadsTo
    <2>7. Carries(mem', tb["ex"], RegsWritten')
      BY <1>4, <2>1, <2>2, <2>4, <2>5 DEF Carries, Computed
    <2>8. ArchPC = ex.pc
      BY <1>7 DEF ArchPC
    <2> QED
      BY <1>6, <1>7, <2>1, <2>3, <2>4, <2>5, <2>6, <2>7, <2>8
  <1> QED
    BY <1>4, <1>6, <1>7

\* What a cycle takes out of MEM, as the simulator's memory will have it
LEMMA LeavesMem ==
  ASSUME CosimStep
  PROVE  /\ wb'.instr = mem.instr /\ wb'.alu = mem.alu
         /\ IsValid(mem.instr) => Carries(wb', tb["mem"], regs')
         /\ DataIndex(wb'.alu) \in DataIndexes => wb'.rdata = idata'[DataIndex(wb'.alu)]
  <1>1. /\ wb' = [instr |-> mem.instr, alu |-> mem.alu, rdata |-> ReadData, seqpc |-> mem.seqpc]
        /\ regs' = RegsWritten
    BY DEF CosimStep, Clock, Run, Cycle, LoadWb
  <1>2. mem.alu \in Word
    BY SpacedFacts, StageTypes DEF CosimStep
  <1>3. DataIndex(mem.alu) \in DataIndexes => idata'[DataIndex(mem.alu)] = ReadData
    BY <1>2, CaughtUp DEF CaughtUpState, ReadData
  <1>4. IsValid(mem.instr) => Carries(mem, tb["mem"], RegsWritten)
    BY DEF CosimStep, Follows
  <1> QED
    BY <1>1, <1>3, <1>4 DEF Carries

LEMMA FollowsNext == CosimStep => Follows'
  <1> SUFFICES ASSUME CosimStep PROVE Follows'
    OBVIOUS
  <1>1. PICK order : Cycle(order)
    BY DEF CosimStep, Clock, Run
  <1>2. IsValid(iss'.instr) => tb'["iss"].pc = iss'.pc /\ tb'["iss"].instr = iss'.instr
    BY <1>1, Shifted, NoInstrType DEF Cycle, LoadIss, IssBubble
  <1>3. IsValid(ex'.instr)
          => tb'["ex"] = [pc |-> ex'.pc, instr |-> ex'.instr, decoded |-> ex'.instr]
    BY <1>1, Shifted, NoInstrType DEF Cycle, LoadEx, ExBubble
  <1>4. IsValid(mem'.instr) => /\ Carries(mem', tb'["mem"], RegsWritten')
                               /\ MemWr(mem'.instr) => mem'.p2 = RegsWritten'[mem'.instr.rt]
    BY LeavesEx, Shifted
  <1>5. IsValid(wb'.instr) => Carries(wb', tb'["wb"], regs')
    BY LeavesMem, Shifted
  <1>6. DataIndex(wb'.alu) \in DataIndexes => wb'.rdata = idata'[DataIndex(wb'.alu)]
    BY LeavesMem
  <1>7. prog' = prog
    BY LeavesEx
  <1> QED
    BY <1>2, <1>3, <1>4, <1>5, <1>6, <1>7, Shifted DEF Follows, Carries

LEMMA OnPathNext == CosimStep => OnPath'
  <1> SUFFICES ASSUME CosimStep PROVE OnPath'
    OBVIOUS
  <1>1. ipc' = AfterWb /\ regs' = RegsWritten
    BY CaughtUp DEF CaughtUpState
  <1>2. /\ IsValid(mem.instr) => tb["mem"].pc = AfterWb
        /\ ArchPC = AfterMem
    BY DEF CosimStep, OnPath
  <1>3. IsValid(wb'.instr) => tb'["wb"].pc = ipc'
    BY <1>1, <1>2, LeavesMem, Shifted
  <1>4. AfterWb' = AfterMem
    BY <1>1, LeavesMem, Shifted DEF AfterWb, AfterMem
  <1>5. IsValid(mem'.instr) => tb'["mem"].pc = AfterWb'
    BY <1>2, <1>4, LeavesEx, Shifted
  <1>6. AfterMem' = IF IsValid(ex.instr) THEN LeadsTo(ex.instr, ex.pc, RegsWritten') ELSE AfterWb'
    BY LeavesEx, Shifted DEF AfterMem, LeadsTo
  <1>7. ArchPC' = AfterMem'
    BY <1>2, <1>4, <1>6, LeavesEx
  <1> QED
    BY <1>3, <1>5, <1>7 DEF OnPath

LEMMA SameStateNext == CosimStep => SameState'
  <1> SUFFICES ASSUME CosimStep PROVE SameState'
    OBVIOUS
  <1>1. /\ dmem' = IF MemWr(mem.instr) THEN [dmem EXCEPT ![DmemIndex(mem.alu)] = mem.p2] ELSE dmem
        /\ wb'.instr = mem.instr /\ wb'.alu = mem.alu /\ regs' = RegsWritten
    BY DEF CosimStep, Clock, Run, Cycle, LoadWb
  <1>2. dmem \in [DmemWords -> Word]
    BY SpacedFacts DEF CosimStep, TypeOK
  <1>3. MemWr(mem.instr) => mem.p2 = RegsWritten[mem.instr.rt]
    BY ControlRows DEF CosimStep, Follows
  <1>4. ASSUME NEW a \in Word, DataIndex(a) \in DataIndexes
        PROVE  dmem'[DmemIndex(a)] = IF StoreInWb(a)' THEN regs'[wb'.instr.rt]
                                                      ELSE idata'[DataIndex(a)]
    <2>1. idata'[DataIndex(a)] = dmem[DmemIndex(a)] /\ DmemIndex(a) \in DmemWords
      BY <1>4, CaughtUp, DmemIndexType DEF CaughtUpState
    <2>2. StoreInWb(a)' = (MemWr(mem.instr) /\ DmemIndex(a) = DmemIndex(mem.alu))
      BY <1>1 DEF StoreInWb
    <2> QED
      BY <1>1, <1>2, <1>3, <2>1, <2>2
  <1>5. itext' = prog'
    BY CaughtUp, LeavesEx DEF CaughtUpState, CosimStep, SameState
  <1> QED
    BY <1>1, <1>4, <1>5, CaughtUp DEF SameState, CaughtUpState

-----------------------------------------------------------------------------
(* The theorems *)

CosimAll == SpacedRefine /\ AlikeProg /\ CosimInv

LEMMA CosimStarts ==
  ASSUME GoodPrograms
  PROVE  CosimInit => CosimAll
  <1> SUFFICES ASSUME CosimInit PROVE CosimAll
    OBVIOUS
  <1>1. SpacedRefine /\ AlikeProg
    <2>1. RefineInv
      BY InitRefineInv DEF GoodPrograms, CosimInit
    <2> QED
      BY <2>1 DEF GoodPrograms, CosimInit, Init, AlikeProg, SpacedRefine
  <1>2. /\ iss = IssBubble /\ ex = ExBubble /\ mem = MemBubble /\ wb = WbBubble
        /\ pc = 0 /\ dmem = [w \in DmemWords |-> DmemFill]
        /\ IssInit(prog, regs, DmemFill) /\ tb = [s \in TbStages |-> TbNone]
        /\ verdict = "running"
    BY DEF CosimInit, Init
  <1>3. /\ ~IsValid(IssBubble.instr) /\ ~IsValid(ExBubble.instr)
        /\ ~IsValid(MemBubble.instr) /\ ~IsValid(WbBubble.instr)
        /\ ~IsLw(WbBubble.instr) /\ ~MemWr(WbBubble.instr)
    BY NoInstrType DEF IssBubble, ExBubble, MemBubble, WbBubble, IsLw, NoInstr
  <1>4. Follows
    <2>1. TbNone \in TbReg
      BY WordFacts, NoInstrType DEF TbNone, TbReg
    <2> QED
      BY <1>2, <1>3, <2>1 DEF Follows
  <1>5. OnPath
    <2>1. ArchPC = pc
      BY <1>2, BubbleArch
    <2> QED
      BY <1>2, <1>3, <2>1 DEF OnPath, AfterMem, AfterWb, IssInit
  <1>6. SameState
    <2>1. \A a \in Word : DmemIndex(a) \in DmemWords
      BY DmemIndexType
    <2> QED
      BY <1>2, <1>3, <2>1, PipelineAssumption DEF SameState, StoreInWb, IssInit
  <1>7. runBit = TRUE
    BY <1>2 DEF IssInit
  <1> QED
    BY <1>1, <1>2, <1>4, <1>5, <1>6, <1>7 DEF CosimAll, CosimInv

LEMMA CosimContinues ==
  ASSUME NegedgeOrders = {WriteFirst}, AluAgrees, SameLayout
  PROVE  CosimAll /\ WithinData /\ [Clock]_cosimVars => CosimAll'
  <1> SUFFICES ASSUME CosimAll, WithinData, [Clock]_cosimVars PROVE CosimAll'
    OBVIOUS
  <1>1. CASE Clock
    <2>1. RefineInv' /\ prog' = prog
      BY <1>1, StepRefineInv DEF CosimAll, SpacedRefine, Clock, Next, Run, Cycle
    <2>2. SpacedRefine' /\ AlikeProg'
      BY <2>1 DEF CosimAll, SpacedRefine, AlikeProg
    <2>3. CosimStep
      BY <1>1, <2>2 DEF CosimAll, CosimInv, CosimStep, Clock, WithinData
    <2> QED
      BY <2>2, <2>3, CaughtUp, FollowsNext, OnPathNext, SameStateNext DEF CosimAll, CosimInv
  <1>2. CASE UNCHANGED cosimVars
    <2>1. UNCHANGED vars /\ UNCHANGED issVars /\ UNCHANGED <<tb, verdict>>
      BY <1>2 DEF cosimVars
    <2>2. RefineInv'
      BY <2>1, StepRefineInv DEF CosimAll, SpacedRefine
    <2>3. UNCHANGED <<prog, pc, iss, ex, mem, wb, regs, dmem, ipc, iregs, hi, lo, itext, idata,
                      runBit, prevPC, tb, verdict>>
      BY <2>1 DEF vars, stages, issVars
    <2>4. AlikeProg' /\ SpacedRefine'
      BY <2>2, <2>3 DEF CosimAll, AlikeProg, SpacedRefine
    <2>5. Follows => Follows'
      <3>1. RegsWritten' = RegsWritten
        BY <2>3 DEF RegsWritten, WbData
      <3>2. /\ Carries(mem, tb["mem"], RegsWritten)' = Carries(mem, tb["mem"], RegsWritten)
            /\ Carries(wb, tb["wb"], regs)' = Carries(wb, tb["wb"], regs)
        BY <2>3, <3>1 DEF Carries
      <3> QED
        BY <2>3, <3>1, <3>2 DEF Follows
    <2>6. AfterWb' = AfterWb /\ AfterMem' = AfterMem /\ ArchPC' = ArchPC
      BY <2>3 DEF ArchPC, AfterMem, AfterWb, LeadsTo, RegsWritten, WbData
    <2>7. OnPath => OnPath'
      BY <2>3, <2>6 DEF OnPath
    <2>8. SameState => SameState'
      BY <2>3 DEF SameState, StoreInWb
    <2>9. CosimInv'
      BY <2>3, <2>5, <2>7, <2>8 DEF CosimAll, CosimInv
    <2> QED
      BY <2>4, <2>9 DEF CosimAll
  <1> QED
    BY <1>1, <1>2

LEMMA CosimInvariant ==
  ASSUME NegedgeOrders = {WriteFirst}, AluAgrees, SameLayout, GoodPrograms
  PROVE  CosimSpec /\ []WithinData => []CosimAll
  BY CosimStarts, CosimContinues, PTL DEF CosimSpec

\* Programs whose loads and stores have their addresses from register 0 stay in the data
\* region (data_mem, and the regions of the simulator): on them the theorems below hold
\* of CosimSpec alone.
THEOREM StaysInData ==
  ASSUME NegedgeOrders = {WriteFirst}, AluAgrees, SameLayout, GoodPrograms, FixedAddresses
  PROVE  CosimSpec => []WithinData
  <1> DEFINE Fixed == \A s \in Slots : FixedAddress(prog[s])
  <1>1. CosimAll /\ Fixed => WithinData
    <2> SUFFICES ASSUME CosimAll, Fixed, verdict = "running" PROVE KeepsToData
      BY DEF WithinData
    <2>1. prog \in Program /\ itext = prog /\ iregs = regs
      BY SpacedFacts DEF CosimAll, CosimInv, SameState, TypeOK
    <2>2. iregs[0] = 0
      BY <2>1, SpacedFacts DEF CosimAll, ForwardInv
    <2>3. Fetched \in Instr /\ FixedAddress(Fetched)
      <3>1. CASE SlotOf(ipc) \in Slots
        BY <2>1, <3>1 DEF Fetched, Program
      <3>2. CASE SlotOf(ipc) \notin Slots
        BY <3>2, NoInstrType DEF Fetched, FixedAddress, NoInstr, Loads, Stores
      <3> QED
        BY <3>1, <3>2
    <2> QED
      BY <2>2, <2>3, FixedKeeps
  <1>2. CosimInit => Fixed
    BY DEF CosimInit, Init, FixedAddresses
  <1>3. Fixed /\ [Clock]_cosimVars => Fixed'
    BY DEF Clock, Run, Cycle, cosimVars, vars
  <1> QED
    BY <1>1, <1>2, <1>3, CosimStarts, CosimContinues, PTL DEF CosimSpec

\* No retired instruction differs from the simulator's, and the simulator neither traps
\* nor is asked for more after it has stopped (top_tb.sv:171-187): for every program
\* for which the pipeline is right and that both understand alike, while its loads and
\* stores stay in the data region.
THEOREM NoDifference ==
  ASSUME NegedgeOrders = {WriteFirst}, AluAgrees, SameLayout, GoodPrograms
  PROVE  CosimSpec /\ []WithinData => []NeverFatal
  <1>1. CosimAll => NeverFatal
    BY DEF CosimAll, CosimInv, NeverFatal
  <1> QED
    BY <1>1, CosimInvariant, PTL

\* Under the same conditions every register of the two machines is the same after every
\* cycle, those included that compare_r .. compare_j do not look at.
THEOREM SameRegisters ==
  ASSUME NegedgeOrders = {WriteFirst}, AluAgrees, SameLayout, GoodPrograms
  PROVE  CosimSpec /\ []WithinData => []LockStep
  <1>1. CosimAll => LockStep
    BY DEF CosimAll, CosimInv, SameState, LockStep
  <1> QED
    BY <1>1, CosimInvariant, PTL

\* And so is every word of the data region, which nothing compares, unless a store is in
\* WB that the simulator has yet to execute.
THEOREM SameMemory ==
  ASSUME NegedgeOrders = {WriteFirst}, AluAgrees, SameLayout, GoodPrograms
  PROVE  CosimSpec /\ []WithinData => []MemoryAgrees
  <1>1. CosimAll => MemoryAgrees
    BY DEF CosimAll, CosimInv, SameState, StoreInWb, MemoryAgrees
  <1> QED
    BY <1>1, CosimInvariant, PTL

\* The testbench's $finish, which looks at the pipeline's registers, comes with the
\* simulator's stop, which looks at its own (top_tb.sv:193, and the SYSCALL of sim.c).
THEOREM EndTogether ==
  ASSUME NegedgeOrders = {WriteFirst}, AluAgrees, SameLayout, GoodPrograms
  PROVE  CosimSpec /\ []WithinData => []StopsTogether
  <1>1. CosimAll => StopsTogether
    BY DEF CosimAll, CosimInv, StopsTogether
  <1> QED
    BY <1>1, CosimInvariant, PTL

-----------------------------------------------------------------------------
(* With the ALU of alu.v *)

\* With the ALU of alu.v and programs that name the addresses of their data, nothing is
\* left to suppose but the order at the falling edge: for words, memories and register
\* files of any size the two machines differ in nothing.
THEOREM ShippedPipelineAgrees ==
  ASSUME NegedgeOrders = {WriteFirst}, AluWired, SameLayout, GoodPrograms, FixedAddresses
  PROVE  CosimSpec => [](NeverFatal /\ LockStep /\ MemoryAgrees /\ StopsTogether)
  <1>1. AluAgrees
    BY ShippedAluAgrees
  <1>2. CosimSpec => []WithinData
    BY <1>1, StaysInData
  <1>3. /\ CosimSpec /\ []WithinData => []NeverFatal
        /\ CosimSpec /\ []WithinData => []LockStep
        /\ CosimSpec /\ []WithinData => []MemoryAgrees
        /\ CosimSpec /\ []WithinData => []StopsTogether
    BY <1>1, NoDifference, SameRegisters, SameMemory, EndTogether
  <1> QED
    BY <1>2, <1>3, PTL
=============================================================================
