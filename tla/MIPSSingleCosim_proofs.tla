------------------------ MODULE MIPSSingleCosim_proofs ------------------------
(***************************************************************************)
(* The testbench of the single-cycle processor: $finish and the simulator's *)
(* stop come together whatever the program; and on programs the two         *)
(* understand alike there is no difference to report, and the registers and *)
(* the data memories are the same, for every width and number of registers. *)
(***************************************************************************)
EXTENDS MIPSSingleCosim, MIPSIsa_proofs

First == Imem(prog, 0)

LEMMA InstructionType ==
  ASSUME prog \in Program
  PROVE  Instruction \in Instr /\ First \in Instr
  BY NoInstrType DEF Instruction, First, Imem, Program

-----------------------------------------------------------------------------
(* The end of a test.  Whatever the two machines do, what the comparisons let  *)
(* pass leaves them with the same registers: each looks at the one register    *)
(* that either machine may have written.                                       *)

File(f) == f = [r \in Reg |-> f[r]]

\* Before the first check the simulator has executed nothing, and the processor the first
\* instruction, any number of times
EndsInv ==
  /\ prog \in Programs
  /\ verdict \in {"running", "finish", "fatal", "crashed"}
  /\ verdict \in {"running", "crashed"} => runBit = TRUE
  /\ verdict = "finish" => runBit = FALSE
  /\ verdict = "running" =>
       /\ File(regs) /\ File(iregs)
       /\ opcode # NoInstr => ~reset /\ iregs = IF clk = 0 THEN RegsWritten ELSE regs
       /\ opcode = NoInstr => /\ prevPC = 0 /\ iregs \in BootRegs
                              /\ clk = 0 \/ reset => pc = 0
                              /\ regs = Written(First, iregs, regs[Dest(First)])

\* The register an instruction may change in the simulator
Touches(i) == IF i.op \in LinkBranches \cup {"JALR", "JAL"} THEN Link
              ELSE IF i.op \in RTypes THEN i.rd ELSE i.rt
MayTouch(i) == i.op \in (RTypes \ {"SYSCALL"}) \cup ImmOps \cup Loads \cup LinkBranches \cup {"LUI", "JAL"}

LEMMA SimulatorTouches ==
  ASSUME ProcessInstruction, File(iregs), NEW i, i = Fetched, i.op # "NONE"
  PROVE  iregs' = iregs \/ (MayTouch(i) /\ \E v : iregs' = [iregs EXCEPT ![Touches(i)] = v])
  <1>1. ASSUME i.op \in RTypes, ExecuteR(i)
        PROVE  iregs' = iregs \/ (MayTouch(i) /\ \E v : iregs' = [iregs EXCEPT ![Touches(i)] = v])
    <2>1. \/ iregs' = iregs
          \/ i.op = "JALR" /\ \E v : iregs' = [iregs EXCEPT ![Link] = v]
          \/ i.op \in {"MFHI", "MFLO"} /\ \E v : iregs' = [iregs EXCEPT ![i.rd] = v]
          \/ WritesRd(i.op) /\ \E v : iregs' = [iregs EXCEPT ![i.rd] = v]
      <3>1. CASE DoesNothing(i)
        BY <1>1, <3>1 DEF ExecuteR
      <3>2. CASE ~DoesNothing(i)
        BY <1>1, <3>2 DEF ExecuteR
      <3> QED
        BY <3>1, <3>2
    <2>2. i.op \notin LinkBranches \cup {"JAL"}
      BY <1>1 DEF RTypes, Shifts, AddRows, LinkBranches
    <2>3. WritesRd(i.op) => i.op \notin {"JALR", "SYSCALL"}
      BY DEF WritesRd, AddRows
    <2> QED
      BY <1>1, <2>1, <2>2, <2>3 DEF Touches, MayTouch
  <1>2. ASSUME i.op \in ITypes, ExecuteI(i)
        PROVE  iregs' = iregs \/ (MayTouch(i) /\ \E v : iregs' = [iregs EXCEPT ![Touches(i)] = v])
    <2>1. \/ iregs' = iregs
          \/ i.op \in LinkBranches /\ \E v : iregs' = [iregs EXCEPT ![Link] = v]
          \/ i.op \in ImmOps \cup {"LUI"} /\ \E v : iregs' = [iregs EXCEPT ![i.rt] = v]
          \/ i.op \in Loads /\ \E v : iregs' = [iregs EXCEPT ![i.rt] = v]
      <3> DEFINE iv == IValue(i.op, iregs[i.rs], i.imm)
                 lv == LoadedValue(i.op, MemRead((iregs[i.rs] + Extend(i.imm, ImmSize)) % WordSize))
      <3>1. iregs' = CASE i.op \in LinkBranches -> [iregs EXCEPT ![Link] = NextSeq]
                       [] i.op \in ImmOps \cup {"LUI"} /\ i.rt # 0 -> [iregs EXCEPT ![i.rt] = iv]
                       [] i.op \in Loads /\ i.rt # 0 -> [iregs EXCEPT ![i.rt] = lv]
                       [] OTHER -> iregs
        BY <1>2 DEF ExecuteI
      <3> HIDE DEF iv, lv
      <3>2. \/ iregs' = iregs
            \/ i.op \in LinkBranches /\ iregs' = [iregs EXCEPT ![Link] = NextSeq]
            \/ i.op \in ImmOps \cup {"LUI"} /\ iregs' = [iregs EXCEPT ![i.rt] = iv]
            \/ i.op \in Loads /\ iregs' = [iregs EXCEPT ![i.rt] = lv]
        BY <3>1
      <3> QED
        BY <3>2
    <2>2. i.op \in ImmOps \cup {"LUI"} \cup Loads
            => i.op \notin RTypes \cup LinkBranches \cup {"JALR", "JAL"}
      BY DEF RTypes, Shifts, AddRows, LinkBranches, ImmOps, Loads
    <2> QED
      BY <2>1, <2>2 DEF Touches, MayTouch
  <1>3. ASSUME i.op \in JTypes, ExecuteJ(i)
        PROVE  iregs' = iregs \/ (MayTouch(i) /\ \E v : iregs' = [iregs EXCEPT ![Touches(i)] = v])
    BY <1>3 DEF ExecuteJ, Touches, MayTouch
  <1> QED
    BY <1>1, <1>2, <1>3 DEF ProcessInstruction

\* and in the processor, which the comparison looks at
LEMMA ComparisonLooks ==
  ASSUME NEW i, NEW val, Agree(i, i, val)
  PROVE  /\ i.op # "NONE"
         /\ MayTouch(i) <=> RegWr(i) \/ UsesLink(i)
         /\ MayTouch(i) => Touches(i) = Dest(i) /\ val[Dest(i)] = iregs'[Dest(i)]
         /\ i.op = "SYSCALL" => ~MayTouch(i)
  <1> USE DEF RTypes, Shifts, AddRows, Loads, Stores, LinkBranches, Branches, ImmOps, ITypes, JTypes
  <1>1. i.op \in RTypes \cup ITypes \cup JTypes
    BY DEF Agree
  <1>2. i.op # "NONE" /\ (MayTouch(i) <=> RegWr(i) \/ UsesLink(i)) /\ (i.op = "SYSCALL" => ~MayTouch(i))
    BY <1>1 DEF MayTouch, RegWr, UsesLink
  <1>3. ASSUME MayTouch(i) PROVE Touches(i) = Dest(i)
    BY <1>3 DEF Touches, Dest, UsesLink
  <1>4. ASSUME MayTouch(i) PROVE val[Dest(i)] = iregs'[Dest(i)]
    <2>1. CASE i.op \in RTypes
      <3>1. val[Dest(i)] = iregs'[i.rd] /\ Dest(i) = i.rd
        BY <2>1 DEF Agree
      <3> QED
        BY <3>1
    <2>2. CASE i.op \in ITypes
      <3>1. val[TbRt(i)] = iregs'[ModelRt(i)] /\ TbRt(i) = ModelRt(i)
        BY <2>2 DEF Agree
      <3>2. TbRt(i) = Dest(i)
        BY <2>2 DEF TbRt, Dest
      <3> QED
        BY <3>1, <3>2
    <2>3. CASE i.op \in JTypes
      <3>1. WrLink(i) /\ UsesLink(i)
        BY <1>4, <2>3 DEF MayTouch, WrLink, UsesLink
      <3>2. val[TbRt(i)] = iregs'[ModelRt(i)] /\ TbRt(i) = ModelRt(i)
        BY <2>3, <3>1 DEF Agree
      <3>3. TbRt(i) = Dest(i)
        BY <3>1 DEF TbRt, Dest
      <3> QED
        BY <3>2, <3>3
    <2> QED
      BY <1>1, <2>1, <2>2, <2>3
  <1> QED
    BY <1>2, <1>3, <1>4

\* What passes the comparison leaves the same registers
LEMMA ComparedRegs ==
  ASSUME prog \in Program, File(regs), File(iregs),
         regs = Written(Instruction, iregs, regs[Dest(Instruction)]),
         ProcessInstruction, CompareOk
  PROVE  /\ iregs' = RegsWritten /\ File(iregs') /\ opcode' # NoInstr
         /\ Instruction.op = "SYSCALL" => regs = iregs
  <1> DEFINE i == Instruction
             d == Dest(i)
  <1>1. opcode' = i /\ opcode' = Fetched /\ Agree(i, i, RegsWritten)
    BY DEF CompareOk, ProcessInstruction
  <1>2. /\ i.op # "NONE"
        /\ MayTouch(i) <=> RegWr(i) \/ UsesLink(i)
        /\ MayTouch(i) => Touches(i) = d /\ RegsWritten[d] = iregs'[d]
        /\ i.op = "SYSCALL" => ~MayTouch(i)
    BY <1>1, ComparisonLooks
  <1>3. iregs' = iregs \/ (MayTouch(i) /\ \E v : iregs' = [iregs EXCEPT ![Touches(i)] = v])
    BY <1>1, <1>2, SimulatorTouches
  <1>4. d \in Reg
    BY InstructionType, PortType
  <1>5. RegsWritten = IF MayTouch(i) THEN [regs EXCEPT ![d] = WriteData] ELSE regs
    BY <1>2 DEF RegsWritten, WriteEnable
  <1>6. regs = IF MayTouch(i) THEN [iregs EXCEPT ![d] = regs[d]] ELSE iregs
    BY <1>2 DEF Written
  <1> HIDE DEF i, d
  <1>7. File(iregs') /\ File(RegsWritten)
    BY <1>3, <1>5 DEF File
  <1>8. iregs' = RegsWritten
    <2>1. CASE MayTouch(i)
      <3>1. ASSUME NEW r \in Reg PROVE iregs'[r] = RegsWritten[r]
        <4>1. CASE r = d
          BY <1>2, <2>1, <4>1
        <4>2. CASE r # d
          <5>1. iregs'[r] = iregs[r]
            BY <1>2, <1>3, <2>1, <4>2 DEF File
          <5>2. regs[r] = iregs[r]
            BY <1>6, <2>1, <4>2 DEF File
          <5>3. RegsWritten[r] = regs[r]
            BY <1>5, <2>1, <4>2 DEF File
          <5> QED
            BY <5>1, <5>2, <5>3
        <4> QED
          BY <4>1, <4>2
      <3> QED
        BY <1>7, <3>1 DEF File
    <2>2. CASE ~MayTouch(i)
      BY <1>3, <1>5, <1>6, <2>2
    <2> QED
      BY <2>1, <2>2
  <1>9. opcode' # NoInstr
    BY <1>1, <1>2 DEF NoInstr
  <1>10. i.op = "SYSCALL" => regs = iregs
    BY <1>2, <1>6
  <1> QED
    BY <1>7, <1>8, <1>9, <1>10 DEF i

LEMMA WrittenSame ==
  ASSUME NEW i \in Instr, NEW f, File(f)
  PROVE  f = Written(i, f, f[Dest(i)])
  BY PortType DEF File, Written

\* In both phases of the clock the registers differ by one write at most
LEMMA OneWrite ==
  ASSUME EndsInv, verdict = "running", clk = 1, prevPC = pc \/ opcode # NoInstr
  PROVE  regs = Written(Instruction, iregs, regs[Dest(Instruction)])
  <1>1. prog \in Program /\ File(regs)
    BY CpuAssumption DEF EndsInv
  <1>2. CASE opcode # NoInstr
    BY <1>1, <1>2, InstructionType, WrittenSame DEF EndsInv
  <1>3. CASE opcode = NoInstr
    BY <1>3 DEF EndsInv, Instruction, First
  <1> QED
    BY <1>2, <1>3

LEMMA EndsCheck ==
  ASSUME PlainSyscalls, EndsInv, verdict = "running", clk = 1, clk' = 0, reset' = FALSE, Check,
         UNCHANGED cpuVars
  PROVE  EndsInv'
  <1>1. prog \in Programs /\ prog \in Program /\ runBit = TRUE /\ File(regs) /\ File(iregs)
    BY CpuAssumption DEF EndsInv
  <1>2. UNCHANGED <<prog, pc, regs>> /\ RegsWritten' = RegsWritten /\ Instruction' = Instruction
    <2>1. UNCHANGED <<prog, pc, regs, dmem>>
      BY DEF cpuVars
    <2>2. Instruction' = Instruction
      BY <2>1 DEF Instruction, Imem
    <2> QED
      BY <2>1, <2>2 DEF RegsWritten, WriteEnable, WriteData, AluResult, R1, R2
  <1>3. CASE Traps(Fetched)
    <2>1. verdict' = "crashed" /\ runBit' = runBit
      BY <1>1, <1>3 DEF Check, issVars
    <2> QED
      BY <1>1, <1>2, <2>1 DEF EndsInv
  <1>4. CASE ~Traps(Fetched) /\ CompareOk
    <2>1. /\ ProcessInstruction
          /\ runBit' = ~Stops(opcode')
          /\ verdict' = IF Finish THEN "finish" ELSE "running"
      BY <1>1, <1>4 DEF Check
    <2>2. prevPC = pc /\ opcode' = Instruction
      BY <1>4 DEF CompareOk
    <2>3. regs = Written(Instruction, iregs, regs[Dest(Instruction)])
      BY <2>2, OneWrite
    <2>4. /\ iregs' = RegsWritten /\ File(iregs') /\ opcode' # NoInstr
          /\ Instruction.op = "SYSCALL" => regs = iregs
      BY <1>1, <1>4, <2>1, <2>3, ComparedRegs
    <2>5. Instruction.op = "SYSCALL" <=> Instruction = [NoInstr EXCEPT !.op = "SYSCALL"]
      <3>1. Instruction.op = "SYSCALL" => SlotOf(pc) \in Slots
        BY DEF Instruction, Imem, NoInstr
      <3> QED
        BY <1>1, <3>1 DEF PlainSyscalls, Instruction, Imem, NoInstr
    <2>6. Stops(opcode') <=> Finish
      BY <2>2, <2>4, <2>5 DEF Stops, Finish
    <2> QED
      BY <1>1, <1>2, <2>1, <2>4, <2>6 DEF EndsInv
  <1>5. CASE ~Traps(Fetched) /\ ~CompareOk
    <2>1. verdict' = "fatal"
      BY <1>1, <1>5 DEF Check
    <2> QED
      BY <1>1, <1>2, <2>1 DEF EndsInv
  <1> QED
    BY <1>3, <1>4, <1>5

LEMMA EndsNoCheck ==
  ASSUME NoExitAtBoot, EndsInv, verdict = "running", clk = 1, reset, clk' = 0, reset' = FALSE,
         NoCheck, UNCHANGED cpuVars
  PROVE  EndsInv'
  <1>1. /\ opcode = NoInstr /\ pc = 0 /\ prevPC = 0 /\ iregs \in BootRegs
        /\ regs = Written(First, iregs, regs[Dest(First)])
    BY DEF EndsInv
  <1>2. ~Finish
    <2>1. CASE Instruction.op = "SYSCALL"
      <3>1. ~RegWr(First) /\ ~UsesLink(First)
        BY <1>1, <2>1 DEF Instruction, First, RegWr, UsesLink, RTypes, Shifts, AddRows, ImmOps,
                          Loads, LinkBranches
      <3>2. regs = iregs
        BY <1>1, <3>1 DEF Written
      <3> QED
        BY <1>1, <3>2 DEF NoExitAtBoot, Finish
    <2>2. CASE Instruction.op # "SYSCALL"
      BY <2>2 DEF Finish, NoInstr
    <2> QED
      BY <2>1, <2>2
  <1>3. UNCHANGED <<prog, pc, regs, iregs, opcode, runBit, prevPC>> /\ verdict' = "running"
    BY <1>2 DEF NoCheck, issVars, cpuVars
  <1>4. First' = First
    BY <1>3 DEF First, Imem
  <1> QED
    BY <1>1, <1>3, <1>4 DEF EndsInv, Written

LEMMA EndsRise ==
  ASSUME EndsInv, Rise
  PROVE  EndsInv'
  <1>1. /\ verdict = "running" /\ clk = 0 /\ clk' = 1 /\ regs' = RegsWritten
        /\ pc' = IF reset THEN 0 ELSE NextPC
        /\ UNCHANGED <<prog, iregs, opcode, runBit, prevPC, reset, verdict>>
    BY DEF Rise, Posedge, issVars
  <1>2. prog \in Programs /\ prog \in Program /\ File(regs) /\ File(iregs) /\ runBit = TRUE
    BY <1>1, CpuAssumption DEF EndsInv
  <1>3. File(RegsWritten)
    BY <1>2 DEF File, RegsWritten
  <1>4. First' = First
    BY <1>1 DEF First, Imem
  <1>5. CASE opcode # NoInstr
    BY <1>1, <1>2, <1>3, <1>5 DEF EndsInv
  <1>6. CASE opcode = NoInstr
    <2>1. pc = 0 /\ prevPC = 0 /\ iregs \in BootRegs /\ regs = Written(First, iregs, regs[Dest(First)])
      BY <1>1, <1>6 DEF EndsInv
    <2>2. First = Instruction /\ Dest(First) \in Reg
      BY <1>2, <2>1, InstructionType, PortType DEF First, Instruction
    <2>3. RegsWritten = Written(First, iregs, RegsWritten[Dest(First)])
      <3> DEFINE i == First
                 d == Dest(i)
                 w == RegWr(i) \/ UsesLink(i)
      <3>1. RegsWritten = IF w THEN [regs EXCEPT ![d] = WriteData] ELSE regs
        BY <2>2 DEF RegsWritten, WriteEnable
      <3>2. regs = IF w THEN [iregs EXCEPT ![d] = regs[d]] ELSE iregs
        BY <2>1 DEF Written
      <3>3. d \in Reg
        BY <2>2
      <3> HIDE DEF i, d, w
      <3>4. CASE w
        <4>1. RegsWritten = [regs EXCEPT ![d] = WriteData] /\ RegsWritten[d] = WriteData
          BY <1>2, <3>1, <3>3, <3>4 DEF File
        <4>2. [regs EXCEPT ![d] = WriteData] = [iregs EXCEPT ![d] = WriteData]
          BY <1>2, <3>2, <3>3, <3>4 DEF File
        <4> QED
          BY <3>4, <4>1, <4>2 DEF Written, i, d, w
      <3>5. CASE ~w
        BY <3>1, <3>2, <3>5 DEF Written, i, w
      <3> QED
        BY <3>4, <3>5
    <2>4. Written(First', iregs', regs'[Dest(First')]) = RegsWritten
      BY <1>1, <1>4, <2>3
    <2> QED
      BY <1>1, <1>2, <1>3, <1>6, <2>1, <2>4 DEF EndsInv
  <1> QED
    BY <1>5, <1>6

LEMMA EndsInvariant ==
  ASSUME PlainSyscalls, NoExitAtBoot
  PROVE  CosimSpec => []EndsInv
  <1>1. CosimInit => EndsInv
    <2> SUFFICES ASSUME CosimInit PROVE EndsInv
      OBVIOUS
    <2>1. /\ prog \in Programs /\ pc = 0 /\ regs \in BootRegs /\ verdict = "running"
          /\ runBit = TRUE /\ iregs = regs /\ opcode = NoInstr /\ prevPC = 0
      BY DEF CosimInit, CpuInit, IssInit
    <2>2. prog \in Program /\ File(regs)
      BY <2>1, CpuAssumption DEF File
    <2>3. regs = Written(First, iregs, regs[Dest(First)])
      BY <2>1, <2>2, InstructionType, WrittenSame
    <2> QED
      BY <2>1, <2>2, <2>3 DEF EndsInv
  <1>2. EndsInv /\ [Clock]_cosimVars => EndsInv'
    <2> SUFFICES ASSUME EndsInv, [Clock]_cosimVars PROVE EndsInv'
      OBVIOUS
    <2>1. CASE Rise
      BY <2>1, EndsRise
    <2>2. CASE Fall
      BY <2>2, EndsCheck, EndsNoCheck DEF Fall
    <2>3. CASE UNCHANGED cosimVars
      <3>1. UNCHANGED <<prog, pc, regs, dmem, iregs, opcode, runBit, prevPC, reset, clk, verdict>>
        BY <2>3 DEF cosimVars, cpuVars, issVars, tbVars
      <3>2. First' = First /\ Instruction' = Instruction
        BY <3>1 DEF First, Instruction, Imem
      <3>3. RegsWritten' = RegsWritten
        BY <3>1, <3>2 DEF RegsWritten, WriteEnable, WriteData, AluResult, R1, R2
      <3> QED
        BY <3>1, <3>2, <3>3 DEF EndsInv
    <2> QED
      BY <2>1, <2>2, <2>3 DEF Clock
  <1> QED
    BY <1>1, <1>2, PTL DEF CosimSpec

\* The testbench's $finish, which looks at the processor's registers, comes with the
\* simulator's stop, which looks at its own (top_tb.sv:95, and the SYSCALL of sim.c):
\* whatever else the program does to the two, and in either order at the reset.
THEOREM EndTogether ==
  ASSUME PlainSyscalls, NoExitAtBoot
  PROVE  CosimSpec => []StopsTogether
  <1>1. EndsInv => StopsTogether
    BY DEF EndsInv, StopsTogether
  <1> QED
    BY <1>1, EndsInvariant, PTL

-----------------------------------------------------------------------------
(* No difference.  The simulator executes the instruction that the processor's *)
(* wires show; the edge under reset has executed it once already, which        *)
(* Repeatable makes the same as not at all.                                    *)

CpuOk == /\ prog \in Programs /\ pc \in Word
         /\ regs \in [Reg -> Word] /\ regs[0] = 0 /\ dmem \in [DmemWords -> Word]
SimOk == /\ itext = prog /\ hi = 0 /\ lo = 0 /\ prevPC = ipc
         /\ ipc \in Word /\ Imem(prog, ipc).op # "NONE"
         /\ iregs \in [Reg -> Word] /\ iregs[0] = 0 /\ idata \in [DataIndexes -> Word]

\* The registers and a word of the memory once the simulator has executed i, and once the
\* processor has had its rising edge
SimRegs(i)    == Written(i, iregs, ValueOf(i, ipc, Computed(i, iregs),
                                           idata[DataIndex(Computed(i, iregs))]))
SimWord(i, a) == IF MemWr(i) /\ DmemIndex(a) = DmemIndex(Computed(i, iregs))
                   THEN iregs[i.rt] ELSE idata[DataIndex(a)]
CpuWord(a)    == IF MemWr(Instruction) /\ DmemIndex(a) = DmemIndex(AluResult)
                   THEN R2 ELSE dmem[DmemIndex(a)]

InData(a) == a \in Word /\ DataIndex(a) \in DataIndexes

\* The two at the same instruction
Fresh == /\ pc = ipc /\ regs = iregs
         /\ \A a \in Word : InData(a) => dmem[DmemIndex(a)] = idata[DataIndex(a)]
\* The processor has executed the first instruction, the simulator has not
Repeating == /\ pc = 0 /\ ipc = 0 /\ regs = SimRegs(First)
             /\ \A a \in Word : InData(a) => dmem[DmemIndex(a)] = SimWord(First, a)
\* The simulator is ahead by the instruction on the wires
Ahead == /\ ipc = NextPC /\ iregs = RegsWritten
         /\ \A a \in Word : InData(a) => idata[DataIndex(a)] = CpuWord(a)

Phase == \/ clk = 0 /\ reset  /\ Fresh /\ pc = 0
         \/ clk = 1 /\ reset  /\ Repeating
         \/ clk = 0 /\ ~reset /\ Ahead
         \/ clk = 1 /\ ~reset /\ Fresh

SingleInv ==
  /\ prog \in Programs /\ reset \in BOOLEAN /\ clk \in {0, 1}
  /\ Together =>
       /\ verdict \in {"running", "finish"} /\ runBit = (verdict = "running")
       /\ verdict = "finish" => clk = 0
       /\ verdict = "running" => CpuOk /\ SimOk /\ Phase

\* What the simulator will do is what the processor's wires show
Matches == /\ pc = ipc /\ RegsWritten = SimRegs(Instruction)
           /\ NextPC = LeadsTo(Instruction, ipc, iregs)
           /\ \A a \in Word : InData(a) => CpuWord(a) = SimWord(Instruction, a)
           /\ Instruction.op = "SYSCALL" => regs = iregs

LEMMA CpuWires ==
  ASSUME CpuOk
  PROVE  /\ Instruction \in Instr /\ R2 = regs[Port2(Instruction)]
         /\ AluResult = Computed(Instruction, regs) /\ AluResult \in Word
         /\ NextPC = LeadsTo(Instruction, pc, regs) /\ NextPC \in Word
         /\ RegsWritten = Written(Instruction, regs,
                            ValueOf(Instruction, pc, AluResult, dmem[DmemIndex(AluResult)]))
         /\ RegsWritten \in [Reg -> Word] /\ RegsWritten[0] = 0
  <1> DEFINE i == Instruction
             m == dmem[DmemIndex(AluResult)]
             v == ValueOf(i, pc, AluResult, m)
  <1>1. i \in Instr /\ prog \in Program
    BY CpuAssumption, InstructionType DEF CpuOk
  <1>2. Port1(i) \in Reg /\ Port2(i) \in Reg /\ Dest(i) \in Reg
    BY <1>1, PortType
  <1>3. regs \in [Reg -> Word] /\ regs[0] = 0 /\ pc \in Word
    BY DEF CpuOk
  <1>4. AluResult = Computed(i, regs) /\ AluResult \in Word
    BY <1>1, <1>2, <1>3, AluType DEF AluResult, R1, R2, Computed
  <1>5. m \in Word
    BY <1>4, DmemIndexType DEF CpuOk
  <1>6. SeqPC(pc) \in Word
    BY <1>3, AddType, WordFacts DEF SeqPC
  <1>7. NextPC = LeadsTo(i, pc, regs) /\ NextPC \in Word
    <2>1. Target(prog, pc) = IF IsJump(i) THEN JumpTarget(SeqPC(pc), i)
                                          ELSE BranchTarget(SeqPC(pc), i)
      BY DEF Target, Instruction
    <2>2. NextPC = LeadsTo(i, pc, regs)
      BY <2>1 DEF NextPC, LeadsTo, R1, R2
    <2> QED
      BY <1>1, <1>6, <2>2, TargetType DEF LeadsTo
  <1>8. v \in Word /\ (Dest(i) = 0 => v = 0)
    <2>1. UsesLink(i) => Dest(i) # 0
      BY WordFacts DEF Dest
    <2> QED
      BY <1>4, <1>5, <1>6, <2>1, WordFacts DEF ValueOf
  <1>9. RegsWritten = Written(i, regs, v)
    <2>1. UsesLink(i) => Dest(i) # 0
      BY WordFacts DEF Dest
    <2>2. WriteData = v
      BY <2>1 DEF WriteData, ValueOf
    <2> QED
      BY <2>2 DEF RegsWritten, WriteEnable, Written
  <1>10. RegsWritten \in [Reg -> Word] /\ RegsWritten[0] = 0
    <2> HIDE DEF v, i
    <2> QED
      BY <1>2, <1>3, <1>8, <1>9 DEF Written
  <1> QED
    BY <1>1, <1>4, <1>7, <1>9, <1>10 DEF R2

\* The simulator can execute the next instruction as the lemmas of MIPSIsa_proofs say
LEMMA CanExecute ==
  ASSUME AluAgrees, SameLayout, GoodPrograms, KeepsToData, CpuOk, SimOk
  PROVE  Executing(Imem(prog, ipc))
  <1> DEFINE i == Imem(prog, ipc)
  <1>1. prog \in Program /\ ipc \in Word /\ i.op # "NONE" /\ itext = prog
    BY CpuAssumption DEF CpuOk, SimOk
  <1>2. SlotOf(ipc) \in Slots
    BY <1>1 DEF Imem, NoInstr
  <1>3. i \in Instr
    BY <1>1, ImemType
  <1>4. Fetched = i
    BY <1>1, <1>2 DEF Fetched, Imem
  <1>5. Alike(i)
    BY <1>2 DEF GoodPrograms, CpuOk, Imem
  <1> QED
    BY <1>1, <1>2, <1>3, <1>4, <1>5 DEF Executing, SimOk

LEMMA LoadsWords ==
  ASSUME NEW i, Executing(i), MemToReg(i)
  PROVE  InData(Computed(i, iregs)) /\ ~MemWr(i)
  <1>1. i.op = "LW"
    BY DEF Executing, Alike, MemToReg, Loads
  <1>2. InData(Computed(i, iregs))
    BY <1>1, AddressOf DEF InData
  <1>3. ~MemWr(i)
    BY <1>1 DEF MemWr, Stores
  <1> QED
    BY <1>2, <1>3

\* A store, which writes no register, has its value on the second port
LEMMA StoresRt ==
  ASSUME NEW i, MemWr(i)
  PROVE  Port2(i) = i.rt /\ ~RegWr(i) /\ ~UsesLink(i)
  BY DEF MemWr, Port2, RegWr, UsesLink, Stores, RTypes, Shifts, AddRows, ImmOps, Loads,
         LinkBranches

LEMMA MatchesFresh ==
  ASSUME CpuOk, Fresh, Executing(Instruction)
  PROVE  Matches
  <1> DEFINE i   == Instruction
             res == Computed(i, iregs)
  <1>1. pc = ipc /\ regs = iregs /\ \A a \in Word : InData(a) => dmem[DmemIndex(a)] = idata[DataIndex(a)]
    BY DEF Fresh
  <1>2. AluResult = res /\ NextPC = LeadsTo(i, ipc, iregs) /\ R2 = iregs[Port2(i)]
    BY <1>1, CpuWires
  <1>3. RegsWritten = Written(i, iregs, ValueOf(i, ipc, res, dmem[DmemIndex(res)]))
    BY <1>1, <1>2, CpuWires
  <1> HIDE DEF i, res
  <1>4. MemToReg(i) => dmem[DmemIndex(res)] = idata[DataIndex(res)]
    BY <1>1, LoadsWords DEF InData, i, res
  <1>5. ValueOf(i, ipc, res, dmem[DmemIndex(res)]) = ValueOf(i, ipc, res, idata[DataIndex(res)])
    BY <1>4 DEF ValueOf
  <1>6. RegsWritten = SimRegs(i)
    BY <1>3, <1>5 DEF SimRegs, res
  <1>7. ASSUME NEW a \in Word, InData(a) PROVE CpuWord(a) = SimWord(i, a)
    <2>1. MemWr(i) => R2 = iregs[i.rt]
      BY <1>2, StoresRt
    <2> QED
      BY <1>1, <1>2, <1>7, <2>1 DEF CpuWord, SimWord, i, res
  <1> QED
    BY <1>1, <1>2, <1>6, <1>7 DEF Matches, i

\* Executed once more, an instruction that can be repeated does the same
LEMMA SameAgain ==
  ASSUME NEW i \in Instr, Repeatable(i), NEW f \in [Reg -> Word], f[0] = 0, NEW p, NEW res, NEW m,
         NEW g, g = Written(i, f, ValueOf(i, p, res, m))
  PROVE  /\ Computed(i, g) = Computed(i, f) /\ LeadsTo(i, p, g) = LeadsTo(i, p, f)
         /\ Written(i, g, ValueOf(i, p, res, m)) = g
  <1> DEFINE v == ValueOf(i, p, res, m)
             w == RegWr(i) \/ UsesLink(i)
             d == Dest(i)
  <1>1. d \in Reg /\ Port1(i) \in Reg /\ Port2(i) \in Reg
    BY PortType
  <1>2. d = 0 => v = 0
    BY WordFacts DEF ValueOf, Dest
  <1>3. g = IF w THEN [f EXCEPT ![d] = v] ELSE f
    BY DEF Written
  <1>4. w /\ d # 0 => d # Port1(i) /\ (AluSrc(i) = "port2" => d # Port2(i))
    BY DEF Repeatable
  <1>5. Written(i, g, v) = IF w THEN [g EXCEPT ![d] = v] ELSE g
    BY DEF Written
  <1> HIDE DEF v, w, d
  <1>6. d = 0 => g = f
    BY <1>2, <1>3
  <1>7. g[Port1(i)] = f[Port1(i)] /\ (AluSrc(i) = "port2" => g[Port2(i)] = f[Port2(i)])
    BY <1>1, <1>3, <1>4, <1>6
  <1>8. OperandB(i, g[Port2(i)]) = OperandB(i, f[Port2(i)])
    BY <1>7, ControlType DEF OperandB
  <1>9. Computed(i, g) = Computed(i, f)
    BY <1>7, <1>8 DEF Computed, Result
  <1>10. Taken(i, g[Port1(i)], g[Port2(i)]) = Taken(i, f[Port1(i)], f[Port2(i)])
    BY <1>7, <1>8 DEF Taken
  <1>11. Written(i, g, v) = g
    BY <1>1, <1>3, <1>5
  <1> QED
    BY <1>9, <1>10, <1>11 DEF LeadsTo, v

LEMMA MatchesRepeating ==
  ASSUME CpuOk, Repeating, Repeatable(First), Executing(First)
  PROVE  Matches
  <1> DEFINE i   == First
             res == Computed(i, iregs)
             v   == ValueOf(i, ipc, res, idata[DataIndex(res)])
  <1>1. pc = 0 /\ ipc = 0 /\ Instruction = i
    BY DEF Repeating, Instruction, First
  <1>2. i \in Instr /\ iregs \in [Reg -> Word] /\ iregs[0] = 0
    BY DEF Executing
  <1>3. regs = Written(i, iregs, v)
    BY DEF Repeating, SimRegs
  <1>4. /\ Computed(i, regs) = res /\ LeadsTo(i, ipc, regs) = LeadsTo(i, ipc, iregs)
        /\ Written(i, regs, v) = regs
    <2> HIDE DEF i
    <2> QED
      BY <1>2, <1>3, SameAgain DEF i
  <1>5. /\ AluResult = res /\ NextPC = LeadsTo(i, ipc, iregs) /\ R2 = regs[Port2(i)]
        /\ RegsWritten = Written(i, regs, ValueOf(i, ipc, res, dmem[DmemIndex(res)]))
    BY <1>1, <1>4, CpuWires
  <1>6. \A a \in Word : InData(a) => dmem[DmemIndex(a)] = SimWord(i, a)
    BY DEF Repeating
  <1>7. MemToReg(i) => InData(res) /\ ~MemWr(i)
    BY LoadsWords
  <1>8. regs = SimRegs(i)
    BY <1>3 DEF SimRegs
  <1> HIDE DEF i, res
  <1>9. MemToReg(i) => dmem[DmemIndex(res)] = idata[DataIndex(res)]
    BY <1>6, <1>7 DEF SimWord, InData
  <1>10. RegsWritten = SimRegs(i)
    <2>1. ValueOf(i, ipc, res, dmem[DmemIndex(res)]) = v
      BY <1>9 DEF ValueOf
    <2> QED
      BY <1>4, <1>5, <1>8, <2>1
  <1>11. MemWr(i) \/ i.op = "SYSCALL" => regs = iregs
    <2>1. i.op = "SYSCALL" => ~RegWr(i) /\ ~UsesLink(i)
      BY DEF RegWr, UsesLink, RTypes, Shifts, AddRows, ImmOps, Loads, LinkBranches
    <2> HIDE DEF v
    <2> QED
      BY <1>3, <2>1, StoresRt DEF Written
  <1>12. ASSUME NEW a \in Word, InData(a) PROVE CpuWord(a) = SimWord(i, a)
    <2>1. MemWr(i) => R2 = iregs[i.rt]
      BY <1>5, <1>11, StoresRt
    <2>2. CpuWord(a) = IF MemWr(i) /\ DmemIndex(a) = DmemIndex(res) THEN R2 ELSE dmem[DmemIndex(a)]
      BY <1>1, <1>5 DEF CpuWord
    <2>3. SimWord(i, a) = IF MemWr(i) /\ DmemIndex(a) = DmemIndex(res) THEN iregs[i.rt]
                                                                      ELSE idata[DataIndex(a)]
      BY DEF SimWord, res
    <2> QED
      BY <1>6, <1>12, <2>1, <2>2, <2>3
  <1> QED
    BY <1>1, <1>5, <1>10, <1>11, <1>12 DEF Matches

LEMMA SyscallPlain ==
  ASSUME NEW i, Alike(i)
  PROVE  i.op = "SYSCALL" <=> i = [NoInstr EXCEPT !.op = "SYSCALL"]
  BY DEF Alike, NoInstr

\* Control stays in the program
LEMMA StaysIn ==
  ASSUME GoodPrograms, prog \in Programs, NEW a \in Word, Imem(prog, a).op # "NONE", NEW f
  PROVE  Imem(prog, LeadsTo(Imem(prog, a), a, f)).op # "NONE"
  <1> DEFINE i == Imem(prog, a)
  <1>1. \A b \in Succ(prog, a) : Imem(prog, b).op # "NONE"
    BY DEF GoodPrograms, Stays
  <1>2. Target(prog, a) = IF IsJump(i) THEN JumpTarget(SeqPC(a), i) ELSE BranchTarget(SeqPC(a), i)
    BY DEF Target
  <1>3. LeadsTo(i, a, f) \in Succ(prog, a)
    <2>1. CASE IsJump(i)
      BY <1>2, <2>1 DEF LeadsTo, Succ
    <2>2. CASE ~IsJump(i) /\ IsBranch(i)
      BY <1>2, <2>2 DEF LeadsTo, Succ
    <2>3. CASE ~IsJump(i) /\ ~IsBranch(i)
      BY <2>3 DEF LeadsTo, Succ, Taken
    <2> QED
      BY <2>1, <2>2, <2>3
  <1> QED
    BY <1>1, <1>3

\* A falling edge at which the simulator runs
LEMMA SingleCheck ==
  ASSUME AluAgrees, SameLayout, GoodPrograms, KeepsToData, CpuOk, SimOk, Matches,
         runBit = TRUE, Check, UNCHANGED cpuVars
  PROVE  /\ verdict' \in {"running", "finish"} /\ runBit' = (verdict' = "running")
         /\ CpuOk' /\ SimOk' /\ Ahead'
  <1> DEFINE i == Instruction
  <1>1. pc = ipc /\ i = Imem(prog, ipc) /\ Executing(i)
    BY CanExecute DEF Matches, Instruction
  <1>2. i = Fetched /\ Alike(i) /\ i \in Instr /\ i.op # "NONE"
    BY <1>1 DEF Executing
  <1>3. ~Traps(Fetched)
    BY <1>2 DEF Traps, Alike, AddRows
  <1>4. /\ ProcessInstruction
        /\ runBit' = (CompareOk /\ ~Stops(opcode'))
        /\ prevPC' = IF CompareOk THEN ipc' ELSE prevPC
        /\ verdict' = IF ~CompareOk THEN "fatal" ELSE IF Finish THEN "finish" ELSE "running"
    BY <1>3 DEF Check
  <1>5. Executed(i)
    BY <1>1, <1>4, SimulatorExecutes
  <1>6. /\ opcode' = i /\ ipc' = NextPC /\ iregs' = RegsWritten
        /\ i.op = "SYSCALL" => regs = iregs
    BY <1>5 DEF Executed, SameRegs, Matches, SimRegs
  <1>7. CompareOk
    <2>1. i.op \in ValidOps /\ i.op # "JALR"
      BY <1>2, InstrType DEF Alike
    <2>2. Agree(i, i, RegsWritten)
      BY <1>6, <2>1, AgreesWithItself
    <2> QED
      BY <1>1, <1>6, <2>2 DEF CompareOk, SimOk
  <1>8. Stops(opcode') <=> Finish
    BY <1>2, <1>6, SyscallPlain DEF Stops, Finish
  <1>9. UNCHANGED <<prog, pc, regs, dmem>>
    BY DEF cpuVars
  <1>10. CpuOk'
    BY <1>9 DEF CpuOk
  <1>11. SimOk'
    <2>1. Imem(prog, ipc').op # "NONE"
      BY <1>1, <1>5, StaysIn DEF CpuOk, SimOk, Executed
    <2>2. ipc' \in Word /\ iregs' \in [Reg -> Word] /\ iregs'[0] = 0
      BY <1>6, CpuWires
    <2>3. Imem(prog, ipc)' = Imem(prog, ipc')
      BY <1>9 DEF Imem
    <2> QED
      BY <1>4, <1>5, <1>7, <1>9, <2>1, <2>2, <2>3 DEF SimOk, Executed
  <1>12. Ahead'
    <2>1. Instruction' = Instruction
      BY <1>9 DEF Instruction, Imem
    <2>2. NextPC' = NextPC /\ RegsWritten' = RegsWritten
      BY <1>9, <2>1 DEF NextPC, Target, Imem, RegsWritten, WriteEnable, WriteData, AluResult, R1, R2
    <2>3. \A a \in Word : InData(a) => idata'[DataIndex(a)] = CpuWord(a)
      BY <1>5 DEF Executed, Matches, SimWord, InData
    <2>4. ASSUME NEW a \in Word PROVE CpuWord(a)' = CpuWord(a)
      BY <1>9, <2>1 DEF CpuWord, AluResult, R1, R2
    <2> QED
      BY <1>6, <2>2, <2>3, <2>4 DEF Ahead, InData
  <1> QED
    BY <1>4, <1>7, <1>8, <1>10, <1>11, <1>12

\* A rising edge
LEMMA CpuMemory ==
  ASSUME CpuOk, Rise, NEW a \in Word
  PROVE  dmem'[DmemIndex(a)] = CpuWord(a)
  <1>1. dmem' = IF MemWr(Instruction) THEN [dmem EXCEPT ![DmemIndex(AluResult)] = R2] ELSE dmem
    BY DEF Rise, Posedge
  <1>2. DmemIndex(a) \in DmemWords /\ dmem \in [DmemWords -> Word]
    BY DmemIndexType DEF CpuOk
  <1> QED
    BY <1>1, <1>2 DEF CpuWord

LEMMA CpuRises ==
  ASSUME CpuOk, Rise
  PROVE  CpuOk'
  <1>1. /\ pc' = IF reset THEN 0 ELSE NextPC
        /\ regs' = RegsWritten /\ prog' = prog
        /\ dmem' = IF MemWr(Instruction) THEN [dmem EXCEPT ![DmemIndex(AluResult)] = R2] ELSE dmem
    BY DEF Rise, Posedge
  <1>2. dmem \in [DmemWords -> Word] /\ prog \in Programs /\ regs \in [Reg -> Word]
    BY DEF CpuOk
  <1>3. R2 \in Word
    BY <1>2, CpuWires, PortType
  <1>4. dmem' \in [DmemWords -> Word]
    BY <1>1, <1>2, <1>3
  <1> QED
    BY <1>1, <1>2, <1>4, CpuWires, WordFacts DEF CpuOk

LEMMA SingleRise ==
  ASSUME AluAgrees, SameLayout, GoodPrograms, KeepsToData, CpuOk, SimOk, Phase, Rise
  PROVE  CpuOk' /\ SimOk' /\ Phase'
  <1>1. /\ clk = 0 /\ clk' = 1 /\ reset' = reset /\ regs' = RegsWritten /\ prog' = prog
        /\ pc' = IF reset THEN 0 ELSE NextPC
        /\ UNCHANGED <<ipc, iregs, hi, lo, itext, idata, runBit, prevPC, opcode>>
    BY DEF Rise, Posedge, issVars
  <1>2. CpuOk'
    BY CpuRises
  <1>3. SimOk'
    <2>1. Imem(prog, ipc)' = Imem(prog, ipc)
      BY <1>1 DEF Imem
    <2> QED
      BY <1>1, <2>1 DEF SimOk
  <1>4. CASE reset
    <2>1. Fresh /\ pc = 0 /\ ipc = 0
      BY <1>1, <1>4 DEF Phase, Fresh
    <2>2. Instruction = First /\ First = Imem(prog, ipc)
      BY <2>1 DEF Instruction, First
    <2>3. Matches
      BY <2>1, <2>2, CanExecute, MatchesFresh
    <2>4. First' = First
      BY <1>1 DEF First, Imem
    <2>5. SimRegs(First)' = SimRegs(First)
      BY <1>1, <2>4 DEF SimRegs
    <2>6. ASSUME NEW a \in Word, InData(a) PROVE dmem'[DmemIndex(a)] = SimWord(First, a)'
      <3>1. SimWord(First, a)' = SimWord(First, a)
        BY <1>1, <2>4 DEF SimWord
      <3> QED
        BY <2>2, <2>3, <2>6, <3>1, CpuMemory DEF Matches
    <2> QED
      BY <1>1, <1>2, <1>3, <1>4, <2>1, <2>2, <2>3, <2>5, <2>6 DEF Phase, Repeating, Matches, InData
  <1>5. CASE ~reset
    <2>1. Ahead
      BY <1>1, <1>5 DEF Phase
    <2>2. Fresh'
      BY <1>1, <1>5, <2>1, CpuMemory DEF Ahead, Fresh, InData
    <2> QED
      BY <1>1, <1>2, <1>3, <1>5, <2>2 DEF Phase
  <1> QED
    BY <1>4, <1>5

LEMMA SingleStarts ==
  ASSUME GoodPrograms
  PROVE  CosimInit => SingleInv
  <1> SUFFICES ASSUME CosimInit PROVE SingleInv
    OBVIOUS
  <1>1. /\ prog \in Programs /\ pc = 0 /\ regs \in BootRegs /\ dmem = [w \in DmemWords |-> DmemFill]
        /\ ipc = 0 /\ prevPC = 0 /\ iregs = regs /\ hi = 0 /\ lo = 0 /\ itext = prog
        /\ idata = [w \in DataIndexes |-> DmemFill] /\ runBit = TRUE
        /\ reset = TRUE /\ clk = 0 /\ verdict = "running"
    BY DEF CosimInit, CpuInit, IssInit
  <1>2. regs \in [Reg -> Word] /\ regs[0] = 0 /\ DmemFill \in Word
    BY <1>1, CpuAssumption
  <1>3. CpuOk
    BY <1>1, <1>2, WordFacts DEF CpuOk
  <1>4. SimOk
    BY <1>1, <1>2, WordFacts DEF SimOk, GoodPrograms, Stays
  <1>5. Fresh
    BY <1>1, DmemIndexType DEF Fresh, InData
  <1> QED
    BY <1>1, <1>3, <1>4, <1>5 DEF SingleInv, Phase

LEMMA SingleContinues ==
  ASSUME AluAgrees, SameLayout, GoodPrograms
  PROVE  SingleInv /\ WithinData /\ [Clock]_cosimVars => SingleInv'
  <1> SUFFICES ASSUME SingleInv, WithinData, [Clock]_cosimVars PROVE SingleInv'
    OBVIOUS
  <1>1. UNCHANGED <<prog, first>>
    BY DEF Clock, Rise, Fall, Posedge, cosimVars, cpuVars, tbVars
  <1>2. Together' = Together
    BY <1>1 DEF Together, Imem
  <1>3. prog' \in Programs /\ reset' \in BOOLEAN /\ clk' \in {0, 1}
    BY <1>1 DEF SingleInv, Clock, Rise, Fall, cosimVars, tbVars
  <1>4. CASE ~Together
    BY <1>2, <1>3, <1>4 DEF SingleInv
  <1>5. ASSUME Together, verdict = "running"
        PROVE  CpuOk /\ SimOk /\ Phase /\ KeepsToData /\ runBit = TRUE
    BY <1>5 DEF SingleInv, WithinData
  <1>6. CASE Together /\ Rise
    <2>1. verdict = "running" /\ verdict' = verdict /\ runBit' = runBit
      BY <1>6 DEF Rise, issVars
    <2> QED
      BY <1>2, <1>3, <1>5, <1>6, <2>1, SingleRise DEF SingleInv
  <1>7. CASE Together /\ Fall
    <2>1. /\ verdict = "running" /\ clk = 1 /\ clk' = 0 /\ reset' = FALSE /\ Check
          /\ UNCHANGED cpuVars /\ runBit = TRUE /\ Repeatable(First)
      BY <1>5, <1>7 DEF Fall, Together, First
    <2>2. Matches
      <3>1. CASE Fresh
        BY <1>5, <1>7, <2>1, <3>1, CanExecute, MatchesFresh DEF Fresh, Instruction
      <3>2. CASE Repeating
        BY <1>5, <1>7, <2>1, <3>2, CanExecute, MatchesRepeating DEF Repeating, First
      <3> QED
        BY <1>5, <1>7, <2>1, <3>1, <3>2 DEF Phase
    <2>3. /\ verdict' \in {"running", "finish"} /\ runBit' = (verdict' = "running")
          /\ CpuOk' /\ SimOk' /\ Ahead'
      BY <1>5, <1>7, <2>1, <2>2, SingleCheck
    <2> QED
      BY <1>3, <2>1, <2>3 DEF SingleInv, Phase
  <1>8. CASE Together /\ UNCHANGED cosimVars
    <2>1. UNCHANGED <<prog, pc, regs, dmem, ipc, iregs, hi, lo, itext, idata, runBit, prevPC,
                      opcode, first, reset, clk, verdict>>
      BY <1>8 DEF cosimVars, cpuVars, issVars, tbVars
    <2>2. Instruction' = Instruction /\ First' = First /\ Imem(prog, ipc)' = Imem(prog, ipc)
      BY <2>1 DEF Instruction, First, Imem
    <2>3. NextPC' = NextPC /\ RegsWritten' = RegsWritten /\ AluResult' = AluResult /\ R2' = R2
      BY <2>1, <2>2 DEF NextPC, Target, Imem, RegsWritten, WriteEnable, WriteData, AluResult, R1, R2
    <2>4. SimRegs(First)' = SimRegs(First)
      BY <2>1, <2>2 DEF SimRegs
    <2>5. \A a \in Word : SimWord(First, a)' = SimWord(First, a) /\ CpuWord(a)' = CpuWord(a)
      BY <2>1, <2>2, <2>3 DEF SimWord, CpuWord
    <2>6. (Fresh => Fresh') /\ (Repeating => Repeating') /\ (Ahead => Ahead')
      BY <2>1, <2>3, <2>4, <2>5 DEF Fresh, Repeating, Ahead, InData
    <2>7. (CpuOk => CpuOk') /\ (SimOk => SimOk') /\ (Phase => Phase')
      BY <2>1, <2>2, <2>6 DEF CpuOk, SimOk, Phase
    <2> QED
      BY <1>2, <1>3, <2>1, <2>7 DEF SingleInv
  <1> QED
    BY <1>4, <1>6, <1>7, <1>8 DEF Clock

LEMMA SingleInvariant ==
  ASSUME AluAgrees, SameLayout, GoodPrograms
  PROVE  CosimSpec /\ []WithinData => []SingleInv
  BY SingleStarts, SingleContinues, PTL DEF CosimSpec

\* Programs whose loads and stores have their addresses from register 0 stay in the data
\* region (data_mem, and the regions of the simulator): on them the theorems below hold
\* of CosimSpec alone.
THEOREM StaysInData ==
  ASSUME AluAgrees, SameLayout, GoodPrograms, FixedAddresses
  PROVE  CosimSpec => []WithinData
  <1>1. SingleInv => WithinData
    <2> SUFFICES ASSUME SingleInv, Together, verdict = "running" PROVE KeepsToData
      BY DEF WithinData
    <2>1. prog \in Programs /\ prog \in Program /\ itext = prog /\ iregs[0] = 0
      BY CpuAssumption DEF SingleInv, SimOk
    <2>2. Fetched \in Instr /\ FixedAddress(Fetched)
      <3>1. CASE SlotOf(ipc) \in Slots
        BY <2>1, <3>1 DEF Fetched, Program, FixedAddresses
      <3>2. CASE SlotOf(ipc) \notin Slots
        BY <3>2, NoInstrType DEF Fetched, FixedAddress, NoInstr, Loads, Stores
      <3> QED
        BY <3>1, <3>2
    <2> QED
      BY <2>1, <2>2, FixedKeeps
  <1> QED
    BY <1>1, SingleStarts, SingleContinues, PTL DEF CosimSpec

\* If the reset is released first and the first instruction can be repeated, no
\* instruction differs from the simulator's (top_tb.sv:72-92): for every program that the
\* two understand alike, while its loads and stores stay in the data region.
THEOREM NoDifference ==
  ASSUME AluAgrees, SameLayout, GoodPrograms
  PROVE  CosimSpec /\ []WithinData => []NeverFatal
  <1>1. SingleInv => NeverFatal
    BY DEF SingleInv, NeverFatal
  <1> QED
    BY <1>1, SingleInvariant, PTL

\* Under the same conditions the program counters, all registers and all words of the
\* data region are the same once a checked instruction is written, though the
\* comparisons look at the registers an instruction names only.
THEOREM SameMachines ==
  ASSUME AluAgrees, SameLayout, GoodPrograms
  PROVE  CosimSpec /\ []WithinData => []LockStep
  <1>1. SingleInv => LockStep
    BY DEF SingleInv, Phase, Fresh, InData, LockStep
  <1> QED
    BY <1>1, SingleInvariant, PTL

-----------------------------------------------------------------------------
(* With the ALU of alu.v *)

\* With the ALU of alu.v and programs that name the addresses of their data, the agreement
\* rests on the programs alone, for words, memories and register files of any size.
THEOREM ShippedProcessorAgrees ==
  ASSUME AluWired, SameLayout, GoodPrograms, FixedAddresses
  PROVE  CosimSpec => [](NeverFatal /\ LockStep)
  <1>1. AluAgrees
    BY ShippedAluAgrees
  <1>2. CosimSpec => []WithinData
    BY <1>1, StaysInData
  <1>3. /\ CosimSpec /\ []WithinData => []NeverFatal
        /\ CosimSpec /\ []WithinData => []LockStep
    BY <1>1, NoDifference, SameMachines
  <1> QED
    BY <1>2, <1>3, PTL
=============================================================================
