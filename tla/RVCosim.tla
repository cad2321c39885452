------------------------------- MODULE RVCosim -------------------------------
(***************************************************************************)
(* The self-checking testbench of the RISC-V pipeline (top_tb.sv): when an *)
(* instruction retires it runs the simulator for one instruction and       *)
(* compares the two.  The pipeline does not carry an instruction's address *)
(* to write-back, so the testbench delays fetched words by registers of    *)
(* its own.                                                                *)
(***************************************************************************)
EXTENDS RVPipeline, RVIss

CONSTANT FinishCount    \* retirements after which the testbench stops: 200

VARIABLES
  tb,           \* the testbench's registers, ISS to WB
  instrCount,   \* instr_count
  verdict       \* running, finish ($finish), fatal ($fatal), halted (exit in run)

tbVars == <<tb, instrCount, verdict>>
cosimVars == <<vars, issVars, tbVars>>

TbStages == {"iss", "ex", "mem", "wb"}
TbNone == [pc |-> 0, instr |-> NoInstr, decoded |-> NoInstr]

CosimInit ==
  /\ Init
  /\ IssInit(prog, regs, DmemFill)
  /\ tb = [s \in TbStages |-> TbNone]
  /\ instrCount = 0
  /\ verdict = "running"

\* pc and instr are delayed from fetch, the decoded fields only from ISS
\* (mutant) the delay of a stage missing
TbShiftShort ==
  tb' = [iss |-> [pc |-> pc, instr |-> Imem(prog, pc), decoded |-> NoInstr],
         ex  |-> [tb["iss"] EXCEPT !.decoded = iss.instr],
         mem |-> tb["ex"],
         wb  |-> tb["ex"]]

TbShift ==
  tb' = [iss |-> [pc |-> pc, instr |-> Imem(prog, pc), decoded |-> NoInstr],
         ex  |-> [tb["iss"] EXCEPT !.decoded = iss.instr],
         mem |-> tb["ex"],
         wb  |-> tb["mem"]]

\* The compare function: the simulator has just executed, the register file has
\* been written at the falling edge
CompareOk ==
  LET r == tb["wb"]
  IN  /\ prevPC = r.pc
      /\ opcode' = r.instr
      /\ IsValid(r.decoded)
      /\ \A f \in ComparedFields(r.decoded) :
           /\ r.decoded[f] = opcode'[f]
           /\ regs'[r.decoded[f]] = iregs'[opcode'[f]]

RetireVerdict(ok, count) ==
  IF ~ok THEN "fatal" ELSE IF count = FinishCount THEN "finish" ELSE "running"

\* (mutant) retirements are not counted
RetireUncounted ==
  /\ wb.valid /\ runBit
  /\ UNCHANGED instrCount
  /\ ProcessInstruction
  /\ runBit' = (IsValid(opcode') /\ CompareOk)
  /\ prevPC' = IF CompareOk THEN ipc' ELSE prevPC
  /\ verdict' = RetireVerdict(CompareOk, instrCount')

\* An instruction retires
Retire ==
  /\ wb.valid
  /\ instrCount' = instrCount + 1
  /\ IF ~runBit
       THEN /\ verdict' = "halted"
            /\ UNCHANGED issVars
       ELSE /\ ProcessInstruction
            /\ runBit' = (IsValid(opcode') /\ CompareOk)
            /\ prevPC' = IF CompareOk THEN ipc' ELSE prevPC
            /\ verdict' = RetireVerdict(CompareOk, instrCount')

NoRetire == ~wb.valid /\ UNCHANGED <<issVars, instrCount, verdict>>

\* Every process of the testbench at one rising edge, with the pipeline's cycle
Clock ==
  /\ verdict = "running"
  /\ Run
  /\ TbShift
  /\ Retire \/ NoRetire

CosimSpec == CosimInit /\ [][Clock]_cosimVars /\ WF_cosimVars(Clock)

-----------------------------------------------------------------------------
(* When the two machines can agree: restrictions under which it is proved *)

\* The ALU computes what sim.c computes for register operands, and its flags say of a
\* branch what sim.c says: AluMatchesIss and BranchesMatchIss of MCAlu
AluAgrees ==
  \A a, b \in Word :
    /\ \A op \in RTypes : AluRes(AluFn([op |-> op]), a, b) = RValue(op, a, b)
    /\ \A op \in BTypes :
         LET fn == AluFn([op |-> op])
         IN  BranchCond(op, AluZ(fn, a, b), AluN(fn, a, b)) = BCond(op, a, b)

\* The instructions that sim.c and the pipeline execute alike: not the shifts by an
\* immediate and ANDI, which sim.c does not advance over, not JALR, which only sim.c
\* takes for a jump, nor the loads and stores of bytes and half words and the stores
\* with a negative offset
Alike(i) == /\ i.op \notin {"SLLI", "SRLI", "SRAI", "ANDI", "JALR"}
            /\ i.op \notin (Loads \ {"LW"}) \cup {"SB", "SH"}
            /\ i.op = "SW" => 2 * i.imm < Imm12Size

\* NoLinkUse holds of them too, since they have no JALR
GoodPrograms ==
  \A p \in Programs : /\ Closed(p) /\ BranchSpacing(p) /\ NoLoadUseRs2(p)
                      /\ \A s \in Slots : Alike(p[s])

\* The program keeps its loads and stores in the data region, and stores the address it
\* stores at: the simulator takes the two registers of a store in the other order.
\* Said of the instruction the simulator executes next.
WithinData ==
  LET i == Fetched
      a == (iregs[i.rs1] + SignExtend(i.imm, Imm12Size)) % WordSize
  IN  verdict = "running" /\ (IsLoad(i) \/ MemWr(i)) =>
        /\ DmemIndex(a) \in DataWords
        /\ MemWr(i) => iregs[i.rs2] = iregs[i.rs1]

\* Enough for that: no instruction writes the register of an address, and a store has
\* its address and its data from one register
NeverWritten(p, r) == r = 0 \/ \A s \in Slots : RfEn(p[s]) => p[s].rd # r
FixedAddresses ==
  \A p \in Programs, s \in Slots, boot \in BootRegs :
    LET i == p[s]
        a == (boot[i.rs1] + SignExtend(i.imm, Imm12Size)) % WordSize
    IN  IsLoad(i) \/ MemWr(i) => /\ NeverWritten(p, i.rs1) /\ DmemIndex(a) \in DataWords
                                 /\ MemWr(i) => i.rs2 = i.rs1

-----------------------------------------------------------------------------
(* Properties *)

\* No retired instruction differs from the simulator's: the assertion of
\* top_tb.sv:203-233, for all the interleavings of predictions, flushes and
\* forwarding that separate the two.
NeverFatal == verdict \notin {"fatal", "halted"}

\* The comparisons sample a few registers; that is enough only if between any two
\* of them every register of the two machines is the same (compare_r .. compare_j
\* look at no register the instruction does not name).
LockStep == verdict = "running" => regs = iregs

\* The data memories are never compared.  They agree all the same, except for the
\* store that has left MEM and that the simulator will execute when it retires.
MemoryAgrees ==
  verdict = "running" =>
    \A w \in DataWords : dmem[w] = idata[w] \/ (wb.valid /\ tb["wb"].decoded.op \in STypes)

\* Every test comes to its end: some instruction keeps retiring until $finish.
Finishes == <>(verdict = "finish")
=============================================================================
