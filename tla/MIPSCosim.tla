------------------------------- MODULE MIPSCosim -------------------------------
(***************************************************************************)
(* The self-checking testbench of the MIPS pipeline (top_tb.sv): when an    *)
(* instruction retires it runs the simulator for one instruction and        *)
(* compares the two.  It delays the fetched words and the decoded fields by *)
(* registers of its own, which know nothing of the pipeline's flushes.      *)
(***************************************************************************)
EXTENDS MIPSPipeline, MIPSIss

VARIABLES
  tb,           \* the testbench's registers, ISS to WB
  verdict       \* running; finish ($finish); fatal ($fatal); halted (the exit of
                \* run); crashed (a trap in the simulator)

cosimVars == <<vars, issVars, tb, verdict>>

TbStages == {"iss", "ex", "mem", "wb"}
TbNone == [pc |-> 0, instr |-> NoInstr, decoded |-> NoInstr]

CosimInit ==
  /\ Init
  /\ IssInit(prog, regs, DmemFill)
  /\ tb = [s \in TbStages |-> TbNone]
  /\ verdict = "running"

\* (mutant) the delay of a stage missing
TbShiftShort ==
  tb' = [iss |-> [pc |-> pc, instr |-> Imem(prog, pc), decoded |-> NoInstr],
         ex  |-> [tb["iss"] EXCEPT !.decoded = iss.instr],
         mem |-> tb["ex"],
         wb  |-> tb["ex"]]

\* pc and instr are delayed from fetch, the decoded fields from ISS
TbShift ==
  tb' = [iss |-> [pc |-> pc, instr |-> Imem(prog, pc), decoded |-> NoInstr],
         ex  |-> [tb["iss"] EXCEPT !.decoded = iss.instr],
         mem |-> tb["ex"],
         wb  |-> tb["mem"]]

Retired == IsValid(wb.instr)

\* The simulator has just executed, and the register file has been written at the
\* falling edge before
CompareOk == /\ prevPC = tb["wb"].pc
             /\ opcode' = tb["wb"].instr
             /\ Agree(tb["wb"].decoded, opcode', regs')

\* instr_wb is the word 0xc, and the register file holds the exit code
Finish == /\ tb["wb"].instr = [NoInstr EXCEPT !.op = "SYSCALL"]
          /\ regs'[V0] = ExitCode

Verdict(ok) == IF ~ok THEN "fatal" ELSE IF Finish THEN "finish" ELSE "running"

\* (mutants) RUN_BIT cleared by every SYSCALL; no $finish
RetireEverySyscall ==
  /\ Retired /\ runBit /\ ~Traps(Fetched)
  /\ ProcessInstruction
  /\ runBit' = (opcode'.op # "SYSCALL" /\ CompareOk)
  /\ prevPC' = IF CompareOk THEN ipc' ELSE prevPC
  /\ verdict' = Verdict(CompareOk)
RetireNeverFinishes ==
  /\ Retired /\ runBit /\ ~Traps(Fetched)
  /\ ProcessInstruction
  /\ runBit' = CompareOk
  /\ prevPC' = IF CompareOk THEN ipc' ELSE prevPC
  /\ verdict' = IF CompareOk THEN "running" ELSE "fatal"

\* An instruction retires
Retire ==
  /\ Retired
  /\ CASE ~runBit -> verdict' = "halted" /\ UNCHANGED issVars
       [] runBit /\ Traps(Fetched) -> verdict' = "crashed" /\ UNCHANGED issVars
       [] runBit /\ ~Traps(Fetched) ->
            /\ ProcessInstruction
            /\ runBit' = (CompareOk /\ ~Stops(opcode'))
            /\ prevPC' = IF CompareOk THEN ipc' ELSE prevPC
            /\ verdict' = Verdict(CompareOk)

NoRetire == ~Retired /\ UNCHANGED <<issVars, verdict>>

\* Every process of the testbench at one rising edge, with the pipeline's cycle
Clock ==
  /\ verdict = "running"
  /\ Run
  /\ TbShift
  /\ Retire \/ NoRetire

CosimSpec == CosimInit /\ [][Clock]_cosimVars /\ WF_cosimVars(Clock)

-----------------------------------------------------------------------------
(* Restrictions under which the agreement is proved *)

\* Programs for which the pipeline is right and whose instructions the simulator
\* understands as the pipeline does
GoodPrograms ==
  \A p \in Programs : Closed(p) /\ Spaced(p) /\ \A s \in Slots : Alike(p[s])

\* The program keeps its loads and stores in the data region
WithinData == verdict = "running" => KeepsToData
FixedAddresses == \A p \in Programs, s \in Slots : FixedAddress(p[s])

-----------------------------------------------------------------------------
(* Properties *)

\* No retired instruction differs from the simulator's, and the test goes on until
\* its SYSCALL: the assertions of top_tb.sv:171-187, for all the interleavings of
\* predictions, flushes and forwarding that separate the two.
NeverFatal == verdict \in {"running", "finish"}

\* Comparing the registers an instruction names is enough only if between any two
\* retirements every register of the two machines is the same (compare_r .. compare_j
\* look at no other register, and the link of a JALR is compared with its own rd).
LockStep == verdict = "running" => regs = iregs

\* The data memories are never compared.  They agree all the same, except for the
\* store that has left MEM and that the simulator will execute when it retires.
MemoryAgrees ==
  verdict = "running" =>
    \A a \in Word : DataIndex(a) \in DataIndexes =>
      dmem[DmemIndex(a)] = idata[DataIndex(a)] \/ MemWr(wb.instr)

\* $finish and the simulator's stop come together: the testbench looks for the exit code
\* in the pipeline's registers, the simulator in its own, and if one came before the other
\* the test would end without a verdict.
StopsTogether == (verdict = "finish") = (verdict # "fatal" /\ ~runBit)

\* A test that has come to its SYSCALL ends: predictions and flushes do not keep the
\* pipeline from retiring it, and the pipeline's register holds the exit code then.
Finishes ==
  runBit /\ Fetched.op = "SYSCALL" /\ iregs[V0] = ExitCode ~> verdict = "finish"
=============================================================================
