--------------------------- MODULE MIPSSingleCosim ---------------------------
(***************************************************************************)
(* The self-checking testbench of the single-cycle processor (top_tb.sv):   *)
(* it runs the simulator at every falling edge, while the processor's wires *)
(* show what the next rising edge will write.  The reset is released at the *)
(* time of a falling edge, and which of the two events comes first is up to *)
(* the simulator of the Verilog.                                            *)
(***************************************************************************)
EXTENDS MIPSSingleCycle, MIPSIss

CONSTANT ReleaseOrders   \* what may come first: "reset", "clock"

ASSUME ReleaseAssumption == ReleaseOrders \subseteq {"reset", "clock"} /\ ReleaseOrders # {}

VARIABLES
  first,    \* which of the two comes first
  reset,    \* reset_tb
  clk,      \* clk_tb
  verdict   \* running, finish, fatal, halted, crashed

tbVars == <<first, reset, clk, verdict>>
cosimVars == <<cpuVars, issVars, tbVars>>

CosimInit ==
  /\ CpuInit
  /\ IssInit(prog, regs, DmemFill)
  /\ first \in ReleaseOrders
  /\ reset = TRUE /\ clk = 0
  /\ verdict = "running"

\* The simulator has just executed; the values are those of the registers once the
\* pending write is done (rd_val_dest, rt_val_dest)
CompareOk == /\ prevPC = pc
             /\ opcode' = Instruction
             /\ Agree(Instruction, opcode', RegsWritten)

Finish == /\ Instruction = [NoInstr EXCEPT !.op = "SYSCALL"]
          /\ regs[V0] = ExitCode

\* (mutant) finished without a look at the exit code
CheckAnySyscall ==
  CASE ~runBit -> verdict' = "halted" /\ UNCHANGED issVars
    [] runBit /\ Traps(Fetched) -> verdict' = "crashed" /\ UNCHANGED issVars
    [] runBit /\ ~Traps(Fetched) ->
         /\ ProcessInstruction
         /\ runBit' = (CompareOk /\ ~Stops(opcode'))
         /\ prevPC' = IF CompareOk THEN ipc' ELSE prevPC
         /\ verdict' = IF ~CompareOk THEN "fatal"
                       ELSE IF Instruction.op = "SYSCALL" THEN "finish" ELSE "running"

\* The two blocks of a falling edge without reset
Check ==
  CASE ~runBit -> verdict' = "halted" /\ UNCHANGED issVars
    [] runBit /\ Traps(Fetched) -> verdict' = "crashed" /\ UNCHANGED issVars
    [] runBit /\ ~Traps(Fetched) ->
         /\ ProcessInstruction
         /\ runBit' = (CompareOk /\ ~Stops(opcode'))
         /\ prevPC' = IF CompareOk THEN ipc' ELSE prevPC
         /\ verdict' = IF ~CompareOk THEN "fatal" ELSE IF Finish THEN "finish" ELSE "running"

\* With the reset still up, only the test for the end is made
NoCheck == verdict' = (IF Finish THEN "finish" ELSE "running") /\ UNCHANGED issVars

Rise ==
  /\ verdict = "running" /\ clk = 0
  /\ clk' = 1
  /\ Posedge(reset)
  /\ UNCHANGED <<issVars, first, reset, verdict>>

Fall ==
  /\ verdict = "running" /\ clk = 1
  /\ clk' = 0 /\ reset' = FALSE
  /\ \/ ~reset /\ Check
     \/ reset /\ first = "reset" /\ Check
     \/ reset /\ first = "clock" /\ NoCheck
  /\ UNCHANGED <<cpuVars, first>>

Clock == Rise \/ Fall
CosimSpec == CosimInit /\ [][Clock]_cosimVars /\ WF_cosimVars(Clock)

-----------------------------------------------------------------------------
(* Restrictions under which the agreement holds *)

\* The edge under reset executes the first instruction once more than the simulator
\* does.  That changes nothing if it does not read the register it writes, be it the
\* result or the link.
Repeatable(i) == (RegWr(i) \/ UsesLink(i)) /\ Dest(i) # 0 =>
                   Dest(i) # Port1(i) /\ (AluSrc(i) = "port2" => Dest(i) # Port2(i))
Together == first = "reset" /\ Repeatable(Imem(prog, 0))

\* Control stays among the loaded words
Stays(p) ==
  /\ Imem(p, 0).op # "NONE"
  /\ \A a \in Word : Imem(p, a).op # "NONE" => \A b \in Succ(p, a) : Imem(p, b).op # "NONE"

\* Programs that the two understand alike, and that keep their loads and stores in the
\* data region
GoodPrograms == \A p \in Programs : Stays(p) /\ \A s \in Slots : Alike(p[s])
WithinData == Together /\ verdict = "running" => KeepsToData
FixedAddresses == \A p \in Programs, s \in Slots : FixedAddress(p[s])

\* The testbench looks for a SYSCALL without a code, the simulator for any
PlainSyscalls ==
  \A p \in Programs, s \in Slots :
    p[s].op = "SYSCALL" => p[s] = [NoInstr EXCEPT !.op = "SYSCALL"]
\* boot_code does not leave the exit code behind
NoExitAtBoot == \A r \in BootRegs : r[V0] # ExitCode

-----------------------------------------------------------------------------
(* Properties *)

\* If the reset is released first and the first instruction can be repeated, no
\* instruction differs from the simulator's: the assertions of top_tb.sv:72-92.
NeverFatal == Together => verdict \in {"running", "finish"}

\* Once an instruction that was checked is written, every register of the two
\* machines is the same, and every word of the data segment: the comparisons look
\* at the registers an instruction names and at no memory.
LockStep ==
  Together /\ clk = 1 /\ ~reset =>
    /\ regs = iregs
    /\ pc = ipc
    /\ \A a \in Word : DataIndex(a) \in DataIndexes =>
         dmem[DmemIndex(a)] = idata[DataIndex(a)]

\* Whatever else the two disagree about, and in either order, $finish and the simulator's
\* stop come together, so that no test ends with the exit of run, which reports nothing.
StopsTogether == (verdict = "finish") = (verdict # "fatal" /\ ~runBit)
=============================================================================
