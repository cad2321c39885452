# SimpleCPU: models, checks and proofs

TLA+ models of the processors, the simulators and the test generators of this
repository, the TLC runs that check them and the theorems TLAPS proves about them.
Both instruction sets are covered: pipeline, testbench and simulator of each, the
single-cycle MIPS processor, the two test generators and the regression script.

## 1. Inventory

| Component | State | Operations | Hard behaviour |
|---|---|---|---|
| RISC-V pipeline (`risc-v/riscv-pipeline/verilog`) | pc; registers ISS, EX, MEM, WB; register file; data memory | one clock cycle; reset | forwarding, flushes, jumps resolved in ISS and branches in EX, two falling-edge processes of `regfile.v` |
| Branch predictor (`one_level_bpred.v`, `two_bit_sat_counter.v`) | counters, target buffer | predict at fetch, feedback from EX | untagged, aliased, never reset |
| ALU and adder (`alu.v` ... `reduced_full_adder.v`) | none | add, compare, shift | carries, signed overflow |
| RISC-V testbench (`testbench/`) | delayed pc, word and decoded fields; `instr_count` | sample at each rising edge; at a retirement run the simulator and compare | its delays run beside flushes it does not see; compares a few registers |
| RISC-V simulator (`risc-v/iss/src`) | `CURRENT_STATE`, memory regions, `RUN_BIT`, `prev_pc` | `process_instruction`, `compare_*`, memory reads and writes | reports errors only by stopping |
| RISC-V hex generator (`risc-v/hex_gen/src`) | used slots, the file's words, `prev_pc`, a simulator state | one `gen_*_instr` per format with address checks and retries; `make_room` | must place every instruction on a free slot although the simulator decides which; memory fills up |
| MIPS pipeline (`mips/mips-pipeline/verilog`) | as the RISC-V one | clock cycle, reset | the same predictor; links of branches; its own forwarding |
| MIPS testbench (`testbench/`) | as the RISC-V one | as the RISC-V one; ends at a SYSCALL | two tests for the end, one in each machine |
| MIPS simulator (`mips/iss/src`) | `CURRENT_STATE` with HI and LO, memory regions, `RUN_BIT` | `process_instruction`, `compare_*` | every instruction of the README, some of them differently from the manual |
| MIPS single-cycle (`mips/mips-single-cycle`) | pc, registers, memory | rising edge; its testbench checks at the falling edge | reset is released at the time of an edge |
| MIPS hex generator (`mips/hex_gen/src`) | as the RISC-V one, `err_count` | random mixture; one function per instruction for directed tests; end sequence | operands are loaded by instructions of their own; errors are reported and not prevented |
| `regressionManager.py`, `run.pl` | one log file, one work library | start tests in the background, wait, parse | a fixed sleep against unfinished tests; a library each test rebuilds |
| Two textbook processors | pc, registers, memory, pipeline registers | clock cycle | the pipeline stalls |
| `riscv-tests`, `references`, `hex_gen/tests` | data | none | none |

How they interact. The hex generator writes a program. `init_imem`, `init_dmem` and
`boot_code` load it and clear the registers and the predictor. The testbench pulses
reset, then drives the clock. At every rising edge at which the pipeline retires an
instruction the testbench calls the simulator through DPI (`run(1)`), which
executes one instruction, then a compare function, which is given what the
testbench has delayed from fetch and what the register file holds. A failed
comparison is `$fatal`; 200 retirements are `$finish`, and on the MIPS side a SYSCALL
with 10 in register 2. Pipeline and simulator share nothing but the program. The
generators link the same simulator: they execute each instruction as soon as they
have made it, and place the next where the simulator's pc is then. The regression
manager starts one `run.pl` per test, and each builds and runs the single-cycle
testbench.

What makes each part correct:

- pipeline: it does what a machine that executes one instruction at a time does;
  every operand is current; no prediction changes what is executed; it never
  stops retiring;
- predictor: a target it names was left there by a branch of the program;
- ALU and adder: they add, and they agree with the other account of the
  instruction set that the repository has, the simulator's C;
- testbench: a comparison fails only for a difference, and what it does not
  compare (other registers, memory) does not differ either;
- generators: a generated program stays inside its memory and overwrites nothing; the
  file is the program that was executed, it has what was asked for, and generation ends;
- regression: what it says of a test is true of that test.

## 2. Modules

| Module | Models | Uses |
|---|---|---|
| `RVIsa` | `decode.v`, `control.v`, the sign extenders, the two memories' addressing, `branch_taken_ex` | |
| `BranchPredictor` | `one_level_bpred.v`, `two_bit_sat_counter.v` | |
| `Binary` | words in binary: shifts by powers of two, bit `k` of a number | |
| `RVAlu` | `alu.v`, `shifter.v`, `logical.v`, `comparator.v` | `Binary` |
| `RVAdder` | `adder.v` and its gates | `Binary` |
| `RVSequential` | nothing: it is the promise of the pipeline | `RVIsa` |
| `RVPipeline` | `top.v`, `hazard_unit.v`, the pipeline registers, `regfile.v`, reset | `RVIsa`, instances of `BranchPredictor` and `RVSequential` |
| `RVPipelineInv` | the inductive invariants | `RVPipeline` |
| `RVIssValues`, `RVIss` | `sim.c` and the memory and start-up of `main.c` | `RVIsa`, `Binary` |
| `RVArithmetic` | nothing of its own: one pair of operands after the other, given to the gates, the ALU and `sim.c` | `RVIssValues`, instances of `RVAdder` and `RVAlu` |
| `RVCosim` | `top_tb.sv`, composing the pipeline and the simulator | `RVPipeline`, `RVIss` |
| `MIPSIsa`, `MIPSAlu` | `decode.v`, `control.v`, `alu.v`, the memories' addressing, `branch_taken_ex` of both MIPS designs | |
| `MIPSSequential` | nothing: the promise of the MIPS pipeline | `MIPSIsa` |
| `MIPSPipeline` | `top.v`, `hazard_unit.v`, the pipeline registers, `regfile.v`, reset | `MIPSIsa`, instances of `BranchPredictor` and `MIPSSequential` |
| `MIPSPipelineInv` | the inductive invariants | `MIPSPipeline` |
| `MIPSIss` | `sim.c`, memory and start-up of `main.c` | `MIPSIsa`, `Binary`, an instance of `MIPSAlu` |
| `MIPSCosim` | `mips-pipeline/testbench/top_tb.sv`, composing pipeline and simulator | `MIPSPipeline`, `MIPSIss` |
| `MIPSSingleCycle`, `MIPSSingleCosim` | `mips-single-cycle/verilog/top.v`, and its testbench with the simulator | `MIPSIsa`, `MIPSIss` |
| `SlotPath` | nothing: what both generators promise, a path through free slots | |
| `RVHexGen` | `risc-v/hex_gen/src` | an instance of `SlotPath` |
| `MIPSHexGen` | `mips/hex_gen/src`, random mixture and directed interface | an instance of `SlotPath` |
| `Regression` | `regressionManager.py`, `run.pl` | |
| `RVAlu_proofs` | theorems about adder and ALU | `RVArithmetic`, TLAPS |
| `RVCosim_proofs` | theorems about the RISC-V pipeline and its testbench | `RVCosim`, `RVPipelineInv`, `RVAlu_proofs` |
| `MIPSIsa_proofs` | lemmas about `MIPSIsa` and `MIPSIss`, the two accounts of the MIPS instructions; the theorem about the ALU | `MIPSIss`, TLAPS |
| `MIPSCosim_proofs` | theorems about the MIPS pipeline and its testbench | `MIPSCosim`, `MIPSPipelineInv`, `MIPSIsa_proofs` |
| `MIPSSingleCosim_proofs` | theorems | `MIPSSingleCosim`, `MIPSIsa_proofs` |
| `RVHexGen_proofs`, `MIPSHexGen_proofs`, `Regression_proofs` | theorems | the module of that name, TLAPS |
| `MCAssembler`, `MCPipeline`, `MCCosim`, `MCAlu`, `MCRVHexGen`, `MCMIPSAssembler`, `MCMIPSPipeline`, `MCMIPSCosim`, `MCMIPSSingle`, `MCMIPSHexGen`, `MCRegression` | instances for TLC | |

**The clock.** A state of `RVPipeline` is what the registers hold right after a
rising edge. The operators between the registers (`P1`, `BranchTaken`, `FlushIss`,
`NextPC`, ...) are the wires of `top.v` under the same or a near name. `Cycle` is
the clock cycle up to the next rising edge: the register file's falling edge, then
all registers at once. The two blocks of `regfile.v` write and read with blocking
assignments at the same edge. Verilog gives them no order, so `Cycle` takes the order
as a parameter and `NegedgeOrders` says which orders a run allows.

**Reset.** `Init` is the state after the testbench's first reset. `Reset` is a
later pulse that lasts over a rising edge, at any time. The fetch, ISS, MEM and WB
registers are cleared as soon as it rises, ISS_EX_REG at the edge. Therefore
the feedback of a branch in EX still reaches the predictor, a store in MEM is lost,
and the result in WB has been written or not, depending on whether the pulse rose
after the falling edge. The register file, the memory and the predictor are not
reset.

**Instructions** are records of their fields, with an operation name in place of
`opcode/funct3/funct7`. Each format has all register fields, because `decode.v`
slices those bits whatever the format is, and forwarding looks at them. A word of
no known type is `NoInstr`, and so is one of opcode 67, the standard's JALR
(`decode.v:80-81`). JALR is the word that this repository makes of it (`hex_gen.c:210`),
of the opcode of the loads with `funct3` 7. In the pipeline that is an I type which writes its link but
neither jumps nor flushes (`top.v:305`), and which forwarding takes for a load (`:438`, `IsLw`).
ANDI is in the set without its row: control.v never selects it (section 5), so it writes nothing. Encodings with
a known opcode and an undefined `funct` are left out. The control table is a set of operators
over the operation, not the 17-bit words.

**ISS_EX_REG** holds what `decode.v` and `control.v` compute of an instruction. The
model keeps the instruction and computes it again from there: nothing
is lost, and the register is a record of nine fields.

**Widths** are constants (`WordSize`, `Imm12Size`, ...), wrap-around included. So a
run takes words of a few bits and a theorem speaks of all widths at once. The ALU
is three constant operators, of which the modules only assume that they return a
word and two flags; the runs put `RVAlu` or `MIPSAlu` in their place, and the theorems named
`Shipped...` suppose just that (`AluWired`). The simulators' `&`, `|` and `^` are constants in the same way;
of `|` it is assumed that it works bit by bit (`OrAssumption`): `shifter.v` fills in signs with it.

**The data memory** of the model has a word at every address; the RTL array has
0x2000 words and an access beyond it is undefined. The instruction memory has
`TextSlots` words; outside it the model reads `NoInstr`.

**The simulator.** One `ProcessInstruction` is one `run(1)`. `CURRENT_STATE` and
`NEXT_STATE` are equal between two calls and are one state in the model. Its address
space is the RTL's with the data below the text; the stack and kernel regions, which
no address of a run reaches, are absent. Its oddities are modelled: shifts by an
immediate and ANDI have no case that is reached, stores take their address from rs2, two of them extend no sign, a half-word load
extends its sign with the immediate's mask.

**The testbench.** `Clock` is one rising edge of all its processes with the cycle of
the pipeline. Nothing resets its delay registers and neither does the model. The
comparisons read the register file the falling edge has written.

**The MIPS pipeline** is modelled like the other. What differs in the code differs in the
model: an instruction's destination and the registers of its two ports depend on its
format; reset clears every pipeline register at once; a NOP has no type but
writes register 0; the link register is written through `use_link_reg` and not
`reg_wr`, by branches too; SYSCALL, HI and LO do nothing in the pipeline.
`MIPSIsa` serves the single-cycle processor too. The lines in which their
`decode.v`, `control.v`, `alu.v` and memories differ: a word of zeros has no type in the
pipeline (`decode.v:62`); the row for opcodes of no instruction (`control.v:135`), which no
program has; `z_alu` is of the adder's output there and of the result here (`alu.v:31`), which is
the same for every row of a branch; the data segment begins at 0x2000 there and at
0x1000 here (`data_mem.v:13`), a constant. `MIPSSingleCycle` redefines the first.

**The MIPS simulator** has all of its instructions in `MIPSIss`, HI and LO, signed and
unsigned multiplication and division as C does them, the early return of R-types whose
`rd` is 0, SYSCALL. In the single-cycle testbench one state is one clock edge, and
`ReleaseOrders` says which of the two simultaneous events, release and falling edge,
may come first.

**The generators.** What an instruction computes and whether a branch is taken is
chosen; which addresses the checks let through is not. So a run covers every
program a mixture can become. A state of `RVHexGen` is the moment before the next
draw or the next check of a draw (`pending`), so that the `goto` loops are steps. `used` and
`instr` are `PC[]` and the file, `text` the simulator's memory. `MIPSHexGen` adds the
directed interface: `Call` is one call of a user's test; the loads of its operands and
the instruction wait in `queue`, with `make_room` before each of them; and the end
sequence. `asked` is the list of the calls, which the code has as the text of the user's test;
`Call` is bounded by its length (`MaxCalls`) and the properties read it. Tables indexed outside their bounds are the status `wild`, where nothing more is
said; the entry read one behind `PC[]` is either value.

**The regression.** Each test is its own process with the commands of its `run.pl` from
the removal of the library on. The manager's sleep ends at any moment, which
is what a fixed time amounts to against tools of unknown speed. The tools are external:
`vlib` makes an empty library, `vlog` fills it if it is there, `vsim` starts if
it is compiled.

## 3. Restrictions on programs

Some properties hold only of programs that avoid what the code gets wrong. The
restrictions are static predicates on a program, at the end of `RVPipeline`:

- `Closed`: control begins at a loaded word and does not leave the loaded words;
- `BranchSpacing`: no branch is the second successor of a branch unless a jump lies
  between (finding `shadow`);
- `NoLoadUseRs2`: an instruction does not take through rs2 what the instruction
  before it loads (finding `loaduse`);
- `NoLinkUse`: an instruction does not take the link that the JALR word before it writes.

For the MIPS pipeline they are `Closed`, and `Spaced`, which is `BranchSpacing` and

- `LoadsSpaced`: what comes from memory is no operand of the next instruction, except a
  word that LW brings to the first port (`top.v:315-321`: the second port has no arm for
  `read_data_dmem_ram`);
- `LinksSpaced`: the link of a JALR is not used by the next instruction, that of a branch
  not by the next two (`hazard_unit.v:40-49` does not look at `use_link_reg`).

The single-cycle properties say in `Together` that the reset is released before the clock
falls and that the first instruction can be repeated, because it takes effect twice. That
is `Repeatable`: what it writes, a link included, is not what it reads.
The RISC-V generator's run draws jumps whose target is checked rightly (an offset whose
double is checked in place of it falls on a free slot, too); `RVHexGen_proofs` excludes drawn jumps and
branches to themselves. The programs of the runs that compare a pipeline with a simulator
have no instruction on which the two differ (section 5).

A property that is right without a restriction does not assume it: `OperandsForwarded`,
`LinkShadow`, `BtbTrained`, `Progress`, `StopsTogether` hold of every closed program.

## 4. Runs

All runs of the RISC-V pipeline have words of 5 bits, four program slots in the upper
half of the addresses, three registers (x0 and two that can collide) and eight
predictor entries, so that addresses 16 apart share an entry with a byte of
the data segment and no two program slots do. The MIPS runs have the same words,
three registers of which register 2 is the link register, and the text below the data. Runs start from
the cleared and the preloaded register file.

| Run | Question and properties | Instances | Result |
|---|---|---|---|
| `pipeline_spaced` | do prediction, flushes and jumps preserve the program, and does every instruction compute with current operands? `TypeOK` `BtbTrained` `OperandsCurrent` `ControlFlow` `ImplementsSequential` | closed, spaced, no load use through rs2, no link use; of six control instructions or ten data ones | pass, 151,996 states |
| `pipeline_any` | what holds of all closed programs? `LinkShadow` `OperandsForwarded` `Progress` | closed, of nine mixed instructions | pass, 89,114 |
| `loaduse` | are operands current without `NoLoadUseRs2`? `OperandsCurrent` | closed, spaced, no link use | violation |
| `shadow` | is control flow right without `BranchSpacing`? `ControlFlow` | closed | violation |
| `cosim_agree` | do pipeline and simulator agree, and does a test end? `NeverFatal` `LockStep` `MemoryAgrees` `Finishes` | the restrictions of `pipeline_spaced`, stores with equal registers and positive offsets, of twelve instructions | pass, 46,937 |
| `alu` | do the gates add; does the ALU agree with `sim.c`? `AdderAdds` `AluMatchesIss` `BranchesMatchIss` | `OperandsSpec` of `RVArithmetic`: every pair of 8-bit operands and carry, one after the other | pass, 131,072 |
| `mips_any` | the MIPS pipeline under resets: what forwarding misses, exactly; control flow and operands where the spacings hold; does it go on? `BtbTrained` `OperandsCurrent` `OperandsForwarded` `ControlFlow` `Progress` | closed, of eight mixed instructions; closed and spaced, of three further menus | pass, 233,713 |
| `mips_agree` | do MIPS pipeline and simulator agree, does the pipeline refine the sequential machine, and does a test that comes to its SYSCALL end, in both at once? `NeverFatal` `LockStep` `MemoryAgrees` `StopsTogether` `ImplementsSequential` `Finishes` | closed and spaced, of twelve instructions | pass, 54,672 |
| `single_agree` | do single-cycle processor and simulator agree? `NeverFatal` `LockStep` `StopsTogether` | of sixteen instructions, either order of release and edge | pass, 184,723 |
| `rvgen_all` | does the RISC-V generator deliver what was asked for, as the program it executed, along one path, and when does it end? `MixDelivered` `FileIsText` `GeneratesPath` `Ends` | mixtures of up to three of any kind, and six branches that fill the memory | pass, 80,954 |
| `mipsgen_all` | the same of the MIPS generator with its directed interface: `LandsOnNoInstruction` `MixDelivered` `OperandsSet` `Ends` | mixtures of at most one instruction, two directed calls of any kind with good, bad or unchecked arguments, the end sequence | pass, 178,842 |
| `regression_all` | does a regression end, and what can its count miss? `CountsTheEnded` `SomeTestRuns` `Ends` | three tests, in every interleaving | pass, 11,932 |

**Why the bounds are enough.** Five stages hold at most five instructions, of which
four can interact (two writers, a reader, a fetch behind it). Four slots with
loops give every sequence of four instructions of a menu, and a loop lets the
predictor learn and then mispredict. Three registers give equal and different
sources and destinations, x0 included. The menus pair each kind of producer (ALU, load, link, upper) with each kind of
consumer. The adder has 32 bits in eight equal blocks; two blocks have
every case of a block and of a boundary between blocks. Words of 5 bits wrap around,
and instruction addresses overflow into the data segment. `FinishCount` is 20, not
200: by then each four-slot loop has gone round several times with a trained
predictor. The generators' memories have a handful of slots, of which the last is the margin that
the checks keep free: make_room needs two free slots and one that is taken, a
branch needs a target on either side, and the runs reach every exit (done, no room, outside, halted,
crashed). Mixtures of two or three instructions, and two calls with the loads of their operands, put a jump of
`make_room` before, between and behind them; of two calls the second meets what the first left. Three tests are the fewest in which one takes the library from
a second while a third keeps it.

`ImplementsSequential` is a refinement: `RVSequential` is instantiated with the
state that the pipeline would hold if it drained (`ArchPC`, `ArchRegs`,
`ArchDmem`). An instruction takes its effect in the abstract machine at the edge that
takes it out of EX. A cycle without one is a stutter; a reset is `Restart`.

**Fairness.** `WF_vars(Run)`: the testbench's clock is an `always` loop that never
stops. Nothing is assumed of resets, so `Progress` allows for endless ones.
`WF(Clock)` in `RVCosim` is the same clock; it stops at `$finish` and `$fatal`,
and so those runs do not check for deadlock. The generators are sequential programs
(`WF(Next)`). Their draws come from `rand`, so strong fairness on each redraw whose
outcome can pass the check says that the loop does not draw only refused
values for ever; a check that nothing can pass would still refute `Ends`. In
`Regression` each test and the manager have weak fairness of their own: they are processes of
the operating system.

## 5. Findings

Two are runs that TLC finds violated, with the line they contradict.

1. `loaduse` (`top.v:386`): the second operand has no path from a load in MEM.
   `hazard_unit.v:50-52` says all forwarding paths exist and no stall is needed.
2. `shadow` (`top.v:193`): a prediction suppressed while a branch is in EX
   stays with the fetched instruction. If that is a branch and is taken, it is judged
   to be correctly predicted, and fetch goes on with its sequential successor.

What else was met while modelling is in the models as the code has it. Where it touches a
property, a condition of the property or the choice of a run's programs leaves it out,
which is said here. These are observations, without a run of their own.

- RISC-V pipeline: with the reads before the write at the falling edge
  (`regfile.v:26-34`, two `always` blocks) an operand is stale: the runs and
  `ForwardingCorrect` take the write first (`NegedgeOrders`). A not taken branch predicted not
  taken is fed back as mispredicted (`top.v:406` against `two_bit_sat_counter.v:19-21`), which costs
  predictions only. SRAI is coded as SRLI (`riscv_instr_defines.v:27`). Byte and half-word
  accesses move whole words (`top.v:469`). ANDI is `6'h1c` (`riscv_instr_defines.v:21`), and the code
  that `control.v:51` forms has five bits and for ANDI is `5'h17`: its row (`:108`) is never selected, and
  by the default row (`:117`) the instruction writes nothing. The JALR word has its row (`:116`) and no jump:
  `jalr_iss_ex` (`top.v:305`) looks for opcode bits no I type has. So nothing behind it is flushed, and
  its link is missed by forwarding while it is in MEM: `OperandsForwarded` and `LinkShadow` except exactly this, and
  `NoLinkUse` excludes it.
- RISC-V simulator: a store takes its base and data from each other's registers
  (`sim.c:485`) and SH and SW do not extend the sign of a negative offset (`:482`), so `cosim_agree`
  has stores with equal registers and positive offsets; SLLI, SRLI and SRAI have no case (`:219`), and
  that of ANDI (`:273`) is beyond every `funct` that `:217` computes: on these its pc stays. The JALR word is executed
  as a jump (`:321`), which the pipeline does not make. `cosim_agree` has none of them.
- MIPS pipeline: findings 1 and 2 again, and the links of branches, are the spacings of section 3. A word
  of zeros does not retire (`decode.v:62`); LUI, JALR, SLLV and the byte loads have another
  instruction's control row (`control.v:81, 111, 121, 77`). `mips_agree` has none of them.
- MIPS simulator: JR and the moves leave early because their `rd` is 0 (`sim.c:42`) and SRA shifts in
  zeros (`:80`); the processors do the same, so no test fails.
- Single-cycle testbench: the first instruction takes effect twice (`regfile.v:26`), and the release of
  the reset falls on a clock edge (`top_tb.sv:57`): `Together`.
- RISC-V generator (`hex_gen.c`): the target checked for JAL and JALR is not the one jumped to (`:67`,
  `:70`); a taken branch to itself is accepted and then replaced (`:47`); the test for the end of
  the memory cannot hold (`:643`); a jump of make_room may take the second slot of its own pair
  (`:652`), the exception in `LandsOnNoInstruction`; the address of a store is checked with a sign that
  the simulator does not extend (`:332`); a drawn ANDI becomes the word of XORI, because opcode and `funct3` are
  taken from `0x1c` by three bits and one (`:210`).
- MIPS generator (`hex_gen.c`): the end sequence updates the file before it executes (`:353`), so its
  properties speak of the time before it; a directed branch to itself passes its check, because its slot is
  still free then, and is replaced (`:50`), as is a JR to itself by the next call: with the stores of
  bytes and half words, which have no check, they are `Unchecked`; in the middle of the memory a jump of make_room may go to
  its own slot, the second exception in `LandsOnNoInstruction`; two entries are drawn from a table of one (`:283`), and
  the end of the memory is tested for at its middle (`:327`), after which the status is
  `wild`; printed errors are not counted (`:214`), hence `NothingUnchecked`; a negative operand
  passes the check for 16 bits and lands in another register (`hex_gen_instr_api.c:1058`), which `OperandsSet` leaves out.
- Regression: the log is read after a fixed sleep (`regressionManager.py:70`), a
  failure is given to the last test named (`:61`), and a test can lose its library to
  another (`run.pl:88`). `CountsTheEnded` says what is left: the count misses only failures of tests that had not ended
  when the reading began or were never simulated. Of the name printed with a failure nothing can be said.

## 6. Proofs

*RISC-V pipeline.* For all values of the constants that satisfy `WordAssumption`, `AluAssumption` and
`PipelineAssumption`:

| Theorem | States | Further assumptions |
|---|---|---|
| `TypeCorrect` | `[]TypeOK` | none |
| `PredictorTrained` | `[]BtbTrained` | none |
| `LinkShadowed` | `[]LinkShadow` (of JAL) | none |
| `ForwardingCorrect` | `[]OperandsForwarded` | the write comes first at the falling edge |
| `ControlFlowCorrect` | `ControlFlow` | all programs `Closed` with `BranchSpacing` |
| `OperandsCorrect` | `[]OperandsCurrent` | the two above, and all programs with `NoLoadUseRs2` and `NoLinkUse` |
| `PipelineRefines` | `ImplementsSequential` | the same |

*Types.* `TypeOK` is inductive. The wires get typing lemmas of their own, and each
register of `Cycle` is one step of the proof.

*Predictor.* A counter first moves on a misprediction (from 0 only the feedback of
"incorrect" moves it), which writes the target. The step needs to know that
the branch in EX is a branch of the program with its own target, which is
`FetchInv`, itself inductive with `TypeOK`.

*Forwarding.* `OperandsForwarded` is not inductive: that `P1` is what the drained
register file would hold depends on ISS_EX_REG having read the file after
the write of the same cycle, on MEM's control bits being those of one instruction
(what writes a register and not its pc + 4 has `isLw` exactly when the memory is selected), on x0 staying 0, and on a
JAL in MEM having nobody behind it. `ForwardInv` says these five things. The last goes back
two cycles, to the flush of the jump's shadow, hence its first conjunct. With the
reads first, `ex.p1 = regs[rs1]` is false. `LinkShadow` needs only that flush: its
invariant, `ShadowInv`, is about the two places behind a jump and is inductive in either order. Its condition
`~mem.isLw` sets JALR apart, which has no such shadow and is the second case that `OperandsForwarded` leaves open.

*Control flow.* `ControlFlow` needs to know what is in ISS and in fetch when an
instruction leaves EX. `BehindEx` says that what stands behind it is what its
prediction asked for, so that either the prediction was right or the
flush removes it. `BehindIss` says so one stage earlier, and has to exclude the
predictions that `NextPC` ignores while a branch is in EX: `BranchSpacing` is used
there and nowhere else. `Bubbles` says that an empty slot predicts nothing.
The step is proved for the four cases of `NextPC`.

*Refinement.* `RefineInv` joins the two invariants with `NoMissInv`, which closes
the cases that `OperandsForwarded` leaves open: what stands behind a load or a JALR in EX is its
successor on the right path (`RightPath`), so that `NoLoadUseRs2` and `NoLinkUse` speak of it. It
gives `OperandsCorrect` at once. A step then has three cases. A cycle with an instruction in EX is
`Execute`: `CurrentResult` says that the ALU and the branch condition see what the
sequential machine sees, `DrainedRegs` and `DrainedMem` that the older
instructions leave exactly the old architectural state, and the pc comes from the
control flow lemma. A cycle without one is a stutter. A reset is `Restart`, since
an empty pipeline's architectural state is its register file and memory.
`SameIsa` and `SameControl` say that the instruction set is the same on both sides
of the `INSTANCE`. So the restrictions of section 3 are not only what the runs
happen to assume: under them the refinement holds for every program, and
findings 1 and 2 show how it fails without `NoLoadUseRs2` and without `BranchSpacing`.

*ALU and adder.* `RVAlu_proofs` is about words of any number of bits, from `WordAssumption`, `WidthAssumption`
(a word has `WordBits` bits), `OrAssumption` and, for the gates only, `BlockAssumption` (whole blocks of four):

| Theorem | States |
|---|---|
| `AdderCorrect` | `OperandsSpec => []AdderAdds` |
| `AluCorrect` | `OperandsSpec => []AluMatchesIss` |
| `BranchesCorrect` | `OperandsSpec => []BranchesMatchIss` |
| `GatesCompute` | sum and overflow of `RVAlu`, arithmetic there, are those of the gates for the operands `alu.v` hands them |

The state is a pair of words, and everything lies in what is computed of it. The module needs induction over
numbers, which the library's theorems cannot give here (section 6, end): `Induct` derives it for a set of numbers from the
least number the set leaves out. `Pow2` is a recursive function; that it satisfies its equation is
`Pow2Equation`, from the existence and the uniqueness of a function that does. For the adder the
invariant of the chain is `CarryAt`: the carry into bit `k` is whether the numbers below bit `k` sum to `Pow2[k]`.
`BlockStep` unfolds the look-ahead of one block, `Chain` runs along the blocks, `SumBits` and `SignedOverflow` read
the result off. For the ALU the subtraction, the borrow and the overflow are arithmetic (`Difference`,
`NegativeIsLess`). The arithmetic shift is not: `shifter.v` shifts in zeros and ors a mask over them, `sim.c` adds
the sign, and `ArithmeticShift` shows bit by bit that or is a sum where no bit meets another.

*RISC-V co-simulation.* `RVCosim_proofs` proves what the testbench is for: pipeline and
simulator, two programs by different means, do the same. Besides the assumptions of the
modules the theorems take

- the write first at the falling edge;
- `AluAgrees`: ALU and `sim.c` compute the same. Here it is a hypothesis on the constants, which
  `ShippedAluAgrees` shows of the ALU of `alu.v`;
- `GoodPrograms`: every program has the restrictions of section 3 and only instructions
  both machines understand alike (`Alike` leaves out those that section 5 lists: shifts by an
  immediate, ANDI, JALR, bytes and half words, stores with a negative offset); without JALR, `NoLinkUse` holds of them;
- `[]WithinData`: when the simulator executes a load or a store its address is in the data
  region, and a store's two registers hold the same value, because `sim.c` swaps them. This is about the run of the
  program and not its text, so it is a hypothesis on the behaviour. `StaysInData` derives it from the text for
  programs with `FixedAddresses`: no instruction writes the base of an access.

| Theorem | States |
|---|---|
| `NoDifference` | `CosimSpec /\ []WithinData => []NeverFatal` |
| `SameRegisters` | `CosimSpec /\ []WithinData => []LockStep` |
| `SameMemory` | `CosimSpec /\ []WithinData => []MemoryAgrees` |
| `StaysInData` | `CosimSpec => []WithinData`, if all programs have `FixedAddresses` |
| `ShippedAluAgrees` | `AluWired => AluAgrees` |
| `ShippedPipelineAgrees` | `CosimSpec /\ []WithinData => [](NeverFatal /\ LockStep /\ MemoryAgrees)`, with `AluWired` in place of `AluAgrees` |

`MCCosim` has TLC evaluate the hypotheses on the constants for the instance of the run
(`InstanceAssumption`). The invariant joins `RefineInv` of the pipeline with three parts:
`Follows` (each delay register of the testbench holds what the pipeline's register beside it holds, if
that is an instruction), `OnPath` (the simulator's pc is that of the oldest instruction that
has not retired, or the one the pipeline comes to next if there is none) and `SameState` (registers and
memory are equal but for what is in WB). A step retires or not; `SimulatorExecutes`
says that what the simulator does is what `CurrentResult` says of the pipeline, format by
format, with the two different ways to extend a sign and to wrap (`OffsetIsImm`, `Times`).

*MIPS pipeline.* The same six results, for all values of the constants that satisfy the
assumptions of `MIPSIsa` and `MIPSPipeline`. `ControlFlow` and `OperandsCurrent` name the
restriction they need (`BranchSpacing(prog)`, `Spaced(prog)`), so their theorems do not repeat it:

| Theorem | States | Further assumptions |
|---|---|---|
| `TypeCorrect` | `[]TypeOK` | none |
| `PredictorTrained` | `[]BtbTrained` | none |
| `ForwardingCorrect` | `[]OperandsForwarded` | the write comes first at the falling edge |
| `ControlFlowCorrect` | `ControlFlow` | all programs `Closed` |
| `OperandsCorrect` | `[]OperandsCurrent` | the two above |
| `PipelineRefines` | `ImplementsSequential` | the same, and all programs `Spaced` |

`FetchInv`, `ForwardInv` and `FlowInv` play the part they play above. What is different is
what forwarding misses. `OperandsForwarded` lists it: loads, but for an LW to the first port;
the link of a JALR in MEM; the link of a branch in MEM and in WB, because `reg_wr` is not set for
it. That the link of a JAL is not in the list is the conjunct of `ForwardInv` about jumps.
`NoMissInv` says that in a spaced program no instruction in EX uses such a value. It is
inductive with `FlowInv` (what stands behind a load or link in EX is its successor) and
`LinkInv`, which looks one instruction further: while a branch with a link is in MEM, neither
the next instruction to execute nor the one behind it uses the link register. The step of
the refinement has a case the other pipeline has not: a NOP fetched on a wrong path is of no type
but writes register 0, which `CycleStutters` shows to change nothing.

*MIPS simulator.* `MIPSIsa_proofs` proves once, for both testbenches, that `ProcessInstruction` does
what the processors' decoder, ALU and control say: `SimulatorExecutes`, with an instruction that is
about to execute as its premise (`Executing`) and the processors' terms as its conclusion (`Executed`).
It rests on `AluAgrees` (values and branch conditions), on `SameLayout` (the text is in
the first block of jump targets; both cut addresses into words at the same places) and on `Alike(i)`, which leaves out
what section 5 lists, a SYSCALL with a code, and jumps whose target loses a bit in the
processors' shift. HI and LO need an argument of their own: in the encoding of the manual MULT, DIV and the moves to HI and LO
have no `rd`, so `sim.c` does nothing for them and both stay 0, and that is what the processors' row ADD
makes of MFHI and MFLO of register 0. `AluAgrees` is a hypothesis of these lemmas and
the theorem `ShippedAluAgrees` of the same module: `AluWired` implies it, for any width. It goes through the rows of the
control table; BLEZ and BGTZ read their flags from a sum with register 0, and the shifts have their
amount in the instruction, which `ShiftAssumption` keeps below the point from which `shifter.v` cuts it.

*MIPS pipeline co-simulation.* With the write first at the falling edge, `AluAgrees`, `SameLayout` and
`GoodPrograms` (`Closed`, `Spaced`, `Alike`), `MIPSCosim_proofs` proves

| Theorem | States |
|---|---|
| `NoDifference` | `CosimSpec /\ []WithinData => []NeverFatal` |
| `SameRegisters` | `CosimSpec /\ []WithinData => []LockStep` |
| `SameMemory` | `CosimSpec /\ []WithinData => []MemoryAgrees` |
| `EndTogether` | `CosimSpec /\ []WithinData => []StopsTogether` |
| `StaysInData` | `CosimSpec => []WithinData`, if all programs have `FixedAddresses` (the bases are register 0) |
| `ShippedPipelineAgrees` | all four properties of `CosimSpec`, from `AluWired` and `FixedAddresses` in place of `AluAgrees` and `[]WithinData` |

The invariant has the shape of the RISC-V one. Here a word that does not retire is still in the
registers of the testbench, and writes register 0 (`NothingWritten`).

*Single-cycle testbench.* `EndTogether` (`CosimSpec => []StopsTogether`) holds of every program,
alike or not, and in either order of reset and clock, from `PlainSyscalls` (no SYSCALL has a code) and
`NoExitAtBoot` (`boot_code` does not leave 10 in register 2; it clears all). Its invariant, `EndsInv`, is that the
comparisons let nothing pass that leaves different registers: both machines write at most one register,
the comparison looks at it (`ComparisonLooks`), and before the first comparison the processor has executed
its first instruction at most, however often. `NoDifference` and `SameMachines` (`NeverFatal` and `LockStep`,
given `[]WithinData`) need `AluAgrees`, `SameLayout` and `GoodPrograms`, or, as `ShippedProcessorAgrees`,
`AluWired`, `SameLayout`, `GoodPrograms` and `FixedAddresses` and nothing of the behaviour; `Together` is in the
properties themselves. `SingleInv` gives each half of the clock its phase (`Fresh`, `Repeating`,
`Ahead`), and `SameAgain` is what `Repeatable` is for: executed a second time, the first instruction computes the
same, goes to the same place and writes the same. The attempt to prove that showed an earlier `Repeatable`,
without the links, to be too weak: a BGEZAL that tests register 31 at address 0.

`MCMIPSCosim` and `MCMIPSSingle` have TLC evaluate all the hypotheses on the constants (`InstanceAssumption`), so the
theorems apply to the instances of the runs, `[]WithinData` included by `StaysInData`. `AluWired` is among
them, so the ALU of the runs is the one of the `Shipped...` theorems.

*RISC-V generator.* `RVHexGen_proofs` proves `TypeOK` for everything that can be drawn, and, of
mixtures without jumps and branches to themselves (`NoJumps`), `LandsOnNoInstruction`, `MixDelivered` and the
refinement `GeneratesPath`. The inductive invariant is `LandInv`: besides the property, `prev_pc` is the
pc, a slot is used exactly if the file has an instruction there, and while a draw is
pending the pc's slot is free and the next one is free too, or holds a jump back to the pc's. The last
is what `make_room` has just established, and it is needed because an instruction that does not
jump goes to the next slot whatever is there. A step then has three cases: an instruction
placed on a free slot, a jump of `make_room` to the lowest pair, and the steps that place nothing. The restriction is
needed: see section 5. `MixDelivered` follows from every placement being on a free slot, by the cardinality of a set
with one more slot. `FileIsText` is `FileIsProgram`, with jumps and branches
of any kind and the other restriction, `NoNegatives`: no immediate has its sign bit. A store of the program
with a negative offset is checked at one address and executed at another (section 5), which may be in its own text.

*MIPS generator.* `MIPSHexGen_proofs` needs no more than `HexGenAssumption`, which bounds the arguments a call may
have and puts no restriction on what is drawn or called in which order:

| Theorem | States |
|---|---|
| `TypeCorrect` | `[]TypeOK` |
| `OperandsLoaded` | `[]OperandsSet` |
| `NothingOverwritten` | `[]LandsOnNoInstruction` |
| `MixCounted` | `[]MixDelivered` |
| `GeneratesAPath` | `GeneratesPath`, the refinement of `SlotPath` |

`TypeOK` is about what a call or a draw puts into the fields: that an immediate below zero borrows no more than the
field of `rt` has (`BorrowsFromRt`) is what keeps the encoded register a register. For `OperandsSet` the
invariant, `DirectedInv`, says at which of its steps the last call is (`AtWork`): what of its work is left and
which values the registers have by then. Between the steps `make_room` puts its jumps, which write no
register, and a load writes one (`ConstantLoaded`), so that the second load can spoil the first only if both are
of one register. `LandInv` gives `LandsOnNoInstruction`: while something is pending control is at a slot that is free, or holds a jump to
itself, and so is the slot behind it, or it holds the jump that led here. It is
inductive only together with three facts about the past: `prev_pc` is the pc until the end sequence, memory and
file are equal where a slot is used, and before the first instruction nothing is used. Where an instruction
leads is `LandsInRoom`, which needs the checks: a branch that passed has a free target other than its own
slot (`PendingChecked` excludes its own; a draw never has the offset -1, and `DirectedInv` says which
call is pending), and a word store that passed is above the text (`StoresInData`); the simulator adds
the encoded immediate and the check the given one, which `SameSign` shows to be one offset. `MixCounted` is `LandInv`
and the cardinality of a set with one more slot. An earlier
form of the two properties, without `Unchecked`, was false: a call of a branch to itself and the one
after it refute it, and so the run makes two calls. `GeneratesAPath` is `LandInv` with `FreeInv` (a slot not used holds
nothing): where control is in the text the slot is free or holds a jump (`OpenHere`), before a step and after it, and
a step puts at most one word, there (`PlacedOnPath`). Like the others it speaks of the time before the end sequence,
in which the pc of the file stays behind that of the simulator. TLC agrees on the instance of
`mipsgen_all`, whose list of properties leaves it out beside `LandsOnNoInstruction`.

*Regression.* `SomeTestSimulated` is `[]SomeTestRuns` for any set of tests. The invariant,
`SomeoneBuilds`, says that at any time a simulation has run or there is a test whose
next steps will find the library it needs: when another test's `rm` takes the library from it,
that other test is the one. `CountComplete` is `[]CountsTheEnded`, for any set of tests: `CountInv` says that a test has
written its verdict to the log exactly if it fails, has been simulated and has ended, that the manager's
count is of the lines it has read, and that these, when it is done, have the verdicts of all tests in `over`. Lines and
the tests they name correspond one to one (`ReportsCounted`), which gives both bounds of the count.

Every safety property of a passing run is stated by a theorem. Type correctness is proved of the
pipelines and the generators. Model-checked only: liveness
(`Progress`, `Finishes`, `Ends`), which needs ENABLED, and the two violations. The library's induction theorems take an operator as a
parameter, which the provers cannot instantiate; what a recursive function computes for every input is
proved only where `Induct` was enough.

## 7. Not modelled

- stack and kernel regions, loader, shell and dumps of the simulators; unaligned
  accesses;
- byte and half-word accesses are in `RVIss` and `MIPSIss` but, because the pipelines move
  whole words for them, in no program of a run that compares;
- undefined encodings, and values that Verilog calls `x`;
- timing inside a cycle, other than the order at the falling edge and of the reset's release;
- of the generators: the `vopt` arguments and `gen_end_seq` of the RISC-V one, which its `main` does
  not use; `ls_addr` and `br_addr` and the functions of `hex_gen_api.c` that read them;
  `gen_user_test.c` is committed with every call commented out, and any calls may stand in its
  place. A DIV of the most negative number by -1, which stops the simulator like one by zero, is not set
  apart from other divisions. A negative immediate in a directed call is modelled as far as it borrows from `rt`;
- the two textbook processors: student designs with control units of their own, that no other part of the
  repository uses but for the simulator they are compared with. The single-cycle one is a subset of
  `MIPSSingleCycle`; the pipeline, which stalls where the others forward, would be the next module;
- `riscv-tests`, `references` and generated tests are data.

## 8. Plan

1. Done: both pipelines with their testbenches and simulators, the single-cycle processor, both
   generators, the regression; the theorems of section 6.
2. `TextbookPipeline`: its stalls against the same sequential machine.
