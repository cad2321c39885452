---------------------------- MODULE MIPSSingleCycle ----------------------------
(***************************************************************************)
(* mips-single-cycle/verilog/top.v: one instruction per clock cycle.  Its   *)
(* decode.v and control.v are the pipeline's, except that a NOP is an       *)
(* R-type instruction; its data memory begins at 32'h1000.                  *)
(***************************************************************************)
EXTENDS MIPSIsa

CONSTANTS
  Programs,     \* the programs init_imem may load
  BootRegs,     \* the register files boot_code may set up
  DmemFill      \* the word init_dmem fills the data memory with

ASSUME CpuAssumption ==
  /\ Programs \subseteq Program
  /\ BootRegs \subseteq [Reg -> Word] /\ \A r \in BootRegs : r[0] = 0
  /\ DmemFill \in Word

VARIABLES
  prog,     \* imem
  pc,       \* next_pc_pc_reg
  regs,     \* reg_file
  dmem      \* dmem, by words

cpuVars == <<prog, pc, regs, dmem>>

\* The wires, between two rising edges
Instruction == Imem(prog, pc)
R1          == regs[Port1(Instruction)]
R2          == regs[Port2(Instruction)]
AluResult   == Result(Instruction, R1, R2)

WriteEnable == RegWr(Instruction) \/ UsesLink(Instruction)
WriteData   == CASE UsesLink(Instruction) -> SeqPC(pc)
                 [] Dest(Instruction) = 0 -> 0
                 [] MemToReg(Instruction) /\ Dest(Instruction) # 0 /\ ~UsesLink(Instruction) ->
                      dmem[DmemIndex(AluResult)]
                 [] OTHER -> AluResult
\* (mutant) the address of a jump from the jump's own pc
NextPCOwn == IF IsJump(Instruction) \/ Taken(Instruction, R1, R2)
               THEN Target(prog, pc) - 4 ELSE SeqPC(pc)

NextPC == IF IsJump(Instruction) \/ Taken(Instruction, R1, R2) THEN Target(prog, pc)
                                                               ELSE SeqPC(pc)

CpuInit ==
  /\ prog \in Programs
  /\ pc = 0
  /\ regs \in BootRegs
  /\ dmem = [w \in DmemWords |-> DmemFill]

RegsWritten == IF WriteEnable THEN [regs EXCEPT ![Dest(Instruction)] = WriteData] ELSE regs

\* A rising edge.  The reset holds the pc only: the register file and the memory
\* take what the instruction at 0 writes
Posedge(reset) ==
  /\ pc' = IF reset THEN 0 ELSE NextPC
  /\ regs' = RegsWritten
  /\ dmem' = IF MemWr(Instruction) THEN [dmem EXCEPT ![DmemIndex(AluResult)] = R2] ELSE dmem
  /\ UNCHANGED prog
=============================================================================
