-------------------------------- MODULE RVIss --------------------------------
(***************************************************************************)
(* The instruction set simulator of risc-v/iss (main.c, sim.c): the model  *)
(* the testbench runs beside the pipeline, and its compare functions.  It  *)
(* has one address space, in which the data precede the program.           *)
(* Instructions are the records of RVIsa; the low two bits of an address   *)
(* are dropped, so programs are taken to align their accesses and jumps.   *)
(***************************************************************************)
EXTENDS RVIssValues

CONSTANTS
  ByteSize, HalfSize,   \* number of values of a byte and a half word: 2^8, 2^16
  DecodeWord(_),        \* the instruction a data word means, if it is executed
  EncodeInstr(_)        \* the data word an instruction is, if it is loaded

VARIABLES
  ipc, iregs,           \* CURRENT_STATE; between two calls NEXT_STATE is equal to it
  itext, idata,         \* the text and the data region
  runBit,               \* RUN_BIT
  prevPC,               \* prev_pc
  opcode                \* instr_opcode

issVars == <<ipc, iregs, itext, idata, runBit, prevPC, opcode>>

DataWords == 0..((TextBase \div 4) - 1)

\* fill is the word init_memory fills the regions with
IssInit(program, bootRegs, fill) ==
  /\ ipc = TextBase /\ prevPC = TextBase
  /\ iregs = bootRegs
  /\ itext = program
  /\ idata = [w \in DataWords |-> fill]
  /\ runBit = TRUE
  /\ opcode = NoInstr

\* mem_read_32 and mem_write_32: outside the regions a read gives 0 and a write
\* is lost
MemRead(a) == IF DmemIndex(a) \in DataWords THEN idata[DmemIndex(a)]
              ELSE IF SlotOf(a) \in Slots THEN EncodeInstr(itext[SlotOf(a)])
              ELSE 0
\* (mutant) only the lower half of the word is written
MemWriteHalf(a, v) ==
  /\ idata' = IF DmemIndex(a) \in DataWords
                THEN [idata EXCEPT ![DmemIndex(a)] = v % HalfSize] ELSE idata
  /\ UNCHANGED itext

MemWrite(a, v) ==
  /\ idata' = IF DmemIndex(a) \in DataWords THEN [idata EXCEPT ![DmemIndex(a)] = v]
                                            ELSE idata
  /\ itext' = IF DmemIndex(a) \notin DataWords /\ SlotOf(a) \in Slots
                THEN [itext EXCEPT ![SlotOf(a)] = DecodeWord(v)] ELSE itext

-----------------------------------------------------------------------------
\* execute_i has no case for SLLI, SRLI and SRAI, and the one for ANDI (0x1c) is beyond
\* the funct it computes, at most 0x17
IExecuted == ITypes \ {"SLLI", "SRLI", "SRAI", "ANDI"}
ComputedValue(op, a, imm) ==
  CASE op = "ADDI"  -> (a + imm) % WordSize
    [] op = "SLTI"  -> B2W(Signed(a) < Signed(imm))
    [] op = "SLTIU" -> B2W(a < imm)
    [] op = "ORI"   -> BitOr(a, imm)
    [] op = "XORI"  -> BitXor(a, imm)
\* m is the word in memory; the fill of LH is still the one of the immediate
LoadedValue(op, m) ==
  CASE op = "LB"  -> Extend(m % ByteSize, ByteSize)
    [] op = "LH"  -> LET h == m % HalfSize
                     IN  IF 2 * h < HalfSize THEN h ELSE BitOr(h, WordSize - Imm12Size)
    [] op = "LW"  -> m
    [] op = "LBU" -> m % ByteSize
    [] op = "LHU" -> m % HalfSize

\* The offset of a branch or jump, already shifted into place by the decoder
Offset(imm, size) == Extend(2 * imm, 2 * size) % WordSize

-----------------------------------------------------------------------------
(* process_instruction: one arm per instruction type *)

Fetched == IF SlotOf(ipc) \in Slots THEN itext[SlotOf(ipc)] ELSE NoInstr
WriteReg(rd, v) == iregs' = IF rd = 0 THEN iregs ELSE [iregs EXCEPT ![rd] = v]
Advance == ipc' = (ipc + 4) % WordSize
KeepMem == UNCHANGED <<itext, idata>>

ExecuteR(i) == /\ WriteReg(i.rd, RValue(i.op, iregs[i.rs1], iregs[i.rs2]))
               /\ Advance /\ KeepMem

ExecuteI(i) ==
  LET a   == iregs[i.rs1]
      imm == Extend(i.imm, Imm12Size)
  IN  /\ \/ /\ i.op \in IExecuted \ {"JALR"}
            /\ WriteReg(i.rd, IF IsLoad(i)
                                THEN LoadedValue(i.op, MemRead((a + imm) % WordSize))
                                ELSE ComputedValue(i.op, a, imm))
            /\ Advance
         \/ /\ i.op = "JALR"
            /\ WriteReg(i.rd, (ipc + 4) % WordSize)
            /\ ipc' = (a + imm) % WordSize
         \/ i.op \notin IExecuted /\ UNCHANGED <<iregs, ipc>>
      /\ KeepMem

\* The address comes from rs2 and the data from rs1.  Only SB looks at the sign of
\* the immediate, and fills the top twelve bits of the word for a negative one.
ExecuteS(i) ==
  LET fill == IF i.op = "SB" /\ 2 * i.imm >= Imm12Size
                THEN WordSize - (WordSize \div Imm12Size) ELSE 0
      addr == (iregs[i.rs2] + (i.imm + fill)) % WordSize
      data == CASE i.op = "SB" -> iregs[i.rs1] % ByteSize
                [] i.op = "SH" -> iregs[i.rs1] % HalfSize
                [] i.op = "SW" -> iregs[i.rs1]
  IN  MemWrite(addr, data) /\ Advance /\ UNCHANGED iregs

ExecuteB(i) ==
  /\ ipc' = IF BCond(i.op, iregs[i.rs1], iregs[i.rs2])
              THEN (ipc + Offset(i.imm, Imm12Size)) % WordSize
              ELSE (ipc + 4) % WordSize
  /\ KeepMem /\ UNCHANGED iregs

ExecuteU(i) ==
  LET upper == (i.imm * UpperUnit) % WordSize
  IN  /\ WriteReg(i.rd, IF i.op = "LUI" THEN upper ELSE (ipc + upper) % WordSize)
      /\ Advance /\ KeepMem

ExecuteJ(i) ==
  /\ ipc' = (ipc + Offset(i.imm, Imm20Size)) % WordSize
  /\ WriteReg(i.rd, (ipc + 4) % WordSize)
  /\ KeepMem

ProcessInstruction ==
  LET i == Fetched
  IN  /\ opcode' = i
      /\ \/ i.op \in RTypes /\ ExecuteR(i)
         \/ i.op \in ITypes /\ ExecuteI(i)
         \/ i.op \in STypes /\ ExecuteS(i)
         \/ i.op \in BTypes /\ ExecuteB(i)
         \/ i.op \in UTypes /\ ExecuteU(i)
         \/ i.op \in JTypes /\ ExecuteJ(i)
         \/ ~IsValid(i) /\ KeepMem /\ UNCHANGED <<ipc, iregs>>

\* The register fields that compare_r .. compare_j look at
ComparedFields(i) ==
  CASE i.op \in RTypes             -> {"rd", "rs1", "rs2"}
    [] i.op \in ITypes             -> {"rd", "rs1"}
    [] i.op \in STypes \cup BTypes -> {"rs1", "rs2"}
    [] i.op \in UTypes \cup JTypes -> {"rd"}
=============================================================================
