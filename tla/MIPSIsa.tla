------------------------------- MODULE MIPSIsa -------------------------------
(***************************************************************************)
(* The instruction set of the MIPS processors written from scratch: what    *)
(* decode.v, control.v, instr_mem.v and the branch conditions of top.v      *)
(* compute in mips-pipeline and, but for the four lines README.md lists, in *)
(* mips-single-cycle.  An instruction word is the record of its fields, its *)
(* op naming the opcode, the funct field or the REGIMM code that tells it   *)
(* apart; a word no program has loaded is NoInstr.                          *)
(***************************************************************************)
EXTENDS Integers

CONSTANTS
  WordSize,     \* number of values of a word: 2^32 in the code
  ImmSize,      \* number of values of a 16-bit immediate: 2^16
  TargetSize,   \* number of values of a jump's target field: 2^26
  ShamtSize,    \* number of shift amounts: 32
  NumRegs,      \* 32
  Link,         \* 31
  TextSlots,    \* words of instr_mem: 2048
  DataBase,     \* data_seg_begin: 32'h2000
  AluRes(_,_,_), AluZ(_,_,_), AluN(_,_,_)   \* alu.v: result, zero, negative

ASSUME WordAssumption ==
  /\ WordSize \in Nat /\ WordSize > 4 /\ WordSize % 4 = 0
  /\ ImmSize \in 1..WordSize
  /\ TargetSize \in Nat \ {0} /\ ShamtSize \in 1..WordSize
  /\ NumRegs \in Nat \ {0} /\ Link \in 1..(NumRegs - 1)
  /\ TextSlots \in Nat \ {0}
  /\ DataBase \in 0..(WordSize - 1)

Word == 0..(WordSize - 1)
Reg  == 0..(NumRegs - 1)

\* adder.v, the carry out dropped
Add(a, b) == (a + b) % WordSize
SeqPC(pc) == Add(pc, 4)

-----------------------------------------------------------------------------
(* Decoding *)

Shifts   == {"SLL", "SRL", "SRA", "SLLV", "SRLV", "SRAV"}
\* Rows of the table that say ADD whatever their name says
AddRows  == {"DIV", "DIVU", "JALR", "JR", "MFHI", "MFLO", "MTHI", "MTLO", "MULT", "MULTU"}
RTypes   == {"ADD", "ADDU", "SUB", "SUBU", "AND", "OR", "XOR", "NOR", "SLT", "SLTU",
             "SYSCALL"} \cup Shifts \cup AddRows
Loads    == {"LB", "LH", "LW", "LBU", "LHU"}
Stores   == {"SB", "SH", "SW"}
LinkBranches == {"BLTZAL", "BGEZAL"}
Branches == {"BEQ", "BNE", "BLEZ", "BGTZ", "BLTZ", "BGEZ"} \cup LinkBranches
ImmOps   == {"ADDI", "ADDIU", "ANDI", "ORI", "XORI", "SLTI", "SLTIU"}
ITypes   == Loads \cup Stores \cup Branches \cup ImmOps \cup {"LUI"}
JTypes   == {"J", "JAL"}
ValidOps == RTypes \cup ITypes \cup JTypes

ImmRange(op) == CASE op \in JTypes -> 0..(TargetSize - 1)
                  [] op \in ITypes -> 0..(ImmSize - 1)
                  [] OTHER         -> {0}

InstrFields == [op : ValidOps \cup {"NONE"}, rs : Reg, rt : Reg, rd : Reg,
                shamt : 0..(ShamtSize - 1), imm : Nat]
Instr   == {i \in InstrFields : i.imm \in ImmRange(i.op)}
NoInstr == [op |-> "NONE", rs |-> 0, rt |-> 0, rd |-> 0, shamt |-> 0, imm |-> 0]

IsBranch(i) == i.op \in Branches
IsJump(i)   == i.op \in JTypes
IsNop(i)    == i.op = "SLL" /\ i.shamt = 0 /\ i.rt = 0 /\ i.rd = 0
\* A NOP is of no type in the pipeline, which therefore never retires one
IsValid(i)  == i.op # "NONE" /\ ~IsNop(i)
UsesLink(i) == i.op \in LinkBranches \cup {"JALR", "JAL"}

\* sign_imm: the logical operations extend their immediate with zeros
Signed(i)      == i.op \notin {"ANDI", "ORI", "XORI"}
\* The low bits of any word, those of a jump's target too
ImmField(i)    == i.imm % ImmSize
ImmValue(i)    == IF Signed(i) /\ 2 * ImmField(i) >= ImmSize
                    THEN (WordSize - ImmSize) + ImmField(i) ELSE ImmField(i)

-----------------------------------------------------------------------------
(* The control table *)

\* The registers on the two read ports and the one written
Port1(i) == IF i.op \in Shifts THEN i.rt ELSE i.rs
Port2(i) == i.rt
Dest(i)  == IF UsesLink(i) THEN Link ELSE IF i.op \in RTypes THEN i.rd ELSE i.rt

RegWr(i)    == i.op \in (RTypes \ {"SYSCALL"}) \cup ImmOps \cup Loads \cup {"LUI", "JAL"}
MemToReg(i) == i.op \in Loads \cup {"LUI"}
MemWr(i)    == i.op \in Stores
IsLw(i)     == i.op = "LW"

AluSrc(i) == CASE i.op \in {"BLEZ", "BGTZ", "BLTZ", "BGEZ"} \cup LinkBranches -> "zero"
               [] i.op \in Shifts -> "shamt"
               [] i.op \in JTypes \cup (ITypes \ Branches) -> "imm"
               [] OTHER -> "port2"
AluFn(i) ==
  CASE i.op \in {"SUB", "SUBU", "BEQ", "BNE", "BLTZ", "BGEZ"} \cup LinkBranches -> "SUB_OP"
    [] i.op \in {"AND", "ANDI"}  -> "AND_OP"
    [] i.op \in {"OR", "ORI"}    -> "OR_OP"
    [] i.op \in {"XOR", "XORI"}  -> "XOR_OP"
    [] i.op = "NOR"              -> "NOR_OP"
    [] i.op \in {"SLL", "SLLV"}  -> "SHL_OP"
    [] i.op \in {"SRL", "SRLV"}  -> "LSR_OP"
    [] i.op \in {"SRA", "SRAV"}  -> "ASR_OP"
    [] i.op \in {"SLT", "SLTI"}  -> "SLT_OP"
    [] i.op \in {"SLTU", "SLTIU"} -> "SLTU_OP"
    [] OTHER                     -> "ADD_OP"
AluFns == {"ADD_OP", "SUB_OP", "SHL_OP", "LSR_OP", "ASR_OP", "OR_OP", "AND_OP",
           "NOR_OP", "XOR_OP", "SLT_OP", "SLTU_OP"}

\* branch_taken_ex, from the two flags of the ALU
BranchCond(op, z, n) ==
  \/ op = "BEQ" /\ z
  \/ op = "BNE" /\ ~z
  \/ op \in {"BGEZ", "BGEZAL"} /\ (~n \/ z)
  \/ op = "BLEZ" /\ (n \/ z)
  \/ op = "BGTZ" /\ ~(n \/ z)
  \/ op \in {"BLTZ", "BLTZAL"} /\ n /\ ~z

-----------------------------------------------------------------------------
(* The arithmetic unit, whatever it computes, and what it is given *)

ASSUME AluAssumption ==
  \A fn \in AluFns : \A a, b \in Word :
    /\ AluRes(fn, a, b) \in Word
    /\ AluZ(fn, a, b) \in BOOLEAN
    /\ AluN(fn, a, b) \in BOOLEAN

OperandB(i, p2) == CASE AluSrc(i) = "zero"  -> 0
                     [] AluSrc(i) = "shamt" -> i.shamt
                     [] AluSrc(i) = "imm"   -> ImmValue(i)
                     [] AluSrc(i) = "port2" -> p2
Result(i, p1, p2) == AluRes(AluFn(i), p1, OperandB(i, p2))
Taken(i, p1, p2)  ==
  IsBranch(i) /\ BranchCond(i.op, AluZ(AluFn(i), p1, OperandB(i, p2)),
                                  AluN(AluFn(i), p1, OperandB(i, p2)))

\* The data memory is an array of words from DataBase up, taken here to go all
\* the way round; the byte enables are tied to 4'hF
DmemWords    == 0..((WordSize \div 4) - 1)
DmemIndex(a) == ((a - DataBase) % WordSize) \div 4

-----------------------------------------------------------------------------
(* The instruction memory and the control flow *)

Slots   == 0..(TextSlots - 1)
Program == [Slots -> Instr]

SlotOf(pc)     == pc \div 4
Imem(prog, pc) == IF SlotOf(pc) \in Slots THEN prog[SlotOf(pc)] ELSE NoInstr

BranchTarget(seq, i) == Add(seq, (4 * ImmValue(i)) % WordSize)
\* {next_seq_pc[31:28], instr[25:0] << 2}: the shift keeps the width of its operand,
\* so the two top bits of the target are lost and the concatenation has 30 bits
JumpTarget(seq, i) ==
  (((seq \div (4 * TargetSize)) * TargetSize) + ((4 * i.imm) % TargetSize)) % WordSize

Target(prog, pc) == LET i == Imem(prog, pc)
                    IN  IF IsJump(i) THEN JumpTarget(SeqPC(pc), i)
                                     ELSE BranchTarget(SeqPC(pc), i)
Succ(prog, pc) ==
  CASE IsJump(Imem(prog, pc))   -> {Target(prog, pc)}
    [] IsBranch(Imem(prog, pc)) -> {Target(prog, pc), SeqPC(pc)}
    [] OTHER                    -> {SeqPC(pc)}
=============================================================================
