-------------------------------- MODULE RVIsa --------------------------------
(***************************************************************************)
(* The instruction set of the RISC-V pipeline: what decode.v, control.v,   *)
(* the two sign extenders and instr_mem.v compute.  An instruction word is *)
(* the record of its fields; a word that decode.v assigns to no type (the  *)
(* all-zero word of a flushed register, an unloaded word of the memory) is *)
(* NoInstr.  Every width is a constant, so that TLC can check words of a   *)
(* few bits and the proofs hold for words of 32.                           *)
(***************************************************************************)
EXTENDS Integers

CONSTANTS
  WordSize,     \* number of values of a word: 2^32 in the code
  Imm12Size,    \* number of values of a 12-bit immediate: 2^12
  Imm20Size,    \* number of values of a 20-bit immediate: 2^20
  UpperUnit,    \* the weight of a U-type immediate: 2^12
  NumRegs,      \* 32
  TextBase,     \* 32'h2000, where instr_mem begins and reset sends the pc
  TextSlots,    \* words of instr_mem: 2048
  AluRes(_,_,_), AluZ(_,_,_), AluN(_,_,_)   \* alu.v: result, zero, negative

ASSUME WordAssumption ==
  /\ WordSize \in Nat /\ WordSize > 4 /\ WordSize % 4 = 0
  /\ Imm12Size \in 1..WordSize /\ Imm20Size \in 1..WordSize
  /\ UpperUnit \in Nat
  /\ NumRegs \in Nat \ {0}
  /\ TextBase \in 0..(WordSize - 1)
  /\ TextSlots \in Nat \ {0}

Word == 0..(WordSize - 1)
Reg  == 0..(NumRegs - 1)

\* (mutant) the carry kept
AddKeepsCarry(a, b) == a + b

\* adder.v, the carry out dropped
Add(a, b)  == (a + b) % WordSize
SeqPC(pc)  == Add(pc, 4)

-----------------------------------------------------------------------------
(* Decoding *)

RTypes == {"ADD", "SUB", "AND", "OR", "XOR", "SLL", "SRL", "SRA", "SLT", "SLTU"}
Loads  == {"LB", "LH", "LW", "LBU", "LHU"}

\* JALR is the word that this repository takes for it, of the opcode of the loads
\* (03) with funct3 7; opcode 67 has no type
ITypes == Loads \cup
          {"JALR", "ADDI", "ANDI", "ORI", "XORI", "SLLI", "SRLI", "SRAI", "SLTI", "SLTIU"}
STypes == {"SB", "SH", "SW"}
BTypes == {"BEQ", "BNE", "BLT", "BGE", "BLTU", "BGEU"}
UTypes == {"LUI", "AUIPC"}
JTypes == {"JAL"}
ValidOps == RTypes \cup ITypes \cup STypes \cup BTypes \cup UTypes \cup JTypes

ImmRange(op) == IF op \in UTypes \cup JTypes THEN 0..(Imm20Size - 1)
                                             ELSE 0..(Imm12Size - 1)

\* The fields exist in every format: where a format has no such register,
\* decode.v still slices those bits and passes them on.
InstrFields == [op : ValidOps \cup {"NONE"}, rd : Reg, rs1 : Reg, rs2 : Reg, imm : Nat]
Instr       == {i \in InstrFields : i.imm \in ImmRange(i.op)}
NoInstr     == [op |-> "NONE", rd |-> 0, rs1 |-> 0, rs2 |-> 0, imm |-> 0]

IsBranch(i) == i.op \in BTypes
IsLoad(i)   == i.op \in Loads

\* jump_iss_ex: jalr_iss_ex wants the opcode's low bits 111, which no I type has
IsJump(i)   == i.op \in JTypes

\* is_lw_ex_mem: the opcode of the loads, funct3 not looked at
IsLw(i)     == i.op \in Loads \cup {"JALR"}
IsValid(i)  == i.op # "NONE"

\* A two's complement field of the given number of values, as a word
SignExtend(imm, size) == IF 2 * imm < size THEN imm ELSE (WordSize - size) + imm

\* sign_extnd_imm_iss_ex: branch and jump offsets are in half words
ImmValue(i) ==
  CASE i.op \in JTypes -> LET s == SignExtend(i.imm, Imm20Size) IN Add(s, s)
    [] i.op \in UTypes -> (i.imm * UpperUnit) % WordSize
    [] i.op \in BTypes -> LET s == SignExtend(i.imm, Imm12Size) IN Add(s, s)
    [] i.op \in ITypes \cup STypes -> SignExtend(i.imm, Imm12Size)
    [] OTHER -> 0

-----------------------------------------------------------------------------
(* The control table *)

\* (mutant) the rf_en bit set in the rows of the stores
RfEnStores(i) == i.op \in (ITypes \ {"ANDI"}) \cup RTypes \cup STypes \cup UTypes \cup JTypes

\* The row of ANDI is never selected: its code 6'h1c is not the 5'h17 that control.v
\* forms for it, and the default row neither writes nor computes an AND
RfEn(i)  == i.op \in RTypes \cup (ITypes \ {"ANDI"}) \cup UTypes \cup JTypes
MemWr(i) == i.op \in STypes

Op1Sel(i) == IF i.op \in UTypes \cup JTypes THEN "imm" ELSE "rs1"
Op2Sel(i) == CASE i.op \in RTypes \cup BTypes            -> "rs2"
               [] i.op \in ITypes \cup STypes \cup JTypes -> "imm"
               [] i.op = "AUIPC"                         -> "pc"
               [] OTHER                                  -> "zero"
WbSel(i)  == CASE i.op \in JTypes \cup {"JALR"} -> "seq"
               [] i.op \in RTypes \cup STypes \cup UTypes
                    \/ i.op \in ITypes \ (Loads \cup {"JALR"}) -> "alu"
               [] OTHER                          -> "mem"

\* SRLI and SRAI share the code 6'h15, and the first arm of the case wins
AluFn(i) ==
  CASE i.op \in {"SUB", "BEQ", "BNE", "BLT", "BGE"} -> "SUB_OP"
    [] i.op = "AND"                                 -> "AND_OP"
    [] i.op \in {"OR", "ORI"}                       -> "OR_OP"
    [] i.op \in {"XOR", "XORI"}                     -> "XOR_OP"
    [] i.op \in {"SLL", "SLLI"}                     -> "SHL_OP"
    [] i.op \in {"SRL", "SRLI", "SRAI"}             -> "LSR_OP"
    [] i.op = "SRA"                                 -> "ASR_OP"
    [] i.op \in {"SLT", "SLTI"}                     -> "SLT_OP"
    [] i.op \in {"SLTU", "SLTIU", "BLTU"}           -> "SLTU_OP"
    [] i.op = "BGEU"                                -> "BGEU_OP"
    [] OTHER                                        -> "ADD_OP"

AluFns == {"ADD_OP", "SUB_OP", "SHL_OP", "LSR_OP", "ASR_OP", "OR_OP", "AND_OP",
           "XOR_OP", "SLT_OP", "SLTU_OP", "BGEU_OP"}

\* (mutant) BGE and BGEU without the test for equality
BranchCondNoZ(op, z, n) ==
  \/ op = "BEQ" /\ z
  \/ op \in {"BLT", "BLTU"} /\ n
  \/ op = "BNE" /\ ~z
  \/ op \in {"BGE", "BGEU"} /\ ~n

\* The condition of a branch, from the two flags of the ALU
BranchCond(op, z, n) ==
  \/ op = "BEQ" /\ z
  \/ op \in {"BLT", "BLTU"} /\ n
  \/ op = "BNE" /\ ~z
  \/ op \in {"BGE", "BGEU"} /\ (~n \/ z)

-----------------------------------------------------------------------------
(* The arithmetic unit, whatever it computes, and what it is given *)

ASSUME AluAssumption ==
  \A fn \in AluFns : \A a, b \in Word :
    /\ AluRes(fn, a, b) \in Word
    /\ AluZ(fn, a, b) \in BOOLEAN
    /\ AluN(fn, a, b) \in BOOLEAN

\* Of an instruction, its pc and its two register operands
OperandA(i, p1)      == IF Op1Sel(i) = "imm" THEN ImmValue(i) ELSE p1
OperandB(i, ipc, p2) == CASE Op2Sel(i) = "rs2"  -> p2
                          [] Op2Sel(i) = "imm"  -> ImmValue(i)
                          [] Op2Sel(i) = "pc"   -> ipc
                          [] Op2Sel(i) = "zero" -> 0
Result(i, ipc, p1, p2) == AluRes(AluFn(i), OperandA(i, p1), OperandB(i, ipc, p2))
Taken(i, ipc, p1, p2)  ==
  LET a == OperandA(i, p1)  b == OperandB(i, ipc, p2)
  IN  IsBranch(i) /\ BranchCond(i.op, AluZ(AluFn(i), a, b), AluN(AluFn(i), a, b))

\* The data memory is an array of words: byte enables are tied to 4'hF, and the
\* two low bits of an address are dropped
DmemWords    == 0..((WordSize \div 4) - 1)
DmemIndex(a) == a \div 4

-----------------------------------------------------------------------------
(* The instruction memory: a program is what init_imem loads, slot by slot *)

Slots   == 0..(TextSlots - 1)
Program == [Slots -> Instr]

SlotOf(pc)      == ((pc - TextBase) % WordSize) \div 4
Imem(prog, pc)  == IF SlotOf(pc) \in Slots THEN prog[SlotOf(pc)] ELSE NoInstr

\* The target of a jump or branch, and the static successors of an instruction
Target(prog, pc) == Add(pc, ImmValue(Imem(prog, pc)))
Succ(prog, pc) ==
  CASE IsJump(Imem(prog, pc))   -> {Target(prog, pc)}
    [] IsBranch(Imem(prog, pc)) -> {Target(prog, pc), SeqPC(pc)}
    [] OTHER                    -> {SeqPC(pc)}
=============================================================================
