------------------------------- MODULE MIPSIss -------------------------------
(***************************************************************************)
(* The instruction set simulator of mips/iss (main.c, sim.c): the model the *)
(* two testbenches run beside their processor, and its compare functions.   *)
(* The program is in its text region and the data in another; an access to  *)
(* neither reads 0 or is lost.  Instructions are the records of MIPSIsa;    *)
(* the low two bits of a data address are dropped, so programs are taken to *)
(* align their accesses.                                                    *)
(***************************************************************************)
EXTENDS MIPSIsa, Binary

CONSTANTS
  ByteSize, HalfSize,   \* number of values of a byte and a half word: 2^8, 2^16
  UpperUnit,            \* the weight of the immediate of LUI: 2^16
  MemDataStart,         \* MEM_DATA_START: 0x2000
  DataWords,            \* words of the data region: 2^18
  V0, ExitCode,         \* the register and the value that SYSCALL stops at: 2, 0xA
  BitAnd(_,_), BitOr(_,_), BitXor(_,_),   \* the operators &, | and ^ of C
  DecodeWord(_),        \* the instruction a data word means, if it is executed
  EncodeInstr(_)        \* the data word an instruction is, if it is loaded

Unit == INSTANCE MIPSAlu

\* shifter.v cuts no shift amount of an instruction
ASSUME ShiftAssumption == WordBits \in Nat /\ ShamtSize <= 2 * WordBits

VARIABLES
  ipc, iregs, hi, lo,   \* CURRENT_STATE; between two calls NEXT_STATE is equal to it
  itext, idata,         \* the text and the data region
  runBit,               \* RUN_BIT
  prevPC,               \* prev_pc
  opcode                \* instr_opcode

issVars == <<ipc, iregs, hi, lo, itext, idata, runBit, prevPC, opcode>>

DataIndexes  == 0..(DataWords - 1)
DataIndex(a) == ((a - MemDataStart) % WordSize) \div 4

\* fill is the word init_memory fills the regions with
IssInit(program, bootRegs, fill) ==
  /\ ipc = 0 /\ prevPC = 0
  /\ iregs = bootRegs /\ hi = 0 /\ lo = 0
  /\ itext = program
  /\ idata = [w \in DataIndexes |-> fill]
  /\ runBit = TRUE
  /\ opcode = NoInstr

MemRead(a) == CASE SlotOf(a) \in Slots -> EncodeInstr(itext[SlotOf(a)])
                [] SlotOf(a) \notin Slots /\ DataIndex(a) \in DataIndexes -> idata[DataIndex(a)]
                [] OTHER -> 0

\* (mutant) only the lower half of the word is written
MemWriteHalf(a, v) ==
  /\ UNCHANGED itext
  /\ idata' = IF SlotOf(a) \notin Slots /\ DataIndex(a) \in DataIndexes
                THEN [idata EXCEPT ![DataIndex(a)] = v % HalfSize] ELSE idata

MemWrite(a, v) ==
  /\ itext' = IF SlotOf(a) \in Slots THEN [itext EXCEPT ![SlotOf(a)] = DecodeWord(v)]
                                     ELSE itext
  /\ idata' = IF SlotOf(a) \notin Slots /\ DataIndex(a) \in DataIndexes
                THEN [idata EXCEPT ![DataIndex(a)] = v] ELSE idata

-----------------------------------------------------------------------------
(* Values *)

AsInt(a) == IF 2 * a < WordSize THEN a ELSE a - WordSize
AsWord(b) == IF b THEN 1 ELSE 0
\* x | shift_const(k), the sign extension of a field of the given size
Extend(x, size) == IF 2 * x < size THEN x ELSE (WordSize - size) + x

\* The sign that SRA and SRAV look for, bit 28 moved down to bit 0 over three bits too
\* many, is never there, so they shift in zeros
RValue(i, a, b) ==
  CASE i.op \in {"ADD", "ADDU"} -> (a + b) % WordSize
    [] i.op \in {"SUB", "SUBU"} -> (a - b) % WordSize
    [] i.op = "AND"             -> BitAnd(a, b)
    [] i.op = "OR"              -> BitOr(a, b)
    [] i.op = "XOR"             -> BitXor(a, b)
    [] i.op = "NOR"             -> WordSize - 1 - BitOr(a, b)
    [] i.op = "SLT"             -> AsWord(AsInt(a) < AsInt(b))
    [] i.op = "SLTU"            -> AsWord(a < b)
    [] i.op = "SLL"             -> (b * Pow2[i.shamt]) % WordSize
    [] i.op \in {"SRL", "SRA"}  -> b \div Pow2[i.shamt]
    [] i.op = "SLLV"            -> (b * Pow2[a % ShamtSize]) % WordSize
    [] i.op \in {"SRLV", "SRAV"} -> b \div Pow2[a % ShamtSize]

IValue(op, a, imm) ==
  CASE op \in {"ADDI", "ADDIU"} -> (a + Extend(imm, ImmSize)) % WordSize
    [] op = "SLTI"  -> AsWord(AsInt(a) < AsInt(Extend(imm, ImmSize)))
    [] op = "SLTIU" -> AsWord(a < Extend(imm, ImmSize))
    [] op = "ANDI"  -> BitAnd(a, imm)
    [] op = "ORI"   -> BitOr(a, imm)
    [] op = "XORI"  -> BitXor(a, imm)
    [] op = "LUI"   -> (imm * UpperUnit) % WordSize

\* m is the word in memory
LoadedValue(op, m) ==
  CASE op = "LB"  -> Extend(m % ByteSize, ByteSize)
    [] op = "LH"  -> Extend(m % HalfSize, HalfSize)
    [] op = "LW"  -> m
    [] op = "LBU" -> m % ByteSize
    [] op = "LHU" -> m % HalfSize

\* SB and SH write a whole word, the rest of it zero
StoredValue(op, v) == CASE op = "SB" -> v % ByteSize
                        [] op = "SH" -> v % HalfSize
                        [] op = "SW" -> v

BCond(op, a, b) == CASE op = "BEQ"  -> a = b
                     [] op = "BNE"  -> a # b
                     [] op = "BLEZ" -> AsInt(a) <= 0
                     [] op = "BGTZ" -> AsInt(a) > 0
                     [] op \in {"BLTZ", "BLTZAL"} -> AsInt(a) < 0
                     [] op \in {"BGEZ", "BGEZAL"} -> AsInt(a) >= 0

-----------------------------------------------------------------------------
(* process_instruction: decode_instr_type and one arm per instruction *)

Fetched == IF SlotOf(ipc) \in Slots THEN itext[SlotOf(ipc)] ELSE NoInstr
\* There is no delay slot: the link is the next instruction
NextSeq == (ipc + 4) % WordSize
Goto(a) == ipc' = a % WordSize
KeepMem == UNCHANGED <<itext, idata>>
KeepAcc == UNCHANGED <<hi, lo>>

\* DIV and DIVU leave their arithmetic to the host, which traps
Traps(i) == /\ i.op \in {"DIV", "DIVU"} /\ i.rd # 0
            /\ \/ iregs[i.rt] = 0
               \/ i.op = "DIV" /\ AsInt(iregs[i.rs]) = -(WordSize \div 2)
                               /\ AsInt(iregs[i.rt]) = -1

\* C's division of integers, which truncates
Quotient(x, y) == IF (x >= 0) = (y > 0)
                    THEN (IF x < 0 THEN -x ELSE x) \div (IF y < 0 THEN -y ELSE y)
                    ELSE -((IF x < 0 THEN -x ELSE x) \div (IF y < 0 THEN -y ELSE y))
Divide(x, y) == /\ lo' = Quotient(x, y) % WordSize
                /\ hi' = (x - Quotient(x, y) * y) % WordSize

\* An instruction other than SYSCALL whose rd is 0 does nothing, a jump included
DoesNothing(i) == i.rd = 0 /\ i.op # "SYSCALL"

WritesRd(op) == op \in RTypes \ (AddRows \cup {"SYSCALL"})

\* The product is taken in 32 bits before it is widened: HI is always 0
Accumulate(i, a, b) ==
  \/ i.op \in {"MULT", "MULTU"} /\ hi' = 0 /\ lo' = (a * b) % WordSize
  \/ i.op = "MTHI" /\ hi' = a /\ UNCHANGED lo
  \/ i.op = "MTLO" /\ lo' = a /\ UNCHANGED hi
  \/ i.op = "DIV"  /\ Divide(AsInt(a), AsInt(b))
  \/ i.op = "DIVU" /\ Divide(a, b)
  \/ i.op \notin {"MULT", "MULTU", "MTHI", "MTLO", "DIV", "DIVU"} /\ KeepAcc

ExecuteR(i) ==
  LET a == iregs[i.rs]
      b == iregs[i.rt]
  IN  IF DoesNothing(i)
        THEN Goto(NextSeq) /\ KeepAcc /\ KeepMem /\ UNCHANGED iregs
        ELSE /\ Goto(IF i.op \in {"JR", "JALR"} THEN a ELSE NextSeq)
             /\ iregs' = CASE i.op = "JALR"    -> [iregs EXCEPT ![Link] = NextSeq]
                           [] i.op = "MFHI"    -> [iregs EXCEPT ![i.rd] = hi]
                           [] i.op = "MFLO"    -> [iregs EXCEPT ![i.rd] = lo]
                           [] WritesRd(i.op)   -> [iregs EXCEPT ![i.rd] = RValue(i, a, b)]
                           [] OTHER            -> iregs
             /\ Accumulate(i, a, b)
             /\ KeepMem

ExecuteI(i) ==
  LET a    == iregs[i.rs]
      addr == (a + Extend(i.imm, ImmSize)) % WordSize
      off  == 4 * Extend(i.imm, ImmSize)
  IN  /\ Goto(IF IsBranch(i) /\ BCond(i.op, a, iregs[i.rt]) THEN ipc + 4 + off ELSE NextSeq)
      /\ iregs' = CASE i.op \in LinkBranches -> [iregs EXCEPT ![Link] = NextSeq]
                    [] i.op \in ImmOps \cup {"LUI"} /\ i.rt # 0 ->
                         [iregs EXCEPT ![i.rt] = IValue(i.op, a, i.imm)]
                    [] i.op \in Loads /\ i.rt # 0 ->
                         [iregs EXCEPT ![i.rt] = LoadedValue(i.op, MemRead(addr))]
                    [] OTHER -> iregs
      /\ IF i.op \in Stores THEN MemWrite(addr, StoredValue(i.op, iregs[i.rt])) ELSE KeepMem
      /\ KeepAcc

\* (mutant) J links as JAL does
ExecuteJLinks(i) ==
  /\ Goto((NextSeq \div (4 * TargetSize)) * (4 * TargetSize) + 4 * i.imm)
  /\ iregs' = [iregs EXCEPT ![Link] = NextSeq]
  /\ KeepMem /\ KeepAcc

ExecuteJ(i) ==
  /\ Goto((NextSeq \div (4 * TargetSize)) * (4 * TargetSize) + 4 * i.imm)
  /\ iregs' = IF i.op = "JAL" THEN [iregs EXCEPT ![Link] = NextSeq] ELSE iregs
  /\ KeepMem /\ KeepAcc

\* SYSCALL clears RUN_BIT
Stops(i) == i.op = "SYSCALL" /\ iregs[V0] = ExitCode

\* A word no program loaded has no arm: everything stays, the pc too
ProcessInstruction ==
  LET i == Fetched
  IN  /\ opcode' = i
      /\ \/ i.op \in RTypes /\ ExecuteR(i)
         \/ i.op \in ITypes /\ ExecuteI(i)
         \/ i.op \in JTypes /\ ExecuteJ(i)
         \/ i.op = "NONE" /\ KeepMem /\ KeepAcc /\ UNCHANGED <<ipc, iregs>>

-----------------------------------------------------------------------------
(* compare_r, compare_i and compare_j.  d is the instruction the processor     *)
(* decoded; port1, port2 and dest are the registers it says it used, val the   *)
(* values it has for them now that the simulator has executed the instruction  *)
(* m.                                                                          *)

WrLink(m)  == m.op \in LinkBranches \cup {"JAL"}
ModelRs(m) == IF m.op \in Shifts THEN m.rt ELSE m.rs
ModelRt(m) == IF WrLink(m) THEN Link ELSE m.rt
TbRt(d)    == IF UsesLink(d) THEN Link ELSE d.rt

Agree(d, m, val) ==
  LET same(r, s) == r = s /\ val[r] = iregs'[s]
  IN  \/ d.op \in RTypes /\ same(Dest(d), m.rd) /\ same(Port1(d), ModelRs(m)) /\ same(TbRt(d), m.rt)
      \/ d.op \in ITypes /\ same(Port1(d), m.rs) /\ same(TbRt(d), ModelRt(m))
      \/ d.op \in JTypes /\ (WrLink(m) => same(TbRt(d), ModelRt(m)))

-----------------------------------------------------------------------------
(* When a processor can agree with the simulator: restrictions under which it  *)
(* is proved                                                                   *)

\* The ALU computes what sim.c computes.  Operations on two registers; shifts, which get
\* their amount on the second operand; immediates, extended; and the branch conditions,
\* of which all but two compare with 0.
AluAgrees ==
  \A a, b \in Word :
    /\ \A op \in RTypes \ (Shifts \cup AddRows \cup {"SYSCALL"}) :
         AluRes(AluFn([op |-> op]), a, b) = RValue([op |-> op], a, b)
    /\ \A op \in {"SLL", "SRL", "SRA"}, s \in 0..(ShamtSize - 1) :
         AluRes(AluFn([op |-> op]), b, s) = RValue([op |-> op, shamt |-> s], a, b)
    /\ \A op \in ImmOps, m \in 0..(ImmSize - 1) :
         AluRes(AluFn([op |-> op]), a, ImmValue([op |-> op, imm |-> m])) = IValue(op, a, m)
    /\ \A op \in Branches :
         LET fn == AluFn([op |-> op])
             c  == IF op \in {"BEQ", "BNE"} THEN b ELSE 0
         IN  BranchCond(op, AluZ(fn, a, c), AluN(fn, a, c)) = BCond(op, a, b)

\* Enough for that: the arithmetic unit is alu.v
AluWired ==
  \A fn \in AluFns : \A a, b \in Word :
    /\ AluRes(fn, a, b) = Unit!Res(fn, a, b)
    /\ AluZ(fn, a, b) = Unit!Z(fn, a, b)
    /\ AluN(fn, a, b) = Unit!N(fn, a, b)

\* The processors have no variable shifts and move whole words only; LUI and JALR have
\* other rows; the testbenches look for a SYSCALL without a code; and the shift of a jump's
\* target must not lose its bits.  HI and LO are 0 as long as the instructions that
\* write them have no rd, and then the sum of register 0 with itself is what MFHI moves.
Alike(i) == /\ i.op \notin {"SLLV", "SRLV", "SRAV", "JALR", "LUI", "SB", "SH"}
                             \cup (Loads \ {"LW"})
            /\ i.op \in AddRows => i.rd = 0 \/ (i.op \in {"MFHI", "MFLO"} /\ i.rs = 0 /\ i.rt = 0)
            /\ i.op = "SYSCALL" => i = [NoInstr EXCEPT !.op = "SYSCALL"]
            /\ IsJump(i) => 4 * i.imm < TargetSize

\* The text is in the first block of jump targets, and data_mem cuts the addresses into
\* words where the simulator does
SameLayout ==
  /\ TextSlots < TargetSize
  /\ \A a, b \in Word : DataIndex(a) = DataIndex(b) <=> DmemIndex(a) = DmemIndex(b)

\* The instruction the simulator executes next loads from the data region only, and
\* stores nothing into the text
KeepsToData ==
  LET i == Fetched
      a == (iregs[i.rs] + Extend(i.imm, ImmSize)) % WordSize
  IN  /\ i.op \in Loads => SlotOf(a) \notin Slots /\ DataIndex(a) \in DataIndexes
      /\ i.op \in Stores => SlotOf(a) \notin Slots

\* Enough for that: a load or a store from register 0
FixedAddress(i) ==
  LET a == Extend(i.imm, ImmSize) % WordSize
  IN  i.op \in Loads \cup Stores =>
        i.rs = 0 /\ SlotOf(a) \notin Slots /\ DataIndex(a) \in DataIndexes
=============================================================================
