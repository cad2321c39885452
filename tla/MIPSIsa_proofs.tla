----------------------------- MODULE MIPSIsa_proofs -----------------------------
(***************************************************************************)
(* Lemmas about the MIPS instruction set that the theorems of the pipeline  *)
(* and of the two testbenches share: what its operators return, and that    *)
(* the simulator executes an instruction as the processors do, when the     *)
(* instruction is one on which they can agree.                              *)
(***************************************************************************)
EXTENDS MIPSIss, TLAPS

-----------------------------------------------------------------------------
(* What the operators of MIPSIsa return *)

LEMMA WordFacts == /\ 0 \in Word /\ 4 \in Word /\ Word \subseteq Int /\ Word \subseteq Nat
                   /\ 0 \in Reg /\ Link \in Reg /\ Link # 0
  BY WordAssumption DEF Word, Reg

LEMMA ModType == \A a \in Int : a % WordSize \in Word
  BY WordAssumption DEF Word

LEMMA AddType == \A a, b \in Int : Add(a, b) \in Word
  BY ModType DEF Add

LEMMA DmemIndexType == \A a \in Word : DmemIndex(a) \in DmemWords
  <1> SUFFICES ASSUME NEW a \in Word PROVE DmemIndex(a) \in DmemWords
    OBVIOUS
  <1>1. (a - DataBase) % WordSize \in Word
    BY ModType, WordFacts, WordAssumption
  <1> QED
    BY <1>1, WordAssumption DEF Word, DmemIndex, DmemWords

LEMMA NoInstrType == NoInstr \in Instr /\ ~IsBranch(NoInstr) /\ ~IsJump(NoInstr)
                     /\ ~IsValid(NoInstr) /\ ~RegWr(NoInstr) /\ ~UsesLink(NoInstr)
                     /\ ~MemWr(NoInstr) /\ ~MemToReg(NoInstr)
                     /\ Port1(NoInstr) = 0 /\ Port2(NoInstr) = 0 /\ Dest(NoInstr) = 0
  BY WordAssumption DEF NoInstr, Instr, InstrFields, ValidOps, Reg, ImmRange, RTypes,
     ITypes, JTypes, Loads, Stores, Branches, LinkBranches, ImmOps, Shifts, AddRows,
     IsBranch, IsJump, IsValid, RegWr, UsesLink, MemWr, MemToReg, Port1, Port2, Dest

LEMMA InstrType ==
  ASSUME NEW i \in Instr
  PROVE  /\ i.op \in ValidOps \cup {"NONE"} /\ i.rd \in Reg /\ i.rs \in Reg /\ i.rt \in Reg
         /\ i.shamt \in 0..(ShamtSize - 1) /\ i.imm \in ImmRange(i.op) /\ i.imm \in Nat
  BY DEF Instr, InstrFields

LEMMA PortType ==
  ASSUME NEW i \in Instr
  PROVE  Port1(i) \in Reg /\ Port2(i) \in Reg /\ Dest(i) \in Reg
  BY InstrType, WordFacts DEF Port1, Port2, Dest

LEMMA ControlType ==
  ASSUME NEW i \in Instr
  PROVE  AluFn(i) \in AluFns /\ AluSrc(i) \in {"zero", "shamt", "imm", "port2"}
  <1>1. AluFn(i) \in AluFns
    BY DEF AluFn, AluFns
  <1>2. AluSrc(i) \in {"zero", "shamt", "imm", "port2"}
    BY DEF AluSrc
  <1> QED
    BY <1>1, <1>2

LEMMA ImmValueType ==
  ASSUME NEW i \in Instr
  PROVE  ImmValue(i) \in Word
  <1>1. ImmField(i) \in 0..(ImmSize - 1)
    BY InstrType, WordAssumption DEF ImmField
  <1> QED
    BY <1>1, WordAssumption DEF ImmValue, Word

LEMMA AluType ==
  ASSUME NEW i \in Instr, NEW p1 \in Word, NEW p2 \in Word
  PROVE  Result(i, p1, p2) \in Word
  <1>1. i.shamt \in Word
    BY InstrType, WordAssumption DEF Word
  <1>2. OperandB(i, p2) \in Word
    BY <1>1, ImmValueType, ControlType, WordFacts DEF OperandB
  <1> QED
    BY <1>2, ControlType, AluAssumption DEF Result

LEMMA TargetType ==
  ASSUME NEW i \in Instr, NEW seq \in Word
  PROVE  BranchTarget(seq, i) \in Word /\ JumpTarget(seq, i) \in Word
  <1>1. (4 * ImmValue(i)) % WordSize \in Word
    <2>1. 4 * ImmValue(i) \in Int
      BY ImmValueType, WordAssumption DEF Word
    <2> QED
      BY <2>1, ModType
  <1>2. BranchTarget(seq, i) \in Word
    BY <1>1, AddType, WordFacts DEF BranchTarget
  <1>3. JumpTarget(seq, i) \in Word
    <2> DEFINE high == (seq \div (4 * TargetSize)) * TargetSize
               low  == (4 * i.imm) % TargetSize
    <2>1. seq \div (4 * TargetSize) \in Int
      BY WordAssumption, WordFacts
    <2>2. high \in Int /\ low \in Int
      BY <2>1, InstrType, WordAssumption
    <2>3. (high + low) % WordSize \in Word
      <3> HIDE DEF high, low
      <3> QED
        BY <2>2, ModType
    <2> QED
      BY <2>3 DEF JumpTarget
  <1> QED
    BY <1>2, <1>3

LEMMA ImemType ==
  ASSUME NEW p \in Program, NEW a \in Word
  PROVE  Imem(p, a) \in Instr
  BY NoInstrType DEF Imem, Program

LEMMA BranchValid ==
  ASSUME NEW i, IsBranch(i)
  PROVE  IsValid(i) /\ ~IsJump(i)
  BY DEF IsBranch, IsValid, IsNop, IsJump, Branches, LinkBranches, JTypes

\* Which instructions write their link, and which of these forward
LEMMA ControlRows ==
  ASSUME NEW i
  PROVE  /\ IsJump(i) => IsValid(i) /\ ~IsBranch(i)
         /\ UsesLink(i) /\ ~RegWr(i) => i.op \in LinkBranches
         /\ i.op \in LinkBranches => IsBranch(i) /\ UsesLink(i) /\ Dest(i) = Link
         /\ MemToReg(i) => ~UsesLink(i) /\ RegWr(i)
         /\ MemToReg(i) \/ MemWr(i) \/ UsesLink(i) => IsValid(i)
         /\ MemToReg(i) => ~IsJump(i) /\ ~IsBranch(i)
         /\ IsLw(i) => MemToReg(i)
  BY DEF IsJump, IsValid, IsNop, IsBranch, UsesLink, RegWr, MemToReg, MemWr, IsLw, Dest,
         RTypes, ITypes, JTypes, Shifts, AddRows, Loads, Stores, Branches, LinkBranches, ImmOps

-----------------------------------------------------------------------------
(* Words wrap around *)

LEMMA Times ==
  ASSUME NEW w \in Nat, NEW k \in Int
  PROVE  (k >= 1 => w * k >= w) /\ (k <= -1 => w * k <= -w)
  OBVIOUS

LEMMA Divided ==
  ASSUME NEW w \in Nat, w > 0, NEW x \in Int
  PROVE  x \div w \in Int /\ x % w \in 0..(w - 1) /\ x = w * (x \div w) + (x % w)
  OBVIOUS

\* A remainder is what its range and the multiple beside it say
LEMMA Remainder ==
  ASSUME NEW w \in Nat, w > 0, NEW k \in Int, NEW r \in 0..(w - 1)
  PROVE  (w * k + r) % w = r /\ (w * k + r) \div w = k
  <1> DEFINE x == w * k + r
             q == x \div w
             s == x % w
  <1>1. x \in Int
    OBVIOUS
  <1> HIDE DEF x
  <1>2. q \in Int /\ s \in 0..(w - 1) /\ x = w * q + s
    BY <1>1, Divided
  <1> HIDE DEF q, s
  <1>3. w * (q - k) = r - s
    BY <1>2 DEF x
  <1>4. ~(q - k >= 1) /\ ~(q - k <= -1)
    BY <1>2, <1>3, Times
  <1>5. q = k
    BY <1>2, <1>4
  <1>6. s = r
    BY <1>2, <1>3, <1>5
  <1> QED
    BY <1>5, <1>6 DEF q, s, x

LEMMA WordStays ==
  ASSUME NEW w \in Nat, w > 0, NEW x \in 0..(w - 1)
  PROVE  x % w = x /\ x \div w = 0
  <1>1. w * 0 + x = x
    OBVIOUS
  <1> QED
    BY <1>1, Remainder

\* A sum wraps around as the sum of what its parts wrap to
LEMMA SumWraps ==
  ASSUME NEW w \in Nat, w > 0, NEW x \in Int, NEW y \in Int
  PROVE  ((x % w) + (y % w)) % w = (x + y) % w
  <1> DEFINE p == x \div w
             r == x % w
             q == y \div w
             s == y % w
             t == (r + s) \div w
             u == (r + s) % w
  <1>1. /\ p \in Int /\ r \in 0..(w - 1) /\ x = w * p + r
        /\ q \in Int /\ s \in 0..(w - 1) /\ y = w * q + s
    BY Divided
  <1> HIDE DEF p, q, r, s
  <1>2. t \in Int /\ u \in 0..(w - 1) /\ r + s = w * t + u
    BY <1>1, Divided
  <1> HIDE DEF t, u
  <1>3. x + y = w * (p + q + t) + u
    BY <1>1, <1>2
  <1>4. (x + y) % w = u
    BY <1>1, <1>2, <1>3, Remainder
  <1> QED
    BY <1>4 DEF r, s, u

-----------------------------------------------------------------------------
(* The two accounts of an instruction: control.v and alu.v, and sim.c *)

LEMMA FieldIsImm ==
  ASSUME NEW i \in Instr, i.op \in ITypes
  PROVE  /\ i.imm \in 0..(ImmSize - 1)
         /\ Signed(i) => ImmValue(i) = Extend(i.imm, ImmSize)
  <1>1. i.imm \in 0..(ImmSize - 1)
    BY InstrType DEF ImmRange, ITypes, JTypes, Loads, Stores, Branches, LinkBranches, ImmOps
  <1>2. ImmSize \in Nat /\ ImmSize > 0 /\ WordSize \in Nat
    BY WordAssumption
  <1>3. ImmField(i) = i.imm
    BY <1>1, <1>2, WordStays DEF ImmField
  <1> QED
    BY <1>1, <1>2, <1>3 DEF ImmValue, Extend

\* What the ALU is given depends on the operation, the immediate and the shift amount
LEMMA RowsByOp ==
  ASSUME NEW i
  PROVE  /\ AluFn(i) = AluFn([op |-> i.op])
         /\ ImmValue([op |-> i.op, imm |-> i.imm]) = ImmValue(i)
  <1>1. AluFn(i) = AluFn([op |-> i.op])
    BY DEF AluFn
  <1>2. ImmValue([op |-> i.op, imm |-> i.imm]) = ImmValue(i)
    BY DEF ImmValue, ImmField, Signed
  <1> QED
    BY <1>1, <1>2

\* The R-types whose result sim.c writes to rd, on which the two agree
Computing == {"ADD", "ADDU", "SUB", "SUBU", "AND", "OR", "XOR", "NOR", "SLT", "SLTU"}

LEMMA SameRegister ==
  ASSUME AluAgrees, NEW i \in Instr, NEW a \in Word, NEW b \in Word
  PROVE  /\ i.op \in Computing => Result(i, a, b) = RValue(i, a, b)
         /\ i.op \in {"SLL", "SRL", "SRA"} => Result(i, b, b) = RValue(i, a, b)
  <1>1. ASSUME i.op \in Computing PROVE Result(i, a, b) = RValue(i, a, b)
    <2>1. i.op \in RTypes \ (Shifts \cup AddRows \cup {"SYSCALL"})
      BY <1>1 DEF Computing, RTypes, Shifts, AddRows
    <2>2. AluRes(AluFn([op |-> i.op]), a, b) = RValue([op |-> i.op], a, b)
      BY <2>1 DEF AluAgrees
    <2>3. AluSrc(i) = "port2"
      BY <1>1 DEF AluSrc, Computing, Shifts, JTypes, ITypes, Loads, Stores, Branches,
                  LinkBranches, ImmOps
    <2>4. RValue(i, a, b) = RValue([op |-> i.op], a, b)
      BY <1>1 DEF RValue, Computing
    <2> QED
      BY <2>2, <2>3, <2>4, RowsByOp DEF Result, OperandB
  <1>2. ASSUME i.op \in {"SLL", "SRL", "SRA"} PROVE Result(i, b, b) = RValue(i, a, b)
    <2>1. i.shamt \in 0..(ShamtSize - 1)
      BY InstrType
    <2>2. AluRes(AluFn([op |-> i.op]), b, i.shamt) = RValue([op |-> i.op, shamt |-> i.shamt], a, b)
      BY <1>2, <2>1 DEF AluAgrees
    <2>3. AluSrc(i) = "shamt"
      BY <1>2 DEF AluSrc, Shifts, JTypes, ITypes, Loads, Stores, Branches, LinkBranches, ImmOps
    <2>4. RValue(i, a, b) = RValue([op |-> i.op, shamt |-> i.shamt], a, b)
      BY <1>2 DEF RValue
    <2> QED
      BY <2>2, <2>3, <2>4, RowsByOp DEF Result, OperandB
  <1> QED
    BY <1>1, <1>2

LEMMA SameImmediate ==
  ASSUME AluAgrees, NEW i \in Instr, NEW a \in Word, NEW b \in Word
  PROVE  /\ i.op \in ImmOps => Result(i, a, b) = IValue(i.op, a, i.imm)
         /\ i.op \in {"LW", "SW"} => Result(i, a, b) = (a + Extend(i.imm, ImmSize)) % WordSize
  <1>1. \A op \in ImmOps, m \in 0..(ImmSize - 1) :
          AluRes(AluFn([op |-> op]), a, ImmValue([op |-> op, imm |-> m])) = IValue(op, a, m)
    BY DEF AluAgrees
  <1>2. ASSUME i.op \in ImmOps \cup {"LW", "SW"}
        PROVE  /\ i.imm \in 0..(ImmSize - 1)
               /\ Result(i, a, b) = AluRes(AluFn(i), a, ImmValue(i))
    <2>1. i.op \in ITypes
      BY <1>2 DEF ITypes, Loads, Stores
    <2>2. AluSrc(i) = "imm"
      BY <1>2 DEF AluSrc, ImmOps, ITypes, Shifts, JTypes, Loads, Stores, Branches, LinkBranches
    <2> QED
      BY <2>1, <2>2, FieldIsImm DEF Result, OperandB
  <1>3. i.op \in ImmOps => Result(i, a, b) = IValue(i.op, a, i.imm)
    BY <1>1, <1>2, RowsByOp
  <1>4. ASSUME i.op \in {"LW", "SW"}
        PROVE  Result(i, a, b) = (a + Extend(i.imm, ImmSize)) % WordSize
    <2>1. AluFn(i) = "ADD_OP" /\ AluFn([op |-> "ADDI"]) = "ADD_OP"
      BY <1>4 DEF AluFn, LinkBranches
    <2>2. ImmValue(i) = ImmValue([op |-> "ADDI", imm |-> i.imm])
      BY <1>4 DEF ImmValue, ImmField, Signed
    <2>3. IValue("ADDI", a, i.imm) = (a + Extend(i.imm, ImmSize)) % WordSize
      BY DEF IValue
    <2>4. "ADDI" \in ImmOps
      BY DEF ImmOps
    <2> QED
      BY <1>1, <1>2, <1>4, <2>1, <2>2, <2>3, <2>4
  <1> QED
    BY <1>3, <1>4

\* MFHI and MFLO are additions in the control table
LEMMA SameMove ==
  ASSUME AluAgrees, NEW i \in Instr, i.op \in {"MFHI", "MFLO"}
  PROVE  Result(i, 0, 0) = 0
  <1>1. AluFn(i) = "ADD_OP" /\ AluFn([op |-> "ADD"]) = "ADD_OP" /\ AluSrc(i) = "port2"
    BY DEF AluFn, AluSrc, LinkBranches, Shifts, JTypes, ITypes, Loads, Stores, Branches, ImmOps
  <1>2. "ADD" \in RTypes \ (Shifts \cup AddRows \cup {"SYSCALL"})
    BY DEF RTypes, Shifts, AddRows
  <1>3. AluRes("ADD_OP", 0, 0) = RValue([op |-> "ADD"], 0, 0)
    BY <1>1, <1>2, WordFacts DEF AluAgrees
  <1>4. RValue([op |-> "ADD"], 0, 0) = (0 + 0) % WordSize
    BY DEF RValue
  <1>5. (0 + 0) % WordSize = 0
    BY WordAssumption, WordStays
  <1> QED
    BY <1>1, <1>3, <1>4, <1>5 DEF Result, OperandB

LEMMA SameCondition ==
  ASSUME AluAgrees, NEW i \in Instr, IsBranch(i), NEW a \in Word, NEW b \in Word
  PROVE  Taken(i, a, b) = BCond(i.op, a, b)
  <1> DEFINE c == IF i.op \in {"BEQ", "BNE"} THEN b ELSE 0
  <1>1. i.op \in Branches
    BY DEF IsBranch
  <1>2. BranchCond(i.op, AluZ(AluFn([op |-> i.op]), a, c), AluN(AluFn([op |-> i.op]), a, c))
          = BCond(i.op, a, b)
    BY <1>1 DEF AluAgrees
  <1>3. OperandB(i, b) = c
    <2>1. AluSrc(i) = IF i.op \in {"BEQ", "BNE"} THEN "port2" ELSE "zero"
      BY <1>1 DEF AluSrc, Branches, LinkBranches, Shifts, JTypes, ITypes, Loads, Stores, ImmOps
    <2> QED
      BY <2>1 DEF OperandB
  <1> HIDE DEF c
  <1>4. BranchCond(i.op, AluZ(AluFn(i), a, c), AluN(AluFn(i), a, c)) \in BOOLEAN
    BY DEF BranchCond
  <1> QED
    BY <1>2, <1>3, <1>4, RowsByOp DEF Taken

\* Where a branch and a jump go
LEMMA SamePlace ==
  ASSUME SameLayout, NEW i \in Instr, Alike(i), NEW p \in Word, SlotOf(p) \in Slots
  PROVE  /\ IsBranch(i) => (p + 4 + 4 * Extend(i.imm, ImmSize)) % WordSize = BranchTarget(SeqPC(p), i)
         /\ IsJump(i) => ((SeqPC(p) \div (4 * TargetSize)) * (4 * TargetSize) + 4 * i.imm) % WordSize
                           = JumpTarget(SeqPC(p), i)
  <1>0. WordSize \in Nat /\ WordSize > 4 /\ p \in Int /\ p >= 0
    BY WordAssumption, WordFacts DEF Word
  <1>1. ASSUME IsBranch(i)
        PROVE  (p + 4 + 4 * Extend(i.imm, ImmSize)) % WordSize = BranchTarget(SeqPC(p), i)
    <2> DEFINE off == 4 * ImmValue(i)
    <2>1. i.op \in ITypes /\ Signed(i)
      BY <1>1 DEF IsBranch, ITypes, Signed, Branches, LinkBranches
    <2>2. Extend(i.imm, ImmSize) = ImmValue(i) /\ ImmValue(i) \in Int
      BY <2>1, FieldIsImm, ImmValueType, WordFacts
    <2>3. off \in Int /\ p + 4 \in Int
      BY <1>0, <2>2
    <2> HIDE DEF off
    <2>4. WordSize > 0
      BY <1>0
    <2>5. (((p + 4) % WordSize) + (off % WordSize)) % WordSize = ((p + 4) + off) % WordSize
      BY <1>0, <2>3, <2>4, SumWraps, Zenon
    <2> QED
      BY <2>2, <2>5 DEF off, BranchTarget, SeqPC, Add
  <1>2. ASSUME IsJump(i)
        PROVE  ((SeqPC(p) \div (4 * TargetSize)) * (4 * TargetSize) + 4 * i.imm) % WordSize
                 = JumpTarget(SeqPC(p), i)
    <2> DEFINE t == 4 * TargetSize
               seq == SeqPC(p)
    <2>1. TargetSize \in Nat /\ TargetSize > 0 /\ TextSlots \in Nat /\ TextSlots + 1 <= TargetSize
      BY WordAssumption DEF SameLayout
    <2>2. p + 4 < t
      <3>1. p \div 4 <= TextSlots - 1
        BY <2>1 DEF SlotOf, Slots
      <3> QED
        BY <1>0, <2>1, <3>1
    <2>3. seq \in 0..(t - 1)
      <3>1. CASE p + 4 < WordSize
        <4>1. (p + 4) % WordSize = p + 4
          BY <1>0, <3>1, WordStays
        <4> QED
          BY <1>0, <2>1, <2>2, <4>1 DEF SeqPC, Add
      <3>2. CASE ~(p + 4 < WordSize)
        <4>1. /\ (p + 4) % WordSize \in 0..(WordSize - 1)
          BY <1>0
        <4> QED
          BY <1>0, <2>1, <2>2, <3>2, <4>1 DEF SeqPC, Add
      <3> QED
        BY <3>1, <3>2
    <2>4. seq \div t = 0
      BY <2>1, <2>3, WordStays
    <2>5. i.imm \in Nat /\ 4 * i.imm \in 0..(TargetSize - 1)
      BY <1>2, <2>1, InstrType DEF Alike
    <2>6. (4 * i.imm) % TargetSize = 4 * i.imm
      BY <2>1, <2>5, WordStays
    <2>7. 0 * t + 4 * i.imm = 0 * TargetSize + 4 * i.imm
      BY <2>1, <2>5
    <2> QED
      BY <2>4, <2>6, <2>7 DEF JumpTarget
  <1> QED
    BY <1>1, <1>2

-----------------------------------------------------------------------------
(* The simulator executes an instruction as the processors do.  These are the  *)
(* processors' terms: where the instruction i at p sends control, what it      *)
(* computes, the value it writes if it has read m, and the register file then. *)

LeadsTo(i, p, rf) ==
  IF IsJump(i) THEN JumpTarget(SeqPC(p), i)
  ELSE IF Taken(i, rf[Port1(i)], rf[Port2(i)]) THEN BranchTarget(SeqPC(p), i) ELSE SeqPC(p)
Computed(i, rf) == Result(i, rf[Port1(i)], rf[Port2(i)])
ValueOf(i, p, res, m) == IF UsesLink(i) THEN SeqPC(p)
                         ELSE IF Dest(i) = 0 THEN 0 ELSE IF MemToReg(i) THEN m ELSE res
Written(i, rf, v) == IF RegWr(i) \/ UsesLink(i) THEN [rf EXCEPT ![Dest(i)] = v] ELSE rf

\* The simulator is about to execute i
Executing(i) ==
  /\ AluAgrees /\ SameLayout /\ KeepsToData /\ Alike(i)
  /\ i = Fetched /\ i \in Instr /\ i.op # "NONE"
  /\ ipc \in Word /\ SlotOf(ipc) \in Slots
  /\ iregs \in [Reg -> Word] /\ iregs[0] = 0 /\ hi = 0 /\ lo = 0
  /\ idata \in [DataIndexes -> Word]

SameRegs(i) ==
  iregs' = Written(i, iregs, ValueOf(i, ipc, Computed(i, iregs), idata[DataIndex(Computed(i, iregs))]))
KeepsAll == itext' = itext /\ idata' = idata /\ hi' = hi /\ lo' = lo

\* and has executed it
Executed(i) ==
  /\ opcode' = i
  /\ ipc' = LeadsTo(i, ipc, iregs)
  /\ SameRegs(i)
  /\ itext' = itext /\ hi' = 0 /\ lo' = 0
  /\ idata' \in [DataIndexes -> Word]
  /\ \A x \in Word : DataIndex(x) \in DataIndexes =>
       idata'[DataIndex(x)] = IF MemWr(i) /\ DmemIndex(x) = DmemIndex(Computed(i, iregs))
                                THEN iregs[i.rt] ELSE idata[DataIndex(x)]

LEMMA ExecutingTypes ==
  ASSUME NEW i, Executing(i)
  PROVE  /\ i.rs \in Reg /\ i.rt \in Reg /\ i.rd \in Reg
         /\ iregs[i.rs] \in Word /\ iregs[i.rt] \in Word
         /\ NextSeq = SeqPC(ipc) /\ NextSeq % WordSize = SeqPC(ipc)
  <1>1. i.rs \in Reg /\ i.rt \in Reg /\ i.rd \in Reg
    BY InstrType DEF Executing
  <1>2. NextSeq = SeqPC(ipc)
    BY DEF NextSeq, SeqPC, Add
  <1>3. SeqPC(ipc) \in Word
    BY AddType, WordFacts DEF Executing, SeqPC
  <1>4. SeqPC(ipc) % WordSize = SeqPC(ipc)
    BY <1>3, WordAssumption, WordStays DEF Word
  <1> QED
    BY <1>1, <1>2, <1>4 DEF Executing

\* The rows of the control table, by the type of the instruction
LEMMA RowsOfR ==
  ASSUME NEW i, i.op \in RTypes, i.op # "JALR"
  PROVE  /\ ~IsJump(i) /\ ~IsBranch(i) /\ ~MemWr(i) /\ ~MemToReg(i) /\ ~UsesLink(i)
         /\ Dest(i) = i.rd /\ Port2(i) = i.rt /\ (RegWr(i) <=> i.op # "SYSCALL")
         /\ Port1(i) = IF i.op \in Shifts THEN i.rt ELSE i.rs
  <1> USE DEF RTypes, Shifts, AddRows, Loads, Stores, LinkBranches, Branches, ImmOps, ITypes, JTypes
  <1>1. ~IsJump(i) /\ ~IsBranch(i) /\ ~MemWr(i) /\ ~MemToReg(i) /\ ~UsesLink(i)
    BY DEF IsJump, IsBranch, MemWr, MemToReg, UsesLink
  <1>2. RegWr(i) <=> i.op # "SYSCALL"
    BY DEF RegWr
  <1> QED
    BY <1>1, <1>2 DEF Dest, Port1, Port2

LEMMA RowsOfI ==
  ASSUME NEW i, i.op \in ITypes
  PROVE  /\ ~IsJump(i) /\ Port1(i) = i.rs /\ Port2(i) = i.rt
         /\ UsesLink(i) <=> i.op \in LinkBranches
         /\ Dest(i) = IF i.op \in LinkBranches THEN Link ELSE i.rt
         /\ i.op \in Branches => IsBranch(i) /\ ~RegWr(i) /\ ~MemWr(i)
         /\ i.op \in ImmOps => ~IsBranch(i) /\ RegWr(i) /\ ~MemWr(i) /\ ~MemToReg(i)
         /\ i.op \in Loads => ~IsBranch(i) /\ RegWr(i) /\ ~MemWr(i) /\ MemToReg(i)
         /\ i.op \in Stores => ~IsBranch(i) /\ ~RegWr(i) /\ MemWr(i)
  <1> USE DEF RTypes, Shifts, AddRows, Loads, Stores, LinkBranches, Branches, ImmOps, ITypes, JTypes
  <1>1. ~IsJump(i) /\ (UsesLink(i) <=> i.op \in LinkBranches) /\ (IsBranch(i) <=> i.op \in Branches)
    BY DEF IsJump, UsesLink, IsBranch
  <1>2. /\ i.op \in Branches => ~RegWr(i) /\ ~MemWr(i)
        /\ i.op \in ImmOps => RegWr(i) /\ ~MemWr(i) /\ ~MemToReg(i)
        /\ i.op \in Loads => RegWr(i) /\ ~MemWr(i) /\ MemToReg(i)
        /\ i.op \in Stores => ~RegWr(i) /\ MemWr(i)
    BY DEF RegWr, MemWr, MemToReg
  <1>3. i.op \in ImmOps \cup Loads \cup Stores => i.op \notin Branches
    OBVIOUS
  <1>4. Port1(i) = i.rs /\ Port2(i) = i.rt /\ i.op \notin RTypes
    BY DEF Port1, Port2
  <1> QED
    BY <1>1, <1>2, <1>3, <1>4 DEF Dest

LEMMA RowsOfJ ==
  ASSUME NEW i, i.op \in JTypes
  PROVE  /\ IsJump(i) /\ ~MemWr(i) /\ (UsesLink(i) <=> i.op = "JAL")
         /\ i.op = "JAL" => Dest(i) = Link
         /\ i.op = "J" => ~RegWr(i) /\ ~UsesLink(i)
  BY DEF IsJump, RegWr, MemWr, UsesLink, Dest, RTypes, Shifts, AddRows, Loads, Stores,
         LinkBranches, ImmOps, JTypes

\* What an instruction that keeps the memory must do besides
LEMMA ExecutedInRegs ==
  ASSUME NEW i, Executing(i), ~MemWr(i), opcode' = i, ipc' = LeadsTo(i, ipc, iregs),
         SameRegs(i), KeepsAll
  PROVE  Executed(i)
  BY DEF Executing, Executed, KeepsAll

LEMMA ExecutedR ==
  ASSUME NEW i, Executing(i), i.op \in RTypes, ExecuteR(i), opcode' = i
  PROVE  Executed(i)
  <1> DEFINE a == iregs[i.rs]
             b == iregs[i.rt]
  <1>1. /\ a \in Word /\ b \in Word /\ NextSeq % WordSize = SeqPC(ipc) /\ i.rd \in Reg
        /\ i \in Instr /\ AluAgrees /\ Alike(i)
        /\ iregs \in [Reg -> Word] /\ iregs[0] = 0 /\ hi = 0 /\ lo = 0
    BY ExecutingTypes DEF Executing
  <1>2. /\ i.op # "JALR" /\ i.op \notin {"SLLV", "SRLV", "SRAV"}
        /\ i.op \in AddRows => i.rd = 0 \/ (i.op \in {"MFHI", "MFLO"} /\ i.rs = 0 /\ i.rt = 0)
    BY <1>1 DEF Alike
  <1>3. /\ ~IsJump(i) /\ ~IsBranch(i) /\ ~MemWr(i) /\ ~MemToReg(i) /\ ~UsesLink(i)
        /\ Dest(i) = i.rd /\ Port2(i) = i.rt /\ (RegWr(i) <=> i.op # "SYSCALL")
        /\ Port1(i) = IF i.op \in Shifts THEN i.rt ELSE i.rs
    BY <1>2, RowsOfR
  <1>4. LeadsTo(i, ipc, iregs) = SeqPC(ipc)
    BY <1>3 DEF LeadsTo, Taken
  <1>5. /\ ipc' = SeqPC(ipc) /\ KeepsAll
        /\ iregs' = IF i.op = "SYSCALL" \/ i.rd = 0 THEN iregs
                    ELSE IF i.op \in {"MFHI", "MFLO"} THEN [iregs EXCEPT ![i.rd] = 0]
                    ELSE [iregs EXCEPT ![i.rd] = RValue(i, a, b)]
    <2>1. CASE DoesNothing(i)
      BY <1>1, <2>1 DEF ExecuteR, Goto, KeepMem, KeepAcc, KeepsAll, DoesNothing
    <2>2. CASE ~DoesNothing(i)
      <3>1. i.op = "SYSCALL" \/ (i.rd # 0 /\ (i.op \in AddRows => i.op \in {"MFHI", "MFLO"}))
        BY <1>2, <2>2 DEF DoesNothing
      <3>2. i.op \notin {"JR", "JALR", "MULT", "MULTU", "MTHI", "MTLO", "DIV", "DIVU"}
        BY <3>1 DEF AddRows
      <3>3. /\ Goto(NextSeq) /\ KeepMem /\ KeepAcc
            /\ iregs' = CASE i.op = "JALR"  -> [iregs EXCEPT ![Link] = NextSeq]
                          [] i.op = "MFHI"  -> [iregs EXCEPT ![i.rd] = hi]
                          [] i.op = "MFLO"  -> [iregs EXCEPT ![i.rd] = lo]
                          [] WritesRd(i.op) -> [iregs EXCEPT ![i.rd] = RValue(i, a, b)]
                          [] OTHER          -> iregs
        BY <2>2, <3>2 DEF ExecuteR, Accumulate
      <3>4. i.op \notin {"SYSCALL", "MFHI", "MFLO"} => WritesRd(i.op)
        BY <3>1 DEF WritesRd
      <3>5. i.op \in {"SYSCALL", "MFHI", "MFLO"} => ~WritesRd(i.op)
        BY DEF WritesRd, AddRows
      <3>6. iregs' = IF i.op = "SYSCALL" \/ i.rd = 0 THEN iregs
                     ELSE IF i.op \in {"MFHI", "MFLO"} THEN [iregs EXCEPT ![i.rd] = 0]
                     ELSE [iregs EXCEPT ![i.rd] = RValue(i, a, b)]
        BY <1>1, <3>1, <3>2, <3>3, <3>4, <3>5
      <3> QED
        BY <1>1, <3>3, <3>6 DEF Goto, KeepMem, KeepAcc, KeepsAll
    <2> QED
      BY <2>1, <2>2
  <1>6. SameRegs(i)
    <2>1. CASE i.op = "SYSCALL"
      BY <1>3, <1>5, <2>1 DEF SameRegs, Written
    <2>2. CASE i.op # "SYSCALL" /\ i.rd = 0
      <3>1. [iregs EXCEPT ![0] = 0] = iregs
        BY <1>1
      <3> QED
        BY <1>3, <1>5, <2>2, <3>1 DEF SameRegs, Written, ValueOf
    <2>3. CASE i.op # "SYSCALL" /\ i.rd # 0
      <3>1. SameRegs(i) <=> iregs' = [iregs EXCEPT ![i.rd] = Computed(i, iregs)]
        BY <1>3, <2>3 DEF SameRegs, Written, ValueOf
      <3>2. CASE i.op \in {"MFHI", "MFLO"}
        <4>1. i.rs = 0 /\ i.rt = 0 /\ i.op \notin Shifts
          BY <1>2, <2>3, <3>2 DEF AddRows, Shifts
        <4> QED
          BY <1>1, <1>3, <1>5, <2>3, <3>1, <3>2, <4>1, SameMove DEF Computed
      <3>3. CASE i.op \notin {"MFHI", "MFLO"}
        <4>1. i.op \in Computing \cup {"SLL", "SRL", "SRA"}
          BY <1>2, <2>3, <3>3 DEF RTypes, Shifts, AddRows, Computing
        <4>2. Computed(i, iregs) = RValue(i, a, b)
          BY <1>1, <1>3, <4>1, SameRegister DEF Computed, Computing, Shifts
        <4> QED
          BY <1>5, <2>3, <3>1, <3>3, <4>2
      <3> QED
        BY <3>2, <3>3
    <2> QED
      BY <2>1, <2>2, <2>3
  <1> QED
    BY <1>3, <1>4, <1>5, <1>6, ExecutedInRegs

\* The instructions of ITypes on which the two agree
LEMMA ITypesAlike ==
  ASSUME NEW i, Alike(i), i.op \in ITypes
  PROVE  i.op \in Branches \cup ImmOps \cup {"LW", "SW"}
  BY DEF Alike, ITypes, Loads, Stores

LEMMA AddressOf ==
  ASSUME NEW i, Executing(i), i.op \in {"LW", "SW"}
  PROVE  /\ Computed(i, iregs) = (iregs[i.rs] + Extend(i.imm, ImmSize)) % WordSize
         /\ Computed(i, iregs) \in Word
         /\ SlotOf(Computed(i, iregs)) \notin Slots
         /\ i.op = "LW" => DataIndex(Computed(i, iregs)) \in DataIndexes
  <1> DEFINE addr == (iregs[i.rs] + Extend(i.imm, ImmSize)) % WordSize
  <1>1. i \in Instr /\ AluAgrees /\ KeepsToData /\ i = Fetched
        /\ iregs[i.rs] \in Word /\ iregs[i.rt] \in Word
    BY ExecutingTypes DEF Executing
  <1>2. i.op \in ITypes /\ (i.op = "LW" => i.op \in Loads) /\ (i.op = "SW" => i.op \in Stores)
    BY DEF ITypes, Loads, Stores
  <1>3. Result(i, iregs[i.rs], iregs[i.rt]) = addr
    BY <1>1, SameImmediate
  <1>4. Computed(i, iregs) = Result(i, iregs[i.rs], iregs[i.rt])
    BY <1>2, RowsOfI DEF Computed
  <1>5. Computed(i, iregs) \in Word
    BY <1>1, <1>4, AluType
  <1>6. SlotOf(addr) \notin Slots /\ (i.op = "LW" => DataIndex(addr) \in DataIndexes)
    BY <1>1, <1>2 DEF KeepsToData
  <1> QED
    BY <1>3, <1>4, <1>5, <1>6

LEMMA ExecutedI ==
  ASSUME NEW i, Executing(i), i.op \in ITypes, ExecuteI(i), opcode' = i
  PROVE  Executed(i)
  <1> DEFINE a    == iregs[i.rs]
             b    == iregs[i.rt]
             addr == (a + Extend(i.imm, ImmSize)) % WordSize
             off  == 4 * Extend(i.imm, ImmSize)
  <1>1. /\ a \in Word /\ b \in Word /\ NextSeq = SeqPC(ipc) /\ NextSeq % WordSize = SeqPC(ipc)
        /\ i \in Instr /\ AluAgrees /\ SameLayout /\ Alike(i)
        /\ iregs \in [Reg -> Word] /\ iregs[0] = 0 /\ ipc \in Word /\ SlotOf(ipc) \in Slots
    BY ExecutingTypes DEF Executing
  <1>2. /\ ~IsJump(i) /\ Port1(i) = i.rs /\ Port2(i) = i.rt
        /\ UsesLink(i) <=> i.op \in LinkBranches
        /\ Dest(i) = IF i.op \in LinkBranches THEN Link ELSE i.rt
        /\ i.op \in Branches => IsBranch(i) /\ ~RegWr(i) /\ ~MemWr(i)
        /\ i.op \in ImmOps => ~IsBranch(i) /\ RegWr(i) /\ ~MemWr(i) /\ ~MemToReg(i)
        /\ i.op \in Loads => ~IsBranch(i) /\ RegWr(i) /\ ~MemWr(i) /\ MemToReg(i)
        /\ i.op \in Stores => ~IsBranch(i) /\ ~RegWr(i) /\ MemWr(i)
    BY RowsOfI
  <1>3. /\ i.op \in {"LW"} => i.op \in Loads
        /\ i.op \in {"SW"} => i.op \in Stores
        /\ i.op \in LinkBranches => i.op \in Branches
        /\ i.op \in Branches => i.op \notin ImmOps \cup {"LUI"} \cup Loads \cup Stores
        /\ i.op \in ImmOps => i.op \notin LinkBranches \cup Loads \cup Stores
        /\ i.op \in Loads => i.op \notin LinkBranches \cup ImmOps \cup {"LUI"} \cup Stores
        /\ i.op \in Stores => i.op \notin LinkBranches \cup ImmOps \cup {"LUI"} \cup Loads
    BY DEF Loads, Stores, Branches, LinkBranches, ImmOps
  <1>4. hi' = hi /\ lo' = lo
    BY DEF ExecuteI, KeepAcc
  <1>5. ipc' = (IF IsBranch(i) /\ BCond(i.op, a, b) THEN ipc + 4 + off ELSE NextSeq) % WordSize
    BY DEF ExecuteI, Goto
  <1>6. iregs' = CASE i.op \in LinkBranches -> [iregs EXCEPT ![Link] = NextSeq]
                   [] i.op \in ImmOps \cup {"LUI"} /\ i.rt # 0 ->
                        [iregs EXCEPT ![i.rt] = IValue(i.op, a, i.imm)]
                   [] i.op \in Loads /\ i.rt # 0 ->
                        [iregs EXCEPT ![i.rt] = LoadedValue(i.op, MemRead(addr))]
                   [] OTHER -> iregs
    BY DEF ExecuteI
  <1>7. IF i.op \in Stores THEN MemWrite(addr, StoredValue(i.op, b)) ELSE KeepMem
    BY DEF ExecuteI
  <1> HIDE DEF a, b, addr, off
  <1>8. [iregs EXCEPT ![0] = 0] = iregs
    BY <1>1
  <1>9. CASE i.op \in Branches
    <2>1. IsBranch(i) /\ Taken(i, a, b) = BCond(i.op, a, b)
      BY <1>1, <1>2, <1>9, SameCondition
    <2>2. (ipc + 4 + off) % WordSize = BranchTarget(SeqPC(ipc), i)
      BY <1>1, <2>1, SamePlace DEF off
    <2>3. ipc' = LeadsTo(i, ipc, iregs)
      <3>1. LeadsTo(i, ipc, iregs) = IF BCond(i.op, a, b) THEN BranchTarget(SeqPC(ipc), i)
                                                          ELSE SeqPC(ipc)
        BY <1>2, <2>1 DEF LeadsTo, a, b
      <3>2. CASE BCond(i.op, a, b)
        BY <1>5, <2>1, <2>2, <3>1, <3>2
      <3>3. CASE ~BCond(i.op, a, b)
        BY <1>1, <1>5, <3>1, <3>3
      <3> QED
        BY <3>2, <3>3
    <2>4. SameRegs(i)
      <3>1. CASE i.op \in LinkBranches
        <4>1. iregs' = [iregs EXCEPT ![Link] = NextSeq]
          BY <1>3, <1>6, <1>9, <3>1
        <4> QED
          BY <1>1, <1>2, <3>1, <4>1 DEF SameRegs, Written, ValueOf
      <3>2. CASE i.op \notin LinkBranches
        <4>1. iregs' = iregs
          BY <1>3, <1>6, <1>9, <3>2
        <4> QED
          BY <1>2, <1>9, <3>2, <4>1 DEF SameRegs, Written
      <3> QED
        BY <3>1, <3>2
    <2>5. KeepsAll
      BY <1>3, <1>4, <1>7, <1>9 DEF KeepsAll, KeepMem
    <2> QED
      BY <1>2, <1>9, <2>3, <2>4, <2>5, ExecutedInRegs
  <1>10. ASSUME ~IsBranch(i) PROVE ipc' = LeadsTo(i, ipc, iregs)
    BY <1>1, <1>2, <1>5, <1>10 DEF LeadsTo, Taken
  <1>11. CASE i.op \in ImmOps
    <2>1. Computed(i, iregs) = IValue(i.op, a, i.imm)
      BY <1>1, <1>2, <1>11, SameImmediate DEF Computed, a, b
    <2>2. iregs' = IF i.rt # 0 THEN [iregs EXCEPT ![i.rt] = IValue(i.op, a, i.imm)] ELSE iregs
      BY <1>3, <1>6, <1>11
    <2>3. SameRegs(i)
      BY <1>2, <1>3, <1>8, <1>11, <2>1, <2>2 DEF SameRegs, Written, ValueOf
    <2>4. KeepsAll
      BY <1>3, <1>4, <1>7, <1>11 DEF KeepsAll, KeepMem
    <2> QED
      BY <1>2, <1>10, <1>11, <2>3, <2>4, ExecutedInRegs
  <1>12. CASE i.op = "LW"
    <2>1. Computed(i, iregs) = addr /\ SlotOf(addr) \notin Slots /\ DataIndex(addr) \in DataIndexes
      BY <1>12, AddressOf DEF addr, a
    <2>2. LoadedValue(i.op, MemRead(addr)) = idata[DataIndex(addr)]
      BY <1>12, <2>1 DEF LoadedValue, MemRead
    <2>3. iregs' = IF i.rt # 0 THEN [iregs EXCEPT ![i.rt] = idata[DataIndex(addr)]] ELSE iregs
      BY <1>3, <1>6, <1>12, <2>2
    <2>4. SameRegs(i)
      BY <1>2, <1>3, <1>8, <1>12, <2>1, <2>3 DEF SameRegs, Written, ValueOf
    <2>5. KeepsAll
      BY <1>3, <1>4, <1>7, <1>12 DEF KeepsAll, KeepMem
    <2> QED
      BY <1>2, <1>3, <1>10, <1>12, <2>4, <2>5, ExecutedInRegs
  <1>13. CASE i.op = "SW"
    <2>1. Computed(i, iregs) = addr /\ addr \in Word /\ SlotOf(addr) \notin Slots
      BY <1>13, AddressOf DEF addr, a
    <2>2. i.op \in Stores /\ i.op \notin Loads /\ StoredValue(i.op, b) = b
      BY <1>3, <1>13 DEF StoredValue
    <2>3. /\ itext' = itext
          /\ idata' = IF DataIndex(addr) \in DataIndexes
                        THEN [idata EXCEPT ![DataIndex(addr)] = b] ELSE idata
      BY <1>7, <2>1, <2>2 DEF MemWrite
    <2>4. iregs' = iregs
      BY <1>3, <1>6, <2>2
    <2>5. SameRegs(i)
      BY <1>2, <1>3, <2>2, <2>4 DEF SameRegs, Written
    <2>6. idata \in [DataIndexes -> Word]
      BY DEF Executing
    <2>7. idata' \in [DataIndexes -> Word]
      BY <1>1, <2>3, <2>6
    <2>8. ASSUME NEW x \in Word, DataIndex(x) \in DataIndexes
          PROVE  idata'[DataIndex(x)] = IF DmemIndex(x) = DmemIndex(addr)
                                          THEN b ELSE idata[DataIndex(x)]
      <3>1. DataIndex(x) = DataIndex(addr) <=> DmemIndex(x) = DmemIndex(addr)
        BY <1>1, <2>1 DEF SameLayout
      <3> QED
        BY <2>3, <2>6, <2>8, <3>1
    <2> QED
      BY <1>2, <1>4, <1>10, <2>1, <2>2, <2>3, <2>5, <2>7, <2>8 DEF Executed, Executing, b
  <1> QED
    BY <1>1, <1>9, <1>11, <1>12, <1>13, ITypesAlike

LEMMA ExecutedJ ==
  ASSUME NEW i, Executing(i), i.op \in JTypes, ExecuteJ(i), opcode' = i
  PROVE  Executed(i)
  <1>1. /\ NextSeq = SeqPC(ipc) /\ i \in Instr /\ SameLayout /\ Alike(i)
        /\ ipc \in Word /\ SlotOf(ipc) \in Slots
    BY ExecutingTypes DEF Executing
  <1>2. /\ IsJump(i) /\ ~MemWr(i) /\ (UsesLink(i) <=> i.op = "JAL")
        /\ i.op = "JAL" => Dest(i) = Link
        /\ i.op = "J" => ~RegWr(i) /\ ~UsesLink(i)
    BY RowsOfJ
  <1>3. ipc' = JumpTarget(SeqPC(ipc), i)
    BY <1>1, <1>2, SamePlace DEF ExecuteJ, Goto
  <1>4. SameRegs(i)
    <2>1. CASE i.op = "JAL"
      BY <1>1, <1>2, <2>1 DEF ExecuteJ, SameRegs, Written, ValueOf
    <2>2. CASE i.op = "J"
      BY <1>2, <2>2 DEF ExecuteJ, SameRegs, Written
    <2> QED
      BY <2>1, <2>2 DEF JTypes
  <1>5. KeepsAll
    BY DEF ExecuteJ, KeepMem, KeepAcc, KeepsAll
  <1> QED
    BY <1>2, <1>3, <1>4, <1>5, ExecutedInRegs DEF LeadsTo

\* process_instruction does with an instruction of the program what the processors do
LEMMA SimulatorExecutes ==
  ASSUME NEW i, Executing(i), ProcessInstruction
  PROVE  Executed(i)
  <1>1. i = Fetched /\ i.op # "NONE"
    BY DEF Executing
  <1> QED
    BY <1>1, ExecutedR, ExecutedI, ExecutedJ DEF ProcessInstruction

\* Loads and stores from register 0 keep to the data region
LEMMA FixedKeeps ==
  ASSUME Fetched \in Instr, FixedAddress(Fetched), iregs[0] = 0
  PROVE  KeepsToData
  <1> DEFINE i == Fetched
             x == Extend(i.imm, ImmSize)
  <1>1. x \in Int
    BY InstrType, WordAssumption DEF Extend
  <1> HIDE DEF x
  <1>2. iregs[0] + x = x
    BY <1>1
  <1>3. i.op \in Loads \cup Stores =>
          i.rs = 0 /\ SlotOf(x % WordSize) \notin Slots /\ DataIndex(x % WordSize) \in DataIndexes
    BY DEF FixedAddress, x
  <1>4. i.op \in Loads \cup Stores => (iregs[i.rs] + x) % WordSize = x % WordSize
    BY <1>2, <1>3
  <1> QED
    BY <1>3, <1>4 DEF KeepsToData, x

\* compare_r .. compare_j find no difference between equal register files
LEMMA AgreesWithItself ==
  ASSUME NEW i, i.op \in ValidOps, i.op # "JALR", NEW val, iregs' = val
  PROVE  Agree(i, i, val)
  <1>1. CASE i.op \in RTypes
    <2>1. ~UsesLink(i) /\ Dest(i) = i.rd /\ Port1(i) = ModelRs(i)
      BY <1>1, RowsOfR DEF ModelRs
    <2> QED
      BY <1>1, <2>1 DEF Agree, TbRt
  <1>2. CASE i.op \in ITypes
    <2>1. Port1(i) = i.rs /\ (UsesLink(i) <=> i.op \in LinkBranches)
      BY <1>2, RowsOfI
    <2>2. WrLink(i) <=> i.op \in LinkBranches
      BY <1>2 DEF WrLink, ITypes, Loads, Stores, Branches, LinkBranches, ImmOps
    <2> QED
      BY <1>2, <2>1, <2>2 DEF Agree, TbRt, ModelRt
  <1>3. CASE i.op \in JTypes
    <2>1. WrLink(i) => UsesLink(i)
      BY DEF WrLink, UsesLink
    <2> QED
      BY <1>3, <2>1 DEF Agree, TbRt, ModelRt
  <1> QED
    BY <1>1, <1>2, <1>3 DEF ValidOps

-----------------------------------------------------------------------------
(* alu.v, control.v and the branch conditions beside sim.c *)

\* The rows of the control table that select the function of the ALU
LEMMA FunctionRows ==
  /\ \A op \in {"ADD", "ADDU", "ADDI", "ADDIU", "BLEZ", "BGTZ"} : AluFn([op |-> op]) = "ADD_OP"
  /\ \A op \in {"SUB", "SUBU", "BEQ", "BNE", "BLTZ", "BGEZ"} \cup LinkBranches :
       AluFn([op |-> op]) = "SUB_OP"
  /\ \A op \in {"AND", "ANDI"} : AluFn([op |-> op]) = "AND_OP"
  /\ \A op \in {"OR", "ORI"} : AluFn([op |-> op]) = "OR_OP"
  /\ \A op \in {"XOR", "XORI"} : AluFn([op |-> op]) = "XOR_OP"
  /\ \A op \in {"SLT", "SLTI"} : AluFn([op |-> op]) = "SLT_OP"
  /\ \A op \in {"SLTU", "SLTIU"} : AluFn([op |-> op]) = "SLTU_OP"
  /\ AluFn([op |-> "NOR"]) = "NOR_OP" /\ AluFn([op |-> "SLL"]) = "SHL_OP"
  /\ AluFn([op |-> "SRL"]) = "LSR_OP" /\ AluFn([op |-> "SRA"]) = "ASR_OP"
  BY DEF AluFn, LinkBranches

LEMMA HalfWord ==
  \E h \in Nat : h > 0 /\ WordSize = 2 * h
  <1>1. WordSize \div 2 \in Nat /\ WordSize \div 2 > 0 /\ WordSize = 2 * (WordSize \div 2)
    BY WordAssumption
  <1> QED
    BY <1>1

LEMMA WordRange ==
  ASSUME NEW a \in Word
  PROVE  a \in Nat /\ a < WordSize
  BY WordAssumption DEF Word

\* A sum or a difference of two words wraps around at most once
LEMMA WrapsOnce ==
  ASSUME NEW z \in Int
  PROVE  /\ 0 <= z /\ z < WordSize => z % WordSize = z
         /\ WordSize <= z /\ z < 2 * WordSize => z % WordSize = z - WordSize
         /\ -WordSize <= z /\ z < 0 => z % WordSize = z + WordSize
  <1> DEFINE w == WordSize
  <1>1. w \in Nat /\ w > 0
    BY WordAssumption
  <1> HIDE DEF w
  <1>2. z = w * 0 + z /\ z = w * 1 + (z - w) /\ z = w * (-1) + (z + w)
    BY <1>1
  <1>3. 0 <= z /\ z < w => z % w = z
    BY <1>1, <1>2, Remainder
  <1>4. ASSUME w <= z, z < 2 * w PROVE z % w = z - w
    <2>1. z - w \in 0..(w - 1)
      BY <1>1, <1>4
    <2> QED
      BY <2>1, <1>1, <1>2, Remainder
  <1>5. ASSUME -w <= z, z < 0 PROVE z % w = z + w
    <2>1. z + w \in 0..(w - 1) /\ -1 \in Int
      BY <1>1, <1>5
    <2> QED
      BY <2>1, <1>1, <1>2, Remainder
  <1> QED
    BY <1>3, <1>4, <1>5 DEF w

\* The difference a - b, which the ALU adds up as a + ~b + 1
LEMMA Difference ==
  ASSUME NEW a \in Word, NEW b \in Word, NEW fn \in {"SUB_OP", "SLT_OP"}
  PROVE  /\ Unit!Sum(fn, a, b) = (a - b) % WordSize
         /\ Unit!Sum(fn, a, b) = IF a >= b THEN a - b ELSE a - b + WordSize
  <1> DEFINE d == a - b
             z == a + (WordSize - 1 - b) + 1
  <1>1. a \in Nat /\ b \in Nat /\ a < WordSize /\ b < WordSize /\ WordSize \in Nat
    BY WordRange, WordAssumption
  <1>2. Unit!Sum(fn, a, b) = z % WordSize
    BY DEF Unit!Sum, Unit!AddendB, Unit!Inv, Unit!Subtracts, Unit!Bit
  <1>3. d \in Int /\ z \in Int /\ z = d + WordSize
    BY <1>1
  <1>4. ASSUME a >= b PROVE d % WordSize = d /\ z % WordSize = d
    <2>1. 0 <= d /\ d < WordSize /\ WordSize <= z /\ z < 2 * WordSize
      BY <1>1, <1>4
    <2> HIDE DEF d, z
    <2>2. d % WordSize = d /\ z % WordSize = z - WordSize
      BY <2>1, <1>3, WrapsOnce
    <2> QED
      BY <2>2, <1>1, <1>3
  <1>5. ASSUME ~(a >= b) PROVE d % WordSize = d + WordSize /\ z % WordSize = d + WordSize
    <2>1. -WordSize <= d /\ d < 0 /\ 0 <= z /\ z < WordSize
      BY <1>1, <1>5
    <2> HIDE DEF d, z
    <2>2. d % WordSize = d + WordSize /\ z % WordSize = z
      BY <2>1, <1>3, WrapsOnce
    <2> QED
      BY <2>2, <1>3
  <1> QED
    BY <1>2, <1>4, <1>5

\* The negative flag of a difference, corrected where it overflows, tells which of two
\* signed words is less
LEMMA NegativeIsLess ==
  ASSUME NEW a \in Word, NEW b \in Word, NEW fn \in {"SUB_OP", "SLT_OP"}
  PROVE  Unit!N(fn, a, b) = (AsInt(a) < AsInt(b))
  <1> DEFINE s == Unit!Sum(fn, a, b)
  <1>1. PICK h \in Nat : h > 0 /\ WordSize = 2 * h
    BY HalfWord
  <1>2. a \in Nat /\ b \in Nat /\ a < WordSize /\ b < WordSize
    BY WordRange
  <1>3. s = IF a >= b THEN a - b ELSE a - b + WordSize
    BY Difference
  <1>4. Unit!AddendB(fn, b) = WordSize - 1 - b
    BY DEF Unit!AddendB, Unit!Inv, Unit!Subtracts
  <1>5. Unit!N(fn, a, b) = IF Unit!Overflow(fn, a, b) THEN Unit!Sign(a) = 1 ELSE Unit!Sign(s) = 1
    BY DEF Unit!N
  <1>6. Unit!Overflow(fn, a, b)
          = (Unit!Sign(a) = Unit!Sign(WordSize - 1 - b) /\ Unit!Sign(a) # Unit!Sign(s))
    BY <1>4 DEF Unit!Overflow
  <1> HIDE DEF s
  <1>7. /\ Unit!Sign(a) = IF a >= h THEN 1 ELSE 0
        /\ Unit!Sign(s) = IF s >= h THEN 1 ELSE 0
        /\ Unit!Sign(WordSize - 1 - b) = IF b < h THEN 1 ELSE 0
    BY <1>1, <1>2, <1>3 DEF Unit!Sign
  <1>8. /\ AsInt(a) = IF a < h THEN a ELSE a - 2 * h
        /\ AsInt(b) = IF b < h THEN b ELSE b - 2 * h
    BY <1>1, <1>2 DEF AsInt
  <1>9. Unit!Overflow(fn, a, b) = ((a >= h) = (b < h) /\ (a >= h) # (s >= h))
    <2>1. (Unit!Sign(a) = Unit!Sign(WordSize - 1 - b)) = ((a >= h) = (b < h))
      BY <1>7
    <2>2. (Unit!Sign(a) = Unit!Sign(s)) = ((a >= h) = (s >= h))
      BY <1>7
    <2> QED
      BY <1>6, <2>1, <2>2
  <1>10. Unit!N(fn, a, b) = IF (a >= h) = (b < h) /\ (a >= h) # (s >= h) THEN a >= h ELSE s >= h
    <2>1. (Unit!Sign(a) = 1) = (a >= h) /\ (Unit!Sign(s) = 1) = (s >= h)
      BY <1>7
    <2> QED
      BY <1>5, <1>9, <2>1
  <1>11. (IF (a >= h) = (b < h) /\ (a >= h) # (s >= h) THEN a >= h ELSE s >= h)
           = (AsInt(a) < AsInt(b))
    <2>1. CASE a >= b
      BY <1>1, <1>2, <1>3, <1>8, <2>1
    <2>2. CASE ~(a >= b)
      BY <1>1, <1>2, <1>3, <1>8, <2>2
    <2> QED
      BY <2>1, <2>2
  <1> QED
    BY <1>10, <1>11

\* What a function of the ALU returns, in terms of the operators of sim.c
LEMMA FunctionValues ==
  ASSUME NEW a \in Word, NEW b \in Word
  PROVE  /\ Unit!Res("ADD_OP", a, b) = (a + b) % WordSize
         /\ Unit!Res("SUB_OP", a, b) = (a - b) % WordSize
         /\ Unit!Res("AND_OP", a, b) = BitAnd(a, b)
         /\ Unit!Res("OR_OP", a, b) = BitOr(a, b)
         /\ Unit!Res("XOR_OP", a, b) = BitXor(a, b)
         /\ Unit!Res("NOR_OP", a, b) = WordSize - 1 - BitOr(a, b)
         /\ Unit!Res("SLT_OP", a, b) = AsWord(AsInt(a) < AsInt(b))
         /\ Unit!Res("SLTU_OP", a, b) = AsWord(a < b)
  <1>1. Unit!Res("ADD_OP", a, b) = (a + b) % WordSize
    <2>1. Unit!Sum("ADD_OP", a, b) = (a + b + 0) % WordSize
      BY DEF Unit!Sum, Unit!AddendB, Unit!Subtracts, Unit!Bit
    <2>2. a + b + 0 = a + b
      BY WordRange
    <2> QED
      BY <2>1, <2>2 DEF Unit!Res
  <1>2. Unit!Res("SUB_OP", a, b) = (a - b) % WordSize
    BY Difference DEF Unit!Res
  <1>3. /\ Unit!Res("AND_OP", a, b) = BitAnd(a, b)
        /\ Unit!Res("OR_OP", a, b) = BitOr(a, b)
        /\ Unit!Res("XOR_OP", a, b) = BitXor(a, b)
        /\ Unit!Res("NOR_OP", a, b) = WordSize - 1 - BitOr(a, b)
    BY DEF Unit!Res, Unit!Logical, Unit!Inv
  <1>4. Unit!Res("SLT_OP", a, b) = AsWord(AsInt(a) < AsInt(b))
    BY NegativeIsLess DEF Unit!Res, Unit!Bit, AsWord
  <1>5. Unit!Res("SLTU_OP", a, b) = AsWord(a < b)
    BY DEF Unit!Res, Unit!Bit, AsWord
  <1> QED
    BY <1>1, <1>2, <1>3, <1>4, <1>5

LEMMA SamePowers == Unit!Pow2 = Pow2
  BY DEF Unit!Pow2, Pow2

\* An amount of an instruction passes through the port of shifter.v unchanged
LEMMA ShiftValues ==
  ASSUME NEW a \in Word, NEW s \in 0..(ShamtSize - 1)
  PROVE  /\ Unit!Res("SHL_OP", a, s) = (a * Pow2[s]) % WordSize
         /\ \A fn \in {"LSR_OP", "ASR_OP"} : Unit!Res(fn, a, s) = a \div Pow2[s]
  <1> DEFINE w == 2 * WordBits
  <1>1. w \in Nat /\ w > 0 /\ s \in 0..(w - 1)
    BY WordAssumption, ShiftAssumption
  <1>2. s % w = s
    <2> HIDE DEF w
    <2> QED
      BY <1>1, WordStays
  <1> QED
    BY <1>2, SamePowers DEF Unit!Res, Unit!Shift

LEMMA ZeroWhenEqual ==
  ASSUME NEW a \in Word, NEW b \in Word
  PROVE  Unit!Z("SUB_OP", a, b) = (a = b)
  <1>1. Unit!Sum("SUB_OP", a, b) = IF a >= b THEN a - b ELSE a - b + WordSize
    BY Difference
  <1>2. (Unit!Sum("SUB_OP", a, b) = 0) = (a = b)
    BY <1>1, WordRange, WordAssumption
  <1> QED
    BY <1>2 DEF Unit!Z

\* BLEZ and BGTZ add a zero where the other branches subtract it
LEMMA FlagsOfSum ==
  ASSUME NEW a \in Word
  PROVE  /\ Unit!Z("ADD_OP", a, 0) = (a = 0)
         /\ Unit!N("ADD_OP", a, 0) = (AsInt(a) < 0)
  <1>1. PICK h \in Nat : h > 0 /\ WordSize = 2 * h
    BY HalfWord
  <1>2. a \in Nat /\ a < WordSize /\ 0 \in Word
    BY WordRange, WordFacts
  <1>3. Unit!Sum("ADD_OP", a, 0) = a
    <2>1. Unit!Sum("ADD_OP", a, 0) = (a + 0) % WordSize
      BY <1>2, FunctionValues DEF Unit!Res
    <2>2. a + 0 = a /\ a % WordSize = a
      BY <1>2, WrapsOnce
    <2> QED
      BY <2>1, <2>2
  <1>4. ~Unit!Overflow("ADD_OP", a, 0)
    BY <1>3 DEF Unit!Overflow
  <1>5. Unit!N("ADD_OP", a, 0) = (Unit!Sign(a) = 1)
    BY <1>3, <1>4 DEF Unit!N
  <1>6. (Unit!Sign(a) = 1) = (AsInt(a) < 0)
    BY <1>1, <1>2 DEF Unit!Sign, AsInt
  <1> QED
    BY <1>3, <1>5, <1>6 DEF Unit!Z

LEMMA BranchRows ==
  ASSUME NEW z \in BOOLEAN, NEW n \in BOOLEAN
  PROVE  /\ BranchCond("BEQ", z, n) = z /\ BranchCond("BNE", z, n) = ~z
         /\ \A op \in {"BGEZ", "BGEZAL"} : BranchCond(op, z, n) = (~n \/ z)
         /\ \A op \in {"BLTZ", "BLTZAL"} : BranchCond(op, z, n) = (n /\ ~z)
         /\ BranchCond("BLEZ", z, n) = (n \/ z) /\ BranchCond("BGTZ", z, n) = ~(n \/ z)
  BY DEF BranchCond

LEMMA ConditionsMatch ==
  ASSUME NEW a \in Word, NEW b \in Word, NEW op \in Branches
  PROVE  LET fn == AluFn([op |-> op])
             c  == IF op \in {"BEQ", "BNE"} THEN b ELSE 0
         IN  BranchCond(op, Unit!Z(fn, a, c), Unit!N(fn, a, c)) = BCond(op, a, b)
  <1>1. 0 \in Word /\ AsInt(0) = 0 /\ AsInt(a) \in Int /\ (a = 0) = (AsInt(a) = 0)
    <2>1. PICK h \in Nat : h > 0 /\ WordSize = 2 * h
      BY HalfWord
    <2> QED
      BY <2>1, WordRange, WordFacts DEF AsInt
  <1>2. \A fn \in {"SUB_OP", "ADD_OP"} :
          Unit!Z(fn, a, 0) = (AsInt(a) = 0) /\ Unit!N(fn, a, 0) = (AsInt(a) < 0)
    BY <1>1, ZeroWhenEqual, NegativeIsLess, FlagsOfSum
  <1>3. Unit!Z("SUB_OP", a, b) = (a = b)
    BY ZeroWhenEqual
  <1>4. (AsInt(a) < 0) \in BOOLEAN
    BY <1>1
  <1>5. /\ \A fn \in {"SUB_OP", "ADD_OP"} : Unit!Z(fn, a, 0) \in BOOLEAN /\ Unit!N(fn, a, 0) \in BOOLEAN
        /\ Unit!Z("SUB_OP", a, b) \in BOOLEAN
    BY <1>2, <1>3, <1>4, Zenon
  <1>6. Unit!N("SUB_OP", a, b) \in BOOLEAN
    <2>1. (AsInt(a) < AsInt(b)) \in BOOLEAN
      OBVIOUS
    <2>2. Unit!N("SUB_OP", a, b) = (AsInt(a) < AsInt(b))
      BY NegativeIsLess
    <2> QED
      BY <2>1, <2>2, Zenon
  <1>7. op \in {"BEQ", "BNE", "BLEZ", "BGTZ"} \cup {"BLTZ", "BLTZAL"} \cup {"BGEZ", "BGEZAL"}
    BY DEF Branches, LinkBranches
  <1>8. CASE op \in {"BEQ", "BNE"}
    BY <1>8, <1>3, <1>5, <1>6, BranchRows, FunctionRows DEF BCond
  <1>9. CASE op = "BLEZ"
    <2>1. (AsInt(a) <= 0) = (AsInt(a) < 0 \/ AsInt(a) = 0)
      BY <1>1
    <2>2. BCond("BLEZ", a, b) = (AsInt(a) <= 0)
      BY DEF BCond
    <2> QED
      BY <1>9, <1>2, <1>5, <2>1, <2>2, BranchRows, FunctionRows
  <1>10. CASE op = "BGTZ"
    <2>1. (AsInt(a) > 0) = ~(AsInt(a) < 0 \/ AsInt(a) = 0)
      BY <1>1
    <2>2. BCond("BGTZ", a, b) = (AsInt(a) > 0)
      BY DEF BCond
    <2> QED
      BY <1>10, <1>2, <1>5, <2>1, <2>2, BranchRows, FunctionRows
  <1>11. CASE op \in {"BLTZ", "BLTZAL"}
    <2>1. (AsInt(a) < 0) = (AsInt(a) < 0 /\ ~(AsInt(a) = 0))
      BY <1>1
    <2>2. BCond(op, a, b) = (AsInt(a) < 0)
      BY <1>11 DEF BCond
    <2>3. AluFn([op |-> op]) = "SUB_OP"
      BY <1>11, FunctionRows DEF LinkBranches
    <2> QED
      BY <1>11, <1>2, <1>5, <2>1, <2>2, <2>3, BranchRows
  <1>12. CASE op \in {"BGEZ", "BGEZAL"}
    <2>1. (AsInt(a) >= 0) = (~(AsInt(a) < 0) \/ AsInt(a) = 0)
      BY <1>1
    <2>2. BCond(op, a, b) = (AsInt(a) >= 0)
      BY <1>12 DEF BCond
    <2>3. AluFn([op |-> op]) = "SUB_OP"
      BY <1>12, FunctionRows DEF LinkBranches
    <2> QED
      BY <1>12, <1>2, <1>5, <2>1, <2>2, <2>3, BranchRows
  <1> QED
    BY <1>7, <1>8, <1>9, <1>10, <1>11, <1>12

\* alu.v and its shifter compute what sim.c computes, and its two flags decide a branch as
\* sim.c does, on words of any size: with the control table of control.v, whose BLEZ and
\* BGTZ read the flags of a sum, and the immediates that sign_imm extends.
THEOREM ShippedAluAgrees ==
  ASSUME AluWired
  PROVE  AluAgrees
  <1> SUFFICES ASSUME NEW a \in Word, NEW b \in Word
               PROVE
    /\ \A op \in RTypes \ (Shifts \cup AddRows \cup {"SYSCALL"}) :
         AluRes(AluFn([op |-> op]), a, b) = RValue([op |-> op], a, b)
    /\ \A op \in {"SLL", "SRL", "SRA"}, s \in 0..(ShamtSize - 1) :
         AluRes(AluFn([op |-> op]), b, s) = RValue([op |-> op, shamt |-> s], a, b)
    /\ \A op \in ImmOps, m \in 0..(ImmSize - 1) :
         AluRes(AluFn([op |-> op]), a, ImmValue([op |-> op, imm |-> m])) = IValue(op, a, m)
    /\ \A op \in Branches :
         LET fn == AluFn([op |-> op])
             c  == IF op \in {"BEQ", "BNE"} THEN b ELSE 0
         IN  BranchCond(op, AluZ(fn, a, c), AluN(fn, a, c)) = BCond(op, a, b)
    BY DEF AluAgrees
  <1>1. \A fn \in AluFns : \A x, y \in Word :
          /\ AluRes(fn, x, y) = Unit!Res(fn, x, y)
          /\ AluZ(fn, x, y) = Unit!Z(fn, x, y) /\ AluN(fn, x, y) = Unit!N(fn, x, y)
    BY DEF AluWired
  <1>2. \A op : AluFn([op |-> op]) \in AluFns
    BY DEF AluFn, AluFns
  <1>3. ASSUME NEW op \in RTypes \ (Shifts \cup AddRows \cup {"SYSCALL"})
        PROVE  AluRes(AluFn([op |-> op]), a, b) = RValue([op |-> op], a, b)
    <2>1. op \in Computing
      BY DEF RTypes, Computing
    <2>2. Unit!Res(AluFn([op |-> op]), a, b) = RValue([op |-> op], a, b)
      BY <2>1, FunctionRows, FunctionValues DEF Computing, RValue
    <2> QED
      BY <1>1, <1>2, <2>2
  <1>4. ASSUME NEW op \in {"SLL", "SRL", "SRA"}, NEW s \in 0..(ShamtSize - 1)
        PROVE  AluRes(AluFn([op |-> op]), b, s) = RValue([op |-> op, shamt |-> s], a, b)
    <2>1. s \in Word
      BY WordAssumption DEF Word
    <2>2. Unit!Res(AluFn([op |-> op]), b, s) = RValue([op |-> op, shamt |-> s], a, b)
      BY FunctionRows, ShiftValues DEF RValue
    <2> QED
      BY <1>1, <1>2, <2>1, <2>2
  <1>5. ASSUME NEW op \in ImmOps, NEW m \in 0..(ImmSize - 1)
        PROVE  AluRes(AluFn([op |-> op]), a, ImmValue([op |-> op, imm |-> m])) = IValue(op, a, m)
    <2> DEFINE y == ImmValue([op |-> op, imm |-> m])
    <2>1. m % ImmSize = m
      BY WordAssumption, WordStays
    <2>2. y = IF op \in {"ANDI", "ORI", "XORI"} THEN m ELSE Extend(m, ImmSize)
      <3>1. (2 * m >= ImmSize) = ~(2 * m < ImmSize)
        BY WordAssumption
      <3> QED
        BY <2>1, <3>1 DEF ImmValue, ImmField, Signed, Extend
    <2>3. y \in Word
      BY <2>2, WordAssumption DEF Word, Extend
    <2> HIDE DEF y
    <2>4. Unit!Res(AluFn([op |-> op]), a, y) = IValue(op, a, m)
      BY <2>2, <2>3, FunctionRows, FunctionValues DEF ImmOps, IValue
    <2> QED
      BY <1>1, <1>2, <2>3, <2>4 DEF y
  <1>6. ASSUME NEW op \in Branches
        PROVE  LET fn == AluFn([op |-> op])
                   c  == IF op \in {"BEQ", "BNE"} THEN b ELSE 0
               IN  BranchCond(op, AluZ(fn, a, c), AluN(fn, a, c)) = BCond(op, a, b)
    <2> DEFINE fn == AluFn([op |-> op])
               c  == IF op \in {"BEQ", "BNE"} THEN b ELSE 0
    <2>1. c \in Word /\ fn \in AluFns
      BY <1>2, WordFacts
    <2>2. AluZ(fn, a, c) = Unit!Z(fn, a, c) /\ AluN(fn, a, c) = Unit!N(fn, a, c)
      BY <1>1, <2>1
    <2>3. BranchCond(op, Unit!Z(fn, a, c), Unit!N(fn, a, c)) = BCond(op, a, b)
      BY ConditionsMatch
    <2> HIDE DEF fn, c
    <2>4. BranchCond(op, AluZ(fn, a, c), AluN(fn, a, c)) = BCond(op, a, b)
      BY <2>2, <2>3
    <2> QED
      BY <2>4 DEF fn, c
  <1> QED
    BY <1>3, <1>4, <1>5, <1>6
=============================================================================
