------------------------------ MODULE MIPSHexGen ------------------------------
(***************************************************************************)
(* The MIPS test generator: hex_gen.c, which draws a random mixture, and   *)
(* hex_gen_instr_api.c, the functions a user's test calls to add chosen    *)
(* instructions.  As in RVHexGen every instruction is executed by the      *)
(* simulator as soon as it is placed, at the simulator's pc, and make_room *)
(* inserts jumps.  Random draws that fail a check are repeated; a chosen   *)
(* instruction that fails one is reported and placed all the same.  Two    *)
(* instructions that stop the simulator end every test.                    *)
(*                                                                         *)
(* What an instruction computes and whether a branch is taken is chosen,   *)
(* except that what loads a constant loads it.                             *)
(***************************************************************************)
EXTENDS Integers, Sequences, FiniteSets, Functions

CONSTANTS
  NumSlots,         \* words of the program memory: 2048
  Margin,           \* words of it that no branch or jump may target: 64
  DataSize,         \* words of the data memory above it: 2^18
  WordSize,         \* 2^32
  ImmSize,          \* number of values of an immediate: 2^16
  NumRegs,          \* 32
  V0, Link,         \* the registers of the exit code and of links: 2 and 31
  ExitCode,         \* 10
  Values,           \* what an instruction may compute
  Mixes,            \* the numbers of random instructions that may be asked for
  Drawn,            \* the instructions rand() chooses among
  Imms,             \* the immediates it draws, which are never the largest
  Targets,          \* the jump targets it draws, as slots
  Calls,            \* the calls a user's test may make
  MaxCalls          \* and how many

-----------------------------------------------------------------------------
(* The instructions that can be asked for, as the functions of the directed  *)
(* interface are grouped, and as the simulator treats them                   *)

Sums       == {"ADD", "ADDU", "AND"}
Divisions  == {"DIV", "DIVU"}
RegJumps   == {"JALR", "JR"}
HiLoMoves  == {"MFHI", "MFLO", "MTHI", "MTLO"}
Products   == {"MULT", "MULTU"}
Ors        == {"NOR", "OR"}
LeftShifts == {"SLL", "SLLV"}
SetsLess   == {"SLT", "SLTU"}
RightShifts == {"SRA", "SRAV", "SRL", "SRLV"}
Differences == {"SUB", "SUBU"}
XorOp      == {"XOR"}
SyscallOp  == {"SYSCALL"}
AddImms    == {"ADDI", "ADDIU", "ANDI"}
Branches   == {"BEQ", "BGTZ", "BLEZ", "BNE", "BVAR"}
RegBranches == {"BLTZ", "BGEZ", "BLTZAL", "BGEZAL"}
PartLoads  == {"LB", "LBU", "LH", "LHU"}
UpperImm   == {"LUI"}
WordLoad   == {"LW"}
OrImm      == {"ORI"}
PartStores == {"SB", "SH"}
WordStore  == {"SW"}
LessImms   == {"SLTI", "SLTIU", "XORI"}

\* The instructions rand() can choose, and those whose address or target is checked
RTable == {"ADD", "AND", "OR", "SLT", "SUB"}
ITable == {"ADDI", "ANDI", "BEQ", "BNE", "LW", "ORI", "SW", "SLTI"}
JTable == {"J"}

ROps == Sums \cup Divisions \cup RegJumps \cup HiLoMoves \cup Products \cup Ors
          \cup LeftShifts \cup SetsLess \cup RightShifts \cup Differences \cup XorOp \cup SyscallOp
IOps == AddImms \cup Branches \cup RegBranches \cup PartLoads \cup UpperImm \cup WordLoad
          \cup OrImm \cup PartStores \cup WordStore \cup LessImms
Ops  == ROps \cup IOps \cup JTable

CheckedAddress == WordLoad \cup WordStore
CheckedTarget  == Branches \cup RegBranches
Links          == {"BLTZAL", "BGEZAL"}
WritesRd       == ROps \ (Divisions \cup Products \cup RegJumps \cup SyscallOp \cup {"MTHI", "MTLO"})
WritesRt       == AddImms \cup PartLoads \cup UpperImm \cup WordLoad \cup OrImm \cup LessImms

Kinds == {"r", "i", "j"}
KindOf(op) == CASE op \in ROps -> "r" [] op \in IOps -> "i" [] op \in JTable -> "j"

Reg  == 0..(NumRegs - 1)
Word == 0..(WordSize - 1)

\* A call: the instruction and its arguments, and whether to load its operands first.
\* No immediate is so far below zero that it borrows from more than the field of rt
CallOf(c) ==
  /\ c.op \in ROps \cup IOps
  /\ c.rd \in Reg /\ c.rs \in Reg /\ c.rt \in Reg
  /\ c.set \in BOOLEAN /\ c.imm \in Int /\ c.rsVal \in Int /\ c.rtVal \in Int
  /\ c.imm < 0 => -c.imm <= ImmSize * c.rt /\ c.op \notin RegBranches \cup {"BVAR"}
  /\ c.rsVal < 0 => -c.rsVal <= ImmSize * c.rs
  /\ c.rtVal < 0 => -c.rtVal <= ImmSize * c.rt

ASSUME HexGenAssumption ==
  /\ NumSlots \in Nat \ (0..3) /\ Margin \in 1..(NumSlots - 2)
  /\ DataSize \in Nat \ {0}
  /\ WordSize \in Nat /\ WordSize >= 4 * (NumSlots + DataSize)
  /\ ImmSize \in 1..WordSize
  /\ NumRegs \in Nat /\ V0 \in 1..(NumRegs - 1) /\ Link \in 1..(NumRegs - 1)
  /\ ExitCode \in 1..(ImmSize - 1)
  /\ Values \subseteq Word /\ Values # {}
  /\ Mixes \subseteq [Kinds -> Nat]
  /\ Drawn \subseteq RTable \cup ITable \cup JTable
  /\ Imms \subseteq 0..(ImmSize - 2)
  /\ Targets \subseteq Nat
  /\ \A c \in Calls : CallOf(c)
  /\ MaxCalls \in Nat

VARIABLES
  want,         \* num_r, num_i, num_j
  gen,          \* r_gen, i_gen, j_gen
  made,         \* instr_gen
  used,         \* PC[], the slots that hold an instruction
  instr,        \* instr[], what print_to_file will write
  text,         \* the simulator's program memory
  pc, regs,     \* CURRENT_STATE
  prevPC,       \* prev_pc
  runBit,       \* RUN_BIT
  pending,      \* the next instruction, drawn or asked for
  status,       \* what is being generated, or how generation has ended
  asked,        \* the calls the user's test has made
  queue,        \* the instructions of the last still to be placed
  errCount,     \* err_count
  errors        \* the lines of output that begin with ERROR

memVars  == <<used, instr, text, pc, regs, prevPC, runBit>>
callVars == <<asked, queue, errCount>>
vars == <<want, gen, made, memVars, pending, status, callVars, errors>>

Generating == {"random", "user", "code", "syscall"}
Ended      == {"done", "overflow", "wild", "halted", "crashed"}

-----------------------------------------------------------------------------
(* Addresses: the text begins at 0 and the data where it ends *)

Slots   == 0..(NumSlots - 1)
TextEnd == 4 * NumSlots - 1               \* MEM_TEXT_START + MEM_TEXT_SIZE
DataStart == 4 * NumSlots
DataEnd   == DataStart + 4 * DataSize

InText(a) == a \in 0..TextEnd /\ a % 4 = 0
SlotOf(a) == a \div 4
Here      == SlotOf(pc)

SignExtend(imm) == IF 2 * (imm % ImmSize) < ImmSize THEN imm % ImmSize
                   ELSE (imm % ImmSize) - ImmSize

\* A word of the program stands for its operation and where it sent control
Words == [op : Ops, next : Word]
Empty == [op |-> "none", next |-> 0]      \* nothing has been put there
Data  == [op |-> "data", next |-> 0]      \* what a store has left

\* The fields of an instruction, of J imm is the target.  What is drawn where nothing
\* depends on it is left out: V0 stands for any source register
Fields(ops, rds, rss, rts, imms) == [op : ops, rd : rds, rs : rss, rt : rts, imm : imms]
Draws ==
  Fields(Drawn \cap RTable, Reg, {0}, {0}, {0})
  \cup Fields((Drawn \cap WritesRt) \ WordLoad, {0}, {V0}, Reg, {0})
  \cup Fields(Drawn \cap WordLoad, {0}, Reg, Reg, Imms)
  \cup Fields(Drawn \cap WordStore, {0}, Reg, {0}, Imms)
  \cup Fields(Drawn \cap Branches, {0}, {0}, {0}, Imms)
  \cup Fields(Drawn \cap JTable, {0}, {0}, {0}, Targets)
Nothing == [op |-> "none"]

-----------------------------------------------------------------------------
(* The three checks *)

\* check_ls_addr: the address lies in the data; otherwise the register is found too
\* large, or the immediate wrong
Address(base, imm) == (base + SignExtend(imm)) % WordSize

LsCheck(base, imm) ==
  IF Address(base, imm) \in (DataStart + 1)..(DataEnd - 1) THEN "ok"
  ELSE IF base > DataEnd THEN "register" ELSE "immediate"

\* check_brn_addr, and check_j_addr, whose range is one shorter
Targetable(s, last) == s \in 1..last /\ ~used[s]

BranchSlot(imm) == Here + 1 + SignExtend(imm)

BranchAddr(imm) == (pc + 4 + 4 * SignExtend(imm)) % WordSize

Verdict(f) ==
  CASE f.op \in CheckedAddress -> LsCheck(regs[f.rs], f.imm)
    [] f.op \in CheckedTarget -> IF Targetable(BranchSlot(f.imm), NumSlots - Margin)
                                   THEN "ok" ELSE "immediate"
    [] f.op = "J" -> IF Targetable(f.imm, NumSlots - Margin - 1) THEN "ok" ELSE "immediate"
    [] OTHER -> "ok"

\* (mutant) the goto behind the draws
RedrawnNothing(f) == {}

\* Which fields each complaint draws again
Redrawn(f) == IF Verdict(f) = "register" THEN {"rs", "imm"} ELSE {"imm"}

-----------------------------------------------------------------------------
(* Running an instruction: load_instr_opcode, run(1) and update_cpu *)

\* The opcode is a sum: an immediate below zero borrows from the field of rt
\* (above 16 bits none gets here)
Encoded(f) ==
  IF f.op \in IOps
    THEN LET low == f.rt * ImmSize + f.imm
         IN  [f EXCEPT !.rt = low \div ImmSize, !.imm = low % ImmSize]
    ELSE f

\* A store goes to the word it is in, SB and SH to any four bytes; in the text it
\* leaves its data there
StoreHits(op, a) ==
  LET first == IF op \in WordStore THEN a - (a % 4) ELSE a
  IN  IF first \in 0..(TextEnd - 1) THEN {SlotOf(first), SlotOf(first + 3)} \cap Slots ELSE {}

Seq4 == (pc + 4) % WordSize
Written(r, v) == IF r = 0 THEN regs ELSE [regs EXCEPT ![r] = v]

\* The end sequence calls update_cpu before run(1): prev_pc stays behind
PutBefore(op, next, hits, result, at) ==
  LET word == [op |-> op, next |-> next]
  IN  /\ text' = [s \in Slots |-> IF s \in hits THEN Data
                                  ELSE IF s = Here THEN word ELSE text[s]]
      /\ pc' = next /\ regs' = result
      /\ used' = [used EXCEPT ![at] = TRUE] /\ instr' = [instr EXCEPT ![at] = word]
      /\ prevPC' = pc

\* The word goes to the simulator's memory at its pc, and to the file at slot "at"
Put(op, next, hits, result, at) ==
  LET word == [op |-> op, next |-> next]
  IN  /\ text' = [s \in Slots |-> IF s \in hits THEN Data
                                  ELSE IF s = Here THEN word ELSE text[s]]
      /\ pc' = next /\ regs' = result
      /\ used' = [used EXCEPT ![at] = TRUE] /\ instr' = [instr EXCEPT ![at] = word]
      /\ prevPC' = pc'

-----------------------------------------------------------------------------
(* make_room *)

\* PC[] is read one element too far behind the last slot: "beyond" is what is there
Taken(s, beyond) == IF s \in Slots THEN used[s] ELSE beyond

\* (mutant) room for one instruction, not two
PairSingle(s, beyond) == ~Taken(s, beyond)

Pair(s, beyond) == ~Taken(s, beyond) /\ ~Taken(s + 1, beyond)
Pairs(beyond)   == {s \in Slots \ {0} : Pair(s, beyond)}

\* The test meant for the end of the memory holds in its middle, at 0xFFC
AtMiddle == pc = 4 * (NumSlots \div 2) - 4
Room(beyond) == Pair(Here, beyond) /\ ~AtMiddle

\* gen_j: the address itself, as a target
GenJ(s) == 4 * s

\* A jump to the lowest pair of free slots, which counts as no instruction
JumpToRoom(beyond) ==
  \E s \in Pairs(beyond) :
    /\ \A t \in Pairs(beyond) : s <= t
    /\ Put("J", GenJ(s), {}, regs, SlotOf(prevPC))
    /\ UNCHANGED runBit
-----------------------------------------------------------------------------
(* What is generated next *)

Init ==
  /\ want \in Mixes
  /\ gen = [k \in Kinds |-> 0] /\ made = 0
  /\ used = [s \in Slots |-> FALSE]
  /\ instr = [s \in Slots |-> Empty]
  /\ text = [s \in Slots |-> Empty]
  /\ pc = 0 /\ prevPC = 0 /\ runBit = TRUE
  /\ regs = [r \in Reg |-> 0]
  /\ pending = Nothing /\ status = "random"
  /\ asked = <<>> /\ queue = <<>> /\ errCount = 0 /\ errors = 0

Constant(rt, imm) == [op |-> "ORI", rd |-> 0, rs |-> 0, rt |-> rt, imm |-> imm]

\* gen_end_seq: ADDI r2, r0, 10 and SYSCALL
ExitSequence ==
  [code |-> [op |-> "ADDI", rd |-> 0, rs |-> 0, rt |-> V0, imm |-> ExitCode],
   syscall |-> [op |-> "SYSCALL", rd |-> 0, rs |-> 0, rt |-> 0, imm |-> 0]]

Requested(f) ==
  \/ /\ status = "random" /\ f \in Draws
     /\ gen[KindOf(f.op)] < want[KindOf(f.op)]
     /\ UNCHANGED queue
  \/ /\ status = "user" /\ queue # <<>>
     /\ f = Head(queue) /\ queue' = Tail(queue)
  \/ /\ status \in {"code", "syscall"}
     /\ f = ExitSequence[status]
     /\ UNCHANGED queue

\* make_room, then the fields
Ready == status \in Generating /\ pending = Nothing

Begin ==
  /\ Ready /\ InText(pc)
  /\ \E beyond \in BOOLEAN : Room(beyond)
  /\ \E f \in Draws \cup Range(queue) \cup Range(ExitSequence) : Requested(f) /\ pending' = f
  /\ UNCHANGED <<want, gen, made, memVars, status, asked, errCount, errors>>

BeginElsewhere ==
  /\ Ready /\ InText(pc) /\ runBit
  /\ \E beyond \in BOOLEAN : ~Room(beyond) /\ JumpToRoom(beyond)
  /\ \E f \in Draws \cup Range(queue) \cup Range(ExitSequence) : Requested(f) /\ pending' = f
  /\ UNCHANGED <<want, gen, made, status, asked, errCount, errors>>

Stop(how) ==
  /\ status' = how
  /\ UNCHANGED <<want, gen, made, memVars, pending, callVars, errors>>

MoreToDo == \/ status = "random" /\ gen # want
            \/ status = "user" /\ queue # <<>>
            \/ status \in {"code", "syscall"}

NoRoom ==
  /\ Ready /\ InText(pc) /\ MoreToDo
  /\ \E beyond \in BOOLEAN : ~Room(beyond) /\ Pairs(beyond) = {}
  /\ Stop("overflow")

\* PC[] is indexed outside its bounds or between two slots: nothing is said of what
\* happens then.  Nor of the second of the two entries that gen_j_instr draws among,
\* in a table of one
Astray ==
  \/ Ready /\ ~InText(pc) /\ MoreToDo /\ Stop("wild")
  \/ /\ Ready /\ status = "random" /\ gen["j"] < want["j"]
     /\ "J" \in Drawn /\ Stop("wild")

\* run(1) once the simulator has halted: the program exits
Halted ==
  /\ status \in Generating /\ ~runBit
  /\ \/ pending # Nothing
     \/ /\ InText(pc) /\ MoreToDo
        /\ \E beyond \in BOOLEAN : ~Room(beyond) /\ Pairs(beyond) # {}
  /\ Stop("halted")

-----------------------------------------------------------------------------
(* gen_r_instr, gen_i_instr and gen_j_instr *)

Accepted(ops) ==
  /\ status \in {"random", "user"} /\ runBit
  /\ pending # Nothing /\ pending.op \in ops
  /\ status = "user" \/ Verdict(pending) = "ok"

\* Their common end: load, run, update_cpu, one instruction more
Generate(next, hits, result) ==
  /\ Put(pending.op, next, hits, result, IF made = 0 THEN 0 ELSE SlotOf(prevPC))
  /\ gen' = IF status = "random" THEN [gen EXCEPT ![KindOf(pending.op)] = @ + 1] ELSE gen
  /\ made' = made + 1
  /\ errors' = IF Verdict(pending) = "ok" THEN errors ELSE errors + 1
  /\ pending' = Nothing
  /\ UNCHANGED <<want, status, callVars>>

Divides(f) == f.op \in Divisions /\ f.rd # 0

GenR ==
  /\ runBit' = ~(pending.op \in SyscallOp /\ regs[V0] = ExitCode)
  /\ \/ /\ Accepted(WritesRd)
        /\ \E v \in Values : Generate(Seq4, {}, Written(pending.rd, v))
     \/ /\ Accepted(Divisions \cup Products \cup {"MTHI", "MTLO"} \cup SyscallOp)
        /\ Divides(pending) => regs[pending.rt] # 0
        /\ Generate(Seq4, {}, regs)
     \/ /\ Accepted(RegJumps)
        /\ Generate(IF pending.rd = 0 THEN Seq4 ELSE regs[pending.rs], {},
                    IF pending.op = "JALR" /\ pending.rd # 0 THEN Written(Link, Seq4) ELSE regs)

\* The simulator divides as C does
DivideByZero ==
  /\ Accepted(Divisions) /\ Divides(pending) /\ regs[pending.rt] = 0
  /\ Stop("crashed")

GenI ==
  LET f == Encoded(pending)
  IN  /\ UNCHANGED runBit
      /\ \/ /\ Accepted(WritesRt)
            /\ \E v \in IF f.op \in OrImm /\ f.rs = 0 THEN {f.imm} ELSE Values :
                 Generate(Seq4, {}, Written(f.rt, v))
         \/ /\ Accepted(CheckedTarget)
            /\ \E next \in {Seq4, BranchAddr(f.imm)} :
                 Generate(next, {}, IF f.op \in Links THEN Written(Link, Seq4) ELSE regs)
         \/ /\ Accepted(PartStores \cup WordStore)
            /\ Generate(Seq4, StoreHits(f.op, Address(regs[f.rs], f.imm)), regs)

GenJType ==
  /\ Accepted(JTable)
  /\ Generate(4 * pending.imm, {}, regs)
  /\ UNCHANGED runBit

Redraw(g) ==
  /\ status = "random" /\ pending # Nothing /\ Verdict(pending) # "ok"
  /\ \A x \in DOMAIN g : g[x] = pending[x] \/ x \in Redrawn(pending)
  /\ pending' = g
  /\ UNCHANGED <<want, gen, made, memVars, status, callVars, errors>>

-----------------------------------------------------------------------------
(* The user's test: gen_r_type_ADD and the other functions of the interface *)

Fits(imm) == imm < ImmSize

\* What set_rval loads first: both sources of an R-type instruction, of an I-type one rs
Sets(c) == IF ~c.set \/ c.op \in SyscallOp THEN {}
           ELSE IF c.op \in ROps THEN {"rsVal", "rtVal"} ELSE {"rsVal"}

\* A value that is too large is reported, counted and left out
Load(c, x, r) == IF x \in Sets(c) /\ Fits(c[x]) THEN <<Constant(r, c[x])>> ELSE <<>>

\* (mutant) the second operand loaded first
OperandsSwapped(c) == Load(c, "rtVal", c.rt) \o Load(c, "rsVal", c.rs)

Operands(c) == Load(c, "rsVal", c.rs) \o Load(c, "rtVal", c.rt)

\* So is an immediate, and then nothing is placed
LeftOut(c) == c.op \in IOps /\ ~Fits(c.imm)
Misfits(c) == IF LeftOut(c) THEN {"imm"} ELSE {x \in Sets(c) : ~Fits(c[x])}

Request(c) == [op |-> c.op, rd |-> c.rd, rs |-> c.rs, rt |-> c.rt, imm |-> c.imm]
Work(c)    == IF LeftOut(c) THEN <<>> ELSE Append(Operands(c), Request(c))

Call(c) ==
  /\ status = "user" /\ pending = Nothing /\ queue = <<>> /\ Len(asked) < MaxCalls
  /\ asked' = Append(asked, c) /\ queue' = Work(c)
  /\ errCount' = errCount + Cardinality(Misfits(c))
  /\ errors' = errors + Cardinality(Misfits(c))
  /\ UNCHANGED <<want, gen, made, memVars, pending, status>>

-----------------------------------------------------------------------------
(* main: the random mixture, the user's test, the end sequence, the file *)

Advance(from, to) ==
  /\ status = from /\ pending = Nothing /\ queue = <<>>
  /\ status' = to
  /\ UNCHANGED <<want, gen, made, memVars, pending, callVars, errors>>

GenUserTest == gen = want /\ Advance("random", "user")
GenEndSeq   == Advance("user", "code")

EndStep(next, result, to) ==
  /\ pending # Nothing /\ runBit
  /\ PutBefore(pending.op, next, {}, result, Here)
  /\ pending' = Nothing /\ status' = to
  /\ UNCHANGED <<want, gen, callVars, errors>>

LoadExitCode ==
  /\ status = "code" /\ EndStep(Seq4, Written(V0, ExitCode), "syscall")
  /\ made' = made + 1 /\ UNCHANGED runBit

PutSyscall ==
  /\ status = "syscall" /\ EndStep(Seq4, regs, "done")
  /\ runBit' = (regs[V0] # ExitCode) /\ UNCHANGED made

Next ==
  \/ Begin \/ BeginElsewhere \/ NoRoom \/ Astray \/ Halted
  \/ GenR \/ DivideByZero \/ GenI \/ GenJType
  \/ \E g \in Draws : Redraw(g)
  \/ \E c \in Calls : Call(c)
  \/ GenUserTest \/ GenEndSeq \/ LoadExitCode \/ PutSyscall

\* rand() does not draw only what is refused, time after time, if something else is
\* there to draw
Fairness ==
  /\ WF_vars(Next)
  /\ \A v \in {"ok", "immediate"} : SF_vars(\E g \in Draws : Verdict(g) = v /\ Redraw(g))

Spec == Init /\ [][Next]_vars /\ Fairness
-----------------------------------------------------------------------------
(* Properties *)

\* What no check stops: JR and JALR, a store of a part of a word into the text, and a
\* branch to itself, whose slot is still free when check_brn_addr asks
Unchecked(c) == \/ c.op \in RegJumps \cup PartStores
                \/ c.op \in CheckedTarget /\ SignExtend(c.imm) = -1

NothingUnchecked == errors = 0 /\ \A i \in DOMAIN asked : ~Unchecked(asked[i])

\* Control comes to a slot that holds an instruction only after an error was reported or
\* an unchecked instruction asked for, but for a jump of make_room back to the slot before
\* and a jump to itself: the checks of the directed calls that fail are all reported.
LandsOnNoInstruction ==
  status \in Generating /\ InText(pc) /\ used[Here] /\ NothingUnchecked =>
    text[Here].op = "J" /\ text[Here].next \in {pc - 4, pc}

\* Until the end sequence the file has every instruction that was drawn or asked for, besides jumps.
MixDelivered ==
  status \in {"random", "user"} /\ NothingUnchecked =>
    Cardinality({s \in Slots : used[s] /\ instr[s].op # "J"}) = made - gen["j"]

\* Refinement: until the end sequence each step that writes to the program places one
\* instruction where control is, on a path through slots that hold none but a jump, as
\* long as no error is reported and nothing unchecked asked for.
Path == INSTANCE SlotPath
          WITH Free <- Empty, Fillers <- [op : {"J"}, next : Word],
               words <- instr, at <- IF InText(pc) THEN Here ELSE NumSlots
OnPath ==
  status \in {"random", "user"} /\ NothingUnchecked' =>
    Path!Place \/ UNCHANGED Path!pathVars
GeneratesPath == Path!Init /\ [][OnPath]_vars

\* A directed instruction finds its operands in its registers, through all the jumps
\* make_room puts between the loads and the instruction, unless a value of its call was
\* reported or is negative; of two operands in one register the second.
LastCall == asked[Len(asked)]

OperandsSet ==
  LET c == LastCall
  IN  /\ status = "user" /\ pending # Nothing /\ queue = <<>>
      /\ Misfits(c) = {} /\ \A x \in Sets(c) : c[x] >= 0
      => /\ "rtVal" \in Sets(c) /\ c.rt # 0 => regs[c.rt] = c.rtVal
         /\ "rsVal" \in Sets(c) /\ c.rs # 0 /\ ~("rtVal" \in Sets(c) /\ c.rt = c.rs) =>
              regs[c.rs] = c.rsVal

\* The generator ends: no draw is repeated for ever and no test goes on for ever.
Ends == <>(status \in Ended)
=============================================================================
