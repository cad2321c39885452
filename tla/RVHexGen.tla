------------------------------- MODULE RVHexGen -------------------------------
(***************************************************************************)
(* The RISC-V test generator, hex_gen.c.  It fills the program memory one  *)
(* random instruction at a time, always at the pc of a simulator that      *)
(* executes each instruction as soon as it is placed.  Draws that fail a   *)
(* check are repeated; make_room inserts a jump where the next slots are   *)
(* taken.                                                                  *)
(*                                                                         *)
(* A draw of rand() is an existential choice.  What an instruction         *)
(* computes and whether a branch is taken is chosen too; addresses, the    *)
(* three checks and the bookkeeping of the slots are as in the code.       *)
(***************************************************************************)
EXTENDS Integers, FiniteSets

CONSTANTS
  NumSlots,         \* words of the program memory: 2048
  Tail,             \* words of it that no branch or jump may target: 64
  WordSize,         \* 2^32
  ImmSize,          \* number of values of a 12-bit immediate: 2^12
  NumRegs,          \* 32
  Values,           \* what an instruction may compute
  Mixes,            \* the numbers of instructions that may be asked for
  Drawn,            \* the instructions rand() chooses among
  Imms,             \* the 12-bit immediates it draws
  BranchOffsets,    \* the branch offsets it draws, in slots
  JumpOffsets       \* the jump offsets it draws, in slots

Kinds == {"r", "i", "s", "b", "u", "j"}
KindOf(op) == CASE op = "R" -> "r" [] op \in {"ALUI", "LW", "JALR"} -> "i"
                [] op = "SW" -> "s" [] op = "BRANCH" -> "b" [] op = "U" -> "u"
                [] op = "JAL" -> "j"
Ops == {"R", "ALUI", "LW", "JALR", "SW", "BRANCH", "U", "JAL"}

ASSUME HexGenAssumption ==
  /\ NumSlots \in Nat /\ Tail \in 1..(NumSlots - 1)
  /\ WordSize \in Nat /\ WordSize >= 8 * NumSlots
  /\ ImmSize \in 1..WordSize
  /\ NumRegs \in Nat \ {0}
  /\ Values \subseteq 0..(WordSize - 1) /\ 0 \in Values
  /\ Mixes \subseteq [Kinds -> Nat]
  /\ Drawn \subseteq Ops
  /\ Imms \subseteq 0..(ImmSize - 1)
  /\ BranchOffsets \subseteq Int /\ JumpOffsets \subseteq Int

VARIABLES
  want,         \* num_r .. num_j, the instructions asked for
  gen,          \* r_gen .. j_gen, those generated
  used,         \* PC[], the slots that hold an instruction
  instr,        \* instr[], what print_to_file will write
  text,         \* the simulator's program memory
  pc, regs,     \* CURRENT_STATE
  prevPC,       \* prev_pc
  pending,      \* the fields drawn for the next instruction, not yet accepted
  status        \* generating, done, overflow (the exit of make_room), wild

vars == <<want, gen, used, instr, text, pc, regs, prevPC, pending, status>>

-----------------------------------------------------------------------------
(* Addresses.  The data region lies below the text region, which begins where *)
(* it ends, and each is one byte short of a whole number of words.            *)

Word     == 0..(WordSize - 1)
Reg      == 0..(NumRegs - 1)
Slots    == 0..(NumSlots - 1)
TextBase == 4 * NumSlots
DataEnd  == TextBase - 1          \* MEM_DATA_START + MEM_DATA_SIZE
TextEnd  == TextBase + 4 * NumSlots - 1

InText(a)  == a \in TextBase..TextEnd /\ (a - TextBase) % 4 = 0
SlotOf(a)  == (a - TextBase) \div 4
AddrOf(s)  == (TextBase + 4 * s) % WordSize
Here       == SlotOf(pc)

SignExtend(imm) == IF 2 * imm < ImmSize THEN imm ELSE imm - ImmSize

\* A word of the program stands for its operation and where it sent control
Words == [op : Ops, next : Word]
Empty == [op |-> "none", next |-> 0]     \* nothing has been put there
Data  == [op |-> "data", next |-> 0]     \* what a store has left

\* The fields an instruction draws: rs is the base register of a load, a store and
\* JALR, d the offset of a branch or a jump, in slots; what it does not use is 0
Fields(ops, rds, bases, imms, offsets, outcomes) ==
  [op : Drawn \cap ops, rd : rds, rs : bases, imm : imms, d : offsets, taken : outcomes]
BranchResults == BOOLEAN     \* either result has registers that give it
Draws ==
  Fields({"R", "ALUI", "U"}, Reg, {0}, {0}, {0}, {FALSE})
  \cup Fields({"LW", "JALR"}, Reg, Reg, Imms, {0}, {FALSE})
  \cup Fields({"SW"}, {0}, Reg, Imms, {0}, {FALSE})
  \cup Fields({"BRANCH"}, {0}, {0}, {0}, BranchOffsets, BranchResults)
  \cup Fields({"JAL"}, Reg, {0}, {0}, JumpOffsets, {FALSE})
Nothing == [op |-> "none"]

Sum == gen["r"] + gen["i"] + gen["s"] + gen["b"] + gen["u"] + gen["j"]   \* instr_gen

-----------------------------------------------------------------------------
(* The three checks *)

\* check_ls_addr: the address without its low bits lies in the data; otherwise the
\* register is found too large, or the immediate wrong
EffectiveAddr(base, imm) ==
  LET a == (base + SignExtend(imm)) % WordSize IN a - (a % 4)

\* (mutant) the end of the memory taken for the end of the data
LsCheckWide(base, imm) ==
  IF EffectiveAddr(base, imm) > 0 /\ EffectiveAddr(base, imm) < TextEnd THEN "ok"
  ELSE IF base > TextEnd THEN "register" ELSE "immediate"

LsCheck(base, imm) ==
  IF EffectiveAddr(base, imm) > 0 /\ EffectiveAddr(base, imm) < DataEnd THEN "ok"
  ELSE IF base > DataEnd THEN "register" ELSE "immediate"

\* check_brn_addr; the range of check_j_addr is the same
Targetable(s) == s \in 1..(NumSlots - Tail) /\ ~used[s]

\* check_j_addr shifts the offset left, which is in bytes already; for JALR the shift
\* takes the register with it
JumpCheck(d) == Targetable(Here + 2 * d)
JalrCheck(base, imm) ==
  LET a == (2 * (base + SignExtend(imm))) % WordSize
  IN  a > TextBase /\ a <= AddrOf(NumSlots - Tail) /\ (InText(a) => ~used[SlotOf(a)])

\* What the gen_ functions ask of the fields they have drawn; a branch that is not
\* taken is not checked
Verdict(f) ==
  CASE f.op \in {"LW", "SW"} -> LsCheck(regs[f.rs], f.imm)
    [] f.op = "BRANCH" -> IF f.taken => Targetable(Here + f.d) THEN "ok" ELSE "immediate"
    [] f.op = "JAL" -> IF JumpCheck(f.d) THEN "ok" ELSE "immediate"
    [] f.op = "JALR" -> IF JalrCheck(regs[f.rs], f.imm) THEN "ok" ELSE "register"
    [] OTHER -> "ok"

\* (mutant) the goto behind the draws
RedrawnNothing(f) == {}

\* Which fields each complaint draws again: of a store the register alone
Redrawn(f) ==
  CASE Verdict(f) = "immediate" -> {"imm", "d"}
    [] Verdict(f) # "immediate" /\ f.op = "SW" -> {"rs"}
    [] OTHER -> {"rs", "imm"}

-----------------------------------------------------------------------------
(* Running an instruction: load_instr_opcode, run(1) and update_cpu *)

\* execute_s adds the immediate without its sign; a store that lands in the text
\* leaves its data there
StoreHits(base, imm) ==
  LET a == (base + imm) % WordSize
      aligned == a - (a % 4)
  IN  IF aligned \in TextBase..(TextEnd - 1) THEN {SlotOf(aligned)} ELSE {}

Seq      == (pc + 4) % WordSize
Ahead(d) == (pc + 4 * d) % WordSize

Written(rd, v) == IF rd = 0 THEN regs ELSE [regs EXCEPT ![rd] = v]

\* (mutant) prev_pc left behind
ExecuteStale(op, next, hits, at) ==
  LET word == [op |-> op, next |-> next]
  IN  /\ text' = [s \in Slots |-> IF s \in hits THEN Data
                                  ELSE IF s = Here THEN word ELSE text[s]]
      /\ pc' = next
      /\ used' = [used EXCEPT ![at] = TRUE]
      /\ instr' = [instr EXCEPT ![at] = word]
      /\ prevPC' = pc

\* The word goes to the simulator's memory at its pc, and to the file at slot "at"
Execute(op, next, hits, at) ==
  LET word == [op |-> op, next |-> next]
  IN  /\ text' = [s \in Slots |-> IF s \in hits THEN Data
                                  ELSE IF s = Here THEN word ELSE text[s]]
      /\ pc' = next
      /\ used' = [used EXCEPT ![at] = TRUE]
      /\ instr' = [instr EXCEPT ![at] = word]
      /\ prevPC' = pc'

-----------------------------------------------------------------------------
(* make_room *)

\* (mutant) the offset counted from the next instruction
GenJNext(s) == Ahead(s - Here - 1)

\* gen_j: the offset of the jump, and where it leads
GenJ(s) == Ahead(s - Here)

\* PC[] is read one element too far behind the last slot: "beyond" is what is there
Taken(s, beyond) == IF s \in Slots THEN used[s] ELSE beyond

Pair(s, beyond)  == ~Taken(s, beyond) /\ ~Taken(s + 1, beyond)
Pairs(beyond)    == {s \in Slots \ {0} : Pair(s, beyond)}

\* A jump to the lowest pair of free slots, which counts as no instruction
JumpToRoom(beyond) ==
  \E s \in Pairs(beyond) :
    /\ \A t \in Pairs(beyond) : s <= t
    /\ Execute("JAL", GenJ(s), {}, SlotOf(prevPC))
    /\ \E rd \in Reg : regs' = Written(rd, Seq)

\* What the code means to stop at the end of the memory compares an offset with an address
AtEnd == pc - TextBase = TextBase + 4 * NumSlots - 4 * Tail

-----------------------------------------------------------------------------
(* gen_instr_hex and the gen_ functions *)

Init ==
  /\ want \in Mixes
  /\ gen = [k \in Kinds |-> 0]
  /\ used = [s \in Slots |-> FALSE]
  /\ instr = [s \in Slots |-> Empty]
  /\ text = [s \in Slots |-> Empty]
  /\ pc = TextBase /\ prevPC = TextBase
  /\ regs = [r \in Reg |-> 0]
  /\ pending = Nothing
  /\ status = "generating"

\* A kind still wanted is chosen, room is made, and the fields are drawn a first time
Draw(k) == \E f \in Draws : KindOf(f.op) = k /\ pending' = f
Ready(k) == status = "generating" /\ pending = Nothing /\ gen[k] < want[k]

Begin(k) ==
  /\ Ready(k) /\ InText(pc)
  /\ \E beyond \in BOOLEAN : Pair(Here, beyond) /\ ~AtEnd
  /\ Draw(k)
  /\ UNCHANGED <<want, gen, used, instr, text, pc, regs, prevPC, status>>

BeginElsewhere(k) ==
  /\ Ready(k) /\ InText(pc)
  /\ \E beyond \in BOOLEAN : (~Pair(Here, beyond) \/ AtEnd) /\ JumpToRoom(beyond)
  /\ Draw(k)
  /\ UNCHANGED <<want, gen, status>>

NoRoom(k) ==
  /\ Ready(k) /\ InText(pc)
  /\ \E beyond \in BOOLEAN : (~Pair(Here, beyond) \/ AtEnd) /\ Pairs(beyond) = {}
  /\ status' = "overflow"
  /\ UNCHANGED <<want, gen, used, instr, text, pc, regs, prevPC, pending>>

\* PC[] is indexed outside its bounds: nothing is said of what happens then
Astray(k) ==
  /\ Ready(k) /\ ~InText(pc)
  /\ status' = "wild"
  /\ UNCHANGED <<want, gen, used, instr, text, pc, regs, prevPC, pending>>

\* The common end of the gen_ functions: load, run, update_cpu, one instruction more
Generate(k, next, hits, result) ==
  /\ Execute(pending.op, next, hits, IF Sum = 0 THEN 0 ELSE SlotOf(prevPC))
  /\ regs' = result
  /\ gen' = [gen EXCEPT ![k] = @ + 1]
  /\ pending' = Nothing
  /\ UNCHANGED <<want, status>>

Accepted(ops) == pending.op \in ops /\ Verdict(pending) = "ok"

GenR == Accepted({"R"}) /\ \E v \in Values : Generate("r", Seq, {}, Written(pending.rd, v))
GenU == Accepted({"U"}) /\ \E v \in Values : Generate("u", Seq, {}, Written(pending.rd, v))

GenI ==
  \/ /\ Accepted({"ALUI", "LW"})
     /\ \E v \in Values : Generate("i", Seq, {}, Written(pending.rd, v))
  \/ /\ Accepted({"JALR"})
     /\ Generate("i", (regs[pending.rs] + SignExtend(pending.imm)) % WordSize, {},
                 Written(pending.rd, Seq))

GenB ==
  /\ Accepted({"BRANCH"})
  /\ Generate("b", IF pending.taken THEN Ahead(pending.d) ELSE Seq, {}, regs)

GenJType ==
  /\ Accepted({"JAL"})
  /\ Generate("j", Ahead(pending.d), {}, Written(pending.rd, Seq))

GenS ==
  /\ Accepted({"SW"})
  /\ Generate("s", Seq, StoreHits(regs[pending.rs], pending.imm), regs)

Redraw(g) ==
  /\ pending # Nothing /\ Verdict(pending) # "ok"
  /\ \A x \in DOMAIN g : g[x] = pending[x] \/ x \in Redrawn(pending)
  /\ pending' = g
  /\ UNCHANGED <<want, gen, used, instr, text, pc, regs, prevPC, status>>

\* print_to_file writes instr[] where PC[] is set
Finish ==
  /\ status = "generating" /\ pending = Nothing /\ gen = want
  /\ status' = "done"
  /\ UNCHANGED <<want, gen, used, instr, text, pc, regs, prevPC, pending>>

Next ==
  \/ \E k \in Kinds : Begin(k) \/ BeginElsewhere(k) \/ NoRoom(k) \/ Astray(k)
  \/ GenR \/ GenI \/ GenS \/ GenB \/ GenU \/ GenJType
  \/ \E g \in Draws : Redraw(g)
  \/ Finish

\* rand() does not draw only what is refused, time after time, if something else
\* is there to draw
Fairness ==
  /\ WF_vars(Next)
  /\ \A v \in {"ok", "immediate"} : SF_vars(\E g \in Draws : Verdict(g) = v /\ Redraw(g))

Spec == Init /\ [][Next]_vars /\ Fairness

-----------------------------------------------------------------------------
(* Properties *)

\* The type invariant.
TypeOK ==
  /\ want \in Mixes /\ gen \in [Kinds -> Nat]
  /\ used \in [Slots -> BOOLEAN]
  /\ instr \in [Slots -> Words \cup {Empty}]
  /\ text \in [Slots -> Words \cup {Empty, Data}]
  /\ pc \in Word /\ prevPC \in Word
  /\ regs \in [Reg -> Word]
  /\ pending \in Draws \cup {Nothing}
  /\ status \in {"generating", "done", "overflow", "wild"}

\* While instructions are generated, the slot that control has reached is free: what the
\* three checks and make_room are for.  Or it holds a jump of make_room back to the slot
\* before: the pair of slots it chose was the one its own jump was put in.
LandsOnNoInstruction ==
  status = "generating" /\ InText(pc) /\ used[Here] =>
    instr[Here].op = "JAL" /\ instr[Here].next = pc - 4

\* The program the simulator has executed is the program in the file, and prev_pc is
\* the simulator's pc wherever it is used as the place of the next instruction.
FileIsText ==
  /\ prevPC = pc
  /\ \A s \in Slots : used[s] => instr[s] = text[s]

\* The file has the requested number of instructions of every kind, besides the jumps
\* of make_room.
Count(k) == Cardinality({s \in Slots : used[s] /\ KindOf(instr[s].op) = k})
MixDelivered == \A k \in Kinds \ {"j"} : Count(k) = gen[k]

\* Refinement: generating is placing instructions along a path through slots that hold
\* none.  Loaded and run again the file does what it did while it was made.
Path == INSTANCE SlotPath
          WITH Free <- Empty, Fillers <- [op : {"JAL"}, next : Word],
               words <- instr, at <- IF InText(pc) THEN Here ELSE NumSlots
GeneratesPath == Path!Spec

\* The generator ends if the mix leaves half of the memory free: no draw is then repeated
\* for ever, because another passes its check, except that of a JALR, which no address in
\* the program does.
Asked(w) == w["r"] + w["i"] + w["s"] + w["b"] + w["u"] + w["j"]
Ends == Asked(want) < NumSlots \div 2
          ~> (status # "generating" \/ [](pending.op = "JALR" /\ Verdict(pending) # "ok"))
=============================================================================
