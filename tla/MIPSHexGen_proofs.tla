-------------------------- MODULE MIPSHexGen_proofs --------------------------
(***************************************************************************)
(* The MIPS generator, for every memory, mixture and set of calls: as long *)
(* as nothing unchecked is asked for, no instruction it has placed is lost *)
(* and all are counted; and a directed instruction finds its operands.     *)
(***************************************************************************)
EXTENDS MIPSHexGen, FiniteSetTheorems, TLAPS

-----------------------------------------------------------------------------
(* The invariants *)

\* What a call may ask for: an immediate that fits into its field, with what it borrows
Directed ==
  {f \in [op : ROps \cup IOps, rd : Reg, rs : Reg, rt : Reg, imm : Int] :
     f.op \in IOps => f.imm < ImmSize /\ (f.imm < 0 => -f.imm <= ImmSize * f.rt)}

MemOK ==
  /\ used \in [Slots -> BOOLEAN]
  /\ instr \in [Slots -> Words \cup {Empty}]
  /\ text \in [Slots -> Words \cup {Empty, Data}]
  /\ pc \in Word /\ prevPC \in Word
  /\ regs \in [Reg -> Word]

TypeOK ==
  /\ MemOK /\ runBit \in BOOLEAN
  /\ want \in Mixes /\ gen \in [Kinds -> Nat] /\ made \in Nat
  /\ status \in Generating \cup Ended
  /\ status = "random" => pending \in Draws \cup {Nothing}
  /\ status = "user" => pending \in Directed \cup {Nothing}
  /\ status \in {"code", "syscall"} => pending \in {ExitSequence[status], Nothing}
  /\ asked \in Seq(Calls) /\ queue \in Seq(Directed)
  /\ errCount \in Nat /\ errors \in Nat

\* f is being placed, or is next, and the rest behind it
Facing(f, rest) ==
  \/ pending # Nothing /\ pending = f /\ queue = rest
  \/ pending = Nothing /\ queue # <<>> /\ Head(queue) = f /\ Tail(queue) = rest

Loaded(r, v) == r # 0 => regs[r] = v

\* What is left of a call, and what has been loaded for it: the values that are neither
\* reported nor negative, in their order
LoadRs(c) == Constant(c.rs, c.rsVal)
LoadRt(c) == Constant(c.rt, c.rtVal)

Sound(c)  == Misfits(c) = {} /\ \A x \in Sets(c) : c[x] >= 0

AtWork(c) ==
  /\ \/ Facing(Request(c), <<>>)
     \/ Facing(LoadRs(c), <<Request(c)>>)
     \/ Facing(LoadRt(c), <<Request(c)>>)
     \/ Facing(LoadRs(c), <<LoadRt(c), Request(c)>>)
  /\ Sound(c) /\ Sets(c) = {"rsVal"} =>
       \/ Facing(LoadRs(c), <<Request(c)>>)
       \/ Facing(Request(c), <<>>) /\ Loaded(c.rs, c.rsVal)
  /\ Sound(c) /\ Sets(c) = {"rsVal", "rtVal"} =>
       \/ Facing(LoadRs(c), <<LoadRt(c), Request(c)>>)
       \/ Facing(LoadRt(c), <<Request(c)>>) /\ Loaded(c.rs, c.rsVal)
       \/ /\ Facing(Request(c), <<>>) /\ Loaded(c.rt, c.rtVal)
          /\ c.rs # c.rt => Loaded(c.rs, c.rsVal)

DirectedInv ==
  status = "user" /\ ~(pending = Nothing /\ queue = <<>>) => asked # <<>> /\ AtWork(LastCall)

\* Before the end sequence the simulator's memory is the file where an instruction has
\* been placed; where an instruction is put no other is, and behind it none but the jump
\* of make_room that led there, which in the middle of the memory may be in its place
JumpsBack(s, a) == text[s].op = "J" /\ text[s].next = a

LandInv ==
  status \in Generating /\ NothingUnchecked =>
    /\ status # "syscall" => prevPC = pc
    /\ status = "syscall" /\ pending = Nothing => used[SlotOf(prevPC)]
    /\ status \in {"random", "user"} =>
         /\ made = 0 => pc = 0 /\ \A s \in Slots : ~used[s]
         /\ \A s \in Slots : used[s] => instr[s] = text[s]
    /\ InText(pc) /\ used[Here] => JumpsBack(Here, pc - 4) \/ JumpsBack(Here, pc)
    /\ pending # Nothing =>
         /\ InText(pc)
         /\ used[Here] => JumpsBack(Here, pc)
         /\ status # "syscall" /\ Here + 1 \in Slots /\ used[Here + 1] => JumpsBack(Here + 1, pc)

-----------------------------------------------------------------------------
(* Addresses, slots and fields *)

LEMMA Sizes ==
  /\ NumSlots \in Nat /\ NumSlots >= 4 /\ Margin \in 1..(NumSlots - 2)
  /\ WordSize \in Nat /\ WordSize > 4 * NumSlots /\ DataSize \in Nat
  /\ ImmSize \in Nat /\ ImmSize >= 2 /\ ImmSize <= WordSize
  /\ 0 \in Word /\ Word \subseteq Nat /\ 0 \in Slots /\ 1 \in Slots
  /\ NumRegs \in Nat /\ 0 \in Reg /\ V0 \in Reg /\ V0 # 0 /\ Link \in Reg /\ ExitCode \in Word
  BY HexGenAssumption DEF Word, Slots, Reg

LEMMA SlotsAndAddresses ==
  /\ \A a \in Word : InText(a) => SlotOf(a) \in Slots /\ a = 4 * SlotOf(a)
  /\ \A s \in Slots : 4 * s \in Word /\ InText(4 * s) /\ SlotOf(4 * s) = s
  BY Sizes, SMTT(30) DEF Word, InText, SlotOf, Slots, TextEnd

LEMMA WrapsAround == \A x \in Int : x % WordSize \in Word
  BY Sizes DEF Word

\* Where control goes from a slot: to the next one or out of the memory, or to the slot
\* a branch names
LEMMA Successors ==
  ASSUME pc \in Word, InText(pc)
  PROVE  /\ Here \in Slots /\ pc = 4 * Here
         /\ Seq4 \in Word /\ Seq4 = pc + 4
         /\ InText(Seq4) => SlotOf(Seq4) = Here + 1
<1>1. Here \in Slots /\ pc = 4 * Here
  BY SlotsAndAddresses DEF Here
<1>2. pc + 4 \in 0..(WordSize - 1)
  BY <1>1, Sizes DEF Slots
<1>3. Seq4 = pc + 4 /\ Seq4 \in Word
  BY <1>2, Sizes DEF Seq4, Word
<1>4. ASSUME InText(Seq4) PROVE SlotOf(Seq4) = Here + 1
  <2>1. SlotOf(Seq4) \in Slots /\ Seq4 = 4 * SlotOf(Seq4)
    BY <1>3, <1>4, SlotsAndAddresses
  <2> QED
    BY <2>1, <1>1, <1>3, Sizes DEF Slots
<1> QED
  BY <1>1, <1>3, <1>4

LEMMA SignExtendType == \A imm \in Int : SignExtend(imm) \in Int
  BY Sizes DEF SignExtend

LEMMA BranchLeads ==
  ASSUME pc \in Word, InText(pc), NEW imm \in Int, BranchSlot(imm) \in Slots
  PROVE  BranchAddr(imm) = 4 * BranchSlot(imm)
<1>1. Here \in Slots /\ pc = 4 * Here
  BY Successors
<1>2. pc + 4 + 4 * SignExtend(imm) = 4 * BranchSlot(imm)
  BY <1>1, SignExtendType DEF BranchSlot, Slots
<1>3. 4 * BranchSlot(imm) \in Word
  BY SlotsAndAddresses
<1> QED
  BY <1>2, <1>3, Sizes DEF BranchAddr, Word

\* The sum of two fields, of which the lower borrows no more than the upper has
LEMMA Multiples ==
  ASSUME NEW n \in Nat, NEW a \in Int, NEW b \in Int, a < b
  PROVE  n * a + n <= n * b
<1>1. n * (a + 1) <= n * b
  OBVIOUS
<1> QED
  BY <1>1

LEMMA BorrowsFromRt ==
  ASSUME NEW rt \in Nat, NEW imm \in Int, imm < ImmSize, imm < 0 => -imm <= ImmSize * rt
  PROVE  /\ (rt * ImmSize + imm) \div ImmSize \in 0..rt
         /\ (rt * ImmSize + imm) % ImmSize \in 0..(ImmSize - 1)
         /\ imm >= 0 => /\ (rt * ImmSize + imm) \div ImmSize = rt
                        /\ (rt * ImmSize + imm) % ImmSize = imm
<1> DEFINE low == rt * ImmSize + imm
           q == low \div ImmSize
           m == low % ImmSize
<1>1. ImmSize \in Nat /\ ImmSize > 0 /\ rt * ImmSize = ImmSize * rt /\ ImmSize * rt \in Nat
  BY Sizes
<1>2. low \in Nat
  BY <1>1
<1>3. q \in Nat /\ m \in 0..(ImmSize - 1) /\ low = ImmSize * q + m
  BY <1>1, <1>2
<1>4. ImmSize * q \in Nat
  BY <1>1, <1>3
<1> HIDE DEF q, m
<1>5. ~(rt < q)
  BY <1>1, <1>3, <1>4, Multiples
<1>6. imm >= 0 => ~(q < rt)
  BY <1>1, <1>3, <1>4, Multiples
<1>7. imm >= 0 => q = rt /\ m = imm
  BY <1>1, <1>3, <1>4, <1>5, <1>6
<1> QED
  BY <1>3, <1>5, <1>7 DEF q, m

\* What a draw, a call and the end sequence put into the fields
Placeable(f) ==
  /\ f \in [op : Ops, rd : Reg, rs : Reg, rt : Reg, imm : Int]
  /\ f.op \in IOps => f.imm < ImmSize /\ (f.imm < 0 => -f.imm <= ImmSize * f.rt)

LEMMA DrawnFields ==
  ASSUME NEW f \in Draws
  PROVE  /\ f.op \in Drawn /\ Placeable(f) /\ f # Nothing
         /\ f.op \in IOps \cup JTable => f.imm \in Nat
         /\ f.op \in CheckedTarget => f.imm \in Imms
<1>1. /\ Drawn \subseteq RTable \cup ITable \cup JTable
      /\ \A i \in Imms : i \in Nat /\ i < ImmSize
      /\ \A t \in Targets : t \in Nat
  BY HexGenAssumption, Sizes
<1>2. /\ RTable \subseteq ROps /\ ITable \subseteq IOps /\ JTable \cap IOps = {} /\ ROps \cap IOps = {}
      /\ WritesRt \cap (CheckedTarget \cup JTable \cup RTable) = {}
      /\ WordLoad \cap CheckedTarget = {} /\ WordStore \cap CheckedTarget = {}
      /\ RTable \cap (CheckedTarget \cup JTable) = {} /\ JTable \cap CheckedTarget = {}
      /\ Branches \subseteq CheckedTarget
      /\ WritesRt \subseteq IOps /\ WordLoad \subseteq IOps /\ WordStore \subseteq IOps
      /\ Branches \subseteq IOps
  BY DEF RTable, ITable, JTable, ROps, IOps, WritesRt, CheckedTarget, Sums, Divisions, RegJumps,
         HiLoMoves, Products, Ors, LeftShifts, SetsLess, RightShifts, Differences, XorOp,
         SyscallOp, AddImms, Branches, RegBranches, PartLoads, UpperImm, WordLoad, OrImm,
         PartStores, WordStore, LessImms
<1>3. CASE f \in Fields(Drawn \cap RTable, Reg, {0}, {0}, {0})
  BY <1>1, <1>2, <1>3, Sizes DEF Fields, Placeable, Ops, Nothing
<1>4. CASE f \in Fields((Drawn \cap WritesRt) \ WordLoad, {0}, {V0}, Reg, {0})
  BY <1>1, <1>2, <1>4, Sizes DEF Fields, Placeable, Ops, Nothing
<1>5. CASE f \in Fields(Drawn \cap WordLoad, {0}, Reg, Reg, Imms)
  BY <1>1, <1>2, <1>5, Sizes DEF Fields, Placeable, Ops, Nothing
<1>6. CASE f \in Fields(Drawn \cap WordStore, {0}, Reg, {0}, Imms)
  BY <1>1, <1>2, <1>6, Sizes DEF Fields, Placeable, Ops, Nothing
<1>7. CASE f \in Fields(Drawn \cap Branches, {0}, {0}, {0}, Imms)
  BY <1>1, <1>2, <1>7, Sizes DEF Fields, Placeable, Ops, Nothing
<1>8. CASE f \in Fields(Drawn \cap JTable, {0}, {0}, {0}, Targets)
  BY <1>1, <1>2, <1>8, Sizes DEF Fields, Placeable, Ops, Nothing
<1> QED
  BY <1>3, <1>4, <1>5, <1>6, <1>7, <1>8 DEF Draws

\* The groups of instructions, by the way the generator runs them
LEMMA Groups ==
  /\ WritesRd \subseteq ROps /\ RegJumps \subseteq ROps
  /\ Divisions \cup Products \cup {"MTHI", "MTLO"} \cup SyscallOp \subseteq ROps
  /\ WritesRt \subseteq IOps /\ CheckedTarget \subseteq IOps
  /\ PartStores \cup WordStore \subseteq IOps /\ OrImm \subseteq WritesRt
  /\ JTable = {"J"} /\ "J" \notin ROps \cup IOps /\ ROps \cap IOps = {}
  /\ WritesRt \cap CheckedTarget = {} /\ "ORI" \in OrImm /\ "ORI" \notin PartStores \cup CheckedTarget
  /\ (WritesRd \cup WritesRt) \cap (RegJumps \cup PartStores) = {}
  /\ "ADDI" \in IOps /\ "SYSCALL" \in ROps
  BY DEF JTable, ROps, IOps, WritesRt, WritesRd, CheckedTarget, Sums, Divisions, RegJumps,
         HiLoMoves, Products, Ors, LeftShifts, SetsLess, RightShifts, Differences, XorOp,
         SyscallOp, AddImms, Branches, RegBranches, PartLoads, UpperImm, WordLoad, OrImm,
         PartStores, WordStore, LessImms

LEMMA KindsOfOps ==
  /\ \A op \in ROps : KindOf(op) = "r"
  /\ \A op \in IOps : KindOf(op) = "i"
  /\ KindOf("J") = "j" /\ Kinds = {"r", "i", "j"}
  /\ \A op \in Ops : op # "none" /\ op # "data"
<1>1. "none" \notin Ops /\ "data" \notin Ops
  BY DEF Ops, JTable, ROps, IOps, Sums, Divisions, RegJumps,
         HiLoMoves, Products, Ors, LeftShifts, SetsLess, RightShifts, Differences, XorOp,
         SyscallOp, AddImms, Branches, RegBranches, PartLoads, UpperImm, WordLoad, OrImm,
         PartStores, WordStore, LessImms
<1> QED
  BY <1>1, Groups DEF KindOf, Kinds

LEMMA DirectedFields ==
  ASSUME NEW f \in Directed
  PROVE  Placeable(f) /\ f # Nothing /\ f.op \in ROps \cup IOps
<1>1. f.op # "none"
  BY KindsOfOps DEF Directed, Ops
<1> QED
  BY <1>1 DEF Directed, Placeable, Ops, Nothing

LEMMA EncodedFields ==
  ASSUME NEW f, Placeable(f), f.op \in IOps
  PROVE  /\ Encoded(f).rt \in Reg /\ Encoded(f).imm \in 0..(ImmSize - 1)
         /\ Encoded(f).op = f.op /\ Encoded(f).rs = f.rs
         /\ f.imm >= 0 => Encoded(f).rt = f.rt /\ Encoded(f).imm = f.imm
<1> DEFINE low == f.rt * ImmSize + f.imm
           q == low \div ImmSize
           m == low % ImmSize
<1>1. f.rt \in Nat /\ f.imm \in Int /\ f.rt \in Reg
      /\ f \in [op : Ops, rd : Reg, rs : Reg, rt : Reg, imm : Int]
  BY DEF Placeable, Reg
<1>2. f.imm < ImmSize /\ (f.imm < 0 => -f.imm <= ImmSize * f.rt)
  BY DEF Placeable
<1>3. /\ q \in 0..f.rt /\ m \in 0..(ImmSize - 1)
      /\ f.imm >= 0 => q = f.rt /\ m = f.imm
  BY <1>1, <1>2, BorrowsFromRt
<1>4. Encoded(f) = [f EXCEPT !.rt = q, !.imm = m]
  BY DEF Encoded
<1> HIDE DEF q, m
<1>5. q \in Reg
  BY <1>1, <1>3, Sizes DEF Reg
<1> QED
  BY <1>1, <1>3, <1>4, <1>5

\* What a call leaves to be placed
LEMMA WorkParts ==
  ASSUME NEW c \in Calls
  PROVE  /\ "rsVal" \in Sets(c) /\ Fits(c.rsVal) => LoadRs(c) \in Directed
         /\ "rtVal" \in Sets(c) /\ Fits(c.rtVal) => LoadRt(c) \in Directed
         /\ ~LeftOut(c) => Request(c) \in Directed
<1>1. CallOf(c)
  BY HexGenAssumption
<1>2. "ORI" \in ROps \cup IOps /\ 0 \in Reg
  BY Groups, Sizes
<1>3. Fits(c.rsVal) => LoadRs(c) \in Directed
  BY <1>1, <1>2 DEF LoadRs, Constant, Directed, CallOf, Fits
<1>4. Fits(c.rtVal) => LoadRt(c) \in Directed
  BY <1>1, <1>2 DEF LoadRt, Constant, Directed, CallOf, Fits
<1>5. ~LeftOut(c) => Request(c) \in Directed
  BY <1>1 DEF LeftOut, Request, Directed, CallOf, Fits
<1> QED
  BY <1>3, <1>4, <1>5

LEMMA WorkShape ==
  ASSUME NEW c \in Calls
  PROVE  \/ LeftOut(c) /\ Work(c) = <<>>
         \/ /\ ~LeftOut(c)
            /\ \/ /\ Work(c) = <<Request(c)>>
                  /\ Sets(c) = {} \/ Misfits(c) # {}
               \/ /\ Work(c) = <<LoadRs(c), Request(c)>> /\ Fits(c.rsVal)
                  /\ "rsVal" \in Sets(c) /\ ("rtVal" \in Sets(c) => Misfits(c) # {})
               \/ /\ Work(c) = <<LoadRt(c), Request(c)>> /\ Fits(c.rtVal)
                  /\ "rtVal" \in Sets(c) /\ Misfits(c) # {}
               \/ /\ Work(c) = <<LoadRs(c), LoadRt(c), Request(c)>>
                  /\ Fits(c.rsVal) /\ Fits(c.rtVal)
                  /\ Sets(c) = {"rsVal", "rtVal"}
<1> DEFINE a == Load(c, "rsVal", c.rs)
           b == Load(c, "rtVal", c.rt)
<1>1. /\ Sets(c) \subseteq {"rsVal", "rtVal"}
      /\ "rtVal" \in Sets(c) => "rsVal" \in Sets(c)
      /\ c["rsVal"] = c.rsVal /\ c["rtVal"] = c.rtVal
  BY DEF Sets
<1>2. \/ a = <<LoadRs(c)>> /\ "rsVal" \in Sets(c) /\ Fits(c.rsVal)
      \/ a = <<>> /\ ~("rsVal" \in Sets(c) /\ Fits(c.rsVal))
  BY <1>1 DEF Load, LoadRs
<1>3. \/ b = <<LoadRt(c)>> /\ "rtVal" \in Sets(c) /\ Fits(c.rtVal)
      \/ b = <<>> /\ ~("rtVal" \in Sets(c) /\ Fits(c.rtVal))
  BY <1>1 DEF Load, LoadRt
<1>4. LeftOut(c) => Work(c) = <<>>
  BY DEF Work
<1>5. ~LeftOut(c) => Work(c) = Append(a \o b, Request(c))
  BY DEF Work, Operands
<1>6. ~LeftOut(c) => Misfits(c) = {x \in Sets(c) : ~Fits(c[x])}
  BY DEF Misfits
<1> HIDE DEF a, b
<1>7. CASE ~LeftOut(c) /\ a = <<LoadRs(c)>> /\ b = <<LoadRt(c)>>
  <2>1. Work(c) = <<LoadRs(c), LoadRt(c), Request(c)>>
    BY <1>5, <1>7
  <2> QED
    BY <2>1, <1>1, <1>2, <1>3, <1>7
<1>8. CASE ~LeftOut(c) /\ a = <<LoadRs(c)>> /\ b = <<>>
  <2>1. Work(c) = <<LoadRs(c), Request(c)>>
    BY <1>5, <1>8
  <2> QED
    BY <2>1, <1>1, <1>2, <1>3, <1>6, <1>8
<1>9. CASE ~LeftOut(c) /\ a = <<>> /\ b = <<LoadRt(c)>>
  <2>1. Work(c) = <<LoadRt(c), Request(c)>>
    BY <1>5, <1>9
  <2> QED
    BY <2>1, <1>1, <1>2, <1>3, <1>6, <1>9
<1>10. CASE ~LeftOut(c) /\ a = <<>> /\ b = <<>>
  <2>1. Work(c) = <<Request(c)>>
    BY <1>5, <1>10
  <2> QED
    BY <2>1, <1>1, <1>2, <1>3, <1>6, <1>10
<1> QED
  BY <1>2, <1>3, <1>4, <1>7, <1>8, <1>9, <1>10

-----------------------------------------------------------------------------
(* Type correctness *)

LEMMA PutTyped ==
  ASSUME MemOK, NEW op \in Ops, NEW next \in Word, NEW hits, NEW result \in [Reg -> Word], NEW at,
         Put(op, next, hits, result, at) \/ PutBefore(op, next, hits, result, at)
  PROVE  MemOK'
<1> DEFINE word == [op |-> op, next |-> next]
<1>1. word \in Words
  BY DEF Words
<1>2. /\ text' = [s \in Slots |-> IF s \in hits THEN Data
                                  ELSE IF s = Here THEN word ELSE text[s]]
      /\ used' = [used EXCEPT ![at] = TRUE] /\ instr' = [instr EXCEPT ![at] = word]
      /\ pc' = next /\ regs' = result /\ prevPC' \in Word
  BY DEF Put, PutBefore, MemOK
<1> HIDE DEF word
<1>3. used' \in [Slots -> BOOLEAN] /\ instr' \in [Slots -> Words \cup {Empty}]
  BY <1>1, <1>2 DEF MemOK
<1>4. text' \in [Slots -> Words \cup {Empty, Data}]
  BY <1>1, <1>2 DEF MemOK
<1> QED
  BY <1>2, <1>3, <1>4 DEF MemOK

LEMMA WrittenTyped ==
  ASSUME MemOK, NEW r \in Reg, NEW v \in Word
  PROVE  Written(r, v) \in [Reg -> Word]
  BY DEF MemOK, Written

\* What is pending in the mixture and in the user's test
LEMMA PendingPlaceable ==
  ASSUME TypeOK, pending # Nothing, status \in {"random", "user"}
  PROVE  /\ Placeable(pending)
         /\ pending.op \in Ops /\ pending.rd \in Reg /\ pending.rs \in Reg /\ pending.rt \in Reg
         /\ pending.imm \in Int
         /\ status = "user" => pending.op \in ROps \cup IOps
         /\ status = "random" => pending \in Draws
<1>1. Placeable(pending)
  BY DrawnFields, DirectedFields DEF TypeOK
<1>2. /\ status = "user" => pending.op \in ROps \cup IOps
      /\ status = "random" => pending \in Draws
  BY DirectedFields DEF TypeOK
<1> QED
  BY <1>1, <1>2 DEF Placeable

LEMMA GenerateTyped ==
  ASSUME TypeOK, pending # Nothing, status \in {"random", "user"},
         NEW next \in Word, NEW hits, NEW result \in [Reg -> Word],
         Generate(next, hits, result), runBit' \in BOOLEAN
  PROVE  TypeOK'
<1>1. pending.op \in Ops
  BY PendingPlaceable
<1>2. MemOK'
  BY <1>1, PutTyped DEF Generate, TypeOK
<1>3. gen \in [Kinds -> Nat] /\ made \in Nat /\ errors \in Nat
  BY DEF TypeOK
<1>4. gen' \in [Kinds -> Nat]
  <2> DEFINE k == KindOf(pending.op)
  <2>1. gen' = [gen EXCEPT ![k] = gen[k] + 1] \/ gen' = gen
    BY DEF Generate
  <2> HIDE DEF k
  <2> QED
    BY <1>3, <2>1
<1>5. made' \in Nat /\ errors' \in Nat
  BY <1>3 DEF Generate
<1>6. pending' = Nothing /\ UNCHANGED <<want, status, asked, queue, errCount>>
  BY DEF Generate, callVars
<1> QED
  BY <1>2, <1>4, <1>5, <1>6 DEF TypeOK

\* What is requested next has the type that goes with the status
LEMMA RequestedTyped ==
  ASSUME TypeOK, NEW f, Requested(f)
  PROVE  /\ status \in Generating
         /\ status = "random" => f \in Draws
         /\ status = "user" => f \in Directed
         /\ status \in {"code", "syscall"} => f = ExitSequence[status]
         /\ queue' \in Seq(Directed)
<1>1. queue \in Seq(Directed)
  BY DEF TypeOK
<1>2. queue # <<>> => Head(queue) \in Directed /\ Tail(queue) \in Seq(Directed)
  BY <1>1
<1> QED
  BY <1>1, <1>2 DEF Requested, Generating

\* The jump of make_room
LEMMA RoomTyped ==
  ASSUME TypeOK, NEW beyond, JumpToRoom(beyond)
  PROVE  MemOK' /\ runBit' = runBit
<1>1. PICK s \in Pairs(beyond) : Put("J", GenJ(s), {}, regs, SlotOf(prevPC))
  BY DEF JumpToRoom
<1>2. GenJ(s) \in Word
  BY SlotsAndAddresses DEF Pairs, GenJ
<1>3. "J" \in Ops /\ regs \in [Reg -> Word] /\ MemOK
  BY DEF Ops, JTable, TypeOK, MemOK
<1>4. MemOK'
  BY <1>1, <1>2, <1>3, PutTyped
<1> QED
  BY <1>4 DEF JumpToRoom

LEMMA TypeInit == Init => TypeOK
<1> SUFFICES ASSUME Init PROVE TypeOK
  OBVIOUS
<1>1. MemOK
  BY Sizes DEF Init, MemOK
<1>2. gen \in [Kinds -> Nat] /\ queue \in Seq(Directed) /\ asked \in Seq(Calls)
  BY DEF Init
<1> QED
  BY <1>1, <1>2 DEF Init, TypeOK, Generating

LEMMA StopTyped ==
  ASSUME TypeOK, NEW how \in Ended, Stop(how)
  PROVE  TypeOK' /\ status' \notin Generating
<1>1. /\ status' = how
      /\ UNCHANGED <<want, gen, made, used, instr, text, pc, regs, prevPC, runBit, pending,
                     asked, queue, errCount, errors>>
  BY DEF Stop, memVars, callVars
<1>2. status' \in Ended /\ status' \notin Generating
  BY <1>1 DEF Ended, Generating
<1> QED
  BY <1>1, <1>2 DEF TypeOK, MemOK, Generating

\* The ways to end, and those to go on without an instruction
LEMMA Endings ==
  ASSUME NoRoom \/ Astray \/ Halted \/ DivideByZero
  PROVE  \E how \in Ended : Stop(how)
  BY DEF NoRoom, Astray, Halted, DivideByZero, Ended

LEMMA AcceptedPending ==
  ASSUME TypeOK, NEW ops, Accepted(ops)
  PROVE  /\ status \in {"random", "user"} /\ pending # Nothing /\ pending.op \in ops
         /\ Placeable(pending)
         /\ pending.op \in Ops /\ pending.rd \in Reg /\ pending.rs \in Reg /\ pending.rt \in Reg
         /\ pending.imm \in Int
         /\ status = "random" => pending \in Draws
         /\ status = "user" => pending.op \in ROps \cup IOps
<1>1. status \in {"random", "user"} /\ pending # Nothing /\ pending.op \in ops
  BY DEF Accepted
<1> QED
  BY <1>1, PendingPlaceable

\* A jump passes its check only to a slot, and only the mixture has jumps
LEMMA JumpsToSlots ==
  ASSUME TypeOK, Accepted(JTable)
  PROVE  /\ status = "random" /\ pending.op = "J"
         /\ pending.imm \in Slots /\ ~used[pending.imm]
<1>1. pending.op = "J" /\ status = "random"
  BY AcceptedPending, Groups DEF Accepted
<1>2. pending.op \notin CheckedAddress \cup CheckedTarget
  BY <1>1, Groups DEF CheckedAddress, WordLoad, WordStore
<1>3. Verdict(pending) = "ok"
  BY <1>1 DEF Accepted
<1>4. Targetable(pending.imm, NumSlots - Margin - 1)
  BY <1>1, <1>2, <1>3 DEF Verdict
<1> QED
  BY <1>1, <1>4, Sizes DEF Targetable, Slots

LEMMA Addressed ==
  ASSUME TypeOK
  PROVE  /\ Seq4 \in Word
         /\ \A imm \in Int : BranchAddr(imm) \in Word
         /\ \A r \in Reg : regs[r] \in Word
         /\ regs \in [Reg -> Word]
<1>1. pc \in Int /\ regs \in [Reg -> Word]
  BY Sizes DEF TypeOK, MemOK
<1>2. \A imm \in Int : pc + 4 + 4 * SignExtend(imm) \in Int
  BY <1>1, SignExtendType
<1> QED
  BY <1>1, <1>2, WrapsAround DEF Seq4, BranchAddr

LEMMA GenRTyped == ASSUME TypeOK, GenR PROVE TypeOK'
<1>1. runBit' \in BOOLEAN
  BY DEF GenR
<1>2. CASE Accepted(WritesRd)
             /\ \E v \in Values : Generate(Seq4, {}, Written(pending.rd, v))
  <2>1. PICK v \in Values : Generate(Seq4, {}, Written(pending.rd, v))
    BY <1>2
  <2>2. v \in Word
    BY HexGenAssumption
  <2>3. Written(pending.rd, v) \in [Reg -> Word]
    BY <1>2, <2>2, AcceptedPending, WrittenTyped DEF TypeOK
  <2> QED
    BY <1>1, <1>2, <2>1, <2>3, AcceptedPending, Addressed, GenerateTyped
<1>3. CASE /\ Accepted(Divisions \cup Products \cup {"MTHI", "MTLO"} \cup SyscallOp)
           /\ Generate(Seq4, {}, regs)
  BY <1>1, <1>3, AcceptedPending, Addressed, GenerateTyped
<1>4. CASE /\ Accepted(RegJumps)
           /\ Generate(IF pending.rd = 0 THEN Seq4 ELSE regs[pending.rs], {},
                       IF pending.op = "JALR" /\ pending.rd # 0 THEN Written(Link, Seq4) ELSE regs)
  <2>1. pending.rs \in Reg /\ pending # Nothing /\ status \in {"random", "user"}
    BY <1>4, AcceptedPending
  <2>2. Written(Link, Seq4) \in [Reg -> Word]
    BY Addressed, Sizes, WrittenTyped DEF TypeOK
  <2>3. (IF pending.rd = 0 THEN Seq4 ELSE regs[pending.rs]) \in Word
    BY <2>1, Addressed
  <2>4. (IF pending.op = "JALR" /\ pending.rd # 0 THEN Written(Link, Seq4) ELSE regs)
          \in [Reg -> Word]
    BY <2>2, Addressed
  <2> QED
    BY <1>1, <1>4, <2>1, <2>3, <2>4, GenerateTyped
<1> QED
  BY <1>2, <1>3, <1>4 DEF GenR

LEMMA GenITyped == ASSUME TypeOK, GenI PROVE TypeOK'
<1> DEFINE f == Encoded(pending)
<1>1. runBit' \in BOOLEAN
  BY DEF GenI, TypeOK
<1>2. ASSUME NEW ops, ops \subseteq IOps, Accepted(ops)
      PROVE  f.rt \in Reg /\ f.imm \in Word /\ f.imm \in Int
  BY <1>2, AcceptedPending, EncodedFields, Sizes DEF Word
<1>3. CASE /\ Accepted(WritesRt)
           /\ \E v \in IF f.op \in OrImm /\ f.rs = 0 THEN {f.imm} ELSE Values :
                Generate(Seq4, {}, Written(f.rt, v))
  <2>1. PICK v \in IF f.op \in OrImm /\ f.rs = 0 THEN {f.imm} ELSE Values :
          Generate(Seq4, {}, Written(f.rt, v))
    BY <1>3
  <2>2. f.rt \in Reg /\ f.imm \in Word
    BY <1>2, <1>3, Groups
  <2>3. v \in Word
    BY <2>1, <2>2, HexGenAssumption
  <2>4. Written(f.rt, v) \in [Reg -> Word]
    BY <2>2, <2>3, WrittenTyped DEF TypeOK
  <2> QED
    BY <1>1, <1>3, <2>1, <2>4, AcceptedPending, Addressed, GenerateTyped
<1>4. CASE /\ Accepted(CheckedTarget)
           /\ \E next \in {Seq4, BranchAddr(f.imm)} :
                Generate(next, {}, IF f.op \in Links THEN Written(Link, Seq4) ELSE regs)
  <2>1. PICK next \in {Seq4, BranchAddr(f.imm)} :
          Generate(next, {}, IF f.op \in Links THEN Written(Link, Seq4) ELSE regs)
    BY <1>4
  <2>2. f.imm \in Int
    BY <1>2, <1>4, Groups
  <2>3. next \in Word
    BY <2>1, <2>2, Addressed
  <2>4. Written(Link, Seq4) \in [Reg -> Word]
    BY Addressed, Sizes, WrittenTyped DEF TypeOK
  <2>5. (IF f.op \in Links THEN Written(Link, Seq4) ELSE regs) \in [Reg -> Word]
    BY <2>4, Addressed
  <2> QED
    BY <1>1, <1>4, <2>1, <2>3, <2>5, AcceptedPending, GenerateTyped
<1>5. CASE /\ Accepted(PartStores \cup WordStore)
           /\ Generate(Seq4, StoreHits(f.op, Address(regs[f.rs], f.imm)), regs)
  BY <1>1, <1>5, AcceptedPending, Addressed, GenerateTyped
<1> QED
  BY <1>3, <1>4, <1>5 DEF GenI

\* What a call leaves is of instructions that can be placed
LEMMA WorkTyped == \A c \in Calls : Work(c) \in Seq(Directed)
<1> SUFFICES ASSUME NEW c \in Calls PROVE Work(c) \in Seq(Directed)
  OBVIOUS
<1>1. ASSUME NEW S, NEW a \in S, NEW b \in S, NEW r \in S
      PROVE  <<>> \in Seq(S) /\ <<r>> \in Seq(S) /\ <<a, r>> \in Seq(S) /\ <<a, b, r>> \in Seq(S)
  OBVIOUS
<1>2. CASE LeftOut(c) /\ Work(c) = <<>>
  BY <1>2
<1>3. CASE ~LeftOut(c) /\ Work(c) = <<Request(c)>>
  BY <1>1, <1>3, WorkParts
<1>4. CASE /\ ~LeftOut(c) /\ Work(c) = <<LoadRs(c), Request(c)>>
           /\ "rsVal" \in Sets(c) /\ Fits(c.rsVal)
  BY <1>1, <1>4, WorkParts
<1>5. CASE /\ ~LeftOut(c) /\ Work(c) = <<LoadRt(c), Request(c)>>
           /\ "rtVal" \in Sets(c) /\ Fits(c.rtVal)
  BY <1>1, <1>5, WorkParts
<1>6. CASE /\ ~LeftOut(c) /\ Work(c) = <<LoadRs(c), LoadRt(c), Request(c)>>
           /\ Fits(c.rsVal) /\ Fits(c.rtVal) /\ Sets(c) = {"rsVal", "rtVal"}
  BY <1>1, <1>6, WorkParts
<1> QED
  BY <1>2, <1>3, <1>4, <1>5, <1>6, WorkShape

LEMMA MisfitsCounted ==
  ASSUME NEW c
  PROVE  /\ Cardinality(Misfits(c)) \in Nat
         /\ Cardinality(Misfits(c)) = 0 <=> Misfits(c) = {}
<1>1. Misfits(c) \subseteq {"imm", "rsVal", "rtVal"}
  <2>1. Sets(c) \subseteq {"imm", "rsVal", "rtVal"}
    BY DEF Sets
  <2> QED
    BY <2>1 DEF Misfits
<1>2. IsFiniteSet({"imm", "rsVal", "rtVal"})
  <2>1. IsFiniteSet({"imm"})
    BY FS_Singleton
  <2>2. IsFiniteSet({"imm"} \cup {"rsVal"})
    BY <2>1, FS_AddElement
  <2>3. IsFiniteSet(({"imm"} \cup {"rsVal"}) \cup {"rtVal"})
    BY <2>2, FS_AddElement
  <2>4. ({"imm"} \cup {"rsVal"}) \cup {"rtVal"} = {"imm", "rsVal", "rtVal"}
    OBVIOUS
  <2> QED
    BY <2>3, <2>4
<1>3. IsFiniteSet(Misfits(c))
  BY <1>1, <1>2, FS_Subset
<1>4. Cardinality(Misfits(c)) \in Nat
  BY <1>3, FS_CardinalityType
<1>5. Cardinality(Misfits(c)) = 0 <=> Misfits(c) = {}
  BY <1>3, FS_EmptySet
<1> QED
  BY <1>4, <1>5

LEMMA BeginTyped ==
  ASSUME TypeOK, Begin \/ BeginElsewhere
  PROVE  TypeOK'
<1>1. PICK f : Requested(f) /\ pending' = f
  BY DEF Begin, BeginElsewhere
<1>2. UNCHANGED <<want, gen, made, status, asked, errCount, errors>>
  BY DEF Begin, BeginElsewhere
<1>3. MemOK' /\ runBit' = runBit
  <2>1. CASE Begin
    BY <2>1 DEF Begin, memVars, TypeOK, MemOK
  <2>2. CASE BeginElsewhere
    BY <2>2, RoomTyped DEF BeginElsewhere
  <2> QED
    BY <2>1, <2>2
<1>4. /\ status' = "random" => pending' \in Draws
      /\ status' = "user" => pending' \in Directed
      /\ status' \in {"code", "syscall"} => pending' = ExitSequence[status']
      /\ queue' \in Seq(Directed)
  BY <1>1, <1>2, RequestedTyped
<1> QED
  BY <1>2, <1>3, <1>4 DEF TypeOK

LEMMA CallTyped ==
  ASSUME TypeOK, NEW c \in Calls, Call(c)
  PROVE  TypeOK' /\ asked' = Append(asked, c) /\ asked' # <<>> /\ LastCall' = c
<1>1. /\ asked' = Append(asked, c) /\ queue' = Work(c) /\ pending = Nothing
      /\ errCount' = errCount + Cardinality(Misfits(c))
      /\ errors' = errors + Cardinality(Misfits(c))
      /\ UNCHANGED <<want, gen, made, used, instr, text, pc, regs, prevPC, runBit, pending, status>>
  BY DEF Call, memVars
<1>2. queue' \in Seq(Directed)
  BY <1>1, WorkTyped
<1>3. asked \in Seq(Calls) /\ errCount \in Nat /\ errors \in Nat
  BY DEF TypeOK
<1>4. asked' \in Seq(Calls) /\ Len(asked') = Len(asked) + 1 /\ asked'[Len(asked) + 1] = c
  BY <1>1, <1>3
<1>5. errCount' \in Nat /\ errors' \in Nat
  BY <1>1, <1>3, MisfitsCounted
<1>6. LastCall' = c /\ asked' # <<>>
  BY <1>3, <1>4 DEF LastCall
<1> QED
  BY <1>1, <1>2, <1>4, <1>5, <1>6 DEF TypeOK, MemOK

LEMMA EndStepTyped ==
  ASSUME TypeOK, LoadExitCode \/ PutSyscall
  PROVE  TypeOK'
<1>1. /\ status \in {"code", "syscall"} /\ pending # Nothing
      /\ pending' = Nothing /\ status' \in {"syscall", "done"}
      /\ UNCHANGED <<want, gen, asked, queue, errCount, errors>>
  BY DEF LoadExitCode, PutSyscall, EndStep, callVars
<1>2. pending = ExitSequence[status]
  BY <1>1 DEF TypeOK
<1>3. pending.op \in {"ADDI", "SYSCALL"}
  BY <1>1, <1>2 DEF ExitSequence
<1>4. pending.op \in Ops
  BY <1>3, Groups DEF Ops
<1>5. Written(V0, ExitCode) \in [Reg -> Word]
  BY Sizes, WrittenTyped DEF TypeOK
<1>6. MemOK'
  <2>1. PICK result \in [Reg -> Word] : PutBefore(pending.op, Seq4, {}, result, Here)
    BY <1>5, Addressed DEF LoadExitCode, PutSyscall, EndStep
  <2> QED
    BY <1>4, <2>1, Addressed, PutTyped DEF TypeOK
<1>7. made' \in Nat /\ runBit' \in BOOLEAN
  <2>1. made \in Nat /\ runBit \in BOOLEAN
    BY DEF TypeOK
  <2>2. CASE LoadExitCode
    BY <2>1, <2>2 DEF LoadExitCode
  <2>3. CASE PutSyscall
    <3>1. made' = made /\ runBit' = (regs[V0] # ExitCode)
      BY <2>3 DEF PutSyscall
    <3>2. (regs[V0] # ExitCode) \in BOOLEAN
      OBVIOUS
    <3> QED
      BY <2>1, <3>1, <3>2
  <2> QED
    BY <2>2, <2>3
<1>8. status' \in Generating \cup Ended /\ status' \notin {"random", "user"}
  BY <1>1 DEF Generating, Ended
<1> QED
  BY <1>1, <1>6, <1>7, <1>8 DEF TypeOK

LEMMA TypeStep == TypeOK /\ [Next]_vars => TypeOK'
<1> SUFFICES ASSUME TypeOK, [Next]_vars PROVE TypeOK'
  OBVIOUS
<1>1. CASE UNCHANGED vars
  BY <1>1 DEF vars, memVars, callVars, TypeOK, MemOK
<1>2. CASE Begin \/ BeginElsewhere
  BY <1>2, BeginTyped
<1>3. CASE NoRoom \/ Astray \/ Halted \/ DivideByZero
  BY <1>3, Endings, StopTyped
<1>4. CASE GenR
  BY <1>4, GenRTyped
<1>5. CASE GenI
  BY <1>5, GenITyped
<1>6. CASE GenJType
  <2>1. Accepted(JTable) /\ Generate(4 * pending.imm, {}, regs) /\ runBit' \in BOOLEAN
    BY <1>6 DEF GenJType, TypeOK
  <2>2. 4 * pending.imm \in Word
    BY <2>1, JumpsToSlots, SlotsAndAddresses
  <2> QED
    BY <2>1, <2>2, AcceptedPending, Addressed, GenerateTyped
<1>7. ASSUME NEW g \in Draws, Redraw(g) PROVE TypeOK'
  <2>1. /\ pending' = g /\ status = "random"
        /\ UNCHANGED <<want, gen, made, used, instr, text, pc, regs, prevPC, runBit, status,
                       asked, queue, errCount, errors>>
    BY <1>7 DEF Redraw, memVars, callVars
  <2> QED
    BY <2>1 DEF TypeOK, MemOK
<1>8. ASSUME NEW c \in Calls, Call(c) PROVE TypeOK'
  BY <1>8, CallTyped
<1>9. CASE GenUserTest \/ GenEndSeq
  <2>1. /\ pending = Nothing /\ status' \in {"user", "code"}
        /\ UNCHANGED <<want, gen, made, used, instr, text, pc, regs, prevPC, runBit, pending,
                       asked, queue, errCount, errors>>
    BY <1>9 DEF GenUserTest, GenEndSeq, Advance, memVars, callVars
  <2> QED
    BY <2>1 DEF TypeOK, MemOK, Generating
<1>10. CASE LoadExitCode \/ PutSyscall
  BY <1>10, EndStepTyped
<1> QED
  BY <1>1, <1>2, <1>3, <1>4, <1>5, <1>6, <1>7, <1>8, <1>9, <1>10 DEF Next

\* TypeOK holds of every generation: every mixture, every set of draws and of calls, with
\* the immediates below zero that a call may have.
THEOREM TypeCorrect == Spec => []TypeOK
  BY TypeInit, TypeStep, PTL DEF Spec

-----------------------------------------------------------------------------
(* The operands of the directed instructions *)

LEMMA LastCallType == TypeOK /\ asked # <<>> => LastCall \in Calls
  BY DEF TypeOK, LastCall

\* What is drawn next in a call is what it was facing, and what it faces once that has
\* been placed is the head of the rest
LEMMA FacingBegun ==
  ASSUME pending = Nothing, queue # <<>>, pending' = Head(queue), queue' = Tail(queue),
         pending' # Nothing, NEW f, NEW rest, Facing(f, rest)
  PROVE  Facing(f, rest)'
  BY DEF Facing

LEMMA FacingPlaced ==
  ASSUME pending # Nothing, pending' = Nothing, queue' = queue,
         NEW f, NEW g
  PROVE  /\ Facing(f, <<g>>) => Facing(g, <<>>)'
         /\ \A h : Facing(f, <<g, h>>) => Facing(g, <<h>>)'
<1>1. \A rest : Facing(f, rest) => queue' = rest
  BY DEF Facing
<1>2. <<g>> # <<>> /\ Head(<<g>>) = g /\ Tail(<<g>>) = <<>>
  OBVIOUS
<1>3. \A h : <<g, h>> # <<>> /\ Head(<<g, h>>) = g /\ Tail(<<g, h>>) = <<h>>
  OBVIOUS
<1>4. \A h, rest : queue' # <<>> /\ Head(queue') = h /\ Tail(queue') = rest => Facing(h, rest)'
  BY DEF Facing
<1> QED
  BY <1>1, <1>2, <1>3, <1>4

\* Loading a constant
LEMMA ConstantLoaded ==
  ASSUME TypeOK, status = "user", GenR \/ GenI \/ GenJType,
         NEW r \in Reg, NEW v \in Nat, Fits(v), pending = Constant(r, v)
  PROVE  regs' = Written(r, v)
<1>1. /\ pending.op = "ORI" /\ pending.rs = 0 /\ pending.rt = r /\ pending.imm = v
  BY DEF Constant
<1>2. \A ops : Accepted(ops) => Placeable(pending) /\ "ORI" \in ops
  BY <1>1, AcceptedPending
<1>3. /\ "ORI" \notin WritesRd \cup Divisions \cup Products \cup {"MTHI", "MTLO"} \cup SyscallOp
                        \cup RegJumps \cup JTable \cup CheckedTarget \cup PartStores \cup WordStore
      /\ "ORI" \in IOps /\ "ORI" \in OrImm
  BY Groups DEF JTable, WordStore, WritesRd, Divisions, Products, SyscallOp, RegJumps, OrImm
<1>4. ~GenR /\ ~GenJType
  BY <1>2, <1>3 DEF GenR, GenJType
<1>5. PICK w \in IF Encoded(pending).op \in OrImm /\ Encoded(pending).rs = 0
                   THEN {Encoded(pending).imm} ELSE Values :
        /\ Placeable(pending)
        /\ Generate(Seq4, {}, Written(Encoded(pending).rt, w))
  BY <1>2, <1>3, <1>4 DEF GenI
<1>6. /\ Encoded(pending).op = "ORI" /\ Encoded(pending).rs = 0
      /\ Encoded(pending).rt = r /\ Encoded(pending).imm = v
  BY <1>1, <1>3, <1>5, EncodedFields
<1> QED
  BY <1>3, <1>5, <1>6 DEF Generate, Put

LEMMA WrittenLoaded ==
  ASSUME TypeOK, NEW r \in Reg, NEW v \in Nat, regs' = Written(r, v)
  PROVE  /\ Loaded(r, v)'
         /\ \A q, w : q \in Reg /\ q # r /\ Loaded(q, w) => Loaded(q, w)'
  BY DEF TypeOK, MemOK, Written, Loaded

LEMMA SoundValues ==
  ASSUME NEW c \in Calls, Sound(c)
  PROVE  /\ c.rs \in Reg /\ c.rt \in Reg
         /\ "rsVal" \in Sets(c) => c.rsVal \in Nat /\ Fits(c.rsVal)
         /\ "rtVal" \in Sets(c) => c.rtVal \in Nat /\ Fits(c.rtVal)
<1>1. CallOf(c)
  BY HexGenAssumption
<1>2. c["rsVal"] = c.rsVal /\ c["rtVal"] = c.rtVal
  OBVIOUS
<1>3. \A x \in Sets(c) : Fits(c[x]) /\ c[x] >= 0
  BY DEF Sound, Misfits
<1> QED
  BY <1>1, <1>2, <1>3 DEF CallOf

LEMMA DirectedBegin ==
  ASSUME TypeOK, DirectedInv, Begin \/ BeginElsewhere
  PROVE  DirectedInv'
<1> SUFFICES ASSUME status' = "user" PROVE DirectedInv'
  BY DEF DirectedInv
<1>1. /\ status = "user" /\ pending = Nothing /\ asked' = asked
      /\ \E f : Requested(f) /\ pending' = f
  BY DEF Begin, BeginElsewhere, Ready
<1>2. regs' = regs
  BY DEF Begin, BeginElsewhere, JumpToRoom, Put, memVars
<1>3. queue # <<>> /\ pending' = Head(queue) /\ queue' = Tail(queue)
  BY <1>1 DEF Requested
<1>4. pending' # Nothing
  BY <1>1, RequestedTyped, DirectedFields
<1>5. \A f, rest : Facing(f, rest) => Facing(f, rest)'
  BY <1>1, <1>3, <1>4, FacingBegun
<1>6. \A r, v : Loaded(r, v) => Loaded(r, v)'
  BY <1>2 DEF Loaded
<1>7. asked # <<>> /\ AtWork(LastCall) /\ LastCall' = LastCall
  BY <1>1, <1>3 DEF DirectedInv, LastCall
<1>8. \A c : AtWork(c) => AtWork(c)'
  BY <1>5, <1>6 DEF AtWork
<1> QED
  BY <1>1, <1>7, <1>8 DEF DirectedInv

LEMMA AtWorkPlaced ==
  ASSUME TypeOK, status = "user", GenR \/ GenI \/ GenJType,
         pending # Nothing, pending' = Nothing, queue' = queue, queue # <<>>,
         NEW c \in Calls, AtWork(c)
  PROVE  AtWork(c)'
<1>1. \A f : ~Facing(f, <<>>)
  BY DEF Facing
<1>2. \A f, g : /\ Facing(f, <<g>>) => Facing(g, <<>>)'
                /\ \A h : Facing(f, <<g, h>>) => Facing(g, <<h>>)'
  BY FacingPlaced
<1>3. \A f, rest : Facing(f, rest) => pending = f
  BY DEF Facing
<1>4. \/ Facing(Request(c), <<>>)'
      \/ Facing(LoadRs(c), <<Request(c)>>)'
      \/ Facing(LoadRt(c), <<Request(c)>>)'
      \/ Facing(LoadRs(c), <<LoadRt(c), Request(c)>>)'
  BY <1>1, <1>2 DEF AtWork
<1>5. ASSUME Sound(c), Sets(c) = {"rsVal"}
      PROVE  Facing(Request(c), <<>>)' /\ Loaded(c.rs, c.rsVal)'
  <2>1. Facing(LoadRs(c), <<Request(c)>>)
    BY <1>1, <1>5 DEF AtWork
  <2>2. regs' = Written(c.rs, c.rsVal) /\ c.rs \in Reg /\ c.rsVal \in Nat
    BY <1>3, <1>5, <2>1, SoundValues, ConstantLoaded DEF LoadRs
  <2> QED
    BY <1>2, <2>1, <2>2, WrittenLoaded
<1>6. ASSUME Sound(c), Sets(c) = {"rsVal", "rtVal"}
      PROVE  \/ Facing(LoadRt(c), <<Request(c)>>)' /\ Loaded(c.rs, c.rsVal)'
             \/ /\ Facing(Request(c), <<>>)' /\ Loaded(c.rt, c.rtVal)'
                /\ c.rs # c.rt => Loaded(c.rs, c.rsVal)'
  <2>1. CASE Facing(LoadRs(c), <<LoadRt(c), Request(c)>>)
    <3>1. regs' = Written(c.rs, c.rsVal) /\ c.rs \in Reg /\ c.rsVal \in Nat
      BY <1>3, <1>6, <2>1, SoundValues, ConstantLoaded DEF LoadRs
    <3> QED
      BY <1>2, <2>1, <3>1, WrittenLoaded
  <2>2. CASE Facing(LoadRt(c), <<Request(c)>>) /\ Loaded(c.rs, c.rsVal)
    <3>1. regs' = Written(c.rt, c.rtVal) /\ c.rt \in Reg /\ c.rtVal \in Nat /\ c.rs \in Reg
      BY <1>3, <1>6, <2>2, SoundValues, ConstantLoaded DEF LoadRt
    <3> QED
      BY <1>2, <2>2, <3>1, WrittenLoaded
  <2> QED
    BY <1>1, <1>6, <2>1, <2>2 DEF AtWork
<1>7. {"rsVal"} # {"rsVal", "rtVal"}
  OBVIOUS
<1> QED
  BY <1>4, <1>5, <1>6 DEF AtWork

LEMMA DirectedGenerate ==
  ASSUME TypeOK, DirectedInv, GenR \/ GenI \/ GenJType
  PROVE  DirectedInv'
<1> SUFFICES ASSUME status' = "user", ~(pending' = Nothing /\ queue' = <<>>)
             PROVE  DirectedInv'
  BY DEF DirectedInv
<1>1. /\ pending # Nothing /\ status' = status /\ pending' = Nothing
      /\ asked' = asked /\ queue' = queue
  BY DEF GenR, GenI, GenJType, Accepted, Generate, callVars
<1>2. asked # <<>> /\ AtWork(LastCall) /\ LastCall' = LastCall /\ queue # <<>>
  BY <1>1 DEF DirectedInv, LastCall
<1>3. \A c \in Calls : AtWork(c) => AtWork(c)'
  BY <1>1, <1>2, AtWorkPlaced
<1>4. AtWork(LastCall)'
  BY <1>2, <1>3, LastCallType
<1> QED
  BY <1>1, <1>2, <1>4 DEF DirectedInv

LEMMA DirectedCall ==
  ASSUME TypeOK, DirectedInv, NEW c \in Calls, Call(c)
  PROVE  DirectedInv'
<1>1. asked' # <<>> /\ LastCall' = c
  BY CallTyped
<1>2. pending' = Nothing /\ queue' = Work(c)
  BY DEF Call
<1>3. \A f, g, h :
        /\ queue' = <<f>> => Facing(f, <<>>)'
        /\ queue' = <<f, g>> => Facing(f, <<g>>)'
        /\ queue' = <<f, g, h>> => Facing(f, <<g, h>>)'
  <2>1. \A h, rest : queue' # <<>> /\ Head(queue') = h /\ Tail(queue') = rest => Facing(h, rest)'
    BY <1>2 DEF Facing
  <2>2. \A f : <<f>> # <<>> /\ Head(<<f>>) = f /\ Tail(<<f>>) = <<>>
    OBVIOUS
  <2>3. \A f, g : <<f, g>> # <<>> /\ Head(<<f, g>>) = f /\ Tail(<<f, g>>) = <<g>>
    OBVIOUS
  <2>4. \A f, g, h : <<f, g, h>> # <<>> /\ Head(<<f, g, h>>) = f /\ Tail(<<f, g, h>>) = <<g, h>>
    OBVIOUS
  <2>5. ASSUME NEW f, queue' = <<f>> PROVE Facing(f, <<>>)'
    BY <2>1, <2>2, <2>5
  <2>6. ASSUME NEW f, NEW g, queue' = <<f, g>> PROVE Facing(f, <<g>>)'
    BY <2>1, <2>3, <2>6
  <2>7. ASSUME NEW f, NEW g, NEW h, queue' = <<f, g, h>> PROVE Facing(f, <<g, h>>)'
    BY <2>1, <2>4, <2>7
  <2> QED
    BY <2>5, <2>6, <2>7
<1>4. CASE LeftOut(c) /\ Work(c) = <<>>
  BY <1>2, <1>4 DEF DirectedInv
<1>5. AtWork(c)' => DirectedInv'
  BY <1>1 DEF DirectedInv
<1>6. CASE Work(c) = <<Request(c)>> /\ (Sets(c) = {} \/ Misfits(c) # {})
  <2>1. Facing(Request(c), <<>>)'
    BY <1>2, <1>3, <1>6
  <2>2. ~(Sound(c) /\ (Sets(c) = {"rsVal"} \/ Sets(c) = {"rsVal", "rtVal"}))
    BY <1>6 DEF Sound
  <2>3. AtWork(c)'
    BY <2>1, <2>2 DEF AtWork
  <2> QED
    BY <1>5, <2>3
<1>7. CASE /\ Work(c) = <<LoadRs(c), Request(c)>>
           /\ "rsVal" \in Sets(c) /\ ("rtVal" \in Sets(c) => Misfits(c) # {})
  <2>1. Facing(LoadRs(c), <<Request(c)>>)'
    BY <1>2, <1>3, <1>7
  <2>2. ~(Sound(c) /\ Sets(c) = {"rsVal", "rtVal"})
    BY <1>7 DEF Sound
  <2>3. AtWork(c)'
    BY <2>1, <2>2 DEF AtWork
  <2> QED
    BY <1>5, <2>3
<1>8. CASE Work(c) = <<LoadRt(c), Request(c)>> /\ Misfits(c) # {}
  <2>1. Facing(LoadRt(c), <<Request(c)>>)'
    BY <1>2, <1>3, <1>8
  <2>2. ~Sound(c)
    BY <1>8 DEF Sound
  <2>3. AtWork(c)'
    BY <2>1, <2>2 DEF AtWork
  <2> QED
    BY <1>5, <2>3
<1>9. CASE /\ Work(c) = <<LoadRs(c), LoadRt(c), Request(c)>>
           /\ Sets(c) = {"rsVal", "rtVal"}
  <2>1. Facing(LoadRs(c), <<LoadRt(c), Request(c)>>)'
    BY <1>2, <1>3, <1>9
  <2>2. Sets(c) # {"rsVal"}
    BY <1>9
  <2>3. AtWork(c)'
    BY <2>1, <2>2 DEF AtWork
  <2> QED
    BY <1>5, <2>3
<1> QED
  BY <1>4, <1>6, <1>7, <1>8, <1>9, WorkShape

LEMMA DirectedStep ==
  ASSUME TypeOK, DirectedInv, [Next]_vars
  PROVE  DirectedInv'
<1>1. CASE UNCHANGED vars
  BY <1>1 DEF vars, memVars, callVars, DirectedInv, AtWork, Facing, Loaded, LastCall
<1>2. CASE Begin \/ BeginElsewhere
  BY <1>2, DirectedBegin
<1>3. CASE NoRoom \/ Astray \/ Halted \/ DivideByZero
  <2>1. status' \notin Generating
    BY <1>3, Endings, StopTyped
  <2> QED
    BY <2>1 DEF DirectedInv, Generating
<1>4. CASE GenR \/ GenI \/ GenJType
  BY <1>4, DirectedGenerate
<1>5. ASSUME NEW g \in Draws, Redraw(g) PROVE DirectedInv'
  <2>1. status' = "random"
    BY <1>5 DEF Redraw
  <2> QED
    BY <2>1 DEF DirectedInv
<1>6. ASSUME NEW c \in Calls, Call(c) PROVE DirectedInv'
  BY <1>6, DirectedCall
<1>7. CASE GenUserTest \/ GenEndSeq
  <2>1. pending' = Nothing /\ queue' = <<>>
    BY <1>7 DEF GenUserTest, GenEndSeq, Advance, callVars
  <2> QED
    BY <2>1 DEF DirectedInv
<1>8. CASE LoadExitCode \/ PutSyscall
  <2>1. status' # "user"
    BY <1>8 DEF LoadExitCode, PutSyscall, EndStep
  <2> QED
    BY <2>1 DEF DirectedInv
<1> QED
  BY <1>1, <1>2, <1>3, <1>4, <1>5, <1>6, <1>7, <1>8 DEF Next

LEMMA DirectedSet == TypeOK /\ DirectedInv => OperandsSet
<1> SUFFICES ASSUME TypeOK, DirectedInv, status = "user", pending # Nothing, queue = <<>>,
                    Misfits(LastCall) = {}, \A x \in Sets(LastCall) : LastCall[x] >= 0
             PROVE  /\ "rtVal" \in Sets(LastCall) /\ LastCall.rt # 0 =>
                         regs[LastCall.rt] = LastCall.rtVal
                    /\ "rsVal" \in Sets(LastCall) /\ LastCall.rs # 0
                         /\ ~("rtVal" \in Sets(LastCall) /\ LastCall.rt = LastCall.rs) =>
                         regs[LastCall.rs] = LastCall.rsVal
  BY DEF OperandsSet
<1>1. asked # <<>> /\ AtWork(LastCall) /\ Sound(LastCall)
  BY DEF DirectedInv, Sound
<1>2. \A f, g, h : ~Facing(f, <<g>>) /\ ~Facing(f, <<g, h>>)
  BY DEF Facing
<1>3. Sets(LastCall) \in {{}, {"rsVal"}, {"rsVal", "rtVal"}}
  BY DEF Sets
<1>4. CASE Sets(LastCall) = {}
  BY <1>4
<1>5. CASE Sets(LastCall) = {"rsVal"}
  <2>1. Loaded(LastCall.rs, LastCall.rsVal)
    BY <1>1, <1>2, <1>5 DEF AtWork
  <2> QED
    BY <1>5, <2>1 DEF Loaded
<1>6. CASE Sets(LastCall) = {"rsVal", "rtVal"}
  <2>1. /\ Loaded(LastCall.rt, LastCall.rtVal)
        /\ LastCall.rs # LastCall.rt => Loaded(LastCall.rs, LastCall.rsVal)
    BY <1>1, <1>2, <1>6 DEF AtWork
  <2> QED
    BY <1>6, <2>1 DEF Loaded
<1> QED
  BY <1>3, <1>4, <1>5, <1>6

\* OperandsSet holds of every test, whatever it calls and wherever make_room, a branch or
\* an unchecked jump leads between the loads.
THEOREM OperandsLoaded == Spec => []OperandsSet
<1>1. Init => TypeOK /\ DirectedInv
  BY TypeInit DEF Init, DirectedInv
<1>2. TypeOK /\ DirectedInv /\ [Next]_vars => TypeOK' /\ DirectedInv'
  BY TypeStep, DirectedStep
<1> QED
  BY <1>1, <1>2, DirectedSet, PTL DEF Spec

-----------------------------------------------------------------------------
(* Where control comes to *)

\* With no error and nothing unchecked so far there was none before
LEMMA StillNothing ==
  ASSUME TypeOK, [Next]_vars, NothingUnchecked'
  PROVE  /\ NothingUnchecked
         /\ \A next, hits, result : Generate(next, hits, result) => Verdict(pending) = "ok"
<1>1. asked \in Seq(Calls) /\ errors \in Nat /\ errors' = 0
  BY DEF TypeOK, NothingUnchecked
<1>2. asked' = asked \/ \E c \in Calls : asked' = Append(asked, c)
  BY DEF Next, Begin, BeginElsewhere, NoRoom, Astray, Halted, GenR, DivideByZero, GenI, GenJType,
         Redraw, Call, GenUserTest, GenEndSeq, LoadExitCode, PutSyscall, Stop, Generate, Advance,
         EndStep, vars, callVars
<1>3. \A next, hits, result : Generate(next, hits, result) =>
        errors = 0 /\ Verdict(pending) = "ok"
  BY <1>1 DEF Generate
<1>4. errors = 0
  <2>1. CASE GenR \/ GenI \/ GenJType
    BY <1>3, <2>1 DEF GenR, GenI, GenJType
  <2>2. ASSUME NEW c \in Calls, Call(c) PROVE errors = 0
    BY <1>1, <2>2, MisfitsCounted DEF Call
  <2>3. CASE errors' = errors
    BY <1>1, <2>3
  <2> QED
    BY <2>1, <2>2, <2>3 DEF Next, Begin, BeginElsewhere, NoRoom, Astray, Halted, DivideByZero,
         Redraw, GenUserTest, GenEndSeq, LoadExitCode, PutSyscall, Stop, Advance, EndStep, vars
<1>5. \A i \in DOMAIN asked : ~Unchecked(asked[i])
  <2>1. CASE asked' = asked
    BY <2>1 DEF NothingUnchecked
  <2>2. ASSUME NEW c \in Calls, asked' = Append(asked, c)
        PROVE  \A i \in DOMAIN asked : ~Unchecked(asked[i])
    <3>1. \A i \in DOMAIN asked : i \in DOMAIN asked' /\ asked'[i] = asked[i]
      BY <1>1, <2>2
    <3>2. \A i \in DOMAIN asked' : ~Unchecked(asked'[i])
      BY DEF NothingUnchecked, Unchecked, SignExtend
    <3> QED
      BY <3>1, <3>2
  <2> QED
    BY <1>2, <2>1, <2>2
<1> QED
  BY <1>3, <1>4, <1>5 DEF NothingUnchecked

\* What is being placed is then none of what no check stops: a draw is never a branch to
\* itself, and of a call the rest are loads
LEMMA PendingChecked ==
  ASSUME TypeOK, DirectedInv, NothingUnchecked, pending # Nothing, status \in {"random", "user"}
  PROVE  /\ pending.op \notin RegJumps \cup PartStores
         /\ pending.op \in CheckedTarget => SignExtend(pending.imm) # -1
<1>1. CASE status = "random"
  <2>1. /\ pending.op \in Drawn /\ Drawn \subseteq RTable \cup ITable \cup JTable
        /\ pending.op \in CheckedTarget => pending.imm \in 0..(ImmSize - 2)
    BY <1>1, PendingPlaceable, DrawnFields, HexGenAssumption
  <2>2. (RTable \cup ITable \cup JTable) \cap (RegJumps \cup PartStores) = {}
    BY DEF RTable, ITable, JTable, RegJumps, PartStores
  <2>3. \A imm \in 0..(ImmSize - 2) : SignExtend(imm) # -1
    BY Sizes DEF SignExtend
  <2> QED
    BY <2>1, <2>2, <2>3
<1>2. CASE status = "user"
  <2>1. asked # <<>> /\ AtWork(LastCall)
    BY <1>2 DEF DirectedInv
  <2>2. pending \in {Request(LastCall), LoadRs(LastCall), LoadRt(LastCall)}
    BY <2>1 DEF AtWork, Facing
  <2>3. ~Unchecked(LastCall)
    <3>1. asked \in Seq(Calls)
      BY DEF TypeOK
    <3>2. Len(asked) \in DOMAIN asked
      BY <2>1, <3>1
    <3> QED
      BY <3>2 DEF NothingUnchecked, LastCall
  <2>4. CASE pending = Request(LastCall)
    BY <2>3, <2>4 DEF Request, Unchecked
  <2>5. CASE pending.op = "ORI"
    BY <2>5, Groups
  <2> QED
    BY <2>2, <2>4, <2>5 DEF LoadRs, LoadRt, Constant
<1> QED
  BY <1>1, <1>2

\* Multiples of a size are lost in a rest
LEMMA SameRest ==
  ASSUME NEW k \in Nat, NEW x \in Int
  PROVE  (k * ImmSize + x) % ImmSize = x % ImmSize
<1> DEFINE q == x \div ImmSize
           m == x % ImmSize
           y == k * ImmSize + x
           p == y \div ImmSize
           n == y % ImmSize
<1>1. ImmSize \in Nat /\ ImmSize > 0
  BY Sizes
<1>2. k * ImmSize = ImmSize * k /\ ImmSize * k \in Int
  BY <1>1
<1>3. q \in Int /\ m \in 0..(ImmSize - 1) /\ x = ImmSize * q + m
  BY <1>1
<1>4. y \in Int
  BY <1>2
<1>5. p \in Int /\ n \in 0..(ImmSize - 1) /\ y = ImmSize * p + n
  BY <1>1, <1>4
<1>6. y = ImmSize * k + x
  BY <1>2
<1> HIDE DEF q, m, p, n, y
<1>7. ImmSize * (k + q) = ImmSize * k + ImmSize * q
  BY <1>1, <1>3
<1>8. ImmSize * p + n = ImmSize * (k + q) + m
  BY <1>1, <1>2, <1>3, <1>5, <1>6, <1>7
<1>9. k + q \in Int /\ ImmSize * p \in Int /\ ImmSize * (k + q) \in Int
  BY <1>1, <1>3, <1>5
<1>10. ~(p < k + q)
  <2>1. p < k + q => ImmSize * p + ImmSize <= ImmSize * (k + q)
    BY <1>1, <1>5, <1>9, Multiples
  <2> QED
    BY <1>1, <1>3, <1>5, <1>8, <1>9, <2>1
<1>11. ~(k + q < p)
  <2>1. k + q < p => ImmSize * (k + q) + ImmSize <= ImmSize * p
    BY <1>1, <1>5, <1>9, Multiples
  <2> QED
    BY <1>1, <1>3, <1>5, <1>8, <1>9, <2>1
<1>12. p = k + q
  BY <1>3, <1>5, <1>9, <1>10, <1>11
<1>13. m = n
  <2>1. ImmSize * p + n = ImmSize * p + m
    BY <1>8, <1>12
  <2> QED
    BY <1>3, <1>5, <1>9, <2>1
<1> QED
  BY <1>13 DEF m, n, y

\* A word store whose address passes leaves the program alone
LEMMA StoresInData ==
  ASSUME NEW base, NEW imm, LsCheck(base, imm) = "ok", Address(base, imm) \in Word,
         NEW op \in WordStore
  PROVE  StoreHits(op, Address(base, imm)) = {}
<1> DEFINE a == Address(base, imm)
<1>1. a \in (DataStart + 1)..(DataEnd - 1)
  BY DEF LsCheck
<1> HIDE DEF a
<1>2. a \in Nat /\ a >= 4 * NumSlots + 1
  BY <1>1, Sizes DEF DataStart, DataEnd
<1>3. a - (a % 4) >= 4 * NumSlots
  BY <1>2, Sizes
<1>4. a - (a % 4) \notin 0..(TextEnd - 1)
  BY <1>3, Sizes DEF TextEnd
<1> QED
  BY <1>4 DEF StoreHits, a

\* What becomes of an immediate in the opcode is the same word to the simulator
LEMMA SameSign ==
  ASSUME NEW f, Placeable(f), f.op \in IOps
  PROVE  SignExtend(Encoded(f).imm) = SignExtend(f.imm)
<1> DEFINE low == f.rt * ImmSize + f.imm
           m == low % ImmSize
<1>1. f.rt \in Nat /\ f.imm \in Int
      /\ f \in [op : Ops, rd : Reg, rs : Reg, rt : Reg, imm : Int]
  BY DEF Placeable, Reg
<1>2. Encoded(f).imm = m
  BY <1>1 DEF Encoded
<1>3. m = f.imm % ImmSize
  BY <1>1, SameRest
<1>4. m % ImmSize = m
  BY <1>1, <1>3, Sizes
<1> HIDE DEF m
<1> QED
  BY <1>2, <1>3, <1>4 DEF SignExtend

\* What an accepted instruction does goes on to the next slot or to a free one, which is
\* its own only of a jump
Lands(next) ==
  \/ next = Seq4
  \/ \E s \in Slots : next = 4 * s /\ ~used[s] /\ (s = Here => pending.op = "J")

LEMMA LandsInRoom ==
  ASSUME TypeOK, DirectedInv, LandInv, NothingUnchecked, [Next]_vars, NothingUnchecked',
         GenR \/ GenI \/ GenJType
  PROVE  \E next \in Word, result \in [Reg -> Word] : Generate(next, {}, result) /\ Lands(next)
<1>1. /\ pending # Nothing /\ status \in {"random", "user"}
      /\ \A ops : Accepted(ops) => pending.op \in ops /\ Placeable(pending)
  BY AcceptedPending DEF GenR, GenI, GenJType
<1>2. /\ pending.op \notin RegJumps \cup PartStores
      /\ pending.op \in CheckedTarget => SignExtend(pending.imm) # -1
  BY <1>1, PendingChecked
<1>3. pc \in Word /\ InText(pc) /\ Seq4 \in Word /\ Lands(Seq4)
  BY <1>1, Addressed DEF LandInv, Generating, TypeOK, MemOK, Lands
<1>4. \A next, hits, result : Generate(next, hits, result) => Verdict(pending) = "ok"
  BY StillNothing
<1>5. \A r \in Reg, v \in Word : Written(r, v) \in [Reg -> Word]
  BY WrittenTyped DEF TypeOK
<1>6. regs \in [Reg -> Word] /\ Values \subseteq Word
  BY Addressed, HexGenAssumption
<1>7. CASE GenR
  <2>1. ~Accepted(RegJumps)
    BY <1>1, <1>2
  <2>2. CASE Accepted(WritesRd) /\ \E v \in Values : Generate(Seq4, {}, Written(pending.rd, v))
    <3>1. PICK v \in Values : Generate(Seq4, {}, Written(pending.rd, v))
      BY <2>2
    <3>2. Written(pending.rd, v) \in [Reg -> Word]
      BY <1>1, <1>5, <1>6, <2>2 DEF Placeable
    <3> QED
      BY <1>3, <3>1, <3>2
  <2>3. CASE Generate(Seq4, {}, regs)
    BY <1>3, <1>6, <2>3
  <2> QED
    BY <1>7, <2>1, <2>2, <2>3 DEF GenR
<1>8. CASE GenI
  <2> DEFINE f == Encoded(pending)
  <2>1. ASSUME NEW ops, ops \subseteq IOps, Accepted(ops)
        PROVE  /\ f.rt \in Reg /\ f.imm \in Word /\ f.imm \in Int
               /\ f.op = pending.op /\ f.rs = pending.rs /\ f.rs \in Reg
               /\ SignExtend(f.imm) = SignExtend(pending.imm) /\ pending.imm \in Int
    BY <1>1, <2>1, EncodedFields, SameSign, Sizes DEF Word, Placeable
  <2>2. CASE /\ Accepted(WritesRt)
             /\ \E v \in IF f.op \in OrImm /\ f.rs = 0 THEN {f.imm} ELSE Values :
                  Generate(Seq4, {}, Written(f.rt, v))
    <3>1. PICK v \in IF f.op \in OrImm /\ f.rs = 0 THEN {f.imm} ELSE Values :
            Generate(Seq4, {}, Written(f.rt, v))
      BY <2>2
    <3>2. f.rt \in Reg /\ v \in Word
      BY <1>6, <2>1, <2>2, <3>1, Groups
    <3> QED
      BY <1>3, <1>5, <3>1, <3>2
  <2>3. CASE /\ Accepted(CheckedTarget)
             /\ \E next \in {Seq4, BranchAddr(f.imm)} :
                  Generate(next, {}, IF f.op \in Links THEN Written(Link, Seq4) ELSE regs)
    <3> DEFINE result == IF f.op \in Links THEN Written(Link, Seq4) ELSE regs
    <3>1. PICK next \in {Seq4, BranchAddr(f.imm)} : Generate(next, {}, result)
      BY <2>3
    <3>2. result \in [Reg -> Word]
      BY <1>3, <1>5, <1>6, Sizes
    <3> HIDE DEF result
    <3>3. /\ SignExtend(f.imm) = SignExtend(pending.imm) /\ pending.imm \in Int
          /\ pending.op \in CheckedTarget /\ pending.op \notin CheckedAddress /\ pending.op # "J"
      BY <1>1, <2>1, <2>3, Groups DEF CheckedAddress, CheckedTarget, Branches, RegBranches,
           WordLoad, WordStore
    <3>4. Targetable(BranchSlot(pending.imm), NumSlots - Margin)
      <4>1. Verdict(pending) = "ok"
        BY <1>4, <3>1
      <4> QED
        BY <3>3, <4>1 DEF Verdict
    <3>5. BranchSlot(pending.imm) \in Slots /\ ~used[BranchSlot(pending.imm)]
      BY <3>4, Sizes DEF Targetable, Slots
    <3>6. BranchAddr(f.imm) = 4 * BranchSlot(pending.imm)
      BY <1>3, <3>3, <3>5, BranchLeads DEF BranchAddr
    <3>7. BranchSlot(pending.imm) # Here
      <4>1. Here \in Int /\ SignExtend(pending.imm) \in Int /\ SignExtend(pending.imm) # -1
        BY <1>2, <1>3, <3>3, Successors, SignExtendType DEF Slots
      <4> QED
        BY <4>1 DEF BranchSlot
    <3>8. Lands(BranchAddr(f.imm)) /\ BranchAddr(f.imm) \in Word
      BY <3>5, <3>6, <3>7, SlotsAndAddresses DEF Lands
    <3> QED
      BY <1>3, <3>1, <3>2, <3>8
  <2>4. CASE /\ Accepted(PartStores \cup WordStore)
             /\ Generate(Seq4, StoreHits(f.op, Address(regs[f.rs], f.imm)), regs)
    <3>1. /\ f.op \in WordStore /\ pending.op \in WordStore
          /\ f.rs = pending.rs /\ f.rs \in Reg /\ f.imm \in Int
          /\ SignExtend(f.imm) = SignExtend(pending.imm) /\ pending.op # "J"
      BY <1>1, <1>2, <2>1, <2>4, Groups
    <3>2. LsCheck(regs[pending.rs], pending.imm) = "ok"
      <4>1. Verdict(pending) = "ok"
        BY <1>4, <2>4
      <4> QED
        BY <3>1, <4>1 DEF Verdict, CheckedAddress, CheckedTarget, WordStore, Branches, RegBranches
    <3>3. Address(regs[f.rs], f.imm) = Address(regs[pending.rs], pending.imm)
      BY <3>1 DEF Address
    <3>4. Address(regs[f.rs], f.imm) \in Word
      <4>1. regs[f.rs] + SignExtend(f.imm) \in Int
        <5>1. regs[f.rs] \in Int /\ SignExtend(f.imm) \in Int
          BY <1>6, <3>1, SignExtendType, Sizes DEF Word
        <5> QED
          BY <5>1
      <4> QED
        BY <4>1, WrapsAround DEF Address
    <3>5. StoreHits(f.op, Address(regs[f.rs], f.imm)) = {}
      BY <3>1, <3>2, <3>3, <3>4, StoresInData
    <3> QED
      BY <1>3, <1>6, <2>4, <3>5
  <2> QED
    BY <1>8, <2>2, <2>3, <2>4 DEF GenI
<1>9. CASE GenJType
  <2>1. /\ pending.op = "J" /\ pending.imm \in Slots /\ ~used[pending.imm]
        /\ Generate(4 * pending.imm, {}, regs)
    BY <1>9, JumpsToSlots DEF GenJType
  <2>2. Lands(4 * pending.imm) /\ 4 * pending.imm \in Word
    BY <2>1, SlotsAndAddresses DEF Lands
  <2> QED
    BY <1>6, <2>1, <2>2
<1> QED
  BY <1>7, <1>8, <1>9

\* The slot in the file is the one in the simulator's memory
LEMMA FileFollows ==
  ASSUME TypeOK, LandInv, NothingUnchecked, pending # Nothing, status \in {"random", "user"}
  PROVE  Here \in Slots /\ (IF made = 0 THEN 0 ELSE SlotOf(prevPC)) = Here
<1>1. prevPC = pc /\ InText(pc) /\ pc \in Word /\ (made = 0 => pc = 0)
  BY DEF LandInv, Generating, TypeOK, MemOK
<1> QED
  BY <1>1, SlotsAndAddresses, Sizes DEF Here

\* An instruction is put where control is, and leads to where Lands says
LEMMA LandPlaced ==
  ASSUME TypeOK, LandInv, NothingUnchecked, pending # Nothing, status \in {"random", "user"},
         NEW next \in Word, NEW result, Generate(next, {}, result), Lands(next)
  PROVE  LandInv'
<1> DEFINE word == [op |-> pending.op, next |-> next]
<1>1. /\ prevPC = pc /\ InText(pc) /\ pc \in Word
      /\ made = 0 => pc = 0
      /\ \A s \in Slots : used[s] => instr[s] = text[s]
      /\ used[Here] => JumpsBack(Here, pc)
      /\ Here + 1 \in Slots /\ used[Here + 1] => JumpsBack(Here + 1, pc)
      /\ used \in [Slots -> BOOLEAN] /\ made \in Nat
      /\ instr \in [Slots -> Words \cup {Empty}]
  BY DEF LandInv, Generating, TypeOK, MemOK
<1>2. /\ Here \in Slots /\ pc = 4 * Here /\ Seq4 = pc + 4
      /\ InText(Seq4) => SlotOf(Seq4) = Here + 1
  BY <1>1, Successors
<1>3. (IF made = 0 THEN 0 ELSE SlotOf(prevPC)) = Here
  BY FileFollows
<1>4. /\ text' = [s \in Slots |-> IF s = Here THEN word ELSE text[s]]
      /\ used' = [used EXCEPT ![Here] = TRUE] /\ instr' = [instr EXCEPT ![Here] = word]
      /\ pc' = next /\ prevPC' = pc' /\ pending' = Nothing /\ status' = status
      /\ made' = made + 1
  BY <1>3 DEF Generate, Put, callVars
<1> HIDE DEF word
<1>5. \A s \in Slots : /\ s # Here => used'[s] = used[s] /\ text'[s] = text[s]
                       /\ used'[s] => instr'[s] = text'[s]
  BY <1>1, <1>2, <1>4
<1>6. made' # 0
  BY <1>1, <1>4
<1>7. ASSUME InText(next), used'[SlotOf(next)]
      PROVE  JumpsBack(SlotOf(next), next - 4)' \/ JumpsBack(SlotOf(next), next)'
  <2>1. SlotOf(next) \in Slots
    BY <1>7, SlotsAndAddresses
  <2>2. CASE next = Seq4
    <3>1. SlotOf(next) = Here + 1 /\ Here + 1 \in Slots /\ Here + 1 # Here /\ next - 4 = pc
      BY <1>2, <1>7, <2>1, <2>2, Sizes DEF Slots, Word
    <3>2. JumpsBack(Here + 1, pc) /\ text'[Here + 1] = text[Here + 1]
      BY <1>1, <1>5, <1>7, <3>1
    <3> QED
      BY <3>1, <3>2 DEF JumpsBack
  <2>3. ASSUME NEW s \in Slots, next = 4 * s, ~used[s], s = Here => pending.op = "J"
        PROVE  JumpsBack(SlotOf(next), next)'
    <3>1. SlotOf(next) = s
      BY <2>3, SlotsAndAddresses
    <3>2. s = Here
      BY <1>5, <1>7, <2>3, <3>1
    <3>3. text'[s] = word
      BY <1>4, <3>2
    <3> QED
      BY <2>3, <3>1, <3>2, <3>3 DEF JumpsBack, word
  <2> QED
    BY <2>2, <2>3 DEF Lands
<1>8. Here' = SlotOf(next)
  BY <1>4 DEF Here
<1>9. InText(pc)' /\ used'[Here'] => JumpsBack(Here, pc - 4)' \/ JumpsBack(Here, pc)'
  BY <1>4, <1>7, <1>8 DEF JumpsBack
<1> QED
  BY <1>4, <1>5, <1>6, <1>9 DEF LandInv, Generating

\* The jump of make_room is put where control is, or in the end sequence where the last
\* word has been put, and leads to two free slots
LEMMA LandElsewhere ==
  ASSUME TypeOK, LandInv, NothingUnchecked, BeginElsewhere
  PROVE  LandInv'
<1> SUFFICES ASSUME status \in Generating PROVE LandInv'
  BY DEF LandInv, BeginElsewhere
<1>1. /\ pending = Nothing /\ InText(pc) /\ pc \in Word
      /\ status # "syscall" => prevPC = pc
      /\ status = "syscall" => used[SlotOf(prevPC)]
      /\ status \in {"random", "user"} =>
           /\ made = 0 => pc = 0 /\ \A s \in Slots : ~used[s]
           /\ \A s \in Slots : used[s] => instr[s] = text[s]
      /\ used \in [Slots -> BOOLEAN] /\ instr \in [Slots -> Words \cup {Empty}]
      /\ status' = status /\ made' = made
  BY DEF LandInv, BeginElsewhere, Ready, TypeOK, MemOK
<1>2. PICK beyond \in BOOLEAN : ~Room(beyond) /\ JumpToRoom(beyond)
  BY DEF BeginElsewhere
<1>3. PICK s \in Pairs(beyond) : Put("J", 4 * s, {}, regs, SlotOf(prevPC))
  BY <1>2 DEF JumpToRoom, GenJ
<1> DEFINE word == [op |-> "J", next |-> 4 * s]
<1>4. s \in Slots /\ ~used[s] /\ (s + 1 \in Slots => ~used[s + 1])
  BY DEF Pairs, Pair, Taken
<1>5. /\ text' = [t \in Slots |-> IF t = Here THEN word ELSE text[t]]
      /\ used' = [used EXCEPT ![SlotOf(prevPC)] = TRUE]
      /\ instr' = [instr EXCEPT ![SlotOf(prevPC)] = word]
      /\ pc' = 4 * s /\ prevPC' = pc'
  BY <1>3 DEF Put
<1> HIDE DEF word
<1>6. InText(4 * s) /\ SlotOf(4 * s) = s /\ Here' = s /\ Here \in Slots /\ pc = 4 * Here
  BY <1>1, <1>4, <1>5, SlotsAndAddresses DEF Here
<1>7. pending' # Nothing
  <2>1. PICK f : Requested(f) /\ pending' = f
    BY DEF BeginElsewhere
  <2>2. \A k \in {"code", "syscall"} : ExitSequence[k].op # "none"
    BY DEF ExitSequence
  <2>3. \A k \in {"code", "syscall"} : ExitSequence[k] # Nothing
    BY <2>2 DEF Nothing
  <2> QED
    BY <2>1, <2>3, RequestedTyped, DrawnFields, DirectedFields DEF Generating
<1>8. CASE status = "syscall"
  <2>1. \A t \in Slots : used'[t] = used[t]
    BY <1>1, <1>5, <1>8
  <2> QED
    BY <1>1, <1>4, <1>5, <1>6, <1>7, <1>8, <2>1 DEF LandInv
<1>9. CASE status # "syscall"
  <2>1. SlotOf(prevPC) = Here
    BY <1>1, <1>9 DEF Here
  <2>2. \A t \in Slots : t # Here => used'[t] = used[t] /\ text'[t] = text[t] /\ instr'[t] = instr[t]
    BY <1>1, <1>5, <2>1
  <2>3. text'[Here] = word /\ instr'[Here] = word
    BY <1>1, <1>5, <1>6, <2>1
  <2>4. ASSUME status \in {"random", "user"} PROVE \A t \in Slots : used'[t] => instr'[t] = text'[t]
    BY <1>1, <2>2, <2>3, <2>4
  <2>5. ASSUME status \in {"random", "user"} PROVE made # 0
    <3> SUFFICES ASSUME made = 0 PROVE FALSE
      OBVIOUS
    <3>1. pc = 0 /\ Here = 0 /\ ~used[0] /\ ~used[1]
      BY <1>1, <1>6, <2>5, Sizes DEF Slots
    <3>2. Pair(Here, beyond)
      BY <3>1, Sizes DEF Pair, Taken
    <3>3. ~AtMiddle
      BY <3>1, Sizes DEF AtMiddle
    <3> QED
      BY <1>2, <3>2, <3>3 DEF Room
  <2>6. used'[s] => s = Here
    BY <1>4, <2>2
  <2>7. s + 1 \in Slots /\ used'[s + 1] => s + 1 = Here
    BY <1>4, <2>2
  <2>8. text'[Here].op = "J" /\ text'[Here].next = pc'
    BY <1>5, <2>3 DEF word
  <2>9. used'[Here'] => JumpsBack(Here, pc)'
    BY <1>6, <2>6, <2>8 DEF JumpsBack
  <2>10. (Here + 1 \in Slots)' /\ used'[Here' + 1] => text'[Here' + 1].op = "J" /\ text'[Here' + 1].next = pc'
    BY <1>6, <2>7, <2>8 DEF Slots
  <2> QED
    BY <1>1, <1>5, <1>6, <1>7, <1>9, <2>4, <2>5, <2>9, <2>10 DEF LandInv, JumpsBack
<1> QED
  BY <1>8, <1>9

\* The end sequence is put where control is, and prev_pc stays there
LEMMA LandExitCode ==
  ASSUME TypeOK, LandInv, NothingUnchecked, LoadExitCode
  PROVE  LandInv'
<1>1. /\ status = "code" /\ pending # Nothing /\ pending' = Nothing /\ status' = "syscall"
      /\ PutBefore(pending.op, Seq4, {}, Written(V0, ExitCode), Here)
  BY DEF LoadExitCode, EndStep
<1>2. /\ InText(pc) /\ pc \in Word /\ used \in [Slots -> BOOLEAN]
      /\ Here + 1 \in Slots /\ used[Here + 1] => JumpsBack(Here + 1, pc)
  BY <1>1 DEF LandInv, Generating, TypeOK, MemOK
<1>3. /\ Here \in Slots /\ pc = 4 * Here /\ Seq4 = pc + 4 /\ Seq4 \in Word
      /\ InText(Seq4) => SlotOf(Seq4) = Here + 1
  BY <1>2, Successors
<1>4. /\ \A s \in Slots : s # Here => used'[s] = used[s] /\ text'[s] = text[s]
      /\ used'[Here] /\ pc' = Seq4 /\ prevPC' = pc
  BY <1>1, <1>2, <1>3 DEF PutBefore
<1>5. used'[SlotOf(prevPC')]
  BY <1>4 DEF Here
<1>6. ASSUME InText(Seq4), used'[SlotOf(Seq4)]
      PROVE  text'[SlotOf(Seq4)].op = "J" /\ text'[SlotOf(Seq4)].next = Seq4 - 4
  <2>1. SlotOf(Seq4) = Here + 1 /\ Here + 1 \in Slots /\ Here + 1 # Here /\ Seq4 - 4 = pc
    BY <1>3, <1>6, SlotsAndAddresses, Sizes DEF Slots, Word
  <2>2. JumpsBack(Here + 1, pc) /\ text'[Here + 1] = text[Here + 1]
    BY <1>2, <1>4, <1>6, <2>1
  <2> QED
    BY <2>1, <2>2 DEF JumpsBack
<1>7. InText(pc)' /\ used'[Here'] => JumpsBack(Here, pc - 4)'
  BY <1>4, <1>6 DEF Here, JumpsBack
<1> QED
  BY <1>1, <1>5, <1>7 DEF LandInv

LEMMA LandFirst == Init => LandInv
<1> SUFFICES ASSUME Init PROVE LandInv
  OBVIOUS
<1>1. pc = 0 /\ prevPC = 0 /\ pending = Nothing /\ status = "random"
      /\ used = [s \in Slots |-> FALSE]
  BY DEF Init
<1>2. InText(pc) => Here \in Slots
  BY <1>1, Sizes, SlotsAndAddresses DEF Here
<1>3. ~(InText(pc) /\ used[Here])
  BY <1>1, <1>2
<1> QED
  BY <1>1, <1>3 DEF LandInv

LEMMA LandStep ==
  ASSUME TypeOK, DirectedInv, LandInv, [Next]_vars
  PROVE  LandInv'
<1> SUFFICES ASSUME status' \in Generating, NothingUnchecked' PROVE LandInv'
  BY DEF LandInv
<1>1. NothingUnchecked
  BY StillNothing
<1>2. CASE UNCHANGED vars
  BY <1>2 DEF vars, memVars, callVars, LandInv, NothingUnchecked, Unchecked, SignExtend, InText,
         Here, SlotOf, JumpsBack
<1>3. CASE Begin
  <2>1. /\ pending = Nothing /\ InText(pc) /\ pc \in Word
        /\ UNCHANGED <<made, used, instr, text, pc, prevPC, status>>
    BY <1>3 DEF Begin, Ready, memVars, TypeOK, MemOK
  <2>2. ~used[Here] /\ (Here + 1 \in Slots => ~used[Here + 1])
    <3>1. Here \in Slots
      BY <2>1, Successors
    <3> QED
      BY <1>3, <3>1 DEF Begin, Room, Pair, Taken
  <2>3. status = "syscall" => used[SlotOf(prevPC)]
    BY <1>1, <2>1 DEF LandInv, Generating
  <2> QED
    BY <1>1, <2>1, <2>2, <2>3 DEF LandInv, JumpsBack, Here, SlotOf, InText
<1>4. CASE BeginElsewhere
  BY <1>1, <1>4, LandElsewhere
<1>5. CASE NoRoom \/ Astray \/ Halted \/ DivideByZero
  BY <1>5, Endings, StopTyped
<1>6. CASE GenR \/ GenI \/ GenJType
  <2>1. pending # Nothing /\ status \in {"random", "user"}
    BY <1>6 DEF GenR, GenI, GenJType, Accepted
  <2> QED
    BY <1>1, <1>6, <2>1, LandsInRoom, LandPlaced
<1>7. ASSUME NEW g \in Draws, Redraw(g) PROVE LandInv'
  <2>1. /\ pending # Nothing /\ status = "random"
        /\ UNCHANGED <<made, used, instr, text, pc, prevPC, status>>
    BY <1>7 DEF Redraw, memVars
  <2> QED
    BY <1>1, <2>1 DEF LandInv, JumpsBack, Here, SlotOf, InText, Generating
<1>8. ASSUME NEW c \in Calls, Call(c) PROVE LandInv'
  <2>1. UNCHANGED <<made, used, instr, text, pc, prevPC, pending, status>>
    BY <1>8 DEF Call, memVars
  <2> QED
    BY <1>1, <2>1 DEF LandInv, JumpsBack, Here, SlotOf, InText
<1>9. CASE GenUserTest \/ GenEndSeq
  <2>1. /\ pending = Nothing /\ status \in {"random", "user"} /\ status' \in {"user", "code"}
        /\ UNCHANGED <<made, used, instr, text, pc, prevPC, pending>>
    BY <1>9 DEF GenUserTest, GenEndSeq, Advance, memVars
  <2> QED
    BY <1>1, <2>1 DEF LandInv, JumpsBack, Here, SlotOf, InText, Generating
<1>10. CASE LoadExitCode
  BY <1>1, <1>10, LandExitCode
<1>11. CASE PutSyscall
  BY <1>11 DEF PutSyscall, EndStep, Generating
<1> QED
  BY <1>2, <1>3, <1>4, <1>5, <1>6, <1>7, <1>8, <1>9, <1>10, <1>11 DEF Next

\* LandsOnNoInstruction holds of every test: whatever is drawn and asked for, as long as no
\* error is reported and nothing unchecked asked for, each instruction stays where it was put.
THEOREM NothingOverwritten == Spec => []LandsOnNoInstruction
<1>1. Init => TypeOK /\ DirectedInv /\ LandInv
  BY TypeInit, LandFirst DEF Init, DirectedInv
<1>2. TypeOK /\ DirectedInv /\ LandInv /\ [Next]_vars => TypeOK' /\ DirectedInv' /\ LandInv'
  BY TypeStep, DirectedStep, LandStep
<1>3. LandInv => LandsOnNoInstruction
  BY DEF LandInv, LandsOnNoInstruction, JumpsBack
<1> QED
  BY <1>1, <1>2, <1>3, PTL DEF Spec

-----------------------------------------------------------------------------
(* How many instructions there are *)

Delivered == {s \in Slots : used[s] /\ instr[s].op # "J"}

CountInv == status \in {"random", "user"} /\ NothingUnchecked =>
              Cardinality(Delivered) = made - gen["j"]

LEMMA DeliveredFinite == IsFiniteSet(Delivered) /\ Cardinality(Delivered) \in Nat
<1>1. IsFiniteSet(Slots)
  BY Sizes, FS_Interval DEF Slots
<1>2. IsFiniteSet(Delivered)
  BY <1>1, FS_Subset DEF Delivered
<1> QED
  BY <1>2, FS_CardinalityType

\* Where nothing but a jump is, a word that is put counts as one unless it is a jump
LEMMA DeliveredPut ==
  ASSUME TypeOK, Here \in Slots, Here \notin Delivered, NEW word,
         used' = [used EXCEPT ![Here] = TRUE], instr' = [instr EXCEPT ![Here] = word]
  PROVE  Cardinality(Delivered)' = IF word.op = "J" THEN Cardinality(Delivered)
                                   ELSE Cardinality(Delivered) + 1
<1>1. used \in [Slots -> BOOLEAN] /\ instr \in [Slots -> Words \cup {Empty}]
  BY DEF TypeOK, MemOK
<1>2. /\ used'[Here] /\ instr'[Here] = word
      /\ \A s \in Slots : s # Here => used'[s] = used[s] /\ instr'[s] = instr[s]
  BY <1>1
<1>3. CASE word.op = "J"
  <2>1. Delivered' = Delivered
    BY <1>2, <1>3 DEF Delivered, Slots
  <2> QED
    BY <1>3, <2>1
<1>4. CASE word.op # "J"
  <2>1. Delivered' = Delivered \cup {Here}
    BY <1>2, <1>4 DEF Delivered, Slots
  <2>2. Cardinality(Delivered \cup {Here}) = Cardinality(Delivered) + 1
    BY DeliveredFinite, FS_AddElement
  <2> QED
    BY <1>4, <2>1, <2>2
<1> QED
  BY <1>3, <1>4

LEMMA OnlyJumpsHere ==
  ASSUME TypeOK, LandInv, NothingUnchecked, status \in {"random", "user"}, InText(pc)
  PROVE  Here \in Slots /\ Here \notin Delivered
<1>1. Here \in Slots
  BY SlotsAndAddresses DEF Here, TypeOK, MemOK
<1>2. used[Here] => text[Here].op = "J" /\ instr[Here] = text[Here]
  BY <1>1 DEF LandInv, Generating, JumpsBack
<1> QED
  BY <1>1, <1>2 DEF Delivered

LEMMA CountGenerate ==
  ASSUME TypeOK, LandInv, CountInv, NothingUnchecked,
         pending # Nothing, status \in {"random", "user"},
         NEW next, NEW hits, NEW result, Generate(next, hits, result)
  PROVE  CountInv'
<1> DEFINE word == [op |-> pending.op, next |-> next]
           k == KindOf(pending.op)
<1>1. Here \in Slots /\ Here \notin Delivered
  BY OnlyJumpsHere DEF LandInv, Generating
<1>2. /\ used' = [used EXCEPT ![Here] = TRUE] /\ instr' = [instr EXCEPT ![Here] = word]
      /\ made' = made + 1
      /\ gen' = IF status = "random" THEN [gen EXCEPT ![k] = gen[k] + 1] ELSE gen
  BY FileFollows DEF Generate, Put
<1>3. gen \in [Kinds -> Nat] /\ made \in Nat /\ "j" \in Kinds
  BY KindsOfOps DEF TypeOK
<1>4. Cardinality(Delivered) = made - gen["j"]
  BY DEF CountInv
<1>5. word.op = pending.op /\ pending.op \in Ops /\ (status = "user" => pending.op \in ROps \cup IOps)
  BY PendingPlaceable
<1>6. pending.op = "J" => k = "j"
  BY KindsOfOps
<1>7. pending.op # "J" => k \in {"r", "i"}
  BY <1>5, KindsOfOps, Groups DEF Ops
<1> HIDE DEF k, word
<1>8. CASE pending.op = "J"
  <2>1. Cardinality(Delivered)' = Cardinality(Delivered)
    BY <1>1, <1>2, <1>5, <1>8, DeliveredPut
  <2>2. gen'["j"] = gen["j"] + 1
    BY <1>2, <1>3, <1>5, <1>6, <1>8, Groups
  <2> QED
    BY <1>2, <1>3, <1>4, <2>1, <2>2 DEF CountInv
<1>9. CASE pending.op # "J"
  <2>1. Cardinality(Delivered)' = Cardinality(Delivered) + 1
    BY <1>1, <1>2, <1>5, <1>9, DeliveredPut
  <2>2. gen'["j"] = gen["j"]
    BY <1>2, <1>3, <1>7, <1>9
  <2> QED
    BY <1>2, <1>3, <1>4, <2>1, <2>2 DEF CountInv
<1> QED
  BY <1>8, <1>9

LEMMA CountElsewhere ==
  ASSUME TypeOK, LandInv, CountInv, NothingUnchecked, BeginElsewhere
  PROVE  CountInv'
<1> SUFFICES ASSUME status \in {"random", "user"} PROVE CountInv'
  BY DEF CountInv, BeginElsewhere
<1>1. /\ InText(pc) /\ prevPC = pc /\ UNCHANGED <<made, gen>>
  BY DEF BeginElsewhere, LandInv, Generating
<1>2. Here \in Slots /\ Here \notin Delivered
  BY <1>1, OnlyJumpsHere
<1>3. PICK s : Put("J", s, {}, regs, SlotOf(prevPC))
  BY DEF BeginElsewhere, JumpToRoom
<1> DEFINE word == [op |-> "J", next |-> s]
<1>4. /\ used' = [used EXCEPT ![Here] = TRUE] /\ instr' = [instr EXCEPT ![Here] = word]
      /\ word.op = "J"
  BY <1>1, <1>3 DEF Put, Here
<1> HIDE DEF word
<1>5. Cardinality(Delivered)' = Cardinality(Delivered)
  BY <1>2, <1>4, DeliveredPut
<1> QED
  BY <1>1, <1>5 DEF CountInv

LEMMA CountStep ==
  ASSUME TypeOK, LandInv, CountInv, [Next]_vars
  PROVE  CountInv'
<1> SUFFICES ASSUME status' \in {"random", "user"}, NothingUnchecked' PROVE CountInv'
  BY DEF CountInv
<1>1. NothingUnchecked
  BY StillNothing
<1>2. CASE GenR \/ GenI \/ GenJType
  <2>1. pending # Nothing /\ status \in {"random", "user"}
    BY <1>2 DEF GenR, GenI, GenJType, Accepted
  <2>2. \E next, hits, result : Generate(next, hits, result)
    BY <1>2 DEF GenR, GenI, GenJType
  <2> QED
    BY <1>1, <2>1, <2>2, CountGenerate
<1>3. CASE BeginElsewhere
  BY <1>1, <1>3, CountElsewhere
<1>4. CASE NoRoom \/ Astray \/ Halted \/ DivideByZero
  BY <1>4, Endings, StopTyped DEF Generating
<1>5. ASSUME status \in {"random", "user"}, UNCHANGED <<made, gen, used, instr>>
      PROVE  CountInv'
  BY <1>1, <1>5 DEF CountInv, Delivered
<1>6. CASE Begin \/ GenUserTest \/ UNCHANGED vars
  BY <1>5, <1>6 DEF Begin, GenUserTest, Advance, vars, memVars
<1>7. ASSUME NEW g \in Draws, Redraw(g) PROVE CountInv'
  BY <1>5, <1>7 DEF Redraw, memVars
<1>8. ASSUME NEW c \in Calls, Call(c) PROVE CountInv'
  BY <1>5, <1>8 DEF Call, memVars
<1>9. CASE GenEndSeq \/ LoadExitCode \/ PutSyscall
  BY <1>9 DEF GenEndSeq, Advance, LoadExitCode, PutSyscall, EndStep
<1> QED
  BY <1>2, <1>3, <1>4, <1>6, <1>7, <1>8, <1>9 DEF Next

\* MixDelivered holds of every test: the file has all that was drawn and asked for, however
\* many jumps make_room has put between, and those alone.
THEOREM MixCounted == Spec => []MixDelivered
<1>1. Init => TypeOK /\ DirectedInv /\ LandInv /\ CountInv
  <2> SUFFICES ASSUME Init PROVE CountInv
    BY TypeInit, LandFirst DEF Init, DirectedInv
  <2>1. Delivered = {} /\ made = 0 /\ gen["j"] = 0
    BY KindsOfOps DEF Init, Delivered
  <2> QED
    BY <2>1, FS_EmptySet DEF CountInv
<1>2. TypeOK /\ DirectedInv /\ LandInv /\ CountInv /\ [Next]_vars =>
        TypeOK' /\ DirectedInv' /\ LandInv' /\ CountInv'
  BY TypeStep, DirectedStep, LandStep, CountStep
<1>3. CountInv => MixDelivered
  BY DEF CountInv, MixDelivered, Delivered
<1> QED
  BY <1>1, <1>2, <1>3, PTL DEF Spec

-----------------------------------------------------------------------------
(* Placing on a path *)

\* A slot without an instruction holds nothing in the file
FreeInv == \A s \in Slots : ~used[s] => instr[s] = Empty

LEMMA FreeStep ==
  ASSUME TypeOK, FreeInv, [Next]_vars
  PROVE  FreeInv'
<1>1. used \in [Slots -> BOOLEAN] /\ instr \in [Slots -> Words \cup {Empty}]
  BY DEF TypeOK, MemOK
<1>2. ASSUME NEW word, NEW at, used' = [used EXCEPT ![at] = TRUE], instr' = [instr EXCEPT ![at] = word]
      PROVE  FreeInv'
  BY <1>1, <1>2 DEF FreeInv, Slots
<1>3. \A op, next, hits, result, at : Put(op, next, hits, result, at) => FreeInv'
  BY <1>2 DEF Put
<1>4. \A op, next, hits, result, at : PutBefore(op, next, hits, result, at) => FreeInv'
  BY <1>2 DEF PutBefore
<1>5. UNCHANGED <<used, instr>> => FreeInv'
  BY DEF FreeInv, Slots
<1>6. CASE BeginElsewhere
  BY <1>3, <1>6 DEF BeginElsewhere, JumpToRoom
<1>7. CASE GenR \/ GenI \/ GenJType
  <2>1. \A next, hits, result : Generate(next, hits, result) => FreeInv'
    BY <1>3 DEF Generate
  <2> QED
    BY <1>7, <2>1 DEF GenR, GenI, GenJType
<1>8. CASE LoadExitCode \/ PutSyscall
  BY <1>4, <1>8 DEF LoadExitCode, PutSyscall, EndStep
<1> QED
  BY <1>5, <1>6, <1>7, <1>8 DEF Next, Begin, NoRoom, Astray, Halted, DivideByZero, Redraw, Call,
     GenUserTest, GenEndSeq, Stop, Advance, vars, memVars

PathInv == TypeOK /\ DirectedInv /\ LandInv /\ FreeInv

\* Where control is in the text the slot holds nothing, or a jump
LEMMA OpenHere ==
  ASSUME TypeOK, LandInv, FreeInv, NothingUnchecked, status \in {"random", "user"}, InText(pc)
  PROVE  Here \in Slots /\ Path!Open(instr[Here])
<1>1. Here \in Slots
  BY SlotsAndAddresses DEF Here, TypeOK, MemOK
<1>2. CASE ~used[Here]
  BY <1>1, <1>2 DEF FreeInv, Path!Open
<1>3. CASE used[Here]
  <2>1. text[Here].op = "J" /\ instr[Here] = text[Here]
    BY <1>1, <1>3 DEF LandInv, Generating, JumpsBack
  <2>2. instr[Here] \in Words
    <3>1. instr[Here] \in Words \cup {Empty}
      BY <1>1 DEF TypeOK, MemOK
    <3>2. Empty.op # "J"
      BY DEF Empty
    <3> QED
      BY <2>1, <3>1, <3>2
  <2>3. instr[Here] \in [op : {"J"}, next : Word]
    BY <2>1, <2>2 DEF Words
  <2> QED
    BY <1>1, <2>3 DEF Path!Open
<1> QED
  BY <1>1, <1>2, <1>3

\* A word that is put where control is, is placed on the path
LEMMA PlacedOnPath ==
  ASSUME PathInv, PathInv', NothingUnchecked, NothingUnchecked', InText(pc),
         status \in {"random", "user"}, status' = status,
         NEW word, word # Empty, instr' = [instr EXCEPT ![Here] = word]
  PROVE  Path!Place
<1> DEFINE at == IF InText(pc) THEN Here ELSE NumSlots
<1>1. Here \in Slots /\ Path!Open(instr[Here])
  BY OpenHere DEF PathInv
<1>2. InText(pc)' => Here' \in Slots /\ Path!Open(instr[Here])'
  <2> SUFFICES ASSUME InText(pc)' PROVE Here' \in Slots /\ Path!Open(instr[Here])'
    OBVIOUS
  <2>1. TypeOK' /\ LandInv' /\ FreeInv' /\ NothingUnchecked' /\ status' \in {"random", "user"}
    BY DEF PathInv
  <2>2. Here' \in Slots
    BY <2>1, SlotsAndAddresses DEF Here, TypeOK, MemOK, InText, SlotOf, TextEnd
  <2>3. CASE ~used'[Here']
    BY <2>1, <2>2, <2>3 DEF FreeInv, Path!Open
  <2>4. CASE used'[Here']
    <3>1. text'[Here'].op = "J" /\ instr'[Here'] = text'[Here']
      BY <2>1, <2>2, <2>4 DEF LandInv, Generating, JumpsBack
    <3>2. instr'[Here'] \in Words
      <4>1. instr'[Here'] \in Words \cup {Empty}
        BY <2>1, <2>2 DEF TypeOK, MemOK
      <4>2. Empty.op # "J"
        BY DEF Empty
      <4> QED
        BY <3>1, <4>1, <4>2
    <3>3. instr'[Here'] \in [op : {"J"}, next : Word]
      BY <3>1, <3>2 DEF Words
    <3> QED
      BY <2>2, <3>3 DEF Path!Open
  <2> QED
    BY <2>2, <2>3, <2>4
<1>3. Path!Slots = Slots /\ NumSlots \notin Slots
  BY Sizes DEF Path!Slots, Slots
<1>4. instr'[Here] = word
  <2>1. instr \in [Slots -> Words \cup {Empty}]
    BY DEF PathInv, TypeOK, MemOK
  <2> QED
    BY <1>1, <2>1
<1>5. at' = IF InText(pc)' THEN Here' ELSE NumSlots
  OBVIOUS
<1> QED
  BY <1>1, <1>2, <1>3, <1>4 DEF Path!Place, Path!Open

LEMMA PathStep ==
  ASSUME PathInv, PathInv', [Next]_vars
  PROVE  OnPath
<1> SUFFICES ASSUME status \in {"random", "user"}, NothingUnchecked'
             PROVE  Path!Place \/ UNCHANGED Path!pathVars
  BY DEF OnPath
<1>1. NothingUnchecked
  BY StillNothing DEF PathInv
<1>2. UNCHANGED <<instr, pc>> => UNCHANGED Path!pathVars
  BY DEF Path!pathVars, InText, Here, SlotOf, TextEnd
<1>3. CASE GenR \/ GenI \/ GenJType
  <2>1. PICK next, hits, result : Generate(next, hits, result)
    BY <1>3 DEF GenR, GenI, GenJType
  <2>2. pending # Nothing /\ pending.op \in Ops /\ InText(pc)
    <3>1. pending # Nothing
      BY <1>3 DEF GenR, GenI, GenJType, Accepted
    <3> QED
      BY <1>1, <3>1, PendingPlaceable DEF PathInv, LandInv, Generating
  <2> DEFINE word == [op |-> pending.op, next |-> next]
  <2>3. instr' = [instr EXCEPT ![Here] = word] /\ status' = status
    BY <1>1, <2>1, <2>2, FileFollows DEF PathInv, Generate, Put
  <2>4. word # Empty
    <3>1. pending.op # "none"
      BY <2>2, KindsOfOps
    <3>2. word.op # Empty.op
      BY <3>1 DEF Empty
    <3> QED
      BY <3>2
  <2> HIDE DEF word
  <2> QED
    BY <1>1, <2>2, <2>3, <2>4, PlacedOnPath
<1>4. CASE BeginElsewhere
  <2>1. InText(pc) /\ prevPC = pc /\ status' = status
    BY <1>1, <1>4 DEF BeginElsewhere, PathInv, LandInv, Generating
  <2>2. PICK s : Put("J", s, {}, regs, SlotOf(prevPC))
    BY <1>4 DEF BeginElsewhere, JumpToRoom
  <2> DEFINE word == [op |-> "J", next |-> s]
  <2>3. instr' = [instr EXCEPT ![Here] = word]
    BY <2>1, <2>2 DEF Put, Here
  <2>4. word # Empty
    <3>1. word.op # Empty.op
      BY DEF Empty
    <3> QED
      BY <3>1
  <2> HIDE DEF word
  <2> QED
    BY <1>1, <2>1, <2>3, <2>4, PlacedOnPath
<1>5. CASE LoadExitCode \/ PutSyscall
  BY <1>5 DEF LoadExitCode, PutSyscall
<1> QED
  BY <1>2, <1>3, <1>4, <1>5 DEF Next, Begin, NoRoom, Astray, Halted, DivideByZero, Redraw, Call,
     GenUserTest, GenEndSeq, Stop, Advance, vars, memVars

\* GeneratesPath holds of every test: up to the end sequence, as long as no error is
\* reported and nothing unchecked asked for, the generator implements SlotPath, its jumps of
\* make_room and its branches and jumps wherever they lead included.
THEOREM GeneratesAPath == Spec => GeneratesPath
<1>1. Init => PathInv /\ Path!Init
  <2> SUFFICES ASSUME Init PROVE PathInv /\ Path!Init
    OBVIOUS
  <2>1. TypeOK /\ DirectedInv /\ LandInv
    BY TypeInit, LandFirst DEF Init, DirectedInv
  <2>2. FreeInv
    BY DEF Init, FreeInv
  <2>3. pc = 0 /\ pc \in Word /\ instr = [s \in Slots |-> Empty]
    BY Sizes DEF Init
  <2>4. InText(pc) /\ Here = 0
    BY <2>3, Sizes DEF InText, Here, SlotOf, TextEnd
  <2>5. Path!Init
    BY <2>3, <2>4 DEF Path!Init, Path!Slots, Slots
  <2> QED
    BY <2>1, <2>2, <2>5 DEF PathInv
<1>2. PathInv /\ [Next]_vars => PathInv'
  BY TypeStep, DirectedStep, LandStep, FreeStep DEF PathInv
<1>3. PathInv /\ PathInv' /\ [Next]_vars => OnPath
  BY PathStep
<1> QED
  BY <1>1, <1>2, <1>3, PTL DEF Spec, GeneratesPath
=============================================================================
