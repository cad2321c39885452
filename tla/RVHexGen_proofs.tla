--------------------------- MODULE RVHexGen_proofs ---------------------------
(***************************************************************************)
(* The RISC-V generator never loses an instruction it has placed and       *)
(* counts what it places, for every memory, mixture and set of draws       *)
(* without JAL, JALR and branches to themselves.  The file is what the     *)
(* simulator has executed, with any jumps, if no immediate is negative.    *)
(***************************************************************************)
EXTENDS RVHexGen, FiniteSetTheorems, TLAPS

NoJumps == Drawn \cap {"JAL", "JALR"} = {} /\ 0 \notin BranchOffsets

-----------------------------------------------------------------------------
(* Addresses and slots *)

LEMMA SlotsAndAddresses ==
  /\ \A a \in Word : InText(a) => SlotOf(a) \in Slots /\ a = TextBase + 4 * SlotOf(a)
  /\ \A s \in Slots : /\ TextBase + 4 * s \in Word
                      /\ AddrOf(s) = TextBase + 4 * s
                      /\ InText(TextBase + 4 * s)
                      /\ SlotOf(TextBase + 4 * s) = s
  BY HexGenAssumption, SMTT(30) DEF Word, InText, SlotOf, Slots, TextBase, TextEnd, AddrOf

\* Where control goes from a slot: to the next one or out of the memory, or to the
\* slot a jump names
LEMMA Successors ==
  ASSUME pc \in Word, InText(pc)
  PROVE  /\ Seq \in Word
         /\ InText(Seq) => SlotOf(Seq) = Here + 1 /\ Seq = pc + 4
         /\ \A s \in Slots : Ahead(s - Here) = TextBase + 4 * s
         /\ ~AtEnd
<1>1. Here \in Slots /\ pc = TextBase + 4 * Here
  BY SlotsAndAddresses DEF Here
<1>2. /\ NumSlots \in Nat /\ Tail \in 1..(NumSlots - 1) /\ WordSize \in Nat
      /\ WordSize >= 8 * NumSlots /\ TextBase = 4 * NumSlots
  BY HexGenAssumption DEF TextBase
<1>3. pc + 4 \in 0..WordSize
  BY <1>1, <1>2 DEF Slots
<1>4. Seq = IF pc + 4 = WordSize THEN 0 ELSE pc + 4
  BY <1>2, <1>3 DEF Seq
<1>5. Seq \in Word
  BY <1>2, <1>3, <1>4 DEF Word
<1>6. InText(Seq) => Seq = pc + 4
  BY <1>2, <1>4 DEF InText
<1>7. InText(Seq) => SlotOf(Seq) = Here + 1
  <2> SUFFICES ASSUME InText(Seq) PROVE SlotOf(Seq) = Here + 1
    OBVIOUS
  <2>1. SlotOf(Seq) \in Slots /\ Seq = TextBase + 4 * SlotOf(Seq)
    BY <1>5, SlotsAndAddresses
  <2> QED
    BY <2>1, <1>1, <1>2, <1>6 DEF Slots
<1>8. ASSUME NEW s \in Slots PROVE Ahead(s - Here) = TextBase + 4 * s
  <2>1. pc + 4 * (s - Here) = TextBase + 4 * s
    BY <1>1, <1>2 DEF Slots
  <2>2. TextBase + 4 * s \in 0..(WordSize - 1)
    BY SlotsAndAddresses DEF Word
  <2> QED
    BY <2>1, <2>2, <1>2 DEF Ahead
<1>9. ~AtEnd
  BY <1>1, <1>2 DEF AtEnd, Slots
<1> QED
  BY <1>5, <1>6, <1>7, <1>8, <1>9

-----------------------------------------------------------------------------
(* Type correctness *)

LEMMA WrapsAround == \A x \in Int : x % WordSize \in Word
<1>1. WordSize \in Nat /\ WordSize > 0
  BY HexGenAssumption
<1> QED
  BY <1>1 DEF Word

LEMMA FieldsOfRecord ==
  ASSUME NEW ops, NEW rds, NEW bases, NEW imms, NEW offsets, NEW outcomes,
         NEW f \in Fields(ops, rds, bases, imms, offsets, outcomes)
  PROVE  /\ f.op \in Drawn /\ f.op \in ops /\ f.rd \in rds /\ f.rs \in bases
         /\ f.imm \in imms /\ f.d \in offsets
  BY DEF Fields

LEMMA DrawnFields ==
  /\ \A f \in Draws : /\ f.op \in Drawn /\ f.rd \in Reg /\ f.rs \in Reg
                      /\ f.imm \in Int /\ f.d \in Int
                      /\ f.op = "BRANCH" => f.d \in BranchOffsets
                      /\ f # Nothing
  /\ Nothing.op \notin Ops
<1>1. /\ 0 \in Reg /\ \A op \in Drawn : op \in Ops
      /\ \A i \in Imms : i \in Int
      /\ \A d \in BranchOffsets \cup JumpOffsets : d \in Int
  BY HexGenAssumption DEF Reg
<1>2. Nothing.op \notin Ops
  BY DEF Nothing, Ops
<1>3. ASSUME NEW f \in Draws
      PROVE  /\ f.op \in Drawn /\ f.rd \in Reg /\ f.rs \in Reg
             /\ f.imm \in Int /\ f.d \in Int
             /\ f.op = "BRANCH" => f.d \in BranchOffsets
  <2> DEFINE Typed(f_1) ==
               /\ f_1.op \in Drawn /\ f_1.rd \in Reg /\ f_1.rs \in Reg
               /\ f_1.imm \in Int /\ f_1.d \in Int
               /\ f_1.op = "BRANCH" => f_1.d \in BranchOffsets
  <2>1. ASSUME NEW g \in Fields({"R", "ALUI", "U"}, Reg, {0}, {0}, {0}, {FALSE}) PROVE Typed(g)
    <3>1. /\ g.op \in Drawn /\ g.op \in {"R", "ALUI", "U"}
          /\ g.rd \in Reg /\ g.rs \in {0} /\ g.imm \in {0} /\ g.d \in {0}
      BY FieldsOfRecord
    <3> QED
      BY <3>1, <1>1
  <2>2. ASSUME NEW g \in Fields({"LW", "JALR"}, Reg, Reg, Imms, {0}, {FALSE}) PROVE Typed(g)
    <3>1. /\ g.op \in Drawn /\ g.op \in {"LW", "JALR"}
          /\ g.rd \in Reg /\ g.rs \in Reg /\ g.imm \in Imms /\ g.d \in {0}
      BY FieldsOfRecord
    <3> QED
      BY <3>1, <1>1
  <2>3. ASSUME NEW g \in Fields({"SW"}, {0}, Reg, Imms, {0}, {FALSE}) PROVE Typed(g)
    <3>1. /\ g.op \in Drawn /\ g.op \in {"SW"}
          /\ g.rd \in {0} /\ g.rs \in Reg /\ g.imm \in Imms /\ g.d \in {0}
      BY FieldsOfRecord
    <3> QED
      BY <3>1, <1>1
  <2>4. ASSUME NEW g \in Fields({"BRANCH"}, {0}, {0}, {0}, BranchOffsets, BranchResults) PROVE Typed(g)
    <3>1. /\ g.op \in Drawn /\ g.op \in {"BRANCH"}
          /\ g.rd \in {0} /\ g.rs \in {0} /\ g.imm \in {0} /\ g.d \in BranchOffsets
      BY FieldsOfRecord
    <3> QED
      BY <3>1, <1>1
  <2>5. ASSUME NEW g \in Fields({"JAL"}, Reg, {0}, {0}, JumpOffsets, {FALSE}) PROVE Typed(g)
    <3>1. /\ g.op \in Drawn /\ g.op \in {"JAL"}
          /\ g.rd \in Reg /\ g.rs \in {0} /\ g.imm \in {0} /\ g.d \in JumpOffsets
      BY FieldsOfRecord
    <3> QED
      BY <3>1, <1>1
  <2> HIDE DEF Typed
  <2>6. Typed(f)
    BY <2>1, <2>2, <2>3, <2>4, <2>5 DEF Draws
  <2> QED
    BY <2>6 DEF Typed
<1>4. ASSUME NEW f \in Draws PROVE f # Nothing
  BY <1>1, <1>2, <1>3
<1> QED
  BY <1>2, <1>3, <1>4

\* What running one instruction does to the types
LEMMA ExecuteTyped ==
  ASSUME TypeOK, NEW op \in Ops, NEW next \in Word, NEW hits, NEW at,
         Execute(op, next, hits, at)
  PROVE  /\ used' \in [Slots -> BOOLEAN]
         /\ instr' \in [Slots -> Words \cup {Empty}]
         /\ text' \in [Slots -> Words \cup {Empty, Data}]
         /\ pc' \in Word /\ prevPC' \in Word
<1> DEFINE word == [op |-> op, next |-> next]
<1>1. word \in Words
  BY DEF Words
<1> QED
  BY <1>1 DEF Execute, TypeOK

LEMMA WrittenTyped ==
  ASSUME TypeOK, NEW rd \in Reg, NEW v \in Word
  PROVE  Written(rd, v) \in [Reg -> Word]
  BY DEF TypeOK, Written

LEMMA GenerateTyped ==
  ASSUME TypeOK, pending \in Draws, NEW k \in Kinds, NEW next \in Word, NEW hits,
         NEW result \in [Reg -> Word], Generate(k, next, hits, result)
  PROVE  TypeOK'
<1>1. pending.op \in Ops
  BY DrawnFields, HexGenAssumption
<1>2. PICK at : Execute(pending.op, next, hits, at)
  BY DEF Generate
<1>3. gen' \in [Kinds -> Nat] /\ pending' = Nothing /\ regs' \in [Reg -> Word]
      /\ UNCHANGED <<want, status>>
  BY DEF Generate, TypeOK
<1> QED
  BY <1>1, <1>2, <1>3, ExecuteTyped DEF TypeOK

LEMMA PendingDrawn ==
  ASSUME TypeOK, NEW ops, ops \subseteq Ops, Accepted(ops)
  PROVE  pending \in Draws /\ pending.op \in ops
  BY DrawnFields DEF TypeOK, Accepted

LEMMA TypeStep == TypeOK /\ [Next]_vars => TypeOK'
<1> SUFFICES ASSUME TypeOK, [Next]_vars PROVE TypeOK'
  OBVIOUS
<1>1. pc \in Int /\ \A r \in Reg : regs[r] \in Int
  BY HexGenAssumption DEF TypeOK, Word
<1>2. Seq \in Word /\ \A d \in Int : Ahead(d) \in Word
  BY <1>1, WrapsAround DEF Seq, Ahead
<1>3. Values \subseteq Word
  BY HexGenAssumption DEF Word
<1>4. /\ {"R"} \subseteq Ops /\ {"U"} \subseteq Ops /\ {"ALUI", "LW"} \subseteq Ops
      /\ {"JALR"} \subseteq Ops /\ {"SW"} \subseteq Ops /\ {"BRANCH"} \subseteq Ops
      /\ {"JAL"} \subseteq Ops
      /\ {"r", "i", "s", "b", "u", "j"} = Kinds
  BY DEF Ops, Kinds
<1>5. regs \in [Reg -> Word]
  BY DEF TypeOK
<1>6. CASE UNCHANGED vars
  BY <1>6 DEF vars, TypeOK
<1>7. ASSUME NEW k \in Kinds, Begin(k) PROVE TypeOK'
  BY <1>7 DEF Begin, Draw, TypeOK
<1>8. ASSUME NEW k \in Kinds, BeginElsewhere(k) PROVE TypeOK'
  <2>1. PICK beyond \in BOOLEAN : JumpToRoom(beyond)
    BY <1>8 DEF BeginElsewhere
  <2>2. PICK s \in Pairs(beyond) : /\ Execute("JAL", GenJ(s), {}, SlotOf(prevPC))
                                 /\ \E rd \in Reg : regs' = Written(rd, Seq)
    BY <2>1 DEF JumpToRoom
  <2>3. s \in Slots /\ InText(pc) /\ pc \in Word
    BY <1>8 DEF Pairs, BeginElsewhere, TypeOK
  <2>4. GenJ(s) \in Word
    BY <2>3, SlotsAndAddresses, Successors DEF GenJ
  <2>5. regs' \in [Reg -> Word]
    BY <2>2, <1>2, WrittenTyped
  <2>6. pending' \in Draws /\ UNCHANGED <<want, gen, status>>
    BY <1>8 DEF BeginElsewhere, Draw
  <2> QED
    BY <2>2, <2>4, <2>5, <2>6, <1>4, ExecuteTyped DEF TypeOK
<1>9. ASSUME NEW k \in Kinds, NoRoom(k) \/ Astray(k) PROVE TypeOK'
  BY <1>9 DEF NoRoom, Astray, TypeOK
<1>10. CASE GenR
  <2>1. pending \in Draws /\ pending.rd \in Reg
    BY <1>10, <1>4, PendingDrawn, DrawnFields DEF GenR
  <2>2. PICK v \in Values : Generate("r", Seq, {}, Written(pending.rd, v))
    BY <1>10 DEF GenR
  <2> QED
    BY <2>1, <2>2, <1>2, <1>3, <1>4, WrittenTyped, GenerateTyped
<1>11. CASE GenU
  <2>1. pending \in Draws /\ pending.rd \in Reg
    BY <1>11, <1>4, PendingDrawn, DrawnFields DEF GenU
  <2>2. PICK v \in Values : Generate("u", Seq, {}, Written(pending.rd, v))
    BY <1>11 DEF GenU
  <2> QED
    BY <2>1, <2>2, <1>2, <1>3, <1>4, WrittenTyped, GenerateTyped
<1>12. CASE GenI
  <2>1. CASE Accepted({"ALUI", "LW"})
             /\ \E v \in Values : Generate("i", Seq, {}, Written(pending.rd, v))
    <3>1. pending \in Draws /\ pending.rd \in Reg
      BY <2>1, <1>4, PendingDrawn, DrawnFields
    <3> QED
      BY <2>1, <3>1, <1>2, <1>3, <1>4, WrittenTyped, GenerateTyped
  <2>2. CASE Accepted({"JALR"})
             /\ Generate("i", (regs[pending.rs] + SignExtend(pending.imm)) % WordSize, {},
                         Written(pending.rd, Seq))
    <3>1. pending \in Draws /\ pending.rd \in Reg /\ pending.rs \in Reg /\ pending.imm \in Int
      BY <2>2, <1>4, PendingDrawn, DrawnFields
    <3>2. SignExtend(pending.imm) \in Int
      BY <3>1, HexGenAssumption DEF SignExtend
    <3>3. (regs[pending.rs] + SignExtend(pending.imm)) % WordSize \in Word
      BY <3>1, <3>2, <1>1, WrapsAround
    <3>4. Written(pending.rd, Seq) \in [Reg -> Word]
      BY <3>1, <1>2, WrittenTyped
    <3> QED
      BY <2>2, <3>1, <3>3, <3>4, <1>4, GenerateTyped
  <2> QED
    BY <1>12, <2>1, <2>2 DEF GenI
<1>13. CASE GenS
  <2>1. pending \in Draws
    BY <1>13, <1>4, PendingDrawn DEF GenS
  <2> QED
    BY <1>13, <2>1, <1>2, <1>4, <1>5, GenerateTyped DEF GenS
<1>14. CASE GenB
  <2>1. pending \in Draws /\ pending.d \in Int
    BY <1>14, <1>4, PendingDrawn, DrawnFields DEF GenB
  <2>2. (IF pending.taken THEN Ahead(pending.d) ELSE Seq) \in Word
    BY <2>1, <1>2
  <2> QED
    BY <1>14, <2>1, <2>2, <1>4, <1>5, GenerateTyped DEF GenB
<1>15. CASE GenJType
  <2>1. pending \in Draws /\ pending.d \in Int /\ pending.rd \in Reg
    BY <1>15, <1>4, PendingDrawn, DrawnFields DEF GenJType
  <2>2. Ahead(pending.d) \in Word /\ Written(pending.rd, Seq) \in [Reg -> Word]
    BY <2>1, <1>2, WrittenTyped
  <2> QED
    BY <1>15, <2>1, <2>2, <1>4, GenerateTyped DEF GenJType
<1>16. ASSUME NEW g \in Draws, Redraw(g) PROVE TypeOK'
  BY <1>16 DEF Redraw, TypeOK
<1>17. CASE Finish
  BY <1>17 DEF Finish, TypeOK
<1> QED
  BY <1>6, <1>7, <1>8, <1>9, <1>10, <1>11, <1>12, <1>13, <1>14, <1>15, <1>16, <1>17 DEF Next

LEMMA TypeInit == Init => TypeOK
<1>1. TextBase \in Word /\ 0 \in Word
  BY HexGenAssumption DEF TextBase, Word
<1> QED
  BY <1>1 DEF Init, TypeOK

\* TypeOK holds of every generation: every mixture, every set of draws.
THEOREM TypeCorrect == Spec => []TypeOK
  BY TypeInit, TypeStep, PTL DEF Spec

-----------------------------------------------------------------------------
(* Nothing is overwritten.  An instruction is emitted at a free slot, and what *)
(* follows that slot is free too or the jump of make_room that led there.      *)

JumpsBack(s, a) == instr[s].op = "JAL" /\ instr[s].next = a

LandInv ==
  /\ prevPC = pc
  /\ \A s \in Slots : used[s] <=> instr[s] # Empty
  /\ Sum = 0 => pc = TextBase /\ \A s \in Slots : ~used[s]
  /\ LandsOnNoInstruction
  /\ pending # Nothing =>
       /\ status = "generating" /\ InText(pc) /\ ~used[Here]
       /\ Here + 1 \in Slots /\ used[Here + 1] => JumpsBack(Here + 1, pc)

\* Where an instruction may send control: to the next slot, out of the memory, or to
\* another free slot
Leads(next) ==
  \/ next = Seq
  \/ \E t \in Slots : t # Here /\ ~used[t] /\ next = TextBase + 4 * t

\* A word placed at the pc, and control where Leads allows it
LEMMA PlacedWord ==
  ASSUME TypeOK, InText(pc), NEW op \in Ops, NEW next \in Word, NEW hits,
         Execute(op, next, hits, Here)
  PROVE  /\ Here \in Slots
         /\ [op |-> op, next |-> next] # Empty
         /\ instr' = [instr EXCEPT ![Here] = [op |-> op, next |-> next]]
         /\ instr'[Here] = [op |-> op, next |-> next]
         /\ used' = [used EXCEPT ![Here] = TRUE]
         /\ pc' = next /\ prevPC' = pc'
         /\ instr \in [Slots -> Words \cup {Empty}] /\ used \in [Slots -> BOOLEAN]
<1>1. Here \in Slots
  BY SlotsAndAddresses DEF TypeOK, Here
<1>2. [op |-> op, next |-> next] # Empty
  <2>1. op # "none"
    BY DEF Ops
  <2> QED
    BY <2>1 DEF Empty
<1>3. instr \in [Slots -> Words \cup {Empty}] /\ used \in [Slots -> BOOLEAN]
  BY DEF TypeOK
<1> QED
  BY <1>1, <1>2, <1>3 DEF Execute

LEMMA UsedIsPlaced ==
  ASSUME TypeOK, InText(pc), NEW op \in Ops, NEW next \in Word, NEW hits,
         Execute(op, next, hits, Here),
         \A s \in Slots : used[s] <=> instr[s] # Empty
  PROVE  \A s \in Slots : used'[s] <=> instr'[s] # Empty
  BY PlacedWord

LEMMA SumGrows ==
  ASSUME TypeOK, NEW k \in Kinds, gen' = [gen EXCEPT ![k] = @ + 1]
  PROVE  Sum' # 0
<1>1. \A j \in Kinds : gen[j] \in Nat
  BY DEF TypeOK
<1>2. \A j \in Kinds : gen'[j] \in Nat /\ (j = k => gen'[j] > 0)
  BY <1>1 DEF TypeOK
<1>3. k \in {"r", "i", "s", "b", "u", "j"} /\ Kinds = {"r", "i", "s", "b", "u", "j"}
  BY DEF Kinds
<1> QED
  BY <1>2, <1>3 DEF Sum

\* An instruction generated at the pc keeps LandInv and is a step along the path
LEMMA GenerateLands ==
  ASSUME TypeOK, LandInv, pending \in Draws, NEW k \in Kinds, NEW next \in Word, NEW hits,
         NEW result, Generate(k, next, hits, result), Leads(next)
  PROVE  LandInv' /\ Path!Place
<1>1. /\ status = "generating" /\ InText(pc) /\ ~used[Here] /\ pc \in Word
      /\ Here + 1 \in Slots /\ used[Here + 1] => JumpsBack(Here + 1, pc)
      /\ pending.op \in Ops
  BY DrawnFields, HexGenAssumption DEF LandInv, TypeOK
<1>2. (IF Sum = 0 THEN 0 ELSE SlotOf(prevPC)) = Here
  <2>1. 0 \in Slots
    BY HexGenAssumption DEF Slots
  <2>2. SlotOf(TextBase + 4 * 0) = 0 /\ TextBase + 4 * 0 = TextBase
    BY <2>1, SlotsAndAddresses, HexGenAssumption DEF TextBase
  <2>3. Sum = 0 => Here = 0
    BY <2>2 DEF LandInv, Here
  <2> QED
    BY <2>3 DEF LandInv, Here
<1>3. Execute(pending.op, next, hits, Here)
  BY <1>2 DEF Generate
<1>4. /\ Here \in Slots
      /\ instr' = [instr EXCEPT ![Here] = [op |-> pending.op, next |-> next]]
      /\ instr'[Here] # Empty
      /\ used' = [used EXCEPT ![Here] = TRUE]
      /\ pc' = next /\ prevPC' = pc'
      /\ instr \in [Slots -> Words \cup {Empty}] /\ used \in [Slots -> BOOLEAN]
  BY <1>1, <1>3, PlacedWord
<1>5. \A s \in Slots : used'[s] <=> instr'[s] # Empty
  BY <1>1, <1>3, UsedIsPlaced DEF LandInv
<1>6. Sum' # 0
  BY SumGrows DEF Generate
<1>7. ASSUME InText(pc'), used'[SlotOf(pc')]
      PROVE  instr'[SlotOf(pc')].op = "JAL" /\ instr'[SlotOf(pc')].next = pc' - 4
  <2>1. CASE next = Seq
    <3>1. SlotOf(pc') = Here + 1 /\ pc' = pc + 4 /\ SlotOf(pc') \in Slots /\ pc \in Int
      BY <1>1, <1>4, <1>7, <2>1, Successors, SlotsAndAddresses, HexGenAssumption DEF Word
    <3>2. Here + 1 # Here
      BY <1>4, HexGenAssumption DEF Slots
    <3>3. used[Here + 1] /\ instr'[Here + 1] = instr[Here + 1]
      BY <1>4, <1>7, <3>1, <3>2
    <3>4. pc' - 4 = pc
      BY <3>1
    <3> QED
      BY <1>1, <3>1, <3>3, <3>4 DEF JumpsBack
  <2>2. CASE \E t \in Slots : t # Here /\ ~used[t] /\ next = TextBase + 4 * t
    <3>1. PICK t \in Slots : t # Here /\ ~used[t] /\ next = TextBase + 4 * t
      BY <2>2
    <3>2. SlotOf(pc') = t
      BY <1>4, <3>1, SlotsAndAddresses
    <3> QED
      BY <1>4, <1>7, <3>1, <3>2
  <2> QED
    BY <2>1, <2>2 DEF Leads
<1>8. LandInv'
  BY <1>4, <1>5, <1>6, <1>7 DEF LandInv, LandsOnNoInstruction, Here, Generate
<1>9. Path!Place
  <2>1. instr[Here] = Empty
    BY <1>1, <1>4 DEF LandInv
  <2>2. ASSUME InText(pc'), pc' \in Word
        PROVE  Path!Open(instr'[SlotOf(pc')])
    <3>1. SlotOf(pc') \in Slots
      BY <2>2, SlotsAndAddresses
    <3>2. CASE ~used'[SlotOf(pc')]
      BY <1>5, <3>1, <3>2 DEF Path!Open
    <3>3. CASE used'[SlotOf(pc')]
      <4>1. instr' \in [Slots -> Words \cup {Empty}] /\ Empty.op # "JAL"
        BY <1>1, <1>3, ExecuteTyped DEF Empty
      <4>2. instr'[SlotOf(pc')] \in Words /\ instr'[SlotOf(pc')].op = "JAL"
        BY <1>7, <2>2, <3>1, <3>3, <4>1
      <4> QED
        BY <4>2 DEF Path!Open, Words
    <3> QED
      BY <3>2, <3>3
  <2>3. NumSlots \notin Path!Slots /\ Path!Slots = Slots
    BY HexGenAssumption DEF Path!Slots, Slots
  <2>4. instr' = [instr EXCEPT ![Here] = instr'[Here]]
    BY <1>4
  <2>5. pc' \in Word
    BY <1>4
  <2>6. Path!Open(instr[Here])
    BY <2>1 DEF Path!Open
  <2> QED
    BY <1>1, <1>4, <2>2, <2>3, <2>4, <2>5, <2>6 DEF Path!Place, Here
<1> QED
  BY <1>8, <1>9

\* A jump of make_room does so too, and leaves a pair of which at most its own slot is used
LEMMA RoomLands ==
  ASSUME TypeOK, LandInv, NEW k \in Kinds, BeginElsewhere(k)
  PROVE  LandInv' /\ Path!Place
<1>1. /\ status = "generating" /\ pending = Nothing /\ InText(pc) /\ pc \in Word
      /\ prevPC = pc
  BY DEF BeginElsewhere, Ready, TypeOK, LandInv
<1>2. PICK beyond \in BOOLEAN : (~Pair(Here, beyond) \/ AtEnd) /\ JumpToRoom(beyond)
  BY DEF BeginElsewhere
<1>3. PICK s \in Pairs(beyond) : Execute("JAL", GenJ(s), {}, Here)
  BY <1>1, <1>2 DEF JumpToRoom, Here
<1>4. /\ s \in Slots /\ ~used[s] /\ s # Here
      /\ s + 1 \in Slots => ~used[s + 1]
  BY <1>1, <1>2, Successors DEF Pairs, Pair, Taken
<1>5. GenJ(s) = TextBase + 4 * s /\ GenJ(s) \in Word /\ "JAL" \in Ops
  BY <1>1, <1>4, Successors, SlotsAndAddresses DEF GenJ, Ops
<1>6. /\ Here \in Slots
      /\ instr' = [instr EXCEPT ![Here] = [op |-> "JAL", next |-> GenJ(s)]]
      /\ instr'[Here] = [op |-> "JAL", next |-> GenJ(s)]
      /\ instr'[Here] # Empty
      /\ used' = [used EXCEPT ![Here] = TRUE]
      /\ pc' = GenJ(s) /\ prevPC' = pc'
      /\ instr \in [Slots -> Words \cup {Empty}] /\ used \in [Slots -> BOOLEAN]
  BY <1>1, <1>3, <1>5, PlacedWord
<1>7. \A t \in Slots : used'[t] <=> instr'[t] # Empty
  BY <1>1, <1>3, <1>5, UsedIsPlaced DEF LandInv
<1>8. SlotOf(pc') = s /\ InText(pc')
  BY <1>4, <1>5, <1>6, SlotsAndAddresses
<1>9. Sum # 0
  <2>1. 0 \in Slots /\ 1 \in Slots
    BY HexGenAssumption DEF Slots
  <2>2. SlotOf(TextBase + 4 * 0) = 0 /\ TextBase + 4 * 0 = TextBase
    BY <2>1, SlotsAndAddresses, HexGenAssumption DEF TextBase
  <2>3. Sum = 0 => Here = 0 /\ ~used[0] /\ ~used[1]
    BY <2>1, <2>2 DEF LandInv, Here
  <2> QED
    BY <1>1, <1>2, <2>1, <2>3, Successors DEF Pair, Taken
<1>10. gen' = gen /\ status' = status
  BY DEF BeginElsewhere
<1>11. Sum' # 0
  BY <1>9, <1>10 DEF Sum
<1>12. ~used'[s]
  BY <1>4, <1>6
<1>13. ASSUME s + 1 \in Slots, used'[s + 1]
       PROVE  instr'[s + 1].op = "JAL" /\ instr'[s + 1].next = pc'
  <2>1. s + 1 = Here
    BY <1>4, <1>6, <1>13
  <2> QED
    BY <1>6, <2>1
<1>14. LandInv'
  BY <1>1, <1>6, <1>7, <1>8, <1>10, <1>11, <1>12, <1>13
     DEF LandInv, LandsOnNoInstruction, Here, JumpsBack
<1>15. Path!Place
  <2>1. Path!Open(instr[Here])
    <3>1. CASE ~used[Here]
      BY <1>6, <3>1 DEF LandInv, Path!Open
    <3>2. CASE used[Here]
      <4>1. instr[Here].op = "JAL" /\ instr[Here] # Empty
        BY <1>1, <1>6, <3>2 DEF LandInv, LandsOnNoInstruction
      <4> QED
        BY <1>6, <4>1 DEF Path!Open, Words
    <3> QED
      BY <3>1, <3>2
  <2>2. Path!Open(instr'[s])
    BY <1>4, <1>7, <1>12 DEF Path!Open
  <2>3. Path!Slots = Slots
    BY DEF Path!Slots, Slots
  <2> QED
    BY <1>1, <1>6, <1>8, <2>1, <2>2, <2>3 DEF Path!Place, Here
<1> QED
  BY <1>14, <1>15

LEMMA LandStep ==
  ASSUME NoJumps, TypeOK, LandInv, [Next]_vars
  PROVE  LandInv' /\ [Path!Place]_(Path!pathVars)
<1> USE DEF Path!pathVars
<1>1. CASE UNCHANGED vars
  BY <1>1 DEF vars, LandInv, LandsOnNoInstruction, Here, Sum, JumpsBack
<1>2. ASSUME NEW k \in Kinds, Begin(k) PROVE LandInv' /\ UNCHANGED Path!pathVars
  <2>1. PICK beyond \in BOOLEAN : Pair(Here, beyond)
    BY <1>2 DEF Begin
  <2>2. Here \in Slots
    BY <1>2, SlotsAndAddresses DEF Begin, TypeOK, Here
  <2>3. ~used[Here] /\ (Here + 1 \in Slots => ~used[Here + 1])
    BY <2>1, <2>2 DEF Pair, Taken
  <2>4. UNCHANGED <<gen, used, instr, pc, prevPC, status>> /\ InText(pc) /\ status = "generating"
    BY <1>2 DEF Begin, Ready
  <2> QED
    BY <2>3, <2>4 DEF LandInv, LandsOnNoInstruction, Here, Sum, JumpsBack
<1>3. ASSUME NEW k \in Kinds, BeginElsewhere(k) PROVE LandInv' /\ Path!Place
  BY <1>3, RoomLands
<1>4. ASSUME NEW k \in Kinds, NoRoom(k) \/ Astray(k) PROVE LandInv' /\ UNCHANGED Path!pathVars
  <2>1. pending = Nothing /\ status' # "generating"
        /\ UNCHANGED <<gen, used, instr, pc, prevPC, pending>>
    BY <1>4 DEF NoRoom, Astray, Ready
  <2> QED
    BY <2>1 DEF LandInv, LandsOnNoInstruction, Here, Sum, JumpsBack
<1>5. CASE Finish
  <2>1. pending = Nothing /\ status' # "generating"
        /\ UNCHANGED <<gen, used, instr, pc, prevPC, pending>>
    BY <1>5 DEF Finish
  <2> QED
    BY <2>1 DEF LandInv, LandsOnNoInstruction, Here, Sum, JumpsBack
<1>6. ASSUME NEW g \in Draws, Redraw(g) PROVE LandInv' /\ UNCHANGED Path!pathVars
  <2>1. pending # Nothing /\ UNCHANGED <<gen, used, instr, pc, prevPC, status>>
    BY <1>6 DEF Redraw
  <2> QED
    BY <2>1 DEF LandInv, LandsOnNoInstruction, Here, Sum, JumpsBack
<1>7. ASSUME pending # Nothing
      PROVE  pc \in Word /\ InText(pc) /\ Seq \in Word /\ Leads(Seq) /\ Here \in Slots
  BY <1>7, Successors, SlotsAndAddresses DEF LandInv, TypeOK, Leads, Here
<1>8. ASSUME NEW ops, ops \subseteq Ops, Accepted(ops)
      PROVE  /\ pending \in Draws /\ pending # Nothing /\ pending.op \in ops
             /\ pending.op \in Drawn /\ pending.d \in Int
             /\ pending.op = "BRANCH" => pending.d \in BranchOffsets
  BY <1>8, PendingDrawn, DrawnFields
<1>9. /\ {"R"} \subseteq Ops /\ {"U"} \subseteq Ops /\ {"ALUI", "LW"} \subseteq Ops
      /\ {"JALR"} \subseteq Ops /\ {"SW"} \subseteq Ops /\ {"BRANCH"} \subseteq Ops
      /\ {"JAL"} \subseteq Ops
      /\ {"r", "i", "s", "b", "u", "j"} = Kinds
  BY DEF Ops, Kinds
<1>10. CASE GenR
  BY <1>7, <1>8, <1>9, <1>10, GenerateLands DEF GenR
<1>11. CASE GenU
  BY <1>7, <1>8, <1>9, <1>11, GenerateLands DEF GenU
<1>12. CASE GenI
  <2>1. ~Accepted({"JALR"})
    BY <1>8, <1>9 DEF NoJumps
  <2> QED
    BY <1>7, <1>8, <1>9, <1>12, <2>1, GenerateLands DEF GenI
<1>13. CASE GenS
  BY <1>7, <1>8, <1>9, <1>13, GenerateLands DEF GenS
<1>14. CASE GenB
  <2>1. pending \in Draws /\ pending # Nothing /\ pending.op = "BRANCH" /\ pending.d \in Int
        /\ pending.d # 0
    BY <1>8, <1>9, <1>14 DEF GenB, NoJumps
  <2>2. ASSUME pending.taken
        PROVE  /\ Here + pending.d \in Slots /\ ~used[Here + pending.d]
               /\ Here + pending.d # Here
               /\ Ahead(pending.d) = TextBase + 4 * (Here + pending.d)
               /\ Ahead(pending.d) \in Word
    <3>1. Targetable(Here + pending.d)
      BY <1>14, <2>1, <2>2 DEF GenB, Accepted, Verdict
    <3>2. Here + pending.d \in Slots /\ ~used[Here + pending.d]
      BY <3>1, HexGenAssumption DEF Targetable, Slots
    <3>3. Here \in Int /\ (Here + pending.d) - Here = pending.d
      BY <1>7, <2>1 DEF Slots
    <3> QED
      BY <1>7, <2>1, <3>2, <3>3, Successors, SlotsAndAddresses
  <2>3. DEFINE next == IF pending.taken THEN Ahead(pending.d) ELSE Seq
  <2>4. Leads(next) /\ next \in Word
    BY <1>7, <2>1, <2>2 DEF Leads
  <2>5. Generate("b", next, {}, regs)
    BY <1>14 DEF GenB
  <2> HIDE DEF next
  <2> QED
    BY <1>9, <2>1, <2>4, <2>5, GenerateLands
<1>15. CASE GenJType
  BY <1>8, <1>9, <1>15 DEF GenJType, NoJumps
<1> QED
  BY <1>1, <1>2, <1>3, <1>4, <1>5, <1>6, <1>10, <1>11, <1>12, <1>13, <1>14, <1>15 DEF Next

LEMMA LandInit == Init => LandInv /\ Path!Init
<1> SUFFICES ASSUME Init PROVE LandInv /\ Path!Init
  OBVIOUS
<1>1. 0 \in Slots /\ TextBase + 4 * 0 = TextBase
  BY HexGenAssumption DEF Slots, TextBase
<1>2. InText(TextBase) /\ SlotOf(TextBase) = 0
  BY <1>1, SlotsAndAddresses
<1>3. LandInv
  BY <1>1, <1>2 DEF Init, LandInv, LandsOnNoInstruction, Here, Sum
<1>4. Path!Init
  BY <1>2 DEF Init, Path!Init, Path!Slots, Slots, Here
<1> QED
  BY <1>3, <1>4

\* LandsOnNoInstruction holds for every memory, mixture and set of draws without JAL,
\* JALR and branches to themselves.
THEOREM NothingOverwritten == NoJumps => (Spec => []LandsOnNoInstruction)
<1> SUFFICES ASSUME NoJumps PROVE Spec => []LandsOnNoInstruction
  OBVIOUS
<1>1. Init => TypeOK /\ LandInv
  BY TypeInit, LandInit
<1>2. TypeOK /\ LandInv /\ [Next]_vars => TypeOK' /\ LandInv'
  BY TypeStep, LandStep
<1>3. LandInv => LandsOnNoInstruction
  BY DEF LandInv
<1> QED
  BY <1>1, <1>2, <1>3, PTL DEF Spec

\* GeneratesPath holds under the same conditions.
THEOREM GeneratesAPath == NoJumps => (Spec => GeneratesPath)
<1> SUFFICES ASSUME NoJumps PROVE Spec => GeneratesPath
  OBVIOUS
<1>1. Init => TypeOK /\ LandInv /\ Path!Init
  BY TypeInit, LandInit
<1>2. TypeOK /\ LandInv /\ [Next]_vars => TypeOK' /\ LandInv' /\ [Path!Place]_(Path!pathVars)
  BY TypeStep, LandStep
<1> QED
  BY <1>1, <1>2, PTL DEF Spec, GeneratesPath, Path!Spec
-----------------------------------------------------------------------------
(* The file is the program that ran.  A jump may lead anywhere and its target *)
(* be overwritten, in the file and in the simulator's memory alike; what      *)
(* could part the two is a store into the text.  execute_s adds the immediate *)
(* without its sign and check_ls_addr with it, so they agree on immediates    *)
(* that are not negative.                                                     *)

NoNegatives == \A i \in Imms : 2 * i < ImmSize

FileInv ==
  /\ FileIsText
  /\ Sum = 0 => pc = TextBase /\ \A s \in Slots : ~used[s]
  /\ pending # Nothing => InText(pc)

LEMMA DrawnImmediates == \A f \in Draws : f.op = "SW" => f.imm \in Imms
<1>1. ASSUME NEW f \in Draws, f.op = "SW" PROVE f.imm \in Imms
  <2>1. CASE f \in Fields({"SW"}, {0}, Reg, Imms, {0}, {FALSE})
    BY <2>1, FieldsOfRecord
  <2>2. CASE f \in Fields({"R", "ALUI", "U"}, Reg, {0}, {0}, {0}, {FALSE})
    BY <1>1, <2>2 DEF Fields
  <2>3. CASE f \in Fields({"LW", "JALR"}, Reg, Reg, Imms, {0}, {FALSE})
    BY <1>1, <2>3 DEF Fields
  <2>4. CASE f \in Fields({"BRANCH"}, {0}, {0}, {0}, BranchOffsets, BranchResults)
    BY <1>1, <2>4 DEF Fields
  <2>5. CASE f \in Fields({"JAL"}, Reg, {0}, {0}, JumpOffsets, {FALSE})
    BY <1>1, <2>5 DEF Fields
  <2> QED
    BY <2>1, <2>2, <2>3, <2>4, <2>5 DEF Draws
<1> QED
  BY <1>1

\* A store that has passed its check leaves the text alone
LEMMA StoresMissText ==
  ASSUME NoNegatives, TypeOK, Accepted({"SW"})
  PROVE  StoreHits(regs[pending.rs], pending.imm) = {}
<1>1. pending \in Draws /\ pending.op = "SW" /\ pending.rs \in Reg /\ pending.imm \in Imms
  BY PendingDrawn, DrawnFields, DrawnImmediates DEF Ops
<1> DEFINE base == regs[pending.rs]
           a    == (base + pending.imm) % WordSize
<1>2. LsCheck(base, pending.imm) = "ok"
  BY <1>1 DEF Accepted, Verdict
<1>3. SignExtend(pending.imm) = pending.imm
  BY <1>1 DEF NoNegatives, SignExtend
<1>4. EffectiveAddr(base, pending.imm) = a - (a % 4)
  BY <1>3 DEF EffectiveAddr
<1>5. EffectiveAddr(base, pending.imm) < DataEnd
  BY <1>2 DEF LsCheck
<1>6. base \in Word /\ pending.imm \in Int
  BY <1>1, DrawnFields DEF TypeOK
<1>7. a \in Int
  BY <1>6, WrapsAround, HexGenAssumption DEF Word
<1>8. a - (a % 4) \in Int
  BY <1>7
<1> HIDE DEF a
<1>9. a - (a % 4) \notin TextBase..(TextEnd - 1)
  BY <1>4, <1>5, <1>8, HexGenAssumption DEF DataEnd, TextBase
<1> QED
  BY <1>9 DEF StoreHits, a

\* One word put at the pc and at the same slot of the file
LEMMA SameWord ==
  ASSUME TypeOK, FileIsText, InText(pc), NEW op \in Ops, NEW next \in Word,
         Execute(op, next, {}, Here)
  PROVE  FileIsText'
<1>1. /\ prevPC' = pc'
      /\ text' = [s \in Slots |-> IF s = Here THEN [op |-> op, next |-> next] ELSE text[s]]
  BY DEF Execute
<1>2. ASSUME NEW s \in Slots, used'[s] PROVE instr'[s] = text'[s]
  BY <1>1, <1>2, PlacedWord DEF FileIsText
<1> QED
  BY <1>1, <1>2 DEF FileIsText

LEMMA GenerateSame ==
  ASSUME TypeOK, FileInv, pending \in Draws, NEW k \in Kinds, NEW next \in Word,
         NEW result, Generate(k, next, {}, result)
  PROVE  FileInv'
<1>1. /\ InText(pc) /\ prevPC = pc /\ FileIsText /\ pending.op \in Ops
  BY DrawnFields, HexGenAssumption DEF FileInv, FileIsText
<1>2. (IF Sum = 0 THEN 0 ELSE SlotOf(prevPC)) = Here
  <2>1. 0 \in Slots
    BY HexGenAssumption DEF Slots
  <2>2. SlotOf(TextBase + 4 * 0) = 0 /\ TextBase + 4 * 0 = TextBase
    BY <2>1, SlotsAndAddresses, HexGenAssumption DEF TextBase
  <2> QED
    BY <1>1, <2>2 DEF FileInv, Here
<1>3. Execute(pending.op, next, {}, Here)
  BY <1>2 DEF Generate
<1>4. FileIsText'
  BY <1>1, <1>3, SameWord
<1>5. Sum' # 0 /\ pending' = Nothing
  BY SumGrows DEF Generate
<1> QED
  BY <1>4, <1>5 DEF FileInv

\* A jump of make_room is never the first instruction
LEMMA RoomSame ==
  ASSUME TypeOK, FileInv, NEW k \in Kinds, BeginElsewhere(k)
  PROVE  FileInv'
<1>1. InText(pc) /\ pc \in Word /\ prevPC = pc /\ FileIsText /\ gen' = gen
  BY DEF BeginElsewhere, TypeOK, FileInv, FileIsText
<1>2. PICK beyond \in BOOLEAN : (~Pair(Here, beyond) \/ AtEnd) /\ JumpToRoom(beyond)
  BY DEF BeginElsewhere
<1>3. PICK s \in Pairs(beyond) : Execute("JAL", GenJ(s), {}, Here)
  BY <1>1, <1>2 DEF JumpToRoom, Here
<1>4. s \in Slots /\ "JAL" \in Ops
  BY DEF Pairs, Ops
<1>5. /\ GenJ(s) = TextBase + 4 * s /\ GenJ(s) \in Word
  BY <1>1, <1>4, Successors, SlotsAndAddresses DEF GenJ
<1>6. FileIsText'
  BY <1>1, <1>3, <1>4, <1>5, SameWord
<1>7. pc' = TextBase + 4 * s
  BY <1>3, <1>5 DEF Execute
<1>8. InText(pc')
  BY <1>4, <1>7, SlotsAndAddresses
<1>9. Sum # 0
  <2>1. 0 \in Slots /\ 1 \in Slots
    BY HexGenAssumption DEF Slots
  <2>2. SlotOf(TextBase + 4 * 0) = 0 /\ TextBase + 4 * 0 = TextBase
    BY <2>1, SlotsAndAddresses, HexGenAssumption DEF TextBase
  <2>3. Sum = 0 => Here = 0 /\ ~used[0] /\ ~used[1]
    BY <2>1, <2>2 DEF FileInv, Here
  <2> QED
    BY <1>1, <1>2, <2>1, <2>3, Successors DEF Pair, Taken
<1>10. Sum' # 0
  BY <1>1, <1>9 DEF Sum
<1> QED
  BY <1>6, <1>8, <1>10 DEF FileInv

LEMMA FileStep ==
  ASSUME NoNegatives, TypeOK, FileInv, [Next]_vars
  PROVE  FileInv'
<1>1. pc \in Int /\ \A r \in Reg : regs[r] \in Int
  BY HexGenAssumption DEF TypeOK, Word
<1>2. Seq \in Word /\ \A d \in Int : Ahead(d) \in Word
  BY <1>1, WrapsAround DEF Seq, Ahead
<1>3. /\ {"R"} \subseteq Ops /\ {"U"} \subseteq Ops /\ {"ALUI", "LW"} \subseteq Ops
      /\ {"JALR"} \subseteq Ops /\ {"SW"} \subseteq Ops /\ {"BRANCH"} \subseteq Ops
      /\ {"JAL"} \subseteq Ops
      /\ {"r", "i", "s", "b", "u", "j"} = Kinds
  BY DEF Ops, Kinds
<1>4. ASSUME NEW ops, ops \subseteq Ops, Accepted(ops)
      PROVE  pending \in Draws /\ pending.rs \in Reg /\ pending.imm \in Int /\ pending.d \in Int
  BY <1>4, PendingDrawn, DrawnFields
<1>5. CASE UNCHANGED vars
  BY <1>5 DEF vars, FileInv, FileIsText, Sum
<1>6. ASSUME NEW k \in Kinds, Begin(k) PROVE FileInv'
  BY <1>6 DEF Begin, FileInv, FileIsText, Sum
<1>7. ASSUME NEW k \in Kinds, BeginElsewhere(k) PROVE FileInv'
  BY <1>7, RoomSame
<1>8. ASSUME NEW k \in Kinds, NoRoom(k) \/ Astray(k) PROVE FileInv'
  BY <1>8 DEF NoRoom, Astray, FileInv, FileIsText, Sum
<1>9. CASE GenR
  BY <1>2, <1>3, <1>4, <1>9, GenerateSame DEF GenR
<1>10. CASE GenU
  BY <1>2, <1>3, <1>4, <1>10, GenerateSame DEF GenU
<1>11. CASE GenI
  <2>1. CASE Accepted({"ALUI", "LW"})
             /\ \E v \in Values : Generate("i", Seq, {}, Written(pending.rd, v))
    BY <1>2, <1>3, <1>4, <2>1, GenerateSame
  <2>2. CASE Accepted({"JALR"})
             /\ Generate("i", (regs[pending.rs] + SignExtend(pending.imm)) % WordSize, {},
                         Written(pending.rd, Seq))
    <3>1. pending \in Draws /\ pending.rs \in Reg /\ pending.imm \in Int
      BY <1>3, <1>4, <2>2
    <3>2. SignExtend(pending.imm) \in Int
      BY <3>1, HexGenAssumption DEF SignExtend
    <3>3. (regs[pending.rs] + SignExtend(pending.imm)) % WordSize \in Word
      BY <3>1, <3>2, <1>1, WrapsAround
    <3> QED
      BY <1>3, <2>2, <3>1, <3>3, GenerateSame
  <2> QED
    BY <1>11, <2>1, <2>2 DEF GenI
<1>12. CASE GenS
  <2>1. Accepted({"SW"}) /\ Generate("s", Seq, {}, regs)
    BY <1>12, StoresMissText DEF GenS
  <2> QED
    BY <1>2, <1>3, <1>4, <2>1, GenerateSame
<1>13. CASE GenB
  <2>1. pending \in Draws /\ pending.d \in Int
    BY <1>3, <1>4, <1>13 DEF GenB
  <2>2. (IF pending.taken THEN Ahead(pending.d) ELSE Seq) \in Word
    BY <1>2, <2>1
  <2> QED
    BY <1>3, <1>13, <2>1, <2>2, GenerateSame DEF GenB
<1>14. CASE GenJType
  <2>1. pending \in Draws /\ Ahead(pending.d) \in Word
    BY <1>2, <1>3, <1>4, <1>14 DEF GenJType
  <2> QED
    BY <1>3, <1>14, <2>1, GenerateSame DEF GenJType
<1>15. ASSUME NEW g \in Draws, Redraw(g) PROVE FileInv'
  BY <1>15 DEF Redraw, FileInv, FileIsText, Sum
<1>16. CASE Finish
  BY <1>16 DEF Finish, FileInv, FileIsText, Sum
<1> QED
  BY <1>5, <1>6, <1>7, <1>8, <1>9, <1>10, <1>11, <1>12, <1>13, <1>14, <1>15, <1>16 DEF Next

\* FileIsText holds of every generation without negative immediates, wherever its jumps
\* and branches lead.
THEOREM FileIsProgram == NoNegatives => (Spec => []FileIsText)
<1> SUFFICES ASSUME NoNegatives PROVE Spec => []FileIsText
  OBVIOUS
<1>1. Init => TypeOK /\ FileInv
  BY TypeInit DEF Init, FileInv, FileIsText
<1>2. TypeOK /\ FileInv /\ [Next]_vars => TypeOK' /\ FileInv'
  BY TypeStep, FileStep
<1>3. FileInv => FileIsText
  BY DEF FileInv
<1> QED
  BY <1>1, <1>2, <1>3, PTL DEF Spec
-----------------------------------------------------------------------------
(* What the file holds of each kind.  An instruction is added at a free slot, *)
(* a jump of make_room at a free one or over another jump.                    *)

SlotsOfKind(k) == {s \in Slots : used[s] /\ KindOf(instr[s].op) = k}

LEMMA SlotsOfKindFinite == \A k : IsFiniteSet(SlotsOfKind(k))
<1>1. IsFiniteSet(Slots)
  BY HexGenAssumption, FS_Interval DEF Slots
<1> QED
  BY <1>1, FS_Subset DEF SlotsOfKind

\* The kinds of the instructions are those they are generated as
LEMMA KindsOfOps ==
  /\ KindOf("R") = "r" /\ KindOf("ALUI") = "i" /\ KindOf("LW") = "i" /\ KindOf("JALR") = "i"
  /\ KindOf("SW") = "s" /\ KindOf("BRANCH") = "b" /\ KindOf("U") = "u" /\ KindOf("JAL") = "j"
  BY DEF KindOf

\* One more of a kind that is generated into a free slot
LEMMA GenerateCounts ==
  ASSUME TypeOK, LandInv, MixDelivered, pending \in Draws, NEW k \in Kinds,
         KindOf(pending.op) = k, NEW next \in Word, NEW hits, NEW result,
         Generate(k, next, hits, result)
  PROVE  MixDelivered'
<1>1. InText(pc) /\ ~used[Here] /\ prevPC = pc /\ pending.op \in Ops
  BY DrawnFields, HexGenAssumption DEF LandInv
<1>2. (IF Sum = 0 THEN 0 ELSE SlotOf(prevPC)) = Here
  <2>1. 0 \in Slots
    BY HexGenAssumption DEF Slots
  <2>2. SlotOf(TextBase + 4 * 0) = 0 /\ TextBase + 4 * 0 = TextBase
    BY <2>1, SlotsAndAddresses, HexGenAssumption DEF TextBase
  <2> QED
    BY <1>1, <2>2 DEF LandInv, Here
<1>3. Execute(pending.op, next, hits, Here)
  BY <1>2 DEF Generate
<1>4. /\ Here \in Slots
      /\ instr' = [instr EXCEPT ![Here] = [op |-> pending.op, next |-> next]]
      /\ used' = [used EXCEPT ![Here] = TRUE]
      /\ instr \in [Slots -> Words \cup {Empty}] /\ used \in [Slots -> BOOLEAN]
  BY <1>1, <1>3, PlacedWord
<1>5. SlotsOfKind(k)' = SlotsOfKind(k) \cup {Here} /\ Here \notin SlotsOfKind(k)
  BY <1>1, <1>4 DEF SlotsOfKind
<1>6. Cardinality(SlotsOfKind(k)') = Cardinality(SlotsOfKind(k)) + 1
  BY <1>5, SlotsOfKindFinite, FS_AddElement
<1>7. ASSUME NEW j \in Kinds, j # k PROVE SlotsOfKind(j)' = SlotsOfKind(j)
  BY <1>1, <1>4, <1>7 DEF SlotsOfKind
<1>8. gen' = [gen EXCEPT ![k] = @ + 1] /\ gen \in [Kinds -> Nat]
  BY DEF Generate, TypeOK
<1>9. ASSUME NEW j \in Kinds \ {"j"} PROVE Count(j)' = gen'[j]
  <2>1. Cardinality(SlotsOfKind(j)) = gen[j]
    BY DEF MixDelivered, Count, SlotsOfKind
  <2>2. Cardinality(SlotsOfKind(j)') = gen'[j]
    BY <2>1, <1>6, <1>7, <1>8
  <2> QED
    BY <2>2 DEF Count, SlotsOfKind
<1> QED
  BY <1>9 DEF MixDelivered

\* A jump of make_room takes the place of none but a jump
LEMMA RoomCounts ==
  ASSUME TypeOK, LandInv, MixDelivered, NEW k \in Kinds, BeginElsewhere(k)
  PROVE  MixDelivered'
<1>1. /\ status = "generating" /\ InText(pc) /\ pc \in Word /\ prevPC = pc /\ gen' = gen
  BY DEF BeginElsewhere, Ready, TypeOK, LandInv
<1>2. PICK beyond \in BOOLEAN : JumpToRoom(beyond)
  BY DEF BeginElsewhere
<1>3. PICK s \in Pairs(beyond) : Execute("JAL", GenJ(s), {}, Here)
  BY <1>1, <1>2 DEF JumpToRoom, Here
<1>4. s \in Slots /\ "JAL" \in Ops
  BY DEF Pairs, Ops
<1>5. GenJ(s) \in Word
  BY <1>1, <1>4, Successors, SlotsAndAddresses DEF GenJ
<1>6. /\ Here \in Slots
      /\ instr' = [instr EXCEPT ![Here] = [op |-> "JAL", next |-> GenJ(s)]]
      /\ used' = [used EXCEPT ![Here] = TRUE]
      /\ instr \in [Slots -> Words \cup {Empty}] /\ used \in [Slots -> BOOLEAN]
  BY <1>1, <1>3, <1>4, <1>5, PlacedWord
<1>7. used[Here] => instr[Here].op = "JAL"
  BY <1>1 DEF LandInv, LandsOnNoInstruction
<1>8. ASSUME NEW j \in Kinds \ {"j"} PROVE SlotsOfKind(j)' = SlotsOfKind(j)
  BY <1>6, <1>7, KindsOfOps DEF SlotsOfKind
<1> QED
  BY <1>1, <1>8 DEF MixDelivered, Count, SlotsOfKind

LEMMA MixStep ==
  ASSUME NoJumps, TypeOK, LandInv, MixDelivered, [Next]_vars
  PROVE  MixDelivered'
<1> USE DEF MixDelivered, Count
<1>1. CASE UNCHANGED vars
  BY <1>1 DEF vars
<1>2. ASSUME NEW k \in Kinds, Begin(k) \/ NoRoom(k) \/ Astray(k) PROVE MixDelivered'
  BY <1>2 DEF Begin, NoRoom, Astray
<1>3. ASSUME NEW k \in Kinds, BeginElsewhere(k) PROVE MixDelivered'
  BY <1>3, RoomCounts
<1>4. ASSUME NEW g \in Draws, Redraw(g) PROVE MixDelivered'
  BY <1>4 DEF Redraw
<1>5. CASE Finish
  BY <1>5 DEF Finish
<1> USE DEF Ops
<1>6. ASSUME NEW ops, ops \subseteq Ops, Accepted(ops)
      PROVE  pending \in Draws /\ pending.op \in ops /\ pending.op \in Drawn /\ pending.d \in Int
  BY <1>6, PendingDrawn, DrawnFields
<1>7. {"r", "i", "s", "b", "u", "j"} = Kinds
  BY DEF Kinds
<1>8. pc \in Int
  BY HexGenAssumption DEF TypeOK, Word
<1>9. Seq \in Word /\ \A d \in Int : Ahead(d) \in Word
  BY <1>8, WrapsAround DEF Seq, Ahead
<1> HIDE DEF MixDelivered, Count
<1>10. CASE GenR
  BY <1>6, <1>7, <1>9, <1>10, KindsOfOps, GenerateCounts DEF GenR
<1>11. CASE GenU
  BY <1>6, <1>7, <1>9, <1>11, KindsOfOps, GenerateCounts DEF GenU
<1>12. CASE GenI
  <2>1. ~Accepted({"JALR"})
    BY <1>6 DEF NoJumps
  <2>2. Accepted({"ALUI", "LW"})
    BY <1>12, <2>1 DEF GenI
  <2>3. pending \in Draws /\ KindOf(pending.op) = "i"
    BY <1>6, <2>2, KindsOfOps
  <2>4. PICK v \in Values : Generate("i", Seq, {}, Written(pending.rd, v))
    BY <1>12, <2>1 DEF GenI
  <2> QED
    BY <1>7, <1>9, <2>3, <2>4, GenerateCounts
<1>13. CASE GenS
  BY <1>6, <1>7, <1>9, <1>13, KindsOfOps, GenerateCounts DEF GenS
<1>14. CASE GenB
  <2>1. pending \in Draws /\ KindOf(pending.op) = "b" /\ pending.d \in Int
    BY <1>6, <1>14, KindsOfOps DEF GenB
  <2>2. (IF pending.taken THEN Ahead(pending.d) ELSE Seq) \in Word
    BY <1>9, <2>1
  <2> QED
    BY <1>7, <1>14, <2>1, <2>2, GenerateCounts DEF GenB
<1>15. CASE GenJType
  BY <1>6, <1>15 DEF GenJType, NoJumps
<1> QED
  BY <1>1, <1>2, <1>3, <1>4, <1>5, <1>10, <1>11, <1>12, <1>13, <1>14, <1>15 DEF Next

\* MixDelivered holds where nothing is overwritten: without JAL, JALR and branches to
\* themselves the file has exactly the mixture that was asked for and counted.
THEOREM MixCounted == NoJumps => (Spec => []MixDelivered)
<1> SUFFICES ASSUME NoJumps PROVE Spec => []MixDelivered
  OBVIOUS
<1>1. Init => MixDelivered
  <2> SUFFICES ASSUME Init, NEW k \in Kinds PROVE Cardinality(SlotsOfKind(k)) = gen[k]
    BY DEF MixDelivered, Count, SlotsOfKind
  <2>1. SlotsOfKind(k) = {} /\ gen[k] = 0
    BY DEF Init, SlotsOfKind
  <2> QED
    BY <2>1, FS_EmptySet
<1>2. TypeOK /\ LandInv /\ MixDelivered /\ [Next]_vars
        => TypeOK' /\ LandInv' /\ MixDelivered'
  BY TypeStep, LandStep, MixStep
<1> QED
  BY <1>1, <1>2, TypeInit, LandInit, PTL DEF Spec
=============================================================================
