---------------------------- MODULE MIPSSequential ----------------------------
(***************************************************************************)
(* What the MIPS processors promise: a machine that executes one            *)
(* instruction at a time, each seeing every effect of the ones before it.   *)
(* Its step is the meaning the control table gives the instruction;         *)
(* prediction, forwarding, flushing and the stages are not there.           *)
(***************************************************************************)
EXTENDS MIPSIsa

VARIABLES
  prog,     \* the program
  apc,      \* the address of the next instruction to execute
  aregs,    \* the registers
  admem     \* the data memory, by words

avars == <<prog, apc, aregs, admem>>

TypeOK ==
  /\ prog \in Program
  /\ apc \in Word
  /\ aregs \in [Reg -> Word]
  /\ admem \in [DmemWords -> Word]

Init == TypeOK /\ apc = 0 /\ aregs[0] = 0

\* What an instruction at pc writes, from its two registers
WritesReg(i) == (RegWr(i) \/ UsesLink(i)) /\ Dest(i) # 0
RegValue(i, pc, p1, p2, m) ==
  CASE UsesLink(i) -> SeqPC(pc)
    [] MemToReg(i) /\ ~UsesLink(i)  -> m[DmemIndex(Result(i, p1, p2))]
    [] ~MemToReg(i) /\ ~UsesLink(i) -> Result(i, p1, p2)

\* The instruction at apc, in one step
Execute ==
  LET i == Imem(prog, apc)
      a == aregs[Port1(i)]
      b == aregs[Port2(i)]
  IN  /\ i.op # "NONE"
      /\ apc' = IF IsJump(i) \/ Taken(i, a, b) THEN Target(prog, apc) ELSE SeqPC(apc)
      /\ aregs' = IF WritesReg(i)
                    THEN [aregs EXCEPT ![Dest(i)] = RegValue(i, apc, a, b, admem)]
                    ELSE aregs
      /\ admem' = IF MemWr(i) THEN [admem EXCEPT ![DmemIndex(Result(i, a, b))] = b] ELSE admem
      /\ UNCHANGED prog

\* A reset restarts the program; the registers and the memory keep no promise
\* about the instructions that were in flight
Restart ==
  /\ apc' = 0
  /\ aregs' \in [Reg -> Word] /\ aregs'[0] = 0
  /\ admem' \in [DmemWords -> Word]
  /\ UNCHANGED prog

Next == Execute \/ Restart
Spec == Init /\ [][Next]_avars
=============================================================================
