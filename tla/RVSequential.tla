----------------------------- MODULE RVSequential -----------------------------
(***************************************************************************)
(* What the pipeline promises: a machine that executes one instruction at  *)
(* a time, each seeing every effect of the ones before it.  Its step is    *)
(* the meaning the control table gives the instruction (ANDI writes        *)
(* nothing, JALR writes its link and goes on); prediction, forwarding,     *)
(* flushing and the stages are not there.                                  *)
(***************************************************************************)
EXTENDS RVIsa

VARIABLES
  prog,     \* the program
  apc,      \* the address of the next instruction to execute
  aregs,    \* the registers
  admem     \* the data memory, by words

avars == <<prog, apc, aregs, admem>>

TypeOK ==
  /\ prog \in Program
  /\ apc \in Word
  /\ aregs \in [Reg -> Word]
  /\ admem \in [DmemWords -> Word]

Init == TypeOK /\ apc = TextBase /\ aregs[0] = 0

\* The instruction at apc, in one step
Execute ==
  LET i   == Imem(prog, apc)
      a   == aregs[i.rs1]
      b   == aregs[i.rs2]
      res == Result(i, apc, a, b)
      val == CASE WbSel(i) = "alu" -> res
               [] WbSel(i) = "seq" -> SeqPC(apc)
               [] WbSel(i) = "mem" -> admem[DmemIndex(res)]
  IN  /\ IsValid(i)
      /\ apc' = IF IsJump(i) \/ Taken(i, apc, a, b) THEN Target(prog, apc)
                                                    ELSE SeqPC(apc)
      /\ aregs' = IF RfEn(i) /\ i.rd # 0 THEN [aregs EXCEPT ![i.rd] = val] ELSE aregs
      /\ admem' = IF MemWr(i) THEN [admem EXCEPT ![DmemIndex(res)] = b] ELSE admem
      /\ UNCHANGED prog

\* A reset restarts the program; the registers and the memory keep no promise
\* about the instructions that were in flight
Restart ==
  /\ apc' = TextBase
  /\ aregs' \in [Reg -> Word] /\ aregs'[0] = 0
  /\ admem' \in [DmemWords -> Word]
  /\ UNCHANGED prog

Next == Execute \/ Restart
Spec == Init /\ [][Next]_avars
=============================================================================
