--------------------------- MODULE BranchPredictor ---------------------------
(***************************************************************************)
(* one_level_bpred.v and the two_bit_sat_counter.v inside it: a table of   *)
(* two-bit counters and a branch target buffer, both indexed by the low    *)
(* bits of the pc.  The file is the same in the RISC-V and the MIPS        *)
(* pipelines, and so is this module.                                       *)
(***************************************************************************)
EXTENDS Integers

CONSTANTS
  WordSize,
  PredEntries   \* entries of the tables: 1024 in both pipelines

VARIABLES
  bpred,        \* the counters
  btb           \* the targets

Index(pc) == pc % PredEntries

TypeOK ==
  /\ bpred \in [0..(PredEntries - 1) -> 0..3]
  /\ btb   \in [0..(PredEntries - 1) -> 0..(WordSize - 1)]

\* boot_code clears both tables; a reset of the CPU does not
Init ==
  /\ bpred = [i \in 0..(PredEntries - 1) |-> 0]
  /\ btb   = [i \in 0..(PredEntries - 1) |-> 0]

\* The counter's next value: correct is the port op
NextCount(count, correct) ==
  CASE count = 0 -> IF correct THEN 0 ELSE 1
    [] count = 1 -> IF correct THEN 0 ELSE 2
    [] count = 2 -> IF correct THEN 3 ELSE 1
    [] count = 3 -> IF correct THEN 3 ELSE 2

PredictTaken(pc)  == bpred[Index(pc)] >= 2
PredictTarget(pc) == IF PredictTaken(pc) THEN btb[Index(pc)] ELSE 0

\* (mutant) the target is written when the prediction was correct
FeedbackSwapped(isBranch, pc, correct, target) ==
  /\ bpred' = IF isBranch
                THEN [bpred EXCEPT ![Index(pc)] = NextCount(@, correct)]
                ELSE bpred
  /\ btb'   = IF isBranch /\ correct
                THEN [btb EXCEPT ![Index(pc)] = target]
                ELSE btb

\* The clock edge: the feedback of the branch in EX, when there is one
Feedback(isBranch, pc, correct, target) ==
  /\ bpred' = IF isBranch
                THEN [bpred EXCEPT ![Index(pc)] = NextCount(@, correct)]
                ELSE bpred
  /\ btb'   = IF isBranch /\ ~correct
                THEN [btb EXCEPT ![Index(pc)] = target]
                ELSE btb
=============================================================================
