------------------------------- MODULE SlotPath -------------------------------
(***************************************************************************)
(* What a test generator promises about the program memory it fills: every *)
(* word goes to the slot that control has reached, control never passes to *)
(* a slot that holds an instruction, and so no instruction is overwritten. *)
(* Only a filler, a jump that the generator itself puts between two        *)
(* instructions, may be.  Control may also leave the memory; then nothing  *)
(* is placed any more.                                                     *)
(***************************************************************************)
EXTENDS Integers

CONSTANTS
  NumSlots,     \* slots of the program memory
  Free,         \* what a slot holds before anything is placed in it
  Fillers       \* the jumps between instructions

VARIABLES
  words,        \* the program
  at            \* the slot that control has reached

pathVars == <<words, at>>

Slots == 0..(NumSlots - 1)
Open(w) == w = Free \/ w \in Fillers

Init ==
  /\ words = [s \in Slots |-> Free]
  /\ at = 0

Place ==
  /\ at \in Slots
  /\ Open(words[at]) /\ words'[at] # Free
  /\ words' = [words EXCEPT ![at] = words'[at]]
  /\ at' \in Slots => Open(words'[at'])

Spec == Init /\ [][Place]_pathVars
=============================================================================
