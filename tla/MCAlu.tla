-------------------------------- MODULE MCAlu --------------------------------
(***************************************************************************)
(* RVArithmetic for TLC, over every pair of operands of a word.            *)
(***************************************************************************)
EXTENDS RVArithmetic, MCAssembler

\* The constants that the cfg gives make the ALU that of RVAlu
ASSUME InstanceAssumption == AluWired
=============================================================================
