---------------------------- MODULE MCRegression ----------------------------
(***************************************************************************)
(* Regression for TLC: three tests, of which two fail.  Three are the       *)
(* fewest in which one test takes the library from a second while a third  *)
(* keeps it.                                                               *)
(***************************************************************************)
EXTENDS Regression

MCTests   == {"basic", "stress", "textbook"}
MCFailing == {"stress", "textbook"}
=============================================================================
