-------------------------------- MODULE Binary --------------------------------
(***************************************************************************)
(* Words in binary: what a shift by k places and the selection of bit k    *)
(* are, in Verilog and in C, on numbers.  The power of two is a recursive  *)
(* function, which can be proved about, where the operator ^ cannot.       *)
(***************************************************************************)
EXTENDS Integers

CONSTANT WordBits       \* 32

Bits == 0..(WordBits - 1)

\* The weight of a bit: x << k multiplies by it and x >> k divides by it
Pow2[k \in Nat] == IF k = 0 THEN 1 ELSE 2 * Pow2[k - 1]

\* Bit k of a number
On(x, k) == (x \div Pow2[k]) % 2 = 1
=============================================================================
