----------------------------- MODULE MCRVHexGen -----------------------------
(***************************************************************************)
(* Instances of RVHexGen: eight slots, so that the data are the addresses  *)
(* 0..30 and the text begins at 32, and immediates of four bits, half as   *)
(* many as there are addresses of data, as in the code.                    *)
(***************************************************************************)
EXTENDS RVHexGen

Mix(n) == {w \in [Kinds -> 0..n] :
             w["r"] + w["i"] + w["s"] + w["b"] + w["u"] + w["j"] = n}
Asks(w, kinds) == \A k \in Kinds \ kinds : w[k] = 0

\* Mixtures of up to three instructions, and branches that fill the memory.  No branch goes
\* to itself, and a jump goes to the next slot, where it may: the checks are of another
\* target than the one that is reached.
SmallMixes  == UNION {Mix(n) : n \in 1..2} \cup {w \in Mix(3) : Asks(w, Kinds \ {"j"})}
BranchMixes == {w \in Mix(6) : Asks(w, {"b", "r"})}
MCMixes     == SmallMixes \cup BranchMixes

\* A word of the data and one above it
SampleValues == {0, 16, 36}

Offsets   == {1, 3, 4, 7} \cup {-3, -1}
Positive  == {2, 4, 7}
=============================================================================
