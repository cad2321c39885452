------------------------------- MODULE RVAdder -------------------------------
(***************************************************************************)
(* The gates that add: adder.v, a chain of the four-bit blocks of          *)
(* carry_lookahead_adder.v, with carry_lookahead_gen.v and                 *)
(* reduced_full_adder.v inside each.  The pipeline adds with it in the     *)
(* ALU, for the sequential pc and for the targets of jumps and branches.   *)
(* The MIPS processors have the same four files.                           *)
(***************************************************************************)
EXTENDS Binary

\* The word is cut into blocks of four bits
Blocks == WordBits \div 4

\* reduced_full_adder: generate, propagate and the sum of one bit
G(x, y, k) == On(x, k) /\ On(y, k)
P(x, y, k) == On(x, k) \/ On(y, k)
BitSum(x, y, k, cin) ==
  LET half == P(x, y, k) /\ ~G(x, y, k)
  IN  (cin \/ half) /\ ~(cin /\ half)

\* (mutant) a carry that crosses two propagating bits is lost
LookAheadShort(g, p, cin) ==
  [k \in 0..3 |->
     CASE k = 0 -> cin
       [] k = 1 -> g[0] \/ (p[0] /\ cin)
       [] k = 2 -> g[1] \/ (p[1] /\ g[0])
       [] k = 3 -> g[2] \/ (p[2] /\ g[1]) \/ (p[2] /\ p[1] /\ g[0])]

\* carry_lookahead_gen: the carries into bits 0 to 3 of a block, from its g and p
LookAhead(g, p, cin) ==
  [k \in 0..3 |->
     CASE k = 0 -> cin
       [] k = 1 -> g[0] \/ (p[0] /\ cin)
       [] k = 2 -> g[1] \/ (p[1] /\ g[0]) \/ (p[1] /\ p[0] /\ cin)
       [] k = 3 -> \/ g[2] \/ (p[2] /\ g[1]) \/ (p[2] /\ p[1] /\ g[0])
                   \/ (p[2] /\ p[1] /\ p[0] /\ cin)]

\* carry_lookahead_adder on the block of bits from 4 * blk: the carries into its
\* bits, and the carry out
BlockCarries(x, y, blk, cin) ==
  LookAhead([k \in 0..3 |-> G(x, y, 4 * blk + k)],
            [k \in 0..3 |-> P(x, y, 4 * blk + k)], cin)
BlockOut(x, y, blk, cin) ==
  \/ G(x, y, 4 * blk + 3)
  \/ P(x, y, 4 * blk + 3) /\ BlockCarries(x, y, blk, cin)[3]

\* adder: the carry into each block, the sum bit by bit, the carry and v_flag
CarryInto(x, y, cin) ==
  LET c[blk \in 0..Blocks] == IF blk = 0 THEN cin
                              ELSE BlockOut(x, y, blk - 1, c[blk - 1])
  IN  c
CarryBit(x, y, cin, k) ==
  BlockCarries(x, y, k \div 4, CarryInto(x, y, cin)[k \div 4])[k % 4]
SumBit(x, y, cin, k) == BitSum(x, y, k, CarryBit(x, y, cin, k))
Carry(x, y, cin) == CarryInto(x, y, cin)[Blocks]
VFlag(x, y, cin) == CarryBit(x, y, cin, WordBits - 1) # Carry(x, y, cin)
=============================================================================
