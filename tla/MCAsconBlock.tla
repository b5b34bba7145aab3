---------------------------- MODULE MCAsconBlock ----------------------------
(***************************************************************************)
(* The block operations of AsconBlock against a reference definition of    *)
(* the 64-bit operations the spec names, on the 64 bits of a block, bit 0 *)
(* the most significant (64-bit integers do not fit TLC's integers).       *)
(***************************************************************************)
EXTENDS AsconBlock

CONSTANTS
    TestBlocks,     \* the blocks the operations are checked on
    Amounts         \* the shift and rotation amounts, within 0..64

Bits(b) == [j \in 0..63 |-> (b[j \div 8] \div 2^(7 - (j % 8))) % 2]

RefRotateRight(b, n) == [j \in 0..63 |-> Bits(b)[(j - n + 64) % 64]]

\* A run picks a block and an amount; the operations are pure.
VARIABLES x, l

vars == <<x, l>>

Init == x \in TestBlocks /\ l \in Amounts

Next == UNCHANGED vars

Spec == Init /\ [][Next]_vars

\* block.ROTATE(l) is the 64-bit rotation right by l the spec defines and
\* the linear diffusion layer of ASCON (ascon.go) needs.
RotateIsRotation ==
    Bits(ROTATE(x, l)) = RefRotateRight(x, l)

\* Every block with a single bit set: a rotation must move that bit, and
\* nothing else, to its rotated place.
MCSingleBitBlocks ==
    {[i \in 0..7 |-> IF i = k THEN 2^b ELSE 0] : k \in 0..7, b \in 0..7}
\* The rotation amounts of ASCON's linear diffusion layer (the difusion
\* table of makeAscon).
MCDiffusionAmounts == {19, 28, 61, 39, 1, 6, 10, 17, 7, 41}
====
