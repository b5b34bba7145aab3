----------------------------- MODULE AsconBlock -----------------------------
(***************************************************************************)
(* The 8-byte block operations of src/ascon/coder/block.go, byte by byte   *)
(* as the code computes them.  The spec treats a block as a 64-bit         *)
(* big-endian integer, rotate-right by l being shift-right(l) XOR          *)
(* shift-left(64-l); MCAsconBlock checks ROTATE against that definition.   *)
(*                                                                         *)
(* A block is a function 0..7 -> 0..255, x[0] the most significant byte.    *)
(***************************************************************************)
EXTENDS Naturals, Bitwise

Byte == 0..255
Block == [0..7 -> Byte]

\* Go's shifts of a byte: the result is truncated to 8 bits, and a shift by
\* 8 or more yields 0.
ByteShl(b, s) == IF s >= 8 THEN 0 ELSE (b * 2^s) % 256
ByteShr(b, s) == IF s >= 8 THEN 0 ELSE b \div 2^s

\* block.SHIFTR: every byte shifted right by n, XORed with its left
\* neighbour shifted left by 64 - n.
SHIFTR(x, n) ==
    [i \in 0..7 |->
        IF i = 0 THEN ByteShr(x[0], n)
        ELSE ByteShr(x[i], n) ^^ ByteShl(x[i - 1], 64 - n)]

\* block.SHIFTL: every byte but the last shifted left by n, XORed with its
\* right neighbour shifted right by 64 - n; the last byte shifted right.
SHIFTL(x, n) ==
    [i \in 0..7 |->
        IF i = 7 THEN ByteShr(x[7], n)
        ELSE ByteShl(x[i], n) ^^ ByteShr(x[i + 1], 64 - n)]

\* block.XOR
XOR(x, y) == [i \in 0..7 |-> x[i] ^^ y[i]]

\* block.ROTATE
ROTATE(x, l) == XOR(SHIFTR(x, l), SHIFTL(x, 64 - l))

\* block.NOT and block.DNOT: every byte complemented.
NOT(x) == [i \in 0..7 |-> 255 - x[i]]

\* block.DAND: the bytes ANDed pairwise.
AND(x, y) == [i \in 0..7 |-> x[i] & y[i]]
====
